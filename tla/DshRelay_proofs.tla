-------------------------- MODULE DshRelay_proofs --------------------------
(***************************************************************************)
(* Proofs about DshRelay for every set of sessions and every bound on      *)
(* drivers, dsh processes, faults and closes: one driver starts the host,  *)
(* and a replacement of dsh keeps the subscriptions.                       *)
(***************************************************************************)
EXTENDS DshRelay, FiniteSetTheorems, TLAPS

Driver == [session : Sessions, cli : Nat,
           at : {"get", "wait", "start", "relay", "mux", "connect", "subscribe", "ready", "failed",
                 "closed"}]
Typed ==
    /\ Len(clients) \in Nat /\ DOMAIN clients = 1..Len(clients)
    /\ Len(drivers) \in Nat /\ drivers \in [1..Len(drivers) -> Driver]
    /\ host \in [cmd : Nat, cli : Nat]
    /\ {"at", "cmd", "cli", "strikes", "subs", "todo", "orphans"} = DOMAIN monitor
    /\ monitor.cmd \in Nat
    /\ {"host", "tokens"} = DOMAIN relay /\ relay.host \in Nat
    /\ DOMAIN handle = Sessions /\ inflight \in Nat

\* The one driver that starts the host is named by inflight, until there is a relay.
Inflight ==
    /\ \A d \in DOMAIN drivers : drivers[d].at \in {"start", "relay"} => inflight = d
    /\ inflight # 0 => /\ inflight \in DOMAIN drivers
                       /\ drivers[inflight].at \in {"start", "relay"}
                       /\ relay.host = 0
    /\ \A d \in DOMAIN drivers : drivers[d].at = "relay" => drivers[d].cli # 0

\* Before that driver has started it, there is no host and no monitor; a monitor has a
\* host and a client.
NoHostYet ==
    /\ \A d \in DOMAIN drivers : drivers[d].at = "start" => host.cli = 0 /\ monitor.at = "none"
    /\ inflight = 0 /\ relay.host = 0 => host.cli = 0 /\ monitor.at = "none"
    /\ monitor.at # "none" => host.cli # 0 /\ Len(clients) # 0

\* An AgentSession holds a driver that is ready.
HandleReady ==
    \A s \in Sessions : handle[s] # 0 =>
        /\ handle[s] \in DOMAIN drivers
        /\ drivers[handle[s]].at = "ready" /\ drivers[handle[s]].session = s

Inv == Typed /\ Inflight /\ NoHostYet /\ HandleReady

LEMMA InvInit == RelayInit => Inv
<1> SUFFICES ASSUME RelayInit PROVE Inv
  OBVIOUS
<1>1. Typed
  BY DEF RelayInit, Typed, Idle, NewClient
<1>2. Inflight /\ NoHostYet /\ HandleReady
  BY DEF RelayInit, Inflight, NoHostYet, HandleReady, Idle, NewClient
<1> QED
  BY <1>1, <1>2 DEF Inv

-----------------------------------------------------------------------------
(* The steps that start no driver.                                          *)

LEMMA Untouched ==
    ASSUME Inv, Typed', UNCHANGED <<drivers, inflight, handle, host>>, relay'.host = relay.host,
           monitor.at = "none" => monitor'.at = "none", Len(clients') >= Len(clients)
    PROVE  Inv'
BY DEF Inv, Typed, Inflight, NoHostYet, HandleReady

LEMMA MonitorKeeps ==
    ASSUME Inv, MonitorStep
    PROVE  Inv'
<1>1. CASE OwnedExits
  <2>1. Typed' /\ monitor.at # "none" /\ Len(clients') = Len(clients)
    BY <1>1 DEF OwnedExits, MonitorAt, MonitorGoes, chats, Inv, Typed, Idle
  <2> QED
    BY <1>1, <2>1, Untouched DEF OwnedExits, chats, Inv, Typed
<1>2. CASE AttachedProbe
  <2>1. Typed' /\ monitor.at # "none" /\ Len(clients') = Len(clients)
    BY <1>2 DEF AttachedProbe, MonitorAt, MonitorGoes, chats, Inv, Typed, Idle
  <2> QED
    BY <1>2, <2>1, Untouched DEF AttachedProbe, chats, Inv, Typed
<1>3. CASE SpawnOnce
  <2>1. PICK cmd \in 0..MaxProcs :
           /\ Obtain(cmd)
           /\ monitor' = [monitor EXCEPT !.cmd = cmd, !.cli = host.cli,
                              !.at = IF @ = "respawn" THEN "swap" ELSE "fallback swap"]
    BY <1>3 DEF SpawnOnce
  <2>2. Len(clients') = Len(clients) + 1 /\ DOMAIN clients' = 1..Len(clients')
    BY <2>1 DEF Obtain, Inv, Typed
  <2>3. Typed' /\ monitor.at # "none"
    BY <1>3, <2>1, <2>2 DEF SpawnOnce, chats, Inv, Typed
  <2> QED
    BY <1>3, <2>2, <2>3, Untouched DEF SpawnOnce, chats, Inv, Typed
<1>4. CASE Swap
  <2>1. Typed' /\ monitor.at # "none" /\ host'.cli # 0
    BY <1>4 DEF Swap, MonitorGoes, chats, Inv, Typed, NoHostYet
  <2> QED
    BY <1>4, <2>1 DEF Swap, chats, Inv, Typed, Inflight, NoHostYet, HandleReady
<1>5. CASE ReplaceGlobal
  <2>1. Typed' /\ monitor.at # "none" /\ (relay'.host = 0 <=> relay.host = 0)
    BY <1>5 DEF ReplaceGlobal, MonitorGoes, chats, Inv, Typed, NoHostYet
  <2> QED
    BY <1>5, <2>1 DEF ReplaceGlobal, chats, Inv, Typed, Inflight, NoHostYet, HandleReady
<1>6. CASE Snapshot
  <2>1. Typed' /\ monitor.at # "none" /\ Len(clients') = Len(clients)
    BY <1>6 DEF Snapshot, MonitorAt, MonitorGoes, chats, Inv, Typed, Idle
  <2> QED
    BY <1>6, <2>1, Untouched DEF Snapshot, chats, Inv, Typed
<1>7. CASE Transfer
  <2>1. Typed' /\ monitor.at # "none" /\ Len(clients') = Len(clients)
    BY <1>7 DEF Transfer, MonitorAt, MonitorGoes, chats, Inv, Typed, Idle
  <2> QED
    BY <1>7, <2>1, Untouched DEF Transfer, chats, Inv, Typed
<1>8. CASE CloseOld
  <2>1. Typed' /\ monitor.at # "none" /\ Len(clients') = Len(clients)
    BY <1>8 DEF CloseOld, HubCloses, MonitorAt, MonitorGoes, chats, Inv, Typed, Idle
  <2> QED
    BY <1>8, <2>1, Untouched DEF CloseOld, chats, Inv, Typed
<1>9. CASE Drained
  <2>1. Typed' /\ monitor.at # "none" /\ Len(clients') = Len(clients)
    BY <1>9 DEF Drained, MonitorAt, chats, Inv, Typed
  <2> QED
    BY <1>9, <2>1, Untouched DEF Drained, chats, Inv, Typed
<1>10. CASE Recover
  <2>1. DOMAIN clients' = DOMAIN clients /\ Len(clients') = Len(clients)
    BY <1>10 DEF Recover, Reattach, Orphan, Inv, Typed
  <2>2. DOMAIN monitor' = DOMAIN monitor /\ monitor'.cmd = monitor.cmd
    BY <1>10 DEF Recover, Reattach, Orphan, Inv, Typed
  <2>3. Typed' /\ monitor.at # "none"
    BY <1>10, <2>1, <2>2 DEF Recover, MonitorAt, chats, Inv, Typed
  <2> QED
    BY <1>10, <2>1, <2>3, Untouched DEF Recover, chats, Inv, Typed
<1>11. CASE Recovered
  <2>1. Typed' /\ monitor.at # "none" /\ Len(clients') = Len(clients)
    BY <1>11 DEF Recovered, MonitorAt, chats, Inv, Typed, Idle
  <2> QED
    BY <1>11, <2>1, Untouched DEF Recovered, chats, Inv, Typed
<1>12. CASE FallbackEnds
  <2>1. DOMAIN clients' = DOMAIN clients /\ Len(clients') = Len(clients)
    <3>1. clients' = [clients EXCEPT ![monitor.cli].at = "closing"]
      BY <1>12 DEF FallbackEnds
    <3> QED
      BY <3>1 DEF Inv, Typed
  <2>2. /\ DOMAIN monitor' = {"at", "cmd", "cli", "strikes", "subs", "todo", "orphans"}
        /\ monitor'.cmd \in Nat
    BY <1>12 DEF FallbackEnds, Inv, Typed, Idle
  <2>3. Typed' /\ monitor.at # "none"
    BY <1>12, <2>1, <2>2 DEF FallbackEnds, MonitorAt, chats, Inv, Typed
  <2>4. UNCHANGED <<drivers, inflight, handle, host, relay>>
    BY <1>12 DEF FallbackEnds, chats
  <2>5. Len(clients') >= Len(clients)
    BY <2>1 DEF Inv, Typed
  <2> QED
    BY <2>3, <2>4, <2>5, Untouched
<1> QED
  BY <1>1, <1>2, <1>3, <1>4, <1>5, <1>6, <1>7, <1>8, <1>9, <1>10, <1>11, <1>12
     DEF MonitorStep

LEMMA OthersKeep ==
    ASSUME Inv,
           \/ DshFails("none") \/ DshFails("wedged") \/ UserStartsDsh \/ ProbeTick \/ ForceKillCmd
           \/ ClientStep \/ (\E p \in DOMAIN drivers : PumpStep(p)) \/ UNCHANGED relayVars
    PROVE  Inv'
<1>1. ASSUME UNCHANGED <<clients, host, monitor, relay, chats>> PROVE Inv'
  BY <1>1, Untouched DEF chats, Inv, Typed
<1>2. CASE DshFails("none") \/ DshFails("wedged") \/ UserStartsDsh \/ ProbeTick \/ ForceKillCmd
           \/ (\E p \in DOMAIN drivers : LoadHost(p)) \/ UNCHANGED relayVars
  BY <1>1, <1>2 DEF DshFails, UserStartsDsh, ProbeTick, ForceKillCmd, LoadHost, sharedHost,
                    relayVars, chats
<1>3. ASSUME NEW p \in DOMAIN drivers, PumpSubscribe(p) PROVE Inv'
  <2>1. Typed' /\ Len(clients') = Len(clients)
    BY <1>3 DEF PumpSubscribe, sharedHost, chats, Inv, Typed
  <2> QED
    BY <1>3, <2>1, Untouched DEF PumpSubscribe, sharedHost, chats, Inv, Typed
<1>4. ASSUME NEW p \in DOMAIN drivers, HostChanged(p) PROVE Inv'
  <2>1. Typed' /\ Len(clients') = Len(clients) /\ relay'.host = relay.host
    BY <1>4 DEF HostChanged, sharedHost, chats, Inv, Typed
  <2> QED
    BY <1>4, <2>1, Untouched DEF HostChanged, sharedHost, chats, Inv, Typed
<1>5. CASE ClientStep
  <2>1. Typed' /\ Len(clients') = Len(clients)
    BY <1>5 DEF ClientStep, HubClose, HubCloses, CloseDone, sharedHost, chats, Inv, Typed
  <2> QED
    BY <1>5, <2>1, Untouched DEF ClientStep, HubClose, CloseDone, sharedHost, chats, Inv, Typed
<1> QED
  BY <1>2, <1>3, <1>4, <1>5 DEF PumpStep

-----------------------------------------------------------------------------
(* The drivers.                                                             *)

LEMMA DriverUpdate ==
    ASSUME Typed, NEW d \in DOMAIN drivers, NEW new \in Driver,
           drivers' = [drivers EXCEPT ![d] = new]
    PROVE  /\ DOMAIN drivers' = DOMAIN drivers /\ Len(drivers') = Len(drivers)
           /\ drivers' \in [1..Len(drivers') -> Driver] /\ drivers'[d] = new
           /\ \A e \in DOMAIN drivers : e # d => drivers'[e] = drivers[e]
BY DEF Typed

\* One driver goes on, at neither end of the start.
LEMMA GoesOn ==
    ASSUME Inv, NEW d \in DOMAIN drivers, NEW new \in Driver,
           drivers' = [drivers EXCEPT ![d] = new],
           drivers[d].at \notin {"start", "relay", "ready"}, new.at \notin {"start", "relay"},
           UNCHANGED <<clients, sharedHost, inflight, handle>>,
           DOMAIN relay' = DOMAIN relay, relay'.host = relay.host
    PROVE  Inv'
<1>1. Typed' /\ Len(drivers') = Len(drivers)
  BY DEF Inv, Typed, sharedHost
<1>2. /\ \A e \in DOMAIN drivers : e # d => drivers'[e] = drivers[e]
      /\ drivers'[d] = new /\ DOMAIN drivers' = DOMAIN drivers
  BY DEF Inv, Typed
<1>3. Inflight' /\ NoHostYet'
  BY <1>2 DEF Inv, Inflight, NoHostYet, sharedHost
<1>4. HandleReady'
  BY <1>2 DEF Inv, HandleReady
<1> QED
  BY <1>1, <1>3, <1>4 DEF Inv

LEMMA GetKeeps ==
    ASSUME Inv, NEW d \in DOMAIN drivers, Get(d)
    PROVE  Inv'
<1>1. drivers[d] \in Driver /\ drivers[d].at = "get"
  BY DEF Get, At, Inv, Typed
<1>2. CASE relay.host # 0
  <2> DEFINE new == [drivers[d] EXCEPT !.at = "mux"]
  <2>1. drivers' = [drivers EXCEPT ![d] = new] /\ new \in Driver /\ new.at = "mux"
    BY <1>1, <1>2 DEF Get, Goes, Driver
  <2> QED
    BY <1>1, <1>2, <2>1, GoesOn DEF Get, sharedHost
<1>3. CASE relay.host = 0 /\ inflight # 0
  <2> DEFINE new == [drivers[d] EXCEPT !.at = "wait"]
  <2>1. drivers' = [drivers EXCEPT ![d] = new] /\ new \in Driver /\ new.at = "wait"
    BY <1>1, <1>3 DEF Get, Goes, Driver
  <2> QED
    BY <1>1, <1>3, <2>1, GoesOn DEF Get, sharedHost
<1>4. CASE relay.host = 0 /\ inflight = 0
  <2> DEFINE new == [drivers[d] EXCEPT !.at = "start"]
  <2>1. drivers' = [drivers EXCEPT ![d] = new] /\ inflight' = d
    BY <1>4 DEF Get, Goes
  <2>2. new \in Driver /\ new.at = "start"
    BY <1>1 DEF Driver
  <2> HIDE DEF new
  <2>3. /\ DOMAIN drivers' = DOMAIN drivers /\ Len(drivers') = Len(drivers)
        /\ drivers' \in [1..Len(drivers') -> Driver] /\ drivers'[d].at = "start"
        /\ \A e \in DOMAIN drivers : e # d => drivers'[e] = drivers[e]
    BY <2>1, <2>2, DriverUpdate DEF Inv
  <2>4. UNCHANGED <<clients, host, monitor, relay, handle>>
    BY DEF Get, sharedHost
  <2>5. Typed'
    BY <2>1, <2>4, <2>3 DEF Inv, Typed
  <2>6. Inflight' /\ NoHostYet'
    BY <1>4, <2>1, <2>4, <2>3 DEF Inv, Typed, Inflight, NoHostYet
  <2>7. HandleReady'
    BY <1>1, <2>4, <2>3 DEF Inv, HandleReady
  <2> QED
    BY <2>5, <2>6, <2>7 DEF Inv
<1> QED
  BY <1>2, <1>3, <1>4

LEMMA StartHostKeeps ==
    ASSUME Inv, NEW d \in DOMAIN drivers, StartHost(d)
    PROVE  Inv'
<1>1. PICK cmd \in 0..MaxProcs :
        /\ Obtain(cmd)
        /\ host' = [cmd |-> cmd, cli |-> Newest]
        /\ monitor' = [Idle EXCEPT !.at = IF cmd = 0 THEN "attached" ELSE "owned"]
  BY DEF StartHost
<1>2. Len(clients') = Len(clients) + 1 /\ DOMAIN clients' = 1..Len(clients')
  BY <1>1 DEF Obtain, Inv, Typed
<1>3. host' \in [cmd : Nat, cli : Nat] /\ host'.cli # 0 /\ Newest # 0 /\ Newest \in Nat
  BY <1>1, <1>2, RelayAssumption DEF Newest, Inv, Typed
<1>4. DOMAIN monitor' = {"at", "cmd", "cli", "strikes", "subs", "todo", "orphans"}
  BY <1>1 DEF Idle
<1> DEFINE new == [drivers[d] EXCEPT !.at = "relay", !.cli = Newest]
<1>5. new \in Driver /\ new.at = "relay" /\ new.cli # 0
  <2>1. drivers[d] \in Driver
    BY DEF Inv, Typed
  <2> QED
    BY <1>3, <2>1 DEF Driver
<1>6. drivers' = [drivers EXCEPT ![d] = new]
  BY DEF StartHost
<1> HIDE DEF new
<1>7. /\ DOMAIN drivers' = DOMAIN drivers /\ Len(drivers') = Len(drivers)
      /\ drivers' \in [1..Len(drivers') -> Driver]
      /\ drivers'[d].at = "relay" /\ drivers'[d].cli # 0
      /\ \A e \in DOMAIN drivers : e # d => drivers'[e] = drivers[e]
  BY <1>5, <1>6, DriverUpdate DEF Inv
<1>8. UNCHANGED <<relay, inflight, handle>> /\ drivers[d].at = "start" /\ inflight = d
  BY DEF StartHost, At, Inv, Inflight
<1>9. Typed'
  BY <1>1, <1>2, <1>3, <1>4, <1>7, <1>8 DEF Inv, Typed, Idle
<1>10. Inflight'
  BY <1>7, <1>8 DEF Inv, Inflight
<1>11. NoHostYet'
  BY <1>2, <1>3, <1>7, <1>8 DEF Inv, Typed, Inflight, NoHostYet
<1>12. HandleReady'
  BY <1>7, <1>8 DEF Inv, HandleReady
<1> QED
  BY <1>9, <1>10, <1>11, <1>12 DEF Inv

\* The start is over: the driver and its waiters go on together.
LEMMA StartOver ==
    ASSUME Inv, NEW d \in DOMAIN drivers, inflight = d, inflight' = 0,
           Len(drivers') = Len(drivers), drivers' \in [1..Len(drivers) -> Driver],
           \A e \in DOMAIN drivers : /\ drivers'[e].at \notin {"start", "relay"}
                                     /\ drivers[e].at = "ready" => drivers'[e] = drivers[e],
           UNCHANGED <<clients, host, monitor, handle>>,
           DOMAIN relay' = DOMAIN relay, relay'.host \in Nat,
           relay'.host = 0 => host.cli = 0 /\ monitor.at = "none"
    PROVE  Inv'
<1>1. DOMAIN drivers' = DOMAIN drivers
  BY DEF Inv, Typed
<1>2. Typed'
  BY DEF Inv, Typed
<1>3. Inflight' /\ NoHostYet'
  BY <1>1 DEF Inv, Inflight, NoHostYet
<1>4. HandleReady'
  BY <1>1 DEF Inv, HandleReady
<1> QED
  BY <1>2, <1>3, <1>4 DEF Inv

LEMMA StartFailsKeeps ==
    ASSUME Inv, NEW d \in DOMAIN drivers, StartFails(d)
    PROVE  Inv'
<1>1. inflight = d /\ drivers[d].at = "start" /\ host.cli = 0 /\ monitor.at = "none"
  BY DEF StartFails, At, Inv, Inflight, NoHostYet
<1>2. drivers' = [e \in DOMAIN drivers |->
                    IF e = d \/ drivers[e].at = "wait" THEN [drivers[e] EXCEPT !.at = "failed"]
                    ELSE drivers[e]]
  BY DEF StartFails, At
<1>3. ASSUME NEW e \in DOMAIN drivers PROVE drivers'[e] \in Driver
  <2>1. drivers[e] \in Driver
    BY DEF Inv, Typed
  <2> QED
    BY <1>1, <1>2, <2>1 DEF Driver
<1>4. Len(drivers') = Len(drivers) /\ drivers' \in [1..Len(drivers) -> Driver]
  <2>1. DOMAIN drivers' = DOMAIN drivers /\ drivers' = [e \in DOMAIN drivers' |-> drivers'[e]]
    BY <1>2
  <2>2. DOMAIN drivers = 1..Len(drivers) /\ Len(drivers) \in Nat
    BY DEF Inv, Typed
  <2>3. Len(drivers') = Len(drivers)
    BY <2>1, <2>2
  <2> QED
    BY <1>3, <2>1, <2>2, <2>3
<1>5. \A e \in DOMAIN drivers : /\ drivers'[e].at \notin {"start", "relay"}
                                /\ drivers[e].at = "ready" => drivers'[e] = drivers[e]
  BY <1>1, <1>2 DEF Inv, Typed, Inflight, Driver
<1>6. UNCHANGED <<clients, host, monitor, relay, handle>> /\ inflight' = 0
  BY DEF StartFails, sharedHost
<1>7. relay.host \in Nat
  BY DEF Inv, Typed
<1> QED
  BY <1>1, <1>4, <1>5, <1>6, <1>7, StartOver

LEMMA StartRelayKeeps ==
    ASSUME Inv, NEW d \in DOMAIN drivers, StartRelay(d)
    PROVE  Inv'
<1>1. inflight = d /\ drivers[d].at = "relay" /\ drivers[d].cli # 0 /\ drivers[d].cli \in Nat
  BY DEF StartRelay, At, Inv, Typed, Inflight, Driver
<1>2. drivers' = [e \in DOMAIN drivers |->
                    IF e = d \/ drivers[e].at = "wait"
                    THEN [drivers[e] EXCEPT !.at = "mux"]
                    ELSE drivers[e]]
  BY DEF StartRelay, At
<1>3. ASSUME NEW e \in DOMAIN drivers PROVE drivers'[e] \in Driver
  <2>1. drivers[e] \in Driver
    BY DEF Inv, Typed
  <2> QED
    BY <1>1, <1>2, <2>1 DEF Driver
<1>4. Len(drivers') = Len(drivers) /\ drivers' \in [1..Len(drivers) -> Driver]
  <2>1. DOMAIN drivers' = DOMAIN drivers /\ drivers' = [e \in DOMAIN drivers' |-> drivers'[e]]
    BY <1>2
  <2>2. DOMAIN drivers = 1..Len(drivers) /\ Len(drivers) \in Nat
    BY DEF Inv, Typed
  <2>3. Len(drivers') = Len(drivers)
    BY <2>1, <2>2
  <2> QED
    BY <1>3, <2>1, <2>2, <2>3
<1>5. \A e \in DOMAIN drivers : /\ drivers'[e].at \notin {"start", "relay"}
                                /\ drivers[e].at = "ready" => drivers'[e] = drivers[e]
  BY <1>1, <1>2 DEF Inv, Typed, Inflight, Driver
<1>6. UNCHANGED <<clients, host, monitor, handle>> /\ inflight' = 0
  BY DEF StartRelay, sharedHost
<1>7. DOMAIN relay' = DOMAIN relay /\ relay'.host = drivers[d].cli
  BY DEF StartRelay, Inv, Typed
<1> QED
  BY <1>1, <1>4, <1>5, <1>6, <1>7, StartOver

LEMMA MuxClientKeeps ==
    ASSUME Inv, NEW d \in DOMAIN drivers, MuxClient(d)
    PROVE  Inv'
<1> DEFINE new == [drivers[d] EXCEPT !.at = "connect", !.cli = relay.host]
<1>1. drivers[d] \in Driver /\ drivers[d].at = "mux"
  BY DEF MuxClient, At, Inv, Typed
<1>2. drivers' = [drivers EXCEPT ![d] = new] /\ new \in Driver /\ new.at = "connect"
  BY <1>1 DEF MuxClient, Driver, Inv, Typed
<1> QED
  BY <1>1, <1>2, GoesOn DEF MuxClient, sharedHost

LEMMA ConnectKeeps ==
    ASSUME Inv, NEW d \in DOMAIN drivers, Connect(d)
    PROVE  Inv'
<1>1. PICK at \in {"subscribe", "failed"} : drivers' = [drivers EXCEPT ![d].at = at]
  BY DEF Connect, Goes
<1> DEFINE new == [drivers[d] EXCEPT !.at = at]
<1>2. drivers[d] \in Driver /\ drivers[d].at = "connect"
  BY DEF Connect, At, Inv, Typed
<1>3. drivers' = [drivers EXCEPT ![d] = new] /\ new \in Driver /\ new.at = at
  BY <1>1, <1>2 DEF Driver
<1>4. /\ UNCHANGED <<clients, sharedHost, inflight, handle>>
      /\ DOMAIN relay' = DOMAIN relay /\ relay'.host = relay.host
  BY DEF Connect, Inv, Typed
<1> QED
  BY <1>2, <1>3, <1>4, GoesOn

LEMMA MuxSubscribeKeeps ==
    ASSUME Inv, NEW d \in DOMAIN drivers, MuxSubscribe(d)
    PROVE  Inv'
<1>1. drivers[d] \in Driver /\ drivers[d].at = "subscribe"
  BY DEF MuxSubscribe, At, Inv, Typed
<1> DEFINE new == [drivers[d] EXCEPT !.at = "ready"]
<1>2. drivers' = [drivers EXCEPT ![d] = new]
  BY DEF MuxSubscribe, Goes
<1>3. new \in Driver /\ new.at = "ready" /\ new.session = drivers[d].session
  BY <1>1 DEF Driver
<1> HIDE DEF new
<1>4. /\ DOMAIN drivers' = DOMAIN drivers /\ Len(drivers') = Len(drivers)
      /\ drivers' \in [1..Len(drivers') -> Driver] /\ drivers'[d].at = "ready"
      /\ drivers'[d].session = drivers[d].session
      /\ \A e \in DOMAIN drivers : e # d => drivers'[e] = drivers[e]
  BY <1>2, <1>3, DriverUpdate DEF Inv
<1>5. UNCHANGED <<clients, host, monitor, relay, inflight>>
  BY DEF MuxSubscribe, sharedHost
<1>6. handle' = [handle EXCEPT ![drivers[d].session] = d]
  BY DEF MuxSubscribe
<1>7. Typed'
  BY <1>4, <1>5, <1>6 DEF Inv, Typed
<1>8. Inflight' /\ NoHostYet'
  BY <1>1, <1>4, <1>5 DEF Inv, Inflight, NoHostYet
<1>9. HandleReady'
  <2> SUFFICES ASSUME NEW s \in Sessions, handle'[s] # 0
                PROVE  /\ handle'[s] \in DOMAIN drivers'
                       /\ drivers'[handle'[s]].at = "ready"
                       /\ drivers'[handle'[s]].session = s
    BY DEF HandleReady
  <2>1. CASE s = drivers[d].session
    <3>1. handle'[s] = d
      BY <1>6, <2>1 DEF Inv, Typed
    <3> QED
      BY <1>4, <2>1, <3>1
  <2>2. CASE s # drivers[d].session
    <3>1. handle'[s] = handle[s]
      BY <1>6, <2>2 DEF Inv, Typed
    <3>2. handle[s] \in DOMAIN drivers /\ drivers[handle[s]].at = "ready" /\ handle[s] # d
      BY <1>1, <3>1 DEF Inv, HandleReady
    <3> QED
      BY <1>4, <3>1, <3>2 DEF Inv, HandleReady
  <2> QED
    BY <2>1, <2>2
<1> QED
  BY <1>7, <1>8, <1>9 DEF Inv

LEMMA NewDriverKeeps ==
    ASSUME Inv, NEW s \in Sessions, NewDriver(s)
    PROVE  Inv'
<1> DEFINE new == [session |-> s, at |-> "get", cli |-> 0]
<1>1. drivers' = Append(drivers, new) /\ new \in Driver /\ new.at = "get"
  BY DEF NewDriver, Driver
<1>2. /\ Len(drivers') = Len(drivers) + 1 /\ DOMAIN drivers' = 1..(Len(drivers) + 1)
      /\ drivers' \in [1..Len(drivers') -> Driver]
      /\ \A e \in DOMAIN drivers : drivers'[e] = drivers[e]
      /\ drivers'[Len(drivers) + 1].at = "get"
  <2>1. drivers \in Seq(Driver)
    BY DEF Inv, Typed
  <2> HIDE DEF new
  <2>2. drivers' \in Seq(Driver) /\ Len(drivers') = Len(drivers) + 1
    BY <1>1, <2>1
  <2>3. \A e \in 1..Len(drivers) : drivers'[e] = drivers[e]
    BY <1>1, <2>1
  <2>4. drivers'[Len(drivers) + 1] = new
    BY <1>1, <2>1
  <2>5. DOMAIN drivers = 1..Len(drivers) /\ Len(drivers) \in Nat
    BY DEF Inv, Typed
  <2>6. DOMAIN drivers' = 1..Len(drivers') /\ drivers' \in [1..Len(drivers') -> Driver]
    BY <2>2
  <2> QED
    BY <1>1, <2>2, <2>3, <2>4, <2>5, <2>6
<1>3. UNCHANGED <<clients, host, monitor, relay, inflight>>
  BY DEF NewDriver, sharedHost
<1>4. handle' = [handle EXCEPT ![s] = 0]
  BY DEF NewDriver
<1>5. Typed'
  BY <1>2, <1>3, <1>4 DEF Inv, Typed
<1>6. DOMAIN drivers = 1..Len(drivers) /\ DOMAIN drivers \subseteq DOMAIN drivers'
  BY <1>2 DEF Inv, Typed
<1>7. Inflight' /\ NoHostYet'
  BY <1>2, <1>3, <1>6 DEF Inv, Inflight, NoHostYet
<1>8. HandleReady'
  BY <1>2, <1>4, <1>6 DEF Inv, Typed, HandleReady
<1> QED
  BY <1>5, <1>7, <1>8 DEF Inv

LEMMA CloseDriverKeeps ==
    ASSUME Inv, NEW s \in Sessions, CloseDriver(s)
    PROVE  Inv'
<1>1. PICK d \in DOMAIN drivers : handle[s] = d
  BY DEF CloseDriver, Inv, HandleReady
<1>2. drivers[d] \in Driver /\ drivers[d].at = "ready" /\ drivers[d].session = s
  BY <1>1 DEF CloseDriver, Inv, Typed, HandleReady
<1> DEFINE new == [drivers[d] EXCEPT !.at = "closed"]
<1>3. drivers' = [drivers EXCEPT ![d] = new] /\ handle' = [handle EXCEPT ![s] = 0]
  BY <1>1 DEF CloseDriver
<1>4. new \in Driver /\ new.at = "closed"
  BY <1>2 DEF Driver
<1> HIDE DEF new
<1>5. /\ DOMAIN drivers' = DOMAIN drivers /\ Len(drivers') = Len(drivers)
      /\ drivers' \in [1..Len(drivers') -> Driver] /\ drivers'[d].at = "closed"
      /\ \A e \in DOMAIN drivers : e # d => drivers'[e] = drivers[e]
  BY <1>3, <1>4, DriverUpdate DEF Inv
<1>6. /\ UNCHANGED <<clients, host, monitor, inflight>>
      /\ DOMAIN relay' = DOMAIN relay /\ relay'.host = relay.host
  BY DEF CloseDriver, sharedHost, Inv, Typed
<1>7. Typed'
  BY <1>3, <1>5, <1>6 DEF Inv, Typed
<1>8. Inflight' /\ NoHostYet'
  BY <1>2, <1>5, <1>6 DEF Inv, Inflight, NoHostYet
<1>9. HandleReady'
  BY <1>1, <1>2, <1>3, <1>5 DEF Inv, Typed, HandleReady
<1> QED
  BY <1>7, <1>8, <1>9 DEF Inv

LEMMA InvStep == Inv /\ [RelayNext]_relayVars => Inv'
BY MonitorKeeps, OthersKeep, GetKeeps, StartHostKeeps, StartFailsKeeps, StartRelayKeeps,
   MuxClientKeeps, ConnectKeeps, MuxSubscribeKeeps, NewDriverKeeps, CloseDriverKeeps DEF RelayNext, DriverStep

(***************************************************************************)
(* However many first drivers start at once, one of them starts the host,  *)
(* and only while there is none: the guard of relay.Get is enough for      *)
(* SetGlobal and SetSharedHost, which panic at a second call.              *)
(***************************************************************************)
THEOREM OneHostStartAlways == RelaySpec => []OneHostStart
<1>1. ASSUME Inv PROVE OneHostStart
  <2> DEFINE starting == {d \in DOMAIN drivers : drivers[d].at \in {"start", "relay"}}
  <2>1. starting \subseteq {inflight}
    BY <1>1 DEF Inv, Inflight
  <2>2. Cardinality(starting) <= Cardinality({inflight}) /\ Cardinality({inflight}) = 1
    BY <2>1, FS_Singleton, FS_Subset
  <2>3. \A d \in starting : At(d, "start") => host.cli = 0
    BY <1>1 DEF At, Inv, NoHostYet
  <2> QED
    BY <2>2, <2>3 DEF OneHostStart
<1> QED
  BY <1>1, InvInit, InvStep, PTL DEF RelaySpec

-----------------------------------------------------------------------------
(* What a respawn carries over.                                             *)

Client == [at : {"open", "closing", "closed", "done"}, router : [Sessions -> Nat], hub : SUBSET Sessions]
Pump == [at : {"none", "load", "subscribe", "wait", "panics"}, cli : Nat]
Shaped ==
    /\ clients \in Seq(Client)
    /\ monitor.cli \in Nat
    /\ monitor.subs \in [Sessions -> Nat] /\ monitor.todo \subseteq Sessions
    /\ pumps \in Seq(Pump) /\ Len(pumps) = Len(drivers)
    /\ relay.tokens \in Nat
    /\ dsh.id \in Nat /\ {"state", "id"} = DOMAIN dsh

\* The relay's host is the shared host's, but between Swap and ReplaceGlobal and after a
\* start that a respawn overtook; then there is no token yet.  The client of the host is
\* open, and the one it replaces is another.
Replacing == {"replace", "fallback replace"}
Current ==
    /\ monitor.at \notin Replacing => relay.host = host.cli \/ relay.tokens = 0
    /\ relay.host = 0 => relay.tokens = 0
    /\ host.cli # 0 => host.cli \in DOMAIN clients /\ clients[host.cli].at = "open"
    /\ host.cmd <= dsh.id /\ monitor.cmd <= dsh.id
    /\ monitor.at \in {"swap", "fallback swap"} =>
         /\ monitor.cli = host.cli /\ host.cli < Len(clients)
         /\ clients[Len(clients)].at = "open"
    /\ monitor.at \in Replacing \cup {"snapshot", "transfer", "close", "drain", "fallback close"} =>
         monitor.cli \in DOMAIN clients /\ monitor.cli # host.cli

\* A pump that is going to subscribe on the host's client.
Pending(p) ==
    \/ pumps[p].at = "load"
    \/ pumps[p].at = "subscribe" /\ pumps[p].cli = host.cli
Coming(s) ==
    /\ relay.host = host.cli
    /\ \E p \in DOMAIN pumps : drivers[p].session = s /\ Pending(p)
Followed(s) == s \in clients[host.cli].hub \cup monitor.orphans

\* From the snapshot on, a subscription found on the old client has its pump on the way
\* to the new one, or has still to be transferred, or is routed by the new client, whose
\* Hub has it too, or the orphans, once its recovery has been tried.
Handing == monitor.at \in {"transfer", "close", "drain", "recover"}
Kept(s) ==
    \/ Coming(s)
    \/ monitor.at = "transfer" /\ s \in monitor.todo
    \/ /\ clients[host.cli].router[s] # 0
       /\ monitor.at = "recover" /\ s \notin monitor.todo => Followed(s)
Carried == Handing => \A s \in Sessions : monitor.subs[s] # 0 => Kept(s)
Handover == Inv /\ Shaped /\ Current /\ Carried

LEMMA HandoverInit == RelayInit => Handover
<1> SUFFICES ASSUME RelayInit PROVE Handover
  OBVIOUS
<1>1. Shaped
  BY RelayAssumption DEF RelayInit, Shaped, Idle, NewClient
<1>2. Current /\ Carried
  BY DEF RelayInit, Current, Carried, Handing, Idle, NewClient, Replacing
<1> QED
  BY <1>1, <1>2, InvInit DEF Handover

LEMMA DriversSequence == Inv => drivers \in Seq(Driver)
BY DEF Inv, Typed

\* A driver keeps its session, which is its pump's.
LEMMA SessionsStay ==
    ASSUME Inv, Inv', RelayNext, NEW d \in DOMAIN drivers
    PROVE  d \in DOMAIN drivers' /\ drivers'[d].session = drivers[d].session
<1>1. DOMAIN drivers = 1..Len(drivers) /\ drivers[d] \in Driver
  BY DEF Inv, Typed
<1>2. ASSUME UNCHANGED drivers
      PROVE  d \in DOMAIN drivers' /\ drivers'[d].session = drivers[d].session
  BY <1>2
<1>3. ASSUME NEW e \in DOMAIN drivers, NEW at, drivers' = [drivers EXCEPT ![e].at = at]
      PROVE  d \in DOMAIN drivers' /\ drivers'[d].session = drivers[d].session
  BY <1>1, <1>3 DEF Driver
<1>4. ASSUME NEW e \in DOMAIN drivers, NEW at, NEW cli,
             drivers' = [drivers EXCEPT ![e].at = at, ![e].cli = cli]
      PROVE  d \in DOMAIN drivers' /\ drivers'[d].session = drivers[d].session
  <2>1. drivers' = [drivers EXCEPT ![e] = [drivers[e] EXCEPT !.at = at, !.cli = cli]]
    BY <1>4
  <2> QED
    BY <1>1, <2>1 DEF Driver
<1>5. CASE \E s \in Sessions : NewDriver(s)
  <2>1. PICK new : drivers' = Append(drivers, new)
    BY <1>5 DEF NewDriver
  <2>3. drivers \in Seq(Driver)
    BY DriversSequence
  <2> QED
    BY <1>1, <2>1, <2>3
<1>6. ASSUME NEW s \in Sessions, CloseDriver(s)
      PROVE  d \in DOMAIN drivers' /\ drivers'[d].session = drivers[d].session
  <2>1. handle[s] \in DOMAIN drivers
    BY <1>6 DEF CloseDriver, Inv, HandleReady
  <2> QED
    BY <1>3, <1>6, <2>1 DEF CloseDriver
<1>7. ASSUME NEW e \in DOMAIN drivers, DriverStep(e)
      PROVE  d \in DOMAIN drivers' /\ drivers'[d].session = drivers[d].session
  <2>1. CASE Get(e)
    BY <1>3, <1>4, <2>1 DEF Get, Goes
  <2>2. CASE StartHost(e)
    BY <1>4, <2>2 DEF StartHost
  <2>3. CASE StartFails(e)
    <3>1. drivers' = [f \in DOMAIN drivers |->
                        IF f = e \/ At(f, "wait") THEN [drivers[f] EXCEPT !.at = "failed"]
                        ELSE drivers[f]]
      BY <2>3 DEF StartFails
    <3> QED
      BY <1>1, <3>1 DEF Driver
  <2>4. CASE StartRelay(e)
    <3>1. drivers' = [f \in DOMAIN drivers |->
                        IF f = e \/ At(f, "wait")
                        THEN [drivers[f] EXCEPT !.at = "mux"]
                        ELSE drivers[f]]
      BY <2>4 DEF StartRelay
    <3> QED
      BY <1>1, <3>1 DEF Driver
  <2>5. CASE Connect(e)
    BY <1>3, <2>5 DEF Connect, Goes
  <2>6. CASE MuxSubscribe(e)
    BY <1>3, <2>6 DEF MuxSubscribe, Goes
  <2>7. CASE MuxClient(e)
    BY <1>4, <2>7 DEF MuxClient
  <2> QED
    BY <1>7, <2>1, <2>2, <2>3, <2>4, <2>5, <2>6, <2>7 DEF DriverStep
<1>8. CASE MonitorStep
  BY <1>2, <1>8 DEF MonitorStep, OwnedExits, AttachedProbe, SpawnOnce, Swap, ReplaceGlobal,
       Snapshot, Transfer, CloseOld, Drained, Recover, Recovered, FallbackEnds, chats
<1>9. ASSUME NEW p \in DOMAIN drivers, PumpStep(p) PROVE UNCHANGED drivers
  BY <1>9 DEF PumpStep, LoadHost, PumpSubscribe, HostChanged, chats
<1>10. CASE DshFails("none") \/ DshFails("wedged") \/ UserStartsDsh \/ ProbeTick \/ ForceKillCmd
  BY <1>2, <1>10 DEF DshFails, UserStartsDsh, ProbeTick, ForceKillCmd, chats
<1>11. CASE ClientStep
  BY <1>2, <1>11 DEF ClientStep, HubClose, CloseDone, chats
<1> QED
  BY <1>2, <1>5, <1>6, <1>7, <1>8, <1>9, <1>10, <1>11 DEF RelayNext

\* A step of dsh, the probe, a driver or a pump that loads its host.
LEMMA Apart ==
    ASSUME Inv, Inv', RelayNext, Handover, Shaped', UNCHANGED <<clients, host, monitor>>,
           relay'.host = relay.host \/ relay.host = 0, relay'.tokens = relay.tokens,
           dsh'.id >= dsh.id,
           \A p \in DOMAIN pumps :
              p \in DOMAIN pumps' /\ (relay.host = host.cli /\ Pending(p) => Pending(p)')
    PROVE  Handover'
<1>1. Current'
  <2>1. /\ monitor.at \notin Replacing => relay'.host = host.cli \/ relay'.tokens = 0
        /\ relay'.host = 0 => relay'.tokens = 0
    BY DEF Handover, Current
  <2>2. host.cmd <= dsh'.id /\ monitor.cmd <= dsh'.id
    <3>1. /\ host.cmd \in Nat /\ monitor.cmd \in Nat /\ dsh.id \in Nat /\ dsh'.id \in Nat
          /\ host.cmd <= dsh.id /\ monitor.cmd <= dsh.id
      BY DEF Handover, Shaped, Current, Inv, Typed
    <3> QED
      BY <3>1
  <2> QED
    BY <2>1, <2>2 DEF Handover, Current
<1>2. DOMAIN pumps = DOMAIN drivers
  BY DEF Handover, Inv, Typed, Shaped
<1>3. ASSUME Handing, NEW s \in Sessions, Kept(s) PROVE Kept(s)'
  <2>1. host.cli # 0
    BY <1>3 DEF Handing, Handover, Inv, NoHostYet
  <2>2. CASE Coming(s)
    <3>1. PICK p \in DOMAIN pumps : drivers[p].session = s /\ Pending(p)
      BY <2>2 DEF Coming
    <3>2. relay.host = host.cli /\ relay'.host = host'.cli
      BY <2>1, <2>2 DEF Coming
    <3>3. p \in DOMAIN pumps' /\ drivers'[p].session = s /\ Pending(p)'
      BY <1>2, <3>1, <3>2, SessionsStay
    <3> QED
      BY <3>2, <3>3 DEF Coming, Kept
  <2>3. CASE monitor.at = "transfer" /\ s \in monitor.todo
    BY <2>3 DEF Kept
  <2>4. CASE /\ clients[host.cli].router[s] # 0
             /\ monitor.at = "recover" /\ s \notin monitor.todo => Followed(s)
    BY <2>4 DEF Kept, Followed
  <2> QED
    BY <1>3, <2>2, <2>3, <2>4 DEF Kept
<1>4. Carried'
  BY <1>3 DEF Handover, Carried, Handing
<1> QED
  BY <1>1, <1>4 DEF Handover

LEMMA DshHandsOver ==
    ASSUME Inv, Inv', RelayNext, Handover,
           DshFails("none") \/ DshFails("wedged") \/ UserStartsDsh \/ ProbeTick \/ ForceKillCmd
    PROVE  Handover'
<1>1. UNCHANGED <<clients, host, monitor, relay, drivers, pumps>>
  BY DEF DshFails, UserStartsDsh, ProbeTick, ForceKillCmd, sharedHost, chats
<1>2. /\ dsh'.id \in Nat /\ dsh'.id >= dsh.id /\ DOMAIN dsh' = {"state", "id"}
  <2>1. dsh.id \in Nat /\ DOMAIN dsh = {"state", "id"}
    BY DEF Handover, Shaped
  <2>2. CASE DshFails("none") \/ DshFails("wedged")
    <3>1. PICK state \in {"none", "wedged"} : DshFails(state)
      BY <2>2
    <3>2. dsh' = [dsh EXCEPT !.state = state]
      BY <3>1 DEF DshFails
    <3>3. dsh'.id = dsh.id /\ DOMAIN dsh' = DOMAIN dsh
      BY <2>1, <3>2
    <3> QED
      BY <2>1, <3>3
  <2>3. CASE UserStartsDsh
    BY <2>1, <2>3 DEF UserStartsDsh, Listening
  <2>4. CASE ProbeTick
    BY <2>1, <2>4 DEF ProbeTick
  <2>5. CASE ForceKillCmd
    BY <2>1, <2>5 DEF ForceKillCmd
  <2> QED
    BY <2>2, <2>3, <2>4, <2>5
<1>3. Shaped'
  BY <1>1, <1>2 DEF Handover, Shaped
<1>4. \A p \in DOMAIN pumps :
         p \in DOMAIN pumps' /\ (relay.host = host.cli /\ Pending(p) => Pending(p)')
  BY <1>1 DEF Pending
<1> QED
  BY <1>1, <1>2, <1>3, <1>4, Apart

-----------------------------------------------------------------------------
(* The monitor.                                                             *)

\* A step of the monitor outside the handover.
LEMMA Elsewhere ==
    ASSUME Inv', Handover, Shaped', Current', ~Handing'
    PROVE  Handover'
BY DEF Handover, Carried

LEMMA MonitorWaits ==
    ASSUME Inv, Inv', Handover, OwnedExits \/ AttachedProbe
    PROVE  Handover'
<1>1. UNCHANGED <<dsh, clients, host, relay, drivers, pumps>>
  BY DEF OwnedExits, AttachedProbe, chats
<1>2. /\ monitor'.at \in {"respawn", "attached", "fallback"}
      /\ monitor'.cli = monitor.cli /\ monitor'.cmd = monitor.cmd
      /\ monitor'.subs = monitor.subs /\ monitor'.todo = monitor.todo
  BY DEF OwnedExits, AttachedProbe, MonitorAt, MonitorGoes, Inv, Typed
<1>3. monitor.at \notin Replacing
  BY DEF OwnedExits, AttachedProbe, MonitorAt, Replacing
<1>4. Shaped'
  BY <1>1, <1>2 DEF Handover, Shaped
<1>5. Current' /\ ~Handing'
  BY <1>1, <1>2, <1>3 DEF Handover, Current, Replacing, Handing
<1> QED
  BY <1>4, <1>5, Elsewhere

LEMMA Obtained ==
    ASSUME Handover, Inv, NEW cmd \in Nat, Obtain(cmd)
    PROVE  /\ clients' \in Seq(Client) /\ Len(clients') = Len(clients) + 1
           /\ \A c \in DOMAIN clients : c \in DOMAIN clients' /\ clients'[c] = clients[c]
           /\ clients'[Len(clients')].at = "open"
           /\ DOMAIN clients' = 1..Len(clients')
           /\ dsh'.id \in Nat /\ dsh'.id >= dsh.id /\ cmd <= dsh'.id
           /\ DOMAIN dsh' = {"state", "id"}
<1>1. NewClient \in Client /\ NewClient.at = "open"
  BY DEF NewClient, Client
<1>2. clients \in Seq(Client) /\ clients' = Append(clients, NewClient)
  BY DEF Handover, Shaped, Obtain
<1> HIDE DEF NewClient
<1>3. /\ clients' \in Seq(Client) /\ Len(clients') = Len(clients) + 1
      /\ \A c \in DOMAIN clients : c \in DOMAIN clients' /\ clients'[c] = clients[c]
      /\ clients'[Len(clients')] = NewClient /\ DOMAIN clients' = 1..Len(clients')
  BY <1>1, <1>2
<1>4. /\ dsh'.id \in Nat /\ dsh'.id >= dsh.id /\ cmd <= dsh'.id
      /\ DOMAIN dsh' = {"state", "id"}
  BY DEF Handover, Shaped, Obtain, Listening
<1> QED
  BY <1>1, <1>3, <1>4

LEMMA SpawnOnceHandsOver ==
    ASSUME Inv, Inv', Handover, SpawnOnce
    PROVE  Handover'
<1>1. PICK cmd \in 0..MaxProcs :
         /\ Obtain(cmd)
         /\ monitor' = [monitor EXCEPT !.cmd = cmd, !.cli = host.cli,
                            !.at = IF @ = "respawn" THEN "swap" ELSE "fallback swap"]
  BY DEF SpawnOnce
<1>2. cmd \in Nat
  BY RelayAssumption
<1>3. /\ monitor'.at \in {"swap", "fallback swap"}
      /\ monitor'.cli = host.cli /\ monitor'.cmd = cmd
      /\ monitor'.subs = monitor.subs /\ monitor'.todo = monitor.todo
  BY <1>1 DEF Inv, Typed
<1>4. UNCHANGED <<host, relay, drivers, pumps>> /\ monitor.at \in {"respawn", "fallback"}
  BY DEF SpawnOnce, chats
<1>5. Shaped'
  BY <1>1, <1>2, <1>3, <1>4, Obtained DEF Handover, Shaped, Inv, Typed
<1>6. host.cli # 0 /\ host.cli \in DOMAIN clients /\ clients[host.cli].at = "open"
      /\ DOMAIN clients = 1..Len(clients) /\ Len(clients) \in Nat /\ host.cmd \in Nat
  BY <1>4 DEF Handover, Current, Inv, NoHostYet, Typed
<1>7. Current' /\ ~Handing'
  <2>1. /\ host.cli \in DOMAIN clients' /\ clients'[host.cli].at = "open"
        /\ host.cli < Len(clients') /\ clients'[Len(clients')].at = "open"
    BY <1>1, <1>2, <1>6, Obtained
  <2>2. host.cmd <= dsh'.id /\ cmd <= dsh'.id
    <3>1. host.cmd <= dsh.id /\ dsh.id \in Nat
      BY DEF Handover, Current, Shaped
    <3>2. dsh'.id \in Nat /\ dsh'.id >= dsh.id /\ cmd <= dsh'.id
      BY <1>1, <1>2, Obtained
    <3> QED
      BY <1>6, <3>1, <3>2
  <2>3. relay.host = host.cli \/ relay.tokens = 0
    BY <1>4 DEF Handover, Current, Replacing
  <2>4. relay.host = 0 => relay.tokens = 0
    BY DEF Handover, Current
  <2> QED
    BY <1>3, <1>4, <2>1, <2>2, <2>3, <2>4 DEF Current, Replacing, Handing
<1> QED
  BY <1>5, <1>7, Elsewhere

LEMMA SwapHandsOver ==
    ASSUME Inv, Inv', Handover, Swap
    PROVE  Handover'
<1>1. UNCHANGED <<dsh, clients, relay, drivers, pumps>>
      /\ host' = [cmd |-> monitor.cmd, cli |-> Len(clients)]
  BY DEF Swap, chats
<1>2. /\ monitor'.at \in Replacing
      /\ monitor'.cli = monitor.cli /\ monitor'.cmd = monitor.cmd
      /\ monitor'.subs = monitor.subs /\ monitor'.todo = monitor.todo
  BY DEF Swap, MonitorGoes, Replacing, Inv, Typed
<1>3. Shaped'
  BY <1>1, <1>2 DEF Handover, Shaped
<1>4. /\ monitor.cli = host.cli /\ host.cli < Len(clients) /\ clients[Len(clients)].at = "open"
      /\ monitor.cli \in DOMAIN clients /\ DOMAIN clients = 1..Len(clients)
      /\ Len(clients) \in Nat
  BY DEF Swap, Handover, Current, Inv, Typed, NoHostYet
<1>5. host'.cli = Len(clients) /\ host'.cmd = monitor.cmd
  BY <1>1
<1>6. Len(clients) \in DOMAIN clients /\ monitor.cli # Len(clients) /\ host.cli # 0
  BY <1>4
<1>7. /\ host.cmd <= dsh.id /\ monitor.cmd <= dsh.id
      /\ relay.host = 0 => relay.tokens = 0
  BY DEF Handover, Current
<1>8. Current' /\ ~Handing'
  BY <1>1, <1>2, <1>4, <1>5, <1>6, <1>7 DEF Current, Replacing, Handing
<1> QED
  BY <1>3, <1>8, Elsewhere

LEMMA ReplaceGlobalHandsOver ==
    ASSUME Inv, Inv', Handover, ReplaceGlobal
    PROVE  Handover'
<1>1. UNCHANGED <<dsh, clients, host, drivers, pumps>>
  BY DEF ReplaceGlobal, chats
<1>2. /\ monitor'.at \in {"snapshot", "fallback close"} /\ monitor.at \in Replacing
      /\ monitor'.cli = monitor.cli /\ monitor'.cmd = monitor.cmd
      /\ monitor'.subs = monitor.subs /\ monitor'.todo = monitor.todo
  BY DEF ReplaceGlobal, MonitorGoes, Replacing, Inv, Typed
<1>3. relay'.tokens \in Nat
      /\ (relay'.host = host.cli \/ relay'.tokens = 0)
      /\ (relay'.host = 0 => relay'.tokens = 0)
  <2>1. relay.host = 0 => relay.tokens = 0
    BY DEF Handover, Current
  <2>2. host.cli # 0 /\ DOMAIN relay = {"host", "tokens"} /\ relay.tokens \in Nat
    BY <1>2 DEF Handover, Inv, NoHostYet, Typed, Shaped, Replacing
  <2>3. CASE relay.host = 0
    BY <2>1, <2>2, <2>3 DEF ReplaceGlobal
  <2>4. CASE relay.host # 0
    <3>1. relay' = [relay EXCEPT !.host = host.cli, !.tokens = @ + 1]
      BY <2>4 DEF ReplaceGlobal
    <3>2. relay'.host = host.cli /\ relay'.tokens = relay.tokens + 1
      BY <2>2, <3>1
    <3> QED
      BY <2>2, <3>2
  <2> QED
    BY <2>3, <2>4
<1>4. Shaped'
  BY <1>1, <1>2, <1>3 DEF Handover, Shaped
<1>5. Current' /\ ~Handing'
  BY <1>1, <1>2, <1>3 DEF Handover, Current, Replacing, Handing
<1> QED
  BY <1>4, <1>5, Elsewhere

LEMMA SnapshotHandsOver ==
    ASSUME Inv, Inv', Handover, Snapshot
    PROVE  Handover'
<1>1. UNCHANGED <<dsh, clients, host, relay, drivers, pumps>> /\ monitor.at = "snapshot"
  BY DEF Snapshot, chats, MonitorAt
<1>2. /\ monitor'.at = "transfer"
      /\ monitor'.cli = monitor.cli /\ monitor'.cmd = monitor.cmd
      /\ monitor'.subs = clients[monitor.cli].router /\ monitor'.todo = Routed(monitor.cli)
  BY DEF Snapshot, Inv, Typed
<1>3. clients[monitor.cli] \in Client
  BY <1>1 DEF Handover, Current, Shaped
<1>4. monitor'.subs \in [Sessions -> Nat] /\ monitor'.todo = {s \in Sessions : monitor'.subs[s] # 0}
  BY <1>2, <1>3 DEF Routed, Client
<1>5. Shaped'
  BY <1>1, <1>2, <1>4 DEF Handover, Shaped
<1>6. Current'
  BY <1>1, <1>2 DEF Handover, Current, Replacing
<1>7. Carried'
  BY <1>2, <1>4 DEF Carried, Kept
<1> QED
  BY <1>5, <1>6, <1>7 DEF Handover

LEMMA ClientUpdate ==
    ASSUME Handover, NEW c \in DOMAIN clients, NEW new \in Client,
           clients' = [clients EXCEPT ![c] = new]
    PROVE  /\ clients' \in Seq(Client) /\ DOMAIN clients' = DOMAIN clients
           /\ Len(clients') = Len(clients) /\ clients'[c] = new
           /\ \A e \in DOMAIN clients : e # c => clients'[e] = clients[e]
<1>1. clients \in Seq(Client)
  BY DEF Handover, Shaped
<1> QED
  BY <1>1

\* The monitor is in the handover: what is kept of a session is so in the next state.
LEMMA Carries ==
    ASSUME Handover, Handing,
           UNCHANGED <<dsh, host, relay, drivers, pumps>>,
           monitor'.subs = monitor.subs,
           \A s \in Sessions : monitor.subs[s] # 0 =>
              \/ Coming(s)
              \/ monitor'.at = "transfer" /\ s \in monitor'.todo
              \/ /\ clients'[host.cli].router[s] # 0
                 /\ monitor'.at = "recover" /\ s \notin monitor'.todo
                      => s \in clients'[host.cli].hub \cup monitor'.orphans
    PROVE  Carried'
<1>1. ASSUME NEW s \in Sessions, Coming(s) PROVE Coming(s)'
  BY <1>1 DEF Coming, Pending
<1>2. ASSUME NEW s \in Sessions,
             s \in clients'[host.cli].hub \cup monitor'.orphans
      PROVE  Followed(s)'
  BY <1>2 DEF Followed
<1>3. ASSUME NEW s \in Sessions, monitor.subs[s] # 0 PROVE Kept(s)'
  BY <1>1, <1>2, <1>3 DEF Kept
<1> QED
  BY <1>3 DEF Carried

LEMMA TransferHandsOver ==
    ASSUME Inv, Inv', Handover, Transfer
    PROVE  Handover'
<1>1. UNCHANGED <<dsh, host, relay, drivers, pumps>> /\ monitor.at = "transfer"
  BY DEF Transfer, chats, MonitorAt
<1>2. host.cli # 0 /\ host.cli \in DOMAIN clients
  BY <1>1 DEF Handover, Current, Inv, NoHostYet
<1>3. CASE monitor.todo = {}
  <2>1. /\ monitor'.at = "close" /\ clients' = clients
        /\ monitor'.cli = monitor.cli /\ monitor'.cmd = monitor.cmd
        /\ monitor'.subs = monitor.subs /\ monitor'.todo = monitor.todo
    BY <1>3 DEF Transfer, MonitorGoes, Inv, Typed
  <2>2. Shaped' /\ Current'
    BY <1>1, <2>1 DEF Handover, Shaped, Current, Replacing
  <2>3. \A s \in Sessions : monitor.subs[s] # 0 => Coming(s) \/ clients[host.cli].router[s] # 0
    BY <1>1, <1>3 DEF Handover, Carried, Handing, Kept
  <2>4. Carried'
    BY <1>1, <2>1, <2>3, Carries DEF Handing
  <2> QED
    BY <2>2, <2>4 DEF Handover
<1>4. CASE monitor.todo # {}
  <2>1. PICK s \in monitor.todo :
              /\ clients' = [clients EXCEPT ![host.cli].router[s] = monitor.subs[s]]
              /\ monitor' = [monitor EXCEPT !.todo = @ \ {s}]
    BY <1>4 DEF Transfer
  <2>2. /\ monitor'.at = "transfer"
        /\ monitor'.cli = monitor.cli /\ monitor'.cmd = monitor.cmd
        /\ monitor'.subs = monitor.subs /\ monitor'.todo = monitor.todo \ {s}
    BY <1>1, <2>1 DEF Inv, Typed
  <2>3. s \in Sessions /\ monitor.subs \in [Sessions -> Nat] /\ monitor.todo \subseteq Sessions
    BY DEF Handover, Shaped
  <2>4. PICK old \in Client : old = clients[host.cli]
    BY <1>2 DEF Handover, Shaped
  <2> DEFINE new == [old EXCEPT !.router[s] = monitor.subs[s]]
  <2>5. clients' = [clients EXCEPT ![host.cli] = new]
    BY <2>1, <2>4
  <2>6. /\ new \in Client /\ new.router[s] = monitor.subs[s] /\ new.at = old.at
        /\ \A x \in Sessions : x # s => new.router[x] = old.router[x]
    BY <2>3 DEF Client
  <2> HIDE DEF new
  <2>7. /\ clients' \in Seq(Client) /\ DOMAIN clients' = DOMAIN clients
        /\ Len(clients') = Len(clients) /\ clients'[host.cli] = new
        /\ \A e \in DOMAIN clients : e # host.cli => clients'[e] = clients[e]
    BY <1>2, <2>5, <2>6, ClientUpdate
  <2>8. Shaped'
    BY <1>1, <2>2, <2>3, <2>7 DEF Handover, Shaped
  <2>9. Current'
    BY <1>1, <1>2, <2>2, <2>4, <2>6, <2>7 DEF Handover, Current, Replacing
  <2>10. ASSUME NEW x \in Sessions, monitor.subs[x] # 0
         PROVE  \/ Coming(x)
                \/ monitor'.at = "transfer" /\ x \in monitor'.todo
                \/ /\ clients'[host.cli].router[x] # 0
                   /\ monitor'.at = "recover" /\ x \notin monitor'.todo
                        => x \in clients'[host.cli].hub \cup monitor'.orphans
    <3>1. Kept(x)
      BY <1>1, <2>10 DEF Handover, Carried, Handing
    <3> QED
      BY <1>1, <2>2, <2>4, <2>6, <2>7, <2>10, <3>1 DEF Kept
  <2>11. Carried'
    BY <1>1, <2>2, <2>10, Carries DEF Handing
  <2> QED
    BY <2>8, <2>9, <2>11 DEF Handover
<1> QED
  BY <1>3, <1>4

LEMMA CloseOldHandsOver ==
    ASSUME Inv, Inv', Handover, CloseOld
    PROVE  Handover'
<1>1. UNCHANGED <<dsh, host, relay, drivers, pumps>> /\ monitor.at = "close"
  BY DEF CloseOld, chats, MonitorAt
<1>2. /\ host.cli # 0 /\ host.cli \in DOMAIN clients /\ host.cli # monitor.cli
      /\ monitor.cli \in DOMAIN clients
  BY <1>1 DEF Handover, Current, Inv, NoHostYet
<1>3. /\ monitor'.at = "drain" /\ monitor'.todo = monitor.todo
      /\ monitor'.cli = monitor.cli /\ monitor'.cmd = monitor.cmd
      /\ monitor'.subs = monitor.subs
  BY DEF CloseOld, MonitorGoes, Inv, Typed
<1>4. PICK old \in Client : old = clients[monitor.cli]
  BY <1>2 DEF Handover, Shaped
<1> DEFINE new == [old EXCEPT !.at = "closed", !.hub = {}]
<1>5. clients' = [clients EXCEPT ![monitor.cli] = new]
  BY <1>2, <1>4 DEF CloseOld, HubCloses, Handover, Shaped
<1>6. new \in Client
  BY DEF Client
<1> HIDE DEF new
<1>7. /\ clients' \in Seq(Client) /\ DOMAIN clients' = DOMAIN clients
      /\ Len(clients') = Len(clients) /\ clients'[host.cli] = clients[host.cli]
  BY <1>2, <1>5, <1>6, ClientUpdate
<1>8. Shaped'
  BY <1>1, <1>3, <1>7 DEF Handover, Shaped
<1>9. Current'
  BY <1>1, <1>2, <1>3, <1>7 DEF Handover, Current, Replacing
<1>10. \A s \in Sessions : monitor.subs[s] # 0 => Coming(s) \/ clients[host.cli].router[s] # 0
  BY <1>1 DEF Handover, Carried, Handing, Kept
<1>11. Carried'
  BY <1>1, <1>3, <1>7, <1>10, Carries DEF Handing
<1> QED
  BY <1>8, <1>9, <1>11 DEF Handover

LEMMA DrainedHandsOver ==
    ASSUME Inv, Inv', Handover, Drained
    PROVE  Handover'
<1>1. UNCHANGED <<dsh, clients, host, relay, drivers, pumps>> /\ monitor.at = "drain"
  BY DEF Drained, chats, MonitorAt
<1>2. /\ monitor'.at = "recover"
      /\ monitor'.todo = {s \in Sessions : clients[host.cli].router[s] # 0}
      /\ monitor'.cli = monitor.cli /\ monitor'.cmd = monitor.cmd
      /\ monitor'.subs = monitor.subs
  BY DEF Drained, Routed, Inv, Typed
<1>3. Shaped' /\ Current'
  BY <1>1, <1>2 DEF Handover, Shaped, Current, Replacing
<1>4. \A s \in Sessions : monitor.subs[s] # 0 => Coming(s) \/ clients[host.cli].router[s] # 0
  BY <1>1 DEF Handover, Carried, Handing, Kept
<1>5. Carried'
  BY <1>1, <1>2, <1>4, Carries DEF Handing
<1> QED
  BY <1>3, <1>5 DEF Handover

LEMMA FallbackEndsHandsOver ==
    ASSUME Inv, Inv', Handover, FallbackEnds
    PROVE  Handover'
<1>1. UNCHANGED <<dsh, host, relay, drivers, pumps>> /\ monitor.at = "fallback close"
  BY DEF FallbackEnds, chats, MonitorAt
<1>2. /\ host.cli # 0 /\ host.cli \in DOMAIN clients /\ host.cli # monitor.cli
      /\ monitor.cli \in DOMAIN clients
  BY <1>1 DEF Handover, Current, Inv, NoHostYet
<1>3. /\ monitor'.at \in {"exited", "owned"} /\ monitor'.todo = {}
      /\ monitor'.cli = 0 /\ monitor'.cmd = 0
      /\ monitor'.subs \in [Sessions -> Nat]
  BY DEF FallbackEnds, Idle, NewClient
<1>4. PICK old \in Client : old = clients[monitor.cli]
  BY <1>2 DEF Handover, Shaped
<1> DEFINE new == [old EXCEPT !.at = "closing"]
<1>5. clients' = [clients EXCEPT ![monitor.cli] = new]
  BY <1>2, <1>4 DEF FallbackEnds, Handover, Shaped
<1>6. new \in Client
  BY DEF Client
<1> HIDE DEF new
<1>7. /\ clients' \in Seq(Client) /\ DOMAIN clients' = DOMAIN clients
      /\ Len(clients') = Len(clients) /\ clients'[host.cli] = clients[host.cli]
  BY <1>2, <1>5, <1>6, ClientUpdate
<1>8. Shaped'
  <2>1. monitor'.cli \in Nat /\ monitor'.todo \subseteq Sessions
    BY <1>3
  <2>2. /\ pumps \in Seq(Pump) /\ Len(pumps) = Len(drivers) /\ relay.tokens \in Nat
        /\ dsh.id \in Nat /\ {"state", "id"} = DOMAIN dsh
    BY DEF Handover, Shaped
  <2> QED
    BY <1>1, <1>3, <1>7, <2>1, <2>2 DEF Shaped
<1>9. /\ dsh.id \in Nat /\ host.cmd <= dsh.id /\ clients[host.cli].at = "open"
      /\ relay.host = host.cli \/ relay.tokens = 0
      /\ relay.host = 0 => relay.tokens = 0
  BY <1>1, <1>2 DEF Handover, Shaped, Current, Replacing
<1>10. Current' /\ ~Handing'
  <2>1. monitor'.cmd <= dsh.id
    BY <1>3, <1>9
  <2> QED
    BY <1>1, <1>2, <1>3, <1>7, <1>9, <2>1 DEF Current, Replacing, Handing
<1> QED
  BY <1>8, <1>10, Elsewhere

LEMMA RecoveredHandsOver ==
    ASSUME Inv, Inv', Handover, Recovered
    PROVE  Handover'
<1>1. UNCHANGED <<dsh, clients, host, relay, drivers, pumps>> /\ monitor.at = "recover"
  BY DEF Recovered, chats, MonitorAt
<1>2. /\ monitor'.at \in {"attached", "owned"} /\ monitor'.todo = {}
      /\ monitor'.cli = 0 /\ monitor'.cmd = 0
      /\ monitor'.subs \in [Sessions -> Nat]
  BY DEF Recovered, Idle, NewClient
<1>3. /\ pumps \in Seq(Pump) /\ Len(pumps) = Len(drivers) /\ relay.tokens \in Nat
      /\ dsh.id \in Nat /\ {"state", "id"} = DOMAIN dsh /\ clients \in Seq(Client)
  BY DEF Handover, Shaped
<1>4. Shaped'
  BY <1>1, <1>2, <1>3 DEF Shaped
<1>5. /\ host.cli \in DOMAIN clients /\ clients[host.cli].at = "open" /\ host.cmd <= dsh.id
      /\ relay.host = host.cli \/ relay.tokens = 0
      /\ relay.host = 0 => relay.tokens = 0
  BY <1>1 DEF Handover, Current, Replacing, Inv, NoHostYet
<1>6. monitor'.cmd <= dsh.id
  BY <1>2, <1>3
<1>7. Current' /\ ~Handing'
  BY <1>1, <1>2, <1>5, <1>6 DEF Current, Replacing, Handing
<1> QED
  BY <1>4, <1>7, Elsewhere

\* One session is recovered: the Hub has it, or it is an orphan.
LEMMA RecoverHandsOver ==
    ASSUME Inv, Inv', Handover, Recover
    PROVE  Handover'
<1>1. UNCHANGED <<dsh, host, relay, drivers, pumps>> /\ monitor.at = "recover"
  BY DEF Recover, chats, MonitorAt
<1>2. host.cli # 0 /\ host.cli \in DOMAIN clients
  BY <1>1 DEF Handover, Current, Inv, NoHostYet
<1>3. PICK s \in monitor.todo : Reattach(s) \/ Orphan(s)
  BY DEF Recover
<1>4. /\ monitor'.at = "recover"
      /\ monitor'.cli = monitor.cli /\ monitor'.cmd = monitor.cmd
      /\ monitor'.subs = monitor.subs /\ monitor'.todo = monitor.todo \ {s}
      /\ monitor.orphans \subseteq monitor'.orphans
      /\ Orphan(s) => s \in monitor'.orphans
  <2>1. DOMAIN monitor = {"at", "cmd", "cli", "strikes", "subs", "todo", "orphans"}
    BY DEF Inv, Typed
  <2>2. CASE Orphan(s)
    BY <1>1, <2>1, <2>2 DEF Orphan
  <2>3. CASE Reattach(s) /\ ~Orphan(s)
    <3>1. monitor' = [monitor EXCEPT !.todo = @ \ {s}]
      BY <2>3 DEF Reattach
    <3>2. monitor'.orphans = monitor.orphans
      BY <2>1, <3>1
    <3> QED
      BY <1>1, <2>1, <2>3, <3>1, <3>2
  <2> QED
    BY <1>3, <2>2, <2>3
<1>5. s \in Sessions /\ clients \in Seq(Client)
  BY DEF Handover, Shaped
<1>6. PICK old \in Client : old = clients[host.cli]
  BY <1>2 DEF Handover, Shaped
<1>7. PICK new \in Client : /\ new.router = old.router /\ new.at = old.at
                            /\ old.hub \subseteq new.hub /\ (Reattach(s) => s \in new.hub)
                            /\ clients' = [clients EXCEPT ![host.cli] = new]
  <2>1. CASE Reattach(s)
    <3> DEFINE new == [old EXCEPT !.hub = @ \cup {s}]
    <3>1. /\ new \in Client /\ new.hub = old.hub \cup {s}
          /\ new.router = old.router /\ new.at = old.at
      BY <1>5 DEF Client
    <3>2. clients' = [clients EXCEPT ![host.cli] = new]
      BY <1>6, <2>1 DEF Reattach
    <3> HIDE DEF new
    <3> QED
      BY <3>1, <3>2
  <2>2. CASE ~Reattach(s)
    <3>1. clients' = clients
      BY <1>3, <2>2 DEF Orphan
    <3>2. clients' = [clients EXCEPT ![host.cli] = old]
      BY <1>2, <1>5, <1>6, <3>1
    <3> QED
      BY <2>2, <3>2
  <2> QED
    BY <2>1, <2>2
<1>8. /\ clients' \in Seq(Client) /\ DOMAIN clients' = DOMAIN clients
      /\ Len(clients') = Len(clients) /\ clients'[host.cli] = new
      /\ \A e \in DOMAIN clients : e # host.cli => clients'[e] = clients[e]
  BY <1>2, <1>7, ClientUpdate
<1>9. Shaped'
  BY <1>1, <1>4, <1>8 DEF Handover, Shaped
<1>10. Current'
  BY <1>1, <1>2, <1>4, <1>6, <1>7, <1>8 DEF Handover, Current, Replacing
<1>11. ASSUME NEW x \in Sessions, monitor.subs[x] # 0, ~Coming(x)
       PROVE  /\ clients'[host.cli].router[x] # 0
              /\ x \notin monitor'.todo => x \in clients'[host.cli].hub \cup monitor'.orphans
  <2>1. /\ old.router[x] # 0
        /\ x \notin monitor.todo => x \in old.hub \cup monitor.orphans
    BY <1>1, <1>6, <1>11 DEF Handover, Carried, Handing, Kept, Followed
  <2> QED
    BY <1>3, <1>4, <1>7, <1>8, <2>1
<1>12. Carried'
  BY <1>1, <1>4, <1>11, Carries DEF Handing
<1> QED
  BY <1>9, <1>10, <1>12 DEF Handover

\* Client.Close of a client that the host has left.
LEMMA ClientStepHandsOver ==
    ASSUME Inv, Inv', Handover, ClientStep
    PROVE  Handover'
<1>1. UNCHANGED <<dsh, host, monitor, relay, drivers, pumps>>
  BY DEF ClientStep, HubClose, CloseDone, sharedHost, chats
<1>2. PICK c \in DOMAIN clients : HubClose(c) \/ CloseDone(c)
  BY DEF ClientStep
<1>3. PICK old \in Client : old = clients[c]
  BY <1>2 DEF Handover, Shaped
<1>4. PICK new \in Client : clients' = [clients EXCEPT ![c] = new]
  <2>1. [old EXCEPT !.at = "closed", !.hub = {}] \in Client
        /\ [old EXCEPT !.at = "done"] \in Client
    BY DEF Client
  <2>2. \/ clients' = [clients EXCEPT ![c] = [old EXCEPT !.at = "closed", !.hub = {}]]
        \/ clients' = [clients EXCEPT ![c] = [old EXCEPT !.at = "done"]]
    BY <1>2, <1>3 DEF HubClose, HubCloses, CloseDone
  <2> QED
    BY <2>1, <2>2
<1>5. clients[c].at # "open"
  BY <1>2 DEF HubClose, CloseDone
<1>6. /\ clients' \in Seq(Client) /\ DOMAIN clients' = DOMAIN clients
      /\ Len(clients') = Len(clients)
      /\ \A e \in DOMAIN clients : clients[e].at = "open" => clients'[e] = clients[e]
  BY <1>2, <1>4, <1>5, ClientUpdate
<1>7. Shaped'
  BY <1>1, <1>6 DEF Handover, Shaped
<1>8. Current'
  <2>1. DOMAIN clients = 1..Len(clients) /\ Len(clients) \in Nat /\ host.cli \in Nat
    BY DEF Inv, Typed
  <2>2. ASSUME monitor.at \in {"swap", "fallback swap"} PROVE Len(clients) \in DOMAIN clients
    <3>1. host.cli < Len(clients)
      BY <2>2 DEF Handover, Current
    <3> QED
      BY <2>1, <3>1
  <2> QED
    BY <1>1, <1>6, <2>2 DEF Handover, Current
<1>9. ASSUME Handing, NEW s \in Sessions, Kept(s) PROVE Kept(s)'
  <2>1. clients'[host.cli] = clients[host.cli]
    BY <1>6, <1>9 DEF Handing, Handover, Current, Inv, NoHostYet
  <2> QED
    BY <1>1, <1>9, <2>1 DEF Kept, Coming, Pending, Followed
<1>10. Carried'
  BY <1>1, <1>9 DEF Handover, Carried, Handing
<1> QED
  BY <1>7, <1>8, <1>10 DEF Handover

-----------------------------------------------------------------------------
(* The drivers and the pumps.                                               *)

LEMMA SameLength ==
    ASSUME Inv, Inv', DOMAIN drivers' = DOMAIN drivers
    PROVE  Len(drivers') = Len(drivers)
<1>1. /\ DOMAIN drivers = 1..Len(drivers) /\ Len(drivers) \in Nat
      /\ DOMAIN drivers' = 1..Len(drivers') /\ Len(drivers') \in Nat
  BY DEF Inv, Typed
<1> QED
  BY <1>1

LEMMA DriverHandsOver ==
    ASSUME Inv, Inv', RelayNext, Handover,
           \/ \E d \in DOMAIN drivers :
                Get(d) \/ StartFails(d) \/ StartRelay(d) \/ MuxClient(d) \/ Connect(d)
           \/ \E s \in Sessions : CloseDriver(s)
    PROVE  Handover'
<1>1. UNCHANGED <<clients, host, monitor, pumps>>
  BY DEF Get, StartFails, StartRelay, MuxClient, Connect, CloseDriver, sharedHost
<1>2. DOMAIN drivers' = DOMAIN drivers
  BY DEF Get, StartFails, StartRelay, MuxClient, Connect, CloseDriver, Goes
<1>3. /\ dsh'.id = dsh.id /\ dsh'.state = dsh.state
      /\ DOMAIN dsh' = {"state", "id"}
  BY DEF Get, StartFails, StartRelay, MuxClient, Connect, CloseDriver, Handover, Shaped
<1>4. relay'.tokens = relay.tokens /\ (relay'.host = relay.host \/ relay.host = 0)
  <2>1. DOMAIN relay = {"host", "tokens"}
    BY DEF Inv, Typed
  <2>2. ASSUME NEW d \in DOMAIN drivers, StartRelay(d)
        PROVE  relay'.tokens = relay.tokens /\ relay.host = 0
    <3>1. d # 0
      BY DEF Inv, Typed
    <3>2. inflight = d
      BY <2>2 DEF StartRelay, At, Inv, Inflight
    <3>3. relay' = [relay EXCEPT !.host = drivers[d].cli]
      BY <2>2 DEF StartRelay
    <3> QED
      BY <2>1, <3>1, <3>2, <3>3 DEF Inv, Inflight
  <2>3. ASSUME NEW d \in DOMAIN drivers, Get(d) \/ StartFails(d) \/ MuxClient(d) \/ Connect(d)
        PROVE  relay'.tokens = relay.tokens /\ relay'.host = relay.host
    BY <2>1, <2>3 DEF Get, StartFails, MuxClient, Connect
  <2>4. ASSUME NEW s \in Sessions, CloseDriver(s)
        PROVE  relay'.tokens = relay.tokens /\ relay'.host = relay.host
    BY <2>1, <2>4 DEF CloseDriver
  <2> QED
    BY <2>2, <2>3, <2>4
<1>5. Shaped'
  BY <1>1, <1>2, <1>3, <1>4, SameLength DEF Handover, Shaped
<1>6. dsh.id \in Nat
  BY DEF Handover, Shaped
<1>7. \A p \in DOMAIN pumps :
         p \in DOMAIN pumps' /\ (relay.host = host.cli /\ Pending(p) => Pending(p)')
  BY <1>1 DEF Pending
<1> QED
  BY <1>1, <1>3, <1>4, <1>5, <1>6, <1>7, Apart

LEMMA PumpsUpdate ==
    ASSUME Handover, NEW p \in DOMAIN pumps, NEW new \in Pump,
           pumps' = [pumps EXCEPT ![p] = new]
    PROVE  /\ pumps' \in Seq(Pump) /\ DOMAIN pumps' = DOMAIN pumps
           /\ Len(pumps') = Len(pumps) /\ pumps'[p] = new
           /\ \A e \in DOMAIN pumps : e # p => pumps'[e] = pumps[e]
<1>1. pumps \in Seq(Pump)
  BY DEF Handover, Shaped
<1> QED
  BY <1>1

LEMMA MuxSubscribeHandsOver ==
    ASSUME Inv, Inv', RelayNext, Handover, NEW d \in DOMAIN drivers, MuxSubscribe(d)
    PROVE  Handover'
<1>1. UNCHANGED <<dsh, clients, host, monitor, relay>> /\ DOMAIN drivers' = DOMAIN drivers
  BY DEF MuxSubscribe, sharedHost, Goes
<1>2. d \in DOMAIN pumps /\ DOMAIN pumps = 1..Len(pumps) /\ pumps[d] \in Pump
  BY DEF Handover, Shaped, Inv, Typed
<1> DEFINE new == [pumps[d] EXCEPT !.at = "load"]
<1>3. pumps' = [pumps EXCEPT ![d] = new] /\ new \in Pump /\ new.at = "load"
  BY <1>2 DEF MuxSubscribe, Pump
<1> HIDE DEF new
<1>4. /\ pumps' \in Seq(Pump) /\ DOMAIN pumps' = DOMAIN pumps
      /\ Len(pumps') = Len(pumps) /\ pumps'[d] = new
      /\ \A e \in DOMAIN pumps : e # d => pumps'[e] = pumps[e]
  BY <1>2, <1>3, PumpsUpdate
<1>5. Shaped'
  BY <1>1, <1>4, SameLength DEF Handover, Shaped
<1>6. dsh.id \in Nat
  BY DEF Handover, Shaped
<1>7. \A p \in DOMAIN pumps :
         p \in DOMAIN pumps' /\ (relay.host = host.cli /\ Pending(p) => Pending(p)')
  BY <1>1, <1>3, <1>4 DEF Pending
<1> QED
  BY <1>1, <1>5, <1>6, <1>7, Apart

LEMMA NewDriverHandsOver ==
    ASSUME Inv, Inv', RelayNext, Handover, NEW s \in Sessions, NewDriver(s)
    PROVE  Handover'
<1>1. UNCHANGED <<dsh, clients, host, monitor, relay>>
  BY DEF NewDriver, sharedHost
<1>2. pumps \in Seq(Pump) /\ drivers \in Seq(Driver) /\ Len(pumps) = Len(drivers)
  BY DriversSequence DEF Handover, Shaped
<1>3. PICK pump \in Pump : pumps' = Append(pumps, pump)
  BY DEF NewDriver, Pump
<1>4. PICK new : drivers' = Append(drivers, new)
  BY DEF NewDriver
<1>5. /\ pumps' \in Seq(Pump) /\ Len(pumps') = Len(pumps) + 1
      /\ \A p \in DOMAIN pumps : p \in DOMAIN pumps' /\ pumps'[p] = pumps[p]
  BY <1>2, <1>3
<1>6. Len(drivers') = Len(drivers) + 1
  BY <1>2, <1>4
<1>7. Shaped'
  BY <1>1, <1>2, <1>5, <1>6 DEF Handover, Shaped
<1>8. dsh.id \in Nat
  BY DEF Handover, Shaped
<1>9. \A p \in DOMAIN pumps :
         p \in DOMAIN pumps' /\ (relay.host = host.cli /\ Pending(p) => Pending(p)')
  BY <1>1, <1>5 DEF Pending
<1> QED
  BY <1>1, <1>7, <1>8, <1>9, Apart

LEMMA StartHostHandsOver ==
    ASSUME Inv, Inv', Handover, NEW d \in DOMAIN drivers, StartHost(d)
    PROVE  Handover'
<1>1. PICK cmd \in 0..MaxProcs :
        /\ Obtain(cmd)
        /\ host' = [cmd |-> cmd, cli |-> Newest]
        /\ monitor' = [Idle EXCEPT !.at = IF cmd = 0 THEN "attached" ELSE "owned"]
  BY DEF StartHost
<1>2. cmd \in Nat
  BY RelayAssumption
<1>3. UNCHANGED <<relay, pumps>> /\ DOMAIN drivers' = DOMAIN drivers /\ relay.host = 0
  <2>1. drivers[d].at = "start" /\ inflight = d /\ d # 0
    BY DEF StartHost, At, Inv, Inflight, Typed
  <2> QED
    BY <2>1 DEF StartHost, Inv, Inflight
<1>4. /\ monitor'.at \in {"attached", "owned"} /\ monitor'.todo = {}
      /\ monitor'.cli = 0 /\ monitor'.cmd = 0
      /\ monitor'.subs \in [Sessions -> Nat]
  BY <1>1 DEF Idle, NewClient
<1>5. /\ clients' \in Seq(Client) /\ clients'[Len(clients')].at = "open"
      /\ Len(clients') \in DOMAIN clients'
      /\ dsh'.id \in Nat /\ cmd <= dsh'.id /\ DOMAIN dsh' = {"state", "id"}
  <2>1. Len(clients) \in Nat
    BY DEF Inv, Typed
  <2> QED
    BY <1>1, <1>2, <2>1, Obtained
<1>6. Shaped'
  <2>1. /\ pumps \in Seq(Pump) /\ Len(pumps) = Len(drivers) /\ relay.tokens \in Nat
    BY DEF Handover, Shaped
  <2> QED
    BY <1>3, <1>4, <1>5, <2>1, SameLength DEF Shaped
<1>7. Current' /\ ~Handing'
  <2>1. relay.tokens = 0
    BY <1>3 DEF Handover, Current
  <2>2. host'.cmd = cmd /\ host'.cli = Len(clients') /\ monitor'.cmd <= dsh'.id
    BY <1>1, <1>4, <1>5 DEF Newest
  <2> QED
    BY <1>3, <1>4, <1>5, <2>1, <2>2 DEF Current, Replacing, Handing
<1> QED
  BY <1>6, <1>7, Elsewhere

LEMMA PumpTyped ==
    ASSUME Handover, NEW q \in DOMAIN pumps
    PROVE  pumps[q] \in Pump /\ pumps[q].cli \in Nat
<1>1. pumps \in Seq(Pump)
  BY DEF Handover, Shaped
<1>2. pumps[q] \in Pump
  BY <1>1
<1> QED
  BY <1>2 DEF Pump

LEMMA LoadHostHandsOver ==
    ASSUME Inv, Inv', RelayNext, Handover, NEW q \in DOMAIN drivers, LoadHost(q)
    PROVE  Handover'
<1>1. UNCHANGED <<dsh, clients, host, monitor, relay, drivers>> /\ q \in DOMAIN pumps
  BY DEF LoadHost, PumpAt, sharedHost, chats
<1> DEFINE new == [at |-> "subscribe", cli |-> relay.host]
<1>2. pumps' = [pumps EXCEPT ![q] = new] /\ new \in Pump
      /\ new.at = "subscribe" /\ new.cli = relay.host
  BY DEF LoadHost, Pump, Inv, Typed
<1> HIDE DEF new
<1>3. /\ pumps' \in Seq(Pump) /\ DOMAIN pumps' = DOMAIN pumps
      /\ Len(pumps') = Len(pumps) /\ pumps'[q] = new
      /\ \A e \in DOMAIN pumps : e # q => pumps'[e] = pumps[e]
  BY <1>1, <1>2, PumpsUpdate
<1>4. Shaped'
  BY <1>1, <1>3 DEF Handover, Shaped
<1>5. dsh.id \in Nat
  BY DEF Handover, Shaped
<1>6. \A p \in DOMAIN pumps :
         p \in DOMAIN pumps' /\ (relay.host = host.cli /\ Pending(p) => Pending(p)')
  BY <1>1, <1>2, <1>3 DEF Pending
<1> QED
  BY <1>1, <1>4, <1>5, <1>6, Apart

LEMMA PumpSubscribeHandsOver ==
    ASSUME Inv, Inv', Handover, NEW q \in DOMAIN drivers, PumpSubscribe(q)
    PROVE  Handover'
<1>1. /\ UNCHANGED <<dsh, host, monitor, relay, drivers>>
      /\ q \in DOMAIN pumps /\ pumps[q].at = "subscribe"
  BY DEF PumpSubscribe, PumpAt, sharedHost, chats
<1>2. PICK c \in Nat : c = pumps[q].cli
  BY <1>1, PumpTyped
<1>3. PICK t \in Sessions : t = drivers[q].session
  BY DEF Inv, Typed, Driver
<1>4. /\ clients \in Seq(Client) /\ pumps \in Seq(Pump) /\ DOMAIN pumps = 1..Len(pumps)
      /\ q \in Nat /\ q # 0
  BY <1>1 DEF Handover, Shaped, Inv, Typed
<1>5. clients' = [clients EXCEPT ![c].router[t] = q,
                    ![c].hub = IF HubClosed(c) THEN @ ELSE @ \cup {t}]
  BY <1>2, <1>3 DEF PumpSubscribe
<1>6. PICK next \in Pump : next.at \in {"panics", "wait"} /\ pumps' = [pumps EXCEPT ![q] = next]
  <2>1. PICK at \in {"panics", "wait"} : pumps' = [pumps EXCEPT ![q].at = at]
    BY <1>2 DEF PumpSubscribe
  <2> DEFINE next == [pumps[q] EXCEPT !.at = at]
  <2>2. next \in Pump /\ next.at = at /\ pumps' = [pumps EXCEPT ![q] = next]
    <3>1. pumps[q] \in Pump
      BY <1>1, PumpTyped
    <3> QED
      BY <2>1, <3>1 DEF Pump
  <2> HIDE DEF next
  <2> QED
    BY <2>2
<1>7. /\ pumps' \in Seq(Pump) /\ DOMAIN pumps' = DOMAIN pumps
      /\ Len(pumps') = Len(pumps) /\ pumps'[q] = next
      /\ \A e \in DOMAIN pumps : e # q => pumps'[e] = pumps[e]
  BY <1>1, <1>6, PumpsUpdate
<1>8. /\ clients' \in Seq(Client) /\ DOMAIN clients' = DOMAIN clients
      /\ Len(clients') = Len(clients)
      /\ \A e \in DOMAIN clients :
           /\ clients'[e].at = clients[e].at
           /\ clients[e].hub \subseteq clients'[e].hub
           /\ \A x \in Sessions : clients[e].router[x] # 0 => clients'[e].router[x] # 0
           /\ e = c /\ clients[e].at = "open" => clients'[e].router[t] # 0 /\ t \in clients'[e].hub
  <2>1. CASE c \in DOMAIN clients
    <3>1. PICK old \in Client : old = clients[c]
      BY <1>4, <2>1
    <3> DEFINE new == [old EXCEPT !.router[t] = q,
                         !.hub = IF HubClosed(c) THEN old.hub ELSE old.hub \cup {t}]
    <3>2. clients' = [clients EXCEPT ![c] = new]
      BY <1>4, <1>5, <2>1, <3>1
    <3>3. /\ new \in Client /\ new.at = old.at /\ old.hub \subseteq new.hub
          /\ new.router[t] = q /\ \A x \in Sessions : x # t => new.router[x] = old.router[x]
          /\ old.at = "open" => t \in new.hub
      BY <1>4, <3>1 DEF Client, HubClosed
    <3> HIDE DEF new
    <3>4. /\ clients' \in Seq(Client) /\ DOMAIN clients' = DOMAIN clients
          /\ Len(clients') = Len(clients) /\ clients'[c] = new
          /\ \A e \in DOMAIN clients : e # c => clients'[e] = clients[e]
      BY <2>1, <3>2, <3>3, ClientUpdate
    <3> QED
      BY <1>4, <3>1, <3>3, <3>4
  <2>2. CASE c \notin DOMAIN clients
    <3>1. clients' = clients
      BY <1>4, <1>5, <2>2
    <3> QED
      BY <1>4, <2>2, <3>1
  <2> QED
    BY <2>1, <2>2
<1>9. Shaped'
  BY <1>1, <1>7, <1>8 DEF Handover, Shaped
<1>10. Current'
  <2>1. DOMAIN clients = 1..Len(clients) /\ Len(clients) \in Nat /\ host.cli \in Nat
    BY DEF Inv, Typed
  <2>2. ASSUME monitor.at \in {"swap", "fallback swap"} PROVE Len(clients) \in DOMAIN clients
    <3>1. host.cli < Len(clients)
      BY <2>2 DEF Handover, Current
    <3> QED
      BY <2>1, <3>1
  <2> QED
    BY <1>1, <1>8, <2>2 DEF Handover, Current
<1>11. ASSUME Handing, NEW s \in Sessions, Kept(s) PROVE Kept(s)'
  <2>1. host.cli \in DOMAIN clients /\ clients[host.cli].at = "open"
    BY <1>11 DEF Handing, Handover, Current, Inv, NoHostYet
  <2>2. CASE Coming(s) /\ s = t /\ c = host.cli
    <3>1. clients'[host.cli].router[s] # 0 /\ s \in clients'[host.cli].hub
      BY <1>8, <2>1, <2>2
    <3>2. Followed(s)'
      BY <1>1, <3>1 DEF Followed
    <3> QED
      BY <1>1, <3>1, <3>2 DEF Kept
  <2>3. CASE Coming(s) /\ ~(s = t /\ c = host.cli)
    <3>1. PICK p \in DOMAIN pumps : drivers[p].session = s /\ Pending(p)
      BY <2>3 DEF Coming
    <3>2. p # q
      BY <1>1, <1>2, <1>3, <2>3, <3>1 DEF Pending
    <3>3. Pending(p)'
      BY <1>1, <1>7, <3>1, <3>2 DEF Pending
    <3>4. Coming(s)'
      BY <1>1, <1>7, <2>3, <3>1, <3>3 DEF Coming
    <3> QED
      BY <3>4 DEF Kept
  <2>4. CASE monitor.at = "transfer" /\ s \in monitor.todo
    BY <1>1, <2>4 DEF Kept
  <2>5. CASE /\ clients[host.cli].router[s] # 0
             /\ monitor.at = "recover" /\ s \notin monitor.todo => Followed(s)
    <3>1. clients'[host.cli].router[s] # 0 /\ clients[host.cli].hub \subseteq clients'[host.cli].hub
      BY <1>8, <2>1, <2>5
    <3>2. Followed(s) => Followed(s)'
      BY <1>1, <3>1 DEF Followed
    <3> QED
      BY <1>1, <2>5, <3>1, <3>2 DEF Kept
  <2> QED
    BY <1>11, <2>2, <2>3, <2>4, <2>5 DEF Kept
<1>12. Carried'
  BY <1>1, <1>11 DEF Handover, Carried, Handing
<1> QED
  BY <1>9, <1>10, <1>12 DEF Handover

LEMMA HostChangedHandsOver ==
    ASSUME Inv, Inv', Handover, NEW q \in DOMAIN drivers, HostChanged(q)
    PROVE  Handover'
<1>1. /\ UNCHANGED <<dsh, host, monitor, drivers>>
      /\ q \in DOMAIN pumps /\ pumps[q].at = "wait"
  BY DEF HostChanged, PumpAt, sharedHost, chats
<1>2. PICK c \in Nat : c = pumps[q].cli
  BY <1>1, PumpTyped
<1>3. PICK t \in Sessions : t = drivers[q].session
  BY DEF Inv, Typed, Driver
<1>4. /\ clients \in Seq(Client) /\ pumps \in Seq(Pump) /\ DOMAIN pumps = 1..Len(pumps)
      /\ q \in Nat /\ q # 0
  BY <1>1 DEF Handover, Shaped, Inv, Typed
<1>5. clients' = [clients EXCEPT ![c].router[t] = 0, ![c].hub = @ \ {t}]
  BY <1>2, <1>3 DEF HostChanged
<1>6. /\ relay.tokens # 0 /\ relay'.tokens = relay.tokens - 1 /\ relay'.host = relay.host
      /\ relay.tokens \in Nat
  <2>1. DOMAIN relay = {"host", "tokens"} /\ relay.tokens \in Nat
    BY DEF Handover, Shaped, Inv, Typed
  <2> QED
    BY <2>1 DEF HostChanged
<1> DEFINE next == [pumps[q] EXCEPT !.at = "load"]
<1>7. next \in Pump /\ next.at = "load" /\ pumps' = [pumps EXCEPT ![q] = next]
  <2>1. pumps[q] \in Pump
    BY <1>1, PumpTyped
  <2> QED
    BY <2>1 DEF HostChanged, Pump
<1> HIDE DEF next
<1>8. /\ pumps' \in Seq(Pump) /\ DOMAIN pumps' = DOMAIN pumps
      /\ Len(pumps') = Len(pumps) /\ pumps'[q] = next
      /\ \A e \in DOMAIN pumps : e # q => pumps'[e] = pumps[e]
  BY <1>1, <1>7, PumpsUpdate
<1>9. /\ clients' \in Seq(Client) /\ DOMAIN clients' = DOMAIN clients
      /\ Len(clients') = Len(clients)
      /\ \A e \in DOMAIN clients :
           /\ clients'[e].at = clients[e].at
           /\ \A x \in Sessions : x # t =>
                /\ clients'[e].router[x] = clients[e].router[x]
                /\ x \in clients[e].hub => x \in clients'[e].hub
  <2>1. CASE c \in DOMAIN clients
    <3>1. PICK old \in Client : old = clients[c]
      BY <1>4, <2>1
    <3> DEFINE new == [old EXCEPT !.router[t] = 0, !.hub = @ \ {t}]
    <3>2. clients' = [clients EXCEPT ![c] = new]
      BY <1>4, <1>5, <2>1, <3>1
    <3>3. /\ new \in Client /\ new.at = old.at /\ new.hub = old.hub \ {t}
          /\ \A x \in Sessions : x # t => new.router[x] = old.router[x]
      BY <1>4 DEF Client
    <3> HIDE DEF new
    <3>4. /\ clients' \in Seq(Client) /\ DOMAIN clients' = DOMAIN clients
          /\ Len(clients') = Len(clients) /\ clients'[c] = new
          /\ \A e \in DOMAIN clients : e # c => clients'[e] = clients[e]
      BY <2>1, <3>2, <3>3, ClientUpdate
    <3> QED
      BY <1>4, <3>1, <3>3, <3>4
  <2>2. CASE c \notin DOMAIN clients
    <3>1. clients' = clients
      BY <1>4, <1>5, <2>2
    <3> QED
      BY <1>4, <2>2, <3>1
  <2> QED
    BY <2>1, <2>2
<1>10. Shaped'
  BY <1>1, <1>6, <1>8, <1>9 DEF Handover, Shaped
<1>11. Current'
  <2>1. DOMAIN clients = 1..Len(clients) /\ Len(clients) \in Nat /\ host.cli \in Nat
    BY DEF Inv, Typed
  <2>2. ASSUME monitor.at \in {"swap", "fallback swap"} PROVE Len(clients) \in DOMAIN clients
    <3>1. host.cli < Len(clients)
      BY <2>2 DEF Handover, Current
    <3> QED
      BY <2>1, <3>1
  <2>3. relay.host # 0 /\ (monitor.at \notin Replacing => relay.host = host.cli)
    BY <1>6 DEF Handover, Current
  <2> QED
    BY <1>1, <1>6, <1>9, <2>2, <2>3 DEF Handover, Current
<1>12. ASSUME Handing, NEW s \in Sessions, Kept(s) PROVE Kept(s)'
  <2>1. host.cli \in DOMAIN clients /\ relay.host = host.cli
    <3>1. monitor.at \notin Replacing /\ monitor.at # "none"
      BY <1>12 DEF Handing, Replacing
    <3> QED
      BY <1>6, <3>1 DEF Handover, Current, Inv, NoHostYet
  <2>2. CASE s = t
    <3>1. Pending(q)'
      BY <1>7, <1>8 DEF Pending
    <3>2. Coming(s)'
      BY <1>1, <1>3, <1>6, <1>8, <2>1, <2>2, <3>1 DEF Coming
    <3> QED
      BY <3>2 DEF Kept
  <2>3. CASE s # t /\ Coming(s)
    <3>1. PICK p \in DOMAIN pumps : drivers[p].session = s /\ Pending(p)
      BY <2>3 DEF Coming
    <3>2. Pending(p)'
      BY <1>1, <1>3, <1>8, <2>3, <3>1 DEF Pending
    <3>3. Coming(s)'
      BY <1>1, <1>6, <1>8, <2>1, <3>1, <3>2 DEF Coming
    <3> QED
      BY <3>3 DEF Kept
  <2>4. CASE monitor.at = "transfer" /\ s \in monitor.todo
    BY <1>1, <2>4 DEF Kept
  <2>5. CASE /\ s # t /\ clients[host.cli].router[s] # 0
             /\ monitor.at = "recover" /\ s \notin monitor.todo => Followed(s)
    <3>1. /\ clients'[host.cli].router[s] # 0
          /\ s \in clients[host.cli].hub => s \in clients'[host.cli].hub
      BY <1>9, <2>1, <2>5
    <3>2. Followed(s) => Followed(s)'
      BY <1>1, <3>1 DEF Followed
    <3> QED
      BY <1>1, <2>5, <3>1, <3>2 DEF Kept
  <2> QED
    BY <1>12, <2>2, <2>3, <2>4, <2>5 DEF Kept
<1>13. Carried'
  BY <1>1, <1>12 DEF Handover, Carried, Handing
<1> QED
  BY <1>10, <1>11, <1>13 DEF Handover

LEMMA HandoverStep == Handover /\ [RelayNext]_relayVars => Handover'
<1> SUFFICES ASSUME Handover, [RelayNext]_relayVars PROVE Handover'
  OBVIOUS
<1>1. Inv /\ Inv'
  BY InvStep DEF Handover
<1>2. CASE UNCHANGED relayVars
  BY <1>1, <1>2 DEF relayVars, sharedHost, chats, Handover, Shaped, Current, Carried, Handing,
       Kept, Coming, Pending, Followed
<1>3. CASE RelayNext
  <2>1. CASE MonitorStep
    BY <1>1, <2>1, MonitorWaits, SpawnOnceHandsOver, SwapHandsOver, ReplaceGlobalHandsOver,
       SnapshotHandsOver, TransferHandsOver, CloseOldHandsOver, DrainedHandsOver,
       RecoverHandsOver, RecoveredHandsOver, FallbackEndsHandsOver DEF MonitorStep
  <2>2. CASE \E s \in Sessions : NewDriver(s) \/ CloseDriver(s)
    BY <1>1, <1>3, <2>2, NewDriverHandsOver, DriverHandsOver
  <2>3. ASSUME NEW d \in DOMAIN drivers, DriverStep(d) PROVE Handover'
    BY <1>1, <1>3, <2>3, DriverHandsOver, StartHostHandsOver, MuxSubscribeHandsOver
       DEF DriverStep
  <2>4. ASSUME NEW d \in DOMAIN drivers, PumpStep(d) PROVE Handover'
    BY <1>1, <1>3, <2>4, LoadHostHandsOver, PumpSubscribeHandsOver, HostChangedHandsOver
       DEF PumpStep
  <2> QED
    BY <1>1, <1>3, <2>1, <2>2, <2>3, <2>4, DshHandsOver, ClientStepHandsOver DEF RelayNext
<1> QED
  BY <1>2, <1>3

(***************************************************************************)
(* tryRespawn's transfer and RecoverSubscriptions lose no subscription:    *)
(* when the monitor has replaced dsh and goes back to waiting, each        *)
(* session that the old client routed is routed and followed by the new    *)
(* one, or reported as an orphan, or its pump is about to subscribe it     *)
(* there, however the pumps, the drivers, the probe and dsh move meanwhile *)
(* and whichever session.create fails.                                     *)
(***************************************************************************)
THEOREM RespawnKeepsSubscriptionsAlways == RelaySpec => RespawnKeepsSubscriptions
<1> DEFINE Over == MonitorAt("recover") /\ monitor'.at # "recover"
                     => \A s \in Sessions : monitor.subs[s] # 0 => Served(s) \/ Moves(s)
<1>1. Handover /\ [RelayNext]_relayVars => [Over]_relayVars
  <2> SUFFICES ASSUME Handover, RelayNext, monitor.at = "recover", monitor'.at # "recover",
                      NEW s \in Sessions, monitor.subs[s] # 0
               PROVE  Served(s) \/ Moves(s)
    BY DEF MonitorAt
  <2>1. monitor.todo = {}
    <3>1. Recovered \/ Recover
      BY DEF RelayNext, DshFails, UserStartsDsh, MonitorStep, OwnedExits, AttachedProbe, SpawnOnce,
           Swap, ReplaceGlobal, Snapshot, Transfer, CloseOld, Drained, FallbackEnds, ClientStep,
           HubClose, CloseDone, ProbeTick, ForceKillCmd,
           NewDriver, CloseDriver, DriverStep, PumpStep, Get, StartHost, StartFails, StartRelay,
           MuxClient, Connect, MuxSubscribe, LoadHost, PumpSubscribe, HostChanged, sharedHost, MonitorAt,
           At, Handover, Inv, Inflight, NoHostYet
    <3> QED
      BY <3>1 DEF Recovered, Recover, Reattach, Orphan, Handover, Inv, Typed
  <2>2. Kept(s)
    BY DEF Handover, Carried, Handing
  <2> QED
    BY <2>1, <2>2 DEF Kept, Coming, Pending, Followed, Served, Moves
<1> QED
  BY <1>1, HandoverInit, HandoverStep, PTL DEF RelaySpec, RespawnKeepsSubscriptions
=============================================================================
