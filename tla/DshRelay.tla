------------------------------ MODULE DshRelay ------------------------------
(***************************************************************************)
(* The shared dsh host and the relay of its sessions: the one host start   *)
(* of concurrent first drivers (relay.Get, EnsureSharedHost); the monitor  *)
(* that attaches to a dsh or owns one, replaces it when it has died and    *)
(* carries the subscriptions over (host/lifecycle.go); the health probe    *)
(* (host/health.go); the relay's pump of every session (relay/relay.go);   *)
(* and the drivers that connect, are recovered and are closed              *)
(* (dsh/session.go).                                                       *)
(*                                                                         *)
(* All dsh processes listen on the one port, one at a time.  A sessionState*)
(* of the relay is named by the driver whose Connect made it, and so is    *)
(* its pump; DshHub models the Hub of a client, here the set of sessions   *)
(* it asks dsh to follow.                                                  *)
(***************************************************************************)
EXTENDS Naturals, Sequences, FiniteSets

CONSTANTS
    Sessions,
    ProbeStrikes,        \* healthProbeStrikesMax
    AttachedStrikes,     \* defaultAttachedProbeStrikes (3)
    MaxFaults, MaxForeign, MaxCloses,  \* bounds: deaths and wedges, dsh processes
                                       \* started by the user, closes
    MaxProcs, MaxDrivers \* bounds: dsh processes, drivers

ASSUME RelayAssumption ==
    {ProbeStrikes, AttachedStrikes, MaxFaults, MaxForeign, MaxCloses, MaxProcs, MaxDrivers}
       \subseteq Nat

VARIABLES
    dsh,        \* the last dsh started: its state and its number
    clients,    \* host.Client: how far Close is, the Router's sessionState of each
                \* session, and the sessions of its Hub
    host,       \* SharedHost: cmd (0: attached) and cli
    monitor,    \* runMonitor: where it is, its probe's strikes, and the replacement
                \* under way, with the orphans of its RecoverResult
    probe,      \* HealthProbe
    relay,      \* relayInstance: host (0: none), the tokens of hostChanged
    inflight,   \* relayInflight: the driver that starts the host
    drivers,    \* newDriver: session, where it is, d.cli
    handle,     \* the driver of each session's AgentSession
    pumps,      \* runMuxPump of each sessionState: where it is, and its cli
    left        \* faults, foreign starts and closes still to come

relayVars == <<dsh, clients, host, monitor, probe, relay, inflight, drivers, handle,
               pumps, left>>
sharedHost == <<host, monitor, probe>>
chats == <<inflight, drivers, handle>>

NewClient == [at |-> "open", router |-> [s \in Sessions |-> 0], hub |-> {}]
Idle == [at |-> "none", strikes |-> 0, cmd |-> 0, cli |-> 0, subs |-> NewClient.router,
         todo |-> {}, orphans |-> {}]

RelayInit ==
    /\ dsh = [state |-> "none", id |-> 0]
    /\ clients = <<>>
    /\ host = [cmd |-> 0, cli |-> 0] /\ monitor = Idle
    /\ probe = [strikes |-> 0, kills |-> FALSE]
    /\ relay = [host |-> 0, tokens |-> 0]
    /\ inflight = 0 /\ drivers = <<>> /\ handle = NewClient.router /\ pumps = <<>>
    /\ left = [faults |-> MaxFaults, foreign |-> MaxForeign, closes |-> MaxCloses]

-----------------------------------------------------------------------------
(* dsh, external.                                                           *)

Listening == dsh' = [state |-> "up", id |-> dsh.id + 1]

DshFails(state) ==
    /\ dsh.state \notin {"none", state} /\ left.faults > 0
    /\ left' = [left EXCEPT !.faults = @ - 1]
    /\ dsh' = [dsh EXCEPT !.state = state]
    /\ UNCHANGED <<clients, sharedHost, relay, chats, pumps>>

UserStartsDsh ==
    /\ dsh.state = "none" /\ left.foreign > 0 /\ dsh.id < MaxProcs
    /\ left' = [left EXCEPT !.foreign = @ - 1]
    /\ Listening
    /\ UNCHANGED <<clients, sharedHost, relay, chats, pumps>>

\* spawnOnce, and StartSharedHost: attach to what answers on the port, or reclaim the
\* port and spawn.  `cmd` is nil when attached.
Obtain(cmd) ==
    /\ clients' = Append(clients, NewClient)
    /\ IF dsh.state = "up"
       THEN cmd = 0 /\ UNCHANGED dsh
       ELSE dsh.id < MaxProcs /\ cmd = dsh.id + 1 /\ Listening
Newest == Len(clients')

-----------------------------------------------------------------------------
(* The monitor.                                                             *)

MonitorAt(at) == monitor.at = at
MonitorGoes(at) == monitor' = [monitor EXCEPT !.at = at]

\* waitCmd returns: the owned process has exited.
OwnedExits ==
    /\ MonitorAt("owned") /\ (dsh.state = "none" \/ dsh.id # host.cmd)
    /\ MonitorGoes("respawn")
    /\ UNCHANGED <<dsh, clients, host, probe, relay, chats, pumps, left>>

AttachedProbe ==
    /\ MonitorAt("attached")
    /\ monitor' = IF dsh.state = "up" THEN [monitor EXCEPT !.strikes = 0]
                  ELSE IF monitor.strikes + 1 < AttachedStrikes
                       THEN [monitor EXCEPT !.strikes = @ + 1]
                       ELSE [monitor EXCEPT !.strikes = 0, !.at = "fallback"]
    /\ UNCHANGED <<dsh, clients, host, probe, relay, chats, pumps, left>>

\* tryRespawn and monitorAttachedFallback: an attempt that succeeds.
SpawnOnce ==
    /\ monitor.at \in {"respawn", "fallback"}
    /\ \E cmd \in 0..MaxProcs :
         /\ Obtain(cmd)
         /\ monitor' = [monitor EXCEPT !.cmd = cmd, !.cli = host.cli,
                            !.at = IF @ = "respawn" THEN "swap" ELSE "fallback swap"]
    /\ UNCHANGED <<host, probe, relay, chats, pumps, left>>

\* h.cmd and h.cli under h.mu; monitor.cli keeps the old client.
Swap ==
    /\ monitor.at \in {"swap", "fallback swap"}
    /\ host' = [cmd |-> monitor.cmd, cli |-> Len(clients)]
    /\ MonitorGoes(IF monitor.at = "swap" THEN "replace" ELSE "fallback replace")
    /\ UNCHANGED <<dsh, clients, probe, relay, chats, pumps, left>>

\* ReplaceGlobal, and the relay's hook: one token, whatever the number of pumps.
ReplaceGlobal ==
    /\ monitor.at \in {"replace", "fallback replace"}
    /\ relay' = IF relay.host = 0 THEN relay
                ELSE [relay EXCEPT !.host = host.cli, !.tokens = @ + 1]
    /\ MonitorGoes(IF monitor.at = "replace" THEN "snapshot" ELSE "fallback close")
    /\ UNCHANGED <<dsh, clients, host, probe, chats, pumps, left>>

Routed(c) == {s \in Sessions : clients[c].router[s] # 0}

Snapshot ==
    /\ MonitorAt("snapshot")
    /\ monitor' = [monitor EXCEPT !.at = "transfer",
                       !.subs = clients[monitor.cli].router, !.todo = Routed(monitor.cli)]
    /\ UNCHANGED <<dsh, clients, host, probe, relay, chats, pumps, left>>

Transfer ==
    /\ MonitorAt("transfer")
    /\ IF monitor.todo = {}
       THEN MonitorGoes("close") /\ UNCHANGED clients
       ELSE \E s \in monitor.todo :
              /\ clients' = [clients EXCEPT ![host.cli].router[s] = monitor.subs[s]]
              /\ monitor' = [monitor EXCEPT !.todo = @ \ {s}]
    /\ UNCHANGED <<dsh, host, probe, relay, chats, pumps, left>>

\* Client.Close: Hub.Close empties the Hub and waits for its pump, and Done fires then.
HubCloses(c) == clients' = [clients EXCEPT ![c].at = "closed", ![c].hub = {}]

\* The monitor waits for the end of oldCli.Close.
CloseOld ==
    /\ MonitorAt("close")
    /\ HubCloses(monitor.cli)
    /\ MonitorGoes("drain")
    /\ UNCHANGED <<dsh, host, probe, relay, chats, pumps, left>>

\* The fallback's goroutine.
HubClose(c) ==
    /\ clients[c].at = "closing"
    /\ HubCloses(c)
    /\ UNCHANGED <<dsh, sharedHost, relay, chats, pumps, left>>

CloseDone(c) ==
    /\ clients[c].at = "closed"
    /\ clients' = [clients EXCEPT ![c].at = "done"]
    /\ UNCHANGED <<dsh, sharedHost, relay, chats, pumps, left>>

\* The monitor goes on to RecoverSubscriptions, whose enumeration of the Router is read
\* at once.
Drained ==
    /\ MonitorAt("drain") /\ clients[monitor.cli].at = "done"
    /\ monitor' = [monitor EXCEPT !.at = "recover", !.todo = Routed(host.cli)]
    /\ UNCHANGED <<dsh, clients, host, probe, relay, chats, pumps, left>>

\* Mutant: the session is created again and its stream is not opened.
ReattachWithoutHub(s) ==
    /\ dsh.state = "up"
    /\ monitor' = [monitor EXCEPT !.todo = @ \ {s}]
    /\ UNCHANGED clients

\* RecoverSubscriptions of one session: session.create returns the session's id, and the
\* Hub opens its stream.
Reattach(s) ==
    /\ dsh.state = "up"
    /\ clients' = [clients EXCEPT ![host.cli].hub = @ \cup {s}]
    /\ monitor' = [monitor EXCEPT !.todo = @ \ {s}]

\* session.create fails, of a dsh that is up too, has no time left of the calls' common
\* budget, or returns another id: the session is an orphan of the RecoverResult.
Orphan(s) ==
    /\ monitor' = [monitor EXCEPT !.todo = @ \ {s}, !.orphans = @ \cup {s}]
    /\ UNCHANGED clients

Recover ==
    /\ MonitorAt("recover")
    /\ \E s \in monitor.todo : Reattach(s) \/ Orphan(s)
    /\ UNCHANGED <<dsh, host, probe, relay, chats, pumps, left>>

\* The result is logged, and runMonitor looks at h.cmd again.
Recovered ==
    /\ MonitorAt("recover") /\ monitor.todo = {}
    /\ monitor' = [Idle EXCEPT !.at = IF host.cmd = 0 THEN "attached" ELSE "owned"]
    /\ UNCHANGED <<dsh, clients, host, probe, relay, chats, pumps, left>>

\* The fallback leaves the old client's Close to a goroutine; the monitor, which looks at
\* h.cmd again, returns when the fallback has attached once more.
FallbackEnds ==
    /\ MonitorAt("fallback close")
    /\ clients' = [clients EXCEPT ![monitor.cli].at = "closing"]
    /\ monitor' = [Idle EXCEPT !.at = IF host.cmd = 0 THEN "exited" ELSE "owned"]
    /\ UNCHANGED <<dsh, host, probe, relay, chats, pumps, left>>

-----------------------------------------------------------------------------
(* The health probe, which the monitor runs.                                *)

ProbeRuns == monitor.at \notin {"none", "exited"}

\* Mutant: the last strike is logged and nothing more.
ProbeTickLogs ==
    /\ ProbeRuns /\ ~probe.kills
    /\ probe' = IF dsh.state = "up" \/ probe.strikes + 1 >= ProbeStrikes
                THEN [probe EXCEPT !.strikes = 0]
                ELSE [probe EXCEPT !.strikes = @ + 1]
    /\ UNCHANGED <<dsh, clients, host, monitor, relay, chats, pumps, left>>

ProbeTick ==
    /\ ProbeRuns /\ ~probe.kills
    /\ probe' = IF dsh.state = "up" THEN [probe EXCEPT !.strikes = 0]
                ELSE [strikes |-> probe.strikes + 1,
                      kills |-> probe.strikes + 1 >= ProbeStrikes]
    /\ UNCHANGED <<dsh, clients, host, monitor, relay, chats, pumps, left>>

\* forceKillCmd, of the process that is h.cmd by now; then the strikes are reset.
ForceKillCmd ==
    /\ probe.kills
    /\ probe' = [strikes |-> 0, kills |-> FALSE]
    /\ dsh' = IF host.cmd # 0 /\ dsh.id = host.cmd
              THEN [dsh EXCEPT !.state = "none"] ELSE dsh
    /\ UNCHANGED <<clients, host, monitor, relay, chats, pumps, left>>

-----------------------------------------------------------------------------
(* The drivers.                                                             *)

At(d, at) == d \in DOMAIN drivers /\ drivers[d].at = at
Goes(d, at) == drivers' = [drivers EXCEPT ![d].at = at]
Starting(d) ==
    d \in DOMAIN drivers /\ drivers[d].at \notin {"ready", "failed", "closed"}
Dead(d) == clients[drivers[d].cli].at = "done"

\* Spawn; or Submit, whose Keepalive finds the driver's client closed: the driver is
\* dropped, not closed.
NewDriver(s) ==
    /\ Len(drivers) < MaxDrivers
    /\ \A d \in DOMAIN drivers : drivers[d].session = s => ~Starting(d)
    /\ handle[s] # 0 => Dead(handle[s])
    /\ handle' = [handle EXCEPT ![s] = 0]
    /\ drivers' = Append(drivers, [session |-> s, at |-> "get", cli |-> 0])
    /\ pumps' = Append(pumps, [at |-> "none", cli |-> 0])
    /\ UNCHANGED <<dsh, clients, sharedHost, relay, inflight, left>>

\* Mutant: a second driver does not wait for the first one's start.
GetStarts(d) ==
    /\ At(d, "get")
    /\ IF relay.host # 0
       THEN Goes(d, "mux") /\ UNCHANGED inflight
       ELSE Goes(d, "start") /\ inflight' = d
    /\ UNCHANGED <<dsh, clients, sharedHost, relay, handle, pumps, left>>

\* relay.Get.
Get(d) ==
    /\ At(d, "get")
    /\ IF relay.host # 0
       THEN Goes(d, "mux") /\ UNCHANGED inflight
       ELSE IF inflight # 0 THEN Goes(d, "wait") /\ UNCHANGED inflight
            ELSE Goes(d, "start") /\ inflight' = d
    /\ UNCHANGED <<dsh, clients, sharedHost, relay, handle, pumps, left>>

\* EnsureSharedHost, StartSharedHost: SetGlobal, SetSharedHost and go runMonitor.
StartHost(d) ==
    /\ At(d, "start") /\ host.cli = 0
    /\ \E cmd \in 0..MaxProcs :
         /\ Obtain(cmd)
         /\ host' = [cmd |-> cmd, cli |-> Newest]
         /\ monitor' = [Idle EXCEPT !.at = IF cmd = 0 THEN "attached" ELSE "owned"]
    /\ drivers' = [drivers EXCEPT ![d].at = "relay", ![d].cli = Newest]
    /\ UNCHANGED <<probe, relay, inflight, handle, pumps, left>>

\* Mutant: the failed start does not wake its waiters.
StartFailsAlone(d) ==
    /\ At(d, "start") /\ host.cli = 0
    /\ Goes(d, "failed") /\ inflight' = 0
    /\ UNCHANGED <<dsh, clients, sharedHost, relay, handle, pumps, left>>

\* The waiters get the error; the next call starts again.
StartFails(d) ==
    /\ At(d, "start") /\ host.cli = 0
    /\ drivers' = [e \in DOMAIN drivers |->
                     IF e = d \/ At(e, "wait") THEN [drivers[e] EXCEPT !.at = "failed"]
                     ELSE drivers[e]]
    /\ inflight' = 0
    /\ UNCHANGED <<dsh, clients, sharedHost, relay, handle, pumps, left>>

\* newRelay with the client StartSharedHost returned, its hook, and close(call.done).
StartRelay(d) ==
    /\ At(d, "relay")
    /\ relay' = [relay EXCEPT !.host = drivers[d].cli]
    /\ inflight' = 0
    /\ drivers' = [e \in DOMAIN drivers |->
                     IF e = d \/ At(e, "wait")
                     THEN [drivers[e] EXCEPT !.at = "mux"]
                     ELSE drivers[e]]
    /\ UNCHANGED <<dsh, clients, sharedHost, handle, pumps, left>>

\* d.cli is br.MuxClient(), the relay's host by now.
MuxClient(d) ==
    /\ At(d, "mux")
    /\ drivers' = [drivers EXCEPT ![d].at = "connect", ![d].cli = relay.host]
    /\ UNCHANGED <<dsh, clients, sharedHost, relay, inflight, handle, pumps, left>>

\* Connect: session.create, which may fail of a dsh that is up too, and a new sessionState.
Connect(d) ==
    /\ At(d, "connect")
    /\ \/ dsh.state = "up" /\ Goes(d, "subscribe")
       \/ Goes(d, "failed")
    /\ UNCHANGED <<dsh, clients, sharedHost, relay, inflight, handle, pumps, left>>

\* MuxSubscribe: the state's first handler starts its pump; respawn installs the handle.
MuxSubscribe(d) ==
    /\ At(d, "subscribe")
    /\ pumps' = [pumps EXCEPT ![d].at = "load"]
    /\ handle' = [handle EXCEPT ![drivers[d].session] = d]
    /\ Goes(d, "ready")
    /\ UNCHANGED <<dsh, clients, sharedHost, relay, inflight, left>>

\* driver.Close: the detach of the state's first handler, whose id is 0, does nothing;
\* Disconnect forgets the state, which no other driver has, and archives the session.
CloseDriver(s) ==
    /\ handle[s] # 0 /\ left.closes > 0
    /\ left' = [left EXCEPT !.closes = @ - 1]
    /\ handle' = [handle EXCEPT ![s] = 0]
    /\ drivers' = [drivers EXCEPT ![handle[s]].at = "closed"]
    /\ UNCHANGED <<dsh, clients, sharedHost, relay, inflight, pumps>>

-----------------------------------------------------------------------------
(* The pump of sessionState p.                                              *)

PumpAt(p, at) == p \in DOMAIN pumps /\ pumps[p].at = at

LoadHost(p) ==
    /\ PumpAt(p, "load")
    /\ pumps' = [pumps EXCEPT ![p] = [at |-> "subscribe", cli |-> relay.host]]
    /\ UNCHANGED <<dsh, clients, sharedHost, relay, chats, left>>

\* Router.Subscribe and Hub.Subscribe; the Hub of a closed client has no map to write to.
HubClosed(c) == clients[c].at \in {"closed", "done"}
PumpSubscribe(p) ==
    /\ PumpAt(p, "subscribe")
    /\ LET c == pumps[p].cli
           s == drivers[p].session
       IN /\ clients' = [clients EXCEPT
                ![c].router[s] = p,
                ![c].hub = IF HubClosed(c) THEN @ ELSE @ \cup {s}]
          /\ pumps' = [pumps EXCEPT
                ![p].at = IF HubClosed(c) THEN "panics" ELSE "wait"]
    /\ UNCHANGED <<dsh, sharedHost, relay, chats, left>>

\* A token of hostChanged, taken by one of the pumps.
HostChanged(p) ==
    /\ PumpAt(p, "wait") /\ relay.tokens > 0
    /\ relay' = [relay EXCEPT !.tokens = @ - 1]
    /\ LET c == pumps[p].cli
           s == drivers[p].session
       IN clients' = [clients EXCEPT ![c].router[s] = 0, ![c].hub = @ \ {s}]
    /\ pumps' = [pumps EXCEPT ![p].at = "load"]
    /\ UNCHANGED <<dsh, sharedHost, chats, left>>

-----------------------------------------------------------------------------
MonitorStep ==
    \/ OwnedExits \/ AttachedProbe \/ SpawnOnce \/ Swap \/ ReplaceGlobal
    \/ Snapshot \/ Transfer \/ CloseOld \/ Drained \/ Recover \/ Recovered
    \/ FallbackEnds
ClientStep == \E c \in DOMAIN clients : HubClose(c) \/ CloseDone(c)
DriverStep(d) ==
    \/ Get(d) \/ StartHost(d) \/ StartFails(d) \/ StartRelay(d) \/ MuxClient(d)
    \/ Connect(d) \/ MuxSubscribe(d)
PumpStep(p) == LoadHost(p) \/ PumpSubscribe(p) \/ HostChanged(p)

\* A panic in a pump's goroutine ends the daemon.
Panicked == \E p \in DOMAIN pumps : PumpAt(p, "panics")

RelayNext ==
    /\ ~Panicked
    /\ \/ DshFails("none") \/ DshFails("wedged") \/ UserStartsDsh
       \/ MonitorStep \/ ClientStep \/ ProbeTick \/ ForceKillCmd
       \/ \E s \in Sessions : NewDriver(s) \/ CloseDriver(s)
       \/ \E d \in DOMAIN drivers : DriverStep(d) \/ PumpStep(d)

RelaySpec == RelayInit /\ [][RelayNext]_relayVars

\* The goroutines run, and what they ask the system for is granted.  Hub.Close returns,
\* which DshHub shows of a Hub whose handshakes end and whose pump is not stuck.  No driver
\* or pump goes on for ever, so that it is enough that some of them runs; the same holds of
\* the monitor with the closes it has begun.
RelayFairness ==
    /\ WF_relayVars(~Panicked /\ (MonitorStep \/ ClientStep))
    /\ WF_relayVars(~Panicked /\ (ProbeTick \/ ForceKillCmd))
    /\ WF_relayVars(~Panicked /\ \E d \in DOMAIN drivers : DriverStep(d) \/ PumpStep(d))
RelayFairSpec == RelaySpec /\ RelayFairness

-----------------------------------------------------------------------------
\* Drivers that start at once start one host (SetGlobal and SetSharedHost panic on a
\* second), and only as long as there is none.
OneHostStart ==
    LET starting == {d \in DOMAIN drivers : drivers[d].at \in {"start", "relay"}}
    IN /\ Cardinality(starting) <= 1
       /\ \A d \in starting : At(d, "start") => host.cli = 0

\* The subscriptions that the owner's monitor finds on the old client outlive the
\* replacement of dsh: when it goes back to waiting, the new client routes each of them,
\* and its Hub asks dsh for it or the recovery has reported it as an orphan, or a pump of
\* that session is about to subscribe it (tryRespawn lifecycle.go:1340,
\* RecoverSubscriptions host.go:350), although the pumps move on their own and any
\* session.create may fail.  The new dsh may be the monitor's own or one it attached to.
Moves(s) == \E p \in DOMAIN pumps :
    drivers[p].session = s /\ pumps[p].at \in {"load", "subscribe"}
Served(s) ==
    /\ clients[host.cli].router[s] # 0
    /\ s \in clients[host.cli].hub \cup monitor.orphans
RespawnKeepsSubscriptions ==
    [][(MonitorAt("recover") /\ monitor'.at # "recover") =>
          \A s \in Sessions : monitor.subs[s] # 0 => Served(s) \/ Moves(s)]_relayVars

AtRest ==
    /\ monitor.at \in {"owned", "attached"} /\ relay.host = host.cli
    /\ relay.tokens = 0
    /\ \A p \in DOMAIN pumps : pumps[p].at \in {"none", "wait"}

\* "After a successful respawn (either fallback or owned respawn), the monitor invokes
\* Client.RecoverSubscriptions to re-attach every Router subscription on the new dsh"
\* (lifecycle.go:198): once a replacement is over and no token is left, the session of
\* every driver that is held is routed.
SubscriptionsReattached ==
    AtRest => \A s \in Sessions : handle[s] # 0 => clients[host.cli].router[s] # 0

\* "The monitor never voluntarily exits" (lifecycle.go:189).
MonitorNeverExits == monitor.at # "exited"

\* The events of a session go to the driver that its AgentSession holds, once a
\* replacement is over and no token is left.
LiveDriverRouted ==
    AtRest =>
        \A s \in Sessions : handle[s] # 0 /\ ~Dead(handle[s])
            => clients[host.cli].router[s] = handle[s]

\* The pump of a closed driver is cancelled ("The returned detach func removes the
\* handler from the list and, when no handlers remain, cancels the central mux pump",
\* relay.go:414): nothing is routed to its sessionState any more.
ClosedNotRouted ==
    AtRest => \A s \in Sessions :
        LET p == clients[host.cli].router[s] IN p # 0 => ~At(p, "closed")

NoPanic == ~Panicked

\* The probe kills a dsh that "is alive but wedged" (lifecycle.go:1264), never the
\* replacement, which is up.
OnlyWedgedKilled ==
    [][(probe.kills /\ ~probe'.kills) =>
          ~(dsh.state = "up" /\ dsh'.state = "none")]_relayVars

\* A dsh that has died or hangs is replaced, again and again, as long as the monitor runs.
DshComesBack ==
    []<>(host.cli = 0 \/ dsh.state = "up" \/ ~ProbeRuns \/ Panicked \/ dsh.id = MaxProcs)

\* Every driver that is started is ready or has failed in the end, also the one that
\* waits for another's start of the host: again and again there is none that is starting.
StartEnds == []<>(Panicked \/ \A d \in DOMAIN drivers : ~Starting(d))
=============================================================================
