---------------------------- MODULE ChatRouting ----------------------------
(***************************************************************************)
(* One chat's selection (agent and directory), the agent sessions it       *)
(* mounts, the process-wide warm pool, the two stores on disk and a        *)
(* restart of the daemon: internal/chatsession (chatsession.go, manager.go,*)
(* aspool.go, pump_events.go), internal/chatstore, internal/registry.      *)
(*                                                                         *)
(* A goroutine runs LookupSelectedAgentSession, /cwd, /use or the eviction *)
(* of a directory; it is cut where it takes or releases cs.mu, a resolve   *)
(* lock, the pool's or a store's lock.  An agent session is an object of   *)
(* `obj`; its bridge is abstracted to its status.                          *)
(***************************************************************************)
EXTENDS Naturals, Sequences, FiniteSets

CONSTANTS
    Agents, Cwds,       \* what /use and /cwd can select
    NoCwd, None,
    StartCwds,          \* what chat_sessions.json selects at the daemon's first start
    Threads,            \* goroutines that handle inbound messages
    MaxLookups, MaxCommands, MaxEvicts, MaxResets, MaxDeaths, MaxSaveFails,
    MaxRestarts,        \* how often each thing happens
    MaxEvents,          \* how often anything of these happens
    MaxObjects          \* agent session objects created between two restarts

ASSUME RoutingAssumption ==
    /\ NoCwd \notin Cwds /\ StartCwds \subseteq Cwds \cup {NoCwd}
    /\ None \notin Threads /\ None \notin Nat
    /\ {MaxLookups, MaxCommands, MaxEvicts, MaxResets, MaxDeaths,
        MaxSaveFails, MaxRestarts, MaxEvents, MaxObjects} \subseteq Nat

Selections == [agent: Agents, cwd: Cwds \cup {NoCwd}]
Keys == [agent: Agents, cwd: Cwds]

VARIABLES
    chatUp,     \* Manager.sessions holds the chat
    sel,        \* cs.selectedAgent, cs.selectedCwd
    selAS,      \* cs.selectedAS
    pool,       \* cs.pool
    warm,       \* AgentSessionPool.byKey
    resolve,    \* the holder of each key's resolve mutex
    routeMu,    \* the holder of cs.routeMu
    subs,       \* cs.subs: IDs of subscribed sessions
    obj,        \* the AgentSession objects created since the last restart
    store,      \* chatstore.Store.entries, this chat's selection
    disk,       \* chat_sessions.json, this chat's selection
    file,       \* agent_sessions.json: [id, key] entries
    nextID,     \* source of fresh session IDs
    go,         \* the goroutines: program counter and local variables
    count,      \* what has happened so far, for the bounds
    acked,      \* the selection last acknowledged to the user
    saveFailed, \* a chatstore save has failed
    dropped,    \* IDs whose DropAgentSession has finished
    raced       \* an eviction has overlapped other work on its sessions

vars == <<chatUp, sel, selAS, pool, warm, resolve, routeMu, subs, obj, store, disk,
          file, nextID, go, count, acked, saveFailed, dropped, raced>>
selection == <<chatUp, sel, store, disk, routeMu, acked, saveFailed>>
mounted == <<selAS, pool, subs>>
persisted == <<file, nextID, dropped>>

Idle == [pc |-> "idle", key |-> None, prior |-> None, as |-> None,
         set |-> None, snap |-> None, seen |-> {}, todo |-> {}, alive |-> {},
         then |-> "idle"]
Zero == [lookups |-> 0, commands |-> 0, evicts |-> 0, resets |-> 0, deaths |-> 0,
         saveFails |-> 0, restarts |-> 0]
Events == count.lookups + count.commands + count.evicts + count.resets
            + count.deaths + count.saveFails + count.restarts
Bump(what) == Events < MaxEvents /\ count' = [count EXCEPT ![what] = @ + 1]
At(t, pc) == go[t].pc = pc
Goto(t, pc) == go' = [go EXCEPT ![t].pc = pc]

Live(o) == o # None /\ obj[o].stat = "Running"
KeyOf(o) == obj[o].key
NewObject(id, k) == [id |-> id, key |-> k, stat |-> "Detached", ready |-> FALSE,
                     respawning |-> FALSE, closing |-> FALSE, closedByUser |-> FALSE,
                     handlers |-> 0]
\* as.persist and Manager.PersistAgentSession: AgentSessionFile.Upsert.
Upsert(o) == file \cup {[id |-> obj[o].id, key |-> KeyOf(o)]}

Init ==
    /\ \E a \in Agents, c \in StartCwds : disk = [agent |-> a, cwd |-> c]
    /\ store = disk /\ acked = disk /\ sel = disk
    /\ chatUp = FALSE
    /\ selAS = None
    /\ pool = [k \in Keys |-> None]
    /\ warm = [k \in Keys |-> None]
    /\ resolve = [k \in Keys |-> None]
    /\ routeMu = None
    /\ subs = {} /\ obj = <<>> /\ file = {} /\ nextID = 1
    /\ go = [t \in Threads |-> Idle]
    /\ count = Zero
    /\ saveFailed = FALSE /\ dropped = {} /\ raced = FALSE

-----------------------------------------------------------------------------
(* Manager.GetOrCreate: the chat is built outside m.mu from the store's     *)
(* entry; whoever inserts first wins.                                       *)

Begin(t, pc, local) ==
    /\ At(t, "idle")
    /\ go' = [go EXCEPT ![t] = [local EXCEPT
                !.pc = IF chatUp THEN pc ELSE "construct",
                !.then = pc,
                !.snap = IF chatUp THEN None ELSE store]]

Insert(t) ==
    /\ At(t, "construct")
    /\ IF chatUp
       THEN UNCHANGED <<chatUp, sel>>
       ELSE chatUp' = TRUE /\ sel' = go[t].snap
    /\ go' = [go EXCEPT ![t].pc = go[t].then, ![t].snap = None,
                        ![t].seen = IF go[t].then = "lookup" THEN {sel'} ELSE {}]
    /\ UNCHANGED <<mounted, persisted, warm, resolve, routeMu, obj, store, disk,
                   acked, saveFailed, count>>

-----------------------------------------------------------------------------
(* LookupSelectedAgentSession                                               *)

Lookup(t) ==
    /\ count.lookups < MaxLookups
    /\ Bump("lookups")
    /\ Begin(t, "lookup", [Idle EXCEPT !.seen = {sel}])
    /\ UNCHANGED <<selection, mounted, persisted, warm, resolve, obj>>

\* Mutant: the handler is registered again at every lookup.
SubscribeAgain(o) ==
    /\ subs' = subs \cup {obj[o].id}
    /\ obj' = [obj EXCEPT ![o].handlers = @ + 1]

\* attachAgentSubscription: at most one handler per ID in cs.subs; the mark and the
\* handler are one step.
Subscribe(o) ==
    IF obj[o].id \in subs
    THEN UNCHANGED <<subs, obj>>
    ELSE /\ subs' = subs \cup {obj[o].id}
         /\ obj' = [obj EXCEPT ![o].handlers = @ + 1]

LookupNoCwd(t) ==
    /\ At(t, "lookup") /\ sel.cwd = NoCwd
    /\ Goto(t, "return")
    /\ UNCHANGED <<selection, mounted, persisted, warm, resolve, obj, count>>

LookupHit(t) ==
    /\ At(t, "lookup") /\ sel.cwd # NoCwd /\ Live(pool[sel])
    /\ selAS' = pool[sel]
    /\ go' = [go EXCEPT ![t].pc = "attach", ![t].as = pool[sel], ![t].key = sel]
    /\ UNCHANGED <<selection, pool, subs, persisted, warm, resolve, obj, count>>

LookupMiss(t) ==
    /\ At(t, "lookup") /\ sel.cwd # NoCwd /\ ~Live(pool[sel])
    /\ go' = [go EXCEPT ![t].pc = "lock", ![t].key = sel, ![t].prior = pool[sel]]
    /\ UNCHANGED <<selection, mounted, persisted, warm, resolve, obj, count>>

LockResolve(t) ==
    /\ At(t, "lock") /\ resolve[go[t].key] = None
    /\ resolve' = [resolve EXCEPT ![go[t].key] = t]
    /\ Goto(t, "get")
    /\ UNCHANGED <<selection, mounted, persisted, warm, obj, count>>

\* asPool.Get, then GetOrPut of the local entry.
GetWarm(t) ==
    LET k == go[t].key
        as == IF warm[k] # None THEN warm[k] ELSE go[t].prior IN
    /\ At(t, "get")
    /\ warm' = [warm EXCEPT ![k] = as]
    /\ go' = [go EXCEPT ![t].as = as,
                        ![t].pc = IF as = None THEN "restore" ELSE "mount"]
    /\ UNCHANGED <<selection, mounted, persisted, resolve, obj, count>>

\* Mutant: the entries are looked up by agent only.
RestoreByAgent(t) ==
    LET k == go[t].key
        entries == {e \in file : e.key.agent = k.agent}
        found == IF entries = {} THEN {[id |-> nextID, key |-> k]} ELSE entries IN
    /\ At(t, "restore") /\ Len(obj) < MaxObjects
    /\ \E e \in found :
         /\ obj' = Append(obj, NewObject(e.id, e.key))
         /\ warm' = [warm EXCEPT ![k] = IF @ = None THEN Len(obj) + 1 ELSE @]
         /\ nextID' = IF e.id = nextID THEN nextID + 1 ELSE nextID
         /\ go' = [go EXCEPT ![t].as = warm'[k],
                      ![t].pc = IF entries = {} THEN "register" ELSE "mount"]
    /\ UNCHANGED <<selection, mounted, file, dropped, resolve, count>>

\* FromAgentSessionEntry of an entry of agent_sessions.json, or a new session
\* (its Upsert is LookupRegister).
RestoreOrCreate(t) ==
    LET k == go[t].key
        entries == {e \in file : e.key = k} IN
    /\ At(t, "restore") /\ Len(obj) < MaxObjects
    /\ \E id \in IF entries = {} THEN {nextID} ELSE {e.id : e \in entries} :
         /\ obj' = Append(obj, NewObject(id, k))
         /\ warm' = [warm EXCEPT ![k] = IF @ = None THEN Len(obj) + 1 ELSE @]
         /\ nextID' = IF id = nextID THEN nextID + 1 ELSE nextID
         /\ go' = [go EXCEPT ![t].as = warm'[k],
                      ![t].pc = IF entries = {} THEN "register" ELSE "mount"]
    /\ UNCHANGED <<selection, mounted, file, dropped, resolve, count>>

LookupRegister(t) ==
    /\ At(t, "register")
    /\ file' = Upsert(go[t].as)
    /\ Goto(t, "mount")
    /\ UNCHANGED <<selection, mounted, nextID, dropped, warm, resolve, obj, count>>

\* Mutant: the lock is kept across the retry.
LookupRetryLocked(t) ==
    /\ At(t, "mount") /\ sel # go[t].key
    /\ go' = [go EXCEPT ![t] = [Idle EXCEPT !.pc = "lookup", !.seen = go[t].seen]]
    /\ UNCHANGED <<selection, mounted, persisted, resolve, warm, obj, count>>

\* The selection changed during the lookup: release the lock, start again.
LookupRetry(t) ==
    /\ At(t, "mount") /\ sel # go[t].key
    /\ resolve' = [resolve EXCEPT ![go[t].key] = None]
    /\ go' = [go EXCEPT ![t] = [Idle EXCEPT !.pc = "lookup", !.seen = go[t].seen]]
    /\ UNCHANGED <<selection, mounted, persisted, warm, obj, count>>

\* Mutant: the selection is not read again under the lock.
LookupMountAnyway(t) ==
    LET k == go[t].key
        as == IF Live(pool[k]) THEN pool[k] ELSE go[t].as IN
    /\ At(t, "mount")
    /\ pool' = [pool EXCEPT ![k] = IF @ = None THEN as ELSE @]
    /\ selAS' = as
    /\ go' = [go EXCEPT ![t].as = as,
                        ![t].pc = IF Live(pool[k]) THEN "attach" ELSE "subscribe"]
    /\ UNCHANGED <<selection, subs, persisted, warm, resolve, obj, count>>

LookupMount(t) ==
    LET k == go[t].key
        as == IF Live(pool[k]) THEN pool[k] ELSE go[t].as IN
    /\ At(t, "mount") /\ sel = k
    /\ pool' = [pool EXCEPT ![k] = IF @ = None THEN as ELSE @]
    /\ selAS' = as
    /\ go' = [go EXCEPT ![t].as = as,
                        ![t].pc = IF Live(pool[k]) THEN "attach" ELSE "subscribe"]
    /\ UNCHANGED <<selection, subs, persisted, warm, resolve, obj, count>>

\* A mounted live session is returned as it is, another one is spawned.
LookupSubscribe(t) ==
    /\ At(t, "attach") \/ At(t, "subscribe")
    /\ Subscribe(go[t].as)
    /\ Goto(t, IF At(t, "attach") \/ Live(go[t].as) THEN "unlock" ELSE "spawn")
    /\ UNCHANGED <<selection, selAS, pool, persisted, warm, resolve, count>>

\* as.Spawn clears closedByUser; a Close during the spawn makes it roll back.
LookupSpawn(t) ==
    LET o == go[t].as IN
    /\ At(t, "spawn")
    /\ obj' = [obj EXCEPT ![o].closedByUser = IF Live(o) THEN @ ELSE FALSE]
    /\ Goto(t, IF Live(o) THEN "persist" ELSE "spawning")
    /\ UNCHANGED <<selection, mounted, persisted, warm, resolve, count>>

LookupSpawned(t) ==
    LET o == go[t].as IN
    /\ At(t, "spawning")
    /\ \/ /\ ~obj[o].closedByUser
          /\ obj' = [obj EXCEPT ![o].stat = "Running", ![o].ready = TRUE]
          /\ Goto(t, "persist")
       \/ /\ obj' = [obj EXCEPT ![o].stat = "Exited"]
          /\ Goto(t, "unlock")
    /\ UNCHANGED <<selection, mounted, persisted, warm, resolve, count>>

LookupPersist(t) ==
    /\ At(t, "persist")
    /\ file' = Upsert(go[t].as)
    /\ Goto(t, "unlock")
    /\ UNCHANGED <<selection, mounted, nextID, dropped, warm, resolve, obj, count>>

LookupUnlock(t) ==
    /\ At(t, "unlock")
    /\ resolve' = [k \in Keys |-> IF resolve[k] = t THEN None ELSE resolve[k]]
    /\ Goto(t, "return")
    /\ UNCHANGED <<selection, mounted, persisted, warm, obj, count>>

Return(t) ==
    /\ At(t, "return")
    /\ go' = [go EXCEPT ![t] = Idle]
    /\ UNCHANGED <<selection, mounted, persisted, warm, resolve, obj, count>>

-----------------------------------------------------------------------------
(* SetSelectedCwd, SetSelectedAgent, ClearSelectedCwd: the store first,      *)
(* under routeMu, then the chat under cs.mu.                                 *)

Settings == [what : {"cwd"}, to : Cwds] \cup [what : {"agent"}, to : Agents]
ClearCwd == [what |-> "cwd", to |-> NoCwd]

Command(t) ==
    /\ count.commands < MaxCommands
    /\ Bump("commands")
    /\ \E s \in Settings : Begin(t, "store", [Idle EXCEPT !.set = s])
    /\ UNCHANGED <<selection, mounted, persisted, warm, resolve, obj>>

\* The chat has that value already: nothing to do (ClearSelectedCwd does not ask).
CommandUnchanged(t) ==
    LET s == go[t].set IN
    /\ At(t, "store") /\ routeMu = None
    /\ sel[s.what] = s.to /\ s # ClearCwd
    /\ Goto(t, "return")
    /\ UNCHANGED <<selection, mounted, persisted, warm, resolve, obj, count>>

\* Mutant: two commands may be between the store and the chat at once.
StoreUnserialised(t) ==
    LET s == go[t].set
        new == [store EXCEPT ![s.what] = s.to] IN
    /\ At(t, "store")
    /\ sel[s.what] # s.to \/ s = ClearCwd
    /\ store' = new
    /\ disk' = IF store = new THEN disk ELSE new
    /\ Goto(t, "install")
    /\ UNCHANGED <<chatUp, sel, routeMu, acked, saveFailed, mounted, persisted, warm,
                   resolve, obj, count>>

\* chatstore.Store.SetSelectedX: an unchanged entry is not saved.
StoreSelection(t) ==
    LET s == go[t].set
        new == [store EXCEPT ![s.what] = s.to] IN
    /\ At(t, "store") /\ routeMu = None
    /\ sel[s.what] # s.to \/ s = ClearCwd
    /\ routeMu' = t
    /\ store' = new
    /\ disk' = IF store = new THEN disk ELSE new
    /\ Goto(t, "install")
    /\ UNCHANGED <<chatUp, sel, acked, saveFailed, mounted, persisted, warm, resolve,
                   obj, count>>

\* A failed save leaves the store's entry changed and the chat as it was.
StoreFails(t) ==
    LET s == go[t].set
        new == [store EXCEPT ![s.what] = s.to] IN
    /\ At(t, "store") /\ routeMu = None
    /\ sel[s.what] # s.to \/ s = ClearCwd
    /\ store # new
    /\ count.saveFails < MaxSaveFails /\ Bump("saveFails")
    /\ store' = new
    /\ saveFailed' = TRUE
    /\ Goto(t, "return")
    /\ UNCHANGED <<chatUp, sel, disk, routeMu, acked, mounted, persisted, warm,
                   resolve, obj>>

\* Mutant: the old directory's selected session stays selected.
InstallKeepsSelected(t) ==
    LET s == go[t].set IN
    /\ At(t, "install")
    /\ routeMu' = None
    /\ sel' = [sel EXCEPT ![s.what] = s.to]
    /\ acked' = sel'
    /\ pool' = IF s.what = "cwd" THEN [k \in Keys |-> None] ELSE pool
    /\ go' = [u \in Threads |->
                CASE u = t -> [go[t] EXCEPT !.pc = "return"]
                  [] u # t /\ go[u].seen # {} -> [go[u] EXCEPT !.seen = @ \cup {sel'}]
                  [] OTHER -> go[u]]
    /\ UNCHANGED <<chatUp, store, disk, saveFailed, selAS, subs, persisted, warm,
                   resolve, obj, count>>

\* A new directory unmounts every session, a new agent only deselects.
InstallSelection(t) ==
    LET s == go[t].set IN
    /\ At(t, "install")
    /\ routeMu' = None
    /\ sel' = [sel EXCEPT ![s.what] = s.to]
    /\ acked' = sel'
    /\ selAS' = None
    /\ pool' = IF s.what = "cwd" THEN [k \in Keys |-> None] ELSE pool
    /\ go' = [u \in Threads |->
                CASE u = t -> [go[t] EXCEPT !.pc = "return"]
                  [] u # t /\ go[u].seen # {} -> [go[u] EXCEPT !.seen = @ \cup {sel'}]
                  [] OTHER -> go[u]]
    /\ UNCHANGED <<chatUp, store, disk, saveFailed, subs, persisted, warm, resolve,
                   obj, count>>

-----------------------------------------------------------------------------
(* EvictAgentSessionsInCwd, then ClearSelectedCwd (/gtw close of a directory *)
(* that is gone).                                                            *)

InCwd(c) == {warm[k] : k \in {k \in Keys : k.cwd = c}} \ {None}

Evict(t) ==
    /\ count.evicts < MaxEvicts
    /\ chatUp /\ sel.cwd # NoCwd
    /\ Bump("evicts")
    /\ Begin(t, "scan", [Idle EXCEPT !.todo = InCwd(sel.cwd), !.set = ClearCwd])
    /\ UNCHANGED <<selection, mounted, persisted, warm, resolve, obj>>

\* Mutant: the sessions are dropped without closing them.
EvictScanNoClose(t) ==
    /\ At(t, "scan")
    /\ \E o \in go[t].todo :
         go' = [go EXCEPT ![t].todo = @ \ {o}, ![t].as = o,
                          ![t].pc = "dropChat", ![t].then = "scan"]
    /\ UNCHANGED <<selection, mounted, persisted, warm, resolve, obj, count>>

\* A running session is closed on a goroutine of its own, another one dropped.
EvictScan(t) ==
    /\ At(t, "scan")
    /\ \E o \in go[t].todo :
         IF Live(o)
         THEN /\ obj' = [obj EXCEPT ![o].closing = TRUE, ![o].closedByUser = TRUE]
              /\ go' = [go EXCEPT ![t].todo = @ \ {o}, ![t].alive = @ \cup {o}]
         ELSE /\ go' = [go EXCEPT ![t].todo = @ \ {o}, ![t].as = o,
                                  ![t].pc = "dropChat", ![t].then = "scan"]
              /\ UNCHANGED obj
    /\ UNCHANGED <<selection, mounted, persisted, warm, resolve, count>>

\* as.Close: the bridge is gone and SetExited has persisted the entry.
CloseDone(o) ==
    /\ obj[o].closing
    /\ obj' = [obj EXCEPT ![o].stat = "Exited", ![o].closing = FALSE]
    /\ file' = Upsert(o)
    /\ UNCHANGED <<selection, mounted, nextID, dropped, warm, resolve, go, count>>

\* Every Close has returned, or the grace period is over.  (After a timeout the
\* code drops the sessions once more, which changes nothing unless a lookup has
\* mounted them again in between: an overlap, see `raced`.)
EvictWait(t) ==
    /\ At(t, "scan") /\ go[t].todo = {}
    /\ go' = [go EXCEPT ![t].pc = "drop", ![t].todo = go[t].alive, ![t].alive = {}]
    /\ UNCHANGED <<selection, mounted, persisted, warm, resolve, obj, count>>

EvictDrop(t) ==
    /\ At(t, "drop")
    /\ IF go[t].todo = {}
       THEN Goto(t, "store")
       ELSE \E o \in go[t].todo :
              go' = [go EXCEPT ![t].todo = @ \ {o}, ![t].as = o,
                               ![t].pc = "dropChat", ![t].then = "drop"]
    /\ UNCHANGED <<selection, mounted, persisted, warm, resolve, obj, count>>

(* DropAgentSession: the chat, the warm pool, the file, each under its lock. *)

DropFromChat(t) ==
    LET o == go[t].as IN
    /\ At(t, "dropChat")
    /\ subs' = subs \ {obj[o].id}
    /\ pool' = [pool EXCEPT ![KeyOf(o)] = None]
    /\ selAS' = IF selAS = o THEN None ELSE selAS
    /\ Goto(t, "dropWarm")
    /\ UNCHANGED <<selection, persisted, warm, resolve, obj, count>>

\* Mutant: the warm pool keeps the dropped session.
DropKeepsWarm(t) ==
    /\ At(t, "dropWarm")
    /\ Goto(t, "dropFile")
    /\ UNCHANGED <<selection, mounted, persisted, warm, resolve, obj, count>>

DropFromWarm(t) ==
    /\ At(t, "dropWarm")
    /\ warm' = [warm EXCEPT ![KeyOf(go[t].as)] = None]
    /\ Goto(t, "dropFile")
    /\ UNCHANGED <<selection, mounted, persisted, resolve, obj, count>>

DropFromFile(t) ==
    LET id == obj[go[t].as].id IN
    /\ At(t, "dropFile")
    /\ file' = {e \in file : e.id # id}
    /\ dropped' = dropped \cup {id}
    /\ Goto(t, go[t].then)
    /\ UNCHANGED <<selection, mounted, nextID, warm, resolve, obj, count>>

-----------------------------------------------------------------------------
(* NewActiveAgentSessions: /new resets the sessions of the directory, and     *)
(* rewrites the entries of those that do not run.                             *)

Reset(t) ==
    /\ count.resets < MaxResets
    /\ chatUp /\ sel.cwd # NoCwd
    /\ Bump("resets")
    /\ Begin(t, "reset", [Idle EXCEPT !.todo = InCwd(sel.cwd)])
    /\ UNCHANGED <<selection, mounted, persisted, warm, resolve, obj>>

ResetOne(t) ==
    /\ At(t, "reset")
    /\ IF go[t].todo = {}
       THEN Goto(t, "return") /\ UNCHANGED <<obj, file>>
       ELSE \E o \in go[t].todo :
              /\ go' = [go EXCEPT ![t].todo = @ \ {o}]
              /\ IF Live(o)
                 THEN obj' = [obj EXCEPT ![o].ready = TRUE] /\ UNCHANGED file
                 ELSE file' = Upsert(o) /\ UNCHANGED obj
    /\ UNCHANGED <<selection, mounted, nextID, dropped, warm, resolve, count>>

-----------------------------------------------------------------------------
(* Events of a session's bus, and the daemon's restart.                       *)

\* EventAgentReady reaches the runtime's handler, which persists the entry.
AgentReady(o) ==
    /\ obj[o].ready /\ obj[o].handlers > 0
    /\ obj' = [obj EXCEPT ![o].ready = FALSE]
    /\ file' = Upsert(o)
    /\ UNCHANGED <<selection, mounted, nextID, dropped, warm, resolve, go, count>>

\* routeEvent, KindLifecycle: SetExited persists, then the bridge is respawned.
BridgeDies(o) ==
    /\ Live(o) /\ obj[o].handlers > 0 /\ ~obj[o].closing
    /\ count.deaths < MaxDeaths /\ Bump("deaths")
    /\ obj' = [obj EXCEPT ![o].stat = "Exited",
                          ![o].respawning = ~obj[o].closedByUser]
    /\ file' = Upsert(o)
    /\ UNCHANGED <<selection, mounted, nextID, dropped, warm, resolve, go>>

RespawnDone(o) ==
    /\ obj[o].respawning
    /\ \/ /\ ~obj[o].closedByUser
          /\ obj' = [obj EXCEPT ![o].respawning = FALSE, ![o].stat = "Running",
                                ![o].ready = TRUE]
          /\ UNCHANGED file
       \/ /\ obj' = [obj EXCEPT ![o].respawning = FALSE]
          /\ file' = Upsert(o)
    /\ UNCHANGED <<selection, mounted, nextID, dropped, warm, resolve, go, count>>

\* PumpEvents: every 100 ms the sessions of the chat's pool that have no handler get one;
\* the copy of the pool and the attachment are one step.
PumpEvents(k) ==
    /\ pool[k] # None /\ obj[pool[k]].id \notin subs
    /\ Subscribe(pool[k])
    /\ UNCHANGED <<selection, selAS, pool, persisted, warm, resolve, go, count>>

\* The daemon dies and starts again: only the files survive.
Restart ==
    /\ count.restarts < MaxRestarts /\ Bump("restarts")
    /\ acked' = IF \E t \in Threads : At(t, "install") THEN disk ELSE acked
    /\ chatUp' = FALSE /\ store' = disk /\ sel' = disk
    /\ routeMu' = None
    /\ selAS' = None /\ subs' = {} /\ obj' = <<>>
    /\ pool' = [k \in Keys |-> None]
    /\ warm' = [k \in Keys |-> None]
    /\ resolve' = [k \in Keys |-> None]
    /\ go' = [t \in Threads |-> Idle]
    /\ UNCHANGED <<disk, saveFailed, persisted>>

-----------------------------------------------------------------------------
LookupStep(t) ==
    \/ LookupNoCwd(t) \/ LookupHit(t) \/ LookupMiss(t) \/ LockResolve(t)
    \/ GetWarm(t) \/ RestoreOrCreate(t) \/ LookupRegister(t) \/ LookupRetry(t)
    \/ LookupMount(t) \/ LookupSubscribe(t) \/ LookupSpawn(t) \/ LookupSpawned(t)
    \/ LookupPersist(t) \/ LookupUnlock(t)
EvictStep(t) ==
    \/ EvictScan(t) \/ EvictWait(t) \/ EvictDrop(t)
    \/ DropFromChat(t) \/ DropFromWarm(t) \/ DropFromFile(t)
CommandStep(t) ==
    CommandUnchanged(t) \/ StoreSelection(t) \/ StoreFails(t) \/ InstallSelection(t)
ThreadStep(t) ==
    Insert(t) \/ LookupStep(t) \/ EvictStep(t) \/ CommandStep(t) \/ ResetOne(t) \/ Return(t)
Event(o) == CloseDone(o) \/ AgentReady(o) \/ BridgeDies(o) \/ RespawnDone(o)

\* A directory is being evicted while another goroutine looks a session up or
\* evicts, or a session is dropped whose event, respawn or Close is under way.
EvictPCs == {"scan", "drop", "dropChat", "dropWarm", "dropFile"}
LookupPCs == {"lookup", "lock", "get", "restore", "register", "mount", "attach",
              "subscribe", "spawn", "spawning", "persist", "unlock"}
EvictOverlaps ==
    \E t \in Threads :
        /\ go[t].pc \in EvictPCs
        /\ \/ \E u \in Threads \ {t} : go[u].pc \in EvictPCs \cup LookupPCs \cup {"reset"}
           \/ /\ go[t].pc \in {"dropChat", "dropWarm", "dropFile"}
              /\ LET o == obj[go[t].as] IN o.ready \/ o.closing \/ o.respawning

Step ==
    \/ \E t \in Threads :
         Lookup(t) \/ Command(t) \/ Evict(t) \/ Reset(t) \/ ThreadStep(t)
    \/ \E o \in DOMAIN obj : Event(o)
    \/ \E k \in Keys : PumpEvents(k)
    \/ Restart
Next == Step /\ raced' = (raced \/ EvictOverlaps')
Spec == Init /\ [][Next]_vars

\* As long as some goroutine can go on with its call, one does, and a spawn or a Close
\* returns; `raced` follows from the step.  No call goes on for ever, so that nothing more
\* need be assumed of each.
FairSpec ==
    /\ Spec
    /\ WF_vars((\E t \in Threads : ThreadStep(t)) /\ raced' \in BOOLEAN)

-----------------------------------------------------------------------------
Objects == DOMAIN obj \cup {None}

TypeOK ==
    /\ sel \in Selections /\ store \in Selections /\ disk \in Selections
    /\ selAS \in Objects
    /\ pool \in [Keys -> Objects] /\ warm \in [Keys -> Objects]
    /\ \A k \in Keys : resolve[k] # None =>
          /\ go[resolve[k]].key = k
          /\ go[resolve[k]].pc \in LookupPCs \ {"lookup", "lock"}
    /\ routeMu # None => At(routeMu, "install")
    /\ subs \subseteq 1..nextID /\ dropped \subseteq 1..nextID
    /\ \A e \in file : e.id \in 1..nextID /\ e.key \in Keys
    /\ \A t \in Threads : go[t].as \in Objects

\* The session a chat submits to is always the one of the selected agent and
\* directory, whatever lookups were under way when they were selected
\* (chatsession.go:1798, "a concurrent /cwd or /use changed the target").
SelectedMatches == selAS # None => KeyOf(selAS) = sel

\* A lookup returns a session of a selection that was current at some time during
\* the call, however often it had to start again.
AnswerWasSelected ==
    \A t \in Threads :
        At(t, "return") /\ go[t].as # None /\ go[t].seen # {}
            => KeyOf(go[t].as) \in go[t].seen

\* One session object per chat, directory and agent (aspool.go:34, "concurrent miss
\* paths cannot Put distinct AS objects or double-Spawn"): no two lookups spawn for a
\* key at once, and, as long as no eviction overlaps other work on its sessions, an
\* object with a running bridge is the warm pool's entry, where /close finds it. That
\* an object has one bridge is another matter, and AgentSession's.
OneSessionPerKey ==
    /\ \A t, u \in Threads :
          At(t, "spawning") /\ At(u, "spawning") /\ KeyOf(go[t].as) = KeyOf(go[u].as)
              => t = u
    /\ ~raced => \A o \in DOMAIN obj : Live(o) => warm[KeyOf(o)] = o

\* A dropped session has no entry on disk from which a restart would bring it
\* back, and nobody mounts it, as long as no eviction overlaps other work.
SoloDropStaysDropped ==
    ~raced => /\ \A e \in file : e.id \notin dropped
              /\ \A k \in Keys : warm[k] # None => obj[warm[k]].id \notin dropped

\* "removes the persistent agent_sessions.json entry so the next daemon restart
\* does not resurrect a corpse" (chatsession.go:1918).
DropStaysDropped == \A e \in file : e.id \notin dropped

\* No event of a session is routed twice.
OneHandler == ~raced => \A o \in DOMAIN obj : obj[o].handlers <= 1

\* The selection the user was told of is the one on disk, also after a restart
\* (docs/CHATSTORE.md, store first), as long as no save has failed.
AckedSelectionSurvives ==
    ~saveFailed /\ routeMu = None => disk = acked /\ (chatUp => sel = acked)

\* The same without the condition: "the entry fields and the on-disk snapshot
\* move together" (chatstore/store.go:345).
AckedSelectionOnDisk == routeMu = None => disk = acked

\* A lookup returns, whatever selections change under it: no goroutine waits for
\* ever on a resolve lock (chatsession.go:1750, the deadlock of /cwd A, B, A), so that
\* again and again there is no lookup under way.
LookupReturns == []<>(\A t \in Threads : go[t].pc \notin LookupPCs)
=============================================================================
