------------------------- MODULE ChatRouting_proofs -------------------------
(***************************************************************************)
(* Proofs about ChatRouting for every set of agents, directories and       *)
(* goroutines and for every bound: the selection that the user was told of *)
(* survives a restart, a chat submits to the selected session and a lookup *)
(* answers with one, and without an overlapping eviction a directory and   *)
(* an agent have one live session object, with one handler, and what is    *)
(* dropped stays dropped.                                                  *)
(***************************************************************************)
EXTENDS ChatRouting, SequenceTheorems, TLAPS

Thens == {"idle", "lookup", "store", "scan", "reset", "drop"}
GoOK ==
    /\ DOMAIN go = Threads
    /\ \A t \in Threads : DOMAIN go[t] = DOMAIN Idle /\ go[t].then \in Thens

-----------------------------------------------------------------------------
(* The selection acknowledged, in the chat, in the store and on disk.       *)

\* Goroutine t takes a step that is no step of a command.
Moves(t) ==
    /\ GoOK'
    /\ \A u \in Threads \ {t} : go'[u] = go[u]
    /\ go[t].pc \notin {"idle", "construct", "install"}
    /\ go'[t].pc \notin {"construct", "install"}

LEMMA LookupMoves ==
    ASSUME GoOK, NEW t \in Threads, LookupStep(t)
    PROVE  Moves(t) /\ UNCHANGED selection
<1>1. DOMAIN Idle = {"pc", "key", "prior", "as", "set", "snap", "seen", "todo", "alive", "then"}
      /\ Idle.then = "idle"
  BY DEF Idle
<1> USE DEF At, Goto, Moves, GoOK, Thens
<1>2. CASE LookupNoCwd(t) \/ LockResolve(t) \/ LookupRegister(t) \/ LookupSubscribe(t)
  BY <1>1, <1>2 DEF LookupNoCwd, LockResolve, LookupRegister, LookupSubscribe
<1>3. CASE LookupHit(t) \/ LookupMiss(t) \/ GetWarm(t)
  BY <1>1, <1>3 DEF LookupHit, LookupMiss, GetWarm
<1>4. CASE RestoreOrCreate(t)
  BY <1>1, <1>4 DEF RestoreOrCreate
<1>5. CASE LookupRetry(t)
  BY <1>1, <1>5 DEF LookupRetry
<1>6. CASE LookupMount(t)
  BY <1>1, <1>6 DEF LookupMount
<1>7. CASE LookupSpawn(t) \/ LookupSpawned(t) \/ LookupPersist(t) \/ LookupUnlock(t)
  BY <1>1, <1>7 DEF LookupSpawn, LookupSpawned, LookupPersist, LookupUnlock
<1> QED
  BY <1>2, <1>3, <1>4, <1>5, <1>6, <1>7 DEF LookupStep

LEMMA OtherMoves ==
    ASSUME GoOK, NEW t \in Threads,
           EvictStep(t) \/ ResetOne(t) \/ Return(t) \/ CommandUnchanged(t)
    PROVE  Moves(t) /\ UNCHANGED selection
<1>1. DOMAIN Idle = {"pc", "key", "prior", "as", "set", "snap", "seen", "todo", "alive", "then"}
      /\ Idle.then = "idle" /\ Idle.pc = "idle"
  BY DEF Idle
<1> USE DEF At, Goto, Moves, GoOK, Thens
<1>2. CASE EvictScan(t)
  BY <1>1, <1>2 DEF EvictScan
<1>3. CASE EvictWait(t)
  BY <1>1, <1>3 DEF EvictWait
<1>4. CASE EvictDrop(t)
  <2>1. CASE go[t].todo = {}
    BY <1>1, <1>4, <2>1 DEF EvictDrop
  <2>2. CASE go[t].todo # {}
    <3>1. PICK o \in go[t].todo :
             go' = [go EXCEPT ![t].todo = @ \ {o}, ![t].as = o,
                              ![t].pc = "dropChat", ![t].then = "drop"]
      BY <1>4, <2>2 DEF EvictDrop
    <3> QED
      BY <1>1, <1>4, <3>1 DEF EvictDrop
  <2> QED
    BY <2>1, <2>2
<1>5. CASE DropFromChat(t) \/ DropFromWarm(t) \/ DropFromFile(t)
  BY <1>1, <1>5 DEF DropFromChat, DropFromWarm, DropFromFile
<1>6. CASE ResetOne(t)
  BY <1>1, <1>6 DEF ResetOne
<1>7. CASE Return(t) \/ CommandUnchanged(t)
  BY <1>1, <1>7 DEF Return, CommandUnchanged
<1> QED
  BY <1>2, <1>3, <1>4, <1>5, <1>6, <1>7 DEF EvictStep

\* A command is between the store and the chat, and holds routeMu, in at most one
\* goroutine; a chat that is not built yet has no goroutine past its construction.
Commanding ==
    /\ routeMu \in Threads \cup {None}
    /\ \A t \in Threads : At(t, "install") <=> routeMu = t
Constructing ==
    ~chatUp => \A t \in Threads : /\ go[t].pc \in {"idle", "construct"}
                                  /\ At(t, "construct") => go[t].snap = store

\* Without a failed save the store's entry is the one on disk; it is the acknowledged
\* selection, or that with the setting of the command that is being installed.
Saved ==
    ~saveFailed =>
        /\ store = disk
        /\ chatUp => sel = acked
        /\ routeMu = None => disk = acked
        /\ routeMu # None =>
              disk = [acked EXCEPT ![go[routeMu].set.what] = go[routeMu].set.to]
Acked == GoOK /\ Commanding /\ Constructing /\ Saved

LEMMA AckedInit == Init => Acked
BY RoutingAssumption
   DEF Init, Acked, GoOK, Thens, Commanding, Constructing, Saved, At, Idle

LEMMA MovesAcked ==
    ASSUME Acked, NEW t \in Threads, Moves(t), UNCHANGED selection
    PROVE  Acked'
<1>1. UNCHANGED <<chatUp, sel, store, disk, routeMu, acked, saveFailed>> /\ routeMu # t
  BY DEF selection, Moves, Acked, Commanding, At
<1>2. Commanding'
  BY <1>1 DEF Moves, Acked, Commanding, At
<1>3. Constructing'
  BY <1>1 DEF Moves, Acked, Constructing, At
<1>4. Saved'
  BY <1>1 DEF Acked, Saved, Commanding, Moves
<1> QED
  BY <1>2, <1>3, <1>4 DEF Acked, Moves

LEMMA InsertAcked ==
    ASSUME Acked, NEW t \in Threads, Insert(t)
    PROVE  Acked'
<1>1. DOMAIN Idle = {"pc", "key", "prior", "as", "set", "snap", "seen", "todo", "alive", "then"}
  BY DEF Idle
<1>2. /\ GoOK' /\ \A u \in Threads \ {t} : go'[u] = go[u]
      /\ go[t].pc = "construct" /\ go'[t].pc \in Thens
  BY <1>1 DEF Acked, GoOK, Insert, At, Thens
<1>3. chatUp' /\ (sel' = IF chatUp THEN sel ELSE go[t].snap)
      /\ UNCHANGED <<routeMu, store, disk, acked, saveFailed>>
  BY DEF Insert
<1>4. routeMu # t
  BY <1>2 DEF Acked, Commanding, At
<1>5. Commanding'
  BY <1>2, <1>3, <1>4 DEF Acked, Commanding, At, Thens
<1>6. Saved'
  <2>1. CASE chatUp
    BY <1>2, <1>3, <1>4, <2>1 DEF Acked, Saved, Commanding
  <2>2. CASE ~chatUp
    <3>1. routeMu = None /\ go[t].snap = store
      BY <1>2, <2>2 DEF Acked, Constructing, Commanding, At
    <3> QED
      BY <1>3, <2>2, <3>1 DEF Acked, Saved
  <2> QED
    BY <2>1, <2>2
<1> QED
  BY <1>2, <1>3, <1>5, <1>6 DEF Acked, Constructing

\* A goroutine starts a call.
LEMMA BeginAcked ==
    ASSUME Acked, NEW t \in Threads, NEW pc \in Thens, NEW local,
           DOMAIN local = DOMAIN Idle,
           Begin(t, pc, local), UNCHANGED selection
    PROVE  Acked'
<1>1. DOMAIN Idle = {"pc", "key", "prior", "as", "set", "snap", "seen", "todo", "alive", "then"}
  BY DEF Idle
<1>2. UNCHANGED <<chatUp, sel, store, disk, routeMu, acked, saveFailed>>
  BY DEF selection
<1>3. /\ GoOK' /\ \A u \in Threads \ {t} : go'[u] = go[u]
      /\ go[t].pc = "idle" /\ (go'[t].pc = IF chatUp THEN pc ELSE "construct")
      /\ ~chatUp => go'[t].snap = store
  BY <1>1 DEF Acked, GoOK, Begin, At
<1>4. routeMu # t
  BY <1>3 DEF Acked, Commanding, At
<1>5. Commanding'
  BY <1>2, <1>3, <1>4 DEF Acked, Commanding, At, Thens
<1>6. Constructing'
  BY <1>2, <1>3 DEF Acked, Constructing, At
<1>7. Saved'
  BY <1>2, <1>3, <1>4 DEF Acked, Saved, Commanding
<1> QED
  BY <1>3, <1>5, <1>6, <1>7 DEF Acked

LEMMA CommandAcked ==
    ASSUME Acked, NEW t \in Threads,
           StoreSelection(t) \/ StoreFails(t) \/ InstallSelection(t)
    PROVE  Acked'
<1>1. DOMAIN Idle = {"pc", "key", "prior", "as", "set", "snap", "seen", "todo", "alive", "then"}
  BY DEF Idle
<1>2. DOMAIN go = Threads /\ "pc" \in DOMAIN go[t] /\ \A u \in Threads : u # None
  BY <1>1, RoutingAssumption DEF Acked, GoOK
<1>3. CASE StoreSelection(t)
  <2>1. /\ GoOK' /\ \A u \in Threads \ {t} : go'[u] = go[u]
        /\ go[t].pc = "store" /\ go'[t].pc = "install" /\ go'[t].set = go[t].set
    BY <1>1, <1>3 DEF Acked, GoOK, StoreSelection, Goto, At
  <2>2. /\ routeMu = None /\ routeMu' = t
        /\ store' = [store EXCEPT ![go[t].set.what] = go[t].set.to]
        /\ disk' = IF store = store' THEN disk ELSE store'
        /\ UNCHANGED <<chatUp, sel, acked, saveFailed>>
    BY <1>3 DEF StoreSelection
  <2>3. Commanding'
    BY <1>2, <2>1, <2>2 DEF Acked, Commanding, At
  <2>4. Constructing'
    BY <2>1, <2>2 DEF Acked, Constructing
  <2>5. Saved'
    BY <1>2, <2>1, <2>2 DEF Acked, Saved
  <2> QED
    BY <2>1, <2>3, <2>4, <2>5 DEF Acked
<1>4. CASE StoreFails(t)
  <2>1. /\ GoOK' /\ \A u \in Threads \ {t} : go'[u] = go[u]
        /\ go[t].pc = "store" /\ go'[t].pc = "return"
    BY <1>1, <1>4 DEF Acked, GoOK, StoreFails, Goto, At
  <2>2. routeMu = None /\ saveFailed' /\ UNCHANGED <<chatUp, routeMu>>
    BY <1>4 DEF StoreFails
  <2>3. Commanding'
    BY <1>2, <2>1, <2>2 DEF Acked, Commanding, At
  <2>4. Constructing'
    BY <2>1, <2>2 DEF Acked, Constructing
  <2> QED
    BY <2>1, <2>2, <2>3, <2>4 DEF Acked, Saved
<1>5. CASE InstallSelection(t)
  <2>1. /\ DOMAIN go' = Threads
        /\ \A u \in Threads : /\ DOMAIN go'[u] = DOMAIN Idle /\ go'[u].then = go[u].then
                              /\ u # t => go'[u].pc = go[u].pc
                              /\ u = t => go'[u].pc = "return"
    BY <1>1, <1>5 DEF Acked, GoOK, InstallSelection
  <2>2. /\ go[t].pc = "install" /\ routeMu' = None
        /\ sel' = [sel EXCEPT ![go[t].set.what] = go[t].set.to] /\ acked' = sel'
        /\ UNCHANGED <<chatUp, store, disk, saveFailed>>
    BY <1>5 DEF InstallSelection, At
  <2>3. routeMu = t /\ chatUp
    BY <2>2 DEF Acked, Commanding, Constructing, At
  <2>4. Commanding'
    BY <1>2, <2>1, <2>2, <2>3 DEF Acked, Commanding, At
  <2>5. Saved'
    BY <1>2, <2>2, <2>3 DEF Acked, Saved
  <2> QED
    BY <2>1, <2>2, <2>3, <2>4, <2>5 DEF Acked, GoOK, Constructing
<1> QED
  BY <1>3, <1>4, <1>5

LEMMA RestartAcked == ASSUME Acked, Restart PROVE Acked'
<1>1. GoOK' /\ \A t \in Threads : go'[t].pc = "idle"
  BY DEF Restart, GoOK, Thens, Idle
<1>2. /\ ~chatUp' /\ store' = disk /\ sel' = disk /\ routeMu' = None /\ disk' = disk
      /\ saveFailed' = saveFailed
      /\ acked' = IF \E t \in Threads : At(t, "install") THEN disk ELSE acked
  BY DEF Restart
<1>3. ~saveFailed => disk = acked'
  BY <1>2 DEF Acked, Saved, Commanding
<1>4. \A t \in Threads : t # None
  BY RoutingAssumption
<1> QED
  BY <1>1, <1>2, <1>3, <1>4 DEF Acked, Commanding, Constructing, Saved, At

LEMMA AckedStep ==
    ASSUME Acked, [Next]_vars
    PROVE  Acked'
<1>1. CASE UNCHANGED vars
  BY <1>1 DEF vars, Acked, GoOK, Commanding, Constructing, Saved, At
<1>2. ASSUME NEW t \in Threads, Lookup(t) \/ Command(t) \/ Evict(t) \/ Reset(t)
      PROVE  Acked'
  <2>1. DOMAIN Idle = {"pc", "key", "prior", "as", "set", "snap", "seen", "todo", "alive", "then"}
    BY DEF Idle
  <2>2. CASE Lookup(t)
    BY <2>1, <2>2, BeginAcked DEF Lookup, Thens
  <2>3. CASE Command(t)
    BY <2>1, <2>3, BeginAcked DEF Command, Thens
  <2>4. CASE Evict(t)
    BY <2>1, <2>4, BeginAcked DEF Evict, Thens
  <2>5. CASE Reset(t)
    BY <2>1, <2>5, BeginAcked DEF Reset, Thens
  <2> QED
    BY <1>2, <2>2, <2>3, <2>4, <2>5
<1>3. ASSUME NEW t \in Threads, ThreadStep(t)
      PROVE  Acked'
  BY <1>3, InsertAcked, LookupMoves, OtherMoves, CommandAcked, MovesAcked
     DEF ThreadStep, CommandStep, Acked
<1>4. ASSUME NEW o, Event(o)
      PROVE  Acked'
  <2>1. UNCHANGED <<go, chatUp, sel, store, disk, routeMu, acked, saveFailed>>
    BY <1>4 DEF Event, CloseDone, AgentReady, BridgeDies, RespawnDone, selection
  <2> QED
    BY <2>1 DEF Acked, GoOK, Commanding, Constructing, Saved, At
<1>5. ASSUME NEW k \in Keys, PumpEvents(k)
      PROVE  Acked'
  <2>1. UNCHANGED <<go, chatUp, sel, store, disk, routeMu, acked, saveFailed>>
    BY <1>5 DEF PumpEvents, selection
  <2> QED
    BY <2>1 DEF Acked, GoOK, Commanding, Constructing, Saved, At
<1> QED
  BY <1>1, <1>2, <1>3, <1>4, <1>5, RestartAcked DEF Next, Step

(***************************************************************************)
(* The selection the user was told of is the one on disk and in the chat,  *)
(* whatever commands run at once and whenever the daemon restarts, as long *)
(* as no save has failed.                                                  *)
(***************************************************************************)
THEOREM AckedSelectionSurvivesAlways == Spec => []AckedSelectionSurvives
<1>1. Acked /\ [Next]_vars => Acked'
  BY AckedStep
<1>2. Acked => AckedSelectionSurvives
  BY DEF Acked, Saved, AckedSelectionSurvives
<1> QED
  BY <1>1, <1>2, AckedInit, PTL DEF Spec
-----------------------------------------------------------------------------
(* The session selected, and the session that a lookup returns.             *)

Has(o, k) == o \in DOMAIN obj /\ obj[o].key = k

ObjectsOK ==
    /\ Len(obj) \in Nat /\ obj = [o \in 1..Len(obj) |-> obj[o]]
    /\ \A o \in DOMAIN obj : "key" \in DOMAIN obj[o]
MountedOK ==
    /\ DOMAIN pool = Keys /\ DOMAIN warm = Keys
    /\ \A k \in Keys : /\ pool[k] # None => Has(pool[k], k)
                       /\ warm[k] # None => Has(warm[k], k)
Selected == selAS # None => chatUp /\ Has(selAS, sel)
SelectionsOK == {sel, store, disk} \subseteq Selections

Sets == Settings \cup {ClearCwd}
MountedPCs == {"attach", "subscribe", "spawn", "spawning", "persist", "unlock"}
CommandPCs == {"store", "install", "scan", "drop", "dropChat", "dropWarm", "dropFile"}

\* A lookup has seen the selection, it knows a session of its key once it has one, and
\* it answers with a selection it has seen; the other calls have seen nothing.
Sound(t) ==
    LET l == go[t] IN
    /\ l.pc = "construct" =>
          /\ l.then \in {"lookup", "store"}
          /\ l.then = "lookup" => l.as = None
          /\ l.then = "store" => l.set \in Sets
    /\ l.pc = "lookup" => l.as = None
    /\ l.pc \in LookupPCs => sel \in l.seen
    /\ l.pc \in LookupPCs \ {"lookup"} => l.key \in Keys
    /\ l.pc \in {"lock", "get"} => l.prior = None \/ Has(l.prior, l.key)
    /\ l.pc \in {"register", "mount"} \cup MountedPCs => Has(l.as, l.key)
    /\ l.pc \in MountedPCs => l.key \in l.seen
    /\ l.pc = "return" =>
          l.as = None \/ l.seen = {} \/ (l.as \in DOMAIN obj /\ obj[l.as].key \in l.seen)
    /\ l.pc \in CommandPCs => l.seen = {} /\ l.set \in Sets
    /\ l.pc = "reset" => l.seen = {}
    /\ l.pc \in {"dropChat", "dropWarm", "dropFile"} => l.then \in {"scan", "drop"}

Routed ==
    /\ Acked /\ ObjectsOK /\ MountedOK /\ Selected /\ SelectionsOK
    /\ \A t \in Threads : Sound(t)

LEMMA RoutedInit == Init => Routed
<1> SUFFICES ASSUME Init PROVE Routed
  OBVIOUS
<1>1. ObjectsOK /\ Selected
  BY DEF Init, ObjectsOK, Selected
<1>2. MountedOK
  BY DEF Init, MountedOK
<1>3. SelectionsOK
  BY RoutingAssumption DEF Init, SelectionsOK, Selections
<1>4. \A t \in Threads : Sound(t)
  BY DEF Init, Sound, Idle, LookupPCs, MountedPCs, CommandPCs
<1> QED
  BY <1>1, <1>2, <1>3, <1>4, AckedInit DEF Routed

\* Session objects are created and change, but for their keys.
ObjectsKept ==
    /\ ObjectsOK'
    /\ \A o \in DOMAIN obj : o \in DOMAIN obj' /\ obj'[o].key = obj[o].key

LEMMA ObjectsSame == ASSUME ObjectsOK, UNCHANGED obj PROVE ObjectsKept
BY DEF ObjectsOK, ObjectsKept

LEMMA AppendKept ==
    ASSUME ObjectsOK, NEW id, NEW k, NEW n, n = Len(obj) + 1,
           obj' = Append(obj, NewObject(id, k))
    PROVE  ObjectsKept /\ Has(n, k)'
<1> DEFINE new == NewObject(id, k)
<1>1. "key" \in DOMAIN new /\ new.key = k
  BY DEF NewObject
<1> HIDE DEF new
<1>2. obj \in Seq({obj[o] : o \in DOMAIN obj})
  BY DEF ObjectsOK
<1>3. /\ Len(obj') = n /\ obj' = [o \in 1..n |-> obj'[o]] /\ obj'[n] = new
      /\ \A o \in DOMAIN obj : o \in 1..n /\ obj'[o] = obj[o]
      /\ \A o \in 1..n : o \in DOMAIN obj \/ o = n
  <2> DEFINE S == {obj[o] : o \in DOMAIN obj} \cup {new}
  <2>1. obj' = Append(obj, new) /\ Len(obj) \in Nat /\ DOMAIN obj = 1..Len(obj)
    BY <1>2 DEF new
  <2>2. Len(obj') = n /\ obj'[n] = new /\ \A o \in 1..Len(obj) : obj'[o] = obj[o]
    BY <1>2, <2>1
  <2>3. obj' \in Seq(S)
    BY <1>2, <2>1
  <2> HIDE DEF S
  <2>4. obj' = [o \in 1..n |-> obj'[o]]
    BY <2>2, <2>3, LenProperties
  <2> QED
    <3>1. /\ \A o \in DOMAIN obj : o \in 1..n /\ obj'[o] = obj[o]
          /\ \A o \in 1..n : o \in DOMAIN obj \/ o = n
      BY <2>1, <2>2
    <3> QED
      BY <2>2, <2>4, <3>1, Zenon
<1> QED
  BY <1>1, <1>3 DEF ObjectsOK, ObjectsKept, Has

LEMMA UpdateKept ==
    ASSUME ObjectsOK, obj' = [x \in DOMAIN obj |-> obj'[x]],
           \A x \in DOMAIN obj : obj'[x].key = obj[x].key /\ DOMAIN obj'[x] = DOMAIN obj[x]
    PROVE  ObjectsKept
BY DEF ObjectsOK, ObjectsKept

LEMMA EventKept ==
    ASSUME ObjectsOK, NEW o, Event(o)
    PROVE  ObjectsKept
<1>1. /\ obj' = [x \in DOMAIN obj |-> obj'[x]]
      /\ \A x \in DOMAIN obj : obj'[x].key = obj[x].key /\ DOMAIN obj'[x] = DOMAIN obj[x]
  <2>1. CASE CloseDone(o)
    BY <2>1 DEF CloseDone, ObjectsOK
  <2>2. CASE AgentReady(o)
    BY <2>2 DEF AgentReady, ObjectsOK
  <2>3. CASE BridgeDies(o)
    BY <2>3 DEF BridgeDies, ObjectsOK
  <2>4. CASE RespawnDone(o)
    BY <2>4 DEF RespawnDone, ObjectsOK
  <2> QED
    BY <2>1, <2>2, <2>3, <2>4 DEF Event
<1> QED
  BY <1>1, UpdateKept

LEMMA KeptMounted ==
    ASSUME MountedOK, ObjectsKept, UNCHANGED <<pool, warm>>
    PROVE  MountedOK'
BY DEF MountedOK, ObjectsKept, Has

LEMMA KeptSelected ==
    ASSUME Selected, ObjectsKept, UNCHANGED <<selAS, sel, chatUp>>
    PROVE  Selected'
BY DEF Selected, ObjectsKept, Has

LEMMA KeptSound ==
    ASSUME NEW t, Sound(t), ObjectsKept, go'[t] = go[t], sel' = sel
    PROVE  Sound(t)'
BY DEF Sound, ObjectsKept, Has

\* What a step of goroutine t has to show.
LEMMA MoveRouted ==
    ASSUME Routed, NEW t \in Threads, Moves(t), UNCHANGED selection,
           ObjectsKept, MountedOK', Selected', Sound(t)'
    PROVE  Routed'
<1>1. UNCHANGED <<sel, store, disk>>
  BY DEF selection
<1>2. \A u \in Threads \ {t} : Sound(u)'
  BY <1>1, KeptSound DEF Routed, Moves
<1> QED
  BY <1>1, <1>2, MovesAcked DEF Routed, SelectionsOK, ObjectsKept

\* A lookup, from the selection it reads to the session it finds or creates.
LEMMA FindRouted ==
    ASSUME Routed, NEW t \in Threads,
           \/ LookupNoCwd(t) \/ LookupHit(t) \/ LookupMiss(t) \/ LockResolve(t)
           \/ GetWarm(t) \/ RestoreOrCreate(t)
    PROVE  Routed'
<1>1. DOMAIN Idle = {"pc", "key", "prior", "as", "set", "snap", "seen", "todo", "alive", "then"}
  BY DEF Idle
<1>2. Moves(t) /\ UNCHANGED selection /\ sel' = sel /\ chatUp' = chatUp
  BY LookupMoves DEF LookupStep, Routed, Acked, selection
<1>3. DOMAIN go = Threads /\ DOMAIN go[t] = DOMAIN Idle /\ Sound(t)
  BY DEF Routed, Acked, GoOK
<1>4. chatUp
  BY <1>2 DEF Moves, Routed, Acked, Constructing
<1>5. sel.cwd # NoCwd => sel \in Keys
  BY DEF Routed, SelectionsOK, Selections, Keys
<1>6. CASE LookupNoCwd(t)
  <2>1. UNCHANGED <<obj, pool, warm, selAS>>
    BY <1>6 DEF LookupNoCwd, mounted
  <2>2. go' = [go EXCEPT ![t].pc = "return"] /\ go[t].pc = "lookup"
    BY <1>6 DEF LookupNoCwd, Goto, At
  <2>3. Sound(t)'
    BY <1>1, <1>3, <2>2 DEF Sound, LookupPCs, MountedPCs, CommandPCs
  <2> QED
    BY <1>2, <2>1, <2>3, ObjectsSame, KeptMounted, KeptSelected, MoveRouted DEF Routed
<1>7. CASE LookupHit(t)
  <2>1. UNCHANGED <<obj, pool, warm>> /\ selAS' = pool[sel] /\ pool[sel] # None /\ sel \in Keys
    BY <1>5, <1>7 DEF LookupHit, Live
  <2>2. go' = [go EXCEPT ![t].pc = "attach", ![t].as = pool[sel], ![t].key = sel]
        /\ go[t].pc = "lookup"
    BY <1>7 DEF LookupHit, At
  <2>3. Has(pool[sel], sel)
    BY <2>1 DEF Routed, MountedOK
  <2>4. go'[t].pc = "attach" /\ go'[t].as = pool[sel] /\ go'[t].key = sel
        /\ go'[t].seen = go[t].seen
    BY <1>1, <1>3, <2>2
  <2>5. sel \in go[t].seen
    BY <1>3, <2>2 DEF Sound, LookupPCs
  <2>6. Sound(t)'
    BY <1>2, <2>1, <2>3, <2>4, <2>5 DEF Sound, LookupPCs, MountedPCs, CommandPCs, Has
  <2>7. Selected'
    BY <1>2, <1>4, <2>1, <2>3 DEF Selected, Has
  <2> QED
    BY <1>2, <2>1, <2>6, <2>7, ObjectsSame, KeptMounted, MoveRouted DEF Routed
<1>8. CASE LookupMiss(t)
  <2>1. UNCHANGED <<obj, pool, warm, selAS>> /\ sel \in Keys
    BY <1>5, <1>8 DEF LookupMiss, mounted
  <2>2. go' = [go EXCEPT ![t].pc = "lock", ![t].key = sel, ![t].prior = pool[sel]]
        /\ go[t].pc = "lookup"
    BY <1>8 DEF LookupMiss, At
  <2>3. pool[sel] = None \/ Has(pool[sel], sel)
    BY <2>1 DEF Routed, MountedOK
  <2>4. go'[t].pc = "lock" /\ go'[t].prior = pool[sel] /\ go'[t].key = sel
        /\ go'[t].seen = go[t].seen
    BY <1>1, <1>3, <2>2
  <2>5. sel \in go[t].seen
    BY <1>3, <2>2 DEF Sound, LookupPCs
  <2>6. Sound(t)'
    BY <1>2, <2>1, <2>3, <2>4, <2>5 DEF Sound, LookupPCs, MountedPCs, CommandPCs, Has
  <2> QED
    BY <1>2, <2>1, <2>6, ObjectsSame, KeptMounted, KeptSelected, MoveRouted DEF Routed
<1>9. CASE LockResolve(t)
  <2>1. UNCHANGED <<obj, pool, warm, selAS>>
    BY <1>9 DEF LockResolve, mounted
  <2>2. go' = [go EXCEPT ![t].pc = "get"] /\ go[t].pc = "lock"
    BY <1>9 DEF LockResolve, Goto, At
  <2>3. Sound(t)'
    BY <1>1, <1>2, <1>3, <2>1, <2>2 DEF Sound, LookupPCs, MountedPCs, CommandPCs, Has
  <2> QED
    BY <1>2, <2>1, <2>3, ObjectsSame, KeptMounted, KeptSelected, MoveRouted DEF Routed
<1>10. CASE GetWarm(t)
  <2> DEFINE k == go[t].key
             as == IF warm[k] # None THEN warm[k] ELSE go[t].prior
  <2>1. UNCHANGED <<obj, pool, selAS>> /\ warm' = [warm EXCEPT ![k] = as]
    BY <1>10 DEF GetWarm, mounted
  <2>2. go' = [go EXCEPT ![t].as = as, ![t].pc = IF as = None THEN "restore" ELSE "mount"]
        /\ go[t].pc = "get"
    BY <1>10 DEF GetWarm, At
  <2>3. k \in Keys /\ (as = None \/ Has(as, k)) /\ sel \in go[t].seen
    BY <1>3, <2>2 DEF Sound, LookupPCs, Routed, MountedOK
  <2>4. /\ go'[t].pc = IF as = None THEN "restore" ELSE "mount"
        /\ go'[t].as = as /\ go'[t].key = k /\ go'[t].seen = go[t].seen
    BY <1>1, <1>3, <2>2
  <2>5. Sound(t)'
    BY <1>2, <2>1, <2>3, <2>4 DEF Sound, LookupPCs, MountedPCs, CommandPCs, Has
  <2>6. MountedOK'
    BY <2>1, <2>3 DEF Routed, MountedOK, Has
  <2> QED
    BY <1>2, <2>1, <2>5, <2>6, ObjectsSame, KeptSelected, MoveRouted DEF Routed
<1>11. CASE RestoreOrCreate(t)
  <2>1. PICK k, n : k = go[t].key /\ n = Len(obj) + 1
    OBVIOUS
  <2>2. PICK id :
           /\ obj' = Append(obj, NewObject(id, k))
           /\ warm' = [warm EXCEPT ![k] = IF @ = None THEN n ELSE @]
           /\ go' = [go EXCEPT ![t].as = warm'[k],
                      ![t].pc = IF {e \in file : e.key = k} = {} THEN "register" ELSE "mount"]
    BY <1>11, <2>1, Zenon DEF RestoreOrCreate
  <2>3. UNCHANGED <<pool, selAS>> /\ go[t].pc = "restore"
    BY <1>11 DEF RestoreOrCreate, mounted, At
  <2>4. k \in Keys /\ sel \in go[t].seen
    BY <1>3, <2>1, <2>3 DEF Sound, LookupPCs, MountedPCs
  <2>5. ObjectsKept /\ Has(n, k)'
    BY <2>1, <2>2, AppendKept DEF Routed
  <2>6. MountedOK' /\ Has(warm[k], k)'
    <3>1. \A x \in Keys : /\ pool[x] # None => Has(pool[x], x)'
                          /\ x # k => warm'[x] = warm[x]
      BY <2>2, <2>3, <2>5 DEF Routed, MountedOK, Has, ObjectsKept
    <3>2. DOMAIN pool' = Keys /\ DOMAIN warm' = Keys
      BY <2>2, <2>3 DEF Routed, MountedOK
    <3>3. \A x \in Keys : warm[x] # None /\ x # k => Has(warm[x], x)'
      BY <2>5, <3>1 DEF Routed, MountedOK, Has, ObjectsKept
    <3>4. Has(warm[k], k)'
      BY <2>2, <2>4, <2>5 DEF Routed, MountedOK, Has, ObjectsKept
    <3> QED
      BY <2>3, <3>1, <3>2, <3>3, <3>4 DEF MountedOK
  <2>7. /\ go'[t].pc \in {"register", "mount"}
        /\ go'[t].as = warm'[k] /\ go'[t].key = k /\ go'[t].seen = go[t].seen
    BY <1>1, <1>3, <2>1, <2>2
  <2>8. Sound(t)'
    BY <1>2, <2>4, <2>6, <2>7 DEF Sound, LookupPCs, MountedPCs, CommandPCs, Has
  <2> QED
    BY <1>2, <2>3, <2>5, <2>6, <2>8, KeptSelected, MoveRouted DEF Routed
<1> QED
  BY <1>6, <1>7, <1>8, <1>9, <1>10, <1>11

\* The facts that every step of a goroutine starts from.
LEMMA MoveFacts ==
    ASSUME Routed, NEW t \in Threads, Moves(t), UNCHANGED selection
    PROVE  /\ DOMAIN Idle = {"pc", "key", "prior", "as", "set", "snap", "seen", "todo",
                             "alive", "then"}
           /\ DOMAIN go = Threads /\ DOMAIN go[t] = DOMAIN Idle /\ Sound(t)
           /\ sel' = sel /\ chatUp' = chatUp /\ chatUp
BY DEF Idle, Routed, Acked, GoOK, selection, Moves, Constructing

\* The lookup mounts what it has found, unless the selection has changed.
LEMMA MountRouted ==
    ASSUME Routed, NEW t \in Threads, LookupRegister(t) \/ LookupRetry(t) \/ LookupMount(t)
    PROVE  Routed'
<1>1. Moves(t) /\ UNCHANGED selection
  BY LookupMoves DEF LookupStep, Routed, Acked
<1>2. /\ DOMAIN Idle = {"pc", "key", "prior", "as", "set", "snap", "seen", "todo",
                        "alive", "then"}
      /\ DOMAIN go = Threads /\ DOMAIN go[t] = DOMAIN Idle /\ Sound(t)
      /\ sel' = sel /\ chatUp' = chatUp /\ chatUp
  BY <1>1, MoveFacts
<1>3. CASE LookupRegister(t)
  <2>1. UNCHANGED <<obj, pool, warm, selAS>>
    BY <1>3 DEF LookupRegister, mounted
  <2>2. go' = [go EXCEPT ![t].pc = "mount"] /\ go[t].pc = "register"
    BY <1>3 DEF LookupRegister, Goto, At
  <2>3. Sound(t)'
    BY <1>2, <2>1, <2>2 DEF Sound, LookupPCs, MountedPCs, CommandPCs, Has
  <2> QED
    BY <1>1, <1>2, <2>1, <2>3, ObjectsSame, KeptMounted, KeptSelected, MoveRouted DEF Routed
<1>4. CASE LookupRetry(t)
  <2>1. UNCHANGED <<obj, pool, warm, selAS>>
    BY <1>4 DEF LookupRetry, mounted
  <2>2. go' = [go EXCEPT ![t] = [Idle EXCEPT !.pc = "lookup", !.seen = go[t].seen]]
        /\ go[t].pc = "mount"
    BY <1>4 DEF LookupRetry, At
  <2>3. go'[t].pc = "lookup" /\ go'[t].seen = go[t].seen /\ go'[t].as = None
    BY <1>2, <2>2 DEF Idle
  <2>4. sel \in go[t].seen
    BY <1>2, <2>2 DEF Sound, LookupPCs
  <2>5. Sound(t)'
    BY <1>2, <2>3, <2>4 DEF Sound, LookupPCs, MountedPCs, CommandPCs, Has
  <2> QED
    BY <1>1, <1>2, <2>1, <2>5, ObjectsSame, KeptMounted, KeptSelected, MoveRouted DEF Routed
<1>5. CASE LookupMount(t)
  <2>1. PICK k, as : k = go[t].key /\ as = IF Live(pool[k]) THEN pool[k] ELSE go[t].as
    OBVIOUS
  <2>2. /\ UNCHANGED <<obj, warm>> /\ go[t].pc = "mount" /\ sel = k /\ selAS' = as
        /\ pool' = [pool EXCEPT ![k] = IF @ = None THEN as ELSE @]
        /\ go' = [go EXCEPT ![t].as = as,
                            ![t].pc = IF Live(pool[k]) THEN "attach" ELSE "subscribe"]
    BY <1>5, <2>1 DEF LookupMount, At
  <2>3. k \in Keys /\ sel \in go[t].seen /\ Has(go[t].as, k)
    BY <1>2, <2>1, <2>2 DEF Sound, LookupPCs
  <2>4. Has(as, k)
    BY <2>1, <2>3 DEF Routed, MountedOK, Live
  <2>5. go'[t].pc \in {"attach", "subscribe"} /\ go'[t].as = as /\ go'[t].key = k
        /\ go'[t].seen = go[t].seen
    BY <1>2, <2>1, <2>2
  <2>6. Sound(t)'
    BY <1>2, <2>2, <2>3, <2>4, <2>5 DEF Sound, LookupPCs, MountedPCs, CommandPCs, Has
  <2>7. Selected'
    BY <1>2, <2>2, <2>4 DEF Selected, Has
  <2>8. MountedOK'
    BY <2>2, <2>3, <2>4 DEF Routed, MountedOK, Has
  <2> QED
    BY <1>1, <2>2, <2>6, <2>7, <2>8, ObjectsSame, MoveRouted DEF Routed
<1> QED
  BY <1>3, <1>4, <1>5

\* The rest of a lookup changes the session's object, but for its key.
LEMMA SpawnRouted ==
    ASSUME Routed, NEW t \in Threads,
           \/ LookupSubscribe(t) \/ LookupSpawn(t) \/ LookupSpawned(t) \/ LookupPersist(t)
           \/ LookupUnlock(t)
    PROVE  Routed'
<1>1. Moves(t) /\ UNCHANGED selection
  BY LookupMoves DEF LookupStep, Routed, Acked
<1>2. /\ DOMAIN Idle = {"pc", "key", "prior", "as", "set", "snap", "seen", "todo",
                        "alive", "then"}
      /\ DOMAIN go = Threads /\ DOMAIN go[t] = DOMAIN Idle /\ Sound(t)
      /\ sel' = sel /\ chatUp' = chatUp /\ chatUp
  BY <1>1, MoveFacts
<1>3. UNCHANGED <<pool, warm, selAS>>
  BY DEF LookupSubscribe, LookupSpawn, LookupSpawned, LookupPersist, LookupUnlock, Subscribe,
         mounted
<1>4. PICK pc \in {"spawn", "spawning", "persist", "unlock", "return"} :
         go' = [go EXCEPT ![t].pc = pc] /\ go[t].pc \in MountedPCs
  BY DEF LookupSubscribe, LookupSpawn, LookupSpawned, LookupPersist, LookupUnlock, Goto, At,
         MountedPCs
<1>5. ObjectsKept
  <2>1. CASE LookupSubscribe(t)
    BY <2>1 DEF LookupSubscribe, Subscribe, Routed, ObjectsOK, ObjectsKept
  <2>2. CASE LookupSpawn(t)
    <3>1. PICK o, v : obj' = [obj EXCEPT ![o].closedByUser = v]
      BY <2>2 DEF LookupSpawn
    <3>2. /\ obj' = [x \in DOMAIN obj |-> obj'[x]]
          /\ \A x \in DOMAIN obj : obj'[x].key = obj[x].key /\ DOMAIN obj'[x] = DOMAIN obj[x]
      BY <3>1 DEF Routed, ObjectsOK
    <3> QED
      BY <3>2, UpdateKept DEF Routed
  <2>3. CASE LookupSpawned(t)
    <3>1. PICK o : \/ obj' = [obj EXCEPT ![o].stat = "Running", ![o].ready = TRUE]
                   \/ obj' = [obj EXCEPT ![o].stat = "Exited"]
      BY <2>3 DEF LookupSpawned
    <3>2. CASE obj' = [obj EXCEPT ![o].stat = "Running", ![o].ready = TRUE]
      <4>1. /\ obj' = [x \in DOMAIN obj |-> obj'[x]]
            /\ \A x \in DOMAIN obj : obj'[x].key = obj[x].key /\ DOMAIN obj'[x] = DOMAIN obj[x]
        BY <3>2 DEF Routed, ObjectsOK
      <4> QED
        BY <4>1, UpdateKept DEF Routed
    <3>3. CASE obj' = [obj EXCEPT ![o].stat = "Exited"]
      <4>1. /\ obj' = [x \in DOMAIN obj |-> obj'[x]]
            /\ \A x \in DOMAIN obj : obj'[x].key = obj[x].key /\ DOMAIN obj'[x] = DOMAIN obj[x]
        BY <3>3 DEF Routed, ObjectsOK
      <4> QED
        BY <4>1, UpdateKept DEF Routed
    <3> QED
      BY <3>1, <3>2, <3>3
  <2>4. CASE LookupPersist(t) \/ LookupUnlock(t)
    BY <2>4, ObjectsSame DEF LookupPersist, LookupUnlock, Routed
  <2> QED
    BY <2>1, <2>2, <2>3, <2>4
<1>6. Sound(t)'
  <2>1. go'[t].pc = pc /\ go'[t].as = go[t].as /\ go'[t].key = go[t].key
        /\ go'[t].seen = go[t].seen
    BY <1>2, <1>4
  <2>2. sel \in go[t].seen /\ go[t].key \in Keys /\ go[t].key \in go[t].seen
        /\ Has(go[t].as, go[t].key)
    BY <1>2, <1>4 DEF Sound, LookupPCs, MountedPCs
  <2> QED
    BY <1>2, <1>5, <2>1, <2>2 DEF Sound, LookupPCs, MountedPCs, CommandPCs, Has, ObjectsKept
<1> QED
  BY <1>1, <1>2, <1>3, <1>5, <1>6, KeptMounted, KeptSelected, MoveRouted DEF Routed

LEMMA EvictRouted ==
    ASSUME Routed, NEW t \in Threads, EvictStep(t)
    PROVE  Routed'
<1>1. Moves(t) /\ UNCHANGED selection
  BY OtherMoves DEF Routed, Acked
<1>2. /\ DOMAIN Idle = {"pc", "key", "prior", "as", "set", "snap", "seen", "todo",
                        "alive", "then"}
      /\ DOMAIN go = Threads /\ DOMAIN go[t] = DOMAIN Idle /\ Sound(t)
      /\ sel' = sel /\ chatUp' = chatUp /\ chatUp
  BY <1>1, MoveFacts
<1>3. /\ go[t].pc \in CommandPCs \ {"store", "install"}
      /\ go[t].pc = "dropFile" => go[t].then \in {"scan", "drop"}
      /\ go[t].pc \in {"dropChat", "dropWarm"} => go[t].then \in {"scan", "drop"}
      /\ go[t].seen = {} /\ go[t].set \in Sets
  BY <1>2 DEF EvictStep, EvictScan, EvictWait, EvictDrop, DropFromChat, DropFromWarm,
              DropFromFile, At, CommandPCs, Sound
<1>4. /\ go'[t].seen = go[t].seen /\ go'[t].set = go[t].set /\ go'[t].pc \in CommandPCs
      /\ go'[t].pc \in {"dropChat", "dropWarm", "dropFile"} => go'[t].then \in {"scan", "drop"}
  <2>1. CASE EvictScan(t)
    BY <1>2, <2>1 DEF EvictScan, CommandPCs, At
  <2>2. CASE EvictWait(t)
    BY <1>2, <2>2 DEF EvictWait, CommandPCs, At
  <2>3. CASE EvictDrop(t)
    <3>1. \/ go' = [go EXCEPT ![t].pc = "store"]
          \/ \E o \in go[t].todo :
                go' = [go EXCEPT ![t].todo = @ \ {o}, ![t].as = o,
                                 ![t].pc = "dropChat", ![t].then = "drop"]
      BY <2>3 DEF EvictDrop, Goto
    <3>2. CASE go' = [go EXCEPT ![t].pc = "store"]
      BY <1>2, <3>2 DEF CommandPCs
    <3>3. ASSUME NEW o, go' = [go EXCEPT ![t].todo = @ \ {o}, ![t].as = o,
                                         ![t].pc = "dropChat", ![t].then = "drop"]
          PROVE  /\ go'[t].seen = go[t].seen /\ go'[t].set = go[t].set
                 /\ go'[t].pc = "dropChat" /\ go'[t].then = "drop"
      BY <1>2, <3>3
    <3> QED
      BY <3>1, <3>2, <3>3 DEF CommandPCs
  <2>4. CASE DropFromChat(t)
    BY <1>2, <1>3, <2>4 DEF DropFromChat, CommandPCs, At, Goto
  <2>5. CASE DropFromWarm(t)
    BY <1>2, <1>3, <2>5 DEF DropFromWarm, CommandPCs, At, Goto
  <2>6. CASE DropFromFile(t)
    BY <1>2, <1>3, <2>6 DEF DropFromFile, CommandPCs, At, Goto
  <2> QED
    BY <2>1, <2>2, <2>3, <2>4, <2>5, <2>6 DEF EvictStep
<1>5. Sound(t)'
  BY <1>3, <1>4 DEF Sound, LookupPCs, MountedPCs, CommandPCs
<1>6. ObjectsKept
  <2>1. CASE EvictScan(t)
    <3>1. \/ UNCHANGED obj
          \/ \E o : obj' = [obj EXCEPT ![o].closing = TRUE, ![o].closedByUser = TRUE]
      BY <2>1 DEF EvictScan
    <3>2. ASSUME NEW o, obj' = [obj EXCEPT ![o].closing = TRUE, ![o].closedByUser = TRUE]
          PROVE  ObjectsKept
      <4>1. /\ obj' = [x \in DOMAIN obj |-> obj'[x]]
            /\ \A x \in DOMAIN obj : obj'[x].key = obj[x].key /\ DOMAIN obj'[x] = DOMAIN obj[x]
        BY <3>2 DEF Routed, ObjectsOK
      <4> QED
        BY <4>1, UpdateKept DEF Routed
    <3> QED
      BY <3>1, <3>2, ObjectsSame DEF Routed
  <2>2. CASE ~EvictScan(t)
    BY <2>2, ObjectsSame
       DEF EvictStep, EvictWait, EvictDrop, DropFromChat, DropFromWarm, DropFromFile, Routed
  <2> QED
    BY <2>1, <2>2
<1>7. /\ selAS' = None \/ selAS' = selAS
      /\ DOMAIN pool' = DOMAIN pool /\ DOMAIN warm' = DOMAIN warm
      /\ \A k \in Keys : /\ pool'[k] = None \/ pool'[k] = pool[k]
                         /\ warm'[k] = None \/ warm'[k] = warm[k]
  <2>1. CASE DropFromChat(t)
    BY <2>1 DEF DropFromChat, Routed, MountedOK
  <2>2. CASE DropFromWarm(t)
    BY <2>2 DEF DropFromWarm, Routed, MountedOK, mounted
  <2>3. CASE ~DropFromChat(t) /\ ~DropFromWarm(t)
    BY <2>3 DEF EvictStep, EvictScan, EvictWait, EvictDrop, DropFromFile, mounted
  <2> QED
    BY <2>1, <2>2, <2>3
<1>8. Selected' /\ MountedOK'
  BY <1>2, <1>6, <1>7 DEF Routed, Selected, MountedOK, Has, ObjectsKept
<1> QED
  BY <1>1, <1>5, <1>6, <1>8, MoveRouted

LEMMA EndRouted ==
    ASSUME Routed, NEW t \in Threads, ResetOne(t) \/ Return(t) \/ CommandUnchanged(t)
    PROVE  Routed'
<1>1. Moves(t) /\ UNCHANGED selection
  BY OtherMoves DEF Routed, Acked
<1>2. /\ DOMAIN Idle = {"pc", "key", "prior", "as", "set", "snap", "seen", "todo",
                        "alive", "then"}
      /\ DOMAIN go = Threads /\ DOMAIN go[t] = DOMAIN Idle /\ Sound(t)
      /\ sel' = sel /\ chatUp' = chatUp /\ chatUp
  BY <1>1, MoveFacts
<1>3. UNCHANGED <<pool, warm, selAS>>
  BY DEF ResetOne, Return, CommandUnchanged, mounted
<1>4. ObjectsKept
  <2>1. CASE ResetOne(t)
    BY <2>1 DEF ResetOne, Routed, ObjectsOK, ObjectsKept
  <2>2. CASE Return(t) \/ CommandUnchanged(t)
    BY <2>2, ObjectsSame DEF Return, CommandUnchanged, Routed
  <2> QED
    BY <2>1, <2>2
<1>5. Sound(t)'
  <2>1. CASE ResetOne(t)
    <3>1. go[t].pc = "reset" /\ go[t].seen = {}
      BY <1>2, <2>1 DEF ResetOne, At, Sound
    <3>2. go'[t].pc \in {"reset", "return"} /\ go'[t].seen = {}
      <4>1. CASE go[t].todo = {}
        BY <1>2, <2>1, <3>1, <4>1 DEF ResetOne, Goto
      <4>2. CASE go[t].todo # {}
        <5>1. PICK o : go' = [go EXCEPT ![t].todo = @ \ {o}]
          BY <2>1, <4>2 DEF ResetOne
        <5> QED
          BY <1>2, <3>1, <5>1
      <4> QED
        BY <4>1, <4>2
    <3> QED
      BY <3>2 DEF Sound, LookupPCs, MountedPCs, CommandPCs
  <2>2. CASE Return(t)
    BY <1>2, <2>2 DEF Return, Sound, Idle, LookupPCs, MountedPCs, CommandPCs
  <2>3. CASE CommandUnchanged(t)
    <3>1. go[t].pc = "store" /\ go' = [go EXCEPT ![t].pc = "return"] /\ go[t].seen = {}
      BY <1>2, <2>3 DEF CommandUnchanged, Goto, At, Sound, CommandPCs
    <3>2. go'[t].pc = "return" /\ go'[t].seen = {}
      BY <1>2, <3>1
    <3> QED
      BY <3>2 DEF Sound, LookupPCs, MountedPCs, CommandPCs
  <2> QED
    BY <2>1, <2>2, <2>3
<1> QED
  BY <1>1, <1>2, <1>3, <1>4, <1>5, KeptMounted, KeptSelected, MoveRouted DEF Routed

\* The chat is inserted with the selection that the goroutine has read.
LEMMA InsertRouted ==
    ASSUME Routed, NEW t \in Threads, Insert(t)
    PROVE  Routed'
<1>1. /\ DOMAIN Idle = {"pc", "key", "prior", "as", "set", "snap", "seen", "todo",
                        "alive", "then"}
      /\ DOMAIN go = Threads /\ DOMAIN go[t] = DOMAIN Idle /\ Sound(t)
  BY DEF Idle, Routed, Acked, GoOK
<1>2. /\ go[t].pc = "construct" /\ chatUp'
      /\ sel' = IF chatUp THEN sel ELSE go[t].snap
      /\ UNCHANGED <<obj, pool, warm, selAS, store, disk>>
      /\ go' = [go EXCEPT ![t].pc = go[t].then, ![t].snap = None,
                          ![t].seen = IF go[t].then = "lookup" THEN {sel'} ELSE {}]
  BY DEF Insert, At, mounted
<1>3. /\ go'[t].pc = go[t].then
      /\ go'[t].seen = IF go[t].then = "lookup" THEN {sel'} ELSE {}
      /\ go'[t].as = go[t].as /\ go'[t].set = go[t].set
      /\ \A u \in Threads \ {t} : go'[u] = go[u]
  BY <1>1, <1>2
<1>4. /\ go[t].then \in {"lookup", "store"}
      /\ go[t].then = "lookup" => go[t].as = None
      /\ go[t].then = "store" => go[t].set \in Sets
  BY <1>1, <1>2 DEF Sound
<1>5. Sound(t)'
  BY <1>3, <1>4 DEF Sound, LookupPCs, MountedPCs, CommandPCs
<1>6. \A u \in Threads \ {t} : Sound(u)'
  <2>1. CASE chatUp
    BY <1>2, <1>3, <2>1, KeptSound, ObjectsSame DEF Routed
  <2>2. CASE ~chatUp
    <3> SUFFICES ASSUME NEW u \in Threads \ {t} PROVE Sound(u)'
      OBVIOUS
    <3>1. go[u].pc \in {"idle", "construct"} /\ Sound(u)
      BY <2>2 DEF Routed, Acked, Constructing
    <3> QED
      BY <1>3, <3>1 DEF Sound, LookupPCs, MountedPCs, CommandPCs
  <2> QED
    BY <2>1, <2>2
<1>7. SelectionsOK'
  <2>1. ~chatUp => go[t].snap = store
    BY <1>2 DEF Routed, Acked, Constructing, At
  <2> QED
    BY <1>2, <2>1 DEF Routed, SelectionsOK
<1>8. Selected'
  BY <1>2 DEF Routed, Selected, Has
<1> QED
  BY <1>2, <1>5, <1>6, <1>7, <1>8, InsertAcked, ObjectsSame, KeptMounted
     DEF Routed, ObjectsKept

LEMMA BeginRouted ==
    ASSUME Routed, NEW t \in Threads, NEW pc \in {"lookup", "store", "scan", "reset"},
           NEW local, DOMAIN local = DOMAIN Idle, local.as = None,
           pc = "lookup" => local.seen = {sel},
           pc # "lookup" => local.seen = {},
           pc \in {"store", "scan"} => local.set \in Sets,
           chatUp \/ pc \in {"lookup", "store"},
           Begin(t, pc, local), UNCHANGED <<selection, mounted, warm, obj>>
    PROVE  Routed'
<1>1. /\ DOMAIN Idle = {"pc", "key", "prior", "as", "set", "snap", "seen", "todo",
                        "alive", "then"}
      /\ DOMAIN go = Threads
  BY DEF Idle, Routed, Acked, GoOK
<1>2. UNCHANGED <<chatUp, sel, store, disk, obj, pool, warm, selAS>>
  BY DEF selection, mounted
<1>3. /\ go'[t].pc = (IF chatUp THEN pc ELSE "construct") /\ go'[t].then = pc
      /\ go'[t].as = None /\ go'[t].seen = local.seen /\ go'[t].set = local.set
      /\ \A u \in Threads \ {t} : go'[u] = go[u]
  BY <1>1 DEF Begin
<1>4. Sound(t)'
  BY <1>2, <1>3 DEF Sound, LookupPCs, MountedPCs, CommandPCs
<1>5. \A u \in Threads \ {t} : Sound(u)'
  BY <1>2, <1>3, KeptSound, ObjectsSame DEF Routed
<1>6. pc \in Thens
  BY DEF Thens
<1>7. Acked'
  BY <1>6, BeginAcked DEF Routed
<1> QED
  BY <1>2, <1>4, <1>5, <1>7, ObjectsSame, KeptMounted, KeptSelected
     DEF Routed, SelectionsOK, ObjectsKept

LEMMA CallRouted ==
    ASSUME Routed, NEW t \in Threads, Lookup(t) \/ Command(t) \/ Evict(t) \/ Reset(t)
    PROVE  Routed'
<1>1. UNCHANGED <<selection, mounted, warm, obj>>
  BY DEF Lookup, Command, Evict, Reset
<1>2. CASE Lookup(t)
  <2>1. Begin(t, "lookup", [Idle EXCEPT !.seen = {sel}])
    BY <1>2 DEF Lookup
  <2> DEFINE local == [Idle EXCEPT !.seen = {sel}]
  <2>2. DOMAIN local = DOMAIN Idle /\ local.as = None /\ local.seen = {sel}
    BY DEF Idle
  <2> HIDE DEF local
  <2> QED
    BY <1>1, <2>1, <2>2, BeginRouted DEF local
<1>3. CASE Command(t)
  <2>1. PICK s \in Settings : Begin(t, "store", [Idle EXCEPT !.set = s])
    BY <1>3 DEF Command
  <2>2. /\ DOMAIN [Idle EXCEPT !.set = s] = DOMAIN Idle /\ [Idle EXCEPT !.set = s].as = None
        /\ [Idle EXCEPT !.set = s].seen = {} /\ [Idle EXCEPT !.set = s].set \in Sets
    BY DEF Idle, Sets
  <2> QED
    BY <1>1, <2>1, <2>2, BeginRouted
<1>4. CASE Evict(t)
  <2>1. PICK local : /\ local = [Idle EXCEPT !.todo = InCwd(sel.cwd), !.set = ClearCwd]
                     /\ Begin(t, "scan", local) /\ chatUp
    BY <1>4 DEF Evict
  <2>2. /\ DOMAIN local = DOMAIN Idle /\ local.as = None
        /\ local.seen = {} /\ local.set \in Sets
    BY <2>1 DEF Idle, Sets
  <2> QED
    BY <1>1, <2>1, <2>2, BeginRouted
<1>5. CASE Reset(t)
  <2>1. PICK local : /\ local = [Idle EXCEPT !.todo = InCwd(sel.cwd)]
                     /\ Begin(t, "reset", local) /\ chatUp
    BY <1>5 DEF Reset
  <2>2. DOMAIN local = DOMAIN Idle /\ local.as = None /\ local.seen = {}
    BY <2>1 DEF Idle
  <2> QED
    BY <1>1, <2>1, <2>2, BeginRouted
<1> QED
  BY <1>2, <1>3, <1>4, <1>5

LEMMA SetSelection ==
    ASSUME NEW x \in Selections, NEW s \in Sets
    PROVE  [x EXCEPT ![s.what] = s.to] \in Selections
BY DEF Selections, Sets, Settings, ClearCwd

LEMMA CommandRouted ==
    ASSUME Routed, NEW t \in Threads,
           StoreSelection(t) \/ StoreFails(t) \/ InstallSelection(t)
    PROVE  Routed'
<1>1. /\ DOMAIN Idle = {"pc", "key", "prior", "as", "set", "snap", "seen", "todo",
                        "alive", "then"}
      /\ DOMAIN go = Threads /\ \A u \in Threads : DOMAIN go[u] = DOMAIN Idle /\ Sound(u)
      /\ Acked'
  BY CommandAcked DEF Idle, Routed, Acked, GoOK
<1>2. /\ go[t].pc \in {"store", "install"} /\ go[t].seen = {} /\ go[t].set \in Sets
      /\ UNCHANGED <<obj, warm, chatUp>>
  BY <1>1 DEF StoreSelection, StoreFails, InstallSelection, At, Sound, CommandPCs
<1>3. \A x \in Selections : [x EXCEPT ![go[t].set.what] = go[t].set.to] \in Selections
  BY <1>2, SetSelection
<1>4. CASE StoreSelection(t) \/ StoreFails(t)
  <2>1. UNCHANGED <<sel, selAS, pool>> /\ {store', disk'} \subseteq Selections
    BY <1>3, <1>4 DEF StoreSelection, StoreFails, Routed, SelectionsOK, mounted
  <2>2. /\ \A u \in Threads \ {t} : go'[u] = go[u]
        /\ go'[t].pc \in {"install", "return"}
        /\ go'[t].seen = {} /\ go'[t].set \in Sets
    BY <1>1, <1>2, <1>4 DEF StoreSelection, StoreFails, Goto
  <2>3. Sound(t)'
    BY <2>2 DEF Sound, LookupPCs, MountedPCs, CommandPCs
  <2>4. \A u \in Threads \ {t} : Sound(u)'
    BY <1>2, <2>1, <2>2, KeptSound, ObjectsSame DEF Routed
  <2> QED
    BY <1>1, <1>2, <2>1, <2>3, <2>4, ObjectsSame, KeptMounted, KeptSelected
       DEF Routed, SelectionsOK, ObjectsKept
<1>5. CASE InstallSelection(t)
  <2>1. sel' \in Selections /\ UNCHANGED <<store, disk>> /\ selAS' = None
    BY <1>3, <1>5 DEF InstallSelection, Routed, SelectionsOK
  <2>2. MountedOK'
    BY <1>2, <1>5 DEF InstallSelection, Routed, MountedOK, Has
  <2>3. go'[t] = [go[t] EXCEPT !.pc = "return"]
    BY <1>5 DEF InstallSelection
  <2>4. Sound(t)'
    BY <1>1, <1>2, <2>3 DEF Sound, LookupPCs, MountedPCs, CommandPCs
  <2>5. ASSUME NEW u \in Threads \ {t}
        PROVE  Sound(u)'
    <3>1. CASE go[u].seen = {}
      <4>1. go'[u] = go[u] /\ go[u].pc \notin LookupPCs
        BY <1>1, <1>5, <3>1 DEF InstallSelection, Sound
      <4> QED
        BY <1>1, <1>2, <3>1, <4>1 DEF Sound, MountedPCs, CommandPCs, LookupPCs
    <3>2. CASE go[u].seen # {}
      <4>1. go'[u] = [go[u] EXCEPT !.seen = @ \cup {sel'}]
        BY <1>5, <3>2 DEF InstallSelection
      <4>2. /\ go'[u].pc = go[u].pc /\ go'[u].as = go[u].as /\ go'[u].key = go[u].key
            /\ go'[u].prior = go[u].prior /\ go'[u].set = go[u].set
            /\ go'[u].then = go[u].then /\ go'[u].seen = go[u].seen \cup {sel'}
        BY <1>1, <4>1
      <4>3. go[u].pc \notin CommandPCs \cup {"reset"}
        BY <1>1, <3>2 DEF Sound
      <4>4. /\ go[u].pc \in LookupPCs => sel' \in go'[u].seen
            /\ go[u].pc \in MountedPCs => go'[u].key \in go'[u].seen
        BY <1>1, <4>2 DEF Sound
      <4>5. go[u].pc \in {"register", "mount"} \cup MountedPCs => Has(go[u].as, go[u].key)'
        BY <1>1, <1>2, <4>2 DEF Sound, Has
      <4>6. go[u].pc \in {"lock", "get"} =>
               go'[u].prior = None \/ Has(go[u].prior, go[u].key)'
        BY <1>1, <1>2, <4>2 DEF Sound, Has
      <4>7. go[u].pc = "return" => \/ go'[u].as = None
                                   \/ go[u].as \in DOMAIN obj /\ obj[go[u].as].key \in go'[u].seen
        BY <1>1, <3>2, <4>2 DEF Sound
      <4> QED
        BY <1>1, <1>2, <4>2, <4>3, <4>4, <4>5, <4>6, <4>7 DEF Sound, Has
    <3> QED
      BY <3>1, <3>2
  <2> QED
    BY <1>1, <1>2, <2>1, <2>2, <2>4, <2>5, ObjectsSame
       DEF Routed, SelectionsOK, Selected, ObjectsKept
<1> QED
  BY <1>4, <1>5

LEMMA RestartRouted == ASSUME Routed, Restart PROVE Routed'
<1>1. Acked'
  BY RestartAcked DEF Routed
<1>2. ObjectsOK' /\ Selected' /\ MountedOK'
  BY DEF Restart, ObjectsOK, Selected, MountedOK
<1>3. SelectionsOK'
  BY DEF Restart, Routed, SelectionsOK
<1>4. \A t \in Threads : Sound(t)'
  BY DEF Restart, Sound, Idle, LookupPCs, MountedPCs, CommandPCs
<1> QED
  BY <1>1, <1>2, <1>3, <1>4 DEF Routed

LEMMA RoutedStep ==
    ASSUME Routed, [Next]_vars
    PROVE  Routed'
<1>1. Acked'
  BY AckedStep DEF Routed
<1>2. CASE UNCHANGED vars
  BY <1>1, <1>2
     DEF vars, Routed, ObjectsOK, MountedOK, Selected, SelectionsOK, Sound, Has
<1>3. ASSUME NEW t \in Threads, ThreadStep(t)
      PROVE  Routed'
  BY <1>3, InsertRouted, FindRouted, MountRouted, SpawnRouted, EvictRouted, EndRouted,
     CommandRouted
     DEF ThreadStep, LookupStep, CommandStep
<1>4. ASSUME NEW o, Event(o)
      PROVE  Routed'
  <2>1. UNCHANGED <<go, chatUp, sel, store, disk, selAS, pool, warm>>
    BY <1>4 DEF Event, CloseDone, AgentReady, BridgeDies, RespawnDone, selection, mounted
  <2>2. ObjectsKept
    BY <1>4, EventKept DEF Routed
  <2>3. \A t \in Threads : Sound(t)'
    BY <2>1, <2>2, KeptSound DEF Routed
  <2> QED
    BY <1>1, <2>1, <2>2, <2>3, KeptMounted, KeptSelected
       DEF Routed, SelectionsOK, ObjectsKept
<1>5. ASSUME NEW k \in Keys, PumpEvents(k)
      PROVE  Routed'
  <2>1. UNCHANGED <<go, chatUp, sel, store, disk, selAS, pool, warm>>
    BY <1>5 DEF PumpEvents, selection
  <2>2. ObjectsKept
    BY <1>5 DEF PumpEvents, Subscribe, Routed, ObjectsOK, ObjectsKept
  <2>3. \A t \in Threads : Sound(t)'
    BY <2>1, <2>2, KeptSound DEF Routed
  <2> QED
    BY <1>1, <2>1, <2>2, <2>3, KeptMounted, KeptSelected
       DEF Routed, SelectionsOK, ObjectsKept
<1> QED
  BY <1>2, <1>3, <1>4, <1>5, CallRouted, RestartRouted DEF Next, Step

(***************************************************************************)
(* The session a chat submits to is the one of the selected agent and      *)
(* directory, whatever lookups and commands interleave.                    *)
(***************************************************************************)
THEOREM SelectedMatchesAlways == Spec => []SelectedMatches
<1>1. Routed /\ [Next]_vars => Routed'
  BY RoutedStep
<1>2. Routed => SelectedMatches
  BY DEF Routed, Selected, Has, SelectedMatches, KeyOf
<1> QED
  BY <1>1, <1>2, RoutedInit, PTL DEF Spec

(***************************************************************************)
(* A lookup returns a session of a selection that was current during the   *)
(* call, however often the selection changed under it.                     *)
(***************************************************************************)
THEOREM AnswerWasSelectedAlways == Spec => []AnswerWasSelected
<1>1. Routed /\ [Next]_vars => Routed'
  BY RoutedStep
<1>2. Routed => AnswerWasSelected
  BY DEF Routed, Sound, AnswerWasSelected, At, KeyOf
<1> QED
  BY <1>1, <1>2, RoutedInit, PTL DEF Spec
-----------------------------------------------------------------------------
(* One session, one handler and no resurrection, without an overlap.         *)

Fields == {"id", "key", "stat", "ready", "respawning", "closing", "closedByUser", "handlers"}
RecordsOK == \A o \in DOMAIN obj : DOMAIN obj[o] = Fields

\* The names that agent sessions have, in memory and on disk: an ID belongs to one
\* key and is never given out twice.
Names == file \cup {[id |-> obj[o].id, key |-> obj[o].key] : o \in DOMAIN obj}
Named ==
    /\ nextID \in Nat \ {0}
    /\ \A x \in Names : x.id \in 1..nextID /\ x.id # nextID /\ x.key \in Keys
    /\ \A x, y \in Names : x.id = y.id => x.key = y.key
    /\ \A i \in subs \cup dropped : i \in 1..nextID /\ i # nextID

\* A resolve lock is held by a lookup of its key, and a lookup that may create or spawn
\* a session holds it.
HolderPCs == LookupPCs \ {"lookup", "lock"}
LockedPCs == HolderPCs \ {"attach", "unlock"}
LockOK ==
    /\ DOMAIN resolve = Keys
    /\ \A k \in Keys : resolve[k] # None =>
          /\ resolve[k] \in Threads
          /\ go[resolve[k]].key = k /\ go[resolve[k]].pc \in HolderPCs
    /\ \A t \in Threads : go[t].pc \in LockedPCs => resolve[go[t].key] = t

DropPCs == {"dropChat", "dropWarm", "dropFile"}
Placed(t) ==
    /\ go[t].as \in Objects
    /\ go[t].todo \cup go[t].alive \subseteq DOMAIN obj
    /\ go[t].pc \in DropPCs => go[t].as \in DOMAIN obj

FunsOK == pool = [k \in Keys |-> pool[k]] /\ warm = [k \in Keys |-> warm[k]]
Typed == RecordsOK /\ FunsOK /\ Named /\ LockOK /\ \A t \in Threads : Placed(t)
Solid == Routed /\ Typed

\* The session that a lookup works with, or that an eviction has yet to drop, is in the
\* warm pool; an eviction closes what runs before it drops it.
Warmed(o) == warm[obj[o].key] = o
Active(o) == obj[o].stat = "Running" \/ obj[o].ready \/ obj[o].closing \/ obj[o].respawning
Closed(o) == obj[o].closedByUser /\ (obj[o].closing \/ obj[o].stat # "Running")
ServePCs == {"register", "mount"} \cup MountedPCs
Serves(t) ==
    LET l == go[t] IN
    /\ l.pc \in {"lock", "get"} /\ l.prior # None => warm[l.key] = l.prior
    /\ l.pc \in ServePCs => warm[l.key] = l.as
    /\ l.pc \in EvictPCs \cup {"reset"} => \A o \in l.todo \cup l.alive : Warmed(o)
    /\ l.pc \in EvictPCs => l.todo \cap l.alive = {} /\ \A o \in l.alive : Closed(o)
    /\ l.pc = "drop" \/ (l.pc \in DropPCs /\ l.then = "drop") => \A o \in l.todo : Closed(o)
    /\ l.pc \in DropPCs => ~Active(l.as) /\ l.as \notin l.todo \cup l.alive
    /\ l.pc \in {"dropChat", "dropWarm"} => Warmed(l.as)
    /\ l.pc \in {"dropWarm", "dropFile"} => pool[obj[l.as].key] = None
    /\ l.pc = "dropFile" => warm[obj[l.as].key] = None

\* An object in the warm pool has its handler exactly if its ID is subscribed.
Handled(o) ==
    /\ obj[o].handlers \in {0, 1}
    /\ obj[o].handlers = 1 /\ Warmed(o) =>
          obj[o].id \in subs \/ \E t \in Threads : At(t, "dropWarm") /\ go[t].as = o

ActiveWarm == \A o \in DOMAIN obj : Active(o) => Warmed(o)
AllHandled == \A o \in DOMAIN obj : Handled(o)
PoolWarm == \A k \in Keys : pool[k] # None => warm[k] = pool[k]
AllServe == \A t \in Threads : Serves(t)
FileLasts == \A e \in file : e.id \notin dropped
WarmLasts == \A k \in Keys : warm[k] # None => obj[warm[k]].id \notin dropped
Solo ==
    /\ ~EvictOverlaps /\ ActiveWarm /\ AllHandled /\ PoolWarm /\ AllServe
    /\ FileLasts /\ WarmLasts

\* What every step has to show.
Preserves == Typed' /\ (Solo /\ ~EvictOverlaps' => Solo')

\* The fields of a goroutine's locals that matter here.
Still(u) ==
    /\ go'[u].pc = go[u].pc /\ go'[u].key = go[u].key /\ go'[u].prior = go[u].prior
    /\ go'[u].as = go[u].as /\ go'[u].todo = go[u].todo /\ go'[u].alive = go[u].alive
    /\ go'[u].then = go[u].then
IdsKept ==
    /\ DOMAIN obj' = DOMAIN obj
    /\ \A o \in DOMAIN obj : /\ obj'[o].id = obj[o].id /\ obj'[o].key = obj[o].key
                             /\ DOMAIN obj'[o] = Fields
WarmKept == DOMAIN warm' = Keys /\ \A k \in Keys : warm[k] # None => warm'[k] = warm[k]
PoolShrinks ==
    /\ pool' = [k \in Keys |-> pool'[k]]
    /\ \A k \in Keys : pool'[k] = None \/ pool'[k] = pool[k]
Harmless ==
    /\ warm' = warm /\ PoolShrinks
    /\ \A o \in DOMAIN obj : (Closed(o) => Closed(o)') /\ (Active(o)' => Active(o))

LEMMA NoneFresh == ASSUME ObjectsOK PROVE \A o \in DOMAIN obj : o # None
<1>1. \A o \in DOMAIN obj : o \in Nat
  BY DEF ObjectsOK
<1> QED
  BY <1>1, RoutingAssumption

LEMMA SolidFacts ==
    ASSUME Solid
    PROVE  /\ ObjectsOK /\ DOMAIN go = Threads /\ DOMAIN warm = Keys /\ DOMAIN pool = Keys
           /\ \A o \in DOMAIN obj : /\ o # None /\ obj[o].key \in Keys
                                    /\ DOMAIN obj[o] = Fields
           /\ \A u \in Threads : /\ Placed(u) /\ Sound(u) /\ DOMAIN go[u] = DOMAIN Idle
                                 /\ u # None
           /\ pool' = pool => PoolShrinks
<1>1. \A o \in DOMAIN obj : [id |-> obj[o].id, key |-> obj[o].key].key \in Keys
  BY DEF Solid, Typed, Named, Names
<1>2. \A o \in DOMAIN obj : obj[o].key \in Keys
  BY <1>1
<1> QED
  BY <1>2, NoneFresh, RoutingAssumption
     DEF Solid, Typed, RecordsOK, FunsOK, PoolShrinks, Routed, Acked, GoOK, MountedOK

LEMMA NamedKept ==
    ASSUME Named, IdsKept, file' \subseteq Names, nextID' = nextID,
           \A i \in subs' \cup dropped' : i \in subs \cup dropped \/ \E x \in Names : x.id = i
    PROVE  Named'
<1>1. Names' \subseteq Names
  BY DEF Names, IdsKept
<1> QED
  BY <1>1 DEF Named

\* A goroutine that a step leaves alone.
LEMMA StillPlaced ==
    ASSUME NEW u \in Threads, Placed(u), Still(u), DOMAIN obj \subseteq DOMAIN obj'
    PROVE  Placed(u)'
BY DEF Placed, Still, Objects

LEMMA StillServes ==
    ASSUME Solid, NEW u \in Threads, Serves(u), Still(u), ObjectsKept, WarmKept,
           go[u].pc \in EvictPCs => Harmless
    PROVE  Serves(u)'
<1>1. Placed(u) /\ Sound(u) /\ \A o \in DOMAIN obj : o # None /\ obj[o].key \in Keys
  BY SolidFacts
<1>2. \A o \in DOMAIN obj : Warmed(o) => Warmed(o)'
  BY <1>1 DEF Warmed, ObjectsKept, WarmKept
<1>3. go[u].pc \in {"lock", "get"} /\ go[u].prior # None => warm'[go[u].key] = go[u].prior
  BY <1>1 DEF Serves, Sound, WarmKept, LookupPCs
<1>4. go[u].pc \in ServePCs => warm'[go[u].key] = go[u].as
  <2>1. go[u].pc \in ServePCs => go[u].key \in Keys /\ go[u].as # None
    BY <1>1 DEF Sound, ServePCs, MountedPCs, LookupPCs, Has
  <2> QED
    BY <2>1 DEF Serves, WarmKept
<1>5. CASE go[u].pc \in EvictPCs
  <2>1. \A o \in go[u].todo \cup go[u].alive : o \in DOMAIN obj
    BY <1>1 DEF Placed
  <2>2. go[u].pc \in DropPCs => go[u].as \in DOMAIN obj
    BY <1>1 DEF Placed
  <2>3. Harmless
    BY <1>5
  <2>4. go[u].pc \notin {"lock", "get", "reset"} /\ go[u].pc \notin ServePCs
    BY <1>5 DEF EvictPCs, ServePCs, MountedPCs
  <2>5. \A o \in go[u].todo \cup go[u].alive : Warmed(o)' /\ (Closed(o) => Closed(o)')
    BY <1>2, <1>5, <2>1, <2>3 DEF Serves, Harmless
  <2>6. PICK a : a = go[u].as
    OBVIOUS
  <2>7. go[u].pc \in DropPCs => ~Active(a)' /\ obj'[a].key = obj[a].key
                                /\ obj[a].key \in Keys
    BY <1>1, <2>6, <2>2, <2>3 DEF Serves, Harmless, ObjectsKept
  <2>8. go[u].pc \in {"dropChat", "dropWarm"} => Warmed(a)'
    BY <1>2, <2>6, <2>2 DEF Serves, DropPCs
  <2>9. go[u].pc \in {"dropWarm", "dropFile"} => pool'[obj[a].key] = None
    BY <2>6, <2>3, <2>7 DEF Serves, Harmless, PoolShrinks, DropPCs
  <2>10. go[u].pc = "dropFile" => warm'[obj[a].key] = None
    BY <2>6, <2>3 DEF Serves, Harmless
  <2>11. /\ go[u].todo \cap go[u].alive = {} /\ \A o \in go[u].alive : Closed(o)'
         /\ go[u].pc = "drop" \/ (go[u].pc \in DropPCs /\ go[u].then = "drop") =>
               \A o \in go[u].todo : Closed(o)'
         /\ go[u].pc \in DropPCs => go[u].as \notin go[u].todo \cup go[u].alive
    BY <1>5, <2>5 DEF Serves
  <2> QED
    BY <2>6, <2>4, <2>5, <2>7, <2>8, <2>9, <2>10, <2>11 DEF Serves, Still, DropPCs
<1>6. CASE go[u].pc \notin EvictPCs
  <2>1. go[u].pc \notin DropPCs \cup {"drop", "dropChat", "dropWarm", "dropFile"}
    BY <1>6 DEF EvictPCs, DropPCs
  <2>2. go[u].pc = "reset" => \A o \in go[u].todo \cup go[u].alive : Warmed(o)'
    BY <1>1, <1>2 DEF Serves, Placed
  <2> QED
    BY <1>3, <1>4, <1>6, <2>1, <2>2 DEF Serves, Still
<1> QED
  BY <1>5, <1>6

\* What a step does to one goroutine: nothing, or it keeps the goroutine's part.
StepOf(u) ==
    \/ Still(u) /\ (Solo /\ go[u].pc \in EvictPCs => Harmless)
    \/ /\ Placed(u)' /\ (Solo /\ ~EvictOverlaps' => Serves(u)')
       /\ go[u].pc # "dropWarm"

LEMMA ActiveKept ==
    ASSUME ActiveWarm, IdsKept, warm' = warm,
           \A o \in DOMAIN obj : Active(o)' => Active(o) \/ Warmed(o)
    PROVE  ActiveWarm'
BY DEF ActiveWarm, IdsKept, Warmed

LEMMA HandledKept ==
    ASSUME AllHandled, IdsKept, warm' = warm, subs \subseteq subs',
           \A o \in DOMAIN obj : obj'[o].handlers = obj[o].handlers,
           \A u \in Threads : go[u].pc = "dropWarm" => Still(u)
    PROVE  AllHandled'
<1> SUFFICES ASSUME NEW o \in DOMAIN obj PROVE Handled(o)'
  BY DEF AllHandled, IdsKept
<1>1. Handled(o) /\ (Warmed(o)' => Warmed(o)) /\ obj'[o].handlers = obj[o].handlers
      /\ obj'[o].id = obj[o].id
  BY DEF AllHandled, IdsKept, Warmed
<1>2. \A u \in Threads : At(u, "dropWarm") /\ go[u].as = o => (At(u, "dropWarm") /\ go[u].as = o)'
  BY DEF At, Still
<1> QED
  BY <1>1, <1>2 DEF Handled

LEMMA WarmLastsKept ==
    ASSUME Solid, WarmLasts, IdsKept, warm' = warm, dropped' = dropped
    PROVE  WarmLasts'
BY DEF Solid, Routed, MountedOK, Has, WarmLasts, IdsKept

LEMMA PoolWarmKept ==
    ASSUME PoolWarm, warm' = warm, PoolShrinks
    PROVE  PoolWarm'
BY DEF PoolWarm, PoolShrinks

LEMMA UpsertNames ==
    ASSUME NEW o \in DOMAIN obj
    PROVE  Upsert(o) \subseteq Names
BY DEF Upsert, KeyOf, Names

LEMMA UpsertLasts ==
    ASSUME Solid, WarmLasts, FileLasts, NEW o \in DOMAIN obj, Warmed(o),
           file' = Upsert(o), dropped' = dropped
    PROVE  FileLasts'
<1>1. obj[o].key \in Keys /\ warm[obj[o].key] = o /\ o # None
  BY SolidFacts DEF Warmed
<1>2. obj[o].id \notin dropped
  BY <1>1 DEF WarmLasts
<1> QED
  BY <1>2 DEF FileLasts, Upsert

\* A step that neither adds to nor takes from the warm pool.
LEMMA ActPreserves ==
    ASSUME Solid, IdsKept, ObjectsKept, UNCHANGED <<warm, nextID, dropped>>,
           file' \subseteq Names, \A i \in subs' : i \in subs \/ \E x \in Names : x.id = i,
           LockOK', \A u \in Threads : StepOf(u), pool' = [k \in Keys |-> pool'[k]],
           Solo /\ ~EvictOverlaps' => ActiveWarm' /\ AllHandled' /\ PoolWarm' /\ FileLasts'
    PROVE  Preserves
<1>1. Named'
  BY NamedKept DEF Solid, Typed
<1>2. \A u \in Threads : Placed(u)'
  <2> SUFFICES ASSUME NEW u \in Threads PROVE Placed(u)'
    OBVIOUS
  <2>1. Placed(u) /\ StepOf(u)
    BY DEF Solid, Typed
  <2> QED
    BY <2>1, StillPlaced DEF StepOf, ObjectsKept
<1>3. Typed'
  BY <1>1, <1>2 DEF Solid, Typed, FunsOK, RecordsOK, IdsKept
<1>4. ASSUME Solo, ~EvictOverlaps' PROVE Solo'
  <2>1. WarmKept
    BY SolidFacts DEF WarmKept
  <2>2. ASSUME NEW u \in Threads PROVE Serves(u)'
    <3>1. Serves(u) /\ StepOf(u)
      BY <1>4 DEF Solo, AllServe
    <3> QED
      BY <1>4, <2>1, <3>1, StillServes DEF StepOf
  <2>3. WarmLasts'
    BY <1>4, WarmLastsKept DEF Solo
  <2> QED
    BY <1>4, <2>2, <2>3 DEF Solo, AllServe
<1> QED
  BY <1>3, <1>4 DEF Preserves

\* A step of one goroutine that changes its own locals, the selection or its lock.
LEMMA QuietPreserves ==
    ASSUME Solid, NEW t \in Threads,
           UNCHANGED <<obj, warm, subs, file, dropped, nextID>>, PoolShrinks,
           \A u \in Threads \ {t} : Still(u), go[t].pc # "dropWarm",
           LockOK', Placed(t)', Solo /\ ~EvictOverlaps' => Serves(t)'
    PROVE  Preserves
<1>1. ObjectsKept /\ IdsKept
  BY ObjectsSame DEF Solid, Routed, Typed, RecordsOK, IdsKept
<1>2. Harmless
  BY DEF Harmless, Closed, Active
<1>3. \A u \in Threads : StepOf(u)
  BY <1>2 DEF StepOf
<1>4. file' \subseteq Names
  BY DEF Names
<1>5. ASSUME Solo PROVE ActiveWarm' /\ AllHandled' /\ PoolWarm' /\ FileLasts'
  <2>1. ActiveWarm /\ AllHandled /\ PoolWarm /\ FileLasts
    BY <1>5 DEF Solo
  <2>2. ActiveWarm'
    BY <1>1, <2>1, ActiveKept DEF Active
  <2>3. \A u \in Threads : go[u].pc = "dropWarm" => Still(u)
    OBVIOUS
  <2>4. AllHandled'
    BY <1>1, <2>1, <2>3, HandledKept
  <2>5. PoolWarm'
    BY <2>1, PoolWarmKept
  <2> QED
    BY <2>1, <2>2, <2>4, <2>5 DEF FileLasts
<1> QED
  BY <1>1, <1>3, <1>4, <1>5, ActPreserves DEF PoolShrinks

LEMMA LockKept ==
    ASSUME Solid, NEW t \in Threads, \A u \in Threads \ {t} : Still(u), resolve' = resolve,
           \/ go[t].pc \notin HolderPCs
           \/ go'[t].pc \in HolderPCs /\ go'[t].key = go[t].key,
           go'[t].pc \in LockedPCs => go[t].pc \in LockedPCs /\ go'[t].key = go[t].key
    PROVE  LockOK'
<1>1. LockOK
  BY DEF Solid, Typed
<1>2. \A k \in Keys : resolve'[k] # None =>
          /\ resolve'[k] \in Threads
          /\ go'[resolve'[k]].key = k /\ go'[resolve'[k]].pc \in HolderPCs
  BY <1>1 DEF LockOK, Still
<1>3. \A u \in Threads : go'[u].pc \in LockedPCs => resolve'[go'[u].key] = u
  BY <1>1 DEF LockOK, Still
<1> QED
  BY <1>1, <1>2, <1>3 DEF LockOK

\* No eviction runs beside a lookup, a reset or another eviction.
LEMMA Apart ==
    ASSUME Solo, NEW t \in Threads, go[t].pc \in EvictPCs \cup LookupPCs \cup {"reset"}
    PROVE  \A u \in Threads \ {t} : go[u].pc \notin EvictPCs
BY DEF Solo, EvictOverlaps

LEMMA QuietTyped ==
    ASSUME Solid, NEW t \in Threads, UNCHANGED <<obj, subs, file, dropped, nextID>>,
           \A u \in Threads \ {t} : Still(u), LockOK', FunsOK', Placed(t)'
    PROVE  Typed'
<1>1. Named'
  BY DEF Solid, Typed, Named, Names
<1>2. \A u \in Threads \ {t} : Placed(u)'
  BY StillPlaced DEF Solid, Typed
<1> QED
  BY <1>1, <1>2 DEF Solid, Typed, RecordsOK

LEMMA ThreadFacts ==
    ASSUME Solid, NEW t \in Threads, Moves(t), UNCHANGED selection
    PROVE  /\ DOMAIN Idle = {"pc", "key", "prior", "as", "set", "snap", "seen", "todo",
                             "alive", "then"}
           /\ DOMAIN go = Threads /\ DOMAIN go[t] = DOMAIN Idle /\ Sound(t) /\ Placed(t)
           /\ sel' = sel /\ chatUp' = chatUp /\ chatUp /\ t # None
           /\ \A u \in Threads \ {t} : Still(u)
<1>1. \A u \in Threads \ {t} : Still(u)
  BY DEF Moves, Still
<1> QED
  BY <1>1, MoveFacts, SolidFacts DEF Solid

LEMMA FindPreserves ==
    ASSUME Solid, NEW t \in Threads,
           LookupNoCwd(t) \/ LookupHit(t) \/ LookupMiss(t) \/ LockResolve(t) \/ GetWarm(t)
    PROVE  Preserves
<1>1. Moves(t) /\ UNCHANGED selection
  BY LookupMoves DEF LookupStep, Solid, Routed, Acked
<1>2. /\ DOMAIN Idle = {"pc", "key", "prior", "as", "set", "snap", "seen", "todo",
                        "alive", "then"}
      /\ DOMAIN go = Threads /\ DOMAIN go[t] = DOMAIN Idle /\ Sound(t) /\ Placed(t)
      /\ sel' = sel /\ chatUp' = chatUp /\ chatUp /\ t # None
      /\ \A u \in Threads \ {t} : Still(u)
  BY <1>1, ThreadFacts
<1>3. UNCHANGED <<obj, subs, file, dropped, nextID, pool>>
  BY DEF LookupNoCwd, LookupHit, LookupMiss, LockResolve, GetWarm, mounted, persisted
<1>4. PoolShrinks
  BY <1>3, SolidFacts
<1>5. sel.cwd # NoCwd => sel \in Keys
  BY DEF Solid, Routed, SelectionsOK, Selections, Keys
<1>6. \A k \in Keys : pool[k] = None \/ pool[k] \in DOMAIN obj
  BY DEF Solid, Routed, MountedOK, Has
<1>7. CASE LookupNoCwd(t)
  <2>1. /\ warm' = warm /\ resolve' = resolve /\ go[t].pc = "lookup" /\ go'[t].pc = "return"
        /\ go'[t].as = go[t].as /\ go'[t].todo = go[t].todo /\ go'[t].alive = go[t].alive
    BY <1>2, <1>7 DEF LookupNoCwd, Goto, At
  <2>2. LockOK'
    BY <1>2, <2>1, LockKept DEF HolderPCs, LockedPCs, LookupPCs
  <2>3. Placed(t)'
    BY <1>2, <1>3, <2>1 DEF Placed, Objects, DropPCs
  <2>4. Serves(t)'
    BY <2>1 DEF Serves, ServePCs, MountedPCs, EvictPCs, DropPCs
  <2> QED
    BY <1>2, <1>3, <1>4, <2>1, <2>2, <2>3, <2>4, QuietPreserves
<1>8. CASE LookupHit(t)
  <2>1. /\ warm' = warm /\ resolve' = resolve /\ go[t].pc = "lookup" /\ go'[t].pc = "attach"
        /\ go'[t].as = pool[sel] /\ go'[t].key = sel
        /\ go'[t].todo = go[t].todo /\ go'[t].alive = go[t].alive
        /\ sel \in Keys /\ pool[sel] # None
    BY <1>2, <1>5, <1>8 DEF LookupHit, At, Live
  <2>2. LockOK'
    BY <1>2, <2>1, LockKept DEF HolderPCs, LockedPCs, LookupPCs
  <2>3. Placed(t)'
    BY <1>2, <1>3, <1>6, <2>1 DEF Placed, Objects, DropPCs
  <2>4. Solo => Serves(t)'
    BY <2>1 DEF Solo, PoolWarm, Serves, ServePCs, MountedPCs, EvictPCs, DropPCs
  <2> QED
    BY <1>2, <1>3, <1>4, <2>1, <2>2, <2>3, <2>4, QuietPreserves
<1>9. CASE LookupMiss(t)
  <2>1. /\ warm' = warm /\ resolve' = resolve /\ go[t].pc = "lookup" /\ go'[t].pc = "lock"
        /\ go'[t].as = go[t].as /\ go'[t].key = sel /\ go'[t].prior = pool[sel]
        /\ go'[t].todo = go[t].todo /\ go'[t].alive = go[t].alive
        /\ sel \in Keys
    BY <1>2, <1>5, <1>9 DEF LookupMiss, At
  <2>2. LockOK'
    BY <1>2, <2>1, LockKept DEF HolderPCs, LockedPCs, LookupPCs
  <2>3. Placed(t)'
    BY <1>2, <1>3, <2>1 DEF Placed, Objects, DropPCs
  <2>4. Solo => Serves(t)'
    BY <2>1 DEF Solo, PoolWarm, Serves, ServePCs, MountedPCs, EvictPCs, DropPCs
  <2> QED
    BY <1>2, <1>3, <1>4, <2>1, <2>2, <2>3, <2>4, QuietPreserves
<1>10. CASE LockResolve(t)
  <2>1. /\ warm' = warm /\ resolve[go[t].key] = None
        /\ resolve' = [resolve EXCEPT ![go[t].key] = t]
        /\ go[t].pc = "lock" /\ go'[t].pc = "get"
        /\ go'[t].as = go[t].as /\ go'[t].key = go[t].key /\ go'[t].prior = go[t].prior
        /\ go'[t].todo = go[t].todo /\ go'[t].alive = go[t].alive
    BY <1>2, <1>10 DEF LockResolve, Goto, At
  <2>2. LockOK'
    <3>1. LockOK /\ go[t].key \in Keys
      BY <1>2, <2>1 DEF Solid, Typed, Sound, LookupPCs
    <3>2. \A k \in Keys : resolve'[k] = IF k = go[t].key THEN t ELSE resolve[k]
      BY <2>1, <3>1 DEF LockOK
    <3>3. \A k \in Keys : resolve'[k] # None =>
             /\ resolve'[k] \in Threads
             /\ go'[resolve'[k]].key = k /\ go'[resolve'[k]].pc \in HolderPCs
      BY <1>2, <2>1, <3>1, <3>2 DEF LockOK, Still, HolderPCs, LookupPCs
    <3>4. \A u \in Threads \ {t} : go[u].pc \in LockedPCs => go[u].key \in Keys /\ u # None
      BY SolidFacts DEF Sound, LockedPCs, HolderPCs
    <3>5. \A u \in Threads : go'[u].pc \in LockedPCs => resolve'[go'[u].key] = u
      BY <1>2, <2>1, <3>1, <3>2, <3>4 DEF LockOK, Still
    <3> QED
      BY <2>1, <3>1, <3>3, <3>5 DEF LockOK
  <2>3. Placed(t)'
    BY <1>2, <1>3, <2>1 DEF Placed, Objects, DropPCs
  <2>4. Solo => Serves(t)'
    BY <2>1 DEF Solo, AllServe, Serves, ServePCs, MountedPCs, EvictPCs, DropPCs
  <2> QED
    BY <1>2, <1>3, <1>4, <2>1, <2>2, <2>3, <2>4, QuietPreserves
<1>11. CASE GetWarm(t)
  <2>1. PICK k, as : k = go[t].key /\ as = IF warm[k] # None THEN warm[k] ELSE go[t].prior
    OBVIOUS
  <2>2. /\ warm' = [warm EXCEPT ![k] = as] /\ resolve' = resolve
        /\ go[t].pc = "get" /\ go'[t].pc = IF as = None THEN "restore" ELSE "mount"
        /\ go'[t].as = as /\ go'[t].key = k /\ go'[t].prior = go[t].prior
        /\ go'[t].todo = go[t].todo /\ go'[t].alive = go[t].alive
    BY <1>2, <1>11, <2>1 DEF GetWarm, At
  <2>3. k \in Keys /\ (as = None \/ Has(as, k)) /\ warm = [x \in Keys |-> warm[x]]
    BY <1>2, <2>1, <2>2 DEF Sound, LookupPCs, Solid, Routed, MountedOK, Typed, FunsOK
  <2>4. LockOK'
    BY <1>2, <2>1, <2>2, LockKept DEF HolderPCs, LockedPCs, LookupPCs
  <2>5. Placed(t)'
    BY <1>2, <1>3, <2>2, <2>3 DEF Placed, Objects, DropPCs, Has
  <2>6. CASE Solo
    <3>1. as = warm[k]
      BY <2>1, <2>2, <2>6 DEF Solo, AllServe, Serves
    <3>2. warm' = warm
      BY <2>2, <2>3, <3>1
    <3>3. Serves(t)'
      BY <2>2, <3>1, <3>2 DEF Serves, ServePCs, MountedPCs, EvictPCs, DropPCs
    <3> QED
      BY <1>2, <1>3, <1>4, <2>2, <2>4, <2>5, <3>2, <3>3, QuietPreserves
  <2>7. CASE ~Solo
    <3>1. FunsOK'
      BY <1>4, <2>2, <2>3 DEF FunsOK, PoolShrinks
    <3> QED
      BY <1>2, <1>3, <2>4, <2>5, <2>7, <3>1, QuietTyped DEF Preserves
  <2> QED
    BY <2>6, <2>7
<1> QED
  BY <1>7, <1>8, <1>9, <1>10, <1>11

\* The directory's session of agent_sessions.json gets its object, or a new session with
\* a fresh ID does.
LEMMA RestorePreserves ==
    ASSUME Solid, NEW t \in Threads, RestoreOrCreate(t)
    PROVE  Preserves
<1>1. Moves(t) /\ UNCHANGED selection
  BY LookupMoves DEF LookupStep, Solid, Routed, Acked
<1>2. /\ DOMAIN Idle = {"pc", "key", "prior", "as", "set", "snap", "seen", "todo",
                        "alive", "then"}
      /\ DOMAIN go = Threads /\ DOMAIN go[t] = DOMAIN Idle /\ Sound(t) /\ Placed(t)
      /\ sel' = sel /\ chatUp' = chatUp /\ chatUp /\ t # None
      /\ \A u \in Threads \ {t} : Still(u)
  BY <1>1, ThreadFacts
<1>3. PICK k, n : k = go[t].key /\ n = Len(obj) + 1
  OBVIOUS
<1>4. PICK id \in IF {e \in file : e.key = k} = {} THEN {nextID}
                                                   ELSE {e.id : e \in {e \in file : e.key = k}} :
         /\ obj' = Append(obj, NewObject(id, k))
         /\ warm' = [warm EXCEPT ![k] = IF @ = None THEN n ELSE @]
         /\ nextID' = IF id = nextID THEN nextID + 1 ELSE nextID
         /\ go' = [go EXCEPT ![t].as = warm'[k],
                    ![t].pc = IF {e \in file : e.key = k} = {} THEN "register" ELSE "mount"]
  BY <1>3, Zenon DEF RestoreOrCreate
<1>5. UNCHANGED <<pool, subs, file, dropped, resolve>> /\ go[t].pc = "restore"
  BY DEF RestoreOrCreate, mounted, At
<1>6. k \in Keys /\ warm = [x \in Keys |-> warm[x]]
  BY <1>2, <1>3, <1>5 DEF Sound, LookupPCs, Solid, Typed, FunsOK
<1>7. ObjectsKept
  BY <1>3, <1>4, AppendKept DEF Solid, Routed
<1>8. /\ DOMAIN obj' = DOMAIN obj \cup {n} /\ n \notin DOMAIN obj /\ n \in Nat
      /\ obj'[n] = NewObject(id, k) /\ \A o \in DOMAIN obj : obj'[o] = obj[o]
  <2> DEFINE new == NewObject(id, k)
  <2>1. obj \in Seq({obj[o] : o \in DOMAIN obj}) /\ obj' = Append(obj, new)
        /\ DOMAIN obj = 1..Len(obj) /\ Len(obj) \in Nat
    BY <1>4 DEF Solid, Routed, ObjectsOK
  <2> HIDE DEF new
  <2>2. /\ Len(obj') = n /\ obj'[n] = new /\ \A o \in 1..Len(obj) : obj'[o] = obj[o]
        /\ DOMAIN obj' = 1..n
    BY <1>3, <2>1
  <2> QED
    BY <1>3, <2>1, <2>2 DEF new
<1>9. /\ DOMAIN obj'[n] = Fields /\ obj'[n].id = id /\ obj'[n].key = k
      /\ obj'[n].handlers = 0 /\ ~Active(n)'
  BY <1>8 DEF NewObject, Fields, Active
<1>10. /\ go'[t].pc \in {"register", "mount"} /\ go'[t].as = warm'[k] /\ go'[t].key = k
       /\ go'[t].todo = go[t].todo /\ go'[t].alive = go[t].alive
       /\ warm'[k] = IF warm[k] = None THEN n ELSE warm[k]
       /\ \A x \in Keys : x # k => warm'[x] = warm[x]
  BY <1>2, <1>3, <1>4, <1>6
<1>11. LockOK'
  BY <1>2, <1>3, <1>5, <1>10, LockKept DEF HolderPCs, LockedPCs, LookupPCs
<1>12. n # None /\ \A x \in Keys : warm[x] # None => warm[x] \in DOMAIN obj /\ obj[warm[x]].key = x
  BY <1>8, RoutingAssumption DEF Solid, Routed, MountedOK, Has
<1>13. Named' /\ (FileLasts => id \notin dropped)
  <2>1. Names' = Names \cup {[id |-> id, key |-> k]}
    <3>1. Names' = file \cup {[id |-> obj'[o].id, key |-> obj'[o].key] : o \in DOMAIN obj'}
      BY <1>5 DEF Names
    <3>2. {[id |-> obj'[o].id, key |-> obj'[o].key] : o \in DOMAIN obj'}
             = {[id |-> obj[o].id, key |-> obj[o].key] : o \in DOMAIN obj}
                  \cup {[id |-> id, key |-> k]}
      BY <1>8, <1>9
    <3> QED
      BY <3>1, <3>2 DEF Names
  <2>2. Named
    BY DEF Solid, Typed
  <2>3. CASE {e \in file : e.key = k} = {}
    <3>1. id = nextID /\ nextID' = nextID + 1
      BY <1>4, <2>3
    <3>2. nextID \notin dropped /\ nextID \in Nat
      BY <2>2 DEF Named
    <3>3. \A x \in Names : x.id # id
      BY <2>2, <3>1 DEF Named
    <3>4. \A x, y \in Names' : x.id = y.id => x.key = y.key
      BY <2>1, <2>2, <3>3 DEF Named
    <3>5. \A i \in 1..nextID : i \in 1..nextID' /\ i # nextID'
      BY <3>1, <3>2
    <3>6. \A x \in Names' : x.id \in 1..nextID' /\ x.id # nextID' /\ x.key \in Keys
      <4>1. id \in 1..nextID
        <5>1. 1 <= nextID
          BY <2>2 DEF Named
        <5> QED
          BY <3>1, <3>2, <5>1
      <4> QED
        BY <1>6, <2>1, <2>2, <3>5, <4>1 DEF Named
    <3> QED
      BY <1>5, <2>2, <3>1, <3>2, <3>4, <3>5, <3>6 DEF Named
  <2>4. CASE {e \in file : e.key = k} # {}
    <3>1. PICK e \in file : e.key = k /\ id = e.id
      BY <1>4, <2>4
    <3>2. e \in Names /\ id # nextID /\ nextID' = nextID
      BY <1>4, <2>2, <3>1 DEF Names, Named
    <3>3. \A x \in Names : x.id = id => x.key = k
      BY <2>2, <3>1, <3>2 DEF Named
    <3>4. \A x, y \in Names' : x.id = y.id => x.key = y.key
      BY <2>1, <2>2, <3>3 DEF Named
    <3>5. \A x \in Names' : x.id \in 1..nextID' /\ x.id # nextID' /\ x.key \in Keys
      BY <1>6, <2>1, <2>2, <3>1, <3>2 DEF Named
    <3> QED
      BY <1>5, <2>2, <3>1, <3>2, <3>4, <3>5 DEF Named, FileLasts
  <2> QED
    BY <2>3, <2>4
<1>14. Typed'
  <2>1. \A u \in Threads \ {t} : Placed(u)'
    BY <1>2, <1>8, StillPlaced DEF Solid, Typed
  <2>2. Placed(t)'
    BY <1>2, <1>8, <1>10, <1>12, <1>6 DEF Placed, Objects, DropPCs
  <2>3. RecordsOK'
    BY <1>8, <1>9 DEF Solid, Typed, RecordsOK
  <2>4. FunsOK'
    BY <1>4, <1>5, <1>6 DEF Solid, Typed, FunsOK
  <2> QED
    BY <1>11, <1>13, <2>1, <2>2, <2>3, <2>4 DEF Typed
<1>15. ASSUME Solo, ~EvictOverlaps' PROVE Solo'
  <2>1. WarmKept
    BY <1>4, <1>6, <1>10 DEF WarmKept
  <2>2. \A u \in Threads \ {t} : Serves(u)'
    BY <1>2, <1>5, <1>7, <1>15, <2>1, Apart, StillServes DEF Solo, AllServe, LookupPCs
  <2>3. Serves(t)'
    BY <1>10 DEF Serves, ServePCs, MountedPCs, EvictPCs, DropPCs
  <2>4. \A o \in DOMAIN obj : (Warmed(o)' <=> Warmed(o)) /\ (Active(o)' <=> Active(o))
    <3>1. \A o \in DOMAIN obj : o # n /\ o # None /\ obj[o].key \in Keys
      BY <1>8, SolidFacts
    <3> QED
      BY <1>8, <1>10, <3>1 DEF Warmed, Active
  <2>5. ActiveWarm'
    BY <1>8, <1>9, <1>15, <2>4 DEF Solo, ActiveWarm
  <2>6. \A o \in DOMAIN obj : Handled(o)'
    <3>1. \A u \in Threads : At(u, "dropWarm") => u # t
      BY <1>5 DEF At
    <3>2. \A u \in Threads, o \in DOMAIN obj :
             At(u, "dropWarm") /\ go[u].as = o => (At(u, "dropWarm") /\ go[u].as = o)'
      BY <1>2, <3>1 DEF At, Still
    <3> SUFFICES ASSUME NEW o \in DOMAIN obj PROVE Handled(o)'
      OBVIOUS
    <3>3. Handled(o) /\ obj'[o] = obj[o] /\ (Warmed(o)' <=> Warmed(o))
      BY <1>8, <1>15, <2>4 DEF Solo, AllHandled
    <3> QED
      BY <1>5, <3>2, <3>3 DEF Handled
  <2>7. AllHandled'
    BY <1>8, <1>9, <2>6 DEF AllHandled, Handled
  <2>8. PoolWarm'
    BY <1>5, <1>10, <1>15 DEF Solo, PoolWarm
  <2>9. WarmLasts'
    BY <1>5, <1>8, <1>9, <1>10, <1>12, <1>13, <1>15 DEF Solo, WarmLasts
  <2> QED
    BY <1>5, <1>15, <2>2, <2>3, <2>5, <2>7, <2>8, <2>9 DEF Solo, AllServe, FileLasts
<1> QED
  BY <1>14, <1>15 DEF Preserves

LEMMA MountPreserves ==
    ASSUME Solid, NEW t \in Threads,
           LookupRegister(t) \/ LookupRetry(t) \/ LookupMount(t) \/ LookupPersist(t)
              \/ LookupUnlock(t)
    PROVE  Preserves
<1>1. Moves(t) /\ UNCHANGED selection
  BY LookupMoves DEF LookupStep, Solid, Routed, Acked
<1>2. /\ DOMAIN Idle = {"pc", "key", "prior", "as", "set", "snap", "seen", "todo",
                        "alive", "then"}
      /\ DOMAIN go = Threads /\ DOMAIN go[t] = DOMAIN Idle /\ Sound(t) /\ Placed(t)
      /\ sel' = sel /\ chatUp' = chatUp /\ chatUp /\ t # None
      /\ \A u \in Threads \ {t} : Still(u)
  BY <1>1, ThreadFacts
<1>3. UNCHANGED <<obj, subs, warm, dropped, nextID>> /\ LockOK
  BY DEF LookupRegister, LookupRetry, LookupMount, LookupPersist, LookupUnlock, mounted,
         persisted, Solid, Typed
<1>4. ObjectsKept /\ IdsKept
  BY <1>3, ObjectsSame DEF Solid, Routed, Typed, RecordsOK, IdsKept
<1>5. CASE LookupRegister(t) \/ LookupPersist(t)
  <2>1. PICK o : o = go[t].as
    OBVIOUS
  <2>2. /\ file' = Upsert(o) /\ pool' = pool /\ resolve' = resolve
        /\ \/ go[t].pc = "register" /\ go'[t].pc = "mount"
           \/ go[t].pc = "persist" /\ go'[t].pc = "unlock"
        /\ go'[t].as = o /\ go'[t].key = go[t].key /\ go'[t].todo = go[t].todo
        /\ go'[t].alive = go[t].alive
    BY <1>2, <1>5, <2>1 DEF LookupRegister, LookupPersist, mounted, Goto, At
  <2>3. Has(o, go[t].key)
    BY <1>2, <2>1, <2>2 DEF Sound, MountedPCs
  <2>4. LockOK'
    BY <1>2, <2>2, LockKept DEF HolderPCs, LockedPCs, LookupPCs
  <2>5. file' \subseteq Names
    BY <2>2, <2>3, UpsertNames DEF Has
  <2>6. Placed(t)'
    BY <1>2, <1>3, <2>1, <2>2 DEF Placed, Objects, DropPCs
  <2>7. PoolShrinks
    BY <2>2, SolidFacts
  <2>8. Harmless
    BY <1>3, <2>7 DEF Harmless, Closed, Active
  <2>9. Solo => Serves(t)' /\ Warmed(o)
    BY <1>3, <2>1, <2>2, <2>3
       DEF Solo, AllServe, Serves, ServePCs, MountedPCs, EvictPCs, DropPCs, Warmed, Has
  <2>10. \A u \in Threads : StepOf(u)
    BY <1>2, <2>2, <2>6, <2>8, <2>9 DEF StepOf
  <2>11. ASSUME Solo PROVE ActiveWarm' /\ AllHandled' /\ PoolWarm' /\ FileLasts'
    <3>1. ActiveWarm'
      BY <1>3, <1>4, <2>11, ActiveKept DEF Solo, Active
    <3>2. \A u \in Threads : go[u].pc = "dropWarm" => Still(u)
      BY <1>2, <2>2
    <3>3. AllHandled'
      BY <1>3, <1>4, <2>11, <3>2, HandledKept DEF Solo
    <3>4. PoolWarm'
      BY <1>3, <2>7, <2>11, PoolWarmKept DEF Solo
    <3>5. FileLasts'
      BY <1>3, <2>2, <2>3, <2>9, <2>11, UpsertLasts DEF Solo, Has
    <3> QED
      BY <3>1, <3>3, <3>4, <3>5
  <2> QED
    BY <1>3, <1>4, <2>4, <2>5, <2>7, <2>10, <2>11, ActPreserves DEF PoolShrinks
<1>6. CASE LookupRetry(t)
  <2>1. /\ UNCHANGED <<file, pool>> /\ resolve' = [resolve EXCEPT ![go[t].key] = None]
        /\ go[t].pc = "mount" /\ go'[t].pc = "lookup"
        /\ go'[t].as = None /\ go'[t].todo = {} /\ go'[t].alive = {}
    BY <1>2, <1>6 DEF LookupRetry, mounted, persisted, At, Idle
  <2>2. go[t].key \in Keys /\ resolve[go[t].key] = t
    BY <1>2, <1>3, <2>1 DEF Sound, LookupPCs, LockOK, LockedPCs, HolderPCs
  <2>3. \A k \in Keys : resolve'[k] = IF k = go[t].key THEN None ELSE resolve[k]
    BY <1>3, <2>1 DEF LockOK
  <2>4. \A k \in Keys : resolve'[k] # None => resolve'[k] # t
    BY <1>3, <2>2, <2>3 DEF LockOK
  <2>5. \A k \in Keys : resolve'[k] # None =>
             /\ resolve'[k] \in Threads
             /\ go'[resolve'[k]].key = k /\ go'[resolve'[k]].pc \in HolderPCs
    BY <1>2, <1>3, <2>3, <2>4 DEF LockOK, Still
  <2>6. \A u \in Threads : go'[u].pc \in LockedPCs => resolve'[go'[u].key] = u
    <3>1. go'[t].pc \notin LockedPCs
      BY <2>1 DEF LockedPCs, HolderPCs
    <3>2. \A u \in Threads \ {t} : go[u].pc \in LockedPCs => go[u].key \in Keys /\ u # None
      BY SolidFacts DEF Sound, LockedPCs, HolderPCs
    <3> QED
      BY <1>2, <1>3, <2>2, <2>3, <3>1, <3>2 DEF LockOK, Still
  <2>7. LockOK'
    BY <1>3, <2>1, <2>5, <2>6 DEF LockOK
  <2>8. Placed(t)'
    BY <2>1 DEF Placed, Objects, DropPCs
  <2>9. Serves(t)'
    BY <2>1 DEF Serves, ServePCs, MountedPCs, EvictPCs, DropPCs
  <2>10. PoolShrinks
    BY <2>1, SolidFacts
  <2> QED
    BY <1>2, <1>3, <2>1, <2>7, <2>8, <2>9, <2>10, QuietPreserves
<1>7. CASE LookupUnlock(t)
  <2>1. /\ UNCHANGED <<file, pool>>
        /\ resolve' = [k \in Keys |-> IF resolve[k] = t THEN None ELSE resolve[k]]
        /\ go[t].pc = "unlock" /\ go'[t].pc = "return"
        /\ go'[t].as = go[t].as /\ go'[t].todo = go[t].todo /\ go'[t].alive = go[t].alive
    BY <1>2, <1>7 DEF LookupUnlock, mounted, persisted, Goto, At
  <2>2. \A k \in Keys : resolve'[k] # None =>
             /\ resolve'[k] \in Threads
             /\ go'[resolve'[k]].key = k /\ go'[resolve'[k]].pc \in HolderPCs
    BY <1>2, <1>3, <2>1 DEF LockOK, Still
  <2>3. \A u \in Threads : go'[u].pc \in LockedPCs => resolve'[go'[u].key] = u
    <3>1. go'[t].pc \notin LockedPCs
      BY <2>1 DEF LockedPCs, HolderPCs, LookupPCs
    <3>2. \A u \in Threads \ {t} : go[u].pc \in LockedPCs => go[u].key \in Keys /\ u # t
      BY SolidFacts DEF Sound, LockedPCs, HolderPCs
    <3> QED
      BY <1>2, <1>3, <2>1, <3>1, <3>2 DEF LockOK, Still
  <2>4. LockOK'
    BY <2>1, <2>2, <2>3 DEF LockOK
  <2>5. Placed(t)'
    BY <1>2, <1>3, <2>1 DEF Placed, Objects, DropPCs
  <2>6. Serves(t)'
    BY <2>1 DEF Serves, ServePCs, MountedPCs, EvictPCs, DropPCs
  <2>7. PoolShrinks
    BY <2>1, SolidFacts
  <2> QED
    BY <1>2, <1>3, <2>1, <2>4, <2>5, <2>6, <2>7, QuietPreserves
<1>8. CASE LookupMount(t)
  <2>1. PICK k, as : k = go[t].key /\ as = IF Live(pool[k]) THEN pool[k] ELSE go[t].as
    OBVIOUS
  <2>2. /\ UNCHANGED <<file, resolve>> /\ go[t].pc = "mount"
        /\ pool' = [pool EXCEPT ![k] = IF @ = None THEN as ELSE @]
        /\ go'[t].pc \in {"attach", "subscribe"} /\ go'[t].as = as /\ go'[t].key = k
        /\ go'[t].todo = go[t].todo /\ go'[t].alive = go[t].alive
    BY <1>2, <1>8, <2>1 DEF LookupMount, persisted, At
  <2>3. k \in Keys /\ Has(go[t].as, k)
    BY <1>2, <2>1, <2>2 DEF Sound, LookupPCs
  <2>4. Has(as, k)
    BY <2>1, <2>3 DEF Solid, Routed, MountedOK, Live
  <2>5. LockOK'
    BY <1>2, <2>1, <2>2, LockKept DEF HolderPCs, LockedPCs, LookupPCs
  <2>6. Placed(t)'
    BY <1>2, <1>3, <2>2, <2>4 DEF Placed, Objects, DropPCs, Has
  <2>7. /\ pool' = [x \in Keys |-> pool'[x]]
        /\ \A x \in Keys : pool'[x] = IF x = k /\ pool[k] = None THEN as ELSE pool[x]
    BY <2>2, <2>3 DEF Solid, Typed, FunsOK
  <2>8. Solo => warm[k] = as
    BY <2>1, <2>2, <2>3 DEF Solo, AllServe, Serves, ServePCs, PoolWarm, Live
  <2>9. Solo => Serves(t)'
    BY <1>3, <2>2, <2>8 DEF Serves, ServePCs, MountedPCs, EvictPCs, DropPCs
  <2>10. Solo => PoolWarm'
    BY <1>3, <2>7, <2>8 DEF Solo, PoolWarm
  <2>11. Solo => \A u \in Threads \ {t} : go[u].pc \notin EvictPCs
    BY <2>2, Apart DEF LookupPCs
  <2>12. \A u \in Threads : StepOf(u)
    BY <1>2, <2>2, <2>6, <2>9, <2>11 DEF StepOf
  <2>13. ASSUME Solo PROVE ActiveWarm' /\ AllHandled' /\ FileLasts'
    <3>1. ActiveWarm'
      BY <1>3, <1>4, <2>13, ActiveKept DEF Solo, Active
    <3>2. \A u \in Threads : go[u].pc = "dropWarm" => Still(u)
      BY <1>2, <2>2
    <3>3. AllHandled'
      BY <1>3, <1>4, <2>13, <3>2, HandledKept DEF Solo
    <3> QED
      BY <1>3, <2>2, <2>13, <3>1, <3>3 DEF Solo, FileLasts
  <2>14. file' \subseteq Names
    BY <2>2 DEF Names
  <2> QED
    BY <1>3, <1>4, <2>5, <2>7, <2>10, <2>12, <2>13, <2>14, ActPreserves
<1> QED
  BY <1>5, <1>6, <1>7, <1>8

\* One object changes, but for its ID and its key.
LEMMA TouchKept ==
    ASSUME Solid, NEW o, obj' = [x \in DOMAIN obj |-> obj'[x]],
           \A x \in DOMAIN obj : x # o => obj'[x] = obj[x],
           o \in DOMAIN obj => /\ obj'[o].id = obj[o].id /\ obj'[o].key = obj[o].key
                               /\ DOMAIN obj'[o] = Fields
    PROVE  IdsKept /\ ObjectsKept
<1>1. \A x \in DOMAIN obj : DOMAIN obj[x] = Fields
  BY SolidFacts
<1>2. IdsKept
  BY <1>1 DEF IdsKept
<1> QED
  BY <1>1, <1>2, UpdateKept DEF IdsKept, Solid, Routed

\* The lookup's last steps, on the object that it has found in the warm pool.
LEMMA SpawnPreserves ==
    ASSUME Solid, NEW t \in Threads,
           LookupSubscribe(t) \/ LookupSpawn(t) \/ LookupSpawned(t)
    PROVE  Preserves
<1>1. Moves(t) /\ UNCHANGED selection
  BY LookupMoves DEF LookupStep, Solid, Routed, Acked
<1>2. /\ DOMAIN Idle = {"pc", "key", "prior", "as", "set", "snap", "seen", "todo",
                        "alive", "then"}
      /\ DOMAIN go = Threads /\ DOMAIN go[t] = DOMAIN Idle /\ Sound(t) /\ Placed(t)
      /\ sel' = sel /\ chatUp' = chatUp /\ chatUp /\ t # None
      /\ \A u \in Threads \ {t} : Still(u)
  BY <1>1, ThreadFacts
<1>3. /\ UNCHANGED <<pool, warm, file, dropped, nextID, resolve>>
      /\ pool' = [x \in Keys |-> pool'[x]]
  BY DEF LookupSubscribe, LookupSpawn, LookupSpawned, mounted, persisted, Subscribe,
         Solid, Typed, FunsOK
<1>4. PICK o : o = go[t].as
  OBVIOUS
<1>5. PICK pc \in {"unlock", "spawn", "spawning", "persist"} :
         /\ go[t].pc \in {"attach", "subscribe", "spawn", "spawning"}
         /\ go[t].pc = "attach" => pc = "unlock"
         /\ go'[t].pc = pc /\ go'[t].as = o /\ go'[t].key = go[t].key
         /\ go'[t].todo = go[t].todo /\ go'[t].alive = go[t].alive
  BY <1>2, <1>4 DEF LookupSubscribe, LookupSpawn, LookupSpawned, Goto, At
<1>6. o \in DOMAIN obj /\ Has(o, go[t].key) /\ DOMAIN obj[o] = Fields
      /\ obj = [x \in DOMAIN obj |-> obj[x]]
  BY <1>2, <1>4, <1>5, SolidFacts DEF Sound, MountedPCs, Has, ObjectsOK
<1>7. LockOK'
  BY <1>2, <1>3, <1>5, LockKept DEF HolderPCs, LockedPCs, LookupPCs
<1>8. Solo => /\ Warmed(o) /\ warm[go[t].key] = o
              /\ \A u \in Threads \ {t} : go[u].pc \notin EvictPCs
  BY <1>4, <1>5, <1>6, Apart
     DEF Solo, AllServe, Serves, ServePCs, MountedPCs, Warmed, Has, LookupPCs
<1>9. /\ subs' = subs \/ subs' = subs \cup {obj[o].id}
      /\ obj' = [x \in DOMAIN obj |-> obj'[x]]
      /\ \A x \in DOMAIN obj : x # o => obj'[x] = obj[x]
      /\ obj'[o].id = obj[o].id /\ obj'[o].key = obj[o].key /\ DOMAIN obj'[o] = Fields
      /\ IF LookupSubscribe(t) /\ obj[o].id \notin subs
         THEN obj'[o].handlers = obj[o].handlers + 1 /\ obj[o].id \in subs'
         ELSE obj'[o].handlers = obj[o].handlers
  <2>1. CASE LookupSubscribe(t)
    <3>1. CASE obj[o].id \in subs
      BY <1>4, <1>6, <2>1, <3>1 DEF LookupSubscribe, Subscribe
    <3>2. CASE obj[o].id \notin subs
      <4>1. obj' = [obj EXCEPT ![o].handlers = @ + 1] /\ subs' = subs \cup {obj[o].id}
        BY <1>4, <2>1, <3>2 DEF LookupSubscribe, Subscribe
      <4> QED
        BY <1>6, <2>1, <3>2, <4>1 DEF Fields
    <3> QED
      BY <3>1, <3>2
  <2>2. CASE LookupSpawn(t)
    <3>1. PICK v : obj' = [obj EXCEPT ![o].closedByUser = v]
      BY <1>4, <2>2 DEF LookupSpawn
    <3>2. subs' = subs /\ ~LookupSubscribe(t)
      BY <2>2 DEF LookupSpawn, LookupSubscribe, mounted, At
    <3> QED
      BY <1>6, <3>1, <3>2 DEF Fields
  <2>3. CASE LookupSpawned(t)
    <3>1. \/ obj' = [obj EXCEPT ![o].stat = "Running", ![o].ready = TRUE]
          \/ obj' = [obj EXCEPT ![o].stat = "Exited"]
      BY <1>4, <2>3 DEF LookupSpawned
    <3>2. subs' = subs /\ ~LookupSubscribe(t)
      BY <2>3 DEF LookupSpawned, LookupSubscribe, mounted, At
    <3> QED
      BY <1>6, <3>1, <3>2 DEF Fields
  <2> QED
    BY <2>1, <2>2, <2>3
<1>10. IdsKept /\ ObjectsKept
  BY <1>9, TouchKept
<1>11. Placed(t)'
  BY <1>2, <1>5, <1>6, <1>10 DEF Placed, Objects, DropPCs, IdsKept
<1>12. Solo => Serves(t)'
  BY <1>3, <1>5, <1>8 DEF Serves, ServePCs, MountedPCs, EvictPCs, DropPCs
<1>13. \A u \in Threads : StepOf(u)
  BY <1>2, <1>5, <1>8, <1>11, <1>12 DEF StepOf
<1>14. ASSUME Solo PROVE ActiveWarm' /\ AllHandled' /\ PoolWarm' /\ FileLasts'
  <2>1. ActiveWarm'
    BY <1>3, <1>8, <1>9, <1>10, <1>14, ActiveKept DEF Solo, Active
  <2>2. \A u \in Threads : ~At(u, "dropWarm")
    BY <1>5, <1>8, <1>14 DEF At, EvictPCs
  <2>3. ASSUME NEW x \in DOMAIN obj PROVE Handled(x)'
    <3>1. /\ obj[x].handlers \in {0, 1}
          /\ obj[x].handlers = 1 /\ Warmed(x) => obj[x].id \in subs
          /\ Warmed(x)' <=> Warmed(x)
      BY <1>3, <1>10, <1>14, <2>2 DEF Solo, AllHandled, Handled, IdsKept, Warmed
    <3>2. obj'[x].handlers \in {0, 1}
          /\ (obj'[x].handlers = 1 /\ Warmed(x) => obj'[x].id \in subs')
      BY <1>8, <1>9, <1>14, <3>1
    <3> QED
      BY <3>1, <3>2 DEF Handled
  <2>4. AllHandled'
    BY <1>10, <2>3 DEF AllHandled, IdsKept
  <2> QED
    BY <1>3, <1>14, <2>1, <2>4 DEF Solo, PoolWarm, FileLasts
<1>15. file' \subseteq Names /\ \A i \in subs' : i \in subs \/ \E x \in Names : x.id = i
  <2>1. [id |-> obj[o].id, key |-> obj[o].key] \in Names
    BY <1>6 DEF Names
  <2> QED
    BY <1>3, <1>9, <2>1 DEF Names
<1> QED
  BY <1>3, <1>7, <1>10, <1>13, <1>14, <1>15, ActPreserves

\* An eviction has the sessions to itself.
LEMMA Alone ==
    ASSUME Solo, NEW t \in Threads, go[t].pc \in EvictPCs
    PROVE  \A u \in Threads \ {t} : go[u].pc \notin EvictPCs \cup LookupPCs \cup {"reset"}
BY DEF Solo, EvictOverlaps

LEMMA StillIdle ==
    ASSUME NEW u, Still(u), go[u].pc \notin EvictPCs \cup LookupPCs \cup {"reset"}
    PROVE  Serves(u)'
BY DEF Still, Serves, EvictPCs, LookupPCs, ServePCs, MountedPCs, DropPCs

LEMMA EvictFacts ==
    ASSUME Solid, NEW t \in Threads, EvictStep(t)
    PROVE  /\ DOMAIN Idle = {"pc", "key", "prior", "as", "set", "snap", "seen", "todo",
                             "alive", "then"}
           /\ DOMAIN go = Threads /\ DOMAIN go[t] = DOMAIN Idle /\ Sound(t) /\ Placed(t)
           /\ \A u \in Threads \ {t} : Still(u)
           /\ LockOK'
<1>1. Moves(t) /\ UNCHANGED selection
  BY OtherMoves DEF Solid, Routed, Acked
<1>2. /\ DOMAIN Idle = {"pc", "key", "prior", "as", "set", "snap", "seen", "todo",
                        "alive", "then"}
      /\ DOMAIN go = Threads /\ DOMAIN go[t] = DOMAIN Idle /\ Sound(t) /\ Placed(t)
      /\ \A u \in Threads \ {t} : Still(u)
  BY <1>1, ThreadFacts
<1>3. resolve' = resolve /\ go[t].pc \notin HolderPCs
  BY DEF EvictStep, EvictScan, EvictWait, EvictDrop, DropFromChat, DropFromWarm,
         DropFromFile, At, HolderPCs, LookupPCs
<1>4. go'[t].pc \notin HolderPCs
  <2>1. go'[t].pc \in {"scan", "drop", "store", "dropChat", "dropWarm", "dropFile"}
    <3>1. CASE EvictScan(t)
      <4>1. PICK o : \/ go' = [go EXCEPT ![t].todo = @ \ {o}, ![t].alive = @ \cup {o}]
                     \/ go' = [go EXCEPT ![t].todo = @ \ {o}, ![t].as = o,
                                         ![t].pc = "dropChat", ![t].then = "scan"]
        BY <3>1 DEF EvictScan
      <4>2. go[t].pc = "scan"
        BY <3>1 DEF EvictScan, At
      <4> QED
        BY <1>2, <4>1, <4>2
    <3>2. CASE EvictWait(t)
      BY <1>2, <3>2 DEF EvictWait
    <3>3. CASE EvictDrop(t)
      <4>1. CASE go[t].todo = {}
        BY <1>2, <3>3, <4>1 DEF EvictDrop, Goto
      <4>2. CASE go[t].todo # {}
        <5>1. PICK o : go' = [go EXCEPT ![t].todo = @ \ {o}, ![t].as = o,
                                        ![t].pc = "dropChat", ![t].then = "drop"]
          BY <3>3, <4>2 DEF EvictDrop
        <5> QED
          BY <1>2, <5>1
      <4> QED
        BY <4>1, <4>2
    <3>4. CASE DropFromChat(t) \/ DropFromWarm(t)
      BY <1>2, <3>4 DEF DropFromChat, DropFromWarm, Goto
    <3>5. CASE DropFromFile(t)
      BY <1>2, <3>5 DEF DropFromFile, Goto, At, Sound
    <3> QED
      BY <3>1, <3>3, <3>4, <3>5, <3>2 DEF EvictStep
  <2> QED
    BY <2>1 DEF HolderPCs, LookupPCs
<1>5. LockOK'
  BY <1>2, <1>3, <1>4, LockKept DEF LockedPCs
<1> QED
  BY <1>2, <1>5

\* The eviction closes what runs and goes on to what it may drop.
LEMMA ScanPreserves ==
    ASSUME Solid, NEW t \in Threads, EvictScan(t) \/ EvictWait(t) \/ EvictDrop(t)
    PROVE  Preserves
<1>1. /\ DOMAIN Idle = {"pc", "key", "prior", "as", "set", "snap", "seen", "todo",
                        "alive", "then"}
      /\ DOMAIN go = Threads /\ DOMAIN go[t] = DOMAIN Idle /\ Sound(t) /\ Placed(t)
      /\ \A u \in Threads \ {t} : Still(u)
      /\ LockOK'
  BY EvictFacts DEF EvictStep
<1>2. UNCHANGED <<warm, subs, file, dropped, nextID>> /\ PoolShrinks
      /\ go[t].pc \in {"scan", "drop"}
  BY SolidFacts DEF EvictScan, EvictWait, EvictDrop, mounted, persisted, At
<1>3. Solo => \A u \in Threads \ {t} : go[u].pc \notin EvictPCs
  BY <1>2, Apart DEF EvictPCs
<1>4. CASE EvictWait(t)
  <2>1. /\ obj' = obj /\ go[t].pc = "scan" /\ go'[t].pc = "drop" /\ go'[t].as = go[t].as
        /\ go'[t].todo = go[t].alive /\ go'[t].alive = {}
    BY <1>1, <1>4 DEF EvictWait, At
  <2>2. Placed(t)'
    BY <1>1, <2>1 DEF Placed, Objects, DropPCs
  <2>3. \A x : Warmed(x)' = Warmed(x) /\ Closed(x)' = Closed(x)
    BY <1>2, <2>1 DEF Warmed, Closed
  <2>4. Solo => Serves(t)'
    BY <2>1, <2>3 DEF Solo, AllServe, Serves, ServePCs, MountedPCs, EvictPCs, DropPCs
  <2> QED
    BY <1>1, <1>2, <2>1, <2>2, <2>4, QuietPreserves
<1>5. CASE EvictDrop(t) /\ go[t].todo = {}
  <2>1. /\ obj' = obj /\ go[t].pc = "drop" /\ go'[t].pc = "store" /\ go'[t].as = go[t].as
        /\ go'[t].todo = go[t].todo /\ go'[t].alive = go[t].alive
    BY <1>1, <1>5 DEF EvictDrop, Goto, At
  <2>2. Placed(t)'
    BY <1>1, <2>1 DEF Placed, Objects, DropPCs
  <2>3. Serves(t)'
    BY <2>1 DEF Serves, ServePCs, MountedPCs, EvictPCs, DropPCs
  <2> QED
    BY <1>1, <1>2, <2>1, <2>2, <2>3, QuietPreserves
<1>6. ASSUME NEW o \in go[t].todo, NEW then \in {"scan", "drop"}, obj' = obj,
             then = go[t].pc, then = "scan" => ~Live(o),
             go' = [go EXCEPT ![t].todo = @ \ {o}, ![t].as = o,
                              ![t].pc = "dropChat", ![t].then = then]
      PROVE  Preserves
  <2>1. /\ go'[t].pc = "dropChat" /\ go'[t].as = o /\ go'[t].then = then
        /\ go'[t].todo = go[t].todo \ {o} /\ go'[t].alive = go[t].alive
    BY <1>1, <1>6
  <2>2. o \in DOMAIN obj /\ o # None
    BY <1>1, <1>6, SolidFacts DEF Placed
  <2>3. Placed(t)'
    BY <1>1, <1>6, <2>1, <2>2 DEF Placed, Objects, DropPCs
  <2>4. ASSUME Solo, ~EvictOverlaps' PROVE Serves(t)'
    <3>1. \A x : Warmed(x)' = Warmed(x) /\ Closed(x)' = Closed(x) /\ Active(x)' = Active(x)
      BY <1>2, <1>6 DEF Warmed, Closed, Active
    <3>2. Serves(t)
      BY <2>4 DEF Solo, AllServe
    <3>3. ~obj[o].ready /\ ~obj[o].closing /\ ~obj[o].respawning
      BY <1>6, <2>1, <2>4 DEF EvictOverlaps, EvictPCs
    <3>4. obj[o].stat # "Running"
      <4>1. CASE then = "scan"
        BY <1>6, <2>2, <4>1 DEF Live
      <4>2. CASE then = "drop"
        BY <1>6, <3>2, <3>3, <4>2 DEF Serves, Closed
      <4> QED
        BY <4>1, <4>2
    <3>5. ~Active(o) /\ Warmed(o) /\ o \notin go[t].alive
      BY <1>2, <1>6, <3>2, <3>3, <3>4 DEF Active, Serves, EvictPCs
    <3>6. /\ \A x \in go[t].todo \cup go[t].alive : Warmed(x)
          /\ go[t].todo \cap go[t].alive = {} /\ \A x \in go[t].alive : Closed(x)
          /\ then = "drop" => \A x \in go[t].todo : Closed(x)
      BY <1>2, <1>6, <3>2 DEF Serves, EvictPCs
    <3>7. ~Active(o)' /\ Warmed(o)'
      BY <3>1, <3>5
    <3> QED
      BY <2>1, <3>1, <3>5, <3>6, <3>7 DEF Serves, ServePCs, MountedPCs, EvictPCs, DropPCs
  <2> QED
    BY <1>1, <1>2, <1>6, <2>3, <2>4, QuietPreserves
<1>7. ASSUME NEW o \in go[t].todo, Live(o), go[t].pc = "scan",
             obj' = [obj EXCEPT ![o].closing = TRUE, ![o].closedByUser = TRUE],
             go' = [go EXCEPT ![t].todo = @ \ {o}, ![t].alive = @ \cup {o}],
             pool' = pool
      PROVE  Preserves
  <2>1. /\ go'[t].pc = "scan" /\ go'[t].as = go[t].as
        /\ go'[t].todo = go[t].todo \ {o} /\ go'[t].alive = go[t].alive \cup {o}
    BY <1>1, <1>7
  <2>2. /\ o \in DOMAIN obj /\ DOMAIN obj[o] = Fields /\ obj[o].stat = "Running"
        /\ obj = [x \in DOMAIN obj |-> obj[x]]
    BY <1>1, <1>7, SolidFacts DEF Placed, Live, ObjectsOK
  <2>3. /\ obj' = [x \in DOMAIN obj |-> obj'[x]]
        /\ \A x \in DOMAIN obj : x # o => obj'[x] = obj[x]
        /\ obj'[o].id = obj[o].id /\ obj'[o].key = obj[o].key /\ DOMAIN obj'[o] = Fields
        /\ obj'[o].closing /\ obj'[o].closedByUser /\ obj'[o].handlers = obj[o].handlers
    BY <1>7, <2>2 DEF Fields
  <2>4. IdsKept /\ ObjectsKept
    BY <2>3, TouchKept
  <2>5. Placed(t)'
    BY <1>1, <2>1, <2>2, <2>4 DEF Placed, Objects, DropPCs, IdsKept
  <2>6. ASSUME Solo PROVE Serves(t)'
    <3>1. /\ Serves(t) /\ \A x \in go[t].todo \cup go[t].alive : x \in DOMAIN obj
      BY <1>1, <2>6 DEF Solo, AllServe, Placed
    <3>2. /\ \A x \in go[t].todo \cup go[t].alive : Warmed(x)
          /\ go[t].todo \cap go[t].alive = {} /\ \A x \in go[t].alive : Closed(x)
      BY <1>7, <3>1 DEF Serves, EvictPCs
    <3>3. \A x \in go[t].todo \cup go[t].alive : Warmed(x)'
      BY <1>2, <2>4, <3>1, <3>2 DEF Warmed, IdsKept
    <3>4. \A x \in go[t].alive \cup {o} : Closed(x)'
      BY <2>3, <3>1, <3>2 DEF Closed
    <3> QED
      BY <2>1, <3>2, <3>3, <3>4 DEF Serves, ServePCs, MountedPCs, EvictPCs, DropPCs
  <2>7. \A u \in Threads : StepOf(u)
    BY <1>1, <1>3, <1>7, <2>5, <2>6 DEF StepOf
  <2>8. ASSUME Solo PROVE ActiveWarm' /\ AllHandled' /\ PoolWarm' /\ FileLasts'
    <3>1. \A x \in DOMAIN obj : Active(x)' => Active(x)
      BY <2>2, <2>3 DEF Active
    <3>2. ActiveWarm'
      BY <1>2, <2>4, <2>8, <3>1, ActiveKept DEF Solo
    <3>3. \A u \in Threads : go[u].pc = "dropWarm" => Still(u)
      BY <1>1, <1>7
    <3>4. AllHandled'
      BY <1>2, <2>3, <2>4, <2>8, <3>3, HandledKept DEF Solo
    <3>5. PoolWarm'
      BY <1>2, <2>8, PoolWarmKept DEF Solo
    <3> QED
      BY <1>2, <2>8, <3>2, <3>4, <3>5 DEF Solo, FileLasts
  <2>9. file' \subseteq Names
    BY <1>2 DEF Names
  <2> QED
    BY <1>1, <1>2, <2>4, <2>7, <2>8, <2>9, ActPreserves DEF PoolShrinks
<1>8. CASE EvictDrop(t) /\ go[t].todo # {}
  <2>1. PICK o \in go[t].todo : go' = [go EXCEPT ![t].todo = @ \ {o}, ![t].as = o,
                                               ![t].pc = "dropChat", ![t].then = "drop"]
    BY <1>8 DEF EvictDrop
  <2>2. obj' = obj /\ go[t].pc = "drop"
    BY <1>8 DEF EvictDrop, At
  <2> QED
    BY <1>6, <2>1, <2>2
<1>9. CASE EvictScan(t)
  <2>1. pool' = pool /\ go[t].pc = "scan"
    BY <1>9 DEF EvictScan, mounted, At
  <2>2. PICK o \in go[t].todo :
           IF Live(o)
           THEN /\ obj' = [obj EXCEPT ![o].closing = TRUE, ![o].closedByUser = TRUE]
                /\ go' = [go EXCEPT ![t].todo = @ \ {o}, ![t].alive = @ \cup {o}]
           ELSE /\ go' = [go EXCEPT ![t].todo = @ \ {o}, ![t].as = o,
                                    ![t].pc = "dropChat", ![t].then = "scan"]
                /\ UNCHANGED obj
    BY <1>9 DEF EvictScan
  <2> QED
    BY <1>6, <1>7, <2>1, <2>2
<1> QED
  BY <1>4, <1>5, <1>8, <1>9

\* DropAgentSession takes a session out of the chat, the warm pool and the file.
LEMMA DropPreserves ==
    ASSUME Solid, NEW t \in Threads, DropFromChat(t) \/ DropFromWarm(t) \/ DropFromFile(t)
    PROVE  Preserves
<1>1. /\ DOMAIN Idle = {"pc", "key", "prior", "as", "set", "snap", "seen", "todo",
                        "alive", "then"}
      /\ DOMAIN go = Threads /\ DOMAIN go[t] = DOMAIN Idle /\ Sound(t) /\ Placed(t)
      /\ \A u \in Threads \ {t} : Still(u)
      /\ LockOK'
  BY EvictFacts DEF EvictStep
<1>2. PICK o : o = go[t].as
  OBVIOUS
<1>3. UNCHANGED <<obj, nextID>> /\ go[t].pc \in DropPCs
  BY DEF DropFromChat, DropFromWarm, DropFromFile, persisted, At, DropPCs
<1>4. /\ o \in DOMAIN obj /\ o # None /\ obj[o].key \in Keys
      /\ ObjectsKept /\ IdsKept /\ DOMAIN warm = Keys
  BY <1>1, <1>2, <1>3, SolidFacts, ObjectsSame
     DEF Placed, Solid, Routed, Typed, RecordsOK, IdsKept
<1>5. Solo => \A u \in Threads \ {t} : go[u].pc \notin EvictPCs \cup LookupPCs \cup {"reset"}
  BY <1>3, Alone DEF EvictPCs, DropPCs
<1>6. go'[t].as = o /\ go'[t].todo = go[t].todo /\ go'[t].alive = go[t].alive
      /\ go'[t].then = go[t].then
  BY <1>1, <1>2 DEF DropFromChat, DropFromWarm, DropFromFile, Goto
<1>7. Placed(t)'
  BY <1>1, <1>3, <1>4, <1>6 DEF Placed, Objects
<1>8. Solo => /\ \A x \in go[t].todo \cup go[t].alive : Warmed(x) /\ x # o /\ x \in DOMAIN obj
              /\ go[t].todo \cap go[t].alive = {} /\ \A x \in go[t].alive : Closed(x)
              /\ go[t].then = "drop" => \A x \in go[t].todo : Closed(x)
              /\ ~Active(o)
  BY <1>1, <1>2, <1>3 DEF Solo, AllServe, Serves, EvictPCs, DropPCs, Placed
<1>9. /\ warm = [k \in Keys |-> warm[k]] /\ pool = [k \in Keys |-> pool[k]]
      /\ \A x \in DOMAIN obj : x # None /\ obj[x].key \in Keys
  BY SolidFacts DEF Solid, Typed, FunsOK
<1>10. \A x : (Active(x)' <=> Active(x)) /\ (Closed(x)' <=> Closed(x))
  BY <1>3 DEF Active, Closed
<1>11. CASE DropFromChat(t)
  <2>1. /\ UNCHANGED <<warm, file, dropped>> /\ subs' = subs \ {obj[o].id}
        /\ pool' = [pool EXCEPT ![obj[o].key] = None]
        /\ go[t].pc = "dropChat" /\ go'[t].pc = "dropWarm"
    BY <1>1, <1>2, <1>11 DEF DropFromChat, persisted, At, Goto, KeyOf
  <2>2. PoolShrinks /\ pool'[obj[o].key] = None
    BY <1>4, <1>9, <2>1 DEF PoolShrinks
  <2>3. \A x : Warmed(x)' <=> Warmed(x)
    BY <1>3, <2>1 DEF Warmed
  <2>4. ASSUME Solo PROVE Serves(t)'
    <3>1. Warmed(o)
      BY <1>2, <2>1, <2>4 DEF Solo, AllServe, Serves
    <3> QED
      BY <1>3, <1>6, <1>8, <1>10, <2>1, <2>2, <2>3, <2>4, <3>1
         DEF Serves, ServePCs, MountedPCs, EvictPCs, DropPCs
  <2>5. \A u \in Threads : StepOf(u)
    <3>1. Harmless
      BY <1>10, <2>1, <2>2 DEF Harmless
    <3> QED
      BY <1>1, <1>7, <2>1, <2>4, <3>1 DEF StepOf
  <2>6. ASSUME Solo, NEW x \in DOMAIN obj PROVE Handled(x)'
    <3>1. Handled(x) /\ Warmed(o)
      BY <1>2, <2>1, <2>6 DEF Solo, AllHandled, AllServe, Serves
    <3>2. \A u \in Threads : ~At(u, "dropWarm")
      BY <1>5, <2>1, <2>6 DEF At, EvictPCs
    <3>3. CASE obj[x].id = obj[o].id
      <4>1. [id |-> obj[x].id, key |-> obj[x].key] \in Names
            /\ [id |-> obj[o].id, key |-> obj[o].key] \in Names
        BY <1>4 DEF Names
      <4>2. obj[x].key = obj[o].key
        BY <3>3, <4>1 DEF Solid, Typed, Named
      <4>3. Warmed(x) => x = o
        BY <3>1, <4>2 DEF Warmed
      <4>4. At(t, "dropWarm")' /\ go'[t].as = o
        BY <1>6, <2>1 DEF At
      <4> QED
        BY <1>3, <2>3, <3>1, <4>3, <4>4 DEF Handled
    <3>4. CASE obj[x].id # obj[o].id
      BY <1>3, <2>1, <2>3, <3>1, <3>2, <3>4 DEF Handled
    <3> QED
      BY <3>3, <3>4
  <2>7. ASSUME Solo PROVE ActiveWarm' /\ AllHandled' /\ PoolWarm' /\ FileLasts'
    <3>1. ActiveWarm'
      BY <1>4, <1>10, <2>1, <2>7, ActiveKept DEF Solo
    <3>2. PoolWarm'
      BY <2>1, <2>2, <2>7, PoolWarmKept DEF Solo
    <3> QED
      BY <1>3, <2>1, <2>6, <2>7, <3>1, <3>2 DEF Solo, AllHandled, FileLasts
  <2>8. file' \subseteq Names
    BY <2>1 DEF Names
  <2> QED
    BY <1>1, <1>3, <1>4, <2>1, <2>2, <2>5, <2>7, <2>8, ActPreserves DEF PoolShrinks
<1>12. CASE DropFromWarm(t)
  <2>1. /\ UNCHANGED <<pool, subs, file, dropped>>
        /\ warm' = [warm EXCEPT ![obj[o].key] = None]
        /\ go[t].pc = "dropWarm" /\ go'[t].pc = "dropFile"
    BY <1>1, <1>2, <1>12 DEF DropFromWarm, mounted, persisted, At, Goto, KeyOf
  <2>2. FunsOK'
    BY <1>9, <2>1 DEF FunsOK
  <2>3. Typed'
    BY <1>1, <1>3, <1>7, <2>1, <2>2, QuietTyped
  <2>4. ASSUME Solo, ~EvictOverlaps' PROVE Solo'
    <3>1. Warmed(o) /\ pool[obj[o].key] = None
      BY <1>2, <2>1, <2>4 DEF Solo, AllServe, Serves
    <3>2. \A x \in DOMAIN obj : /\ Warmed(x) /\ x # o => Warmed(x)'
                                /\ Warmed(x)' => Warmed(x) /\ x # o
      BY <1>3, <1>4, <1>9, <2>1, <3>1 DEF Warmed
    <3>3. Serves(t)'
      <4>1. warm'[obj'[o].key] = None /\ pool'[obj'[o].key] = None
        BY <1>3, <1>4, <1>9, <2>1, <3>1
      <4>2. \A x \in go[t].todo \cup go[t].alive : Warmed(x)'
        BY <1>8, <2>4, <3>2
      <4> QED
        BY <1>6, <1>8, <1>10, <2>1, <2>4, <4>1, <4>2
           DEF Serves, ServePCs, MountedPCs, EvictPCs, DropPCs
    <3>4. \A u \in Threads \ {t} : Serves(u)'
      BY <1>1, <1>5, <2>4, StillIdle
    <3>5. ActiveWarm'
      BY <1>3, <1>8, <1>10, <2>4, <3>2 DEF Solo, ActiveWarm
    <3>6. ASSUME NEW x \in DOMAIN obj PROVE Handled(x)'
      <4>1. Handled(x) /\ (Warmed(x)' => Warmed(x) /\ x # o)
        BY <2>4, <3>2, <3>6 DEF Solo, AllHandled
      <4>2. \A u \in Threads : At(u, "dropWarm") => u = t
        BY <1>5, <2>4 DEF At, EvictPCs
      <4> QED
        BY <1>2, <1>3, <2>1, <4>1, <4>2 DEF Handled
    <3>7. PoolWarm'
      BY <1>4, <1>9, <2>1, <2>4, <3>1 DEF Solo, PoolWarm
    <3>8. WarmLasts'
      BY <1>3, <1>4, <1>9, <2>1, <2>4 DEF Solo, WarmLasts
    <3> QED
      BY <1>3, <2>1, <2>4, <3>3, <3>4, <3>5, <3>6, <3>7, <3>8
         DEF Solo, AllServe, AllHandled, FileLasts
  <2> QED
    BY <2>3, <2>4 DEF Preserves
<1>13. CASE DropFromFile(t)
  <2>1. /\ UNCHANGED <<pool, warm, subs>>
        /\ file' = {e \in file : e.id # obj[o].id} /\ dropped' = dropped \cup {obj[o].id}
        /\ go[t].pc = "dropFile" /\ go'[t].pc = go[t].then /\ go[t].then \in {"scan", "drop"}
    BY <1>1, <1>2, <1>13 DEF DropFromFile, mounted, persisted, At, Goto, Sound
  <2>2. [id |-> obj[o].id, key |-> obj[o].key] \in Names
    BY <1>4 DEF Names
  <2>3. Named'
    <3>1. file' \subseteq Names
      BY <2>1 DEF Names
    <3>2. \A i \in subs' \cup dropped' : i \in subs \cup dropped \/ \E x \in Names : x.id = i
      BY <2>1, <2>2
    <3> QED
      BY <1>3, <1>4, <3>1, <3>2, NamedKept DEF Solid, Typed
  <2>4. Typed'
    <3>1. \A u \in Threads \ {t} : Placed(u)'
      BY <1>1, <1>3, StillPlaced DEF Solid, Typed
    <3> QED
      BY <1>1, <1>3, <1>7, <2>1, <2>3, <3>1 DEF Solid, Typed, RecordsOK, FunsOK
  <2>5. ASSUME Solo, ~EvictOverlaps' PROVE Solo'
    <3>1. \A x : Warmed(x)' <=> Warmed(x)
      BY <1>3, <2>1 DEF Warmed
    <3>2. Serves(t)'
      BY <1>6, <1>8, <1>10, <2>1, <2>5, <3>1
         DEF Serves, ServePCs, MountedPCs, EvictPCs, DropPCs
    <3>3. \A u \in Threads \ {t} : Serves(u)'
      BY <1>1, <1>5, <2>5, StillIdle
    <3>4. \A x \in DOMAIN obj : Handled(x)'
      <4>1. \A u \in Threads : ~At(u, "dropWarm")
        BY <1>5, <2>1, <2>5 DEF At, EvictPCs
      <4> QED
        BY <1>3, <2>1, <2>5, <3>1, <4>1 DEF Solo, AllHandled, Handled
    <3>5. FileLasts'
      BY <2>1, <2>5 DEF Solo, FileLasts
    <3>6. WarmLasts'
      <4> SUFFICES ASSUME NEW k \in Keys, warm[k] # None
                   PROVE  obj[warm[k]].id \notin dropped'
        BY <1>3, <2>1 DEF WarmLasts
      <4>1. warm[k] \in DOMAIN obj /\ obj[warm[k]].key = k /\ obj[warm[k]].id \notin dropped
        BY <2>5 DEF Solo, WarmLasts, Solid, Routed, MountedOK, Has
      <4>2. warm[obj[o].key] = None
        BY <1>2, <2>1, <2>5 DEF Solo, AllServe, Serves
      <4>3. [id |-> obj[warm[k]].id, key |-> k] \in Names
        BY <4>1 DEF Names
      <4>4. obj[warm[k]].id # obj[o].id
        BY <2>2, <4>2, <4>3 DEF Solid, Typed, Named
      <4> QED
        BY <2>1, <4>1, <4>4
    <3> QED
      BY <1>3, <1>10, <2>1, <2>5, <3>1, <3>2, <3>3, <3>4, <3>5, <3>6
         DEF Solo, ActiveWarm, AllServe, AllHandled, PoolWarm
  <2> QED
    BY <2>4, <2>5 DEF Preserves
<1> QED
  BY <1>11, <1>12, <1>13

\* Steps of a command, a return, and the chat's construction.
LEMMA CommandPreserves ==
    ASSUME Solid, NEW t \in Threads,
           CommandStep(t) \/ Return(t) \/ Insert(t)
    PROVE  Preserves
<1>1. /\ DOMAIN Idle = {"pc", "key", "prior", "as", "set", "snap", "seen", "todo",
                        "alive", "then"}
      /\ DOMAIN go = Threads /\ \A u \in Threads : DOMAIN go[u] = DOMAIN Idle
      /\ Sound(t) /\ Placed(t)
  BY SolidFacts DEF Idle
<1>2. /\ UNCHANGED <<obj, warm, subs, file, dropped, nextID, resolve>>
      /\ go[t].pc \in {"store", "install", "return", "construct"}
  BY DEF CommandStep, CommandUnchanged, StoreSelection, StoreFails, InstallSelection, Return,
         Insert, mounted, persisted, At
<1>3. PoolShrinks
  <2>1. CASE InstallSelection(t)
    BY <2>1 DEF InstallSelection, PoolShrinks, Solid, Typed, FunsOK
  <2>2. CASE ~InstallSelection(t)
    <3>1. pool' = pool
      BY <2>2 DEF CommandStep, CommandUnchanged, StoreSelection, StoreFails, Return, Insert,
                  mounted
    <3> QED
      BY <3>1, SolidFacts
  <2> QED
    BY <2>1, <2>2
<1>4. /\ go'[t].pc \in {"install", "return", "idle", "lookup", "store"}
      /\ \/ go'[t].as = None /\ go'[t].todo = {} /\ go'[t].alive = {}
         \/ go'[t].as = go[t].as /\ go'[t].todo = go[t].todo /\ go'[t].alive = go[t].alive
  <2>1. CASE CommandUnchanged(t) \/ StoreSelection(t) \/ StoreFails(t)
    BY <1>1, <2>1 DEF CommandUnchanged, StoreSelection, StoreFails, Goto
  <2>2. CASE InstallSelection(t)
    <3>1. go'[t] = [go[t] EXCEPT !.pc = "return"]
      BY <2>2 DEF InstallSelection
    <3> QED
      BY <1>1, <3>1
  <2>3. CASE Return(t)
    BY <1>1, <2>3 DEF Return, Idle
  <2>4. CASE Insert(t)
    BY <1>1, <2>4 DEF Insert, At, Sound
  <2> QED
    BY <2>1, <2>2, <2>3, <2>4 DEF CommandStep
<1>5. \A u \in Threads \ {t} : Still(u)
  <2>1. CASE InstallSelection(t)
    <3>1. \A u \in Threads \ {t} : \/ go'[u] = go[u]
                                   \/ go'[u] = [go[u] EXCEPT !.seen = @ \cup {sel'}]
      BY <2>1 DEF InstallSelection
    <3> SUFFICES ASSUME NEW u \in Threads \ {t} PROVE Still(u)
      OBVIOUS
    <3>2. CASE go'[u] = go[u]
      BY <3>2 DEF Still
    <3>3. CASE go'[u] = [go[u] EXCEPT !.seen = @ \cup {sel'}]
      BY <1>1, <3>3 DEF Still
    <3> QED
      BY <3>1, <3>2, <3>3
  <2>2. CASE ~InstallSelection(t)
    <3>1. \A u \in Threads \ {t} : go'[u] = go[u]
      <4>1. CASE CommandUnchanged(t) \/ StoreSelection(t) \/ StoreFails(t)
        BY <1>1, <4>1 DEF CommandUnchanged, StoreSelection, StoreFails, Goto
      <4>2. CASE Return(t)
        BY <1>1, <4>2 DEF Return
      <4>3. CASE Insert(t)
        BY <1>1, <4>3 DEF Insert
      <4> QED
        BY <2>2, <4>1, <4>2, <4>3 DEF CommandStep
    <3> QED
      BY <3>1 DEF Still
  <2> QED
    BY <2>1, <2>2
<1>6. LockOK'
  BY <1>2, <1>4, <1>5, LockKept DEF HolderPCs, LockedPCs, LookupPCs
<1>7. Placed(t)'
  BY <1>1, <1>2, <1>4 DEF Placed, Objects, DropPCs
<1>8. Serves(t)'
  BY <1>4 DEF Serves, ServePCs, MountedPCs, EvictPCs, DropPCs
<1> QED
  BY <1>2, <1>3, <1>5, <1>6, <1>7, <1>8, QuietPreserves

\* A call begins; an eviction and a reset work on what the warm pool holds.
LEMMA BeginPreserves ==
    ASSUME Solid, NEW t \in Threads, NEW pc \in {"lookup", "store", "scan", "reset"},
           NEW local, DOMAIN local = DOMAIN Idle, local.as = None, local.alive = {},
           local.todo = IF pc \in {"scan", "reset"} THEN InCwd(sel.cwd) ELSE {},
           Begin(t, pc, local), UNCHANGED <<obj, warm, pool, subs, persisted, resolve>>
    PROVE  Preserves
<1>1. /\ DOMAIN Idle = {"pc", "key", "prior", "as", "set", "snap", "seen", "todo", "alive",
                        "then"}
      /\ DOMAIN go = Threads /\ MountedOK
      /\ \A o \in DOMAIN obj : o # None
  BY SolidFacts DEF Idle, Solid, Routed
<1>2. /\ go'[t].pc \in {pc, "construct"} /\ go'[t].as = None /\ go'[t].alive = {}
      /\ go'[t].todo = local.todo /\ go[t].pc = "idle"
      /\ \A u \in Threads \ {t} : Still(u)
  BY <1>1 DEF Begin, At, Still
<1>3. \A o \in local.todo : o \in DOMAIN obj /\ Warmed(o)
  BY <1>1 DEF InCwd, MountedOK, Has, Warmed
<1>4. UNCHANGED <<file, dropped, nextID>> /\ PoolShrinks
  BY SolidFacts DEF persisted
<1>5. LockOK'
  BY <1>2, LockKept DEF HolderPCs, LockedPCs, LookupPCs
<1>6. Placed(t)'
  BY <1>2, <1>3 DEF Placed, Objects, DropPCs
<1>7. Serves(t)'
  <2>1. \A o \in go'[t].todo \cup go'[t].alive : Warmed(o)'
    BY <1>2, <1>3 DEF Warmed
  <2>2. go'[t].pc \notin {"lock", "get", "drop", "dropChat", "dropWarm", "dropFile"}
        /\ go'[t].pc \notin ServePCs
    BY <1>2 DEF ServePCs, MountedPCs
  <2> QED
    BY <1>2, <2>1, <2>2 DEF Serves, DropPCs
<1> QED
  BY <1>2, <1>4, <1>5, <1>6, <1>7, QuietPreserves

LEMMA CallPreserves ==
    ASSUME Solid, NEW t \in Threads, Lookup(t) \/ Command(t) \/ Evict(t) \/ Reset(t)
    PROVE  Preserves
<1>1. UNCHANGED <<obj, warm, pool, subs, persisted, resolve>>
  BY DEF Lookup, Command, Evict, Reset, mounted
<1>2. CASE Lookup(t)
  <2>1. PICK local : local = [Idle EXCEPT !.seen = {sel}] /\ Begin(t, "lookup", local)
    BY <1>2 DEF Lookup
  <2>2. DOMAIN local = DOMAIN Idle /\ local.as = None /\ local.alive = {} /\ local.todo = {}
    BY <2>1 DEF Idle
  <2> QED
    BY <1>1, <2>1, <2>2, BeginPreserves
<1>3. CASE Command(t)
  <2>1. PICK s \in Settings : Begin(t, "store", [Idle EXCEPT !.set = s])
    BY <1>3 DEF Command
  <2>2. PICK local : local = [Idle EXCEPT !.set = s] /\ Begin(t, "store", local)
    BY <2>1
  <2>3. DOMAIN local = DOMAIN Idle /\ local.as = None /\ local.alive = {} /\ local.todo = {}
    BY <2>2 DEF Idle
  <2> QED
    BY <1>1, <2>2, <2>3, BeginPreserves
<1>4. CASE Evict(t)
  <2>1. PICK local : /\ local = [Idle EXCEPT !.todo = InCwd(sel.cwd), !.set = ClearCwd]
                     /\ Begin(t, "scan", local)
    BY <1>4 DEF Evict
  <2>2. DOMAIN local = DOMAIN Idle /\ local.as = None /\ local.alive = {}
        /\ local.todo = InCwd(sel.cwd)
    BY <2>1 DEF Idle
  <2> QED
    BY <1>1, <2>1, <2>2, BeginPreserves
<1>5. CASE Reset(t)
  <2>1. PICK local : /\ local = [Idle EXCEPT !.todo = InCwd(sel.cwd)]
                     /\ Begin(t, "reset", local)
    BY <1>5 DEF Reset
  <2>2. DOMAIN local = DOMAIN Idle /\ local.as = None /\ local.alive = {}
        /\ local.todo = InCwd(sel.cwd)
    BY <2>1 DEF Idle
  <2> QED
    BY <1>1, <2>1, <2>2, BeginPreserves
<1> QED
  BY <1>2, <1>3, <1>4, <1>5

\* An object changes that was active or is in the warm pool, and perhaps its entry.
LEMMA TouchPreserves ==
    ASSUME Solid, NEW o \in DOMAIN obj,
           UNCHANGED <<warm, pool, subs, dropped, nextID>>, LockOK',
           file' = file \/ file' = Upsert(o),
           obj' = [x \in DOMAIN obj |-> obj'[x]],
           \A x \in DOMAIN obj : x # o => obj'[x] = obj[x],
           obj'[o].id = obj[o].id, obj'[o].key = obj[o].key, DOMAIN obj'[o] = Fields,
           obj'[o].handlers = obj[o].handlers,
           Solo => Warmed(o),
           \A u \in Threads : StepOf(u) /\ (go[u].pc = "dropWarm" => Still(u))
    PROVE  Preserves
<1>1. IdsKept /\ ObjectsKept
  BY TouchKept
<1>2. PoolShrinks
  BY SolidFacts
<1>3. file' \subseteq Names
  BY UpsertNames DEF Names
<1>4. ASSUME Solo PROVE ActiveWarm' /\ AllHandled' /\ PoolWarm' /\ FileLasts'
  <2>1. \A x \in DOMAIN obj : Active(x)' => Active(x) \/ Warmed(x)
    BY <1>4 DEF Active
  <2>2. ActiveWarm'
    BY <1>1, <1>4, <2>1, ActiveKept DEF Solo
  <2>3. \A x \in DOMAIN obj : obj'[x].handlers = obj[x].handlers
    OBVIOUS
  <2>4. AllHandled'
    BY <1>1, <1>4, <2>3, HandledKept DEF Solo
  <2>5. PoolWarm'
    BY <1>2, <1>4, PoolWarmKept DEF Solo
  <2>6. FileLasts'
    BY <1>4, UpsertLasts DEF Solo, FileLasts
  <2> QED
    BY <2>2, <2>4, <2>5, <2>6
<1> QED
  BY <1>1, <1>2, <1>3, <1>4, ActPreserves DEF PoolShrinks

LEMMA ResetPreserves ==
    ASSUME Solid, NEW t \in Threads, ResetOne(t)
    PROVE  Preserves
<1>1. Moves(t) /\ UNCHANGED selection
  BY OtherMoves DEF Solid, Routed, Acked
<1>2. /\ DOMAIN Idle = {"pc", "key", "prior", "as", "set", "snap", "seen", "todo",
                        "alive", "then"}
      /\ DOMAIN go = Threads /\ DOMAIN go[t] = DOMAIN Idle /\ Sound(t) /\ Placed(t)
      /\ \A u \in Threads \ {t} : Still(u)
  BY <1>1, ThreadFacts
<1>3. UNCHANGED <<warm, pool, subs, dropped, nextID, resolve>> /\ go[t].pc = "reset"
  BY DEF ResetOne, mounted, At
<1>4. PoolShrinks
  BY <1>3, SolidFacts
<1>5. CASE go[t].todo = {}
  <2>1. /\ UNCHANGED <<obj, file>> /\ go'[t].pc = "return"
        /\ go'[t].as = go[t].as /\ go'[t].todo = go[t].todo /\ go'[t].alive = go[t].alive
    BY <1>2, <1>5 DEF ResetOne, Goto
  <2>2. LockOK'
    BY <1>2, <1>3, <2>1, LockKept DEF HolderPCs, LockedPCs, LookupPCs
  <2>3. Placed(t)'
    BY <1>2, <2>1 DEF Placed, Objects, DropPCs
  <2>4. Serves(t)'
    BY <2>1 DEF Serves, ServePCs, MountedPCs, EvictPCs, DropPCs
  <2> QED
    BY <1>2, <1>3, <1>4, <2>1, <2>2, <2>3, <2>4, QuietPreserves
<1>6. CASE go[t].todo # {}
  <2>1. PICK o \in go[t].todo :
           /\ go' = [go EXCEPT ![t].todo = @ \ {o}]
           /\ IF Live(o)
              THEN obj' = [obj EXCEPT ![o].ready = TRUE] /\ UNCHANGED file
              ELSE file' = Upsert(o) /\ UNCHANGED obj
    BY <1>6 DEF ResetOne
  <2>2. /\ go'[t].pc = "reset" /\ go'[t].as = go[t].as /\ go'[t].alive = go[t].alive
        /\ go'[t].todo = go[t].todo \ {o}
    BY <1>2, <1>3, <2>1
  <2>3. /\ o \in DOMAIN obj /\ DOMAIN obj[o] = Fields /\ obj = [x \in DOMAIN obj |-> obj[x]]
        /\ \A x \in go[t].todo \cup go[t].alive : x \in DOMAIN obj
    BY <1>2, SolidFacts DEF Placed, ObjectsOK
  <2>4. /\ obj' = [x \in DOMAIN obj |-> obj'[x]]
        /\ \A x \in DOMAIN obj : x # o => obj'[x] = obj[x]
        /\ obj'[o].id = obj[o].id /\ obj'[o].key = obj[o].key /\ DOMAIN obj'[o] = Fields
        /\ obj'[o].handlers = obj[o].handlers
        /\ file' = file \/ file' = Upsert(o)
    BY <2>1, <2>3 DEF Fields
  <2>5. LockOK'
    BY <1>2, <1>3, <2>2, LockKept DEF HolderPCs, LockedPCs, LookupPCs
  <2>6. Placed(t)'
    BY <1>2, <1>3, <2>2, <2>4 DEF Placed, Objects, DropPCs
  <2>7. ASSUME Solo PROVE Serves(t)' /\ Warmed(o)
    <3>1. \A x \in go[t].todo \cup go[t].alive : Warmed(x)
      BY <1>3, <2>7 DEF Solo, AllServe, Serves
    <3>2. \A x \in go[t].todo \cup go[t].alive : Warmed(x)'
      BY <1>3, <2>3, <2>4, <3>1 DEF Warmed
    <3> QED
      BY <2>2, <3>1, <3>2 DEF Serves, ServePCs, MountedPCs, EvictPCs, DropPCs
  <2>8. Solo => \A u \in Threads \ {t} : go[u].pc \notin EvictPCs
    BY <1>3, Apart
  <2>9. \A u \in Threads : StepOf(u) /\ (go[u].pc = "dropWarm" => Still(u))
    BY <1>2, <1>3, <2>6, <2>7, <2>8 DEF StepOf
  <2> QED
    BY <1>3, <2>3, <2>4, <2>5, <2>7, <2>9, TouchPreserves
<1> QED
  BY <1>5, <1>6

\* Events concern active objects, and wake none.
LEMMA EventPreserves ==
    ASSUME Solid, NEW o \in DOMAIN obj, Event(o)
    PROVE  Preserves
<1>1. UNCHANGED <<warm, pool, subs, dropped, nextID, resolve, go>>
  BY DEF Event, CloseDone, AgentReady, BridgeDies, RespawnDone, mounted
<1>2. DOMAIN obj[o] = Fields /\ obj = [x \in DOMAIN obj |-> obj[x]]
  BY SolidFacts DEF ObjectsOK
<1>3. /\ obj' = [x \in DOMAIN obj |-> obj'[x]]
      /\ \A x \in DOMAIN obj : x # o => obj'[x] = obj[x]
      /\ obj'[o].id = obj[o].id /\ obj'[o].key = obj[o].key /\ DOMAIN obj'[o] = Fields
      /\ obj'[o].handlers = obj[o].handlers
      /\ file' = file \/ file' = Upsert(o)
      /\ Active(o) /\ (Closed(o) => Closed(o)')
  <2>1. CASE CloseDone(o)
    BY <1>2, <2>1 DEF CloseDone, Fields, Active, Closed
  <2>2. CASE AgentReady(o)
    BY <1>2, <2>2 DEF AgentReady, Fields, Active, Closed
  <2>3. CASE BridgeDies(o)
    BY <1>2, <2>3 DEF BridgeDies, Fields, Active, Closed, Live
  <2>4. CASE RespawnDone(o)
    <3>1. CASE obj' = [obj EXCEPT ![o].respawning = FALSE, ![o].stat = "Running",
                                  ![o].ready = TRUE]
               /\ ~obj[o].closedByUser /\ file' = file
      BY <1>2, <2>4, <3>1 DEF RespawnDone, Fields, Active, Closed
    <3>2. CASE obj' = [obj EXCEPT ![o].respawning = FALSE] /\ file' = Upsert(o)
      BY <1>2, <2>4, <3>2 DEF RespawnDone, Fields, Active, Closed
    <3> QED
      BY <2>4, <3>1, <3>2 DEF RespawnDone
  <2> QED
    BY <2>1, <2>2, <2>3, <2>4 DEF Event
<1>4. LockOK'
  BY <1>1 DEF LockOK, Solid, Typed
<1>5. Solo => Warmed(o)
  BY <1>3 DEF Solo, ActiveWarm
<1>6. Harmless
  <2>1. PoolShrinks
    BY <1>1, SolidFacts
  <2>2. \A x \in DOMAIN obj : (Closed(x) => Closed(x)') /\ (Active(x)' => Active(x))
    BY <1>3 DEF Closed, Active
  <2> QED
    BY <1>1, <2>1, <2>2 DEF Harmless
<1>7. \A u \in Threads : StepOf(u) /\ (go[u].pc = "dropWarm" => Still(u))
  BY <1>1, <1>6 DEF StepOf, Still
<1> QED
  BY <1>1, <1>3, <1>4, <1>5, <1>7, TouchPreserves

\* The chat's own goroutine gives a handler to a session that has none: one whose
\* subscription an eviction has removed is no longer in the pool.
LEMMA PumpPreserves ==
    ASSUME Solid, NEW k \in Keys, PumpEvents(k)
    PROVE  Preserves
<1>1. PICK o : o = pool[k]
  OBVIOUS
<1>2. /\ UNCHANGED <<warm, pool, file, dropped, nextID, resolve, go>>
      /\ pool' = [x \in Keys |-> pool'[x]]
  BY DEF PumpEvents, persisted, Solid, Typed, FunsOK
<1>3. o \in DOMAIN obj /\ obj[o].key = k /\ DOMAIN obj[o] = Fields
      /\ obj = [x \in DOMAIN obj |-> obj[x]]
  BY <1>1, SolidFacts DEF PumpEvents, Solid, Routed, MountedOK, Has, ObjectsOK
<1>4. /\ subs' = subs \cup {obj[o].id} /\ obj[o].id \notin subs
      /\ obj' = [x \in DOMAIN obj |-> obj'[x]]
      /\ \A x \in DOMAIN obj : x # o => obj'[x] = obj[x]
      /\ obj'[o].id = obj[o].id /\ obj'[o].key = obj[o].key /\ DOMAIN obj'[o] = Fields
      /\ obj'[o].handlers = obj[o].handlers + 1
      /\ (Active(o)' <=> Active(o)) /\ (Closed(o)' <=> Closed(o))
  <2>1. /\ obj[o].id \notin subs /\ subs' = subs \cup {obj[o].id}
        /\ obj' = [obj EXCEPT ![o].handlers = @ + 1]
    BY <1>1 DEF PumpEvents, Subscribe
  <2> QED
    BY <1>3, <2>1 DEF Fields, Active, Closed
<1>5. IdsKept /\ ObjectsKept
  BY <1>4, TouchKept
<1>6. LockOK'
  BY <1>2 DEF LockOK, Solid, Typed
<1>7. \A x \in DOMAIN obj : (Active(x)' <=> Active(x)) /\ (Closed(x)' <=> Closed(x))
  BY <1>4 DEF Active, Closed
<1>8. \A u \in Threads : StepOf(u)
  <2>1. PoolShrinks
    BY <1>2 DEF PoolShrinks
  <2>2. Harmless
    BY <1>2, <1>7, <2>1 DEF Harmless
  <2> QED
    BY <1>2, <2>2 DEF StepOf, Still
<1>9. ASSUME Solo PROVE ActiveWarm' /\ AllHandled' /\ PoolWarm' /\ FileLasts'
  <2>1. ActiveWarm'
    BY <1>2, <1>5, <1>7, <1>9, ActiveKept DEF Solo
  <2>2. \A u \in Threads : ~(At(u, "dropWarm") /\ go[u].as = o)
    BY <1>1, <1>3, <1>9 DEF Solo, AllServe, Serves, At, PumpEvents
  <2>3. Warmed(o)
    BY <1>1, <1>3, <1>9 DEF Solo, PoolWarm, Warmed, PumpEvents
  <2>4. obj[o].handlers = 0
    BY <1>3, <1>4, <1>9, <2>2, <2>3 DEF Solo, AllHandled, Handled
  <2>5. ASSUME NEW x \in DOMAIN obj PROVE Handled(x)'
    <3>1. CASE x = o
      BY <1>4, <2>4, <3>1 DEF Handled
    <3>2. CASE x # o
      <4>1. Handled(x) /\ obj'[x] = obj[x] /\ subs \subseteq subs'
            /\ (Warmed(x)' <=> Warmed(x))
        BY <1>2, <1>4, <1>9, <3>2 DEF Solo, AllHandled, Warmed
      <4> QED
        BY <1>2, <4>1 DEF Handled, At
    <3> QED
      BY <3>1, <3>2
  <2>6. AllHandled'
    BY <1>5, <2>5 DEF AllHandled, IdsKept
  <2> QED
    BY <1>2, <1>9, <2>1, <2>6 DEF Solo, PoolWarm, FileLasts
<1>10. file' \subseteq Names /\ \A i \in subs' : i \in subs \/ \E x \in Names : x.id = i
  <2>1. [id |-> obj[o].id, key |-> obj[o].key] \in Names
    BY <1>3 DEF Names
  <2> QED
    BY <1>2, <1>4, <2>1 DEF Names
<1> QED
  BY <1>2, <1>5, <1>6, <1>8, <1>9, <1>10, ActPreserves

\* A daemon that starts has files and no sessions.
Fresh ==
    /\ obj = <<>> /\ subs = {}
    /\ pool = [k \in Keys |-> None] /\ warm = [k \in Keys |-> None]
    /\ resolve = [k \in Keys |-> None] /\ go = [t \in Threads |-> Idle]

LEMMA FreshSolo == Fresh /\ Named => Typed /\ (FileLasts => Solo)
<1> SUFFICES ASSUME Fresh, Named PROVE Typed /\ (FileLasts => Solo)
  OBVIOUS
<1>1. DOMAIN obj = {}
  BY DEF Fresh
<1>2. \A t \in Threads : go[t].pc = "idle" /\ go[t].as = None /\ go[t].todo = {}
                         /\ go[t].alive = {}
  BY DEF Fresh, Idle
<1>3. LockOK
  BY <1>2 DEF Fresh, LockOK, LockedPCs, HolderPCs, LookupPCs
<1>4. \A t \in Threads : Placed(t)
  BY <1>2 DEF Placed, Objects, DropPCs
<1>5. \A t \in Threads : Serves(t)
  BY <1>2 DEF Serves, ServePCs, MountedPCs, EvictPCs, DropPCs
<1>6. ~EvictOverlaps
  BY <1>2 DEF EvictOverlaps, EvictPCs
<1>7. RecordsOK /\ FunsOK
  BY <1>1 DEF Fresh, RecordsOK, FunsOK
<1>8. PoolWarm /\ WarmLasts
  BY DEF Fresh, PoolWarm, WarmLasts
<1> QED
  BY <1>1, <1>3, <1>4, <1>5, <1>6, <1>7, <1>8
     DEF Typed, Solo, ActiveWarm, AllHandled, AllServe

LEMMA RestartPreserves == ASSUME Solid, Restart PROVE Preserves
<1>1. Named'
  <2>1. obj' = <<>> /\ subs' = {} /\ UNCHANGED <<file, nextID, dropped>>
    BY DEF Restart, persisted
  <2>2. Names' \subseteq Names
    BY <2>1 DEF Names
  <2> QED
    BY <2>1, <2>2 DEF Solid, Typed, Named
<1>2. FileLasts => FileLasts'
  BY DEF Restart, persisted, FileLasts
<1>3. Fresh'
  BY DEF Restart, Fresh
<1>4. (Fresh /\ Named => Typed /\ (FileLasts => Solo))'
  BY FreshSolo, PTL
<1> QED
  BY <1>1, <1>2, <1>3, <1>4 DEF Preserves, Solo

\* The inductive invariant of the properties below.
Sessions == Solid /\ (~raced => Solo)

LEMMA SessionsInit == Init => Sessions
<1> SUFFICES ASSUME Init PROVE Sessions
  OBVIOUS
<1>1. Fresh
  BY DEF Init, Fresh
<1>2. Named /\ FileLasts
  <2>1. Names = {}
    BY DEF Init, Names
  <2> QED
    BY <2>1 DEF Init, Named, FileLasts
<1> QED
  BY <1>1, <1>2, FreshSolo, RoutedInit DEF Sessions, Solid

LEMMA SessionsStep == ASSUME Sessions, [Next]_vars PROVE Sessions'
<1>1. Routed'
  BY RoutedStep DEF Sessions, Solid
<1>2. CASE UNCHANGED vars
  <2>1. Typed'
    BY <1>2 DEF vars, mounted, persisted, Sessions, Solid, Typed, RecordsOK, FunsOK, Named, Names, LockOK,
                Placed, Objects
  <2>2. Solo => Solo'
    BY <1>2 DEF vars, Solo, EvictOverlaps, ActiveWarm, AllHandled, PoolWarm, AllServe,
                FileLasts, WarmLasts, Serves, Handled, Warmed, Active, Closed, At
  <2> QED
    BY <1>1, <1>2, <2>1, <2>2 DEF vars, Sessions, Solid
<1>3. ASSUME Step PROVE Preserves
  <2>1. ASSUME NEW t \in Threads, ThreadStep(t) PROVE Preserves
    BY <2>1, FindPreserves, RestorePreserves, MountPreserves, SpawnPreserves, ScanPreserves,
       DropPreserves, CommandPreserves, ResetPreserves
       DEF ThreadStep, LookupStep, EvictStep, Sessions
  <2> QED
    BY <1>3, <2>1, CallPreserves, EventPreserves, PumpPreserves, RestartPreserves
       DEF Step, Sessions
<1>4. CASE Next
  <2>1. Preserves /\ raced' = (raced \/ EvictOverlaps')
    BY <1>3, <1>4 DEF Next
  <2> QED
    BY <1>1, <2>1 DEF Preserves, Sessions, Solid
<1> QED
  BY <1>2, <1>4

LEMMA SessionsAlways == Spec => []Sessions
<1>1. Sessions /\ [Next]_vars => Sessions'
  BY SessionsStep
<1> QED
  BY <1>1, SessionsInit, PTL DEF Spec

(***************************************************************************)
(* What the variables hold, whatever overlaps: a resolve lock belongs to a *)
(* lookup of its key, routeMu to a command between the store and the chat, *)
(* and every session a goroutine, the chat or a pool refers to exists.     *)
(***************************************************************************)
THEOREM TypeCorrect == Spec => []TypeOK
<1>1. Sessions => TypeOK
  <2> SUFFICES ASSUME Sessions PROVE TypeOK
    OBVIOUS
  <2>1. sel \in Selections /\ store \in Selections /\ disk \in Selections
    BY DEF Sessions, Solid, Routed, SelectionsOK
  <2>2. selAS \in Objects
    BY DEF Sessions, Solid, Routed, Selected, Has, Objects
  <2>3. pool \in [Keys -> Objects] /\ warm \in [Keys -> Objects]
    BY DEF Sessions, Solid, Routed, MountedOK, Typed, FunsOK, Has, Objects
  <2>4. \A k \in Keys : resolve[k] # None =>
          /\ go[resolve[k]].key = k
          /\ go[resolve[k]].pc \in LookupPCs \ {"lookup", "lock"}
    BY DEF Sessions, Solid, Typed, LockOK, HolderPCs
  <2>5. routeMu # None => At(routeMu, "install")
    BY DEF Sessions, Solid, Routed, Acked, Commanding
  <2>6. subs \subseteq 1..nextID /\ dropped \subseteq 1..nextID
    BY DEF Sessions, Solid, Typed, Named
  <2>7. \A e \in file : e.id \in 1..nextID /\ e.key \in Keys
    BY DEF Sessions, Solid, Typed, Named, Names
  <2>8. \A t \in Threads : go[t].as \in Objects
    BY DEF Sessions, Solid, Typed, Placed
  <2> QED
    BY <2>1, <2>2, <2>3, <2>4, <2>5, <2>6, <2>7, <2>8 DEF TypeOK
<1> QED
  BY <1>1, SessionsAlways, PTL

(***************************************************************************)
(* A directory and an agent have one session object: no two lookups spawn  *)
(* for them at once, and an object with a running bridge is the warm       *)
(* pool's entry, where /close finds it, as long as no eviction overlaps    *)
(* other work on its sessions.                                             *)
(***************************************************************************)
THEOREM OneSessionPerKeyAlways == Spec => []OneSessionPerKey
<1>1. Sessions => OneSessionPerKey
  <2> SUFFICES ASSUME Sessions PROVE OneSessionPerKey
    OBVIOUS
  <2>1. ASSUME NEW t \in Threads, At(t, "spawning")
        PROVE  KeyOf(go[t].as) = go[t].key /\ resolve[go[t].key] = t
    <3>1. Sound(t) /\ LockOK
      BY DEF Sessions, Solid, Routed, Typed
    <3>2. go[t].pc \in MountedPCs /\ go[t].pc \in LockedPCs
      BY <2>1 DEF LockedPCs, HolderPCs, LookupPCs, MountedPCs, At
    <3>3. Has(go[t].as, go[t].key)
      BY <3>1, <3>2 DEF Sound
    <3>4. resolve[go[t].key] = t
      BY <3>1, <3>2 DEF LockOK
    <3> QED
      BY <3>3, <3>4 DEF Has, KeyOf
  <2>2. ASSUME NEW t \in Threads, NEW u \in Threads, At(t, "spawning"), At(u, "spawning"),
               KeyOf(go[t].as) = KeyOf(go[u].as)
        PROVE  t = u
    BY <2>1, <2>2
  <2>3. ~raced => \A o \in DOMAIN obj : Live(o) => warm[KeyOf(o)] = o
    BY DEF Sessions, Solo, ActiveWarm, Active, Warmed, Live, KeyOf
  <2> QED
    BY <2>2, <2>3 DEF OneSessionPerKey
<1> QED
  BY <1>1, SessionsAlways, PTL

(***************************************************************************)
(* A dropped session stays dropped: no entry on disk brings it back at a   *)
(* restart and the warm pool does not have it, as long as no eviction      *)
(* overlaps other work on its sessions.                                    *)
(***************************************************************************)
THEOREM SoloDropStaysDroppedAlways == Spec => []SoloDropStaysDropped
<1>1. Sessions => SoloDropStaysDropped
  BY DEF Sessions, Solo, FileLasts, WarmLasts, SoloDropStaysDropped
<1> QED
  BY <1>1, SessionsAlways, PTL

(***************************************************************************)
(* No event of a session is routed twice: its object never has a second    *)
(* handler, as long as no eviction overlaps other work on its sessions.    *)
(***************************************************************************)
THEOREM OneHandlerAlways == Spec => []OneHandler
<1>1. Sessions => OneHandler
  BY DEF Sessions, Solo, AllHandled, Handled, OneHandler
<1> QED
  BY <1>1, SessionsAlways, PTL
=============================================================================
