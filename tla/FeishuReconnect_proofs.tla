----------------------- MODULE FeishuReconnect_proofs -----------------------
(***************************************************************************)
(* Proofs about FeishuReconnect for any number of losses, refusals,        *)
(* wake-ups, SDK runs and ticking goroutines: as long as nothing overlaps  *)
(* there is one connection, and the prober ticks exactly when it is        *)
(* started.                                                                *)
(***************************************************************************)
EXTENDS FeishuReconnect, WellFoundedInduction, TLAPS

-----------------------------------------------------------------------------
(* Sequences whose free places are used again.                              *)

LEMMA LeastPlace ==
    ASSUME NEW T \in SUBSET Nat, T # {}
    PROVE  \E x \in T : \A y \in T : x <= y
<1>1. PICK x \in T : \A y \in T : ~(<<y, x>> \in OpToRel(<, Nat))
  BY NatLessThanWellFounded, WFMin
<1>2. \A y \in Nat : y < x => <<y, x>> \in OpToRel(<, Nat)
  BY ZenonT(20) DEF OpToRel
<1>3. \A y \in T : ~(y < x)
  BY <1>1, <1>2
<1> QED
  BY <1>3

\* The place is free or the next, and nothing else changes.
Holds(s, S, free, x) == s \in Seq(S) /\ free \subseteq DOMAIN s /\ x \in S
LEMMA PutInPlace ==
    ASSUME NEW S, NEW s, NEW free, NEW x, Holds(s, S, free, x),
           NEW i, i = Place(s, free), NEW t, t = Put(s, i, x)
    PROVE  /\ t \in Seq(S) /\ i \in DOMAIN t /\ t[i] = x
           /\ DOMAIN t = DOMAIN s \cup {i}
           /\ \A j \in DOMAIN s : j # i => t[j] = s[j]
           /\ i \in DOMAIN s => i \in free
<1>1. s \in Seq(S) /\ DOMAIN s = 1..Len(s) /\ Len(s) \in Nat /\ free \subseteq DOMAIN s /\ x \in S
  BY DEF Holds
<1>2. CASE free = {}
  <2>1. i = Len(s) + 1 /\ i > Len(s) /\ i \notin DOMAIN s
    BY <1>1, <1>2 DEF Place
  <2>2. t = Append(s, x)
    BY <2>1 DEF Put
  <2>3. t \in Seq(S) /\ Len(t) = Len(s) + 1 /\ DOMAIN t = 1..(Len(s) + 1)
    BY <1>1, <2>2
  <2>4. t[i] = x /\ \A j \in 1..Len(s) : t[j] = s[j]
    BY <1>1, <2>1, <2>2
  <2>5. DOMAIN t = DOMAIN s \cup {i} /\ i \in DOMAIN t
    <3>1. \A n \in Nat : 1..(n + 1) = 1..n \cup {n + 1}
      OBVIOUS
    <3> QED
      BY <1>1, <2>1, <2>3, <3>1
  <2> QED
    BY <1>1, <2>1, <2>3, <2>4, <2>5
<1>3. CASE free # {}
  <2>1. \E k \in free : \A j \in free : k <= j
    BY <1>1, <1>3, LeastPlace
  <2>2. i = CHOOSE k \in free : \A j \in free : k <= j
    BY <1>3 DEF Place
  <2>3. i \in free
    BY <2>1, <2>2
  <2>4. i \in DOMAIN s /\ i \in Nat /\ ~(i > Len(s))
    BY <1>1, <2>3
  <2>5. t = [s EXCEPT ![i] = x]
    BY <2>4 DEF Put
  <2> QED
    BY <1>1, <2>3, <2>4, <2>5
<1> QED
  BY <1>2, <1>3

-----------------------------------------------------------------------------
(* The invariant.                                                           *)

Run == [replaced : BOOLEAN, wasUp : BOOLEAN, cancelled : BOOLEAN,
        at : {"dial", "up", "lost", "ending", "ended"},
        callback : {"none", "snapshot", "close", "wait"}]
Loop == [kind : {"loop", "closed", "kick"}, run : Nat,
         pc : {"wait", "tick", "await", "rebuild", "spawn", "check", "done"}]
Typed ==
    /\ runs \in Seq(Run) /\ loops \in Seq(Loop)
    /\ current \in DOMAIN runs /\ started \in BOOLEAN
    /\ late \in Nat /\ closing \in Nat
    /\ \A r \in DOMAIN runs : runs[r].at = "ended" => runs[r].callback = "none"

\* From its cancel to its spawn, a tick leaves no run that is not cancelled.
Swapping == \E l \in DOMAIN loops : loops[l].pc \in {"await", "rebuild", "spawn"}
OneRun == Uncancelled \subseteq {current} /\ (Swapping => Uncancelled = {})

\* A started prober has a loop or is about to launch it; one that is not has none or is
\* about to close its channels.
Snapping == \E r \in DOMAIN runs : runs[r].callback = "snapshot"
Stopping == \E r \in DOMAIN runs : runs[r].callback = "close"
Cycle ==
    /\ started => Loops # {} \/ Snapping
    /\ Stopping \/ closing # 0 => ~started
    /\ Snapping => started
    /\ ~started => Loops = {} \/ Stopping \/ closing # 0

Connects == Typed /\ (~overlap => ~Overlaps /\ OneRun /\ Cycle)

\* What a step has to show when nothing has overlapped, neither before nor by it.
Solo == Typed /\ OneRun /\ Cycle /\ ~Overlaps
Keeps == Typed' /\ (Solo /\ ~Overlaps' => OneRun' /\ Cycle')

LEMMA ConnectsInit == ReconnectInit => Connects
<1> SUFFICES ASSUME ReconnectInit PROVE Connects
  OBVIOUS
<1> DEFINE first == [NewRun EXCEPT !.at = "up", !.wasUp = TRUE]
<1>1. first \in Run /\ first.callback = "none" /\ first.at = "up"
  BY DEF NewRun, Run
<1>2. runs = <<first>> /\ loops = <<>> /\ current = 1 /\ started = FALSE
      /\ late = 0 /\ closing = 0
  BY DEF ReconnectInit
<1> HIDE DEF first
<1>3. DOMAIN runs = {1} /\ runs[1] = first /\ runs \in Seq(Run) /\ DOMAIN loops = {}
  BY <1>1, <1>2
<1>4. Typed
  <2>1. loops \in Seq(Loop)
    BY <1>2
  <2>2. /\ current \in DOMAIN runs /\ started \in BOOLEAN /\ late \in Nat /\ closing \in Nat
        /\ \A r \in DOMAIN runs : runs[r].at = "ended" => runs[r].callback = "none"
    BY <1>1, <1>2, <1>3
  <2> QED
    BY <1>3, <2>1, <2>2 DEF Typed
<1>5. ~Overlaps
  BY <1>1, <1>2, <1>3 DEF Overlaps
<1>6. OneRun
  BY <1>2, <1>3 DEF OneRun, Uncancelled, Swapping
<1>7. Cycle
  BY <1>1, <1>2, <1>3 DEF Cycle, Loops, Snapping, Stopping
<1> QED
  BY <1>4, <1>5, <1>6, <1>7 DEF Connects

\* Snapshots do not overlap with stops.
LEMMA Apart ==
    ASSUME Solo, Snapping
    PROVE  late = 0 /\ closing = 0 /\ ~Stopping
<1>1. late + closing > 0 \/ Stopping => Overlaps
  BY DEF Overlaps, Snapping, Stopping
<1> QED
  BY <1>1 DEF Solo, Typed

LEMMA FewerRuns ==
    ASSUME OneRun, Uncancelled' \subseteq Uncancelled, current' = current, Swapping' => Swapping
    PROVE  OneRun'
BY DEF OneRun

-----------------------------------------------------------------------------
(* The SDK's runs and the callbacks.                                        *)

LEMMA RunUpdate ==
    ASSUME Typed, NEW r \in DOMAIN runs, NEW new \in Run,
           runs' = [runs EXCEPT ![r] = new], new.at = "ended" => new.callback = "none"
    PROVE  /\ runs' \in Seq(Run) /\ DOMAIN runs' = DOMAIN runs /\ runs'[r] = new
           /\ \A s \in DOMAIN runs : s # r => runs'[s] = runs[s]
           /\ \A s \in DOMAIN runs' : runs'[s].at = "ended" => runs'[s].callback = "none"
<1>1. runs \in Seq(Run)
  BY DEF Typed
<1>2. /\ runs' \in Seq(Run) /\ DOMAIN runs' = DOMAIN runs /\ runs'[r] = new
      /\ \A s \in DOMAIN runs : s # r => runs'[s] = runs[s]
  BY <1>1
<1> QED
  BY <1>2 DEF Typed

\* A run goes on as it was cancelled or not, or ends, and its callback with it.
LEMMA RunGoesOn ==
    ASSUME Typed, NEW r \in DOMAIN runs, NEW new \in Run,
           runs' = [runs EXCEPT ![r] = new], new.at = "ended" => new.callback = "none",
           new.at # "ended" => runs[r].at # "ended" /\ new.cancelled = runs[r].cancelled,
           UNCHANGED <<current, loops, late, closing>>, started' \in BOOLEAN,
           OneRun /\ Cycle /\ ~Overlaps /\ ~Overlaps' => Cycle'
    PROVE  Keeps
<1>1. /\ runs' \in Seq(Run) /\ DOMAIN runs' = DOMAIN runs /\ runs'[r] = new
      /\ \A s \in DOMAIN runs : s # r => runs'[s] = runs[s]
      /\ \A s \in DOMAIN runs' : runs'[s].at = "ended" => runs'[s].callback = "none"
  BY RunUpdate
<1>2. Typed'
  BY <1>1 DEF Typed
<1>3. Uncancelled' \subseteq Uncancelled
  BY <1>1 DEF Uncancelled, Alive
<1>4. Swapping' => Swapping
  BY DEF Swapping
<1> QED
  BY <1>2, <1>3, <1>4, FewerRuns DEF Keeps, Solo

LEMMA RunTyped ==
    ASSUME Typed, NEW r \in DOMAIN runs
    PROVE  runs[r] \in Run /\ (runs[r].at = "ended" => runs[r].callback = "none")
<1>1. runs \in Seq(Run)
  BY DEF Typed
<1> QED
  BY <1>1 DEF Typed

\* What one run's change of callback means for all.
LEMMA CallbackChanges ==
    ASSUME Typed, NEW r \in DOMAIN runs, NEW new \in Run, runs' = [runs EXCEPT ![r] = new]
    PROVE  /\ new.callback = "snapshot" => Snapping'
           /\ new.callback # "snapshot" => (Snapping' => Snapping)
           /\ runs[r].callback # "snapshot" => (Snapping => Snapping')
           /\ new.callback = "close" => Stopping'
           /\ new.callback # "close" => (Stopping' => Stopping)
           /\ runs[r].callback # "close" => (Stopping => Stopping')
<1>1. /\ DOMAIN runs' = DOMAIN runs /\ runs'[r] = new
      /\ \A s \in DOMAIN runs : s # r => runs'[s] = runs[s]
  BY DEF Typed
<1> QED
  BY <1>1 DEF Snapping, Stopping

LEMMA GoesUpKeeps ==
    ASSUME Typed, NEW r \in DOMAIN runs, GoesUp(r)
    PROVE  Keeps
<1>1. runs[r] \in Run /\ runs[r].at # "ended" /\ runs[r].callback = "none"
  BY RunTyped DEF GoesUp
<1> DEFINE new == [runs[r] EXCEPT !.at = "up", !.wasUp = TRUE,
                                  !.callback = IF started THEN "close" ELSE "none"]
<1>2. /\ new \in Run /\ new.at = "up" /\ new.cancelled = runs[r].cancelled
      /\ new.callback = IF started THEN "close" ELSE "none"
  BY <1>1 DEF Run
<1>3. runs' = [runs EXCEPT ![r] = new]
  BY DEF GoesUp
<1> HIDE DEF new
<1>4. UNCHANGED <<current, loops, late, closing>> /\ started' = FALSE
  BY DEF GoesUp
<1>5. ASSUME OneRun, Cycle, ~Overlaps, ~Overlaps' PROVE Cycle'
  <2>1. Loops' = Loops
    BY <1>4 DEF Loops
  <2>2. CASE started
    <3>1. Stopping'
      BY <1>2, <1>3, <2>2, CallbackChanges
    <3>2. Snapping' => Snapping
      BY <1>2, <1>3, <2>2, CallbackChanges
    <3>3. ~Overlaps' => ~Snapping'
      BY <3>1 DEF Overlaps, Snapping, Stopping
    <3> QED
      BY <1>4, <1>5, <2>1, <3>1, <3>3 DEF Cycle
  <2>3. CASE ~started
    <3>1. (Stopping' <=> Stopping) /\ (Snapping' <=> Snapping)
      BY <1>1, <1>2, <1>3, <2>3, CallbackChanges
    <3> QED
      BY <1>4, <1>5, <2>1, <2>3, <3>1 DEF Cycle
  <2> QED
    BY <2>2, <2>3
<1> QED
  BY <1>1, <1>2, <1>3, <1>4, <1>5, RunGoesOn

\* A run that is lost, or ends while it was up.
LEMMA DisconnectedKeeps ==
    ASSUME Typed, NEW r \in DOMAIN runs, NEW at \in {"lost", "ending"}, Disconnected(r, at),
           runs[r].at # "ended", runs[r].callback = "none",
           UNCHANGED <<current, loops, late, closing>>
    PROVE  Keeps
<1>1. runs[r] \in Run
  BY RunTyped
<1> DEFINE new == [runs[r] EXCEPT !.at = at, !.callback = IF started THEN "none" ELSE "snapshot"]
<1>2. /\ new \in Run /\ new.at = at /\ new.cancelled = runs[r].cancelled
      /\ new.callback = IF started THEN "none" ELSE "snapshot"
  BY <1>1 DEF Run
<1>3. runs' = [runs EXCEPT ![r] = new] /\ started' = TRUE
  BY DEF Disconnected
<1> HIDE DEF new
<1>4. ASSUME OneRun, Cycle, ~Overlaps, ~Overlaps' PROVE Cycle'
  <2>1. Loops' = Loops
    BY DEF Loops
  <2>2. Stopping' <=> Stopping
    BY <1>2, <1>3, CallbackChanges
  <2>3. CASE started
    <3>1. Snapping' <=> Snapping
      BY <1>2, <1>3, <2>3, CallbackChanges
    <3> QED
      BY <1>3, <1>4, <2>1, <2>2, <2>3, <3>1 DEF Cycle
  <2>4. CASE ~started
    <3>1. Snapping'
      BY <1>2, <1>3, <2>4, CallbackChanges
    <3>2. ~Stopping' /\ ~(late' + closing' > 0)
      BY <1>4, <3>1 DEF Overlaps, Snapping, Stopping
    <3>3. closing' = 0
      BY <3>2 DEF Typed
    <3> QED
      BY <1>3, <3>1, <3>2, <3>3 DEF Cycle
  <2> QED
    BY <2>3, <2>4
<1> QED
  BY <1>2, <1>3, <1>4, RunGoesOn

\* A run that ends, or whose callback goes on, with nothing to do for the prober.
LEMMA EndsKeeps ==
    ASSUME Typed, NEW r \in DOMAIN runs, NEW new \in Run, runs' = [runs EXCEPT ![r] = new],
           new = Ended \/ (new.at = runs[r].at /\ new.cancelled = runs[r].cancelled
                            /\ runs[r].at # "ended"),
           new.callback \in {"none", "wait"}, runs[r].callback \in {"none", "wait"},
           UNCHANGED <<current, loops, late, closing, started>>
    PROVE  Keeps
<1>1. new.at = "ended" => new.callback = "none"
  BY DEF Ended
<1>2. (Stopping' <=> Stopping) /\ (Snapping' <=> Snapping)
  BY CallbackChanges
<1>3. Cycle => Cycle'
  BY <1>2 DEF Cycle, Loops
<1>4. new.at # "ended" => runs[r].at # "ended" /\ new.cancelled = runs[r].cancelled
  BY DEF Ended
<1>5. started' \in BOOLEAN
  BY DEF Typed
<1> QED
  BY <1>1, <1>3, <1>4, <1>5, RunGoesOn

LEMMA NewRunTyped == NewRun \in Run /\ NewRun.at = "dial" /\ NewRun.callback = "none"
BY DEF NewRun, Run

LEMMA EndedTyped == Ended \in Run /\ Ended.callback = "none"
BY DEF Ended, Run

LEMMA SdkKeeps ==
    ASSUME Typed, NEW r \in DOMAIN runs,
           Drops(r) \/ Rejected(r) \/ Stranded(r) \/ CancelSeen(r) \/ RunEnds(r)
             \/ StopReturns(r)
    PROVE  Keeps
<1>1. CASE Drops(r)
  BY <1>1, DisconnectedKeeps DEF Drops
<1>2. CASE Rejected(r) \/ Stranded(r) \/ RunEnds(r)
  <2>1. runs' = [runs EXCEPT ![r] = Ended] /\ runs[r].callback = "none"
        /\ UNCHANGED <<current, loops, late, closing, started>>
    BY <1>2 DEF Rejected, Stranded, RunEnds, prober
  <2> QED
    BY <2>1, EndedTyped, EndsKeeps
<1>3. CASE CancelSeen(r) /\ runs[r].at = "up"
  BY <1>3, DisconnectedKeeps DEF CancelSeen
<1>4. CASE CancelSeen(r) /\ runs[r].at # "up"
  <2>1. runs' = [runs EXCEPT ![r] = Ended] /\ runs[r].callback = "none"
        /\ UNCHANGED <<current, loops, late, closing, started>>
    BY <1>4 DEF CancelSeen
  <2> QED
    BY <2>1, EndedTyped, EndsKeeps
<1>5. CASE StopReturns(r)
  <2>1. runs[r] \in Run /\ runs[r].callback = "wait" /\ runs[r].at # "ended"
    BY <1>5, RunTyped DEF StopReturns
  <2> DEFINE new == [runs[r] EXCEPT !.callback = "none"]
  <2>2. /\ new \in Run /\ new.callback = "none" /\ new.at = runs[r].at
        /\ new.cancelled = runs[r].cancelled /\ runs' = [runs EXCEPT ![r] = new]
    BY <1>5, <2>1 DEF StopReturns, Run
  <2>3. UNCHANGED <<current, loops, late, closing, started>>
    BY <1>5 DEF StopReturns, prober
  <2> HIDE DEF new
  <2> QED
    BY <2>1, <2>2, <2>3, EndsKeeps
<1> QED
  BY <1>1, <1>2, <1>3, <1>4, <1>5

-----------------------------------------------------------------------------
(* The prober's goroutines.                                                 *)

LEMMA LoopUpdate ==
    ASSUME Typed, NEW l \in DOMAIN loops, NEW new \in Loop, loops' = [loops EXCEPT ![l] = new]
    PROVE  /\ loops' \in Seq(Loop) /\ DOMAIN loops' = DOMAIN loops /\ loops'[l] = new
           /\ \A m \in DOMAIN loops : m # l => loops'[m] = loops[m]
<1>1. loops \in Seq(Loop)
  BY DEF Typed
<1> QED
  BY <1>1

LEMMA LoopTyped ==
    ASSUME Typed, NEW l \in DOMAIN loops
    PROVE  loops[l] \in Loop
BY DEF Typed

\* Closing the channels of the prober leaves it no loop and nothing else changed.
LEMMA ChannelsClosed ==
    ASSUME Typed, CloseChannels
    PROVE  loops' \in Seq(Loop) /\ Loops' = {} /\ (Swapping' => Swapping)
<1>1. loops \in Seq(Loop) /\ DOMAIN loops = 1..Len(loops) /\ Len(loops) \in Nat
  BY DEF Typed
<1>2. ASSUME NEW l \in DOMAIN loops
      PROVE  loops'[l] \in Loop /\ loops'[l].kind # "loop" /\ loops'[l].pc = loops[l].pc
  <2>1. loops[l] \in Loop
    BY LoopTyped
  <2> QED
    BY <2>1 DEF CloseChannels, Loop
<1>3. DOMAIN loops' = DOMAIN loops /\ loops' = [l \in DOMAIN loops |-> loops'[l]]
  BY DEF CloseChannels
<1>4. loops' \in [1..Len(loops) -> Loop]
  BY <1>1, <1>2, <1>3
<1> QED
  BY <1>1, <1>2, <1>3, <1>4 DEF Loops, Swapping

\* A goroutine that is launched.
LEMMA LoopAdded ==
    ASSUME Typed, NEW loop \in Loop, NEW i, i = Place(loops, FreeLoops),
           loops' = Put(loops, i, loop)
    PROVE  /\ loops' \in Seq(Loop) /\ i \in DOMAIN loops' /\ loops'[i] = loop
           /\ DOMAIN loops' = DOMAIN loops \cup {i}
           /\ \A j \in DOMAIN loops : j # i => loops'[j] = loops[j]
           /\ i \in DOMAIN loops => loops[i] = Done
<1>1. loops \in Seq(Loop) /\ FreeLoops \subseteq DOMAIN loops
  BY DEF Typed, FreeLoops
<1>2. PICK t : t = loops'
  OBVIOUS
<1>3. t = Put(loops, i, loop)
  BY <1>2
<1>4. /\ t \in Seq(Loop) /\ i \in DOMAIN t /\ t[i] = loop
      /\ DOMAIN t = DOMAIN loops \cup {i}
      /\ \A j \in DOMAIN loops : j # i => t[j] = loops[j]
      /\ i \in DOMAIN loops => i \in FreeLoops
  <2>1. Holds(loops, Loop, FreeLoops, loop)
    BY <1>1 DEF Holds
  <2>2. i = Place(loops, FreeLoops)
    OBVIOUS
  <2> QED
    BY ONLY <1>3, <2>1, <2>2, PutInPlace
<1> QED
  BY <1>2, <1>4 DEF FreeLoops

LEMMA NewLoopTyped ==
    ASSUME NEW kind \in {"loop", "closed"}
    PROVE  NewLoop(kind) \in Loop /\ NewLoop(kind).kind = kind /\ NewLoop(kind).pc = "wait"
BY DEF NewLoop, Loop

LEMMA NewKickTyped ==
    NewLoop("kick") \in Loop /\ NewLoop("kick").kind = "kick" /\ NewLoop("kick").pc = "tick"
BY DEF NewLoop, Loop

LEMMA StartLoopKeeps ==
    ASSUME Typed, NEW r \in DOMAIN runs, StartLoop(r)
    PROVE  Keeps
<1>1. runs[r] \in Run /\ runs[r].at # "ended" /\ runs[r].callback = "snapshot"
  BY RunTyped DEF StartLoop
<1> DEFINE new == [runs[r] EXCEPT !.callback = "none"]
<1>2. /\ new \in Run /\ new.at = runs[r].at /\ new.cancelled = runs[r].cancelled
      /\ new.callback = "none"
  BY <1>1 DEF Run
<1>3. runs' = [runs EXCEPT ![r] = new]
  BY DEF StartLoop
<1> HIDE DEF new
<1>4. UNCHANGED <<current, started, late, closing>>
  BY DEF StartLoop
<1>5. /\ runs' \in Seq(Run) /\ DOMAIN runs' = DOMAIN runs /\ runs'[r] = new
      /\ \A s \in DOMAIN runs : s # r => runs'[s] = runs[s]
      /\ \A s \in DOMAIN runs' : runs'[s].at = "ended" => runs'[s].callback = "none"
  BY <1>1, <1>2, <1>3, RunUpdate
<1>6. PICK loop \in Loop : loop = NewLoop("loop") /\ loop.kind = "loop" /\ loop.pc = "wait"
  BY NewLoopTyped
<1>7. PICK i : i = Place(loops, FreeLoops)
  OBVIOUS
<1>8. /\ loops' \in Seq(Loop) /\ i \in DOMAIN loops' /\ loops'[i] = loop
      /\ DOMAIN loops' = DOMAIN loops \cup {i}
      /\ \A j \in DOMAIN loops : j # i => loops'[j] = loops[j]
  <2>1. loops' = Put(loops, i, loop)
    BY <1>6, <1>7 DEF StartLoop
  <2> QED
    BY <1>7, <2>1, LoopAdded
<1>9. Typed'
  BY <1>4, <1>5, <1>8 DEF Typed
<1>10. Uncancelled' \subseteq Uncancelled /\ (Swapping' => Swapping)
  BY <1>1, <1>2, <1>5, <1>6, <1>8 DEF Uncancelled, Alive, Swapping
<1>11. ASSUME Cycle PROVE Cycle'
  <2>1. Loops' # {}
    BY <1>6, <1>8 DEF Loops
  <2>2. Snapping /\ (Snapping' => Snapping) /\ (Stopping' => Stopping)
    BY <1>1, <1>2, <1>3, CallbackChanges DEF Snapping
  <2> QED
    BY <1>4, <1>11, <2>1, <2>2 DEF Cycle
<1> QED
  BY <1>4, <1>9, <1>10, <1>11, FewerRuns DEF Keeps, Solo

LEMMA StopClosesKeeps ==
    ASSUME Typed, NEW r \in DOMAIN runs, StopCloses(r)
    PROVE  Keeps
<1>1. runs[r] \in Run /\ runs[r].at # "ended" /\ runs[r].callback = "close"
  BY RunTyped DEF StopCloses
<1> DEFINE new == [runs[r] EXCEPT !.callback = "wait"]
<1>2. /\ new \in Run /\ new.at = runs[r].at /\ new.cancelled = runs[r].cancelled
      /\ new.callback = "wait"
  BY <1>1 DEF Run
<1>3. runs' = [runs EXCEPT ![r] = new]
  BY DEF StopCloses
<1> HIDE DEF new
<1>4. UNCHANGED <<current, started, late, closing>> /\ CloseChannels
  BY DEF StopCloses
<1>5. /\ runs' \in Seq(Run) /\ DOMAIN runs' = DOMAIN runs /\ runs'[r] = new
      /\ \A s \in DOMAIN runs : s # r => runs'[s] = runs[s]
      /\ \A s \in DOMAIN runs' : runs'[s].at = "ended" => runs'[s].callback = "none"
  BY <1>1, <1>2, <1>3, RunUpdate
<1>6. loops' \in Seq(Loop) /\ Loops' = {} /\ (Swapping' => Swapping)
  BY <1>4, ChannelsClosed
<1>7. Typed'
  BY <1>4, <1>5, <1>6 DEF Typed
<1>8. Uncancelled' \subseteq Uncancelled
  BY <1>1, <1>2, <1>5 DEF Uncancelled, Alive
<1>9. ASSUME Cycle PROVE Cycle'
  <2>1. Stopping /\ (Snapping' => Snapping) /\ (Stopping' => Stopping)
    BY <1>1, <1>2, <1>3, CallbackChanges DEF Stopping
  <2> QED
    BY <1>4, <1>6, <1>9, <2>1 DEF Cycle
<1> QED
  BY <1>4, <1>6, <1>7, <1>8, <1>9, FewerRuns DEF Keeps, Solo

LEMMA SameRuns ==
    ASSUME runs' = runs
    PROVE  (Snapping' <=> Snapping) /\ (Stopping' <=> Stopping) /\ Uncancelled' = Uncancelled
BY DEF Snapping, Stopping, Uncancelled, Alive

LEMMA SelfStopKeeps ==
    ASSUME Typed, SelfStop \/ SelfStopCloses
    PROVE  Keeps
<1>1. UNCHANGED <<runs, current>>
  BY DEF SelfStop, SelfStopCloses, sdk
<1>2. CASE SelfStop
  <2>1. /\ loops' = loops /\ started' = FALSE /\ late > 0 /\ late' \in Nat /\ closing' \in Nat
        /\ started => closing' # 0
        /\ ~started => closing' = closing
    BY <1>2 DEF SelfStop, Typed
  <2>2. Typed'
    BY <1>1, <2>1 DEF Typed
  <2>3. ASSUME Solo PROVE Cycle'
    <3>1. ~Snapping
      BY <2>1, <2>3, Apart
    <3> QED
      BY <1>1, <2>1, <2>3, <3>1, SameRuns DEF Solo, Cycle, Loops
  <2>4. Swapping' = Swapping
    BY <2>1 DEF Swapping
  <2> QED
    BY <1>1, <2>2, <2>3, <2>4, SameRuns, FewerRuns DEF Keeps, Solo
<1>3. CASE SelfStopCloses
  <2>1. /\ UNCHANGED <<started, late>> /\ closing # 0 /\ closing' \in Nat
        /\ CloseChannels
    BY <1>3 DEF SelfStopCloses, Typed
  <2>2. loops' \in Seq(Loop) /\ Loops' = {} /\ (Swapping' => Swapping)
    BY <2>1, ChannelsClosed
  <2>3. Typed'
    BY <1>1, <2>1, <2>2 DEF Typed
  <2>4. Cycle => Cycle'
    BY <1>1, <2>1, <2>2, SameRuns DEF Cycle
  <2> QED
    BY <1>1, <2>2, <2>3, <2>4, SameRuns, FewerRuns DEF Keeps, Solo
<1> QED
  BY <1>2, <1>3

\* A tick that goes on without a run to cancel or to spawn.
LEMMA LoopGoesOn ==
    ASSUME Typed, NEW l \in DOMAIN loops, NEW new \in Loop, loops' = [loops EXCEPT ![l] = new],
           new.kind = "loop" <=> loops[l].kind = "loop",
           new.pc \in {"await", "rebuild", "spawn"} => loops[l].pc \in {"await", "rebuild", "spawn"},
           UNCHANGED <<runs, current, started, closing>>, late' \in Nat
    PROVE  Keeps
<1>1. /\ loops' \in Seq(Loop) /\ DOMAIN loops' = DOMAIN loops /\ loops'[l] = new
      /\ \A m \in DOMAIN loops : m # l => loops'[m] = loops[m]
  BY LoopUpdate
<1>2. Typed'
  BY <1>1 DEF Typed
<1>3. Swapping' => Swapping
  BY <1>1 DEF Swapping
<1>4. Loops' = Loops
  BY <1>1 DEF Loops
<1>5. Cycle => Cycle'
  BY <1>4, SameRuns DEF Cycle
<1> QED
  BY <1>2, <1>3, <1>5, SameRuns, FewerRuns DEF Keeps, Solo

LEMMA TickKeeps ==
    ASSUME Typed, NEW l \in DOMAIN loops,
           Tick(l) \/ LoopEnds(l) \/ AwaitRun(l) \/ CheckConnected(l)
    PROVE  Keeps
<1>1. loops[l] \in Loop
  BY LoopTyped
<1>2. CASE Tick(l)
  <2> DEFINE new == [loops[l] EXCEPT !.pc = "tick"]
  <2>1. new \in Loop /\ new.kind = loops[l].kind /\ new.pc = "tick"
        /\ loops' = [loops EXCEPT ![l] = new]
    BY <1>1, <1>2 DEF Tick, Moves, Loop
  <2>2. UNCHANGED <<runs, current, started, closing>> /\ late' \in Nat
    BY <1>2 DEF Tick, sdk, Typed
  <2> HIDE DEF new
  <2> QED
    BY <2>1, <2>2, LoopGoesOn
<1>3. CASE LoopEnds(l)
  <2>1. Done \in Loop /\ Done.kind = "kick" /\ Done.pc = "done" /\ loops[l].kind = "closed"
        /\ loops' = [loops EXCEPT ![l] = Done]
    BY <1>3 DEF LoopEnds, Done, Loop
  <2>2. UNCHANGED <<runs, current, started, closing>> /\ late' \in Nat
    BY <1>3 DEF LoopEnds, sdk, Typed
  <2> QED
    BY <2>1, <2>2, LoopGoesOn
<1>4. CASE AwaitRun(l)
  <2> DEFINE new == [loops[l] EXCEPT !.pc = "rebuild", !.run = 0]
  <2>1. new \in Loop /\ new.kind = loops[l].kind /\ new.pc = "rebuild" /\ loops[l].pc = "await"
        /\ loops' = [loops EXCEPT ![l] = new]
    BY <1>1, <1>4 DEF AwaitRun, At, Loop
  <2>2. UNCHANGED <<runs, current, started, closing>> /\ late' \in Nat
    BY <1>4 DEF AwaitRun, sdk, Typed
  <2> HIDE DEF new
  <2> QED
    BY <2>1, <2>2, LoopGoesOn
<1>5. CASE CheckConnected(l)
  <2>1. UNCHANGED <<runs, current, started, closing>> /\ late' \in Nat
    BY <1>5 DEF CheckConnected, sdk, Typed
  <2>2. loops' = [loops EXCEPT ![l] = IF @.kind = "kick" THEN Done ELSE NewLoop(@.kind)]
    BY <1>5 DEF CheckConnected
  <2>3. CASE loops[l].kind = "kick"
    <3>1. Done \in Loop /\ Done.kind = "kick" /\ Done.pc = "done"
          /\ loops' = [loops EXCEPT ![l] = Done]
      BY <2>2, <2>3 DEF Done, Loop
    <3> QED
      BY <2>1, <2>3, <3>1, LoopGoesOn
  <2>4. CASE loops[l].kind # "kick"
    <3>1. loops[l].kind \in {"loop", "closed"}
      BY <1>1, <2>4 DEF Loop
    <3>2. PICK new \in Loop : /\ new = NewLoop(loops[l].kind) /\ new.pc = "wait"
                              /\ new.kind = loops[l].kind
      BY <3>1, NewLoopTyped
    <3>3. loops' = [loops EXCEPT ![l] = new]
      BY <2>2, <2>4, <3>2
    <3> QED
      BY <2>1, <3>2, <3>3, LoopGoesOn
  <2> QED
    BY <2>3, <2>4
<1> QED
  BY <1>2, <1>3, <1>4, <1>5

LEMMA KickKeeps ==
    ASSUME Typed, Kick
    PROVE  Keeps
<1>1. UNCHANGED <<runs, current, started, late, closing>>
  BY DEF Kick, sdk
<1>2. PICK loop \in Loop : loop = NewLoop("kick") /\ loop.kind = "kick" /\ loop.pc = "tick"
  BY NewKickTyped
<1>3. PICK i : i = Place(loops, FreeLoops)
  OBVIOUS
<1>4. /\ loops' \in Seq(Loop) /\ i \in DOMAIN loops' /\ loops'[i] = loop
      /\ DOMAIN loops' = DOMAIN loops \cup {i}
      /\ \A j \in DOMAIN loops : j # i => loops'[j] = loops[j]
      /\ i \in DOMAIN loops => loops[i] = Done
  <2>1. loops' = Put(loops, i, loop)
    BY <1>2, <1>3 DEF Kick
  <2> QED
    BY <1>3, <2>1, LoopAdded
<1>5. Typed'
  BY <1>1, <1>4 DEF Typed
<1>6. Swapping' => Swapping
  BY <1>2, <1>4 DEF Swapping
<1>7. Loops' = Loops
  BY <1>2, <1>4 DEF Loops, Done
<1>8. Cycle => Cycle'
  BY <1>1, <1>7, SameRuns DEF Cycle
<1> QED
  BY <1>1, <1>5, <1>6, <1>8, SameRuns, FewerRuns DEF Keeps, Solo

LEMMA CancelRunKeeps ==
    ASSUME Typed, NEW l \in DOMAIN loops, CancelRun(l)
    PROVE  Keeps
<1>1. loops[l] \in Loop /\ loops[l].pc = "tick"
  BY LoopTyped DEF CancelRun, At
<1>2. UNCHANGED <<current, started, late, closing>> /\ current \in DOMAIN runs /\ current \in Nat
  BY DEF CancelRun, Typed
<1> DEFINE cancelled == [runs[current] EXCEPT !.cancelled = Alive(current)]
<1>3. runs[current] \in Run
  BY <1>2, RunTyped
<1>4. /\ cancelled \in Run /\ cancelled.cancelled = Alive(current)
      /\ cancelled.at = runs[current].at /\ cancelled.callback = runs[current].callback
  BY <1>3 DEF Run, Alive
<1>5. runs' = [runs EXCEPT ![current] = cancelled]
  BY DEF CancelRun
<1> HIDE DEF cancelled
<1>6. /\ runs' \in Seq(Run) /\ DOMAIN runs' = DOMAIN runs /\ runs'[current] = cancelled
      /\ \A s \in DOMAIN runs : s # current => runs'[s] = runs[s]
      /\ \A s \in DOMAIN runs' : runs'[s].at = "ended" => runs'[s].callback = "none"
  <2>1. cancelled.at = "ended" => cancelled.callback = "none"
    BY <1>2, <1>4 DEF Typed
  <2> QED
    BY <1>2, <1>4, <1>5, <2>1, RunUpdate
<1> DEFINE new == [loops[l] EXCEPT !.pc = "await", !.run = current]
<1>7. new \in Loop /\ new.kind = loops[l].kind /\ new.pc = "await"
  BY <1>1, <1>2 DEF Loop
<1>8. loops' = [loops EXCEPT ![l] = new]
  BY DEF CancelRun
<1> HIDE DEF new
<1>9. /\ loops' \in Seq(Loop) /\ DOMAIN loops' = DOMAIN loops /\ loops'[l] = new
      /\ \A m \in DOMAIN loops : m # l => loops'[m] = loops[m]
  BY <1>7, <1>8, LoopUpdate
<1>10. Typed'
  BY <1>2, <1>6, <1>9 DEF Typed
<1>11. ASSUME OneRun PROVE Uncancelled' = {}
  <2>1. SUFFICES ASSUME NEW s \in DOMAIN runs, runs'[s].at # "ended", ~runs'[s].cancelled
                 PROVE  FALSE
    BY <1>6 DEF Uncancelled, Alive
  <2>2. CASE s = current
    BY <1>4, <1>6, <2>1, <2>2 DEF Alive
  <2>3. CASE s # current
    <3>1. s \in Uncancelled
      BY <1>6, <2>1, <2>3 DEF Uncancelled, Alive
    <3> QED
      BY <1>11, <2>3, <3>1 DEF OneRun
  <2> QED
    BY <2>2, <2>3
<1>12. Cycle => Cycle'
  <2>1. Loops' = Loops
    BY <1>7, <1>9 DEF Loops
  <2>2. (Snapping' <=> Snapping) /\ (Stopping' <=> Stopping)
    <3>1. \A s \in DOMAIN runs : runs'[s].callback = runs[s].callback
      BY <1>4, <1>6
    <3> QED
      BY <1>6, <3>1 DEF Snapping, Stopping
  <2> QED
    BY <1>2, <2>1, <2>2 DEF Cycle
<1> QED
  BY <1>10, <1>11, <1>12 DEF Keeps, Solo, OneRun

LEMMA RebuildKeeps ==
    ASSUME Typed, NEW l \in DOMAIN loops, MaybeRebuildClient(l)
    PROVE  Keeps
<1>1. loops[l] \in Loop /\ loops[l].pc = "rebuild"
  BY LoopTyped DEF MaybeRebuildClient, At
<1>2. UNCHANGED <<current, started, late, closing>>
  BY DEF MaybeRebuildClient
<1>3. /\ runs' \in Seq(Run) /\ DOMAIN runs' = DOMAIN runs
      /\ \A r \in DOMAIN runs : /\ runs'[r].at = runs[r].at
                                /\ runs'[r].callback = runs[r].callback
                                /\ ~runs'[r].cancelled => ~runs[r].cancelled
  <2>1. runs \in Seq(Run) /\ DOMAIN runs = 1..Len(runs) /\ Len(runs) \in Nat
    BY DEF Typed
  <2>2. CASE WantsRebuild
    <3>1. runs' = [r \in DOMAIN runs |->
              IF Alive(r) THEN [runs[r] EXCEPT !.replaced = TRUE, !.cancelled = TRUE]
              ELSE runs[r]]
      BY <2>2 DEF MaybeRebuildClient
    <3>2. ASSUME NEW r \in DOMAIN runs
          PROVE  /\ runs'[r] \in Run /\ runs'[r].at = runs[r].at
                 /\ runs'[r].callback = runs[r].callback
                 /\ ~runs'[r].cancelled => ~runs[r].cancelled
      <4>1. runs[r] \in Run
        BY RunTyped
      <4> QED
        BY <3>1, <4>1 DEF Run
    <3>3. DOMAIN runs' = DOMAIN runs /\ runs' = [r \in DOMAIN runs |-> runs'[r]]
      BY <3>1
    <3>4. runs' \in [1..Len(runs) -> Run]
      BY <2>1, <3>2, <3>3
    <3> QED
      BY <2>1, <3>2, <3>3, <3>4
  <2>3. CASE ~WantsRebuild
    BY <2>1, <2>3 DEF MaybeRebuildClient
  <2> QED
    BY <2>2, <2>3
<1> DEFINE new == [loops[l] EXCEPT !.pc = "spawn"]
<1>4. new \in Loop /\ new.kind = loops[l].kind /\ new.pc = "spawn"
  BY <1>1 DEF Loop
<1>5. loops' = [loops EXCEPT ![l] = new]
  BY DEF MaybeRebuildClient, Moves
<1> HIDE DEF new
<1>6. /\ loops' \in Seq(Loop) /\ DOMAIN loops' = DOMAIN loops /\ loops'[l] = new
      /\ \A m \in DOMAIN loops : m # l => loops'[m] = loops[m]
  BY <1>4, <1>5, LoopUpdate
<1>7. Typed'
  BY <1>2, <1>3, <1>6 DEF Typed
<1>8. Uncancelled' \subseteq Uncancelled
  BY <1>3 DEF Uncancelled, Alive
<1>9. Swapping
  BY <1>1 DEF Swapping
<1>10. Cycle => Cycle'
  <2>1. Loops' = Loops
    BY <1>4, <1>6 DEF Loops
  <2>2. (Snapping' <=> Snapping) /\ (Stopping' <=> Stopping)
    BY <1>3 DEF Snapping, Stopping
  <2> QED
    BY <1>2, <2>1, <2>2 DEF Cycle
<1> QED
  BY <1>2, <1>7, <1>8, <1>9, <1>10, FewerRuns DEF Keeps, Solo

LEMMA SpawnRunKeeps ==
    ASSUME Typed, NEW l \in DOMAIN loops, SpawnRun(l)
    PROVE  Keeps
<1>1. loops[l] \in Loop /\ loops[l].pc = "spawn"
  BY LoopTyped DEF SpawnRun, At
<1>2. UNCHANGED <<started, late, closing>>
  BY DEF SpawnRun
<1>3. PICK run \in Run : run = NewRun /\ run.at = "dial" /\ run.callback = "none"
  BY NewRunTyped
<1>4. PICK i : i = Place(runs, FreeRuns)
  OBVIOUS
<1>5. PICK t : t = runs'
  OBVIOUS
<1>6. t = Put(runs, i, run) /\ current' = i
  BY <1>3, <1>4, <1>5 DEF SpawnRun
<1>7. /\ t \in Seq(Run) /\ i \in DOMAIN t /\ t[i] = run
      /\ DOMAIN t = DOMAIN runs \cup {i}
      /\ \A j \in DOMAIN runs : j # i => t[j] = runs[j]
      /\ i \in DOMAIN runs => i \in FreeRuns
  <2>1. Holds(runs, Run, FreeRuns, run)
    BY DEF Typed, FreeRuns, Holds
  <2> QED
    BY <1>4, <1>6, <2>1, PutInPlace
<1>8. i \in DOMAIN runs => runs[i].callback = "none"
  BY <1>7 DEF FreeRuns, Alive, Typed
<1> DEFINE new == [loops[l] EXCEPT !.pc = "check"]
<1>9. new \in Loop /\ new.kind = loops[l].kind /\ new.pc = "check"
  BY <1>1 DEF Loop
<1>10. loops' = [loops EXCEPT ![l] = new]
  BY DEF SpawnRun, Moves
<1> HIDE DEF new
<1>11. /\ loops' \in Seq(Loop) /\ DOMAIN loops' = DOMAIN loops /\ loops'[l] = new
       /\ \A m \in DOMAIN loops : m # l => loops'[m] = loops[m]
  BY <1>9, <1>10, LoopUpdate
<1>12. \A r \in DOMAIN runs' : runs'[r].at = "ended" => runs'[r].callback = "none"
  BY <1>3, <1>5, <1>7 DEF Typed
<1>13. Typed'
  BY <1>2, <1>5, <1>6, <1>7, <1>11, <1>12 DEF Typed
<1>14. ASSUME Solo, ~Overlaps' PROVE OneRun'
  <2>1. Uncancelled = {}
    BY <1>1, <1>14 DEF Solo, OneRun, Swapping
  <2>2. Uncancelled' \subseteq {current'}
    BY <1>5, <1>6, <1>7, <2>1 DEF Uncancelled, Alive
  <2>3. ASSUME Swapping' PROVE FALSE
    <3>1. PICK m \in DOMAIN loops' : loops'[m].pc \in {"await", "rebuild", "spawn"}
      BY <2>3 DEF Swapping
    <3>2. m # l /\ l \in DOMAIN loops' /\ loops'[l].pc = "check"
      BY <1>9, <1>11, <3>1
    <3>3. Overlaps'
      BY <3>1, <3>2 DEF Overlaps, InTick
    <3> QED
      BY <1>14, <3>3
  <2> QED
    BY <2>2, <2>3 DEF OneRun
<1>15. Cycle => Cycle'
  <2>1. Loops' = Loops
    BY <1>9, <1>11 DEF Loops
  <2>2. (Snapping' <=> Snapping) /\ (Stopping' <=> Stopping)
    BY <1>3, <1>5, <1>7, <1>8 DEF Snapping, Stopping
  <2> QED
    BY <1>2, <2>1, <2>2 DEF Cycle
<1> QED
  BY <1>13, <1>14, <1>15 DEF Keeps, Solo

-----------------------------------------------------------------------------
(* The invariant in every step.                                             *)

LEMMA StepKeeps ==
    ASSUME Typed, ReconnectStep
    PROVE  Keeps
<1>1. CASE CooldownOver
  <2>1. UNCHANGED <<runs, current, started, loops, late, closing>>
    BY <1>1 DEF CooldownOver, sdk, prober
  <2> QED
    BY <2>1 DEF Keeps, Solo, Typed, OneRun, Cycle, Uncancelled, Alive, Swapping, Loops, Snapping,
                Stopping
<1> QED
  BY <1>1, GoesUpKeeps, SdkKeeps, StartLoopKeeps, StopClosesKeeps, SelfStopKeeps, TickKeeps,
     KickKeeps, CancelRunKeeps, RebuildKeeps, SpawnRunKeeps
     DEF ReconnectStep, RunStep, LoopStep

LEMMA ConnectsStep == Connects /\ [ReconnectNext]_<<reconnectVars, overlap>> => Connects'
<1> SUFFICES ASSUME Connects, [ReconnectNext]_<<reconnectVars, overlap>> PROVE Connects'
  OBVIOUS
<1>1. CASE ReconnectNext
  <2>1. Keeps
    BY <1>1, StepKeeps DEF ReconnectNext, Noting, Connects
  <2>2. overlap' = (overlap \/ Overlaps')
    BY <1>1 DEF ReconnectNext, Noting
  <2> QED
    BY <2>1, <2>2 DEF Connects, Keeps, Solo
<1>2. CASE UNCHANGED <<reconnectVars, overlap>>
  BY <1>2 DEF reconnectVars, Connects, Typed, Overlaps, InTick, OneRun, Cycle, Uncancelled, Alive,
              Swapping, Loops, Snapping, Stopping
<1> QED
  BY <1>1, <1>2

(***************************************************************************)
(* ReconnectSDK cancels the run it replaces before it starts the next, and *)
(* waits at most two seconds for it: until two ticks overlap, whatever run *)
(* is not the adapter's current one has been cancelled.                    *)
(***************************************************************************)
THEOREM OneConnectionAlways == ReconnectSpec => []OneConnection
<1>1. Connects => OneConnection
  BY DEF Connects, OneRun, OneConnection
<1> QED
  BY <1>1, ConnectsInit, ConnectsStep, PTL DEF ReconnectSpec

(***************************************************************************)
(* Start and Stop of the prober come from callbacks of the SDK, and from a *)
(* tick that finds the connection up: until two of them overlap, the       *)
(* prober has a loop exactly when it is started.                           *)
(***************************************************************************)
THEOREM TicksIffStartedAlways == ReconnectSpec => []TicksIffStarted
<1>1. Connects => TicksIffStarted
  <2> SUFFICES ASSUME Connects, Quiet, ~overlap PROVE Loops # {} <=> started
    BY DEF TicksIffStarted
  <2>1. closing = 0 /\ ~Snapping /\ ~Stopping
    BY DEF Quiet, Connects, Typed, Snapping, Stopping
  <2> QED
    BY <2>1 DEF Connects, Cycle
<1> QED
  BY <1>1, ConnectsInit, ConnectsStep, PTL DEF ReconnectSpec
=============================================================================
