---------------------------- MODULE Codex_proofs ----------------------------
(***************************************************************************)
(* Proofs about the codex bridge.  Of CodexSession, for every set of       *)
(* callers and approvals, every capacity of the events channel and every   *)
(* number of frames and answers: no caller is stranded, and the user's     *)
(* answer goes to the approval registered last.  Of CodexTurns, for every  *)
(* set of turns and every bound: the busy guard of the driver spans the    *)
(* turn, and a turn that said anything is reported by one Done, after all  *)
(* that it said.  The two share no variable.                               *)
(***************************************************************************)
EXTENDS CodexSession, CodexTurns, SequenceTheorems, FiniteSetTheorems, TLAPS

-----------------------------------------------------------------------------
(* Requests.                                                                *)

\* A request that is written or waits and whose channel is empty is registered, and one
\* that waits once the client is closed is about to be failed by whoever has marked it closed.
Taking == reader \in {"take", "fail, take"} \/ lifecycle = "take"
RequestsTyped ==
    /\ call \in [Callers -> {"idle", "register", "write", "wait", "announce", "done", "failed"}]
    /\ slot \in [Callers -> {"empty", "answer", "error"}]
    /\ pending \subseteq Callers
    /\ rpcClosed \in BOOLEAN
Registered == \A c \in Callers : call[c] \in {"write", "wait"} /\ slot[c] = "empty" => c \in pending
ClosedFailed == rpcClosed /\ ~Taking => \A c \in pending : call[c] # "wait"
Requests == RequestsTyped /\ Registered /\ ClosedFailed

LEMMA RequestsInit == CodexInit => Requests
<1> SUFFICES ASSUME CodexInit PROVE Requests
  OBVIOUS
<1>1. RequestsTyped
  BY DEF CodexInit, RequestsTyped
<1>2. Registered /\ ClosedFailed
  BY DEF CodexInit, Registered, ClosedFailed
<1> QED
  BY <1>1, <1>2 DEF Requests

LEMMA RequestsMarked ==
    ASSUME Requests, FailMarks, UNCHANGED call, Taking'
    PROVE  Requests'
BY DEF FailMarks, Requests, RequestsTyped, Registered, ClosedFailed

LEMMA RequestsTaken ==
    ASSUME Requests, FailTakes, UNCHANGED call
    PROVE  Requests'
BY DEF FailTakes, Requests, RequestsTyped, Registered, ClosedFailed

LEMMA RequestsCaller ==
    ASSUME Requests, NEW c \in Callers, Caller(c)
    PROVE  Requests'
<1>1. Taking' = Taking
  BY DEF Caller, CallerRuns, CallerOnly, pump, Taking
<1>2. CASE RequestBegin(c)
  BY <1>1, <1>2 DEF RequestBegin, Goes, rpc, Requests, RequestsTyped, Registered, ClosedFailed
<1>3. CASE RequestRegister(c)
  BY <1>1, <1>3 DEF RequestRegister, Goes, Requests, RequestsTyped, Registered, ClosedFailed
<1>4. CASE RequestReturn(c)
  BY <1>1, <1>4 DEF RequestReturn, Goes, rpc, Requests, RequestsTyped, Registered, ClosedFailed
<1>5. CASE RequestWrite(c)
  BY <1>1, <1>5 DEF RequestWrite, Goes, Requests, RequestsTyped, Registered, ClosedFailed
<1>6. CASE Announce(c) /\ UNCHANGED rpc
  BY <1>1, <1>6 DEF Announce, Goes, rpc, Requests, RequestsTyped, Registered, ClosedFailed
<1>7. CASE RequestCancelled(c)
  BY <1>1, <1>7 DEF RequestCancelled, Goes, Requests, RequestsTyped, Registered, ClosedFailed
<1> QED
  BY <1>2, <1>5, <1>6, <1>7, <1>3, <1>4 DEF Caller, CallerRuns

LEMMA RequestsReader ==
    ASSUME Requests, Reader
    PROVE  Requests'
<1>1. UNCHANGED <<call, lifecycle>>
  BY DEF Reader
<1>2. ASSUME NEW c \in Callers, DispatchResponse(c) PROVE Requests'
  BY <1>1, <1>2 DEF DispatchResponse, Taking, Requests, RequestsTyped, Registered, ClosedFailed
<1>3. CASE ReaderFails
  <2>1. CASE reader \in {"mark", "fail"}
    <3>1. FailMarks /\ Taking'
      BY <1>3, <2>1 DEF ReaderFails, FailPending, Taking
    <3> QED
      BY <1>1, <3>1, RequestsMarked
  <2>2. CASE reader \in {"take", "fail, take"}
    <3>1. FailTakes
      BY <1>3, <2>2 DEF ReaderFails, FailPending
    <3> QED
      BY <1>1, <3>1, RequestsTaken
  <2> QED
    BY <1>3, <2>1, <2>2 DEF ReaderFails
<1>4. ASSUME UNCHANGED rpc, reader \notin {"take", "fail, take"} PROVE Requests'
  BY <1>1, <1>4 DEF rpc, Taking, Requests, RequestsTyped, Registered, ClosedFailed
<1>5. CASE OnNotification \/ (\E a \in Asks : OnServerRequest(a)) \/ OnBadFrame \/ ScanEnds
  BY <1>4, <1>5 DEF OnNotification, OnServerRequest, OnBadFrame, ScanEnds, Reads
<1>6. CASE ReaderDelivers \/ EmitWireErrorDeclines \/ EmitWireErrorCloses
  BY <1>4, <1>6 DEF ReaderDelivers, EmitWireErrorDeclines, EmitWireErrorCloses
<1> QED
  BY <1>2, <1>3, <1>5, <1>6 DEF Reader, ReaderReads

LEMMA RequestsLifecycle ==
    ASSUME Requests, Lifecycle
    PROVE  Requests'
<1>1. UNCHANGED <<call, reader>>
  BY DEF Lifecycle, pump
<1>2. CASE LifecycleFails
  <2>1. (FailMarks /\ Taking') \/ FailTakes
    BY <1>2 DEF LifecycleFails, FailPending, Taking
  <2> QED
    BY <1>1, <2>1, RequestsMarked, RequestsTaken
<1>3. ASSUME UNCHANGED rpc, lifecycle # "take" PROVE Requests'
  BY <1>1, <1>3 DEF rpc, Taking, Requests, RequestsTyped, Registered, ClosedFailed
<1>4. CASE LifecycleWait \/ LifecycleReports \/ LifecycleEnds
  BY <1>3, <1>4 DEF LifecycleWait, LifecycleReports, LifecycleEnds
<1> QED
  BY <1>2, <1>4 DEF Lifecycle

LEMMA RequestsStep ==
    ASSUME Requests, [CodexNext]_codexVars
    PROVE  Requests'
<1>1. ASSUME UNCHANGED <<rpc, call, pump, lifecycle>> PROVE Requests'
  BY <1>1 DEF rpc, pump, Taking, Requests, RequestsTyped, Registered, ClosedFailed
<1>2. CASE ChildStep \/ ConsumerReads \/ Close \/ Approval \/ UNCHANGED codexVars
  BY <1>1, <1>2 DEF ChildStep, ConsumerReads, Close, Approval, codexVars
<1> QED
  BY <1>2, RequestsCaller, RequestsReader, RequestsLifecycle DEF CodexNext

(***************************************************************************)
(* No request waits for an answer that will never come, however it overlaps*)
(* the end of the session, for any number of callers.                      *)
(***************************************************************************)
THEOREM NobodyStrandedAlways == CodexSpec => []NobodyStranded
<1>1. Requests /\ [CodexNext]_codexVars => Requests'
  BY RequestsStep
<1>2. Requests => NobodyStranded
  BY DEF Requests, RequestsTyped, Registered, ClosedFailed, Taking, NobodyStranded
<1> QED
  BY <1>1, <1>2, RequestsInit, PTL DEF CodexSpec

-----------------------------------------------------------------------------
(* Answers.                                                                 *)

\* An approval is registered under its id, unless its id is a number; then no answer has
\* a target.
KeysOK ==
    IF NumericIds THEN lastPendingID = NoKey
    ELSE \A k \in DOMAIN approvals : approvals[k] = k
Latest == KeysOK /\ AnswersGoToLatest /\ DOMAIN choice = Asks /\ DOMAIN ask = Asks

LEMMA LatestInit == CodexInit => Latest
<1> SUFFICES ASSUME CodexInit PROVE Latest
  OBVIOUS
<1>1. DOMAIN approvals = {}
  BY DEF CodexInit
<1>2. lastPendingID = NoKey /\ latest = NoKey /\ DOMAIN choice = Asks /\ DOMAIN ask = Asks
  BY DEF CodexInit
<1>3. ~Pending(latest)
  BY <1>2, AsksAssumption DEF Pending
<1> QED
  BY <1>1, <1>2, <1>3 DEF Latest, KeysOK, AnswersGoToLatest

LEMMA LatestRegistered ==
    ASSUME Latest, NEW a \in Asks, OnServerRequest(a)
    PROVE  Latest'
<1>1. /\ approvals' = [k \in DOMAIN approvals \cup {Key(a)} |->
                         IF k = Key(a) THEN a ELSE approvals[k]]
      /\ lastPendingID' = Key(a) /\ latest' = a /\ choice' = choice
      /\ DOMAIN ask' = DOMAIN ask
  BY DEF OnServerRequest
<1>2. CASE NumericIds
  BY <1>1, <1>2 DEF Latest, KeysOK, AnswersGoToLatest, Key
<1>3. CASE ~NumericIds
  BY <1>1, <1>3 DEF Latest, KeysOK, AnswersGoToLatest, Key
<1> QED
  BY <1>2, <1>3

LEMMA LatestAnswered ==
    ASSUME Latest, SendPermission
    PROVE  Latest'
<1>1. /\ ~NumericIds /\ lastPendingID \in DOMAIN approvals
      /\ approvals[lastPendingID] = latest
  BY DEF SendPermission, Latest, KeysOK, AnswersGoToLatest
<1>2. /\ choice' = [choice EXCEPT ![latest] = IF @ = "none" THEN "user" ELSE @]
      /\ approvals' = [k \in DOMAIN approvals \ {lastPendingID} |-> approvals[k]]
      /\ lastPendingID' = NoKey /\ UNCHANGED <<ask, latest>>
  BY <1>1 DEF SendPermission
<1>3. ~Pending(latest)'
  BY <1>2 DEF Latest, Pending
<1> QED
  BY <1>1, <1>2, <1>3 DEF Latest, KeysOK, AnswersGoToLatest

\* The wire error declines the latest with the others.
LEMMA LatestDeclined ==
    ASSUME Latest, EmitWireErrorDeclines
    PROVE  Latest'
<1>1. /\ choice' = [a \in Asks |->
            IF choice[a] = "none" /\ \E k \in DOMAIN approvals : approvals[k] = a
            THEN "decline" ELSE choice[a]]
      /\ DOMAIN approvals' = {} /\ lastPendingID' = NoKey /\ UNCHANGED <<ask, latest>>
  BY DEF EmitWireErrorDeclines
<1>2. ~NumericIds => ~Pending(latest)'
  <2> SUFFICES ASSUME ~NumericIds, Pending(latest)' PROVE FALSE
    OBVIOUS
  <2>1. latest \in Asks /\ ask[latest] \in {"shown", "waiting"} /\ choice'[latest] = "none"
    BY <1>1 DEF Pending
  <2>2. choice[latest] = "none"
    BY <1>1, <2>1
  <2>3. lastPendingID \in DOMAIN approvals /\ approvals[lastPendingID] = latest
    BY <2>1, <2>2, AsksAssumption DEF Latest, AnswersGoToLatest, Pending
  <2> QED
    BY <1>1, <2>1, <2>3
<1> QED
  BY <1>1, <1>2 DEF Latest, KeysOK, AnswersGoToLatest

LEMMA LatestUnregistered ==
    ASSUME Latest, NEW a \in Asks, Unregisters(a)
    PROVE  Latest'
<1>1. /\ ask[a] = "decided" /\ ask' = [ask EXCEPT ![a] = "over"]
      /\ approvals' = [k \in DOMAIN approvals \ {Key(a)} |-> approvals[k]]
      /\ lastPendingID' = IF lastPendingID = Key(a) THEN NoKey ELSE lastPendingID
      /\ UNCHANGED <<choice, latest>>
  BY DEF Unregisters
<1>2. CASE NumericIds
  BY <1>1, <1>2 DEF Latest, KeysOK, AnswersGoToLatest
<1>3. CASE ~NumericIds
  <2>1. Pending(latest)' => Pending(latest) /\ latest # a
    BY <1>1 DEF Latest, Pending
  <2>2. Pending(latest)' => lastPendingID = latest /\ lastPendingID' = latest
    BY <1>1, <1>3, <2>1 DEF Latest, AnswersGoToLatest, Key
  <2> QED
    BY <1>1, <1>3, <2>2 DEF Latest, KeysOK, AnswersGoToLatest, Key
<1> QED
  BY <1>2, <1>3

LEMMA LatestStep ==
    ASSUME Latest, [CodexNext]_codexVars
    PROVE  Latest'
\* What the steps that touch no registration do to the approvals.
<1>1. ASSUME UNCHANGED <<approvals, lastPendingID, choice, latest>>, DOMAIN ask' = DOMAIN ask,
             \A a \in Asks : ask'[a] \in {"shown", "waiting"} => ask[a] \in {"shown", "waiting"}
      PROVE  Latest'
  BY <1>1 DEF Latest, KeysOK, AnswersGoToLatest, Pending
<1>2. ASSUME UNCHANGED permissions PROVE Latest'
  BY <1>1, <1>2 DEF permissions
<1>3. CASE ChildStep
  <2>1. ASSUME NEW a \in Asks, ask' = [ask EXCEPT ![a] = "asked"],
               UNCHANGED <<approvals, lastPendingID, choice, latest>>
        PROVE  Latest'
    BY <1>1, <2>1 DEF Latest
  <2> QED
    BY <1>2, <1>3, <2>1 DEF ChildStep, ChildAsks
<1>4. CASE Approval
  <2>1. ASSUME NEW a \in Asks, Decides(a) PROVE Latest'
    BY <1>1, <2>1 DEF Decides, Latest
  <2> QED
    BY <1>4, <2>1, LatestAnswered, LatestUnregistered DEF Approval
<1>5. CASE Reader
  <2>1. CASE ReaderDelivers
    BY <1>1, <2>1 DEF ReaderDelivers, Latest
  <2>2. CASE ReaderReads
    BY <1>2, <2>2, LatestRegistered
       DEF ReaderReads, DispatchResponse, OnNotification, OnBadFrame, ScanEnds
  <2>3. CASE ReaderFails \/ EmitWireErrorCloses
    BY <1>2, <2>3 DEF ReaderFails, EmitWireErrorCloses
  <2> QED
    BY <1>5, <2>1, <2>2, <2>3, LatestDeclined DEF Reader
<1>6. CASE ConsumerReads \/ Close \/ Lifecycle \/ \E c \in Callers : Caller(c)
  BY <1>2, <1>6 DEF ConsumerReads, Close, Lifecycle, Caller, CallerRuns, CallerOnly
<1>7. CASE UNCHANGED codexVars
  BY <1>2, <1>7 DEF codexVars
<1> QED
  BY <1>3, <1>4, <1>5, <1>6, <1>7 DEF CodexNext

(***************************************************************************)
(* The next answer of the user is for the approval registered last, for any*)
(* number of approvals open at once and in whatever order they are decided *)
(* and unregistered.                                                       *)
(***************************************************************************)
THEOREM AnswersGoToLatestAlways == CodexSpec => []AnswersGoToLatest
<1>1. Latest /\ [CodexNext]_codexVars => Latest'
  BY LatestStep
<1>2. Latest => AnswersGoToLatest
  BY DEF Latest
<1> QED
  BY <1>1, <1>2, LatestInit, PTL DEF CodexSpec

-----------------------------------------------------------------------------
(* CodexTurns: what is under way, and whom the busy guard is held for.      *)

EndTypes == {"completed", "idle"}
Frame == [type : {"response", "error", "started", "message", "tool"} \cup EndTypes,
          turn : Turns \cup {NoTurn}]
Start == [turn : Turns, thread : Nat]
Typed ==
    /\ frames \in Seq(Frame) /\ starts \in Seq(Start) /\ Len(starts) <= 1
    /\ serving \in Start \cup {NotServing} /\ thread \in Nat
    /\ DOMAIN sender = Turns

IsEnd(i) == i \in DOMAIN frames /\ frames[i].type \in EndTypes
IsStarted(i) == i \in DOMAIN frames /\ frames[i].type = "started"
IsError(i) == i \in DOMAIN frames /\ frames[i].type = "error"
Rejected(t) == t \in Turns /\ sender[t] = "rejected"

\* No signal that is still to be handled will end a turn.
Quiet ==
    /\ \A i : ~IsStarted(i)
    /\ doneEmitted \/ \A i : ~IsEnd(i)
NoRefusal == (\A i : ~IsError(i)) /\ (\A t : ~Rejected(t))

\* The guard is free only when nothing is under way; what is under way is one of a
\* request, a refusal, or a turn; and a signal handled before the "started" of a turn
\* is one too many of the turn before it.
Guarded ==
    /\ ~busy => Quiet /\ NoRefusal /\ starts = <<>> /\ serving = NotServing
    /\ starts # <<>> => Quiet /\ NoRefusal /\ serving = NotServing
    /\ ~NoRefusal => Quiet /\ starts = <<>> /\ serving = NotServing
    /\ \A i, j : IsError(i) /\ IsError(j) => i = j
    /\ \A t, u : Rejected(t) /\ Rejected(u) => t = u
    /\ \A i, t : ~(IsError(i) /\ Rejected(t))
    /\ serving # NotServing =>
          /\ \A i, j : IsEnd(i) /\ IsStarted(j) => i < j
          /\ doneEmitted => \E j : IsStarted(j)
          /\ ~doneEmitted => \A i : ~IsEnd(i)
    /\ \A i, j : IsStarted(i) /\ IsStarted(j) => i = j
    /\ \A i, j : IsEnd(i) /\ IsStarted(j) /\ i < j => doneEmitted
Inv == Typed /\ Guarded

LEMMA InvInit == TurnsInit => Inv
<1> SUFFICES ASSUME TurnsInit PROVE Inv
  OBVIOUS
<1>1. Typed
  BY DEF TurnsInit, Typed
<1>2. Guarded
  BY DEF TurnsInit, Guarded, Quiet, NoRefusal, IsEnd, IsStarted, IsError, Rejected
<1> QED
  BY <1>1, <1>2 DEF Inv

-----------------------------------------------------------------------------
(* How the frames in flight change.                                         *)

SameSignals ==
    /\ \A i : IsEnd(i)' <=> IsEnd(i)
    /\ \A i : IsStarted(i)' <=> IsStarted(i)
    /\ \A i : IsError(i)' <=> IsError(i)

LEMMA AppendFrame ==
    ASSUME Typed, NEW f \in Frame, frames' = Append(frames, f)
    PROVE  /\ frames' \in Seq(Frame)
           /\ \A i : i \in DOMAIN frames' <=> i \in DOMAIN frames \/ i = Len(frames) + 1
           /\ \A i \in DOMAIN frames : frames'[i] = frames[i] /\ i < Len(frames) + 1
           /\ frames'[Len(frames) + 1] = f
<1>1. frames \in Seq(Frame)
  BY DEF Typed
<1> QED
  BY <1>1

LEMMA HandleFrame ==
    ASSUME Typed, NEW types, Handles(types)
    PROVE  /\ frames' \in Seq(Frame) /\ Head(frames) \in Frame
           /\ 1 \in DOMAIN frames /\ frames[1] = Head(frames) /\ Head(frames).type \in types
           /\ \A i : i \in DOMAIN frames' <=> i \in Nat \ {0} /\ i + 1 \in DOMAIN frames
           /\ \A i \in DOMAIN frames' : frames'[i] = frames[i + 1]
           /\ \A i \in DOMAIN frames : i = 1 \/ (i - 1 \in DOMAIN frames' /\ i = (i - 1) + 1)
<1>1. frames \in Seq(Frame) /\ frames # <<>> /\ frames' = Tail(frames)
  BY DEF Typed, Handles
<1>2. Head(frames) \in Frame /\ Head(frames).type \in types
  BY <1>1 DEF Handles
<1> QED
  BY <1>1, <1>2

\* Nothing about the guard has changed.
LEMMA GuardedSame ==
    ASSUME Guarded, SameSignals, \A t : Rejected(t)' => Rejected(t),
           UNCHANGED <<doneEmitted, busy, starts, serving>>
    PROVE  Guarded'
<1>1. Quiet' <=> Quiet
  BY DEF Quiet, SameSignals
<1>2. NoRefusal => NoRefusal'
  BY DEF NoRefusal, SameSignals
<1> QED
  BY <1>1, <1>2 DEF Guarded, SameSignals

-----------------------------------------------------------------------------
(* The driver.                                                              *)

LEMMA DriverInv ==
    ASSUME Inv, Driver, ~StopInterrupts
    PROVE  Inv'
<1> USE DEF Inv
<1>1. frames' = frames /\ doneEmitted' = doneEmitted /\ serving' = serving
  BY DEF Driver, SendBlocks, SendBlocksResumes, StopBegins, StopWaits, New, translator, server
<1>2. SameSignals
  BY <1>1 DEF SameSignals, IsEnd, IsStarted, IsError
<1>3. ASSUME NEW t \in Turns, SendBlocks(t) PROVE Inv'
  <2>1. CASE busy
    <3>1. sender' = [sender EXCEPT ![t] = "refused"] /\ UNCHANGED <<busy, starts, thread>>
      BY <1>3, <2>1 DEF SendBlocks
    <3>2. \A u : Rejected(u)' => Rejected(u)
      BY <3>1 DEF Typed, Rejected
    <3> QED
      BY <1>1, <1>2, <3>1, <3>2, GuardedSame DEF Typed
  <2>2. CASE ~busy
    <3>1. /\ sender' = [sender EXCEPT ![t] = "waiting"] /\ busy' = TRUE /\ thread' = thread
          /\ starts' = Append(starts, [turn |-> t, thread |-> thread])
      BY <1>3, <2>2 DEF SendBlocks
    <3>2. \A u : Rejected(u)' => Rejected(u)
      BY <3>1 DEF Typed, Rejected
    <3>3. Quiet /\ NoRefusal /\ starts = <<>> /\ serving = NotServing
      BY <2>2 DEF Guarded
    <3>4. starts' \in Seq(Start) /\ Len(starts') = 1 /\ starts' # <<>>
      BY <3>1, <3>3 DEF Typed, Start
    <3>5. Quiet' /\ NoRefusal'
      BY <1>1, <1>2, <3>2, <3>3 DEF Quiet, NoRefusal, SameSignals
    <3>6. Guarded'
      BY <1>1, <1>2, <3>1, <3>3, <3>5 DEF Guarded, NoRefusal, SameSignals
    <3> QED
      BY <1>1, <3>1, <3>4, <3>6 DEF Typed
  <2> QED
    BY <2>1, <2>2
<1>4. ASSUME NEW t \in Turns, SendBlocksResumes(t) PROVE Inv'
  <2>1. /\ sender' = [sender EXCEPT ![t] = "done"] /\ UNCHANGED <<starts, thread>>
        /\ sender[t] = "rejected" \/ busy' = busy
        /\ busy' = busy \/ busy' = FALSE
    BY <1>4 DEF SendBlocksResumes, server
  <2>2. \A u : Rejected(u)' => Rejected(u) /\ u # t
    BY <2>1 DEF Typed, Rejected
  <2>3. CASE busy' = busy
    BY <1>1, <1>2, <2>1, <2>2, <2>3, GuardedSame DEF Typed
  <2>4. CASE busy' # busy
    <3>1. Rejected(t) /\ busy' = FALSE
      BY <2>1, <2>4 DEF Rejected
    <3>2. /\ Quiet /\ starts = <<>> /\ serving = NotServing
          /\ (\A i : ~IsError(i)) /\ \A u : Rejected(u) => u = t
      BY <3>1 DEF Guarded, NoRefusal
    <3>3. Quiet' /\ NoRefusal'
      BY <1>1, <1>2, <2>2, <3>2 DEF Quiet, NoRefusal, SameSignals
    <3>4. Guarded'
      BY <1>1, <1>2, <2>1, <3>2, <3>3 DEF Guarded, NoRefusal, SameSignals
    <3> QED
      BY <1>1, <2>1, <3>1, <3>4 DEF Typed
  <2> QED
    BY <2>3, <2>4
<1>5. CASE StopBegins \/ StopWaits \/ New
  <2>1. UNCHANGED <<busy, starts, sender>> /\ thread' \in Nat
    BY <1>5 DEF StopBegins, StopWaits, New, driver, server, Typed
  <2>2. \A u : Rejected(u)' => Rejected(u)
    BY <2>1 DEF Rejected
  <2> QED
    BY <1>1, <1>2, <2>1, <2>2, GuardedSame DEF Typed
<1> QED
  BY <1>3, <1>4, <1>5 DEF Driver

-----------------------------------------------------------------------------
(* The server.                                                              *)

LEMMA EndsInv ==
    ASSUME Inv, ServerEnds, serving # NotServing,
           UNCHANGED <<busy, starts, sender, thread, doneEmitted>>
    PROVE  Inv'
<1>1. PICK signals \in EndSignals :
         frames' = frames \o [i \in DOMAIN signals |->
                                [type |-> signals[i], turn |-> serving.turn]]
  BY DEF ServerEnds
<1>2. PICK more : more = [i \in DOMAIN signals |->
                                [type |-> signals[i], turn |-> serving.turn]]
  OBVIOUS
<1>3. signals \in Seq(EndTypes)
  BY DEF EndSignals, EndTypes
<1>4. serving.turn \in Turns \cup {NoTurn}
  BY DEF Inv, Typed, Start, NotServing
<1>5. more \in Seq(Frame) /\ \A i \in DOMAIN more : more[i].type \in EndTypes
  <2>1. DOMAIN signals = 1..Len(signals) /\ Len(signals) \in Nat
    BY <1>3
  <2>2. DOMAIN more = 1..Len(signals) /\ more = [i \in 1..Len(signals) |-> more[i]]
    BY <1>2, <2>1
  <2>3. \A i \in 1..Len(signals) : more[i] \in Frame /\ more[i].type \in EndTypes
    BY <1>2, <1>3, <1>4, <2>1 DEF Frame
  <2>4. more \in [1..Len(signals) -> Frame]
    BY <2>2, <2>3
  <2> QED
    BY <2>1, <2>2, <2>3, <2>4
<1>6. frames \in Seq(Frame) /\ frames' = frames \o more
  BY <1>1, <1>2 DEF Inv, Typed
<1>7. /\ frames' \in Seq(Frame)
      /\ \A i \in DOMAIN frames : i \in DOMAIN frames' /\ frames'[i] = frames[i]
      /\ \A i \in DOMAIN frames' : \/ i \in DOMAIN frames
                                   \/ /\ frames'[i].type \in EndTypes
                                      /\ \A j \in DOMAIN frames : j < i
  BY <1>5, <1>6
<1>8. /\ \A i : IsStarted(i)' <=> IsStarted(i)
      /\ \A i : IsError(i)' <=> IsError(i)
      /\ \A i : IsEnd(i)' => IsEnd(i) \/ \A j \in DOMAIN frames : j < i
  BY <1>7 DEF IsStarted, IsError, IsEnd, EndTypes
<1>9. serving' = NotServing
  BY DEF ServerEnds
<1>10. NoRefusal' /\ busy /\ starts = <<>>
  BY <1>8 DEF Inv, Guarded, NoRefusal, Rejected
<1>11. \A i, j : IsEnd(i)' /\ IsStarted(j)' /\ i < j => doneEmitted
  BY <1>6, <1>8 DEF Inv, Guarded, IsStarted, IsEnd
<1>12. Guarded'
  BY <1>8, <1>9, <1>10, <1>11 DEF Inv, Guarded, Rejected
<1>13. Typed'
  BY <1>7, <1>9 DEF Inv, Typed
<1> QED
  BY <1>12, <1>13 DEF Inv

LEMMA StopInv ==
    ASSUME Inv, StopInterrupts
    PROVE  Inv'
<1>1. UNCHANGED <<busy, starts, sender, thread, doneEmitted>>
  BY DEF StopInterrupts, driver, translator
<1>2. CASE serving = [turn |-> stop.turn, thread |-> stop.thread]
  <2>1. serving # NotServing
    <3>1. "thread" \in DOMAIN serving /\ "thread" \notin DOMAIN NotServing
      BY <1>2 DEF NotServing
    <3> QED
      BY <3>1
  <2> QED
    BY <1>1, <1>2, <2>1, EndsInv DEF StopInterrupts
<1>3. CASE serving # [turn |-> stop.turn, thread |-> stop.thread]
  <2>1. UNCHANGED <<frames, serving>>
    BY <1>3 DEF StopInterrupts
  <2>2. SameSignals /\ \A t : Rejected(t)' => Rejected(t)
    BY <1>1, <2>1 DEF SameSignals, IsEnd, IsStarted, IsError, Rejected
  <2> QED
    BY <1>1, <2>1, <2>2, GuardedSame DEF Inv, Typed
<1> QED
  BY <1>2, <1>3

LEMMA OneStart == Typed /\ starts # <<>> => Len(starts) = 1
<1>1. Typed => starts \in Seq(Start) /\ Len(starts) \in Nat /\ Len(starts) <= 1
  BY DEF Typed
<1> QED
  BY <1>1, EmptySeq

LEMMA ServerInv ==
    ASSUME Inv, Server
    PROVE  Inv'
<1>1. UNCHANGED <<busy, thread, sender, doneEmitted>>
  BY DEF Server, driver, translator
<1>2. \A t : Rejected(t)' <=> Rejected(t)
  BY <1>1 DEF Rejected
<1>3. CASE ServerCompletes
  BY <1>1, <1>3, EndsInv DEF ServerCompletes
<1>4. ASSUME NEW type \in {"message", "tool"}, ServerNarrates(type) PROVE Inv'
  <2>1. PICK f : /\ f = [type |-> type, turn |-> serving.turn] /\ frames' = Append(frames, f)
                 /\ UNCHANGED <<starts, serving>>
    BY <1>4 DEF ServerNarrates, server
  <2>2. f \in Frame /\ f.type \notin EndTypes \cup {"started", "error"}
    BY <2>1 DEF Inv, Typed, Frame, Start, NotServing, EndTypes
  <2>3. SameSignals /\ frames' \in Seq(Frame)
    BY <2>1, <2>2, AppendFrame DEF Inv, SameSignals, IsEnd, IsStarted, IsError
  <2> QED
    BY <1>1, <1>2, <2>1, <2>3, GuardedSame DEF Inv, Typed
<1>5. CASE ServerReads(FALSE)
  <2>1. PICK f : /\ f = [type |-> "error", turn |-> Head(starts).turn]
                 /\ frames' = Append(frames, f)
                 /\ starts # <<>> /\ starts' = Tail(starts) /\ serving' = serving
    BY <1>5 DEF ServerReads
  <2>2. starts \in Seq(Start) /\ Len(starts) = 1
    BY <2>1, OneStart DEF Inv, Typed
  <2>3. starts' = <<>> /\ Head(starts) \in Start
    BY <2>1, <2>2
  <2>4. f \in Frame /\ f.type = "error"
    BY <2>1, <2>3 DEF Frame, Start
  <2>5. frames' \in Seq(Frame) /\ \A i : /\ IsEnd(i)' <=> IsEnd(i)
                                         /\ IsStarted(i)' <=> IsStarted(i)
                                         /\ IsError(i)' => IsError(i) \/ i = Len(frames) + 1
    BY <2>1, <2>4, AppendFrame DEF Inv, IsEnd, IsStarted, IsError, EndTypes
  <2>6. Quiet /\ NoRefusal /\ serving = NotServing /\ busy
    BY <2>1 DEF Inv, Guarded
  <2>7. Quiet'
    BY <1>1, <2>5, <2>6 DEF Quiet
  <2>8. Guarded'
    BY <1>1, <1>2, <2>1, <2>3, <2>5, <2>6, <2>7 DEF Guarded, NoRefusal, Quiet
  <2>9. Typed'
    BY <1>1, <2>1, <2>3, <2>5 DEF Inv, Typed
  <2> QED
    BY <2>8, <2>9 DEF Inv
<1>6. CASE ServerReads(TRUE)
  <2>1. PICK r, f : /\ r = [type |-> "response", turn |-> Head(starts).turn]
                    /\ f = [type |-> "started", turn |-> Head(starts).turn]
                    /\ frames' = frames \o <<r, f>>
                    /\ starts # <<>> /\ starts' = Tail(starts) /\ serving' = Head(starts)
    BY <1>6 DEF ServerReads
  <2>2. starts \in Seq(Start) /\ Len(starts) = 1 /\ frames \in Seq(Frame)
    BY <2>1, OneStart DEF Inv, Typed
  <2>3. starts' = <<>> /\ Head(starts) \in Start
    BY <2>1, <2>2
  <2>4. r \in Frame /\ f \in Frame /\ r.type = "response" /\ f.type = "started"
    BY <2>1, <2>3 DEF Frame, Start
  <2>5. /\ frames' \in Seq(Frame)
        /\ \A i : i \in DOMAIN frames' <=>
                     i \in DOMAIN frames \/ i = Len(frames) + 1 \/ i = Len(frames) + 2
        /\ \A i \in DOMAIN frames : frames'[i] = frames[i] /\ i < Len(frames) + 1
        /\ frames'[Len(frames) + 1] = r /\ frames'[Len(frames) + 2] = f
        /\ Len(frames) \in Nat
    BY <2>1, <2>2, <2>4
  <2>6. \A i : /\ IsEnd(i)' <=> IsEnd(i)
               /\ IsStarted(i)' <=> IsStarted(i) \/ i = Len(frames) + 2
               /\ IsError(i)' <=> IsError(i)
               /\ IsEnd(i) => i < Len(frames) + 2 /\ i \in Nat
    BY <2>2, <2>4, <2>5 DEF IsEnd, IsStarted, IsError, EndTypes
  <2>7. Quiet /\ NoRefusal /\ busy
    BY <2>1 DEF Inv, Guarded
  <2>8. Guarded'
    BY <1>1, <1>2, <2>3, <2>6, <2>7 DEF Guarded, NoRefusal, Quiet
  <2>9. Typed'
    BY <1>1, <2>1, <2>3, <2>5 DEF Inv, Typed
  <2> QED
    BY <2>8, <2>9 DEF Inv
<1> QED
  BY <1>3, <1>4, <1>5, <1>6 DEF Server

-----------------------------------------------------------------------------
(* The read pump.                                                           *)

LEMMA PumpInv ==
    ASSUME Inv, ReadPump
    PROVE  Inv'
<1>1. UNCHANGED <<thread, starts, serving>>
  BY DEF ReadPump, server
<1>2. PICK types : Handles(types)
  BY DEF ReadPump, DispatchTurnResponse, TurnStarted, AgentMessage, ToolStart, CompleteTurn
<1>3. /\ frames' \in Seq(Frame) /\ Head(frames) \in Frame
      /\ 1 \in DOMAIN frames /\ frames[1] = Head(frames)
      /\ \A i : i \in DOMAIN frames' <=> i \in Nat \ {0} /\ i + 1 \in DOMAIN frames
      /\ \A i \in DOMAIN frames' : frames'[i] = frames[i + 1]
  BY <1>2, HandleFrame DEF Inv
<1>4. \A i : /\ IsEnd(i)' => IsEnd(i + 1) /\ i \in Nat \ {0}
             /\ IsStarted(i)' => IsStarted(i + 1) /\ i \in Nat \ {0}
             /\ IsError(i)' => IsError(i + 1) /\ i \in Nat \ {0}
  BY <1>3 DEF IsEnd, IsStarted, IsError
<1>5. ASSUME NEW j, IsStarted(j), j # 1 PROVE \E i : IsStarted(i)'
  <2>1. \A i \in DOMAIN frames : i = 1 \/ (i - 1 \in DOMAIN frames' /\ i = (i - 1) + 1)
    BY <1>2, HandleFrame DEF Inv
  <2>2. \A i \in DOMAIN frames' : i \in Nat \ {0} /\ frames'[i] = frames[i + 1]
    BY <1>3
  <2>3. j \in DOMAIN frames /\ frames[j].type = "started"
    BY <1>5 DEF IsStarted
  <2>4. PICK i : i = j - 1
    OBVIOUS
  <2>5. i \in DOMAIN frames' /\ j = i + 1
    BY <1>5, <2>1, <2>3, <2>4
  <2>6. i \in Nat \ {0} /\ frames'[i].type = "started"
    BY <2>2, <2>3, <2>5
  <2> QED
    BY <2>5, <2>6 DEF IsStarted
<1>6. /\ \A i, j : IsError(i)' /\ IsError(j)' => i = j
      /\ \A i, j : IsStarted(i)' /\ IsStarted(j)' => i = j
  <2>1. \A i, j : i \in Nat /\ j \in Nat /\ i + 1 = j + 1 => i = j
    OBVIOUS
  <2> QED
    BY <1>4, <2>1 DEF Inv, Guarded
<1>7. \A i, j : IsEnd(i)' /\ IsStarted(j)' /\ i < j => doneEmitted
  <2>1. \A i, j : i \in Nat /\ j \in Nat /\ i < j => i + 1 < j + 1
    OBVIOUS
  <2> QED
    BY <1>4, <2>1 DEF Inv, Guarded
<1>8. serving # NotServing => \A i, j : IsEnd(i)' /\ IsStarted(j)' => i < j
  <2>1. \A i, j : i \in Nat /\ j \in Nat /\ i + 1 < j + 1 => i < j
    OBVIOUS
  <2> QED
    BY <1>4, <2>1 DEF Inv, Guarded
<1>9. CASE DispatchTurnResponse
  <2>1. UNCHANGED <<busy, doneEmitted>> /\ DOMAIN sender' = Turns
    BY <1>9 DEF DispatchTurnResponse, translator, Inv, Typed
  <2>2. Head(frames).type \in {"response", "error"}
    BY <1>9 DEF DispatchTurnResponse, Handles
  <2>3. ~IsStarted(1) /\ ~IsEnd(1)
    BY <1>3, <2>2 DEF IsStarted, IsEnd, EndTypes
  <2>4. Quiet => Quiet'
    BY <1>4, <2>1 DEF Quiet
  <2>5. serving # NotServing => /\ doneEmitted => \E j : IsStarted(j)'
                                /\ ~doneEmitted => \A i : ~IsEnd(i)'
    BY <1>4, <1>5, <2>3 DEF Inv, Guarded
  <2>6. /\ \A t : Rejected(t)' => Rejected(t) \/ (IsError(1) /\ t = Head(frames).turn)
        /\ ~NoRefusal' => ~NoRefusal
    BY <1>3, <1>4, <1>9, <2>2 DEF DispatchTurnResponse, Rejected, Inv, Typed, IsError, NoRefusal
  <2>7. IsError(1) => \A i : ~IsError(i)'
    <3>1. \A i \in Nat \ {0} : i + 1 # 1
      OBVIOUS
    <3> QED
      BY <1>4, <3>1 DEF Inv, Guarded
  <2>8. \A i, t : ~(IsError(i)' /\ Rejected(t)')
    BY <1>4, <2>6, <2>7 DEF Inv, Guarded
  <2>9. \A t, u : Rejected(t)' /\ Rejected(u)' => t = u
    BY <2>6 DEF Inv, Guarded
  <2>10. Guarded'
    BY <1>1, <1>6, <1>7, <1>8, <2>1, <2>4, <2>5, <2>6, <2>8, <2>9 DEF Inv, Guarded
  <2> QED
    BY <1>1, <1>3, <2>1, <2>10 DEF Inv, Typed
<1>10. CASE TurnStarted
  <2>1. UNCHANGED <<busy, sender>> /\ doneEmitted' = FALSE /\ IsStarted(1)
    BY <1>3, <1>10 DEF TurnStarted, Handles, IsStarted
  <2>2. \A j : ~IsStarted(j)'
    <3>1. \A i \in Nat \ {0} : i + 1 # 1
      OBVIOUS
    <3> QED
      BY <1>4, <2>1, <3>1 DEF Inv, Guarded
  <2>3. ~Quiet
    BY <2>1 DEF Quiet
  <2>4. serving # NotServing => \A i : ~IsEnd(i)'
    <3>1. \A i \in Nat \ {0} : ~(i + 1 < 1)
      OBVIOUS
    <3> QED
      BY <1>4, <2>1, <3>1 DEF Inv, Guarded
  <2>5. busy /\ NoRefusal /\ starts = <<>>
    BY <2>3 DEF Inv, Guarded
  <2>6. NoRefusal'
    BY <1>4, <2>1, <2>5 DEF NoRefusal, Rejected
  <2>7. Guarded'
    BY <1>1, <2>1, <2>2, <2>4, <2>5, <2>6 DEF Guarded, NoRefusal
  <2> QED
    BY <1>1, <1>3, <2>1, <2>7 DEF Inv, Typed
<1>11. CASE AgentMessage \/ ToolStart
  <2>1. UNCHANGED <<busy, sender, doneEmitted>> /\ Head(frames).type \in {"message", "tool"}
    BY <1>11 DEF AgentMessage, ToolStart, Handles
  <2>2. ~IsStarted(1) /\ ~IsEnd(1)
    BY <1>3, <2>1 DEF IsStarted, IsEnd, EndTypes
  <2>3. \A t : Rejected(t)' <=> Rejected(t)
    BY <2>1 DEF Rejected
  <2>4. (Quiet => Quiet') /\ (~NoRefusal' => ~NoRefusal)
    BY <1>4, <2>1, <2>3 DEF Quiet, NoRefusal
  <2>5. serving # NotServing => /\ doneEmitted => \E j : IsStarted(j)'
                                /\ ~doneEmitted => \A i : ~IsEnd(i)'
    BY <1>4, <1>5, <2>2 DEF Inv, Guarded
  <2>6. \A i, t : ~(IsError(i)' /\ Rejected(t)')
    BY <1>4, <2>3 DEF Inv, Guarded
  <2>7. Guarded'
    BY <1>1, <1>6, <1>7, <1>8, <2>1, <2>3, <2>4, <2>5, <2>6 DEF Inv, Guarded
  <2> QED
    BY <1>1, <1>3, <2>1, <2>7 DEF Inv, Typed
<1>12. CASE CompleteTurn
  <2>1. IsEnd(1) /\ sender' = sender
    BY <1>3, <1>12 DEF CompleteTurn, Handles, IsEnd, EndTypes
  <2>2. ~IsStarted(1)
    BY <2>1 DEF IsEnd, IsStarted, EndTypes
  <2>3. \A t : Rejected(t)' <=> Rejected(t)
    BY <2>1 DEF Rejected
  <2>4. ~NoRefusal' => ~NoRefusal
    BY <1>4, <2>3 DEF NoRefusal
  <2>5. CASE doneEmitted
    <3>1. UNCHANGED <<busy, doneEmitted>>
      BY <1>12, <2>5 DEF CompleteTurn
    <3>2. Quiet => Quiet'
      BY <1>4, <2>5, <3>1 DEF Quiet
    <3>3. serving # NotServing => \E j : IsStarted(j)'
      BY <1>5, <2>2, <2>5 DEF Inv, Guarded
    <3>4. \A i, t : ~(IsError(i)' /\ Rejected(t)')
      BY <1>4, <2>3 DEF Inv, Guarded
    <3>5. Guarded'
      BY <1>1, <1>6, <1>7, <1>8, <2>3, <2>4, <2>5, <3>1, <3>2, <3>3, <3>4 DEF Inv, Guarded
    <3> QED
      BY <1>1, <1>3, <2>1, <3>1, <3>5 DEF Inv, Typed
  <2>6. CASE ~doneEmitted
    <3>1. doneEmitted' = TRUE /\ busy' = FALSE
      BY <1>12, <2>6 DEF CompleteTurn
    <3>2. \A j : ~IsStarted(j)
      <4>1. \A j : IsStarted(j) => j = 1 \/ 1 < j
        <5>1. frames \in Seq(Frame)
          BY DEF Inv, Typed
        <5> QED
          BY <5>1 DEF IsStarted
      <4> QED
        BY <2>1, <2>2, <2>6, <4>1 DEF Inv, Guarded
    <3>3. ~Quiet
      BY <2>1, <2>6 DEF Quiet
    <3>4. NoRefusal /\ starts = <<>> /\ serving = NotServing
      BY <2>1, <2>6, <3>3 DEF Inv, Guarded
    <3>5. Quiet' /\ NoRefusal'
      BY <1>4, <2>4, <3>1, <3>2, <3>4 DEF Quiet
    <3>6. Guarded'
      BY <1>1, <3>1, <3>4, <3>5 DEF Guarded, NoRefusal, Quiet
    <3> QED
      BY <1>1, <1>3, <2>1, <3>1, <3>6 DEF Inv, Typed
  <2> QED
    BY <2>5, <2>6
<1> QED
  BY <1>9, <1>10, <1>11, <1>12 DEF ReadPump

LEMMA InvStep ==
    ASSUME Inv, [TurnsNext]_turnVars
    PROVE  Inv'
<1>1. CASE UNCHANGED turnVars
  <2>1. UNCHANGED <<busy, starts, sender, thread, doneEmitted, frames, serving>>
    BY <1>1 DEF turnVars, driver, server, translator
  <2>2. SameSignals /\ \A t : Rejected(t)' => Rejected(t)
    BY <2>1 DEF SameSignals, IsEnd, IsStarted, IsError, Rejected
  <2> QED
    BY <2>1, <2>2, GuardedSame DEF Inv, Typed
<1> QED
  BY <1>1, DriverInv, StopInv, ServerInv, PumpInv DEF TurnsNext

(***************************************************************************)
(* No turn/start reaches a server that still runs a turn: the guard that   *)
(* SendBlocks takes is released by the turn's own end signal, by whichever *)
(* signals turns end and however late they are handled.                    *)
(***************************************************************************)
THEOREM OneTurnAtATimeAlways == TurnsSpec => []OneTurnAtATime
<1>1. Inv /\ [TurnsNext]_turnVars => Inv'
  BY InvStep
<1>2. Inv => OneTurnAtATime
  BY DEF Inv, Guarded, OneTurnAtATime
<1> QED
  BY <1>1, <1>2, InvInit, PTL DEF TurnsSpec

-----------------------------------------------------------------------------
(* Who has been reported: where the narration and the end of a turn are.    *)

Reported(t) == \E i \in DOMAIN delivered : delivered[i] = [type |-> "done", turn |-> t]
Said(t) == \E i \in DOMAIN handled : handled[i].turn = t
Serves(t) == serving # NotServing /\ serving.turn = t
IsNarration(i) == i \in DOMAIN frames /\ frames[i].type \in {"message", "tool"}

\* The narration of a turn lies between its "started" and its end.
Framed ==
    /\ \A i, k : IsNarration(i) /\ IsStarted(k) => k < i
    /\ \A i, j : IsNarration(i) /\ IsEnd(j) => i < j \/ \E k : IsStarted(k) /\ j < k
    /\ \A i : IsNarration(i) =>
          \/ Serves(frames[i].turn)
          \/ \E j : IsEnd(j) /\ i < j /\ frames[j].turn = frames[i].turn
    /\ \A i : IsNarration(i) /\ doneEmitted => \E k : IsStarted(k)

\* The end signals that can still end a turn are all of one turn.
SameTurn ==
    /\ \A i, j : IsEnd(i) /\ IsEnd(j) /\ ~doneEmitted => frames[i].turn = frames[j].turn
    /\ \A i, k : IsEnd(i) /\ IsStarted(k) /\ k < i => frames[i].turn = frames[k].turn
    /\ \A k : serving # NotServing /\ IsStarted(k) => Serves(frames[k].turn)

\* A turn that is still to come, runs, or has something on its way is not reported yet.
Unreported ==
    /\ \A t \in Turns : sender[t] = "idle" => ~Reported(t)
    /\ starts # <<>> => ~Reported(Head(starts).turn)
    /\ serving # NotServing => ~Reported(serving.turn)
    /\ \A i : IsStarted(i) \/ IsNarration(i) \/ (IsEnd(i) /\ ~doneEmitted)
                  => ~Reported(frames[i].turn)
    /\ \A i \in DOMAIN pendingMsgs : ~Reported(pendingMsgs[i].turn)
NotIdle ==
    /\ starts # <<>> => sender[Head(starts).turn] # "idle"
    /\ serving # NotServing => sender[serving.turn] # "idle"
    /\ \A i \in DOMAIN frames : sender[frames[i].turn] # "idle"

\* A turn that has said something and is not reported is the translator's, and its end
\* is still to come.
ToReport ==
    \A t : Said(t) /\ ~Reported(t) =>
        /\ active /\ ~doneEmitted
        /\ \A k : ~IsStarted(k)
        /\ Serves(t) \/ \E j : IsEnd(j) /\ frames[j].turn = t

DoneIsLast ==
    \A i, j \in DOMAIN delivered :
        delivered[i].type = "done" /\ delivered[j].turn = delivered[i].turn => j <= i

Item == [type : {"message", "tool"}, turn : Turns]
Delivery == [type : {"message", "tool", "done"}, turn : Turns]
ItemsOK ==
    /\ \A i \in DOMAIN frames : frames[i].turn \in Turns
    /\ pendingMsgs \in Seq(Item) /\ handled \in Seq(Item)
    /\ delivered \in Seq(Delivery)
    /\ active \in BOOLEAN /\ doneEmitted \in BOOLEAN
Reporting ==
    ItemsOK /\ Framed /\ SameTurn /\ Unreported /\ NotIdle /\ ToReport /\ DoneIsLast
Turnwise == Inv /\ Reporting

LEMMA ReportingInit == TurnsInit => Reporting
<1> SUFFICES ASSUME TurnsInit PROVE Reporting
  OBVIOUS
<1>1. /\ frames = <<>> /\ starts = <<>> /\ serving = NotServing /\ pendingMsgs = <<>>
      /\ handled = <<>> /\ delivered = <<>> /\ active = FALSE /\ doneEmitted = FALSE
  BY DEF TurnsInit
<1>2. \A i : ~IsNarration(i) /\ ~IsEnd(i) /\ ~IsStarted(i)
  BY <1>1 DEF IsNarration, IsEnd, IsStarted
<1>3. \A t : ~Reported(t) /\ ~Said(t)
  BY <1>1 DEF Reported, Said
<1>4. ItemsOK
  <2>1. /\ <<>> \in Seq(Item)
        /\ <<>> \in Seq(Delivery)
    OBVIOUS
  <2>2. \A i \in DOMAIN frames : FALSE
    BY <1>1
  <2> QED
    BY <1>1, <2>1, <2>2 DEF ItemsOK
<1>5. DoneIsLast
  BY <1>1 DEF DoneIsLast
<1>6. Unreported /\ NotIdle
  BY <1>1, <1>2, <1>3 DEF Unreported, NotIdle
<1> QED
  BY <1>1, <1>2, <1>3, <1>4, <1>5, <1>6 DEF Reporting, Framed, SameTurn, ToReport

\* Nothing about the frames, the translator and the server has changed.
LEMMA ReportingSame ==
    ASSUME Reporting, UNCHANGED <<frames, serving, translator>>
    PROVE  /\ ItemsOK' /\ Framed' /\ SameTurn' /\ ToReport' /\ DoneIsLast'
           /\ \A t : Reported(t)' <=> Reported(t)
           /\ \A i : /\ IsStarted(i)' <=> IsStarted(i)
                     /\ IsNarration(i)' <=> IsNarration(i)
                     /\ IsEnd(i)' <=> IsEnd(i)
<1> USE DEF translator
<1>1. \A t : /\ Reported(t)' <=> Reported(t)
             /\ Said(t)' <=> Said(t)
             /\ Serves(t)' <=> Serves(t)
  BY DEF Reported, Said, Serves
<1>2. \A i : /\ IsStarted(i)' <=> IsStarted(i)
             /\ IsNarration(i)' <=> IsNarration(i)
             /\ IsEnd(i)' <=> IsEnd(i)
  BY DEF IsStarted, IsNarration, IsEnd
<1>3. ItemsOK' /\ DoneIsLast'
  BY DEF Reporting, ItemsOK, DoneIsLast
<1>4. Framed' /\ SameTurn' /\ ToReport'
  BY <1>1, <1>2 DEF Reporting, Framed, SameTurn, ToReport
<1> QED
  BY <1>1, <1>2, <1>3, <1>4

LEMMA DriverReporting ==
    ASSUME Turnwise, Driver, ~StopInterrupts
    PROVE  Reporting'
<1> USE DEF Turnwise
<1>1. UNCHANGED <<frames, serving, translator>>
  BY DEF Driver, SendBlocks, SendBlocksResumes, StopBegins, StopWaits, New, translator, server
<1>2. pendingMsgs' = pendingMsgs /\ doneEmitted' = doneEmitted
  BY <1>1 DEF translator
<1>3. DOMAIN sender = Turns
  BY DEF Inv, Typed
<1>4. ASSUME starts' = starts, \A t : sender'[t] = "idle" => sender[t] = "idle"
      PROVE  Reporting'
  <2>1. Unreported'
    BY <1>1, <1>2, <1>4, ReportingSame DEF Reporting, Unreported
  <2>2. NotIdle'
    BY <1>1, <1>4 DEF Reporting, NotIdle
  <2> QED
    BY <1>1, <2>1, <2>2, ReportingSame DEF Reporting
<1>5. ASSUME NEW t \in Turns, SendBlocks(t) PROVE Reporting'
  <2>1. CASE busy
    <3>1. starts' = starts /\ sender' = [sender EXCEPT ![t] = "refused"]
      BY <1>5, <2>1 DEF SendBlocks
    <3>2. \A u : sender'[u] = "idle" => sender[u] = "idle"
      BY <1>3, <3>1
    <3> QED
      BY <1>4, <3>1, <3>2
  <2>2. CASE ~busy
    <3>1. /\ sender[t] = "idle" /\ sender' = [sender EXCEPT ![t] = "waiting"]
          /\ starts' = Append(starts, [turn |-> t, thread |-> thread])
      BY <1>5, <2>2 DEF SendBlocks
    <3>2. starts = <<>>
      BY <2>2 DEF Inv, Guarded
    <3>3. Head(starts').turn = t
      BY <3>1, <3>2
    <3>4. \A u : sender'[u] = "idle" => sender[u] = "idle"
      BY <1>3, <3>1
    <3>5. Unreported'
      BY <1>1, <1>2, <3>1, <3>3, <3>4, ReportingSame DEF Reporting, Unreported
    <3>6. sender'[t] # "idle"
      BY <1>3, <3>1
    <3>7. NotIdle'
      BY <1>1, <3>3, <3>4, <3>6 DEF Reporting, NotIdle
    <3> QED
      BY <1>1, <3>5, <3>7, ReportingSame DEF Reporting
  <2> QED
    BY <2>1, <2>2
<1>6. ASSUME NEW t \in Turns, SendBlocksResumes(t) PROVE Reporting'
  <2>1. starts' = starts /\ \A u : sender'[u] = "idle" => sender[u] = "idle"
    BY <1>3, <1>6 DEF SendBlocksResumes, server
  <2> QED
    BY <1>4, <2>1
<1>7. CASE StopBegins \/ StopWaits \/ New
  <2>1. starts' = starts /\ sender' = sender
    BY <1>7 DEF StopBegins, StopWaits, New, server
  <2> QED
    BY <1>4, <2>1
<1> QED
  BY <1>5, <1>6, <1>7 DEF Driver

-----------------------------------------------------------------------------
(* The server sends.                                                        *)

LEMMA SignalsOK == \A signals \in EndSignals : signals \in Seq(EndTypes) /\ 1 \in DOMAIN signals
<1> SUFFICES ASSUME NEW signals \in EndSignals
             PROVE  signals \in Seq(EndTypes) /\ 1 \in DOMAIN signals
  OBVIOUS
<1>1. signals \in Seq(EndTypes)
  <2>1. "completed" \in EndTypes /\ "idle" \in EndTypes
    BY DEF EndTypes
  <2>2. \A x, y \in EndTypes : <<x>> \in Seq(EndTypes) /\ <<x, y>> \in Seq(EndTypes)
    OBVIOUS
  <2> QED
    BY <2>1, <2>2 DEF EndSignals
<1>2. Len(signals) >= 1
  BY DEF EndSignals
<1> QED
  BY <1>1, <1>2

\* The turn that is served ends: its end signals come after all that is on its way.
LEMMA EndsReporting ==
    ASSUME Turnwise, ServerEnds, serving # NotServing,
           UNCHANGED <<starts, sender, translator>>
    PROVE  Reporting'
<1> USE DEF Turnwise
<1>1. PICK signals \in EndSignals :
         frames' = frames \o [i \in DOMAIN signals |->
                                [type |-> signals[i], turn |-> serving.turn]]
  BY DEF ServerEnds
<1>2. PICK more : more = [i \in DOMAIN signals |->
                                [type |-> signals[i], turn |-> serving.turn]]
  OBVIOUS
<1>3. signals \in Seq(EndTypes) /\ 1 \in DOMAIN signals
  BY <1>1, SignalsOK
<1>4. PICK s : s = serving.turn
  OBVIOUS
<1>5. s \in Turns /\ Serves(s)
  BY <1>4 DEF Inv, Typed, Start, Serves
<1>6. /\ more \in Seq(Frame) /\ 1 \in DOMAIN more
      /\ \A i \in DOMAIN more : more[i].type \in EndTypes /\ more[i].turn = s
  <2>1. DOMAIN signals = 1..Len(signals) /\ Len(signals) \in Nat /\ 1 \in DOMAIN signals
    BY <1>3
  <2>2. DOMAIN more = 1..Len(signals) /\ more = [i \in 1..Len(signals) |-> more[i]]
    BY <1>2, <2>1
  <2>3. \A i \in 1..Len(signals) : /\ more[i] \in Frame /\ more[i].type \in EndTypes
                                   /\ more[i].turn = s
    BY <1>2, <1>3, <1>4, <1>5, <2>1 DEF Frame
  <2>4. more \in [1..Len(signals) -> Frame]
    BY <2>2, <2>3
  <2> QED
    BY <2>1, <2>2, <2>3, <2>4
<1>7. frames \in Seq(Frame) /\ frames' = frames \o more
  BY <1>1, <1>2 DEF Inv, Typed
<1>8. /\ \A i \in DOMAIN frames : i \in DOMAIN frames' /\ frames'[i] = frames[i]
      /\ \A i \in DOMAIN frames' : \/ i \in DOMAIN frames
                                   \/ /\ frames'[i].type \in EndTypes /\ frames'[i].turn = s
                                      /\ \A j \in DOMAIN frames : j < i
  BY <1>6, <1>7
<1>9. PICK e : e \in DOMAIN frames' /\ e = Len(frames) + 1 /\ frames'[e] = more[1]
  BY <1>6, <1>7
<1>10. /\ IsEnd(e)' /\ frames'[e].turn = s
       /\ \A i \in DOMAIN frames : i < e
  BY <1>6, <1>7, <1>9 DEF IsEnd
<1>11. /\ \A i : IsStarted(i)' <=> IsStarted(i)
       /\ \A i : IsNarration(i)' <=> IsNarration(i)
       /\ \A i : IsEnd(i) => IsEnd(i)'
       /\ \A i : IsEnd(i)' => \/ IsEnd(i)
                              \/ frames'[i].turn = s /\ \A j \in DOMAIN frames : j < i
       /\ \A i : IsStarted(i) \/ IsNarration(i) \/ IsEnd(i) =>
                    i \in DOMAIN frames /\ frames'[i] = frames[i]
  BY <1>8 DEF IsStarted, IsNarration, IsEnd, EndTypes
<1>12. /\ serving' = NotServing /\ doneEmitted' = doneEmitted /\ active' = active
       /\ pendingMsgs' = pendingMsgs /\ handled' = handled /\ delivered' = delivered
  BY DEF ServerEnds, translator
<1>13. \A t : (Reported(t)' <=> Reported(t)) /\ (Said(t)' <=> Said(t)) /\ ~Serves(t)'
  BY <1>12 DEF Reported, Said, Serves
<1>14. ItemsOK' /\ DoneIsLast'
  BY <1>5, <1>8, <1>12 DEF Reporting, ItemsOK, DoneIsLast
<1>15. \A i : IsNarration(i) =>
          \E j : IsEnd(j)' /\ i < j /\ frames'[j].turn = frames[i].turn
  <2> SUFFICES ASSUME NEW i, IsNarration(i)
               PROVE  \E j : IsEnd(j)' /\ i < j /\ frames'[j].turn = frames[i].turn
    OBVIOUS
  <2>1. CASE Serves(frames[i].turn)
    BY <1>4, <1>10, <2>1 DEF Serves, IsNarration
  <2>2. CASE ~Serves(frames[i].turn)
    <3>1. PICK j : IsEnd(j) /\ i < j /\ frames[j].turn = frames[i].turn
      BY <2>2 DEF Reporting, Framed
    <3> QED
      BY <1>11, <3>1
  <2> QED
    BY <2>1, <2>2
<1>16. Framed'
  <2>1. \A i, j : IsNarration(i)' /\ IsEnd(j)' => i < j \/ \E k : IsStarted(k)' /\ j < k
    BY <1>11 DEF Reporting, Framed
  <2>2. \A i : IsNarration(i)' => \E j : IsEnd(j)' /\ i < j /\ frames'[j].turn = frames'[i].turn
    BY <1>11, <1>15
  <2> QED
    BY <1>11, <1>12, <2>1, <2>2 DEF Reporting, Framed
<1>17. SameTurn'
  <2>1. ~doneEmitted => \A i : ~IsEnd(i)
    BY DEF Inv, Guarded
  <2>2. \A k : IsStarted(k) => frames[k].turn = s
    BY <1>4 DEF Reporting, SameTurn, Serves
  <2>3. \A i, k : IsEnd(i)' /\ IsStarted(k)' /\ k < i => frames'[i].turn = frames'[k].turn
    BY <1>11, <2>2 DEF Reporting, SameTurn
  <2> QED
    BY <1>11, <1>12, <2>1, <2>3 DEF SameTurn
<1>18. Unreported'
  <2>1. ~Reported(s)
    BY <1>4 DEF Reporting, Unreported
  <2>2. \A i : IsStarted(i)' \/ IsNarration(i)' \/ (IsEnd(i)' /\ ~doneEmitted')
                  => ~Reported(frames[i].turn)'
    BY <1>11, <1>12, <1>13, <2>1 DEF Reporting, Unreported
  <2> QED
    BY <1>12, <1>13, <2>2 DEF Reporting, Unreported
<1>19. NotIdle'
  BY <1>4, <1>8, <1>12 DEF Reporting, NotIdle
<1>20. ToReport'
  <2> SUFFICES ASSUME NEW t, Said(t), ~Reported(t)
               PROVE  /\ active /\ ~doneEmitted /\ \A k : ~IsStarted(k)
                      /\ \E j : IsEnd(j)' /\ frames'[j].turn = t
    BY <1>11, <1>12, <1>13 DEF ToReport
  <2>1. /\ active /\ ~doneEmitted /\ \A k : ~IsStarted(k)
        /\ Serves(t) \/ \E j : IsEnd(j) /\ frames[j].turn = t
    BY DEF Reporting, ToReport
  <2>2. Serves(t) => t = s
    BY <1>4 DEF Serves
  <2>3. (\E j : IsEnd(j) /\ frames[j].turn = t) => \E j : IsEnd(j)' /\ frames'[j].turn = t
    BY <1>11
  <2> QED
    BY <1>10, <2>1, <2>2, <2>3
<1> QED
  BY <1>14, <1>16, <1>17, <1>18, <1>19, <1>20 DEF Reporting

LEMMA StopReporting ==
    ASSUME Turnwise, StopInterrupts
    PROVE  Reporting'
<1>1. UNCHANGED <<starts, sender, translator>>
  BY DEF StopInterrupts
<1>2. CASE serving = [turn |-> stop.turn, thread |-> stop.thread]
  <2>1. "thread" \in DOMAIN serving /\ "thread" \notin DOMAIN NotServing
    BY <1>2 DEF NotServing
  <2>2. serving # NotServing
    BY <2>1
  <2> QED
    BY <1>1, <1>2, <2>2, EndsReporting DEF StopInterrupts
<1>3. CASE serving # [turn |-> stop.turn, thread |-> stop.thread]
  <2>1. UNCHANGED <<frames, serving>>
    BY <1>3 DEF StopInterrupts
  <2>2. pendingMsgs' = pendingMsgs /\ doneEmitted' = doneEmitted
    BY <1>1 DEF translator
  <2>3. Unreported' /\ NotIdle'
    BY <1>1, <2>1, <2>2, ReportingSame DEF Turnwise, Reporting, Unreported, NotIdle
  <2> QED
    BY <1>1, <2>1, <2>3, ReportingSame DEF Turnwise, Reporting
<1> QED
  BY <1>2, <1>3

\* What is on its way to the translator stays, whatever the server adds to it.
LEMMA Added ==
    ASSUME \A i \in DOMAIN frames : i \in DOMAIN frames' /\ frames'[i] = frames[i],
           UNCHANGED translator
    PROVE  /\ \A t : (Reported(t)' <=> Reported(t)) /\ (Said(t)' <=> Said(t))
           /\ \A i : IsEnd(i) => IsEnd(i)' /\ frames'[i] = frames[i]
           /\ \A i : IsStarted(i) => IsStarted(i)' /\ frames'[i] = frames[i]
           /\ \A i : IsNarration(i) => IsNarration(i)' /\ frames'[i] = frames[i]
<1>1. \A t : (Reported(t)' <=> Reported(t)) /\ (Said(t)' <=> Said(t))
  BY DEF Reported, Said, translator
<1> QED
  BY <1>1 DEF IsEnd, IsStarted, IsNarration

\* A frame that is no end of a turn and starts none.
LEMMA OneFrameReporting ==
    ASSUME Turnwise, NEW f \in Frame, frames' = Append(frames, f),
           f.type \in {"message", "tool", "error"}, f.turn \in Turns,
           sender[f.turn] # "idle",
           f.type # "error" => Serves(f.turn),
           UNCHANGED <<serving, sender, translator>>, starts' = starts \/ starts' = <<>>
    PROVE  Reporting'
<1> USE DEF Turnwise
<1>1. /\ \A i : i \in DOMAIN frames' <=> i \in DOMAIN frames \/ i = Len(frames) + 1
      /\ \A i \in DOMAIN frames : frames'[i] = frames[i] /\ i < Len(frames) + 1
      /\ frames'[Len(frames) + 1] = f
  BY AppendFrame DEF Inv
<1>2. PICK n : n = Len(frames) + 1
  OBVIOUS
<1>3. /\ \A i \in DOMAIN frames : i \in DOMAIN frames' /\ frames'[i] = frames[i]
      /\ \A i \in DOMAIN frames' : i \in DOMAIN frames \/ i = n
      /\ \A i \in DOMAIN frames : i < n
      /\ frames'[n] = f
  BY <1>1, <1>2
<1>4. /\ \A t : (Reported(t)' <=> Reported(t)) /\ (Said(t)' <=> Said(t))
      /\ \A i : IsEnd(i) => IsEnd(i)' /\ frames'[i] = frames[i]
      /\ \A i : IsStarted(i) => IsStarted(i)' /\ frames'[i] = frames[i]
      /\ \A i : IsNarration(i) => IsNarration(i)' /\ frames'[i] = frames[i]
  BY <1>3, Added
<1>5. /\ \A i : IsEnd(i)' => IsEnd(i)
      /\ \A i : IsStarted(i)' => IsStarted(i)
      /\ \A i : IsNarration(i)' => IsNarration(i) \/ (i = n /\ Serves(f.turn))
  BY <1>3 DEF IsEnd, IsStarted, IsNarration, EndTypes
<1>6. /\ doneEmitted' = doneEmitted /\ active' = active /\ serving' = serving
      /\ pendingMsgs' = pendingMsgs /\ handled' = handled /\ delivered' = delivered
  BY DEF translator
<1>7. \A t : Serves(t)' <=> Serves(t)
  BY <1>6 DEF Serves
<1>8. ItemsOK' /\ DoneIsLast'
  BY <1>3, <1>6 DEF Reporting, ItemsOK, DoneIsLast
<1>9. \A i : IsEnd(i) \/ IsStarted(i) => i < n
  BY <1>3 DEF IsEnd, IsStarted
<1>10. Serves(f.turn) => (doneEmitted => \E k : IsStarted(k)) /\ (~doneEmitted => \A j : ~IsEnd(j))
                          /\ \A i, j : IsEnd(i) /\ IsStarted(j) => i < j
  BY DEF Inv, Guarded, Serves
<1>11. Framed'
  <2>1. \A i, k : IsNarration(i)' /\ IsStarted(k)' => k < i
    BY <1>5, <1>9 DEF Reporting, Framed
  <2>2. \A i, j : IsNarration(i)' /\ IsEnd(j)' => i < j \/ \E k : IsStarted(k)' /\ j < k
    <3> SUFFICES ASSUME NEW i, NEW j, IsNarration(i)', IsEnd(j), ~(i < j)
                 PROVE  \E k : IsStarted(k) /\ j < k
      BY <1>4, <1>5
    <3>1. CASE IsNarration(i)
      BY <3>1 DEF Reporting, Framed
    <3>2. CASE Serves(f.turn)
      BY <1>10, <3>2
    <3> QED
      BY <1>5, <3>1, <3>2
  <2>3. \A i : IsNarration(i)' =>
          \/ Serves(frames'[i].turn)
          \/ \E j : IsEnd(j)' /\ i < j /\ frames'[j].turn = frames'[i].turn
    <3> SUFFICES ASSUME NEW i, IsNarration(i)', ~Serves(frames'[i].turn)
                 PROVE  \E j : IsEnd(j)' /\ i < j /\ frames'[j].turn = frames'[i].turn
      OBVIOUS
    <3>1. IsNarration(i)
      BY <1>3, <1>5
    <3>2. PICK j : IsEnd(j) /\ i < j /\ frames[j].turn = frames[i].turn
      BY <1>4, <3>1 DEF Reporting, Framed
    <3> QED
      BY <1>4, <3>1, <3>2
  <2>4. \A i : IsNarration(i)' /\ doneEmitted' => \E k : IsStarted(k)'
    BY <1>4, <1>5, <1>6, <1>10 DEF Reporting, Framed
  <2> QED
    BY <1>7, <2>1, <2>2, <2>3, <2>4 DEF Framed, Serves
<1>12. SameTurn'
  <2>1. \A i, j : IsEnd(i)' /\ IsEnd(j)' /\ ~doneEmitted' => frames'[i].turn = frames'[j].turn
    <3>1. \A i, j : IsEnd(i) /\ IsEnd(j) /\ ~doneEmitted => frames[i].turn = frames[j].turn
      BY DEF Reporting, SameTurn
    <3> SUFFICES ASSUME NEW i, NEW j, IsEnd(i)', IsEnd(j)', ~doneEmitted
                 PROVE  frames'[i].turn = frames'[j].turn
      BY <1>6
    <3>2. IsEnd(i) /\ IsEnd(j)
      BY <1>5
    <3>3. frames'[i] = frames[i] /\ frames'[j] = frames[j]
      BY <1>4, <3>2
    <3> QED
      BY <3>1, <3>2, <3>3
  <2>2. \A i, k : IsEnd(i)' /\ IsStarted(k)' /\ k < i => frames'[i].turn = frames'[k].turn
    <3>1. \A i, k : IsEnd(i) /\ IsStarted(k) /\ k < i => frames[i].turn = frames[k].turn
      BY DEF Reporting, SameTurn
    <3> SUFFICES ASSUME NEW i, NEW k, IsEnd(i)', IsStarted(k)', k < i
                 PROVE  frames'[i].turn = frames'[k].turn
      OBVIOUS
    <3>2. IsEnd(i) /\ IsStarted(k)
      BY <1>5
    <3>3. frames'[i] = frames[i] /\ frames'[k] = frames[k]
      BY <1>4, <3>2
    <3> QED
      BY <3>1, <3>2, <3>3
  <2>3. \A k : serving # NotServing /\ IsStarted(k)' => Serves(frames'[k].turn)
    BY <1>4, <1>5 DEF Reporting, SameTurn
  <2> QED
    BY <1>6, <2>1, <2>2, <2>3 DEF SameTurn, Serves
<1>13. Unreported'
  <2>1. Serves(f.turn) => ~Reported(f.turn)
    BY DEF Reporting, Unreported, Serves
  <2>2. \A i : IsStarted(i)' \/ IsNarration(i)' \/ (IsEnd(i)' /\ ~doneEmitted')
                  => ~Reported(frames[i].turn)'
    <3>1. \A i : IsStarted(i)' \/ (IsEnd(i)' /\ ~doneEmitted')
                  => ~Reported(frames'[i].turn)
      BY <1>4, <1>5, <1>6 DEF Reporting, Unreported
    <3>2. \A i : IsNarration(i)' => ~Reported(frames'[i].turn)
      BY <1>3, <1>4, <1>5, <2>1 DEF Reporting, Unreported
    <3> QED
      BY <1>4, <3>1, <3>2
  <2> QED
    BY <1>4, <1>6, <2>2 DEF Reporting, Unreported
<1>14. NotIdle'
  BY <1>3, <1>6 DEF Reporting, NotIdle
<1>15. ToReport'
  BY <1>4, <1>5, <1>6, <1>7 DEF Reporting, ToReport
<1> QED
  BY <1>8, <1>11, <1>12, <1>13, <1>14, <1>15 DEF Reporting

LEMMA AppendTwo ==
    ASSUME Typed, NEW r \in Frame, NEW f \in Frame, frames' = frames \o <<r, f>>
    PROVE  /\ \A i : i \in DOMAIN frames' <=>
                     i \in DOMAIN frames \/ i = Len(frames) + 1 \/ i = Len(frames) + 2
           /\ \A i \in DOMAIN frames : frames'[i] = frames[i] /\ i < Len(frames) + 1
           /\ frames'[Len(frames) + 1] = r /\ frames'[Len(frames) + 2] = f
           /\ Len(frames) \in Nat
<1>1. frames \in Seq(Frame)
  BY DEF Typed
<1>2. /\ frames' \in Seq(Frame)
      /\ \A i : i \in DOMAIN frames' <=>
                   i \in DOMAIN frames \/ i = Len(frames) + 1 \/ i = Len(frames) + 2
      /\ \A i \in DOMAIN frames : frames'[i] = frames[i] /\ i < Len(frames) + 1
      /\ frames'[Len(frames) + 1] = r /\ frames'[Len(frames) + 2] = f
      /\ Len(frames) \in Nat
  BY <1>1
<1> QED
  BY <1>2

LEMMA ServerReporting ==
    ASSUME Turnwise, Server
    PROVE  Reporting'
<1> USE DEF Turnwise
<1>1. UNCHANGED <<sender, translator>>
  BY DEF Server
<1>2. CASE ServerCompletes
  BY <1>1, <1>2, EndsReporting DEF ServerCompletes
<1>3. ASSUME NEW type \in {"message", "tool"}, ServerNarrates(type) PROVE Reporting'
  <2>1. PICK f : f = [type |-> type, turn |-> serving.turn]
    OBVIOUS
  <2>2. serving # NotServing /\ frames' = Append(frames, f) /\ UNCHANGED <<starts, serving>>
    BY <1>3, <2>1 DEF ServerNarrates, server
  <2>3. /\ f \in Frame /\ f.type \in {"message", "tool"}
        /\ f.turn \in Turns /\ Serves(f.turn)
    BY <2>1, <2>2 DEF Inv, Typed, Frame, Start, Serves
  <2>4. sender[f.turn] # "idle"
    BY <2>1, <2>2 DEF Reporting, NotIdle
  <2> QED
    BY <1>1, <2>2, <2>3, <2>4, OneFrameReporting
<1>4. CASE ServerReads(FALSE)
  <2>1. PICK f : f = [type |-> "error", turn |-> Head(starts).turn]
    OBVIOUS
  <2>2. /\ starts # <<>> /\ frames' = Append(frames, f)
        /\ starts' = Tail(starts) /\ serving' = serving
    BY <1>4, <2>1 DEF ServerReads
  <2>3. starts \in Seq(Start) /\ Len(starts) = 1
    BY <2>2, OneStart DEF Inv, Typed
  <2>4. starts' = <<>> /\ Head(starts) \in Start
    BY <2>2, <2>3
  <2>5. f \in Frame /\ f.type = "error" /\ f.turn \in Turns
    BY <2>1, <2>4 DEF Frame, Start
  <2>6. sender[f.turn] # "idle"
    BY <2>1, <2>2 DEF Reporting, NotIdle
  <2> QED
    BY <1>1, <2>2, <2>4, <2>5, <2>6, OneFrameReporting
<1>5. CASE ServerReads(TRUE)
  <2>1. PICK r, f : /\ r = [type |-> "response", turn |-> Head(starts).turn]
                    /\ f = [type |-> "started", turn |-> Head(starts).turn]
                    /\ frames' = frames \o <<r, f>>
                    /\ starts # <<>> /\ starts' = Tail(starts) /\ serving' = Head(starts)
                    /\ serving = NotServing
    BY <1>5 DEF ServerReads
  <2>2. starts \in Seq(Start) /\ Len(starts) = 1 /\ frames \in Seq(Frame)
    BY <2>1, OneStart DEF Inv, Typed
  <2>3. starts' = <<>> /\ Head(starts) \in Start
    BY <2>1, <2>2
  <2>4. PICK s : s = Head(starts).turn
    OBVIOUS
  <2>5. /\ s \in Turns /\ r \in Frame /\ f \in Frame /\ r.type = "response"
        /\ f.type = "started" /\ r.turn = s /\ f.turn = s
    BY <2>1, <2>3, <2>4 DEF Frame, Start
  <2>6. PICK m : m = Len(frames) + 1
    OBVIOUS
  <2>7. PICK n : n = Len(frames) + 2
    OBVIOUS
  <2>8. /\ \A i \in DOMAIN frames : i \in DOMAIN frames' /\ frames'[i] = frames[i]
        /\ \A i \in DOMAIN frames' : i \in DOMAIN frames \/ i = m \/ i = n
        /\ \A i \in DOMAIN frames : i < n
        /\ n \in DOMAIN frames' /\ frames'[m] = r /\ frames'[n] = f
    <3>1. /\ Len(frames) \in Nat /\ \A i \in DOMAIN frames : i \in Nat /\ i < Len(frames) + 1
          /\ \A i \in DOMAIN frames : frames'[i] = frames[i]
          /\ \A i : i \in DOMAIN frames' <=>
                      i \in DOMAIN frames \/ i = Len(frames) + 1 \/ i = Len(frames) + 2
          /\ frames'[Len(frames) + 1] = r /\ frames'[Len(frames) + 2] = f
      BY <2>1, <2>2, <2>5, AppendTwo DEF Inv
    <3>2. \A i \in DOMAIN frames : i < n
      BY <2>7, <3>1
    <3> QED
      BY <2>6, <2>7, <3>1, <3>2
  <2>9. /\ \A t : (Reported(t)' <=> Reported(t)) /\ (Said(t)' <=> Said(t))
        /\ \A i : IsEnd(i) => IsEnd(i)' /\ frames'[i] = frames[i]
        /\ \A i : IsStarted(i) => IsStarted(i)' /\ frames'[i] = frames[i]
        /\ \A i : IsNarration(i) => IsNarration(i)' /\ frames'[i] = frames[i]
    BY <1>1, <2>8, Added
  <2>10. /\ \A i : IsEnd(i)' => IsEnd(i) /\ i < n
         /\ \A i : IsStarted(i)' => IsStarted(i) \/ i = n
         /\ \A i : IsNarration(i)' => IsNarration(i)
         /\ IsStarted(n)'
    BY <2>5, <2>8 DEF IsEnd, IsStarted, IsNarration, EndTypes
  <2>11. /\ doneEmitted' = doneEmitted /\ active' = active
         /\ pendingMsgs' = pendingMsgs /\ handled' = handled /\ delivered' = delivered
    BY <1>1 DEF translator
  <2>12. (\A i : ~IsStarted(i)) /\ (doneEmitted \/ \A i : ~IsEnd(i))
    BY <2>1 DEF Inv, Guarded, Quiet
  <2>13. (\A i : ~IsNarration(i)) /\ (\A t : ~Serves(t))
    BY <2>1, <2>12 DEF Reporting, Framed, Serves
  <2>14. ItemsOK' /\ DoneIsLast'
    <3>1. DoneIsLast'
      BY <2>11 DEF Reporting, DoneIsLast
    <3>2. \A i \in DOMAIN frames' : frames'[i].turn \in Turns
      BY <2>5, <2>8 DEF Reporting, ItemsOK
    <3> QED
      BY <2>11, <3>1, <3>2 DEF Reporting, ItemsOK
  <2>15. Framed'
    BY <2>10, <2>13 DEF Framed
  <2>16. serving' # NotServing /\ serving'.turn = s
    BY <2>1, <2>3, <2>4 DEF Start, NotServing
  <2>17. SameTurn'
    <3>1. \A i, k : IsEnd(i)' /\ IsStarted(k)' => ~(k < i)
      <4>1. \A i, k : IsEnd(i) /\ i < n /\ k = n => ~(k < i)
        <5>1. \A i : IsEnd(i) => i \in Nat
          BY <2>2 DEF IsEnd
        <5>2. n \in Nat
          BY <2>2, <2>7
        <5> QED
          BY <5>1, <5>2
      <4> QED
        BY <2>10, <2>12, <4>1
    <3>2. \A k : IsStarted(k)' => frames'[k].turn = s
      BY <2>5, <2>8, <2>10, <2>12
    <3>3. \A i, j : IsEnd(i)' /\ IsEnd(j)' /\ ~doneEmitted' => frames'[i].turn = frames'[j].turn
      BY <2>10, <2>11, <2>12
    <3> QED
      BY <2>16, <3>1, <3>2, <3>3 DEF SameTurn, Serves
  <2>18. Unreported'
    <3>1. ~Reported(s)
      BY <2>1, <2>4 DEF Reporting, Unreported
    <3>2. \A i : IsStarted(i)' \/ IsNarration(i)' \/ (IsEnd(i)' /\ ~doneEmitted')
                    => ~Reported(frames[i].turn)'
      BY <2>5, <2>8, <2>9, <2>10, <2>11, <2>12, <2>13, <3>1
    <3> QED
      BY <1>1, <2>3, <2>9, <2>11, <2>16, <3>1, <3>2 DEF Reporting, Unreported
  <2>19. NotIdle'
    <3>1. sender[s] # "idle"
      BY <2>1, <2>4 DEF Reporting, NotIdle
    <3>2. \A i \in DOMAIN frames' : sender[frames'[i].turn] # "idle"
      BY <2>5, <2>8, <3>1 DEF Reporting, NotIdle
    <3> QED
      BY <1>1, <2>3, <2>16, <3>1, <3>2 DEF NotIdle
  <2>20. ToReport'
    <3>1. \A t : Said(t) => Reported(t)
      BY <2>12, <2>13 DEF Reporting, ToReport
    <3> QED
      BY <2>9, <3>1 DEF ToReport
  <2> QED
    BY <2>14, <2>15, <2>17, <2>18, <2>19, <2>20 DEF Reporting
<1> QED
  BY <1>2, <1>3, <1>4, <1>5 DEF Server

-----------------------------------------------------------------------------
(* The read pump handles one frame.                                         *)

LEMMA Shifted ==
    ASSUME Typed, NEW types, Handles(types)
    PROVE  /\ 1 \in DOMAIN frames /\ frames[1] = Head(frames) /\ Head(frames).type \in types
           /\ \A i \in DOMAIN frames : i = 1 \/ \E m \in DOMAIN frames' : i = m + 1
           /\ \A i \in DOMAIN frames' :
                 i + 1 \in DOMAIN frames /\ frames'[i] = frames[i + 1] /\ 1 < i + 1
           /\ \A i, j \in DOMAIN frames' : i + 1 < j + 1 => i < j
           /\ \A i, j \in DOMAIN frames' : i < j => i + 1 < j + 1
           /\ \A i \in DOMAIN frames : ~(i < 1) /\ ~(i < i)
<1>1. frames \in Seq(Frame) /\ frames # <<>> /\ frames' = Tail(frames)
  BY DEF Typed, Handles
<1>2. /\ \A i \in DOMAIN frames' : i \in Nat \ {0}
      /\ \A i \in DOMAIN frames : i \in Nat \ {0}
  BY <1>1
<1>3. /\ \A i \in DOMAIN frames' :
            i + 1 \in DOMAIN frames /\ frames'[i] = frames[i + 1] /\ 1 < i + 1
      /\ \A i \in DOMAIN frames : i = 1 \/ (i - 1 \in DOMAIN frames' /\ i = (i - 1) + 1)
  BY <1>1, <1>2, HandleFrame
<1>4. 1 \in DOMAIN frames /\ frames[1] = Head(frames) /\ Head(frames).type \in types
  BY HandleFrame
<1>5. \A i \in DOMAIN frames : i = 1 \/ \E m \in DOMAIN frames' : i = m + 1
  BY <1>3
<1> QED
  BY <1>2, <1>3, <1>4, <1>5

\* The kinds of the frames that are left.
LEMMA Left ==
    ASSUME Typed, NEW types, Handles(types)
    PROVE  /\ \A i : IsEnd(i)' => IsEnd(i + 1) /\ i \in DOMAIN frames'
           /\ \A i : IsStarted(i)' => IsStarted(i + 1) /\ i \in DOMAIN frames'
           /\ \A i : IsNarration(i)' => IsNarration(i + 1) /\ i \in DOMAIN frames'
           /\ \A i : IsEnd(i) => i = 1 \/ \E m : IsEnd(m)' /\ i = m + 1
           /\ \A i : IsStarted(i) => i = 1 \/ \E m : IsStarted(m)' /\ i = m + 1
<1>1. /\ \A i \in DOMAIN frames : i = 1 \/ \E m \in DOMAIN frames' : i = m + 1
      /\ \A i \in DOMAIN frames' : i + 1 \in DOMAIN frames /\ frames'[i] = frames[i + 1]
  BY Shifted
<1>2. /\ \A i : IsEnd(i)' => IsEnd(i + 1) /\ i \in DOMAIN frames'
      /\ \A i : IsStarted(i)' => IsStarted(i + 1) /\ i \in DOMAIN frames'
      /\ \A i : IsNarration(i)' => IsNarration(i + 1) /\ i \in DOMAIN frames'
  BY <1>1 DEF IsEnd, IsStarted, IsNarration
<1>3. \A i : IsEnd(i) => i = 1 \/ \E m : IsEnd(m)' /\ i = m + 1
  <2> SUFFICES ASSUME NEW i, IsEnd(i), i # 1 PROVE \E m : IsEnd(m)' /\ i = m + 1
    OBVIOUS
  <2>1. PICK m : m \in DOMAIN frames' /\ i = m + 1
    BY <1>1 DEF IsEnd
  <2>2. IsEnd(m)'
    BY <1>1, <2>1 DEF IsEnd
  <2> QED
    BY <2>1, <2>2
<1>4. \A i : IsStarted(i) => i = 1 \/ \E m : IsStarted(m)' /\ i = m + 1
  <2> SUFFICES ASSUME NEW i, IsStarted(i), i # 1 PROVE \E m : IsStarted(m)' /\ i = m + 1
    OBVIOUS
  <2>1. PICK m : m \in DOMAIN frames' /\ i = m + 1
    BY <1>1 DEF IsStarted
  <2>2. IsStarted(m)'
    BY <1>1, <2>1 DEF IsStarted
  <2> QED
    BY <2>1, <2>2
<1> QED
  BY <1>2, <1>3, <1>4

\* The order of what is left is the order it was in.
LEMMA FramedLeft ==
    ASSUME Turnwise, NEW types, Handles(types), serving' = serving,
           doneEmitted' => (doneEmitted /\ ~IsStarted(1)) \/ \A i : ~IsNarration(i)
    PROVE  Framed'
<1> USE DEF Turnwise
<1>1. Typed
  BY DEF Inv
<1>2. \A i, k : IsNarration(i)' /\ IsStarted(k)' => k < i
  BY <1>1, Left, Shifted DEF Reporting, Framed
<1>3. \A i, j : IsNarration(i)' /\ IsEnd(j)' => i < j \/ \E k : IsStarted(k)' /\ j < k
  <2> SUFFICES ASSUME NEW i, NEW j, IsNarration(i)', IsEnd(j)', ~(i < j)
               PROVE  \E k : IsStarted(k)' /\ j < k
    OBVIOUS
  <2>1. /\ IsNarration(i + 1) /\ IsEnd(j + 1) /\ i \in DOMAIN frames' /\ j \in DOMAIN frames'
        /\ ~(i + 1 < j + 1)
    BY <1>1, Left, Shifted
  <2>2. PICK k : IsStarted(k) /\ j + 1 < k
    BY <2>1 DEF Reporting, Framed
  <2>3. k # 1 /\ ~(j + 1 < 1)
    BY <1>1, <2>1, <2>2, Shifted
  <2>4. PICK m : IsStarted(m)' /\ k = m + 1
    BY <1>1, <2>2, <2>3, Left
  <2>5. m \in DOMAIN frames'
    BY <1>1, <2>4, Left
  <2>6. j < m
    BY <1>1, <2>1, <2>2, <2>4, <2>5, Shifted
  <2> QED
    BY <2>4, <2>6
<1>4. \A i : IsNarration(i)' =>
         \/ Serves(frames'[i].turn)
         \/ \E j : IsEnd(j)' /\ i < j /\ frames'[j].turn = frames'[i].turn
  <2> SUFFICES ASSUME NEW i, IsNarration(i)', ~Serves(frames'[i].turn)
               PROVE  \E j : IsEnd(j)' /\ i < j /\ frames'[j].turn = frames'[i].turn
    OBVIOUS
  <2>1. IsNarration(i + 1) /\ i \in DOMAIN frames' /\ frames'[i] = frames[i + 1]
    BY <1>1, Left, Shifted
  <2>2. PICK j : IsEnd(j) /\ i + 1 < j /\ frames[j].turn = frames[i + 1].turn
    BY <2>1 DEF Reporting, Framed
  <2>3. j # 1
    BY <1>1, <2>1, <2>2, Shifted
  <2>4. PICK m : IsEnd(m)' /\ j = m + 1
    BY <1>1, <2>2, <2>3, Left
  <2>5. m \in DOMAIN frames' /\ frames'[m] = frames[m + 1]
    BY <1>1, <2>4, Left, Shifted
  <2>6. i < m
    BY <1>1, <2>1, <2>2, <2>4, <2>5, Shifted
  <2> QED
    BY <2>1, <2>2, <2>4, <2>5, <2>6
<1>5. \A i : IsNarration(i)' /\ doneEmitted' => \E k : IsStarted(k)'
  <2> SUFFICES ASSUME NEW i, IsNarration(i)', doneEmitted' PROVE \E k : IsStarted(k)'
    OBVIOUS
  <2>1. IsNarration(i + 1)
    BY <1>1, Left
  <2>2. PICK k : IsStarted(k) /\ k # 1
    BY <2>1 DEF Reporting, Framed
  <2> QED
    BY <1>1, <2>2, Left
<1> QED
  BY <1>2, <1>3, <1>4, <1>5 DEF Framed, Serves

\* The end signals that are left are of one turn, if they were or if it has just started.
LEMMA SameTurnLeft ==
    ASSUME Turnwise, NEW types, Handles(types), serving' = serving,
           ~doneEmitted' => ~doneEmitted \/ IsStarted(1)
    PROVE  SameTurn'
<1> USE DEF Turnwise
<1>1. Typed
  BY DEF Inv
<1>2. \A i : IsEnd(i)' => IsEnd(i + 1) /\ 1 < i + 1 /\ frames'[i] = frames[i + 1]
  BY <1>1, Left, Shifted
<1>3. \A i, j : IsEnd(i)' /\ IsEnd(j)' /\ ~doneEmitted' => frames'[i].turn = frames'[j].turn
  <2> SUFFICES ASSUME NEW i, NEW j, IsEnd(i)', IsEnd(j)', ~doneEmitted'
               PROVE  frames'[i].turn = frames'[j].turn
    OBVIOUS
  <2>1. CASE ~doneEmitted
    BY <1>2, <2>1 DEF Reporting, SameTurn
  <2>2. CASE IsStarted(1)
    <3>1. frames[i + 1].turn = frames[1].turn /\ frames[j + 1].turn = frames[1].turn
      BY <1>2, <2>2 DEF Reporting, SameTurn
    <3> QED
      BY <1>2, <3>1
  <2> QED
    BY <2>1, <2>2
<1>4. \A i, k : IsEnd(i)' /\ IsStarted(k)' /\ k < i => frames'[i].turn = frames'[k].turn
  <2> SUFFICES ASSUME NEW i, NEW k, IsEnd(i)', IsStarted(k)', k < i
               PROVE  frames'[i].turn = frames'[k].turn
    OBVIOUS
  <2>1. /\ IsEnd(i + 1) /\ IsStarted(k + 1) /\ k + 1 < i + 1
        /\ frames'[i] = frames[i + 1] /\ frames'[k] = frames[k + 1]
    BY <1>1, Left, Shifted
  <2> QED
    BY <2>1 DEF Reporting, SameTurn
<1>5. \A k : serving # NotServing /\ IsStarted(k)' => Serves(frames'[k].turn)
  <2> SUFFICES ASSUME NEW k, serving # NotServing, IsStarted(k)'
               PROVE  Serves(frames'[k].turn)
    OBVIOUS
  <2>1. IsStarted(k + 1) /\ frames'[k] = frames[k + 1]
    BY <1>1, Left, Shifted
  <2> QED
    BY <2>1 DEF Reporting, SameTurn
<1> QED
  BY <1>3, <1>4, <1>5 DEF SameTurn, Serves

\* A turn that has said something and is not reported keeps its end, unless it is handled.
LEMMA EndLeft ==
    ASSUME Turnwise, NEW types, Handles(types), serving' = serving, ~IsEnd(1),
           NEW t, Serves(t) \/ \E j : IsEnd(j) /\ frames[j].turn = t
    PROVE  Serves(t)' \/ \E j : IsEnd(j)' /\ frames'[j].turn = t
<1>1. Typed
  BY DEF Turnwise, Inv
<1>2. CASE Serves(t)
  BY <1>2 DEF Serves
<1>3. CASE \E j : IsEnd(j) /\ frames[j].turn = t
  <2>1. PICK j : IsEnd(j) /\ frames[j].turn = t
    BY <1>3
  <2>2. PICK m : IsEnd(m)' /\ j = m + 1
    BY <1>1, <2>1, Left
  <2>3. frames'[m] = frames[m + 1]
    BY <1>1, <2>2, Left, Shifted
  <2> QED
    BY <2>1, <2>2, <2>3
<1> QED
  BY <1>2, <1>3

LEMMA NotIdleLeft ==
    ASSUME Turnwise, NEW types, Handles(types), UNCHANGED <<starts, serving>>,
           \A t : sender'[t] = "idle" => sender[t] = "idle"
    PROVE  NotIdle' /\ \A i \in DOMAIN frames' : frames'[i].turn \in Turns
<1>1. \A i \in DOMAIN frames' : i + 1 \in DOMAIN frames /\ frames'[i] = frames[i + 1]
  BY Shifted DEF Turnwise, Inv
<1>2. \A i \in DOMAIN frames' : sender'[frames'[i].turn] # "idle"
  BY <1>1 DEF Turnwise, Reporting, NotIdle
<1>3. NotIdle'
  BY <1>2 DEF Turnwise, Reporting, NotIdle
<1> QED
  BY <1>1, <1>3 DEF Turnwise, Reporting, ItemsOK

-----------------------------------------------------------------------------
(* The translator delivers what it has kept, and one item more.             *)

LEMMA DeliversOne ==
    ASSUME ItemsOK, Unreported, DoneIsLast, NEW d \in Delivery, ~Reported(d.turn),
           delivered' = Append(delivered \o pendingMsgs, d)
    PROVE  /\ delivered' \in Seq(Delivery) /\ DoneIsLast'
           /\ \A t : Reported(t)' <=> Reported(t) \/ (d.type = "done" /\ d.turn = t)
<1>1. delivered \in Seq(Delivery) /\ pendingMsgs \in Seq(Item)
  BY DEF ItemsOK
<1>2. \A i \in DOMAIN pendingMsgs : /\ pendingMsgs[i].type # "done"
                                    /\ ~Reported(pendingMsgs[i].turn)
  <2>1. \A i \in DOMAIN pendingMsgs : pendingMsgs[i] \in Item
    BY <1>1
  <2>2. \A x \in Item : x.type # "done"
    BY DEF Item
  <2> QED
    BY <2>1, <2>2 DEF Unreported
<1>3. pendingMsgs \in Seq(Delivery)
  <2>1. Item \subseteq Delivery
    BY DEF Item, Delivery
  <2> QED
    BY <1>1, <2>1
<1>4. PICK all : all = delivered \o pendingMsgs
  OBVIOUS
<1>5. /\ all \in Seq(Delivery)
      /\ \A i \in DOMAIN delivered : i \in DOMAIN all /\ all[i] = delivered[i]
      /\ \A i \in DOMAIN all : \/ i \in DOMAIN delivered
                               \/ \E m \in DOMAIN pendingMsgs : all[i] = pendingMsgs[m]
  <2>1. all \in Seq(Delivery)
    BY <1>1, <1>3, <1>4
  <2>2. \A i \in DOMAIN delivered : i \in DOMAIN all /\ all[i] = delivered[i]
    BY <1>1, <1>3, <1>4
  <2>3. \A i \in DOMAIN all : \/ i \in DOMAIN delivered
                              \/ i - Len(delivered) \in DOMAIN pendingMsgs
                                 /\ all[i] = pendingMsgs[i - Len(delivered)]
    BY <1>1, <1>3, <1>4
  <2> QED
    BY <2>1, <2>2, <2>3
<1>6. PICK n : n = Len(all) + 1
  OBVIOUS
<1>7. /\ delivered' \in Seq(Delivery)
      /\ \A i \in DOMAIN all : i \in DOMAIN delivered' /\ delivered'[i] = all[i] /\ i <= n
      /\ \A i \in DOMAIN delivered' : i \in DOMAIN all \/ i = n
      /\ n \in DOMAIN delivered' /\ delivered'[n] = d /\ n <= n
  BY <1>4, <1>5, <1>6
<1>8. \A i \in DOMAIN delivered' :
         \/ i \in DOMAIN delivered /\ delivered'[i] = delivered[i]
         \/ delivered'[i].type # "done" /\ ~Reported(delivered'[i].turn)
         \/ i = n
  <2> SUFFICES ASSUME NEW i \in DOMAIN delivered', i # n
               PROVE  \/ i \in DOMAIN delivered /\ delivered'[i] = delivered[i]
                      \/ delivered'[i].type # "done" /\ ~Reported(delivered'[i].turn)
    OBVIOUS
  <2>1. i \in DOMAIN all /\ delivered'[i] = all[i]
    BY <1>7
  <2>2. CASE i \in DOMAIN delivered
    BY <1>5, <2>1, <2>2
  <2>3. CASE \E m \in DOMAIN pendingMsgs : all[i] = pendingMsgs[m]
    BY <1>2, <2>1, <2>3
  <2> QED
    BY <1>5, <2>1, <2>2, <2>3
<1>9. \A i \in DOMAIN delivered : i \in DOMAIN delivered' /\ delivered'[i] = delivered[i]
  BY <1>5, <1>7
<1>10. \A i \in DOMAIN delivered : delivered[i].type = "done" => Reported(delivered[i].turn)
  <2> SUFFICES ASSUME NEW i \in DOMAIN delivered, delivered[i].type = "done"
               PROVE  Reported(delivered[i].turn)
    OBVIOUS
  <2>1. delivered[i] = [type |-> "done", turn |-> delivered[i].turn]
    <3>1. delivered[i] \in Delivery
      BY <1>1
    <3> QED
      BY <3>1 DEF Delivery
  <2> QED
    BY <2>1 DEF Reported
<1>11. DoneIsLast'
  <2> SUFFICES ASSUME NEW i \in DOMAIN delivered', NEW j \in DOMAIN delivered',
                      delivered'[i].type = "done", delivered'[j].turn = delivered'[i].turn
               PROVE  j <= i
    BY DEF DoneIsLast
  <2>1. CASE i = n
    BY <1>7, <2>1
  <2>2. CASE i # n
    <3>1. i \in DOMAIN delivered /\ delivered'[i] = delivered[i]
      BY <1>8, <2>2
    <3>2. Reported(delivered'[j].turn)
      BY <1>10, <3>1
    <3>3. j \in DOMAIN delivered /\ delivered'[j] = delivered[j]
      BY <1>7, <1>8, <3>2
    <3> QED
      BY <3>1, <3>3 DEF DoneIsLast
  <2> QED
    BY <2>1, <2>2
<1>12. \A t : Reported(t)' <=> Reported(t) \/ (d.type = "done" /\ d.turn = t)
  <2> TAKE t
  <2>1. Reported(t) => Reported(t)'
    BY <1>9 DEF Reported
  <2>2. ASSUME d.type = "done", d.turn = t PROVE Reported(t)'
    <3>1. d = [type |-> "done", turn |-> t]
      BY <2>2 DEF Delivery
    <3> QED
      BY <1>7, <3>1 DEF Reported
  <2>3. ASSUME Reported(t)' PROVE Reported(t) \/ (d.type = "done" /\ d.turn = t)
    <3>1. PICK i \in DOMAIN delivered' : delivered'[i] = [type |-> "done", turn |-> t]
      BY <2>3 DEF Reported
    <3>2. delivered'[i].type = "done" /\ delivered'[i].turn = t
      BY <3>1
    <3>3. CASE i = n
      BY <1>7, <3>2, <3>3
    <3>4. CASE i \in DOMAIN delivered /\ delivered'[i] = delivered[i]
      BY <3>1, <3>4 DEF Reported
    <3> QED
      BY <1>8, <3>2, <3>3, <3>4
  <2> QED
    BY <2>1, <2>2, <2>3
<1> QED
  BY <1>7, <1>11, <1>12

\* A message or a tool call: it belongs to the turn that is under way.
LEMMA NarrationReporting ==
    ASSUME Turnwise, ReadPump, AgentMessage \/ ToolStart
    PROVE  Reporting'
<1> USE DEF Turnwise
<1>1. Typed /\ Reporting /\ UNCHANGED <<sender, doneEmitted, starts, serving>>
  BY DEF Inv, ReadPump, server, AgentMessage, ToolStart
<1>2. /\ Handles({"message", "tool"}) /\ handled' = Append(handled, Head(frames))
      /\ active' = TRUE
      /\ Head(frames).type \in {"message", "tool"}
  BY DEF AgentMessage, ToolStart, Handles
<1>3. PICK h : h = frames[1]
  OBVIOUS
<1>4. /\ 1 \in DOMAIN frames /\ h = Head(frames) /\ ~IsEnd(1) /\ ~IsStarted(1)
      /\ IsNarration(1) /\ h.type \in {"message", "tool"} /\ h.turn \in Turns
  <2>1. 1 \in DOMAIN frames /\ frames[1] = Head(frames)
    BY <1>1, <1>2, Shifted
  <2> QED
    BY <1>1, <1>2, <1>3, <2>1
       DEF IsEnd, IsStarted, IsNarration, EndTypes, Reporting, ItemsOK
<1>5. ~Reported(h.turn)
  BY <1>1, <1>3, <1>4 DEF Reporting, Unreported
<1>6. h \in Item /\ h \in Delivery
  <2>1. h \in Frame
    BY <1>1, <1>4 DEF Typed
  <2>2. h = [type |-> h.type, turn |-> h.turn]
    BY <2>1 DEF Frame
  <2> QED
    BY <1>4, <2>2 DEF Item, Delivery
<1>7. Framed' /\ SameTurn' /\ NotIdle' /\ \A i \in DOMAIN frames' : frames'[i].turn \in Turns
  BY <1>1, <1>2, <1>4, FramedLeft, SameTurnLeft, NotIdleLeft
<1>8. /\ delivered' \in Seq(Delivery) /\ pendingMsgs' \in Seq(Item) /\ DoneIsLast'
      /\ \A t : Reported(t)' <=> Reported(t)
      /\ \A i \in DOMAIN pendingMsgs' : ~Reported(pendingMsgs'[i].turn)
  <2>1. pendingMsgs \in Seq(Item) /\ \A i \in DOMAIN pendingMsgs : ~Reported(pendingMsgs[i].turn)
    BY <1>1 DEF Reporting, ItemsOK, Unreported
  <2>2. CASE AgentMessage
    <3>1. pendingMsgs' = Append(pendingMsgs, h) /\ delivered' = delivered
      BY <1>4, <2>2 DEF AgentMessage
    <3>2. \A i \in DOMAIN pendingMsgs' : \/ i \in DOMAIN pendingMsgs
                                            /\ pendingMsgs'[i] = pendingMsgs[i]
                                         \/ pendingMsgs'[i] = h
      BY <1>6, <2>1, <3>1
    <3>3. pendingMsgs' \in Seq(Item)
      BY <1>6, <2>1, <3>1
    <3>4. DoneIsLast' /\ \A t : Reported(t)' <=> Reported(t)
      BY <1>1, <3>1 DEF Reporting, DoneIsLast, Reported
    <3>5. \A i \in DOMAIN pendingMsgs' : ~Reported(pendingMsgs'[i].turn)
      BY <1>5, <2>1, <3>2
    <3> QED
      BY <1>1, <3>1, <3>3, <3>4, <3>5 DEF Reporting, ItemsOK
  <2>3. CASE ToolStart
    <3>1. pendingMsgs' = <<>> /\ delivered' = Append(delivered \o pendingMsgs, h)
      BY <1>4, <2>3 DEF ToolStart
    <3>2. /\ delivered' \in Seq(Delivery) /\ DoneIsLast'
          /\ \A t : Reported(t)' <=> Reported(t) \/ (h.type = "done" /\ h.turn = t)
      BY <1>1, <1>5, <1>6, <3>1, DeliversOne DEF Reporting
    <3>3. pendingMsgs' \in Seq(Item) /\ \A i \in DOMAIN pendingMsgs' : FALSE
      BY <3>1
    <3> QED
      BY <1>4, <3>2, <3>3
  <2> QED
    BY <2>2, <2>3
<1>9. \A i : IsStarted(i)' \/ IsNarration(i)' \/ (IsEnd(i)' /\ ~doneEmitted')
                => ~Reported(frames'[i].turn)
  <2>1. \A i : IsStarted(i)' \/ IsNarration(i)' \/ IsEnd(i)' => frames'[i] = frames[i + 1]
    BY <1>1, <1>2, Left, Shifted
  <2> QED
    BY <1>1, <1>2, <2>1, Left DEF Reporting, Unreported
<1>10. Unreported'
  BY <1>1, <1>8, <1>9 DEF Reporting, Unreported
<1>11. handled' \in Seq(Item) /\ \A t : Said(t)' => Said(t) \/ t = h.turn
  <2>1. handled \in Seq(Item) /\ handled' = Append(handled, h)
    BY <1>1, <1>2, <1>4 DEF Reporting, ItemsOK
  <2>2. \A i \in DOMAIN handled' : \/ i \in DOMAIN handled /\ handled'[i] = handled[i]
                                   \/ handled'[i] = h
    BY <1>6, <2>1
  <2>3. handled' \in Seq(Item)
    BY <1>6, <2>1
  <2> QED
    BY <2>2, <2>3 DEF Said
<1>12. ItemsOK'
  BY <1>1, <1>2, <1>7, <1>8, <1>11 DEF Reporting, ItemsOK
<1>13. \A k : ~IsStarted(k)
  <2>1. \A k : IsStarted(k) => k < 1 /\ k \in DOMAIN frames
    BY <1>1, <1>4 DEF Reporting, Framed, IsStarted
  <2> QED
    BY <1>1, <1>2, <2>1, Shifted
<1>14. ~doneEmitted /\ (Serves(h.turn) \/ \E j : IsEnd(j) /\ frames[j].turn = h.turn)
  BY <1>1, <1>3, <1>4, <1>13 DEF Reporting, Framed
<1>15. ToReport'
  <2> SUFFICES ASSUME NEW t, Said(t)', ~Reported(t)'
               PROVE  /\ active' /\ ~doneEmitted' /\ \A k : ~IsStarted(k)'
                      /\ Serves(t)' \/ \E j : IsEnd(j)' /\ frames'[j].turn = t
    BY DEF ToReport
  <2>1. Serves(t) \/ \E j : IsEnd(j) /\ frames[j].turn = t
    BY <1>1, <1>8, <1>11, <1>14 DEF Reporting, ToReport
  <2>2. Serves(t)' \/ \E j : IsEnd(j)' /\ frames'[j].turn = t
    BY <1>1, <1>2, <1>4, <2>1, EndLeft
  <2>3. \A k : ~IsStarted(k)'
    BY <1>1, <1>2, <1>13, Left
  <2> QED
    BY <1>1, <1>2, <1>14, <2>2, <2>3
<1> QED
  BY <1>7, <1>8, <1>10, <1>12, <1>15 DEF Reporting

LEMMA DispatchReporting ==
    ASSUME Turnwise, ReadPump, DispatchTurnResponse
    PROVE  Reporting'
<1> USE DEF Turnwise
<1>1. /\ Typed /\ Reporting /\ UNCHANGED <<starts, serving, translator>>
      /\ Handles({"response", "error"}) /\ Head(frames).type \in {"response", "error"}
  BY DEF Inv, ReadPump, server, DispatchTurnResponse, Handles
<1>2. /\ doneEmitted' = doneEmitted /\ active' = active /\ pendingMsgs' = pendingMsgs
      /\ handled' = handled /\ delivered' = delivered
  BY <1>1 DEF translator
<1>3. ~IsEnd(1) /\ ~IsStarted(1)
  <2>1. frames[1] = Head(frames)
    BY <1>1, Shifted
  <2> QED
    BY <1>1, <2>1 DEF IsEnd, IsStarted, EndTypes
<1>4. \A t : sender'[t] = "idle" => sender[t] = "idle"
  <2>1. DOMAIN sender = Turns
    BY <1>1 DEF Typed
  <2> QED
    BY <2>1 DEF DispatchTurnResponse
<1>5. Framed' /\ SameTurn' /\ NotIdle' /\ \A i \in DOMAIN frames' : frames'[i].turn \in Turns
  BY <1>1, <1>2, <1>3, <1>4, FramedLeft, SameTurnLeft, NotIdleLeft
<1>6. \A t : (Reported(t)' <=> Reported(t)) /\ (Said(t)' <=> Said(t))
  BY <1>2 DEF Reported, Said
<1>7. \A i : IsStarted(i)' \/ IsNarration(i)' \/ (IsEnd(i)' /\ ~doneEmitted')
                => ~Reported(frames'[i].turn)
  <2>1. \A i : IsStarted(i)' \/ IsNarration(i)' \/ IsEnd(i)' => frames'[i] = frames[i + 1]
    BY <1>1, Left, Shifted
  <2> QED
    BY <1>1, <1>2, <2>1, Left DEF Reporting, Unreported
<1>8. Unreported'
  BY <1>1, <1>2, <1>4, <1>6, <1>7 DEF Reporting, Unreported
<1>9. ToReport'
  <2> SUFFICES ASSUME NEW t, Said(t), ~Reported(t)
               PROVE  /\ active' /\ ~doneEmitted' /\ \A k : ~IsStarted(k)'
                      /\ Serves(t)' \/ \E j : IsEnd(j)' /\ frames'[j].turn = t
    BY <1>6 DEF ToReport
  <2>1. /\ active /\ ~doneEmitted /\ \A k : ~IsStarted(k)
        /\ Serves(t) \/ \E j : IsEnd(j) /\ frames[j].turn = t
    BY <1>1 DEF Reporting, ToReport
  <2>2. Serves(t)' \/ \E j : IsEnd(j)' /\ frames'[j].turn = t
    BY <1>1, <1>3, <2>1, EndLeft
  <2>3. \A k : ~IsStarted(k)'
    BY <1>1, <2>1, Left
  <2> QED
    BY <1>2, <2>1, <2>2, <2>3
<1>10. ItemsOK' /\ DoneIsLast'
  BY <1>1, <1>2, <1>5 DEF Reporting, ItemsOK, DoneIsLast
<1> QED
  BY <1>5, <1>8, <1>9, <1>10 DEF Reporting

LEMMA StartedReporting ==
    ASSUME Turnwise, ReadPump, TurnStarted
    PROVE  Reporting'
<1> USE DEF Turnwise
<1>1. /\ Typed /\ Reporting /\ UNCHANGED <<starts, serving, sender, delivered, handled>>
      /\ Handles({"started"}) /\ Head(frames).type = "started"
      /\ active' = FALSE /\ doneEmitted' = FALSE /\ pendingMsgs' = <<>>
  BY DEF Inv, ReadPump, server, TurnStarted, Handles
<1>2. IsStarted(1)
  <2>1. 1 \in DOMAIN frames /\ frames[1] = Head(frames)
    BY <1>1, Shifted
  <2> QED
    BY <1>1, <2>1 DEF IsStarted
<1>3. Framed' /\ SameTurn' /\ NotIdle' /\ \A i \in DOMAIN frames' : frames'[i].turn \in Turns
  BY <1>1, <1>2, FramedLeft, SameTurnLeft, NotIdleLeft
<1>4. \A t : (Reported(t)' <=> Reported(t)) /\ (Said(t)' <=> Said(t))
  BY <1>1 DEF Reported, Said
<1>5. \A i : IsStarted(i)' \/ IsNarration(i)' \/ (IsEnd(i)' /\ ~doneEmitted')
                => ~Reported(frames'[i].turn)
  <2>1. \A i : IsStarted(i)' \/ IsNarration(i)' \/ IsEnd(i)' => frames'[i] = frames[i + 1]
    BY <1>1, Left, Shifted
  <2>2. \A i : IsEnd(i)' => frames[i + 1].turn = frames[1].turn
    <3>1. \A i : IsEnd(i)' => IsEnd(i + 1) /\ 1 < i + 1
      BY <1>1, Left, Shifted
    <3> QED
      BY <1>1, <1>2, <3>1 DEF Reporting, SameTurn
  <2>3. \A i : IsStarted(i)' \/ IsNarration(i)' => ~Reported(frames[i + 1].turn)
    BY <1>1, Left DEF Reporting, Unreported
  <2>4. ~Reported(frames[1].turn)
    BY <1>1, <1>2 DEF Reporting, Unreported
  <2> QED
    BY <2>1, <2>2, <2>3, <2>4
<1>6. Unreported'
  <2>1. \A i \in DOMAIN pendingMsgs' : FALSE
    BY <1>1
  <2> QED
    BY <1>1, <1>4, <1>5, <2>1 DEF Reporting, Unreported
<1>7. ToReport'
  BY <1>1, <1>2, <1>4 DEF Reporting, ToReport
<1>8. ItemsOK' /\ DoneIsLast'
  <2>1. pendingMsgs' \in Seq(Item)
    BY <1>1
  <2> QED
    BY <1>1, <1>3, <2>1 DEF Reporting, ItemsOK, DoneIsLast
<1> QED
  BY <1>3, <1>6, <1>7, <1>8 DEF Reporting

\* completeTurn: the first end signal of a turn reports it, and nothing of it is left.
LEMMA CompleteReporting ==
    ASSUME Turnwise, ReadPump, CompleteTurn
    PROVE  Reporting'
<1> USE DEF Turnwise
<1>1. /\ Typed /\ Reporting /\ UNCHANGED <<starts, serving, sender, handled, active>>
      /\ Handles({"completed", "idle"}) /\ doneEmitted' = TRUE
      /\ doneEmitted => UNCHANGED <<pendingMsgs, delivered>>
      /\ ~active => UNCHANGED <<pendingMsgs, delivered>>
  BY DEF Inv, ReadPump, server, CompleteTurn, Reporting, ItemsOK
<1>2. PICK h : h = frames[1]
  OBVIOUS
<1>3. /\ 1 \in DOMAIN frames /\ h = Head(frames) /\ IsEnd(1) /\ ~IsStarted(1)
      /\ h.turn \in Turns
  <2>1. /\ 1 \in DOMAIN frames /\ frames[1] = Head(frames)
        /\ Head(frames).type \in {"completed", "idle"}
    BY <1>1, Shifted
  <2> QED
    BY <1>1, <1>2, <2>1 DEF IsEnd, IsStarted, EndTypes, Reporting, ItemsOK
<1>4. NotIdle' /\ \A i \in DOMAIN frames' : frames'[i].turn \in Turns
  BY <1>1, NotIdleLeft
<1>5. \A t : Said(t)' <=> Said(t)
  BY <1>1 DEF Said
<1>6. SameTurn'
  BY <1>1, SameTurnLeft
<1>7. CASE doneEmitted
  <2>1. Framed'
    BY <1>1, <1>3, <1>7, FramedLeft
  <2>2. pendingMsgs' = pendingMsgs /\ delivered' = delivered
    BY <1>1, <1>7
  <2>3. \A t : Reported(t)' <=> Reported(t)
    BY <2>2 DEF Reported
  <2>4. \A i : IsStarted(i)' \/ IsNarration(i)' => ~Reported(frames'[i].turn)
    <3>1. \A i : IsStarted(i)' \/ IsNarration(i)' => frames'[i] = frames[i + 1]
      BY <1>1, Left, Shifted
    <3> QED
      BY <1>1, <3>1, Left DEF Reporting, Unreported
  <2>5. Unreported'
    BY <1>1, <2>2, <2>3, <2>4 DEF Reporting, Unreported
  <2>6. ToReport'
    BY <1>1, <1>5, <1>7, <2>3 DEF Reporting, ToReport
  <2>7. ItemsOK' /\ DoneIsLast'
    BY <1>1, <1>4, <2>2 DEF Reporting, ItemsOK, DoneIsLast
  <2> QED
    BY <1>4, <1>6, <2>1, <2>5, <2>6, <2>7 DEF Reporting
<1>8. CASE ~doneEmitted
  <2>1. \A k : ~IsStarted(k)
    <3>1. \A k : IsStarted(k) => k = 1 \/ 1 < k
      <4>1. frames \in Seq(Frame)
        BY <1>1 DEF Typed
      <4> QED
        BY <4>1 DEF IsStarted
    <3> QED
      BY <1>3, <1>8, <3>1 DEF Inv, Guarded
  <2>2. \A i : ~IsNarration(i)
    <3>1. \A i : IsNarration(i) => i < 1 /\ i \in DOMAIN frames
      BY <1>1, <1>3, <2>1 DEF Reporting, Framed, IsNarration
    <3> QED
      BY <1>1, <3>1, Shifted
  <2>3. starts = <<>> /\ serving = NotServing
    BY <1>3, <1>8 DEF Inv, Guarded, Quiet
  <2>4. Framed'
    BY <1>1, <2>2, FramedLeft
  <2>5. (\A i : ~IsStarted(i)') /\ (\A i : ~IsNarration(i)')
    BY <1>1, <2>1, <2>2, Left
  <2>6. ~Reported(h.turn) /\ sender[h.turn] # "idle"
    BY <1>1, <1>2, <1>3, <1>8 DEF Reporting, Unreported, NotIdle
  <2>7. PICK d : d = [type |-> "done", turn |-> h.turn]
    OBVIOUS
  <2>8. d \in Delivery /\ d.turn = h.turn /\ d.type = "done"
    BY <1>3, <2>7 DEF Delivery
  <2>9. /\ delivered' \in Seq(Delivery) /\ DoneIsLast' /\ pendingMsgs' \in Seq(Item)
        /\ \A t : Reported(t) => Reported(t)'
        /\ \A t : Reported(t)' => Reported(t) \/ t = h.turn
        /\ active => Reported(h.turn)'
        /\ \A i \in DOMAIN pendingMsgs' : ~Reported(pendingMsgs[i].turn)'
    <3>1. CASE active
      <4>1. pendingMsgs' = <<>> /\ delivered' = Append(delivered \o pendingMsgs, d)
        BY <1>3, <1>8, <2>7, <3>1 DEF CompleteTurn
      <4>2. /\ delivered' \in Seq(Delivery) /\ DoneIsLast'
            /\ \A t : Reported(t)' <=> Reported(t) \/ (d.type = "done" /\ d.turn = t)
        BY <1>1, <2>6, <2>8, <4>1, DeliversOne DEF Reporting
      <4>3. pendingMsgs' \in Seq(Item) /\ \A i \in DOMAIN pendingMsgs' : FALSE
        BY <4>1
      <4> QED
        BY <2>8, <4>2, <4>3
    <3>2. CASE ~active
      <4>1. pendingMsgs' = pendingMsgs /\ delivered' = delivered
        BY <1>1, <3>2
      <4>2. \A t : Reported(t)' <=> Reported(t)
        BY <4>1 DEF Reported
      <4>3. DoneIsLast' /\ \A i \in DOMAIN pendingMsgs' : ~Reported(pendingMsgs[i].turn)'
        BY <1>1, <4>1, <4>2 DEF Reporting, DoneIsLast, Unreported
      <4> QED
        BY <1>1, <3>2, <4>1, <4>2, <4>3 DEF Reporting, ItemsOK
    <3> QED
      BY <3>1, <3>2
  <2>10. Unreported'
    <3>1. \A t \in Turns : sender[t] = "idle" => ~Reported(t)'
      BY <1>1, <2>6, <2>9 DEF Reporting, Unreported
    <3> QED
      BY <1>1, <2>3, <2>5, <2>9, <3>1 DEF Unreported
  <2>11. ToReport'
    <3> SUFFICES ASSUME NEW t, Said(t), ~Reported(t)' PROVE FALSE
      BY <1>5 DEF ToReport
    <3>1. active /\ \E j : IsEnd(j) /\ frames[j].turn = t
      BY <1>1, <2>3, <2>9 DEF Reporting, ToReport, Serves
    <3>2. t = h.turn
      BY <1>1, <1>2, <1>3, <1>8, <3>1 DEF Reporting, SameTurn
    <3> QED
      BY <2>9, <3>1, <3>2
  <2>12. ItemsOK'
    BY <1>1, <1>4, <2>9 DEF Reporting, ItemsOK
  <2> QED
    BY <1>4, <1>6, <2>4, <2>9, <2>10, <2>11, <2>12 DEF Reporting
<1> QED
  BY <1>7, <1>8

LEMMA TurnwiseStep ==
    ASSUME Turnwise, [TurnsNext]_turnVars
    PROVE  Turnwise'
<1>1. Inv'
  BY InvStep DEF Turnwise
<1>2. CASE UNCHANGED turnVars
  <2>1. UNCHANGED <<frames, serving, translator, starts, sender>>
    BY <1>2 DEF turnVars, server
  <2>2. pendingMsgs' = pendingMsgs /\ doneEmitted' = doneEmitted
    BY <2>1 DEF translator
  <2>3. Unreported' /\ NotIdle'
    BY <2>1, <2>2, ReportingSame DEF Turnwise, Reporting, Unreported, NotIdle
  <2> QED
    BY <1>1, <2>1, <2>3, ReportingSame DEF Turnwise, Reporting
<1>3. CASE ReadPump
  BY <1>1, <1>3, DispatchReporting, StartedReporting, NarrationReporting, CompleteReporting
     DEF ReadPump, Turnwise
<1> QED
  BY <1>1, <1>2, <1>3, DriverReporting, StopReporting, ServerReporting DEF TurnsNext, Turnwise

(***************************************************************************)
(* A turn that said anything is reported by exactly one Done, after all    *)
(* that it said, whichever signals it ends by and whatever is still on its *)
(* way when the next turn starts.                                          *)
(***************************************************************************)
THEOREM OneDonePerTurnAlways == TurnsSpec => []OneDonePerTurn
<1>1. Turnwise => OneDonePerTurn
  <2> SUFFICES ASSUME Turnwise, NEW t \in Turns
               PROVE  /\ Cardinality(DonesOf(t)) <= 1
                      /\ \A i \in DonesOf(t), j \in DOMAIN delivered :
                            delivered[j].turn = t => j <= i
                      /\ Ended(t) /\ Said(t) => DonesOf(t) # {}
    BY DEF OneDonePerTurn, Said
  <2>1. \A i \in DonesOf(t) :
           i \in DOMAIN delivered /\ delivered[i].type = "done" /\ delivered[i].turn = t
    BY DEF DonesOf
  <2>2. \A i \in DonesOf(t), j \in DOMAIN delivered : delivered[j].turn = t => j <= i
    BY <2>1 DEF Turnwise, Reporting, DoneIsLast
  <2>3. Cardinality(DonesOf(t)) <= 1
    <3>1. CASE DonesOf(t) = {}
      BY <3>1, FS_EmptySet
    <3>2. CASE DonesOf(t) # {}
      <4>1. PICK i : i \in DonesOf(t)
        BY <3>2
      <4>2. \A j \in DonesOf(t) : j <= i /\ i <= j /\ i \in Nat /\ j \in Nat
        <5>1. \A j \in DOMAIN delivered : j \in Nat
          BY DEF Turnwise, Reporting, ItemsOK
        <5> QED
          BY <2>1, <2>2, <4>1, <5>1
      <4>3. DonesOf(t) = {i}
        BY <4>1, <4>2
      <4>4. Cardinality({i}) = 1
        BY FS_Singleton
      <4> QED
        BY <4>3, <4>4
    <3> QED
      BY <3>1, <3>2
  <2>4. ASSUME Ended(t), Said(t) PROVE DonesOf(t) # {}
    <3>1. ~Serves(t) /\ \A j : IsEnd(j) => frames[j].turn # t
      BY <2>4 DEF Ended, Serves, IsEnd
    <3>2. Reported(t)
      BY <2>4, <3>1 DEF Turnwise, Reporting, ToReport
    <3> QED
      BY <3>2 DEF Reported, DonesOf
  <2> QED
    BY <2>2, <2>3, <2>4
<1>2. TurnsInit => Turnwise
  BY InvInit, ReportingInit DEF Turnwise
<1>3. Turnwise /\ [TurnsNext]_turnVars => Turnwise'
  BY TurnwiseStep
<1> QED
  BY <1>1, <1>2, <1>3, PTL DEF TurnsSpec

-----------------------------------------------------------------------------
(* The narration, in order.                                                 *)

Ordered(s, h) == s \in Seq(Delivery) /\ h \in Seq(Item) /\ InOrder(s, h)

LEMMA ItemsFinite ==
    ASSUME NEW s \in Seq(Delivery)
    PROVE  /\ ItemsOf(s) \subseteq 1..Len(s)
           /\ IsFiniteSet(ItemsOf(s)) /\ Cardinality(ItemsOf(s)) \in Nat
           /\ \A i \in ItemsOf(s) : Cardinality(Upto(s, i)) \in 1..Cardinality(ItemsOf(s))
<1>1. Len(s) \in Nat /\ ItemsOf(s) \subseteq 1..Len(s)
  BY DEF ItemsOf
<1>2. IsFiniteSet(1..Len(s))
  BY <1>1, FS_Interval
<1>3. IsFiniteSet(ItemsOf(s))
  BY <1>1, <1>2, FS_Subset
<1>4. Cardinality(ItemsOf(s)) \in Nat
  BY <1>3, FS_CardinalityType
<1>5. ASSUME NEW i \in ItemsOf(s)
      PROVE  Cardinality(Upto(s, i)) \in 1..Cardinality(ItemsOf(s))
  <2>1. i \in Upto(s, i) /\ Upto(s, i) \in SUBSET ItemsOf(s)
    BY <1>1 DEF Upto
  <2>2. IsFiniteSet(Upto(s, i)) /\ Cardinality(Upto(s, i)) <= Cardinality(ItemsOf(s))
    BY <1>3, <2>1, FS_Subset
  <2>3. Cardinality(Upto(s, i)) \in Nat /\ Cardinality(Upto(s, i)) # 0
    BY <2>1, <2>2, FS_CardinalityType, FS_EmptySet
  <2> QED
    BY <1>4, <2>2, <2>3
<1> QED
  BY <1>1, <1>3, <1>4, <1>5

\* What comes last does not change what the items before it are.
Extends(t, s, d) ==
    /\ t \in Seq(Delivery) /\ t[Len(s) + 1] = d
    /\ ItemsOf(t) = IF d.type = "done" THEN ItemsOf(s) ELSE ItemsOf(s) \cup {Len(s) + 1}
    /\ \A i \in ItemsOf(s) : t[i] = s[i] /\ Upto(t, i) = Upto(s, i)

LEMMA AppendItems ==
    ASSUME NEW s, NEW h, Ordered(s, h), NEW d \in Delivery
    PROVE  Extends(Append(s, d), s, d)
<1>0. PICK t : t = Append(s, d)
  OBVIOUS
<1>1. /\ t \in Seq(Delivery) /\ DOMAIN t = 1..(Len(s) + 1) /\ t[Len(s) + 1] = d
      /\ \A i \in 1..Len(s) : t[i] = s[i]
      /\ DOMAIN s = 1..Len(s) /\ Len(s) \in Nat
  BY <1>0 DEF Ordered
<1>2. ItemsOf(t) = IF d.type = "done" THEN ItemsOf(s) ELSE ItemsOf(s) \cup {Len(s) + 1}
  <2>1. \A n \in Nat : 1..(n + 1) = 1..n \cup {n + 1}
    OBVIOUS
  <2>2. DOMAIN t = DOMAIN s \cup {Len(s) + 1}
    BY <1>1, <2>1
  <2> QED
    BY <1>1, <2>2 DEF ItemsOf
<1>3. ASSUME NEW i \in ItemsOf(s) PROVE t[i] = s[i] /\ Upto(t, i) = Upto(s, i)
  <2>1. i \in 1..Len(s)
    BY <1>1 DEF ItemsOf
  <2>2. ~(Len(s) + 1 <= i)
    BY <1>1, <2>1
  <2> QED
    BY <1>1, <1>2, <2>1, <2>2 DEF Upto
<1> QED
  BY <1>0, <1>1, <1>2, <1>3 DEF Extends

LEMMA OrderedDone ==
    ASSUME NEW s, NEW h, Ordered(s, h), NEW d \in Delivery, d.type = "done"
    PROVE  Ordered(Append(s, d), h)
<1>1. s \in Seq(Delivery) /\ InOrder(s, h) /\ h \in Seq(Item)
  BY DEF Ordered
<1>2. PICK t : t = Append(s, d)
  OBVIOUS
<1>3. /\ t \in Seq(Delivery) /\ ItemsOf(t) = ItemsOf(s)
      /\ \A i \in ItemsOf(s) : t[i] = s[i] /\ Upto(t, i) = Upto(s, i)
  <2>1. Extends(t, s, d)
    BY <1>2, AppendItems
  <2> QED
    BY <2>1 DEF Extends
<1> QED
  BY <1>1, <1>2, <1>3 DEF Ordered, InOrder

LEMMA OrderedItem ==
    ASSUME NEW s, NEW h, Ordered(s, h), NEW d \in Item
    PROVE  Ordered(Append(s, d), Append(h, d))
<1>1. s \in Seq(Delivery) /\ InOrder(s, h) /\ h \in Seq(Item)
  BY DEF Ordered
<1>2. d \in Delivery /\ d.type # "done"
  BY DEF Item, Delivery
<1>3. PICK t : t = Append(s, d)
  OBVIOUS
<1>4. PICK g : g = Append(h, d)
  OBVIOUS
<1>5. PICK n : n = Len(s) + 1
  OBVIOUS
<1>6. PICK c : c = Cardinality(ItemsOf(s))
  OBVIOUS
<1>7. /\ t \in Seq(Delivery) /\ t[n] = d /\ ItemsOf(t) = ItemsOf(s) \cup {n}
      /\ \A i \in ItemsOf(s) : t[i] = s[i] /\ Upto(t, i) = Upto(s, i)
  <2>1. Extends(t, s, d)
    BY <1>2, <1>3, AppendItems
  <2> QED
    BY <1>2, <1>5, <2>1 DEF Extends
<1>8. /\ c \in Nat /\ IsFiniteSet(ItemsOf(s)) /\ n \notin ItemsOf(s)
      /\ \A i \in ItemsOf(s) : i <= n /\ Cardinality(Upto(s, i)) \in 1..c
  <2>1. Len(s) \in Nat /\ n \notin 1..Len(s) /\ \A i \in 1..Len(s) : i <= n
    BY <1>1, <1>5
  <2> QED
    BY <1>1, <1>6, <2>1, ItemsFinite
<1>9. Cardinality(ItemsOf(t)) = c + 1
  BY <1>6, <1>7, <1>8, FS_AddElement
<1>10. Upto(t, n) = ItemsOf(t)
  <2>1. n <= n
    BY <1>1, <1>5
  <2> QED
    BY <1>7, <1>8, <2>1 DEF Upto
<1>11. /\ g \in Seq(Item) /\ Len(g) = c + 1 /\ g[c + 1] = d
       /\ \A k \in 1..c : g[k] = h[k]
  <2>1. Len(h) = c
    BY <1>1, <1>6 DEF InOrder
  <2> QED
    BY <1>1, <1>4, <2>1
<1>12. ASSUME NEW i \in ItemsOf(t) PROVE g[Cardinality(Upto(t, i))] = t[i]
  <2>1. CASE i = n
    BY <1>7, <1>9, <1>10, <1>11, <2>1
  <2>2. CASE i \in ItemsOf(s)
    <3>1. h[Cardinality(Upto(s, i))] = s[i]
      BY <1>1, <2>2 DEF InOrder
    <3> QED
      BY <1>7, <1>8, <1>11, <2>2, <3>1
  <2> QED
    BY <1>7, <2>1, <2>2
<1> QED
  BY <1>3, <1>4, <1>7, <1>9, <1>11, <1>12 DEF Ordered, InOrder

LEMMA OrderedStart ==
    ASSUME Turnwise, NarrationInOrder, ReadPump, TurnStarted
    PROVE  pendingMsgs = <<>>
<1>1. /\ delivered \in Seq(Delivery) /\ pendingMsgs \in Seq(Item) /\ handled \in Seq(Item)
      /\ Item \subseteq Delivery /\ \A x \in Item : x.type # "done"
  BY DEF Turnwise, Reporting, ItemsOK, Item, Delivery
<1>2. IsStarted(1)
  <2>1. Typed /\ Handles({"started"})
    BY DEF Turnwise, Inv, TurnStarted
  <2>2. 1 \in DOMAIN frames /\ frames[1] = Head(frames) /\ Head(frames).type = "started"
    BY <2>1, Shifted
  <2> QED
    BY <2>2 DEF IsStarted
<1>3. SUFFICES ASSUME pendingMsgs # <<>> PROVE FALSE
  OBVIOUS
<1>4. PICK all : all = delivered \o pendingMsgs
  OBVIOUS
<1>5. PICK i : i = Len(delivered) + 1
  OBVIOUS
<1>6. 1 \in DOMAIN pendingMsgs /\ pendingMsgs[1] \in Item
  BY <1>1, <1>3
<1>7. pendingMsgs \in Seq(Delivery)
  BY <1>1
<1>8. all \in Seq(Delivery) /\ i \in DOMAIN all /\ all[i] = pendingMsgs[1]
  BY <1>1, <1>4, <1>5, <1>6, <1>7
<1>9. i \in ItemsOf(all)
  BY <1>1, <1>6, <1>8 DEF ItemsOf
<1>10. PICK k : k = Cardinality(Upto(all, i))
  OBVIOUS
<1>11. k \in DOMAIN handled /\ handled[k] = pendingMsgs[1]
  <2>1. InOrder(all, handled)
    BY <1>4 DEF NarrationInOrder
  <2>2. k \in 1..Cardinality(ItemsOf(all)) /\ Len(handled) = Cardinality(ItemsOf(all))
    BY <1>8, <1>9, <1>10, <2>1, ItemsFinite DEF InOrder
  <2>3. k \in DOMAIN handled
    BY <1>1, <2>2
  <2> QED
    BY <1>8, <1>9, <1>10, <2>1, <2>3 DEF InOrder
<1>12. Said(pendingMsgs[1].turn) /\ ~Reported(pendingMsgs[1].turn)
  BY <1>6, <1>11 DEF Said, Turnwise, Reporting, Unreported
<1> QED
  BY <1>2, <1>12 DEF Turnwise, Reporting, ToReport

LEMMA OrderedStep ==
    ASSUME Turnwise, Turnwise', NarrationInOrder, [TurnsNext]_turnVars
    PROVE  NarrationInOrder'
<1>1. ASSUME UNCHANGED <<delivered, pendingMsgs, handled>> PROVE NarrationInOrder'
  BY <1>1 DEF NarrationInOrder
<1>2. /\ delivered \in Seq(Delivery) /\ pendingMsgs \in Seq(Item) /\ handled \in Seq(Item)
      /\ Item \subseteq Delivery
  BY DEF Turnwise, Reporting, ItemsOK, Item, Delivery
<1>3. pendingMsgs \in Seq(Delivery)
  BY <1>2
<1>4. PICK all : all = delivered \o pendingMsgs
  OBVIOUS
<1>5. all \in Seq(Delivery)
  BY <1>2, <1>3, <1>4
<1>6. Ordered(all, handled)
  BY <1>2, <1>4, <1>5 DEF NarrationInOrder, Ordered
<1>7. \A d : delivered \o Append(pendingMsgs, d) = Append(all, d)
  BY <1>2, <1>3, <1>4
<1>8. \A s \in Seq(Delivery) : s \o <<>> = s
  OBVIOUS
<1>9. ASSUME ReadPump, AgentMessage \/ ToolStart \/ CompleteTurn PROVE NarrationInOrder'
  <2>1. PICK d : d = Head(frames)
    OBVIOUS
  <2>2. 1 \in DOMAIN frames /\ d = frames[1] /\ d \in Frame /\ d.turn \in Turns
    <3>1. Typed /\ Reporting
      BY DEF Turnwise, Inv
    <3>2. 1 \in DOMAIN frames /\ frames[1] = Head(frames)
      BY <1>9, <3>1, Shifted DEF AgentMessage, ToolStart, CompleteTurn
    <3> QED
      BY <2>1, <3>1, <3>2 DEF Typed, Reporting, ItemsOK
  <2>3. ASSUME d.type \in {"message", "tool"} PROVE d \in Item
    BY <2>2, <2>3 DEF Frame, Item
  <2>4. CASE AgentMessage
    <3>1. /\ d.type = "message" /\ pendingMsgs' = Append(pendingMsgs, d)
          /\ handled' = Append(handled, d) /\ delivered' = delivered
      BY <2>1, <2>4 DEF AgentMessage, Handles
    <3>2. Ordered(Append(all, d), Append(handled, d))
      BY <1>6, <2>3, <3>1, OrderedItem
    <3>3. delivered' \o pendingMsgs' = Append(all, d)
      BY <1>7, <3>1
    <3> QED
      BY <3>1, <3>2, <3>3 DEF Ordered, NarrationInOrder
  <2>5. CASE ToolStart
    <3>1. /\ d.type = "tool" /\ pendingMsgs' = <<>> /\ handled' = Append(handled, d)
          /\ delivered' = Append(all, d)
      BY <1>4, <2>1, <2>5 DEF ToolStart, Handles
    <3>2. Ordered(Append(all, d), Append(handled, d))
      BY <1>6, <2>3, <3>1, OrderedItem
    <3>3. delivered' \o pendingMsgs' = Append(all, d)
      BY <1>8, <3>1, <3>2 DEF Ordered
    <3> QED
      BY <3>1, <3>2, <3>3 DEF Ordered, NarrationInOrder
  <2>6. CASE CompleteTurn /\ active /\ ~doneEmitted
    <3> DEFINE done == [type |-> "done", turn |-> d.turn]
    <3>1. done \in Delivery /\ done.type = "done"
      BY <2>2 DEF Delivery
    <3>2. pendingMsgs' = <<>> /\ handled' = handled /\ delivered' = Append(all, done)
      BY <1>4, <2>1, <2>6 DEF CompleteTurn
    <3> HIDE DEF done
    <3>3. Ordered(Append(all, done), handled)
      BY <1>6, <3>1, OrderedDone
    <3>4. delivered' \o pendingMsgs' = Append(all, done)
      BY <1>8, <3>2, <3>3 DEF Ordered
    <3> QED
      BY <3>2, <3>3, <3>4 DEF Ordered, NarrationInOrder
  <2>7. CASE CompleteTurn /\ (~active \/ doneEmitted)
    BY <1>1, <2>7 DEF CompleteTurn
  <2> QED
    BY <1>9, <2>4, <2>5, <2>6, <2>7
<1>10. ASSUME ReadPump, TurnStarted PROVE NarrationInOrder'
  BY <1>1, <1>10, OrderedStart DEF TurnStarted
<1>11. CASE ReadPump /\ DispatchTurnResponse
  BY <1>1, <1>11 DEF DispatchTurnResponse, translator
<1>12. CASE Driver
  BY <1>1, <1>12 DEF Driver, SendBlocks, SendBlocksResumes, StopBegins, StopWaits,
                     StopInterrupts, New, translator
<1>13. CASE Server
  BY <1>1, <1>13 DEF Server, translator
<1>14. CASE UNCHANGED turnVars
  BY <1>1, <1>14 DEF turnVars, translator
<1> QED
  BY <1>9, <1>10, <1>11, <1>12, <1>13, <1>14 DEF TurnsNext, ReadPump

(***************************************************************************)
(* The texts that the translator holds back until a tool starts or the     *)
(* turn ends are neither lost nor overtaken: what was delivered, and after *)
(* it what is held back, is what the agent produced, in its order.         *)
(***************************************************************************)
THEOREM NarrationInOrderAlways == TurnsSpec => []NarrationInOrder
<1>1. TurnsInit => Turnwise /\ NarrationInOrder
  <2> SUFFICES ASSUME TurnsInit PROVE NarrationInOrder
    BY InvInit, ReportingInit DEF Turnwise
  <2>1. delivered = <<>> /\ pendingMsgs = <<>> /\ handled = <<>>
    BY DEF TurnsInit
  <2>2. PICK all : all = delivered \o pendingMsgs
    OBVIOUS
  <2>3. ItemsOf(all) = {} /\ Len(handled) = 0
    <3>1. all = <<>>
      BY <2>1, <2>2
    <3> QED
      BY <2>1, <3>1 DEF ItemsOf
  <2>4. InOrder(all, handled)
    BY <2>3, FS_EmptySet DEF InOrder
  <2> QED
    BY <2>2, <2>4 DEF NarrationInOrder
<1>2. Turnwise /\ NarrationInOrder /\ [TurnsNext]_turnVars => Turnwise' /\ NarrationInOrder'
  BY TurnwiseStep, OrderedStep
<1> QED
  BY <1>1, <1>2, PTL DEF TurnsSpec

-----------------------------------------------------------------------------
(* Who will release the guard.                                              *)

\* A response and the start of its turn come together.
Answers ==
    \A i \in DOMAIN frames : frames[i].type = "response" => \E k : IsStarted(k) /\ i < k
Released == Turnwise /\ Answers /\ GuardHasRelease

\* What releases the guard is still there behind what the server adds.
LEMMA ReleaseKept ==
    ASSUME \A i \in DOMAIN frames : i \in DOMAIN frames' /\ frames'[i] = frames[i],
           doneEmitted' = doneEmitted, NEW i \in DOMAIN frames, Releases(i)
    PROVE  i \in DOMAIN frames' /\ Releases(i)'
BY DEF Releases

LEMMA AnswersKept ==
    ASSUME Answers, \A i \in DOMAIN frames : i \in DOMAIN frames' /\ frames'[i] = frames[i],
           \A i \in DOMAIN frames' : i \in DOMAIN frames \/ frames'[i].type # "response"
    PROVE  Answers'
BY DEF Answers, IsStarted

LEMMA DriverReleased ==
    ASSUME Released, Driver, ~StopInterrupts
    PROVE  Answers' /\ GuardHasRelease'
<1>1. frames' = frames /\ doneEmitted' = doneEmitted /\ serving' = serving
  BY DEF Driver, SendBlocks, SendBlocksResumes, StopBegins, StopWaits, New, translator, server
<1>2. Answers'
  BY <1>1 DEF Released, Answers, IsStarted
<1>3. \A i \in DOMAIN frames : Releases(i)' <=> Releases(i)
  BY <1>1 DEF Releases
<1>4. DOMAIN sender = Turns
  BY DEF Released, Turnwise, Inv, Typed
<1>5. ASSUME UNCHANGED <<busy, starts>>, \A t \in Turns : Rejected(t) => Rejected(t)'
      PROVE  GuardHasRelease'
  BY <1>1, <1>3, <1>5 DEF Released, GuardHasRelease, Rejected
<1>6. ASSUME NEW t \in Turns, SendBlocks(t) PROVE GuardHasRelease'
  <2>1. CASE busy
    <3>1. UNCHANGED <<busy, starts>> /\ \A u \in Turns : Rejected(u) => Rejected(u)'
      BY <1>4, <1>6, <2>1 DEF SendBlocks, Rejected
    <3> QED
      BY <1>5, <3>1
  <2>2. CASE ~busy
    <3>1. starts \in Seq(Start)
      BY DEF Released, Turnwise, Inv, Typed
    <3>2. starts' # <<>>
      BY <1>6, <2>2, <3>1 DEF SendBlocks
    <3> QED
      BY <3>2 DEF GuardHasRelease
  <2> QED
    BY <2>1, <2>2
<1>7. ASSUME NEW t \in Turns, SendBlocksResumes(t) PROVE GuardHasRelease'
  <2>1. CASE sender[t] = "accepted"
    <3>1. UNCHANGED <<busy, starts>> /\ \A u \in Turns : Rejected(u) => Rejected(u)'
      BY <1>4, <1>7, <2>1 DEF SendBlocksResumes, server, Rejected
    <3> QED
      BY <1>5, <3>1
  <2>2. CASE sender[t] # "accepted"
    BY <1>7, <2>2 DEF SendBlocksResumes, GuardHasRelease
  <2> QED
    BY <2>1, <2>2
<1>8. CASE StopBegins \/ StopWaits \/ New
  <2>1. UNCHANGED <<busy, starts, sender>>
    BY <1>8 DEF StopBegins, StopWaits, New, driver, server
  <2> QED
    BY <1>2, <1>5, <2>1 DEF Rejected
<1> QED
  BY <1>2, <1>6, <1>7, <1>8 DEF Driver

LEMMA EndsReleased ==
    ASSUME Released, ServerEnds, serving # NotServing, UNCHANGED doneEmitted
    PROVE  Answers' /\ GuardHasRelease'
<1>1. Typed /\ Guarded
  BY DEF Released, Turnwise, Inv
<1>2. PICK signals \in EndSignals :
         frames' = frames \o [i \in DOMAIN signals |->
                                [type |-> signals[i], turn |-> serving.turn]]
  BY DEF ServerEnds
<1>3. PICK more : more = [i \in DOMAIN signals |->
                                [type |-> signals[i], turn |-> serving.turn]]
  OBVIOUS
<1>4. signals \in Seq(EndTypes) /\ 1 \in DOMAIN signals
  BY <1>2, SignalsOK
<1>5. serving.turn \in Turns
  BY <1>1 DEF Typed, Start
<1>6. /\ more \in Seq(Frame) /\ 1 \in DOMAIN more
      /\ \A i \in DOMAIN more : more[i].type \in EndTypes
  <2>1. DOMAIN signals = 1..Len(signals) /\ Len(signals) \in Nat
    BY <1>4
  <2>2. DOMAIN more = 1..Len(signals) /\ more = [i \in 1..Len(signals) |-> more[i]]
    BY <1>3, <2>1
  <2>3. \A i \in 1..Len(signals) : more[i] \in Frame /\ more[i].type \in EndTypes
    BY <1>3, <1>4, <1>5, <2>1 DEF Frame
  <2>4. more \in [1..Len(signals) -> Frame]
    BY <2>2, <2>3
  <2> QED
    BY <1>4, <2>1, <2>2, <2>3, <2>4
<1>7. frames \in Seq(Frame) /\ frames' = frames \o more
  BY <1>1, <1>2, <1>3 DEF Typed
<1>8. /\ \A i \in DOMAIN frames : i \in DOMAIN frames' /\ frames'[i] = frames[i]
      /\ \A i \in DOMAIN frames' : i \in DOMAIN frames \/ frames'[i].type \in EndTypes
  BY <1>6, <1>7
<1>9. PICK e : e \in DOMAIN frames' /\ e = Len(frames) + 1 /\ frames'[e] = more[1]
  BY <1>6, <1>7
<1>10. frames'[e].type \in {"completed", "idle"} /\ \A i \in DOMAIN frames : i < e
  BY <1>6, <1>7, <1>9 DEF EndTypes
<1>11. Releases(e)'
  <2>1. doneEmitted => \E k \in DOMAIN frames : frames[k].type = "started"
    BY <1>1 DEF Guarded, IsStarted
  <2> QED
    BY <1>8, <1>10, <2>1 DEF Releases
<1>12. Answers'
  BY <1>8, AnswersKept DEF Released, EndTypes
<1> QED
  BY <1>9, <1>11, <1>12 DEF GuardHasRelease

LEMMA ServerReleased ==
    ASSUME Released, Server \/ StopInterrupts
    PROVE  Answers' /\ GuardHasRelease'
<1>1. Typed
  BY DEF Released, Turnwise, Inv
<1>2. UNCHANGED <<busy, sender, doneEmitted>>
  BY DEF Server, StopInterrupts, driver, translator
<1>3. CASE ServerCompletes
  BY <1>2, <1>3, EndsReleased DEF ServerCompletes
<1>4. ASSUME NEW type \in {"message", "tool"}, ServerNarrates(type)
      PROVE  Answers' /\ GuardHasRelease'
  <2>1. PICK f : f = [type |-> type, turn |-> serving.turn]
    OBVIOUS
  <2>2. serving # NotServing /\ frames' = Append(frames, f) /\ UNCHANGED <<starts, serving>>
    BY <1>4, <2>1 DEF ServerNarrates, server
  <2>3. f \in Frame /\ f.type # "response"
    BY <1>1, <2>1, <2>2 DEF Typed, Frame, Start
  <2>4. Answers'
    BY <1>1, <2>2, <2>3, AppendFrame, AnswersKept DEF Released
  <2> QED
    BY <2>2, <2>4 DEF GuardHasRelease
<1>5. CASE ServerReads(FALSE)
  <2>1. PICK f : f = [type |-> "error", turn |-> Head(starts).turn]
    OBVIOUS
  <2>2. starts # <<>> /\ frames' = Append(frames, f)
    BY <1>5, <2>1 DEF ServerReads
  <2>3. starts \in Seq(Start) /\ Len(starts) = 1
    BY <1>1, <2>2, OneStart DEF Typed
  <2>4. Head(starts) \in Start
    BY <2>2, <2>3
  <2>5. f \in Frame /\ f.type = "error"
    BY <2>1, <2>4 DEF Frame, Start
  <2>6. Answers'
    BY <1>1, <2>2, <2>5, AppendFrame, AnswersKept DEF Released
  <2>7. \E i \in DOMAIN frames' : frames'[i].type = "error"
    BY <1>1, <2>2, <2>5, AppendFrame
  <2> QED
    BY <2>6, <2>7 DEF GuardHasRelease, Releases
<1>6. CASE ServerReads(TRUE)
  <2>1. PICK r, f : /\ r = [type |-> "response", turn |-> Head(starts).turn]
                    /\ f = [type |-> "started", turn |-> Head(starts).turn]
                    /\ frames' = frames \o <<r, f>>
                    /\ starts # <<>> /\ serving' = Head(starts)
    BY <1>6 DEF ServerReads
  <2>2. starts \in Seq(Start) /\ Len(starts) = 1
    BY <1>1, <2>1, OneStart DEF Typed
  <2>3. Head(starts) \in Start
    BY <2>1, <2>2
  <2>4. r \in Frame /\ f \in Frame /\ f.type = "started"
    BY <2>1, <2>3 DEF Frame, Start
  <2>5. /\ \A i \in DOMAIN frames' : \/ i \in DOMAIN frames
                                     \/ i = Len(frames) + 1 \/ i = Len(frames) + 2
        /\ \A i \in DOMAIN frames : i \in DOMAIN frames' /\ frames'[i] = frames[i]
        /\ Len(frames) + 2 \in DOMAIN frames' /\ frames'[Len(frames) + 2] = f
        /\ Len(frames) \in Nat
    BY <1>1, <2>1, <2>4, AppendTwo
  <2>6. PICK k : k = Len(frames) + 2
    OBVIOUS
  <2>7. IsStarted(k)' /\ Len(frames) + 1 < k
    BY <2>4, <2>5, <2>6 DEF IsStarted
  <2>8. \A i \in DOMAIN frames : IsStarted(i) => IsStarted(i)'
    BY <2>5 DEF IsStarted
  <2>9. ASSUME NEW i \in DOMAIN frames', frames'[i].type = "response"
        PROVE  \E j : IsStarted(j)' /\ i < j
    <3>1. CASE i \in DOMAIN frames
      BY <2>5, <2>8, <2>9, <3>1 DEF Released, Answers, IsStarted
    <3>2. CASE i = Len(frames) + 1
      BY <2>7, <3>2
    <3>3. CASE i = Len(frames) + 2
      BY <2>4, <2>5, <2>9, <3>3
    <3> QED
      BY <2>5, <3>1, <3>2, <3>3
  <2>10. serving' # NotServing
    <3>1. "thread" \in DOMAIN serving' /\ "thread" \notin DOMAIN NotServing
      BY <2>1, <2>3 DEF Start, NotServing
    <3> QED
      BY <3>1
  <2> QED
    BY <2>9, <2>10 DEF Answers, GuardHasRelease
<1>7. CASE StopInterrupts /\ serving = [turn |-> stop.turn, thread |-> stop.thread]
  <2>1. "thread" \in DOMAIN serving /\ "thread" \notin DOMAIN NotServing
    BY <1>7 DEF NotServing
  <2>2. serving # NotServing
    BY <2>1
  <2> QED
    BY <1>2, <1>7, <2>2, EndsReleased DEF StopInterrupts
<1>8. CASE StopInterrupts /\ serving # [turn |-> stop.turn, thread |-> stop.thread]
  <2>1. UNCHANGED <<frames, serving, starts>>
    BY <1>8 DEF StopInterrupts
  <2> QED
    BY <1>2, <2>1 DEF Released, Answers, IsStarted, GuardHasRelease, Releases
<1> QED
  BY <1>3, <1>4, <1>5, <1>6, <1>7, <1>8 DEF Server

\* One frame less: what released the guard still does, unless it was that frame.
LEMMA ReleaseLeft ==
    ASSUME Typed, NEW types, Handles(types), NEW i \in DOMAIN frames, i # 1, Releases(i),
           doneEmitted' => doneEmitted, doneEmitted' => frames[1].type # "started"
    PROVE  \E j \in DOMAIN frames' : Releases(j)'
<1>1. PICK m \in DOMAIN frames' : i = m + 1
  BY Shifted
<1>2. frames'[m] = frames[i]
  BY <1>1, Shifted
<1>3. ASSUME doneEmitted', NEW k \in DOMAIN frames, k < i, frames[k].type = "started"
      PROVE  \E n \in DOMAIN frames' : n < m /\ frames'[n].type = "started"
  <2>1. k # 1
    BY <1>3
  <2>2. PICK n \in DOMAIN frames' : k = n + 1
    BY <2>1, Shifted
  <2> QED
    BY <1>1, <1>3, <2>2, Shifted
<1>4. Releases(m)'
  BY <1>2, <1>3 DEF Releases
<1> QED
  BY <1>4

LEMMA AnswersLeft ==
    ASSUME Typed, Answers, NEW types, Handles(types)
    PROVE  Answers'
<1> SUFFICES ASSUME NEW i \in DOMAIN frames', frames'[i].type = "response"
             PROVE  \E k : IsStarted(k)' /\ i < k
  BY DEF Answers
<1>1. i + 1 \in DOMAIN frames /\ frames[i + 1].type = "response" /\ 1 < i + 1
  BY Shifted
<1>2. PICK k : IsStarted(k) /\ i + 1 < k
  BY <1>1 DEF Answers
<1>3. k \in DOMAIN frames /\ k # 1
  BY <1>1, <1>2, Shifted DEF IsStarted
<1>4. PICK n \in DOMAIN frames' : k = n + 1
  BY <1>3, Shifted
<1>5. IsStarted(n)' /\ i < n
  BY <1>2, <1>4, Shifted DEF IsStarted
<1> QED
  BY <1>5

LEMMA PumpReleased ==
    ASSUME Released, ReadPump
    PROVE  Answers' /\ GuardHasRelease'
<1>1. Typed /\ Guarded /\ Reporting /\ DOMAIN sender = Turns
  BY DEF Released, Turnwise, Inv, Typed
<1>2. PICK types : Handles(types)
  BY DEF ReadPump, DispatchTurnResponse, TurnStarted, AgentMessage, ToolStart, CompleteTurn
<1>3. Answers'
  BY <1>1, <1>2, AnswersLeft DEF Released
<1>4. 1 \in DOMAIN frames /\ frames[1] = Head(frames) /\ frames[1].turn \in Turns
  BY <1>1, <1>2, Shifted DEF Reporting, ItemsOK
<1>5. UNCHANGED <<starts, serving>>
  BY DEF ReadPump, server
<1>6. ASSUME busy, starts = <<>>, serving = NotServing, \A t \in Turns : sender[t] # "rejected"
      PROVE  \E i \in DOMAIN frames : Releases(i)
  BY <1>6 DEF Released, GuardHasRelease
<1>7. ASSUME NEW i \in DOMAIN frames, i # 1, Releases(i),
             doneEmitted' => doneEmitted, doneEmitted' => frames[1].type # "started"
      PROVE  GuardHasRelease'
  <2>1. \E j \in DOMAIN frames' : Releases(j)'
    BY <1>1, <1>2, <1>7, ReleaseLeft
  <2> QED
    BY <2>1 DEF GuardHasRelease
<1>8. CASE DispatchTurnResponse
  <2>1. /\ UNCHANGED <<busy, doneEmitted>> /\ frames[1].type \in {"response", "error"}
        /\ sender' = [sender EXCEPT ![frames[1].turn] =
                          IF frames[1].type = "response" THEN "accepted" ELSE "rejected"]
    BY <1>4, <1>8 DEF DispatchTurnResponse, Handles, translator
  <2>2. CASE frames[1].type = "error"
    <3>1. sender'[frames[1].turn] = "rejected"
      BY <1>1, <1>4, <2>1, <2>2
    <3> QED
      BY <1>3, <1>4, <3>1 DEF GuardHasRelease
  <2>3. CASE frames[1].type = "response"
    <3>1. ~Releases(1)
      BY <2>3 DEF Releases
    <3>2. \A t : ~Rejected(t)
      <4>1. \E k : IsStarted(k)
        BY <1>4, <2>3 DEF Released, Answers
      <4> QED
        BY <1>1, <4>1 DEF Guarded, NoRefusal, Quiet
    <3>3. ASSUME busy, starts = <<>>, serving = NotServing PROVE GuardHasRelease'
      <4>1. PICK i \in DOMAIN frames : Releases(i)
        BY <1>6, <3>2, <3>3 DEF Rejected
      <4>2. i # 1
        BY <3>1, <4>1
      <4>3. (doneEmitted' => doneEmitted) /\ frames[1].type # "started"
        BY <2>1, <2>3
      <4> QED
        BY <1>7, <2>1, <4>1, <4>2, <4>3
    <3> QED
      BY <1>3, <1>5, <2>1, <3>3 DEF GuardHasRelease
  <2> QED
    BY <2>1, <2>2, <2>3
<1>9. CASE TurnStarted \/ AgentMessage \/ ToolStart
  <2>1. /\ UNCHANGED <<busy, sender>>
        /\ doneEmitted' => doneEmitted
        /\ doneEmitted' => frames[1].type # "started"
        /\ frames[1].type \in {"started", "message", "tool"}
    BY <1>4, <1>9 DEF TurnStarted, AgentMessage, ToolStart, Handles
  <2>2. ~Releases(1)
    BY <2>1 DEF Releases
  <2>3. ASSUME busy, starts = <<>>, serving = NotServing, \A t \in Turns : sender[t] # "rejected"
        PROVE  GuardHasRelease'
    <3>1. PICK i \in DOMAIN frames : Releases(i)
      BY <1>6, <2>3
    <3> QED
      BY <1>7, <2>1, <2>2, <3>1
  <2> QED
    BY <1>3, <1>5, <2>1, <2>3 DEF GuardHasRelease
<1>10. CASE CompleteTurn
  <2>1. CASE ~doneEmitted
    BY <1>3, <1>10, <2>1 DEF CompleteTurn, GuardHasRelease
  <2>2. CASE doneEmitted
    <3>1. UNCHANGED <<busy, sender, doneEmitted>> /\ frames[1].type \in {"completed", "idle"}
      BY <1>4, <1>10, <2>2 DEF CompleteTurn, Handles
    <3>2. ~Releases(1)
      BY <1>2, <1>1, <2>2, <3>1, Shifted DEF Releases
    <3>3. ASSUME busy, starts = <<>>, serving = NotServing,
                 \A t \in Turns : sender[t] # "rejected"
          PROVE  GuardHasRelease'
      <4>1. PICK i \in DOMAIN frames : Releases(i)
        BY <1>6, <3>3
      <4> QED
        BY <1>7, <3>1, <3>2, <4>1
    <3> QED
      BY <1>3, <1>5, <3>1, <3>3 DEF GuardHasRelease
  <2> QED
    BY <2>1, <2>2
<1> QED
  BY <1>3, <1>8, <1>9, <1>10 DEF ReadPump

LEMMA ReleasedStep ==
    ASSUME Released, [TurnsNext]_turnVars
    PROVE  Released'
<1>1. Turnwise'
  BY TurnwiseStep DEF Released
<1>2. CASE UNCHANGED turnVars
  <2>1. UNCHANGED <<frames, serving, starts, sender, busy, doneEmitted>>
    BY <1>2 DEF turnVars, driver, server, translator
  <2> QED
    BY <1>1, <2>1 DEF Released, Answers, IsStarted, GuardHasRelease, Releases
<1> QED
  BY <1>1, <1>2, DriverReleased, ServerReleased, PumpReleased DEF TurnsNext, Released

(***************************************************************************)
(* Whatever signals turns end by, whichever come late or are ignored, and  *)
(* whether the turn said anything: as long as the busy guard is held,      *)
(* something that releases it is still to happen.                          *)
(***************************************************************************)
THEOREM GuardHasReleaseAlways == TurnsSpec => []GuardHasRelease
<1>1. TurnsInit => Released
  <2> SUFFICES ASSUME TurnsInit PROVE Answers /\ GuardHasRelease
    BY InvInit, ReportingInit DEF Released, Turnwise
  <2> QED
    BY DEF TurnsInit, Answers, GuardHasRelease
<1>2. Released /\ [TurnsNext]_turnVars => Released'
  BY ReleasedStep
<1>3. Released => GuardHasRelease
  BY DEF Released
<1> QED
  BY <1>1, <1>2, <1>3, PTL DEF TurnsSpec
=============================================================================
