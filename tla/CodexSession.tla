---------------------------- MODULE CodexSession ----------------------------
(***************************************************************************)
(* One session with `codex app-server`: the JSON-RPC client over the       *)
(* child's pipes (bridge/codex/rpc.go), the pumps, the lifecycle goroutine *)
(* and Close (session.go), and the approvals the child asks for            *)
(* (permissions.go, SendPermission in agent.go).                           *)
(*                                                                         *)
(* The child is external: it answers requests in any order, pushes frames, *)
(* and may die at any moment.  The goroutines are cut where they take a    *)
(* lock, use a channel or a pipe, or read or write rpc.closed.             *)
(***************************************************************************)
EXTENDS Naturals, Sequences, FiniteSets

CONSTANTS
    Callers,        \* goroutines that make one rpc.request each
    Announcers,     \* those of them that deliver EventAgentReady with the answer
    Asks,           \* server-initiated approval requests
    NumericIds,     \* whether the child's own requests have numeric ids
    EventCap,       \* eventBufferSize
    MaxFrames, MaxAnswers   \* bounds: frames the child sends of itself, SendPermission

ASSUME CodexAssumption ==
    /\ Announcers \subseteq Callers
    /\ NumericIds \in BOOLEAN
    /\ EventCap \in Nat \ {0}
    /\ {MaxFrames, MaxAnswers} \subseteq Nat

NoKey == ""         \* lastPendingID when nothing is pending

ASSUME AsksAssumption == NoKey \notin Asks

\* The requestID of an approval: the raw id read as a string, empty if it is a number.
Key(a) == IF NumericIds THEN NoKey ELSE a

VARIABLES
    child,      \* "alive", "dead" or "reaped": cmd.Wait has closed the pipes
    stdin,      \* our end of it is open
    owed,       \* requests the child has read and not answered
    stdout,     \* frames it has written and we have not read
    said,       \* how many of them were not responses
    rpcClosed,  \* rpc.closed
    pending,    \* rpc.pending
    slot,       \* the channel of each request
    call,       \* where each caller is
    reader,     \* where readPump is
    broken,     \* its scanner has failed
    lifecycle,  \* where the lifecycle goroutine is
    events,     \* length of s.events
    reading,    \* somebody reads s.events
    closed,     \* close(s.closed) and s.cancel
    closer,     \* where Close is
    approvals,  \* s.pendingApprovals: requestID to the request it stands for
    lastPendingID,
    ask,        \* each approval: "none", "asked", "shown" (registered, its event not yet
                \* delivered), "waiting", "decided" (still registered) or "over"
    choice,     \* what was sent on its channel
    latest,     \* the approval registered last
    answers,    \* calls of SendPermission that returned nil
    sentOnClosed    \* a send on s.events after close(s.events)

wire == <<child, stdin, owed, stdout, said>>
rpc == <<rpcClosed, pending, slot>>
permissions == <<approvals, lastPendingID, ask, choice, latest, answers>>
closing == <<closed, closer>>
pump == <<reader, broken>>
codexVars == <<wire, rpc, call, pump, lifecycle, events, reading, closing, permissions, sentOnClosed>>

CodexInit ==
    /\ child = "alive" /\ stdin = TRUE /\ owed = {} /\ stdout = <<>>
    /\ said = 0
    /\ rpcClosed = FALSE /\ pending = {} /\ slot = [c \in Callers |-> "empty"]
    /\ call = [c \in Callers |-> "idle"]
    /\ reader = "scan" /\ broken = FALSE /\ lifecycle = "wait"
    /\ events = 0 /\ reading = TRUE
    /\ closed = FALSE /\ closer = "idle"
    /\ approvals = <<>> /\ lastPendingID = NoKey
    /\ ask = [a \in Asks |-> "none"] /\ choice = [a \in Asks |-> "none"]
    /\ latest = NoKey /\ answers = 0
    /\ sentOnClosed = FALSE

EventsClosed == lifecycle \in {"closed", "exited"}
ExitDone == lifecycle = "exited"

-----------------------------------------------------------------------------
(* The child.                                                               *)

Says(frame) ==
    /\ child = "alive"
    /\ stdout' = Append(stdout, frame)

ChildAnswers(c) ==
    /\ c \in owed
    /\ Says([type |-> "response", of |-> c])
    /\ owed' = owed \ {c}
    /\ UNCHANGED <<child, stdin, said>>

ChildSays(type) ==
    /\ said < MaxFrames /\ said' = said + 1
    /\ Says([type |-> type])
    /\ UNCHANGED <<child, stdin, owed>>

ChildAsks(a) ==
    /\ said < MaxFrames /\ said' = said + 1
    /\ ask[a] = "none"
    /\ Says([type |-> "ask", of |-> a])
    /\ ask' = [ask EXCEPT ![a] = "asked"]
    /\ UNCHANGED <<child, stdin, owed>>

ChildDies ==
    /\ child = "alive"
    /\ child' = "dead" /\ owed' = {}
    /\ UNCHANGED <<stdin, stdout, said>>

ChildStep ==
    \/ /\ \/ \E c \in Callers : ChildAnswers(c)
          \/ \E type \in {"note", "bad"} : ChildSays(type)
          \/ ChildDies
       /\ UNCHANGED <<rpc, call, pump, lifecycle, events, reading, closing,
                      permissions, sentOnClosed>>
    \/ /\ \E a \in Asks : ChildAsks(a)
       /\ UNCHANGED <<rpc, call, pump, lifecycle, events, reading, closing,
                      approvals, lastPendingID, choice, latest, answers,
                      sentOnClosed>>

-----------------------------------------------------------------------------
(* deliverEvent: a send that waits for room, for close(s.closed) or for     *)
(* close(s.exitDone).  A send on the closed channel is ready at any time.   *)

\* Mutant: close(s.closed) does not release a send that waits for room.
DeliverWaits ==
    \/ /\ ~EventsClosed /\ events < EventCap
       /\ events' = events + 1 /\ UNCHANGED sentOnClosed
    \/ /\ EventsClosed
       /\ sentOnClosed' = TRUE /\ UNCHANGED events

Deliver ==
    \/ /\ ~EventsClosed /\ events < EventCap
       /\ events' = events + 1 /\ UNCHANGED sentOnClosed
    \/ /\ EventsClosed
       /\ sentOnClosed' = TRUE /\ UNCHANGED events
    \/ /\ closed \/ ExitDone
       /\ UNCHANGED <<events, sentOnClosed>>

ConsumerReads ==
    /\ reading /\ events > 0
    /\ events' = events - 1
    /\ UNCHANGED <<wire, rpc, call, pump, lifecycle, reading, closing, permissions, sentOnClosed>>

-----------------------------------------------------------------------------
(* rpc.request, by caller c.                                                *)

Goes(c, at) == call' = [call EXCEPT ![c] = at]

RequestBegin(c) ==
    /\ call[c] = "idle"
    /\ Goes(c, IF rpcClosed THEN "failed" ELSE "register")
    /\ UNCHANGED rpc

RequestRegister(c) ==
    /\ call[c] = "register"
    /\ pending' = pending \cup {c}
    /\ Goes(c, "write")
    /\ UNCHANGED <<rpcClosed, slot>>

\* writeLine fails on a closed client and on a broken pipe.
RequestWrite(c) ==
    /\ call[c] = "write"
    /\ IF ~rpcClosed /\ child = "alive" /\ stdin
       THEN /\ owed' = owed \cup {c}
            /\ Goes(c, "wait")
            /\ UNCHANGED pending
       ELSE /\ pending' = pending \ {c}
            /\ Goes(c, "failed")
            /\ UNCHANGED owed
    /\ UNCHANGED <<rpcClosed, slot, child, stdin, stdout, said>>

RequestReturn(c) ==
    /\ call[c] = "wait" /\ slot[c] # "empty"
    /\ Goes(c, IF slot[c] = "error" THEN "failed"
               ELSE IF c \in Announcers THEN "announce" ELSE "done")
    /\ UNCHANGED rpc

\* ctx.Done of the caller.
RequestCancelled(c) ==
    /\ call[c] = "wait"
    /\ pending' = pending \ {c}
    /\ Goes(c, "failed")
    /\ UNCHANGED <<rpcClosed, slot>>

\* newDriver and New: the EventAgentReady that follows the handshake or thread/start.
Announce(c) ==
    /\ call[c] = "announce"
    /\ Deliver
    /\ Goes(c, "done")

CallerOnly == UNCHANGED <<pump, lifecycle, reading, closing, permissions>>
CallerRuns(c) ==
    /\ \/ /\ RequestBegin(c) \/ RequestRegister(c) \/ RequestReturn(c)
          /\ UNCHANGED <<wire, events, sentOnClosed>>
       \/ RequestWrite(c) /\ UNCHANGED <<events, sentOnClosed>>
       \/ Announce(c) /\ UNCHANGED <<wire, rpc>>
    /\ CallerOnly
Caller(c) ==
    \/ CallerRuns(c)
    \/ RequestCancelled(c) /\ CallerOnly /\ UNCHANGED <<wire, events, sentOnClosed>>

-----------------------------------------------------------------------------
(* failPending: mark the client closed; take the pending requests and fail  *)
(* them.  The read pump and the lifecycle goroutine both call it.           *)

FailMarks == rpcClosed' = TRUE /\ UNCHANGED <<pending, slot>>
FailTakes ==
    /\ pending' = {}
    /\ slot' = [c \in Callers |->
                  IF c \in pending /\ slot[c] = "empty" THEN "error" ELSE slot[c]]
    /\ UNCHANGED rpcClosed

\* Mutant: the pending requests are failed before the client is marked closed.
FailPendingSwapped(first) == IF first THEN FailTakes ELSE FailMarks

FailPending(first) == IF first THEN FailMarks ELSE FailTakes

-----------------------------------------------------------------------------
(* readPump.                                                                *)

Reads(frame) ==
    /\ reader = "scan" /\ stdout # <<>> /\ ~closed
    /\ Head(stdout) = frame
    /\ stdout' = Tail(stdout)
    /\ UNCHANGED <<child, stdin, owed, said>>

DispatchResponse(c) ==
    /\ Reads([type |-> "response", of |-> c])
    /\ pending' = pending \ {c}
    /\ slot' = [slot EXCEPT ![c] = IF c \in pending THEN "answer" ELSE @]
    /\ UNCHANGED <<rpcClosed, reader, permissions>>

OnNotification ==
    /\ Reads([type |-> "note"])
    /\ reader' = "deliver"
    /\ UNCHANGED <<rpc, permissions>>

\* spawnApproval up to deliver.
OnServerRequest(a) ==
    /\ Reads([type |-> "ask", of |-> a])
    /\ approvals' = [k \in DOMAIN approvals \cup {Key(a)} |->
                       IF k = Key(a) THEN a ELSE approvals[k]]
    /\ lastPendingID' = Key(a) /\ latest' = a
    /\ ask' = [ask EXCEPT ![a] = "shown"]
    /\ reader' = "show"
    /\ UNCHANGED <<rpc, choice, answers>>

\* A frame it cannot parse, or a read error once cmd.Wait has closed the pipe.
OnBadFrame ==
    /\ \/ Reads([type |-> "bad"]) /\ UNCHANGED broken
       \/ reader = "scan" /\ stdout = <<>> /\ child = "reaped"
          /\ broken' = TRUE /\ UNCHANGED wire
    /\ reader' = "deliver bad"
    /\ UNCHANGED <<rpc, permissions>>

\* End of file, or a frame after s.ctx has been cancelled.
ScanEnds ==
    /\ reader = "scan"
    /\ \/ child = "dead" /\ stdout = <<>>
       \/ closed /\ stdout # <<>>
    /\ reader' = "fail"
    /\ UNCHANGED <<wire, rpc, permissions, broken>>

ReaderReads ==
    /\ \/ /\ \/ \E c \in Callers : DispatchResponse(c)
             \/ OnNotification
             \/ \E a \in Asks : OnServerRequest(a)
          /\ UNCHANGED broken
       \/ OnBadFrame
       \/ ScanEnds
    /\ UNCHANGED <<events, sentOnClosed>>

ReaderDelivers ==
    /\ reader \in {"deliver", "show", "deliver bad"}
    /\ Deliver
    /\ reader' = IF reader = "deliver bad" THEN "decline" ELSE "scan"
    /\ ask' = IF reader = "show"
              THEN [a \in Asks |-> IF ask[a] = "shown" THEN "waiting" ELSE ask[a]]
              ELSE ask
    /\ UNCHANGED <<wire, rpc, broken, approvals, lastPendingID, choice, latest, answers>>

\* emitWireError after its deliver: decline what is pending, failPending, close stdin.
EmitWireErrorDeclines ==
    /\ reader = "decline"
    /\ choice' = [a \in Asks |->
         IF choice[a] = "none" /\ \E k \in DOMAIN approvals : approvals[k] = a
         THEN "decline" ELSE choice[a]]
    /\ approvals' = <<>> /\ lastPendingID' = NoKey
    /\ reader' = "mark"
    /\ UNCHANGED <<wire, rpc, broken, ask, latest, answers, events, sentOnClosed>>

ReaderFails ==
    /\ reader \in {"mark", "take", "fail", "fail, take"}
    /\ FailPending(reader \in {"mark", "fail"})
    /\ reader' = CASE reader = "mark" -> "take"
                   [] reader = "take" -> "close stdin"
                   [] reader = "fail" -> "fail, take"
                   [] reader = "fail, take" -> "ended"
    /\ UNCHANGED <<wire, broken, permissions, events, sentOnClosed>>

EmitWireErrorCloses ==
    /\ reader = "close stdin"
    /\ reader' = IF broken THEN "fail" ELSE "scan"
    /\ stdin' = (stdin /\ closed)
    /\ UNCHANGED <<child, owed, stdout, said, rpc, broken, permissions, events,
                   sentOnClosed>>

Reader ==
    /\ ReaderReads \/ ReaderDelivers \/ EmitWireErrorDeclines \/ ReaderFails
       \/ EmitWireErrorCloses
    /\ UNCHANGED <<call, lifecycle, reading, closing>>

-----------------------------------------------------------------------------
(* lifecycle.                                                               *)

\* cmd.Wait returns as soon as the process has exited and closes our ends of the pipes;
\* what readPump's scanner has not buffered by then is lost.
LifecycleWait ==
    /\ lifecycle = "wait" /\ child = "dead"
    /\ lifecycle' = "mark"
    /\ child' = "reaped"
    /\ \E buffered \in 0..Len(stdout) : stdout' = SubSeq(stdout, 1, buffered)
    /\ UNCHANGED <<stdin, owed, said, rpc, events, sentOnClosed>>

LifecycleFails ==
    /\ lifecycle \in {"mark", "take"}
    /\ FailPending(lifecycle = "mark")
    /\ lifecycle' = IF lifecycle = "mark" THEN "take"
                    ELSE IF closed THEN "pumps" ELSE "report"
    /\ UNCHANGED <<wire, events, sentOnClosed>>

LifecycleReports ==
    /\ lifecycle = "report"
    /\ Deliver
    /\ lifecycle' = "pumps"
    /\ UNCHANGED <<wire, rpc>>

\* pumpWG.Wait, then the deferred close(s.events) and close(s.exitDone).
LifecycleEnds ==
    /\ \/ lifecycle = "pumps" /\ reader = "ended" /\ lifecycle' = "closed"
       \/ lifecycle = "closed" /\ lifecycle' = "exited"
    /\ UNCHANGED <<wire, rpc, events, sentOnClosed>>

Lifecycle ==
    /\ LifecycleWait \/ LifecycleFails \/ LifecycleReports \/ LifecycleEnds
    /\ UNCHANGED <<call, pump, reading, closing, permissions>>

-----------------------------------------------------------------------------
(* Close: AgentSession.Close stops its readpump before it calls it.         *)

StopsReading ==
    /\ reading
    /\ reading' = FALSE
    /\ UNCHANGED <<wire, closing>>

CloseBegins ==
    /\ closer = "idle" /\ ~reading
    /\ closed' = TRUE
    /\ closer' = "close stdin"
    /\ UNCHANGED <<wire, reading>>

CloseStdin ==
    /\ closer = "close stdin"
    /\ stdin' = FALSE
    /\ closer' = "wait"
    /\ UNCHANGED <<child, owed, stdout, said, reading, closed>>

\* closeDrainTimeout, then Kill.
CloseKills ==
    /\ closer = "wait" /\ ~ExitDone
    /\ child' = IF child = "alive" THEN "dead" ELSE child
    /\ owed' = {}
    /\ closer' = "killed"
    /\ UNCHANGED <<stdin, stdout, said, reading, closed>>

CloseReturns ==
    /\ closer \in {"wait", "killed"} /\ ExitDone
    /\ closer' = "done"
    /\ UNCHANGED <<wire, reading, closed>>

Close ==
    /\ StopsReading \/ CloseBegins \/ CloseStdin \/ CloseKills \/ CloseReturns
    /\ UNCHANGED <<rpc, call, pump, lifecycle, events, permissions,
                   sentOnClosed>>

-----------------------------------------------------------------------------
(* Approvals.                                                               *)

SendPermission ==
    /\ lastPendingID # NoKey /\ answers < MaxAnswers
    /\ LET a == approvals[lastPendingID] IN
       choice' = [choice EXCEPT ![a] = IF @ = "none" THEN "user" ELSE @]
    /\ approvals' = [k \in DOMAIN approvals \ {lastPendingID} |-> approvals[k]]
    /\ lastPendingID' = NoKey
    /\ answers' = answers + 1
    /\ UNCHANGED <<ask, latest>>

\* The decision goroutine has an answer, sees s.ctx cancelled or permissionTimeout gone
\* by.  It takes pendingMu only after that, so that another answer may still be accepted.
Decides(a) ==
    /\ ask[a] = "waiting"
    /\ ask' = [ask EXCEPT ![a] = "decided"]
    /\ UNCHANGED <<approvals, lastPendingID, choice, latest, answers>>

\* Mutant: the end of an approval forgets which one the next answer is for.
ForgetsLatest(a) ==
    /\ ask[a] = "decided"
    /\ approvals' = [k \in DOMAIN approvals \ {Key(a)} |-> approvals[k]]
    /\ lastPendingID' = NoKey
    /\ ask' = [ask EXCEPT ![a] = "over"]
    /\ UNCHANGED <<choice, latest, answers>>

\* Under pendingMu; the reply follows.
Unregisters(a) ==
    /\ ask[a] = "decided"
    /\ approvals' = [k \in DOMAIN approvals \ {Key(a)} |-> approvals[k]]
    /\ lastPendingID' = IF lastPendingID = Key(a) THEN NoKey ELSE lastPendingID
    /\ ask' = [ask EXCEPT ![a] = "over"]
    /\ UNCHANGED <<choice, latest, answers>>

Approval ==
    /\ SendPermission \/ \E a \in Asks : Decides(a) \/ Unregisters(a)
    /\ UNCHANGED <<wire, rpc, call, pump, lifecycle, events, reading, closing, sentOnClosed>>

-----------------------------------------------------------------------------
CodexNext ==
    \/ ChildStep \/ ConsumerReads \/ Reader \/ Lifecycle \/ Close \/ Approval
    \/ \E c \in Callers : Caller(c)

CodexSpec == CodexInit /\ [][CodexNext]_codexVars

\* The pumps and the lifecycle run, and Close once it is called.
CodexFairness ==
    /\ WF_codexVars(Reader) /\ WF_codexVars(Lifecycle)
    /\ WF_codexVars(closer # "idle" /\ Close)
CodexFairSpec == CodexSpec /\ CodexFairness

-----------------------------------------------------------------------------
\* The user's answer goes to the approval registered last ("targets the
\* most-recently-emitted approval only", agent.go:378), while the older ones time out, are
\* unregistered late, or end with the wire: as long as that one has neither an answer nor a
\* decision, the next answer is for it, and never for an older one.  Numeric ids, which all
\* have the same key, are ShownIsAnswerable's.
Pending(a) == a \in Asks /\ ask[a] \in {"shown", "waiting"} /\ choice[a] = "none"
AnswersGoToLatest ==
    /\ lastPendingID # NoKey =>
         lastPendingID \in DOMAIN approvals /\ approvals[lastPendingID] = latest
    /\ ~NumericIds /\ Pending(latest) => lastPendingID = latest

\* However a request overlaps the end of the session, it does not wait for an answer
\* that will never come: a request registers itself before writeLine reads the mark, and
\* whoever marks the client closed fails what is registered (rpc.go:155-172, 294-313).
NobodyStranded ==
    rpcClosed /\ reader \notin {"take", "fail, take"} /\ lifecycle # "take"
    => \A c \in Callers : call[c] = "wait" => slot[c] # "empty"

\* Close returns, although nobody reads the events any more and the channel is full.
CloseTerminates == (closer = "wait") ~> (closer = "done")

\* What the comments say and the code does not do.
\* "Drop silently" (session.go:664): no send meets the closed events channel.
NoSendOnClosed == ~sentOnClosed
\* "the close happens AFTER readPump + stderrLoop have drained" (session.go:544):
\* a frame that the child has written is read.
NoFrameLost ==
    [][lifecycle = "wait" /\ lifecycle' = "mark" => stdout' = stdout]_codexVars
\* An answer that SendPermission accepts settles the approval ("the decision goroutine calls
\* reply() with the chosen response", permissions.go:193), which may be decided by then.
AnswersCount ==
    [][\A a \in Asks : choice[a] = "none" /\ choice'[a] = "user"
                         => ask[a] # "decided"]_codexVars
\* The approval answered is "the most-recently-emitted" one (agent.go:378), not one whose
\* event is still to be delivered.
AnsweredWasShown ==
    [][\A a \in Asks : choice[a] = "none" /\ choice'[a] = "user"
                         => ask[a] # "shown"]_codexVars
\* An approval that is shown can be answered ("targets the most-recently-emitted
\* approval only", agent.go:378).
ShownIsAnswerable ==
    \A a \in Asks : ask[a] = "shown" /\ choice[a] = "none" /\ answers = 0
                    => lastPendingID # NoKey
=============================================================================
