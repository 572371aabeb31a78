----------------------------- MODULE CodexTurns -----------------------------
(***************************************************************************)
(* Turns on a codex app-server: the busy guard and the turn id of the      *)
(* driver (bridge/codex/agent.go: SendBlocks, Stop, New) and the           *)
(* translator that reports a turn and ends it (translate.go).              *)
(*                                                                         *)
(* The server is external: it runs one turn, answers turn/start, narrates  *)
(* the turn, and says that it has ended by turn/completed, by an idle      *)
(* thread status, or by both.  Its frames come through one pipe and the    *)
(* read pump handles them one by one; a caller resumes from its request    *)
(* some time after the response was handled.                               *)
(***************************************************************************)
EXTENDS Naturals, Sequences, FiniteSets

CONSTANTS
    Turns,                      \* SendBlocks calls, each named after the turn it starts
    MaxStops, MaxNews, MaxItems \* bounds on /stop, /new and the items of all turns

ASSUME CodexTurnsAssumption == {MaxStops, MaxNews, MaxItems} \subseteq Nat

NoTurn == "none"

VARIABLES
    busy, currentTurnID,    \* pendingTurnActive, currentTurnID
    thread,                 \* the thread id of s.identity
    sender,                 \* where each SendBlocks is
    stop,                   \* where Stop is, and what it has read
    frames,                 \* server frames not yet handled
    starts,                 \* turn/start requests the server has not read
    serving,                \* the turn the server runs, and its thread
    active, doneEmitted, pendingMsgs,   \* translator.turn
    delivered,              \* texts, tool starts and Dones that were delivered
    handled,                \* messages and tool starts that were handled
    left,                   \* stops, news and items still to come
    inFlight                \* the turn of the SendBlocks that last took the guard

driver == <<busy, currentTurnID, thread>>
server == <<starts, serving>>
translator == <<active, doneEmitted, pendingMsgs, delivered, handled>>
turnVars == <<driver, sender, stop, frames, server, translator, left, inFlight>>

StopIdle == [pc |-> "idle"]
NotServing == [turn |-> NoTurn]

TurnsInit ==
    /\ busy = FALSE /\ currentTurnID = NoTurn /\ thread = 0
    /\ sender = [t \in Turns |-> "idle"]
    /\ stop = StopIdle
    /\ frames = <<>> /\ starts = <<>> /\ serving = NotServing
    /\ active = FALSE /\ doneEmitted = FALSE /\ pendingMsgs = <<>>
    /\ delivered = <<>> /\ handled = <<>>
    /\ left = [stops |-> MaxStops, news |-> MaxNews, items |-> MaxItems]
    /\ inFlight = NoTurn

-----------------------------------------------------------------------------
(* The driver.                                                              *)

SendBlocks(t) ==
    /\ sender[t] = "idle"
    /\ IF busy
       THEN /\ sender' = [sender EXCEPT ![t] = "refused"]
            /\ UNCHANGED <<busy, starts, inFlight>>
       ELSE /\ busy' = TRUE /\ inFlight' = t
            /\ starts' = Append(starts, [turn |-> t, thread |-> thread])
            /\ sender' = [sender EXCEPT ![t] = "waiting"]
    /\ UNCHANGED <<currentTurnID, thread, stop, frames, serving, translator, left>>

\* Mutant: the guard is released when turn/start returns.
SendBlocksReleases(t) ==
    /\ sender[t] \in {"accepted", "rejected"}
    /\ sender' = [sender EXCEPT ![t] = "done"]
    /\ busy' = FALSE
    /\ currentTurnID' = IF sender[t] = "accepted" THEN t ELSE NoTurn
    /\ UNCHANGED <<thread, stop, frames, server, translator, left, inFlight>>

\* The caller resumes with the response or with an error.
SendBlocksResumes(t) ==
    /\ sender[t] \in {"accepted", "rejected"}
    /\ sender' = [sender EXCEPT ![t] = "done"]
    /\ IF sender[t] = "accepted"
       THEN currentTurnID' = t /\ UNCHANGED busy
       ELSE busy' = FALSE /\ currentTurnID' = NoTurn
    /\ UNCHANGED <<thread, stop, frames, server, translator, left, inFlight>>

StopBegins ==
    /\ stop = StopIdle /\ busy
    /\ left.stops > 0 /\ left' = [left EXCEPT !.stops = @ - 1]
    /\ stop' = [pc |-> IF currentTurnID = NoTurn THEN "wait" ELSE "interrupt",
                turn |-> currentTurnID, thread |-> thread, meant |-> inFlight]
    /\ UNCHANGED <<driver, sender, frames, server, translator, inFlight>>

\* waitForTurnID: the id, or nothing after 200 ms.
StopWaits ==
    /\ stop.pc = "wait"
    /\ stop' = IF currentTurnID = NoTurn THEN StopIdle
               ELSE [stop EXCEPT !.pc = "interrupt", !.turn = currentTurnID]
    /\ UNCHANGED <<driver, sender, frames, server, translator, left, inFlight>>

\* turn/interrupt: the server ends the turn it names, or answers with an error.
EndSignals == {<<"completed">>, <<"idle">>, <<"completed", "idle">>, <<"idle", "completed">>}
ServerEnds ==
    \E signals \in EndSignals :
        /\ frames' = frames \o [i \in DOMAIN signals |->
                                  [type |-> signals[i], turn |-> serving.turn]]
        /\ serving' = NotServing

StopInterrupts ==
    /\ stop.pc = "interrupt"
    /\ stop' = StopIdle
    /\ IF serving = [turn |-> stop.turn, thread |-> stop.thread]
       THEN ServerEnds
       ELSE UNCHANGED <<frames, serving>>
    /\ UNCHANGED <<driver, sender, starts, translator, left, inFlight>>

\* New: thread/start on the same process.
New ==
    /\ left.news > 0 /\ left' = [left EXCEPT !.news = @ - 1]
    /\ thread' = thread + 1
    /\ UNCHANGED <<busy, currentTurnID, sender, stop, frames, server, translator, inFlight>>

Driver ==
    \/ \E t \in Turns : SendBlocks(t) \/ SendBlocksResumes(t)
    \/ StopBegins \/ StopWaits \/ StopInterrupts \/ New

-----------------------------------------------------------------------------
(* The server.                                                              *)

ServerReads(accepts) ==
    /\ starts # <<>> /\ serving = NotServing
    /\ starts' = Tail(starts)
    /\ LET t == Head(starts).turn IN
       IF accepts
       THEN /\ serving' = Head(starts)
            /\ frames' = frames \o <<[type |-> "response", turn |-> t],
                                     [type |-> "started", turn |-> t]>>
       ELSE /\ frames' = Append(frames, [type |-> "error", turn |-> t])
            /\ UNCHANGED serving
    /\ UNCHANGED left

ServerNarrates(type) ==
    /\ serving # NotServing
    /\ left.items > 0 /\ left' = [left EXCEPT !.items = @ - 1]
    /\ frames' = Append(frames, [type |-> type, turn |-> serving.turn])
    /\ UNCHANGED server

ServerCompletes ==
    /\ serving # NotServing
    /\ ServerEnds
    /\ UNCHANGED <<starts, left>>

Server ==
    /\ \/ \E accepts \in BOOLEAN : ServerReads(accepts)
       \/ \E type \in {"message", "tool"} : ServerNarrates(type)
       \/ ServerCompletes
    /\ UNCHANGED <<driver, sender, stop, translator, inFlight>>

-----------------------------------------------------------------------------
(* The read pump: one frame.                                                *)

Handles(types) == frames # <<>> /\ Head(frames).type \in types /\ frames' = Tail(frames)

DispatchTurnResponse ==
    /\ Handles({"response", "error"})
    /\ sender' = [sender EXCEPT ![Head(frames).turn] =
                    IF Head(frames).type = "response" THEN "accepted" ELSE "rejected"]
    /\ UNCHANGED <<translator, busy>>

TurnStarted ==
    /\ Handles({"started"})
    /\ active' = FALSE /\ doneEmitted' = FALSE /\ pendingMsgs' = <<>>
    /\ UNCHANGED <<sender, delivered, handled, busy>>

\* item/completed of an agentMessage: kept until the next flush.
AgentMessage ==
    /\ Handles({"message"})
    /\ pendingMsgs' = Append(pendingMsgs, Head(frames))
    /\ handled' = Append(handled, Head(frames))
    /\ active' = TRUE
    /\ UNCHANGED <<sender, doneEmitted, delivered, busy>>

\* Mutant: the text before a tool is not flushed.
ToolStartFirst ==
    /\ Handles({"tool"})
    /\ delivered' = Append(delivered, Head(frames))
    /\ handled' = Append(handled, Head(frames))
    /\ active' = TRUE
    /\ UNCHANGED <<sender, doneEmitted, pendingMsgs, busy>>

\* item/started of a tool: flush, then EventAgentToolStart.
ToolStart ==
    /\ Handles({"tool"})
    /\ delivered' = Append(delivered \o pendingMsgs, Head(frames))
    /\ pendingMsgs' = <<>>
    /\ handled' = Append(handled, Head(frames))
    /\ active' = TRUE
    /\ UNCHANGED <<sender, doneEmitted, busy>>

\* Mutant: both end signals end the turn.
CompleteTurnTwice ==
    /\ Handles({"completed", "idle"})
    /\ doneEmitted' = TRUE /\ busy' = FALSE
    /\ delivered' = IF active
                    THEN Append(delivered \o pendingMsgs,
                                [type |-> "done", turn |-> Head(frames).turn])
                    ELSE delivered
    /\ pendingMsgs' = IF active THEN <<>> ELSE pendingMsgs
    /\ UNCHANGED <<sender, active, handled>>

\* Mutant: an empty turn does not end.
CompleteTurnIfActive ==
    /\ Handles({"completed", "idle"})
    /\ IF doneEmitted \/ ~active
       THEN UNCHANGED <<doneEmitted, pendingMsgs, delivered, busy>>
       ELSE /\ doneEmitted' = TRUE /\ busy' = FALSE
            /\ delivered' = Append(delivered \o pendingMsgs,
                                   [type |-> "done", turn |-> Head(frames).turn])
            /\ pendingMsgs' = <<>>
    /\ UNCHANGED <<sender, active, handled>>

\* completeTurn, by turn/completed, turn/failed or an idle status.
CompleteTurn ==
    /\ Handles({"completed", "idle"})
    /\ IF doneEmitted
       THEN UNCHANGED <<doneEmitted, pendingMsgs, delivered, busy>>
       ELSE /\ doneEmitted' = TRUE /\ busy' = FALSE
            /\ delivered' = IF active
                            THEN Append(delivered \o pendingMsgs,
                                        [type |-> "done", turn |-> Head(frames).turn])
                            ELSE delivered
            /\ pendingMsgs' = IF active THEN <<>> ELSE pendingMsgs
    /\ UNCHANGED <<sender, active, handled>>

ReadPump ==
    /\ DispatchTurnResponse \/ TurnStarted \/ AgentMessage \/ ToolStart \/ CompleteTurn
    /\ UNCHANGED <<currentTurnID, thread, stop, server, left, inFlight>>

-----------------------------------------------------------------------------
TurnsNext == Driver \/ Server \/ ReadPump

TurnsSpec == TurnsInit /\ [][TurnsNext]_turnVars

\* The server answers and ends its turns, frames are handled, callers resume.
TurnsFairness ==
    /\ WF_turnVars(Server) /\ WF_turnVars(ReadPump)
    /\ \A t \in Turns : WF_turnVars(SendBlocksResumes(t))
TurnsFairSpec == TurnsSpec /\ TurnsFairness

-----------------------------------------------------------------------------
\* The guard spans the turn: no turn/start reaches a server that still runs a turn, for
\* whichever signals the turns end by and however late they are handled.
OneTurnAtATime == starts # <<>> => serving = NotServing

\* A turn that said anything is reported by exactly one Done, after all that it said.
DonesOf(t) == {i \in DOMAIN delivered : delivered[i] = [type |-> "done", turn |-> t]}
Ended(t) ==
    /\ sender[t] \notin {"idle", "waiting"} /\ serving.turn # t
    /\ \A i \in DOMAIN frames : frames[i].turn # t
OneDonePerTurn ==
    \A t \in Turns :
        /\ Cardinality(DonesOf(t)) <= 1
        /\ \A i \in DonesOf(t), j \in DOMAIN delivered : delivered[j].turn = t => j <= i
        /\ Ended(t) /\ (\E i \in DOMAIN handled : handled[i].turn = t) => DonesOf(t) # {}

\* Texts and tool starts reach the channel in the order in which the agent produced
\* them, none lost, although texts are held back until a tool starts or the turn ends:
\* the items delivered, and after them those held back, are the items handled.
ItemsOf(s) == {i \in DOMAIN s : s[i].type # "done"}
Upto(s, i) == {j \in ItemsOf(s) : j <= i}
InOrder(said, items) ==
    /\ Len(items) = Cardinality(ItemsOf(said))
    /\ \A i \in ItemsOf(said) : items[Cardinality(Upto(said, i))] = said[i]
NarrationInOrder == InOrder(delivered \o pendingMsgs, handled)

\* The guard is never held with nothing left that releases it: a request that the server
\* has still to read, a turn it runs, an error on its way or taken by the caller, or an
\* end signal that will be the first of its turn.  A turn lost between two of them would
\* leave the chat busy for good.
Releases(i) ==
    \/ frames[i].type = "error"
    \/ /\ frames[i].type \in {"completed", "idle"}
       /\ doneEmitted => \E k \in DOMAIN frames : k < i /\ frames[k].type = "started"
GuardHasRelease ==
    busy => \/ starts # <<>> \/ serving # NotServing
            \/ \E t \in Turns : sender[t] = "rejected"
            \/ \E i \in DOMAIN frames : Releases(i)

\* The guard is released after every turn, an empty one included.
GuardReleased == []<>~busy

\* What a comment says and the code does not do: "Empty until turn/start's response
\* arrives" (agent.go:78), so that Stop interrupts the turn in flight.
StopNamesTurnInFlight == stop.pc = "interrupt" => stop.turn = stop.meant
=============================================================================
