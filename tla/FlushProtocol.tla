--------------------------- MODULE FlushProtocol ---------------------------
(***************************************************************************)
(* How one chat's queued messages reach its agent                          *)
(* (internal/chatsession: QueueUserMessage, SteerUserMessage, TryFlush,    *)
(* routeEvent; internal/agentsession: Submit, endPrompt).                  *)
(*                                                                         *)
(* Every inbound message runs on a goroutine of its own                    *)
(* (gateway/inbound/message.go:57) and every AgentSession has a dispatcher *)
(* goroutine that routes its events; each of them calls TryFlush, which    *)
(* holds no lock from Peek to Commit or Rewind.  A goroutine here is a     *)
(* member of Inbound, or the AgentSession whose dispatcher it is; its pc   *)
(* stands before the next step that touches shared state.                  *)
(*                                                                         *)
(* An AgentSession is abstracted to its turn: status, isReady, the current *)
(* prompt, the prompts its bridge has accepted and not finished, and the   *)
(* KindPromptEnded events not yet routed.  How a bridge is spawned, closed *)
(* and read is AgentSession.tla.                                           *)
(***************************************************************************)
EXTENDS BatchQueue, Functions

CONSTANTS Inbound,     \* goroutines running inbound messages
          AS,          \* AgentSessions of the chat
          NoAS,        \* selectedAS = nil
          MaxFails,    \* bound on SendBlocks calls that fail
          MaxStops,    \* bound on /stop commands
          MaxCloses,   \* bound on /close commands
          MaxRoutes,   \* bound on /use and /cwd commands
          MaxSteers,   \* bound on /steer commands
          MaxEvents    \* bound on all of these together

ASSUME FlushAssumption ==
    /\ NoAS \notin AS
    /\ Inbound \cap AS = {}
    /\ {MaxFails, MaxStops, MaxCloses, MaxRoutes, MaxSteers, MaxEvents} \subseteq Nat

VARIABLES
    pc, batch, target,      \* per goroutine: where it is, the slice Peek gave it, "as"
    route,                  \* the AgentSession that (selectedAgent, selectedCwd) names
    selectedAS,             \* cs.selectedAS
    clearing,               \* a /cwd command has detached and not yet cleared the queue
    stopping,               \* the AgentSession a /stop has found busy, or NoAS
    closing,                \* AgentSessions that a /close has marked exited
    status, ready, prompt,  \* per AgentSession: stat, isReady, currentPrompt
    turns,                  \* prompts the bridge accepted and has not finished
    ended,                  \* KindPromptEnded events not yet routed
    used,                   \* how often each bounded event has happened
    \* History, read by the properties only:
    arrived,                \* messages taken up by an inbound goroutine
    pushed,                 \* messages QueueUserMessage accepted, in order
    steered,                \* messages SteerUserMessage accepted
    delivered,              \* how often each message was in an accepted SendBlocks
    dropped,                \* messages reported MessageDropped
    overlapped              \* two TryFlush calls have overlapped

asVars      == <<status, ready, prompt, turns, ended>>
routeVars   == <<route, selectedAS, clearing, stopping, closing>>
historyVars == <<arrived, pushed, steered, delivered, dropped>>
localVars   == <<pc, batch, target>>
vars == <<queueVars, localVars, routeVars, asVars, used, historyVars, overlapped>>

Flusher  == Inbound \cup AS
NoPrompt == <<>>

Steps == {"idle", "queue", "peek", "select", "ready", "status", "recheck",
          "submit", "send", "commit", "rewind"}

\* TryFlush has taken a batch and neither committed nor rewound it.
HoldsBatch(f) ==
    pc[f] \in {"select", "ready", "status", "recheck", "submit", "send",
               "commit", "rewind"}

Bounded == {"fail", "stop", "close", "route", "steer"}

Limit == [fail |-> MaxFails, stop |-> MaxStops, close |-> MaxCloses,
          route |-> MaxRoutes, steer |-> MaxSteers]

Use(kind) ==
    /\ used[kind] < Limit[kind]
    /\ used["fail"] + used["stop"] + used["close"] + used["route"] + used["steer"]
         < MaxEvents
    /\ used' = [used EXCEPT ![kind] = @ + 1]

Goto(f, step) == pc' = [pc EXCEPT ![f] = step]

Init ==
    /\ QueueInit
    /\ pc = [f \in Flusher |-> "idle"]
    /\ batch = [f \in Flusher |-> <<>>]
    /\ target = [f \in Flusher |-> NoAS]
    /\ route \in AS
    /\ selectedAS = NoAS
    /\ clearing = FALSE /\ stopping = NoAS /\ closing = {}
    /\ status = [a \in AS |-> "Exited"]
    /\ ready = [a \in AS |-> TRUE]
    /\ prompt = [a \in AS |-> NoPrompt]
    /\ turns = [a \in AS |-> <<>>]
    /\ ended = [a \in AS |-> 0]
    /\ used = [k \in Bounded |-> 0]
    /\ arrived = {} /\ pushed = <<>> /\ steered = {} /\ dropped = {}
    /\ delivered = [m \in Msg |-> 0]
    /\ overlapped = FALSE

-----------------------------------------------------------------------------
(* The inbound goroutine: LookupSelectedAgentSession, then QueueUserMessage. *)

\* The lookup selects the AgentSession the route names and respawns its
\* bridge when it has exited; a respawn leaves isReady true.
Lookup(f) ==
    /\ pc[f] = "idle"
    /\ f \in Inbound
    /\ arrived # Msg
    /\ selectedAS' = route
    /\ status' = [status EXCEPT ![route] = "Running"]
    /\ ready' = [ready EXCEPT ![route] = @ \/ status[route] = "Exited"]
    /\ Goto(f, "queue")
    /\ UNCHANGED <<queueVars, batch, target, route, clearing, stopping, closing, prompt,
                   turns, ended, used, historyVars, overlapped>>

QueueUserMessage(f) ==
    /\ pc[f] = "queue"
    /\ \E m \in Msg \ arrived :
         /\ arrived' = arrived \cup {m}
         /\ \/ /\ PushOk(m)
               /\ pushed' = Append(pushed, m)
               /\ Goto(f, "peek")
            \/ /\ PushFull
               /\ Goto(f, "idle")
               /\ UNCHANGED pushed
    /\ UNCHANGED <<batch, target, routeVars, asVars, used, steered, delivered,
                   dropped, overlapped>>

\* The message goes to the head of the pending region; TryFlush is not called.
\* Stop on the bridge only brings its terminal event forward.
SteerUserMessage ==
    /\ Use("steer")
    /\ \E m \in Msg \ arrived :
         /\ arrived' = arrived \cup {m}
         /\ \/ PushFrontOk(m) /\ steered' = steered \cup {m}
            \/ PushFull /\ UNCHANGED steered
    /\ UNCHANGED <<localVars, routeVars, asVars, pushed, delivered, dropped,
                   overlapped>>

-----------------------------------------------------------------------------
(* TryFlush, one action per step that reads or writes shared state. *)

FlushPeek(f) ==
    /\ pc[f] = "peek"
    /\ \/ Peek /\ Goto(f, "select") /\ batch' = [batch EXCEPT ![f] = out']
       \/ PeekEmpty /\ Goto(f, "idle") /\ UNCHANGED batch
    /\ overlapped' = (overlapped \/ \E g \in Flusher \ {f} : HoldsBatch(g))
    /\ UNCHANGED <<target, routeVars, asVars, used, historyVars>>

FlushSelect(f) ==
    /\ pc[f] = "select"
    /\ target' = [target EXCEPT ![f] = selectedAS]
    /\ Goto(f, IF selectedAS = NoAS THEN "rewind" ELSE "ready")
    /\ UNCHANGED <<queueVars, batch, routeVars, asVars, used, historyVars, overlapped>>

FlushReady(f) ==
    /\ pc[f] = "ready"
    /\ Goto(f, IF ready[target[f]] THEN "status" ELSE "rewind")
    /\ UNCHANGED <<queueVars, batch, target, routeVars, asVars, used, historyVars,
                   overlapped>>

FlushStatus(f) ==
    /\ pc[f] = "status"
    /\ Goto(f, IF status[target[f]] = "Exited" THEN "rewind" ELSE "recheck")
    /\ UNCHANGED <<queueVars, batch, target, routeVars, asVars, used, historyVars,
                   overlapped>>

FlushRecheck(f) ==
    /\ pc[f] = "recheck"
    /\ Goto(f, IF selectedAS # target[f] \/ status[target[f]] = "Exited"
               THEN "rewind" ELSE "submit")
    /\ UNCHANGED <<queueVars, batch, target, routeVars, asVars, used, historyVars,
                   overlapped>>

\* Submit installs the prompt and clears isReady before it calls the bridge.
SubmitCommit(f) ==
    LET a == target[f] IN
    /\ pc[f] = "submit"
    /\ prompt' = [prompt EXCEPT ![a] = batch[f]]
    /\ ready' = [ready EXCEPT ![a] = FALSE]
    /\ Goto(f, "send")
    /\ UNCHANGED <<queueVars, batch, target, routeVars, status, turns, ended, used,
                   historyVars, overlapped>>

SendBlocksOk(f) ==
    LET a == target[f] IN
    /\ pc[f] = "send"
    /\ status[a] = "Running" \/ a \in closing
    /\ turns' = [turns EXCEPT ![a] = IF status[a] = "Running" THEN Append(@, batch[f]) ELSE @]
    /\ delivered' = [m \in Msg |-> delivered[m] + IF m \in Range(batch[f]) THEN 1 ELSE 0]
    /\ Goto(f, "commit")
    /\ UNCHANGED <<queueVars, batch, target, routeVars, status, ready, prompt, ended,
                   used, arrived, pushed, steered, dropped, overlapped>>

SendBlocksFail(f) ==
    LET a == target[f] IN
    /\ pc[f] = "send"
    /\ \/ status[a] = "Exited" /\ UNCHANGED used
       \/ Use("fail")
    /\ prompt' = [prompt EXCEPT ![a] = IF @ = batch[f] THEN NoPrompt ELSE @]
    /\ ready' = [ready EXCEPT ![a] = TRUE]
    /\ Goto(f, "rewind")
    /\ UNCHANGED <<queueVars, batch, target, routeVars, status, turns, ended,
                   historyVars, overlapped>>

FlushCommit(f) ==
    /\ pc[f] = "commit"
    /\ Commit
    /\ Goto(f, "idle")
    /\ batch' = [batch EXCEPT ![f] = <<>>]
    /\ target' = [target EXCEPT ![f] = NoAS]
    /\ UNCHANGED <<routeVars, asVars, used, historyVars, overlapped>>

\* Mutant: a failed flush commits its batch.
FlushRewindDrops(f) ==
    /\ pc[f] = "rewind"
    /\ Commit
    /\ Goto(f, "idle")
    /\ batch' = [batch EXCEPT ![f] = <<>>]
    /\ target' = [target EXCEPT ![f] = NoAS]
    /\ UNCHANGED <<routeVars, asVars, used, historyVars, overlapped>>

FlushRewind(f) ==
    /\ pc[f] = "rewind"
    /\ Rewind
    /\ Goto(f, "idle")
    /\ batch' = [batch EXCEPT ![f] = <<>>]
    /\ target' = [target EXCEPT ![f] = NoAS]
    /\ UNCHANGED <<routeVars, asVars, used, historyVars, overlapped>>

TryFlush(f) ==
    \/ FlushPeek(f) \/ FlushSelect(f) \/ FlushReady(f) \/ FlushStatus(f)
    \/ FlushRecheck(f) \/ SubmitCommit(f) \/ SendBlocksOk(f) \/ SendBlocksFail(f)
    \/ FlushCommit(f) \/ FlushRewind(f)

-----------------------------------------------------------------------------
(* The turn's end, and the commands that interfere. *)

\* endPrompt ends whatever prompt is current and queues its KindPromptEnded.
EndPrompt(a) ==
    /\ prompt' = [prompt EXCEPT ![a] = NoPrompt]
    /\ ready' = [ready EXCEPT ![a] = TRUE]
    /\ ended' = [ended EXCEPT ![a] = @ + 1]

\* The bridge finishes its oldest turn; the readpump calls endPrompt.
BridgeDone(a) ==
    /\ turns[a] # <<>>
    /\ turns' = [turns EXCEPT ![a] = Tail(@)]
    /\ EndPrompt(a)
    /\ UNCHANGED <<queueVars, localVars, routeVars, status, used, historyVars, overlapped>>

\* Mutant: the turn's end does not call TryFlush.
RoutePromptEndedNoFlush(a) ==
    /\ pc[a] = "idle"
    /\ ended[a] > 0
    /\ ended' = [ended EXCEPT ![a] = @ - 1]
    /\ UNCHANGED <<queueVars, localVars, routeVars, status, ready, prompt, turns,
                   used, historyVars, overlapped>>

\* The dispatcher goroutine of a routes one KindPromptEnded and calls TryFlush.
RoutePromptEnded(a) ==
    /\ pc[a] = "idle"
    /\ ended[a] > 0
    /\ ended' = [ended EXCEPT ![a] = @ - 1]
    /\ Goto(a, "peek")
    /\ UNCHANGED <<queueVars, batch, target, routeVars, status, ready, prompt, turns,
                   used, historyVars, overlapped>>

\* /stop looks whether the selected agent is busy ...
StopSelectedAgent ==
    /\ Use("stop")
    /\ stopping = NoAS
    /\ selectedAS # NoAS
    /\ ~ready[selectedAS]
    /\ stopping' = selectedAS
    /\ UNCHANGED <<queueVars, localVars, route, selectedAS, clearing, closing, asVars,
                   historyVars, overlapped>>

\* ... and ends its turn locally, by then perhaps the next one; the bridge settles in
\* its own time.
StopEnds ==
    /\ stopping # NoAS
    /\ stopping' = NoAS
    /\ EndPrompt(stopping)
    /\ UNCHANGED <<queueVars, localVars, route, selectedAS, clearing, closing, status,
                   turns, used, historyVars, overlapped>>

\* /close: the readpump is gone, and with it the end of every turn the bridge had
\* accepted, and the AgentSession is marked exited ...
CloseAgent(a) ==
    /\ Use("close")
    /\ status[a] = "Running" /\ a \notin closing
    /\ status' = [status EXCEPT ![a] = "Exited"]
    /\ turns' = [turns EXCEPT ![a] = <<>>]
    /\ closing' = closing \cup {a}
    /\ UNCHANGED <<queueVars, localVars, route, selectedAS, clearing, stopping, ready,
                   prompt, ended, historyVars, overlapped>>

\* ... before its prompt is ended and its bridge closed.  Unless it has been respawned,
\* endPrompt's select may choose the closed stop channel over the event queue.
CloseEnds(a) ==
    /\ a \in closing
    /\ closing' = closing \ {a}
    /\ \/ EndPrompt(a)
       \/ /\ status[a] = "Exited"
          /\ prompt' = [prompt EXCEPT ![a] = NoPrompt]
          /\ ready' = [ready EXCEPT ![a] = TRUE]
          /\ UNCHANGED ended
    /\ UNCHANGED <<queueVars, localVars, route, selectedAS, clearing, stopping, status,
                   turns, used, historyVars, overlapped>>

\* /use: the queue is kept.
SetSelectedAgent ==
    /\ Use("route")
    /\ ~clearing
    /\ \E a \in AS \ {route} : route' = a
    /\ selectedAS' = NoAS
    /\ UNCHANGED <<queueVars, localVars, clearing, stopping, closing, asVars, historyVars,
                   overlapped>>

\* /cwd: the working set is detached under cs.mu, the queue cleared after it.
SetSelectedCwd ==
    /\ Use("route")
    /\ ~clearing
    /\ clearing' = TRUE
    /\ \E a \in AS \ {route} : route' = a
    /\ selectedAS' = NoAS
    /\ UNCHANGED <<queueVars, localVars, stopping, closing, asVars, historyVars, overlapped>>

ClearQueueOnCwdBoundary ==
    /\ clearing
    /\ clearing' = FALSE
    /\ Clear
    /\ dropped' = dropped \cup Range(out')
    /\ UNCHANGED <<localVars, route, selectedAS, stopping, closing, asVars, used, arrived,
                   pushed, steered, delivered, overlapped>>

Next ==
    \/ \E f \in Inbound : Lookup(f) \/ QueueUserMessage(f)
    \/ \E f \in Flusher : TryFlush(f)
    \/ \E a \in AS : BridgeDone(a) \/ RoutePromptEnded(a) \/ CloseAgent(a) \/ CloseEnds(a)
    \/ SteerUserMessage \/ StopSelectedAgent \/ StopEnds
    \/ SetSelectedAgent \/ SetSelectedCwd \/ ClearQueueOnCwdBoundary

Spec == Init /\ [][Next]_vars

\* A goroutine inside a call goes on, the bridge finishes the turns it has
\* accepted, the dispatcher drains its events, and a command goes on.
Fairness ==
    /\ \A f \in Inbound : WF_vars(QueueUserMessage(f))
    /\ \A f \in Flusher : WF_vars(TryFlush(f))
    /\ \A a \in AS : WF_vars(BridgeDone(a)) /\ WF_vars(RoutePromptEnded(a))
    /\ \A a \in AS : WF_vars(CloseEnds(a))
    /\ WF_vars(StopEnds) /\ WF_vars(ClearQueueOnCwdBoundary)

FairSpec == Spec /\ Fairness

-----------------------------------------------------------------------------
TypeOK ==
    /\ QueueTypeOK
    /\ pc \in [Flusher -> Steps]
    /\ batch \in [Flusher -> Seq(Msg)]
    /\ target \in [Flusher -> AS \cup {NoAS}]
    /\ route \in AS /\ selectedAS \in AS \cup {NoAS} /\ clearing \in BOOLEAN
    /\ stopping \in AS \cup {NoAS} /\ closing \subseteq AS
    /\ status \in [AS -> {"Running", "Exited"}]
    /\ ready \in [AS -> BOOLEAN]
    /\ prompt \in [AS -> Seq(Msg)]
    /\ turns \in [AS -> Seq(Seq(Msg))]
    /\ ended \in [AS -> Nat]
    /\ used \in [Bounded -> Nat]
    /\ arrived \subseteq Msg /\ pushed \in Seq(Msg) /\ steered \subseteq Msg
    /\ delivered \in [Msg -> Nat] /\ dropped \subseteq Msg
    /\ overlapped \in BOOLEAN

Accepted == Range(pushed) \cup steered

(***************************************************************************)
(* What the chat layer promises of an accepted message ("at-least-once     *)
(* successful submission", chatsession.go:236 and 1243): until it has been *)
(* submitted or reported dropped, it is in the queue.                      *)
(***************************************************************************)
NoMessageLost ==
    \A m \in Accepted :
        delivered[m] = 0 /\ m \notin dropped => m \in Range(Contents)

(***************************************************************************)
(* As long as no two TryFlush calls have overlapped, every accepted        *)
(* message is delivered at most once and, until then, is in the queue or   *)
(* reported dropped, whatever else happens: failed sends, /stop, /close,   *)
(* /use, /cwd, /steer, a full queue.                                       *)
(***************************************************************************)
SoloExactlyOnce ==
    ~overlapped => NoMessageLost /\ \A m \in Msg : delivered[m] <= 1

(***************************************************************************)
(* The inductive strengthening of SoloExactlyOnce.  NoDuplicates and       *)
(* Recorded hold of every behaviour; Solo is what holds until two TryFlush *)
(* calls overlap: at most one goroutine holds a batch, the in-flight       *)
(* region is that batch (or was cleared under it), and only a batch about  *)
(* to be committed is both in the queue and delivered.                     *)
(***************************************************************************)
NoDuplicates ==
    /\ IsInjective(inflight) /\ IsInjective(pending)
    /\ Range(inflight) \cap Range(pending) = {}

Recorded ==
    /\ Range(inflight) \cup Range(pending) \subseteq arrived
    /\ Accepted \subseteq arrived
    /\ \A f \in Flusher : Range(batch[f]) \subseteq arrived
    /\ \A m \in Msg : delivered[m] > 0 => m \in arrived

TargetChosen ==
    \A f \in Flusher :
        pc[f] \in {"ready", "status", "recheck", "submit", "send", "commit"}
            => target[f] \in AS

Solo ==
    /\ \A f, g \in Flusher : HoldsBatch(f) /\ HoldsBatch(g) => f = g
    /\ (\A f \in Flusher : ~HoldsBatch(f)) => inflight = <<>>
    /\ \A f \in Flusher : HoldsBatch(f) =>
          /\ inflight \in {batch[f], <<>>}
          /\ Range(batch[f]) \cap Range(pending) = {}
          /\ \A m \in Range(batch[f]) :
                delivered[m] = IF pc[f] = "commit" THEN 1 ELSE 0
    /\ \A m \in Range(pending) : delivered[m] = 0
    /\ \A m \in Msg : delivered[m] <= 1
    /\ NoMessageLost

SoloInv == NoDuplicates /\ Recorded /\ TargetChosen /\ (~overlapped => Solo)

(***************************************************************************)
(* As long as no two TryFlush calls have overlapped, messages are          *)
(* submitted in the order in which QueueUserMessage accepted them: a       *)
(* failed or skipped flush never lets a later message pass.                *)
(***************************************************************************)
SoloFifo ==
    ~overlapped =>
        \A j \in 1..Len(pushed) : \A i \in 1..(j-1) :
            delivered[pushed[j]] > 0 =>
                delivered[pushed[i]] > 0 \/ pushed[i] \in dropped

(***************************************************************************)
(* The safety behind SoloQueueDrains.  Without overlapping TryFlush calls, *)
(* failed sends, /steer, /close, /use and /cwd, a message in the queue has *)
(* somebody who will take it up: a goroutine inside TryFlush or about to   *)
(* call it, a turn the bridge has yet to finish, or a KindPromptEnded yet  *)
(* to be routed (chatsession.go:1117).                                     *)
(***************************************************************************)
Undisturbed == ~overlapped /\ \A k \in Bounded \ {"stop"} : used[k] = 0

Coming ==
    \/ \E f \in Flusher : pc[f] = "peek"
    \/ \E a \in AS : turns[a] # <<>> \/ ended[a] > 0

SoloAttended ==
    Undisturbed /\ Contents # <<>> => Coming \/ \E f \in Flusher : HoldsBatch(f)

(***************************************************************************)
(* Its inductive strengthening: the selected AgentSession is running and   *)
(* the only one submitted to; an agent that is not ready has a turn, or is *)
(* just being given one; so whoever is about to settle a batch is not the  *)
(* last to look at the queue.                                              *)
(***************************************************************************)
Chosen ==
    /\ selectedAS = NoAS => \A f \in Flusher : pc[f] = "idle"
    /\ selectedAS = NoAS => \A a \in AS : turns[a] = <<>> /\ ended[a] = 0
    /\ selectedAS = NoAS => stopping = NoAS
    /\ closing = {}
    /\ selectedAS # NoAS => selectedAS = route /\ status[selectedAS] = "Running"

Aimed ==
    \A f \in Flusher :
        pc[f] \in {"ready", "status", "recheck", "submit", "send"} => target[f] = selectedAS

BusyHasTurn ==
    \A a \in AS :
        ~ready[a] => \/ turns[a] # <<>>
                     \/ \E f \in Flusher : pc[f] = "send" /\ target[f] = a

SettledComesAgain ==
    \A f \in Flusher : pc[f] \in {"commit", "rewind"} => Coming

AttendInv ==
    Undisturbed => Chosen /\ Aimed /\ BusyHasTurn /\ SettledComesAgain /\ SoloAttended

(***************************************************************************)
(* A message leaves the queue in the end, given a bridge that keeps        *)
(* answering, as long as no two TryFlush calls have overlapped: the end of *)
(* a turn flushes what was rewound during it.                              *)
(***************************************************************************)
SoloQueueDrains ==
    \A m \in Msg :
        m \in Range(Contents) ~> (m \notin Range(Contents) \/ overlapped)

(***************************************************************************)
(* The comment on QueueUserMessage (chatsession.go:1117) says of a message *)
(* that found the agent busy that "the next KindPromptEnded event will     *)
(* trigger a retry", and the one on TryFlush (chatsession.go:1257) says    *)
(* the same of a failed submission: a queued message leaves the queue in   *)
(* the end.                                                                *)
(***************************************************************************)
QueueDrains ==
    \A m \in Msg : m \in Range(Contents) ~> m \notin Range(Contents)

(***************************************************************************)
(* The comment on TryFlush (chatsession.go:1251) says that it submits      *)
(* nothing to an agent that is not ready, "currentPrompt in flight": a     *)
(* bridge never holds two turns of the chat.                               *)
(***************************************************************************)
OneTurnInFlight == \A a \in AS : Len(turns[a]) <= 1

(***************************************************************************)
(* agent/prompt_end_reason.go:17 says that a prompt ends clean when "agent *)
(* emitted EventAgentDone normally": the terminal event that ends a prompt *)
(* is its own.                                                             *)
(***************************************************************************)
PromptEndsOnOwnEvent ==
    [][\A a \in AS : BridgeDone(a) => prompt[a] \in {NoPrompt, Head(turns[a])}]_vars
=============================================================================
