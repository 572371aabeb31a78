---------------------------- MODULE AgentSession ----------------------------
(***************************************************************************)
(* The life of one AgentSession's bridge process                           *)
(* (internal/agentsession: Spawn, respawn, Submit, Close, HandlePTYRestart, *)
(* RestartFromDeath, the readpump; internal/chatsession: routeEvent's      *)
(* KindLifecycle branch; internal/command/close: CloseAgent).              *)
(*                                                                         *)
(* The goroutines are the callers that run inbound messages, the           *)
(* dispatcher that routes the session's events, /close, /new on a raw PTY  *)
(* bridge, and the readpumps.  asMu guards the fields, and none of the     *)
(* operations holds it across a spawn, a send, a bridge close or a channel *)
(* wait: each critical section is an action of its own.                    *)
(*                                                                         *)
(* A bridge is the process that one Spawn created; its number is also its  *)
(* PID.  None stands for a nil handle, PID 0 and a nil channel.  When a    *)
(* bridge dies its events channel is closed.  What a prompt says, and whose *)
(* currentPrompt it is, is FlushProtocol's subject and left out here.      *)
(***************************************************************************)
EXTENDS Naturals, Sequences, FiniteSets

CONSTANTS Caller,        \* goroutines running inbound messages
          Dispatcher,    \* the session's dispatcher goroutine, as a singleton set
          Closer,        \* goroutines running /close
          Resetter,      \* goroutines running /new, when the bridge is a raw PTY
          EventCap,      \* capacity of eventQueue
          MaxBridges,    \* bound on bridges spawned: further spawns fail
          MaxMessages, MaxCrashes, MaxCloses, MaxResets,  \* bounds on inputs
          MaxInputs      \* and on all of them together

ASSUME SessionAssumption ==
    /\ {EventCap, MaxBridges, MaxMessages, MaxCrashes, MaxCloses, MaxResets,
      MaxInputs} \subseteq Nat
    /\ EventCap > 0
    /\ Caller \cap (Dispatcher \cup Closer \cup Resetter) = {}
    /\ Dispatcher \cap (Closer \cup Resetter) = {}
    /\ Closer \cap Resetter = {}

VARIABLES
    handle, pid, stat, closedByUser, ready,    \* fields of AgentSession
    readpumpStarted,
    current,       \* the readpump whose stop and done channels the fields hold
    stopClosed,    \* readpumps whose stop channel is closed
    pump,          \* the readpumps started: bridge read, stop channel selected on
    eventQueue,    \* KindPromptEnded and KindLifecycle{Exited} not yet routed
    proc,          \* per bridge: is its process alive
    go,            \* per goroutine: its next step and its local variables
    used           \* inputs so far

fields   == <<handle, pid, stat, closedByUser, ready>>
pumpVars == <<readpumpStarted, current, stopClosed, pump>>
vars     == <<fields, pumpVars, eventQueue, proc, go, used>>

None   == 0
Bridge == 1..MaxBridges
Thread == Caller \cup Dispatcher \cup Closer \cup Resetter

RespawnSteps == {"respawn", "spawn", "install", "rollback", "arm"}
CloseSteps   == {"stop", "closestop", "wait", "exit", "end", "push", "kill", "final"}
SubmitSteps  == {"flush", "submit", "keepalive", "commit", "send"}
Steps == RespawnSteps \cup CloseSteps \cup SubmitSteps
           \cup {"idle", "setexited", "restart", "close", "rearm"}

\* held: the handle captured; fresh: the bridge just spawned; wasRunning:
\* respawn's prevStat; ret: the step its respawn returns to; chan: the
\* readpump whose channels are captured; grace: CloseAgent is still waiting.
Rest == [at |-> "idle", held |-> None, fresh |-> None, wasRunning |-> FALSE,
         ret |-> "idle", chan |-> None, grace |-> FALSE]

Goto(t, step) == go' = [go EXCEPT ![t] = IF step = "idle" THEN Rest ELSE [@ EXCEPT !.at = step]]

Input == {"message", "crash", "close", "reset"}
Limit == [message |-> MaxMessages, crash |-> MaxCrashes, close |-> MaxCloses,
          reset |-> MaxResets]
Inputs == used["message"] + used["crash"] + used["close"] + used["reset"]
Use(kind) ==
    /\ used[kind] < Limit[kind] /\ Inputs < MaxInputs
    /\ used' = [used EXCEPT ![kind] = @ + 1]

Live(b) == b # None /\ proc[b] = "live"
Killed(b) == [c \in Bridge |-> IF c = b THEN "dead" ELSE proc[c]]

\* A new AgentSession, or one restored from disk, where a running one comes
\* back detached.
Init ==
    /\ handle = None /\ pid = None /\ stat \in {"Detached", "Exited"}
    /\ closedByUser = FALSE /\ ready = TRUE
    /\ readpumpStarted = FALSE /\ current = None /\ stopClosed = {} /\ pump = <<>>
    /\ eventQueue = <<>>
    /\ proc = [b \in Bridge |-> "unborn"]
    /\ go = [t \in Thread |-> Rest]
    /\ used = [k \in Input |-> 0]

-----------------------------------------------------------------------------
(* respawn: reap the old process, spawn a new one, install it. *)

\* Snapshot prevStat and kill what the pid field names.
RespawnReap(t) ==
    /\ go[t].at = "respawn"
    /\ proc' = Killed(pid)
    /\ go' = [go EXCEPT ![t].at = "spawn", ![t].wasRunning = stat = "Running"]
    /\ UNCHANGED <<fields, pumpVars, eventQueue, used>>

RespawnFail(t) ==
    /\ go[t].at = "spawn"
    /\ handle' = None /\ pid' = None
    /\ stat' = IF go[t].wasRunning THEN "Exited" ELSE stat
    /\ Goto(t, "idle")
    /\ UNCHANGED <<closedByUser, ready, pumpVars, eventQueue, proc, used>>

RespawnLaunch(t) ==
    /\ go[t].at = "spawn"
    /\ \E b \in Bridge :
         /\ proc[b] = "unborn" /\ \A c \in 1..(b-1) : proc[c] # "unborn"
         /\ proc' = [proc EXCEPT ![b] = "live"]
         /\ go' = [go EXCEPT ![t].at = "install", ![t].fresh = b]
    /\ UNCHANGED <<fields, pumpVars, eventQueue, used>>

\* Mutant: the Close that came in during the spawn is not noticed.
RespawnInstallAnyway(t) ==
    /\ go[t].at = "install"
    /\ handle' = go[t].fresh /\ pid' = go[t].fresh /\ stat' = "Running"
    /\ Goto(t, "arm")
    /\ UNCHANGED <<closedByUser, ready, pumpVars, eventQueue, proc, used>>

\* A Close that came in during the spawn wins: the new bridge is rolled back.
RespawnInstall(t) ==
    /\ go[t].at = "install"
    /\ IF closedByUser
       THEN /\ handle' = None /\ pid' = None /\ stat' = "Exited"
            /\ Goto(t, "rollback")
       ELSE /\ handle' = go[t].fresh /\ pid' = go[t].fresh /\ stat' = "Running"
            /\ Goto(t, "arm")
    /\ UNCHANGED <<closedByUser, ready, pumpVars, eventQueue, proc, used>>

RespawnRollback(t) ==
    /\ go[t].at = "rollback"
    /\ proc' = Killed(go[t].fresh)
    /\ Goto(t, go[t].ret)
    /\ UNCHANGED <<fields, pumpVars, eventQueue, used>>

\* isReady is set again, and startReadPump launches a readpump unless
\* readpumpStarted says that one was launched already.  The readpump's first
\* lines, which snapshot the handle, are taken to run at once: what could
\* change the handle under them is another process launch.
RespawnArm(t) ==
    /\ go[t].at = "arm"
    /\ ready' = TRUE
    /\ readpumpStarted' = TRUE
    /\ IF readpumpStarted
       THEN UNCHANGED <<current, pump>>
       ELSE /\ pump' = Append(pump, [at |-> IF handle = None THEN "done" ELSE "read",
                                     bridge |-> handle, stop |-> Len(pump) + 1])
            /\ current' = Len(pump) + 1
    /\ Goto(t, go[t].ret)
    /\ UNCHANGED <<handle, pid, stat, closedByUser, stopClosed, eventQueue, proc, used>>

-----------------------------------------------------------------------------
(* An inbound message: LookupSelectedAgentSession, then TryFlush. *)

\* The per-key resolve lock: one caller at a time is in Spawn.
InSpawn(t) == go[t].at \in RespawnSteps /\ go[t].ret = "flush"

\* A running session is used as it is; any other is spawned, which takes
\* back an earlier /close.
Spawn(t) ==
    /\ go[t].at = "idle" /\ t \in Caller
    /\ Use("message")
    /\ \/ /\ stat = "Running" /\ handle # None
          /\ Goto(t, "flush")
          /\ UNCHANGED closedByUser
       \/ /\ ~(stat = "Running" /\ handle # None)
          /\ ~\E u \in Caller : InSpawn(u)
          /\ closedByUser' = FALSE
          /\ go' = [go EXCEPT ![t].at = "respawn", ![t].ret = "flush"]
    /\ UNCHANGED <<handle, pid, stat, ready, pumpVars, eventQueue, proc>>

\* TryFlush finds nothing to send, or a session it may submit to.
Flush(t) ==
    /\ go[t].at = "flush"
    /\ \/ Goto(t, "idle")
       \/ /\ ready /\ stat # "Exited"
          /\ go' = [go EXCEPT ![t] = [Rest EXCEPT !.at = "submit"]]
    /\ UNCHANGED <<fields, pumpVars, eventQueue, proc, used>>

-----------------------------------------------------------------------------
(* Submit *)

SubmitCapture(t) ==
    /\ go[t].at = "submit"
    /\ IF handle = None
       THEN Goto(t, "idle")
       ELSE go' = [go EXCEPT ![t].at = "keepalive", ![t].held = handle]
    /\ UNCHANGED <<fields, pumpVars, eventQueue, proc, used>>

\* A live bridge is used; for a dead one respawnFromDeadHandle drops the
\* handle, demotes the session and respawns.  The raw PTY bridge looks at its
\* transport only, which outlives the process.
Keepalive(t) ==
    /\ go[t].at = "keepalive"
    /\ IF Live(go[t].held) \/ Resetter # {}
       THEN /\ Goto(t, "commit")
            /\ UNCHANGED <<handle, pid, stat, proc>>
       ELSE /\ handle' = None /\ pid' = None
            /\ stat' = IF stat = "Running" THEN "Detached" ELSE stat
            /\ proc' = Killed(pid)
            /\ go' = [go EXCEPT ![t].at = "respawn", ![t].ret = "commit"]
    /\ UNCHANGED <<closedByUser, ready, pumpVars, eventQueue, used>>

SubmitCommit(t) ==
    /\ go[t].at = "commit"
    /\ ready' = FALSE
    /\ Goto(t, "send")
    /\ UNCHANGED <<handle, pid, stat, closedByUser, pumpVars, eventQueue, proc, used>>

\* The send goes to the handle captured at the start; a failed one is rolled back.
SendBlocks(t) ==
    /\ go[t].at = "send"
    /\ ready' = (ready \/ ~Live(go[t].held))
    /\ Goto(t, "idle")
    /\ UNCHANGED <<handle, pid, stat, closedByUser, pumpVars, eventQueue, proc, used>>

-----------------------------------------------------------------------------
(* The readpump, and the bridge at the other end of its channel. *)

\* Mutant: the push does not wait for room.
PushUnbounded(event, stop) ==
    \/ eventQueue' = Append(eventQueue, event)
    \/ stop \in stopClosed /\ UNCHANGED eventQueue

\* A push on eventQueue waits for room, and gives up when stop is closed.
Push(event, stop) ==
    \/ Len(eventQueue) < EventCap /\ eventQueue' = Append(eventQueue, event)
    \/ stop \in stopClosed /\ UNCHANGED eventQueue

\* The bridge finishes a turn: endPrompt's critical section, then its push.
PumpTurnEnded(n) ==
    /\ pump[n].at = "read" /\ Live(pump[n].bridge)
    /\ ~ready
    /\ ready' = TRUE
    /\ pump' = [pump EXCEPT ![n].at = "ended", ![n].stop = current]
    /\ UNCHANGED <<handle, pid, stat, closedByUser, readpumpStarted, current, stopClosed,
                   eventQueue, proc, go, used>>

\* The bridge's events channel is closed: endPrompt, then emitLifecycleLocked.
PumpClosed(n) ==
    /\ pump[n].at = "read" /\ ~Live(pump[n].bridge)
    /\ ready' = TRUE
    /\ pump' = [pump EXCEPT ![n].at = "died", ![n].stop = current]
    /\ UNCHANGED <<handle, pid, stat, closedByUser, readpumpStarted, current, stopClosed,
                   eventQueue, proc, go, used>>

PumpPushEnded(n) ==
    /\ pump[n].at \in {"ended", "died"}
    /\ Push("PromptEnded", pump[n].stop)
    /\ pump' = [pump EXCEPT ![n].at = IF @ = "ended" THEN "read" ELSE "lifecycle",
                            ![n].stop = current]
    /\ UNCHANGED <<fields, readpumpStarted, current, stopClosed, proc, go, used>>

\* The readpump returns, and readpumpStarted stays true.
PumpLifecycle(n) ==
    /\ pump[n].at = "lifecycle"
    /\ Push("Exited", pump[n].stop)
    /\ pump' = [pump EXCEPT ![n].at = "done"]
    /\ UNCHANGED <<fields, readpumpStarted, current, stopClosed, proc, go, used>>

\* Any other event: the next select is on what readpumpStop now names.
PumpAgentEvent(n) ==
    /\ pump[n].at = "read" /\ Live(pump[n].bridge)
    /\ pump' = [pump EXCEPT ![n].stop = current]
    /\ UNCHANGED <<fields, readpumpStarted, current, stopClosed, eventQueue, proc, go, used>>

PumpStop(n) ==
    /\ pump[n].at = "read" /\ pump[n].stop \in stopClosed
    /\ pump' = [pump EXCEPT ![n].at = "done"]
    /\ UNCHANGED <<fields, readpumpStarted, current, stopClosed, eventQueue, proc, go, used>>

BridgeExit(b) ==
    /\ Live(b)
    /\ Use("crash")
    /\ proc' = Killed(b)
    /\ UNCHANGED <<fields, pumpVars, eventQueue, go>>

-----------------------------------------------------------------------------
(* The dispatcher: routeEvent. *)

Route(t) ==
    /\ go[t].at = "idle" /\ t \in Dispatcher
    /\ eventQueue # <<>>
    /\ eventQueue' = Tail(eventQueue)
    /\ Goto(t, IF Head(eventQueue) = "PromptEnded" THEN "flush"
               ELSE IF stat = "Exited" THEN "idle" ELSE "setexited")
    /\ UNCHANGED <<fields, pumpVars, proc, used>>

SetExited == pid' = None /\ stat' = "Exited"

RouteSetExited(t) ==
    /\ go[t].at = "setexited"
    /\ SetExited
    /\ Goto(t, "restart")
    /\ UNCHANGED <<handle, closedByUser, ready, pumpVars, eventQueue, proc, used>>

RestartFromDeath(t) ==
    /\ go[t].at = "restart"
    /\ go' = [go EXCEPT ![t].at = IF closedByUser THEN "flush" ELSE "respawn",
                        ![t].ret = "flush"]
    /\ UNCHANGED <<fields, pumpVars, eventQueue, proc, used>>

-----------------------------------------------------------------------------
(* /close: CloseAgent runs Close on a goroutine and waits for it, but not   *)
(* for ever.                                                               *)

\* isCloseAlive
CloseAgent(t) ==
    /\ go[t].at = "idle" /\ t \in Closer
    /\ stat = "Running" \/ (stat = "Detached" /\ handle # None)
    /\ Use("close")
    /\ go' = [go EXCEPT ![t].at = "close", ![t].grace = TRUE]
    /\ UNCHANGED <<fields, pumpVars, eventQueue, proc>>

CloseBegin(t) ==
    /\ go[t].at = "close"
    /\ closedByUser' = TRUE
    /\ go' = [go EXCEPT ![t].at = "stop", ![t].held = handle, ![t].chan = current]
    /\ UNCHANGED <<handle, pid, stat, ready, pumpVars, eventQueue, proc, used>>

\* The select that finds the stop channel open, and the close after it.
CloseFindsOpen(t) ==
    /\ go[t].at = "stop"
    /\ Goto(t, IF go[t].chan \in stopClosed \cup {None} THEN "wait" ELSE "closestop")
    /\ UNCHANGED <<fields, pumpVars, eventQueue, proc, used>>

\* Mutant: the stop channel is not closed.
CloseLeavesStopOpen(t) ==
    /\ go[t].at = "closestop"
    /\ Goto(t, "wait")
    /\ UNCHANGED <<fields, pumpVars, eventQueue, proc, used>>

CloseStopChannel(t) ==
    /\ go[t].at = "closestop"
    /\ stopClosed' = stopClosed \cup {go[t].chan}
    /\ Goto(t, "wait")
    /\ UNCHANGED <<fields, readpumpStarted, current, pump, eventQueue, proc, used>>

\* Wait for the captured done channel, then let the next Spawn start a readpump.
CloseWait(t) ==
    /\ go[t].at = "wait"
    /\ go[t].chan # None => pump[go[t].chan].at = "done"
    /\ readpumpStarted' = FALSE
    /\ Goto(t, "exit")
    /\ UNCHANGED <<fields, current, stopClosed, pump, eventQueue, proc, used>>

CloseSetExited(t) ==
    /\ go[t].at = "exit"
    /\ SetExited
    /\ Goto(t, "end")
    /\ UNCHANGED <<handle, closedByUser, ready, pumpVars, eventQueue, proc, used>>

CloseEndPrompt(t) ==
    /\ go[t].at = "end"
    /\ ready' = TRUE
    /\ go' = [go EXCEPT ![t].at = "push", ![t].chan = current]
    /\ UNCHANGED <<handle, pid, stat, closedByUser, pumpVars, eventQueue, proc, used>>

ClosePushEnded(t) ==
    /\ go[t].at = "push"
    /\ Push("PromptEnded", go[t].chan)
    /\ Goto(t, "kill")
    /\ UNCHANGED <<fields, pumpVars, proc, used>>

CloseHandle(t) ==
    /\ go[t].at = "kill"
    /\ proc' = Killed(go[t].held)
    /\ Goto(t, IF go[t].grace THEN "final" ELSE "idle")
    /\ UNCHANGED <<fields, pumpVars, eventQueue, used>>

\* CloseAgent's own SetExited, when Close has returned or has taken too long.
CloseAgentSetExited(t) ==
    /\ go[t].at \in CloseSteps /\ go[t].grace
    /\ SetExited
    /\ IF go[t].at = "final" THEN Goto(t, "idle") ELSE go' = [go EXCEPT ![t].grace = FALSE]
    /\ UNCHANGED <<handle, closedByUser, ready, pumpVars, eventQueue, proc, used>>

-----------------------------------------------------------------------------
(* /new on a raw PTY bridge: HandlePTYRestart. *)

ResetClose(t) ==
    /\ go[t].at = "idle" /\ t \in Resetter
    /\ stat = "Running" /\ handle # None
    /\ Use("reset")
    /\ proc' = Killed(handle)
    /\ Goto(t, "rearm")
    /\ UNCHANGED <<fields, pumpVars, eventQueue>>

ResetRearm(t) ==
    /\ go[t].at = "rearm"
    /\ readpumpStarted' = FALSE
    /\ Goto(t, "respawn")
    /\ UNCHANGED <<fields, current, stopClosed, pump, eventQueue, proc, used>>

-----------------------------------------------------------------------------
Respawn(t) ==
    \/ RespawnReap(t) \/ RespawnFail(t) \/ RespawnLaunch(t) \/ RespawnInstall(t)
    \/ RespawnRollback(t) \/ RespawnArm(t)

Submit(t) ==
    \/ Flush(t) \/ SubmitCapture(t) \/ Keepalive(t) \/ SubmitCommit(t) \/ SendBlocks(t)

RouteEvent(t) == Route(t) \/ RouteSetExited(t) \/ RestartFromDeath(t)

Close(t) ==
    \/ CloseBegin(t) \/ CloseFindsOpen(t) \/ CloseStopChannel(t) \/ CloseWait(t)
    \/ CloseSetExited(t) \/ CloseEndPrompt(t) \/ ClosePushEnded(t) \/ CloseHandle(t)

Readpump(n) ==
    \/ PumpTurnEnded(n) \/ PumpClosed(n) \/ PumpPushEnded(n) \/ PumpLifecycle(n)
    \/ PumpAgentEvent(n) \/ PumpStop(n)

Next ==
    \/ \E t \in Thread : \/ Spawn(t) \/ Respawn(t) \/ Submit(t) \/ RouteEvent(t)
                         \/ CloseAgent(t) \/ Close(t) \/ CloseAgentSetExited(t)
                         \/ ResetClose(t) \/ ResetRearm(t)
    \/ \E n \in 1..Len(pump) : Readpump(n)
    \/ \E b \in Bridge : BridgeExit(b)

Spec == Init /\ [][Next]_vars

\* The Go scheduler runs every goroutine that can go on, and a spawn ends.
\* A select chooses at random among its ready cases, so a readpump whose stop
\* channel is closed stops in the end: strong fairness.  No message, crash,
\* /close or /new has to come.
FairSpec ==
    /\ Spec
    /\ \A t \in Thread : WF_vars(Respawn(t) \/ Submit(t) \/ RouteEvent(t) \/ Close(t)
                                   \/ ResetRearm(t))
    /\ \A n \in 1..MaxBridges : /\ WF_vars(n \in 1..Len(pump) /\ Readpump(n))
                                /\ SF_vars(n \in 1..Len(pump) /\ PumpStop(n))

-----------------------------------------------------------------------------
TypeOK ==
    /\ handle \in Bridge \cup {None} /\ pid \in Bridge \cup {None}
    /\ stat \in {"Detached", "Running", "Exited"}
    /\ closedByUser \in BOOLEAN /\ ready \in BOOLEAN /\ readpumpStarted \in BOOLEAN
    /\ current \in 0..Len(pump) /\ stopClosed \subseteq 1..Len(pump)
    /\ pump \in Seq([at : {"read", "ended", "died", "lifecycle", "done"},
                     bridge : Bridge \cup {None}, stop : 1..Len(pump)])
    /\ eventQueue \in Seq({"PromptEnded", "Exited"}) /\ Len(eventQueue) <= EventCap
    /\ proc \in [Bridge -> {"unborn", "live", "dead"}]
    /\ go \in [Thread -> [at : Steps, held : Bridge \cup {None}, fresh : Bridge \cup {None},
                          wasRunning : BOOLEAN, ret : {"idle", "flush", "commit"},
                          chan : 0..Len(pump), grace : BOOLEAN]]
    /\ used \in [Input -> Nat]

\* No goroutine is in the middle of a respawn, a /close or a /new.
Settled ==
    \A t \in Thread : go[t].at \notin RespawnSteps \cup CloseSteps
                                        \cup {"setexited", "restart", "rearm"}

(***************************************************************************)
(* A /close is not undone by a death, a recovery or a spawn that was under *)
(* way when it came (closedByUser, session.go:147 and 1143): when they     *)
(* have all settled, the session's bridge is dead, unless a later message  *)
(* asked for it.                                                           *)
(***************************************************************************)
ClosedStaysClosed == closedByUser /\ Settled => ~Live(handle)

(***************************************************************************)
(* Every live bridge is the session's, or is in the hands of a goroutine   *)
(* that will install or close it.  The contract of respawn (session.go     *)
(* 1060) is that the caller closes any previous handle first.              *)
(***************************************************************************)
Reachable ==
    {handle} \cup {go[t].fresh : t \in {u \in Thread : go[u].at \in {"install", "rollback"}}}
             \cup {go[t].held  : t \in {u \in Thread : go[u].at \in CloseSteps}}

NoBridgeLeaked == \A b \in Bridge : proc[b] = "live" => b \in Reachable

(***************************************************************************)
(* RestartFromDeath "re-arms the readpump" (session.go:1664), and respawn  *)
(* starts one "after handle is set" (1189): when nothing is under way and  *)
(* every death has been reported and routed, the live bridge of a running  *)
(* session has a readpump.                                                 *)
(***************************************************************************)
Reported == \A n \in 1..Len(pump) : \/ pump[n].at = "done"
                                    \/ pump[n].at = "read" /\ Live(pump[n].bridge)

ReadBy(b) == \E n \in 1..Len(pump) : pump[n].at = "read" /\ pump[n].bridge = b

BridgeIsRead ==
    Settled /\ Reported /\ eventQueue = <<>> /\ stat = "Running" /\ Live(handle)
        => ReadBy(handle)

(***************************************************************************)
(* "Idempotent" (session.go:1585): closing twice closes no channel twice,  *)
(* which would panic.                                                      *)
(***************************************************************************)
NoPanic == \A t \in Closer : go[t].at = "closestop" => go[t].chan \notin stopClosed

(***************************************************************************)
(* "After successful recovery, Keepalive returns nil and Submit proceeds   *)
(* with SendBlocks on the fresh transport" (session.go:1303).              *)
(***************************************************************************)
SendsOnFreshTransport ==
    \A t \in Thread : go[t].at = "send" /\ go[t].ret = "commit" /\ Live(handle)
                        => go[t].held = handle

(***************************************************************************)
(* Close returns: "force the readpump out so eventQueue push can't wedge"  *)
(* (session.go:1622).                                                      *)
(***************************************************************************)
CloseReturns == \A t \in Closer : go[t].at = "close" ~> go[t].at \in {"final", "idle"}
=============================================================================
