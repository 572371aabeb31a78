------------------------ MODULE AgentSession_proofs ------------------------
(***************************************************************************)
(* Proofs about AgentSession for every set of goroutines, every capacity   *)
(* of eventQueue and every bound on bridges and inputs.                    *)
(***************************************************************************)
EXTENDS AgentSession, TLAPS

\* The conjuncts of TypeOK on goroutines, readpumps and fields.
Locals(n) == [at : Steps, held : Bridge \cup {None}, fresh : Bridge \cup {None},
              wasRunning : BOOLEAN, ret : {"idle", "flush", "commit"},
              chan : 0..n, grace : BOOLEAN]
PumpState(n) == [at : {"read", "ended", "died", "lifecycle", "done"},
                 bridge : Bridge \cup {None}, stop : 1..n]
LocalsOK == go \in [Thread -> Locals(Len(pump))]
PumpOK == pump \in Seq(PumpState(Len(pump)))
FieldsOK ==
    /\ handle \in Bridge \cup {None} /\ pid \in Bridge \cup {None}
    /\ stat \in {"Detached", "Running", "Exited"}
    /\ closedByUser \in BOOLEAN /\ ready \in BOOLEAN /\ readpumpStarted \in BOOLEAN
    /\ current \in 0..Len(pump) /\ stopClosed \subseteq 1..Len(pump)
    /\ eventQueue \in Seq({"PromptEnded", "Exited"}) /\ Len(eventQueue) <= EventCap
    /\ proc \in [Bridge -> {"unborn", "live", "dead"}]
    /\ used \in [Input -> Nat]

\* A readpump has a stop channel, and a Close closes only one that it has captured.
PumpNamed == pump # <<>> => current # None
CloseNamed == \A t \in Thread : go[t].at = "closestop" => go[t].chan # None
Typed == FieldsOK /\ LocalsOK /\ PumpOK /\ PumpNamed /\ CloseNamed

\* A handle, and a bridge about to be installed or rolled back, is a process that was
\* started.
Born ==
    /\ handle # None => proc[handle] # "unborn"
    /\ \A t \in Thread : go[t].at \in {"install", "rollback"}
                            => go[t].fresh # None /\ proc[go[t].fresh] # "unborn"

\* While the session is closed, its bridge is dead or a Close has captured it and has
\* not killed it yet: nobody installs a bridge in a closed session, and the message
\* that reopens it clears the mark first.
CloseSettles == {"stop", "closestop", "wait", "exit", "end", "push", "kill"}
CloserHolds ==
    closedByUser /\ Live(handle)
    => \E t \in Thread : go[t].at \in CloseSettles /\ go[t].held = handle

-----------------------------------------------------------------------------
(* Goroutines.                                                              *)

LEMMA StepNames ==
    /\ {"respawn", "spawn", "install", "rollback", "arm", "stop", "closestop", "wait", "exit",
        "end", "push", "kill", "final", "flush", "submit", "keepalive", "commit", "send",
        "idle", "setexited", "restart", "close", "rearm"} \subseteq Steps
BY DEF Steps, RespawnSteps, CloseSteps, SubmitSteps

LEMMA LocalsUpdate ==
    ASSUME LocalsOK, NEW t \in Thread, NEW l \in Locals(Len(pump')),
           go' = [go EXCEPT ![t] = l],
           \A u \in Locals(Len(pump)) : u \in Locals(Len(pump'))
    PROVE  LocalsOK'
BY DEF LocalsOK

LEMMA LocalsKept ==
    ASSUME LocalsOK, NEW t \in Thread, NEW l \in Locals(Len(pump)),
           go' = [go EXCEPT ![t] = l], UNCHANGED pump
    PROVE  LocalsOK'
BY DEF LocalsOK

LEMMA GotoOK ==
    ASSUME LocalsOK, NEW t \in Thread, NEW s \in Steps, Goto(t, s), UNCHANGED pump
    PROVE  LocalsOK'
<1>1. Rest \in Locals(Len(pump))
  BY StepNames DEF Rest, Locals, None
<1>2. [go[t] EXCEPT !.at = s] \in Locals(Len(pump))
  BY DEF Locals, LocalsOK
<1> QED
  BY <1>1, <1>2, LocalsKept DEF Goto

LEMMA LocalsStep ==
    ASSUME FieldsOK, LocalsOK, [Next]_vars,
           Len(pump') \in Nat, Len(pump') >= Len(pump)
    PROVE  LocalsOK'
<1>1. ASSUME NEW t \in Thread, Spawn(t) PROVE LocalsOK'
  <2>1. [go[t] EXCEPT !.at = "respawn", !.ret = "flush"] \in Locals(Len(pump))
    BY StepNames DEF Locals, LocalsOK, FieldsOK
  <2>2. UNCHANGED pump
    BY <1>1 DEF Spawn, pumpVars
  <2>3. CASE go' = [go EXCEPT ![t].at = "respawn", ![t].ret = "flush"]
    BY <2>1, <2>2, <2>3, LocalsKept
  <2>4. CASE \E s \in Steps : Goto(t, s)
    BY <2>2, <2>4, GotoOK
  <2> QED
    BY <1>1, <2>3, <2>4, StepNames DEF Spawn
<1>2. ASSUME NEW t \in Thread, RespawnReap(t) PROVE LocalsOK'
  <2>1. [go[t] EXCEPT !.at = "spawn", !.wasRunning = (stat = "Running")] \in Locals(Len(pump))
    BY StepNames DEF Locals, LocalsOK, FieldsOK
  <2> QED
    BY <1>2, <2>1, LocalsKept DEF RespawnReap, pumpVars, fields
<1>3. ASSUME NEW t \in Thread, RespawnFail(t) PROVE LocalsOK'
  BY <1>3, GotoOK, StepNames DEF RespawnFail, pumpVars
<1>4. ASSUME NEW t \in Thread, RespawnLaunch(t) PROVE LocalsOK'
  <2>1. PICK b \in Bridge : go' = [go EXCEPT ![t].at = "install", ![t].fresh = b]
    BY <1>4 DEF RespawnLaunch
  <2>2. [go[t] EXCEPT !.at = "install", !.fresh = b] \in Locals(Len(pump))
    BY StepNames DEF Locals, LocalsOK
  <2>3. UNCHANGED pump
    BY <1>4 DEF RespawnLaunch, pumpVars
  <2> QED
    BY <2>1, <2>2, <2>3, LocalsKept
<1>5. ASSUME NEW t \in Thread, RespawnInstall(t) PROVE LocalsOK'
  BY <1>5, GotoOK, StepNames DEF RespawnInstall, pumpVars
<1>6. ASSUME NEW t \in Thread, RespawnRollback(t) PROVE LocalsOK'
  <2>1. go[t].ret \in Steps
    BY StepNames DEF LocalsOK, Locals
  <2> QED
    BY <1>6, <2>1, GotoOK DEF RespawnRollback, pumpVars, fields
<1>7. ASSUME NEW t \in Thread, RespawnArm(t) PROVE LocalsOK'
  <2>1. \A u \in Locals(Len(pump)) : u \in Locals(Len(pump'))
    BY DEF Locals, FieldsOK
  <2>2. Rest \in Locals(Len(pump')) /\ go[t].ret \in Steps
    BY StepNames DEF Rest, Locals, None, LocalsOK
  <2>3. [go[t] EXCEPT !.at = go[t].ret] \in Locals(Len(pump))
    BY <2>2 DEF Locals, LocalsOK
  <2> QED
    BY <1>7, <2>1, <2>2, <2>3, LocalsUpdate DEF RespawnArm, Goto
<1>8. ASSUME NEW t \in Thread, Flush(t) PROVE LocalsOK'
  <2>1. [Rest EXCEPT !.at = "submit"] \in Locals(Len(pump))
    <3>1. Rest \in Locals(Len(pump))
      BY StepNames DEF Rest, Locals, None
    <3> QED
      BY <3>1, StepNames DEF Locals
  <2> QED
    BY <1>8, <2>1, LocalsKept, GotoOK, StepNames DEF Flush, pumpVars, fields
<1>9. ASSUME NEW t \in Thread, SubmitCapture(t) PROVE LocalsOK'
  <2>1. [go[t] EXCEPT !.at = "keepalive", !.held = handle] \in Locals(Len(pump))
    BY StepNames DEF Locals, LocalsOK, FieldsOK
  <2>2. UNCHANGED pump
    BY <1>9 DEF SubmitCapture, pumpVars, fields
  <2>3. CASE go' = [go EXCEPT ![t].at = "keepalive", ![t].held = handle]
    BY <2>1, <2>2, <2>3, LocalsKept
  <2>4. CASE \E s \in Steps : Goto(t, s)
    BY <2>2, <2>4, GotoOK
  <2> QED
    BY <1>9, <2>3, <2>4, StepNames DEF SubmitCapture
<1>10. ASSUME NEW t \in Thread, Keepalive(t) PROVE LocalsOK'
  <2>1. [go[t] EXCEPT !.at = "respawn", !.ret = "commit"] \in Locals(Len(pump))
    BY StepNames DEF Locals, LocalsOK, FieldsOK
  <2>2. UNCHANGED pump
    BY <1>10 DEF Keepalive, pumpVars
  <2>3. CASE go' = [go EXCEPT ![t].at = "respawn", ![t].ret = "commit"]
    BY <2>1, <2>2, <2>3, LocalsKept
  <2>4. CASE \E s \in Steps : Goto(t, s)
    BY <2>2, <2>4, GotoOK
  <2> QED
    BY <1>10, <2>3, <2>4, StepNames DEF Keepalive
<1>11. ASSUME NEW t \in Thread, SubmitCommit(t) PROVE LocalsOK'
  BY <1>11, GotoOK, StepNames DEF SubmitCommit, pumpVars
<1>12. ASSUME NEW t \in Thread, SendBlocks(t) PROVE LocalsOK'
  BY <1>12, GotoOK, StepNames DEF SendBlocks, pumpVars
<1>13. ASSUME NEW t \in Thread, Route(t) PROVE LocalsOK'
  BY <1>13, GotoOK, StepNames DEF Route, pumpVars, fields
<1>14. ASSUME NEW t \in Thread, RouteSetExited(t) PROVE LocalsOK'
  BY <1>14, GotoOK, StepNames DEF RouteSetExited, pumpVars
<1>15. ASSUME NEW t \in Thread, RestartFromDeath(t) PROVE LocalsOK'
  <2>1. [go[t] EXCEPT !.at = IF closedByUser THEN "flush" ELSE "respawn",
  !.ret = "flush"] \in Locals(Len(pump))
    BY StepNames DEF Locals, LocalsOK, FieldsOK
  <2> QED
    BY <1>15, <2>1, LocalsKept DEF RestartFromDeath, pumpVars, fields
<1>16. ASSUME NEW t \in Thread, CloseAgent(t) PROVE LocalsOK'
  <2>1. [go[t] EXCEPT !.at = "close", !.grace = TRUE] \in Locals(Len(pump))
    BY StepNames DEF Locals, LocalsOK, FieldsOK
  <2> QED
    BY <1>16, <2>1, LocalsKept DEF CloseAgent, pumpVars, fields
<1>17. ASSUME NEW t \in Thread, CloseBegin(t) PROVE LocalsOK'
  <2>1. [go[t] EXCEPT !.at = "stop", !.held = handle, !.chan = current] \in Locals(Len(pump))
    BY StepNames DEF Locals, LocalsOK, FieldsOK
  <2> QED
    BY <1>17, <2>1, LocalsKept DEF CloseBegin, pumpVars
<1>18. ASSUME NEW t \in Thread, CloseFindsOpen(t) PROVE LocalsOK'
  BY <1>18, GotoOK, StepNames DEF CloseFindsOpen, pumpVars, fields
<1>19. ASSUME NEW t \in Thread, CloseStopChannel(t) PROVE LocalsOK'
  BY <1>19, GotoOK, StepNames DEF CloseStopChannel, fields
<1>20. ASSUME NEW t \in Thread, CloseWait(t) PROVE LocalsOK'
  BY <1>20, GotoOK, StepNames DEF CloseWait, fields
<1>21. ASSUME NEW t \in Thread, CloseSetExited(t) PROVE LocalsOK'
  BY <1>21, GotoOK, StepNames DEF CloseSetExited, pumpVars
<1>22. ASSUME NEW t \in Thread, CloseEndPrompt(t) PROVE LocalsOK'
  <2>1. [go[t] EXCEPT !.at = "push", !.chan = current] \in Locals(Len(pump))
    BY StepNames DEF Locals, LocalsOK, FieldsOK
  <2> QED
    BY <1>22, <2>1, LocalsKept DEF CloseEndPrompt, pumpVars
<1>23. ASSUME NEW t \in Thread, ClosePushEnded(t) PROVE LocalsOK'
  BY <1>23, GotoOK, StepNames DEF ClosePushEnded, pumpVars, fields
<1>24. ASSUME NEW t \in Thread, CloseHandle(t) PROVE LocalsOK'
  BY <1>24, GotoOK, StepNames DEF CloseHandle, pumpVars, fields
<1>25. ASSUME NEW t \in Thread, CloseAgentSetExited(t) PROVE LocalsOK'
  <2>1. [go[t] EXCEPT !.grace = FALSE] \in Locals(Len(pump))
    BY StepNames DEF Locals, LocalsOK, FieldsOK
  <2>2. UNCHANGED pump
    BY <1>25 DEF CloseAgentSetExited, pumpVars
  <2>3. CASE go' = [go EXCEPT ![t].grace = FALSE]
    BY <2>1, <2>2, <2>3, LocalsKept
  <2>4. CASE \E s \in Steps : Goto(t, s)
    BY <2>2, <2>4, GotoOK
  <2> QED
    BY <1>25, <2>3, <2>4, StepNames DEF CloseAgentSetExited
<1>26. ASSUME NEW t \in Thread, ResetClose(t) PROVE LocalsOK'
  BY <1>26, GotoOK, StepNames DEF ResetClose, pumpVars, fields
<1>27. ASSUME NEW t \in Thread, ResetRearm(t) PROVE LocalsOK'
  BY <1>27, GotoOK, StepNames DEF ResetRearm, fields
<1>28. ASSUME UNCHANGED go PROVE LocalsOK'
  BY <1>28 DEF LocalsOK, Locals, FieldsOK
<1>29. ASSUME NEW n \in 1..Len(pump), Readpump(n) PROVE UNCHANGED go
  BY <1>29 DEF Readpump, PumpTurnEnded, PumpClosed, PumpPushEnded, PumpLifecycle,
     PumpAgentEvent, PumpStop
<1>30. ASSUME NEW b \in Bridge, BridgeExit(b) PROVE UNCHANGED go
  BY <1>30 DEF BridgeExit
<1> QED
  BY <1>1, <1>2, <1>3, <1>4, <1>5, <1>6, <1>7, <1>8, <1>9, <1>10, <1>11, <1>12, <1>13, <1>14,
     <1>15, <1>16, <1>17, <1>18, <1>19, <1>20, <1>21, <1>22, <1>23, <1>24, <1>25, <1>26,
     <1>27, <1>28, <1>29, <1>30
     DEF Next, Respawn, Submit, RouteEvent, Close, vars

-----------------------------------------------------------------------------
(* Readpumps.                                                               *)

LEMMA SeqUpdate ==
    ASSUME NEW S, NEW q \in Seq(S), NEW n \in 1..Len(q), NEW x \in S
    PROVE  [q EXCEPT ![n] = x] \in Seq(S) /\ Len([q EXCEPT ![n] = x]) = Len(q)
OBVIOUS

LEMMA SeqAppend ==
    ASSUME NEW S, NEW R, S \subseteq R, NEW q \in Seq(S), NEW x \in R
    PROVE  Append(q, x) \in Seq(R) /\ Len(Append(q, x)) = Len(q) + 1
<1>1. q \in Seq(R)
  OBVIOUS
<1> QED
  BY <1>1

LEMMA PumpUpdate ==
    ASSUME PumpOK, PumpNamed, NEW n \in 1..Len(pump), NEW x \in PumpState(Len(pump)),
           pump' = [pump EXCEPT ![n] = x], UNCHANGED current
    PROVE  PumpOK' /\ PumpNamed' /\ Len(pump') = Len(pump) /\ Len(pump) \in Nat
<1>1. pump' \in Seq(PumpState(Len(pump))) /\ Len(pump') = Len(pump) /\ Len(pump) \in Nat
  BY SeqUpdate DEF PumpOK
<1>2. pump # <<>>
  BY DEF PumpOK
<1> QED
  BY <1>1, <1>2 DEF PumpOK, PumpNamed

LEMMA PumpStep ==
    ASSUME FieldsOK, PumpOK, PumpNamed, [Next]_vars
    PROVE  /\ PumpOK' /\ PumpNamed'
           /\ Len(pump) \in Nat /\ Len(pump') \in Nat /\ Len(pump') >= Len(pump)
<1> DEFINE Goal == /\ PumpOK' /\ PumpNamed'
                   /\ Len(pump) \in Nat /\ Len(pump') \in Nat /\ Len(pump') >= Len(pump)
<1>1. Len(pump) \in Nat
  BY DEF PumpOK
<1>2. ASSUME NEW t \in Thread, RespawnArm(t) PROVE Goal
  <2>1. CASE readpumpStarted
    BY <1>1, <1>2, <2>1 DEF RespawnArm, PumpOK, PumpNamed
  <2>2. CASE ~readpumpStarted
    <3> DEFINE x == [at |-> IF handle = None THEN "done" ELSE "read",
                     bridge |-> handle, stop |-> Len(pump) + 1]
    <3>1. pump' = Append(pump, x) /\ current' = Len(pump) + 1
      BY <1>2, <2>2 DEF RespawnArm
    <3>2. x \in PumpState(Len(pump) + 1)
      BY <1>1 DEF PumpState, FieldsOK
    <3>3. PumpState(Len(pump)) \subseteq PumpState(Len(pump) + 1)
      BY <1>1 DEF PumpState
    <3>4. pump' \in Seq(PumpState(Len(pump) + 1)) /\ Len(pump') = Len(pump) + 1
      <4> HIDE DEF x
      <4> QED
        BY <3>1, <3>2, <3>3, SeqAppend DEF PumpOK
    <3> QED
      BY <1>1, <3>1, <3>4 DEF PumpOK, PumpNamed, None
  <2> QED
    BY <2>1, <2>2
<1>3. ASSUME NEW n \in 1..Len(pump), Readpump(n) PROVE Goal
  <2>1. pump[n] \in PumpState(Len(pump)) /\ pump # <<>>
    BY DEF PumpOK
  <2>2. current \in 1..Len(pump)
    BY <1>1, <2>1 DEF FieldsOK, PumpNamed, None
  <2>3. CASE PumpTurnEnded(n)
    <3> DEFINE x == [pump[n] EXCEPT !.at = "ended", !.stop = current]
    <3>1. x \in PumpState(Len(pump))
      BY <2>1, <2>2 DEF PumpState
    <3>2. pump' = [pump EXCEPT ![n] = x] /\ UNCHANGED current
      BY <2>3 DEF PumpTurnEnded
    <3>3. PumpOK' /\ PumpNamed' /\ Len(pump') = Len(pump)
      <4> HIDE DEF x
      <4> QED
        BY <3>1, <3>2, PumpUpdate
    <3> QED
      BY <1>1, <3>3
  <2>4. CASE PumpClosed(n)
    <3> DEFINE x == [pump[n] EXCEPT !.at = "died", !.stop = current]
    <3>1. x \in PumpState(Len(pump))
      BY <2>1, <2>2 DEF PumpState
    <3>2. pump' = [pump EXCEPT ![n] = x] /\ UNCHANGED current
      BY <2>4 DEF PumpClosed
    <3>3. PumpOK' /\ PumpNamed' /\ Len(pump') = Len(pump)
      <4> HIDE DEF x
      <4> QED
        BY <3>1, <3>2, PumpUpdate
    <3> QED
      BY <1>1, <3>3
  <2>5. CASE PumpPushEnded(n)
    <3> DEFINE x == [pump[n] EXCEPT !.at = IF pump[n].at = "ended" THEN "read" ELSE "lifecycle",
                                  !.stop = current]
    <3>1. x \in PumpState(Len(pump))
      BY <2>1, <2>2 DEF PumpState
    <3>2. pump' = [pump EXCEPT ![n] = x] /\ UNCHANGED current
      BY <2>5 DEF PumpPushEnded
    <3>3. PumpOK' /\ PumpNamed' /\ Len(pump') = Len(pump)
      <4> HIDE DEF x
      <4> QED
        BY <3>1, <3>2, PumpUpdate
    <3> QED
      BY <1>1, <3>3
  <2>6. CASE PumpLifecycle(n)
    <3> DEFINE x == [pump[n] EXCEPT !.at = "done"]
    <3>1. x \in PumpState(Len(pump))
      BY <2>1, <2>2 DEF PumpState
    <3>2. pump' = [pump EXCEPT ![n] = x] /\ UNCHANGED current
      BY <2>6 DEF PumpLifecycle
    <3>3. PumpOK' /\ PumpNamed' /\ Len(pump') = Len(pump)
      <4> HIDE DEF x
      <4> QED
        BY <3>1, <3>2, PumpUpdate
    <3> QED
      BY <1>1, <3>3
  <2>7. CASE PumpAgentEvent(n)
    <3> DEFINE x == [pump[n] EXCEPT !.stop = current]
    <3>1. x \in PumpState(Len(pump))
      BY <2>1, <2>2 DEF PumpState
    <3>2. pump' = [pump EXCEPT ![n] = x] /\ UNCHANGED current
      BY <2>7 DEF PumpAgentEvent
    <3>3. PumpOK' /\ PumpNamed' /\ Len(pump') = Len(pump)
      <4> HIDE DEF x
      <4> QED
        BY <3>1, <3>2, PumpUpdate
    <3> QED
      BY <1>1, <3>3
  <2>8. CASE PumpStop(n)
    <3> DEFINE x == [pump[n] EXCEPT !.at = "done"]
    <3>1. x \in PumpState(Len(pump))
      BY <2>1, <2>2 DEF PumpState
    <3>2. pump' = [pump EXCEPT ![n] = x] /\ UNCHANGED current
      BY <2>8 DEF PumpStop
    <3>3. PumpOK' /\ PumpNamed' /\ Len(pump') = Len(pump)
      <4> HIDE DEF x
      <4> QED
        BY <3>1, <3>2, PumpUpdate
    <3> QED
      BY <1>1, <3>3
  <2> QED
    BY <1>3, <2>3, <2>4, <2>5, <2>6, <2>7, <2>8 DEF Readpump
<1>4. ASSUME UNCHANGED <<current, pump>> PROVE Goal
  BY <1>1, <1>4 DEF PumpOK, PumpNamed
<1>5. ASSUME NEW t \in Thread, Spawn(t) PROVE UNCHANGED <<current, pump>>
  BY <1>5 DEF Spawn, pumpVars
<1>6. ASSUME NEW t \in Thread, RespawnReap(t) PROVE UNCHANGED <<current, pump>>
  BY <1>6 DEF RespawnReap, pumpVars
<1>7. ASSUME NEW t \in Thread, RespawnFail(t) PROVE UNCHANGED <<current, pump>>
  BY <1>7 DEF RespawnFail, pumpVars
<1>8. ASSUME NEW t \in Thread, RespawnLaunch(t) PROVE UNCHANGED <<current, pump>>
  BY <1>8 DEF RespawnLaunch, pumpVars
<1>9. ASSUME NEW t \in Thread, RespawnInstall(t) PROVE UNCHANGED <<current, pump>>
  BY <1>9 DEF RespawnInstall, pumpVars
<1>10. ASSUME NEW t \in Thread, RespawnRollback(t) PROVE UNCHANGED <<current, pump>>
  BY <1>10 DEF RespawnRollback, pumpVars
<1>11. ASSUME NEW t \in Thread, Flush(t) PROVE UNCHANGED <<current, pump>>
  BY <1>11 DEF Flush, pumpVars
<1>12. ASSUME NEW t \in Thread, SubmitCapture(t) PROVE UNCHANGED <<current, pump>>
  BY <1>12 DEF SubmitCapture, pumpVars
<1>13. ASSUME NEW t \in Thread, Keepalive(t) PROVE UNCHANGED <<current, pump>>
  BY <1>13 DEF Keepalive, pumpVars
<1>14. ASSUME NEW t \in Thread, SubmitCommit(t) PROVE UNCHANGED <<current, pump>>
  BY <1>14 DEF SubmitCommit, pumpVars
<1>15. ASSUME NEW t \in Thread, SendBlocks(t) PROVE UNCHANGED <<current, pump>>
  BY <1>15 DEF SendBlocks, pumpVars
<1>16. ASSUME NEW t \in Thread, Route(t) PROVE UNCHANGED <<current, pump>>
  BY <1>16 DEF Route, pumpVars
<1>17. ASSUME NEW t \in Thread, RouteSetExited(t) PROVE UNCHANGED <<current, pump>>
  BY <1>17 DEF RouteSetExited, pumpVars
<1>18. ASSUME NEW t \in Thread, RestartFromDeath(t) PROVE UNCHANGED <<current, pump>>
  BY <1>18 DEF RestartFromDeath, pumpVars
<1>19. ASSUME NEW t \in Thread, CloseAgent(t) PROVE UNCHANGED <<current, pump>>
  BY <1>19 DEF CloseAgent, pumpVars
<1>20. ASSUME NEW t \in Thread, CloseBegin(t) PROVE UNCHANGED <<current, pump>>
  BY <1>20 DEF CloseBegin, pumpVars
<1>21. ASSUME NEW t \in Thread, CloseFindsOpen(t) PROVE UNCHANGED <<current, pump>>
  BY <1>21 DEF CloseFindsOpen, pumpVars
<1>22. ASSUME NEW t \in Thread, CloseStopChannel(t) PROVE UNCHANGED <<current, pump>>
  BY <1>22 DEF CloseStopChannel
<1>23. ASSUME NEW t \in Thread, CloseWait(t) PROVE UNCHANGED <<current, pump>>
  BY <1>23 DEF CloseWait
<1>24. ASSUME NEW t \in Thread, CloseSetExited(t) PROVE UNCHANGED <<current, pump>>
  BY <1>24 DEF CloseSetExited, pumpVars
<1>25. ASSUME NEW t \in Thread, CloseEndPrompt(t) PROVE UNCHANGED <<current, pump>>
  BY <1>25 DEF CloseEndPrompt, pumpVars
<1>26. ASSUME NEW t \in Thread, ClosePushEnded(t) PROVE UNCHANGED <<current, pump>>
  BY <1>26 DEF ClosePushEnded, pumpVars
<1>27. ASSUME NEW t \in Thread, CloseHandle(t) PROVE UNCHANGED <<current, pump>>
  BY <1>27 DEF CloseHandle, pumpVars
<1>28. ASSUME NEW t \in Thread, CloseAgentSetExited(t) PROVE UNCHANGED <<current, pump>>
  BY <1>28 DEF CloseAgentSetExited, pumpVars
<1>29. ASSUME NEW t \in Thread, ResetClose(t) PROVE UNCHANGED <<current, pump>>
  BY <1>29 DEF ResetClose, pumpVars
<1>30. ASSUME NEW t \in Thread, ResetRearm(t) PROVE UNCHANGED <<current, pump>>
  BY <1>30 DEF ResetRearm
<1>31. ASSUME NEW b \in Bridge, BridgeExit(b) PROVE UNCHANGED <<current, pump>>
  BY <1>31 DEF BridgeExit, pumpVars
<1> QED
  BY <1>2, <1>3, <1>4, <1>5, <1>6, <1>7, <1>8, <1>9, <1>10, <1>11, <1>12, <1>13, <1>14, <1>15,
     <1>16, <1>17, <1>18, <1>19, <1>20, <1>21, <1>22, <1>23, <1>24, <1>25, <1>26, <1>27,
     <1>28, <1>29, <1>30, <1>31
     DEF Next, Respawn, Submit, RouteEvent, Close, vars, pumpVars

-----------------------------------------------------------------------------
(* Fields.                                                                  *)

LEMMA PushOK ==
    ASSUME FieldsOK, NEW event \in {"PromptEnded", "Exited"}, NEW stop, Push(event, stop)
    PROVE  eventQueue' \in Seq({"PromptEnded", "Exited"}) /\ Len(eventQueue') <= EventCap
<1>1. EventCap \in Nat
  BY SessionAssumption
<1>2. CASE eventQueue' = Append(eventQueue, event) /\ Len(eventQueue) < EventCap
  BY <1>1, <1>2 DEF FieldsOK
<1>3. CASE UNCHANGED eventQueue
  BY <1>3 DEF FieldsOK
<1> QED
  BY <1>2, <1>3 DEF Push

LEMMA FieldsStep ==
    ASSUME FieldsOK, LocalsOK, PumpOK, PumpNamed, CloseNamed, [Next]_vars, PumpOK',
           Len(pump) \in Nat, Len(pump') \in Nat, Len(pump') >= Len(pump)
    PROVE  FieldsOK' 
<1>1. ASSUME NEW t \in Thread, Spawn(t) PROVE FieldsOK'
  <2>1. /\ UNCHANGED <<handle, pid, stat, ready, pumpVars, eventQueue, proc>>
        /\ used' = [used EXCEPT !["message"] = used["message"] + 1]
    BY <1>1 DEF Spawn, Use
  <2>2. closedByUser' \in BOOLEAN
    BY <1>1 DEF Spawn, FieldsOK
  <2> QED
    BY <2>1, <2>2 DEF FieldsOK, pumpVars, Input
<1>2. ASSUME NEW t \in Thread, RespawnReap(t) PROVE FieldsOK'
  BY <1>2 DEF RespawnReap, FieldsOK, LocalsOK, Locals, Killed, fields, pumpVars, Bridge, None,
     Input
<1>3. ASSUME NEW t \in Thread, RespawnFail(t) PROVE FieldsOK'
  BY <1>3 DEF RespawnFail, FieldsOK, LocalsOK, Locals, pumpVars, Bridge, None, Input
<1>4. ASSUME NEW t \in Thread, RespawnLaunch(t) PROVE FieldsOK'
  BY <1>4 DEF RespawnLaunch, FieldsOK, LocalsOK, Locals, fields, pumpVars, Bridge, None, Input
<1>5. ASSUME NEW t \in Thread, RespawnInstall(t) PROVE FieldsOK'
  BY <1>5 DEF RespawnInstall, FieldsOK, LocalsOK, Locals, pumpVars, Bridge, None, Input
<1>6. ASSUME NEW t \in Thread, RespawnRollback(t) PROVE FieldsOK'
  BY <1>6 DEF RespawnRollback, FieldsOK, LocalsOK, Locals, Killed, fields, pumpVars, Bridge,
     None, Input
<1>7. ASSUME NEW t \in Thread, RespawnArm(t) PROVE FieldsOK'
  BY <1>7 DEF RespawnArm, FieldsOK, LocalsOK, Locals, PumpOK, PumpNamed, Bridge, None, Input
<1>8. ASSUME NEW t \in Thread, Flush(t) PROVE FieldsOK'
  BY <1>8 DEF Flush, FieldsOK, LocalsOK, Locals, fields, pumpVars, Bridge, None, Input
<1>9. ASSUME NEW t \in Thread, SubmitCapture(t) PROVE FieldsOK'
  BY <1>9 DEF SubmitCapture, FieldsOK, LocalsOK, Locals, fields, pumpVars, Bridge, None, Input
<1>10. ASSUME NEW t \in Thread, Keepalive(t) PROVE FieldsOK'
  BY <1>10 DEF Keepalive, FieldsOK, LocalsOK, Locals, Live, Killed, pumpVars, Bridge, None,
     Input
<1>11. ASSUME NEW t \in Thread, SubmitCommit(t) PROVE FieldsOK'
  BY <1>11 DEF SubmitCommit, FieldsOK, LocalsOK, Locals, pumpVars, Bridge, None, Input
<1>12. ASSUME NEW t \in Thread, SendBlocks(t) PROVE FieldsOK'
  BY <1>12 DEF SendBlocks, FieldsOK, LocalsOK, Locals, Live, pumpVars, Bridge, None, Input
<1>13. ASSUME NEW t \in Thread, Route(t) PROVE FieldsOK'
  <2>1. eventQueue' \in Seq({"PromptEnded", "Exited"}) /\ Len(eventQueue') <= Len(eventQueue)
    BY <1>13 DEF Route, FieldsOK
  <2>2. Len(eventQueue') <= EventCap
    BY <2>1, SessionAssumption DEF FieldsOK
  <2> QED
    BY <1>13, <2>1, <2>2 DEF Route, FieldsOK, fields, pumpVars
<1>14. ASSUME NEW t \in Thread, RouteSetExited(t) PROVE FieldsOK'
  BY <1>14 DEF RouteSetExited, FieldsOK, LocalsOK, Locals, SetExited, pumpVars, Bridge, None,
     Input
<1>15. ASSUME NEW t \in Thread, RestartFromDeath(t) PROVE FieldsOK'
  BY <1>15 DEF RestartFromDeath, FieldsOK, LocalsOK, Locals, fields, pumpVars, Bridge, None,
     Input
<1>16. ASSUME NEW t \in Thread, CloseAgent(t) PROVE FieldsOK'
  BY <1>16 DEF CloseAgent, FieldsOK, LocalsOK, Locals, Use, fields, pumpVars, Bridge, None,
     Input
<1>17. ASSUME NEW t \in Thread, CloseBegin(t) PROVE FieldsOK'
  BY <1>17 DEF CloseBegin, FieldsOK, LocalsOK, Locals, pumpVars, Bridge, None, Input
<1>18. ASSUME NEW t \in Thread, CloseFindsOpen(t) PROVE FieldsOK'
  BY <1>18 DEF CloseFindsOpen, FieldsOK, LocalsOK, Locals, fields, pumpVars, Bridge, None, Input
<1>19. ASSUME NEW t \in Thread, CloseStopChannel(t) PROVE FieldsOK'
  <2>1. go[t].chan \in 1..Len(pump)
    BY <1>19 DEF CloseStopChannel, LocalsOK, Locals, CloseNamed, None
  <2> QED
    BY <1>19, <2>1 DEF CloseStopChannel, FieldsOK, fields
<1>20. ASSUME NEW t \in Thread, CloseWait(t) PROVE FieldsOK'
  BY <1>20 DEF CloseWait, FieldsOK, LocalsOK, Locals, fields, Bridge, None, Input
<1>21. ASSUME NEW t \in Thread, CloseSetExited(t) PROVE FieldsOK'
  BY <1>21 DEF CloseSetExited, FieldsOK, LocalsOK, Locals, SetExited, pumpVars, Bridge, None,
     Input
<1>22. ASSUME NEW t \in Thread, CloseEndPrompt(t) PROVE FieldsOK'
  BY <1>22 DEF CloseEndPrompt, FieldsOK, LocalsOK, Locals, pumpVars, Bridge, None, Input
<1>23. ASSUME NEW t \in Thread, ClosePushEnded(t) PROVE FieldsOK'
  BY <1>23, PushOK DEF ClosePushEnded, FieldsOK, LocalsOK, Locals, fields, pumpVars, Bridge,
     None, Input
<1>24. ASSUME NEW t \in Thread, CloseHandle(t) PROVE FieldsOK'
  BY <1>24 DEF CloseHandle, FieldsOK, LocalsOK, Locals, Killed, fields, pumpVars, Bridge,
     None, Input
<1>25. ASSUME NEW t \in Thread, CloseAgentSetExited(t) PROVE FieldsOK'
  BY <1>25 DEF CloseAgentSetExited, FieldsOK, LocalsOK, Locals, SetExited, pumpVars, Bridge,
     None, Input
<1>26. ASSUME NEW t \in Thread, ResetClose(t) PROVE FieldsOK'
  BY <1>26 DEF ResetClose, FieldsOK, LocalsOK, Locals, Use, Killed, fields, pumpVars, Bridge,
     None, Input
<1>27. ASSUME NEW t \in Thread, ResetRearm(t) PROVE FieldsOK'
  BY <1>27 DEF ResetRearm, FieldsOK, LocalsOK, Locals, fields, Bridge, None, Input
<1>28. ASSUME NEW n \in 1..Len(pump), PumpTurnEnded(n) PROVE FieldsOK'
  BY <1>28 DEF PumpTurnEnded, FieldsOK, Live, Bridge, None, Input
<1>29. ASSUME NEW n \in 1..Len(pump), PumpClosed(n) PROVE FieldsOK'
  BY <1>29 DEF PumpClosed, FieldsOK, Live, Bridge, None, Input
<1>30. ASSUME NEW n \in 1..Len(pump), PumpPushEnded(n) PROVE FieldsOK'
  BY <1>30, PushOK DEF PumpPushEnded, FieldsOK, fields, Bridge, None, Input
<1>31. ASSUME NEW n \in 1..Len(pump), PumpLifecycle(n) PROVE FieldsOK'
  BY <1>31, PushOK DEF PumpLifecycle, FieldsOK, fields, Bridge, None, Input
<1>32. ASSUME NEW n \in 1..Len(pump), PumpAgentEvent(n) PROVE FieldsOK'
  BY <1>32 DEF PumpAgentEvent, FieldsOK, Live, fields, Bridge, None, Input
<1>33. ASSUME NEW n \in 1..Len(pump), PumpStop(n) PROVE FieldsOK'
  BY <1>33 DEF PumpStop, FieldsOK, fields, Bridge, None, Input
<1>34. ASSUME NEW b \in Bridge, BridgeExit(b) PROVE FieldsOK'
  BY <1>34 DEF BridgeExit, FieldsOK, Use, Live, Killed, fields, pumpVars, Bridge, None, Input
<1>35. CASE UNCHANGED vars
  BY <1>35 DEF vars, FieldsOK, Use, Live, Killed, SetExited, fields, pumpVars, Bridge, None,
     Input
<1> QED
  BY <1>1, <1>2, <1>3, <1>4, <1>5, <1>6, <1>7, <1>8, <1>9, <1>10, <1>11, <1>12, <1>13, <1>14,
     <1>15, <1>16, <1>17, <1>18, <1>19, <1>20, <1>21, <1>22, <1>23, <1>24, <1>25, <1>26,
     <1>27, <1>28, <1>29, <1>30, <1>31, <1>32, <1>33, <1>34, <1>35
     DEF Next, Respawn, Submit, RouteEvent, Close, Readpump

LEMMA CloseNamedGoto ==
    ASSUME LocalsOK, CloseNamed, NEW t \in Thread, NEW s, s # "closestop", Goto(t, s)
    PROVE  CloseNamed'
BY DEF LocalsOK, Locals, CloseNamed, Goto, Rest

LEMMA CloseNamedStep ==
    ASSUME LocalsOK, CloseNamed, [Next]_vars
    PROVE  CloseNamed'
<1>1. ASSUME NEW t \in Thread, Spawn(t) PROVE CloseNamed'
  BY <1>1, CloseNamedGoto DEF Spawn, CloseNamed, LocalsOK, Locals, Goto, Rest, pumpVars
<1>2. ASSUME NEW t \in Thread, RespawnReap(t) PROVE CloseNamed'
  BY <1>2 DEF RespawnReap, CloseNamed, LocalsOK, fields, pumpVars
<1>3. ASSUME NEW t \in Thread, RespawnFail(t) PROVE CloseNamed'
  BY <1>3, CloseNamedGoto DEF RespawnFail, CloseNamed, LocalsOK, Locals, Goto, Rest, pumpVars
<1>4. ASSUME NEW t \in Thread, RespawnLaunch(t) PROVE CloseNamed'
  BY <1>4 DEF RespawnLaunch, CloseNamed, LocalsOK, fields, pumpVars
<1>5. ASSUME NEW t \in Thread, RespawnInstall(t) PROVE CloseNamed'
  BY <1>5, CloseNamedGoto DEF RespawnInstall, CloseNamed, LocalsOK, Locals, Goto, Rest, pumpVars
<1>6. ASSUME NEW t \in Thread, RespawnRollback(t) PROVE CloseNamed'
  BY <1>6, CloseNamedGoto DEF RespawnRollback, CloseNamed, LocalsOK, Locals, Goto, Rest,
     fields, pumpVars
<1>7. ASSUME NEW t \in Thread, RespawnArm(t) PROVE CloseNamed'
  BY <1>7, CloseNamedGoto DEF RespawnArm, CloseNamed, LocalsOK, Locals, Goto, Rest
<1>8. ASSUME NEW t \in Thread, Flush(t) PROVE CloseNamed'
  BY <1>8 DEF Flush, CloseNamed, LocalsOK, Goto, Rest, fields, pumpVars
<1>9. ASSUME NEW t \in Thread, SubmitCapture(t) PROVE CloseNamed'
  <2>1. CASE Goto(t, "idle")
    BY <2>1, CloseNamedGoto
  <2>2. CASE go' = [go EXCEPT ![t].at = "keepalive", ![t].held = handle]
    BY <2>2 DEF CloseNamed, LocalsOK, Locals
  <2> QED
    BY <1>9, <2>1, <2>2 DEF SubmitCapture
<1>10. ASSUME NEW t \in Thread, Keepalive(t) PROVE CloseNamed'
  BY <1>10, CloseNamedGoto DEF Keepalive, CloseNamed, LocalsOK, Locals, Goto, Rest, pumpVars
<1>11. ASSUME NEW t \in Thread, SubmitCommit(t) PROVE CloseNamed'
  BY <1>11, CloseNamedGoto DEF SubmitCommit, CloseNamed, LocalsOK, Locals, Goto, Rest, pumpVars
<1>12. ASSUME NEW t \in Thread, SendBlocks(t) PROVE CloseNamed'
  BY <1>12, CloseNamedGoto DEF SendBlocks, CloseNamed, LocalsOK, Locals, Goto, Rest, pumpVars
<1>13. ASSUME NEW t \in Thread, Route(t) PROVE CloseNamed'
  BY <1>13, CloseNamedGoto DEF Route, CloseNamed, LocalsOK, Locals, Goto, Rest, fields, pumpVars
<1>14. ASSUME NEW t \in Thread, RouteSetExited(t) PROVE CloseNamed'
  BY <1>14, CloseNamedGoto DEF RouteSetExited, CloseNamed, LocalsOK, Locals, Goto, Rest,
     pumpVars
<1>15. ASSUME NEW t \in Thread, RestartFromDeath(t) PROVE CloseNamed'
  BY <1>15 DEF RestartFromDeath, CloseNamed, LocalsOK, fields, pumpVars
<1>16. ASSUME NEW t \in Thread, CloseAgent(t) PROVE CloseNamed'
  BY <1>16 DEF CloseAgent, CloseNamed, LocalsOK, fields, pumpVars
<1>17. ASSUME NEW t \in Thread, CloseBegin(t) PROVE CloseNamed'
  BY <1>17 DEF CloseBegin, CloseNamed, LocalsOK, pumpVars
<1>18. ASSUME NEW t \in Thread, CloseFindsOpen(t) PROVE CloseNamed'
  BY <1>18 DEF CloseFindsOpen, CloseNamed, LocalsOK, Goto, Rest, fields, pumpVars
<1>19. ASSUME NEW t \in Thread, CloseStopChannel(t) PROVE CloseNamed'
  BY <1>19, CloseNamedGoto DEF CloseStopChannel, CloseNamed, LocalsOK, Locals, Goto, Rest,
     fields
<1>20. ASSUME NEW t \in Thread, CloseWait(t) PROVE CloseNamed'
  BY <1>20, CloseNamedGoto DEF CloseWait, CloseNamed, LocalsOK, Locals, Goto, Rest, fields
<1>21. ASSUME NEW t \in Thread, CloseSetExited(t) PROVE CloseNamed'
  BY <1>21, CloseNamedGoto DEF CloseSetExited, CloseNamed, LocalsOK, Locals, Goto, Rest,
     pumpVars
<1>22. ASSUME NEW t \in Thread, CloseEndPrompt(t) PROVE CloseNamed'
  BY <1>22 DEF CloseEndPrompt, CloseNamed, LocalsOK, pumpVars
<1>23. ASSUME NEW t \in Thread, ClosePushEnded(t) PROVE CloseNamed'
  BY <1>23, CloseNamedGoto DEF ClosePushEnded, CloseNamed, LocalsOK, Locals, Goto, Rest,
     fields, pumpVars
<1>24. ASSUME NEW t \in Thread, CloseHandle(t) PROVE CloseNamed'
  BY <1>24, CloseNamedGoto DEF CloseHandle, CloseNamed, LocalsOK, Locals, Goto, Rest, fields,
     pumpVars
<1>25. ASSUME NEW t \in Thread, CloseAgentSetExited(t) PROVE CloseNamed'
  BY <1>25, CloseNamedGoto DEF CloseAgentSetExited, CloseNamed, LocalsOK, Locals, Goto, Rest,
     pumpVars
<1>26. ASSUME NEW t \in Thread, ResetClose(t) PROVE CloseNamed'
  BY <1>26, CloseNamedGoto DEF ResetClose, CloseNamed, LocalsOK, Locals, Goto, Rest, fields,
     pumpVars
<1>27. ASSUME NEW t \in Thread, ResetRearm(t) PROVE CloseNamed'
  BY <1>27, CloseNamedGoto DEF ResetRearm, CloseNamed, LocalsOK, Locals, Goto, Rest, fields
<1>28. ASSUME NEW n \in 1..Len(pump), PumpTurnEnded(n) PROVE CloseNamed'
  BY <1>28 DEF PumpTurnEnded, CloseNamed, LocalsOK
<1>29. ASSUME NEW n \in 1..Len(pump), PumpClosed(n) PROVE CloseNamed'
  BY <1>29 DEF PumpClosed, CloseNamed, LocalsOK
<1>30. ASSUME NEW n \in 1..Len(pump), PumpPushEnded(n) PROVE CloseNamed'
  BY <1>30 DEF PumpPushEnded, CloseNamed, LocalsOK, fields
<1>31. ASSUME NEW n \in 1..Len(pump), PumpLifecycle(n) PROVE CloseNamed'
  BY <1>31 DEF PumpLifecycle, CloseNamed, LocalsOK, fields
<1>32. ASSUME NEW n \in 1..Len(pump), PumpAgentEvent(n) PROVE CloseNamed'
  BY <1>32 DEF PumpAgentEvent, CloseNamed, LocalsOK, fields
<1>33. ASSUME NEW n \in 1..Len(pump), PumpStop(n) PROVE CloseNamed'
  BY <1>33 DEF PumpStop, CloseNamed, LocalsOK, fields
<1>34. ASSUME NEW b \in Bridge, BridgeExit(b) PROVE CloseNamed'
  BY <1>34 DEF BridgeExit, CloseNamed, LocalsOK, fields, pumpVars
<1>35. CASE UNCHANGED vars
  BY <1>35 DEF vars, CloseNamed, LocalsOK, Goto, Rest, fields, pumpVars
<1> QED
  BY <1>1, <1>2, <1>3, <1>4, <1>5, <1>6, <1>7, <1>8, <1>9, <1>10, <1>11, <1>12, <1>13, <1>14,
     <1>15, <1>16, <1>17, <1>18, <1>19, <1>20, <1>21, <1>22, <1>23, <1>24, <1>25, <1>26,
     <1>27, <1>28, <1>29, <1>30, <1>31, <1>32, <1>33, <1>34, <1>35
     DEF Next, Respawn, Submit, RouteEvent, Close, Readpump


-----------------------------------------------------------------------------
(* What the user has closed.                                                *)

LEMMA BornKept ==
    ASSUME FieldsOK, LocalsOK, Born,
           \A u \in Thread : go'[u].at \in {"install", "rollback"}
                => go[u].at = go'[u].at /\ go[u].fresh = go'[u].fresh,
           handle' \in {handle, None},
           \A b \in Bridge : proc[b] # "unborn" => proc'[b] # "unborn"
    PROVE  Born'
BY DEF FieldsOK, LocalsOK, Locals, Born, None

LEMMA BornGoto ==
    ASSUME LocalsOK, NEW t \in Thread, NEW s, s \notin {"install", "rollback"}, Goto(t, s)
    PROVE  \A u \in Thread : go'[u].at \in {"install", "rollback"}
                => go[u].at = go'[u].at /\ go[u].fresh = go'[u].fresh
BY DEF LocalsOK, Locals, Goto, Rest

LEMMA BornStep ==
    ASSUME FieldsOK, LocalsOK, Born, [Next]_vars
    PROVE  Born'
<1> DEFINE Others == \A u \in Thread : go'[u].at \in {"install", "rollback"}
                        => go[u].at = go'[u].at /\ go[u].fresh = go'[u].fresh
<1>1. ASSUME NEW t \in Thread, Spawn(t) PROVE Born'
  <2>1. ASSUME \E s \in {"flush", "idle", "commit"} : Goto(t, s) PROVE Others
    BY <2>1, BornGoto
  <2>2. ASSUME go' = [go EXCEPT ![t].at = "respawn", ![t].ret = "flush"] PROVE Others
    BY <2>2 DEF LocalsOK, Locals
  <2>3. Others
    BY <1>1, <2>1, <2>2 DEF Spawn
  <2>4. handle' \in {handle,
  None} /\ \A b \in Bridge : proc[b] # "unborn" => proc'[b] # "unborn"
    BY <1>1 DEF Spawn
  <2> QED
    BY <2>3, <2>4, BornKept
<1>2. ASSUME NEW t \in Thread, RespawnReap(t) PROVE Born'
  BY <1>2 DEF RespawnReap, FieldsOK, LocalsOK, Locals, Born, Killed, fields, pumpVars, Bridge,
     None
<1>3. ASSUME NEW t \in Thread, RespawnFail(t) PROVE Born'
  BY <1>3 DEF RespawnFail, FieldsOK, LocalsOK, Locals, Born, Goto, Rest, pumpVars, Bridge, None
<1>4. ASSUME NEW t \in Thread, RespawnLaunch(t) PROVE Born'
  BY <1>4 DEF RespawnLaunch, FieldsOK, LocalsOK, Locals, Born, fields, pumpVars, Bridge, None
<1>5. ASSUME NEW t \in Thread, RespawnInstall(t) PROVE Born'
  <2>1. CASE closedByUser
    <3>1. Goto(t, "rollback") /\ handle' = None /\ UNCHANGED proc
      BY <1>5, <2>1 DEF RespawnInstall
    <3> QED
      BY <1>5, <3>1 DEF RespawnInstall, FieldsOK, LocalsOK, Locals, Born, Goto
  <2>2. CASE ~closedByUser
    <3>1. Goto(t, "arm") /\ handle' = go[t].fresh /\ UNCHANGED proc
      BY <1>5, <2>2 DEF RespawnInstall
    <3>2. Others
      BY <3>1, BornGoto
    <3> QED
      BY <1>5, <3>1, <3>2 DEF RespawnInstall, LocalsOK, Born
  <2> QED
    BY <2>1, <2>2
<1>6. ASSUME NEW t \in Thread, RespawnRollback(t) PROVE Born'
  BY <1>6 DEF RespawnRollback, FieldsOK, LocalsOK, Locals, Born, Goto, Rest, Killed, fields,
     pumpVars, Bridge, None
<1>7. ASSUME NEW t \in Thread, RespawnArm(t) PROVE Born'
  BY <1>7 DEF RespawnArm, FieldsOK, LocalsOK, Locals, Born, Goto, Rest, Bridge, None
<1>8. ASSUME NEW t \in Thread, Flush(t) PROVE Born'
  <2>1. ASSUME \E s \in {"flush", "idle", "commit"} : Goto(t, s) PROVE Others
    BY <2>1, BornGoto
  <2>2. ASSUME go' = [go EXCEPT ![t] = [Rest EXCEPT !.at = "submit"]] PROVE Others
    BY <2>2 DEF LocalsOK, Locals
  <2>3. Others
    BY <1>8, <2>1, <2>2 DEF Flush
  <2>4. handle' \in {handle,
  None} /\ \A b \in Bridge : proc[b] # "unborn" => proc'[b] # "unborn"
    BY <1>8 DEF Flush, fields
  <2> QED
    BY <2>3, <2>4, BornKept
<1>9. ASSUME NEW t \in Thread, SubmitCapture(t) PROVE Born'
  <2>1. ASSUME \E s \in {"flush", "idle", "commit"} : Goto(t, s) PROVE Others
    BY <2>1, BornGoto
  <2>2. ASSUME go' = [go EXCEPT ![t].at = "keepalive", ![t].held = handle] PROVE Others
    BY <2>2 DEF LocalsOK, Locals
  <2>3. Others
    BY <1>9, <2>1, <2>2 DEF SubmitCapture
  <2>4. handle' \in {handle,
  None} /\ \A b \in Bridge : proc[b] # "unborn" => proc'[b] # "unborn"
    BY <1>9 DEF SubmitCapture, fields
  <2> QED
    BY <2>3, <2>4, BornKept
<1>10. ASSUME NEW t \in Thread, Keepalive(t) PROVE Born'
  <2>1. ASSUME \E s \in {"flush", "idle", "commit"} : Goto(t, s) PROVE Others
    BY <2>1, BornGoto
  <2>2. ASSUME go' = [go EXCEPT ![t].at = "respawn", ![t].ret = "commit"] PROVE Others
    BY <2>2 DEF LocalsOK, Locals
  <2>3. Others
    BY <1>10, <2>1, <2>2 DEF Keepalive
  <2>4. handle' \in {handle,
  None} /\ \A b \in Bridge : proc[b] # "unborn" => proc'[b] # "unborn"
    BY <1>10 DEF Keepalive, FieldsOK, Killed
  <2> QED
    BY <2>3, <2>4, BornKept
<1>11. ASSUME NEW t \in Thread, SubmitCommit(t) PROVE Born'
  BY <1>11 DEF SubmitCommit, FieldsOK, LocalsOK, Locals, Born, Goto, Rest, pumpVars, Bridge,
     None
<1>12. ASSUME NEW t \in Thread, SendBlocks(t) PROVE Born'
  BY <1>12 DEF SendBlocks, FieldsOK, LocalsOK, Locals, Born, Goto, Rest, Live, pumpVars,
     Bridge, None
<1>13. ASSUME NEW t \in Thread, Route(t) PROVE Born'
  BY <1>13 DEF Route, FieldsOK, LocalsOK, Locals, Born, Goto, Rest, fields, pumpVars, Bridge,
     None
<1>14. ASSUME NEW t \in Thread, RouteSetExited(t) PROVE Born'
  BY <1>14 DEF RouteSetExited, FieldsOK, LocalsOK, Locals, Born, Goto, Rest, SetExited,
     pumpVars, Bridge, None
<1>15. ASSUME NEW t \in Thread, RestartFromDeath(t) PROVE Born'
  BY <1>15 DEF RestartFromDeath, FieldsOK, LocalsOK, Locals, Born, fields, pumpVars, Bridge,
     None
<1>16. ASSUME NEW t \in Thread, CloseAgent(t) PROVE Born'
  BY <1>16 DEF CloseAgent, FieldsOK, LocalsOK, Locals, Born, Use, fields, pumpVars, Bridge, None
<1>17. ASSUME NEW t \in Thread, CloseBegin(t) PROVE Born'
  BY <1>17 DEF CloseBegin, FieldsOK, LocalsOK, Locals, Born, pumpVars, Bridge, None
<1>18. ASSUME NEW t \in Thread, CloseFindsOpen(t) PROVE Born'
  BY <1>18 DEF CloseFindsOpen, FieldsOK, LocalsOK, Locals, Born, Goto, Rest, fields, pumpVars,
     Bridge, None
<1>19. ASSUME NEW t \in Thread, CloseStopChannel(t) PROVE Born'
  BY <1>19 DEF CloseStopChannel, FieldsOK, LocalsOK, Locals, Born, Goto, Rest, fields, Bridge,
     None
<1>20. ASSUME NEW t \in Thread, CloseWait(t) PROVE Born'
  BY <1>20 DEF CloseWait, FieldsOK, LocalsOK, Locals, Born, Goto, Rest, fields, Bridge, None
<1>21. ASSUME NEW t \in Thread, CloseSetExited(t) PROVE Born'
  BY <1>21 DEF CloseSetExited, FieldsOK, LocalsOK, Locals, Born, Goto, Rest, SetExited,
     pumpVars, Bridge, None
<1>22. ASSUME NEW t \in Thread, CloseEndPrompt(t) PROVE Born'
  BY <1>22 DEF CloseEndPrompt, FieldsOK, LocalsOK, Locals, Born, pumpVars, Bridge, None
<1>23. ASSUME NEW t \in Thread, ClosePushEnded(t) PROVE Born'
  BY <1>23 DEF ClosePushEnded, FieldsOK, LocalsOK, Locals, Born, Goto, Rest, Push, fields,
     pumpVars, Bridge, None
<1>24. ASSUME NEW t \in Thread, CloseHandle(t) PROVE Born'
  BY <1>24 DEF CloseHandle, FieldsOK, LocalsOK, Locals, Born, Goto, Rest, Killed, fields,
     pumpVars, Bridge, None
<1>25. ASSUME NEW t \in Thread, CloseAgentSetExited(t) PROVE Born'
  <2>1. ASSUME \E s \in {"flush", "idle", "commit"} : Goto(t, s) PROVE Others
    BY <2>1, BornGoto
  <2>2. ASSUME go' = [go EXCEPT ![t].grace = FALSE] PROVE Others
    BY <2>2 DEF LocalsOK, Locals
  <2>3. Others
    BY <1>25, <2>1, <2>2 DEF CloseAgentSetExited
  <2>4. handle' \in {handle,
  None} /\ \A b \in Bridge : proc[b] # "unborn" => proc'[b] # "unborn"
    BY <1>25 DEF CloseAgentSetExited
  <2> QED
    BY <2>3, <2>4, BornKept
<1>26. ASSUME NEW t \in Thread, ResetClose(t) PROVE Born'
  BY <1>26 DEF ResetClose, FieldsOK, LocalsOK, Locals, Born, Goto, Rest, Use, Killed, fields,
     pumpVars, Bridge, None
<1>27. ASSUME NEW t \in Thread, ResetRearm(t) PROVE Born'
  BY <1>27 DEF ResetRearm, FieldsOK, LocalsOK, Locals, Born, Goto, Rest, fields, Bridge, None
<1>28. ASSUME NEW n \in 1..Len(pump), PumpTurnEnded(n) PROVE Born'
  BY <1>28 DEF PumpTurnEnded, FieldsOK, LocalsOK, Locals, Born, Live, Bridge, None
<1>29. ASSUME NEW n \in 1..Len(pump), PumpClosed(n) PROVE Born'
  BY <1>29 DEF PumpClosed, FieldsOK, LocalsOK, Locals, Born, Live, Bridge, None
<1>30. ASSUME NEW n \in 1..Len(pump), PumpPushEnded(n) PROVE Born'
  BY <1>30 DEF PumpPushEnded, FieldsOK, LocalsOK, Locals, Born, Push, fields, Bridge, None
<1>31. ASSUME NEW n \in 1..Len(pump), PumpLifecycle(n) PROVE Born'
  BY <1>31 DEF PumpLifecycle, FieldsOK, LocalsOK, Locals, Born, Push, fields, Bridge, None
<1>32. ASSUME NEW n \in 1..Len(pump), PumpAgentEvent(n) PROVE Born'
  BY <1>32 DEF PumpAgentEvent, FieldsOK, LocalsOK, Locals, Born, Live, fields, Bridge, None
<1>33. ASSUME NEW n \in 1..Len(pump), PumpStop(n) PROVE Born'
  BY <1>33 DEF PumpStop, FieldsOK, LocalsOK, Locals, Born, fields, Bridge, None
<1>34. ASSUME NEW b \in Bridge, BridgeExit(b) PROVE Born'
  BY <1>34 DEF BridgeExit, FieldsOK, LocalsOK, Locals, Born, Use, Live, Killed, fields,
     pumpVars, Bridge, None
<1>35. CASE UNCHANGED vars
  BY <1>35 DEF vars, FieldsOK, LocalsOK, Locals, Born, fields, pumpVars, Bridge, None
<1> QED
  BY <1>1, <1>2, <1>3, <1>4, <1>5, <1>6, <1>7, <1>8, <1>9, <1>10, <1>11, <1>12, <1>13, <1>14,
     <1>15, <1>16, <1>17, <1>18, <1>19, <1>20, <1>21, <1>22, <1>23, <1>24, <1>25, <1>26,
     <1>27, <1>28, <1>29, <1>30, <1>31, <1>32, <1>33, <1>34, <1>35
     DEF Next, Respawn, Submit, RouteEvent, Close, Readpump

LEMMA CloserStep ==
    ASSUME FieldsOK, LocalsOK, Born, CloserHolds, [Next]_vars
    PROVE  CloserHolds'
<1>1. ASSUME NEW t \in Thread, Spawn(t) PROVE CloserHolds'
  BY <1>1 DEF Spawn, FieldsOK, LocalsOK, Locals, Born, CloserHolds, CloseSettles, Goto, Rest,
     Use, Live, pumpVars, Bridge, None
<1>2. ASSUME NEW t \in Thread, RespawnReap(t) PROVE CloserHolds'
  BY <1>2 DEF RespawnReap, FieldsOK, LocalsOK, Locals, Born, CloserHolds, CloseSettles, Live,
     Killed, fields, pumpVars, Bridge, None
<1>3. ASSUME NEW t \in Thread, RespawnFail(t) PROVE CloserHolds'
  BY <1>3 DEF RespawnFail, FieldsOK, LocalsOK, Locals, Born, CloserHolds, CloseSettles, Goto,
     Rest, Live, pumpVars, Bridge, None
<1>4. ASSUME NEW t \in Thread, RespawnLaunch(t) PROVE CloserHolds'
  <2>1. Live(handle)' => Live(handle)
    BY <1>4 DEF RespawnLaunch, Live, fields, Born, FieldsOK
  <2>2. \A u \in Thread : go[u].at \in CloseSettles
            => go'[u].at = go[u].at /\ go'[u].held = go[u].held
    BY <1>4 DEF RespawnLaunch, CloseSettles, LocalsOK, Locals
  <2> QED
    BY <1>4, <2>1, <2>2 DEF RespawnLaunch, CloserHolds, fields
<1>5. ASSUME NEW t \in Thread, RespawnInstall(t) PROVE CloserHolds'
  BY <1>5 DEF RespawnInstall, FieldsOK, LocalsOK, Locals, Born, CloserHolds, CloseSettles,
     Goto, Rest, Live, pumpVars, Bridge, None
<1>6. ASSUME NEW t \in Thread, RespawnRollback(t) PROVE CloserHolds'
  BY <1>6 DEF RespawnRollback, FieldsOK, LocalsOK, Locals, Born, CloserHolds, CloseSettles,
     Goto, Rest, Live, Killed, fields, pumpVars, Bridge, None
<1>7. ASSUME NEW t \in Thread, RespawnArm(t) PROVE CloserHolds'
  BY <1>7 DEF RespawnArm, FieldsOK, LocalsOK, Locals, Born, CloserHolds, CloseSettles, Goto,
     Rest, Live, Bridge, None
<1>8. ASSUME NEW t \in Thread, Flush(t) PROVE CloserHolds'
  BY <1>8 DEF Flush, FieldsOK, LocalsOK, Locals, Born, CloserHolds, CloseSettles, Goto, Rest,
     Live, fields, pumpVars, Bridge, None
<1>9. ASSUME NEW t \in Thread, SubmitCapture(t) PROVE CloserHolds'
  BY <1>9 DEF SubmitCapture, FieldsOK, LocalsOK, Locals, Born, CloserHolds, CloseSettles,
     Goto, Rest, Live, fields, pumpVars, Bridge, None
<1>10. ASSUME NEW t \in Thread, Keepalive(t) PROVE CloserHolds'
  BY <1>10 DEF Keepalive, FieldsOK, LocalsOK, Locals, Born, CloserHolds, CloseSettles, Goto,
     Rest, Live, Killed, pumpVars, Bridge, None
<1>11. ASSUME NEW t \in Thread, SubmitCommit(t) PROVE CloserHolds'
  BY <1>11 DEF SubmitCommit, FieldsOK, LocalsOK, Locals, Born, CloserHolds, CloseSettles,
     Goto, Rest, Live, pumpVars, Bridge, None
<1>12. ASSUME NEW t \in Thread, SendBlocks(t) PROVE CloserHolds'
  BY <1>12 DEF SendBlocks, FieldsOK, LocalsOK, Locals, Born, CloserHolds, CloseSettles, Goto,
     Rest, Live, pumpVars, Bridge, None
<1>13. ASSUME NEW t \in Thread, Route(t) PROVE CloserHolds'
  BY <1>13 DEF Route, FieldsOK, LocalsOK, Locals, Born, CloserHolds, CloseSettles, Goto, Rest,
     Live, fields, pumpVars, Bridge, None
<1>14. ASSUME NEW t \in Thread, RouteSetExited(t) PROVE CloserHolds'
  BY <1>14 DEF RouteSetExited, FieldsOK, LocalsOK, Locals, Born, CloserHolds, CloseSettles,
     Goto, Rest, Live, SetExited, pumpVars, Bridge, None
<1>15. ASSUME NEW t \in Thread, RestartFromDeath(t) PROVE CloserHolds'
  BY <1>15 DEF RestartFromDeath, FieldsOK, LocalsOK, Locals, Born, CloserHolds, CloseSettles,
     Live, fields, pumpVars, Bridge, None
<1>16. ASSUME NEW t \in Thread, CloseAgent(t) PROVE CloserHolds'
  BY <1>16 DEF CloseAgent, FieldsOK, LocalsOK, Locals, Born, CloserHolds, CloseSettles, Use,
     Live, fields, pumpVars, Bridge, None
<1>17. ASSUME NEW t \in Thread, CloseBegin(t) PROVE CloserHolds'
  BY <1>17 DEF CloseBegin, FieldsOK, LocalsOK, Locals, Born, CloserHolds, CloseSettles, Live,
     pumpVars, Bridge, None
<1>18. ASSUME NEW t \in Thread, CloseFindsOpen(t) PROVE CloserHolds'
  BY <1>18 DEF CloseFindsOpen, FieldsOK, LocalsOK, Locals, Born, CloserHolds, CloseSettles,
     Goto, Rest, Live, fields, pumpVars, Bridge, None
<1>19. ASSUME NEW t \in Thread, CloseStopChannel(t) PROVE CloserHolds'
  BY <1>19 DEF CloseStopChannel, FieldsOK, LocalsOK, Locals, Born, CloserHolds, CloseSettles,
     Goto, Rest, Live, fields, Bridge, None
<1>20. ASSUME NEW t \in Thread, CloseWait(t) PROVE CloserHolds'
  BY <1>20 DEF CloseWait, FieldsOK, LocalsOK, Locals, Born, CloserHolds, CloseSettles, Goto,
     Rest, Live, fields, Bridge, None
<1>21. ASSUME NEW t \in Thread, CloseSetExited(t) PROVE CloserHolds'
  BY <1>21 DEF CloseSetExited, FieldsOK, LocalsOK, Locals, Born, CloserHolds, CloseSettles,
     Goto, Rest, Live, SetExited, pumpVars, Bridge, None
<1>22. ASSUME NEW t \in Thread, CloseEndPrompt(t) PROVE CloserHolds'
  BY <1>22 DEF CloseEndPrompt, FieldsOK, LocalsOK, Locals, Born, CloserHolds, CloseSettles,
     Live, pumpVars, Bridge, None
<1>23. ASSUME NEW t \in Thread, ClosePushEnded(t) PROVE CloserHolds'
  BY <1>23 DEF ClosePushEnded, FieldsOK, LocalsOK, Locals, Born, CloserHolds, CloseSettles,
     Goto, Rest, Live, Push, fields, pumpVars, Bridge, None
<1>24. ASSUME NEW t \in Thread, CloseHandle(t) PROVE CloserHolds'
  BY <1>24 DEF CloseHandle, FieldsOK, LocalsOK, Locals, Born, CloserHolds, CloseSettles, Goto,
     Rest, Live, Killed, fields, pumpVars, Bridge, None
<1>25. ASSUME NEW t \in Thread, CloseAgentSetExited(t) PROVE CloserHolds'
  <2>1. \A u \in Thread : go[u].at \in CloseSettles
            => go'[u].at = go[u].at /\ go'[u].held = go[u].held
    <3>1. CASE go[t].at = "final" /\ Goto(t, "idle")
      BY <3>1 DEF Goto, CloseSettles, LocalsOK
    <3>2. CASE go' = [go EXCEPT ![t].grace = FALSE]
      BY <3>2 DEF LocalsOK, Locals
    <3> QED
      BY <1>25, <3>1, <3>2 DEF CloseAgentSetExited
  <2>2. UNCHANGED <<handle, closedByUser, proc>>
    BY <1>25 DEF CloseAgentSetExited
  <2> QED
    BY <2>1, <2>2 DEF CloserHolds, Live
<1>26. ASSUME NEW t \in Thread, ResetClose(t) PROVE CloserHolds'
  BY <1>26 DEF ResetClose, FieldsOK, LocalsOK, Locals, Born, CloserHolds, CloseSettles, Goto,
     Rest, Use, Live, Killed, fields, pumpVars, Bridge, None
<1>27. ASSUME NEW t \in Thread, ResetRearm(t) PROVE CloserHolds'
  BY <1>27 DEF ResetRearm, FieldsOK, LocalsOK, Locals, Born, CloserHolds, CloseSettles, Goto,
     Rest, Live, fields, Bridge, None
<1>28. ASSUME NEW n \in 1..Len(pump), PumpTurnEnded(n) PROVE CloserHolds'
  BY <1>28 DEF PumpTurnEnded, FieldsOK, LocalsOK, Locals, Born, CloserHolds, CloseSettles,
     Live, Bridge, None
<1>29. ASSUME NEW n \in 1..Len(pump), PumpClosed(n) PROVE CloserHolds'
  BY <1>29 DEF PumpClosed, FieldsOK, LocalsOK, Locals, Born, CloserHolds, CloseSettles, Live,
     Bridge, None
<1>30. ASSUME NEW n \in 1..Len(pump), PumpPushEnded(n) PROVE CloserHolds'
  BY <1>30 DEF PumpPushEnded, FieldsOK, LocalsOK, Locals, Born, CloserHolds, CloseSettles,
     Live, Push, fields, Bridge, None
<1>31. ASSUME NEW n \in 1..Len(pump), PumpLifecycle(n) PROVE CloserHolds'
  BY <1>31 DEF PumpLifecycle, FieldsOK, LocalsOK, Locals, Born, CloserHolds, CloseSettles,
     Live, Push, fields, Bridge, None
<1>32. ASSUME NEW n \in 1..Len(pump), PumpAgentEvent(n) PROVE CloserHolds'
  BY <1>32 DEF PumpAgentEvent, FieldsOK, LocalsOK, Locals, Born, CloserHolds, CloseSettles,
     Live, fields, Bridge, None
<1>33. ASSUME NEW n \in 1..Len(pump), PumpStop(n) PROVE CloserHolds'
  BY <1>33 DEF PumpStop, FieldsOK, LocalsOK, Locals, Born, CloserHolds, CloseSettles, Live,
     fields, Bridge, None
<1>34. ASSUME NEW b \in Bridge, BridgeExit(b) PROVE CloserHolds'
  BY <1>34 DEF BridgeExit, FieldsOK, LocalsOK, Locals, Born, CloserHolds, CloseSettles, Use,
     Live, Killed, fields, pumpVars, Bridge, None
<1>35. CASE UNCHANGED vars
  BY <1>35 DEF vars, FieldsOK, LocalsOK, Locals, Born, CloserHolds, CloseSettles, Live,
     fields, pumpVars, Bridge, None
<1> QED
  BY <1>1, <1>2, <1>3, <1>4, <1>5, <1>6, <1>7, <1>8, <1>9, <1>10, <1>11, <1>12, <1>13, <1>14,
     <1>15, <1>16, <1>17, <1>18, <1>19, <1>20, <1>21, <1>22, <1>23, <1>24, <1>25, <1>26,
     <1>27, <1>28, <1>29, <1>30, <1>31, <1>32, <1>33, <1>34, <1>35
     DEF Next, Respawn, Submit, RouteEvent, Close, Readpump

-----------------------------------------------------------------------------
Inv == Typed /\ Born /\ CloserHolds

LEMMA InitInv == Init => Inv
<1> SUFFICES ASSUME Init PROVE Inv
  OBVIOUS
<1>1. Rest \in Locals(0) /\ Len(pump) = 0
  BY StepNames DEF Locals, Init, Rest, None
<1>2. LocalsOK /\ PumpOK /\ PumpNamed
  BY <1>1 DEF Init, LocalsOK, PumpOK, PumpNamed
<1>3. FieldsOK
  <2>1. Len(eventQueue) <= EventCap /\ current \in 0..Len(pump)
    BY <1>1, SessionAssumption DEF Init, None
  <2>2. proc \in [Bridge -> {"unborn", "live", "dead"}] /\ used \in [Input -> Nat]
    BY DEF Init
  <2>3. eventQueue \in Seq({"PromptEnded", "Exited"}) /\ stopClosed \subseteq 1..Len(pump)
    BY DEF Init
  <2> QED
    BY <2>1, <2>2, <2>3 DEF Init, FieldsOK
<1>4. CloseNamed /\ Born /\ CloserHolds
  BY DEF Init, CloseNamed, Born, CloserHolds, Rest
<1> QED
  BY <1>2, <1>3, <1>4 DEF Inv, Typed

LEMMA InvStep == Inv /\ [Next]_vars => Inv'
BY PumpStep, LocalsStep, FieldsStep, CloseNamedStep, BornStep, CloserStep DEF Inv, Typed

(***************************************************************************)
(* The fields, goroutines and readpumps of a session have their types, and *)
(* eventQueue never holds more than EventCap events.                       *)
(***************************************************************************)
THEOREM TypeCorrect == Spec => []TypeOK
<1>1. Inv => TypeOK
  BY DEF Inv, Typed, TypeOK, FieldsOK, LocalsOK, Locals, PumpOK, PumpState
<1> QED
  BY <1>1, InitInv, InvStep, PTL DEF Spec

(***************************************************************************)
(* What the user has closed stays closed, for any number of messages,      *)
(* crashes, recoveries, /close and /new at once: when no respawn, /close   *)
(* or /new is under way, the bridge of a closed session is dead.           *)
(***************************************************************************)
THEOREM ClosedCorrect == Spec => []ClosedStaysClosed
<1>1. Inv => ClosedStaysClosed
  BY DEF Inv, CloserHolds, CloseSettles, ClosedStaysClosed, Settled, CloseSteps
<1> QED
  BY <1>1, InitInv, InvStep, PTL DEF Spec
=============================================================================
