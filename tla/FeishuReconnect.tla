-------------------------- MODULE FeishuReconnect --------------------------
(***************************************************************************)
(* The reconnection of the Feishu channel: the prober's lifecycle and its  *)
(* ticks (channel/feishu/reconnect.go), the reconnection it forces and the *)
(* wake-up kick (adapter.go), and the replacement of a WebSocket client    *)
(* that its SDK will not start again (rebuild.go).                         *)
(*                                                                         *)
(* The SDK is external: a run of client.Start dials, is up, is lost and    *)
(* dials again; it calls back on its own goroutine; a run that is          *)
(* cancelled, or refused by the server after it has once been up, leaves   *)
(* its client terminal.  The goroutines are cut where they read or write   *)
(* an atomic of the prober or take lifeMu or the adapter's mutex.          *)
(***************************************************************************)
EXTENDS Naturals, Sequences, FiniteSets

CONSTANTS
    MaxDrops, MaxRejects, MaxKicks,     \* losses, refusals, wake-ups
    MaxStreak,                          \* sdkMaxConsecutiveRebuilds
    MaxRuns, MaxLoops, MaxLate          \* bounds: SDK runs, ticking and self-stopping
                                        \* goroutines at one time

ASSUME ReconnectAssumption ==
    {MaxDrops, MaxRejects, MaxKicks, MaxStreak, MaxRuns, MaxLoops,
     MaxLate} \subseteq Nat

VARIABLES
    runs,       \* the goroutines in client.Start
    current,    \* the run of a.cancel and a.wsDone
    terminal,   \* the SDK will not start a.client again
    connected,  \* health.Connected
    lastErr,    \* a.lastStartErr: "none", "rejected" or "stranded"
    stranded,   \* rebuild.cancelStrandedTerminal
    fails,      \* rebuild.consecutiveFails
    cooling,    \* sdkRebuildCooldown has not elapsed since rebuild.lastAt
    started,    \* prober.started
    loops,      \* goroutines that tick: loopWith on the prober's channels or on a
                \* pair that has been closed, or a Kick
    late,       \* go p.Stop() goroutines before their CompareAndSwap
    closing,    \* the same between it and close(p.stopCh)
    left,       \* drops, refusals and kicks still to come
    overlap     \* two ticks, or a Start and a Stop, have overlapped

reconnectVars == <<runs, current, terminal, connected, lastErr, stranded, fails,
                   cooling, started, loops, late, closing, left>>
sdk == <<runs, current, terminal>>
rebuild == <<lastErr, stranded, fails, cooling>>
prober == <<started, loops, late, closing>>

\* A run of a.client, or of a client that has been replaced (and closed); callback is
\* "none" or the step of Start or Stop it is at.
NewRun == [replaced |-> FALSE, at |-> "dial", wasUp |-> FALSE, cancelled |-> FALSE,
           callback |-> "none"]
Frozen(r) == runs[r].replaced \/ terminal
NewLoop(kind) == [kind |-> kind, pc |-> IF kind = "kick" THEN "tick" ELSE "wait", run |-> 0]
Alive(r) == runs[r].at # "ended"
Ended == [replaced |-> FALSE, at |-> "ended", wasUp |-> FALSE, cancelled |-> FALSE,
          callback |-> "none"]
Done == [kind |-> "kick", pc |-> "done", run |-> 0]
InTick(l) == loops[l].pc \notin {"wait", "done"}

\* What has ended and is not referred to any more leaves its place to the next.
Place(s, free) ==
    IF free = {} THEN Len(s) + 1 ELSE CHOOSE i \in free : \A j \in free : i <= j
Put(s, i, x) == IF i > Len(s) THEN Append(s, x) ELSE [s EXCEPT ![i] = x]
FreeLoops == {l \in DOMAIN loops : loops[l] = Done}
FreeRuns == {r \in DOMAIN runs : ~Alive(r) /\ \A l \in DOMAIN loops : loops[l].run # r}

\* The first connection is up (adapter.Start has returned).
ReconnectInit ==
    /\ runs = <<[NewRun EXCEPT !.at = "up", !.wasUp = TRUE]>>
    /\ current = 1 /\ terminal = FALSE
    /\ connected = TRUE
    /\ lastErr = "none" /\ stranded = FALSE /\ fails = 0 /\ cooling = FALSE
    /\ started = FALSE /\ loops = <<>>
    /\ late = 0 /\ closing = 0
    /\ left = [drops |-> MaxDrops, rejects |-> MaxRejects, kicks |-> MaxKicks]
    /\ overlap = FALSE

-----------------------------------------------------------------------------
(* The SDK's run r, and the adapter's callbacks.                            *)

\* markSDKConnected up to prober.Stop, whose CompareAndSwap comes first.
GoesUp(r) ==
    /\ runs[r].at \in {"dial", "lost"} /\ runs[r].callback = "none"
    /\ ~Frozen(r) /\ ~runs[r].cancelled
    /\ runs' = [runs EXCEPT ![r].at = "up", ![r].wasUp = TRUE,
                            ![r].callback = IF started THEN "close" ELSE "none"]
    /\ connected' = TRUE
    /\ fails' = 0 /\ stranded' = FALSE /\ lastErr' = "none"
    /\ started' = FALSE
    /\ UNCHANGED <<current, terminal, cooling, loops, late,
                   closing, left>>

\* OnDisconnected up to prober.Start, whose CompareAndSwap comes first.
Disconnected(r, at) ==
    /\ connected' = FALSE
    /\ started' = TRUE
    /\ runs' = [runs EXCEPT ![r].at = at,
                            ![r].callback = IF started THEN "none" ELSE "snapshot"]

Drops(r) ==
    /\ runs[r].at = "up" /\ runs[r].callback = "none" /\ ~runs[r].cancelled
    /\ left.drops > 0 /\ left' = [left EXCEPT !.drops = @ - 1]
    /\ Disconnected(r, "lost")
    /\ UNCHANGED <<current, terminal, rebuild, loops, late, closing>>

\* client.Start returns: a *ws.ClientError, then recordLastStartErr.
Rejected(r) ==
    /\ runs[r].at \in {"dial", "lost"} /\ runs[r].callback = "none"
    /\ ~Frozen(r) /\ ~runs[r].cancelled
    /\ left.rejects > 0 /\ left' = [left EXCEPT !.rejects = @ - 1]
    /\ runs' = [runs EXCEPT ![r] = Ended]
    /\ terminal' = (terminal \/ runs[r].wasUp)
    /\ lastErr' = "rejected" /\ fails' = fails + 1
    /\ UNCHANGED <<current, connected, stranded, cooling, prober>>

\* errClientTerminal: the client had been terminal before the call.
Stranded(r) ==
    /\ runs[r].at \in {"dial", "lost"} /\ runs[r].callback = "none"
    /\ Frozen(r)
    /\ runs' = [runs EXCEPT ![r] = Ended]
    /\ lastErr' = "stranded" /\ stranded' = TRUE
    /\ UNCHANGED <<current, terminal, connected, fails, cooling, prober, left>>

\* context.Canceled, which recordLastStartErr ignores.
CancelSeen(r) ==
    /\ runs[r].cancelled /\ runs[r].callback = "none"
    /\ \/ runs[r].at = "up"
       \/ runs[r].at \in {"dial", "lost"} /\ ~Frozen(r)
    /\ terminal' = (terminal \/ ~runs[r].replaced)
    /\ IF runs[r].at = "up"
       THEN Disconnected(r, "ending")
       ELSE /\ runs' = [runs EXCEPT ![r] = Ended]
            /\ UNCHANGED <<connected, started>>
    /\ UNCHANGED <<current, rebuild, loops, late, closing, left>>

RunEnds(r) ==
    /\ runs[r].at = "ending" /\ runs[r].callback = "none"
    /\ runs' = [runs EXCEPT ![r] = Ended]
    /\ UNCHANGED <<current, terminal, connected, rebuild, prober, left>>

-----------------------------------------------------------------------------
(* prober.Start and prober.Stop after their CompareAndSwap.                 *)

\* Start: read the channels under lifeMu, then go p.loopWith.
StartLoop(r) ==
    /\ runs[r].callback = "snapshot" /\ Place(loops, FreeLoops) <= MaxLoops
    /\ runs' = [runs EXCEPT ![r].callback = "none"]
    /\ loops' = Put(loops, Place(loops, FreeLoops), NewLoop("loop"))
    /\ UNCHANGED <<current, terminal, connected, rebuild, started, late, closing, left>>

\* Mutant: Stop leaves the goroutine its channels.
CloseNothing == loops' = loops

CloseChannels ==
    loops' = [l \in DOMAIN loops |->
        IF loops[l].kind = "loop" THEN [loops[l] EXCEPT !.kind = "closed"] ELSE loops[l]]

StopCloses(r) ==
    /\ runs[r].callback = "close"
    /\ CloseChannels
    /\ runs' = [runs EXCEPT ![r].callback = "wait"]
    /\ UNCHANGED <<current, terminal, connected, rebuild, started, late, closing, left>>

\* Stop waits for the loop, at most five seconds.
StopReturns(r) ==
    /\ runs[r].callback = "wait"
    /\ runs' = [runs EXCEPT ![r].callback = "none"]
    /\ UNCHANGED <<current, terminal, connected, rebuild, prober, left>>

SelfStop ==
    /\ late > 0
    /\ late' = late - 1
    /\ closing' = closing + IF started THEN 1 ELSE 0
    /\ started' = FALSE
    /\ UNCHANGED <<sdk, connected, rebuild, loops, left>>

SelfStopCloses ==
    /\ closing > 0
    /\ closing' = closing - 1
    /\ CloseChannels
    /\ UNCHANGED <<sdk, connected, rebuild, started, late, left>>

-----------------------------------------------------------------------------
(* A goroutine that ticks.                                                  *)

At(l, pc) == loops[l].pc = pc
Moves(l, pc) == loops' = [loops EXCEPT ![l].pc = pc]

Tick(l) ==
    /\ At(l, "wait") /\ loops[l].kind = "loop"
    /\ Moves(l, "tick")
    /\ UNCHANGED <<sdk, connected, rebuild, started, late, closing, left>>

LoopEnds(l) ==
    /\ At(l, "wait") /\ loops[l].kind = "closed"
    /\ loops' = [loops EXCEPT ![l] = Done]
    /\ UNCHANGED <<sdk, connected, rebuild, started, late, closing, left>>

\* WakeKick: a tick on the wake watcher's goroutine, unless the prober is dormant.
Kick ==
    /\ left.kicks > 0 /\ started /\ Place(loops, FreeLoops) <= MaxLoops
    /\ left' = [left EXCEPT !.kicks = @ - 1]
    /\ loops' = Put(loops, Place(loops, FreeLoops), NewLoop("kick"))
    /\ UNCHANGED <<sdk, connected, rebuild, started, late, closing>>

\* ReconnectSDK: cancel the run it finds in a.cancel.
CancelRun(l) ==
    /\ At(l, "tick")
    /\ runs' = [runs EXCEPT ![current].cancelled = Alive(current)]
    /\ loops' = [loops EXCEPT ![l].pc = "await", ![l].run = current]
    /\ UNCHANGED <<current, terminal, connected, rebuild, started, late, closing, left>>

\* The run has ended; or it has not within two seconds, inside a callback.
AwaitRun(l) ==
    /\ At(l, "await")
    /\ Alive(loops[l].run) => runs[loops[l].run].callback # "none"
    /\ loops' = [loops EXCEPT ![l].pc = "rebuild", ![l].run = 0]
    /\ UNCHANGED <<sdk, connected, rebuild, started, late, closing, left>>

\* Mutant: a client terminal by our own cancel is not seen as one.
RejectedOnly == lastErr = "rejected" /\ fails < MaxStreak /\ ~cooling

WantsRebuild == (stranded \/ lastErr = "rejected") /\ fails < MaxStreak /\ ~cooling

MaybeRebuildClient(l) ==
    /\ At(l, "rebuild")
    /\ Moves(l, "spawn")
    /\ IF WantsRebuild
       THEN /\ terminal' = FALSE
            /\ cooling' = TRUE
            /\ stranded' = FALSE
            /\ runs' = [r \in DOMAIN runs |->
                 IF Alive(r) THEN [runs[r] EXCEPT !.replaced = TRUE, !.cancelled = TRUE]
                 ELSE runs[r]]
       ELSE UNCHANGED <<runs, cooling, stranded, terminal>>
    /\ UNCHANGED <<current, connected, lastErr, fails, started, late, closing, left>>

\* Mutant: the run is not kept for the next tick to cancel.
SpawnDetached(l) ==
    /\ At(l, "spawn") /\ Place(runs, FreeRuns) <= MaxRuns
    /\ runs' = Put(runs, Place(runs, FreeRuns), NewRun)
    /\ Moves(l, "check")
    /\ UNCHANGED <<current, terminal, connected, rebuild, started, late,
                   closing, left>>

SpawnRun(l) ==
    /\ At(l, "spawn") /\ Place(runs, FreeRuns) <= MaxRuns
    /\ current' = Place(runs, FreeRuns)
    /\ runs' = Put(runs, current', NewRun)
    /\ Moves(l, "check")
    /\ UNCHANGED <<terminal, connected, rebuild, started, late,
                   closing, left>>

CheckConnected(l) ==
    /\ At(l, "check") /\ (connected => late < MaxLate)
    /\ loops' = [loops EXCEPT ![l] = IF @.kind = "kick" THEN Done ELSE NewLoop(@.kind)]
    /\ late' = late + IF connected THEN 1 ELSE 0
    /\ UNCHANGED <<sdk, connected, rebuild, started, closing, left>>

CooldownOver ==
    /\ cooling
    /\ cooling' = FALSE
    /\ UNCHANGED <<sdk, connected, lastErr, stranded, fails, prober, left>>

-----------------------------------------------------------------------------
RunStep(r) ==
    \/ GoesUp(r) \/ Stranded(r) \/ CancelSeen(r) \/ RunEnds(r)
    \/ StartLoop(r) \/ StopCloses(r) \/ StopReturns(r)
LoopStep(l) ==
    \/ Tick(l) \/ LoopEnds(l) \/ CancelRun(l) \/ AwaitRun(l)
    \/ MaybeRebuildClient(l) \/ SpawnRun(l) \/ CheckConnected(l)
ReconnectStep ==
    \/ \E r \in DOMAIN runs : RunStep(r) \/ Drops(r) \/ Rejected(r)
    \/ \E l \in DOMAIN loops : LoopStep(l)
    \/ SelfStop \/ SelfStopCloses \/ CooldownOver \/ Kick

\* Two ticks at once; or a cycle starts while one is being stopped, or while a
\* tick that found the connection up is about to stop it.
Overlaps ==
    \/ \E l, m \in DOMAIN loops : l # m /\ InTick(l) /\ InTick(m)
    \/ /\ \E r \in DOMAIN runs : runs[r].callback = "snapshot"
       /\ late + closing > 0 \/ \E r \in DOMAIN runs : runs[r].callback = "close"
    \/ late > 0 /\ ~connected
NotOverlapped == ~overlap
Noting(A) == A /\ overlap' = (overlap \/ Overlaps')

ReconnectNext == Noting(ReconnectStep)
ReconnectSpec == ReconnectInit /\ [][ReconnectNext]_<<reconnectVars, overlap>>

\* The network comes back: a dial that is tried again and again connects once before
\* the next tick; goroutines run; time passes.
ReconnectFairness ==
    /\ \A r \in 1..MaxRuns : WF_reconnectVars(r \in DOMAIN runs /\ Noting(RunStep(r)))
    /\ \A l \in 1..MaxLoops : WF_reconnectVars(l \in DOMAIN loops /\ Noting(LoopStep(l)))
    /\ WF_reconnectVars(Noting(SelfStop)) /\ WF_reconnectVars(Noting(SelfStopCloses))
    /\ WF_reconnectVars(Noting(CooldownOver))
    /\ SF_reconnectVars(\E r \in DOMAIN runs : Noting(GoesUp(r)))
ReconnectFairSpec == ReconnectSpec /\ ReconnectFairness

-----------------------------------------------------------------------------
\* One connection to the server: whatever run is not the one the next tick would
\* cancel has been cancelled already (Kick: "safe to call concurrently with the
\* ticker", reconnect.go:289), as long as no two ticks overlap.
Uncancelled == {r \in DOMAIN runs : Alive(r) /\ ~runs[r].cancelled}
OneConnection == ~overlap => Uncancelled \subseteq {current}
KickIsSafe == Uncancelled \subseteq {current}

\* A loop of the prober has the channels of its cycle to itself, so that no doneCh is
\* closed twice: "preventing the 'close of closed channel' race when Start/Stop overlap"
\* (reconnect.go:180).
Loops == {l \in DOMAIN loops : loops[l].kind = "loop"}
OneLoopPerCycle == Cardinality(Loops) <= 1

\* While no Start or Stop is under way, the prober ticks exactly when it is started.
Quiet == late + closing = 0 /\ \A r \in DOMAIN runs : runs[r].callback = "none"
TicksIffStarted == Quiet /\ ~overlap => (Loops # {} <=> started)

\* Whatever clients the SDK refuses to start, the channel comes back again and again,
\* unless the server has refused too often ("The prober NEVER actively gives up",
\* reconnect.go:18), as long as nothing overlaps.
ComesBack == []<>(connected \/ overlap \/ fails >= MaxStreak)
=============================================================================
