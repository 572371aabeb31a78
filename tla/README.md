# A verification development of nightme

nightme is a daemon that connects chat channels (Feishu, Telegram, Slack,
Discord) with local coding agents (claudecode, codex, pi, dsh, acp, opencode,
cursor, a raw PTY, ...).  A message typed in a chat is queued for the chat's
selected agent, submitted to the agent's bridge process when that one is idle,
and the agent's events come back as chat cards.

This directory holds TLA+ models of the parts of the daemon where order and
concurrency decide whether it is right: the chat's message queue, the protocol
that moves messages from the queue to the agent, the life of an agent session's
bridge process, the routing of a chat to its sessions (with the stores and a
restart), two bridges to agent programs (codex, dsh) and the reconnection of a
channel (Feishu).  TLC checks them on small instances; TLAPS proves the theorems
listed below for every instance.  Paths are relative to the repository
(`internal/...`).

## Inventory

| component | state it keeps | operations | models |
|---|---|---|---|
| message queue, `internal/chatsession/message_queue.go` | singly linked list with `head`, `tail`, the cursor `inFlightEnd`, `length` | Push, PushFront, Peek, Commit, Rewind, Remove, Clear | MessageQueue, BatchQueue |
| chat flush protocol, `chatsession.go` (TryFlush, QueueUserMessage, SteerUserMessage, SetSelected*), `pump_events.go` | `selectedAS`, the queue; per session `stat`, `isReady`, `currentPrompt` | submit a batch, retry, steer, stop, switch agent or directory | FlushProtocol |
| agent session lifecycle, `internal/agentsession` (`session.go`, `readpump.go`, `dispatch.go`), `internal/command/close` | `handle`, `pid`, `stat`, `closedByUser`, `isReady`, `readpumpStarted`, the readpump's stop and done channels, `eventQueue` | Spawn, respawn, Submit with Keepalive, Close, HandlePTYRestart, RestartFromDeath, the readpump, the dispatcher | AgentSession |
| chat routing and session pool, `LookupSelectedAgentSession`, `aspool.go`, `manager.go` | `selectedAgent`, `selectedCwd`, the chat's pool, the process-wide warm pool, per-key resolve locks, subscriptions | look up or create a session, select, evict a directory, reset, restore after a restart | ChatRouting |
| stores, `internal/chatstore`, `internal/registry` | the selection and the session entries on disk | store-first updates, atomic replace | in ChatRouting |
| codex bridge, `internal/bridge/codex` | pending requests, approvals, the busy guard, the translator's turn | request, pumps, lifecycle, Close, SendPermission, SendBlocks, Stop, New | CodexSession, CodexTurns |
| dsh hub, `internal/bridge/dsh/host/stream.go` | sessions and streams, one write queue, connections | Subscribe, Unsubscribe, the mux pump, Close | DshHub |
| dsh shared host and relay, `host/lifecycle.go`, `health.go`, `relay/relay.go`, `dsh/session.go` | the dsh process, the client, probe strikes, routed sessions | start once, monitor, respawn with its subscriptions, probe and kill, driver start and close | DshRelay |
| Feishu connection, `internal/channel/feishu` (`reconnect.go`, `rebuild.go`, ReconnectSDK) | the SDK run, the prober, rebuild counters | tick, kick, cancel and await, rebuild | FeishuReconnect |
| inbound gateway and dispatcher, `internal/gateway/inbound`, `internal/runtime/dispatcher.go` | none of its own | one goroutine per message: look up, queue | its goroutine in FlushProtocol, AgentSession, ChatRouting |
| watchdog and prober, heartbeat tracker, event bus | timers and suspect marks; LRU counters; handlers | advisory marks, display, fan-out | not modelled, see the last section |
| other bridges, outbound gateway, channels, git workflow commands, daemon control, CLI, speech to text | | | not modelled |

**How they interact.** Every inbound message runs on a goroutine of its own
(`gateway/inbound/message.go:57`): it looks the selected session up, spawning its
bridge if need be, and calls `QueueUserMessage`, which pushes the message and
calls `TryFlush`.  Each session has a *readpump* goroutine that reads the bridge's
events channel into `eventQueue`, and a *dispatcher* goroutine that drains
`eventQueue` and publishes each event synchronously to the chat, whose
`routeEvent` calls `TryFlush` at the end of a prompt and `RestartFromDeath` at the
death of a bridge.  Slash commands run on inbound goroutines too.  Three locks
are involved (`cs.mu`, the queue's, `asMu`) and none of them is held across a
spawn, a send, a bridge close or a channel wait.

**What is hard.** The batch that `TryFlush` takes from the queue belongs to nobody
while it is submitted: the queue only knows where the in-flight region ends.  The
readiness of a session is read in one step and changed in another.  A wake-up
(KindPromptEnded) may be consumed before the batch it was meant for is back in
the queue.  `respawn` takes seconds without a lock, while `/close`, `/new`, a
crash, Keepalive's recovery and the next message may all want the same session.
Closing a bridge makes the readpump report a death.  `PROJECT.json` lists these
hazards at their lines.

**What makes each component correct.**

* queue: the cursor stays inside the list; order and barriers are kept; capacity
  is respected; an operation moves messages only as its contract says.
* flush protocol: an accepted message is submitted once, in order, unless it is
  reported dropped; it does not stay queued beside an idle agent; a bridge holds
  one turn at a time; the event that ends a prompt is its own.
* session: what the user has closed stays closed; no bridge process is forgotten
  alive; the running bridge has a reader; Close returns and does not panic; a
  recovered Submit goes to the recovered bridge.
* routing: the session a chat submits to is that of its selection; a lookup returns a
  session of a selection that was current during it; one session object per (chat, cwd,
  agent), and one lookup that spawns for it; nobody waits on a resolve lock for ever; what was dropped stays
  dropped; the selection the user was told of survives a restart.
* codex: no request waits for ever; the event channel is closed after its senders
  have gone; the user's answer goes to the latest approval; the busy guard and the Done of a turn
  follow the first signal of its end, and the narration keeps its order.
* dsh: each stream has one owner and is opened once; every subscription is followed
  after a reconnection and after a replacement of dsh; one host is started; a start
  ends; Close returns.
* Feishu: one connection; the prober ticks exactly while it is started; the channel
  comes back.

## Modules

**BatchQueue.tla** is the abstract queue: an in-flight sequence followed by a
pending sequence.  `Peek` moves one batch (a run of Normal messages, or one
message of MessageKindQueue, the set `Barrier`), `Commit` drops the in-flight
part, `Rewind` gives it back.  Its operators are both the abstract specification
of the list and the building blocks of FlushProtocol.

**MessageQueue.tla** is the linked list itself: cells, `next`, `head`, `tail`,
`inFlightEnd`, `length`, one action per method (each holds `q.mu` throughout).  The
loops along `next` are `Walk`, cut off one step after there are no more cells.
`ImplementsBatchQueue` is the refinement: BatchQueue with the values before and
after the cursor as its two regions.

**FlushProtocol.tla** composes the queue with the goroutines that use it.  A
goroutine (an inbound message's, or a session's dispatcher) has a program
counter; `TryFlush` is cut where the code reads or writes shared state:

| code | action |
|---|---|
| `cs.queue.Peek()` | FlushPeek |
| `as := cs.selectedAS` under `cs.mu` | FlushSelect |
| `as.IsReady()` | FlushReady |
| `as.Status()` | FlushStatus |
| the re-check under `cs.mu` | FlushRecheck |
| Submit: `currentPrompt = p`, `isReady = false` | SubmitCommit |
| `h.SendBlocks` returning | SendBlocksOk, SendBlocksFail |
| `cs.queue.Commit()` / `Rewind()` | FlushCommit / FlushRewind |

A session is abstracted to its turn: `status`, `ready`, `prompt`, the turns its
bridge has accepted (`turns`), and the KindPromptEnded events still to be routed
(`ended`).  `Lookup` is one action: the resolve lock, the pool and the spawn are
the routing model's and AgentSession's subject; a lookup whose spawn fails
changes nothing here and is left out.  The commands are cut too: `/cwd` clears the queue
after it has released `cs.mu` (SetSelectedCwd, ClearQueueOnCwdBoundary); `/stop` looks
whether the agent is busy and ends its prompt afterwards, by then perhaps the next one
(StopSelectedAgent, StopEnds); `/close` marks the session exited and ends its prompt
afterwards (CloseAgent, CloseEnds), when a lookup may have respawned it.

**AgentSession.tla** is one session's bridge.  `asMu` guards the fields, and each
critical section, channel operation, spawn and process kill is an action.  A
goroutine's local variables (the captured handle, the fresh bridge, respawn's
`prevStat`, the captured channels) are the fields of `go[t]`.  The correspondence
follows the names: RespawnReap, RespawnLaunch or RespawnFail, RespawnInstall,
RespawnRollback, RespawnArm for `respawn`; Spawn, Keepalive
(`respawnFromDeadHandle`), RestartFromDeath and ResetClose/ResetRearm
(`HandlePTYRestart`) for its four callers; CloseBegin to CloseHandle for `Close`,
inside CloseAgent, which may stop waiting at any time (CloseAgentSetExited);
Pump* for the readpump and for its calls of `endPrompt` and
`emitLifecycleLocked`; Route* for the dispatcher.  Abstractions: `currentPrompt`
and what a prompt says are FlushProtocol's; `TryFlush` is the one step Flush
that leads to a Submit or does not; a turn ends only while one is under way;
events other than the two the session layer acts on do not take room in
`eventQueue`; the readpump's first lines run together with its launch; a bridge's
exit kills its process and closes its channel at once.  `Resetter` is non-empty only
when the bridge is a raw PTY (the only one that returns ErrRestartRequired), and
then Keepalive looks at the transport only, as `bridge/pty/agent.go:257` does.

**ChatRouting.tla** is one chat with all its sessions.  A goroutine runs
LookupSelectedAgentSession, /use or /cwd, the eviction of a directory or
NewActiveAgentSessions, cut where the code takes or releases `cs.mu`, a resolve lock,
the warm pool's or a store's lock; the steps of the lookup carry its name and what
the code does there (LookupHit, LookupMiss, LockResolve, GetWarm, RestoreOrCreate,
LookupRegister, LookupRetry or LookupMount, LookupSubscribe, LookupSpawn,
LookupPersist, LookupUnlock).  The chat's own
goroutine, which attaches the sessions of the pool every 100 ms, is PumpEvents.  An
AgentSession object is a key, an ID and a status; what its spawn does is AgentSession's
subject.  A restart loses everything but the two
files.  `raced` notes that an eviction has overlapped other work on its sessions.

**CodexSession.tla** is one connection with `codex app-server`: the request path of
rpc.go, the read pump, the lifecycle goroutine, Close, and the approvals.  The child
is external and may answer in any order, write garbage and die at any moment.  A pipe
is a sequence of frames; `cmd.Wait` closes it under the reader.  An approval is registered,
shown, decided (an answer received or the wait timed out) and unregistered in separate
steps, so that an answer may come between the timeout and the late delete; `latest` notes
which was registered last.  stderrLoop sends no events and is left out; so are the mutexes
that only serialise writes.

**CodexTurns.tla** is the same bridge one level up: the busy guard and turn id of the
driver, and the translator's turn state.  The server runs one turn and signals its end
by `turn/completed`, an idle status or both; a caller resumes from its request some
time after its response.  Items are an agent message or a tool start.

**DshHub.tla** is StreamHub: subscriptions, the mux pump that dials, reopens and
serves, a readLoop and a writeLoop per connection, all writeLoops on one channel, and
Close.  A connection is a TCP dial, which has a timeout (Dial, DialFails), and a websocket
handshake, which has none and ends when dsh answers or the connection fails (Connect,
HandshakeFails) or not at all.  The host stream and the control projection, whose ids are fixed, are one.

**DshRelay.tla** is what is around it: the shared host's monitor (owned and attached),
its respawn in the steps of tryRespawn (SpawnOnce, Swap, ReplaceGlobal, Snapshot,
Transfer, CloseOld, Drained, Recover), the health probe and its kill, the relay's single
start with waiting drivers, and one pump per session that follows a host change.
`RecoverSubscriptions` may lose a session of a dsh that is up (session.create fails, the
common 30 s are over, or another id comes back: Orphan) as well as open it (Reattach).  The
fallback of an attached host recovers nothing and leaves the old client's Close to a
goroutine (FallbackEnds, HubClose).  A client's Close is two steps: its Hub's, and the
`close(c.closed)` that fires Done.  A Hub is here the set of sessions it asks dsh to
follow.

**FeishuReconnect.tla** is the prober with the SDK runs it replaces: the callbacks that
start and stop it, a tick (CancelRun, AwaitRun, MaybeRebuildClient, SpawnRun,
CheckConnected), a wake-up Kick, and the self-stop of a tick that finds the connection
up.  The SDK is external: a run that is cancelled, or refused after it has been up,
leaves its client terminal.  `overlap` notes that two ticks, or a start and a stop of
the prober, have overlapped.

**MCMessageQueue, MCFlush** add the symmetry sets; the other modules are run as they
are.  The definitions that a comment calls a mutant stand beside the definition they
vary; they take part in no specification.

**The `_proofs` modules** hold the theorems, one for each module with a
specification; those of CodexSession and CodexTurns are together in Codex_proofs, those
of BatchQueue in FlushProtocol_proofs.

## Runs

| run | checks | shows |
|---|---|---|
| queue | ListWellFormed, ImplementsBatchQueue | the list is well formed and refines the abstract queue under any order of calls |
| flush_commands | TypeOK, SoloExactlyOnce, SoloFifo, SoloAttended | exactly once and in order, until two TryFlush calls overlap; until then, and while nothing else disturbs the chat, somebody comes for what is queued |
| flush_live | SoloQueueDrains | the end of a turn flushes what was rewound during it |
| as_session | TypeOK, ClosedStaysClosed | a /close is not undone by a spawn, a crash's recovery or a /new |
| as_close_live | CloseReturns | Close does not wait for ever on a blocked readpump |
| routing | SelectedMatches, AnswerWasSelected, OneSessionPerKey, OneHandler, AckedSelectionSurvives, LookupReturns, SoloDropStaysDropped, TypeOK | concurrent lookups, selections, evictions, resets, deaths, failed saves and a restart keep chat, pools and disk together |
| reconnect | OneConnection, TicksIffStarted, ComesBack | whatever the SDK refuses, one connection at a time, and it comes back |
| codex | AnswersGoToLatest, NobodyStranded, CloseTerminates | a request or a Close overlapping the child's death; two approvals, their timeouts and an answer |
| turns | OneTurnAtATime, OneDonePerTurn, NarrationInOrder, GuardHasRelease, GuardReleased | double, early and missing end signals |
| dsh_hub | StreamsHaveOneOwner, NoStreamOpenedTwice, FollowedUnlessAstray, CloseReturns, Reconnects | subscriptions across a reconnection, with a write queue that fills up |
| dsh_relay | OneHostStart, RespawnKeepsSubscriptions, DshComesBack, StartEnds | drivers against the replacement of dsh |

These runs pass.  Properties with a condition (`~overlapped`, `~raced`, `~overlap`,
`~saveFailed`, UnlessAstray, PumpStuck, HandshakesEnd, `orphans`) have it because the unconditional statement is false of
the code.  One run checks a statement that the code's comments make and that fails:

| run | statement | what the code does |
|---|---|---|
| as_leak_crash | NoBridgeLeaked: the contract of respawn (`session.go:1052`) | two respawns overlap, and one bridge is overwritten alive |

The modules state others, each with the comment it quotes.  TLC finds a counterexample
to every one of them when it is added to the cfg named (with the constants in brackets
changed); they are invariants unless a `[]` or "property" says otherwise:

* FlushProtocol, flush_live.cfg with two inbound goroutines, two Normal messages,
  `Capacity = 0` and no /stop:
  NoMessageLost ("at-least-once", `chatsession.go:236`): one TryFlush commits the batch
  another has taken, which then fails and rewinds nothing; OneTurnInFlight
  (`chatsession.go:1251`), by the same overlap; QueueDrains ("the next KindPromptEnded
  event will trigger a retry", `chatsession.go:1118`, property): the batch is rewound
  after that event.  QueueDrains also with one inbound goroutine and `MaxFails =
  MaxEvents = 1`: a failed send ends no prompt.  PromptEndsOnOwnEvent
  (`agent/prompt_end_reason.go:17`) with `MaxStops = MaxEvents = 1`: after a /stop the
  late terminal event of the old turn ends the next prompt.
* AgentSession, as_leak_crash.cfg: BridgeIsRead ("re-arms the readpump",
  `session.go:1664`): `readpumpStarted` is never reset when a bridge dies;
  SendsOnFreshTransport (`session.go:1305`, `:1388`): Submit sends to the handle captured
  before the recovery; NoPanic ("Idempotent", `session.go:1585`) [two Closers,
  `MaxCloses = 2`]: both close the stop channel.  NoBridgeLeaked fails too with a
  Resetter instead of a crash.
* ChatRouting, routing.cfg: DropStaysDropped ("does not resurrect a corpse",
  `chatsession.go:1918`): a late AgentReady or a lookup writes a dropped session's entry
  again; AckedSelectionOnDisk (`chatstore/store.go:345`): after a failed save memory and
  disk differ until the next one.
* FeishuReconnect, reconnect.cfg without its CONSTRAINT: OneLoopPerCycle
  (`reconnect.go:180`), KickIsSafe (`reconnect.go:289`): two ticks cancel the same run and
  start one each.
* CodexSession, codex.cfg: NoSendOnClosed (`session.go:664`): EventAgentReady may be sent
  after the channel is closed; NoFrameLost (`session.go:544`, property): `cmd.Wait`
  closes the pipe before the reader has drained it; ShownIsAnswerable (`agent.go:378`)
  [`NumericIds = TRUE`]: a numeric request id reads as the empty string, which means
  "nothing pending"; AnswersCount (`permissions.go:193`, property): an answer accepted
  between the timeout and the unregistration settles nothing; AnsweredWasShown
  (`agent.go:378`, property): an approval can be answered before its event is delivered.
* CodexTurns, turns.cfg [`MaxNews = 0`]: StopNamesTurnInFlight (`agent.go:76-80`): the
  turn id is not cleared between turns, so Stop may interrupt the previous one.
* DshHub, dsh_hub.cfg: EveryStreamReopened (`stream.go:430`): the writer of the dead
  connection takes an open frame meant for the new one; NothingHandledAfterClose
  (`host.go:270`).  CloseAlwaysReturns (property): `websocket.NewClient` (`stream.go:479`)
  has no deadline and sees neither `ctx` nor `h.stop`, so a dsh that accepts TCP and never
  answers keeps the pump in the handshake and Close at `pumpWG.Wait` (`stream.go:387`).
  CloseReturns therefore has HandshakesEnd as a hypothesis.  CloseReturns and Reconnects
  also except the state PumpStuck, and fail without the exception: the pump sends the open frames of a connection without a `select`
  (`stream.go:607`), so when the write queue is full and every writeLoop has gone it waits
  for ever, and Close, which waits for the pump, with it.  NoStreamOpenedTwice does not hold of the host
  stream and excludes it.
* DshRelay, dsh_relay.cfg: SubscriptionsReattached (`lifecycle.go:198-200`, which says that
  the fallback is recovered as the owned respawn is): the fallback calls neither Snapshot nor
  RecoverSubscriptions, so the new client routes only the session whose pump took the one
  token; LiveDriverRouted and ClosedNotRouted (`relay.go:414`): a token
  of a host change is taken by whichever pump comes first; NoPanic: a pump subscribes on
  a closed Hub; OnlyWedgedKilled (`lifecycle.go:1264`, property): the probe may kill the
  replacement; MonitorNeverExits (`lifecycle.go:189`) [`MaxForeign = 2`].
* "Rewind rolls back the most recent Peek" (`message_queue.go:344`): it gives back
  all in-flight batches, as BatchQueue!Rewind says.

### Bounds

Every bound is a constant.  In FlushProtocol `Max*` bound how often each
disturbance happens and `MaxEvents` how often all of them together; in
AgentSession `Max*` bound messages, crashes, /close and /new, and `MaxBridges` the
processes spawned (a spawn beyond it fails, which is an outcome the code handles).
They are small because a disturbance matters through its order relative to the
steps of a few goroutines.

* queue: three messages, one of them a barrier, and four cells; the capacity is
  reached, the list is emptied, cells are reused and an ID is queued twice.
* flush_commands: three messages with a capacity of two, so that Push fails; two
  sessions, so that the selection can change; one inbound goroutine and two
  dispatchers; any two disturbances.  Two dispatchers and an inbound goroutine
  already overlap, so the conditional properties are checked on both sides.
* flush_live: one session, three messages and one /stop: the shortest history in
  which a batch is rewound, the turn's end comes, and a barrier forces a second
  flush.
* as_session: any three of two messages, a crash, a /close and a /new on a raw PTY
  bridge (`MaxInputs`), and up to three bridges: the first, the one that replaces it and
  one more.
* as_close_live, as_leak_crash: a message, a crash and a /close; two bridges.  `EventCap`
  1 makes the readpump block.
* routing: one agent and two directories, so that A, B, A and an eviction of the
  directory one looks up in are possible; two goroutines; any four of a lookup (twice), a
  command (twice), an eviction, a reset, a death, a failed save and a restart.
* reconnect: two losses, a refusal and a wake-up; two SDK runs and two ticking goroutines
  at a time; a rebuild streak of two.  The constraint cuts behaviours off after an
  overlap, where the properties promise nothing.
* codex: one request, two approvals (the second may displace the first), a channel of
  one, so that every send may find it full; two frames of the child.
* turns: two turns, so that the end of one may be taken for the end of the next.
* dsh_hub: two sessions, two connections, two calls, a stream that dsh ends; a write
  queue of three, which two open frames and a cancel fill: frames are dropped, and the
  pump may get stuck (see above).
* dsh_relay: two sessions, two drivers, two dsh processes, one fault, one foreign dsh,
  one close: a respawn may overlap a start, a subscription and a close.  `ProbeStrikes` 1
  and `AttachedStrikes` 2 stand for 3 each: a dsh may answer again between two strikes, and
  either of the probe and the monitor may act on it first.

### Fairness

`FairSpec` of FlushProtocol assumes weak fairness for a goroutine inside a call, for
the dispatcher while there are events, for a command that has begun (ClearQueueOnCwdBoundary,
StopEnds, CloseEnds) and for the bridge while it has a turn: Go runs every runnable goroutine, and the
property is about a bridge that answers.  Commands, failures and new messages have
no fairness.  `FairSpec` of AgentSession assumes weak fairness for every goroutine
inside an operation and strong fairness for the readpump's stop case: `select`
chooses at random among its ready cases, so one that is ready again and again is
taken in the end.  In ChatRouting some goroutine that can go on
with its call does so, and a spawn or a Close under way returns; no call there goes on for
ever, so this asks less than fairness of each goroutine.  In CodexSession the pumps, the lifecycle and
a Close that was called run; the child owes nothing, its end comes from Close.  In
CodexTurns the server ends its turns and the read pump handles frames.  In DshHub
goroutines run, a TCP dial ends by its timeout and a lost connection is noticed by its read
deadline; a handshake has no fairness, for nothing in the code ends it.  What the two
liveness properties need of dsh is their hypothesis: HandshakesEnd for CloseReturns (no
handshake lasts for ever, whether it succeeds or not), DshAnswers for Reconnects (of the
handshakes that follow each other one succeeds).  In FeishuReconnect goroutines run, time
passes, and a connection that is tried again and again succeeds once (strong fairness): the
property is about a network that comes back.  In DshRelay the monitor, the probe and some driver or
pump run (none of the latter goes on for ever), Hub.Close returns
(which is DshHub's CloseReturns, with its hypothesis) and a spawn of dsh succeeds; that a
session.create succeeds is not assumed, and deaths, foreign dsh processes and closes have
no fairness.

## Proofs

A theorem holds for every value of the constants that its module's assumption admits:
any finite heap, any sets of messages, goroutines, agents, directories and sessions, and
any value of the `Max*` bounds.  Each of the following names the property a run checks
and the inductive invariant its proof is about; the property alone is not inductive.

| theorem | property | inductive invariant, and why |
|---|---|---|
| MessageQueue_proofs!ListCorrect | ListWellFormed | `Inv`: some injective sequence of cells is the list, linked in its order, and the cursor is at one of its places (`Listed`).  The property speaks of walks along `next`; what a walk sees is first proved by induction over its steps (WalkSteps) |
| MessageQueue_proofs!ImplementsCorrect | ImplementsBatchQueue | `Inv`; one lemma per method says what it does to the two regions |
| FlushProtocol_proofs!QueueTypeCorrect | QueueTypeOK | itself; one lemma per operation of the abstract queue |
| FlushProtocol_proofs!TypeCorrect | TypeOK | itself, from the lemmas on the queue |
| FlushProtocol_proofs!SoloCorrect | SoloExactlyOnce | `SoloInv`, see below |
| FlushProtocol_proofs!FifoCorrect | SoloFifo | `FifoInv`: besides what was delivered, both regions of the queue are in order, and nothing pending was sent before a message of the batch that a goroutine holds; the batch is tracked on its own because /cwd may clear the region under it |
| FlushProtocol_proofs!SoloAttendedAlways | SoloAttended | `AttendInv`, besides `SoloInv`: the selected AgentSession is running and the only one submitted to; one that is not ready has a turn, or a goroutine is just giving it one; so a goroutine about to settle its batch has somebody coming after it |
| AgentSession_proofs!TypeCorrect | TypeOK | itself |
| AgentSession_proofs!ClosedCorrect | ClosedStaysClosed | `Typed`, `Born`, `CloserHolds`: if a bridge of a closed session is alive, the Close under way has captured it and has still to kill it; a respawn that installs one later finds closedByUser set |
| ChatRouting_proofs!AckedSelectionSurvivesAlways | AckedSelectionSurvives | `Acked`: at most one command is between its store write and its change of the chat; until a save fails, disk and store are one, and hold the acknowledged selection or that with this command's setting; a chat under construction has read the store as it still is |
| ChatRouting_proofs!TypeCorrect | TypeOK | `Solid`: TypeOK with `Routed` |
| ChatRouting_proofs!OneSessionPerKeyAlways, SoloDropStaysDroppedAlways, OneHandlerAlways | OneSessionPerKey, SoloDropStaysDropped, OneHandler | `Sessions`: `Solid`, and `Solo` until `raced`, see below |
| ChatRouting_proofs!SelectedMatchesAlways, AnswerWasSelectedAlways | SelectedMatches, AnswerWasSelected | `Routed`: besides `Acked`, each pool entry is a session of its key, `selectedAS` one of the selection, and a lookup has, from its registration on, a session of the key it looked up, which was selected during the call |
| Codex_proofs!NobodyStrandedAlways | NobodyStranded | `Requests`: a request that has no answer yet is registered, and once the client is closed a registered one does not wait, unless whoever closed it is about to fail it |
| Codex_proofs!AnswersGoToLatestAlways | AnswersGoToLatest | `Latest`: itself, and that every key of the pending table is its approval's own (`KeysOK`; with numeric ids there is one key, and nothing is ever answered) |
| Codex_proofs!OneTurnAtATimeAlways | OneTurnAtATime | `Guarded`: the guard is free only when nothing is under way; what is under way is one request, one refusal or one turn; an end signal still to be handled before a turn's start is a second one of the turn before, and will be ignored |
| Codex_proofs!OneDonePerTurnAlways | OneDonePerTurn | `Turnwise`: `Guarded`, and `Reporting`: the frames on their way are grouped by turn, in order; what the translator keeps open is the turn of the next frame; a turn that is still to be framed has no Done; a turn that has said something and has no Done yet is the open one, and an end signal of it is on its way |
| Codex_proofs!NarrationInOrderAlways | NarrationInOrder | `Turnwise` and itself: no text is held back when a turn starts, for its own turn would still have its end to come |
| Codex_proofs!GuardHasReleaseAlways | GuardHasRelease | `Released`: `Turnwise`, the answer to a turn/start has the start of its turn before it (`Answers`), and itself |
| DshHub_proofs!StreamsHaveOneOwnerAlways | StreamsHaveOneOwner | itself, with the types of the hub's tables |
| DshHub_proofs!NoStreamOpenedTwiceAlways | NoStreamOpenedTwice | `Once`: an open frame of a stream is in the write queue at most once, and not if a connection has received it or the pump has still to send it; a stream minted next has no frame anywhere |
| DshHub_proofs!FollowedUnlessAstrayAlways | FollowedUnlessAstray | `Following`: besides `Once`, while the hub is open the pump's position agrees with its connections, and every subscribed stream is found somewhere: with the pump, in the write queue, on the live connection, among the streams it has ended, or astray |
| DshRelay_proofs!OneHostStartAlways | OneHostStart | `Inflight`, `NoHostYet`, `HandleReady`: one driver holds the start; before it has started the host there is neither host nor monitor; a session's driver is ready |
| DshRelay_proofs!RespawnKeepsSubscriptionsAlways | RespawnKeepsSubscriptions | `Handover`: the relay's host is the shared host's client, but between Swap and ReplaceGlobal or while there is no token; that client's Hub is open; from the snapshot to the end of the recovery each subscription is on its way with a pump, is still to be transferred, or is routed on the new client, and once its turn in the recovery is over it is followed or among the reported orphans |
| FeishuReconnect_proofs!OneConnectionAlways, TicksIffStartedAlways | OneConnection, TicksIffStarted | `Connects`: until the first overlap, a tick between its cancel and its spawn leaves no run uncancelled; a started prober has a loop or is about to launch it, and one that is not has none, or somebody is about to close its channels |

SoloExactlyOnce needs most: that a message is not lost when a batch is committed needs
that the in-flight region is exactly the batch of the one goroutine that holds one, that
the batch is delivered just when its holder is about to commit, and that no message is
twice in the queue.  `SoloInv` says so: NoDuplicates and Recorded hold of every
behaviour, TargetChosen of every goroutine, and Solo as long as no two TryFlush calls
have overlapped.  `/cwd` is the delicate case: it clears the region under the holder,
whose Commit and Rewind then find it empty, and the messages are reported dropped.

OneSessionPerKey, SoloDropStaysDropped and OneHandler of ChatRouting hold together or not
at all.  (The first part of OneSessionPerKey, that no two lookups spawn for a key at once, is
the resolve lock's and holds of every behaviour; that an object has one bridge is not claimed,
and as_leak_crash refutes it.)  That the running session of a key is the warm pool's entry
needs that a lookup
which has found or made a session holds the key's resolve lock until the entry is there;
that a dropped session stays away needs that none of those who still hold a reference
(a lookup, the chat's own pool, a command) holds one to a dropped session; that a session
has one handler needs that the one lookup which may subscribe has it unsubscribed before.
`Solo` says this of every goroutine at every step between (ActiveWarm, AllHandled,
PoolWarm, AllServe, FileLasts, WarmLasts), as long as no eviction has overlapped
another call on its sessions.

The proofs rest on the named assumptions of the modules and on nothing else:
NodeAssumption (finitely many cells, `nil` is none), QueueAssumption, FlushAssumption,
SessionAssumption, RoutingAssumption, CodexAssumption, AsksAssumption (the empty string
is no approval), CodexTurnsAssumption,
HubAssumption (finitely many sessions, so that there is a fresh stream id),
RelayAssumption and ReconnectAssumption.  The prover has no induction scheme for an operator; where a proof
needs induction (the steps of a walk, the least place of a barrier or of a message to
remove) it is stated with sets and derived from the well-foundedness of `<` on the
naturals (NatMinimum, NatInductionSet).

Every safety property of a passing run is proved.  Only model-checked are the liveness
properties (SoloQueueDrains, CloseReturns, LookupReturns, ComesBack, CloseTerminates,
GuardReleased, Reconnects, DshComesBack, StartEnds), which the prover cannot treat; the
violations are single behaviours and need no proof.  SoloAttended and GuardHasRelease are
the safety halves of SoloQueueDrains and GuardReleased: what is waited for is always
still to come; that it does come is fairness, and stays with TLC.

## Plan

1. Proofs: the safety halves of the other liveness properties: that a Close under way, of
   an AgentSession, a codex session or the hub, never waits for a goroutine that waits for
   it, and that a lookup in progress has a step to take.
2. A composition of DshHub and DshRelay, with the Hub of a client in full.
3. The workflow engine (`internal/wfe`), ACP's session protocol
   (`internal/bridge/acp`), and the shutdown order of the daemon.

## Not modelled

The outbound gateway and the channel adapters render events and talk to external
services; the git workflow commands drive external programs in sequence; daemon
control, the updater, wake detection, configuration, logins and speech to text
are platform plumbing.  They share no state with the parts above beyond what the
models take as inputs.  The watchdog and the prober mark sessions suspect,
and nothing acts on the mark but a notice; the heartbeat tracker feeds a display; the
event bus is a list of handlers behind a lock.  Of the bridges, codex and dsh are
modelled; claudecode, pi, acp, omp, opencode, copilot, cursor and pty are seen from the
session layer only, which relies on a process, a channel that closes at its death, and
Keepalive.  Most of the code is of these kinds, so the models cover a small share of its
lines: rendering, parsing and calls of external services have no state to model.
Within the modelled parts: codex's Stop that interrupts a child without a turn id sends
SIGINT (`codex/agent.go:520`); CodexTurns has the wait for the id and not the signal, whose
effect, the child's end, is ChildDies in CodexSession and the bridge's death in AgentSession.
The text of a contextCompaction item (`translate.go:436`) is left out of the narration.
ChatRouting!Subscribe marks the chat's subscription and adds the handler to the event bus in
one step: an event published between the two is lost to the chat, which the module does not
have.  A pass of PumpEvents reads the pool and attaches in one step too; a pass that
attaches a session which an eviction drops meanwhile is left out.
`DropQueue`, `Remove` and `Shutdown` have no caller outside the tests; Remove is
modelled as part of the queue.
