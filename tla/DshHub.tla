------------------------------- MODULE DshHub -------------------------------
(***************************************************************************)
(* StreamHub (bridge/dsh/host/stream.go): the one WebSocket to dsh that    *)
(* carries a session/follow stream for every subscribed session and the    *)
(* host stream.  The mux pump dials, opens the streams again and serves    *)
(* until a side fails; one readLoop and one writeLoop run per connection,  *)
(* and every writeLoop drains the one writeCh.                             *)
(*                                                                         *)
(* dsh is external: it follows what it is asked to follow.  The streams of *)
(* the host and of the control projection, whose ids are fixed, are one    *)
(* here.  Goroutines are cut at h.mu, at the channels and at the wire.     *)
(***************************************************************************)
EXTENDS Naturals, Sequences, FiniteSets, Functions

CONSTANTS
    Sessions,
    WriteCap,       \* capacity of writeCh (32)
    MaxConns, MaxCalls, MaxEnds  \* bounds: connections, Subscribe and Unsubscribe calls,
                                 \* streams that dsh ends

ASSUME HubAssumption ==
    /\ IsFiniteSet(Sessions)
    /\ {WriteCap, MaxConns, MaxCalls, MaxEnds} \subseteq Nat

VARIABLES
    sessions,   \* h.sessions: session |-> [stream, generation]
    byStream,   \* h.byStreamID: stream |-> session
    minted,     \* streamSeq
    writeCh,
    closed,     \* h.closed, and h.stop
    conns,      \* the connections dialled, the last of them h.conn; its index is
                \* currentGeneration
    pump,       \* runMuxLoop: where it is, and the frames of toReopen still to send
    readers, writers,  \* readLoop and writeLoop of each connection
    closer,     \* the caller of Close
    calls,      \* Subscribe and Unsubscribe calls, streams that dsh may still end
    astray      \* streams whose open frame found writeCh full, or went to the writeLoop
                \* of an earlier connection

hubVars == <<sessions, byStream, minted, writeCh, closed, conns, pump, readers,
             writers, closer, calls, astray>>
tables == <<sessions, byStream, minted>>
goroutines == <<pump, readers, writers, closer>>

HostStream == 0
None == [stream |-> 0, generation |-> 0]
Open(st) == [type |-> "open", stream |-> st]
Cancel(st) == [type |-> "cancel", stream |-> st]
Registered == {s \in Sessions : sessions[s] # None}
Generation == Len(conns)

\* What dsh has: `net` is "up", "lost" (nobody has noticed) or "closed" by the hub.
NewConn == [net |-> "up", opened |-> {}, follows |-> {}, ended |-> {}, twice |-> {}]
Gone(c, net) == [c EXCEPT !.net = net, !.opened = {}, !.follows = {}, !.ended = {}]

HubInit ==
    /\ sessions = [s \in Sessions |-> None] /\ byStream = <<>> /\ minted = 0
    /\ writeCh = <<>> /\ closed = FALSE
    /\ conns = <<>> /\ readers = <<>> /\ writers = <<>>
    /\ pump = [at |-> "dial", todo |-> {}]
    /\ closer = "none"
    /\ calls = [subs |-> MaxCalls, ends |-> MaxEnds]
    /\ astray = {}

\* A select with a default: a frame that finds writeCh full is dropped.
Queued(ch, frame) == IF Len(ch) < WriteCap THEN Append(ch, frame) ELSE ch

-----------------------------------------------------------------------------
(* Subscribe, Unsubscribe and Close, each under h.mu.                       *)

Called == calls.subs > 0 /\ calls' = [calls EXCEPT !.subs = @ - 1]
Without(st) == Restrict(byStream, DOMAIN byStream \ {st})
WithStream(f, st, s) == [x \in DOMAIN f \cup {st} |-> IF x = st THEN s ELSE f[x]]

\* The open frame of the stream just minted; without a connection the next one brings it.
OpenQueued(ch) ==
    /\ writeCh' = IF conns # <<>> THEN Queued(ch, Open(minted')) ELSE ch
    /\ astray' = IF conns # <<>> /\ Len(ch) >= WriteCap THEN astray \cup {minted'} ELSE astray

\* Mutant: the stream that is replaced stays in byStreamID.
SubscribeKeepsOld(s) ==
    /\ ~closed /\ Called
    /\ minted' = minted + 1
    /\ sessions' = [sessions EXCEPT
           ![s] = [stream |-> minted', generation |-> Generation]]
    /\ byStream' = WithStream(byStream, minted', s)
    /\ OpenQueued(writeCh)
    /\ UNCHANGED <<closed, conns, goroutines>>

\* The caller's session is new, or replaces its own subscription.
Subscribe(s) ==
    /\ ~closed /\ Called
    /\ minted' = minted + 1
    /\ sessions' = [sessions EXCEPT
           ![s] = [stream |-> minted', generation |-> Generation]]
    /\ byStream' = WithStream(Without(sessions[s].stream), minted', s)
    /\ LET cancelled == IF s \in Registered
                        THEN Queued(writeCh, Cancel(sessions[s].stream)) ELSE writeCh
       IN OpenQueued(cancelled)
    /\ UNCHANGED <<closed, conns, goroutines>>

Unsubscribe(s) ==
    /\ s \in Registered /\ ~closed /\ Called
    /\ sessions' = [sessions EXCEPT ![s] = None]
    /\ byStream' = Without(sessions[s].stream)
    /\ writeCh' = Queued(writeCh, Cancel(sessions[s].stream))
    /\ UNCHANGED <<minted, closed, conns, goroutines, astray>>

\* In the order in which the map is walked, as long as there is room.
CancelAll ==
    \E n \in 0..Cardinality(DOMAIN byStream) :
        /\ Len(writeCh) + n <= WriteCap
        /\ n = Cardinality(DOMAIN byStream) \/ Len(writeCh) + n = WriteCap
        /\ \E order \in [1..n -> DOMAIN byStream] :
             /\ IsInjective(order)
             /\ writeCh' = writeCh \o [i \in 1..n |-> Cancel(order[i])]

\* Up to the wait for the pump; conn.Close follows the unlock at once.
Close ==
    /\ ~closed
    /\ closed' = TRUE
    /\ CancelAll
    /\ sessions' = [s \in Sessions |-> None] /\ byStream' = <<>>
    /\ conns' = IF conns = <<>> THEN conns
                ELSE [conns EXCEPT ![Len(conns)] = Gone(@, "closed")]
    /\ closer' = "pump"
    /\ UNCHANGED <<minted, pump, readers, writers, calls, astray>>

\* pumpWG.Wait, then waitDispatchDrain.
Handling == {k \in DOMAIN readers : readers[k] = "handle"}
CloseDrains ==
    /\ \/ closer = "pump" /\ pump.at = "done" /\ closer' = "drain"
       \/ closer = "drain" /\ Handling = {} /\ closer' = "returned"
    /\ UNCHANGED <<tables, writeCh, closed, conns, pump, readers, writers, calls, astray>>

-----------------------------------------------------------------------------
(* The mux pump.                                                            *)

\* The TCP dial, which has a timeout.
Dial ==
    /\ pump.at = "dial"
    /\ pump' = [pump EXCEPT !.at = "handshake"]
    /\ UNCHANGED <<tables, writeCh, closed, conns, readers, writers, closer, calls, astray>>

DialFails ==
    /\ pump.at = "dial"
    /\ pump' = [pump EXCEPT !.at = "backoff"]
    /\ UNCHANGED <<tables, writeCh, closed, conns, readers, writers, closer, calls, astray>>

\* websocket.NewClient, which has no deadline and looks neither at ctx nor at h.stop: it
\* ends when dsh answers, or when the connection fails, and not before.
HandshakeFails ==
    /\ pump.at = "handshake"
    /\ pump' = [pump EXCEPT !.at = "backoff"]
    /\ UNCHANGED <<tables, writeCh, closed, conns, readers, writers, closer, calls, astray>>

\* Mutant: compares with the generation before the new connection's.
ToReopenOlder == {s \in Registered : sessions[s].generation # Generation}

\* The subscriptions that were not made for the new connection (all of them).
ToReopen == {s \in Registered : sessions[s].generation # Generation + 1}

\* Mutant: a subscription keeps its stream.
SameStreams(order) ==
    [s \in Sessions |->
        IF s \in ToReopen
        THEN [sessions[s] EXCEPT !.generation = Generation + 1] ELSE sessions[s]]

Reminted(order) ==
    [s \in Sessions |->
        IF s \in ToReopen
        THEN [stream |-> minted + order[s], generation |-> Generation + 1]
        ELSE sessions[s]]

\* dsh answers; h.closed is read only now.
Connect ==
    /\ pump.at = "handshake" /\ (closed \/ Len(conns) < MaxConns)
    /\ IF closed
       THEN /\ pump' = [pump EXCEPT !.at = "backoff"]
            /\ UNCHANGED <<tables, conns, readers, writers>>
       ELSE /\ conns' = Append(conns, NewConn)
            /\ readers' = Append(readers, "read")
            /\ writers' = Append(writers, "wait")
            /\ \E order \in [ToReopen -> 1..Cardinality(ToReopen)] :
                 /\ IsInjective(order)
                 /\ sessions' = Reminted(order)
            /\ minted' = minted + Cardinality(ToReopen)
            /\ byStream' = [st \in {sessions'[s].stream : s \in Registered} |->
                              CHOOSE s \in Registered : sessions'[s].stream = st]
            /\ pump' = [at |-> "reopen",
                        todo |-> {sessions'[s].stream : s \in ToReopen} \cup {HostStream}]
    /\ UNCHANGED <<writeCh, closed, closer, calls, astray>>

\* A blocking send; the sessions come in any order, the host stream after them.
Reopen ==
    /\ pump.at = "reopen"
    /\ IF pump.todo = {}
       THEN pump' = [pump EXCEPT !.at = "serve"] /\ UNCHANGED writeCh
       ELSE \E st \in pump.todo :
              /\ st = HostStream => pump.todo = {HostStream}
              /\ Len(writeCh) < WriteCap
              /\ writeCh' = Append(writeCh, Open(st))
              /\ pump' = [pump EXCEPT !.todo = @ \ {st}]
    /\ UNCHANGED <<tables, closed, conns, readers, writers, closer, calls, astray>>

\* Mutant: waits for both sides, the writer of an idle connection among them.
ServeEndsBoth ==
    /\ pump.at = "serve"
    /\ readers[Len(readers)] = "gone" /\ writers[Len(writers)] = "gone"
    /\ conns' = [conns EXCEPT ![Len(conns)] = Gone(@, "closed")]
    /\ pump' = [pump EXCEPT !.at = "backoff"]
    /\ UNCHANGED <<tables, writeCh, closed, readers, writers, closer, calls, astray>>

\* The first side to fail; the other is not waited for.
ServeEnds ==
    /\ pump.at = "serve"
    /\ readers[Len(readers)] = "gone" \/ writers[Len(writers)] = "gone"
    /\ conns' = [conns EXCEPT ![Len(conns)] = Gone(@, "closed")]
    /\ pump' = [pump EXCEPT !.at = "backoff"]
    /\ UNCHANGED <<tables, writeCh, closed, readers, writers, closer, calls, astray>>

\* Mutant: dials again whether or not the hub is closed.
BackoffRedials ==
    /\ pump.at = "backoff"
    /\ pump' = [pump EXCEPT !.at = "dial"]
    /\ UNCHANGED <<tables, writeCh, closed, conns, readers, writers, closer, calls, astray>>

Backoff ==
    /\ pump.at = "backoff"
    /\ pump' = [pump EXCEPT !.at = IF closed THEN "done" ELSE "dial"]
    /\ UNCHANGED <<tables, writeCh, closed, conns, readers, writers, closer, calls, astray>>

-----------------------------------------------------------------------------
(* A connection, its reader and its writer.                                 *)

NetworkLost ==
    /\ conns # <<>> /\ conns[Len(conns)].net = "up" /\ Len(conns) < MaxConns
    /\ conns' = [conns EXCEPT ![Len(conns)] = Gone(@, "lost")]
    /\ UNCHANGED <<tables, writeCh, closed, goroutines, calls, astray>>

Received(c, frame) ==
    IF frame.type = "open"
    THEN [c EXCEPT !.opened = @ \cup {frame.stream}, !.follows = @ \cup {frame.stream},
                   !.twice = @ \cup (c.opened \cap {frame.stream})]
    ELSE [c EXCEPT !.follows = @ \ {frame.stream}]

\* Every writeLoop that waits may get the next frame.  A write to a lost connection may
\* succeed; one to a closed connection fails.
Write(k) ==
    /\ writers[k] = "wait" /\ writeCh # <<>>
    /\ writeCh' = Tail(writeCh)
    /\ IF conns[k].net = "up"
       THEN conns' = [conns EXCEPT ![k] = Received(@, Head(writeCh))] /\ UNCHANGED writers
       ELSE /\ writers' \in {writers, [writers EXCEPT ![k] = "gone"]}
            /\ conns[k].net = "closed" => writers'[k] = "gone"
            /\ UNCHANGED conns
    /\ astray' = astray \cup {st \in {Head(writeCh).stream} :
                                /\ Head(writeCh).type = "open"
                                /\ k < Len(conns)}
    /\ UNCHANGED <<tables, closed, pump, readers, closer, calls>>

WriterStops(k) ==
    /\ writers[k] = "wait" /\ closed
    /\ writers' = [writers EXCEPT ![k] = "gone"]
    /\ UNCHANGED <<tables, writeCh, closed, conns, pump, readers, closer, calls, astray>>

\* An item, and dispatch's look-up of its stream under h.mu; one of an unknown stream
\* is dropped.
Read(k) ==
    /\ readers[k] = "read" /\ conns[k].net = "up"
    /\ \E st \in conns[k].follows : st = HostStream \/ st \in DOMAIN byStream
    /\ readers' = [readers EXCEPT ![k] = "found"]
    /\ UNCHANGED <<tables, writeCh, closed, conns, pump, writers, closer, calls, astray>>

ReadEnd(k) ==
    /\ readers[k] = "read" /\ conns[k].net = "up"
    /\ calls.ends > 0 /\ calls' = [calls EXCEPT !.ends = @ - 1]
    /\ \E st \in conns[k].follows \ {HostStream} :
         /\ byStream' = Without(st)
         /\ conns' = [conns EXCEPT ![k].follows = @ \ {st}, ![k].ended = @ \cup {st}]
    /\ UNCHANGED <<sessions, minted, writeCh, closed, goroutines, astray>>

ReadFails(k) ==
    /\ readers[k] = "read" /\ conns[k].net # "up"
    /\ readers' = [readers EXCEPT ![k] = "gone"]
    /\ UNCHANGED <<tables, writeCh, closed, conns, pump, writers, closer, calls, astray>>

\* markDispatchStart, the handler, markDispatchDone.
Dispatch(k) ==
    /\ \/ readers[k] = "found" /\ readers' = [readers EXCEPT ![k] = "handle"]
       \/ readers[k] = "handle" /\ readers' = [readers EXCEPT ![k] = "read"]
    /\ UNCHANGED <<tables, writeCh, closed, conns, pump, writers, closer, calls, astray>>

-----------------------------------------------------------------------------
ConnStep(k) ==
    \/ Write(k) \/ WriterStops(k) \/ Read(k) \/ ReadEnd(k) \/ ReadFails(k) \/ Dispatch(k)
PumpStep ==
    \/ Dial \/ DialFails \/ HandshakeFails \/ Connect
    \/ Reopen \/ ServeEnds \/ Backoff
HubNext ==
    \/ \E s \in Sessions : Subscribe(s) \/ Unsubscribe(s)
    \/ Close \/ CloseDrains \/ PumpStep \/ NetworkLost
    \/ \E k \in DOMAIN conns : ConnStep(k)

HubSpec == HubInit /\ [][HubNext]_hubVars

\* The goroutines run; a TCP dial ends (its timeout); a connection that is lost is noticed
\* (the read deadline).  Nothing makes a handshake end.
HubFairness ==
    /\ WF_hubVars(CloseDrains) /\ WF_hubVars(Reopen) /\ WF_hubVars(ServeEnds)
    /\ WF_hubVars(Backoff) /\ WF_hubVars(Dial \/ DialFails)
    /\ \A k \in 1..MaxConns :
         /\ WF_hubVars(k \in DOMAIN conns /\ Write(k))
         /\ WF_hubVars(k \in DOMAIN conns /\ (ReadFails(k) \/ Dispatch(k)))
HubFairSpec == HubSpec /\ HubFairness

-----------------------------------------------------------------------------
\* A stream belongs to the one subscription of its session, whatever was replaced,
\* ended or minted again meanwhile: no item reaches a session by a stream it has given
\* up (Subscribe: "replaces the prior subscription AND cancels the prior stream").
StreamsHaveOneOwner ==
    \A st \in DOMAIN byStream : sessions[byStream[st]].stream = st

\* dsh never sees a session's stream opened twice on a connection, on which it would end
\* the connection (stream.go:553), although an open queued for one connection may be sent
\* on the next.  The host stream, whose id is fixed, has no such protection.
NoStreamOpenedTwice == \A k \in DOMAIN conns : conns[k].twice \subseteq {HostStream}

\* Once everything is sent, dsh follows the stream of every subscription, but for those
\* it has ended and those whose open frame was dropped at a full writeCh or went to the
\* writeLoop of a connection that is gone.
Settled ==
    /\ pump.at = "serve" /\ writeCh = <<>> /\ ~closed
    /\ conns[Len(conns)].net = "up" /\ writers[Len(conns)] = "wait"
Missed == {st \in {sessions[s].stream : s \in Registered} \cup {HostStream} :
             st \notin conns[Len(conns)].follows \cup conns[Len(conns)].ended}
FollowedUnlessAstray == Settled => Missed \subseteq astray

\* "After a fresh connect it re-opens every active subscription so callers don't have to"
\* (stream.go:430).
EveryStreamReopened == Settled => Missed = {}

\* "Done() fires AFTER Hub.Close returns ... consumers can rely on the mux pump being
\* fully drained" (host.go:270): no handler runs after Close.
NothingHandledAfterClose == closer = "returned" => Handling = {}

\* The pump sends the open frames of a new connection without a select (stream.go:607):
\* when writeCh is full and every writeLoop is gone, it waits for ever.
PumpStuck ==
    /\ pump.at = "reopen" /\ pump.todo # {}
    /\ Len(writeCh) = WriteCap /\ \A k \in DOMAIN writers : writers[k] = "gone"

\* Two things the code cannot bring about: an end of the handshake, and an answer to one
\* of the handshakes that follow each other.
HandshakesEnd == []<>(pump.at # "handshake")
DshAnswers ==
    []<>(pump.at \in {"dial", "handshake"})
        => []<>(pump.at \notin {"dial", "handshake", "backoff"})

\* Close returns whatever the pump is doing (dialling, backing off, opening, serving), but
\* for a pump that is stuck or in a handshake that does not end.
CloseReturns == HandshakesEnd => (closed ~> closer = "returned" \/ PumpStuck)

\* Without the two exceptions: Close always returns.
CloseAlwaysReturns == closed ~> closer = "returned"

\* A connection that fails is followed by another, until there is one that serves, the hub
\* is closed or the pump is stuck, provided that dsh answers again.
Reconnects ==
    DshAnswers =>
        []<>(closed \/ PumpStuck
             \/ (pump.at = "serve" /\ conns[Len(conns)].net = "up"))
=============================================================================
