--------------------------- MODULE DshHub_proofs ---------------------------
(***************************************************************************)
(* Proofs about DshHub for every finite set of sessions, every capacity of *)
(* writeCh and any number of connections and calls: a stream has one       *)
(* owner, is opened once and, once all is sent, followed.                  *)
(***************************************************************************)
EXTENDS DshHub, FiniteSetTheorems, TLAPS

Subscription == [stream : Nat, generation : Nat]
TablesOK ==
    /\ sessions \in [Sessions -> Subscription]
    /\ byStream \in [DOMAIN byStream -> Sessions] /\ DOMAIN byStream \subseteq Nat
    /\ minted \in Nat
Owned == TablesOK /\ StreamsHaveOneOwner

LEMMA OwnedInit == HubInit => Owned
BY DEF HubInit, Owned, TablesOK, Subscription, None, StreamsHaveOneOwner

-----------------------------------------------------------------------------
(* A stream has one owner.                                                  *)

LEMMA WithoutOK ==
    ASSUME TablesOK, NEW st
    PROVE  /\ DOMAIN Without(st) = DOMAIN byStream \ {st}
           /\ \A x \in DOMAIN byStream \ {st} : Without(st)[x] = byStream[x]
BY DEF Without, Restrict, TablesOK

LEMMA ToReopenOK ==
    /\ IsFiniteSet(ToReopen) /\ Cardinality(ToReopen) \in Nat
    /\ ToReopen \subseteq Registered /\ Registered \subseteq Sessions
<1>1. ToReopen \subseteq Registered /\ Registered \subseteq Sessions
  BY DEF ToReopen, Registered
<1> QED
  BY <1>1, HubAssumption, FS_Subset, FS_CardinalityType

\* The two ways in which a table changes: a session's stream is replaced or removed.
LEMMA ReplacedOwned ==
    ASSUME Owned, NEW s \in Sessions, NEW new \in Nat,
           sessions' \in [Sessions -> Subscription], minted' \in Nat,
           sessions'[s].stream = new,
           \A t \in Sessions \ {s} : sessions'[t] = sessions[t],
           byStream' = WithStream(Without(sessions[s].stream), new, s)
    PROVE  Owned'
<1>1. /\ DOMAIN byStream' = (DOMAIN byStream \ {sessions[s].stream}) \cup {new}
      /\ \A x \in DOMAIN byStream' :
           \/ x \in DOMAIN byStream \ {sessions[s].stream} /\ byStream'[x] = byStream[x]
           \/ x = new /\ byStream'[x] = s
      /\ byStream' = [x \in DOMAIN byStream' |-> byStream'[x]]
  BY WithoutOK DEF Owned, WithStream
<1>2. TablesOK'
  BY <1>1 DEF Owned, TablesOK
<1>3. StreamsHaveOneOwner'
  BY <1>1 DEF Owned, TablesOK, StreamsHaveOneOwner
<1> QED
  BY <1>2, <1>3 DEF Owned

LEMMA RemovedOwned ==
    ASSUME Owned, NEW st, byStream' = Without(st), UNCHANGED minted,
           sessions' \in [Sessions -> Subscription],
           \A s \in Sessions : sessions'[s] = sessions[s] \/ sessions[s].stream = st
    PROVE  Owned'
<1>1. /\ DOMAIN byStream' = DOMAIN byStream \ {st}
      /\ \A x \in DOMAIN byStream' : byStream'[x] = byStream[x]
      /\ byStream' = [x \in DOMAIN byStream' |-> byStream'[x]]
  BY WithoutOK DEF Owned, Without, Restrict
<1>2. TablesOK'
  BY <1>1 DEF Owned, TablesOK
<1>3. StreamsHaveOneOwner'
  BY <1>1 DEF Owned, TablesOK, StreamsHaveOneOwner
<1> QED
  BY <1>2, <1>3 DEF Owned

LEMMA SubscribeOwned ==
    ASSUME Owned, NEW s \in Sessions, Subscribe(s)
    PROVE  Owned' /\ minted' = minted + 1
<1>1. minted' = minted + 1 /\ minted' \in Nat
  BY DEF Subscribe, Owned, TablesOK
<1>2. [stream |-> minted', generation |-> Generation] \in Subscription
  BY <1>1 DEF Generation, Subscription
<1>3. sessions' = [sessions EXCEPT ![s] = [stream |-> minted', generation |-> Generation]]
  BY DEF Subscribe
<1>4. /\ sessions' \in [Sessions -> Subscription] /\ sessions'[s].stream = minted'
      /\ \A t \in Sessions \ {s} : sessions'[t] = sessions[t]
  BY <1>2, <1>3 DEF Owned, TablesOK
<1>5. byStream' = WithStream(Without(sessions[s].stream), minted', s)
  BY DEF Subscribe
<1> QED
  BY <1>1, <1>4, <1>5, ReplacedOwned

LEMMA UnsubscribeOwned ==
    ASSUME Owned, NEW s \in Sessions, Unsubscribe(s)
    PROVE  Owned'
<1>1. sessions' \in [Sessions -> Subscription]
  BY DEF Unsubscribe, Owned, TablesOK, None, Subscription
<1>2. \A t \in Sessions : sessions'[t] = sessions[t] \/ sessions[t].stream = sessions[s].stream
  BY DEF Unsubscribe, Owned, TablesOK
<1> QED
  BY <1>1, <1>2, RemovedOwned DEF Unsubscribe

\* Connect mints a stream for every subscription.
LEMMA ConnectMints ==
    ASSUME Owned, Connect, ~closed
    PROVE  /\ sessions' \in [Sessions -> Subscription]
           /\ minted' = minted + Cardinality(ToReopen) /\ minted' \in Nat
           /\ \A s \in ToReopen : sessions'[s].stream \in (minted + 1)..minted'
<1>1. PICK order \in [ToReopen -> 1..Cardinality(ToReopen)] : sessions' = Reminted(order)
  BY DEF Connect
<1>2. minted' = minted + Cardinality(ToReopen) /\ minted \in Nat /\ minted' \in Nat
  BY ToReopenOK DEF Connect, Owned, TablesOK
<1>3. ASSUME NEW s \in ToReopen
      PROVE  /\ sessions'[s] = [stream |-> minted + order[s], generation |-> Generation + 1]
             /\ order[s] \in 1..Cardinality(ToReopen)
  BY <1>1, ToReopenOK DEF Reminted
<1>4. Generation \in Nat
  BY DEF Generation
<1>5. \A s \in ToReopen : /\ sessions'[s] \in Subscription
                          /\ sessions'[s].stream \in (minted + 1)..minted'
  <2> TAKE s \in ToReopen
  <2>1. order[s] \in 1..Cardinality(ToReopen) /\ Cardinality(ToReopen) \in Nat
    BY <1>3, ToReopenOK
  <2>2. minted + order[s] \in Nat /\ minted + order[s] \in (minted + 1)..minted'
    BY <1>2, <2>1
  <2>3. Generation + 1 \in Nat
    BY <1>4
  <2>4. [stream |-> minted + order[s], generation |-> Generation + 1] \in Subscription
    BY <2>2, <2>3 DEF Subscription
  <2>5. sessions'[s] = [stream |-> minted + order[s], generation |-> Generation + 1]
    BY <1>3
  <2>6. sessions'[s].stream = minted + order[s]
    BY <2>5
  <2> QED
    BY <2>2, <2>4, <2>5, <2>6
<1>6. \A s \in Sessions \ ToReopen : sessions'[s] = sessions[s]
  BY <1>1 DEF Reminted
<1>7. sessions' = [s \in Sessions |-> sessions'[s]]
  BY <1>1 DEF Reminted
<1> QED
  BY <1>2, <1>5, <1>6, <1>7 DEF Owned, TablesOK

LEMMA ConnectOwned ==
    ASSUME Owned, Connect
    PROVE  Owned'
<1>1. CASE closed
  BY <1>1 DEF Connect, Owned, TablesOK, StreamsHaveOneOwner, tables
<1>2. CASE ~closed
  <2>1. byStream' = [st \in {sessions'[s].stream : s \in Registered} |->
                       CHOOSE s \in Registered : sessions'[s].stream = st]
    BY <1>2 DEF Connect
  <2>2. \A st \in DOMAIN byStream' : byStream'[st] \in Registered
                                     /\ sessions'[byStream'[st]].stream = st
    BY <2>1
  <2>3. DOMAIN byStream' \subseteq Nat
    BY <1>2, <2>1, ConnectMints, ToReopenOK DEF Subscription
  <2>4. byStream' = [st \in DOMAIN byStream' |-> byStream'[st]]
    BY <2>1
  <2>5. TablesOK'
    BY <1>2, <2>2, <2>3, <2>4, ConnectMints, ToReopenOK DEF TablesOK
  <2> QED
    BY <2>2, <2>5 DEF Owned, StreamsHaveOneOwner
<1> QED
  BY <1>1, <1>2

LEMMA OwnedStep ==
    ASSUME Owned, [HubNext]_hubVars
    PROVE  Owned'
<1>1. ASSUME UNCHANGED tables PROVE Owned'
  BY <1>1 DEF tables, Owned, TablesOK, StreamsHaveOneOwner
<1>2. CASE Close
  BY <1>2 DEF Close, Owned, TablesOK, StreamsHaveOneOwner, Subscription, None
<1>3. ASSUME NEW k, ReadEnd(k) PROVE Owned'
  BY <1>3, RemovedOwned DEF ReadEnd, Owned, TablesOK
<1>4. CASE CloseDrains \/ NetworkLost \/ Dial \/ DialFails \/ HandshakeFails \/ Reopen
           \/ ServeEnds \/ Backoff \/ UNCHANGED hubVars
  BY <1>1, <1>4 DEF CloseDrains, NetworkLost, Dial, DialFails, HandshakeFails, Reopen,
                    ServeEnds, Backoff, hubVars, tables
<1>5. ASSUME NEW k, Write(k) \/ WriterStops(k) \/ Read(k) \/ ReadFails(k) \/ Dispatch(k)
      PROVE Owned'
  BY <1>1, <1>5 DEF Write, WriterStops, Read, ReadFails, Dispatch
<1> QED
  BY <1>2, <1>3, <1>4, <1>5, SubscribeOwned, UnsubscribeOwned, ConnectOwned
     DEF HubNext, PumpStep, ConnStep

(***************************************************************************)
(* Whatever is subscribed, replaced, ended or minted again at once, a      *)
(* stream is routed to the one session that has it.                        *)
(***************************************************************************)
THEOREM StreamsHaveOneOwnerAlways == HubSpec => []StreamsHaveOneOwner
<1>1. Owned /\ [HubNext]_hubVars => Owned'
  BY OwnedStep
<1>2. Owned => StreamsHaveOneOwner
  BY DEF Owned
<1> QED
  BY <1>1, <1>2, OwnedInit, PTL DEF HubSpec

-----------------------------------------------------------------------------
(* A stream is opened once.                                                 *)

Frame == [type : {"open", "cancel"}, stream : Nat]
Conn == [net : {"up", "lost", "closed"}, opened : SUBSET Nat, follows : SUBSET Nat,
         ended : SUBSET Nat, twice : SUBSET Nat]
FramesOK ==
    /\ writeCh \in Seq(Frame)
    /\ conns \in Seq(Conn)
    /\ DOMAIN pump = {"at", "todo"} /\ pump.todo \subseteq Nat

IsOpen(i, st) == i \in DOMAIN writeCh /\ writeCh[i] = Open(st)
Offered(st) == st \in pump.todo \/ \E k \in DOMAIN conns : st \in conns[k].opened

\* An open frame of a session's stream is in writeCh once, and neither still to be sent
\* nor received already; the streams still to be opened have not been; and a stream that
\* is minted next has no open frame anywhere.
OpenedOnce ==
    /\ \A i, j \in DOMAIN writeCh, st \in Nat \ {HostStream} :
          IsOpen(i, st) /\ IsOpen(j, st) => i = j
    /\ \A i \in DOMAIN writeCh, st \in Nat \ {HostStream} : IsOpen(i, st) => ~Offered(st)
    /\ \A k \in DOMAIN conns : pump.todo \cap conns[k].opened \subseteq {HostStream}
    /\ NoStreamOpenedTwice
Minted ==
    \A st \in Nat : Offered(st) \/ (\E i \in DOMAIN writeCh : IsOpen(i, st)) => st <= minted
Once == Owned /\ FramesOK /\ OpenedOnce /\ Minted

LEMMA OnceInit == HubInit => Once
<1> SUFFICES ASSUME HubInit PROVE Once
  OBVIOUS
<1>1. FramesOK
  BY DEF HubInit, FramesOK
<1>2. OpenedOnce /\ Minted
  BY DEF HubInit, OpenedOnce, NoStreamOpenedTwice, Minted, Offered, IsOpen
<1> QED
  BY <1>1, <1>2, OwnedInit DEF Once

LEMMA QueuedOK ==
    ASSUME NEW ch \in Seq(Frame), NEW f \in Frame
    PROVE  /\ Queued(ch, f) \in Seq(Frame)
           /\ \A i \in DOMAIN Queued(ch, f) :
                 \/ i \in DOMAIN ch /\ Queued(ch, f)[i] = ch[i]
                 \/ i = Len(ch) + 1 /\ Queued(ch, f)[i] = f
BY DEF Queued

LEMMA OpenCancelDiffer == \A st, x : Open(st) # Cancel(x)
<1> SUFFICES ASSUME NEW st, NEW x PROVE Open(st).type # Cancel(x).type
  OBVIOUS
<1> QED
  BY DEF Open, Cancel

LEMMA CancelQueued ==
    ASSUME NEW ch \in Seq(Frame), NEW x \in Nat
    PROVE  /\ Queued(ch, Cancel(x)) \in Seq(Frame)
           /\ \A i \in DOMAIN Queued(ch, Cancel(x)) : \A st :
                 Queued(ch, Cancel(x))[i] = Open(st) => i \in DOMAIN ch /\ ch[i] = Open(st)
<1>1. Cancel(x) \in Frame
  BY DEF Cancel, Frame
<1> QED
  BY <1>1, QueuedOK, OpenCancelDiffer

\* Steps that offer no stream: frames may be cancelled or dropped, connections close.
LEMMA NothingOffered ==
    ASSUME Once, Owned', FramesOK', minted' >= minted,
           \A i \in DOMAIN writeCh', st \in Nat : writeCh'[i] = Open(st) => IsOpen(i, st),
           pump'.todo = pump.todo, DOMAIN conns' = DOMAIN conns,
           \A k \in DOMAIN conns : /\ conns'[k].opened \subseteq conns[k].opened
                                   /\ conns'[k].twice = conns[k].twice
    PROVE  Once'
<1>1. \A st : Offered(st)' => Offered(st)
  BY DEF Offered
<1>2. \A i, st : IsOpen(i, st)' /\ st \in Nat => IsOpen(i, st) /\ i \in DOMAIN writeCh
  BY DEF IsOpen
<1>3. OpenedOnce'
  BY <1>1, <1>2 DEF Once, OpenedOnce, NoStreamOpenedTwice
<1>4. Minted'
  BY <1>1, <1>2 DEF Once, Minted, Owned, TablesOK
<1> QED
  BY <1>3, <1>4 DEF Once

\* Subscribe: the only new open frame is that of the stream just minted.
LEMMA SubscribeOnce ==
    ASSUME Once, NEW s \in Sessions, Subscribe(s)
    PROVE  Once'
<1> DEFINE cancelled == IF s \in Registered
                        THEN Queued(writeCh, Cancel(sessions[s].stream)) ELSE writeCh
<1>1. Owned' /\ minted' = minted + 1 /\ minted \in Nat
  BY SubscribeOwned DEF Once, Owned, TablesOK
<1>2. writeCh' = IF conns # <<>> THEN Queued(cancelled, Open(minted')) ELSE cancelled
  BY DEF Subscribe, OpenQueued
<1>3. Cancel(sessions[s].stream) \in Frame /\ Open(minted') \in Frame
  BY <1>1 DEF Once, Owned, TablesOK, Subscription, Cancel, Open, Frame
<1>4. /\ cancelled \in Seq(Frame)
      /\ \A i \in DOMAIN cancelled : \A st : cancelled[i] = Open(st) => IsOpen(i, st)
  <2>1. writeCh \in Seq(Frame) /\ sessions[s].stream \in Nat
    BY DEF Once, Owned, TablesOK, FramesOK, Subscription
  <2>2. CASE s \in Registered
    <3>1. cancelled = Queued(writeCh, Cancel(sessions[s].stream))
      BY <2>2
    <3> HIDE DEF cancelled
    <3> QED
      BY <2>1, <3>1, CancelQueued DEF IsOpen
  <2>3. CASE s \notin Registered
    BY <2>1, <2>3 DEF IsOpen
  <2> QED
    BY <2>2, <2>3
<1> HIDE DEF cancelled
<1>5. /\ writeCh' \in Seq(Frame)
      /\ \A i \in DOMAIN writeCh' : \A st : writeCh'[i] = Open(st)
            => IsOpen(i, st) \/ (i = Len(cancelled) + 1 /\ st = minted')
  <2>1. CASE conns = <<>>
    BY <1>2, <1>4, <2>1
  <2>2. CASE conns # <<>>
    <3> DEFINE opened == Open(minted')
    <3>1. writeCh' = Queued(cancelled, opened) /\ opened \in Frame /\ cancelled \in Seq(Frame)
      BY <1>2, <1>3, <1>4, <2>2
    <3>2. \A st : opened = Open(st) => st = minted'
      BY DEF Open
    <3> HIDE DEF opened
    <3>3. /\ writeCh' \in Seq(Frame)
          /\ \A i \in DOMAIN writeCh' :
                \/ i \in DOMAIN cancelled /\ writeCh'[i] = cancelled[i]
                \/ i = Len(cancelled) + 1 /\ writeCh'[i] = opened
      BY <3>1, QueuedOK
    <3> QED
      BY <1>4, <3>2, <3>3
  <2> QED
    BY <2>1, <2>2
<1>6. UNCHANGED <<conns, pump>>
  BY DEF Subscribe, goroutines
<1>7. \A st : Offered(st)' <=> Offered(st)
  BY <1>6 DEF Offered
<1>8. \A i, st : IsOpen(i, st)' => \/ IsOpen(i, st) /\ i \in DOMAIN writeCh
                                   \/ i = Len(cancelled) + 1 /\ st = minted'
  BY <1>5 DEF IsOpen
<1>9. ~Offered(minted') /\ \A i : ~IsOpen(i, minted')
  BY <1>1 DEF Once, Minted, IsOpen
<1>10. OpenedOnce'
  BY <1>6, <1>7, <1>8, <1>9 DEF Once, OpenedOnce, NoStreamOpenedTwice
<1>11. Minted'
  BY <1>1, <1>7, <1>8 DEF Once, Minted
<1> QED
  BY <1>1, <1>5, <1>6, <1>10, <1>11 DEF Once, FramesOK

LEMMA UnsubscribeOnce ==
    ASSUME Once, NEW s \in Sessions, Unsubscribe(s)
    PROVE  Once'
<1>1. writeCh \in Seq(Frame) /\ sessions[s].stream \in Nat
  BY DEF Once, Owned, TablesOK, FramesOK, Subscription
<1>2. writeCh' = Queued(writeCh, Cancel(sessions[s].stream)) /\ UNCHANGED <<conns, pump, minted>>
  BY DEF Unsubscribe, goroutines
<1>3. /\ writeCh' \in Seq(Frame)
      /\ \A i \in DOMAIN writeCh', st \in Nat : writeCh'[i] = Open(st) => IsOpen(i, st)
  BY <1>1, <1>2, CancelQueued DEF IsOpen
<1>4. Owned' /\ FramesOK' /\ minted' >= minted
  BY <1>2, <1>3, UnsubscribeOwned DEF Once, Owned, TablesOK, FramesOK
<1> QED
  BY <1>2, <1>3, <1>4, NothingOffered

LEMMA GoneOK ==
    ASSUME FramesOK, NEW net \in {"lost", "closed"}, conns # <<>>,
           conns' = [conns EXCEPT ![Len(conns)] = Gone(@, net)]
    PROVE  /\ conns' \in Seq(Conn) /\ DOMAIN conns' = DOMAIN conns
           /\ \A k \in DOMAIN conns : /\ conns'[k].opened \subseteq conns[k].opened
                                      /\ conns'[k].twice = conns[k].twice
<1>1. Len(conns) \in DOMAIN conns /\ conns[Len(conns)] \in Conn
  BY DEF FramesOK
<1>2. /\ Gone(conns[Len(conns)], net) \in Conn
      /\ Gone(conns[Len(conns)], net).opened = {}
      /\ Gone(conns[Len(conns)], net).twice = conns[Len(conns)].twice
  BY <1>1 DEF Gone, Conn
<1> QED
  BY <1>1, <1>2 DEF FramesOK

LEMMA CloseOnce ==
    ASSUME Once, Close
    PROVE  Once'
<1>1. PICK n \in 0..Cardinality(DOMAIN byStream) : \E order \in [1..n -> DOMAIN byStream] :
             writeCh' = writeCh \o [i \in 1..n |-> Cancel(order[i])]
  BY DEF Close, CancelAll
<1>2. PICK order \in [1..n -> DOMAIN byStream] :
             writeCh' = writeCh \o [i \in 1..n |-> Cancel(order[i])]
  BY <1>1
<1> DEFINE cancels == [i \in 1..n |-> Cancel(order[i])]
<1>3. n \in Nat /\ cancels \in Seq(Frame) /\ \A i \in DOMAIN cancels : \A st : cancels[i] # Open(st)
  <2>1. n \in Nat
    BY DEF CancelAll
  <2>2. \A i \in 1..n : cancels[i] \in Frame
    BY DEF Once, Owned, TablesOK, Cancel, Frame
  <2>3. \A i \in 1..n : \A st : cancels[i] # Open(st)
    BY OpenCancelDiffer
  <2> QED
    BY <2>1, <2>2, <2>3
<1> HIDE DEF cancels
<1>4. /\ writeCh' \in Seq(Frame)
      /\ \A i \in DOMAIN writeCh', st \in Nat : writeCh'[i] = Open(st) => IsOpen(i, st)
  <2>1. writeCh \in Seq(Frame) /\ writeCh' = writeCh \o cancels
    BY <1>2 DEF cancels, Once, FramesOK
  <2>2. ASSUME NEW i \in DOMAIN writeCh'
        PROVE  \/ i \in DOMAIN writeCh /\ writeCh'[i] = writeCh[i]
               \/ (i - Len(writeCh)) \in DOMAIN cancels /\ writeCh'[i] = cancels[i - Len(writeCh)]
    BY <1>3, <2>1
  <2> QED
    BY <1>3, <2>1, <2>2 DEF IsOpen
<1>5. /\ conns' \in Seq(Conn) /\ DOMAIN conns' = DOMAIN conns
      /\ \A k \in DOMAIN conns : /\ conns'[k].opened \subseteq conns[k].opened
                                 /\ conns'[k].twice = conns[k].twice
  <2>1. CASE conns = <<>>
    BY <2>1 DEF Close, Once, FramesOK
  <2>2. CASE conns # <<>>
    BY <2>2, GoneOK DEF Close, Once
  <2> QED
    BY <2>1, <2>2
<1>6. Owned' /\ UNCHANGED <<pump, minted>> /\ minted \in Nat
  BY OwnedStep DEF Close, HubNext, Once, Owned, TablesOK
<1> QED
  BY <1>4, <1>5, <1>6, NothingOffered DEF Once, FramesOK

\* A step that only makes a connection fail, or changes nothing of the streams.
LEMMA GoneOnce ==
    ASSUME Once, [HubNext]_hubVars, UNCHANGED <<minted, writeCh>>, pump'.todo = pump.todo,
           DOMAIN pump' = DOMAIN pump, NEW net \in {"lost", "closed"},
           \/ UNCHANGED conns
           \/ conns # <<>> /\ conns' = [conns EXCEPT ![Len(conns)] = Gone(@, net)]
    PROVE  Once'
<1>1. Owned' /\ minted \in Nat
  BY OwnedStep DEF Once, Owned, TablesOK
<1>2. /\ conns' \in Seq(Conn) /\ DOMAIN conns' = DOMAIN conns
      /\ \A k \in DOMAIN conns : /\ conns'[k].opened \subseteq conns[k].opened
                                 /\ conns'[k].twice = conns[k].twice
  <2>1. CASE UNCHANGED conns
    BY <2>1 DEF Once, FramesOK
  <2>2. CASE conns # <<>> /\ conns' = [conns EXCEPT ![Len(conns)] = Gone(@, net)]
    BY <2>2, GoneOK DEF Once
  <2> QED
    BY <2>1, <2>2
<1>3. FramesOK'
  BY <1>2 DEF Once, FramesOK
<1>4. \A i \in DOMAIN writeCh', st \in Nat : writeCh'[i] = Open(st) => IsOpen(i, st)
  BY DEF IsOpen
<1> QED
  BY <1>1, <1>2, <1>3, <1>4, NothingOffered

\* Connect: what is to be opened has just been minted, so that it is nowhere yet.
LEMMA ConnectOnce ==
    ASSUME Once, Connect, ~closed
    PROVE  Once'
<1>1. Owned' /\ minted \in Nat /\ writeCh' = writeCh
  BY ConnectOwned DEF Once, Owned, TablesOK, Connect
<1>2. /\ minted' \in Nat /\ minted' >= minted
      /\ \A s \in ToReopen : sessions'[s].stream \in (minted + 1)..minted'
  BY ConnectMints, ToReopenOK DEF Once, Owned, TablesOK
<1>3. pump' = [at |-> "reopen", todo |-> {sessions'[s].stream : s \in ToReopen} \cup {HostStream}]
  BY DEF Connect
<1>4. DOMAIN pump' = {"at", "todo"} /\ pump'.todo \subseteq ((minted + 1)..minted') \cup {HostStream}
  BY <1>2, <1>3
<1>5. NewConn \in Conn /\ NewConn.opened = {} /\ NewConn.twice = {}
  BY DEF NewConn, Conn
<1>6. conns' = Append(conns, NewConn) /\ conns \in Seq(Conn)
  BY DEF Connect, Once, FramesOK
<1>7. /\ conns' \in Seq(Conn)
      /\ \A k \in DOMAIN conns' :
            \/ k \in DOMAIN conns /\ conns'[k] = conns[k]
            \/ conns'[k].opened = {} /\ conns'[k].twice = {}
  BY <1>5, <1>6
<1>8. FramesOK'
  BY <1>1, <1>2, <1>4, <1>7 DEF Once, FramesOK, HostStream
<1>9. \A st \in Nat : Offered(st)' => Offered(st) \/ st \in pump'.todo
  BY <1>7 DEF Offered
<1>10. \A i, st : IsOpen(i, st)' <=> IsOpen(i, st)
  BY <1>1 DEF IsOpen
<1>11. \A st \in pump'.todo : st # HostStream =>
          st > minted /\ ~Offered(st) /\ \A i \in DOMAIN writeCh : ~IsOpen(i, st)
  BY <1>1, <1>4 DEF Once, Minted
<1>12. \A k \in DOMAIN conns' : pump'.todo \cap conns'[k].opened \subseteq {HostStream}
  BY <1>7, <1>11 DEF Offered
<1>13. OpenedOnce'
  <2>1. \A i, j \in DOMAIN writeCh', st \in Nat \ {HostStream} :
           IsOpen(i, st)' /\ IsOpen(j, st)' => i = j
    BY <1>1, <1>10 DEF Once, OpenedOnce
  <2>2. \A i \in DOMAIN writeCh', st \in Nat \ {HostStream} : IsOpen(i, st)' => ~Offered(st)'
    BY <1>1, <1>9, <1>10, <1>11 DEF Once, OpenedOnce
  <2>3. NoStreamOpenedTwice'
    BY <1>7 DEF Once, OpenedOnce, NoStreamOpenedTwice
  <2> QED
    BY <1>12, <2>1, <2>2, <2>3 DEF OpenedOnce
<1>14. Minted'
  <2>1. \A st \in pump'.todo : st <= minted'
    BY <1>1, <1>2, <1>4 DEF HostStream
  <2> QED
    BY <1>1, <1>2, <1>9, <1>10, <2>1 DEF Once, Minted
<1> QED
  BY <1>1, <1>8, <1>13, <1>14 DEF Once

\* Reopen: the stream moves from what is to be opened into writeCh.
LEMMA ReopenOnce ==
    ASSUME Once, Reopen
    PROVE  Once'
<1>1. Owned' /\ minted' = minted /\ minted \in Nat /\ conns' = conns
  BY OwnedStep DEF Reopen, HubNext, PumpStep, Once, Owned, TablesOK, tables
<1>2. CASE pump.todo = {}
  <2>1. pump' = [pump EXCEPT !.at = "serve"] /\ UNCHANGED writeCh
    BY <1>2 DEF Reopen
  <2>2. pump'.todo = pump.todo /\ DOMAIN pump' = DOMAIN pump
    BY <2>1 DEF Once, FramesOK
  <2> QED
    BY <1>1, <2>1, <2>2, GoneOnce DEF HubNext, PumpStep
<1>3. CASE pump.todo # {}
  <2>1. PICK st \in pump.todo : /\ writeCh' = Append(writeCh, Open(st))
                                /\ pump' = [pump EXCEPT !.todo = @ \ {st}]
    BY <1>3 DEF Reopen
  <2>2. pump'.todo = pump.todo \ {st} /\ DOMAIN pump' = DOMAIN pump /\ st \in Nat
    BY <2>1 DEF Once, FramesOK
  <2>3. Open(st) \in Frame /\ writeCh \in Seq(Frame)
    BY <2>2 DEF Once, FramesOK, Open, Frame
  <2>4. /\ writeCh' \in Seq(Frame)
        /\ \A i \in DOMAIN writeCh' : \/ i \in DOMAIN writeCh /\ writeCh'[i] = writeCh[i]
                                      \/ i = Len(writeCh) + 1 /\ writeCh'[i] = Open(st)
    BY <2>1, <2>3
  <2>5. \A i, x : IsOpen(i, x)' => \/ IsOpen(i, x) /\ i \in DOMAIN writeCh
                                   \/ i = Len(writeCh) + 1 /\ x = st
    BY <2>4 DEF IsOpen, Open
  <2>6. \A x : Offered(x)' => Offered(x)
    BY <1>1, <2>2 DEF Offered
  <2>7. Offered(st) /\ (st # HostStream => ~Offered(st)')
    BY <1>1, <2>2 DEF Once, OpenedOnce, Offered
  <2>8. st # HostStream => \A i : ~IsOpen(i, st)
    BY <2>2, <2>7 DEF Once, OpenedOnce, IsOpen
  <2>9. OpenedOnce'
    BY <1>1, <2>2, <2>5, <2>6, <2>7, <2>8 DEF Once, OpenedOnce, NoStreamOpenedTwice
  <2>10. Minted'
    BY <1>1, <2>5, <2>6, <2>7 DEF Once, Minted
  <2>11. FramesOK'
    BY <1>1, <2>2, <2>4 DEF Once, FramesOK
  <2> QED
    BY <1>1, <2>9, <2>10, <2>11 DEF Once
<1> QED
  BY <1>2, <1>3

\* Write: the head of writeCh reaches one connection, or none.
LEMMA WriteOnce ==
    ASSUME Once, NEW k \in DOMAIN conns, Write(k)
    PROVE  Once'
<1>1. Owned' /\ minted' = minted /\ minted \in Nat /\ pump' = pump
  BY OwnedStep DEF Write, HubNext, ConnStep, Once, Owned, TablesOK, tables
<1>2. /\ writeCh \in Seq(Frame) /\ writeCh # <<>> /\ writeCh' = Tail(writeCh)
      /\ conns \in Seq(Conn) /\ conns[k] \in Conn
  BY DEF Write, Once, FramesOK
<1>3. PICK h : h = Head(writeCh)
  OBVIOUS
<1>4. h \in Frame /\ h = writeCh[1] /\ 1 \in DOMAIN writeCh
  BY <1>2, <1>3
<1>5. /\ writeCh' \in Seq(Frame)
      /\ \A i \in DOMAIN writeCh' : /\ i + 1 \in DOMAIN writeCh /\ i \in Nat \ {0}
                                    /\ writeCh'[i] = writeCh[i + 1]
  BY <1>2
<1>6. \A i, st : IsOpen(i, st)' => i \in Nat \ {0} /\ IsOpen(i + 1, st) /\ i + 1 \in DOMAIN writeCh
  BY <1>5 DEF IsOpen
<1>7. h.type = "open" => h = Open(h.stream) /\ IsOpen(1, h.stream)
  BY <1>4 DEF Frame, Open, IsOpen
<1>8. \/ conns' = conns
      \/ conns' = [conns EXCEPT ![k] = Received(conns[k], h)]
  BY <1>3 DEF Write
<1>9. /\ Received(conns[k], h) \in Conn
      /\ Received(conns[k], h).opened \subseteq
            conns[k].opened \cup (IF h.type = "open" THEN {h.stream} ELSE {})
      /\ Received(conns[k], h).twice \subseteq
            conns[k].twice \cup (IF h.type = "open" THEN conns[k].opened \cap {h.stream} ELSE {})
  <2>1. CASE h.type = "open"
    BY <1>2, <1>4, <2>1 DEF Received, Conn, Frame
  <2>2. CASE h.type # "open"
    BY <1>2, <1>4, <2>2 DEF Received, Conn, Frame
  <2> QED
    BY <2>1, <2>2
<1>10. /\ conns' \in Seq(Conn) /\ DOMAIN conns' = DOMAIN conns
      /\ \A m \in DOMAIN conns :
            /\ \A st \in conns'[m].opened :
                  st \in conns[m].opened \/ (h.type = "open" /\ st = h.stream)
            /\ \A st \in conns'[m].twice :
                  \/ st \in conns[m].twice
                  \/ h.type = "open" /\ st = h.stream /\ st \in conns[m].opened
  <2> DEFINE c == Received(conns[k], h)
  <2>1. /\ c \in Conn
        /\ \A st \in c.opened : st \in conns[k].opened \/ (h.type = "open" /\ st = h.stream)
        /\ \A st \in c.twice : \/ st \in conns[k].twice
                               \/ h.type = "open" /\ st = h.stream /\ st \in conns[k].opened
    <3>1. CASE h.type = "open"
      BY <1>9, <3>1
    <3>2. CASE h.type # "open"
      BY <1>9, <3>2
    <3> QED
      BY <3>1, <3>2
  <2>2. conns' = conns \/ conns' = [conns EXCEPT ![k] = c]
    BY <1>8
  <2> HIDE DEF c
  <2>3. conns' \in Seq(Conn) /\ DOMAIN conns' = DOMAIN conns
    BY <1>2, <2>1, <2>2
  <2>4. \A m \in DOMAIN conns : conns'[m] = conns[m] \/ (m = k /\ conns'[m] = c)
    BY <1>2, <2>2
  <2> QED
    BY <2>1, <2>3, <2>4
<1>11. \A st : Offered(st)' => Offered(st) \/ (h.type = "open" /\ st = h.stream)
  BY <1>1, <1>10 DEF Offered
<1>12. h.stream \in Nat
  BY <1>4 DEF Frame
<1>13. h.type = "open" /\ h.stream # HostStream =>
          ~Offered(h.stream) /\ \A i : ~IsOpen(i, h.stream)'
  <2> SUFFICES ASSUME h.type = "open", h.stream # HostStream
               PROVE  ~Offered(h.stream) /\ \A i : ~IsOpen(i, h.stream)'
    OBVIOUS
  <2>1. h.stream \in Nat \ {HostStream} /\ IsOpen(1, h.stream)
    BY <1>7, <1>12
  <2>2. ~Offered(h.stream)
    BY <1>4, <2>1 DEF Once, OpenedOnce
  <2>3. ASSUME NEW i, IsOpen(i, h.stream)' PROVE FALSE
    <3>1. i \in Nat \ {0} /\ IsOpen(i + 1, h.stream) /\ i + 1 \in DOMAIN writeCh
      BY <1>6, <2>3
    <3>2. i + 1 = 1
      BY <1>4, <2>1, <3>1 DEF Once, OpenedOnce
    <3> QED
      BY <3>1, <3>2
  <2> QED
    BY <2>2, <2>3
<1>14. OpenedOnce'
  <2>1. \A i, j \in DOMAIN writeCh', st \in Nat \ {HostStream} :
           IsOpen(i, st)' /\ IsOpen(j, st)' => i = j
    <3> SUFFICES ASSUME NEW i \in DOMAIN writeCh', NEW j \in DOMAIN writeCh',
                        NEW st \in Nat \ {HostStream}, IsOpen(i, st)', IsOpen(j, st)'
                 PROVE  i = j
      OBVIOUS
    <3>1. i + 1 = j + 1 /\ i \in Nat /\ j \in Nat
      BY <1>6 DEF Once, OpenedOnce
    <3> QED
      BY <3>1
  <2>2. \A i \in DOMAIN writeCh', st \in Nat \ {HostStream} : IsOpen(i, st)' => ~Offered(st)'
    <3> SUFFICES ASSUME NEW i \in DOMAIN writeCh', NEW st \in Nat \ {HostStream},
                        IsOpen(i, st)', Offered(st)'
                 PROVE  FALSE
      OBVIOUS
    <3>1. ~Offered(st)
      BY <1>6 DEF Once, OpenedOnce
    <3>2. h.type = "open" /\ st = h.stream
      BY <1>11, <3>1
    <3> QED
      BY <1>13, <3>2 DEF IsOpen
  <2>3. \A m \in DOMAIN conns' : pump'.todo \cap conns'[m].opened \subseteq {HostStream}
    BY <1>1, <1>10, <1>13 DEF Once, OpenedOnce, Offered
  <2>4. NoStreamOpenedTwice'
    BY <1>10, <1>13 DEF Once, OpenedOnce, NoStreamOpenedTwice, Offered
  <2> QED
    BY <2>1, <2>2, <2>3, <2>4 DEF OpenedOnce
<1>15. Minted'
  BY <1>1, <1>4, <1>6, <1>7, <1>11, <1>12 DEF Once, Minted
<1> QED
  BY <1>1, <1>5, <1>10, <1>14, <1>15 DEF Once, FramesOK

LEMMA ReadEndOnce ==
    ASSUME Once, NEW k \in DOMAIN conns, ReadEnd(k)
    PROVE  Once'
<1>1. PICK st \in conns[k].follows \ {HostStream} :
         conns' = [conns EXCEPT ![k].follows = @ \ {st}, ![k].ended = @ \cup {st}]
  BY DEF ReadEnd
<1>2. conns \in Seq(Conn) /\ conns[k] \in Conn
  BY DEF Once, FramesOK
<1> DEFINE c == [conns[k] EXCEPT !.follows = @ \ {st}, !.ended = @ \cup {st}]
<1>3. c \in Conn /\ c.opened = conns[k].opened /\ c.twice = conns[k].twice
  BY <1>2 DEF Conn
<1>4. conns' = [conns EXCEPT ![k] = c]
  BY <1>1, <1>2
<1> HIDE DEF c
<1>5. /\ conns' \in Seq(Conn) /\ DOMAIN conns' = DOMAIN conns
      /\ \A m \in DOMAIN conns : /\ conns'[m].opened \subseteq conns[m].opened
                                 /\ conns'[m].twice = conns[m].twice
  BY <1>2, <1>3, <1>4
<1>6. Owned' /\ UNCHANGED <<pump, minted, writeCh>> /\ minted \in Nat
  BY OwnedStep DEF ReadEnd, HubNext, ConnStep, Once, Owned, TablesOK, goroutines
<1>7. \A i \in DOMAIN writeCh', x \in Nat : writeCh'[i] = Open(x) => IsOpen(i, x)
  BY <1>6 DEF IsOpen
<1>8. FramesOK'
  BY <1>5, <1>6 DEF Once, FramesOK
<1> QED
  BY <1>5, <1>6, <1>7, <1>8, NothingOffered

LEMMA OnceStep ==
    ASSUME Once, [HubNext]_hubVars
    PROVE  Once'
<1>1. DOMAIN pump = {"at", "todo"}
  BY DEF Once, FramesOK
<1>2. CASE Dial \/ DialFails \/ HandshakeFails \/ Backoff
  <2>1. pump'.todo = pump.todo /\ DOMAIN pump' = DOMAIN pump
    BY <1>1, <1>2 DEF Dial, DialFails, HandshakeFails, Backoff
  <2> QED
    BY <1>2, <2>1, GoneOnce DEF Dial, DialFails, HandshakeFails, Backoff, tables
<1>3. CASE Connect
  <2>1. CASE closed
    <3>1. pump'.todo = pump.todo /\ DOMAIN pump' = DOMAIN pump
      BY <1>1, <1>3, <2>1 DEF Connect
    <3> QED
      BY <1>3, <2>1, <3>1, GoneOnce DEF Connect, tables
  <2> QED
    BY <1>3, <2>1, ConnectOnce
<1>4. CASE ServeEnds
  <2>1. pump'.todo = pump.todo /\ DOMAIN pump' = DOMAIN pump
    BY <1>1, <1>4 DEF ServeEnds
  <2>2. UNCHANGED <<minted, writeCh>>
        /\ conns' = [conns EXCEPT ![Len(conns)] = Gone(@, "closed")]
    BY <1>4 DEF ServeEnds, tables
  <2>3. CASE conns = <<>>
    <3>1. conns' = conns
      BY <2>2, <2>3
    <3> QED
      BY <2>1, <2>2, <3>1, GoneOnce
  <2> QED
    BY <2>1, <2>2, <2>3, GoneOnce
<1>5. CASE NetworkLost
  BY <1>5, GoneOnce DEF NetworkLost, tables, goroutines
<1>6. CASE CloseDrains \/ UNCHANGED hubVars
  BY <1>6, GoneOnce DEF CloseDrains, hubVars, tables
<1>7. ASSUME NEW k, WriterStops(k) \/ Read(k) \/ ReadFails(k) \/ Dispatch(k)
      PROVE  Once'
  BY <1>7, GoneOnce DEF WriterStops, Read, ReadFails, Dispatch, tables
<1> QED
  BY <1>2, <1>3, <1>4, <1>5, <1>6, <1>7, SubscribeOnce, UnsubscribeOnce, CloseOnce, ReopenOnce,
     WriteOnce, ReadEndOnce
     DEF HubNext, PumpStep, ConnStep

(***************************************************************************)
(* No session's stream is opened twice on a connection, although what was  *)
(* queued for one connection may be sent on the next.                      *)
(***************************************************************************)
THEOREM NoStreamOpenedTwiceAlways == HubSpec => []NoStreamOpenedTwice
<1>1. Once /\ [HubNext]_hubVars => Once'
  BY OnceStep
<1>2. Once => NoStreamOpenedTwice
  BY DEF Once, OpenedOnce
<1> QED
  BY <1>1, <1>2, OnceInit, PTL DEF HubSpec

-----------------------------------------------------------------------------
(* A subscription is followed.                                              *)

Wanted == {sessions[s].stream : s \in Registered} \cup {HostStream}
IsCancel(i) == i \in DOMAIN writeCh /\ writeCh[i].type = "cancel"

\* No session has a stream of a later connection or the stream of another; and what is
\* to be cancelled is nobody's any more.
Tidy ==
    /\ \A s \in Sessions : sessions[s].generation <= Generation
    /\ \A s \in Registered : sessions[s].stream \in 1..minted
    /\ \A s, t \in Registered : sessions[s].stream = sessions[t].stream => s = t
    /\ \A i : IsCancel(i) => writeCh[i].stream \in (1..minted) \ Wanted

PumpOK ==
    /\ pump.at # "reopen" => pump.todo = {}
    /\ pump.at \in {"reopen", "serve"} => conns # <<>>

\* Where the stream of a subscription is while the last connection is up.
Found(st) ==
    \/ st \in conns[Len(conns)].follows \cup conns[Len(conns)].ended
    \/ st \in astray \cup pump.todo
    \/ \E i \in DOMAIN writeCh : IsOpen(i, st)
Connected == conns # <<>> /\ conns[Len(conns)].net = "up"
Following == Once /\ PumpOK /\ (~closed => Tidy /\ (Connected => \A st \in Wanted : Found(st)))

LEMMA FollowingInit == HubInit => Following
<1> SUFFICES ASSUME HubInit PROVE Following
  OBVIOUS
<1>1. Registered = {} /\ conns = <<>> /\ writeCh = <<>> /\ pump.todo = {} /\ pump.at = "dial"
  BY DEF HubInit, Registered
<1>2. \A i : ~IsCancel(i)
  BY <1>1 DEF IsCancel
<1>3. \A s \in Sessions : sessions[s].generation <= Generation
  BY DEF HubInit, None, Generation
<1> QED
  BY <1>1, <1>2, <1>3, OnceInit DEF Following, PumpOK, Tidy, Connected

\* What the tables say, in the terms of the proofs below.
LEMMA TablesTyped ==
    ASSUME Once
    PROVE  /\ sessions \in [Sessions -> Subscription] /\ minted \in Nat
           /\ \A s \in Sessions : sessions[s].stream \in Nat /\ sessions[s].generation \in Nat
           /\ writeCh \in Seq(Frame) /\ conns \in Seq(Conn) /\ Generation \in Nat
           /\ Registered \subseteq Sessions /\ Wanted \subseteq Nat
<1>1. sessions \in [Sessions -> Subscription] /\ minted \in Nat
  BY DEF Once, Owned, TablesOK
<1>2. \A s \in Sessions : sessions[s].stream \in Nat /\ sessions[s].generation \in Nat
  BY <1>1 DEF Subscription
<1>3. writeCh \in Seq(Frame) /\ conns \in Seq(Conn) /\ Generation \in Nat
  BY DEF Once, FramesOK, Generation
<1> QED
  BY <1>1, <1>2, <1>3 DEF Registered, Wanted, HostStream

\* Steps that leave the tables, writeCh and what is to be opened alone; a connection may
\* fail, or a stream of it end.
LEMMA NothingLost ==
    ASSUME Following, Once', UNCHANGED <<sessions, minted, writeCh, closed, astray>>,
           pump'.todo = pump.todo, DOMAIN conns' = DOMAIN conns,
           pump'.at \in {"reopen", "serve"} => pump.at \in {"reopen", "serve"},
           pump'.at # "reopen" => pump.at # "reopen",
           Connected' => /\ Connected
                         /\ conns[Len(conns)].follows \cup conns[Len(conns)].ended \subseteq
                            conns'[Len(conns)].follows \cup conns'[Len(conns)].ended
    PROVE  Following'
<1>1. conns \in Seq(Conn) /\ conns' \in Seq(Conn)
  BY DEF Following, Once, FramesOK
<1>2. Len(conns') = Len(conns) /\ Generation' = Generation
  BY <1>1 DEF Generation
<1>3. Registered' = Registered /\ Wanted' = Wanted
  BY DEF Registered, Wanted
<1>4. PumpOK'
  BY <1>1, <1>2 DEF Following, PumpOK
<1>5. ~closed' => Tidy'
  BY <1>2, <1>3 DEF Following, Tidy, IsCancel
<1>6. ~closed' /\ Connected' => \A st \in Wanted' : Found(st)'
  <2> SUFFICES ASSUME ~closed, Connected', NEW st \in Wanted PROVE Found(st)'
    BY <1>3
  <2>1. Found(st)
    BY DEF Following
  <2> QED
    BY <1>2, <2>1 DEF Found, IsOpen
<1> QED
  BY <1>4, <1>5, <1>6 DEF Following

LEMMA GoneFollowing ==
    ASSUME Following, [HubNext]_hubVars, Once',
           UNCHANGED <<sessions, minted, writeCh, closed, astray>>,
           pump'.todo = pump.todo, DOMAIN conns' = DOMAIN conns,
           pump'.at \in {"reopen", "serve"} => pump.at \in {"reopen", "serve"},
           pump'.at # "reopen" => pump.at # "reopen", NEW net \in {"lost", "closed"},
           \/ UNCHANGED conns
           \/ conns # <<>> /\ conns' = [conns EXCEPT ![Len(conns)] = Gone(@, net)]
    PROVE  Following'
<1>1. conns \in Seq(Conn)
  BY DEF Following, Once, FramesOK
<1>2. CASE UNCHANGED conns
  BY <1>2, NothingLost DEF Connected
<1>3. CASE conns # <<>> /\ conns' = [conns EXCEPT ![Len(conns)] = Gone(@, net)]
  <2>1. Len(conns) \in DOMAIN conns /\ conns[Len(conns)] \in Conn
    BY <1>1, <1>3
  <2>2. Len(conns') = Len(conns) /\ conns'[Len(conns)] = Gone(conns[Len(conns)], net)
    BY <1>1, <1>3, <2>1
  <2>3. Gone(conns[Len(conns)], net).net = net
    BY <2>1 DEF Gone, Conn
  <2>4. ~Connected'
    BY <2>2, <2>3 DEF Connected
  <2> QED
    BY <2>4, NothingLost
<1> QED
  BY <1>2, <1>3

LEMMA CloseFollowing ==
    ASSUME Following, Close
    PROVE  Following'
<1>1. Once'
  BY OnceStep DEF HubNext, Following
<1>2. conns \in Seq(Conn) /\ closed' = TRUE /\ pump' = pump
  BY DEF Close, Following, Once, FramesOK
<1>3. conns # <<>> => conns' # <<>>
  <2> SUFFICES ASSUME conns # <<>> PROVE conns' # <<>>
    OBVIOUS
  <2>1. DOMAIN conns' = DOMAIN conns /\ DOMAIN conns # {}
    BY <1>2 DEF Close
  <2> QED
    BY <2>1
<1> QED
  BY <1>1, <1>2, <1>3 DEF Following, PumpOK

-----------------------------------------------------------------------------
(* Subscribe and Unsubscribe.                                               *)

LEMMA QueuedKeeps ==
    ASSUME NEW ch \in Seq(Frame), NEW f \in Frame
    PROVE  /\ Queued(ch, f) \in Seq(Frame)
           /\ \A i \in DOMAIN ch : i \in DOMAIN Queued(ch, f) /\ Queued(ch, f)[i] = ch[i]
           /\ \A i \in DOMAIN Queued(ch, f) :
                 i \in DOMAIN ch \/ Queued(ch, f)[i] = f
           /\ Len(ch) < WriteCap =>
                 \E i \in DOMAIN Queued(ch, f) : Queued(ch, f)[i] = f
<1>1. CASE Len(ch) < WriteCap
  <2>1. Queued(ch, f) = Append(ch, f)
    BY <1>1 DEF Queued
  <2>2. Append(ch, f)[Len(ch) + 1] = f /\ Len(ch) + 1 \in DOMAIN Append(ch, f)
    OBVIOUS
  <2>3. /\ Append(ch, f) \in Seq(Frame)
        /\ \A i \in DOMAIN ch : i \in DOMAIN Append(ch, f) /\ Append(ch, f)[i] = ch[i]
        /\ \A i \in DOMAIN Append(ch, f) : i \in DOMAIN ch \/ Append(ch, f)[i] = f
    OBVIOUS
  <2> QED
    BY <2>1, <2>2, <2>3
<1>2. CASE ~(Len(ch) < WriteCap)
  BY <1>2 DEF Queued
<1> QED
  BY <1>1, <1>2

\* What Subscribe adds to writeCh.
LEMMA SubscribeFrames ==
    ASSUME Once, NEW s \in Sessions, Subscribe(s)
    PROVE  /\ \A i \in DOMAIN writeCh : i \in DOMAIN writeCh' /\ writeCh'[i] = writeCh[i]
           /\ \A i \in DOMAIN writeCh' :
                 \/ i \in DOMAIN writeCh /\ writeCh'[i] = writeCh[i]
                 \/ s \in Registered /\ writeCh'[i] = Cancel(sessions[s].stream)
                 \/ writeCh'[i] = Open(minted')
           /\ conns # <<>> =>
                 minted' \in astray' \/ \E i \in DOMAIN writeCh' : writeCh'[i] = Open(minted')
<1>1. writeCh \in Seq(Frame) /\ sessions[s].stream \in Nat /\ minted' \in Nat
  BY TablesTyped DEF Subscribe
<1>2. PICK c : c = Cancel(sessions[s].stream)
  OBVIOUS
<1>3. PICK o : o = Open(minted')
  OBVIOUS
<1>4. c \in Frame /\ o \in Frame
  BY <1>1, <1>2, <1>3 DEF Cancel, Open, Frame
<1>5. PICK ch : /\ ch = IF s \in Registered THEN Queued(writeCh, c) ELSE writeCh
                /\ OpenQueued(ch)
  BY <1>2 DEF Subscribe
<1>6. /\ ch \in Seq(Frame)
      /\ \A i \in DOMAIN writeCh : i \in DOMAIN ch /\ ch[i] = writeCh[i]
      /\ \A i \in DOMAIN ch : \/ i \in DOMAIN writeCh
                              \/ s \in Registered /\ ch[i] = c
  <2>1. CASE s \in Registered
    BY <1>1, <1>4, <1>5, <2>1, QueuedKeeps
  <2>2. CASE s \notin Registered
    BY <1>1, <1>5, <2>2
  <2> QED
    BY <2>1, <2>2
<1>7. CASE conns = <<>>
  <2>1. writeCh' = ch
    BY <1>5, <1>7 DEF OpenQueued
  <2> QED
    BY <1>2, <1>6, <1>7, <2>1
<1>8. CASE conns # <<>>
  <2>1. /\ writeCh' = Queued(ch, o)
        /\ Len(ch) >= WriteCap => minted' \in astray'
    BY <1>3, <1>5, <1>8 DEF OpenQueued
  <2>2. Len(ch) \in Nat /\ WriteCap \in Nat
    BY <1>6, HubAssumption
  <2>3. /\ \A i \in DOMAIN ch : i \in DOMAIN writeCh' /\ writeCh'[i] = ch[i]
        /\ \A i \in DOMAIN writeCh' : i \in DOMAIN ch \/ writeCh'[i] = o
        /\ Len(ch) < WriteCap => \E i \in DOMAIN writeCh' : writeCh'[i] = o
    BY <1>4, <1>6, <2>1, QueuedKeeps
  <2> QED
    BY <1>2, <1>3, <1>6, <2>1, <2>2, <2>3
<1> QED
  BY <1>7, <1>8

\* Of what was found before, all is still found.
LEMMA StillFound ==
    ASSUME Once, Once', conns' = conns, pump' = pump, astray \subseteq astray',
           \A i \in DOMAIN writeCh : i \in DOMAIN writeCh' /\ writeCh'[i] = writeCh[i],
           NEW st, Found(st)
    PROVE  Found(st)'
BY DEF Found, IsOpen

LEMMA SubscribeFollowing ==
    ASSUME Following, NEW s \in Sessions, Subscribe(s)
    PROVE  Following'
<1>1. Once /\ Once' /\ ~closed /\ ~closed'
  BY OnceStep DEF HubNext, Following, Subscribe
<1>2. /\ UNCHANGED <<conns, pump>> /\ minted' = minted + 1 /\ minted \in Nat
      /\ sessions' = [sessions EXCEPT ![s] = [stream |-> minted', generation |-> Generation]]
      /\ astray \subseteq astray'
  BY <1>1, TablesTyped DEF Subscribe, OpenQueued, goroutines
<1>3. Tidy
  BY <1>1 DEF Following
<1>4. /\ sessions'[s].stream = minted + 1 /\ sessions'[s].generation = Generation
      /\ \A t \in Sessions : t # s => sessions'[t] = sessions[t]
  BY <1>1, <1>2, TablesTyped
<1>5. \A t \in Registered' : t = s \/ t \in Registered
  BY <1>4 DEF Registered
<1>6. minted + 1 \notin 1..minted /\ \A n \in 1..minted : n \in 1..(minted + 1) /\ n # minted + 1
  BY <1>2
<1>7. Generation' = Generation /\ Generation \in Nat
  BY <1>1, <1>2, TablesTyped DEF Generation
<1>8. \A st \in Wanted' : st = minted + 1 \/ st = HostStream
                          \/ \E t \in Registered : t # s /\ st = sessions[t].stream
  <2> SUFFICES ASSUME NEW t \in Registered', t # s
               PROVE  t \in Registered /\ sessions'[t].stream = sessions[t].stream
    BY <1>4 DEF Wanted
  <2> QED
    BY <1>4, <1>5 DEF Registered
<1>9. \A i : IsCancel(i)' => writeCh'[i].stream \in (1..minted') \ Wanted'
  <2> SUFFICES ASSUME NEW i, IsCancel(i)'
               PROVE  writeCh'[i].stream \in (1..minted) \ Wanted'
    BY <1>2, <1>6
  <2>1. CASE i \in DOMAIN writeCh /\ writeCh'[i] = writeCh[i]
    <3>1. writeCh'[i].stream \in (1..minted) \ Wanted
      BY <1>3, <2>1 DEF Tidy, IsCancel
    <3> QED
      BY <1>6, <1>8, <3>1 DEF Wanted
  <2>2. CASE s \in Registered /\ writeCh'[i] = Cancel(sessions[s].stream)
    <3>1. writeCh'[i].stream = sessions[s].stream /\ sessions[s].stream \in 1..minted
      BY <1>3, <2>2 DEF Tidy, Cancel
    <3>2. \A t \in Registered : t # s => sessions[t].stream # sessions[s].stream
      BY <1>3, <2>2 DEF Tidy
    <3>3. HostStream \notin 1..minted
      BY <1>2 DEF HostStream
    <3> QED
      BY <1>6, <1>8, <3>1, <3>2, <3>3
  <2>3. writeCh'[i] # Open(minted')
    BY DEF IsCancel, Open
  <2> QED
    BY <1>1, <2>1, <2>2, <2>3, SubscribeFrames DEF IsCancel
<1>10. Tidy'
  <2>1. \A t \in Sessions : sessions'[t].generation <= Generation'
    BY <1>3, <1>4, <1>7 DEF Tidy
  <2>2. \A t \in Registered' : sessions'[t].stream \in 1..minted'
    <3> TAKE t \in Registered'
    <3>1. CASE t = s
      BY <1>2, <1>4, <3>1
    <3>2. CASE t # s
      <4>1. t \in Registered /\ t \in Sessions /\ sessions'[t] = sessions[t]
        BY <1>4, <1>5, <3>2 DEF Registered
      <4> QED
        BY <1>2, <1>3, <1>6, <4>1 DEF Tidy
    <3> QED
      BY <3>1, <3>2
  <2>3. \A t, u \in Registered' : sessions'[t].stream = sessions'[u].stream => t = u
    <3>1. \A t \in Registered' : t # s =>
             t \in Registered /\ sessions'[t] = sessions[t] /\ sessions'[t].stream # minted + 1
      BY <1>3, <1>4, <1>5, <1>6 DEF Registered, Tidy
    <3> QED
      BY <1>3, <1>4, <3>1 DEF Tidy
  <2> QED
    BY <1>9, <2>1, <2>2, <2>3 DEF Tidy
<1>11. Connected' => \A st \in Wanted' : Found(st)'
  <2> SUFFICES ASSUME Connected', NEW st \in Wanted' PROVE Found(st)'
    OBVIOUS
  <2>1. Connected
    BY <1>2 DEF Connected
  <2>2. \A i \in DOMAIN writeCh : i \in DOMAIN writeCh' /\ writeCh'[i] = writeCh[i]
    BY <1>1, SubscribeFrames
  <2>3. CASE st \in Wanted
    <3>1. Found(st)
      BY <1>1, <2>1, <2>3 DEF Following
    <3> QED
      BY <1>1, <1>2, <2>2, <3>1, StillFound
  <2>4. CASE st = minted + 1
    <3>1. minted' \in astray' \/ \E i \in DOMAIN writeCh' : writeCh'[i] = Open(minted')
      BY <1>1, <2>1, SubscribeFrames DEF Connected
    <3> QED
      BY <1>2, <2>4, <3>1 DEF Found, IsOpen
  <2> QED
    BY <1>8, <2>3, <2>4 DEF Wanted
<1> QED
  BY <1>1, <1>2, <1>10, <1>11 DEF Following, PumpOK

LEMMA UnsubscribeFollowing ==
    ASSUME Following, NEW s \in Sessions, Unsubscribe(s)
    PROVE  Following'
<1>1. Once /\ Once' /\ ~closed /\ ~closed'
  BY OnceStep DEF HubNext, Following, Unsubscribe
<1>2. /\ UNCHANGED <<conns, pump, minted, astray>> /\ minted \in Nat /\ s \in Registered
      /\ sessions' = [sessions EXCEPT ![s] = None]
      /\ writeCh' = Queued(writeCh, Cancel(sessions[s].stream))
  BY <1>1, TablesTyped DEF Unsubscribe, goroutines
<1>3. Tidy
  BY <1>1 DEF Following
<1>4. /\ sessions'[s] = None
      /\ \A t \in Sessions : t # s => sessions'[t] = sessions[t]
  BY <1>1, <1>2, TablesTyped
<1>5. \A t \in Registered' : t # s /\ t \in Registered /\ sessions'[t] = sessions[t]
  BY <1>4 DEF Registered
<1>6. PICK c : c = Cancel(sessions[s].stream)
  OBVIOUS
<1>7. c \in Frame /\ c.stream = sessions[s].stream /\ writeCh \in Seq(Frame)
  BY <1>1, <1>6, TablesTyped DEF Cancel, Frame
<1>8. /\ \A i \in DOMAIN writeCh : i \in DOMAIN writeCh' /\ writeCh'[i] = writeCh[i]
      /\ \A i \in DOMAIN writeCh' : i \in DOMAIN writeCh \/ writeCh'[i] = c
  BY <1>2, <1>6, <1>7, QueuedKeeps
<1>9. Wanted' \subseteq Wanted /\ sessions[s].stream \notin Wanted'
  <2>1. sessions[s].stream \in 1..minted /\ HostStream \notin 1..minted
    BY <1>2, <1>3 DEF Tidy, HostStream
  <2>2. \A t \in Registered' : sessions'[t].stream # sessions[s].stream
    BY <1>2, <1>3, <1>5 DEF Tidy
  <2> QED
    BY <1>5, <2>1, <2>2 DEF Wanted
<1>10. \A i : IsCancel(i)' => writeCh'[i].stream \in (1..minted') \ Wanted'
  <2> SUFFICES ASSUME NEW i, IsCancel(i)'
               PROVE  writeCh'[i].stream \in (1..minted) \ Wanted'
    BY <1>2
  <2>1. CASE i \in DOMAIN writeCh
    <3>1. writeCh'[i].stream \in (1..minted) \ Wanted
      BY <1>3, <1>8, <2>1 DEF Tidy, IsCancel
    <3> QED
      BY <1>9, <3>1
  <2>2. CASE writeCh'[i] = c
    <3>1. sessions[s].stream \in 1..minted
      BY <1>2, <1>3 DEF Tidy
    <3> QED
      BY <1>7, <1>9, <2>2, <3>1
  <2> QED
    BY <1>8, <2>1, <2>2 DEF IsCancel
<1>11. Tidy'
  <2>1. \A t \in Sessions : sessions'[t].generation <= Generation'
    <3>1. Generation' = Generation /\ Generation \in Nat
      BY <1>1, <1>2, TablesTyped DEF Generation
    <3>2. None.generation = 0
      BY DEF None
    <3> QED
      BY <1>3, <1>4, <3>1, <3>2 DEF Tidy
  <2>2. \A t \in Registered' : sessions'[t].stream \in 1..minted'
    BY <1>2, <1>3, <1>5 DEF Tidy
  <2>3. \A t, u \in Registered' : sessions'[t].stream = sessions'[u].stream => t = u
    BY <1>3, <1>5 DEF Tidy
  <2> QED
    BY <1>10, <2>1, <2>2, <2>3 DEF Tidy
<1>12. Connected' => \A st \in Wanted' : Found(st)'
  <2> SUFFICES ASSUME Connected', NEW st \in Wanted' PROVE Found(st)'
    OBVIOUS
  <2>1. Found(st)
    BY <1>1, <1>2, <1>9 DEF Following, Connected
  <2> QED
    BY <1>1, <1>2, <1>8, <2>1, StillFound
<1> QED
  BY <1>1, <1>2, <1>11, <1>12 DEF Following, PumpOK

-----------------------------------------------------------------------------
(* The pump and the connections.                                            *)

\* Connect: every subscription gets a stream of its own, still to be opened.
LEMMA ConnectFollowing ==
    ASSUME Following, Connect, ~closed
    PROVE  Following'
<1>1. Once /\ Once' /\ ~closed'
  BY OnceStep DEF HubNext, PumpStep, Following, Connect
<1>2. Tidy
  BY DEF Following
<1>3. PICK order \in [ToReopen -> 1..Cardinality(ToReopen)] :
         IsInjective(order) /\ sessions' = Reminted(order)
  BY DEF Connect
<1>4. ToReopen = Registered
  <2>1. \A s \in Registered : sessions[s].generation # Generation + 1
    BY <1>1, <1>2, TablesTyped DEF Tidy
  <2> QED
    BY <2>1 DEF ToReopen
<1>5. /\ \A s \in Registered : /\ sessions'[s].stream = minted + order[s]
                                /\ sessions'[s].generation = Generation + 1
      /\ \A s \in Sessions : s \notin Registered => sessions'[s] = None
      /\ Registered \subseteq Sessions
  <2>1. \A s \in Registered :
           sessions'[s] = [stream |-> minted + order[s], generation |-> Generation + 1]
    BY <1>3, <1>4 DEF Reminted, Registered
  <2>2. \A s \in Registered : /\ sessions'[s].stream = minted + order[s]
                              /\ sessions'[s].generation = Generation + 1
    <3> TAKE s \in Registered
    <3>1. sessions'[s] = [stream |-> minted + order[s], generation |-> Generation + 1]
      BY <2>1
    <3> QED
      BY <3>1
  <2> QED
    BY <1>3, <1>4, <2>2 DEF Reminted, Registered
<1>6. /\ minted \in Nat /\ minted' \in Nat /\ Cardinality(ToReopen) \in Nat
      /\ minted' = minted + Cardinality(ToReopen)
      /\ Generation \in Nat /\ writeCh' = writeCh
  BY <1>1, ToReopenOK, TablesTyped DEF Connect
<1>7. \A s \in Registered : /\ sessions'[s].stream = minted + order[s]
                            /\ order[s] \in 1..Cardinality(ToReopen)
                            /\ sessions'[s].stream \in (minted + 1)..minted'
  <2> SUFFICES ASSUME NEW s \in Registered
               PROVE  /\ sessions'[s].stream = minted + order[s]
                      /\ order[s] \in 1..Cardinality(ToReopen)
                      /\ sessions'[s].stream \in (minted + 1)..minted'
    OBVIOUS
  <2>1. order[s] \in 1..Cardinality(ToReopen)
    BY <1>3, <1>4
  <2>2. sessions'[s].stream = minted + order[s]
    BY <1>5
  <2> QED
    BY <1>6, <2>1, <2>2
<1>8. Registered' = Registered
  <2>1. \A s \in Registered : sessions'[s] # None
    <3>1. \A s \in Registered : sessions'[s].stream # None.stream
      BY <1>6, <1>7 DEF None
    <3> QED
      BY <3>1
  <2> QED
    BY <1>5, <2>1 DEF Registered
<1>9. Generation' = Generation + 1
  <2>1. conns' = Append(conns, NewConn) /\ conns \in Seq(Conn)
    BY <1>1, TablesTyped DEF Connect
  <2> QED
    BY <2>1 DEF Generation
<1>10. Wanted' = pump'.todo /\ pump'.at = "reopen" /\ conns' # <<>>
  <2>1. pump' = [at |-> "reopen",
                 todo |-> {sessions'[s].stream : s \in ToReopen} \cup {HostStream}]
    BY DEF Connect
  <2>2. conns' = Append(conns, NewConn) /\ conns \in Seq(Conn)
    BY <1>1, TablesTyped DEF Connect
  <2> QED
    BY <1>4, <1>8, <2>1, <2>2 DEF Wanted
<1>11. Tidy'
  <2>1. \A s \in Sessions : sessions'[s].generation <= Generation'
    <3>1. \A s \in Registered : sessions'[s].generation = Generation + 1
      BY <1>5
    <3>2. None.generation = 0
      BY DEF None
    <3> QED
      BY <1>5, <1>6, <1>9, <3>1, <3>2
  <2>2. \A s \in Registered' : sessions'[s].stream \in 1..minted'
    BY <1>6, <1>7, <1>8
  <2>3. \A s, t \in Registered' : sessions'[s].stream = sessions'[t].stream => s = t
    <3> SUFFICES ASSUME NEW s \in Registered, NEW t \in Registered,
                        sessions'[s].stream = sessions'[t].stream
                 PROVE  s = t
      BY <1>8
    <3>1. order[s] = order[t]
      BY <1>6, <1>7
    <3> QED
      BY <1>3, <1>4, <3>1 DEF IsInjective
  <2>4. \A i : IsCancel(i)' => writeCh'[i].stream \in (1..minted') \ Wanted'
    <3> SUFFICES ASSUME NEW i, IsCancel(i)
                 PROVE  writeCh[i].stream \in (1..minted') \ Wanted'
      BY <1>6 DEF IsCancel
    <3>1. writeCh[i].stream \in 1..minted
      BY <1>2 DEF Tidy
    <3>2. writeCh[i].stream \in 1..minted' /\ writeCh[i].stream \notin (minted + 1)..minted'
      BY <1>6, <3>1
    <3>3. writeCh[i].stream # HostStream
      BY <3>1 DEF HostStream
    <3> QED
      BY <1>7, <1>8, <3>2, <3>3 DEF Wanted
  <2> QED
    BY <2>1, <2>2, <2>3, <2>4 DEF Tidy
<1>12. \A st \in Wanted' : Found(st)'
  BY <1>10 DEF Found
<1> QED
  BY <1>1, <1>10, <1>11, <1>12 DEF Following, PumpOK

LEMMA ReopenFollowing ==
    ASSUME Following, Reopen
    PROVE  Following'
<1>1. Once /\ Once' /\ UNCHANGED <<sessions, minted, closed, conns, astray>>
      /\ pump.at = "reopen"
  BY OnceStep DEF HubNext, PumpStep, Following, Reopen, tables
<1>2. DOMAIN pump = {"at", "todo"}
  BY <1>1 DEF Once, FramesOK
<1>3. Registered' = Registered /\ Wanted' = Wanted /\ Generation' = Generation
      /\ (Connected' <=> Connected)
  BY <1>1 DEF Registered, Wanted, Generation, Connected
<1>4. CASE pump.todo = {}
  <2>1. writeCh' = writeCh /\ pump'.at = "serve" /\ pump'.todo = {}
    BY <1>2, <1>4 DEF Reopen
  <2>2. PumpOK'
    BY <1>1, <2>1 DEF Following, PumpOK
  <2>3. Tidy => Tidy'
    BY <1>1, <1>3, <2>1 DEF Tidy, IsCancel
  <2>4. \A st : Found(st) => Found(st)'
    BY <1>1, <1>4, <2>1 DEF Found, IsOpen
  <2> QED
    BY <1>1, <1>3, <2>2, <2>3, <2>4 DEF Following
<1>5. CASE pump.todo # {}
  <2>1. PICK st \in pump.todo : /\ writeCh' = Append(writeCh, Open(st))
                                /\ pump' = [pump EXCEPT !.todo = @ \ {st}]
    BY <1>5 DEF Reopen
  <2>2. pump'.todo = pump.todo \ {st} /\ pump'.at = "reopen" /\ st \in Nat
    BY <1>1, <1>2, <2>1 DEF Once, FramesOK
  <2>3. PICK o : o = Open(st)
    OBVIOUS
  <2>4. o \in Frame /\ o.type = "open" /\ writeCh \in Seq(Frame) /\ writeCh' = Append(writeCh, o)
    BY <1>1, <2>1, <2>2, <2>3, TablesTyped DEF Open, Frame
  <2>5. /\ \A i \in DOMAIN writeCh : i \in DOMAIN writeCh' /\ writeCh'[i] = writeCh[i]
        /\ \A i \in DOMAIN writeCh' : i \in DOMAIN writeCh \/ writeCh'[i] = o
        /\ \E i \in DOMAIN writeCh' : writeCh'[i] = o
    <3>1. Len(writeCh) + 1 \in DOMAIN writeCh' /\ writeCh'[Len(writeCh) + 1] = o
      BY <2>4
    <3>2. /\ \A i \in DOMAIN writeCh : i \in DOMAIN writeCh' /\ writeCh'[i] = writeCh[i]
          /\ \A i \in DOMAIN writeCh' : i \in DOMAIN writeCh \/ writeCh'[i] = o
      BY <2>4
    <3> QED
      BY <3>1, <3>2
  <2>6. PumpOK'
    BY <1>1, <2>2 DEF Following, PumpOK
  <2>7. Tidy => Tidy'
    <3>1. \A i : IsCancel(i)' => IsCancel(i) /\ writeCh'[i] = writeCh[i]
      BY <2>4, <2>5 DEF IsCancel
    <3> QED
      BY <1>1, <1>3, <3>1 DEF Tidy
  <2>8. \A x : Found(x) => Found(x)'
    <3> SUFFICES ASSUME NEW x, Found(x) PROVE Found(x)'
      OBVIOUS
    <3>1. CASE x = st
      BY <2>3, <2>5, <3>1 DEF Found, IsOpen
    <3>2. CASE x # st
      BY <1>1, <2>2, <2>5, <3>2 DEF Found, IsOpen
    <3> QED
      BY <3>1, <3>2
  <2> QED
    BY <1>1, <1>3, <2>6, <2>7, <2>8 DEF Following
<1> QED
  BY <1>4, <1>5

\* Write: the frame reaches the last connection, or its stream has gone astray.
LEMMA WriteFollowing ==
    ASSUME Following, NEW k \in DOMAIN conns, Write(k)
    PROVE  Following'
<1>1. Once /\ Once' /\ UNCHANGED <<sessions, minted, closed, pump>>
  BY OnceStep DEF HubNext, ConnStep, Following, Write, tables
<1>2. /\ writeCh \in Seq(Frame) /\ writeCh # <<>> /\ writeCh' = Tail(writeCh)
      /\ conns \in Seq(Conn) /\ conns[k] \in Conn
  BY <1>1, TablesTyped DEF Write
<1>3. PICK h : h = Head(writeCh)
  OBVIOUS
<1>4. h \in Frame /\ h = writeCh[1] /\ 1 \in DOMAIN writeCh
  BY <1>2, <1>3
<1>5. /\ \A i \in DOMAIN writeCh' : i + 1 \in DOMAIN writeCh /\ writeCh'[i] = writeCh[i + 1]
      /\ \A i \in DOMAIN writeCh : i = 1 \/ (i - 1 \in DOMAIN writeCh'
                                            /\ writeCh'[i - 1] = writeCh[i])
  BY <1>2
<1>6. PICK c : c = Received(conns[k], h)
  OBVIOUS
<1>7. /\ c.net = conns[k].net /\ c.ended = conns[k].ended
      /\ h.type = "open" => c.follows = conns[k].follows \cup {h.stream}
      /\ h.type # "open" => c.follows = conns[k].follows \ {h.stream}
  <2>1. CASE h.type = "open"
    BY <1>2, <1>6, <2>1 DEF Received, Conn
  <2>2. CASE h.type # "open"
    BY <1>2, <1>6, <2>2 DEF Received, Conn
  <2> QED
    BY <2>1, <2>2
<1>8. /\ conns[k].net = "up" => conns' = [conns EXCEPT ![k] = c]
      /\ conns[k].net # "up" => conns' = conns
      /\ astray' = astray \cup {st \in {h.stream} : h.type = "open" /\ k < Len(conns)}
  BY <1>3, <1>6 DEF Write
<1>9. /\ DOMAIN conns' = DOMAIN conns /\ Len(conns') = Len(conns) /\ conns # <<>> /\ conns' # <<>>
      /\ Len(conns) \in DOMAIN conns /\ k \in 1..Len(conns)
      /\ \A m \in DOMAIN conns : m # k => conns'[m] = conns[m]
      /\ conns[k].net = "up" => conns'[k] = c
  <2>1. conns' = conns \/ conns' = [conns EXCEPT ![k] = c]
    BY <1>8
  <2>2. DOMAIN conns' = DOMAIN conns /\ conns' \in Seq(Conn)
    BY <1>1, <2>1 DEF Once, FramesOK
  <2>3. DOMAIN conns = 1..Len(conns) /\ Len(conns) \in Nat /\ DOMAIN conns' = 1..Len(conns')
        /\ Len(conns') \in Nat
    BY <1>2, <2>2
  <2>4. conns # <<>> /\ Len(conns) \in DOMAIN conns /\ k \in 1..Len(conns)
    BY <1>2, <2>3
  <2>5. Len(conns') = Len(conns) /\ conns' # <<>>
    BY <2>2, <2>3, <2>4
  <2> QED
    BY <1>8, <2>1, <2>2, <2>4, <2>5
<1>10. Registered' = Registered /\ Wanted' = Wanted /\ Generation' = Generation
  BY <1>1, <1>9 DEF Registered, Wanted, Generation
<1>11. Tidy => Tidy'
  <2>1. \A i : IsCancel(i)' => IsCancel(i + 1) /\ writeCh'[i] = writeCh[i + 1]
    BY <1>5 DEF IsCancel
  <2> QED
    BY <1>1, <1>10, <2>1 DEF Tidy
<1>12. Connected' => Connected
  <2> SUFFICES ASSUME Connected', conns[Len(conns)].net # "up" PROVE FALSE
    BY <1>9 DEF Connected
  <2>1. conns'[Len(conns)].net = "up"
    BY <1>9 DEF Connected
  <2>2. CASE Len(conns) = k
    BY <1>8, <2>1, <2>2
  <2>3. CASE Len(conns) # k
    BY <1>9, <2>1, <2>3
  <2> QED
    BY <2>2, <2>3
<1>13. ASSUME Tidy, Connected, NEW st \in Wanted, Found(st) PROVE Found(st)'
  <2>1. CASE st \in astray \cup pump.todo
    BY <1>1, <1>8, <2>1 DEF Found
  <2>2. CASE st \in conns[Len(conns)].follows \cup conns[Len(conns)].ended
    <3>1. CASE Len(conns) # k
      BY <1>9, <2>2, <3>1 DEF Found
    <3>2. CASE Len(conns) = k
      <4>1. h.type # "open" => h.stream # st
        <5>1. h.type # "open" => IsCancel(1)
          BY <1>4 DEF IsCancel, Frame
        <5> QED
          BY <1>4, <1>13, <5>1 DEF Tidy
      <4>2. st \in c.follows \cup c.ended
        BY <1>7, <2>2, <3>2, <4>1
      <4> QED
        BY <1>9, <1>13, <3>2, <4>2 DEF Found, Connected
    <3> QED
      BY <3>1, <3>2
  <2>3. CASE \E i \in DOMAIN writeCh : IsOpen(i, st)
    <3>1. PICK i \in DOMAIN writeCh : writeCh[i] = Open(st)
      BY <2>3 DEF IsOpen
    <3>2. CASE i # 1
      <4>1. i - 1 \in DOMAIN writeCh' /\ writeCh'[i - 1] = Open(st)
        BY <1>5, <3>1, <3>2
      <4> QED
        BY <4>1 DEF Found, IsOpen
    <3>3. CASE i = 1
      <4>1. h.type = "open" /\ h.stream = st
        BY <1>4, <3>1, <3>3 DEF Open
      <4>2. CASE Len(conns) = k
        BY <1>7, <1>9, <1>13, <4>1, <4>2 DEF Found, Connected
      <4>3. CASE Len(conns) # k
        <5>1. k < Len(conns)
          BY <1>2, <1>9, <4>3
        <5> QED
          BY <1>8, <4>1, <5>1 DEF Found
      <4> QED
        BY <4>2, <4>3
    <3> QED
      BY <3>2, <3>3
  <2> QED
    BY <1>13, <2>1, <2>2, <2>3 DEF Found
<1>14. PumpOK'
  BY <1>1, <1>9 DEF Following, PumpOK
<1> QED
  BY <1>1, <1>10, <1>11, <1>12, <1>13, <1>14 DEF Following

LEMMA ReadEndFollowing ==
    ASSUME Following, NEW k \in DOMAIN conns, ReadEnd(k)
    PROVE  Following'
<1>1. Once /\ Once' /\ UNCHANGED <<sessions, minted, writeCh, closed, pump, astray>>
  BY OnceStep DEF HubNext, ConnStep, Following, ReadEnd, goroutines
<1>2. PICK st \in conns[k].follows \ {HostStream} :
         conns' = [conns EXCEPT ![k].follows = @ \ {st}, ![k].ended = @ \cup {st}]
  BY DEF ReadEnd
<1>3. conns \in Seq(Conn) /\ conns[k] \in Conn /\ conns' \in Seq(Conn)
  BY <1>1 DEF Once, FramesOK
<1>4. PICK c : c = [conns[k] EXCEPT !.follows = @ \ {st}, !.ended = @ \cup {st}]
  OBVIOUS
<1>5. c.net = conns[k].net /\ c.follows \cup c.ended = conns[k].follows \cup conns[k].ended
  BY <1>2, <1>3, <1>4 DEF Conn
<1>6. conns' = [conns EXCEPT ![k] = c]
  BY <1>2, <1>3, <1>4
<1>7. /\ DOMAIN conns' = DOMAIN conns
      /\ \A m \in DOMAIN conns :
            /\ conns'[m].net = conns[m].net
            /\ conns'[m].follows \cup conns'[m].ended = conns[m].follows \cup conns[m].ended
  BY <1>3, <1>5, <1>6
<1>8. Len(conns') = Len(conns) /\ conns # <<>> /\ Len(conns) \in DOMAIN conns
  BY <1>3, <1>7
<1> QED
  BY <1>1, <1>7, <1>8, NothingLost DEF Connected

LEMMA FollowingStep ==
    ASSUME Following, [HubNext]_hubVars
    PROVE  Following'
<1>1. Once' /\ DOMAIN pump = {"at", "todo"}
  BY OnceStep DEF Following, Once, FramesOK
<1>2. CASE Dial \/ DialFails \/ HandshakeFails \/ Backoff
  <2>1. /\ pump'.todo = pump.todo /\ pump'.at \notin {"reopen", "serve"} /\ pump.at # "reopen"
        /\ UNCHANGED <<sessions, minted, writeCh, closed, astray, conns>>
    BY <1>1, <1>2 DEF Dial, DialFails, HandshakeFails, Backoff, tables
  <2> QED
    BY <1>1, <2>1, GoneFollowing
<1>3. CASE Connect
  <2>1. CASE closed
    <3>1. /\ pump'.todo = pump.todo /\ pump'.at \notin {"reopen", "serve"} /\ pump.at # "reopen"
          /\ UNCHANGED <<sessions, minted, writeCh, closed, astray, conns>>
      BY <1>1, <1>3, <2>1 DEF Connect, tables
    <3> QED
      BY <1>1, <3>1, GoneFollowing
  <2> QED
    BY <1>3, <2>1, ConnectFollowing
<1>4. CASE ServeEnds
  <2>1. /\ pump'.todo = pump.todo /\ pump'.at \notin {"reopen", "serve"} /\ pump.at = "serve"
        /\ UNCHANGED <<sessions, minted, writeCh, closed, astray>>
        /\ conns' = [conns EXCEPT ![Len(conns)] = Gone(@, "closed")]
    BY <1>1, <1>4 DEF ServeEnds, tables
  <2>2. conns # <<>> /\ DOMAIN conns' = DOMAIN conns
    BY <2>1 DEF Following, PumpOK
  <2> QED
    BY <1>1, <2>1, <2>2, GoneFollowing
<1>5. CASE NetworkLost
  <2>1. /\ UNCHANGED <<sessions, minted, writeCh, closed, astray, pump>>
        /\ conns # <<>> /\ conns' = [conns EXCEPT ![Len(conns)] = Gone(@, "lost")]
    BY <1>5 DEF NetworkLost, tables, goroutines
  <2>2. DOMAIN conns' = DOMAIN conns
    BY <2>1
  <2> QED
    BY <1>1, <2>1, <2>2, GoneFollowing
<1>6. CASE CloseDrains \/ UNCHANGED hubVars
  <2>1. UNCHANGED <<sessions, minted, writeCh, closed, astray, pump, conns>>
    BY <1>6 DEF CloseDrains, hubVars, tables
  <2> QED
    BY <1>1, <2>1, GoneFollowing
<1>7. ASSUME NEW k, WriterStops(k) \/ Read(k) \/ ReadFails(k) \/ Dispatch(k)
      PROVE  Following'
  <2>1. UNCHANGED <<sessions, minted, writeCh, closed, astray, pump, conns>>
    BY <1>7 DEF WriterStops, Read, ReadFails, Dispatch, tables
  <2> QED
    BY <1>1, <2>1, GoneFollowing
<1> QED
  BY <1>2, <1>3, <1>4, <1>5, <1>6, <1>7, SubscribeFollowing, UnsubscribeFollowing,
     CloseFollowing, ReopenFollowing, WriteFollowing, ReadEndFollowing
     DEF HubNext, PumpStep, ConnStep

(***************************************************************************)
(* Once everything is sent, dsh follows every subscription, but for those  *)
(* it has ended and those whose open frame was dropped at a full writeCh   *)
(* or taken by the writeLoop of a connection that is gone: no other way is *)
(* left in which a subscription can be forgotten.                          *)
(***************************************************************************)
THEOREM FollowedUnlessAstrayAlways == HubSpec => []FollowedUnlessAstray
<1>1. Following => FollowedUnlessAstray
  <2> SUFFICES ASSUME Following, Settled, NEW st \in Wanted
               PROVE  st \in conns[Len(conns)].follows \cup conns[Len(conns)].ended \cup astray
    BY DEF FollowedUnlessAstray, Missed, Wanted
  <2>1. Connected /\ ~closed /\ pump.todo = {} /\ writeCh = <<>>
    BY DEF Settled, Following, PumpOK, Connected
  <2>2. Found(st)
    BY <2>1 DEF Following
  <2> QED
    BY <2>1, <2>2 DEF Found
<1>2. Following /\ [HubNext]_hubVars => Following'
  BY FollowingStep
<1> QED
  BY <1>1, <1>2, FollowingInit, PTL DEF HubSpec
=============================================================================
