----------------------------- MODULE BatchQueue -----------------------------
(***************************************************************************)
(* What a chat's message queue promises its callers                        *)
(* (internal/chatsession/message_queue.go): a FIFO with a two-phase        *)
(* dequeue.  The queue is an in-flight prefix followed by a pending        *)
(* suffix; Peek moves one batch from pending to in-flight, Commit drops    *)
(* the in-flight prefix, Rewind gives it back.  The linked list that       *)
(* implements this is MessageQueue.tla; FlushProtocol.tla uses these       *)
(* operations as the steps of the goroutines that call them.               *)
(*                                                                         *)
(* A message is its ID.  Barrier is the set of messages of                 *)
(* MessageKindQueue, which travel in a batch of their own.                 *)
(***************************************************************************)
EXTENDS Naturals, Sequences

CONSTANTS Msg,        \* message IDs (never empty: an empty ID is a no-op)
          Barrier,    \* the messages of MessageKindQueue
          Capacity    \* hard bound on the queue's length; 0 means unbounded

ASSUME QueueAssumption == Barrier \subseteq Msg /\ Capacity \in Nat

VARIABLES inflight,   \* messages before inFlightEnd
          pending,    \* messages from inFlightEnd on
          out         \* the slice the last operation returned

queueVars == <<inflight, pending, out>>

Contents == inflight \o pending

\* Push and PushFront return ErrFull when this is false.
Room == Capacity = 0 \/ Len(inflight) + Len(pending) < Capacity

\* k messages at the head of s are what Peek takes from the pending region s:
\* one Barrier message alone, or the longest run without a Barrier message.
IsBatch(s, k) ==
    /\ k \in 1..Len(s)
    /\ \/ k = 1 /\ s[1] \in Barrier
       \/ /\ \A i \in 1..k : s[i] \notin Barrier
          /\ k < Len(s) => s[k+1] \in Barrier

QueueInit == inflight = <<>> /\ pending = <<>> /\ out = <<>>

PushOk(m) ==
    /\ Room
    /\ pending' = Append(pending, m)
    /\ out' = <<>>
    /\ UNCHANGED inflight

\* Mutant: the steer path skips the capacity check.
PushFrontUnchecked(m) ==
    /\ pending' = <<m>> \o pending
    /\ Len(Contents) <= Capacity
    /\ out' = <<>>
    /\ UNCHANGED inflight

PushFrontOk(m) ==
    /\ Room
    /\ pending' = <<m>> \o pending
    /\ out' = <<>>
    /\ UNCHANGED inflight

PushFull ==
    /\ ~Room
    /\ out' = <<>>
    /\ UNCHANGED <<inflight, pending>>

Peek ==
    \E k \in 1..Len(pending) :
        /\ IsBatch(pending, k)
        /\ inflight' = inflight \o SubSeq(pending, 1, k)
        /\ pending' = SubSeq(pending, k + 1, Len(pending))
        /\ out' = SubSeq(pending, 1, k)

PeekEmpty ==
    /\ pending = <<>>
    /\ out' = <<>>
    /\ UNCHANGED <<inflight, pending>>

Commit ==
    /\ inflight' = <<>>
    /\ out' = <<>>
    /\ UNCHANGED pending

\* Mutant: a rolled-back batch goes to the tail of the queue.
RewindToTail ==
    /\ pending' = pending \o inflight
    /\ inflight' = <<>>
    /\ out' = <<>>

Rewind ==
    /\ pending' = Contents
    /\ inflight' = <<>>
    /\ out' = <<>>

DropAt(s, i) == SubSeq(s, 1, i-1) \o SubSeq(s, i+1, Len(s))

\* The first message of Contents equal to m leaves, whichever region it is in.
Remove(m) ==
    \E i \in 1..Len(Contents) :
        /\ Contents[i] = m
        /\ \A j \in 1..(i-1) : Contents[j] # m
        /\ out' = <<m>>
        /\ \/ /\ i <= Len(inflight)
              /\ inflight' = DropAt(inflight, i)
              /\ UNCHANGED pending
           \/ /\ i > Len(inflight)
              /\ pending' = DropAt(pending, i - Len(inflight))
              /\ UNCHANGED inflight

RemoveMiss(m) ==
    /\ \A i \in 1..Len(Contents) : Contents[i] # m
    /\ out' = <<>>
    /\ UNCHANGED <<inflight, pending>>

Clear ==
    /\ out' = Contents
    /\ inflight' = <<>>
    /\ pending' = <<>>

QueueNext ==
    \/ \E m \in Msg : PushOk(m) \/ PushFrontOk(m) \/ Remove(m) \/ RemoveMiss(m)
    \/ PushFull \/ Peek \/ PeekEmpty \/ Commit \/ Rewind \/ Clear

QueueSpec == QueueInit /\ [][QueueNext]_queueVars

-----------------------------------------------------------------------------
QueueTypeOK ==
    /\ inflight \in Seq(Msg)
    /\ pending \in Seq(Msg)
    /\ out \in Seq(Msg)
    /\ Capacity > 0 => Len(inflight) + Len(pending) <= Capacity
=============================================================================
