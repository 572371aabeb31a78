------------------------ MODULE FlushProtocol_proofs ------------------------
(***************************************************************************)
(* Proofs about FlushProtocol for every set of messages, goroutines and    *)
(* AgentSessions, every capacity and every bound on failures and commands. *)
(***************************************************************************)
EXTENDS FlushProtocol, TLAPS, SequenceTheorems

-----------------------------------------------------------------------------
(* The abstract queue.                                                      *)

\* What taking a part of a sequence, or all but one element of it, leaves.
LEMMA SubSeqType ==
    ASSUME NEW S, NEW s \in Seq(S), NEW i \in Nat, NEW j \in Nat,
           1 <= i, j <= Len(s)
    PROVE  /\ SubSeq(s, i, j) \in Seq(S)
           /\ Len(SubSeq(s, i, j)) = IF i <= j THEN j - i + 1 ELSE 0
  BY SubSeqProperties, ElementOfSeq

\* a holds the first k elements of s, and b the others.
SplitsAt(s, k, a, b) ==
    /\ Len(a) = k /\ \A i \in 1..k : a[i] = s[i]
    /\ Len(b) = Len(s) - k /\ \A i \in 1..(Len(s) - k) : b[i] = s[k + i]

\* The two parts of an injective sequence are injective, disjoint, and hold
\* all of it.
LEMMA PartsInjective ==
    ASSUME NEW S, NEW s \in Seq(S), IsInjective(s), NEW k \in 1..Len(s),
           NEW a \in Seq(S), NEW b \in Seq(S), SplitsAt(s, k, a, b)
    PROVE  /\ IsInjective(a) /\ IsInjective(b)
           /\ Range(a) \cup Range(b) = Range(s)
           /\ Range(a) \cap Range(b) = {}
<1>1. Len(s) \in Nat /\ DOMAIN s = 1..Len(s)
  BY LenProperties
<1>2. \A i \in 1..k : a[i] = s[i]
  BY DEF SplitsAt
<1>3. \A i \in 1..(Len(s) - k) : b[i] = s[k + i]
  BY DEF SplitsAt
<1>4. DOMAIN a = 1..k /\ DOMAIN b = 1..(Len(s) - k)
  BY LenProperties DEF SplitsAt
<1>5. IsInjective(a)
  BY <1>1, <1>2, <1>4 DEF IsInjective
<1>6. IsInjective(b)
  <2> SUFFICES ASSUME NEW i \in 1..(Len(s) - k), NEW j \in 1..(Len(s) - k), b[i] = b[j]
               PROVE  i = j
    BY <1>4 DEF IsInjective
  <2>1. s[k+i] = s[k+j] /\ k+i \in 1..Len(s) /\ k+j \in 1..Len(s)
    <3>1. b[i] = s[k+i] /\ b[j] = s[k+j]
      BY <1>3
    <3>2. k+i \in 1..Len(s) /\ k+j \in 1..Len(s)
      BY <1>1
    <3> QED
      BY <3>1, <3>2
  <2>2. k+i = k+j
    BY <1>1, <2>1 DEF IsInjective
  <2> QED
    BY <1>1, <2>2
<1>7. Range(a) \cap Range(b) = {}
  <2> SUFFICES ASSUME NEW i \in 1..k, NEW j \in 1..(Len(s) - k), a[i] = b[j]
               PROVE  FALSE
    BY <1>4 DEF Range
  <2>1. s[i] = s[k+j] /\ i \in 1..Len(s) /\ k+j \in 1..Len(s)
    BY <1>1, <1>2, <1>3
  <2>2. i = k+j
    BY <1>1, <2>1 DEF IsInjective
  <2> QED
    BY <1>1, <2>2
<1>8. Range(a) \cup Range(b) \subseteq Range(s)
  <2>1. ASSUME NEW i \in 1..k
        PROVE  a[i] \in Range(s)
    <3>1. a[i] = s[i] /\ i \in 1..Len(s)
      BY <1>1, <1>2
    <3> QED
      BY <1>1, <3>1 DEF Range
  <2>2. ASSUME NEW i \in 1..(Len(s) - k)
        PROVE  b[i] \in Range(s)
    <3>1. b[i] = s[k+i] /\ k+i \in 1..Len(s)
      BY <1>1, <1>3
    <3> QED
      BY <1>1, <3>1 DEF Range
  <2>3. Range(a) = {a[i] : i \in 1..k} /\ Range(b) = {b[i] : i \in 1..(Len(s) - k)}
    BY <1>4 DEF Range
  <2> QED
    BY <2>1, <2>2, <2>3, Zenon
<1>9. Range(s) \subseteq Range(a) \cup Range(b)
  <2> SUFFICES ASSUME NEW i \in 1..Len(s)
               PROVE  s[i] \in Range(a) \cup Range(b)
    BY <1>1 DEF Range
  <2>1. CASE i <= k
    <3>1. i \in 1..k /\ a[i] = s[i]
      BY <1>1, <1>2, <2>1
    <3> QED
      BY <1>4, <3>1 DEF Range
  <2>2. CASE i > k
    <3>1. i - k \in 1..(Len(s) - k) /\ k + (i - k) = i
      BY <1>1, <2>2
    <3>2. b[i-k] = s[i]
      BY <1>3, <3>1
    <3> QED
      BY <1>4, <3>1, <3>2 DEF Range
  <2> QED
    BY <1>1, <2>1, <2>2
<1> QED
  BY <1>5, <1>6, <1>7, <1>8, <1>9

LEMMA SplitInjective ==
    ASSUME NEW S, NEW s \in Seq(S), IsInjective(s), NEW k \in 1..Len(s)
    PROVE  LET a == SubSeq(s, 1, k)
               b == SubSeq(s, k+1, Len(s))
           IN  /\ a \in Seq(S) /\ b \in Seq(S) /\ Len(a) = k
               /\ IsInjective(a) /\ IsInjective(b)
               /\ Range(a) \cup Range(b) = Range(s)
               /\ Range(a) \cap Range(b) = {}
<1> DEFINE a == SubSeq(s, 1, k)
           b == SubSeq(s, k+1, Len(s))
<1>1. Len(s) \in Nat /\ \A i \in 1..Len(s) : s[i] \in S
  BY LenProperties, ElementOfSeq
<1>2. /\ a \in Seq(S)
      /\ Len(a) = IF 1 <= k THEN k-1+1 ELSE 0
      /\ \A i \in 1..(k-1+1) : a[i] = s[1+i-1]
  BY <1>1, SubSeqProperties
<1>3. /\ b \in Seq(S)
      /\ Len(b) = IF k+1 <= Len(s) THEN Len(s)-(k+1)+1 ELSE 0
      /\ \A i \in 1..(Len(s)-(k+1)+1) : b[i] = s[k+1+i-1]
  BY <1>1, SubSeqProperties
<1> HIDE DEF a, b
<1>4. Len(a) = k /\ Len(b) = Len(s) - k
  BY <1>1, <1>2, <1>3
<1>5. \A i \in 1..k : a[i] = s[i]
  BY <1>1, <1>2
<1>6. \A i \in 1..(Len(s) - k) : b[i] = s[k + i]
  BY <1>1, <1>3
<1>7. /\ IsInjective(a) /\ IsInjective(b)
      /\ Range(a) \cup Range(b) = Range(s)
      /\ Range(a) \cap Range(b) = {}
  <2>1. a \in Seq(S) /\ b \in Seq(S)
    BY <1>2, <1>3
  <2>2. SplitsAt(s, k, a, b)
    BY <1>4, <1>5, <1>6 DEF SplitsAt
  <2> QED
    BY <2>1, <2>2, PartsInjective, Zenon
<1> QED
  BY <1>2, <1>3, <1>4, <1>7 DEF a, b

\* Joining two disjoint injective sequences.
LEMMA ConcatInjective ==
    ASSUME NEW S, NEW s \in Seq(S), NEW t \in Seq(S),
           IsInjective(s), IsInjective(t), Range(s) \cap Range(t) = {}
    PROVE  /\ s \o t \in Seq(S)
           /\ IsInjective(s \o t)
           /\ Range(s \o t) = Range(s) \cup Range(t)
<1> DEFINE u == s \o t
<1>1. /\ u \in Seq(S)
      /\ Len(u) = Len(s) + Len(t)
      /\ \A i \in 1..Len(u) : u[i] = IF i <= Len(s) THEN s[i] ELSE t[i - Len(s)]
  BY ConcatProperties
<1>2. /\ Len(s) \in Nat /\ Len(t) \in Nat
      /\ DOMAIN s = 1..Len(s) /\ DOMAIN t = 1..Len(t)
  BY LenProperties
<1>3. Range(u) = Range(s) \cup Range(t)
  BY RangeConcatenation
<1> HIDE DEF u
<1>4. DOMAIN u = 1..Len(u)
  BY <1>1, LenProperties
<1>5. ASSUME NEW i \in DOMAIN u, NEW j \in DOMAIN u, u[i] = u[j]
      PROVE  i = j
  <2>1. CASE i <= Len(s) /\ j <= Len(s)
    <3>1. i \in 1..Len(s) /\ j \in 1..Len(s) /\ s[i] = s[j]
      BY <1>1, <1>2, <1>4, <1>5, <2>1
    <3> QED
      BY <1>2, <3>1 DEF IsInjective
  <2>2. CASE i > Len(s) /\ j > Len(s)
    <3>1. /\ i - Len(s) \in 1..Len(t) /\ j - Len(s) \in 1..Len(t)
          /\ t[i - Len(s)] = t[j - Len(s)]
      BY <1>1, <1>2, <1>4, <1>5, <2>2
    <3>2. i - Len(s) = j - Len(s)
      BY <1>2, <3>1 DEF IsInjective
    <3> QED
      BY <1>1, <1>2, <1>4, <3>2
  <2>3. CASE i <= Len(s) /\ j > Len(s)
    <3>1. i \in 1..Len(s) /\ j - Len(s) \in 1..Len(t) /\ s[i] = t[j - Len(s)]
      BY <1>1, <1>2, <1>4, <1>5, <2>3
    <3> QED
      BY <1>2, <3>1 DEF Range
  <2>4. CASE i > Len(s) /\ j <= Len(s)
    <3>1. j \in 1..Len(s) /\ i - Len(s) \in 1..Len(t) /\ s[j] = t[i - Len(s)]
      BY <1>1, <1>2, <1>4, <1>5, <2>4
    <3> QED
      BY <1>2, <3>1 DEF Range
  <2> QED
    BY <1>1, <1>2, <1>4, <2>1, <2>2, <2>3, <2>4
<1>6. IsInjective(u)
  BY <1>5 DEF IsInjective
<1> QED
  BY <1>1, <1>3, <1>6 DEF u

LEMMA SingletonInjective ==
    ASSUME NEW S, NEW m \in S
    PROVE  <<m>> \in Seq(S) /\ IsInjective(<<m>>) /\ Range(<<m>>) = {m}
  BY DEF IsInjective, Range

LEMMA EmptyInjective ==
    IsInjective(<<>>) /\ Range(<<>>) = {}
  BY DEF IsInjective, Range

LEMMA DropAtType ==
    ASSUME NEW S, NEW s \in Seq(S), NEW i \in 1..Len(s)
    PROVE  /\ DropAt(s, i) \in Seq(S)
           /\ Len(DropAt(s, i)) = Len(s) - 1
<1> DEFINE a == SubSeq(s, 1, i-1)
           b == SubSeq(s, i+1, Len(s))
<1>1. Len(s) \in Nat
  BY LenProperties
<1>2. a \in Seq(S) /\ Len(a) = i - 1
  BY <1>1, SubSeqType
<1>3. b \in Seq(S) /\ Len(b) = Len(s) - i
  BY <1>1, SubSeqType
<1> HIDE DEF a, b
<1>4. a \o b \in Seq(S) /\ Len(a \o b) = Len(a) + Len(b)
  BY <1>2, <1>3, ConcatProperties
<1>5. Len(a) + Len(b) = Len(s) - 1
  BY <1>1, <1>2, <1>3
<1>6. DropAt(s, i) = a \o b
  BY DEF DropAt, a, b
<1> QED
  BY <1>4, <1>5, <1>6, Zenon

\* Every operation of the queue keeps its regions well typed and bounded.
LEMMA QueueStepType ==
    ASSUME QueueTypeOK, [QueueNext]_queueVars
    PROVE  QueueTypeOK'
<1> USE QueueAssumption DEF QueueTypeOK
<1>1. ASSUME NEW m \in Msg, PushOk(m) PROVE QueueTypeOK'
  BY <1>1 DEF PushOk, Room
<1>2. ASSUME NEW m \in Msg, PushFrontOk(m) PROVE QueueTypeOK'
  BY <1>2 DEF PushFrontOk, Room
<1>3. ASSUME NEW m \in Msg, Remove(m) PROVE QueueTypeOK'
  <2>1. PICK i \in 1..Len(Contents) :
           /\ out' = <<m>>
           /\ \/ /\ i <= Len(inflight)
                 /\ inflight' = DropAt(inflight, i)
                 /\ UNCHANGED pending
              \/ /\ i > Len(inflight)
                 /\ pending' = DropAt(pending, i - Len(inflight))
                 /\ UNCHANGED inflight
    BY <1>3 DEF Remove
  <2>2. /\ Len(inflight) \in Nat /\ Len(pending) \in Nat
        /\ Len(Contents) = Len(inflight) + Len(pending)
    BY DEF Contents
  <2>3. CASE i <= Len(inflight)
    <3>1. inflight' \in Seq(Msg) /\ Len(inflight') = Len(inflight) - 1
      BY <2>1, <2>2, <2>3, DropAtType
    <3> QED
      BY <2>1, <2>2, <2>3, <3>1
  <2>4. CASE i > Len(inflight)
    <3>1. pending' \in Seq(Msg) /\ Len(pending') = Len(pending) - 1
      BY <2>1, <2>2, <2>4, DropAtType
    <3> QED
      BY <2>1, <2>2, <2>4, <3>1
  <2> QED
    BY <2>1, <2>2, <2>3, <2>4
<1>4. ASSUME NEW m \in Msg, RemoveMiss(m) PROVE QueueTypeOK'
  BY <1>4 DEF RemoveMiss
<1>5. CASE PushFull
  BY <1>5 DEF PushFull
<1>6. CASE Peek
  <2>1. PICK k \in 1..Len(pending) :
           /\ inflight' = inflight \o SubSeq(pending, 1, k)
           /\ pending' = SubSeq(pending, k + 1, Len(pending))
           /\ out' = SubSeq(pending, 1, k)
    BY <1>6 DEF Peek
  <2>2. Len(pending) \in Nat /\ Len(inflight) \in Nat
    OBVIOUS
  <2>3. out' \in Seq(Msg) /\ Len(out') = k
    BY <2>1, <2>2, SubSeqType
  <2>4. pending' \in Seq(Msg) /\ Len(pending') = Len(pending) - k
    BY <2>1, <2>2, SubSeqType
  <2>5. inflight' \in Seq(Msg) /\ Len(inflight') = Len(inflight) + k
    BY <2>1, <2>2, <2>3, ConcatProperties
  <2> QED
    BY <2>2, <2>3, <2>4, <2>5
<1>7. CASE PeekEmpty
  BY <1>7 DEF PeekEmpty
<1>8. CASE Commit
  BY <1>8 DEF Commit
<1>9. CASE Rewind
  BY <1>9 DEF Rewind, Contents
<1>10. CASE Clear
  BY <1>10 DEF Clear, Contents
<1>11. CASE UNCHANGED queueVars
  BY <1>11 DEF queueVars
<1> QED
  BY <1>1, <1>2, <1>3, <1>4, <1>5, <1>6, <1>7, <1>8, <1>9, <1>10, <1>11
     DEF QueueNext
(***************************************************************************)
(* The regions of the queue stay sequences of messages and never hold more *)
(* than Capacity of them together (message_queue.go:209 and 262).          *)
(***************************************************************************)
THEOREM QueueTypeCorrect == QueueSpec => []QueueTypeOK
<1>1. QueueInit => QueueTypeOK
  BY QueueAssumption DEF QueueInit, QueueTypeOK
<1>2. QueueTypeOK /\ [QueueNext]_queueVars => QueueTypeOK'
  BY QueueStepType
<1> QED
  BY <1>1, <1>2, PTL DEF QueueSpec
-----------------------------------------------------------------------------
(* The flush protocol.                                                      *)

\* Every step does one operation of the queue, or none.
LEMMA QueuePart ==
    ASSUME [Next]_vars
    PROVE  [QueueNext]_queueVars
<1>1. ASSUME NEW f \in Inbound, Lookup(f) PROVE [QueueNext]_queueVars
  BY <1>1 DEF Lookup, QueueNext
<1>2. ASSUME NEW f \in Inbound, QueueUserMessage(f) PROVE [QueueNext]_queueVars
  BY <1>2 DEF QueueUserMessage, QueueNext
<1>3. ASSUME NEW f \in Flusher, FlushPeek(f) PROVE [QueueNext]_queueVars
  BY <1>3 DEF FlushPeek, QueueNext
<1>4. ASSUME NEW f \in Flusher, FlushSelect(f) PROVE [QueueNext]_queueVars
  BY <1>4 DEF FlushSelect, QueueNext
<1>5. ASSUME NEW f \in Flusher, FlushReady(f) PROVE [QueueNext]_queueVars
  BY <1>5 DEF FlushReady, QueueNext
<1>6. ASSUME NEW f \in Flusher, FlushStatus(f) PROVE [QueueNext]_queueVars
  BY <1>6 DEF FlushStatus, QueueNext
<1>7. ASSUME NEW f \in Flusher, FlushRecheck(f) PROVE [QueueNext]_queueVars
  BY <1>7 DEF FlushRecheck, QueueNext
<1>8. ASSUME NEW f \in Flusher, SubmitCommit(f) PROVE [QueueNext]_queueVars
  BY <1>8 DEF SubmitCommit, QueueNext
<1>9. ASSUME NEW f \in Flusher, SendBlocksOk(f) PROVE [QueueNext]_queueVars
  BY <1>9 DEF SendBlocksOk, QueueNext
<1>10. ASSUME NEW f \in Flusher, SendBlocksFail(f) PROVE [QueueNext]_queueVars
  BY <1>10 DEF SendBlocksFail, QueueNext
<1>11. ASSUME NEW f \in Flusher, FlushCommit(f) PROVE [QueueNext]_queueVars
  BY <1>11 DEF FlushCommit, QueueNext
<1>12. ASSUME NEW f \in Flusher, FlushRewind(f) PROVE [QueueNext]_queueVars
  BY <1>12 DEF FlushRewind, QueueNext
<1>13. ASSUME NEW a \in AS, BridgeDone(a) PROVE [QueueNext]_queueVars
  BY <1>13 DEF BridgeDone, QueueNext
<1>14. ASSUME NEW a \in AS, RoutePromptEnded(a) PROVE [QueueNext]_queueVars
  BY <1>14 DEF RoutePromptEnded, QueueNext
<1>15. ASSUME NEW a \in AS, CloseAgent(a) PROVE [QueueNext]_queueVars
  BY <1>15 DEF CloseAgent, QueueNext
<1>16. ASSUME SteerUserMessage PROVE [QueueNext]_queueVars
  BY <1>16 DEF SteerUserMessage, QueueNext
<1>17. ASSUME StopSelectedAgent PROVE [QueueNext]_queueVars
  BY <1>17 DEF StopSelectedAgent, QueueNext
<1>18. ASSUME SetSelectedAgent PROVE [QueueNext]_queueVars
  BY <1>18 DEF SetSelectedAgent, QueueNext
<1>19. ASSUME SetSelectedCwd PROVE [QueueNext]_queueVars
  BY <1>19 DEF SetSelectedCwd, QueueNext
<1>20. ASSUME ClearQueueOnCwdBoundary PROVE [QueueNext]_queueVars
  BY <1>20 DEF ClearQueueOnCwdBoundary, QueueNext
<1>21. ASSUME NEW a \in AS, CloseEnds(a) PROVE [QueueNext]_queueVars
  BY <1>21 DEF CloseEnds, QueueNext
<1>22. ASSUME StopEnds PROVE [QueueNext]_queueVars
  BY <1>22 DEF StopEnds, QueueNext
<1>23. ASSUME UNCHANGED vars PROVE [QueueNext]_queueVars
  BY <1>23 DEF vars, QueueNext
<1> QED
  BY <1>1, <1>2, <1>3, <1>4, <1>5, <1>6, <1>7, <1>8, <1>9, <1>10,
     <1>11, <1>12, <1>13, <1>14, <1>15, <1>16, <1>17, <1>18, <1>19, <1>20, <1>21, <1>22, <1>23
     DEF Next, TryFlush

\* The goroutines' own state.
LocalTypeOK ==
    /\ pc \in [Flusher -> Steps]
    /\ batch \in [Flusher -> Seq(Msg)]
    /\ target \in [Flusher -> AS \cup {NoAS}]

LEMMA LocalStepType ==
    ASSUME TypeOK, QueueTypeOK', [Next]_vars
    PROVE  LocalTypeOK'
<1> USE DEF TypeOK, LocalTypeOK, Steps, Goto, localVars
<1>1. ASSUME NEW f \in Inbound, Lookup(f) PROVE LocalTypeOK'
  BY <1>1 DEF Lookup
<1>2. ASSUME NEW f \in Inbound, QueueUserMessage(f) PROVE LocalTypeOK'
  BY <1>2 DEF QueueUserMessage
<1>3. ASSUME NEW f \in Flusher, FlushPeek(f) PROVE LocalTypeOK'
  <2>1. out' \in Seq(Msg)
    BY DEF QueueTypeOK
  <2> QED
    BY <1>3, <2>1 DEF FlushPeek
<1>4. ASSUME NEW f \in Flusher, FlushSelect(f) PROVE LocalTypeOK'
  BY <1>4 DEF FlushSelect
<1>5. ASSUME NEW f \in Flusher, FlushReady(f) PROVE LocalTypeOK'
  BY <1>5 DEF FlushReady
<1>6. ASSUME NEW f \in Flusher, FlushStatus(f) PROVE LocalTypeOK'
  BY <1>6 DEF FlushStatus
<1>7. ASSUME NEW f \in Flusher, FlushRecheck(f) PROVE LocalTypeOK'
  BY <1>7 DEF FlushRecheck
<1>8. ASSUME NEW f \in Flusher, SubmitCommit(f) PROVE LocalTypeOK'
  BY <1>8 DEF SubmitCommit
<1>9. ASSUME NEW f \in Flusher, SendBlocksOk(f) PROVE LocalTypeOK'
  BY <1>9 DEF SendBlocksOk
<1>10. ASSUME NEW f \in Flusher, SendBlocksFail(f) PROVE LocalTypeOK'
  BY <1>10 DEF SendBlocksFail
<1>11. ASSUME NEW f \in Flusher, FlushCommit(f) PROVE LocalTypeOK'
  BY <1>11 DEF FlushCommit
<1>12. ASSUME NEW f \in Flusher, FlushRewind(f) PROVE LocalTypeOK'
  BY <1>12 DEF FlushRewind
<1>13. ASSUME NEW a \in AS, BridgeDone(a) PROVE LocalTypeOK'
  BY <1>13 DEF BridgeDone
<1>14. ASSUME NEW a \in AS, RoutePromptEnded(a) PROVE LocalTypeOK'
  BY <1>14 DEF RoutePromptEnded
<1>15. ASSUME NEW a \in AS, CloseAgent(a) PROVE LocalTypeOK'
  BY <1>15 DEF CloseAgent
<1>16. ASSUME SteerUserMessage PROVE LocalTypeOK'
  BY <1>16 DEF SteerUserMessage
<1>17. ASSUME StopSelectedAgent PROVE LocalTypeOK'
  BY <1>17 DEF StopSelectedAgent
<1>18. ASSUME SetSelectedAgent PROVE LocalTypeOK'
  BY <1>18 DEF SetSelectedAgent
<1>19. ASSUME SetSelectedCwd PROVE LocalTypeOK'
  BY <1>19 DEF SetSelectedCwd
<1>20. ASSUME ClearQueueOnCwdBoundary PROVE LocalTypeOK'
  BY <1>20 DEF ClearQueueOnCwdBoundary
<1>21. ASSUME NEW a \in AS, CloseEnds(a) PROVE LocalTypeOK'
  BY <1>21 DEF CloseEnds
<1>22. ASSUME StopEnds PROVE LocalTypeOK'
  BY <1>22 DEF StopEnds
<1>23. ASSUME UNCHANGED vars PROVE LocalTypeOK'
  BY <1>23 DEF vars
<1> QED
  BY <1>1, <1>2, <1>3, <1>4, <1>5, <1>6, <1>7, <1>8, <1>9, <1>10,
     <1>11, <1>12, <1>13, <1>14, <1>15, <1>16, <1>17, <1>18, <1>19, <1>20, <1>21, <1>22, <1>23
     DEF Next, TryFlush

\* The routing state and the AgentSessions.
AgentTypeOK ==
    /\ route \in AS /\ selectedAS \in AS \cup {NoAS} /\ clearing \in BOOLEAN
    /\ stopping \in AS \cup {NoAS} /\ closing \subseteq AS
    /\ status \in [AS -> {"Running", "Exited"}]
    /\ ready \in [AS -> BOOLEAN]
    /\ prompt \in [AS -> Seq(Msg)]
    /\ turns \in [AS -> Seq(Seq(Msg))]
    /\ ended \in [AS -> Nat]

LEMMA ExceptType ==
    ASSUME NEW A, NEW T, NEW g \in [A -> T], NEW a \in A, NEW x \in T
    PROVE  [g EXCEPT ![a] = x] \in [A -> T]
  OBVIOUS

LEMMA NoPromptType == NoPrompt \in Seq(Msg)
  BY DEF NoPrompt

LEMMA AgentStepType ==
    ASSUME TypeOK, [Next]_vars
    PROVE  AgentTypeOK'
<1>0. ASSUME NEW a \in AS
      PROVE  /\ ended[a] \in Nat /\ ended[a] + 1 \in Nat
             /\ ended[a] > 0 => ended[a] - 1 \in Nat
  <2>1. ended \in [AS -> Nat]
    BY DEF TypeOK
  <2> QED
    BY <2>1
<1> USE FlushAssumption, NoPromptType DEF TypeOK, AgentTypeOK, routeVars, asVars, EndPrompt
<1>1. ASSUME NEW f \in Inbound, Lookup(f) PROVE AgentTypeOK'
  BY <1>1 DEF Lookup
<1>2. ASSUME NEW f \in Inbound, QueueUserMessage(f) PROVE AgentTypeOK'
  BY <1>2 DEF QueueUserMessage
<1>3. ASSUME NEW f \in Flusher, FlushPeek(f) PROVE AgentTypeOK'
  BY <1>3 DEF FlushPeek
<1>4. ASSUME NEW f \in Flusher, FlushSelect(f) PROVE AgentTypeOK'
  BY <1>4 DEF FlushSelect
<1>5. ASSUME NEW f \in Flusher, FlushReady(f) PROVE AgentTypeOK'
  BY <1>5 DEF FlushReady
<1>6. ASSUME NEW f \in Flusher, FlushStatus(f) PROVE AgentTypeOK'
  BY <1>6 DEF FlushStatus
<1>7. ASSUME NEW f \in Flusher, FlushRecheck(f) PROVE AgentTypeOK'
  BY <1>7 DEF FlushRecheck
<1>8. ASSUME NEW f \in Flusher, SubmitCommit(f) PROVE AgentTypeOK'
  BY <1>8 DEF SubmitCommit
<1>9. ASSUME NEW f \in Flusher, SendBlocksOk(f) PROVE AgentTypeOK'
  <2>1. batch[f] \in Seq(Msg)
    OBVIOUS
  <2>2. turns' \in [AS -> Seq(Seq(Msg))]
    <3>1. CASE target[f] \in AS
      <4>1. turns[target[f]] \in Seq(Seq(Msg))
        BY <3>1
      <4>2. Append(turns[target[f]], batch[f]) \in Seq(Seq(Msg))
        BY <2>1, <4>1, AppendProperties
      <4> QED
        BY <1>9, <3>1, <4>2, ExceptType DEF SendBlocksOk
    <3>2. CASE target[f] \notin AS
      <4>1. turns' = turns
        BY <1>9, <3>2 DEF SendBlocksOk
      <4> QED
        BY <4>1
    <3> QED
      BY <3>1, <3>2
  <2> QED
    BY <1>9, <2>2 DEF SendBlocksOk
<1>10. ASSUME NEW f \in Flusher, SendBlocksFail(f) PROVE AgentTypeOK'
  BY <1>10 DEF SendBlocksFail
<1>11. ASSUME NEW f \in Flusher, FlushCommit(f) PROVE AgentTypeOK'
  BY <1>11 DEF FlushCommit
<1>12. ASSUME NEW f \in Flusher, FlushRewind(f) PROVE AgentTypeOK'
  BY <1>12 DEF FlushRewind
<1>13. ASSUME NEW a \in AS, BridgeDone(a) PROVE AgentTypeOK'
  <2>1. Tail(turns[a]) \in Seq(Seq(Msg))
    <3>1. turns[a] \in Seq(Seq(Msg)) /\ turns[a] # <<>>
      BY <1>13 DEF BridgeDone
    <3> QED
      BY <3>1
  <2>2. turns' \in [AS -> Seq(Seq(Msg))]
    BY <1>13, <2>1 DEF BridgeDone
  <2>3. /\ prompt' \in [AS -> Seq(Msg)] /\ ready' \in [AS -> BOOLEAN]
        /\ ended' \in [AS -> Nat]
    <3>1. ended[a] + 1 \in Nat
      BY <1>0
    <3>2. [ended EXCEPT ![a] = ended[a] + 1] \in [AS -> Nat]
      BY <3>1, ExceptType
    <3> QED
      BY <1>13, <3>2 DEF BridgeDone
  <2> QED
    BY <1>13, <2>2, <2>3 DEF BridgeDone
<1>14. ASSUME NEW a \in AS, RoutePromptEnded(a) PROVE AgentTypeOK'
  <2>1. ended[a] - 1 \in Nat
    <3>1. ended[a] > 0
      BY <1>14 DEF RoutePromptEnded
    <3> QED
      BY <1>0, <3>1
  <2>2. [ended EXCEPT ![a] = ended[a] - 1] \in [AS -> Nat]
    BY <2>1, ExceptType
  <2> QED
    BY <1>14, <2>2 DEF RoutePromptEnded
<1>15. ASSUME NEW a \in AS, CloseAgent(a) PROVE AgentTypeOK'
  <2>1. <<>> \in Seq(Seq(Msg))
    OBVIOUS
  <2>2. turns' \in [AS -> Seq(Seq(Msg))] /\ status' \in [AS -> {"Running", "Exited"}]
    BY <1>15, <2>1 DEF CloseAgent
  <2> QED
    BY <1>15, <2>2 DEF CloseAgent
<1>16. ASSUME SteerUserMessage PROVE AgentTypeOK'
  BY <1>16 DEF SteerUserMessage
<1>17. ASSUME StopSelectedAgent PROVE AgentTypeOK'
  BY <1>17 DEF StopSelectedAgent
<1>18. ASSUME SetSelectedAgent PROVE AgentTypeOK'
  BY <1>18 DEF SetSelectedAgent
<1>19. ASSUME SetSelectedCwd PROVE AgentTypeOK'
  BY <1>19 DEF SetSelectedCwd
<1>20. ASSUME ClearQueueOnCwdBoundary PROVE AgentTypeOK'
  BY <1>20 DEF ClearQueueOnCwdBoundary
<1>21. ASSUME NEW a \in AS, CloseEnds(a) PROVE AgentTypeOK'
  <2>1. ended[a] + 1 \in Nat
    BY <1>0
  <2>2. [ended EXCEPT ![a] = ended[a] + 1] \in [AS -> Nat]
    BY <2>1, ExceptType
  <2>3. UNCHANGED ended \/ ended' = [ended EXCEPT ![a] = ended[a] + 1]
    BY <1>21 DEF CloseEnds
  <2>4. ended' \in [AS -> Nat]
    BY <2>2, <2>3
  <2>5. /\ prompt' = [prompt EXCEPT ![a] = NoPrompt]
        /\ ready' = [ready EXCEPT ![a] = TRUE]
    BY <1>21 DEF CloseEnds
  <2>6. prompt' \in [AS -> Seq(Msg)] /\ ready' \in [AS -> BOOLEAN]
    BY <2>5, ExceptType
  <2> QED
    BY <1>21, <2>4, <2>6 DEF CloseEnds
<1>22. ASSUME StopEnds PROVE AgentTypeOK'
  <2>1. stopping \in AS
    BY <1>22 DEF StopEnds
  <2>2. [ended EXCEPT ![stopping] = ended[stopping] + 1] \in [AS -> Nat]
    BY <1>0, <2>1, ExceptType
  <2>3. /\ prompt' = [prompt EXCEPT ![stopping] = NoPrompt]
        /\ ready' = [ready EXCEPT ![stopping] = TRUE]
    BY <1>22 DEF StopEnds
  <2>4. prompt' \in [AS -> Seq(Msg)] /\ ready' \in [AS -> BOOLEAN]
    BY <2>1, <2>3, ExceptType
  <2> QED
    BY <1>22, <2>2, <2>4 DEF StopEnds
<1>23. ASSUME UNCHANGED vars PROVE AgentTypeOK'
  BY <1>23 DEF vars
<1> QED
  BY <1>1, <1>2, <1>3, <1>4, <1>5, <1>6, <1>7, <1>8, <1>9, <1>10,
     <1>11, <1>12, <1>13, <1>14, <1>15, <1>16, <1>17, <1>18, <1>19, <1>20, <1>21, <1>22, <1>23
     DEF Next, TryFlush

LEMMA UseType ==
    ASSUME TypeOK, NEW kind \in Bounded, Use(kind)
    PROVE  used' \in [Bounded -> Nat]
<1>1. used \in [Bounded -> Nat] /\ used' = [used EXCEPT ![kind] = used[kind] + 1]
  BY DEF TypeOK, Use
<1>2. used[kind] + 1 \in Nat
  BY <1>1
<1> QED
  BY <1>1, <1>2, ExceptType

LEMMA BoundedKinds == {"fail", "stop", "close", "route", "steer"} \subseteq Bounded
  BY DEF Bounded

\* The counters and the history.
RecordTypeOK ==
    /\ used \in [Bounded -> Nat]
    /\ arrived \subseteq Msg /\ pushed \in Seq(Msg) /\ steered \subseteq Msg
    /\ delivered \in [Msg -> Nat] /\ dropped \subseteq Msg
    /\ overlapped \in BOOLEAN

LEMMA RecordStepType ==
    ASSUME TypeOK, QueueTypeOK', [Next]_vars
    PROVE  RecordTypeOK'
<1> USE DEF TypeOK, RecordTypeOK, historyVars
<1>1. ASSUME NEW f \in Inbound, Lookup(f) PROVE RecordTypeOK'
  BY <1>1 DEF Lookup
<1>2. ASSUME NEW f \in Inbound, QueueUserMessage(f) PROVE RecordTypeOK'
  <2>1. PICK m \in Msg : pushed' = pushed \/ pushed' = Append(pushed, m)
    BY <1>2 DEF QueueUserMessage
  <2>2. pushed \in Seq(Msg) /\ Append(pushed, m) \in Seq(Msg)
    BY AppendProperties
  <2>3. pushed' \in Seq(Msg)
    BY <2>1, <2>2, Zenon
  <2> QED
    BY <1>2, <2>3 DEF QueueUserMessage
<1>3. ASSUME NEW f \in Flusher, FlushPeek(f) PROVE RecordTypeOK'
  BY <1>3 DEF FlushPeek
<1>4. ASSUME NEW f \in Flusher, FlushSelect(f) PROVE RecordTypeOK'
  BY <1>4 DEF FlushSelect
<1>5. ASSUME NEW f \in Flusher, FlushReady(f) PROVE RecordTypeOK'
  BY <1>5 DEF FlushReady
<1>6. ASSUME NEW f \in Flusher, FlushStatus(f) PROVE RecordTypeOK'
  BY <1>6 DEF FlushStatus
<1>7. ASSUME NEW f \in Flusher, FlushRecheck(f) PROVE RecordTypeOK'
  BY <1>7 DEF FlushRecheck
<1>8. ASSUME NEW f \in Flusher, SubmitCommit(f) PROVE RecordTypeOK'
  BY <1>8 DEF SubmitCommit
<1>9. ASSUME NEW f \in Flusher, SendBlocksOk(f) PROVE RecordTypeOK'
  BY <1>9 DEF SendBlocksOk
<1>10. ASSUME NEW f \in Flusher, SendBlocksFail(f) PROVE RecordTypeOK'
  BY <1>10, BoundedKinds, UseType DEF SendBlocksFail
<1>11. ASSUME NEW f \in Flusher, FlushCommit(f) PROVE RecordTypeOK'
  BY <1>11 DEF FlushCommit
<1>12. ASSUME NEW f \in Flusher, FlushRewind(f) PROVE RecordTypeOK'
  BY <1>12 DEF FlushRewind
<1>13. ASSUME NEW a \in AS, BridgeDone(a) PROVE RecordTypeOK'
  BY <1>13 DEF BridgeDone
<1>14. ASSUME NEW a \in AS, RoutePromptEnded(a) PROVE RecordTypeOK'
  BY <1>14 DEF RoutePromptEnded
<1>15. ASSUME NEW a \in AS, CloseAgent(a) PROVE RecordTypeOK'
  BY <1>15, BoundedKinds, UseType DEF CloseAgent
<1>16. ASSUME SteerUserMessage PROVE RecordTypeOK'
  BY <1>16, BoundedKinds, UseType DEF SteerUserMessage
<1>17. ASSUME StopSelectedAgent PROVE RecordTypeOK'
  BY <1>17, BoundedKinds, UseType DEF StopSelectedAgent
<1>18. ASSUME SetSelectedAgent PROVE RecordTypeOK'
  BY <1>18, BoundedKinds, UseType DEF SetSelectedAgent
<1>19. ASSUME SetSelectedCwd PROVE RecordTypeOK'
  BY <1>19, BoundedKinds, UseType DEF SetSelectedCwd
<1>20. ASSUME ClearQueueOnCwdBoundary PROVE RecordTypeOK'
  <2>1. Range(out') \subseteq Msg
    BY RangeOfSeq DEF QueueTypeOK
  <2> QED
    BY <1>20, <2>1 DEF ClearQueueOnCwdBoundary
<1>21. ASSUME NEW a \in AS, CloseEnds(a) PROVE RecordTypeOK'
  BY <1>21 DEF CloseEnds
<1>22. ASSUME StopEnds PROVE RecordTypeOK'
  BY <1>22 DEF StopEnds
<1>23. ASSUME UNCHANGED vars PROVE RecordTypeOK'
  BY <1>23 DEF vars
<1> QED
  BY <1>1, <1>2, <1>3, <1>4, <1>5, <1>6, <1>7, <1>8, <1>9, <1>10,
     <1>11, <1>12, <1>13, <1>14, <1>15, <1>16, <1>17, <1>18, <1>19, <1>20, <1>21, <1>22, <1>23
     DEF Next, TryFlush

LEMMA StepType ==
    ASSUME TypeOK, [Next]_vars
    PROVE  TypeOK'
<1>1. QueueTypeOK'
  BY QueuePart, QueueStepType DEF TypeOK
<1>2. LocalTypeOK' /\ AgentTypeOK' /\ RecordTypeOK'
  BY <1>1, LocalStepType, AgentStepType, RecordStepType
<1> QED
  BY <1>1, <1>2 DEF TypeOK, LocalTypeOK, AgentTypeOK, RecordTypeOK

LEMMA InitType == Init => TypeOK
<1> SUFFICES ASSUME Init PROVE TypeOK
  OBVIOUS
<1>1. QueueTypeOK
  BY QueueAssumption DEF Init, QueueInit, QueueTypeOK
<1>2. LocalTypeOK
  BY DEF Init, LocalTypeOK, Steps
<1>3. AgentTypeOK
  <2>1. <<>> \in Seq(Seq(Msg))
    OBVIOUS
  <2>2. turns \in [AS -> Seq(Seq(Msg))]
    BY <2>1 DEF Init
  <2> QED
    BY <2>2, NoPromptType DEF Init, AgentTypeOK
<1>4. RecordTypeOK
  <2>1. delivered \in [Msg -> Nat] /\ used \in [Bounded -> Nat]
    BY DEF Init
  <2>2. pushed \in Seq(Msg)
    BY DEF Init
  <2>3. arrived \subseteq Msg /\ steered \subseteq Msg /\ dropped \subseteq Msg
    BY DEF Init
  <2> QED
    BY <2>1, <2>2, <2>3 DEF Init, RecordTypeOK
<1> QED
  BY <1>1, <1>2, <1>3, <1>4 DEF TypeOK, LocalTypeOK, AgentTypeOK, RecordTypeOK

(***************************************************************************)
(* Every variable keeps its type, and the queue never holds more than      *)
(* Capacity messages, whatever the goroutines of a chat do.                *)
(***************************************************************************)
THEOREM TypeCorrect == Spec => []TypeOK
  BY InitType, StepType, PTL DEF Spec
-----------------------------------------------------------------------------
(* What the queue's operations do to the sets of messages in its regions. *)

LEMMA RangeContents ==
    ASSUME QueueTypeOK
    PROVE  Range(Contents) = Range(inflight) \cup Range(pending)
  BY RangeConcatenation DEF QueueTypeOK, Contents

LEMMA AppendFresh ==
    ASSUME NEW S, NEW s \in Seq(S), NEW m \in S
    PROVE  /\ Range(Append(s, m)) = Range(s) \cup {m}
           /\ IsInjective(s) /\ m \notin Range(s) => IsInjective(Append(s, m))
<1>1. Append(s, m) = s \o <<m>>
  BY AppendIsConcat
<1>2. <<m>> \in Seq(S) /\ IsInjective(<<m>>) /\ Range(<<m>>) = {m}
  BY SingletonInjective
<1>3. Range(s \o <<m>>) = Range(s) \cup {m}
  BY <1>2, RangeConcatenation
<1>4. IsInjective(s) /\ m \notin Range(s) => IsInjective(s \o <<m>>)
  BY <1>2, ConcatInjective
<1> QED
  BY <1>1, <1>3, <1>4

LEMMA PushFresh ==
    ASSUME QueueTypeOK, NoDuplicates, NEW m \in Msg,
           m \notin Range(inflight) \cup Range(pending),
           PushOk(m) \/ PushFrontOk(m)
    PROVE  /\ NoDuplicates'
           /\ UNCHANGED inflight
           /\ Range(pending') = Range(pending) \cup {m}
<1>1. UNCHANGED inflight
  BY DEF PushOk, PushFrontOk
<1>2. Range(pending') = Range(pending) \cup {m} /\ IsInjective(pending')
  <2>1. CASE PushOk(m)
    BY <2>1, AppendFresh DEF PushOk, QueueTypeOK, NoDuplicates
  <2>2. CASE PushFrontOk(m)
    <3> DEFINE h == <<m>>
    <3>1. h \in Seq(Msg) /\ IsInjective(h) /\ Range(h) = {m}
      BY SingletonInjective
    <3>2. pending' = h \o pending /\ pending \in Seq(Msg) /\ IsInjective(pending)
      BY <2>2 DEF PushFrontOk, QueueTypeOK, NoDuplicates
    <3> HIDE DEF h
    <3>3. Range(h) \cap Range(pending) = {}
      BY <3>1
    <3>4. /\ IsInjective(h \o pending)
          /\ Range(h \o pending) = Range(h) \cup Range(pending)
      BY <3>1, <3>2, <3>3, ConcatInjective
    <3> QED
      BY <3>1, <3>2, <3>4
  <2> QED
    BY <2>1, <2>2
<1> QED
  BY <1>1, <1>2 DEF NoDuplicates

LEMMA PeekParts ==
    ASSUME QueueTypeOK, NoDuplicates, Peek
    PROVE  /\ NoDuplicates'
           /\ inflight' = inflight \o out' /\ out' \in Seq(Msg)
           /\ Range(inflight') = Range(inflight) \cup Range(out')
           /\ Range(pending) = Range(out') \cup Range(pending')
           /\ Range(out') \cap Range(pending') = {}
<1>1. PICK k \in 1..Len(pending) :
         /\ inflight' = inflight \o SubSeq(pending, 1, k)
         /\ pending' = SubSeq(pending, k + 1, Len(pending))
         /\ out' = SubSeq(pending, 1, k)
  BY DEF Peek
<1>2. /\ inflight \in Seq(Msg) /\ pending \in Seq(Msg)
      /\ IsInjective(inflight) /\ IsInjective(pending)
      /\ Range(inflight) \cap Range(pending) = {}
  BY DEF QueueTypeOK, NoDuplicates
<1>3. /\ out' \in Seq(Msg) /\ IsInjective(out') /\ IsInjective(pending')
      /\ Range(out') \cup Range(pending') = Range(pending)
      /\ Range(out') \cap Range(pending') = {}
  BY <1>1, <1>2, SplitInjective
<1>4. inflight' = inflight \o out'
  BY <1>1
<1>5. /\ IsInjective(inflight')
      /\ Range(inflight') = Range(inflight) \cup Range(out')
  <2>1. Range(inflight) \cap Range(out') = {}
    BY <1>2, <1>3
  <2> QED
    BY <1>2, <1>3, <1>4, <2>1, ConcatInjective
<1> QED
  BY <1>2, <1>3, <1>4, <1>5 DEF NoDuplicates

LEMMA RewindParts ==
    ASSUME QueueTypeOK, NoDuplicates, Rewind
    PROVE  /\ NoDuplicates'
           /\ inflight' = <<>>
           /\ Range(pending') = Range(inflight) \cup Range(pending)
<1>1. inflight' = <<>> /\ pending' = inflight \o pending
  BY DEF Rewind, Contents
<1>2. IsInjective(pending') /\ Range(pending') = Range(inflight) \cup Range(pending)
  BY <1>1, ConcatInjective DEF QueueTypeOK, NoDuplicates
<1> QED
  BY <1>1, <1>2, EmptyInjective DEF NoDuplicates

LEMMA CommitParts ==
    ASSUME NoDuplicates, Commit
    PROVE  NoDuplicates' /\ inflight' = <<>> /\ pending' = pending
  BY EmptyInjective DEF NoDuplicates, Commit

LEMMA ClearParts ==
    ASSUME QueueTypeOK, NoDuplicates, Clear
    PROVE  /\ NoDuplicates'
           /\ inflight' = <<>> /\ pending' = <<>>
           /\ Range(out') = Range(inflight) \cup Range(pending)
  BY EmptyInjective, RangeContents DEF NoDuplicates, Clear
-----------------------------------------------------------------------------
(* The inductive invariant SoloInv, one lemma per kind of step. *)

LEMMA TargetStep ==
    ASSUME TypeOK, TargetChosen, [Next]_vars
    PROVE  TargetChosen'
<1> USE DEF TypeOK, TargetChosen, Goto, localVars
<1>1. ASSUME NEW f \in Inbound, Lookup(f) PROVE TargetChosen'
  BY <1>1 DEF Lookup
<1>2. ASSUME NEW f \in Inbound, QueueUserMessage(f) PROVE TargetChosen'
  BY <1>2 DEF QueueUserMessage
<1>3. ASSUME NEW f \in Flusher, FlushPeek(f) PROVE TargetChosen'
  BY <1>3 DEF FlushPeek
<1>4. ASSUME NEW f \in Flusher, FlushSelect(f) PROVE TargetChosen'
  BY <1>4 DEF FlushSelect
<1>5. ASSUME NEW f \in Flusher, FlushReady(f) PROVE TargetChosen'
  BY <1>5 DEF FlushReady
<1>6. ASSUME NEW f \in Flusher, FlushStatus(f) PROVE TargetChosen'
  BY <1>6 DEF FlushStatus
<1>7. ASSUME NEW f \in Flusher, FlushRecheck(f) PROVE TargetChosen'
  BY <1>7 DEF FlushRecheck
<1>8. ASSUME NEW f \in Flusher, SubmitCommit(f) PROVE TargetChosen'
  BY <1>8 DEF SubmitCommit
<1>9. ASSUME NEW f \in Flusher, SendBlocksOk(f) PROVE TargetChosen'
  BY <1>9 DEF SendBlocksOk
<1>10. ASSUME NEW f \in Flusher, SendBlocksFail(f) PROVE TargetChosen'
  BY <1>10 DEF SendBlocksFail
<1>11. ASSUME NEW f \in Flusher, FlushCommit(f) PROVE TargetChosen'
  BY <1>11 DEF FlushCommit
<1>12. ASSUME NEW f \in Flusher, FlushRewind(f) PROVE TargetChosen'
  BY <1>12 DEF FlushRewind
<1>13. ASSUME NEW a \in AS, BridgeDone(a) PROVE TargetChosen'
  BY <1>13 DEF BridgeDone
<1>14. ASSUME NEW a \in AS, RoutePromptEnded(a) PROVE TargetChosen'
  BY <1>14 DEF RoutePromptEnded
<1>15. ASSUME NEW a \in AS, CloseAgent(a) PROVE TargetChosen'
  BY <1>15 DEF CloseAgent
<1>16. ASSUME SteerUserMessage PROVE TargetChosen'
  BY <1>16 DEF SteerUserMessage
<1>17. ASSUME StopSelectedAgent PROVE TargetChosen'
  BY <1>17 DEF StopSelectedAgent
<1>18. ASSUME SetSelectedAgent PROVE TargetChosen'
  BY <1>18 DEF SetSelectedAgent
<1>19. ASSUME SetSelectedCwd PROVE TargetChosen'
  BY <1>19 DEF SetSelectedCwd
<1>20. ASSUME ClearQueueOnCwdBoundary PROVE TargetChosen'
  BY <1>20 DEF ClearQueueOnCwdBoundary
<1>21. ASSUME NEW a \in AS, CloseEnds(a) PROVE TargetChosen'
  BY <1>21 DEF CloseEnds
<1>22. ASSUME StopEnds PROVE TargetChosen'
  BY <1>22 DEF StopEnds
<1>23. ASSUME UNCHANGED vars PROVE TargetChosen'
  BY <1>23 DEF vars
<1> QED
  BY <1>1, <1>2, <1>3, <1>4, <1>5, <1>6, <1>7, <1>8, <1>9, <1>10,
     <1>11, <1>12, <1>13, <1>14, <1>15, <1>16, <1>17, <1>18, <1>19, <1>20, <1>21, <1>22, <1>23
     DEF Next, TryFlush

\* What the messages' whereabouts depend on is left alone.
Quiet ==
    /\ UNCHANGED <<inflight, pending, batch, historyVars, overlapped>>
    /\ \A f \in Flusher : HoldsBatch(f)' <=> HoldsBatch(f)
    /\ \A f \in Flusher : pc'[f] = "commit" <=> pc[f] = "commit"

LEMMA QuietStep ==
    ASSUME SoloInv, TargetChosen', Quiet
    PROVE  SoloInv'
<1>1. NoDuplicates' /\ Recorded'
  BY DEF SoloInv, Quiet, NoDuplicates, Recorded, Accepted, historyVars
<1>2. NoMessageLost' <=> NoMessageLost
  BY DEF Quiet, NoMessageLost, Accepted, Contents, historyVars
<1>3. ASSUME ~overlapped' PROVE Solo'
  BY <1>2, <1>3 DEF SoloInv, Solo, Quiet, historyVars
<1> QED
  BY <1>1, <1>3 DEF SoloInv

LEMMA LostMeans ==
    ASSUME QueueTypeOK
    PROVE  NoMessageLost <=>
             \A m \in Accepted : delivered[m] = 0 /\ m \notin dropped
                                 => m \in Range(inflight) \cup Range(pending)
  BY RangeContents DEF NoMessageLost

LEMMA LostMeansNext ==
    ASSUME QueueTypeOK'
    PROVE  NoMessageLost' <=>
             \A m \in Accepted' : delivered'[m] = 0 /\ m \notin dropped'
                                 => m \in Range(inflight') \cup Range(pending')
<1>1. Range(inflight' \o pending') = Range(inflight') \cup Range(pending')
  BY RangeConcatenation DEF QueueTypeOK
<1> QED
  BY <1>1 DEF NoMessageLost, Contents

\* A message that has just arrived is nowhere yet.
LEMMA PushStep ==
    ASSUME TypeOK, TypeOK', SoloInv, TargetChosen', NEW m \in Msg \ arrived,
           arrived' = arrived \cup {m}, PushOk(m) \/ PushFrontOk(m),
           Accepted' = Accepted \cup {m},
           UNCHANGED <<batch, delivered, dropped, overlapped>>,
           \A f \in Flusher : HoldsBatch(f)' <=> HoldsBatch(f),
           \A f \in Flusher : pc'[f] = "commit" <=> pc[f] = "commit"
    PROVE  SoloInv'
<1>1. /\ NoDuplicates' /\ UNCHANGED inflight
      /\ Range(pending') = Range(pending) \cup {m}
  BY PushFresh DEF SoloInv, Recorded, TypeOK
<1>2. Recorded'
  BY <1>1 DEF SoloInv, Recorded
<1>3. delivered[m] = 0
  BY DEF SoloInv, Recorded, TypeOK
<1>4. ASSUME ~overlapped' PROVE Solo'
  <2>1. Solo
    BY <1>4 DEF SoloInv
  <2>2. NoMessageLost'
    BY <1>1, <2>1, LostMeans, LostMeansNext DEF Solo, TypeOK
  <2>3. \A f \in Flusher : m \notin Range(batch[f])
    BY DEF SoloInv, Recorded
  <2> QED
    BY <1>1, <1>3, <2>1, <2>2, <2>3 DEF Solo
<1> QED
  BY <1>1, <1>2, <1>4 DEF SoloInv

\* The first TryFlush takes a batch nobody else holds.
LEMMA PeekStep ==
    ASSUME TypeOK, TypeOK', SoloInv, TargetChosen',
           NEW f \in Flusher, FlushPeek(f), Peek
    PROVE  SoloInv'
<1>1. /\ NoDuplicates'
      /\ inflight' = inflight \o out' /\ out' \in Seq(Msg)
      /\ Range(inflight') = Range(inflight) \cup Range(out')
      /\ Range(pending) = Range(out') \cup Range(pending')
      /\ Range(out') \cap Range(pending') = {}
  BY PeekParts DEF SoloInv, TypeOK
<1>2. /\ UNCHANGED historyVars
      /\ overlapped' = (overlapped \/ \E g \in Flusher \ {f} : HoldsBatch(g))
      /\ pc[f] = "peek"
  BY DEF FlushPeek
<1>3. /\ pc' = [pc EXCEPT ![f] = "select"]
      /\ batch' = [batch EXCEPT ![f] = out']
  <2>1. ~PeekEmpty
    BY DEF Peek, PeekEmpty, TypeOK, QueueTypeOK
  <2> QED
    BY <2>1 DEF FlushPeek, Goto
<1>4. /\ pc \in [Flusher -> Steps] /\ batch \in [Flusher -> Seq(Msg)]
  BY DEF TypeOK
<1>5. Recorded'
  BY <1>1, <1>2, <1>3, <1>4 DEF SoloInv, Recorded, Accepted, historyVars
<1>6. ASSUME ~overlapped' PROVE Solo'
  <2>1. Solo /\ \A g \in Flusher : ~HoldsBatch(g)
    BY <1>2, <1>6 DEF SoloInv, HoldsBatch
  <2>2. inflight = <<>> /\ inflight' = out'
    BY <1>1, <2>1 DEF Solo
  <2>3. NoMessageLost'
    BY <1>1, <1>2, <2>1, LostMeans, LostMeansNext DEF Solo, TypeOK, Accepted, historyVars
  <2>4. \A g \in Flusher : HoldsBatch(g)' => g = f
    BY <1>3, <1>4, <2>1 DEF HoldsBatch
  <2>5. HoldsBatch(f)' /\ pc'[f] = "select" /\ batch'[f] = out'
    BY <1>3, <1>4 DEF HoldsBatch
  <2>6. \A m \in Range(out') \cup Range(pending') : delivered'[m] = 0
    BY <1>1, <1>2, <2>1 DEF Solo, historyVars
  <2>7. \A m \in Msg : delivered'[m] <= 1
    BY <1>2, <2>1 DEF Solo, historyVars
  <2> QED
    BY <1>1, <2>2, <2>3, <2>4, <2>5, <2>6, <2>7 DEF Solo
<1> QED
  BY <1>1, <1>5, <1>6 DEF SoloInv

\* The bridge accepts a batch no message of which it has accepted before.
LEMMA SendStep ==
    ASSUME TypeOK, TypeOK', SoloInv, TargetChosen', NEW f \in Flusher, SendBlocksOk(f)
    PROVE  SoloInv'
<1>1. /\ UNCHANGED <<inflight, pending, batch, arrived, pushed, steered, dropped, overlapped>>
      /\ pc' = [pc EXCEPT ![f] = "commit"] /\ pc[f] = "send"
      /\ delivered' = [m \in Msg |-> delivered[m] + IF m \in Range(batch[f]) THEN 1 ELSE 0]
  BY DEF SendBlocksOk, queueVars, Goto
<1>2. /\ pc \in [Flusher -> Steps] /\ delivered \in [Msg -> Nat]
      /\ Range(batch[f]) \subseteq Msg /\ Range(pending) \subseteq Msg
  BY RangeOfSeq DEF TypeOK, QueueTypeOK
<1>3. NoDuplicates'
  BY <1>1 DEF SoloInv, NoDuplicates
<1>4. Recorded'
  <2>1. \A m \in Msg : delivered'[m] > 0 => m \in arrived
    BY <1>1, <1>2 DEF SoloInv, Recorded
  <2> QED
    BY <1>1, <2>1 DEF SoloInv, Recorded, Accepted
<1>5. ASSUME ~overlapped' PROVE Solo'
  <2>1. Solo /\ HoldsBatch(f) /\ \A g \in Flusher : HoldsBatch(g) => g = f
    BY <1>1, <1>5 DEF SoloInv, Solo, HoldsBatch
  <2>2. \A m \in Range(batch[f]) : delivered[m] = 0 /\ delivered'[m] = 1
    BY <1>1, <1>2, <2>1 DEF Solo
  <2>3. \A m \in Msg \ Range(batch[f]) : delivered'[m] = delivered[m]
    BY <1>1, <1>2
  <2>4. NoMessageLost'
    <3>1. \A m \in Msg : delivered'[m] = 0 => delivered[m] = 0
      BY <1>2, <2>2, <2>3
    <3>2. Accepted \subseteq Msg
      BY RangeOfSeq DEF TypeOK, Accepted
    <3> QED
      BY <1>1, <2>1, <3>1, <3>2, LostMeans, LostMeansNext DEF Solo, TypeOK, Accepted
  <2>5. HoldsBatch(f)' /\ pc'[f] = "commit" /\ \A g \in Flusher : HoldsBatch(g)' => g = f
    BY <1>1, <1>2, <2>1 DEF HoldsBatch
  <2>6. \A m \in Range(pending') : delivered'[m] = 0
    BY <1>1, <1>2, <2>1, <2>3 DEF Solo
  <2>7. \A m \in Msg : delivered'[m] <= 1
    BY <2>1, <2>2, <2>3 DEF Solo
  <2>8. /\ inflight' \in {batch'[f], <<>>}
        /\ Range(batch'[f]) \cap Range(pending') = {}
        /\ \A m \in Range(batch'[f]) : delivered'[m] = 1
    BY <1>1, <2>1, <2>2 DEF Solo
  <2> QED
    BY <2>4, <2>5, <2>6, <2>7, <2>8 DEF Solo
<1> QED
  BY <1>1, <1>3, <1>4, <1>5 DEF SoloInv

\* Commit drops messages that were delivered, Rewind puts back messages that
\* were not, and neither leaves anyone holding a batch.
LEMMA SettleStep ==
    ASSUME TypeOK, TypeOK', SoloInv, TargetChosen', NEW f \in Flusher,
           FlushCommit(f) \/ FlushRewind(f)
    PROVE  SoloInv'
<1>1. /\ UNCHANGED <<historyVars, overlapped>>
      /\ pc' = [pc EXCEPT ![f] = "idle"] /\ batch' = [batch EXCEPT ![f] = <<>>]
      /\ pc[f] \in {"commit", "rewind"}
  BY DEF FlushCommit, FlushRewind, Goto
<1>2. pc \in [Flusher -> Steps] /\ batch \in [Flusher -> Seq(Msg)]
  BY DEF TypeOK
<1>3. /\ NoDuplicates' /\ inflight' = <<>>
      /\ \/ pc[f] = "commit" /\ pending' = pending
         \/ pc[f] = "rewind" /\ Range(pending') = Range(inflight) \cup Range(pending)
  BY CommitParts, RewindParts DEF FlushCommit, FlushRewind, SoloInv, TypeOK
<1>4. Recorded'
  BY <1>1, <1>2, <1>3, EmptyInjective DEF SoloInv, Recorded, Accepted, historyVars
<1>5. ASSUME ~overlapped' PROVE Solo'
  <2>1. Solo /\ HoldsBatch(f) /\ \A g \in Flusher : HoldsBatch(g) => g = f
    BY <1>1, <1>5 DEF SoloInv, Solo, HoldsBatch
  <2>2. \A g \in Flusher : ~HoldsBatch(g)'
    BY <1>1, <1>2, <2>1 DEF HoldsBatch
  <2>3. Range(inflight) \subseteq Range(batch[f])
    BY <2>1, EmptyInjective DEF Solo
  <2>4. \A m \in Range(inflight) : delivered[m] = IF pc[f] = "commit" THEN 1 ELSE 0
    BY <2>1, <2>3 DEF Solo
  <2>5. \A m \in Range(pending') : delivered'[m] = 0
    BY <1>1, <1>3, <2>1, <2>4 DEF Solo, historyVars
  <2>6. NoMessageLost'
    BY <1>1, <1>3, <2>1, <2>4, LostMeans, LostMeansNext
       DEF Solo, TypeOK, Accepted, historyVars
  <2> QED
    BY <1>1, <1>3, <2>1, <2>2, <2>5, <2>6 DEF Solo, historyVars
<1> QED
  BY <1>3, <1>4, <1>5 DEF SoloInv

\* What /cwd clears it reports dropped.
LEMMA ClearStep ==
    ASSUME TypeOK, TypeOK', SoloInv, TargetChosen', ClearQueueOnCwdBoundary
    PROVE  SoloInv'
<1>1. /\ UNCHANGED <<localVars, arrived, pushed, steered, delivered, overlapped>>
      /\ dropped' = dropped \cup Range(out')
  BY DEF ClearQueueOnCwdBoundary
<1>2. /\ NoDuplicates' /\ inflight' = <<>> /\ pending' = <<>>
      /\ Range(out') = Range(inflight) \cup Range(pending)
  BY ClearParts DEF ClearQueueOnCwdBoundary, SoloInv, TypeOK
<1>3. Range(inflight') = {} /\ Range(pending') = {}
  BY <1>2, EmptyInjective
<1>4. Recorded'
  BY <1>1, <1>3 DEF SoloInv, Recorded, Accepted, localVars
<1>5. ASSUME ~overlapped' PROVE Solo'
  <2>1. Solo
    BY <1>1, <1>5 DEF SoloInv
  <2>2. NoMessageLost'
    BY <1>1, <1>2, <2>1, LostMeans, LostMeansNext DEF Solo, TypeOK, Accepted
  <2> QED
    BY <1>1, <1>2, <1>3, <2>1, <2>2 DEF Solo, HoldsBatch, localVars
<1> QED
  BY <1>2, <1>4, <1>5 DEF SoloInv

\* A full queue refuses the message.
LEMMA RefuseStep ==
    ASSUME SoloInv, TargetChosen', NEW m \in Msg, arrived' = arrived \cup {m}, PushFull,
           UNCHANGED <<batch, pushed, steered, delivered, dropped, overlapped>>,
           \A f \in Flusher : HoldsBatch(f)' <=> HoldsBatch(f),
           \A f \in Flusher : pc'[f] = "commit" <=> pc[f] = "commit"
    PROVE  SoloInv'
<1>1. UNCHANGED <<inflight, pending>>
  BY DEF PushFull
<1>2. NoDuplicates' /\ Recorded'
  BY <1>1 DEF SoloInv, NoDuplicates, Recorded, Accepted
<1>3. NoMessageLost' <=> NoMessageLost
  BY <1>1 DEF NoMessageLost, Accepted, Contents
<1>4. ASSUME ~overlapped' PROVE Solo'
  BY <1>1, <1>3, <1>4 DEF SoloInv, Solo
<1> QED
  BY <1>2, <1>4 DEF SoloInv

\* SoloInv is inductive, given the types.
LEMMA SoloStep ==
    ASSUME TypeOK, SoloInv, [Next]_vars
    PROVE  SoloInv'
<1>1. TypeOK' /\ pc \in [Flusher -> Steps] /\ Inbound \subseteq Flusher /\ AS \subseteq Flusher
  BY StepType DEF TypeOK, Flusher
<1>2. SoloInv /\ TargetChosen'
  BY TargetStep DEF SoloInv
<1> USE <1>1 DEF Quiet, HoldsBatch, Goto, queueVars, localVars, historyVars
<1>3. ASSUME NEW f \in Inbound, Lookup(f) PROVE Quiet
  BY <1>3 DEF Lookup
<1>4. ASSUME NEW f \in Flusher, FlushSelect(f) PROVE Quiet
  BY <1>4 DEF FlushSelect
<1>5. ASSUME NEW f \in Flusher, FlushReady(f) PROVE Quiet
  BY <1>5 DEF FlushReady
<1>6. ASSUME NEW f \in Flusher, FlushStatus(f) PROVE Quiet
  BY <1>6 DEF FlushStatus
<1>7. ASSUME NEW f \in Flusher, FlushRecheck(f) PROVE Quiet
  BY <1>7 DEF FlushRecheck
<1>8. ASSUME NEW f \in Flusher, SubmitCommit(f) PROVE Quiet
  BY <1>8 DEF SubmitCommit
<1>9. ASSUME NEW f \in Flusher, SendBlocksFail(f) PROVE Quiet
  BY <1>9 DEF SendBlocksFail
<1>10. ASSUME NEW a \in AS, BridgeDone(a) PROVE Quiet
  BY <1>10 DEF BridgeDone
<1>11. ASSUME NEW a \in AS, RoutePromptEnded(a) PROVE Quiet
  BY <1>11 DEF RoutePromptEnded
<1>12. ASSUME NEW a \in AS, CloseAgent(a) PROVE Quiet
  BY <1>12 DEF CloseAgent
<1>13. ASSUME StopSelectedAgent PROVE Quiet
  BY <1>13 DEF StopSelectedAgent
<1>14. ASSUME SetSelectedAgent PROVE Quiet
  BY <1>14 DEF SetSelectedAgent
<1>15. ASSUME SetSelectedCwd PROVE Quiet
  BY <1>15 DEF SetSelectedCwd
<1>16. ASSUME UNCHANGED vars PROVE Quiet
  BY <1>16 DEF vars
<1>24. ASSUME StopEnds PROVE Quiet
  BY <1>24 DEF StopEnds
<1>25. ASSUME NEW a \in AS, CloseEnds(a) PROVE Quiet
  BY <1>25 DEF CloseEnds
<1> HIDE <1>1 DEF Quiet, HoldsBatch, Goto, queueVars, localVars, historyVars
<1>17. ASSUME Quiet PROVE SoloInv'
  BY <1>2, <1>17, QuietStep
<1>18. ASSUME NEW f \in Inbound, QueueUserMessage(f) PROVE SoloInv'
  <2>1. PICK m \in Msg \ arrived :
           /\ arrived' = arrived \cup {m}
           /\ \/ /\ PushOk(m) /\ pushed' = Append(pushed, m) /\ Goto(f, "peek")
              \/ PushFull /\ Goto(f, "idle") /\ UNCHANGED pushed
    BY <1>18 DEF QueueUserMessage
  <2>2. /\ UNCHANGED <<batch, steered, delivered, dropped, overlapped>>
        /\ pc[f] = "queue" /\ f \in Flusher
    BY <1>18 DEF QueueUserMessage, Flusher
  <2>3. /\ \A g \in Flusher : HoldsBatch(g)' <=> HoldsBatch(g)
        /\ \A g \in Flusher : pc'[g] = "commit" <=> pc[g] = "commit"
    BY <1>1, <2>1, <2>2 DEF Goto, HoldsBatch
  <2>4. CASE PushOk(m) /\ pushed' = Append(pushed, m)
    <3>1. Range(pushed') = Range(pushed) \cup {m}
      BY <2>4, AppendFresh DEF TypeOK
    <3>2. Accepted' = Accepted \cup {m}
      BY <2>2, <3>1 DEF Accepted
    <3> QED
      BY <1>1, <1>2, <2>1, <2>2, <2>3, <2>4, <3>2, PushStep
  <2>5. CASE PushFull /\ UNCHANGED pushed
    BY <1>2, <2>1, <2>2, <2>3, <2>5, RefuseStep
  <2> QED
    BY <2>1, <2>4, <2>5
<1>19. ASSUME SteerUserMessage PROVE SoloInv'
  <2>1. PICK m \in Msg \ arrived :
           /\ arrived' = arrived \cup {m}
           /\ \/ PushFrontOk(m) /\ steered' = steered \cup {m}
              \/ PushFull /\ UNCHANGED steered
    BY <1>19 DEF SteerUserMessage
  <2>2. /\ UNCHANGED <<pc, batch, pushed, delivered, dropped, overlapped>>
        /\ \A g \in Flusher : HoldsBatch(g)' <=> HoldsBatch(g)
        /\ \A g \in Flusher : pc'[g] = "commit" <=> pc[g] = "commit"
    BY <1>19 DEF SteerUserMessage, localVars, HoldsBatch
  <2>3. CASE PushFrontOk(m) /\ steered' = steered \cup {m}
    <3>1. Accepted' = Accepted \cup {m}
      BY <2>2, <2>3 DEF Accepted
    <3> QED
      BY <1>1, <1>2, <2>1, <2>2, <2>3, <3>1, PushStep
  <2>4. CASE PushFull /\ UNCHANGED steered
    BY <1>2, <2>1, <2>2, <2>4, RefuseStep
  <2> QED
    BY <2>1, <2>3, <2>4
<1>20. ASSUME NEW f \in Flusher, FlushPeek(f) PROVE SoloInv'
  <2>1. CASE Peek
    BY <1>1, <1>2, <2>1, <1>20, PeekStep
  <2>2. CASE PeekEmpty /\ Goto(f, "idle") /\ UNCHANGED batch
    <3>1. /\ UNCHANGED <<inflight, pending, batch, historyVars>>
          /\ overlapped' = (overlapped \/ \E g \in Flusher \ {f} : HoldsBatch(g))
          /\ \A g \in Flusher : HoldsBatch(g)' <=> HoldsBatch(g)
          /\ \A g \in Flusher : pc'[g] = "commit" <=> pc[g] = "commit"
      BY <1>1, <2>2, <1>20 DEF FlushPeek, PeekEmpty, Goto, HoldsBatch
    <3>2. CASE UNCHANGED overlapped
      BY <1>2, <3>1, <3>2, QuietStep DEF Quiet
    <3>3. CASE overlapped' = TRUE
      BY <1>2, <3>1, <3>3
         DEF SoloInv, NoDuplicates, Recorded, Accepted, historyVars
    <3> QED
      BY <3>1, <3>2, <3>3 DEF TypeOK
  <2> QED
    BY <1>20, <2>1, <2>2 DEF FlushPeek
<1>21. ASSUME NEW f \in Flusher, SendBlocksOk(f) PROVE SoloInv'
  BY <1>1, <1>2, <1>21, SendStep
<1>22. ASSUME NEW f \in Flusher, FlushCommit(f) \/ FlushRewind(f) PROVE SoloInv'
  BY <1>1, <1>2, <1>22, SettleStep
<1>23. ASSUME ClearQueueOnCwdBoundary PROVE SoloInv'
  BY <1>1, <1>2, <1>23, ClearStep
<1> QED
  BY <1>3, <1>4, <1>5, <1>6, <1>7, <1>8, <1>9, <1>10, <1>11,
     <1>12, <1>13, <1>14, <1>15, <1>16, <1>17, <1>18, <1>19, <1>20, <1>21, <1>22, <1>23,
     <1>24, <1>25 DEF Next, TryFlush

LEMMA InitSolo == Init => SoloInv
<1> SUFFICES ASSUME Init PROVE SoloInv
  OBVIOUS
<1>1. Range(inflight) = {} /\ Range(pending) = {} /\ Range(pushed) = {}
  BY EmptyInjective DEF Init, QueueInit
<1>2. NoDuplicates /\ Recorded /\ TargetChosen
  BY <1>1, EmptyInjective
     DEF Init, QueueInit, NoDuplicates, Recorded, TargetChosen, Accepted
<1>3. Solo
  BY <1>1 DEF Init, QueueInit, Solo, HoldsBatch, NoMessageLost, Accepted
<1> QED
  BY <1>2, <1>3 DEF SoloInv

(***************************************************************************)
(* As long as no two TryFlush calls of a chat have overlapped, an accepted *)
(* message is in the queue until it has been delivered or reported         *)
(* dropped, and it is delivered at most once, however sends fail and       *)
(* whatever commands come in between.                                      *)
(***************************************************************************)
THEOREM SoloCorrect == Spec => []SoloExactlyOnce
<1>1. Init => TypeOK /\ SoloInv
  BY InitType, InitSolo
<1>2. TypeOK /\ SoloInv /\ [Next]_vars => TypeOK' /\ SoloInv'
  BY StepType, SoloStep
<1>3. SoloInv => SoloExactlyOnce
  BY DEF SoloInv, Solo, SoloExactlyOnce
<1> QED
  BY <1>1, <1>2, <1>3, PTL DEF Spec
-----------------------------------------------------------------------------
(* The order of submission. *)

\* QueueUserMessage has accepted m before n.
Earlier(m, n) == \E i, j \in DOMAIN pushed : i < j /\ pushed[i] = m /\ pushed[j] = n

Ordered(s) == \A x, y \in DOMAIN s : Earlier(s[x], s[y]) => x < y
Before(s, t) == \A x \in DOMAIN s, y \in DOMAIN t : ~Earlier(t[y], s[x])

\* The queue is in order, nothing pending should have been in the batch that is
\* submitted, even if /cwd has cleared the queue meanwhile, and what was delivered
\* passed nobody.
InOrder ==
    /\ Ordered(inflight) /\ Ordered(pending) /\ Before(inflight, pending)
    /\ \A f \in Flusher : HoldsBatch(f) => Before(batch[f], pending)
    /\ \A m, n \in Msg : Earlier(m, n) /\ delivered[n] > 0 => delivered[m] > 0 \/ m \in dropped
FifoInv == ~overlapped => InOrder

LEMMA OrderedSplit ==
    ASSUME NEW s \in Seq(Msg), Ordered(s), NEW k \in 1..Len(s)
    PROVE  LET a == SubSeq(s, 1, k)
               b == SubSeq(s, k + 1, Len(s))
           IN  Ordered(a) /\ Ordered(b) /\ Before(a, b)
<1> DEFINE a == SubSeq(s, 1, k)
           b == SubSeq(s, k + 1, Len(s))
<1>1. Len(s) \in Nat /\ DOMAIN s = 1..Len(s)
  BY LenProperties
<1>2. DOMAIN a = 1..k /\ \A x \in 1..k : a[x] = s[x]
  BY <1>1, SubSeqProperties
<1>3. DOMAIN b = 1..(Len(s) - k) /\ \A x \in 1..(Len(s) - k) : b[x] = s[x + k]
  BY <1>1, SubSeqProperties
<1> HIDE DEF a, b
<1>4. Ordered(a)
  BY <1>1, <1>2 DEF Ordered
<1>5. Ordered(b)
  <2> SUFFICES ASSUME NEW x \in DOMAIN b, NEW y \in DOMAIN b, Earlier(b[x], b[y])
               PROVE  x < y
    BY DEF Ordered
  <2>1. x + k \in DOMAIN s /\ y + k \in DOMAIN s /\ b[x] = s[x + k] /\ b[y] = s[y + k]
    BY <1>1, <1>3
  <2>2. x + k < y + k
    BY <2>1 DEF Ordered
  <2> QED
    BY <1>1, <1>3, <2>2
<1>6. Before(a, b)
  <2> SUFFICES ASSUME NEW x \in DOMAIN a, NEW y \in DOMAIN b, Earlier(b[y], a[x])
               PROVE  FALSE
    BY DEF Before
  <2>1. x \in DOMAIN s /\ y + k \in DOMAIN s /\ a[x] = s[x] /\ b[y] = s[y + k]
    BY <1>1, <1>2, <1>3
  <2>2. y + k < x
    BY <2>1 DEF Ordered
  <2> QED
    BY <1>1, <1>2, <1>3, <2>2
<1> QED
  BY <1>4, <1>5, <1>6 DEF a, b

LEMMA OrderedConcat ==
    ASSUME NEW s \in Seq(Msg), NEW t \in Seq(Msg), Ordered(s), Ordered(t), Before(s, t)
    PROVE  Ordered(s \o t)
<1> DEFINE u == s \o t
<1>1. /\ Len(s) \in Nat /\ Len(t) \in Nat /\ DOMAIN s = 1..Len(s) /\ DOMAIN t = 1..Len(t)
  BY LenProperties
<1>2. /\ DOMAIN u = 1..(Len(s) + Len(t))
      /\ \A x \in DOMAIN u : \/ x \in DOMAIN s /\ u[x] = s[x]
                             \/ x > Len(s) /\ x - Len(s) \in DOMAIN t /\ u[x] = t[x - Len(s)]
  BY <1>1, ConcatProperties
<1> HIDE DEF u
<1> SUFFICES ASSUME NEW x \in DOMAIN u, NEW y \in DOMAIN u, Earlier(u[x], u[y])
             PROVE  x < y
  BY DEF Ordered, u
<1>3. CASE x \in DOMAIN s /\ y \in DOMAIN s /\ u[x] = s[x] /\ u[y] = s[y]
  BY <1>3 DEF Ordered
<1>4. CASE /\ x - Len(s) \in DOMAIN t /\ u[x] = t[x - Len(s)]
           /\ y \in DOMAIN s /\ u[y] = s[y]
  BY <1>4 DEF Before
<1>5. CASE x \in DOMAIN s /\ y > Len(s)
  BY <1>1, <1>2, <1>5
<1>6. CASE /\ x - Len(s) \in DOMAIN t /\ u[x] = t[x - Len(s)]
           /\ y - Len(s) \in DOMAIN t /\ u[y] = t[y - Len(s)]
  <2>1. x - Len(s) < y - Len(s)
    BY <1>6 DEF Ordered
  <2> QED
    BY <1>1, <1>2, <2>1
<1> QED
  BY <1>2, <1>3, <1>4, <1>5, <1>6

\* Nothing was accepted before or after a message that is not among those accepted.
LEMMA FreshUnordered ==
    ASSUME NEW m, m \notin Range(pushed)
    PROVE  \A n : ~Earlier(m, n) /\ ~Earlier(n, m)
  BY DEF Earlier, Range

LEMMA EarlierAppend ==
    ASSUME pushed \in Seq(Msg), NEW m \in Msg, m \notin Range(pushed),
           pushed' = Append(pushed, m)
    PROVE  /\ \A a, b : b # m /\ Earlier(a, b)' => Earlier(a, b)
           /\ \A a : ~Earlier(m, a)'
<1>1. /\ Len(pushed) \in Nat /\ DOMAIN pushed = 1..Len(pushed)
      /\ DOMAIN pushed' = 1..(Len(pushed) + 1)
      /\ \A i \in 1..Len(pushed) : pushed'[i] = pushed[i]
      /\ pushed'[Len(pushed) + 1] = m
  BY AppendProperties, LenProperties
<1>2. ASSUME NEW a, NEW b, b # m, Earlier(a, b)' PROVE Earlier(a, b)
  <2>1. PICK i, j \in DOMAIN pushed' : i < j /\ pushed'[i] = a /\ pushed'[j] = b
    BY <1>2 DEF Earlier
  <2>2. j \in DOMAIN pushed /\ i \in DOMAIN pushed
    BY <1>1, <1>2, <2>1
  <2> QED
    BY <1>1, <2>1, <2>2 DEF Earlier
<1>3. ASSUME NEW a, Earlier(m, a)' PROVE FALSE
  <2>1. PICK i, j \in DOMAIN pushed' : i < j /\ pushed'[i] = m /\ pushed'[j] = a
    BY <1>3 DEF Earlier
  <2>2. i \in DOMAIN pushed /\ pushed[i] = m
    BY <1>1, <2>1
  <2> QED
    BY <2>2 DEF Range
<1> QED
  BY <1>2, <1>3

\* Nothing that the order is about has changed, but for messages dropped, and prompts
\* committed or given up.
LEMMA OrderKept ==
    ASSUME UNCHANGED pushed
    PROVE  /\ \A a, b : Earlier(a, b)' <=> Earlier(a, b)
           /\ Ordered(inflight)' <=> Ordered(inflight')
           /\ Ordered(pending)' <=> Ordered(pending')
           /\ Before(inflight, pending)' <=> Before(inflight', pending')
           /\ \A f : Before(batch[f], pending)' <=> Before(batch'[f], pending')
  BY DEF Earlier, Ordered, Before

LEMMA InOrderNext ==
    ASSUME UNCHANGED pushed,
           Ordered(inflight'), Ordered(pending'), Before(inflight', pending'),
           \A f \in Flusher : HoldsBatch(f)' => Before(batch'[f], pending'),
           \A m, n \in Msg : Earlier(m, n) /\ delivered'[n] > 0
                             => delivered'[m] > 0 \/ m \in dropped'
    PROVE  InOrder'
  BY OrderKept DEF InOrder

\* The queue and the batches stay, whatever is refused or reported.
LEMMA OrderStill ==
    ASSUME FifoInv,
           UNCHANGED <<inflight, pending, batch, pushed, delivered, dropped, overlapped>>,
           \A f \in Flusher : HoldsBatch(f)' <=> HoldsBatch(f)
    PROVE  FifoInv'
<1> SUFFICES ASSUME ~overlapped' PROVE InOrder'
  BY DEF FifoInv
<1>1. InOrder
  BY DEF FifoInv
<1> QED
  BY <1>1, InOrderNext DEF InOrder

LEMMA EmptyOrdered ==
    /\ Ordered(<<>>)
    /\ \A s : Before(<<>>, s) /\ Before(s, <<>>)
  BY DEF Ordered, Before

\* A message that was not accepted is put at the head.
LEMMA OrderSteer ==
    ASSUME TypeOK, SoloInv, FifoInv, NEW m \in Msg \ arrived, PushFrontOk(m),
           UNCHANGED <<batch, pushed, delivered, dropped, overlapped>>,
           \A f \in Flusher : HoldsBatch(f)' <=> HoldsBatch(f)
    PROVE  FifoInv'
<1> SUFFICES ASSUME ~overlapped' PROVE InOrder'
  BY DEF FifoInv
<1>1. InOrder
  BY DEF FifoInv
<1>2. UNCHANGED inflight /\ pending' = <<m>> \o pending
  BY DEF PushFrontOk
<1>3. \A n : ~Earlier(m, n) /\ ~Earlier(n, m)
  BY FreshUnordered DEF SoloInv, Recorded, Accepted
<1>4. <<m>> \in Seq(Msg) /\ pending \in Seq(Msg)
  BY DEF TypeOK, QueueTypeOK
<1>5. Ordered(pending')
  <2>1. Ordered(<<m>>) /\ Before(<<m>>, pending)
    BY <1>3 DEF Ordered, Before
  <2> QED
    BY <1>1, <1>2, <1>4, <2>1, OrderedConcat DEF InOrder
<1>6. \A y \in DOMAIN pending' : pending'[y] = m \/ \E x \in DOMAIN pending : pending'[y] = pending[x]
  <2>1. Range(pending') = Range(pending) \cup {m}
    BY PushFresh DEF SoloInv, Recorded, TypeOK
  <2> QED
    BY <2>1 DEF Range
<1>7. \A s : Before(s, pending) => Before(s, pending')
  BY <1>3, <1>6 DEF Before
<1> QED
  BY <1>1, <1>2, <1>5, <1>7, InOrderNext DEF InOrder

\* A message that is accepted is put at the end.
LEMMA OrderPush ==
    ASSUME TypeOK, SoloInv, FifoInv, NEW m \in Msg \ arrived, PushOk(m),
           pushed' = Append(pushed, m),
           UNCHANGED <<batch, delivered, dropped, overlapped>>,
           \A f \in Flusher : HoldsBatch(f)' <=> HoldsBatch(f)
    PROVE  FifoInv'
<1> SUFFICES ASSUME ~overlapped' PROVE InOrder'
  BY DEF FifoInv
<1>1. InOrder
  BY DEF FifoInv
<1>2. /\ UNCHANGED inflight /\ pending' = Append(pending, m)
      /\ inflight \in Seq(Msg) /\ pending \in Seq(Msg) /\ batch \in [Flusher -> Seq(Msg)]
  BY DEF PushOk, TypeOK, QueueTypeOK
<1>3. m \notin Range(pushed) /\ m \notin Range(inflight) /\ m \notin Range(pending)
  BY DEF SoloInv, Recorded, Accepted
<1>4. /\ \A a, b : b # m /\ Earlier(a, b)' => Earlier(a, b)
      /\ \A a : ~Earlier(m, a)'
  BY <1>3, EarlierAppend DEF TypeOK
<1>5. /\ DOMAIN pending = 1..Len(pending) /\ Len(pending) \in Nat
      /\ DOMAIN pending' = 1..(Len(pending) + 1)
      /\ \A i \in 1..Len(pending) : pending'[i] = pending[i] /\ pending[i] # m
      /\ pending'[Len(pending) + 1] = m
  <2>1. \A i \in DOMAIN pending : pending[i] # m
    BY <1>3 DEF Range
  <2> QED
    BY <1>2, <2>1, LenProperties, AppendProperties
<1>6. Ordered(inflight)'
  <2>1. \A x \in DOMAIN inflight : inflight[x] # m
    BY <1>3 DEF Range
  <2> QED
    BY <1>1, <1>2, <1>4, <2>1 DEF InOrder, Ordered
<1>7. Ordered(pending)'
  <2> SUFFICES ASSUME NEW x \in DOMAIN pending', NEW y \in DOMAIN pending',
                      Earlier(pending[x], pending[y])'
               PROVE  x < y
    BY DEF Ordered
  <2>1. pending'[x] # m
    BY <1>4
  <2>2. x \in DOMAIN pending /\ pending'[x] = pending[x]
    BY <1>5, <2>1
  <2>3. CASE y = Len(pending) + 1
    BY <1>5, <2>2, <2>3
  <2>4. CASE y \in DOMAIN pending
    <3>1. pending'[y] = pending[y] /\ pending[y] # m
      BY <1>5, <2>4
    <3>2. Earlier(pending[x], pending[y])
      BY <1>4, <2>2, <3>1
    <3> QED
      BY <1>1, <2>2, <2>4, <3>2 DEF InOrder, Ordered
  <2> QED
    BY <1>5, <2>3, <2>4
<1>8. ASSUME NEW y \in DOMAIN pending', NEW b, b # m, Earlier(pending[y], b)'
      PROVE  Earlier(pending'[y], b) /\ y \in DOMAIN pending /\ pending'[y] = pending[y]
  <2>1. pending'[y] # m
    BY <1>4, <1>8
  <2>2. Earlier(pending'[y], b)
    BY <1>4, <1>8
  <2> QED
    BY <1>5, <2>1, <2>2
<1>9. Before(inflight, pending)'
  <2> SUFFICES ASSUME NEW x \in DOMAIN inflight, NEW y \in DOMAIN pending',
                      Earlier(pending[y], inflight[x])'
               PROVE  FALSE
    BY <1>2 DEF Before
  <2>1. inflight'[x] = inflight[x] /\ inflight[x] # m
    BY <1>2, <1>3 DEF Range
  <2>2. Earlier(pending[y], inflight[x]) /\ y \in DOMAIN pending
    BY <1>8, <2>1
  <2> QED
    BY <1>1, <2>2 DEF InOrder, Before
<1>10. ASSUME NEW f \in Flusher, HoldsBatch(f)' PROVE Before(batch[f], pending)'
  <2>1. batch'[f] = batch[f] /\ Before(batch[f], pending)
    BY <1>1, <1>10 DEF InOrder
  <2> SUFFICES ASSUME NEW x \in DOMAIN batch[f], NEW y \in DOMAIN pending',
                      Earlier(pending[y], batch[f][x])'
               PROVE  FALSE
    BY <2>1 DEF Before
  <2>2. batch'[f][x] = batch[f][x] /\ batch[f][x] # m
    BY <2>1 DEF SoloInv, Recorded, Range
  <2>3. Earlier(pending[y], batch[f][x]) /\ y \in DOMAIN pending
    BY <1>8, <2>2
  <2> QED
    BY <2>1, <2>3 DEF Before
<1>11. \A a, b \in Msg : Earlier(a, b)' /\ delivered'[b] > 0 => delivered'[a] > 0 \/ a \in dropped'
  <2>1. delivered[m] = 0
    BY DEF SoloInv, Recorded, TypeOK
  <2> QED
    BY <1>1, <1>4, <2>1 DEF InOrder
<1> QED
  BY <1>6, <1>7, <1>9, <1>10, <1>11 DEF InOrder

\* The batch taken is the head of what is pending.
LEMMA OrderPeek ==
    ASSUME TypeOK, SoloInv, FifoInv, NEW f \in Flusher, FlushPeek(f), Peek
    PROVE  FifoInv'
<1> SUFFICES ASSUME ~overlapped' PROVE InOrder'
  BY DEF FifoInv
<1>1. /\ UNCHANGED historyVars
      /\ overlapped' = (overlapped \/ \E g \in Flusher \ {f} : HoldsBatch(g))
      /\ pc[f] = "peek" /\ pc' = [pc EXCEPT ![f] = "select"]
      /\ batch' = [batch EXCEPT ![f] = out']
  <2>1. ~PeekEmpty
    BY DEF Peek, PeekEmpty, TypeOK, QueueTypeOK
  <2> QED
    BY <2>1 DEF FlushPeek, Goto
<1>2. InOrder /\ Solo /\ \A g \in Flusher : ~HoldsBatch(g)
  BY <1>1 DEF SoloInv, FifoInv, HoldsBatch
<1>3. PICK k \in 1..Len(pending) :
         /\ inflight' = inflight \o SubSeq(pending, 1, k)
         /\ pending' = SubSeq(pending, k + 1, Len(pending))
         /\ out' = SubSeq(pending, 1, k)
  BY DEF Peek
<1>4. pending \in Seq(Msg) /\ out' \in Seq(Msg) /\ inflight' = out'
  <2>1. inflight = <<>> /\ inflight' = inflight \o out' /\ out' \in Seq(Msg)
    BY <1>2, PeekParts DEF Solo, SoloInv, TypeOK
  <2> QED
    BY <2>1 DEF TypeOK, QueueTypeOK
<1>5. Ordered(inflight') /\ Ordered(pending') /\ Before(inflight', pending')
  BY <1>2, <1>3, <1>4, OrderedSplit DEF InOrder
<1>6. \A g \in Flusher : HoldsBatch(g)' => g = f
  BY <1>1, <1>2 DEF HoldsBatch, TypeOK
<1>7. batch'[f] = inflight'
  BY <1>1, <1>4 DEF TypeOK
<1>8. \A g \in Flusher : HoldsBatch(g)' => Before(batch'[g], pending')
  BY <1>5, <1>6, <1>7
<1> QED
  BY <1>1, <1>2, <1>5, <1>8, InOrderNext DEF InOrder, historyVars

\* What was accepted before a message of the batch is in the batch, or was delivered or
\* dropped before.
LEMMA OrderSend ==
    ASSUME TypeOK, SoloInv, FifoInv, NEW f \in Flusher, SendBlocksOk(f)
    PROVE  FifoInv'
<1> SUFFICES ASSUME ~overlapped' PROVE InOrder'
  BY DEF FifoInv
<1>1. /\ UNCHANGED <<inflight, pending, batch, pushed, dropped, overlapped>>
      /\ pc' = [pc EXCEPT ![f] = "commit"] /\ pc[f] = "send"
      /\ delivered' = [m \in Msg |-> delivered[m] + IF m \in Range(batch[f]) THEN 1 ELSE 0]
  BY DEF SendBlocksOk, queueVars, Goto
<1>2. InOrder /\ Solo /\ HoldsBatch(f)
  BY <1>1 DEF SoloInv, FifoInv, HoldsBatch
<1>3. \A g \in Flusher : HoldsBatch(g)' <=> HoldsBatch(g)
  BY <1>1 DEF HoldsBatch, TypeOK
<1>4. \A m \in Msg : /\ delivered[m] \in Nat
                     /\ delivered'[m] > 0 <=> delivered[m] > 0 \/ m \in Range(batch[f])
  BY <1>1 DEF TypeOK
<1>5. ASSUME NEW m \in Msg, NEW n \in Msg, Earlier(m, n), delivered'[n] > 0
      PROVE  delivered'[m] > 0 \/ m \in dropped'
  <2>1. CASE delivered[n] > 0
    BY <1>1, <1>2, <1>4, <1>5, <2>1 DEF InOrder
  <2>2. CASE n \in Range(batch[f]) /\ delivered[m] = 0 /\ m \notin dropped
    <3>1. m \in Accepted
      BY <1>5 DEF Earlier, Accepted, Range
    <3>2. m \in Range(inflight) \cup Range(pending)
      BY <1>2, <2>2, <3>1, LostMeans DEF Solo, TypeOK
    <3>3. m \notin Range(pending)
      BY <1>2, <1>5, <2>2 DEF InOrder, Before, Range
    <3>4. Range(inflight) \subseteq Range(batch[f])
      BY <1>2, EmptyInjective DEF Solo
    <3> QED
      BY <1>4, <3>2, <3>3, <3>4
  <2> QED
    BY <1>1, <1>4, <1>5, <2>1, <2>2
<1>6. \A g \in Flusher : HoldsBatch(g)' => Before(batch'[g], pending')
  BY <1>1, <1>2, <1>3 DEF InOrder
<1> QED
  BY <1>1, <1>2, <1>5, <1>6, InOrderNext DEF InOrder

\* Commit and Rewind leave nothing in flight and no batch held.
LEMMA OrderSettle ==
    ASSUME TypeOK, SoloInv, FifoInv, NEW f \in Flusher, FlushCommit(f) \/ FlushRewind(f)
    PROVE  FifoInv'
<1> SUFFICES ASSUME ~overlapped' PROVE InOrder'
  BY DEF FifoInv
<1>1. /\ UNCHANGED <<historyVars, overlapped>>
      /\ pc' = [pc EXCEPT ![f] = "idle"] /\ pc[f] \in {"commit", "rewind"}
  BY DEF FlushCommit, FlushRewind, Goto
<1>2. InOrder /\ Solo /\ HoldsBatch(f)
  BY <1>1 DEF SoloInv, FifoInv, HoldsBatch
<1>3. \A g \in Flusher : ~HoldsBatch(g)'
  BY <1>1, <1>2 DEF HoldsBatch, Solo, TypeOK
<1>4. inflight' = <<>> /\ Ordered(pending')
  <2>1. CASE Commit
    BY <1>2, <2>1 DEF Commit, InOrder
  <2>2. CASE Rewind
    BY <1>2, <2>2, OrderedConcat DEF Rewind, Contents, InOrder, TypeOK, QueueTypeOK
  <2> QED
    BY <2>1, <2>2 DEF FlushCommit, FlushRewind
<1> QED
  BY <1>1, <1>2, <1>3, <1>4, EmptyOrdered, InOrderNext DEF InOrder, historyVars

\* /cwd leaves nothing in the queue, and reports more messages dropped.
LEMMA OrderClear ==
    ASSUME FifoInv, ClearQueueOnCwdBoundary
    PROVE  FifoInv'
<1> SUFFICES ASSUME ~overlapped' PROVE InOrder'
  BY DEF FifoInv
<1>1. /\ inflight' = <<>> /\ pending' = <<>>
      /\ UNCHANGED <<localVars, pushed, delivered, overlapped>>
      /\ dropped \subseteq dropped'
  BY DEF ClearQueueOnCwdBoundary, Clear
<1>2. InOrder
  BY <1>1 DEF FifoInv
<1> QED
  BY <1>1, <1>2, EmptyOrdered, InOrderNext DEF InOrder

LEMMA FifoStep ==
    ASSUME TypeOK, SoloInv, FifoInv, [Next]_vars
    PROVE  FifoInv'
<1>1. pc \in [Flusher -> Steps] /\ Inbound \subseteq Flusher /\ AS \subseteq Flusher
  BY DEF TypeOK, Flusher
<1> DEFINE Still ==
       /\ UNCHANGED <<inflight, pending, batch, pushed, delivered, dropped, overlapped>>
       /\ \A f \in Flusher : HoldsBatch(f)' <=> HoldsBatch(f)
<1> USE <1>1 DEF HoldsBatch, Goto, queueVars, localVars, historyVars
<1>2. ASSUME NEW f \in Inbound, Lookup(f) PROVE Still
  BY <1>2 DEF Lookup
<1>3. ASSUME NEW f \in Flusher, FlushSelect(f) PROVE Still
  BY <1>3 DEF FlushSelect
<1>4. ASSUME NEW f \in Flusher, FlushReady(f) PROVE Still
  BY <1>4 DEF FlushReady
<1>5. ASSUME NEW f \in Flusher, FlushStatus(f) PROVE Still
  BY <1>5 DEF FlushStatus
<1>6. ASSUME NEW f \in Flusher, FlushRecheck(f) PROVE Still
  BY <1>6 DEF FlushRecheck
<1>7. ASSUME NEW f \in Flusher, SubmitCommit(f) PROVE Still
  BY <1>7 DEF SubmitCommit
<1>8. ASSUME NEW f \in Flusher, SendBlocksFail(f) PROVE Still
  BY <1>8 DEF SendBlocksFail
<1>9. ASSUME NEW a \in AS, BridgeDone(a) PROVE Still
  BY <1>9 DEF BridgeDone
<1>10. ASSUME NEW a \in AS, RoutePromptEnded(a) PROVE Still
  BY <1>10 DEF RoutePromptEnded
<1>11. ASSUME NEW a \in AS, CloseAgent(a) PROVE Still
  BY <1>11 DEF CloseAgent
<1>12. ASSUME StopSelectedAgent PROVE Still
  BY <1>12 DEF StopSelectedAgent
<1>13. ASSUME SetSelectedAgent PROVE Still
  BY <1>13 DEF SetSelectedAgent
<1>14. ASSUME SetSelectedCwd PROVE Still
  BY <1>14 DEF SetSelectedCwd
<1>15. ASSUME UNCHANGED vars PROVE Still
  BY <1>15 DEF vars
<1>23. ASSUME StopEnds PROVE Still
  BY <1>23 DEF StopEnds
<1>24. ASSUME NEW a \in AS, CloseEnds(a) PROVE Still
  BY <1>24 DEF CloseEnds
<1> HIDE <1>1 DEF HoldsBatch, Goto, queueVars, localVars, historyVars
<1>16. ASSUME Still PROVE FifoInv'
  BY <1>16, OrderStill
<1> HIDE DEF Still
<1>17. ASSUME NEW f \in Inbound, QueueUserMessage(f) PROVE FifoInv'
  <2>1. PICK m \in Msg \ arrived :
           \/ PushOk(m) /\ pushed' = Append(pushed, m) /\ Goto(f, "peek")
           \/ PushFull /\ Goto(f, "idle") /\ UNCHANGED pushed
    BY <1>17 DEF QueueUserMessage
  <2>2. /\ UNCHANGED <<batch, delivered, dropped, overlapped>>
        /\ pc[f] = "queue" /\ f \in Flusher
    BY <1>17 DEF QueueUserMessage, Flusher
  <2>3. \A g \in Flusher : HoldsBatch(g)' <=> HoldsBatch(g)
    BY <1>1, <2>1, <2>2 DEF Goto, HoldsBatch
  <2>4. CASE PushOk(m) /\ pushed' = Append(pushed, m)
    BY <2>2, <2>3, <2>4, OrderPush
  <2>5. CASE PushFull /\ UNCHANGED pushed
    BY <2>2, <2>3, <2>5, OrderStill DEF PushFull
  <2> QED
    BY <2>1, <2>4, <2>5
<1>18. ASSUME SteerUserMessage PROVE FifoInv'
  <2>1. PICK m \in Msg \ arrived : PushFrontOk(m) \/ PushFull
    BY <1>18 DEF SteerUserMessage
  <2>2. /\ UNCHANGED <<batch, pushed, delivered, dropped, overlapped>>
        /\ \A g \in Flusher : HoldsBatch(g)' <=> HoldsBatch(g)
    BY <1>18 DEF SteerUserMessage, localVars, HoldsBatch
  <2>3. CASE PushFrontOk(m)
    BY <2>2, <2>3, OrderSteer
  <2>4. CASE PushFull
    BY <2>2, <2>4, OrderStill DEF PushFull
  <2> QED
    BY <2>1, <2>3, <2>4
<1>19. ASSUME NEW f \in Flusher, FlushPeek(f) PROVE FifoInv'
  <2>1. CASE Peek
    BY <1>19, <2>1, OrderPeek
  <2>2. CASE PeekEmpty /\ Goto(f, "idle") /\ UNCHANGED batch
    <3>1. /\ UNCHANGED <<inflight, pending, batch, pushed, delivered, dropped>>
          /\ overlapped' = (overlapped \/ \E g \in Flusher \ {f} : HoldsBatch(g))
          /\ \A g \in Flusher : HoldsBatch(g)' <=> HoldsBatch(g)
      BY <1>1, <1>19, <2>2 DEF FlushPeek, PeekEmpty, Goto, HoldsBatch, historyVars
    <3>2. CASE UNCHANGED overlapped
      BY <3>1, <3>2, OrderStill
    <3>3. CASE overlapped' = TRUE
      BY <3>3 DEF FifoInv
    <3> QED
      BY <3>1, <3>2, <3>3 DEF TypeOK
  <2> QED
    BY <1>19, <2>1, <2>2 DEF FlushPeek
<1>20. ASSUME NEW f \in Flusher, SendBlocksOk(f) PROVE FifoInv'
  BY <1>20, OrderSend
<1>21. ASSUME NEW f \in Flusher, FlushCommit(f) \/ FlushRewind(f) PROVE FifoInv'
  BY <1>21, OrderSettle
<1>22. ASSUME ClearQueueOnCwdBoundary PROVE FifoInv'
  BY <1>22, OrderClear
<1> QED
  BY <1>2, <1>3, <1>4, <1>5, <1>6, <1>7, <1>8, <1>9, <1>10, <1>11, <1>12, <1>13,
     <1>14, <1>15, <1>16, <1>17, <1>18, <1>19, <1>20, <1>21, <1>22, <1>23, <1>24
     DEF Next, TryFlush

LEMMA InitFifo == Init => FifoInv
  BY EmptyOrdered DEF Init, QueueInit, FifoInv, InOrder, HoldsBatch, Earlier

(***************************************************************************)
(* As long as no two TryFlush calls of a chat have overlapped, messages    *)
(* are submitted in the order in which QueueUserMessage accepted them: no  *)
(* failed or skipped flush lets a later message pass an earlier one, not   *)
(* even when /cwd clears the queue under the batch that is submitted.      *)
(***************************************************************************)
THEOREM FifoCorrect == Spec => []SoloFifo
<1>1. Init => TypeOK /\ SoloInv /\ FifoInv
  BY InitType, InitSolo, InitFifo
<1>2. TypeOK /\ SoloInv /\ FifoInv /\ [Next]_vars => TypeOK' /\ SoloInv' /\ FifoInv'
  BY StepType, SoloStep, FifoStep
<1>3. TypeOK /\ FifoInv => SoloFifo
  <2> SUFFICES ASSUME TypeOK, FifoInv, ~overlapped, NEW j \in 1..Len(pushed),
                      NEW i \in 1..(j-1), delivered[pushed[j]] > 0
               PROVE  delivered[pushed[i]] > 0 \/ pushed[i] \in dropped
    BY DEF SoloFifo
  <2>1. i \in DOMAIN pushed /\ j \in DOMAIN pushed /\ i < j
    BY LenProperties DEF TypeOK
  <2>2. Earlier(pushed[i], pushed[j]) /\ pushed[i] \in Msg /\ pushed[j] \in Msg
    BY <2>1, ElementOfSeq DEF Earlier, TypeOK
  <2> QED
    BY <2>2 DEF FifoInv, InOrder
<1> QED
  BY <1>1, <1>2, <1>3, PTL DEF Spec
-----------------------------------------------------------------------------
(* Who takes up what is in the queue.                                       *)

\* Nothing that disturbs a chat is ever undone.
LEMMA DisturbedStays ==
    ASSUME TypeOK, [Next]_vars, Undisturbed'
    PROVE  Undisturbed /\ UNCHANGED <<used["fail"], used["steer"], used["close"], used["route"]>>
<1>1. ASSUME NEW kind \in Bounded, Use(kind), NEW k \in Bounded
      PROVE  used[k] = 0 \/ used'[k] > 0
  <2>1. used \in [Bounded -> Nat] /\ used' = [used EXCEPT ![kind] = used[kind] + 1]
    BY <1>1 DEF TypeOK, Use
  <2>2. used[k] \in Nat /\ used'[k] = IF k = kind THEN used[k] + 1 ELSE used[k]
    BY <2>1
  <2> QED
    BY <2>2
<1>2. \A k \in Bounded : used[k] = 0 \/ used'[k] > 0
  <2>1. UNCHANGED used \/ \E kind \in Bounded : Use(kind)
    BY BoundedKinds DEF Next, TryFlush, vars, Lookup, QueueUserMessage, FlushPeek, FlushSelect, FlushReady,
           FlushStatus, FlushRecheck, SubmitCommit, SendBlocksOk, SendBlocksFail, FlushCommit,
           FlushRewind, BridgeDone, RoutePromptEnded, CloseAgent, CloseEnds, SteerUserMessage,
           StopSelectedAgent, StopEnds, SetSelectedAgent, SetSelectedCwd, ClearQueueOnCwdBoundary
  <2>2. \A k \in Bounded : used[k] \in Nat
    BY DEF TypeOK
  <2>3. CASE UNCHANGED used
    BY <2>2, <2>3
  <2> QED
    BY <1>1, <2>1, <2>3
<1>3. overlapped => overlapped'
  BY DEF Next, TryFlush, vars, Lookup, QueueUserMessage, FlushPeek, FlushSelect, FlushReady,
         FlushStatus, FlushRecheck, SubmitCommit, SendBlocksOk, SendBlocksFail, FlushCommit,
         FlushRewind, BridgeDone, RoutePromptEnded, CloseAgent, CloseEnds, SteerUserMessage,
         StopSelectedAgent, StopEnds, SetSelectedAgent, SetSelectedCwd, ClearQueueOnCwdBoundary
<1>4. Undisturbed
  <2>1. ~overlapped
    BY <1>3 DEF Undisturbed
  <2>2. ASSUME NEW k \in Bounded \ {"stop"} PROVE used[k] = 0
    <3>1. used'[k] = 0
      BY DEF Undisturbed
    <3> QED
      BY <1>2, <3>1
  <2> QED
    BY <2>1, <2>2 DEF Undisturbed
<1> QED
  BY <1>4, BoundedKinds DEF Undisturbed

\* What the invariant says of a chat that nothing has disturbed.
Attending == Chosen /\ Aimed /\ BusyHasTurn /\ SettledComesAgain /\ SoloAttended

\* Two goroutines never hold a batch at once.
LEMMA OneHolder ==
    ASSUME SoloInv, Undisturbed, NEW f \in Flusher, NEW g \in Flusher,
           HoldsBatch(f), HoldsBatch(g)
    PROVE  f = g
  BY DEF SoloInv, Undisturbed, Solo

\* An agent that is busy stays accounted for while its turns and whoever is
\* submitting to it stay.
LEMMA BusyStep ==
    ASSUME BusyHasTurn,
           \A a \in AS : ~ready'[a] => ~ready[a],
           \A a \in AS : ~ready'[a] /\ turns[a] # <<>> => turns'[a] # <<>>,
           \A f \in Flusher : pc[f] = "send" => pc'[f] = "send" /\ target'[f] = target[f]
    PROVE  BusyHasTurn'
<1> SUFFICES ASSUME NEW a \in AS, ~ready'[a]
             PROVE  \/ turns'[a] # <<>>
                    \/ \E f \in Flusher : pc'[f] = "send" /\ target'[f] = a
  BY DEF BusyHasTurn
<1>1. turns[a] # <<>> \/ \E f \in Flusher : pc[f] = "send" /\ target[f] = a
  BY DEF BusyHasTurn
<1> QED
  BY <1>1

\* A step of goroutine f inside TryFlush that neither takes nor settles a
\* batch, and leaves the AgentSessions alone.
LEMMA DecideStep ==
    ASSUME TypeOK, SoloInv, Undisturbed, Attending, NEW f \in Flusher,
           FlushSelect(f) \/ FlushReady(f) \/ FlushStatus(f) \/ FlushRecheck(f)
    PROVE  Attending'
<1> USE DEF TypeOK
<1>1. /\ HoldsBatch(f) /\ pc[f] # "idle" /\ pc[f] # "peek" /\ pc[f] # "send"
      /\ pc[f] # "commit" /\ pc[f] # "rewind"
      /\ UNCHANGED <<inflight, pending, asVars, routeVars, used, overlapped>>
      /\ pc' \in [Flusher -> Steps] /\ pc'[f] \in {"ready", "status", "recheck", "submit", "rewind"}
      /\ \A g \in Flusher \ {f} : pc'[g] = pc[g] /\ target'[g] = target[g]
  <2>1. pc[f] \in {"select", "ready", "status", "recheck"}
    BY DEF FlushSelect, FlushReady, FlushStatus, FlushRecheck
  <2>2. UNCHANGED <<inflight, pending, asVars, routeVars, used, overlapped>>
    BY DEF FlushSelect, FlushReady, FlushStatus, FlushRecheck, queueVars
  <2>3. PICK step \in {"ready", "status", "recheck", "submit", "rewind"} : Goto(f, step)
    BY DEF FlushSelect, FlushReady, FlushStatus, FlushRecheck
  <2>4. /\ pc' \in [Flusher -> Steps] /\ pc'[f] = step
        /\ \A g \in Flusher \ {f} : pc'[g] = pc[g]
    BY <2>3 DEF Goto, Steps
  <2>5. \A g \in Flusher \ {f} : target'[g] = target[g]
    BY DEF FlushSelect, FlushReady, FlushStatus, FlushRecheck
  <2> QED
    BY <2>1, <2>2, <2>3, <2>4, <2>5 DEF HoldsBatch
<1> USE DEF asVars, routeVars, Goto
<1>2. /\ selectedAS # NoAS /\ selectedAS \in AS
      /\ selectedAS = route /\ status[selectedAS] = "Running"
  BY <1>1 DEF Attending, Chosen
<1>3. Chosen'
  BY <1>1, <1>2 DEF Attending, Chosen
<1>4. Aimed'
  BY <1>1 DEF Attending, Aimed, FlushSelect, FlushReady, FlushStatus, FlushRecheck
<1>5. BusyHasTurn'
  BY <1>1, BusyStep DEF Attending
<1>6. Coming => Coming'
  BY <1>1 DEF Coming
<1>7. ASSUME pc'[f] = "rewind" PROVE Coming
  <2>1. target[f] = selectedAS /\ ~ready[selectedAS]
    BY <1>1, <1>2, <1>7
       DEF Attending, Aimed, FlushSelect, FlushReady, FlushStatus, FlushRecheck
  <2>2. ASSUME NEW g \in Flusher, pc[g] = "send" PROVE FALSE
    BY <1>1, <2>2, OneHolder DEF HoldsBatch
  <2> QED
    BY <1>2, <2>1, <2>2 DEF Attending, BusyHasTurn, Coming
<1>8. SettledComesAgain'
  BY <1>1, <1>6, <1>7 DEF Attending, SettledComesAgain
<1>9. HoldsBatch(f)'
  BY <1>1 DEF HoldsBatch
<1>10. SoloAttended'
  BY <1>9 DEF SoloAttended
<1> QED
  BY <1>3, <1>4, <1>5, <1>8, <1>10 DEF Attending

\* The submission: installing the prompt, then the bridge accepting it.
LEMMA SubmitStep ==
    ASSUME TypeOK, SoloInv, Undisturbed, Attending, NEW f \in Flusher,
           SubmitCommit(f) \/ SendBlocksOk(f)
    PROVE  Attending'
<1> USE DEF TypeOK, Goto, routeVars
<1>1. /\ pc[f] \in {"submit", "send"}
      /\ UNCHANGED <<target, status, ended, route, selectedAS, stopping, closing>>
      /\ pc' \in [Flusher -> Steps] /\ pc'[f] \in {"send", "commit"}
      /\ \A g \in Flusher \ {f} : pc'[g] = pc[g]
  BY DEF SubmitCommit, SendBlocksOk, Steps
<1>2. /\ selectedAS # NoAS /\ selectedAS \in AS
      /\ target[f] = selectedAS
  BY <1>1 DEF Attending, Chosen, Aimed
<1>3. Chosen'
  BY <1>1, <1>2 DEF Attending, Chosen
<1>4. Aimed'
  BY <1>1, <1>2 DEF Attending, Aimed
<1>5. HoldsBatch(f)'
  BY <1>1 DEF HoldsBatch
<1>6. SoloAttended'
  BY <1>5 DEF SoloAttended
<1>7. CASE SubmitCommit(f)
  <2>1. /\ pc[f] = "submit" /\ pc'[f] = "send" /\ UNCHANGED turns
        /\ \A a \in AS \ {selectedAS} : ready'[a] = ready[a]
    BY <1>2, <1>7 DEF SubmitCommit
  <2>2. BusyHasTurn'
    <3> SUFFICES ASSUME NEW a \in AS, ~ready'[a]
                 PROVE  \/ turns'[a] # <<>>
                        \/ \E g \in Flusher : pc'[g] = "send" /\ target'[g] = a
      BY DEF BusyHasTurn
    <3>1. CASE a = selectedAS
      BY <1>1, <1>2, <2>1, <3>1
    <3>2. CASE a # selectedAS
      <4>1. turns[a] # <<>> \/ \E g \in Flusher : pc[g] = "send" /\ target[g] = a
        BY <2>1, <3>2 DEF Attending, BusyHasTurn
      <4>2. ASSUME NEW g \in Flusher, pc[g] = "send" PROVE pc'[g] = "send" /\ target'[g] = target[g]
        BY <1>1, <2>1, <4>2
      <4> QED
        BY <2>1, <4>1, <4>2
    <3> QED
      BY <3>1, <3>2
  <2>3. Coming => Coming'
    BY <1>1, <2>1 DEF Coming
  <2>4. SettledComesAgain'
    BY <1>1, <2>1, <2>3 DEF Attending, SettledComesAgain
  <2> QED
    BY <1>3, <1>4, <1>6, <2>2, <2>4 DEF Attending
<1>8. CASE SendBlocksOk(f)
  <2>1. /\ pc[f] = "send" /\ UNCHANGED ready
        /\ turns' = [turns EXCEPT ![selectedAS] = Append(@, batch[f])]
    <3>1. status[target[f]] = "Running"
      BY <1>2 DEF Attending, Chosen
    <3> QED
      BY <1>2, <1>8, <3>1 DEF SendBlocksOk
  <2>2. turns'[selectedAS] # <<>> /\ \A a \in AS \ {selectedAS} : turns'[a] = turns[a]
    <3>1. turns'[selectedAS] = Append(turns[selectedAS], batch[f])
      BY <1>2, <2>1
    <3>2. turns[selectedAS] \in Seq(Seq(Msg)) /\ batch[f] \in Seq(Msg)
      BY <1>2
    <3>3. Append(turns[selectedAS], batch[f]) # <<>>
      BY ONLY <3>2, AppendProperties
    <3> QED
      BY <1>2, <2>1, <3>1, <3>3
  <2>3. BusyHasTurn'
    <3> SUFFICES ASSUME NEW a \in AS, ~ready'[a]
                 PROVE  \/ turns'[a] # <<>>
                        \/ \E g \in Flusher : pc'[g] = "send" /\ target'[g] = a
      BY DEF BusyHasTurn
    <3>1. CASE a = selectedAS
      BY <2>2, <3>1
    <3>2. CASE a # selectedAS
      <4>1. turns[a] # <<>> \/ \E g \in Flusher : pc[g] = "send" /\ target[g] = a
        BY <2>1 DEF Attending, BusyHasTurn
      <4>2. ASSUME NEW g \in Flusher, pc[g] = "send", target[g] = a
            PROVE  pc'[g] = "send" /\ target'[g] = a
        BY <1>1, <1>2, <3>2, <4>2
      <4> QED
        BY <2>2, <3>2, <4>1, <4>2
    <3> QED
      BY <3>1, <3>2
  <2>4. Coming'
    BY <1>2, <2>2 DEF Coming
  <2>5. SettledComesAgain'
    BY <2>4 DEF SettledComesAgain
  <2> QED
    BY <1>3, <1>4, <1>6, <2>3, <2>5 DEF Attending
<1> QED
  BY <1>7, <1>8

\* The batch is settled: somebody else is coming, or the bridge has a turn.
LEMMA SettledStep ==
    ASSUME TypeOK, Undisturbed, Attending, NEW f \in Flusher,
           FlushCommit(f) \/ FlushRewind(f)
    PROVE  Attending'
<1> USE DEF TypeOK, Goto, routeVars, asVars
<1>1. /\ pc[f] \in {"commit", "rewind"}
      /\ UNCHANGED <<status, ready, turns, ended, route, selectedAS, stopping, closing>>
      /\ pc' \in [Flusher -> Steps] /\ pc'[f] = "idle"
      /\ \A g \in Flusher \ {f} : pc'[g] = pc[g] /\ target'[g] = target[g]
  BY DEF FlushCommit, FlushRewind, Steps
<1>2. Coming
  BY <1>1 DEF Attending, SettledComesAgain
<1>3. Coming'
  BY <1>1, <1>2 DEF Coming
<1>4. Chosen' /\ Aimed'
  BY <1>1 DEF Attending, Chosen, Aimed
<1>5. BusyHasTurn'
  BY <1>1, BusyStep DEF Attending
<1>6. SettledComesAgain' /\ SoloAttended'
  BY <1>3 DEF SettledComesAgain, SoloAttended
<1> QED
  BY <1>4, <1>5, <1>6 DEF Attending

\* A goroutine looks at the queue.
LEMMA LookStep ==
    ASSUME TypeOK, SoloInv, Attending, Undisturbed, Undisturbed', NEW f \in Flusher, FlushPeek(f)
    PROVE  Attending'
<1> USE DEF TypeOK, Goto, routeVars, asVars
<1>1. /\ pc[f] = "peek"
      /\ UNCHANGED <<status, ready, turns, ended, route, selectedAS, stopping, closing, target>>
      /\ pc' \in [Flusher -> Steps] /\ pc'[f] \in {"select", "idle"}
      /\ \A g \in Flusher \ {f} : pc'[g] = pc[g]
  BY DEF FlushPeek, Steps
<1>2. \A g \in Flusher : ~HoldsBatch(g)
  BY <1>1 DEF FlushPeek, Undisturbed, HoldsBatch
<1>3. Chosen' /\ Aimed' /\ BusyHasTurn'
  <2>1. Chosen' /\ Aimed'
    BY <1>1 DEF Attending, Chosen, Aimed
  <2>2. BusyHasTurn'
    BY <1>1, BusyStep DEF Attending
  <2> QED
    BY <2>1, <2>2
<1>4. SettledComesAgain'
  BY <1>1, <1>2 DEF SettledComesAgain, HoldsBatch
<1>5. CASE pc'[f] = "select"
  <2>1. HoldsBatch(f)'
    BY <1>5 DEF HoldsBatch
  <2> QED
    BY <1>3, <1>4, <2>1 DEF Attending, SoloAttended
<1>6. CASE pc'[f] = "idle"
  <2>1. inflight' = inflight /\ pending' = pending /\ pending = <<>>
    BY <1>6 DEF FlushPeek, PeekEmpty
  <2>2. inflight = <<>>
    BY <1>2 DEF SoloInv, Solo, Undisturbed
  <2>3. Contents' = <<>>
    BY <2>1, <2>2 DEF Contents
  <2> QED
    BY <1>3, <1>4, <2>3 DEF Attending, SoloAttended
<1> QED
  BY <1>1, <1>5, <1>6

\* A step that adds nothing to the queue and takes nobody from it.
LEMMA AsideStep ==
    ASSUME Attending, Undisturbed, Contents' \in {Contents, <<>>}, Coming => Coming',
           \A f \in Flusher : HoldsBatch(f)' <=> HoldsBatch(f),
           \A f \in Flusher : pc'[f] \in {"commit", "rewind"} => pc'[f] = pc[f]
    PROVE  SoloAttended' /\ SettledComesAgain'
<1>1. SoloAttended'
  BY DEF Attending, SoloAttended
<1>2. SettledComesAgain'
  <2> SUFFICES ASSUME NEW f \in Flusher, pc'[f] \in {"commit", "rewind"} PROVE Coming'
    BY DEF SettledComesAgain
  <2> QED
    BY DEF Attending, SettledComesAgain
<1> QED
  BY <1>1, <1>2

\* The inbound goroutine.
LEMMA ArriveStep ==
    ASSUME TypeOK, Undisturbed, Attending, NEW f \in Inbound,
           Lookup(f) \/ QueueUserMessage(f)
    PROVE  Attending'
<1> USE DEF TypeOK, Goto
<1>1. /\ f \in Flusher /\ pc[f] \in {"idle", "queue"}
      /\ UNCHANGED <<target, turns, ended, route, stopping, closing>>
      /\ pc' \in [Flusher -> Steps] /\ pc'[f] \in {"idle", "queue", "peek"}
      /\ \A g \in Flusher \ {f} : pc'[g] = pc[g]
  BY DEF Lookup, QueueUserMessage, Flusher, Steps, asVars, routeVars
<1>2. Coming => Coming'
  BY <1>1 DEF Coming
<1>3. \A a \in AS : ~ready'[a] => ~ready[a]
  <2>1. CASE Lookup(f)
    <3> SUFFICES ASSUME NEW a \in AS, ready[a] PROVE ready'[a]
      OBVIOUS
    <3>1. ready' = [ready EXCEPT ![route] = ready[route] \/ status[route] = "Exited"]
      BY <2>1 DEF Lookup
    <3>2. CASE a = route
      BY <3>1, <3>2
    <3>3. CASE a # route
      BY <3>1, <3>3
    <3> QED
      BY <3>2, <3>3
  <2>2. CASE QueueUserMessage(f)
    BY <2>2 DEF QueueUserMessage, asVars
  <2> QED
    BY <2>1, <2>2
<1>4. BusyHasTurn'
  BY <1>1, <1>3, BusyStep DEF Attending
<1>5. \A g \in Flusher : HoldsBatch(g)' <=> HoldsBatch(g)
  BY <1>1 DEF HoldsBatch
<1>6. \A g \in Flusher : pc'[g] \in {"commit", "rewind"} => pc'[g] = pc[g]
  BY <1>1
<1>7. CASE Lookup(f)
  <2>1. /\ UNCHANGED <<inflight, pending>>
        /\ selectedAS' = route /\ status'[route] = "Running" /\ route # NoAS
        /\ closing = {}
    BY <1>7, FlushAssumption DEF Lookup, queueVars, Attending, Chosen
  <2>2. Contents' = Contents
    BY <2>1 DEF Contents
  <2>3. Chosen'
    BY <1>1, <2>1 DEF Chosen
  <2>4. Aimed'
    <3> SUFFICES ASSUME NEW g \in Flusher,
                        pc'[g] \in {"ready", "status", "recheck", "submit", "send"}
                 PROVE  target'[g] = selectedAS'
      BY DEF Aimed
    <3>1. pc'[g] = pc[g] /\ target'[g] = target[g]
      BY <1>1
    <3>2. selectedAS # NoAS
      BY <3>1 DEF Attending, Chosen
    <3> QED
      BY <2>1, <3>1, <3>2 DEF Attending, Chosen, Aimed
  <2> QED
    BY <1>2, <1>4, <1>5, <1>6, <2>2, <2>3, <2>4, AsideStep DEF Attending
<1>8. CASE QueueUserMessage(f)
  <2>1. UNCHANGED <<status, selectedAS>> /\ pc[f] = "queue"
    BY <1>8 DEF QueueUserMessage, asVars, routeVars
  <2>2. Chosen'
    BY <1>1, <2>1 DEF Attending, Chosen
  <2>3. Aimed'
    <3> SUFFICES ASSUME NEW g \in Flusher,
                        pc'[g] \in {"ready", "status", "recheck", "submit", "send"}
                 PROVE  target'[g] = selectedAS'
      BY DEF Aimed
    <3>1. pc'[g] = pc[g] /\ target'[g] = target[g]
      BY <1>1
    <3> QED
      BY <2>1, <3>1 DEF Attending, Aimed
  <2>4. CASE pc'[f] = "peek"
    BY <1>1, <1>4, <2>2, <2>3, <2>4
       DEF Attending, Coming, SettledComesAgain, SoloAttended
  <2>5. CASE pc'[f] # "peek"
    <3>1. UNCHANGED <<inflight, pending>>
      BY <1>1, <1>8, <2>5 DEF QueueUserMessage, PushFull
    <3>2. Contents' = Contents
      BY <3>1 DEF Contents
    <3> QED
      BY <1>2, <1>4, <1>5, <1>6, <2>2, <2>3, <3>2, AsideStep DEF Attending
  <2> QED
    BY <2>4, <2>5
<1> QED
  BY <1>7, <1>8

\* The end of a turn, reported by the bridge or by /stop.
LEMMA TurnEndStep ==
    ASSUME TypeOK, Undisturbed, Attending, NEW a \in AS, EndPrompt(a), selectedAS # NoAS,
           \A b \in AS \ {a} : turns'[b] = turns[b], stopping' \in {stopping, NoAS},
           UNCHANGED <<inflight, pending, localVars, route, selectedAS, closing, status>>
    PROVE  Attending'
<1> USE DEF TypeOK, localVars
<1>1. /\ ended'[a] = ended[a] + 1 /\ ended[a] \in Nat /\ ready'[a]
      /\ \A b \in AS \ {a} : ready'[b] = ready[b]
  BY DEF EndPrompt
<1>2. Coming'
  BY <1>1 DEF Coming
<1>3. Chosen' /\ Aimed'
  BY DEF Attending, Chosen, Aimed
<1>4. BusyHasTurn'
  BY <1>1, BusyStep DEF Attending
<1>5. SettledComesAgain' /\ SoloAttended'
  BY <1>2 DEF SettledComesAgain, SoloAttended
<1> QED
  BY <1>3, <1>4, <1>5 DEF Attending

\* The dispatcher routes the end of a turn and goes to look at the queue.
LEMMA RouteStep ==
    ASSUME TypeOK, Undisturbed, Attending, NEW a \in AS, RoutePromptEnded(a)
    PROVE  Attending'
<1> USE DEF TypeOK, Goto, routeVars
<1>1. /\ a \in Flusher /\ pc[a] = "idle" /\ pc'[a] = "peek"
      /\ \A g \in Flusher \ {a} : pc'[g] = pc[g]
      /\ UNCHANGED <<target, status, ready, turns, route, selectedAS, stopping, closing>>
  BY DEF RoutePromptEnded, Flusher
<1>2. Coming'
  BY <1>1 DEF Coming
<1>3. BusyHasTurn'
  BY <1>1, BusyStep DEF Attending
<1>4. Aimed'
  BY <1>1 DEF Attending, Aimed
<1>5. Chosen'
  <2>1. ended[a] > 0
    BY DEF RoutePromptEnded
  <2>2. selectedAS # NoAS
    BY <2>1 DEF Attending, Chosen
  <2> QED
    BY <1>1, <2>2 DEF Attending, Chosen
<1>6. SettledComesAgain' /\ SoloAttended'
  BY <1>2 DEF SettledComesAgain, SoloAttended
<1> QED
  BY <1>3, <1>4, <1>5, <1>6 DEF Attending

\* AttendInv is inductive, given the types and SoloInv.
LEMMA AttendStep ==
    ASSUME TypeOK, SoloInv, AttendInv, [Next]_vars
    PROVE  AttendInv'
<1> SUFFICES ASSUME Undisturbed' PROVE Attending'
  BY DEF AttendInv, Attending
<1>1. /\ Undisturbed /\ Attending
      /\ UNCHANGED <<used["fail"], used["steer"], used["close"], used["route"]>>
  BY DisturbedStays DEF AttendInv, Attending
<1>2. ASSUME NEW kind \in {"fail", "steer", "close", "route"}, Use(kind) PROVE FALSE
  <2>1. kind \in Bounded /\ used \in [Bounded -> Nat]
    BY BoundedKinds DEF TypeOK
  <2>2. used' = [used EXCEPT ![kind] = used[kind] + 1]
    BY <1>2 DEF Use
  <2>3. used[kind] \in Nat /\ used'[kind] = used[kind] + 1
    BY <2>1, <2>2
  <2>4. used'[kind] = used[kind]
    BY <1>1
  <2> QED
    BY <2>3, <2>4
<1>3. ASSUME NEW f \in Inbound, Lookup(f) \/ QueueUserMessage(f) PROVE Attending'
  BY <1>1, <1>3, ArriveStep
<1>4. ASSUME NEW f \in Flusher, TryFlush(f) PROVE Attending'
  <2>1. CASE FlushPeek(f)
    BY <1>1, <2>1, LookStep
  <2>2. CASE FlushSelect(f) \/ FlushReady(f) \/ FlushStatus(f) \/ FlushRecheck(f)
    BY <1>1, <2>2, DecideStep
  <2>3. CASE SubmitCommit(f) \/ SendBlocksOk(f)
    BY <1>1, <2>3, SubmitStep
  <2>4. CASE SendBlocksFail(f)
    <3>1. pc[f] = "send" /\ status[target[f]] = "Exited"
      BY <1>2, <2>4 DEF SendBlocksFail
    <3> QED
      BY <1>1, <3>1 DEF Attending, Chosen, Aimed
  <2>5. CASE FlushCommit(f) \/ FlushRewind(f)
    BY <1>1, <2>5, SettledStep
  <2> QED
    BY <1>4, <2>1, <2>2, <2>3, <2>4, <2>5 DEF TryFlush
<1>5. ASSUME NEW a \in AS, BridgeDone(a) PROVE Attending'
  <2>1. turns[a] # <<>> /\ selectedAS # NoAS
    BY <1>1, <1>5 DEF BridgeDone, Attending, Chosen
  <2>2. /\ EndPrompt(a) /\ \A b \in AS \ {a} : turns'[b] = turns[b]
        /\ UNCHANGED <<inflight, pending, localVars, route, selectedAS, stopping, closing, status>>
    BY <1>5 DEF BridgeDone, queueVars, routeVars, TypeOK
  <2> QED
    BY <1>1, <2>1, <2>2, TurnEndStep
<1>6. ASSUME NEW a \in AS, RoutePromptEnded(a) PROVE Attending'
  BY <1>1, <1>6, RouteStep
<1>7. ASSUME StopEnds PROVE Attending'
  <2>1. stopping \in AS /\ selectedAS # NoAS
    BY <1>1, <1>7 DEF StopEnds, Attending, Chosen, TypeOK
  <2>2. /\ EndPrompt(stopping) /\ UNCHANGED turns /\ stopping' = NoAS
        /\ UNCHANGED <<inflight, pending, localVars, route, selectedAS, closing, status>>
    BY <1>7 DEF StopEnds, queueVars
  <2> QED
    BY <1>1, <2>1, <2>2, TurnEndStep
<1>8. ASSUME SteerUserMessage \/ SetSelectedAgent \/ SetSelectedCwd
             \/ \E a \in AS : CloseAgent(a) \/ CloseEnds(a)
      PROVE  FALSE
  <2>1. Use("steer") \/ Use("route") \/ Use("close")
    BY <1>1, <1>8 DEF SteerUserMessage, SetSelectedAgent, SetSelectedCwd, CloseAgent, CloseEnds,
                      Attending, Chosen
  <2> QED
    BY <1>2, <2>1
<1>9. ASSUME ClearQueueOnCwdBoundary PROVE Attending'
  <2>1. /\ UNCHANGED <<pc, batch, target, route, selectedAS, stopping, closing, status, ready,
                    turns, ended>>
        /\ inflight' = <<>> /\ pending' = <<>>
    BY <1>9 DEF ClearQueueOnCwdBoundary, Clear, localVars, asVars
  <2>2. Contents' = <<>>
    BY <2>1 DEF Contents
  <2>3. Chosen' /\ Aimed'
    BY <1>1, <2>1 DEF Attending, Chosen, Aimed
  <2>4. BusyHasTurn'
    BY <1>1, <2>1, BusyStep DEF Attending
  <2>5. /\ Coming => Coming'
        /\ \A f \in Flusher : HoldsBatch(f)' <=> HoldsBatch(f)
    BY <2>1 DEF Coming, HoldsBatch
  <2> QED
    BY <1>1, <2>1, <2>2, <2>3, <2>4, <2>5, AsideStep DEF Attending
<1>10. ASSUME StopSelectedAgent \/ UNCHANGED vars PROVE Attending'
  <2>1. /\ UNCHANGED <<pc, batch, target, route, selectedAS, closing, status, ready, turns,
                       ended, inflight, pending>>
        /\ selectedAS = NoAS => UNCHANGED stopping
    BY <1>10 DEF StopSelectedAgent, vars, queueVars, localVars, routeVars, asVars
  <2>2. Contents' = Contents
    BY <2>1 DEF Contents
  <2>3. Chosen' /\ Aimed'
    BY <1>1, <2>1 DEF Attending, Chosen, Aimed
  <2>4. BusyHasTurn'
    BY <1>1, <2>1, BusyStep DEF Attending
  <2>5. /\ Coming => Coming'
        /\ \A f \in Flusher : HoldsBatch(f)' <=> HoldsBatch(f)
    BY <2>1 DEF Coming, HoldsBatch
  <2> QED
    BY <1>1, <2>1, <2>2, <2>3, <2>4, <2>5, AsideStep DEF Attending
<1> QED
  BY <1>3, <1>4, <1>5, <1>6, <1>7, <1>8, <1>9, <1>10 DEF Next

LEMMA InitAttend == Init => AttendInv
<1> SUFFICES ASSUME Init PROVE AttendInv
  OBVIOUS
<1>1. Contents = <<>>
  BY DEF Init, QueueInit, Contents
<1> QED
  BY <1>1 DEF Init, AttendInv, Chosen, Aimed, BusyHasTurn, SettledComesAgain, SoloAttended

(***************************************************************************)
(* As long as nothing has disturbed the chat, whatever is in the queue has *)
(* somebody who will take it up: a failed readiness check gives the batch  *)
(* back only while the end of a turn is still to come.                     *)
(***************************************************************************)
THEOREM SoloAttendedAlways == Spec => []SoloAttended
<1>1. Init => TypeOK /\ SoloInv /\ AttendInv
  BY InitType, InitSolo, InitAttend
<1>2. TypeOK /\ SoloInv /\ AttendInv /\ [Next]_vars => TypeOK' /\ SoloInv' /\ AttendInv'
  BY StepType, SoloStep, AttendStep
<1>3. AttendInv => SoloAttended
  BY DEF AttendInv, SoloAttended
<1> QED
  BY <1>1, <1>2, <1>3, PTL DEF Spec
=============================================================================
