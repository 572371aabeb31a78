------------------------ MODULE MessageQueue_proofs ------------------------
(***************************************************************************)
(* Proofs about MessageQueue for every set of messages and of heap cells,  *)
(* and every capacity.                                                     *)
(***************************************************************************)
EXTENDS MessageQueue, TLAPS, SequenceTheorems, FiniteSetTheorems, WellFoundedInduction

-----------------------------------------------------------------------------
(* Induction over the naturals, stated with sets.                           *)

LEMMA NatMinimum ==
    ASSUME NEW T \in SUBSET Nat, T # {}
    PROVE  \E x \in T : \A y \in T : x <= y
<1>1. PICK x \in T : \A y \in T : ~(<<y, x>> \in OpToRel(<, Nat))
  BY NatLessThanWellFounded, WFMin
<1>2. \A y \in Nat : y < x => <<y, x>> \in OpToRel(<, Nat)
  BY ZenonT(20) DEF OpToRel
<1>3. \A y \in T : ~(y < x)
  BY <1>1, <1>2
<1> QED
  BY <1>3

LEMMA NatInductionSet ==
    ASSUME NEW S, 0 \in S, \A n \in Nat : n \in S => n + 1 \in S
    PROVE  Nat \subseteq S
<1> SUFFICES ASSUME Nat \ S # {} PROVE FALSE
  OBVIOUS
<1>1. PICK x \in Nat \ S : \A y \in Nat \ S : x <= y
  BY NatMinimum
<1>2. x # 0 /\ x - 1 \in Nat /\ ~(x <= x - 1) /\ (x - 1) + 1 = x
  BY <1>1
<1>3. x - 1 \in S
  BY <1>1, <1>2
<1> QED
  BY <1>1, <1>2, <1>3
-----------------------------------------------------------------------------
(* The list that the pointers make.                                         *)

\* The cell at place i of s, and nil after the last.
At(s, i) == IF i \in 1..Len(s) THEN s[i] ELSE nil

Linked(link, s) == \A i \in 1..Len(s) : link[s[i]] = At(s, i + 1)

\* nth is a walk of N steps from cell c.
Walked(link, c, N, nth) ==
    \A k \in 1..N : nth[k] = IF k = 1 THEN c
                             ELSE IF nth[k-1] = nil THEN nil ELSE link[nth[k-1]]

\* What a walk from place j sees at its k-th step.
LEMMA WalkSteps ==
    ASSUME NEW link, NEW s \in Seq(Node), Linked(link, s), NEW j \in 1..(Len(s) + 1),
           NEW N \in Nat, NEW nth, Walked(link, At(s, j), N, nth)
    PROVE  \A k \in 1..N : nth[k] = At(s, j + k - 1)
<1> DEFINE Good == {n \in Nat : n + 1 \in 1..N => nth[n + 1] = At(s, j + n)}
<1>1. Len(s) \in Nat
  BY LenProperties
<1>2. 0 \in Good
  BY <1>1 DEF Walked
<1>3. ASSUME NEW n \in Nat, n \in Good PROVE n + 1 \in Good
  <2>1. (n + 1) + 1 = n + 2 /\ j + (n + 1) = j + n + 1 /\ (j + n) + 1 = j + n + 1
    BY <1>1
  <2> SUFFICES ASSUME n + 2 \in 1..N PROVE nth[n + 2] = At(s, j + n + 1)
    BY <2>1
  <2>2. nth[n + 1] = At(s, j + n)
    BY <1>3
  <2>3. nth[n + 2] = IF nth[n + 1] = nil THEN nil ELSE link[nth[n + 1]]
    BY DEF Walked
  <2>4. CASE j + n \in 1..Len(s)
    <3>1. nth[n + 1] = s[j + n] /\ s[j + n] \in Node
      BY <2>2, <2>4, ElementOfSeq DEF At
    <3>2. link[s[j + n]] = At(s, j + n + 1)
      BY <2>1, <2>4 DEF Linked
    <3> QED
      BY <2>3, <3>1, <3>2, NodeAssumption
  <2>5. CASE j + n \notin 1..Len(s)
    <3>1. At(s, j + n) = nil
      BY <2>5 DEF At
    <3>2. j + n + 1 \notin 1..Len(s)
      BY <1>1, <2>5
    <3> QED
      BY <2>2, <2>3, <3>1, <3>2 DEF At
  <2> QED
    BY <2>4, <2>5
<1> HIDE DEF Good
<1>4. Nat \subseteq Good
  BY <1>2, <1>3, NatInductionSet
<1> SUFFICES ASSUME NEW k \in 1..N PROVE nth[k] = At(s, j + k - 1)
  OBVIOUS
<1>5. k - 1 \in Good /\ (k - 1) + 1 = k /\ j + (k - 1) = j + k - 1
  BY <1>1, <1>4
<1> QED
  BY <1>5 DEF Good

\* There are no more places than cells.
LEMMA PlacesBounded ==
    ASSUME NEW s \in Seq(Node), IsInjective(s)
    PROVE  Len(s) \in Nat /\ Cardinality(Node) \in Nat /\ Len(s) <= Cardinality(Node)
<1>1. Len(s) \in Nat /\ s \in [1..Len(s) -> Node]
  BY LenProperties
<1>2. s \in Injection(1..Len(s), Node)
  BY <1>1 DEF Injection
<1>3. Cardinality(1..Len(s)) <= Cardinality(Node) /\ Cardinality(Node) \in Nat
  BY <1>2, NodeAssumption, FS_Injection, FS_CardinalityType
<1>4. Cardinality(1..Len(s)) = Len(s)
  BY <1>1, FS_Interval
<1> QED
  BY <1>1, <1>3, <1>4

LEMMA WalkIs ==
    ASSUME NEW link, NEW s \in Seq(Node), IsInjective(s), Linked(link, s),
           NEW j \in 1..(Len(s) + 1)
    PROVE  Walk(link, At(s, j)) = [i \in 1..(Len(s) - j + 1) |-> s[i + j - 1]]
<1> DEFINE N == Cardinality(Node) + 1
           step(f) == [k \in 1..N |-> IF k = 1 THEN At(s, j)
                                      ELSE IF f[k-1] = nil THEN nil ELSE link[f[k-1]]]
           nth == CHOOSE f : f = step(f)
           path == [k \in 1..N |-> At(s, j + k - 1)]
<1>1. Len(s) \in Nat /\ N \in Nat /\ Len(s) < N
  BY PlacesBounded
<1>2. path = step(path)
  <2>1. ASSUME NEW k \in 1..N
        PROVE  path[k] = step(path)[k]
    <3>1. CASE k = 1
      BY <1>1, <3>1
    <3>2. CASE k # 1 /\ j + k - 2 \in 1..Len(s)
      <4>1. path[k-1] = s[j + k - 2] /\ path[k-1] \in Node
        BY <1>1, <3>2, ElementOfSeq DEF At
      <4>2. link[s[j + k - 2]] = At(s, j + k - 1)
        BY <1>1, <3>2 DEF Linked
      <4> QED
        BY <1>1, <3>2, <4>1, <4>2, NodeAssumption
    <3>3. CASE k # 1 /\ j + k - 2 \notin 1..Len(s)
      <4>1. path[k-1] = nil
        BY <1>1, <3>3 DEF At
      <4>2. j + k - 1 \notin 1..Len(s)
        BY <1>1, <3>3
      <4> QED
        BY <3>3, <4>1, <4>2 DEF At
    <3> QED
      BY <3>1, <3>2, <3>3
  <2> QED
    BY <2>1
<1>3. nth = step(nth)
  BY <1>2
<1> HIDE DEF nth
<1>4. \A k \in 1..N : nth[k] = At(s, j + k - 1)
  <2>1. Walked(link, At(s, j), N, nth)
    BY <1>3 DEF Walked
  <2> HIDE DEF N
  <2> QED
    BY <1>1, <2>1, WalkSteps
<1>5. DOMAIN nth = 1..N
  BY <1>3
<1>6. {k \in DOMAIN nth : nth[k] # nil} = 1..(Len(s) - j + 1)
  <2>1. \A k \in 1..N : nth[k] # nil <=> j + k - 1 \in 1..Len(s)
    BY <1>4, ElementOfSeq, NodeAssumption DEF At
  <2> QED
    BY <1>1, <1>5, <2>1
<1>7. Cardinality({k \in DOMAIN nth : nth[k] # nil}) = Len(s) - j + 1
  <2>1. PICK n \in Nat : n = Len(s) - j + 1
    BY <1>1
  <2>2. Cardinality(1..n) = n
    BY FS_Interval
  <2> QED
    BY <1>6, <2>1, <2>2
<1>8. SubSeq(nth, 1, Len(s) - j + 1) = [i \in 1..(Len(s) - j + 1) |-> s[i + j - 1]]
  <2>1. SubSeq(nth, 1, Len(s) - j + 1) = [i \in 1..(Len(s) - j + 1) |-> nth[i]]
    BY <1>1
  <2>2. \A i \in 1..(Len(s) - j + 1) : nth[i] = s[i + j - 1]
    <3> SUFFICES ASSUME NEW i \in 1..(Len(s) - j + 1) PROVE nth[i] = s[i + j - 1]
      OBVIOUS
    <3>1. i \in 1..N /\ j + i - 1 \in 1..Len(s) /\ j + i - 1 = i + j - 1
      BY <1>1
    <3> QED
      BY <1>4, <3>1 DEF At
  <2> QED
    BY <2>1, <2>2
<1> QED
  BY <1>7, <1>8 DEF Walk, nth

LEMMA WalksOf ==
    ASSUME NEW link, NEW s \in Seq(Node), IsInjective(s), Linked(link, s), NEW k \in 0..Len(s)
    PROVE  /\ Walk(link, At(s, 1)) = s
           /\ Walk(link, At(s, k + 1)) = [i \in 1..(Len(s) - k) |-> s[k + i]]
<1>1. Len(s) \in Nat /\ s = [i \in 1..Len(s) |-> s[i]]
  BY LenProperties
<1>2. Walk(link, At(s, 1)) = [i \in 1..(Len(s) - 1 + 1) |-> s[i + 1 - 1]]
  BY <1>1, WalkIs
<1>3. Walk(link, At(s, k + 1)) = [i \in 1..(Len(s) - (k + 1) + 1) |-> s[i + (k + 1) - 1]]
  <2>1. k + 1 \in 1..(Len(s) + 1)
    BY <1>1
  <2> QED
    BY <2>1, WalkIs
<1>4. \A i \in 1..Len(s) : i + 1 - 1 = i
  BY <1>1
<1>5. Len(s) - (k + 1) + 1 = Len(s) - k /\ Len(s) - 1 + 1 = Len(s)
  BY <1>1
<1>6. \A i \in 1..(Len(s) - k) : i + (k + 1) - 1 = k + i
  BY <1>1
<1>7. Walk(link, At(s, 1)) = [i \in 1..Len(s) |-> s[i]]
  BY <1>2, <1>4, <1>5
<1>8. Walk(link, At(s, k + 1)) = [i \in 1..(Len(s) - k) |-> s[k + i]]
  BY <1>3, <1>5, <1>6
<1> QED
  BY <1>1, <1>7, <1>8

\* The cell after the first k is met after k others.
LEMMA CutAt ==
    ASSUME NEW s \in Seq(Node), IsInjective(s), NEW k \in 0..Len(s)
    PROVE  Cardinality({i \in 0..Len(s) : \A j \in 1..i : s[j] # At(s, k + 1)}) = k + 1
<1>1. Len(s) \in Nat /\ DOMAIN s = 1..Len(s) /\ \A j \in 1..Len(s) : s[j] \in Node
  BY LenProperties, ElementOfSeq
<1>2. \A j \in 1..Len(s) : s[j] = At(s, k + 1) <=> j = k + 1
  <2>1. CASE k + 1 \in 1..Len(s)
    BY <1>1, <2>1 DEF At, IsInjective
  <2>2. CASE k + 1 \notin 1..Len(s)
    BY <1>1, <2>2, NodeAssumption DEF At
  <2> QED
    BY <2>1, <2>2
<1>3. {i \in 0..Len(s) : \A j \in 1..i : s[j] # At(s, k + 1)} = 0..k
  <2>1. ASSUME NEW i \in 0..Len(s), \A j \in 1..i : s[j] # At(s, k + 1)
        PROVE  i <= k
    <3> SUFFICES ASSUME i > k PROVE FALSE
      BY <1>1
    <3>1. k + 1 \in 1..i /\ k + 1 \in 1..Len(s)
      BY <1>1
    <3> QED
      BY <1>2, <2>1, <3>1
  <2>2. ASSUME NEW i \in 0..k, NEW j \in 1..i PROVE s[j] # At(s, k + 1)
    <3>1. j \in 1..Len(s) /\ j # k + 1
      BY <1>1
    <3> QED
      BY <1>2, <3>1
  <2>3. 0..k \subseteq 0..Len(s) /\ \A i \in 0..Len(s) : i <= k => i \in 0..k
    BY <1>1
  <2> QED
    BY <2>1, <2>2, <2>3
<1>4. Cardinality(0..k) = k + 1
  BY FS_Interval
<1> QED
  BY <1>3, <1>4

\* s is the list, and its first k cells are in flight.
Listed(s, k) ==
    /\ s \in Seq(Node) /\ IsInjective(s) /\ k \in 0..Len(s)
    /\ head = At(s, 1) /\ tail = At(s, Len(s)) /\ inFlightEnd = At(s, k + 1)
    /\ length = Len(s)
    /\ Linked(next, s)
    /\ Capacity > 0 => length <= Capacity

Inv ==
    /\ DOMAIN next = Node /\ DOMAIN value = Node
    /\ \E s, k : Listed(s, k)

\* The values of the n cells of s after the first k.
Part(val, s, k, n) == [i \in 1..n |-> val[s[k + i]]]

\* The n places after k and the r places after l make the t places after k.
Meets(k, n, l, r, t) == k \in Nat /\ n \in Nat /\ r \in Nat /\ l = k + n /\ t = n + r

LEMMA PartJoin ==
    ASSUME NEW val, NEW s, NEW k, NEW n, NEW l, NEW r, NEW t, Meets(k, n, l, r, t)
    PROVE  Part(val, s, k, n) \o Part(val, s, l, r) = Part(val, s, k, t)
<1> DEFINE a == Part(val, s, k, n)
           b == Part(val, s, l, r)
<1>1. k \in Nat /\ n \in Nat /\ r \in Nat /\ l = k + n /\ t = n + r
  BY DEF Meets
<1>2. Len(a) = n /\ Len(b) = r
  BY <1>1 DEF Part
<1>3. a \o b = [i \in 1..t |-> IF i <= n THEN a[i] ELSE b[i - n]]
  BY <1>1 DEF Part
<1>4. ASSUME NEW i \in 1..t
      PROVE  (IF i <= n THEN a[i] ELSE b[i - n]) = val[s[k + i]]
  <2>1. CASE i <= n
    <3>1. i \in 1..n
      BY <1>1, <2>1
    <3> QED
      BY <2>1, <3>1 DEF Part
  <2>2. CASE i > n
    <3>1. i - n \in 1..r /\ l + (i - n) = k + i /\ ~(i <= n)
      BY <1>1, <2>2
    <3> QED
      BY <3>1 DEF Part
  <2> QED
    BY <1>1, <2>1, <2>2
<1> QED
  BY <1>3, <1>4 DEF Part

\* From the i-th to the j-th of the n places after k are the r places after l.
Cuts(k, n, i, j, l, r) ==
    /\ k \in Nat /\ n \in Nat /\ i \in 1..(n + 1) /\ j \in (i-1)..n
    /\ l = k + (i - 1) /\ r = j - (i - 1)

LEMMA PartCut ==
    ASSUME NEW val, NEW s, NEW k, NEW n, NEW i, NEW j, NEW l, NEW r, Cuts(k, n, i, j, l, r)
    PROVE  SubSeq(Part(val, s, k, n), i, j) = Part(val, s, l, r)
<1> DEFINE a == Part(val, s, k, n)
<1>1. /\ k \in Nat /\ n \in Nat /\ i \in 1..(n + 1) /\ j \in (i-1)..n
      /\ l = k + (i - 1) /\ r = j - (i - 1)
  BY DEF Cuts
<1>2. SubSeq(a, i, j) = [x \in 1..r |-> a[x + i - 1]]
  <2>1. j - i + 1 = r
    BY <1>1
  <2> QED
    BY <1>1, <2>1 DEF Part
<1>3. ASSUME NEW x \in 1..r
      PROVE  a[x + i - 1] = val[s[l + x]]
  <2>1. x + i - 1 \in 1..n /\ k + (x + i - 1) = l + x
    BY <1>1
  <2> QED
    BY <2>1 DEF Part
<1> QED
  BY <1>2, <1>3 DEF Part

LEMMA Regions ==
    ASSUME NEW s, NEW k, Listed(s, k)
    PROVE  /\ Chain(head) = s
           /\ Chain(inFlightEnd) = [i \in 1..(Len(s) - k) |-> s[k + i]]
           /\ ChainUpTo(head, inFlightEnd) = [i \in 1..k |-> s[i]]
           /\ InFlight = Part(value, s, 0, k)
           /\ Pending = Part(value, s, k, Len(s) - k)
<1>1. s \in Seq(Node) /\ IsInjective(s) /\ k \in 0..Len(s) /\ Linked(next, s) /\ Len(s) \in Nat
  BY LenProperties DEF Listed
<1>2. Chain(head) = s /\ Chain(inFlightEnd) = [i \in 1..(Len(s) - k) |-> s[k + i]]
  <2>1. head = At(s, 1) /\ inFlightEnd = At(s, k + 1)
    BY DEF Listed
  <2> QED
    BY <1>1, <2>1, WalksOf DEF Chain
<1>3. ChainUpTo(head, inFlightEnd) = SubSeq(s, 1, k)
  <2>1. Cardinality({i \in 0..Len(s) : \A j \in 1..i : s[j] # inFlightEnd}) = k + 1
    BY <1>1, CutAt DEF Listed
  <2>2. (k + 1) - 1 = k
    BY <1>1
  <2> QED
    BY <1>2, <2>1, <2>2 DEF ChainUpTo
<1>4. SubSeq(s, 1, k) = [i \in 1..k |-> s[i]] /\ Len([i \in 1..k |-> s[i]]) = k
  BY <1>1
<1>5. Len([i \in 1..(Len(s) - k) |-> s[k + i]]) = Len(s) - k
  BY <1>1
<1>6. InFlight = Part(value, s, 0, k)
  <2>1. \A i \in 1..k : 0 + i = i
    BY <1>1
  <2> QED
    BY <1>3, <1>4, <2>1 DEF InFlight, Values, Part
<1>7. Pending = Part(value, s, k, Len(s) - k)
  BY <1>2, <1>5 DEF Pending, Values, Part
<1> QED
  BY <1>2, <1>3, <1>4, <1>6, <1>7

\* The queue's contents are the values of the cells.
LEMMA ContentsAre ==
    ASSUME NEW s, NEW k, Listed(s, k)
    PROVE  Queue!Contents = Part(value, s, 0, Len(s))
<1>1. Meets(0, k, k, Len(s) - k, Len(s))
  BY LenProperties DEF Listed, Meets
<1>2. Part(value, s, 0, k) \o Part(value, s, k, Len(s) - k) = Part(value, s, 0, Len(s))
  BY <1>1, PartJoin
<1> QED
  BY <1>2, Regions DEF Queue!Contents

LEMMA RegionsNext ==
    ASSUME NEW s, NEW k, Listed(s, k)'
    PROVE  /\ InFlight' = Part(value', s, 0, k)
           /\ Pending' = Part(value', s, k, Len(s) - k)
<1>1. s \in Seq(Node) /\ IsInjective(s) /\ k \in 0..Len(s) /\ Linked(next', s) /\ Len(s) \in Nat
  BY LenProperties DEF Listed, Linked, At
<1>2. head' = At(s, 1) /\ inFlightEnd' = At(s, k + 1)
  BY DEF Listed, At
<1>3. Walk(next', head') = s /\ Walk(next', inFlightEnd') = [i \in 1..(Len(s) - k) |-> s[k + i]]
  BY <1>1, <1>2, WalksOf
<1>4. Chain(head)' = s /\ Chain(inFlightEnd)' = [i \in 1..(Len(s) - k) |-> s[k + i]]
  BY <1>3 DEF Chain, Walk
<1>5. ChainUpTo(head, inFlightEnd)' = SubSeq(s, 1, k)
  <2>1. Cardinality({i \in 0..Len(s) : \A j \in 1..i : s[j] # inFlightEnd'}) = k + 1
    BY <1>1, <1>2, CutAt
  <2>2. (k + 1) - 1 = k
    BY <1>1
  <2> QED
    BY <1>4, <2>1, <2>2 DEF ChainUpTo
<1>6. SubSeq(s, 1, k) = [i \in 1..k |-> s[i]] /\ Len([i \in 1..k |-> s[i]]) = k
  BY <1>1
<1>7. Len([i \in 1..(Len(s) - k) |-> s[k + i]]) = Len(s) - k
  BY <1>1
<1>8. InFlight' = Part(value', s, 0, k)
  <2>1. \A i \in 1..k : 0 + i = i
    BY <1>1
  <2> QED
    BY <1>5, <1>6, <2>1 DEF InFlight, Values, Part
<1>9. Pending' = Part(value', s, k, Len(s) - k)
  BY <1>4, <1>7 DEF Pending, Values, Part
<1> QED
  BY <1>8, <1>9
-----------------------------------------------------------------------------
(* A cell is linked in: Push and PushFront.                                 *)

\* The cell n comes after the first p.
Inserted(s, p, n) ==
    [i \in 1..(Len(s) + 1) |-> IF i <= p THEN s[i] ELSE IF i = p + 1 THEN n ELSE s[i-1]]

LEMMA InsertedPlaces ==
    ASSUME NEW s \in Seq(Node), IsInjective(s), NEW p \in 0..Len(s),
           NEW n \in Node, \A i \in 1..Len(s) : s[i] # n
    PROVE  LET t == Inserted(s, p, n)
           IN  /\ t \in Seq(Node) /\ IsInjective(t) /\ Len(t) = Len(s) + 1
               /\ \A i \in 1..p : t[i] = s[i]
               /\ t[p + 1] = n
               /\ \A i \in (p + 1)..Len(s) : t[i + 1] = s[i]
<1> DEFINE t == Inserted(s, p, n)
<1>1. Len(s) \in Nat /\ DOMAIN s = 1..Len(s) /\ \A i \in 1..Len(s) : s[i] \in Node
  BY LenProperties, ElementOfSeq
<1>2. t \in [1..(Len(s) + 1) -> Node]
  BY <1>1 DEF Inserted
<1>3. t \in Seq(Node) /\ Len(t) = Len(s) + 1 /\ DOMAIN t = 1..(Len(s) + 1)
  BY <1>1, <1>2
<1>4. /\ \A i \in 1..p : t[i] = s[i]
      /\ t[p + 1] = n
      /\ \A i \in (p + 1)..Len(s) : t[i + 1] = s[i]
  BY <1>1 DEF Inserted
<1>5. IsInjective(t)
  <2> SUFFICES ASSUME NEW i \in 1..(Len(s) + 1), NEW j \in 1..(Len(s) + 1), t[i] = t[j]
               PROVE  i = j
    BY <1>3 DEF IsInjective
  <2> QED
    BY <1>1 DEF Inserted, IsInjective
<1> QED
  BY <1>3, <1>4, <1>5

LEMMA InsertedLinked ==
    ASSUME NEW s \in Seq(Node), IsInjective(s), NEW p \in 0..Len(s),
           NEW n \in Node, \A i \in 1..Len(s) : s[i] # n,
           NEW link, DOMAIN link = Node, Linked(link, s),
           NEW link2, DOMAIN link2 = Node,
           link2[n] = At(s, p + 1), p > 0 => link2[s[p]] = n,
           \A c \in Node : c # n /\ (p > 0 => c # s[p]) => link2[c] = link[c]
    PROVE  Linked(link2, Inserted(s, p, n))
<1> DEFINE t == Inserted(s, p, n)
<1>1. /\ Len(s) \in Nat /\ DOMAIN s = 1..Len(s) /\ \A i \in 1..Len(s) : s[i] \in Node
  BY LenProperties, ElementOfSeq
<1>2. /\ Len(t) = Len(s) + 1
      /\ \A i \in 1..p : t[i] = s[i]
      /\ t[p + 1] = n
      /\ \A i \in (p + 1)..Len(s) : t[i + 1] = s[i]
  BY InsertedPlaces
<1> HIDE DEF t
<1>3. ASSUME NEW i \in 1..(Len(s) + 1) PROVE link2[t[i]] = At(t, i + 1)
  <2>1. CASE i < p
    <3>1. t[i] = s[i] /\ t[i + 1] = s[i + 1] /\ i \in 1..Len(s) /\ i + 1 \in 1..Len(s)
      BY <1>1, <1>2, <2>1
    <3>2. link[s[i]] = s[i + 1] /\ s[i] # s[p] /\ s[i] # n
      BY <1>1, <2>1, <3>1 DEF Linked, At, IsInjective
    <3> QED
      BY <1>1, <1>2, <3>1, <3>2 DEF At
  <2>2. CASE i = p
    BY <1>1, <1>2, <2>2 DEF At
  <2>3. CASE i = p + 1
    <3>1. CASE p = Len(s)
      BY <1>1, <1>2, <2>3, <3>1 DEF At
    <3>2. CASE p # Len(s)
      <4>1. p + 1 \in (p + 1)..Len(s) /\ i + 1 = (p + 1) + 1 /\ i + 1 \in 1..(Len(s) + 1)
            /\ p + 1 \in 1..Len(s)
        BY <1>1, <2>3, <3>2
      <4>2. t[i + 1] = s[p + 1] /\ At(s, p + 1) = s[p + 1]
        BY <1>2, <4>1 DEF At
      <4> QED
        BY <1>2, <2>3, <4>1, <4>2 DEF At
    <3> QED
      BY <3>1, <3>2
  <2>4. CASE i > p + 1
    <3>1. PICK j \in (p + 1)..Len(s) : i = j + 1
      BY <1>1, <2>4
    <3>2. t[i] = s[j] /\ j \in 1..Len(s) /\ s[j] # n /\ (p > 0 => s[j] # s[p])
      BY <1>1, <1>2, <3>1 DEF IsInjective
    <3>3. link2[t[i]] = At(s, j + 1)
      BY <1>1, <3>2 DEF Linked
    <3>4. CASE j = Len(s)
      BY <1>1, <1>2, <3>1, <3>3, <3>4 DEF At
    <3>5. CASE j # Len(s)
      <4>1. j + 1 \in (p + 1)..Len(s) /\ j + 1 \in 1..Len(s) /\ i + 1 \in 1..(Len(s) + 1)
        BY <1>1, <3>1, <3>5
      <4>2. t[i + 1] = s[j + 1]
        BY <1>2, <3>1, <4>1
      <4> QED
        BY <1>2, <3>3, <4>1, <4>2 DEF At
    <3> QED
      BY <3>4, <3>5
  <2> QED
    BY <1>1, <2>1, <2>2, <2>3, <2>4
<1>4. Linked(link2, t)
  BY <1>2, <1>3 DEF Linked
<1> QED
  BY <1>4 DEF t

LEMMA CellsAre ==
    ASSUME NEW s, NEW k, Listed(s, k)
    PROVE  Cells(head) = {s[i] : i \in 1..Len(s)}
  BY Regions DEF Cells

\* The cell n with the message m is linked in after the first p, k of which are in flight.
Inserts(s, k, p, m, n) ==
    /\ value' = [value EXCEPT ![n] = m]
    /\ DOMAIN next' = Node /\ next'[n] = At(s, p + 1) /\ (p > 0 => next'[s[p]] = n)
    /\ \A c \in Node : c # n /\ (p > 0 => c # s[p]) => next'[c] = next[c]
    /\ head' = IF p = 0 THEN n ELSE head
    /\ tail' = IF p = Len(s) THEN n ELSE tail
    /\ inFlightEnd' = IF p = k THEN n ELSE inFlightEnd
    /\ length' = length + 1

LEMMA InsertStep ==
    ASSUME DOMAIN next = Node, DOMAIN value = Node, ~AtCapacity,
           NEW s, NEW k, Listed(s, k), NEW p \in k..Len(s), NEW m, NEW n \in Node \ Cells(head),
           Inserts(s, k, p, m, n)
    PROVE  /\ Inv'
           /\ InFlight' = InFlight
           /\ Pending' = [i \in 1..(Len(s) - k + 1) |->
                             IF i <= p - k THEN Pending[i]
                             ELSE IF i = p - k + 1 THEN m ELSE Pending[i - 1]]
<1> DEFINE t == Inserted(s, p, n)
<1>1. /\ s \in Seq(Node) /\ IsInjective(s) /\ k \in 0..Len(s) /\ length = Len(s)
      /\ Len(s) \in Nat /\ DOMAIN s = 1..Len(s) /\ \A i \in 1..Len(s) : s[i] \in Node
  BY LenProperties, ElementOfSeq DEF Listed
<1>2. p \in 0..Len(s) /\ \A i \in 1..Len(s) : s[i] # n
  BY <1>1, CellsAre
<1>3. /\ t \in Seq(Node) /\ IsInjective(t) /\ Len(t) = Len(s) + 1
      /\ \A i \in 1..p : t[i] = s[i]
      /\ t[p + 1] = n
      /\ \A i \in (p + 1)..Len(s) : t[i + 1] = s[i]
  BY <1>1, <1>2, InsertedPlaces
<1>4. Linked(next', t)
  BY <1>1, <1>2, InsertedLinked DEF Listed, Inserts
<1> HIDE DEF t
<1>5. head' = At(t, 1) /\ tail' = At(t, Len(t)) /\ inFlightEnd' = At(t, k + 1)
  <2>1. head' = At(t, 1)
    BY <1>1, <1>2, <1>3 DEF Listed, At, Inserts
  <2>2. tail' = At(t, Len(t))
    <3>1. CASE p = Len(s)
      BY <1>1, <1>3, <3>1 DEF At, Inserts
    <3>2. CASE p # Len(s)
      <4>1. Len(s) \in (p + 1)..Len(s) /\ Len(s) \in 1..Len(s)
        BY <1>1, <1>2, <3>2
      <4>2. t[Len(s) + 1] = s[Len(s)] /\ tail' = s[Len(s)]
        BY <1>3, <3>2, <4>1 DEF Listed, At, Inserts
      <4> QED
        BY <1>1, <1>3, <4>2 DEF At
    <3> QED
      BY <3>1, <3>2
  <2>3. inFlightEnd' = At(t, k + 1)
    <3>1. CASE p = k
      BY <1>1, <1>2, <1>3, <3>1 DEF At, Inserts
    <3>2. CASE p # k
      <4>1. k + 1 \in 1..p /\ k + 1 \in 1..Len(s) /\ k + 1 \in 1..Len(t)
        BY <1>1, <1>2, <1>3, <3>2
      <4> QED
        BY <1>3, <3>2, <4>1 DEF Listed, At, Inserts
    <3> QED
      BY <3>1, <3>2
  <2> QED
    BY <2>1, <2>2, <2>3
<1>6. length' = Len(t) /\ k \in 0..Len(t) /\ (Capacity > 0 => length' <= Capacity)
  BY <1>1, <1>3, NodeAssumption DEF AtCapacity, Inserts
<1>7. Listed(t, k)'
  BY <1>3, <1>4, <1>5, <1>6 DEF Listed, Linked, At
<1>8. Inv'
  BY <1>7 DEF Inv, Inserts
<1>9. /\ InFlight' = Part(value', t, 0, k) /\ Pending' = Part(value', t, k, Len(t) - k)
      /\ InFlight = Part(value, s, 0, k) /\ Pending = Part(value, s, k, Len(s) - k)
  BY <1>7, Regions, RegionsNext
<1>10. \A i \in 1..Len(s) : value'[s[i]] = value[s[i]]
  BY <1>1, <1>2 DEF Inserts
<1>11. InFlight' = InFlight
  <2>1. \A i \in 1..k : 0 + i \in 1..Len(s) /\ t[0 + i] = s[0 + i]
    BY <1>1, <1>2, <1>3
  <2> QED
    BY <1>9, <1>10, <2>1 DEF Part
<1>12. Pending' = [i \in 1..(Len(s) - k + 1) |->
                      IF i <= p - k THEN Pending[i]
                      ELSE IF i = p - k + 1 THEN m ELSE Pending[i - 1]]
  <2>1. k \in Nat /\ p \in Nat /\ Len(s) \in Nat /\ k <= p /\ p <= Len(s)
    BY <1>1
  <2>2. Len(t) - k = Len(s) - k + 1
    BY <1>1, <1>3
  <2>3. ASSUME NEW i \in 1..(Len(s) - k + 1)
        PROVE  value'[t[k + i]] = IF i <= p - k THEN Pending[i]
                                  ELSE IF i = p - k + 1 THEN m ELSE Pending[i - 1]
    <3>1. CASE i <= p - k
      <4>1. k + i \in 1..p /\ k + i \in 1..Len(s) /\ i \in 1..(Len(s) - k)
        BY <1>1, <1>2, <3>1
      <4> QED
        BY <1>3, <1>9, <1>10, <3>1, <4>1 DEF Part
    <3>2. CASE i = p - k + 1
      <4>1. k + i = p + 1 /\ ~(i <= p - k)
        BY <1>1, <1>2, <3>2
      <4> QED
        BY <1>3, <3>2, <4>1 DEF Inserts
    <3>3. CASE i > p - k + 1
      <4>1. PICK j \in 1..(Len(s) - k) : i = j + 1
        BY <1>1, <1>2, <3>3
      <4>2. k + j \in (p + 1)..Len(s) /\ k + j \in 1..Len(s) /\ k + i = (k + j) + 1 /\ i - 1 = j
        BY <2>1, <3>3, <4>1
      <4>3. t[k + i] = s[k + j]
        BY <1>3, <4>2
      <4>4. value'[t[k + i]] = Pending[j]
        BY <1>9, <1>10, <4>2, <4>3 DEF Part
      <4> QED
        BY <1>1, <1>2, <3>3, <4>2, <4>4
    <3> QED
      BY <1>1, <1>2, <3>1, <3>2, <3>3
  <2>4. Pending' = [i \in 1..(Len(s) - k + 1) |-> value'[t[k + i]]]
    BY <1>9, <2>2 DEF Part
  <2> QED
    BY <2>3, <2>4
<1> QED
  BY <1>8, <1>11, <1>12

\* Nothing moves: the method returns what it may.
LEMMA StillStep ==
    ASSUME Inv, UNCHANGED <<ptrVars, next, value>>
    PROVE  Inv' /\ UNCHANGED <<InFlight, Pending>>
<1>1. PICK s, k : Listed(s, k)
  BY DEF Inv
<1>2. Listed(s, k)'
  BY <1>1 DEF Listed, Linked, At, ptrVars
<1> QED
  BY <1>1, <1>2, Regions, RegionsNext DEF Inv

LEMMA RoomIs ==
    ASSUME NEW s, NEW k, Listed(s, k)
    PROVE  /\ Len(InFlight) + Len(Pending) = length
           /\ Queue!Room <=> ~AtCapacity
<1>1. /\ s \in Seq(Node) /\ k \in 0..Len(s) /\ length = Len(s) /\ Len(s) \in Nat
      /\ (Capacity > 0 => length <= Capacity)
  BY LenProperties DEF Listed
<1>2. Len(InFlight) = k /\ Len(Pending) = Len(s) - k
  BY <1>1, Regions DEF Part
<1> QED
  BY <1>1, <1>2, NodeAssumption DEF Queue!Room, AtCapacity

LEMMA PushStep ==
    ASSUME Inv, NEW m \in Msg, Push(m)
    PROVE  Inv' /\ (Queue!PushOk(m) \/ Queue!PushFull)
<1>1. PICK s, k : Listed(s, k)
  BY DEF Inv
<1>2. CASE AtCapacity
  BY <1>1, <1>2, StillStep, RoomIs DEF Push, Queue!PushFull
<1>3. CASE ~AtCapacity
  <2>1. PICK n \in Node \ Cells(head) :
           /\ value' = [value EXCEPT ![n] = m]
           /\ IF tail = nil
              THEN /\ head' = n /\ inFlightEnd' = n
                   /\ next' = [next EXCEPT ![n] = nil]
              ELSE /\ next' = [next EXCEPT ![n] = nil, ![tail] = n]
                   /\ inFlightEnd' = IF inFlightEnd = nil THEN n ELSE inFlightEnd
                   /\ UNCHANGED head
           /\ tail' = n
           /\ length' = length + 1
    BY <1>3 DEF Push
  <2>2. /\ s \in Seq(Node) /\ k \in 0..Len(s) /\ length = Len(s) /\ Len(s) \in Nat
        /\ \A i \in 1..Len(s) : s[i] \in Node /\ s[i] # n
        /\ head = At(s, 1) /\ tail = At(s, Len(s)) /\ inFlightEnd = At(s, k + 1)
    BY <1>1, CellsAre, LenProperties, ElementOfSeq DEF Listed
  <2>3. DOMAIN next = Node /\ DOMAIN value = Node
    BY DEF Inv
  <2>4. tail = nil <=> Len(s) = 0
    BY <2>2, NodeAssumption DEF At
  <2>5. inFlightEnd = nil <=> k = Len(s)
    BY <2>2, NodeAssumption DEF At
  <2>6. /\ DOMAIN next' = Node /\ next'[n] = nil
        /\ Len(s) > 0 => next'[s[Len(s)]] = n
        /\ \A c \in Node : c # n /\ (Len(s) > 0 => c # s[Len(s)]) => next'[c] = next[c]
    BY <2>1, <2>2, <2>3, <2>4 DEF At
  <2>7. /\ head' = IF Len(s) = 0 THEN n ELSE head
        /\ inFlightEnd' = IF Len(s) = k THEN n ELSE inFlightEnd
    BY <2>1, <2>2, <2>4, <2>5
  <2>8. At(s, Len(s) + 1) = nil /\ Len(s) \in k..Len(s)
    BY <2>2 DEF At
  <2>9. /\ Inv' /\ InFlight' = InFlight
        /\ Pending' = [i \in 1..(Len(s) - k + 1) |->
                          IF i <= Len(s) - k THEN Pending[i]
                          ELSE IF i = Len(s) - k + 1 THEN m ELSE Pending[i - 1]]
    <3>1. Inserts(s, k, Len(s), m, n)
      BY <2>1, <2>6, <2>7, <2>8 DEF Inserts
    <3> QED
      BY <1>1, <1>3, <2>3, <2>8, <3>1, InsertStep
  <2>10. Pending' = Append(Pending, m)
    <3>1. Pending = Part(value, s, k, Len(s) - k)
      BY <1>1, Regions
    <3> QED
      BY <2>2, <2>9, <3>1 DEF Part
  <2> QED
    BY <1>1, <1>3, <2>9, <2>10, RoomIs DEF Push, Queue!PushOk
<1> QED
  BY <1>2, <1>3

LEMMA PushFrontStep ==
    ASSUME Inv, NEW m \in Msg, PushFront(m)
    PROVE  Inv' /\ (Queue!PushFrontOk(m) \/ Queue!PushFull)
<1>1. PICK s, k : Listed(s, k)
  BY DEF Inv
<1>2. CASE AtCapacity
  BY <1>1, <1>2, StillStep, RoomIs DEF PushFront, Queue!PushFull
<1>3. CASE ~AtCapacity
  <2>1. PICK n \in Node \ Cells(head) :
           /\ value' = [value EXCEPT ![n] = m]
           /\ inFlightEnd' = n
           /\ length' = length + 1
           /\ CASE head = nil ->
                     /\ head' = n /\ tail' = n
                     /\ next' = [next EXCEPT ![n] = nil]
                [] head # nil /\ inFlightEnd = nil ->
                     /\ tail' = n
                     /\ next' = [next EXCEPT ![n] = nil, ![tail] = n]
                     /\ UNCHANGED head
                [] head # nil /\ inFlightEnd = head ->
                     /\ head' = n
                     /\ next' = [next EXCEPT ![n] = head]
                     /\ UNCHANGED tail
                [] OTHER ->
                     /\ next' = [next EXCEPT ![n] = inFlightEnd, ![Predecessor] = n]
                     /\ UNCHANGED <<head, tail>>
    BY <1>3 DEF PushFront
  <2>2. /\ s \in Seq(Node) /\ k \in 0..Len(s) /\ length = Len(s) /\ Len(s) \in Nat
        /\ IsInjective(s) /\ DOMAIN s = 1..Len(s)
        /\ \A i \in 1..Len(s) : s[i] \in Node /\ s[i] # n
        /\ head = At(s, 1) /\ tail = At(s, Len(s)) /\ inFlightEnd = At(s, k + 1)
        /\ Cells(head) = {s[i] : i \in 1..Len(s)}
    BY <1>1, CellsAre, LenProperties, ElementOfSeq DEF Listed
  <2>3. DOMAIN next = Node /\ DOMAIN value = Node
    BY DEF Inv
  <2>4. head = nil <=> Len(s) = 0
    BY <2>2, NodeAssumption DEF At
  <2>5. inFlightEnd = nil <=> k = Len(s)
    BY <2>2, NodeAssumption DEF At
  <2>6. head # nil /\ inFlightEnd # nil => (inFlightEnd = head <=> k = 0)
    <3> SUFFICES ASSUME head # nil, inFlightEnd # nil PROVE inFlightEnd = head <=> k = 0
      OBVIOUS
    <3>1. 1 \in 1..Len(s) /\ k + 1 \in 1..Len(s)
      BY <2>2, <2>4, <2>5
    <3>2. head = s[1] /\ inFlightEnd = s[k + 1]
      BY <2>2, <3>1 DEF At
    <3> QED
      BY <2>2, <3>1, <3>2 DEF IsInjective
  <2>7. Inserts(s, k, k, m, n)
    <3>1. CASE head = nil
      <4>1. Len(s) = 0 /\ k = 0 /\ At(s, k + 1) = nil
        BY <2>2, <2>4, <3>1 DEF At
      <4>2. head' = n /\ tail' = n /\ next' = [next EXCEPT ![n] = nil]
        BY <2>1, <3>1
      <4> QED
        BY <2>1, <2>3, <4>1, <4>2 DEF Inserts
    <3>2. CASE head # nil /\ inFlightEnd = nil
      <4>1. Len(s) > 0 /\ k = Len(s) /\ At(s, k + 1) = nil /\ tail = s[k] /\ s[k] # n /\ s[k] \in Node
        BY <2>2, <2>4, <2>5, <3>2 DEF At
      <4>2. head' = head /\ tail' = n /\ next' = [next EXCEPT ![n] = nil, ![tail] = n]
        BY <2>1, <3>2
      <4> QED
        BY <2>1, <2>2, <2>3, <4>1, <4>2 DEF Inserts
    <3>3. CASE head # nil /\ inFlightEnd # nil /\ inFlightEnd = head
      <4>1. k = 0 /\ Len(s) # 0
        BY <2>4, <2>6, <3>3
      <4>2. head' = n /\ tail' = tail /\ next' = [next EXCEPT ![n] = head]
        BY <2>1, <3>3
      <4> QED
        BY <2>1, <2>2, <2>3, <4>1, <4>2 DEF Inserts
    <3>4. CASE head # nil /\ inFlightEnd # nil /\ inFlightEnd # head
      <4>1. k \in 1..Len(s) /\ k + 1 \in 1..Len(s) /\ k # 0 /\ k # Len(s)
        BY <2>2, <2>5, <2>6, <3>4
      <4>2. Predecessor = s[k]
        <5>1. \A i \in 1..Len(s) : next[s[i]] = At(s, i + 1)
          BY <1>1 DEF Listed, Linked
        <5>2. inFlightEnd = s[k + 1] /\ s[k] \in Cells(head) /\ next[s[k]] = inFlightEnd
          BY <2>2, <4>1, <5>1 DEF At
        <5>3. ASSUME NEW c \in Cells(head), next[c] = inFlightEnd PROVE c = s[k]
          <6>1. PICK i \in 1..Len(s) : c = s[i]
            BY <2>2, <5>3
          <6>2. At(s, i + 1) = s[k + 1]
            BY <5>1, <5>2, <5>3, <6>1
          <6>3. i + 1 \in 1..Len(s)
            BY <2>2, <4>1, <6>2, NodeAssumption DEF At
          <6>4. i + 1 = k + 1
            BY <2>2, <4>1, <6>2, <6>3 DEF At, IsInjective
          <6> QED
            BY <2>2, <6>1, <6>4
        <5> QED
          BY <5>2, <5>3 DEF Predecessor
      <4>3. head' = head /\ tail' = tail /\ next' = [next EXCEPT ![n] = inFlightEnd, ![Predecessor] = n]
        BY <2>1, <3>4
      <4>4. s[k] \in Node /\ s[k] # n
        BY <2>2, <4>1
      <4> QED
        BY <2>1, <2>2, <2>3, <4>1, <4>2, <4>3, <4>4 DEF Inserts
    <3> QED
      BY <3>1, <3>2, <3>3, <3>4
  <2>8. k \in k..Len(s)
    BY <2>2
  <2>9. /\ Inv' /\ InFlight' = InFlight
        /\ Pending' = [i \in 1..(Len(s) - k + 1) |->
                          IF i <= k - k THEN Pending[i]
                          ELSE IF i = k - k + 1 THEN m ELSE Pending[i - 1]]
    BY <1>1, <1>3, <2>3, <2>7, <2>8, InsertStep
  <2>10. Pending' = <<m>> \o Pending
    <3>1. Pending = Part(value, s, k, Len(s) - k)
      BY <1>1, Regions
    <3>2. Len(s) - k \in Nat /\ k - k = 0
      BY <2>2
    <3> QED
      BY <2>9, <3>1, <3>2 DEF Part
  <2> QED
    BY <1>1, <1>3, <2>9, <2>10, RoomIs DEF PushFront, Queue!PushFrontOk
<1> QED
  BY <1>2, <1>3
-----------------------------------------------------------------------------
(* The cursor moves: Peek and Rewind.                                       *)

LEMMA CursorStep ==
    ASSUME Inv, NEW s, NEW k, Listed(s, k), NEW l \in 0..Len(s), inFlightEnd' = At(s, l + 1),
           UNCHANGED <<head, tail, length, next, value>>
    PROVE  /\ Inv'
           /\ InFlight' = Part(value, s, 0, l)
           /\ Pending' = Part(value, s, l, Len(s) - l)
<1>1. Listed(s, l)'
  BY DEF Listed, Linked, At
<1> QED
  BY <1>1, RegionsNext DEF Inv

LEMMA RewindStep ==
    ASSUME Inv, Rewind
    PROVE  Inv' /\ Queue!Rewind
<1>1. PICK s, k : Listed(s, k)
  BY DEF Inv
<1>2. s \in Seq(Node) /\ k \in 0..Len(s) /\ Len(s) \in Nat /\ head = At(s, 0 + 1)
  BY <1>1, LenProperties DEF Listed
<1>3. /\ Inv' /\ InFlight' = Part(value, s, 0, 0)
      /\ Pending' = Part(value, s, 0, Len(s) - 0)
  BY <1>1, <1>2, CursorStep DEF Rewind
<1>4. InFlight = Part(value, s, 0, k) /\ Pending = Part(value, s, k, Len(s) - k)
  BY <1>1, Regions
<1>5. InFlight' = <<>>
  BY <1>3 DEF Part
<1>6. Pending' = InFlight \o Pending
  <2>1. Len(s) - 0 = Len(s)
    BY <1>2
  <2> QED
    BY <1>1, <1>3, <2>1, ContentsAre DEF Queue!Contents
<1> QED
  BY <1>3, <1>5, <1>6 DEF Rewind, Queue!Rewind, Queue!Contents

\* The place at which Peek stops.
LEMMA PeekRunIs ==
    ASSUME NEW s, NEW k, Listed(s, k), inFlightEnd # nil
    PROVE  \E b \in 1..(Len(s) - k) :
              /\ PeekRun = [i \in 1..b |-> s[k + i]]
              /\ Queue!IsBatch(Pending, b)
<1> DEFINE run == [i \in 1..(Len(s) - k) |-> s[k + i]]
           barriers == {i \in 1..(Len(s) - k) : value[run[i]] \in Barrier}
           first == CHOOSE i \in barriers : \A j \in barriers : i <= j
<1>1. /\ s \in Seq(Node) /\ k \in 0..Len(s) /\ Len(s) \in Nat /\ inFlightEnd = At(s, k + 1)
  BY LenProperties DEF Listed
<1>2. Chain(inFlightEnd) = run /\ Pending = Part(value, s, k, Len(s) - k)
  BY Regions
<1>3. Len(s) - k \in Nat \ {0}
  BY <1>1 DEF At
<1>4. Len(run) = Len(s) - k /\ Len(Pending) = Len(s) - k
  BY <1>2, <1>3 DEF Part
<1>5. \A i \in 1..(Len(s) - k) : run[i] = s[k + i] /\ Pending[i] = value[run[i]]
  BY <1>2 DEF Part
<1>6. PeekRun = IF barriers = {} THEN run
                ELSE SubSeq(run, 1, IF first = 1 THEN 1 ELSE first - 1)
  BY <1>2, <1>4 DEF PeekRun
<1>7. CASE barriers = {}
  <2>1. PeekRun = run
    BY <1>6, <1>7
  <2>2. \A i \in 1..(Len(s) - k) : Pending[i] \notin Barrier
    BY <1>5, <1>7
  <2>3. Queue!IsBatch(Pending, Len(s) - k)
    BY <1>3, <1>4, <2>2 DEF Queue!IsBatch
  <2>4. Len(s) - k \in 1..(Len(s) - k)
    BY <1>3
  <2> QED
    BY <2>1, <2>3, <2>4
<1>8. CASE barriers # {}
  <2>1. first \in barriers /\ \A j \in barriers : first <= j
    <3>1. barriers \in SUBSET Nat
      OBVIOUS
    <3>2. \E x \in barriers : \A y \in barriers : x <= y
      BY <1>8, <3>1, NatMinimum
    <3> QED
      BY <3>2
  <2> HIDE DEF first
  <2>2. first \in 1..(Len(s) - k) /\ Pending[first] \in Barrier
    BY <1>5, <2>1
  <2>3. PICK b : b = IF first = 1 THEN 1 ELSE first - 1
    OBVIOUS
  <2>4. b \in 1..(Len(s) - k)
    <3>1. first \in Nat /\ first >= 1 /\ first <= Len(s) - k
      BY <1>3, <2>2
    <3> QED
      BY <1>3, <2>3, <3>1
  <2>5. PeekRun = [i \in 1..b |-> s[k + i]]
    <3>1. PeekRun = SubSeq(run, 1, b)
      BY <1>6, <1>8, <2>3
    <3>2. SubSeq(run, 1, b) = [i \in 1..b |-> run[i]]
      BY <1>3, <2>4
    <3>3. \A i \in 1..b : run[i] = s[k + i]
      BY <1>3, <2>4
    <3> QED
      BY <3>1, <3>2, <3>3
  <2>6. Queue!IsBatch(Pending, b)
    <3>1. CASE first = 1
      BY <1>4, <2>2, <2>3, <2>4, <3>1 DEF Queue!IsBatch
    <3>2. CASE first # 1
      <4>1. \A i \in 1..b : i \notin barriers /\ i \in 1..(Len(s) - k)
        BY <1>3, <2>1, <2>2, <2>3, <3>2
      <4>2. \A i \in 1..b : Pending[i] \notin Barrier
        BY <1>5, <4>1
      <4>3. b + 1 = first
        BY <2>2, <2>3, <3>2
      <4> QED
        BY <1>4, <2>2, <2>4, <4>2, <4>3 DEF Queue!IsBatch
    <3> QED
      BY <3>1, <3>2
  <2> QED
    BY <2>4, <2>5, <2>6
<1> QED
  BY <1>7, <1>8

LEMMA PeekStep ==
    ASSUME Inv, Peek
    PROVE  Inv' /\ (Queue!Peek \/ Queue!PeekEmpty)
<1>1. PICK s, k : Listed(s, k)
  BY DEF Inv
<1>2. /\ s \in Seq(Node) /\ k \in 0..Len(s) /\ k \in Nat /\ Len(s) \in Nat
      /\ inFlightEnd = At(s, k + 1) /\ Linked(next, s)
      /\ \A i \in 1..Len(s) : s[i] \in Node
  BY <1>1, LenProperties, ElementOfSeq DEF Listed
<1>3. InFlight = Part(value, s, 0, k) /\ Pending = Part(value, s, k, Len(s) - k)
  BY <1>1, Regions
<1>4. CASE inFlightEnd = nil
  <2>1. k = Len(s)
    BY <1>2, <1>4, NodeAssumption DEF At
  <2>2. Pending = <<>>
    BY <1>2, <1>3, <2>1 DEF Part
  <2>3. out' = <<>> /\ UNCHANGED <<ptrVars, next, value>>
    BY <1>4 DEF Peek, ptrVars
  <2> QED
    BY <2>2, <2>3, StillStep DEF Queue!PeekEmpty
<1>5. CASE inFlightEnd # nil
  <2>1. PICK b \in 1..(Len(s) - k) : /\ PeekRun = [i \in 1..b |-> s[k + i]]
                                     /\ Queue!IsBatch(Pending, b)
    BY <1>1, <1>5, PeekRunIs
  <2>2. /\ b \in Nat /\ b >= 1 /\ k + b \in 0..Len(s) /\ k + b \in 1..Len(s)
        /\ Len(s) - k \in Nat
    BY <1>2
  <2>3. Len(PeekRun) = b /\ PeekRun[b] = s[k + b]
    BY <2>1, <2>2
  <2>4. inFlightEnd' = At(s, k + b + 1) /\ out' = Part(value, s, k, b)
    <3>1. next[s[k + b]] = At(s, k + b + 1)
      BY <1>2, <2>2 DEF Linked
    <3>2. Values(PeekRun) = Part(value, s, k, b)
      BY <2>1, <2>3 DEF Values, Part
    <3> QED
      BY <1>5, <2>3, <3>1, <3>2 DEF Peek
  <2>5. /\ Inv'
        /\ InFlight' = Part(value, s, 0, k + b)
        /\ Pending' = Part(value, s, k + b, Len(s) - (k + b))
    BY <1>1, <1>5, <2>2, <2>4, CursorStep DEF Peek
  <2>6. Len(Pending) = Len(s) - k
    BY <1>3, <2>2 DEF Part
  <2>7. SubSeq(Pending, 1, b) = Part(value, s, k, b)
    <3>1. Cuts(k, Len(s) - k, 1, b, k, b)
      BY <1>2, <2>2 DEF Cuts
    <3> QED
      BY <1>3, <3>1, PartCut
  <2>8. SubSeq(Pending, b + 1, Len(Pending)) = Pending'
    <3>1. Cuts(k, Len(s) - k, b + 1, Len(s) - k, k + b, Len(s) - (k + b))
      BY <1>2, <2>2 DEF Cuts
    <3> QED
      BY <1>3, <2>5, <2>6, <3>1, PartCut
  <2>9. InFlight' = InFlight \o SubSeq(Pending, 1, b)
    <3>1. Meets(0, k, k, b, k + b)
      BY <1>2, <2>2 DEF Meets
    <3>2. Part(value, s, 0, k) \o Part(value, s, k, b) = Part(value, s, 0, k + b)
      BY <3>1, PartJoin
    <3> QED
      BY <1>3, <2>5, <2>7, <3>2
  <2>10. b \in 1..Len(Pending) /\ out' = SubSeq(Pending, 1, b)
    BY <2>4, <2>6, <2>7
  <2>11. Queue!Peek
    BY <2>1, <2>8, <2>9, <2>10 DEF Queue!Peek
  <2> QED
    BY <2>5, <2>11
<1> QED
  BY <1>4, <1>5
-----------------------------------------------------------------------------
(* Cells leave: Commit, Clear and Remove.                                   *)

LEMMA CommitStep ==
    ASSUME Inv, Commit
    PROVE  Inv' /\ Queue!Commit
<1>1. PICK s, k : Listed(s, k)
  BY DEF Inv
<1>2. /\ s \in Seq(Node) /\ IsInjective(s) /\ k \in 0..Len(s) /\ k \in Nat /\ Len(s) \in Nat
      /\ DOMAIN s = 1..Len(s) /\ (\A i \in 1..Len(s) : s[i] \in Node)
      /\ head = At(s, 1) /\ tail = At(s, Len(s)) /\ inFlightEnd = At(s, k + 1)
      /\ length = Len(s) /\ Linked(next, s) /\ (Capacity > 0 => length <= Capacity)
      /\ DOMAIN next = Node /\ DOMAIN value = Node
  BY <1>1, LenProperties, ElementOfSeq DEF Listed, Inv
<1>3. /\ InFlight = Part(value, s, 0, k) /\ Pending = Part(value, s, k, Len(s) - k)
      /\ ChainUpTo(head, inFlightEnd) = [i \in 1..k |-> s[i]]
  BY <1>1, Regions
<1>4. CASE head = inFlightEnd
  <2>1. k = 0
    BY <1>2, <1>4, NodeAssumption DEF At, IsInjective
  <2>2. InFlight = <<>>
    BY <1>3, <2>1 DEF Part
  <2> QED
    BY <1>4, <2>2, StillStep DEF Commit, Queue!Commit
<1>5. CASE head # inFlightEnd
  <2> DEFINE t == [i \in 1..(Len(s) - k) |-> s[k + i]]
  <2>1. /\ DOMAIN next' = Node /\ UNCHANGED <<value, inFlightEnd>> /\ out' = <<>>
        /\ head' = inFlightEnd /\ tail' = IF inFlightEnd = nil THEN nil ELSE tail
        /\ length' = Len(s) - k
        /\ \A n \in Node : (\A i \in 1..k : s[i] # n) => next'[n] = next[n]
    <3> DEFINE gone == ChainUpTo(head, inFlightEnd)
    <3>1. Len(gone) = k /\ \A i \in 1..k : gone[i] = s[i]
      BY <1>2, <1>3
    <3>2. /\ next' = [n \in Node |-> IF \E i \in 1..Len(gone) : gone[i] = n THEN nil ELSE next[n]]
          /\ head' = inFlightEnd /\ tail' = IF inFlightEnd = nil THEN nil ELSE tail
          /\ length' = length - Len(gone)
          /\ UNCHANGED <<value, inFlightEnd>> /\ out' = <<>>
      BY <1>5 DEF Commit
    <3> HIDE DEF gone
    <3>3. \A n \in Node : (\A i \in 1..k : s[i] # n) => next'[n] = next[n]
      BY <3>1, <3>2
    <3> QED
      BY <1>2, <3>1, <3>2, <3>3
  <2>2. /\ t \in Seq(Node) /\ Len(t) = Len(s) - k /\ DOMAIN t = 1..(Len(s) - k)
        /\ Len(s) - k \in Nat
    <3>1. \A i \in 1..(Len(s) - k) : k + i \in 1..Len(s)
      BY <1>2
    <3>2. \A i \in 1..(Len(s) - k) : s[k + i] \in Node
      BY <1>2, <3>1
    <3>3. Len(s) - k \in Nat
      BY <1>2
    <3> QED
      BY <3>2, <3>3
  <2>3. \A i \in 1..(Len(s) - k) : t[i] = s[k + i] /\ k + i \in 1..Len(s)
    BY <1>2
  <2> HIDE DEF t
  <2>4. ASSUME NEW i \in Nat \ {0} PROVE At(t, i) = At(s, k + i)
    <3>1. i \in 1..Len(t) <=> k + i \in 1..Len(s)
      BY <1>2, <2>2
    <3> QED
      BY <2>2, <2>3, <3>1 DEF At
  <2>5. IsInjective(t)
    <3> SUFFICES ASSUME NEW i \in 1..(Len(s) - k), NEW j \in 1..(Len(s) - k), t[i] = t[j]
                 PROVE  i = j
      BY <2>2 DEF IsInjective
    <3>1. k + i = k + j
      BY <1>2, <2>3 DEF IsInjective
    <3> QED
      BY <1>2, <3>1
  <2>6. Linked(next', t)
    <3> SUFFICES ASSUME NEW i \in 1..(Len(s) - k) PROVE next'[t[i]] = At(t, i + 1)
      BY <2>2 DEF Linked
    <3>1. \A j \in 1..k : j \in 1..Len(s) /\ j # k + i
      BY <1>2
    <3>2. \A j \in 1..k : s[j] # s[k + i]
      BY <1>2, <2>3, <3>1 DEF IsInjective
    <3>3. next'[t[i]] = next[s[k + i]] /\ next[s[k + i]] = At(s, (k + i) + 1)
      <4>1. k + i \in 1..Len(s) /\ s[k + i] \in Node /\ t[i] = s[k + i]
        BY <1>2, <2>3
      <4> QED
        BY <1>2, <2>1, <3>2, <4>1 DEF Linked
    <3>4. At(t, i + 1) = At(s, k + (i + 1)) /\ k + (i + 1) = (k + i) + 1
      BY <1>2, <2>4
    <3> QED
      BY <3>3, <3>4
  <2>7. head' = At(t, 1) /\ inFlightEnd' = At(t, 0 + 1)
    BY <1>2, <2>1, <2>4
  <2>8. tail' = At(t, Len(t))
    <3>1. CASE k = Len(s)
      BY <1>2, <2>1, <2>2, <3>1 DEF At
    <3>2. CASE k # Len(s)
      <4>1. k + 1 \in 1..Len(s)
        BY <1>2, <3>2
      <4>2. inFlightEnd # nil
        BY <1>2, <4>1, NodeAssumption DEF At
      <4>3. PICK l : l = Len(t)
        OBVIOUS
      <4>4. l \in Nat \ {0} /\ k + l = Len(s)
        <5>1. k \in Nat /\ Len(s) \in Nat /\ k + 1 <= Len(s) /\ l = Len(s) - k
          BY <1>2, <2>2, <4>1, <4>3
        <5> QED
          BY <5>1
      <4>5. At(t, l) = At(s, k + l)
        BY <2>4, <4>4
      <4> QED
        BY <1>2, <2>1, <4>2, <4>3, <4>4, <4>5
    <3> QED
      BY <3>1, <3>2
  <2>9. length' = Len(t) /\ 0 \in 0..Len(t) /\ (Capacity > 0 => length' <= Capacity)
    BY <1>2, <2>1, <2>2, NodeAssumption
  <2>10. Listed(t, 0)'
    BY <2>2, <2>5, <2>6, <2>7, <2>8, <2>9 DEF Listed, Linked, At
  <2>11. Inv'
    BY <2>1, <2>10 DEF Inv
  <2>12. InFlight' = Part(value', t, 0, 0) /\ Pending' = Part(value', t, 0, Len(t) - 0)
    BY <2>10, RegionsNext
  <2>13. InFlight' = <<>>
    BY <2>12 DEF Part
  <2>14. Pending' = Pending
    <3>1. Len(t) - 0 = Len(s) - k
      BY <2>2
    <3>2. \A i \in 1..(Len(s) - k) : 0 + i = i
      BY <2>2
    <3> QED
      BY <1>3, <2>1, <2>3, <2>12, <3>1, <3>2 DEF Part
  <2> QED
    BY <2>1, <2>11, <2>13, <2>14 DEF Queue!Commit
<1> QED
  BY <1>4, <1>5

LEMMA EmptyListed ==
    ASSUME head = nil, tail = nil, inFlightEnd = nil, length = 0
    PROVE  Listed(<< >>, 0)
  BY NodeAssumption DEF Listed, Linked, At, IsInjective

LEMMA ClearStep ==
    ASSUME Inv, Clear
    PROVE  Inv' /\ Queue!Clear
<1>1. PICK s, k : Listed(s, k)
  BY DEF Inv
<1>2. Chain(head) = s /\ Len(s) \in Nat
  BY <1>1, Regions, LenProperties DEF Listed
<1>3. Values(s) = Part(value, s, 0, Len(s))
  <2>1. \A i \in 1..Len(s) : 0 + i = i
    BY <1>2
  <2> QED
    BY <2>1 DEF Values, Part
<1>4. out' = Queue!Contents
  BY <1>1, <1>2, <1>3, ContentsAre DEF Clear
<1>5. Listed(<< >>, 0)'
  BY NodeAssumption DEF Clear, Listed, Linked, At, IsInjective
<1>6. DOMAIN next' = Node /\ DOMAIN value' = Node
  BY DEF Clear, Inv
<1>7. InFlight' = << >> /\ Pending' = << >>
  BY <1>5, RegionsNext DEF Part
<1> QED
  BY <1>4, <1>5, <1>6, <1>7 DEF Inv, Queue!Clear

\* s without its i-th cell.
Without(s, i) == [j \in 1..(Len(s) - 1) |-> IF j < i THEN s[j] ELSE s[j + 1]]

LEMMA WithoutPlaces ==
    ASSUME NEW s \in Seq(Node), IsInjective(s), NEW i \in 1..Len(s)
    PROVE  LET t == Without(s, i)
           IN  /\ t \in Seq(Node) /\ IsInjective(t) /\ Len(t) = Len(s) - 1
               /\ \A j \in Nat \ {0} : At(t, j) = IF j < i THEN At(s, j) ELSE At(s, j + 1)
<1> DEFINE t == Without(s, i)
<1>1. Len(s) \in Nat /\ Len(s) - 1 \in Nat /\ DOMAIN s = 1..Len(s) /\ \A j \in 1..Len(s) : s[j] \in Node
  BY LenProperties, ElementOfSeq
<1>2. \A j \in 1..(Len(s) - 1) : j \in 1..Len(s) /\ j + 1 \in 1..Len(s)
  BY <1>1
<1>3. \A j \in 1..(Len(s) - 1) : t[j] = (IF j < i THEN s[j] ELSE s[j + 1]) /\ t[j] \in Node
  BY <1>1, <1>2 DEF Without
<1>4. t \in Seq(Node) /\ Len(t) = Len(s) - 1 /\ DOMAIN t = 1..(Len(s) - 1)
  BY <1>1, <1>3 DEF Without
<1> HIDE DEF t
<1>5. IsInjective(t)
  <2> SUFFICES ASSUME NEW j \in 1..(Len(s) - 1), NEW l \in 1..(Len(s) - 1), t[j] = t[l]
               PROVE  j = l
    BY <1>4 DEF IsInjective
  <2>1. \A a \in 1..Len(s), b \in 1..Len(s) : s[a] = s[b] => a = b
    BY <1>1 DEF IsInjective
  <2> QED
    BY <1>1, <1>2, <1>3, <2>1
<1>6. ASSUME NEW j \in Nat \ {0}
      PROVE  At(t, j) = IF j < i THEN At(s, j) ELSE At(s, j + 1)
  BY <1>1, <1>2, <1>3, <1>4 DEF At
<1> QED
  BY <1>4, <1>5, <1>6 DEF t

LEMMA WithoutLinked ==
    ASSUME NEW s \in Seq(Node), IsInjective(s), NEW i \in 1..Len(s),
           NEW link, Linked(link, s), NEW link2,
           i > 1 => link2[s[i-1]] = At(s, i + 1),
           \A c \in Node : c # s[i] /\ (i > 1 => c # s[i-1]) => link2[c] = link[c]
    PROVE  Linked(link2, Without(s, i))
<1> DEFINE t == Without(s, i)
<1>1. /\ Len(s) \in Nat /\ Len(t) = Len(s) - 1
      /\ \A j \in 1..Len(s) : s[j] \in Node
      /\ \A j \in 1..Len(s), l \in 1..Len(s) : s[j] = s[l] => j = l
      /\ \A j \in Nat \ {0} : At(t, j) = IF j < i THEN At(s, j) ELSE At(s, j + 1)
  <2>1. Len(s) \in Nat /\ DOMAIN s = 1..Len(s) /\ \A j \in 1..Len(s) : s[j] \in Node
    BY LenProperties, ElementOfSeq
  <2>2. \A j \in 1..Len(s), l \in 1..Len(s) : s[j] = s[l] => j = l
    BY <2>1 DEF IsInjective
  <2>3. /\ Len(t) = Len(s) - 1
        /\ \A j \in Nat \ {0} : At(t, j) = IF j < i THEN At(s, j) ELSE At(s, j + 1)
    BY WithoutPlaces
  <2> QED
    BY <2>1, <2>2, <2>3
<1> HIDE DEF t
<1>2. \A j \in 1..Len(s) : j # i /\ (i > 1 => j # i - 1) => link2[s[j]] = At(s, j + 1)
  <2> SUFFICES ASSUME NEW j \in 1..Len(s), j # i, i > 1 => j # i - 1
               PROVE  link2[s[j]] = At(s, j + 1)
    OBVIOUS
  <2>1. s[j] # s[i] /\ s[j] \in Node
    BY <1>1
  <2>2. i > 1 => s[j] # s[i-1]
    <3> SUFFICES ASSUME i > 1 PROVE s[j] # s[i-1]
      OBVIOUS
    <3>1. i - 1 \in 1..Len(s) /\ j # i - 1
      BY <1>1
    <3> QED
      BY <1>1, <3>1
  <2>3. link2[s[j]] = link[s[j]]
    BY <2>1, <2>2
  <2> QED
    BY <2>3 DEF Linked
<1>3. ASSUME NEW j \in 1..Len(t) PROVE link2[t[j]] = At(t, j + 1)
  <2>1. /\ j \in Nat \ {0} /\ j + 1 \in Nat \ {0} /\ j \in 1..Len(s) /\ j + 1 \in 1..Len(s)
        /\ t[j] = At(t, j)
    BY <1>1 DEF At
  <2>2. CASE j >= i
    <3>1. t[j] = s[j + 1]
      BY <1>1, <2>1, <2>2 DEF At
    <3>2. At(t, j + 1) = At(s, (j + 1) + 1)
      BY <1>1, <2>1, <2>2
    <3>3. j + 1 # i /\ (i > 1 => j + 1 # i - 1)
      BY <1>1, <2>1, <2>2
    <3> QED
      BY <1>2, <2>1, <3>1, <3>2, <3>3
  <2>3. CASE j = i - 1
    <3>1. t[j] = s[i - 1] /\ i > 1
      BY <1>1, <2>1, <2>3 DEF At
    <3>2. At(t, j + 1) = At(s, i + 1)
      BY <1>1, <2>1, <2>3
    <3> QED
      BY <3>1, <3>2
  <2>4. CASE j < i - 1
    <3>1. t[j] = s[j]
      BY <1>1, <2>1, <2>4 DEF At
    <3>2. At(t, j + 1) = At(s, j + 1)
      BY <1>1, <2>1, <2>4
    <3>3. j # i /\ (i > 1 => j # i - 1)
      BY <1>1, <2>1, <2>4
    <3> QED
      BY <1>2, <2>1, <3>1, <3>2, <3>3
  <2> QED
    BY <1>1, <2>1, <2>2, <2>3, <2>4
<1> QED
  BY <1>3 DEF Linked, t

\* The places of s without its i-th cell that are places of s.
LEMMA PartWithout ==
    ASSUME NEW val, NEW s \in Seq(Node), NEW i \in 1..Len(s), NEW k \in Nat, NEW n \in Nat,
           k + n <= Len(s) - 1
    PROVE  /\ i > k + n => Part(val, Without(s, i), k, n) = Part(val, s, k, n)
           /\ i <= k + 1 => Part(val, Without(s, i), k, n) = Part(val, s, k + 1, n)
<1> DEFINE t == Without(s, i)
<1>1. Len(s) \in Nat
  BY LenProperties
<1>2. \A j \in 1..(Len(s) - 1) : t[j] = IF j < i THEN s[j] ELSE s[j + 1]
  BY <1>1 DEF Without
<1> HIDE DEF t
<1>3. \A x \in 1..n : k + x \in 1..(Len(s) - 1)
  BY <1>1
<1>4. ASSUME i > k + n PROVE Part(val, t, k, n) = Part(val, s, k, n)
  <2>1. \A x \in 1..n : k + x < i
    BY <1>1, <1>4
  <2>2. \A x \in 1..n : t[k + x] = s[k + x]
    BY <1>2, <1>3, <2>1
  <2> QED
    BY <2>2 DEF Part
<1>5. ASSUME i <= k + 1 PROVE Part(val, t, k, n) = Part(val, s, k + 1, n)
  <2>1. \A x \in 1..n : ~(k + x < i) /\ (k + x) + 1 = (k + 1) + x
    BY <1>1, <1>5
  <2>2. \A x \in 1..n : t[k + x] = s[(k + 1) + x]
    BY <1>2, <1>3, <2>1
  <2> QED
    BY <2>2 DEF Part
<1> QED
  BY <1>4, <1>5 DEF t

\* The i-th cell of s is among the n after the first k, the j-th of them.
Among(s, k, n, i, j) ==
    /\ s \in Seq(Node) /\ i \in 1..Len(s) /\ k \in Nat /\ n \in Nat /\ k + n <= Len(s)
    /\ j \in 1..n /\ i = k + j

LEMMA PartDrop ==
    ASSUME NEW val, NEW s, NEW k, NEW n, NEW i, NEW j, Among(s, k, n, i, j)
    PROVE  Queue!DropAt(Part(val, s, k, n), j) = Part(val, Without(s, i), k, n - 1)
<1> DEFINE t == Without(s, i)
           a == Part(val, s, k, n)
<1>1. /\ s \in Seq(Node) /\ i \in 1..Len(s) /\ k \in Nat /\ n \in Nat /\ k + n <= Len(s)
      /\ j \in 1..n /\ i = k + j /\ Len(s) \in Nat
  BY LenProperties DEF Among
<1>2. Len(a) = n
  BY <1>1 DEF Part
<1>3. SubSeq(a, 1, j - 1) = Part(val, t, k, j - 1)
  <2>1. Cuts(k, n, 1, j - 1, k, j - 1)
    BY <1>1 DEF Cuts
  <2>2. SubSeq(a, 1, j - 1) = Part(val, s, k, j - 1)
    BY <2>1, PartCut
  <2>3. j - 1 \in Nat /\ k + (j - 1) <= Len(s) - 1 /\ i > k + (j - 1)
    BY <1>1
  <2> QED
    BY <1>1, <2>2, <2>3, PartWithout
<1>4. SubSeq(a, j + 1, n) = Part(val, t, k + (j - 1), n - j)
  <2>1. Cuts(k, n, j + 1, n, k + j, n - j)
    BY <1>1 DEF Cuts
  <2>2. SubSeq(a, j + 1, n) = Part(val, s, k + j, n - j)
    BY <2>1, PartCut
  <2>3. PICK l \in Nat : l = k + (j - 1)
    BY <1>1
  <2>4. n - j \in Nat /\ l + (n - j) <= Len(s) - 1 /\ i <= l + 1 /\ l + 1 = k + j
    BY <1>1, <2>3
  <2> QED
    BY <1>1, <2>2, <2>3, <2>4, PartWithout
<1>5. Meets(k, j - 1, k + (j - 1), n - j, n - 1)
  BY <1>1 DEF Meets
<1>6. Part(val, t, k, j - 1) \o Part(val, t, k + (j - 1), n - j) = Part(val, t, k, n - 1)
  BY <1>5, PartJoin
<1> HIDE DEF t, a
<1>7. Queue!DropAt(a, j) = Part(val, t, k, n - 1)
  BY <1>2, <1>3, <1>4, <1>6 DEF Queue!DropAt
<1> QED
  BY <1>7 DEF t, a

\* The i-th cell of s is unlinked, k cells of which are in flight.
Unlinks(s, k, i) ==
    /\ i \in 1..Len(s) /\ UNCHANGED value /\ DOMAIN next' = Node
    /\ i > 1 => next'[s[i-1]] = At(s, i + 1)
    /\ \A c \in Node : c # s[i] /\ (i > 1 => c # s[i-1]) => next'[c] = next[c]
    /\ head' = IF i = 1 THEN At(s, 2) ELSE head
    /\ tail' = IF i = Len(s) THEN At(s, i - 1) ELSE tail
    /\ inFlightEnd' = IF i = k + 1 THEN At(s, i + 1) ELSE inFlightEnd
    /\ length' = length - 1

LEMMA UnlinkStep ==
    ASSUME DOMAIN value = Node, NEW s, NEW k, Listed(s, k), NEW i, Unlinks(s, k, i)
    PROVE  /\ Inv'
           /\ i <= k => InFlight' = Queue!DropAt(InFlight, i) /\ Pending' = Pending
           /\ i > k => InFlight' = InFlight /\ Pending' = Queue!DropAt(Pending, i - k)
<1> DEFINE t == Without(s, i)
           l == IF i <= k THEN k - 1 ELSE k
<1>1. /\ s \in Seq(Node) /\ IsInjective(s) /\ k \in 0..Len(s) /\ k \in Nat /\ Len(s) \in Nat
      /\ i \in 1..Len(s) /\ i \in Nat /\ i >= 1 /\ i <= Len(s)
      /\ head = At(s, 1) /\ tail = At(s, Len(s)) /\ inFlightEnd = At(s, k + 1)
      /\ length = Len(s) /\ Linked(next, s) /\ (Capacity > 0 => length <= Capacity)
  BY LenProperties DEF Listed, Unlinks
<1>2. /\ t \in Seq(Node) /\ IsInjective(t) /\ Len(t) = Len(s) - 1
      /\ \A j \in Nat \ {0} : At(t, j) = IF j < i THEN At(s, j) ELSE At(s, j + 1)
  BY <1>1, WithoutPlaces
<1>3. Linked(next', t)
  BY <1>1, WithoutLinked DEF Unlinks
<1> HIDE DEF t
<1>4. head' = At(t, 1)
  <2>1. At(t, 1) = IF 1 < i THEN At(s, 1) ELSE At(s, 1 + 1)
    BY <1>2
  <2>2. (1 < i <=> i # 1) /\ 1 + 1 = 2
    BY <1>1
  <2> QED
    BY <1>1, <2>1, <2>2 DEF Unlinks
<1>5. tail' = At(t, Len(t))
  <2>1. CASE Len(s) = 1
    BY <1>1, <1>2, <2>1 DEF Unlinks, At
  <2>2. CASE Len(s) # 1
    <3>1. Len(s) - 1 \in Nat \ {0} /\ (Len(s) - 1) + 1 = Len(s)
      BY <1>1, <2>2
    <3>2. At(t, Len(s) - 1) = IF Len(s) - 1 < i THEN At(s, Len(s) - 1) ELSE At(s, Len(s))
      BY <1>2, <3>1
    <3>3. Len(s) - 1 < i <=> i = Len(s)
      BY <1>1
    <3>4. i = Len(s) => i - 1 = Len(s) - 1
      OBVIOUS
    <3> QED
      BY <1>1, <1>2, <3>2, <3>3, <3>4 DEF Unlinks
  <2> QED
    BY <2>1, <2>2
<1>6. inFlightEnd' = At(t, l + 1)
  <2>1. CASE i <= k
    BY <1>1, <1>2, <2>1 DEF Unlinks
  <2>2. CASE i = k + 1
    BY <1>1, <1>2, <2>2 DEF Unlinks
  <2>3. CASE i > k + 1
    BY <1>1, <1>2, <2>3 DEF Unlinks
  <2> QED
    BY <1>1, <2>1, <2>2, <2>3
<1>7. length' = Len(t) /\ l \in 0..Len(t) /\ (Capacity > 0 => length' <= Capacity)
  BY <1>1, <1>2, NodeAssumption DEF Unlinks
<1> HIDE DEF l
<1>8. Listed(t, l)'
  BY <1>2, <1>3, <1>4, <1>5, <1>6, <1>7 DEF Listed, Linked, At
<1>9. Inv'
  BY <1>8 DEF Inv, Unlinks
<1>10. /\ InFlight' = Part(value, t, 0, l) /\ Pending' = Part(value, t, l, Len(t) - l)
       /\ InFlight = Part(value, s, 0, k) /\ Pending = Part(value, s, k, Len(s) - k)
  BY <1>8, Regions, RegionsNext DEF Unlinks
<1>11. ASSUME i <= k
       PROVE  InFlight' = Queue!DropAt(InFlight, i) /\ Pending' = Pending
  <2>1. l = k - 1 /\ k - 1 \in Nat /\ Len(t) - l = Len(s) - k /\ (k - 1) + 1 = k /\ Len(s) - k \in Nat
    BY <1>1, <1>2, <1>11 DEF l
  <2>2. Among(s, 0, k, i, i)
    BY <1>1, <1>11 DEF Among
  <2>3. Queue!DropAt(Part(value, s, 0, k), i) = Part(value, t, 0, k - 1)
    BY <2>2, PartDrop DEF t
  <2>4. PICK r \in Nat : r = k - 1
    BY <2>1
  <2>5. PICK n \in Nat : n = Len(s) - k
    BY <2>1
  <2>6. r + n <= Len(s) - 1 /\ i <= r + 1 /\ r + 1 = k
    BY <1>1, <1>11, <2>4, <2>5
  <2>7. Part(value, t, r, n) = Part(value, s, r + 1, n)
    BY <1>1, <2>6, PartWithout DEF t
  <2>8. Pending' = Part(value, t, r, n) /\ Pending = Part(value, s, r + 1, n)
    BY <1>10, <2>1, <2>4, <2>5, <2>6
  <2> QED
    BY <1>10, <2>1, <2>3, <2>7, <2>8
<1>12. ASSUME i > k
       PROVE  InFlight' = InFlight /\ Pending' = Queue!DropAt(Pending, i - k)
  <2>1. l = k /\ Len(t) - l = (Len(s) - k) - 1
    BY <1>1, <1>2, <1>12 DEF l
  <2>2. Among(s, k, Len(s) - k, i, i - k)
    BY <1>1, <1>12 DEF Among
  <2>3. Queue!DropAt(Part(value, s, k, Len(s) - k), i - k) = Part(value, t, k, (Len(s) - k) - 1)
    BY <2>2, PartDrop DEF t
  <2>4. 0 + k <= Len(s) - 1 /\ i > 0 + k
    BY <1>1, <1>12
  <2>5. Part(value, t, 0, k) = Part(value, s, 0, k)
    BY <1>1, <2>4, PartWithout DEF t
  <2> QED
    BY <1>10, <2>1, <2>3, <2>5
<1> QED
  BY <1>9, <1>11, <1>12

LEMMA RemoveStep ==
    ASSUME Inv, NEW m \in Msg, Remove(m)
    PROVE  Inv' /\ (Queue!Remove(m) \/ Queue!RemoveMiss(m))
<1>1. PICK s, k : Listed(s, k)
  BY DEF Inv
<1>2. /\ s \in Seq(Node) /\ IsInjective(s) /\ DOMAIN s = 1..Len(s)
      /\ k \in Nat /\ k <= Len(s) /\ Len(s) \in Nat
      /\ (\A j \in 1..Len(s) : s[j] \in Node)
      /\ head = At(s, 1) /\ tail = At(s, Len(s)) /\ inFlightEnd = At(s, k + 1) /\ Linked(next, s)
      /\ DOMAIN next = Node /\ DOMAIN value = Node
  BY <1>1, LenProperties, ElementOfSeq DEF Listed, Inv
<1>3. /\ Len(InFlight) = k /\ Chain(head) = s
      /\ Queue!Contents = Part(value, s, 0, Len(s))
  <2>1. InFlight = Part(value, s, 0, k) /\ Chain(head) = s
    BY <1>1, Regions
  <2>2. Queue!Contents = Part(value, s, 0, Len(s))
    BY <1>1, ContentsAre
  <2> QED
    BY <1>2, <2>1, <2>2 DEF Part
<1>4. /\ Len(Queue!Contents) = Len(s)
      /\ \A j \in 1..Len(s) : Queue!Contents[j] = value[s[j]]
  <2>1. \A j \in 1..Len(s) : 0 + j = j
    BY <1>2
  <2> QED
    BY <1>2, <1>3, <2>1 DEF Part
<1> DEFINE hits == {j \in 1..Len(Chain(head)) : value[Chain(head)[j]] = m}
           first == CHOOSE h \in hits : \A j \in hits : h <= j
<1>5. CASE hits = {}
  <2>1. out' = <<>> /\ UNCHANGED <<ptrVars, next, value>>
    BY <1>5 DEF Remove
  <2>2. \A j \in 1..Len(Queue!Contents) : Queue!Contents[j] # m
    BY <1>3, <1>4, <1>5
  <2> QED
    BY <2>1, <2>2, StillStep DEF Queue!RemoveMiss
<1>6. CASE hits # {}
  <2>1. first \in hits /\ \A j \in hits : first <= j
    <3>1. hits \in SUBSET Nat
      BY <1>2, <1>3
    <3>2. \E x \in hits : \A y \in hits : x <= y
      BY <1>6, <3>1, NatMinimum
    <3> QED
      BY <3>2
  <2>2. /\ out' = <<m>>
        /\ head' = IF first = 1 THEN next[s[first]] ELSE head
        /\ next' = IF first = 1 THEN [next EXCEPT ![s[first]] = nil]
                   ELSE [next EXCEPT ![s[first]] = nil, ![s[first-1]] = next[s[first]]]
        /\ tail' = IF s[first] # tail THEN tail
                   ELSE IF first = 1 THEN nil ELSE s[first-1]
        /\ inFlightEnd' = IF s[first] = inFlightEnd THEN next[s[first]] ELSE inFlightEnd
        /\ length' = length - 1
        /\ UNCHANGED value
    <3>1. /\ out' = <<m>>
          /\ head' = IF first = 1 THEN next[Chain(head)[first]] ELSE head
          /\ next' = IF first = 1 THEN [next EXCEPT ![Chain(head)[first]] = nil]
                     ELSE [next EXCEPT ![Chain(head)[first]] = nil,
                                       ![Chain(head)[first-1]] = next[Chain(head)[first]]]
          /\ tail' = IF Chain(head)[first] # tail THEN tail
                     ELSE IF first = 1 THEN nil ELSE Chain(head)[first-1]
          /\ inFlightEnd' = IF Chain(head)[first] = inFlightEnd
                            THEN next[Chain(head)[first]] ELSE inFlightEnd
          /\ length' = length - 1
          /\ UNCHANGED value
      BY <1>6 DEF Remove
    <3> HIDE DEF first
    <3> QED
      BY <1>3, <3>1
  <2> HIDE DEF first
  <2>3. PICK i : i = first
    OBVIOUS
  <2>4. /\ i \in 1..Len(s) /\ i \in Nat /\ i >= 1 /\ i <= Len(s)
        /\ value[s[i]] = m /\ \A j \in 1..(i - 1) : value[s[j]] # m
    BY <1>2, <1>3, <2>1, <2>3
  <2>5. next[s[i]] = At(s, i + 1) /\ s[i] \in Node
    BY <1>2, <2>4 DEF Linked
  <2>6. \A a \in 1..Len(s), b \in 1..Len(s) : s[a] = s[b] => a = b
    BY <1>2 DEF IsInjective
  <2>7. i > 1 => i - 1 \in 1..Len(s) /\ s[i-1] \in Node /\ s[i-1] # s[i]
    BY <1>2, <2>4, <2>6
  <2>8. Unlinks(s, k, i)
    <3>1. /\ DOMAIN next' = Node /\ (i > 1 => next'[s[i-1]] = At(s, i + 1))
          /\ \A c \in Node : c # s[i] /\ (i > 1 => c # s[i-1]) => next'[c] = next[c]
      BY <1>2, <2>2, <2>3, <2>4, <2>5, <2>7
    <3>2. head' = IF i = 1 THEN At(s, 2) ELSE head
      BY <2>2, <2>3, <2>5
    <3>3. tail' = IF i = Len(s) THEN At(s, i - 1) ELSE tail
      <4>1. tail = s[Len(s)] /\ Len(s) \in 1..Len(s)
        BY <1>2, <2>4 DEF At
      <4>2. s[i] = tail <=> i = Len(s)
        BY <2>4, <2>6, <4>1
      <4>3. (IF i = 1 THEN nil ELSE s[i-1]) = At(s, i - 1)
        BY <2>4, <2>7 DEF At
      <4> QED
        BY <2>2, <2>3, <4>2, <4>3
    <3>4. inFlightEnd' = IF i = k + 1 THEN At(s, i + 1) ELSE inFlightEnd
      <4>1. s[i] = inFlightEnd <=> i = k + 1
        <5>1. CASE k + 1 \in 1..Len(s)
          BY <1>2, <2>4, <2>6, <5>1 DEF At
        <5>2. CASE k + 1 \notin 1..Len(s)
          BY <1>2, <2>4, <2>5, <5>2, NodeAssumption DEF At
        <5> QED
          BY <5>1, <5>2
      <4> QED
        BY <2>2, <2>3, <2>5, <4>1
    <3> QED
      BY <2>2, <2>4, <3>1, <3>2, <3>3, <3>4 DEF Unlinks
  <2>9. /\ Inv'
        /\ i <= k => InFlight' = Queue!DropAt(InFlight, i) /\ Pending' = Pending
        /\ i > k => InFlight' = InFlight /\ Pending' = Queue!DropAt(Pending, i - k)
    BY <1>1, <1>2, <2>8, UnlinkStep
  <2>10. /\ i \in 1..Len(Queue!Contents) /\ Queue!Contents[i] = m
         /\ \A j \in 1..(i-1) : Queue!Contents[j] # m
    <3>1. \A j \in 1..(i-1) : j \in 1..Len(s)
      BY <2>4
    <3> QED
      BY <1>4, <2>4, <3>1
  <2>11. i <= k \/ i > k
    BY <1>2, <2>4
  <2>12. Queue!Remove(m)
    BY <1>3, <2>2, <2>9, <2>10, <2>11 DEF Queue!Remove
  <2> QED
    BY <2>9, <2>12
<1> QED
  BY <1>5, <1>6
-----------------------------------------------------------------------------
(* The theorems.                                                            *)

LEMMA InvInit == Init => Inv /\ Queue!QueueInit
<1> SUFFICES ASSUME Init PROVE Inv /\ Queue!QueueInit
  OBVIOUS
<1>1. head = nil /\ tail = nil /\ inFlightEnd = nil /\ length = 0 /\ out = <<>>
      /\ DOMAIN next = Node /\ DOMAIN value = Node
  BY DEF Init
<1>2. Listed(<< >>, 0)
  BY <1>1, EmptyListed
<1>3. InFlight = << >> /\ Pending = << >>
  BY <1>2, Regions DEF Part
<1> QED
  BY <1>1, <1>2, <1>3 DEF Inv, Queue!QueueInit

LEMMA NextStep ==
    ASSUME Inv, [Next]_vars
    PROVE  Inv' /\ [Queue!QueueNext]_(Queue!queueVars)
<1>1. ASSUME NEW m \in Msg, Push(m) PROVE Inv' /\ Queue!QueueNext
  BY <1>1, PushStep DEF Queue!QueueNext
<1>2. ASSUME NEW m \in Msg, PushFront(m) PROVE Inv' /\ Queue!QueueNext
  BY <1>2, PushFrontStep DEF Queue!QueueNext
<1>3. ASSUME NEW m \in Msg, Remove(m) PROVE Inv' /\ Queue!QueueNext
  BY <1>3, RemoveStep DEF Queue!QueueNext
<1>4. CASE Peek
  BY <1>4, PeekStep DEF Queue!QueueNext
<1>5. CASE Commit
  BY <1>5, CommitStep DEF Queue!QueueNext
<1>6. CASE Rewind
  BY <1>6, RewindStep DEF Queue!QueueNext
<1>7. CASE Clear
  BY <1>7, ClearStep DEF Queue!QueueNext
<1>8. CASE UNCHANGED vars
  BY <1>8, StillStep DEF vars, Queue!queueVars
<1> QED
  BY <1>1, <1>2, <1>3, <1>4, <1>5, <1>6, <1>7, <1>8 DEF Next

\* Every reachable list is well formed: no cycle, the length and the tail are
\* right, and the cursor is a cell of the list or nil (what PushFront's walk
\* to the cell before inFlightEnd relies on).
THEOREM ListCorrect == Spec => []ListWellFormed
<1>1. ASSUME Inv PROVE ListWellFormed
  <2>1. PICK s, k : Listed(s, k)
    BY <1>1 DEF Inv
  <2>2. Chain(head) = s /\ Cells(head) = {s[i] : i \in 1..Len(s)}
    BY <2>1, Regions, CellsAre
  <2>3. Len(s) \in Nat /\ Len(s) <= Cardinality(Node)
    BY <2>1, PlacesBounded DEF Listed
  <2>4. tail = IF s = <<>> THEN nil ELSE s[Len(s)]
    BY <2>1, <2>3 DEF Listed, At
  <2>5. inFlightEnd \in Cells(head) \cup {nil}
    BY <2>1, <2>2 DEF Listed, At
  <2> QED
    BY <2>1, <2>2, <2>3, <2>4, <2>5 DEF ListWellFormed, Listed
<1> QED
  BY <1>1, InvInit, NextStep, PTL DEF Spec

\* The list is the queue: every method of the linked list is a step of
\* BatchQueue on the two regions the cursor separates.
THEOREM ImplementsCorrect == Spec => ImplementsBatchQueue
<1>1. Init => Inv /\ Queue!QueueInit
  BY InvInit
<1>2. Inv /\ [Next]_vars => Inv' /\ [Queue!QueueNext]_(Queue!queueVars)
  BY NextStep
<1> QED
  BY <1>1, <1>2, PTL DEF Spec, ImplementsBatchQueue, Queue!QueueSpec
=============================================================================
