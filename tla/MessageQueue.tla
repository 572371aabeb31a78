---------------------------- MODULE MessageQueue ----------------------------
(***************************************************************************)
(* The linked list behind a chat's message queue                           *)
(* (internal/chatsession/message_queue.go).  Every method holds q.mu from  *)
(* its first to its last statement, so each is one action.  A heap cell is *)
(* a member of Node; a cell no longer reachable from head is garbage and   *)
(* may be allocated again.                                                 *)
(***************************************************************************)
EXTENDS Naturals, Sequences, FiniteSets

CONSTANTS Msg, Barrier, Capacity,   \* as in BatchQueue
          Node,                     \* heap cells
          nil                       \* the nil pointer

ASSUME NodeAssumption == IsFiniteSet(Node) /\ nil \notin Node /\ Capacity \in Nat

VARIABLES head, tail,    \* first and last cell, nil when the queue is empty
          inFlightEnd,   \* first pending cell, nil when nothing is pending
          length,        \* number of messages, as the code counts them
          next, value,   \* the fields of each cell
          out            \* the slice the last method returned

ptrVars == <<head, tail, inFlightEnd, length>>
vars    == <<ptrVars, next, value, out>>

(***************************************************************************)
(* The cells a loop "for n := c; n != nil; n = n.next" visits, in order.   *)
(* The walk is cut off after one step more than there are cells, so that a *)
(* cycle shows as a chain longer than Cardinality(Node).                   *)
(***************************************************************************)
Walk(link, c) ==
    LET nth[k \in 1..Cardinality(Node) + 1] ==
            IF k = 1 THEN c
            ELSE IF nth[k-1] = nil THEN nil ELSE link[nth[k-1]]
    IN  SubSeq(nth, 1, Cardinality({k \in DOMAIN nth : nth[k] # nil}))

Chain(c) == Walk(next, c)

Cells(c) == {Chain(c)[i] : i \in 1..Len(Chain(c))}

\* What "for n := c; n != stop; n = n.next" visits.
ChainUpTo(c, stop) ==
    LET cells   == Chain(c)
        reached == {i \in 0..Len(cells) : \A j \in 1..i : cells[j] # stop}
    IN  SubSeq(cells, 1, Cardinality(reached) - 1)

Values(cells) == [i \in 1..Len(cells) |-> value[cells[i]]]

AtCapacity == Capacity > 0 /\ length >= Capacity

Init ==
    /\ head = nil /\ tail = nil /\ inFlightEnd = nil
    /\ length = 0
    /\ next \in [Node -> {nil}]
    /\ value \in [Node -> {nil}]
    /\ out = <<>>

\* The run of Normal cells at the pending head, or the one Barrier cell there.
PeekRun ==
    LET run == Chain(inFlightEnd)
        barriers == {i \in 1..Len(run) : value[run[i]] \in Barrier}
        first == CHOOSE i \in barriers : \A j \in barriers : i <= j
    IN  IF barriers = {} THEN run
        ELSE SubSeq(run, 1, IF first = 1 THEN 1 ELSE first - 1)

Peek ==
    /\ IF inFlightEnd = nil
       THEN out' = <<>> /\ UNCHANGED inFlightEnd
       ELSE /\ out' = Values(PeekRun)
            /\ inFlightEnd' = next[PeekRun[Len(PeekRun)]]
    /\ UNCHANGED <<head, tail, length, next, value>>

Push(m) ==
    /\ out' = <<>>
    /\ IF AtCapacity
       THEN UNCHANGED <<ptrVars, next, value>>
       ELSE \E n \in Node \ Cells(head) :
              /\ value' = [value EXCEPT ![n] = m]
              /\ IF tail = nil
                 THEN /\ head' = n /\ inFlightEnd' = n
                      /\ next' = [next EXCEPT ![n] = nil]
                 ELSE /\ next' = [next EXCEPT ![n] = nil, ![tail] = n]
                      /\ inFlightEnd' = IF inFlightEnd = nil THEN n ELSE inFlightEnd
                      /\ UNCHANGED head
              /\ tail' = n
              /\ length' = length + 1

\* The cell before inFlightEnd; the code panics when the walk does not find it.
Predecessor ==
    CHOOSE p \in Cells(head) : next[p] = inFlightEnd

PushFront(m) ==
    /\ out' = <<>>
    /\ IF AtCapacity
       THEN UNCHANGED <<ptrVars, next, value>>
       ELSE \E n \in Node \ Cells(head) :
              /\ value' = [value EXCEPT ![n] = m]
              /\ inFlightEnd' = n
              /\ length' = length + 1
              /\ CASE head = nil ->
                        /\ head' = n /\ tail' = n
                        /\ next' = [next EXCEPT ![n] = nil]
                   [] head # nil /\ inFlightEnd = nil ->
                        /\ tail' = n
                        /\ next' = [next EXCEPT ![n] = nil, ![tail] = n]
                        /\ UNCHANGED head
                   [] head # nil /\ inFlightEnd = head ->
                        /\ head' = n
                        /\ next' = [next EXCEPT ![n] = head]
                        /\ UNCHANGED tail
                   [] OTHER ->
                        /\ next' = [next EXCEPT ![n] = inFlightEnd,
                                                ![Predecessor] = n]
                        /\ UNCHANGED <<head, tail>>

\* Mutant: Commit of the whole list leaves tail at a freed cell.
CommitKeepsTail ==
    /\ out' = <<>>
    /\ head' = inFlightEnd
    /\ length' = length - Len(ChainUpTo(head, inFlightEnd))
    /\ UNCHANGED <<tail, inFlightEnd, next, value>>

Commit ==
    /\ out' = <<>>
    /\ IF head = inFlightEnd
       THEN UNCHANGED <<ptrVars, next>>
       ELSE LET gone == ChainUpTo(head, inFlightEnd)
            IN  /\ next' = [n \in Node |-> IF \E i \in 1..Len(gone) : gone[i] = n
                                           THEN nil ELSE next[n]]
                /\ head' = inFlightEnd
                /\ tail' = IF inFlightEnd = nil THEN nil ELSE tail
                /\ length' = length - Len(gone)
                /\ UNCHANGED inFlightEnd
    /\ UNCHANGED value

\* Mutant: Rewind gives back the last message only.
RewindOne ==
    LET sent == ChainUpTo(head, inFlightEnd)
    IN  /\ out' = <<>>
        /\ inFlightEnd' = IF sent = <<>> THEN inFlightEnd ELSE sent[Len(sent)]
        /\ UNCHANGED <<head, tail, length, next, value>>

Rewind ==
    /\ out' = <<>>
    /\ inFlightEnd' = head
    /\ UNCHANGED <<head, tail, length, next, value>>

Remove(m) ==
    LET cells == Chain(head)
        hits  == {i \in 1..Len(cells) : value[cells[i]] = m}
    IN  IF hits = {}
        THEN out' = <<>> /\ UNCHANGED <<ptrVars, next, value>>
        ELSE LET i == CHOOSE h \in hits : \A j \in hits : h <= j
                 n == cells[i]
             IN  /\ out' = <<m>>
                 /\ head' = IF i = 1 THEN next[n] ELSE head
                 /\ next' = IF i = 1 THEN [next EXCEPT ![n] = nil]
                            ELSE [next EXCEPT ![n] = nil, ![cells[i-1]] = next[n]]
                 /\ tail' = IF n # tail THEN tail
                            ELSE IF i = 1 THEN nil ELSE cells[i-1]
                 /\ inFlightEnd' = IF n = inFlightEnd THEN next[n] ELSE inFlightEnd
                 /\ length' = length - 1
                 /\ UNCHANGED value

Clear ==
    /\ out' = Values(Chain(head))
    /\ next' = [n \in Node |-> IF n \in Cells(head) THEN nil ELSE next[n]]
    /\ head' = nil /\ tail' = nil /\ inFlightEnd' = nil
    /\ length' = 0
    /\ UNCHANGED value

Next ==
    \/ \E m \in Msg : Push(m) \/ PushFront(m) \/ Remove(m)
    \/ Peek \/ Commit \/ Rewind \/ Clear

Spec == Init /\ [][Next]_vars

-----------------------------------------------------------------------------
(***************************************************************************)
(* The pointers stay a proper list whatever order the methods are called   *)
(* in: no cycle, length counts the cells, tail is the last one, and        *)
(* inFlightEnd is nil or reachable from head (the invariant whose loss     *)
(* PushFront's panic at line 300 reports).                                 *)
(***************************************************************************)
ListWellFormed ==
    LET cells == Chain(head)
    IN  /\ Len(cells) <= Cardinality(Node)
        /\ length = Len(cells)
        /\ tail = IF cells = <<>> THEN nil ELSE cells[Len(cells)]
        /\ inFlightEnd \in Cells(head) \cup {nil}
        /\ Capacity > 0 => length <= Capacity

InFlight == Values(ChainUpTo(head, inFlightEnd))
Pending  == Values(Chain(inFlightEnd))

Queue == INSTANCE BatchQueue WITH inflight <- InFlight, pending <- Pending

(***************************************************************************)
(* The list implements the queue it stands for: each method changes the    *)
(* in-flight and pending regions, and returns, exactly as BatchQueue says, *)
(* so no message moves across the cursor, changes its order or disappears  *)
(* except where the abstract operation says so.                            *)
(***************************************************************************)
ImplementsBatchQueue == Queue!QueueSpec
=============================================================================
