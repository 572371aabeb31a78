--------------------------- MODULE MCMessageQueue ---------------------------
(***************************************************************************)
(* MessageQueue for TLC: the heap cells are interchangeable.               *)
(***************************************************************************)
EXTENDS MessageQueue, TLC

CellSymmetry == Permutations(Node)
=============================================================================
