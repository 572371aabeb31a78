------------------------------ MODULE MCFlush ------------------------------
(***************************************************************************)
(* FlushProtocol for TLC: the AgentSessions, and the messages that are no  *)
(* barriers, are interchangeable.                                          *)
(***************************************************************************)
EXTENDS FlushProtocol, TLC

Symmetry == Permutations(AS) \cup Permutations(Msg \ Barrier)
=============================================================================
