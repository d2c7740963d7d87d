---------------------------- MODULE MCSafeReplica ----------------------------
(***************************************************************************)
(* Small instances of SafeReplica for TLC.                                 *)
(***************************************************************************)
EXTENDS SafeReplica, TLC

Symmetry == Permutations(Serials) \cup Permutations(Values)
=============================================================================
