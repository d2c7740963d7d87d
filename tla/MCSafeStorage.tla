---------------------------- MODULE MCSafeStorage ----------------------------
(***************************************************************************)
(* Small instances of SafeStorage for TLC.                                 *)
(***************************************************************************)
EXTENDS SafeStorage, TLC

Symmetry == Permutations(Serials) \cup Permutations(Values)
=============================================================================
