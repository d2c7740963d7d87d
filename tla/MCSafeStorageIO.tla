--------------------------- MODULE MCSafeStorageIO ---------------------------
(***************************************************************************)
(* Small instances of SafeStorageIO for TLC.                               *)
(***************************************************************************)
EXTENDS SafeStorageIO, TLC

Symmetry == Permutations(Serials) \cup Permutations(Readers)
=============================================================================
