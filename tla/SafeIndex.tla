------------------------------ MODULE SafeIndex ------------------------------
(***************************************************************************)
(* The two-slot register that safe_storage keeps for every serial in the   *)
(* index file (struct CSafeStorageIndexReg) and the three operations on    *)
(* it.  A register names up to two versions of a record: the newest one    *)
(* and the one before it, so that a writer can overwrite the older slot    *)
(* while committed readers still find the other.  Offsets are positions in *)
(* the data file: 0 is the hash record that opens every file and -1 means  *)
(* "no record".                                                            *)
(***************************************************************************)
EXTENDS Integers

Slot == {0, 1}

IndexReg == [Slot -> [offset : Int, sequence : Int, auto : BOOLEAN]]

(* A register that was never written: the zero bytes of a hole in the      *)
(* index file, for which readIndex returns a negative code.                *)
EmptyIndex == [i \in Slot |-> [offset |-> 0, sequence |-> 0, auto |-> FALSE]]

(* Mutant of NewestSlot: the comparison the wrong way round.               *)
NewestSlotSwapped(ix) == IF ix[1].sequence > ix[0].sequence THEN 0 ELSE 1

NewestSlot(ix) == IF ix[1].sequence > ix[0].sequence THEN 1 ELSE 0

(* Points the older slot at a new version.  init is what writeFiles passes *)
(* when the register could not be read.                                    *)
SetOldestOffset(ix, off, seq, auto, init) ==
    LET new == [offset |-> off, sequence |-> seq, auto |-> auto]
    IN  IF init
        THEN [i \in Slot |->
                 IF i = 0 THEN new
                          ELSE [offset |-> -1, sequence |-> 0, auto |-> FALSE]]
        ELSE [ix EXCEPT ![1 - NewestSlot(ix)] = new]

(* Overwrites the newest slot.  The code assigns the offset argument to    *)
(* the sequence too, so a rolled back slot has sequence -1.                *)
SetNewestOffset(ix, off, auto) ==
    [ix EXCEPT ![NewestSlot(ix)] =
        [offset |-> off, sequence |-> off, auto |-> auto]]

(* The slot may be returned to a reader whose state carries the last       *)
(* commit sequence lcs; a dirty reader takes anything.                     *)
Readable(slot, lcs, dirtyRead) ==
    slot.auto \/ slot.sequence <= lcs \/ dirtyRead

(* The loop over the two slots, unrolled: a slot replaces the one already  *)
(* taken when its sequence is not lower.                                   *)
GetLastOffset(ix, lcs, dirtyRead) ==
    LET first  == ix[0].sequence >= 0 /\ Readable(ix[0], lcs, dirtyRead)
        last   == IF first THEN ix[0].sequence ELSE 0
        second == ix[1].sequence >= last /\ Readable(ix[1], lcs, dirtyRead)
    IN  IF second THEN ix[1].offset
        ELSE IF first THEN ix[0].offset ELSE -1
=============================================================================
