-------------------------- MODULE SafeFilesProofs --------------------------
(***************************************************************************)
(* Lemmas about the operators of SafeIndex and SafeFiles, which the proofs   *)
(* about all modules built from them have in common.                         *)
(*                                                                           *)
(* Registers: what writes, commits and rollbacks make of the index register  *)
(* of a serial. RegOK says which of the two slots a committed reader may     *)
(* take and which one a rollback leaves; the lemmas after it say what each   *)
(* operation on a register does to it and to what is read through it, by the *)
(* writer, by a reader with the current state, and by one whose state is     *)
(* older.                                                                    *)
(*                                                                           *)
(* Stores: writeFiles is a composition of small operators on a store, so     *)
(* what it preserves is stated on a store (StoreInv: its index and log name  *)
(* the records they should) and shown of each operator in turn, up to        *)
(* writeFiles as a whole (WriteFilesInv). The theorems that relate a state   *)
(* to the one before it need more: exactly what each operator does to each   *)
(* file and to the object (the lemmas named ...Effect).                      *)
(***************************************************************************)
EXTENDS SafeFiles, TLAPS

(***************************************************************************)
(* Registers.                                                                *)
(***************************************************************************)
(* The register of a serial that is dirty or not, when lcs is the last     *)
(* commit sequence and last the last sequence: the slot that is not the    *)
(* newest can always be read by a committed reader, the newest one unless  *)
(* the serial is dirty, and a rollback leaves the other slot the newest.   *)
RegOK(ix, lcs, last, dirty) ==
    \/ ix = EmptyIndex /\ ~dirty
    \/ LET n == NewestSlot(ix)
           o == 1 - n
       IN  /\ ix[n].sequence > ix[o].sequence
           /\ ix[n].sequence \in 0 .. last
           /\ Readable(ix[o], lcs, FALSE)
           /\ IF dirty THEN /\ ix[o].sequence >= 0
                            /\ ~Readable(ix[n], lcs, FALSE)
                       ELSE Readable(ix[n], lcs, FALSE)

(* Nothing is found through a register that was never written.             *)
LEMMA EmptyReg ==
    ASSUME NEW lcs \in Nat, NEW dirty \in BOOLEAN
    PROVE  GetLastOffset(EmptyIndex, lcs, dirty) = 0
  BY DEF GetLastOffset, EmptyIndex, Slot, Readable

(* Records that do not touch a register leave it in order.                 *)
LEMMA RegGrows ==
    ASSUME NEW ix \in IndexReg, NEW lcs \in Nat, NEW last \in Nat, NEW dirty \in BOOLEAN,
           RegOK(ix, lcs, last, dirty), NEW later \in Nat, last <= later
    PROVE  RegOK(ix, lcs, later, dirty)
<1>1. CASE dirty
  BY <1>1 DEF RegOK, IndexReg, Slot, NewestSlot, Readable
<1>2. CASE ~dirty
  BY <1>2 DEF RegOK, IndexReg, Slot, NewestSlot, Readable
<1> QED
  BY <1>1, <1>2

(* Of a serial that is not dirty the writer reads what is committed.       *)
LEMMA RegClean ==
    ASSUME NEW ix \in IndexReg, NEW lcs \in Nat, NEW last \in Nat,
           RegOK(ix, lcs, last, FALSE)
    PROVE  GetLastOffset(ix, lcs, TRUE) = GetLastOffset(ix, lcs, FALSE)
<1>1. CASE ix = EmptyIndex
  BY <1>1, EmptyReg
<1>2. CASE ix # EmptyIndex
  BY <1>2 DEF RegOK, GetLastOffset, IndexReg, Slot, NewestSlot, Readable
<1> QED
  BY <1>1, <1>2

(* A commit makes every reader find what the writer found.                 *)
LEMMA RegCommit ==
    ASSUME NEW ix \in IndexReg, NEW lcs \in Nat, NEW last \in Nat, NEW dirty \in BOOLEAN,
           RegOK(ix, lcs, last, dirty), NEW commit \in Nat, NEW later \in Nat,
           last <= commit, commit <= later, lcs <= last
    PROVE  /\ RegOK(ix, commit, later, FALSE)
           /\ GetLastOffset(ix, commit, FALSE) = GetLastOffset(ix, lcs, TRUE)
           /\ GetLastOffset(ix, commit, TRUE) = GetLastOffset(ix, lcs, TRUE)
<1>1. CASE ix = EmptyIndex
  BY <1>1, EmptyReg DEF RegOK
<1>2. CASE ix # EmptyIndex
  BY <1>2 DEF RegOK, GetLastOffset, IndexReg, Slot, NewestSlot, Readable
<1> QED
  BY <1>1, <1>2

(* A rollback makes the writer find what committed readers find, which     *)
(* stays the same.                                                         *)
LEMMA RegUndo ==
    ASSUME NEW ix \in IndexReg, NEW lcs \in Nat, NEW last \in Nat,
           RegOK(ix, lcs, last, TRUE)
    PROVE  LET new == SetNewestOffset(ix, -1, FALSE)
           IN  /\ RegOK(new, lcs, last, FALSE)
               /\ GetLastOffset(new, lcs, FALSE) = GetLastOffset(ix, lcs, FALSE)
               /\ GetLastOffset(new, lcs, TRUE) = GetLastOffset(ix, lcs, FALSE)
  BY DEF RegOK, GetLastOffset, IndexReg, Slot, NewestSlot, Readable,
       SetNewestOffset

(* new is the register ix after a write at the offset off in a transaction. *)
RegWritten(new, ix, lcs, last, off) ==
    /\ RegOK(new, lcs, last + 1, TRUE)
    /\ GetLastOffset(new, lcs, TRUE) = off
    /\ \/ GetLastOffset(new, lcs, FALSE) = GetLastOffset(ix, lcs, FALSE)
       \/ GetLastOffset(new, lcs, FALSE) = -1 /\ GetLastOffset(ix, lcs, FALSE) = 0

(* The same in auto-commit mode.                                           *)
RegAutoWritten(new, lcs, last, off) ==
    /\ RegOK(new, lcs, last + 1, FALSE)
    /\ GetLastOffset(new, lcs, TRUE) = off

(* A first write in a transaction makes a clean register a dirty one.      *)
LEMMA RegWrite ==
    ASSUME NEW ix \in IndexReg, NEW lcs \in Nat, NEW last \in Nat, lcs <= last,
           RegOK(ix, lcs, last, FALSE), NEW off \in Int
    PROVE  RegWritten(SetOldestOffset(ix, off, last + 1, FALSE, ix = EmptyIndex),
                      ix, lcs, last, off)
<1>1. CASE ix = EmptyIndex
  BY <1>1, EmptyReg DEF RegWritten, RegOK, GetLastOffset, IndexReg, Slot,
       NewestSlot, Readable, SetOldestOffset
<1>2. CASE ix # EmptyIndex
  BY <1>2 DEF RegWritten, RegOK, GetLastOffset, IndexReg, Slot,
       NewestSlot, Readable, SetOldestOffset
<1> QED
  BY <1>1, <1>2

(* A write in auto-commit mode makes a register clean, with the new        *)
(* version in front.                                                       *)
LEMMA RegAutoWrite ==
    ASSUME NEW ix \in IndexReg, NEW lcs \in Nat, NEW last \in Nat, lcs <= last,
           RegOK(ix, lcs, last, FALSE), NEW off \in Int
    PROVE  RegAutoWritten(SetOldestOffset(ix, off, last + 1, TRUE, ix = EmptyIndex),
                          lcs, last, off)
<1>1. CASE ix = EmptyIndex
  BY <1>1, EmptyReg DEF RegAutoWritten, RegOK, GetLastOffset, IndexReg,
       Slot, NewestSlot, Readable, SetOldestOffset
<1>2. CASE ix # EmptyIndex
  BY <1>2 DEF RegAutoWritten, RegOK, GetLastOffset, IndexReg, Slot,
       NewestSlot, Readable, SetOldestOffset
<1> QED
  BY <1>1, <1>2

(***************************************************************************)
(* A reader that has loaded an older state, with the last commit rl.       *)
(***************************************************************************)

(* What a read of the register new finds when it found old in ix: the same *)
(* version, or none.                                                       *)
SameOrNone(new, ix, rl) ==
    \/ GetLastOffset(new, rl, FALSE) = GetLastOffset(ix, rl, FALSE)
    \/ GetLastOffset(new, rl, FALSE) = -1

(* A reader with an older state finds after a write what it found before,  *)
(* or nothing: the older slot is gone.                                     *)
LEMMA RegWriteLate ==
    ASSUME NEW ix \in IndexReg, NEW lcs \in Nat, NEW last \in Nat, lcs <= last,
           RegOK(ix, lcs, last, FALSE), NEW off \in Int,
           NEW rl \in Nat, rl <= lcs
    PROVE  SameOrNone(SetOldestOffset(ix, off, last + 1, FALSE, ix = EmptyIndex),
                      ix, rl)
<1>1. CASE ix = EmptyIndex
  BY <1>1 DEF SameOrNone, EmptyIndex, GetLastOffset, Slot, Readable,
       SetOldestOffset
<1>2. CASE ix # EmptyIndex
  BY <1>2 DEF SameOrNone, RegOK, GetLastOffset, IndexReg, Slot, NewestSlot,
              Readable, SetOldestOffset
<1> QED
  BY <1>1, <1>2

(* Such a read finds the version at the offset off.                        *)
FoundAt(new, rl, off) == GetLastOffset(new, rl, FALSE) = off

(* A reader with an older state finds a version written in auto-commit     *)
(* mode at once.                                                           *)
LEMMA RegAutoWriteLate ==
    ASSUME NEW ix \in IndexReg, NEW lcs \in Nat, NEW last \in Nat, lcs <= last,
           RegOK(ix, lcs, last, FALSE), NEW off \in Int,
           NEW rl \in Nat, rl <= lcs
    PROVE  FoundAt(SetOldestOffset(ix, off, last + 1, TRUE, ix = EmptyIndex),
                   rl, off)
<1>1. CASE ix = EmptyIndex
  BY <1>1 DEF FoundAt, EmptyIndex, GetLastOffset, Slot, Readable,
       SetOldestOffset
<1>2. CASE ix # EmptyIndex
  BY <1>2 DEF FoundAt, RegOK, GetLastOffset, IndexReg, Slot, NewestSlot,
              Readable, SetOldestOffset
<1> QED
  BY <1>1, <1>2

(* A rollback changes nothing for readers with an older state.             *)
LEMMA RegUndoLate ==
    ASSUME NEW ix \in IndexReg, NEW lcs \in Nat, NEW last \in Nat,
           RegOK(ix, lcs, last, TRUE), NEW rl \in Nat, rl <= lcs
    PROVE  GetLastOffset(SetNewestOffset(ix, -1, FALSE), rl, FALSE)
              = GetLastOffset(ix, rl, FALSE)
  BY DEF RegOK, GetLastOffset, IndexReg, Slot, NewestSlot, Readable,
       SetNewestOffset

(***************************************************************************)
(* Lists of serials.                                                       *)
(***************************************************************************)
Distinct(list) == \A i, j \in DOMAIN list : list[i] = list[j] => i = j

(* addDirtySerial puts one serial on the list.                             *)
LEMMA ListedAppend ==
    ASSUME NEW list \in Seq(Serials), NEW s \in Serials, NEW t
    PROVE  Listed(Append(list, s), t) <=> Listed(list, t) \/ t = s
<1>1. /\ DOMAIN list = 1 .. Len(list) /\ Len(list) \in Nat
      /\ DOMAIN Append(list, s) = 1 .. Len(list) + 1
      /\ Append(list, s)[Len(list) + 1] = s
      /\ \A i \in 1 .. Len(list) : Append(list, s)[i] = list[i]
  OBVIOUS
<1>2. ASSUME Listed(Append(list, s), t) PROVE Listed(list, t) \/ t = s
  BY <1>1, <1>2 DEF Listed
<1>3. ASSUME Listed(list, t) PROVE Listed(Append(list, s), t)
  BY <1>1, <1>3 DEF Listed
<1>4. ASSUME t = s PROVE Listed(Append(list, s), t)
  <2>1. Len(list) + 1 \in DOMAIN Append(list, s)
    BY <1>1
  <2> QED
    BY <1>1, <1>4, <2>1 DEF Listed
<1> QED
  BY <1>2, <1>3, <1>4

(* The list of dirty serials repeats none as long as only new ones are     *)
(* added.                                                                  *)
LEMMA DistinctAppend ==
    ASSUME NEW list \in Seq(Serials), NEW s \in Serials, Distinct(list), ~Listed(list, s)
    PROVE  Distinct(Append(list, s))
<1>1. /\ DOMAIN list = 1 .. Len(list) /\ Len(list) \in Nat
      /\ DOMAIN Append(list, s) = 1 .. Len(list) + 1
      /\ Append(list, s)[Len(list) + 1] = s
      /\ \A i \in 1 .. Len(list) : Append(list, s)[i] = list[i]
  OBVIOUS
<1>2. \A i \in 1 .. Len(list) : list[i] # s
  BY <1>1 DEF Listed
<1> QED
  BY <1>1, <1>2 DEF Distinct

(* A rollback that has undone the first serial of its list has the others  *)
(* left.                                                                   *)
LEMMA TailListed ==
    ASSUME NEW list \in Seq(Serials), list # << >>, Distinct(list), NEW t
    PROVE  /\ Tail(list) \in Seq(Serials) /\ Distinct(Tail(list))
           /\ Listed(Tail(list), t) <=> Listed(list, t) /\ t # Head(list)
           /\ Head(list) \in Serials /\ Listed(list, Head(list))
<1>1. PICK n : n = Len(list)
  OBVIOUS
<1>2. /\ n \in Nat /\ n > 0 /\ DOMAIN list = 1 .. n
      /\ Tail(list) \in Seq(Serials)
      /\ DOMAIN Tail(list) = 1 .. n - 1
      /\ \A i \in 1 .. n - 1 : Tail(list)[i] = list[i + 1]
      /\ Head(list) = list[1]
  BY <1>1
<1>3. PICK tl \in Seq(Serials) : tl = Tail(list)
  BY <1>2
<1>4. Distinct(tl)
  BY <1>2, <1>3 DEF Distinct
<1>5. Listed(tl, t) => Listed(list, t) /\ t # Head(list)
  BY <1>2, <1>3 DEF Listed, Distinct
<1>6. Listed(list, t) /\ t # Head(list) => Listed(tl, t)
  <2> SUFFICES ASSUME Listed(list, t), t # list[1] PROVE Listed(tl, t)
    BY <1>2
  <2>1. PICK i \in 1 .. n : list[i] = t
    BY <1>2 DEF Listed
  <2>2. i - 1 \in 1 .. n - 1 /\ (i - 1) + 1 = i
    BY <1>2, <2>1
  <2>3. i - 1 \in DOMAIN tl /\ tl[i - 1] = t
    BY <1>2, <1>3, <2>1, <2>2
  <2> QED
    BY <2>3 DEF Listed
<1>7. Head(list) \in Serials /\ Listed(list, Head(list))
  BY <1>2 DEF Listed
<1> QED
  BY <1>3, <1>4, <1>5, <1>6, <1>7

(***************************************************************************)
(* Records.                                                                *)
(***************************************************************************)
LEMMA MarkRegType ==
    ASSUME NEW type \in RecordTypes, NEW seq \in Int, NEW list \in Seq(Serials)
    PROVE  /\ MarkReg(type, seq, list) \in DataReg
           /\ MarkReg(type, seq, list).type = type
           /\ MarkReg(type, seq, list).serial = NoSerial
           /\ MarkReg(type, seq, list).sequence = seq
           /\ MarkReg(type, seq, list).serials = list
  BY DEF MarkReg, DataReg

(* The record that write() makes.                                          *)
LEMMA WriteRegType ==
    ASSUME NEW s \in Serials, NEW seq \in Int, NEW auto \in BOOLEAN,
           NEW v \in Values
    PROVE  /\ WriteReg(s, seq, auto, v) \in DataReg
           /\ WriteReg(s, seq, auto, v).type = "WRITE"
           /\ WriteReg(s, seq, auto, v).serial = s
           /\ WriteReg(s, seq, auto, v).sequence = seq
<1>1. << >> \in Seq(Serials)
  OBVIOUS
<1> QED
  BY <1>1 DEF WriteReg, DataReg, RecordTypes

(***************************************************************************)
(* Stores.                                                                   *)
(***************************************************************************)
(* Log files have an entry for some sequences; stores hold the four files  *)
(* and the object.                                                         *)
LogFile == UNION {[D -> LogReg] : D \in SUBSET Int}

Stores == [fdata  : Seq(DataReg),
           findex : [Serials -> IndexReg],
           flog   : LogFile,
           fstate : State,
           state  : State,
           dirty  : Seq(Serials),
           auto   : BOOLEAN]

(* The slot of serial s names the record it should, in data file fd.       *)
SlotNamed(fd, s, slot) ==
    slot.offset > 0 =>
        /\ slot.offset \in 1 .. Len(fd)
        /\ fd[slot.offset].type = "WRITE"
        /\ fd[slot.offset].serial = s
        /\ fd[slot.offset].sequence = slot.sequence
        /\ fd[slot.offset].auto = slot.auto

(* The log entry of sequence q names the record it should.                 *)
EntryNamed(fd, q, e) ==
    e.offset > 0 =>
        /\ e.offset \in 1 .. Len(fd)
        /\ fd[e.offset].sequence = q
        /\ fd[e.offset].type = e.type
        /\ fd[e.offset].serial = e.serial

(* A good store: well typed, and its index and log name their records.     *)
StoreInv(st) ==
    /\ st \in Stores
    /\ \A s \in Serials, i \in Slot : SlotNamed(st.fdata, s, st.findex[s][i])
    /\ \A q \in DOMAIN st.flog : EntryNamed(st.fdata, q, st.flog[q])

(***************************************************************************)
(* The operators that change one file or one part of the object.           *)
(***************************************************************************)

(* An append leaves the records before it where they are.                  *)
LEMMA WriteDataInv ==
    ASSUME NEW st, StoreInv(st), NEW r \in DataReg, NEW ok \in BOOLEAN
    PROVE  /\ StoreInv(WriteData(st, r, ok))
           /\ WriteData(st, r, ok) =
                 [st EXCEPT !.fdata = IF ok THEN Append(st.fdata, r) ELSE @]
           /\ ok => /\ Len(WriteData(st, r, ok).fdata) = Len(st.fdata) + 1
                    /\ Len(WriteData(st, r, ok).fdata) > 0
                    /\ WriteData(st, r, ok).fdata[Len(st.fdata) + 1] = r
<1> DEFINE w == WriteData(st, r, ok)
<1>0. st \in Stores /\ st.fdata \in Seq(DataReg) /\ Len(st.fdata) \in Nat
  BY DEF StoreInv, Stores
<1>1. CASE ~ok
  <2>1. w = st
    BY <1>1 DEF WriteData
  <2>2. st = [st EXCEPT !.fdata = st.fdata]
    BY <1>0 DEF Stores
  <2> QED
    BY <1>1, <2>1, <2>2
<1>2. CASE ok
  <2>1. w = [st EXCEPT !.fdata = Append(st.fdata, r)]
    BY <1>2 DEF WriteData
  <2>2. /\ w \in Stores
        /\ w.fdata = Append(st.fdata, r)
        /\ w.findex = st.findex
        /\ w.flog = st.flog
    <3>1. Append(st.fdata, r) \in Seq(DataReg)
      BY <1>0
    <3> QED
      BY <1>0, <2>1, <3>1 DEF Stores
  <2>3. /\ Len(w.fdata) = Len(st.fdata) + 1
        /\ w.fdata[Len(st.fdata) + 1] = r
        /\ \A k \in 1 .. Len(st.fdata) : w.fdata[k] = st.fdata[k]
    BY <1>0, <2>2
  <2>4. ASSUME NEW s \in Serials, NEW i \in Slot
        PROVE  SlotNamed(w.fdata, s, w.findex[s][i])
    <3>1. SlotNamed(st.fdata, s, st.findex[s][i])
      BY DEF StoreInv
    <3>2. PICK fd : fd = w.fdata
      OBVIOUS
    <3>3. /\ w.findex[s][i] = st.findex[s][i] /\ Len(fd) = Len(st.fdata) + 1
          /\ \A k \in 1 .. Len(st.fdata) : fd[k] = st.fdata[k]
      BY <2>2, <2>3, <3>2
    <3> HIDE DEF w
    <3>4. SlotNamed(fd, s, st.findex[s][i])
      BY <1>0, <3>1, <3>3, SMTT(40) DEF SlotNamed
    <3> QED
      BY <3>2, <3>3, <3>4
  <2>5. ASSUME NEW q \in DOMAIN w.flog
        PROVE  EntryNamed(w.fdata, q, w.flog[q])
    <3>1. EntryNamed(st.fdata, q, st.flog[q])
      BY <2>2 DEF StoreInv
    <3> QED
      BY <1>0, <2>2, <2>3, <3>1 DEF EntryNamed
  <2>6. StoreInv(w)
    BY <2>2, <2>4, <2>5 DEF StoreInv
  <2>7. w = [st EXCEPT !.fdata = IF ok THEN Append(st.fdata, r) ELSE @]
    BY <1>2, <2>1
  <2>8. Len(w.fdata) > 0
    BY <1>0, <2>3
  <2> QED
    BY <2>3, <2>6, <2>7, <2>8
<1> QED
  BY <1>1, <1>2

(* Saving the state, counting a record and the other changes of the object *)
(* touch neither the data, nor the index, nor the log.                     *)
LEMMA SameFilesInv ==
    ASSUME NEW st, StoreInv(st), NEW new \in Stores,
           new.fdata = st.fdata, new.findex = st.findex, new.flog = st.flog
    PROVE  StoreInv(new)
  BY DEF StoreInv

(* saveState keeps a store good.                                           *)
LEMMA SaveStateInv ==
    ASSUME NEW st, StoreInv(st)
    PROVE  StoreInv(SaveState(st)) /\ SaveState(st).fdata = st.fdata
<1> DEFINE new == SaveState(st)
<1>1. st \in Stores
  BY DEF StoreInv
<1>2. /\ new \in Stores
      /\ new.fdata = st.fdata /\ new.findex = st.findex /\ new.flog = st.flog
  BY <1>1 DEF SaveState, Stores
<1> QED
  BY <1>2, SameFilesInv

(* Counting a record changes the state only.                               *)
LEMMA CountRecordInv ==
    ASSUME NEW st, StoreInv(st), NEW seq \in Int
    PROVE  /\ StoreInv(CountRecord(st, seq))
           /\ CountRecord(st, seq).fdata = st.fdata
           /\ CountRecord(st, seq).findex = st.findex
           /\ CountRecord(st, seq).state.last_sequence = seq
<1> DEFINE new == CountRecord(st, seq)
<1>1. st \in Stores
  BY DEF StoreInv
<1>2. /\ new \in Stores
      /\ new.fdata = st.fdata /\ new.findex = st.findex /\ new.flog = st.flog
  <2> DEFINE s1 == [st.state EXCEPT !.count = @ + 1]
             s2 == [s1 EXCEPT !.last_sequence = seq]
  <2>1. st.state \in State
    BY <1>1 DEF Stores
  <2>0. s1 \in State
    BY <2>1 DEF State
  <2>2. s2 \in State
    <3> HIDE DEF s1
    <3> QED
      BY <2>0 DEF State
  <2>3. new = [st EXCEPT !.state = s2]
    BY <1>1, <2>1 DEF CountRecord, Stores, State
  <2> QED
    BY <1>1, <2>2, <2>3 DEF Stores
<1>3. new.state.last_sequence = seq
  BY <1>1 DEF CountRecord, Stores, State
<1> QED
  BY <1>2, <1>3, SameFilesInv

(* The list of dirty serials is no part of what the files say.             *)
LEMMA DirtyInv ==
    ASSUME NEW st, StoreInv(st), NEW s \in Serials
    PROVE  /\ StoreInv(AddDirtySerial(st, s))
           /\ AddDirtySerial(st, s).fdata = st.fdata
           /\ StoreInv(ClearDirtySerials(st))
<1> DEFINE add == AddDirtySerial(st, s)
           clr == ClearDirtySerials(st)
<1>1. st \in Stores
  BY DEF StoreInv
<1>2. /\ add \in Stores
      /\ add.fdata = st.fdata /\ add.findex = st.findex /\ add.flog = st.flog
  <2>1. st.dirty \in Seq(Serials)
    BY <1>1 DEF Stores
  <2>2. Append(st.dirty, s) \in Seq(Serials)
    BY <2>1
  <2> QED
    BY <1>1, <2>2 DEF AddDirtySerial, Stores
<1>3. /\ clr \in Stores
      /\ clr.fdata = st.fdata /\ clr.findex = st.findex /\ clr.flog = st.flog
  <2>1. << >> \in Seq(Serials)
    OBVIOUS
  <2> QED
    BY <1>1, <2>1 DEF ClearDirtySerials, Stores
<1> QED
  BY <1>2, <1>3, SameFilesInv

(* A log entry may be written if it names its record or no record.         *)
LEMMA WriteLogInv ==
    ASSUME NEW st, StoreInv(st), NEW seq \in Int, NEW offset \in Int,
           NEW serial \in Serials \cup {NoSerial}, NEW type \in RecordTypes,
           EntryNamed(st.fdata, seq,
                      [offset |-> offset, serial |-> serial, type |-> type])
    PROVE  StoreInv(WriteLog(st, seq, offset, serial, type))
<1> DEFINE e   == [offset |-> offset, serial |-> serial, type |-> type]
           new == WriteLog(st, seq, offset, serial, type)
           lg  == [q \in DOMAIN st.flog \cup {seq} |->
                      IF q = seq THEN e ELSE st.flog[q]]
<1>1. st \in Stores
  BY DEF StoreInv
<1>2. PICK D \in SUBSET Int : st.flog \in [D -> LogReg]
  BY <1>1 DEF Stores, LogFile
<1>3. lg \in [D \cup {seq} -> LogReg] /\ D \cup {seq} \in SUBSET Int
  BY <1>2 DEF LogReg
<1>4. lg \in LogFile
  BY <1>3 DEF LogFile
<1>5. new = [st EXCEPT !.flog = lg]
  BY DEF WriteLog
<1>6. /\ new \in Stores
      /\ new.fdata = st.fdata /\ new.findex = st.findex /\ new.flog = lg
  BY <1>1, <1>4, <1>5 DEF Stores
<1>7. ASSUME NEW q \in DOMAIN new.flog
      PROVE  EntryNamed(new.fdata, q, new.flog[q])
  <2>1. CASE q = seq
    BY <1>6, <2>1
  <2>2. CASE q # seq
    <3>1. q \in DOMAIN st.flog /\ new.flog[q] = st.flog[q]
      BY <1>6, <2>2
    <3> QED
      BY <1>6, <3>1 DEF StoreInv
  <2> QED
    BY <2>1, <2>2
<1> QED
  BY <1>6, <1>7 DEF StoreInv

(* A register may be written if its slots name their records.              *)
LEMMA WriteIndexInv ==
    ASSUME NEW st, StoreInv(st), NEW s \in Serials, NEW ix \in IndexReg,
           \A i \in Slot : SlotNamed(st.fdata, s, ix[i])
    PROVE  StoreInv(WriteIndex(st, s, ix))
<1> DEFINE new == WriteIndex(st, s, ix)
<1>1. st \in Stores
  BY DEF StoreInv
<1>2. /\ new \in Stores
      /\ new.fdata = st.fdata /\ new.flog = st.flog
      /\ new.findex = [st.findex EXCEPT ![s] = ix]
  BY <1>1 DEF WriteIndex, Stores
<1>3. ASSUME NEW t \in Serials, NEW i \in Slot
      PROVE  SlotNamed(new.fdata, t, new.findex[t][i])
  <2>1. CASE t = s
    BY <1>1, <1>2, <2>1 DEF Stores
  <2>2. CASE t # s
    BY <1>1, <1>2, <2>2 DEF Stores, StoreInv
  <2> QED
    BY <2>1, <2>2
<1> QED
  BY <1>2, <1>3 DEF StoreInv

(***************************************************************************)
(* The registers of the index.                                             *)
(***************************************************************************)

(* Overwriting the older slot leaves the other one as it was.              *)
LEMMA SetOldestOffsetSlots ==
    ASSUME NEW ix \in IndexReg, NEW off \in Int, NEW seq \in Int,
           NEW auto \in BOOLEAN, NEW init \in BOOLEAN
    PROVE  LET new == SetOldestOffset(ix, off, seq, auto, init)
           IN  /\ new \in IndexReg
               /\ \A i \in Slot :
                     \/ new[i] = [offset |-> off, sequence |-> seq, auto |-> auto]
                     \/ new[i].offset = -1
                     \/ new[i] = ix[i]
  BY DEF SetOldestOffset, IndexReg, Slot, NewestSlot

(* Overwriting the newest slot with -1 leaves the other one as it was.     *)
LEMMA SetNewestOffsetSlots ==
    ASSUME NEW ix \in IndexReg
    PROVE  LET new == SetNewestOffset(ix, -1, FALSE)
           IN  /\ new \in IndexReg
               /\ \A i \in Slot : new[i].offset = -1 \/ new[i] = ix[i]
  BY DEF SetNewestOffset, IndexReg, Slot, NewestSlot

(* A rollback makes offsets -1, and touches no other slot.                 *)
LEMMA UndoIndexSlots ==
    ASSUME NEW ix \in IndexReg, NEW list, NEW s
    PROVE  /\ UndoIndex(ix, list, s) \in IndexReg
           /\ \A i \in Slot : \/ UndoIndex(ix, list, s)[i].offset = -1
                              \/ UndoIndex(ix, list, s)[i] = ix[i]
<1> DEFINE once  == SetNewestOffset(ix, -1, FALSE)
           twice == SetNewestOffset(once, -1, FALSE)
<1>1. /\ once \in IndexReg
      /\ \A i \in Slot : once[i].offset = -1 \/ once[i] = ix[i]
  BY SetNewestOffsetSlots
<1>2. /\ twice \in IndexReg
      /\ \A i \in Slot : twice[i].offset = -1 \/ twice[i] = once[i]
  <2> HIDE DEF once
  <2> QED
    BY <1>1, SetNewestOffsetSlots
<1>3. UndoIndex(ix, list, s) \in {ix, once, twice}
  BY DEF UndoIndex
<1> HIDE DEF once, twice
<1> QED
  BY <1>1, <1>2, <1>3

(***************************************************************************)
(* writeFiles.                                                             *)
(***************************************************************************)

(* The offset that writeData returns names the record just written.        *)
LEMMA DataOffsetNamed ==
    ASSUME NEW st, StoreInv(st), NEW r \in DataReg, NEW ok \in BOOLEAN
    PROVE  LET w   == WriteData(st, r, ok)
               off == DataOffset(w, ok)
           IN  /\ off \in Int
               /\ EntryNamed(w.fdata, r.sequence,
                     [offset |-> off, serial |-> r.serial, type |-> r.type])
               /\ r.type = "WRITE" =>
                     SlotNamed(w.fdata, r.serial,
                        [offset |-> off, sequence |-> r.sequence, auto |-> r.auto])
<1> DEFINE w   == WriteData(st, r, ok)
           off == DataOffset(w, ok)
<1> SUFFICES
        /\ off \in Int
        /\ EntryNamed(w.fdata, r.sequence,
              [offset |-> off, serial |-> r.serial, type |-> r.type])
        /\ r.type = "WRITE" =>
              SlotNamed(w.fdata, r.serial,
                 [offset |-> off, sequence |-> r.sequence, auto |-> r.auto])
  OBVIOUS
<1>1. CASE ok
  <2>1. /\ Len(w.fdata) = Len(st.fdata) + 1
        /\ Len(w.fdata) > 0
        /\ w.fdata[Len(st.fdata) + 1] = r
    BY <1>1, WriteDataInv
  <2>2. off = Len(w.fdata)
    BY <1>1 DEF DataOffset
  <2>3. Len(w.fdata) \in Nat
    <3>1. StoreInv(w)
      BY WriteDataInv
    <3>2. w.fdata \in Seq(DataReg)
      BY <3>1 DEF StoreInv, Stores
    <3> QED
      BY <3>2
  <2>4. off \in Int /\ off \in 1 .. Len(w.fdata) /\ w.fdata[off] = r
    <3> HIDE DEF w, off
    <3> QED
      BY <2>1, <2>2, <2>3
  <2> HIDE DEF w, off
  <2> QED
    BY <2>4 DEF EntryNamed, SlotNamed
<1>2. CASE ~ok
  <2>1. off = -1
    BY <1>2 DEF DataOffset
  <2> HIDE DEF w, off
  <2> QED
    BY <2>1 DEF EntryNamed, SlotNamed
<1>3. QED
  BY <1>1, <1>2

(* A STATUS record is appended, logged and followed by a save of the       *)
(* state.                                                                  *)
LEMMA StatusSnapshotInv ==
    ASSUME NEW st, StoreInv(st), NEW ok \in BOOLEAN
    PROVE  StoreInv(StatusSnapshot(st, ok))
<1> DEFINE seq == st.state.last_sequence + 1
           c   == CountRecord(st, seq)
           m   == MarkReg("STATUS", seq, << >>)
           w   == WriteData(c, m, ok)
           lg  == WriteLog(w, seq, DataOffset(w, ok), NoSerial, "STATUS")
<1>1. seq \in Int
  BY DEF StoreInv, Stores, State
<1>2. StoreInv(c)
  BY <1>1, CountRecordInv
<1>3. /\ m \in DataReg /\ m.sequence = seq
      /\ m.serial = NoSerial /\ m.type = "STATUS"
  <2>1. << >> \in Seq(Serials) /\ "STATUS" \in RecordTypes
    BY DEF RecordTypes
  <2> HIDE DEF seq
  <2> QED
    BY <1>1, <2>1 DEF MarkReg, DataReg
<1>4. StoreInv(w)
  <2> HIDE DEF c, m
  <2> QED
    BY <1>2, <1>3, WriteDataInv
<1>5. /\ DataOffset(w, ok) \in Int
      /\ EntryNamed(w.fdata, seq, [offset |-> DataOffset(w, ok),
                                   serial |-> NoSerial, type |-> "STATUS"])
  <2> HIDE DEF c, m, seq
  <2> QED
    BY <1>2, <1>3, DataOffsetNamed
<1>6. StoreInv(lg)
  <2> HIDE DEF w, seq
  <2>1. "STATUS" \in RecordTypes
    BY DEF RecordTypes
  <2> QED
    BY <1>1, <1>4, <1>5, <2>1, WriteLogInv
<1>7. StoreInv(SaveState(lg))
  <2> HIDE DEF lg
  <2> QED
    BY <1>6, SaveStateInv
<1>8. StatusSnapshot(st, ok) \in {st, SaveState(lg)}
  BY DEF StatusSnapshot
<1> QED
  BY <1>7, <1>8

(* A WRITE puts its offset into the log and into the oldest slot of its    *)
(* serial.                                                                 *)
LEMMA ApplyWriteInv ==
    ASSUME NEW st, StoreInv(st), NEW r \in DataReg, r.type = "WRITE",
           r.serial \in Serials, NEW ok \in BOOLEAN
    PROVE  StoreInv(ApplyWrite(st, r, ok))
<1> DEFINE c   == [st EXCEPT !.state.data_count = @ + 1]
           w   == WriteData(c, r, ok)
           off == DataOffset(w, ok)
           old == st.findex[r.serial]
           ini == old = EmptyIndex
           ix  == SetOldestOffset(old, off, r.sequence, r.auto, ini)
           ad  == AddDirtySerial(w, r.serial)
           sv  == SaveState(ad)
           lg  == WriteLog(sv, r.sequence, off, r.serial, r.type)
           wi  == WriteIndex(lg, r.serial, ix)
<1>0. st \in Stores /\ r.sequence \in Int /\ r.auto \in BOOLEAN
  BY DEF StoreInv, DataReg
<1>1. StoreInv(c) /\ c.findex = st.findex
  <2> DEFINE s1 == [st.state EXCEPT !.data_count = @ + 1]
  <2>1. s1 \in State
    <3>1. st.state \in State
      BY <1>0 DEF Stores
    <3> QED
      BY <3>1 DEF State
  <2>2. c = [st EXCEPT !.state = s1]
    BY <1>0 DEF Stores, State
  <2>3. /\ c \in Stores
        /\ c.fdata = st.fdata /\ c.findex = st.findex /\ c.flog = st.flog
    BY <1>0, <2>1, <2>2 DEF Stores
  <2> HIDE DEF c
  <2> QED
    BY <2>3, SameFilesInv
<1>2. StoreInv(w) /\ w.findex = c.findex
  <2> HIDE DEF c
  <2>1. StoreInv(w) /\ w = [c EXCEPT !.fdata = IF ok THEN Append(c.fdata, r) ELSE @]
    BY <1>1, WriteDataInv
  <2>2. c \in Stores
    BY <1>1 DEF StoreInv
  <2> QED
    BY <2>1, <2>2 DEF Stores
<1>3. /\ off \in Int
      /\ EntryNamed(w.fdata, r.sequence,
            [offset |-> off, serial |-> r.serial, type |-> r.type])
      /\ SlotNamed(w.fdata, r.serial,
            [offset |-> off, sequence |-> r.sequence, auto |-> r.auto])
  <2> HIDE DEF c
  <2> QED
    BY <1>1, DataOffsetNamed
<1> HIDE DEF c, w, off
<1>4. StoreInv(ad) /\ ad.fdata = w.fdata
  BY <1>2, DirtyInv
<1>5. StoreInv(sv) /\ sv.fdata = w.fdata
  <2> HIDE DEF ad
  <2> QED
    BY <1>4, SaveStateInv
<1>6. StoreInv(lg) /\ lg.fdata = w.fdata
  <2> HIDE DEF sv
  <2>1. r.serial \in Serials \cup {NoSerial} /\ r.type \in RecordTypes
    BY DEF DataReg
  <2>2. StoreInv(lg)
    BY <1>0, <1>3, <1>5, <2>1, WriteLogInv
  <2>3. lg.fdata = sv.fdata
    BY <1>5 DEF WriteLog, StoreInv, Stores
  <2> QED
    BY <1>5, <2>2, <2>3
<1>7. /\ ix \in IndexReg
      /\ \A i \in Slot :
            \/ ix[i] = [offset |-> off, sequence |-> r.sequence, auto |-> r.auto]
            \/ ix[i].offset = -1
            \/ ix[i] = old[i]
  <2>1. old \in IndexReg /\ ini \in BOOLEAN
    BY <1>0 DEF Stores
  <2> HIDE DEF old, ini
  <2> QED
    BY <1>0, <1>3, <2>1, SetOldestOffsetSlots
<1>8. \A i \in Slot : SlotNamed(w.fdata, r.serial, ix[i])
  <2> SUFFICES ASSUME NEW i \in Slot PROVE SlotNamed(w.fdata, r.serial, ix[i])
    BY Zenon
  <2>1. SlotNamed(w.fdata, r.serial, old[i])
    BY <1>1, <1>2 DEF StoreInv
  <2>2. CASE ix[i].offset = -1
    <3> HIDE DEF ix
    <3> QED
      BY <2>2 DEF SlotNamed
  <2> HIDE DEF ix
  <2> QED
    BY <1>3, <1>7, <2>1, <2>2
<1>9. StoreInv(wi)
  <2> HIDE DEF lg, ix
  <2> QED
    BY <1>6, <1>7, <1>8, WriteIndexInv
<1>10. ApplyWrite(st, r, ok) \in {wi, w}
  BY DEF ApplyWrite, c, w, off
<1> QED
  BY <1>2, <1>9, <1>10

(* The records of a rollback are logged with offset 0.                     *)
LEMMA LogZeroInv ==
    ASSUME NEW st, StoreInv(st), NEW r \in DataReg, NEW ok \in BOOLEAN
    PROVE  LET lg == WriteLog(WriteData(st, r, ok), st.state.last_sequence, 0,
                              r.serial, r.type)
           IN  StoreInv(lg) /\ lg.findex = st.findex
<1> DEFINE w  == WriteData(st, r, ok)
           q  == st.state.last_sequence
           lg == WriteLog(w, q, 0, r.serial, r.type)
<1>1. StoreInv(w) /\ w = [st EXCEPT !.fdata = IF ok THEN Append(st.fdata, r) ELSE @]
  BY WriteDataInv
<1>2. w.findex = st.findex
  BY <1>1 DEF StoreInv, Stores
<1>3. /\ q \in Int /\ 0 \in Int
      /\ r.serial \in Serials \cup {NoSerial} /\ r.type \in RecordTypes
  BY DEF StoreInv, Stores, State, DataReg
<1>4. EntryNamed(w.fdata, q,
                 [offset |-> 0, serial |-> r.serial, type |-> r.type])
  BY DEF EntryNamed
<1> HIDE DEF w, q
<1>5. StoreInv(lg)
  BY <1>1, <1>3, <1>4, WriteLogInv
<1>6. lg.findex = w.findex
  BY <1>1 DEF WriteLog, StoreInv, Stores
<1> QED
  BY <1>2, <1>5, <1>6 DEF w, q

(* The two records of a rollback.                                          *)
LEMMA ApplyRollbackInv ==
    ASSUME NEW st, StoreInv(st), NEW r \in DataReg, NEW ok \in BOOLEAN
    PROVE  /\ StoreInv(ApplyRollbackBegin(st, r, ok))
           /\ StoreInv(ApplyRollbackEnd(st, r, ok))
<1> DEFINE lg  == WriteLog(WriteData(st, r, ok), st.state.last_sequence, 0,
                           r.serial, r.type)
           idx == [s \in Serials |-> UndoIndex(lg.findex[s], r.serials, s)]
           new == [lg EXCEPT !.findex = idx]
<1>1. StoreInv(lg)
  BY LogZeroInv
<1>2. ApplyRollbackBegin(st, r, ok) = new /\ ApplyRollbackEnd(st, r, ok) = lg
  BY DEF ApplyRollbackBegin, ApplyRollbackEnd
<1> HIDE DEF lg
<1>3. lg \in Stores /\ \A s \in Serials : lg.findex[s] \in IndexReg
  BY <1>1 DEF StoreInv, Stores
<1>4. idx \in [Serials -> IndexReg]
  BY <1>3, UndoIndexSlots
<1>5. /\ new \in Stores
      /\ new.fdata = lg.fdata /\ new.flog = lg.flog /\ new.findex = idx
  <2> HIDE DEF idx
  <2> QED
    BY <1>3, <1>4 DEF Stores
<1>6. ASSUME NEW s \in Serials, NEW i \in Slot
      PROVE  SlotNamed(new.fdata, s, new.findex[s][i])
  <2>1. SlotNamed(lg.fdata, s, lg.findex[s][i])
    BY <1>1 DEF StoreInv
  <2>2. idx[s][i].offset = -1 \/ idx[s][i] = lg.findex[s][i]
    BY <1>3, UndoIndexSlots
  <2> HIDE DEF new, idx
  <2>3. CASE idx[s][i].offset = -1
    BY <1>5, <2>3 DEF SlotNamed
  <2>4. CASE idx[s][i] = lg.findex[s][i]
    BY <1>5, <2>1, <2>4
  <2> QED
    BY <2>2, <2>3, <2>4
<1>7. StoreInv(new)
  <2> HIDE DEF new
  <2> QED
    BY <1>1, <1>5, <1>6 DEF StoreInv
<1> QED
  BY <1>1, <1>2, <1>7

(* A COMMIT is logged with the sequence that it has been counted with.     *)
LEMMA ApplyCommitInv ==
    ASSUME NEW st, StoreInv(st), NEW r \in DataReg, NEW ok \in BOOLEAN,
           st.state.last_sequence = r.sequence
    PROVE  StoreInv(ApplyCommit(st, r, ok))
<1> DEFINE w   == WriteData(st, r, ok)
           off == DataOffset(w, ok)
           s1  == [w.state EXCEPT !.commit_count = @ + 1]
           s2  == [s1 EXCEPT !.last_commit_sequence = r.sequence]
           c   == [w EXCEPT !.state = s2]
           lg  == WriteLog(c, r.sequence, off, r.serial, r.type)
<1>1. /\ r.sequence \in Int
      /\ r.serial \in Serials \cup {NoSerial} /\ r.type \in RecordTypes
  BY DEF DataReg
<1>2. StoreInv(w)
  BY WriteDataInv
<1>3. /\ off \in Int
      /\ EntryNamed(w.fdata, r.sequence,
            [offset |-> off, serial |-> r.serial, type |-> r.type])
  BY DataOffsetNamed
<1>4. ApplyCommit(st, r, ok) = lg
  <2> HIDE DEF w, off
  <2>1. w \in Stores
    BY <1>2 DEF StoreInv
  <2>2. [w EXCEPT !.state.commit_count = @ + 1,
                  !.state.last_commit_sequence = r.sequence] = c
    BY <2>1 DEF Stores, State
  <2> QED
    BY <2>2 DEF ApplyCommit, w, off
<1> HIDE DEF w, off
<1>5. w \in Stores
  BY <1>2 DEF StoreInv
<1>6. s1 \in State
  <2>1. w.state \in State
    BY <1>5 DEF Stores
  <2> QED
    BY <2>1 DEF State
<1>7. s2 \in State
  <2> HIDE DEF s1
  <2> QED
    BY <1>1, <1>6 DEF State
<1>8. StoreInv(c) /\ c.fdata = w.fdata
  <2> HIDE DEF s2
  <2>1. /\ c \in Stores
        /\ c.fdata = w.fdata /\ c.findex = w.findex /\ c.flog = w.flog
    BY <1>5, <1>7 DEF Stores
  <2> HIDE DEF c
  <2> QED
    BY <1>2, <2>1, SameFilesInv
<1>9. StoreInv(lg)
  <2> HIDE DEF c
  <2> QED
    BY <1>1, <1>3, <1>8, WriteLogInv
<1> QED
  BY <1>4, <1>9

(* writeFiles keeps the index and the log naming the records they should,  *)
(* for any record and whether or not the append succeeds.                  *)
LEMMA WriteFilesInv ==
    ASSUME NEW st, StoreInv(st), NEW r \in DataReg,
           r.type = "WRITE" => r.serial \in Serials, NEW ok \in BOOLEAN
    PROVE  StoreInv(WriteFiles(st, r, ok))
<1> DEFINE c == CountRecord(st, r.sequence)
<1>1. r.sequence \in Int /\ r.type \in RecordTypes
  BY DEF DataReg
<1>2. StoreInv(c) /\ c.state.last_sequence = r.sequence
  BY <1>1, CountRecordInv
<1> HIDE DEF c
<1>3. CASE r.type = "WRITE"
  <2>1. StoreInv(ApplyWrite(c, r, ok))
    BY <1>2, <1>3, ApplyWriteInv
  <2>2. StoreInv(StatusSnapshot(ApplyWrite(c, r, ok), ok))
    BY <2>1, StatusSnapshotInv
  <2>3. WriteFiles(st, r, ok) \in {ApplyWrite(c, r, ok),
                                  StatusSnapshot(ApplyWrite(c, r, ok), ok)}
    BY <1>3 DEF WriteFiles, c
  <2> QED
    BY <2>1, <2>2, <2>3
<1>4. CASE r.type = "ROLLBACK_BEGIN"
  <2>1. WriteFiles(st, r, ok) = StatusSnapshot(ApplyRollbackBegin(c, r, ok), ok)
    BY <1>4 DEF WriteFiles, c
  <2> QED
    BY <1>2, <2>1, ApplyRollbackInv, StatusSnapshotInv
<1>5. CASE r.type = "ROLLBACK_END"
  <2>1. WriteFiles(st, r, ok) = StatusSnapshot(ApplyRollbackEnd(c, r, ok), ok)
    BY <1>5 DEF WriteFiles, c
  <2> QED
    BY <1>2, <2>1, ApplyRollbackInv, StatusSnapshotInv
<1>6. CASE r.type = "COMMIT"
  <2>1. WriteFiles(st, r, ok) = StatusSnapshot(ApplyCommit(c, r, ok), ok)
    BY <1>6 DEF WriteFiles, c
  <2> QED
    BY <1>2, <2>1, ApplyCommitInv, StatusSnapshotInv
<1>7. CASE r.type = "STATUS"
  <2>1. WriteFiles(st, r, ok) = StatusSnapshot(c, ok)
    BY <1>7 DEF WriteFiles, c
  <2> QED
    BY <1>2, <2>1, StatusSnapshotInv
<1> QED
  BY <1>1, <1>3, <1>4, <1>5, <1>6, <1>7 DEF RecordTypes

(* Clearing the dirty serials at the end of a call.                        *)
LEMMA ClearInv ==
    ASSUME NEW st, StoreInv(st)
    PROVE  StoreInv(ClearDirtySerials(st))
<1> DEFINE clr == ClearDirtySerials(st)
<1>1. st \in Stores /\ << >> \in Seq(Serials)
  BY DEF StoreInv
<1>2. /\ clr \in Stores
      /\ clr.fdata = st.fdata /\ clr.findex = st.findex /\ clr.flog = st.flog
  BY <1>1 DEF ClearDirtySerials, Stores
<1> QED
  BY <1>2, SameFilesInv

(* writeFiles on a record that is not a WRITE.                             *)
LEMMA MarkInv ==
    ASSUME NEW st, StoreInv(st), NEW type \in RecordTypes, type # "WRITE",
           NEW list \in Seq(Serials), NEW ok \in BOOLEAN
    PROVE  StoreInv(WriteFiles(st, MarkReg(type, st.state.last_sequence + 1, list),
                               ok))
<1> DEFINE seq == st.state.last_sequence + 1
           r   == MarkReg(type, seq, list)
<1>1. seq \in Int
  BY DEF StoreInv, Stores, State
<1>2. r \in DataReg /\ r.type # "WRITE"
  <2> HIDE DEF seq
  <2> QED
    BY <1>1 DEF MarkReg, DataReg
<1> HIDE DEF r
<1>3. StoreInv(WriteFiles(st, r, ok))
  BY <1>2, WriteFilesInv
<1> QED
  BY <1>3 DEF r

(***************************************************************************)
(* The effect of every operator of writeFiles.                               *)
(***************************************************************************)
(* The commit sequence of the object.                                      *)
LastSeq(st) == st.state.last_commit_sequence
(* The commit sequence in the state file.                                  *)
SavedSeq(st) == st.fstate.last_commit_sequence

(* The counters of WRITE and COMMIT records after so many more of them.    *)
Tallied(st, new, writes, commits) ==
    /\ new.state.data_count = st.state.data_count + writes
    /\ new.state.commit_count = st.state.commit_count + commits

(* new is st except for the named fields, about which nothing is said.     *)
SameBut(st, new, fields) ==
    /\ "fdata" \in fields \/ new.fdata = st.fdata
    /\ "findex" \in fields \/ new.findex = st.findex
    /\ "flog" \in fields \/ new.flog = st.flog
    /\ "fstate" \in fields \/ new.fstate = st.fstate
    /\ "state" \in fields \/ new.state = st.state
    /\ "dirty" \in fields \/ new.dirty = st.dirty
    /\ new.auto = st.auto

(* What each operation of writeFiles does to a store, and that it leaves   *)
(* the rest alone: the record in the data file.                            *)
LEMMA WriteDataEffect ==
    ASSUME NEW st \in Stores, NEW r, NEW ok \in BOOLEAN
    PROVE  /\ SameBut(st, WriteData(st, r, ok), {"fdata"})
           /\ WriteData(st, r, ok).fdata
                 = IF ok THEN Append(st.fdata, r) ELSE st.fdata
  BY DEF WriteData, SameBut, Stores

(* The counters.                                                           *)
LEMMA CountRecordEffect ==
    ASSUME NEW st \in Stores, NEW seq
    PROVE  /\ SameBut(st, CountRecord(st, seq), {"state"})
           /\ CountRecord(st, seq).state.count = st.state.count + 1
           /\ CountRecord(st, seq).state.last_sequence = seq
           /\ LastSeq(CountRecord(st, seq)) = LastSeq(st)
           /\ Tallied(st, CountRecord(st, seq), 0, 0)
<1>1. /\ SameBut(st, CountRecord(st, seq), {"state"})
      /\ CountRecord(st, seq).state.count = st.state.count + 1
      /\ CountRecord(st, seq).state.last_sequence = seq
      /\ LastSeq(CountRecord(st, seq)) = LastSeq(st)
  BY DEF CountRecord, SameBut, Stores, State, LastSeq
<1>2. /\ CountRecord(st, seq).state.data_count = st.state.data_count
      /\ CountRecord(st, seq).state.commit_count = st.state.commit_count
  BY DEF CountRecord, Stores, State
<1>3. st.state.data_count \in Int /\ st.state.commit_count \in Int
  BY DEF Stores, State
<1> QED
  BY <1>1, <1>2, <1>3 DEF Tallied

(* The log.                                                                *)
LEMMA WriteLogEffect ==
    ASSUME NEW st \in Stores, NEW seq, NEW offset, NEW serial, NEW type
    PROVE  /\ SameBut(st, WriteLog(st, seq, offset, serial, type), {"flog"})
           /\ WriteLog(st, seq, offset, serial, type).flog
                 = [q \in DOMAIN st.flog \cup {seq} |->
                       IF q = seq
                       THEN [offset |-> offset, serial |-> serial, type |-> type]
                       ELSE st.flog[q]]
  BY DEF WriteLog, SameBut, Stores

(* The state file.                                                         *)
LEMMA SaveStateEffect ==
    ASSUME NEW st \in Stores
    PROVE  /\ SameBut(st, SaveState(st), {"fstate"})
           /\ SaveState(st).fstate = st.state
  BY DEF SaveState, SameBut, Stores

(* A serial on the list, outside auto-commit mode.                         *)
LEMMA AddDirtyEffect ==
    ASSUME NEW st \in Stores, NEW s
    PROVE  /\ SameBut(st, AddDirtySerial(st, s), {"dirty"})
           /\ AddDirtySerial(st, s).dirty
                 = IF st.auto THEN st.dirty ELSE Append(st.dirty, s)
  BY DEF AddDirtySerial, SameBut, Stores

(* The register of a serial.                                               *)
LEMMA WriteIndexEffect ==
    ASSUME NEW st \in Stores, NEW s \in Serials, NEW ix
    PROVE  /\ SameBut(st, WriteIndex(st, s, ix), {"findex"})
           /\ WriteIndex(st, s, ix).findex = [st.findex EXCEPT ![s] = ix]
  BY DEF WriteIndex, SameBut, Stores

(* The list, when a transaction ends.                                      *)
LEMMA ClearEffect ==
    ASSUME NEW st \in Stores
    PROVE  /\ SameBut(st, ClearDirtySerials(st), {"dirty"})
           /\ ClearDirtySerials(st).dirty = << >>
  BY DEF ClearDirtySerials, SameBut, Stores

(* The log with one more entry, or another one for a sequence it has.      *)
LogWith(log, seq, offset, serial, type) ==
    [q \in DOMAIN log \cup {seq} |->
        IF q = seq THEN [offset |-> offset, serial |-> serial, type |-> type]
        ELSE log[q]]

(* The data file after an append, and the offset the call gets from it: -1 *)
(* if the append failed.                                                   *)
DataWith(data, r, ok) == IF ok THEN Append(data, r) ELSE data
OffsetIn(data, ok) == IF ok THEN Len(data) + 1 ELSE -1

(* The last sequence the object has given out.                             *)
Last(st) == st.state.last_sequence

(* A record counted and perhaps more: what of the state the records share. *)
CountedBy(st, new, n, seq) ==
    /\ new.state.count = st.state.count + n
    /\ Last(new) = seq

(* The offset that writeFiles goes on with.                                *)
LEMMA DataOffsetEffect ==
    ASSUME NEW st \in Stores, NEW r, NEW ok \in BOOLEAN
    PROVE  DataOffset(WriteData(st, r, ok), ok) = OffsetIn(st.fdata, ok)
<1>1. st.fdata \in Seq(DataReg)
  BY DEF Stores
<1>2. WriteData(st, r, ok).fdata = IF ok THEN Append(st.fdata, r) ELSE st.fdata
  BY WriteDataEffect
<1>3. Len(Append(st.fdata, r)) = Len(st.fdata) + 1
  BY <1>1
<1> QED
  BY <1>2, <1>3 DEF DataOffset, OffsetIn

(* A snapshot does nothing, or appends a STATUS record of the next         *)
(* sequence, logs it and saves the state.                                  *)
LEMMA StatusSnapshotEffect ==
    ASSUME NEW st, StoreInv(st), NEW ok \in BOOLEAN
    PROVE  LET new == StatusSnapshot(st, ok)
               seq == Last(st) + 1
           IN  IF st.state.count % StatusFreq # StatusFreq - 1
               THEN new = st
               ELSE /\ SameBut(st, new, {"fdata", "flog", "fstate", "state"})
                    /\ new.fdata = DataWith(st.fdata, MarkReg("STATUS", seq, << >>), ok)
                    /\ new.flog = LogWith(st.flog, seq, OffsetIn(st.fdata, ok),
                                          NoSerial, "STATUS")
                    /\ CountedBy(st, new, 1, seq)
                    /\ LastSeq(new) = LastSeq(st)
                    /\ Tallied(st, new, 0, 0)
                    /\ new.fstate = new.state
<1> DEFINE seq == Last(st) + 1
           c   == CountRecord(st, seq)
           m   == MarkReg("STATUS", seq, << >>)
           w   == WriteData(c, m, ok)
           off == DataOffset(w, ok)
           lg  == WriteLog(w, seq, off, NoSerial, "STATUS")
           new == SaveState(lg)
<1>1. st \in Stores /\ seq \in Int
  BY DEF StoreInv, Stores, State, Last
<1>2. StoreInv(c) /\ c \in Stores
  BY <1>1, CountRecordInv DEF StoreInv
<1>3. /\ SameBut(st, c, {"state"})
      /\ CountedBy(st, c, 1, seq)
      /\ LastSeq(c) = LastSeq(st)
      /\ Tallied(st, c, 0, 0)
  BY <1>1, CountRecordEffect DEF CountedBy, Last
<1>4. m \in DataReg
  <2>1. << >> \in Seq(Serials) /\ "STATUS" \in RecordTypes
    BY DEF RecordTypes
  <2> QED
    BY <1>1, <2>1, MarkRegType
<1> HIDE DEF c, m
<1>5. StoreInv(w) /\ w \in Stores
  BY <1>2, <1>4, WriteDataInv DEF StoreInv
<1>6. SameBut(c, w, {"fdata"}) /\ w.fdata = DataWith(c.fdata, m, ok)
  BY <1>2, WriteDataEffect DEF DataWith
<1>7. off = OffsetIn(c.fdata, ok) /\ off \in Int
  <2>1. off = OffsetIn(c.fdata, ok)
    BY <1>2, DataOffsetEffect
  <2>2. Len(c.fdata) \in Nat
    BY <1>2 DEF Stores
  <2> QED
    BY <2>1, <2>2 DEF OffsetIn
<1> HIDE DEF w, off
<1>8. SameBut(w, lg, {"flog"}) /\ lg.flog = LogWith(w.flog, seq, off, NoSerial, "STATUS")
  BY <1>5, WriteLogEffect DEF LogWith
<1>9. lg \in Stores
  <2>1. LogWith(w.flog, seq, off, NoSerial, "STATUS") \in LogFile
    <3>1. PICK D \in SUBSET Int : w.flog \in [D -> LogReg]
      BY <1>5 DEF Stores, LogFile
    <3>2. [offset |-> off, serial |-> NoSerial, type |-> "STATUS"] \in LogReg
      BY <1>7 DEF LogReg, RecordTypes
    <3>3. /\ D \cup {seq} \in SUBSET Int
          /\ LogWith(w.flog, seq, off, NoSerial, "STATUS") \in [D \cup {seq} -> LogReg]
      BY <1>1, <3>1, <3>2 DEF LogWith
    <3> QED
      BY <3>3 DEF LogFile
  <2>2. lg = [w EXCEPT !.flog = LogWith(w.flog, seq, off, NoSerial, "STATUS")]
    BY DEF WriteLog, LogWith
  <2> HIDE DEF lg, seq
  <2> QED
    BY <1>5, <2>1, <2>2 DEF Stores
<1> HIDE DEF lg
<1>10. SameBut(lg, new, {"fstate"}) /\ new.fstate = lg.state
  BY <1>9, SaveStateEffect
<1>11. StatusSnapshot(st, ok) = IF st.state.count % StatusFreq # StatusFreq - 1
                                THEN st ELSE new
  BY DEF StatusSnapshot, new, lg, off, w, m, c, Last
<1> HIDE DEF new, seq
<1>12. /\ SameBut(st, new, {"fdata", "flog", "fstate", "state"})
       /\ new.fdata = DataWith(st.fdata, m, ok)
       /\ new.flog = LogWith(st.flog, seq, OffsetIn(st.fdata, ok), NoSerial, "STATUS")
       /\ CountedBy(st, new, 1, seq)
       /\ LastSeq(new) = LastSeq(st)
       /\ Tallied(st, new, 0, 0)
       /\ new.fstate = new.state
  BY <1>3, <1>6, <1>7, <1>8, <1>10 DEF SameBut, CountedBy, LastSeq, Last, Tallied
<1> QED
  BY <1>11, <1>12 DEF m, seq

(* new is st after the WRITE record r has been applied to it.              *)
AfterWrite(st, new, r) ==
    LET off == Len(st.fdata) + 1
        old == st.findex[r.serial]
    IN  /\ SameBut(st, new, {"fdata", "findex", "flog", "fstate", "state", "dirty"})
        /\ new.fdata = Append(st.fdata, r)
        /\ new.findex = [st.findex EXCEPT ![r.serial] =
              SetOldestOffset(old, off, r.sequence, r.auto, old = EmptyIndex)]
        /\ new.flog = LogWith(st.flog, r.sequence, off, r.serial, r.type)
        /\ CountedBy(st, new, 1, r.sequence)
        /\ LastSeq(new) = LastSeq(st)
        /\ Tallied(st, new, 1, 0)
        /\ new.fstate = new.state
        /\ st.auto => new.dirty = st.dirty
        /\ ~st.auto => new.dirty = Append(st.dirty, r.serial)

(* A WRITE that is appended changes the data file, the register of its     *)
(* serial, the log, the saved state and perhaps the list.                  *)
LEMMA WriteEffect ==
    ASSUME NEW st, StoreInv(st), NEW r \in DataReg, r.type = "WRITE",
           r.serial \in Serials
    PROVE  AfterWrite(st, ApplyWrite(CountRecord(st, r.sequence), r, TRUE), r)
<1> DEFINE c0  == CountRecord(st, r.sequence)
           c   == [c0 EXCEPT !.state.data_count = @ + 1]
           w   == WriteData(c, r, TRUE)
           off == DataOffset(w, TRUE)
           old == c0.findex[r.serial]
           ix  == SetOldestOffset(old, off, r.sequence, r.auto, old = EmptyIndex)
           ad  == AddDirtySerial(w, r.serial)
           sv  == SaveState(ad)
           lg  == WriteLog(sv, r.sequence, off, r.serial, r.type)
           wi  == WriteIndex(lg, r.serial, ix)
<1>1. st \in Stores /\ r.sequence \in Int
  BY DEF StoreInv, DataReg
<1>2. StoreInv(c0) /\ c0 \in Stores
  BY <1>1, CountRecordInv DEF StoreInv
<1>3. /\ SameBut(st, c0, {"state"})
      /\ CountedBy(st, c0, 1, r.sequence)
      /\ LastSeq(c0) = LastSeq(st)
      /\ Tallied(st, c0, 0, 0)
  BY <1>1, CountRecordEffect DEF CountedBy, Last
<1> HIDE DEF c0
<1>4. /\ StoreInv(c) /\ c \in Stores
      /\ SameBut(c0, c, {"state"})
      /\ CountedBy(c0, c, 0, r.sequence)
      /\ LastSeq(c) = LastSeq(c0)
      /\ Tallied(c0, c, 1, 0)
  <2> DEFINE s1 == [c0.state EXCEPT !.data_count = @ + 1]
  <2>0. c0.state \in State
    BY <1>2 DEF Stores
  <2>1. /\ s1 \in State
        /\ s1.last_commit_sequence = c0.state.last_commit_sequence
        /\ s1.count = c0.state.count
        /\ s1.last_sequence = c0.state.last_sequence
        /\ s1.data_count = c0.state.data_count + 1
        /\ s1.commit_count = c0.state.commit_count
        /\ s1.commit_count \in Int
    BY <2>0 DEF State
  <2>2. c = [c0 EXCEPT !.state = s1]
    BY <1>2 DEF Stores, State
  <2> HIDE DEF s1
  <2>3. c \in Stores /\ SameBut(c0, c, {"state"}) /\ c.state = s1
    BY <1>2, <2>1, <2>2 DEF Stores, SameBut
  <2> HIDE DEF c
  <2>4. StoreInv(c)
    BY <1>2, <2>3, SameFilesInv DEF SameBut
  <2>5. c0.state.count \in Int
    BY <2>0 DEF State
  <2> QED
    BY <1>3, <2>1, <2>3, <2>4, <2>5 DEF CountedBy, Last, LastSeq, Tallied
<1> HIDE DEF c
<1>5. StoreInv(w) /\ w \in Stores
  BY <1>4, WriteDataInv DEF StoreInv
<1>6. SameBut(c, w, {"fdata"}) /\ w.fdata = Append(c.fdata, r)
  BY <1>4, WriteDataEffect
<1>7. off = Len(c.fdata) + 1 /\ off \in Int
  <2>1. off = OffsetIn(c.fdata, TRUE)
    BY <1>4, DataOffsetEffect
  <2>2. Len(c.fdata) \in Nat
    BY <1>4 DEF Stores
  <2> HIDE DEF off
  <2> QED
    BY <2>1, <2>2 DEF OffsetIn
<1>8. ApplyWrite(c0, r, TRUE) = wi
  BY DEF ApplyWrite, c, w, off
<1> HIDE DEF w, off
<1>9. /\ ad \in Stores
      /\ SameBut(w, ad, {"dirty"})
      /\ ad.dirty = IF w.auto THEN w.dirty ELSE Append(w.dirty, r.serial)
  <2>1. ad \in Stores
    BY <1>5, DirtyInv DEF StoreInv
  <2> QED
    BY <1>5, <2>1, AddDirtyEffect
<1> HIDE DEF ad
<1>10. /\ SameBut(ad, sv, {"fstate"}) /\ sv.fstate = ad.state
       /\ sv \in Stores
  BY <1>9, SaveStateEffect DEF SaveState, Stores
<1> HIDE DEF sv
<1>11. /\ SameBut(sv, lg, {"flog"})
       /\ lg.flog = LogWith(sv.flog, r.sequence, off, r.serial, r.type)
  BY <1>10, WriteLogEffect DEF LogWith
<1>12. /\ SameBut(lg, wi, {"findex"})
       /\ wi.findex = [lg.findex EXCEPT ![r.serial] = ix]
  <2>1. lg = [sv EXCEPT !.flog = lg.flog]
    BY <1>10 DEF WriteLog, Stores
  <2>2. \E f : lg = [sv EXCEPT !.flog = f]
    BY <2>1
  <2> HIDE DEF lg, ix
  <2> QED
    BY <1>10, <2>2 DEF WriteIndex, SameBut, Stores
<1> HIDE DEF lg, wi
<1>13. /\ wi.fdata = Append(st.fdata, r)
       /\ wi.findex = [st.findex EXCEPT ![r.serial] = ix]
       /\ wi.flog = LogWith(st.flog, r.sequence, off, r.serial, r.type)
       /\ CountedBy(st, wi, 1, r.sequence)
       /\ LastSeq(wi) = LastSeq(st)
       /\ wi.fstate = wi.state
       /\ wi.auto = st.auto
       /\ off = Len(st.fdata) + 1
       /\ old = st.findex[r.serial]
  <2> HIDE DEF ix
  <2>1. c0.state.count = st.state.count + 1 /\ st.state.count + 1 \in Int
    BY <1>1, <1>3 DEF CountedBy, Stores, State
  <2> QED
    BY <1>3, <1>4, <1>6, <1>7, <1>9, <1>10, <1>11, <1>12, <2>1, SMTT(40)
       DEF SameBut, CountedBy, LastSeq, Last
<1>13b. Tallied(st, wi, 1, 0)
  <2>1. st.state.data_count \in Int /\ st.state.commit_count \in Int
    BY <1>1 DEF Stores, State
  <2>2. wi.state = c.state
    BY <1>6, <1>9, <1>10, <1>11, <1>12 DEF SameBut
  <2> QED
    BY <1>3, <1>4, <2>1, <2>2 DEF Tallied
<1>13a. /\ st.auto => wi.dirty = st.dirty
        /\ ~st.auto => wi.dirty = Append(st.dirty, r.serial)
  <2>1. w.auto = st.auto /\ w.dirty = st.dirty /\ wi.dirty = ad.dirty
    BY <1>3, <1>4, <1>6, <1>10, <1>11, <1>12 DEF SameBut
  <2>2. CASE st.auto
    BY <1>9, <2>1, <2>2
  <2>3. CASE ~st.auto
    BY <1>9, <2>1, <2>3
  <2> QED
    BY <2>2, <2>3
<1>14. SameBut(st, wi, {"fdata", "findex", "flog", "fstate", "state", "dirty"})
  BY <1>13 DEF SameBut
<1>15. AfterWrite(st, wi, r)
  BY <1>13, <1>13a, <1>13b, <1>14 DEF AfterWrite
<1> QED
  BY <1>8, <1>15 DEF c0

(* A WRITE whose append failed counts its record, and nothing else.        *)
LEMMA FailedWriteEffect ==
    ASSUME NEW st, StoreInv(st), NEW r \in DataReg
    PROVE  LET new == ApplyWrite(CountRecord(st, r.sequence), r, FALSE)
           IN  /\ SameBut(st, new, {"state"})
               /\ CountedBy(st, new, 1, r.sequence)
               /\ LastSeq(new) = LastSeq(st)
<1> DEFINE c0  == CountRecord(st, r.sequence)
           c   == [c0 EXCEPT !.state.data_count = @ + 1]
<1>1. st \in Stores /\ r.sequence \in Int
  BY DEF StoreInv, DataReg
<1>2. c0 \in Stores
  BY <1>1, CountRecordInv DEF StoreInv
<1>3. /\ SameBut(st, c0, {"state"})
      /\ CountedBy(st, c0, 1, r.sequence)
      /\ LastSeq(c0) = LastSeq(st)
  BY <1>1, CountRecordEffect DEF CountedBy, Last
<1>4. ApplyWrite(c0, r, FALSE) = c
  BY DEF ApplyWrite, WriteData
<1> HIDE DEF c0
<1>5. /\ SameBut(c0, c, {"state"})
      /\ c.state.count = c0.state.count
      /\ c.state.last_sequence = c0.state.last_sequence
      /\ LastSeq(c) = LastSeq(c0)
  BY <1>2 DEF Stores, State, SameBut, LastSeq
<1> HIDE DEF c
<1>6. /\ SameBut(st, c, {"state"})
      /\ CountedBy(st, c, 1, r.sequence)
      /\ LastSeq(c) = LastSeq(st)
  BY <1>3, <1>5 DEF SameBut, CountedBy, Last
<1> QED
  BY <1>4, <1>6 DEF c0

(* A COMMIT changes data file and log, and the commit sequence of the      *)
(* object.                                                                 *)
LEMMA CommitEffect ==
    ASSUME NEW st, StoreInv(st), NEW r \in DataReg, NEW ok \in BOOLEAN
    PROVE  LET new == ApplyCommit(CountRecord(st, r.sequence), r, ok)
           IN  /\ SameBut(st, new, {"fdata", "flog", "state"})
               /\ new.fdata = DataWith(st.fdata, r, ok)
               /\ new.flog = LogWith(st.flog, r.sequence, OffsetIn(st.fdata, ok),
                                     r.serial, r.type)
               /\ CountedBy(st, new, 1, r.sequence)
               /\ LastSeq(new) = r.sequence
               /\ Tallied(st, new, 0, 1)
<1> DEFINE c0  == CountRecord(st, r.sequence)
           w   == WriteData(c0, r, ok)
           off == DataOffset(w, ok)
           c   == [w EXCEPT !.state.commit_count = @ + 1,
                            !.state.last_commit_sequence = r.sequence]
           lg  == WriteLog(c, r.sequence, off, r.serial, r.type)
<1>1. st \in Stores /\ r.sequence \in Int
  BY DEF StoreInv, DataReg
<1>2. /\ StoreInv(c0) /\ c0 \in Stores
      /\ SameBut(st, c0, {"state"})
      /\ CountedBy(st, c0, 1, r.sequence)
      /\ Tallied(st, c0, 0, 0)
  BY <1>1, CountRecordInv, CountRecordEffect DEF StoreInv, CountedBy, Last
<1>3. ApplyCommit(c0, r, ok) = lg
  BY <1>1, <1>2 DEF ApplyCommit, CountedBy, Last
<1> HIDE DEF c0
<1>4. w \in Stores /\ SameBut(c0, w, {"fdata"}) /\ w.fdata = DataWith(c0.fdata, r, ok)
  BY <1>2, WriteDataInv, WriteDataEffect DEF DataWith, StoreInv
<1>5. off = OffsetIn(c0.fdata, ok)
  BY <1>2, DataOffsetEffect
<1> HIDE DEF w, off
<1>6. /\ SameBut(w, c, {"state"})
      /\ c.state.count = w.state.count
      /\ c.state.last_sequence = w.state.last_sequence
      /\ LastSeq(c) = r.sequence
      /\ Tallied(w, c, 0, 1)
      /\ c \in Stores
  <2> DEFINE s1 == [w.state EXCEPT !.commit_count = @ + 1]
             s2 == [s1 EXCEPT !.last_commit_sequence = r.sequence]
  <2>1. w.state \in State
    BY <1>4 DEF Stores
  <2>2. s1 \in State
    BY <2>1 DEF State
  <2>3. s2 \in State
    <3> HIDE DEF s1
    <3> QED
      BY <1>1, <2>2 DEF State
  <2>4. c = [w EXCEPT !.state = s2]
    BY <1>4 DEF Stores, State
  <2>5. /\ s2.count = w.state.count
        /\ s2.last_sequence = w.state.last_sequence
        /\ s2.last_commit_sequence = r.sequence
        /\ s2.data_count = w.state.data_count + 0
        /\ s2.commit_count = w.state.commit_count + 1
    BY <2>1 DEF State
  <2> HIDE DEF s2
  <2> QED
    BY <1>4, <2>3, <2>4, <2>5 DEF Stores, SameBut, LastSeq, Tallied
<1> HIDE DEF c
<1>7. SameBut(c, lg, {"flog"}) /\ lg.flog = LogWith(c.flog, r.sequence, off, r.serial, r.type)
  BY <1>6, WriteLogEffect DEF LogWith
<1> HIDE DEF lg
<1>8. /\ SameBut(st, lg, {"fdata", "flog", "state"})
      /\ lg.fdata = DataWith(st.fdata, r, ok)
      /\ lg.flog = LogWith(st.flog, r.sequence, OffsetIn(st.fdata, ok), r.serial, r.type)
      /\ CountedBy(st, lg, 1, r.sequence)
      /\ LastSeq(lg) = r.sequence
  BY <1>2, <1>4, <1>5, <1>6, <1>7 DEF SameBut, CountedBy, LastSeq, Last
<1>9. Tallied(st, lg, 0, 1)
  <2>1. /\ st.state.data_count \in Int /\ st.state.commit_count \in Int
        /\ w.state = c0.state /\ lg.state = c.state
    BY <1>1, <1>4, <1>7 DEF SameBut, Stores, State
  <2> QED
    BY <1>2, <1>6, <2>1 DEF Tallied
<1> QED
  BY <1>3, <1>8, <1>9 DEF c0

(* Both records of a rollback; only the first one changes the index.       *)
LEMMA RollbackEffect ==
    ASSUME NEW st, StoreInv(st), NEW r \in DataReg, NEW ok \in BOOLEAN
    PROVE  LET c   == CountRecord(st, r.sequence)
               beg == ApplyRollbackBegin(c, r, ok)
               end == ApplyRollbackEnd(c, r, ok)
           IN  /\ SameBut(st, end, {"fdata", "flog", "state"})
               /\ SameBut(end, beg, {"findex"})
               /\ beg.findex = [s \in Serials |-> UndoIndex(st.findex[s], r.serials, s)]
               /\ end.fdata = DataWith(st.fdata, r, ok)
               /\ end.flog = LogWith(st.flog, r.sequence, 0, r.serial, r.type)
               /\ CountedBy(st, end, 1, r.sequence)
               /\ LastSeq(end) = LastSeq(st)
               /\ Tallied(st, end, 0, 0)
<1> DEFINE c   == CountRecord(st, r.sequence)
           w   == WriteData(c, r, ok)
           lg  == WriteLog(w, r.sequence, 0, r.serial, r.type)
           idx == [s \in Serials |-> UndoIndex(lg.findex[s], r.serials, s)]
           beg == [lg EXCEPT !.findex = idx]
<1>1. st \in Stores /\ r.sequence \in Int
  BY DEF StoreInv, DataReg
<1>2. /\ StoreInv(c) /\ c \in Stores
      /\ SameBut(st, c, {"state"})
      /\ CountedBy(st, c, 1, r.sequence)
      /\ LastSeq(c) = LastSeq(st)
      /\ Tallied(st, c, 0, 0)
  BY <1>1, CountRecordInv, CountRecordEffect DEF StoreInv, CountedBy, Last
<1>3. ApplyRollbackEnd(c, r, ok) = lg /\ ApplyRollbackBegin(c, r, ok) = beg
  BY <1>2 DEF ApplyRollbackEnd, ApplyRollbackBegin, CountedBy, Last
<1>4. lg \in Stores
  <2>1. c.state.last_sequence = r.sequence
    BY <1>2 DEF CountedBy, Last
  <2> HIDE DEF c
  <2> QED
    BY <1>2, <2>1, LogZeroInv DEF StoreInv
<1> HIDE DEF c
<1>5. w \in Stores /\ SameBut(c, w, {"fdata"}) /\ w.fdata = DataWith(c.fdata, r, ok)
  BY <1>2, WriteDataInv, WriteDataEffect DEF DataWith, StoreInv
<1> HIDE DEF w
<1>6. SameBut(w, lg, {"flog"}) /\ lg.flog = LogWith(w.flog, r.sequence, 0, r.serial, r.type)
  BY <1>5, WriteLogEffect DEF LogWith
<1> HIDE DEF lg
<1>7. SameBut(lg, beg, {"findex"}) /\ beg.findex = idx
  <2> HIDE DEF idx
  <2> QED
    BY <1>4 DEF SameBut, Stores
<1> HIDE DEF beg
<1>8. /\ SameBut(st, lg, {"fdata", "flog", "state"})
      /\ lg.fdata = DataWith(st.fdata, r, ok)
      /\ lg.flog = LogWith(st.flog, r.sequence, 0, r.serial, r.type)
      /\ CountedBy(st, lg, 1, r.sequence)
      /\ LastSeq(lg) = LastSeq(st)
      /\ Tallied(st, lg, 0, 0)
      /\ beg.findex = [s \in Serials |-> UndoIndex(st.findex[s], r.serials, s)]
  BY <1>2, <1>5, <1>6, <1>7 DEF SameBut, CountedBy, LastSeq, Last, Tallied
<1> QED
  BY <1>3, <1>7, <1>8 DEF c
=============================================================================
