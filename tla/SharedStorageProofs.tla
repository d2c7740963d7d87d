------------------------ MODULE SharedStorageProofs ------------------------
(***************************************************************************)
(* What sharing a storage promises, for any number of handles, serials and *)
(* opens.                                                                  *)
(*                                                                         *)
(* The invariant has two halves.  Files says of the one disk and the two   *)
(* objects on it that every object's store is good and that no register is *)
(* above the last sequence of an object that may write, or of the saved    *)
(* state an open would load: records may share sequences, but a commit is  *)
(* above all of them.  Roles says of the handles who has which object, and *)
(* Alone that a writer nobody has disturbed can write.                     *)
(***************************************************************************)
EXTENDS SharedStorage, SafeFilesProofs

(***************************************************************************)
(* Records and the registers' sequences.                                   *)
(***************************************************************************)

(* No register of the index holds a sequence above n.                      *)
Within(ix, n) == \A s \in Serials, i \in Slot : ix[s][i].sequence <= n

(* The last sequence in the state file.                                    *)
SavedLast(st) == st.fstate.last_sequence

Counting(st) == Last(st) \in Nat /\ SavedLast(st) \in Nat

(* The object has given out, and its state file knows, all sequences that  *)
(* are in the index.                                                       *)
Covered(st) == Within(st.findex, Last(st)) /\ Within(st.findex, SavedLast(st))

(* new is st after records that leave it good and covered.                 *)
Progress(st, new) ==
    /\ StoreInv(new) /\ Counting(new)
    /\ Covered(st) => Covered(new)

(* A write puts its sequence into one slot; a register that is new has 0   *)
(* in the other one.                                                       *)
LEMMA OldestSequences ==
    ASSUME NEW ix \in IndexReg, NEW off, NEW seq, NEW auto, NEW init \in BOOLEAN,
           NEW i \in Slot
    PROVE  SetOldestOffset(ix, off, seq, auto, init)[i].sequence
              \in {seq, 0, ix[i].sequence}
  BY DEF SetOldestOffset, IndexReg, Slot, NewestSlot

(* A rollback puts -1 into slots.                                          *)
LEMMA UndoSequences ==
    ASSUME NEW ix \in IndexReg, NEW list, NEW s, NEW i \in Slot
    PROVE  UndoIndex(ix, list, s)[i].sequence \in {-1, ix[i].sequence}
<1> DEFINE once  == SetNewestOffset(ix, -1, FALSE)
           twice == SetNewestOffset(once, -1, FALSE)
<1>1. /\ once \in IndexReg
      /\ once[i].sequence \in {-1, ix[i].sequence}
  BY DEF SetNewestOffset, IndexReg, Slot, NewestSlot
<1>2. twice[i].sequence \in {-1, once[i].sequence}
  <2> HIDE DEF once
  <2> QED
    BY <1>1 DEF SetNewestOffset, IndexReg, Slot, NewestSlot
<1>3. UndoIndex(ix, list, s) \in {ix, once, twice}
  BY DEF UndoIndex
<1> HIDE DEF once, twice
<1> QED
  BY <1>1, <1>2, <1>3

(* A snapshot gives out one more sequence, and saves the state.            *)
LEMMA SnapshotProgress ==
    ASSUME NEW st, StoreInv(st), Counting(st), NEW ok \in BOOLEAN
    PROVE  /\ Progress(st, StatusSnapshot(st, ok))
           /\ StatusSnapshot(st, ok).findex = st.findex
           /\ LastSeq(StatusSnapshot(st, ok)) = LastSeq(st)
<1>1. PICK new : new = StatusSnapshot(st, ok)
  OBVIOUS
<1>2. StoreInv(new)
  BY <1>1, StatusSnapshotInv
<1>3. CASE st.state.count % StatusFreq # StatusFreq - 1
  <2>1. new = st
    BY <1>1, <1>3, StatusSnapshotEffect
  <2> QED
    BY <1>1, <2>1 DEF Progress
<1>4. CASE ~(st.state.count % StatusFreq # StatusFreq - 1)
  <2>1. /\ SameBut(st, new, {"fdata", "flog", "fstate", "state"})
        /\ CountedBy(st, new, 1, Last(st) + 1)
        /\ LastSeq(new) = LastSeq(st)
        /\ new.fstate = new.state
    BY <1>1, <1>4, StatusSnapshotEffect
  <2>2. /\ new.findex = st.findex
        /\ Last(new) = Last(st) + 1 /\ SavedLast(new) = Last(st) + 1
    BY <2>1 DEF SameBut, CountedBy, Last, SavedLast
  <2>3. \A s \in Serials, i \in Slot : st.findex[s][i].sequence \in Int
    BY DEF StoreInv, Stores, IndexReg
  <2>4. Counting(new) /\ (Covered(st) => Covered(new))
    BY <2>2, <2>3 DEF Counting, Covered, Within
  <2> QED
    BY <1>1, <1>2, <2>1, <2>2, <2>4 DEF Progress
<1> QED
  BY <1>3, <1>4

(* So do two steps one after the other.                                    *)
LEMMA ProgressTransitive ==
    ASSUME NEW a, NEW b, NEW c, Progress(a, b), Progress(b, c)
    PROVE  Progress(a, c)
  BY DEF Progress

(* A WRITE, appended or not.                                               *)
LEMMA WriteProgress ==
    ASSUME NEW st, StoreInv(st), Counting(st), NEW r \in DataReg,
           r.type = "WRITE", r.serial \in Serials, r.sequence = Last(st) + 1,
           NEW ok \in BOOLEAN
    PROVE  Progress(st, WriteFiles(st, r, ok))
<1> DEFINE c == CountRecord(st, r.sequence)
<1>1. r.sequence \in Nat /\ r.sequence \in Int
  BY DEF Counting
<1>2. \A s \in Serials : st.findex[s] \in IndexReg
  BY DEF StoreInv, Stores
<1>3. \A s \in Serials, i \in Slot : st.findex[s][i].sequence \in Int
  BY <1>2 DEF IndexReg
<1>4. CASE ok
  <2>1. PICK mid : mid = ApplyWrite(c, r, ok)
    OBVIOUS
  <2>2. AfterWrite(st, mid, r)
    <3>1. ok = TRUE
      BY <1>4
    <3> QED
      BY <2>1, <3>1, WriteEffect
  <2>3. StoreInv(mid)
    BY <1>1, <2>1, CountRecordInv, ApplyWriteInv
  <2>4. PICK init \in BOOLEAN : \E off :
           mid.findex = [st.findex EXCEPT ![r.serial] =
              SetOldestOffset(st.findex[r.serial], off, r.sequence, r.auto, init)]
    BY <2>2 DEF AfterWrite
  <2>5. PICK off :
           mid.findex = [st.findex EXCEPT ![r.serial] =
              SetOldestOffset(st.findex[r.serial], off, r.sequence, r.auto, init)]
    BY <2>4
  <2>6. Last(mid) = r.sequence /\ SavedLast(mid) = r.sequence
    BY <2>2 DEF AfterWrite, CountedBy, Last, SavedLast
  <2>7. ASSUME Covered(st), NEW s \in Serials, NEW i \in Slot
        PROVE  mid.findex[s][i].sequence <= r.sequence
    <3>1. st.findex[s][i].sequence <= Last(st)
      BY <2>7 DEF Covered, Within
    <3>2. Last(st) \in Nat /\ st.findex[s][i].sequence \in Int
      BY <1>3 DEF Counting
    <3>3. CASE s = r.serial
      <4>1. mid.findex[s]
               = SetOldestOffset(st.findex[s], off, r.sequence, r.auto, init)
        BY <2>5, <3>3 DEF StoreInv, Stores
      <4>2. mid.findex[s][i].sequence \in {r.sequence, 0, st.findex[s][i].sequence}
        BY <1>2, <4>1, OldestSequences
      <4> QED
        BY <3>1, <3>2, <4>2
    <3>4. CASE s # r.serial
      <4>1. mid.findex[s] = st.findex[s]
        BY <2>5, <3>4 DEF StoreInv, Stores
      <4> QED
        BY <3>1, <3>2, <4>1
    <3> QED
      BY <3>3, <3>4
  <2>8. Counting(mid)
    BY <1>1, <2>6 DEF Counting
  <2>9. Covered(st) => Covered(mid)
    BY <2>6, <2>7 DEF Covered, Within
  <2>10. Progress(st, mid)
    BY <2>3, <2>8, <2>9 DEF Progress
  <2>11. Progress(mid, StatusSnapshot(mid, ok))
    BY <2>3, <2>8, SnapshotProgress
  <2>12. WriteFiles(st, r, ok) = StatusSnapshot(mid, ok)
    BY <1>4, <2>1 DEF WriteFiles
  <2> QED
    BY <2>10, <2>11, <2>12, ProgressTransitive
<1>5. CASE ~ok
  <2>1. PICK new : new = ApplyWrite(c, r, ok)
    OBVIOUS
  <2>2. SameBut(st, new, {"state"}) /\ CountedBy(st, new, 1, r.sequence)
    <3>1. ok = FALSE
      BY <1>5
    <3> QED
      BY <2>1, <3>1, FailedWriteEffect
  <2>3. StoreInv(new)
    BY <1>1, <2>1, CountRecordInv, ApplyWriteInv
  <2>4. /\ new.findex = st.findex /\ SavedLast(new) = SavedLast(st)
        /\ Last(new) = Last(st) + 1
    BY <2>2 DEF SameBut, CountedBy, Last, SavedLast
  <2>5. Counting(new) /\ (Covered(st) => Covered(new))
    BY <1>3, <2>4 DEF Counting, Covered, Within
  <2>6. WriteFiles(st, r, ok) = new
    BY <1>5, <2>1 DEF WriteFiles
  <2> QED
    BY <2>3, <2>5, <2>6 DEF Progress
<1> QED
  BY <1>4, <1>5

(* A COMMIT leaves the index alone, and is in the data file if it could be *)
(* appended.                                                               *)
Commits(st, new, seq, ok) ==
    /\ new.findex = st.findex
    /\ LastSeq(new) = seq
    /\ ok => \E i \in DOMAIN new.fdata :
                /\ new.fdata[i].type = "COMMIT"
                /\ new.fdata[i].sequence = seq

(* A record that only counts and gives out its sequence.                   *)
LEMMA CountedProgress ==
    ASSUME NEW st, StoreInv(st), Counting(st), NEW new, StoreInv(new),
           new.findex = st.findex, new.fstate = st.fstate,
           Last(new) = Last(st) + 1
    PROVE  Progress(st, new) /\ Counting(new)
<1>1. \A s \in Serials, i \in Slot : st.findex[s][i].sequence \in Int
  BY DEF StoreInv, Stores, IndexReg
<1>2. SavedLast(new) = SavedLast(st)
  BY DEF SavedLast
<1>3. Counting(new)
  BY <1>2 DEF Counting
<1>4. Covered(st) => Covered(new)
  BY <1>1, <1>2 DEF Counting, Covered, Within
<1> QED
  BY <1>3, <1>4 DEF Progress

(* A COMMIT, with the snapshot that may follow it.                         *)
LEMMA CommitProgress ==
    ASSUME NEW st, StoreInv(st), Counting(st), NEW ok \in BOOLEAN, NEW r,
           r = MarkReg("COMMIT", Last(st) + 1, << >>)
    PROVE  /\ Progress(st, WriteFiles(st, r, ok))
           /\ Commits(st, WriteFiles(st, r, ok), Last(st) + 1, ok)
<1> DEFINE c == CountRecord(st, r.sequence)
<1>1. /\ r \in DataReg /\ r.type = "COMMIT" /\ r.sequence = Last(st) + 1
      /\ r.sequence \in Int
  <2>1. << >> \in Seq(Serials) /\ "COMMIT" \in RecordTypes /\ Last(st) + 1 \in Int
    BY DEF RecordTypes, Counting
  <2>2. PICK seq \in Int : seq = Last(st) + 1
    BY <2>1
  <2>3. PICK list \in Seq(Serials) : list = << >>
    BY <2>1
  <2>4. r = MarkReg("COMMIT", seq, list)
    BY <2>2, <2>3
  <2> QED
    BY <2>1, <2>2, <2>4, MarkRegType
<1>2. PICK mid : mid = ApplyCommit(c, r, ok)
  OBVIOUS
<1>3. StoreInv(mid)
  BY <1>1, <1>2, CountRecordInv, ApplyCommitInv
<1>4. /\ SameBut(st, mid, {"fdata", "flog", "state"})
      /\ mid.fdata = DataWith(st.fdata, r, ok)
      /\ CountedBy(st, mid, 1, r.sequence)
      /\ LastSeq(mid) = r.sequence
  BY <1>1, <1>2, CommitEffect
<1>5. /\ mid.findex = st.findex /\ mid.fstate = st.fstate
      /\ Last(mid) = Last(st) + 1
  BY <1>1, <1>4 DEF SameBut, CountedBy
<1>6. Progress(st, mid) /\ Counting(mid)
  BY <1>3, <1>5, CountedProgress
<1>7. PICK new : new = StatusSnapshot(mid, ok)
  OBVIOUS
<1>8. WriteFiles(st, r, ok) = new
  BY <1>1, <1>2, <1>7 DEF WriteFiles
<1>9. /\ Progress(mid, new)
      /\ new.findex = mid.findex
      /\ LastSeq(new) = LastSeq(mid)
  BY <1>3, <1>6, <1>7, SnapshotProgress
<1>10. ASSUME ok
       PROVE  \E i \in DOMAIN new.fdata : /\ new.fdata[i].type = "COMMIT"
                                          /\ new.fdata[i].sequence = Last(st) + 1
  <2>1. PICK n : n = Len(st.fdata) + 1
    OBVIOUS
  <2>2. mid.fdata = Append(st.fdata, r) /\ st.fdata \in Seq(DataReg)
    BY <1>4, <1>10 DEF DataWith, StoreInv, Stores
  <2>3. /\ n \in 1 .. Len(mid.fdata) /\ mid.fdata[n] = r
        /\ mid.fdata \in Seq(DataReg)
    BY <1>1, <2>1, <2>2
  <2>4. \/ new.fdata = mid.fdata
        \/ \E m \in DataReg : new.fdata = Append(mid.fdata, m)
    <3>1. CASE mid.state.count % StatusFreq # StatusFreq - 1
      BY <1>3, <1>7, <3>1, StatusSnapshotEffect
    <3>2. CASE ~(mid.state.count % StatusFreq # StatusFreq - 1)
      <4>1. PICK seq, list : /\ seq = Last(mid) + 1 /\ list = << >>
                             /\ seq \in Int /\ list \in Seq(Serials)
        <5>1. Last(mid) + 1 \in Int /\ << >> \in Seq(Serials)
          BY <1>6 DEF Counting
        <5> QED
          BY <5>1
      <4>2. MarkReg("STATUS", seq, list) \in DataReg
        BY <4>1, MarkRegType DEF RecordTypes
      <4>3. new.fdata = DataWith(mid.fdata, MarkReg("STATUS", seq, list), ok)
        BY <1>3, <1>7, <3>2, <4>1, StatusSnapshotEffect
      <4> QED
        BY <1>10, <4>2, <4>3 DEF DataWith
    <3> QED
      BY <3>1, <3>2
  <2>5. n \in DOMAIN new.fdata /\ new.fdata[n] = r
    BY <2>3, <2>4
  <2> QED
    BY <1>1, <2>5
<1>11. Progress(st, new)
  BY <1>6, <1>9, ProgressTransitive
<1>12. Commits(st, new, Last(st) + 1, ok)
  BY <1>1, <1>4, <1>5, <1>9, <1>10 DEF Commits
<1> QED
  BY <1>8, <1>11, <1>12

(* The two records of a rollback.                                          *)
LEMMA RollbackProgress ==
    ASSUME NEW st, StoreInv(st), Counting(st), NEW r \in DataReg,
           r.sequence = Last(st) + 1,
           r.type \in {"ROLLBACK_BEGIN", "ROLLBACK_END"}, NEW ok \in BOOLEAN
    PROVE  Progress(st, WriteFiles(st, r, ok))
<1> DEFINE c == CountRecord(st, r.sequence)
<1>0. r.sequence \in Int
  BY DEF Counting
<1>1. PICK beg, end : /\ beg = ApplyRollbackBegin(c, r, ok)
                      /\ end = ApplyRollbackEnd(c, r, ok)
  OBVIOUS
<1>2. StoreInv(beg) /\ StoreInv(end)
  BY <1>0, <1>1, CountRecordInv, ApplyRollbackInv
<1>3. /\ SameBut(st, end, {"fdata", "flog", "state"})
      /\ SameBut(end, beg, {"findex"})
      /\ beg.findex = [s \in Serials |-> UndoIndex(st.findex[s], r.serials, s)]
      /\ CountedBy(st, end, 1, r.sequence)
  BY <1>1, RollbackEffect
<1>4. /\ end.findex = st.findex /\ end.fstate = st.fstate
      /\ beg.fstate = st.fstate
      /\ Last(end) = Last(st) + 1 /\ Last(beg) = Last(st) + 1
  BY <1>3 DEF SameBut, CountedBy, Last
<1>5. Progress(st, end) /\ Counting(end)
  BY <1>2, <1>4, CountedProgress
<1>6. Counting(beg)
  BY <1>4 DEF Counting, SavedLast
<1>7. ASSUME Covered(st)
      PROVE  Covered(beg)
  <2>1. ASSUME NEW s \in Serials, NEW i \in Slot
        PROVE  /\ beg.findex[s][i].sequence <= Last(beg)
               /\ beg.findex[s][i].sequence <= SavedLast(beg)
    <3>1. st.findex[s] \in IndexReg /\ st.findex[s][i].sequence \in Int
      BY DEF StoreInv, Stores, IndexReg
    <3>2. beg.findex[s][i].sequence \in {-1, st.findex[s][i].sequence}
      BY <1>3, <3>1, UndoSequences
    <3>3. /\ st.findex[s][i].sequence <= Last(st)
          /\ st.findex[s][i].sequence <= SavedLast(st)
      BY <1>7 DEF Covered, Within
    <3>4. SavedLast(beg) = SavedLast(st)
      BY <1>4 DEF SavedLast
    <3> QED
      BY <1>4, <3>1, <3>2, <3>3, <3>4 DEF Counting
  <2> QED
    BY <2>1 DEF Covered, Within
<1>8. Progress(st, beg)
  BY <1>2, <1>6, <1>7 DEF Progress
<1>9. WriteFiles(st, r, ok) \in {StatusSnapshot(beg, ok), StatusSnapshot(end, ok)}
  BY <1>1 DEF WriteFiles
<1>10. /\ Progress(beg, StatusSnapshot(beg, ok))
       /\ Progress(end, StatusSnapshot(end, ok))
  BY <1>2, <1>5, <1>6, SnapshotProgress
<1> QED
  BY <1>5, <1>8, <1>9, <1>10, ProgressTransitive

(***************************************************************************)
(* The disk and the two objects.                                           *)
(***************************************************************************)
Disks == [fdata : Seq(DataReg), findex : [Serials -> IndexReg],
          flog : LogFile, fstate : State]

Objects == [state : State, dirty : Seq(Serials), opened : BOOLEAN,
            rdwr : BOOLEAN]

(* Index and log of the files name the records they should.                *)
Named(d) ==
    /\ \A s \in Serials, i \in Slot : SlotNamed(d.fdata, s, d.findex[s][i])
    /\ \A q \in DOMAIN d.flog : EntryNamed(d.fdata, q, d.flog[q])

(* No register is above the last sequence of the state file, nor of an     *)
(* object that may write.                                                  *)
Numbered ==
    /\ disk.fstate.last_sequence \in Nat
    /\ \A k \in Names : object[k].state.last_sequence \in Nat
    /\ Within(disk.findex, disk.fstate.last_sequence)
    /\ \A k \in Names :
          Writable(k) => Within(disk.findex, object[k].state.last_sequence)

(* An object that was never opened on a file starts at sequence 0.         *)
Fresh ==
    ~created => /\ Within(disk.findex, 0)
                /\ \A k \in Names : ~object[k].opened

Files ==
    /\ created \in BOOLEAN /\ disk \in Disks
    /\ object \in [Names -> Objects]
    /\ Named(disk)
    /\ Numbered
    /\ Fresh

(* What the files and an object make together is a good store.             *)
LEMMA StoresGood ==
    ASSUME Files, NEW k \in Names
    PROVE  /\ StoreInv(Store(k)) /\ Counting(Store(k))
           /\ Last(Store(k)) = object[k].state.last_sequence
           /\ Writable(k) => Covered(Store(k))
           /\ Store(k).findex = disk.findex
<1>1. object[k] \in Objects /\ disk \in Disks /\ Named(disk) /\ Numbered
  BY DEF Files
<1>2. Store(k) \in Stores
  BY <1>1 DEF Store, Stores, Disks, Objects
<1>3. /\ Store(k).fdata = disk.fdata /\ Store(k).findex = disk.findex
      /\ Store(k).flog = disk.flog /\ Store(k).fstate = disk.fstate
      /\ Store(k).state = object[k].state
  BY DEF Store
<1>4. StoreInv(Store(k))
  BY <1>1, <1>2, <1>3 DEF StoreInv, Named
<1>5. /\ Last(Store(k)) = object[k].state.last_sequence
      /\ SavedLast(Store(k)) = disk.fstate.last_sequence
  BY <1>3 DEF Last, SavedLast
<1>6. Counting(Store(k)) /\ (Writable(k) => Covered(Store(k)))
  BY <1>1, <1>3, <1>5 DEF Counting, Covered, Numbered
<1> QED
  BY <1>3, <1>4, <1>5, <1>6

(* At first there are no files, and nothing is in them.                    *)
LEMMA InitFiles ==
    ASSUME Init
    PROVE  Files
<1>1. /\ created = FALSE /\ disk = EmptyDisk
      /\ object = [k \in Names |-> NewObject]
  BY DEF Init
<1>2. ZeroState \in State /\ ZeroState.last_sequence = 0
  BY DEF ZeroState, State
<1>3. EmptyIndex \in IndexReg /\ \A i \in Slot : /\ EmptyIndex[i].sequence = 0
                                               /\ EmptyIndex[i].offset = 0
  BY DEF EmptyIndex, IndexReg, Slot
<1>4. << >> \in LogFile /\ DOMAIN << >> = {}
  <2>1. DOMAIN << >> = {} /\ << >> = [q \in {} |-> << >>[q]]
    OBVIOUS
  <2>2. << >> \in [{} -> LogReg]
    BY <2>1
  <2>3. {} \in SUBSET Int
    OBVIOUS
  <2> QED
    BY <2>1, <2>2, <2>3 DEF LogFile
<1>5. << >> \in Seq(DataReg) /\ << >> \in Seq(Serials)
  OBVIOUS
<1>6. /\ disk \in Disks
      /\ \A s \in Serials : disk.findex[s] = EmptyIndex
      /\ disk.flog = << >> /\ disk.fstate = ZeroState
  BY <1>1, <1>2, <1>3, <1>4, <1>5 DEF EmptyDisk, Disks
<1>7. /\ object \in [Names -> Objects]
      /\ \A k \in Names : object[k].state = ZeroState /\ ~object[k].opened
  BY <1>1, <1>2, <1>5 DEF NewObject, Objects
<1>8. Named(disk)
  BY <1>3, <1>4, <1>6 DEF Named, SlotNamed
<1>9. Within(disk.findex, 0)
  <2>1. \A s \in Serials, i \in Slot : disk.findex[s][i].sequence = 0
    BY <1>3, <1>6, Zenon
  <2>2. \A s \in Serials, i \in Slot : disk.findex[s][i].sequence <= 0
    BY <2>1
  <2> QED
    BY <2>2 DEF Within
<1>10. Numbered
  BY <1>2, <1>6, <1>7, <1>9 DEF Numbered, Writable
<1>11. Fresh
  BY <1>7, <1>9 DEF Fresh
<1> QED
  BY <1>1, <1>6, <1>7, <1>8, <1>10, <1>11 DEF Files

(* An open loads the state file, unless it makes the files: then there is  *)
(* nothing below the sequence the object is at.                            *)
LEMMA OpenFiles ==
    ASSUME Files, NEW k \in Names, NEW flags \in OpenFlags,
           OpenObject(k, flags), disk' = disk
    PROVE  /\ Files'
           /\ \A j \in Names \ {k} : Writable(j)' = Writable(j)
           /\ object'[k].opened /\ flags # {} => Writable(k)'
<1>1. /\ object[k] \in Objects /\ disk \in Disks /\ Named(disk)
      /\ object \in [Names -> Objects] /\ created \in BOOLEAN
      /\ Numbered /\ Fresh
  BY DEF Files
<1>2. PICK rdwr \in BOOLEAN, opens1 \in BOOLEAN :
         rdwr = ("WR" \in flags) /\ opens1 = ("CREATE" \in flags)
  <2>1. ("WR" \in flags) \in BOOLEAN /\ ("CREATE" \in flags) \in BOOLEAN
    OBVIOUS
  <2> QED
    BY <2>1, Zenon
<1>3. flags # {} => rdwr
  BY <1>2 DEF OpenFlags
<1>4. CASE created
  <2>1. /\ created' = created
        /\ object' = [object EXCEPT ![k] = [[object[k] EXCEPT !.rdwr = rdwr]
                         EXCEPT !.opened = TRUE, !.state = disk.fstate]]
    BY <1>2, <1>4 DEF OpenObject
  <2>2. /\ object'[k] \in Objects
        /\ object'[k].rdwr = rdwr /\ object'[k].opened
        /\ object'[k].state = disk.fstate
    BY <1>1, <2>1 DEF Objects, Disks
  <2>3. /\ object' \in [Names -> Objects]
        /\ \A j \in Names \ {k} : object'[j] = object[j]
    BY <1>1, <2>1, <2>2
  <2>4. Numbered'
    BY <1>1, <2>2, <2>3 DEF Numbered, Writable
  <2>5. Named(disk)' /\ Fresh'
    BY <1>1, <1>4, <2>1 DEF Fresh, Named
  <2>6. Files'
    BY <1>1, <2>1, <2>3, <2>4, <2>5 DEF Files
  <2> QED
    BY <1>3, <2>2, <2>3, <2>6 DEF Writable
<1>5. CASE ~created
  <2>1. /\ created' = opens1
        /\ object' = [object EXCEPT ![k] = [[object[k] EXCEPT !.rdwr = rdwr]
                         EXCEPT !.opened = opens1]]
    BY <1>2, <1>5 DEF OpenObject
  <2>2. /\ object'[k] \in Objects
        /\ object'[k].rdwr = rdwr /\ object'[k].opened = opens1
        /\ object'[k].state = object[k].state
    BY <1>1, <2>1 DEF Objects
  <2>3. /\ object' \in [Names -> Objects]
        /\ \A j \in Names \ {k} : object'[j] = object[j]
    BY <1>1, <2>1, <2>2
  <2>4. /\ Within(disk.findex, 0)
        /\ \A j \in Names : ~object[j].opened
    BY <1>1, <1>5 DEF Fresh
  <2>5. Within(disk.findex, object[k].state.last_sequence)
    <3>1. /\ object[k].state.last_sequence \in Nat
          /\ \A s \in Serials, i \in Slot : disk.findex[s][i].sequence \in Int
      BY <1>1 DEF Numbered, Disks, IndexReg
    <3> QED
      BY <2>4, <3>1 DEF Within
  <2>6. Numbered'
    BY <1>1, <2>2, <2>3, <2>5 DEF Numbered, Writable
  <2>7. Named(disk)'
    BY <1>1 DEF Named
  <2>8. Fresh'
    BY <1>5, <2>1, <2>2, <2>3, <2>4 DEF Fresh
  <2>9. Files'
    BY <1>1, <2>1, <2>3, <2>6, <2>7, <2>8 DEF Files
  <2> QED
    BY <1>3, <2>2, <2>3, <2>9 DEF Writable
<1> QED
  BY <1>4, <1>5

(* A close saves the state of an object that may write.                    *)
LEMMA CloseFiles ==
    ASSUME Files, NEW k \in Names, CloseObject(k), created' = created
    PROVE  /\ Files'
           /\ \A j \in Names \ {k} : Writable(j)' = Writable(j)
<1>1. /\ object[k] \in Objects /\ disk \in Disks /\ Named(disk)
      /\ object \in [Names -> Objects] /\ created \in BOOLEAN
      /\ Numbered /\ Fresh
  BY DEF Files
<1>2. << >> \in Seq(Serials)
  OBVIOUS
<1>3. /\ object'[k] \in Objects
      /\ object'[k].state = object[k].state /\ ~object'[k].opened
      /\ object' \in [Names -> Objects]
      /\ \A j \in Names \ {k} : object'[j] = object[j]
  BY <1>1, <1>2 DEF CloseObject, Objects
<1>4. /\ disk' \in Disks
      /\ disk'.fdata = disk.fdata /\ disk'.findex = disk.findex
      /\ disk'.flog = disk.flog
      /\ \/ disk'.fstate = disk.fstate
         \/ Writable(k) /\ disk'.fstate = object[k].state
  BY <1>1 DEF CloseObject, Disks, Objects
<1>5. Named(disk)'
  BY <1>1, <1>4 DEF Named
<1>6. Numbered'
  BY <1>1, <1>3, <1>4 DEF Numbered, Writable
<1>7. Fresh'
  BY <1>1, <1>3, <1>4 DEF Fresh
<1> QED
  BY <1>1, <1>3, <1>4, <1>5, <1>6, <1>7 DEF Files, Writable

(* A call that gives out sequences, while no other object may write.       *)
LEMMA CallFiles ==
    ASSUME Files, NEW k \in Names, NEW st, Progress(Store(k), st),
           Becomes(k, st), created' = created,
           \A j \in Names \ {k} : ~Writable(j)
    PROVE  Files' /\ \A j \in Names : Writable(j)' = Writable(j)
<1>1. /\ object[k] \in Objects /\ disk \in Disks /\ Named(disk)
      /\ object \in [Names -> Objects] /\ created \in BOOLEAN
      /\ Numbered /\ Fresh
  BY DEF Files
<1>2. /\ StoreInv(st) /\ st \in Stores
      /\ st.state.last_sequence \in Nat /\ st.fstate.last_sequence \in Nat
  BY DEF Progress, StoreInv, Counting, Last, SavedLast
<1>3. /\ object'[k] \in Objects
      /\ object'[k].state = st.state
      /\ object'[k].opened = object[k].opened
      /\ object'[k].rdwr = object[k].rdwr
      /\ object' \in [Names -> Objects]
      /\ \A j \in Names \ {k} : object'[j] = object[j]
  BY <1>1, <1>2 DEF Becomes, Objects, Stores
<1>4. \A j \in Names : Writable(j)' = Writable(j)
  BY <1>3 DEF Writable
<1>5. CASE Writable(k)
  <2>1. disk' = FilesOf(st)
    BY <1>5 DEF Becomes
  <2>2. /\ disk' \in Disks
        /\ disk'.fdata = st.fdata /\ disk'.findex = st.findex
        /\ disk'.flog = st.flog /\ disk'.fstate = st.fstate
    BY <1>2, <2>1 DEF FilesOf, Disks, Stores
  <2>3. Covered(st)
    BY <1>5, StoresGood DEF Progress
  <2>4. Named(disk)'
    BY <1>2, <2>2 DEF StoreInv, Named
  <2>5. Numbered'
    BY <1>1, <1>2, <1>3, <1>4, <2>2, <2>3 DEF Numbered, Covered, Last, SavedLast
  <2>6. Fresh'
    BY <1>1, <1>5 DEF Fresh, Writable
  <2> QED
    BY <1>1, <1>3, <1>4, <2>2, <2>4, <2>5, <2>6 DEF Files
<1>6. CASE ~Writable(k)
  <2>1. disk' = disk
    BY <1>6 DEF Becomes
  <2>2. Named(disk)'
    BY <1>1, <2>1 DEF Named
  <2>3. Numbered'
    BY <1>1, <1>2, <1>3, <1>4, <1>6, <2>1 DEF Numbered
  <2>4. Fresh'
    BY <1>1, <1>3, <2>1 DEF Fresh
  <2> QED
    BY <1>1, <1>3, <1>4, <2>1, <2>2, <2>3, <2>4 DEF Files
<1> QED
  BY <1>5, <1>6

(***************************************************************************)
(* The handles.                                                            *)
(***************************************************************************)

(* A handle that has a storage is among its references for good, so that   *)
(* the storage stays in the map.                                           *)
Held ==
    \A h \in Handles :
        storage[h] # NoName => /\ storage[h] \in storages
                               /\ references[storage[h]] # << >>

(* A handle that opened for writing, and was not refused, is the writer of *)
(* its storage.                                                            *)
OneWriter ==
    \A h \in Handles :
        writer[h] /\ h \notin refused /\ storage[h] # NoName =>
            cssWriter[storage[h]] = h

Roles ==
    /\ storages \subseteq Names
    /\ references \in [Names -> Seq(Handles)]
    /\ cssWriter \in [Names -> Handles \cup {NoHandle}]
    /\ storage \in [Handles -> Names \cup {NoName}]
    /\ writer \in [Handles -> BOOLEAN]
    /\ alive \subseteq Handles
    /\ refused \subseteq Handles
    /\ undisturbed \subseteq Handles
    /\ opens \in [Handles -> 0..MaxOpens]
    /\ Held
    /\ OneWriter

(* A writer whose object nobody else touched since it opened it can write. *)
Alone == \A h \in undisturbed : storage[h] # NoName => Writable(storage[h])

SharedInv == Files /\ Roles /\ Alone

(* An open that is refused leaves everybody with what they had.            *)
LEMMA RefusedInv ==
    ASSUME SharedInv, NEW h \in Handles, NEW name \in Names,
           NEW flags \in OpenFlags, Open(h, name, flags),
           Refused(FindLocation(name), flags)
    PROVE  SharedInv'
<1> DEFINE k == FindLocation(name)
<1>1. k \in Names
  BY DEF FindLocation, Names
<1>2. /\ storages' = storages \cup {k}
      /\ opens[h] < MaxOpens /\ opens' = [opens EXCEPT ![h] = @ + 1]
      /\ writer' = [writer EXCEPT ![h] = TRUE]
      /\ refused' = refused \cup {h}
      /\ UNCHANGED <<alive, created, disk, object, references, cssWriter,
                     storage, undisturbed>>
  BY DEF Open, OpenRefused
<1>3. Files'
  BY <1>2 DEF SharedInv, Files, Named, Numbered, Fresh, Writable
<1>4. Alone'
  BY <1>2 DEF SharedInv, Alone, Writable
<1>5. opens' \in [Handles -> 0..MaxOpens]
  <2>1. opens[h] \in 0..MaxOpens /\ opens \in [Handles -> 0..MaxOpens]
    BY DEF SharedInv, Roles
  <2>2. opens[h] + 1 \in 0..MaxOpens
    BY <1>2, <2>1, MaxOpensAssumption
  <2> QED
    BY <1>2, <2>1, <2>2
<1>6. Held'
  BY <1>2 DEF SharedInv, Roles, Held
<1>7. OneWriter'
  BY <1>2 DEF SharedInv, Roles, OneWriter
<1>8. /\ storages' \subseteq Names /\ writer' \in [Handles -> BOOLEAN]
      /\ refused' \subseteq Handles
  BY <1>1, <1>2 DEF SharedInv, Roles
<1>9. Roles'
  BY <1>2, <1>5, <1>6, <1>7, <1>8 DEF SharedInv, Roles
<1> QED
  BY <1>3, <1>4, <1>9 DEF SharedInv

(* An open that is granted makes the handle a reference, and the writer if *)
(* it asked to be and nobody is; it disturbs the others.                   *)
LEMMA GrantedInv ==
    ASSUME SharedInv, NEW h \in Handles, NEW name \in Names,
           NEW flags \in OpenFlags, Open(h, name, flags),
           ~Refused(FindLocation(name), flags)
    PROVE  SharedInv'
<1>1. PICK k \in Names : k = FindLocation(name)
  BY DEF FindLocation, Names
<1>2. PICK wants \in BOOLEAN : wants = (flags # {})
  <2>1. (flags # {}) \in BOOLEAN
    OBVIOUS
  <2> QED
    BY <2>1, Zenon
<1>3. /\ storages' = storages \cup {k}
      /\ opens[h] < MaxOpens /\ opens' = [opens EXCEPT ![h] = @ + 1]
      /\ writer' = [writer EXCEPT ![h] = wants]
      /\ storage' = [storage EXCEPT ![h] = k]
      /\ OpenObject(k, flags)
      /\ references' = [references EXCEPT ![k] = Append(@, h)]
      /\ cssWriter' = IF wants THEN [cssWriter EXCEPT ![k] = h] ELSE cssWriter
      /\ wants => cssWriter[k] = NoHandle
      /\ refused' = refused \ {h}
      /\ undisturbed' = Disturb(h, k) \cup
                           (IF object'[k].opened /\ wants THEN {h} ELSE {})
      /\ UNCHANGED <<alive, disk>>
  <2>1. /\ storages' = storages \cup {k}
        /\ opens[h] < MaxOpens /\ opens' = [opens EXCEPT ![h] = @ + 1]
        /\ OpenGranted(h, k, flags) /\ alive' = alive
    BY <1>1 DEF Open
  <2>2. /\ writer' = [writer EXCEPT ![h] = wants]
        /\ storage' = [storage EXCEPT ![h] = k]
        /\ OpenObject(k, flags)
        /\ AddReference(h, k, wants)
        /\ refused' = refused \ {h}
        /\ undisturbed' = Disturb(h, k) \cup
                             (IF object'[k].opened /\ wants THEN {h} ELSE {})
        /\ disk' = disk
    BY <1>2, <2>1, Zenon DEF OpenGranted
  <2>3. wants => cssWriter[k] = NoHandle
    BY <1>1, <1>2 DEF Refused
  <2>4. /\ references' = [references EXCEPT ![k] = Append(@, h)]
        /\ cssWriter' = IF wants THEN [cssWriter EXCEPT ![k] = h] ELSE cssWriter
    BY <2>2, <2>3 DEF AddReference
  <2> QED
    BY <2>1, <2>2, <2>3, <2>4
<1>4. /\ Files'
      /\ \A j \in Names \ {k} : Writable(j)' = Writable(j)
      /\ object'[k].opened /\ wants => Writable(k)'
  BY <1>2, <1>3, OpenFiles DEF SharedInv
<1>5. opens' \in [Handles -> 0..MaxOpens]
  <2>1. opens[h] \in 0..MaxOpens /\ opens \in [Handles -> 0..MaxOpens]
    BY DEF SharedInv, Roles
  <2>2. opens[h] + 1 \in 0..MaxOpens
    BY <1>3, <2>1, MaxOpensAssumption
  <2> QED
    BY <1>3, <2>1, <2>2
<1>6. /\ references' \in [Names -> Seq(Handles)]
      /\ references'[k] # << >>
      /\ \A j \in Names \ {k} : references'[j] = references[j]
  <2>1. references[k] \in Seq(Handles) /\ references \in [Names -> Seq(Handles)]
    BY DEF SharedInv, Roles
  <2>2. /\ Append(references[k], h) \in Seq(Handles)
        /\ Append(references[k], h) # << >>
    <3>1. PICK list \in Seq(Handles) : list = references[k]
      BY <2>1
    <3>2. Append(list, h) \in Seq(Handles) /\ Len(Append(list, h)) = Len(list) + 1
      OBVIOUS
    <3>3. Len(list) \in Nat /\ Len(<< >>) = 0
      OBVIOUS
    <3>4. Append(list, h) # << >>
      BY <3>2, <3>3
    <3> QED
      BY <3>1, <3>2, <3>4
  <2> QED
    BY <1>3, <2>1, <2>2
<1>7. /\ storages' \subseteq Names /\ writer' \in [Handles -> BOOLEAN]
      /\ refused' \subseteq Handles
      /\ undisturbed' \subseteq Handles
      /\ storage' \in [Handles -> Names \cup {NoName}]
      /\ cssWriter' \in [Names -> Handles \cup {NoHandle}]
  BY <1>3 DEF SharedInv, Roles, Disturb
<1>8. \A g \in Handles : storage'[g] = IF g = h THEN k ELSE storage[g]
  BY <1>3 DEF SharedInv, Roles
<1>9. Held'
  <2>1. ASSUME NEW g \in Handles, storage'[g] # NoName
        PROVE  storage'[g] \in storages' /\ references'[storage'[g]] # << >>
    <3>1. CASE storage'[g] = k
      BY <1>3, <1>6, <3>1
    <3>2. CASE storage'[g] # k
      <4>1. /\ storage'[g] = storage[g] /\ storage[g] \in Names \ {k}
            /\ storage[g] \in storages /\ references[storage[g]] # << >>
        BY <1>8, <2>1, <3>2 DEF SharedInv, Roles, Held
      <4> QED
        BY <1>3, <1>6, <4>1
    <3> QED
      BY <3>1, <3>2
  <2> QED
    BY <2>1 DEF Held
<1>10. OneWriter'
  <2>1. ASSUME NEW g \in Handles, writer'[g], g \notin refused',
               storage'[g] # NoName
        PROVE  cssWriter'[storage'[g]] = g
    <3>1. CASE g = h
      <4>1. wants /\ storage'[g] = k
        BY <1>3, <1>8, <2>1, <3>1 DEF SharedInv, Roles
      <4> QED
        BY <1>3, <3>1, <4>1 DEF SharedInv, Roles
    <3>2. CASE g # h
      <4>1. /\ writer[g] /\ g \notin refused /\ storage'[g] = storage[g]
            /\ storage[g] \in Names /\ storage[g] # NoName
        BY <1>3, <1>8, <2>1, <3>2 DEF SharedInv, Roles
      <4>2. cssWriter[storage[g]] = g
        BY <4>1 DEF SharedInv, Roles, OneWriter
      <4>3. storage[g] = k => ~wants
        BY <1>3, <4>2, HandlesAssumption
      <4> QED
        BY <1>3, <4>1, <4>2, <4>3 DEF SharedInv, Roles
    <3> QED
      BY <3>1, <3>2
  <2> QED
    BY <2>1 DEF OneWriter
<1>11. Roles'
  BY <1>3, <1>5, <1>6, <1>7, <1>9, <1>10 DEF SharedInv, Roles
<1>12. Alone'
  <2>1. ASSUME NEW g \in undisturbed', storage'[g] # NoName
        PROVE  object'[storage'[g]].opened /\ object'[storage'[g]].rdwr
    <3>1. CASE g = h
      <4>1. wants /\ object'[k].opened /\ storage'[g] = k
        BY <1>3, <1>8, <2>1, <3>1 DEF Disturb
      <4> QED
        BY <1>4, <4>1 DEF Writable
    <3>2. CASE g # h
      <4>1. g \in undisturbed /\ storage[g] # k
        BY <1>3, <2>1, <3>2 DEF Disturb
      <4>2. storage'[g] = storage[g] /\ storage[g] \in Names \ {k}
        BY <1>7, <1>8, <2>1, <3>2, <4>1 DEF SharedInv, Roles
      <4>3. Writable(storage[g])
        BY <2>1, <4>1, <4>2 DEF SharedInv, Alone
      <4> QED
        BY <1>4, <4>2, <4>3 DEF Writable
    <3> QED
      BY <3>1, <3>2
  <2> QED
    BY <2>1 DEF Alone, Writable
<1> QED
  BY <1>4, <1>11, <1>12 DEF SharedInv

(* A close changes the object under all handles that have it; its storage  *)
(* stays in the map and with the handle, for it has a reference.           *)
LEMMA CloseInv ==
    ASSUME SharedInv, NEW h \in Handles, storage[h] # NoName, CloseHandle(h),
           UNCHANGED <<created, references, cssWriter, writer, opens, refused>>,
           alive' \subseteq alive
    PROVE  SharedInv'
<1>1. PICK k \in Names : k = storage[h]
  BY DEF SharedInv, Roles
<1>2. /\ CloseObject(k)
      /\ UNCHANGED <<storages, storage>>
      /\ undisturbed' = Disturb(h, k) \ {h}
  BY <1>1 DEF CloseHandle, SharedInv, Roles, Held
<1>3. Files' /\ \A j \in Names \ {k} : Writable(j)' = Writable(j)
  BY <1>2, CloseFiles DEF SharedInv
<1>4. Held' /\ OneWriter'
  BY <1>2 DEF SharedInv, Roles, Held, OneWriter
<1>5. alive' \subseteq Handles /\ undisturbed' \subseteq Handles
  BY <1>2 DEF SharedInv, Roles, Disturb
<1>6. Roles'
  BY <1>2, <1>4, <1>5 DEF SharedInv, Roles
<1>7. Alone'
  <2>1. ASSUME NEW g \in undisturbed', storage'[g] # NoName
        PROVE  object'[storage'[g]].opened /\ object'[storage'[g]].rdwr
    <3>1. g \in undisturbed /\ storage'[g] = storage[g] /\ storage[g] # k
      BY <1>2, <2>1 DEF Disturb
    <3>2. storage[g] \in Names \ {k} /\ Writable(storage[g])
      BY <2>1, <3>1 DEF SharedInv, Roles, Alone
    <3> QED
      BY <1>3, <3>1, <3>2 DEF Writable
  <2> QED
    BY <2>1 DEF Alone, Writable
<1> QED
  BY <1>3, <1>6, <1>7 DEF SharedInv

(* A forwarded call changes the object of the handle, and its files.       *)
LEMMA CallInv ==
    ASSUME SharedInv, NEW h \in Handles, NEW operation, Forward(h, operation),
           NEW st, Progress(Store(storage[h]), st), Becomes(storage[h], st)
    PROVE  SharedInv'
<1>1. /\ storage[h] \in Names
      /\ UNCHANGED <<created, shared, handles, ghosts>>
      /\ \A j \in Names \ {storage[h]} : ~Writable(j)
  BY DEF Forward, SharedInv, Roles
<1>2. created' = created
  BY <1>1
<1>3. Files' /\ \A j \in Names : Writable(j)' = Writable(j)
  BY <1>1, <1>2, CallFiles DEF SharedInv
<1>4. /\ UNCHANGED <<storages, references, cssWriter, storage, writer, alive>>
      /\ UNCHANGED <<opens, refused, undisturbed>>
  BY <1>1 DEF shared, handles, ghosts
<1>5. Held' /\ OneWriter'
  BY <1>4 DEF SharedInv, Roles, Held, OneWriter
<1>6. Roles'
  BY <1>4, <1>5 DEF SharedInv, Roles
<1>7. Alone'
  <2>1. ASSUME NEW g \in undisturbed', storage'[g] # NoName
        PROVE  object'[storage'[g]].opened /\ object'[storage'[g]].rdwr
    <3>1. storage'[g] = storage[g] /\ storage[g] \in Names /\ Writable(storage[g])
      BY <1>4, <2>1 DEF SharedInv, Roles, Alone
    <3> QED
      BY <1>3, <3>1 DEF Writable
  <2> QED
    BY <2>1 DEF Alone, Writable
<1> QED
  BY <1>3, <1>6, <1>7 DEF SharedInv

(* The records that the calls hand to writeFiles.                          *)
LEMMA CallProgress ==
    ASSUME SharedInv, NEW k \in Names, NEW ok \in BOOLEAN
    PROVE  /\ \A s \in Serials, v \in Values :
                 Progress(Store(k),
                          WriteFiles(Store(k),
                                     WriteReg(s, NextSequence(k), FALSE, v), ok))
           /\ \A st : \A type \in {"ROLLBACK_BEGIN", "ROLLBACK_END"},
                         list \in Seq(Serials) : Progress(Store(k), st) =>
                 Progress(st, WriteFiles(st, MarkReg(type, Last(st) + 1, list), ok))
           /\ LET new == WriteFiles(Store(k),
                                    MarkReg("COMMIT", NextSequence(k), << >>), ok)
              IN  /\ Progress(Store(k), new)
                  /\ Commits(Store(k), new, NextSequence(k), ok)
<1>1. /\ StoreInv(Store(k)) /\ Counting(Store(k))
      /\ NextSequence(k) = Last(Store(k)) + 1 /\ NextSequence(k) \in Int
  BY StoresGood DEF SharedInv, NextSequence, Counting
<1>2. ASSUME NEW s \in Serials, NEW v \in Values
      PROVE  Progress(Store(k),
                      WriteFiles(Store(k),
                                 WriteReg(s, NextSequence(k), FALSE, v), ok))
  <2>1. PICK auto \in BOOLEAN : auto = FALSE
    OBVIOUS
  <2>2. PICK r : r = WriteReg(s, NextSequence(k), auto, v)
    OBVIOUS
  <2>3. r \in DataReg /\ r.type = "WRITE" /\ r.serial = s
        /\ r.sequence = NextSequence(k)
    BY <1>1, <2>2, WriteRegType
  <2>4. Progress(Store(k), WriteFiles(Store(k), r, ok))
    BY <1>1, <2>3, WriteProgress
  <2> QED
    BY <2>1, <2>2, <2>4
<1>3. ASSUME NEW type \in {"ROLLBACK_BEGIN", "ROLLBACK_END"},
             NEW list \in Seq(Serials), NEW st, Progress(Store(k), st)
      PROVE  Progress(st, WriteFiles(st, MarkReg(type, Last(st) + 1, list), ok))
  <2>1. StoreInv(st) /\ Counting(st)
    BY <1>3 DEF Progress
  <2>2. PICK seq \in Int : seq = Last(st) + 1
    BY <2>1 DEF Counting
  <2>3. PICK r : r = MarkReg(type, seq, list)
    OBVIOUS
  <2>4. r \in DataReg /\ r.type = type /\ r.sequence = seq
    BY <2>3, MarkRegType DEF RecordTypes
  <2>5. Progress(st, WriteFiles(st, r, ok))
    BY <2>1, <2>2, <2>4, RollbackProgress
  <2> QED
    BY <2>2, <2>3, <2>5
<1>4. PICK r : r = MarkReg("COMMIT", NextSequence(k), << >>)
  OBVIOUS
<1>5. r = MarkReg("COMMIT", Last(Store(k)) + 1, << >>)
  BY <1>1, <1>4
<1>6. /\ Progress(Store(k), WriteFiles(Store(k), r, ok))
      /\ Commits(Store(k), WriteFiles(Store(k), r, ok), NextSequence(k), ok)
  BY <1>1, <1>5, CommitProgress
<1> QED
  BY <1>2, <1>3, <1>4, <1>6

(* The end of a transaction clears the list of dirty serials.              *)
LEMMA ClearProgress ==
    ASSUME NEW st, NEW new, Progress(st, new)
    PROVE  /\ Progress(st, ClearDirtySerials(new))
           /\ SameBut(new, ClearDirtySerials(new), {"dirty"})
<1>1. PICK clr : clr = ClearDirtySerials(new)
  OBVIOUS
<1>2. StoreInv(new) /\ new \in Stores
  BY DEF Progress, StoreInv
<1>3. StoreInv(clr) /\ SameBut(new, clr, {"dirty"})
  BY <1>1, <1>2, ClearInv, ClearEffect
<1>4. /\ clr.state = new.state /\ clr.fstate = new.fstate
      /\ clr.findex = new.findex
  BY <1>3 DEF SameBut
<1>5. Progress(st, clr)
  BY <1>3, <1>4 DEF Progress, Counting, Covered, Last, SavedLast
<1> QED
  BY <1>1, <1>3, <1>5

(* What a commit makes of the object of its handle, and of the files.      *)
LEMMA CommitBecomes ==
    ASSUME SharedInv, NEW h \in Handles, Commit(h)
    PROVE  /\ SharedInv'
           /\ Writable(storage[h]) =>
                /\ disk'.findex = disk.findex
                /\ object'[storage[h]].state.last_commit_sequence
                      = NextSequence(storage[h])
                /\ \E i \in DOMAIN disk'.fdata :
                      /\ disk'.fdata[i].type = "COMMIT"
                      /\ disk'.fdata[i].sequence = NextSequence(storage[h])
<1>1. PICK k \in Names : k = storage[h]
  BY DEF Commit, Forward, SharedInv, Roles
<1>2. PICK ok \in BOOLEAN : ok = Writable(k)
  <2>1. object[k] \in Objects
    BY DEF SharedInv, Files
  <2>2. Writable(k) \in BOOLEAN
    BY <2>1 DEF Writable, Objects
  <2> QED
    BY <2>2, Zenon
<1>3. PICK new : new = WriteFiles(Store(k),
                                  MarkReg("COMMIT", NextSequence(k), << >>), ok)
  OBVIOUS
<1>4. Progress(Store(k), new) /\ Commits(Store(k), new, NextSequence(k), ok)
  BY <1>3, CallProgress
<1>5. PICK clr : clr = ClearDirtySerials(new)
  OBVIOUS
<1>6. Progress(Store(k), clr) /\ SameBut(new, clr, {"dirty"})
  BY <1>4, <1>5, ClearProgress
<1>7. Forward(h, "COMMIT") /\ Becomes(k, clr)
  BY <1>1, <1>2, <1>3, <1>5, Zenon DEF Commit
<1>8. SharedInv'
  <2>1. Becomes(storage[h], clr) /\ Progress(Store(storage[h]), clr)
    BY <1>1, <1>6, <1>7
  <2> QED
    BY <1>7, <2>1, CallInv
<1>9. ASSUME Writable(k)
      PROVE  /\ disk'.findex = disk.findex
             /\ object'[k].state.last_commit_sequence = NextSequence(k)
             /\ \E i \in DOMAIN disk'.fdata :
                   /\ disk'.fdata[i].type = "COMMIT"
                   /\ disk'.fdata[i].sequence = NextSequence(k)
  <2>1. disk' = FilesOf(clr) /\ object'[k].state = clr.state
    <3>1. object[k] \in Objects /\ object \in [Names -> Objects]
      BY DEF SharedInv, Files
    <3> QED
      BY <1>7, <1>9, <3>1 DEF Becomes, Objects
  <2>2. /\ disk'.fdata = new.fdata /\ disk'.findex = new.findex
        /\ object'[k].state = new.state
    BY <1>6, <2>1 DEF FilesOf, SameBut
  <2>3. /\ new.findex = disk.findex
        /\ new.state.last_commit_sequence = NextSequence(k)
        /\ \E i \in DOMAIN new.fdata :
              /\ new.fdata[i].type = "COMMIT"
              /\ new.fdata[i].sequence = NextSequence(k)
    BY <1>2, <1>4, <1>9, StoresGood DEF Commits, LastSeq, SharedInv
  <2> QED
    BY <2>2, <2>3
<1> QED
  BY <1>1, <1>8, <1>9

(* Both records of a rollback give out a sequence.                         *)
LEMMA RollbackInv ==
    ASSUME SharedInv, NEW h \in Handles, Rollback(h)
    PROVE  SharedInv'
<1>1. PICK k \in Names : k = storage[h]
  BY DEF Rollback, Forward, SharedInv, Roles
<1>2. object[k] \in Objects /\ StoreInv(Store(k)) /\ Counting(Store(k))
  BY StoresGood DEF SharedInv, Files
<1>3. PICK ok \in BOOLEAN : ok = Writable(k)
  <2>1. Writable(k) \in BOOLEAN
    BY <1>2 DEF Writable, Objects
  <2> QED
    BY <2>1, Zenon
<1>4. PICK beg : beg = WriteFiles(Store(k),
                                  MarkReg("ROLLBACK_BEGIN", NextSequence(k),
                                          object[k].dirty), ok)
  OBVIOUS
<1>5. PICK none \in Seq(Serials) : none = << >>
  <2>1. << >> \in Seq(Serials)
    OBVIOUS
  <2> QED
    BY <2>1
<1>6. PICK end : end = WriteFiles(beg, MarkReg("ROLLBACK_END", Last(beg) + 1, none),
                                  ok)
  OBVIOUS
<1>7. Progress(Store(k), beg)
  <2>1. Progress(Store(k), Store(k))
    BY <1>2 DEF Progress
  <2>2. object[k].dirty \in Seq(Serials)
    BY <1>2 DEF Objects
  <2>3. NextSequence(k) = Last(Store(k)) + 1
    BY StoresGood DEF NextSequence, SharedInv
  <2> QED
    BY <1>4, <2>1, <2>2, <2>3, CallProgress
<1>8. Progress(Store(k), end)
  <2>1. Progress(beg, end)
    BY <1>6, <1>7, CallProgress
  <2> QED
    BY <1>7, <2>1, ProgressTransitive
<1>9. PICK clr : clr = ClearDirtySerials(end)
  OBVIOUS
<1>10. Progress(Store(k), clr)
  BY <1>8, <1>9, ClearProgress
<1>11. Forward(h, "ROLLBACK") /\ Becomes(k, clr)
  BY <1>1, <1>3, <1>4, <1>5, <1>6, <1>9, Zenon DEF Rollback, Last
<1>12. Becomes(storage[h], clr) /\ Progress(Store(storage[h]), clr)
  BY <1>1, <1>10, <1>11
<1> QED
  BY <1>11, <1>12, CallInv

(* write(), and applyLog with a WRITE.                                     *)
LEMMA WriteInv ==
    ASSUME SharedInv, NEW h \in Handles, NEW s \in Serials, NEW v \in Values,
           Write(h, s, v) \/ ApplyLog(h, s, v)
    PROVE  SharedInv'
<1>1. PICK k \in Names : k = storage[h]
  BY DEF Write, ApplyLog, Forward, SharedInv, Roles
<1>2. PICK ok \in BOOLEAN : ok = Writable(k)
  <2>1. object[k] \in Objects
    BY DEF SharedInv, Files
  <2>2. Writable(k) \in BOOLEAN
    BY <2>1 DEF Writable, Objects
  <2> QED
    BY <2>2, Zenon
<1>3. PICK new : new = WriteFiles(Store(k),
                                  WriteReg(s, NextSequence(k), FALSE, v), ok)
  OBVIOUS
<1>4. Progress(Store(k), new)
  BY <1>3, CallProgress
<1>5. PICK operation : Forward(h, operation)
  BY DEF Write, ApplyLog
<1>6. Becomes(k, new)
  BY <1>1, <1>2, <1>3, Zenon DEF Write, ApplyLog, WriteThrough
<1>7. Becomes(storage[h], new) /\ Progress(Store(storage[h]), new)
  BY <1>1, <1>4, <1>6
<1> QED
  BY <1>5, <1>7, CallInv

(***************************************************************************)
(* The theorems.                                                           *)
(***************************************************************************)
(* The invariant holds at first.                                           *)
LEMMA InitShared == Init => SharedInv
<1> SUFFICES ASSUME Init PROVE SharedInv
  OBVIOUS
<1>1. Files
  BY InitFiles
<1>2. \A h \in Handles : storage[h] = NoName
  BY DEF Init
<1>3. Held /\ OneWriter
  BY <1>2 DEF Held, OneWriter
<1>4. references \in [Names -> Seq(Handles)]
  <2>1. << >> \in Seq(Handles)
    OBVIOUS
  <2> QED
    BY <2>1 DEF Init
<1>5. opens \in [Handles -> 0..MaxOpens]
  BY MaxOpensAssumption DEF Init
<1>6. writer \in [Handles -> BOOLEAN] /\ refused = {} /\ undisturbed = {}
  BY DEF Init
<1>7. Roles
  BY <1>3, <1>4, <1>5, <1>6 DEF Init, Roles
<1> QED
  BY <1>1, <1>6, <1>7 DEF SharedInv, Alone

(* Every step of a handle keeps the invariant.                             *)
LEMMA NextShared == SharedInv /\ [Next]_vars => SharedInv'
<1> SUFFICES ASSUME SharedInv, [Next]_vars
             PROVE  SharedInv'
  OBVIOUS
<1>1. ASSUME NEW h \in Handles, NEW name \in Names, NEW flags \in OpenFlags,
             Open(h, name, flags)
      PROVE  SharedInv'
  BY <1>1, RefusedInv, GrantedInv
<1>2. ASSUME NEW h \in Handles, Close(h)
      PROVE  SharedInv'
  BY <1>2, CloseInv DEF Close
<1>3. ASSUME NEW h \in Handles, Destroy(h)
      PROVE  SharedInv'
  <2>1. CASE storage[h] = NoName
    <3>1. /\ UNCHANGED <<created, disk, object, storages, references, cssWriter>>
          /\ UNCHANGED <<storage, writer, opens, refused, undisturbed>>
          /\ alive' = alive \ {h}
      BY <1>3, <2>1 DEF Destroy
    <3>2. Files'
      BY <3>1 DEF SharedInv, Files, Named, Numbered, Fresh, Writable
    <3>3. Roles' /\ Alone'
      BY <3>1 DEF SharedInv, Roles, Held, OneWriter, Alone, Writable
    <3> QED
      BY <3>2, <3>3 DEF SharedInv
  <2>2. CASE storage[h] # NoName
    BY <1>3, <2>2, CloseInv DEF Destroy
  <2> QED
    BY <2>1, <2>2
<1>4. ASSUME NEW h \in Handles, NEW s \in Serials, NEW v \in Values,
             Write(h, s, v) \/ ApplyLog(h, s, v)
      PROVE  SharedInv'
  BY <1>4, WriteInv
<1>5. ASSUME NEW h \in Handles, Commit(h)
      PROVE  SharedInv'
  BY <1>5, CommitBecomes
<1>6. ASSUME NEW h \in Handles, Rollback(h)
      PROVE  SharedInv'
  BY <1>6, RollbackInv
<1>7. CASE UNCHANGED vars
  <2>1. /\ UNCHANGED <<created, disk, object, storages, references, cssWriter>>
        /\ UNCHANGED <<storage, writer, alive, opens, refused, undisturbed>>
    BY <1>7 DEF vars, shared, handles, ghosts
  <2>2. Files'
    BY <2>1 DEF SharedInv, Files, Named, Numbered, Fresh, Writable
  <2>3. Roles' /\ Alone'
    BY <2>1 DEF SharedInv, Roles, Held, OneWriter, Alone, Writable
  <2> QED
    BY <2>2, <2>3 DEF SharedInv
<1> QED
  BY <1>1, <1>2, <1>3, <1>4, <1>5, <1>6, <1>7 DEF Next

(* Types: in particular a handle names only locations that are in the map, *)
(* although close() and the destructor take them out of it.                *)
THEOREM TypeCorrect == Spec => []TypeOK
<1>1. SharedInv => TypeOK
  <2> SUFFICES ASSUME SharedInv PROVE TypeOK
    OBVIOUS
  <2>1. disk \in [fdata : Seq(DataReg), findex : [Serials -> IndexReg],
                  flog : [DOMAIN disk.flog -> LogReg], fstate : State]
    BY DEF SharedInv, Files, Disks, LogFile
  <2>2. storage \in [Handles -> storages \cup {NoName}]
    <3>1. storage \in [Handles -> Names \cup {NoName}]
      BY DEF SharedInv, Roles
    <3>2. \A h \in Handles : storage[h] \in storages \cup {NoName}
      BY DEF SharedInv, Roles, Held
    <3> QED
      BY <3>1, <3>2
  <2> QED
    BY <2>1, <2>2 DEF SharedInv, Files, Roles, Objects, TypeOK
<1> QED
  BY <1>1, InitShared, NextShared, PTL DEF Spec

(* Only the one writer of a storage writes, commits or rolls back through  *)
(* to the files, or a handle that was refused as a writer while it read:   *)
(* addReference refuses a second writer, and a handle keeps the storage it *)
(* is the writer of, whoever opens and closes.                             *)
THEOREM WritersOnly == Spec => WriterOnly
<1>1. ASSUME SharedInv, NEW h \in Handles,
             \/ \E s \in Serials, v \in Values : Write(h, s, v)
             \/ Commit(h)
             \/ Rollback(h)
      PROVE  cssWriter[storage[h]] = h \/ h \in refused
  <2>1. writer[h] /\ storage[h] # NoName
    BY <1>1 DEF Write, Commit, Rollback, Forward, AllowedOp, WriteOps
  <2> QED
    BY <1>1, <2>1 DEF SharedInv, Roles, OneWriter
<1>2. SharedInv /\ [Next]_vars =>
        [\A h \in Handles :
            /\ \/ \E s \in Serials, v \in Values : Write(h, s, v)
               \/ Commit(h)
               \/ Rollback(h)
            /\ disk' # disk
            => cssWriter[storage[h]] = h \/ h \in refused]_vars
  BY <1>1
<1> QED
  BY <1>2, InitShared, NextShared, PTL DEF Spec, WriterOnly

(* The commit of a writer that has the object for itself is in the data    *)
(* file, and committed readers then find of every serial what the writer   *)
(* found before: Alone lets it write, and its sequence is above those of   *)
(* all registers, other handles' writes included.                          *)
THEOREM CommitsKept == Spec => CommitKept
<1>1. ASSUME SharedInv, NEW h \in undisturbed, Commit(h)
      PROVE  LET k == storage[h]
             IN  /\ \E i \in DOMAIN disk'.fdata :
                       /\ disk'.fdata[i].type = "COMMIT"
                       /\ disk'.fdata[i].sequence = NextSequence(k)
                 /\ \A s \in Serials :
                       Offset(disk', object'[k].state, s, FALSE)
                           = Offset(disk, object[k].state, s, TRUE)
  <2>1. PICK k \in Names : k = storage[h]
    BY <1>1 DEF Commit, Forward, SharedInv, Roles
  <2>2. h \in Handles /\ Writable(k)
    BY <1>1, <2>1 DEF Commit, Forward, SharedInv, Roles, Alone
  <2>3. /\ disk'.findex = disk.findex
        /\ object'[k].state.last_commit_sequence = NextSequence(k)
        /\ \E i \in DOMAIN disk'.fdata :
              /\ disk'.fdata[i].type = "COMMIT"
              /\ disk'.fdata[i].sequence = NextSequence(k)
    BY <1>1, <2>1, <2>2, CommitBecomes
  <2>4. /\ object[k].state.last_sequence \in Nat /\ disk \in Disks
        /\ Within(disk.findex, object[k].state.last_sequence)
    BY <1>1, <2>2 DEF SharedInv, Files, Numbered
  <2>5. ASSUME NEW s \in Serials
        PROVE  Offset(disk', object'[k].state, s, FALSE)
                  = Offset(disk, object[k].state, s, TRUE)
    <3>1. PICK ix \in IndexReg : ix = disk.findex[s]
      BY <2>4 DEF Disks
    <3>2. \A i \in Slot : /\ ix[i].sequence \in Int
                          /\ ix[i].sequence <= NextSequence(k)
      BY <2>4, <3>1 DEF Within, NextSequence, IndexReg
    <3>3. PICK dirty \in BOOLEAN, clean \in BOOLEAN : dirty = TRUE /\ clean = FALSE
      OBVIOUS
    <3>4. \A lcs, rcs : rcs = NextSequence(k) =>
             GetLastOffset(ix, rcs, clean) = GetLastOffset(ix, lcs, dirty)
      BY <3>2, <3>3 DEF GetLastOffset, Readable, Slot
    <3> QED
      BY <2>3, <3>1, <3>3, <3>4 DEF Offset
  <2> QED
    BY <2>1, <2>3, <2>5
<1>2. SharedInv /\ [Next]_vars =>
        [\A h \in undisturbed :
            Commit(h) =>
             LET k == storage[h]
             IN  /\ \E i \in DOMAIN disk'.fdata :
                       /\ disk'.fdata[i].type = "COMMIT"
                       /\ disk'.fdata[i].sequence = NextSequence(k)
                 /\ \A s \in Serials :
                       Offset(disk', object'[k].state, s, FALSE)
                           = Offset(disk, object[k].state, s, TRUE)]_vars
  BY <1>1
<1> QED
  BY <1>2, InitShared, NextShared, PTL DEF Spec, CommitKept
=============================================================================
