------------------------- MODULE SafeStorageProofs -------------------------
(***************************************************************************)
(* Proofs about SafeStorage for every set of serials and values, every       *)
(* status period, every bound and every behaviour of the caller.             *)
(*                                                                           *)
(* The calls of SafeStorage are chains of operators on a store. Inv says     *)
(* that the store is good (StoreInv), from which the names of index and log  *)
(* follow; Inv2 adds what the saved state carries while a transaction is     *)
(* open. As long as no append fails, LogInv adds that data file and log      *)
(* enumerate the same records and how far the saved state may lag.           *)
(*                                                                           *)
(* The third part shows that the storage with its index of two slots         *)
(* implements the transactional store TxStore, the fourth one what a replica *)
(* of it promises (SafeReplica), the last one that index and counters are    *)
(* what a replay of the data file gives (DataIsMaster).                      *)
(***************************************************************************)
EXTENDS SafeReplica, SafeFilesProofs, FiniteSetTheorems,
        WellFoundedInduction

(***************************************************************************)
(* The calls.                                                              *)
(***************************************************************************)
Inv == StoreInv(Store) /\ fauto_commit \in BOOLEAN /\ opened \in BOOLEAN

(* Good stores have the properties the runs check.                         *)
LEMMA InvImplies == Inv => TypeOK /\ IndexNamesRecord /\ LogNamesRecord
<1> SUFFICES ASSUME Inv
             PROVE  TypeOK /\ IndexNamesRecord /\ LogNamesRecord
  OBVIOUS
<1>1. Store \in Stores
  BY DEF Inv, StoreInv
<1>2. /\ Store.fdata = fdata /\ Store.findex = findex /\ Store.flog = flog
      /\ Store.fstate = fstate /\ Store.state = state
      /\ Store.dirty = dirtySerials
  BY DEF Store
<1>3. /\ fdata \in Seq(DataReg) /\ findex \in [Serials -> IndexReg]
      /\ flog \in LogFile /\ fstate \in State /\ state \in State
      /\ dirtySerials \in Seq(Serials)
  BY <1>1, <1>2 DEF Stores
<1>4. flog \in [DOMAIN flog -> LogReg] /\ DOMAIN flog \subseteq Int
  <2>1. PICK D \in SUBSET Int : flog \in [D -> LogReg]
    BY <1>3 DEF LogFile
  <2> QED
    BY <2>1
<1>5. TypeOK
  BY <1>3, <1>4 DEF Inv, TypeOK
<1>6. DOMAIN fdata = 1 .. Len(fdata)
  BY <1>3
<1>7. IndexNamesRecord
  <2>1. \A s \in Serials, i \in Slot : SlotNamed(fdata, s, findex[s][i])
    BY <1>2 DEF Inv, StoreInv
  <2> QED
    BY <1>6, <2>1 DEF IndexNamesRecord, SlotNamed
<1>8. LogNamesRecord
  <2>1. \A q \in DOMAIN flog : EntryNamed(fdata, q, flog[q])
    BY <1>2 DEF Inv, StoreInv
  <2> QED
    BY <1>6, <2>1 DEF LogNamesRecord, EntryNamed
<1> QED
  BY <1>5, <1>7, <1>8

(* The invariant, from the first open on.                                  *)
LEMMA InitInv == Init => Inv
<1> SUFFICES ASSUME Init PROVE Inv
  OBVIOUS
<1>1. /\ << >> \in Seq(DataReg) /\ << >> \in Seq(Serials)
      /\ Len(<< >>) = 0
  OBVIOUS
<1>2. << >> \in [{} -> LogReg] /\ {} \in SUBSET Int
  OBVIOUS
<1>3. << >> \in LogFile
  BY <1>2 DEF LogFile
<1>4. ZeroState \in State
  BY DEF ZeroState, State
<1>5. EmptyIndex \in IndexReg
  BY DEF EmptyIndex, IndexReg
<1>6. Store \in Stores
  BY <1>1, <1>3, <1>4, <1>5 DEF Init, Store, Stores
<1>7. \A s \in Serials, i \in Slot : SlotNamed(Store.fdata, s, Store.findex[s][i])
  BY DEF Init, Store, SlotNamed, EmptyIndex
<1>8. \A q \in DOMAIN Store.flog : EntryNamed(Store.fdata, q, Store.flog[q])
  BY DEF Init, Store
<1> QED
  BY <1>6, <1>7, <1>8 DEF Init, Inv, StoreInv

(* A call that ends with a good store preserves the invariant.             *)
LEMMA BecomesInv ==
    ASSUME NEW st, StoreInv(st), Becomes(st),
           fauto_commit' \in BOOLEAN, opened' \in BOOLEAN
    PROVE  Inv'
<1>1. st \in Stores
  BY DEF StoreInv
<1>2. /\ Store' \in Stores
      /\ Store'.fdata = st.fdata /\ Store'.findex = st.findex
      /\ Store'.flog = st.flog
  BY <1>1 DEF Becomes, Store, Stores
<1>3. StoreInv(Store')
  BY <1>2, SameFilesInv
<1>4. StoreInv(Store)'
  BY <1>3 DEF StoreInv
<1> QED
  BY <1>4 DEF Inv

(* Appends succeed or fail.                                                *)
LEMMA AppendOutcomesType == AppendOutcomes \subseteq BOOLEAN
  BY DEF AppendOutcomes

(* The sequence a call gives out.                                          *)
LEMMA NextSequence == Inv => state.last_sequence + 1 \in Int
  BY DEF Inv, StoreInv, Stores, Store, State

(* write() preserves the invariant, in either mode and whether its append  *)
(* succeeds or fails.                                                      *)
LEMMA WriteInv ==
    ASSUME Inv, NEW s \in Serials, NEW v \in Values, NEW ok \in BOOLEAN,
           Write(s, v, ok)
    PROVE  Inv'
<1> DEFINE seq == state.last_sequence + 1
           r   == WriteReg(s, seq, fauto_commit, v)
<1>1. r \in DataReg /\ r.serial \in Serials
  <2>1. seq \in Int /\ fauto_commit \in BOOLEAN
    BY NextSequence DEF Inv
  <2> HIDE DEF seq
  <2> QED
    BY <2>1, WriteRegType
<1>2. StoreInv(WriteFiles(Store, r, ok))
  <2> HIDE DEF r
  <2> QED
    BY <1>1, WriteFilesInv DEF Inv
<1>3. Becomes(WriteFiles(Store, r, ok))
  BY DEF Write
<1>4. fauto_commit' \in BOOLEAN /\ opened' \in BOOLEAN
  BY DEF Write, Inv
<1> HIDE DEF r
<1> QED
  BY <1>2, <1>3, <1>4, BecomesInv

(* commit() preserves the invariant.                                       *)
LEMMA CommitInv ==
    ASSUME Inv, NEW ok \in BOOLEAN, Commit(ok)
    PROVE  Inv'
<1> DEFINE new == WriteFiles(Store,
                             MarkReg("COMMIT", state.last_sequence + 1, << >>),
                             ok)
<1>1. StoreInv(new)
  <2>1. /\ "COMMIT" \in RecordTypes /\ << >> \in Seq(Serials)
        /\ Store.state = state /\ StoreInv(Store)
    BY DEF RecordTypes, Store, Inv
  <2> QED
    BY <2>1, MarkInv
<1>2. Becomes(ClearDirtySerials(new))
  BY DEF Commit
<1>3. fauto_commit' \in BOOLEAN /\ opened' \in BOOLEAN
  BY DEF Commit, Inv
<1> HIDE DEF new
<1> QED
  BY <1>1, <1>2, <1>3, ClearInv, BecomesInv

(* rollback() preserves the invariant with its two records.                *)
LEMMA RollbackInv ==
    ASSUME Inv, NEW ok1 \in BOOLEAN, NEW ok2 \in BOOLEAN, Rollback(ok1, ok2)
    PROVE  Inv'
<1> DEFINE beg == RollbackBegin(ok1)
           end == RollbackEnd(beg, ok2)
<1>1. StoreInv(beg)
  <2>1. /\ "ROLLBACK_BEGIN" \in RecordTypes /\ dirtySerials \in Seq(Serials)
        /\ Store.state = state /\ StoreInv(Store)
    BY InvImplies DEF RecordTypes, Store, Inv, TypeOK
  <2> QED
    BY <2>1, MarkInv DEF RollbackBegin
<1>2. StoreInv(end)
  <2> HIDE DEF beg
  <2>1. "ROLLBACK_END" \in RecordTypes /\ << >> \in Seq(Serials)
    BY DEF RecordTypes
  <2> QED
    BY <1>1, <2>1, MarkInv DEF RollbackEnd
<1>3. Becomes(ClearDirtySerials(end))
  BY DEF Rollback
<1>4. fauto_commit' \in BOOLEAN /\ opened' \in BOOLEAN
  BY DEF Rollback, Inv
<1> HIDE DEF end
<1> QED
  BY <1>2, <1>3, <1>4, ClearInv, BecomesInv

(* close() saves the state and leaves the records alone.                   *)
LEMMA CloseInv == ASSUME Inv, Close PROVE Inv'
<1>1. StoreInv(ClearDirtySerials(SaveState(Store)))
  BY SaveStateInv, ClearInv DEF Inv
<1> QED
  BY <1>1, BecomesInv DEF Close

(* Opening and dying change the object alone.                              *)
LEMMA ObjectInv ==
    ASSUME Inv, UNCHANGED files, state' \in State,
           dirtySerials' \in Seq(Serials),
           fauto_commit' \in BOOLEAN, opened' \in BOOLEAN
    PROVE  Inv'
<1>1. Store \in Stores /\ StoreInv(Store)
  BY DEF Inv, StoreInv
<1>2. /\ Store' \in Stores
      /\ Store'.fdata = Store.fdata /\ Store'.findex = Store.findex
      /\ Store'.flog = Store.flog
  BY <1>1 DEF files, Store, Stores
<1>3. StoreInv(Store')
  BY <1>1, <1>2, SameFilesInv
<1>4. StoreInv(Store)'
  BY <1>3 DEF StoreInv
<1> QED
  BY <1>4 DEF Inv

(* The invariant is inductive.                                             *)
LEMMA NextInv == ASSUME Inv, [Next]_vars PROVE Inv'
<1> USE AppendOutcomesType
<1>1. CASE \E s \in Serials, v \in Values, ok \in AppendOutcomes : Write(s, v, ok)
  BY <1>1, WriteInv
<1>2. CASE \E ok \in AppendOutcomes : Commit(ok)
  BY <1>2, CommitInv
<1>3. CASE \E ok1, ok2 \in AppendOutcomes : Rollback(ok1, ok2)
  BY <1>3, RollbackInv
<1>4. CASE Close
  BY <1>4, CloseInv
<1>5. CASE \E auto \in BOOLEAN : Open(auto)
  <2>1. fstate \in State /\ dirtySerials \in Seq(Serials)
    BY InvImplies DEF TypeOK
  <2> QED
    BY <1>5, <2>1, ObjectInv DEF Open, files
<1>6. CASE Crash
  <2>1. ZeroState \in State /\ << >> \in Seq(Serials)
    BY DEF ZeroState, State
  <2> QED
    BY <1>6, <2>1, ObjectInv DEF Crash
<1>7. CASE UNCHANGED vars
  <2>1. Store' = Store /\ fauto_commit' = fauto_commit /\ opened' = opened
    BY <1>7 DEF vars, Store
  <2> QED
    BY <2>1 DEF Inv, StoreInv
<1> QED
  BY <1>1, <1>2, <1>3, <1>4, <1>5, <1>6, <1>7 DEF Next

(* The invariant holds in every behaviour of the storage.                  *)
LEMMA Invariant == Spec => []Inv
<1>1. Init => Inv
  BY InitInv
<1>2. Inv /\ [Next]_vars => Inv'
  BY NextInv
<1> QED
  BY <1>1, <1>2, PTL DEF Spec

(* The files and the object always have their declared types.              *)
THEOREM TypeCorrect == Spec => []TypeOK
<1>1. Inv => TypeOK
  BY InvImplies
<1> QED
  BY <1>1, Invariant, PTL

(* Whatever the caller does, whenever the process dies, whichever append   *)
(* fails: a slot of the index with an offset leads read() to the WRITE     *)
(* record of its serial, and repeats its sequence and its mode.            *)
THEOREM IndexNames == Spec => []IndexNamesRecord
<1>1. Inv => IndexNamesRecord
  BY InvImplies
<1> QED
  BY <1>1, Invariant, PTL

(* And an entry of the log with an offset leads readLog() to the record of *)
(* its sequence, type and serial.                                          *)
THEOREM LogNames == Spec => []LogNamesRecord
<1>1. Inv => LogNamesRecord
  BY InvImplies
<1> QED
  BY <1>1, Invariant, PTL

(***************************************************************************)
(* Open transactions and the saved state.  Only four things matter here:   *)
(* the dirty serials, the mode, and the last commit sequence of the state  *)
(* in memory and of the saved one.                                         *)
(***************************************************************************)
(* Nothing has happened to the lists and the commit sequences.             *)
SameObject(st, new) ==
    /\ new.dirty = st.dirty /\ new.auto = st.auto
    /\ LastSeq(new) = LastSeq(st) /\ SavedSeq(new) = SavedSeq(st)

(* new is st with its state saved, or not.                                 *)
MaybeSaved(st, new) ==
    /\ new.dirty = st.dirty /\ new.auto = st.auto
    /\ LastSeq(new) = LastSeq(st)
    /\ SavedSeq(new) \in {SavedSeq(st), LastSeq(st)}

(* Writing data and log and counting records commits nothing and saves     *)
(* nothing.                                                                *)
LEMMA FilesSameObject ==
    ASSUME NEW st \in Stores, NEW r, NEW ok \in BOOLEAN, NEW seq, NEW offset,
           NEW serial, NEW type
    PROVE  /\ SameObject(st, WriteData(st, r, ok))
           /\ SameObject(st, WriteLog(st, seq, offset, serial, type))
           /\ SameObject(st, CountRecord(st, seq))
  BY DEF SameObject, LastSeq, SavedSeq, WriteData, WriteLog, CountRecord,
         Stores, State

(* A snapshot saves the state or does nothing.                             *)
LEMMA StatusSnapshotObject ==
    ASSUME NEW st, StoreInv(st), NEW ok \in BOOLEAN
    PROVE  MaybeSaved(st, StatusSnapshot(st, ok))
<1> DEFINE seq == st.state.last_sequence + 1
           c   == CountRecord(st, seq)
           m   == MarkReg("STATUS", seq, << >>)
           w   == WriteData(c, m, ok)
           lg  == WriteLog(w, seq, DataOffset(w, ok), NoSerial, "STATUS")
<1>1. st \in Stores /\ seq \in Int
  BY DEF StoreInv, Stores, State
<1>2. StoreInv(c) /\ c \in Stores /\ SameObject(st, c)
  <2> HIDE DEF seq
  <2>1. StoreInv(c)
    BY <1>1, CountRecordInv
  <2> QED
    BY <1>1, <2>1, FilesSameObject DEF StoreInv
<1>3. w \in Stores /\ SameObject(c, w)
  <2>1. m \in DataReg
    <3>1. << >> \in Seq(Serials)
      OBVIOUS
    <3> HIDE DEF seq
    <3> QED
      BY <1>1, <3>1 DEF MarkReg, DataReg, RecordTypes
  <2> HIDE DEF c, m
  <2>2. StoreInv(w)
    BY <1>2, <2>1, WriteDataInv
  <2> QED
    BY <1>2, <2>2, FilesSameObject DEF StoreInv
<1>4. SameObject(w, lg)
  <2> HIDE DEF w
  <2> QED
    BY <1>3, FilesSameObject
<1>5. /\ SaveState(lg).dirty = lg.dirty /\ SaveState(lg).auto = lg.auto
      /\ SaveState(lg).state = lg.state /\ SaveState(lg).fstate = lg.state
  <2> HIDE DEF w
  <2> QED
    BY <1>3 DEF SaveState, WriteLog, Stores
<1> HIDE DEF c, w, lg
<1>6. MaybeSaved(st, SaveState(lg))
  BY <1>2, <1>3, <1>4, <1>5 DEF SameObject, MaybeSaved, LastSeq, SavedSeq
<1>7. StatusSnapshot(st, ok) \in {st, SaveState(lg)}
  BY DEF StatusSnapshot, c, w, lg
<1> QED
  BY <1>6, <1>7 DEF MaybeSaved

(* A successful WRITE saves the state; a failed one leaves the object as   *)
(* it was, except for its counters.                                        *)
LEMMA ApplyWriteObject ==
    ASSUME NEW st, StoreInv(st), NEW r \in DataReg, r.type = "WRITE",
           r.serial \in Serials, NEW ok \in BOOLEAN
    PROVE  LET new == ApplyWrite(st, r, ok)
           IN  IF ok
               THEN /\ SavedSeq(new) = LastSeq(new)
                    /\ LastSeq(new) = LastSeq(st)
               ELSE SameObject(st, new)
<1> DEFINE c   == [st EXCEPT !.state.data_count = @ + 1]
           w   == WriteData(c, r, ok)
           off == DataOffset(w, ok)
           ix  == SetOldestOffset(st.findex[r.serial], off, r.sequence, r.auto,
                                  st.findex[r.serial] = EmptyIndex)
           ad  == AddDirtySerial(w, r.serial)
           lg  == WriteLog(SaveState(ad), r.sequence, off, r.serial, r.type)
           wi  == WriteIndex(lg, r.serial, ix)
<1>1. c \in Stores /\ StoreInv(c) /\ SameObject(st, c)
  <2> DEFINE s1 == [st.state EXCEPT !.data_count = @ + 1]
  <2>0. st \in Stores /\ st.state \in State
    BY DEF StoreInv, Stores
  <2>1. s1 \in State /\ s1.last_commit_sequence = st.state.last_commit_sequence
    BY <2>0 DEF State
  <2>2. c = [st EXCEPT !.state = s1]
    BY <2>0 DEF Stores, State
  <2> HIDE DEF s1
  <2>3. /\ c \in Stores /\ c.state = s1 /\ c.fstate = st.fstate
        /\ c.dirty = st.dirty /\ c.auto = st.auto
        /\ c.fdata = st.fdata /\ c.findex = st.findex /\ c.flog = st.flog
    BY <2>0, <2>1, <2>2 DEF Stores
  <2> HIDE DEF c
  <2>4. StoreInv(c)
    BY <2>3, SameFilesInv
  <2> QED
    BY <2>1, <2>3, <2>4 DEF SameObject, LastSeq, SavedSeq
<1>2. w \in Stores /\ StoreInv(w) /\ SameObject(c, w)
  <2> HIDE DEF c
  <2>1. StoreInv(w)
    BY <1>1, WriteDataInv
  <2> QED
    BY <1>1, <2>1, FilesSameObject DEF StoreInv
<1>3. CASE ~ok
  <2>1. ApplyWrite(st, r, ok) = w
    BY <1>3 DEF ApplyWrite
  <2> HIDE DEF c, w
  <2> QED
    BY <1>1, <1>2, <1>3, <2>1 DEF SameObject
<1>4. CASE ok
  <2>1. ApplyWrite(st, r, ok) = wi
    BY <1>4 DEF ApplyWrite
  <2> HIDE DEF c, w, off, ix
  <2>2. ad \in Stores /\ ad.state = w.state
    <3>1. StoreInv(ad)
      BY <1>2, DirtyInv
    <3> QED
      BY <1>2, <3>1 DEF StoreInv, AddDirtySerial, Stores
  <2> HIDE DEF ad
  <2>3. wi.state = ad.state /\ wi.fstate = ad.state
    BY <2>2 DEF WriteIndex, WriteLog, SaveState, Stores
  <2> HIDE DEF wi
  <2> QED
    BY <1>1, <1>2, <1>4, <2>1, <2>2, <2>3 DEF SameObject, LastSeq, SavedSeq
<1> QED
  BY <1>3, <1>4

(* While serials are dirty, the saved state knows the last commit.         *)
Carried(st) == st.dirty # << >> => SavedSeq(st) = LastSeq(st)

(* A WRITE makes its serial dirty in the call that saves the state.        *)
LEMMA WriteCarried ==
    ASSUME NEW st, StoreInv(st), Carried(st), NEW r \in DataReg,
           r.type = "WRITE", r.serial \in Serials, NEW ok \in BOOLEAN
    PROVE  Carried(WriteFiles(st, r, ok))
<1> DEFINE c == CountRecord(st, r.sequence)
           a == ApplyWrite(c, r, ok)
<1>1. r.sequence \in Int /\ st \in Stores
  BY DEF DataReg, StoreInv
<1>2. StoreInv(c) /\ SameObject(st, c)
  BY <1>1, CountRecordInv, FilesSameObject
<1> HIDE DEF c
<1>3. StoreInv(a)
  BY <1>2, ApplyWriteInv
<1>4. IF ok THEN SavedSeq(a) = LastSeq(a) ELSE SameObject(c, a)
  BY <1>2, ApplyWriteObject
<1> HIDE DEF a
<1>5. CASE ok
  <2>1. WriteFiles(st, r, ok) = StatusSnapshot(a, ok)
    BY <1>5 DEF WriteFiles, a, c
  <2>2. MaybeSaved(a, StatusSnapshot(a, ok))
    BY <1>3, StatusSnapshotObject
  <2> QED
    BY <1>4, <1>5, <2>1, <2>2 DEF MaybeSaved, Carried
<1>6. CASE ~ok
  <2>1. WriteFiles(st, r, ok) = a
    BY <1>6 DEF WriteFiles, a, c
  <2> QED
    BY <1>2, <1>4, <1>6, <2>1 DEF SameObject, Carried
<1> QED
  BY <1>5, <1>6

(* The invariant, and every earlier commit in the state file while a       *)
(* transaction is open.                                                    *)
Inv2 == Inv /\ Carried(Store)

(* The strengthened invariant is inductive.                                *)
LEMMA NextInv2 == ASSUME Inv2, [Next]_vars PROVE Inv2'
<1> USE AppendOutcomesType
<1>0. Inv /\ Carried(Store) /\ Inv'
  BY NextInv DEF Inv2
<1>1. ASSUME NEW s \in Serials, NEW v \in Values, NEW ok \in BOOLEAN,
             Write(s, v, ok)
      PROVE  Carried(Store)'
  <2> DEFINE seq == state.last_sequence + 1
             r   == WriteReg(s, seq, fauto_commit, v)
             new == WriteFiles(Store, r, ok)
  <2>1. r \in DataReg /\ r.type = "WRITE" /\ r.serial \in Serials
    <3>1. seq \in Int /\ fauto_commit \in BOOLEAN
      BY <1>0, NextSequence DEF Inv
    <3> HIDE DEF seq
    <3> QED
      BY <3>1, WriteRegType
  <2> HIDE DEF r
  <2>2. Carried(new)
    BY <1>0, <2>1, WriteCarried DEF Inv
  <2>3. /\ dirtySerials' = new.dirty /\ fstate' = new.fstate
        /\ state' = new.state
    BY <1>1 DEF Write, Becomes, r
  <2> HIDE DEF new
  <2> QED
    BY <2>2, <2>3 DEF Carried, Store, LastSeq, SavedSeq
<1>2. ASSUME dirtySerials' = << >>
      PROVE  Carried(Store)'
  BY <1>2 DEF Carried, Store
<1>3. ASSUME NEW st \in Stores, Becomes(ClearDirtySerials(st))
      PROVE  dirtySerials' = << >>
  BY <1>3 DEF Becomes, ClearDirtySerials, Stores
<1>4. ASSUME NEW ok \in BOOLEAN, Commit(ok)
      PROVE  dirtySerials' = << >>
  <2> DEFINE new == WriteFiles(Store,
                        MarkReg("COMMIT", state.last_sequence + 1, << >>), ok)
  <2>1. StoreInv(new)
    <3>1. /\ "COMMIT" \in RecordTypes /\ << >> \in Seq(Serials)
          /\ Store.state = state /\ StoreInv(Store)
      BY <1>0 DEF RecordTypes, Store, Inv
    <3> QED
      BY <3>1, MarkInv
  <2>2. Becomes(ClearDirtySerials(new))
    BY <1>4 DEF Commit
  <2> HIDE DEF new
  <2> QED
    BY <1>3, <2>1, <2>2 DEF StoreInv
<1>5. ASSUME NEW ok1 \in BOOLEAN, NEW ok2 \in BOOLEAN, Rollback(ok1, ok2)
      PROVE  dirtySerials' = << >>
  <2> DEFINE end == RollbackEnd(RollbackBegin(ok1), ok2)
  <2>1. StoreInv(RollbackBegin(ok1))
    <3>1. /\ "ROLLBACK_BEGIN" \in RecordTypes /\ dirtySerials \in Seq(Serials)
          /\ Store.state = state /\ StoreInv(Store)
      BY <1>0, InvImplies DEF RecordTypes, Store, Inv, TypeOK
    <3> QED
      BY <3>1, MarkInv DEF RollbackBegin
  <2>2. StoreInv(end)
    <3>1. "ROLLBACK_END" \in RecordTypes /\ << >> \in Seq(Serials)
      BY DEF RecordTypes
    <3> QED
      BY <2>1, <3>1, MarkInv DEF RollbackEnd
  <2>3. Becomes(ClearDirtySerials(end))
    BY <1>5 DEF Rollback
  <2> HIDE DEF end
  <2> QED
    BY <1>3, <2>2, <2>3 DEF StoreInv
<1>6. ASSUME Close PROVE dirtySerials' = << >>
  <2>1. StoreInv(SaveState(Store))
    BY <1>0, SaveStateInv DEF Inv
  <2> QED
    BY <1>3, <1>6, <2>1 DEF Close, StoreInv
<1>7. ASSUME NEW auto \in BOOLEAN, Open(auto) PROVE Carried(Store)'
  BY <1>7 DEF Open, Carried, Store, LastSeq, SavedSeq
<1>8. ASSUME Crash PROVE dirtySerials' = << >>
  BY <1>8 DEF Crash
<1>9. ASSUME UNCHANGED vars PROVE Carried(Store)'
  BY <1>0, <1>9 DEF vars, Store, Carried, LastSeq, SavedSeq
<1>10. Carried(Store)'
  BY <1>1, <1>2, <1>4, <1>5, <1>6, <1>7, <1>8, <1>9 DEF Next
<1> QED
  BY <1>0, <1>10 DEF Inv2

(* While a transaction is open every commit before it is in the state      *)
(* file, whatever the caller does, whenever the process dies, whichever    *)
(* append fails.                                                           *)
THEOREM TransactionsPublished == Spec => []OpenTransactionPublished
<1>1. Init => Inv2
  <2>1. Init => Carried(Store)
    BY DEF Init, Carried, Store
  <2> QED
    BY <2>1, InitInv DEF Inv2
<1>2. Inv2 /\ [Next]_vars => Inv2'
  BY NextInv2
<1>3. Inv2 => OpenTransactionPublished
  BY DEF Inv2, Carried, Store, LastSeq, SavedSeq, OpenTransactionPublished
<1> QED
  BY <1>1, <1>2, <1>3, PTL DEF Spec

(***************************************************************************)
(* What the log promises.                                                  *)
(***************************************************************************)

(* The sequence of the last record of the data file.                       *)
Top(fd) == IF fd = << >> THEN 0 ELSE fd[Len(fd)].sequence

(* The sequence of the record before the i-th one.                         *)
Previous(fd, i) == IF i = 1 THEN 0 ELSE fd[i - 1].sequence

(* What LogEnumeratesData says of record i.                                *)
RecordOK(fd, log, i) ==
    LET q == fd[i].sequence
    IN  /\ q = Previous(fd, i) + 1 \/ ("crash" \in Allowed /\ q <= Previous(fd, i))
        /\ fd[i].type \in {"ROLLBACK_END", "STATUS"} => q = Previous(fd, i) + 1
        /\ (\A j \in DOMAIN fd : fd[j].sequence = q => j <= i) =>
               /\ log[q].type = fd[i].type
               /\ log[q].offset \in {0, i}

(* The log has exactly the sequences of the data file, and each record     *)
(* follows the one before it.                                              *)
Enumerates(fd, log) ==
    /\ DOMAIN log = {fd[i].sequence : i \in DOMAIN fd}
    /\ \A i \in DOMAIN fd : RecordOK(fd, log, i)

(* A record may come next: after the last one, or after a crash with a     *)
(* sequence that was given out before.                                     *)
MayFollow(fd, r) ==
    /\ \/ r.sequence = Top(fd) + 1
       \/ "crash" \in Allowed /\ r.sequence <= Top(fd)
    /\ r.type \in {"ROLLBACK_END", "STATUS"} => r.sequence = Top(fd) + 1

(* The files fd1 and log1 enumerate the same records and one more.         *)
Continues(fd1, log1, log, q) ==
    /\ Enumerates(fd1, log1)
    /\ Top(fd1) = q
    /\ DOMAIN log1 = DOMAIN log \cup {q}

(* A record of the next sequence, or of one that is given out again, may   *)
(* be appended and logged.                                                 *)
LEMMA AppendEnumerates ==
    ASSUME NEW fd \in Seq(DataReg), NEW log, Enumerates(fd, log),
           NEW r \in DataReg, MayFollow(fd, r),
           NEW off \in {0, Len(fd) + 1}, NEW serial
    PROVE  Continues(Append(fd, r), LogWith(log, r.sequence, off, serial, r.type),
                     log, r.sequence)
<1> DEFINE n == Len(fd)
           q == r.sequence
<1>1. PICK fd1, log1 : /\ fd1 = Append(fd, r)
                       /\ log1 = LogWith(log, q, off, serial, r.type)
  OBVIOUS
<1>2. /\ n \in Nat /\ Len(fd1) = n + 1 /\ fd1 # << >>
      /\ DOMAIN fd = 1 .. n /\ DOMAIN fd1 = 1 .. n + 1
      /\ fd1[n + 1] = r
      /\ \A i \in 1 .. n : fd1[i] = fd[i]
      /\ n + 1 \in 1 .. n + 1
  BY <1>1
<1>4. /\ DOMAIN log1 = DOMAIN log \cup {q}
      /\ log1[q] = [offset |-> off, serial |-> serial, type |-> r.type]
      /\ \A p \in DOMAIN log : p # q => log1[p] = log[p]
  BY <1>1 DEF LogWith
<1>5. DOMAIN log1 = {fd1[i].sequence : i \in DOMAIN fd1}
  <2>1. DOMAIN log = {fd[i].sequence : i \in 1 .. n}
    BY <1>2 DEF Enumerates
  <2>2. {fd1[i].sequence : i \in 1 .. n + 1} = {fd1[i].sequence : i \in 1 .. n} \cup {q}
    BY <1>2
  <2>3. {fd1[i].sequence : i \in 1 .. n} = {fd[i].sequence : i \in 1 .. n}
    BY <1>2
  <2> QED
    BY <1>2, <1>4, <2>1, <2>2, <2>3
<1>6. Top(fd1) = q
  BY <1>2 DEF Top
<1>7. Previous(fd1, n + 1) = Top(fd)
  <2>1. CASE n = 0
    BY <1>2, <2>1 DEF Previous, Top
  <2>2. CASE n # 0
    <3>1. fd # << >> /\ n + 1 # 1 /\ (n + 1) - 1 = n /\ n \in 1 .. n
      BY <1>2, <2>2
    <3> QED
      BY <1>2, <3>1 DEF Previous, Top
  <2> QED
    BY <2>1, <2>2
<1>8. RecordOK(fd1, log1, n + 1)
  <2>1. /\ fd1[n + 1].sequence = q /\ fd1[n + 1].type = r.type
        /\ log1[q].type = r.type /\ log1[q].offset = off
    BY <1>2, <1>4
  <2> QED
    BY <1>7, <2>1 DEF RecordOK, MayFollow
<1>9. ASSUME NEW i \in 1 .. n
      PROVE  RecordOK(fd1, log1, i)
  <2>1. RecordOK(fd, log, i)
    BY <1>2 DEF Enumerates
  <2>2. fd1[i] = fd[i] /\ Previous(fd1, i) = Previous(fd, i)
    <3>1. i # 1 => i - 1 \in 1 .. n
      BY <1>2
    <3> QED
      BY <1>2, <3>1 DEF Previous
  <2>3. PICK p : p = fd[i].sequence
    OBVIOUS
  <2>4. CASE p = q
    <3>1. ~(\A j \in DOMAIN fd1 : fd1[j].sequence = p => j <= i)
      <4>1. n + 1 \in DOMAIN fd1 /\ fd1[n + 1].sequence = p /\ ~(n + 1 <= i)
        BY <1>2, <2>4
      <4> QED
        BY <4>1
    <3> QED
      BY <2>1, <2>2, <2>3, <3>1 DEF RecordOK
  <2>5. CASE p # q
    <3>1. p \in DOMAIN log /\ log1[p] = log[p]
      <4>1. p \in DOMAIN log
        BY <1>2, <2>3 DEF Enumerates
      <4> QED
        BY <1>4, <2>5, <4>1
    <3>2. (\A j \in DOMAIN fd1 : fd1[j].sequence = p => j <= i)
             => (\A j \in DOMAIN fd : fd[j].sequence = p => j <= i)
      BY <1>2
    <3> QED
      BY <2>1, <2>2, <2>3, <3>1, <3>2 DEF RecordOK
  <2> QED
    BY <2>4, <2>5
<1>10. Enumerates(fd1, log1)
  <2>1. \A i \in 1 .. n + 1 : i \in 1 .. n \/ i = n + 1
    BY <1>2
  <2> QED
    BY <1>2, <1>5, <1>8, <1>9, <2>1 DEF Enumerates
<1> QED
  BY <1>1, <1>4, <1>6, <1>10 DEF Continues

(* The counter modulo the status period goes round.                        *)
LEMMA ModNext ==
    ASSUME NEW a \in Nat, NEW f \in Nat, f > 1
    PROVE  /\ a % f \in 0 .. f - 1
           /\ (a + 1) % f = IF a % f = f - 1 THEN 0 ELSE (a % f) + 1
  BY SMTT(40)

(* The records the object has counted, and what the state file says of     *)
(* count and last sequence.                                                *)
Count(st) == st.state.count
SavedCount(st) == st.fstate.count
SavedLast(st) == st.fstate.last_sequence

(* The files, whoever has them open.                                       *)
FilesOK(st) ==
    /\ Enumerates(st.fdata, st.flog)
    /\ Top(st.fdata) \in Nat
    /\ SavedLast(st) \in 0 .. Top(st.fdata)
    /\ SavedLast(st) > 0 => SavedLast(st) \in DOMAIN st.flog
    /\ SavedCount(st) \in Nat

(* The state of the object that has them open, which is never behind the   *)
(* saved one nor a status period ahead of it.                              *)
ObjectOK(st) ==
    /\ Last(st) \in SavedLast(st) .. Top(st.fdata)
    /\ Last(st) > 0 => Last(st) \in DOMAIN st.flog
    /\ "crash" \in Allowed \/ Last(st) = Top(st.fdata)
    /\ Count(st) \in Nat
    /\ Count(st) - SavedCount(st) \in 0 .. (Count(st) % StatusFreq)

(* Between two calls no status snapshot is due.                            *)
SavedClean(st) == SavedCount(st) % StatusFreq # StatusFreq - 1
(* No snapshot is due, neither for the object nor for one that loads the   *)
(* state file.                                                             *)
Clean(st) == Count(st) % StatusFreq # StatusFreq - 1 /\ SavedClean(st)

(* One record in all the files, with the state saved or not.               *)
LEMMA RecordStep ==
    ASSUME NEW st, StoreInv(st), FilesOK(st), ObjectOK(st),
           Count(st) % StatusFreq # StatusFreq - 1,
           NEW r \in DataReg, r.sequence = Last(st) + 1,
           r.type \in {"ROLLBACK_END", "STATUS"} => Last(st) = Top(st.fdata),
           NEW off \in {0, Len(st.fdata) + 1}, NEW serial,
           NEW new,
           new.fdata = Append(st.fdata, r),
           new.flog = LogWith(st.flog, r.sequence, off, serial, r.type),
           CountedBy(st, new, 1, r.sequence),
           new.fstate \in {st.fstate, new.state}
    PROVE  /\ FilesOK(new) /\ ObjectOK(new)
           /\ Last(new) = Top(new.fdata)
           /\ SavedCount(new) \in {SavedCount(st), Count(new)}
<1>1. /\ st.fdata \in Seq(DataReg) /\ Enumerates(st.fdata, st.flog)
      /\ Top(st.fdata) \in Nat /\ Last(st) \in Nat
      /\ SavedLast(st) \in 0 .. Last(st) /\ Last(st) <= Top(st.fdata)
      /\ "crash" \in Allowed \/ Last(st) = Top(st.fdata)
      /\ Count(st) \in Nat /\ SavedCount(st) \in Nat
      /\ Count(st) - SavedCount(st) \in 0 .. (Count(st) % StatusFreq)
  BY DEF StoreInv, Stores, FilesOK, ObjectOK
<1>2. MayFollow(st.fdata, r)
  BY <1>1 DEF MayFollow
<1>3. /\ Enumerates(new.fdata, new.flog)
      /\ Top(new.fdata) = r.sequence
      /\ DOMAIN new.flog = DOMAIN st.flog \cup {r.sequence}
  <2>1. Continues(Append(st.fdata, r),
                  LogWith(st.flog, r.sequence, off, serial, r.type),
                  st.flog, r.sequence)
    BY <1>1, <1>2, AppendEnumerates
  <2> QED
    BY <2>1 DEF Continues
<1>4. /\ Last(new) = Last(st) + 1 /\ Count(new) = Count(st) + 1
      /\ \/ SavedLast(new) = SavedLast(st) /\ SavedCount(new) = SavedCount(st)
         \/ SavedLast(new) = Last(new) /\ SavedCount(new) = Count(new)
  BY DEF CountedBy, Last, Count, SavedLast, SavedCount
<1>5. SavedLast(st) > 0 => SavedLast(st) \in DOMAIN st.flog
  BY DEF FilesOK
<1>6. FilesOK(new)
  BY <1>1, <1>3, <1>4, <1>5, SMTT(40) DEF FilesOK
<1>7. Count(new) - SavedCount(new) \in 0 .. (Count(new) % StatusFreq)
  <2>1. PICK a, m, f : a = Count(st) /\ m = a % f /\ f = StatusFreq
    OBVIOUS
  <2>2. f \in Nat /\ f > 1
    BY <2>1, StatusFreqAssumption
  <2>3. m \in 0 .. f - 1 /\ (a + 1) % f = IF m = f - 1 THEN 0 ELSE m + 1
    BY <1>1, <2>1, <2>2, ModNext
  <2>4. (a + 1) % f = m + 1
    BY <2>1, <2>3
  <2>5. Count(new) % StatusFreq = m + 1
    BY <1>4, <2>1, <2>4
  <2>6. Count(new) - SavedCount(new) \in 0 .. m + 1
    <3>1. Count(st) - SavedCount(st) \in 0 .. m
      BY <1>1, <2>1
    <3> QED
      BY <1>1, <1>4, <2>2, <2>3, <3>1, SMTT(40)
  <2> QED
    BY <2>5, <2>6
<1>8. ObjectOK(new)
  <2>1. /\ Last(new) \in Nat /\ Last(new) = Top(new.fdata)
        /\ Last(new) > 0 => Last(new) \in DOMAIN new.flog
    BY <1>1, <1>3, <1>4
  <2>2. SavedLast(new) \in 0 .. Last(new)
    BY <1>1, <1>4, <2>1
  <2>3. Last(new) \in SavedLast(new) .. Top(new.fdata)
    BY <2>1, <2>2
  <2>4. Count(new) \in Nat
    BY <1>1, <1>4
  <2> QED
    BY <1>7, <2>1, <2>3, <2>4 DEF ObjectOK
<1> QED
  BY <1>3, <1>4, <1>6, <1>8

(* The STATUS record, at which the saved state catches up.                 *)
LEMMA StatusStep ==
    ASSUME NEW st, StoreInv(st), FilesOK(st), ObjectOK(st),
           Last(st) = Top(st.fdata),
           Count(st) % StatusFreq = StatusFreq - 1,
           NEW r \in DataReg, r.sequence = Last(st) + 1,
           NEW serial, NEW new,
           new.fdata = Append(st.fdata, r),
           new.flog = LogWith(st.flog, r.sequence, Len(st.fdata) + 1, serial, r.type),
           CountedBy(st, new, 1, r.sequence),
           new.fstate = new.state
    PROVE  /\ FilesOK(new) /\ ObjectOK(new) /\ Clean(new)
           /\ Last(new) = Top(new.fdata)
<1>1. /\ Last(st) \in Nat /\ Count(st) \in Nat /\ st.fdata \in Seq(DataReg)
      /\ Enumerates(st.fdata, st.flog)
  BY DEF FilesOK, ObjectOK, StoreInv, Stores
<1>2. MayFollow(st.fdata, r)
  BY DEF MayFollow
<1>3. Continues(Append(st.fdata, r),
                LogWith(st.flog, r.sequence, Len(st.fdata) + 1, serial, r.type),
                st.flog, r.sequence)
  <2>1. Len(st.fdata) + 1 \in {0, Len(st.fdata) + 1}
    OBVIOUS
  <2> QED
    BY <1>1, <1>2, <2>1, AppendEnumerates
<1>4. /\ Enumerates(new.fdata, new.flog)
      /\ Top(new.fdata) = r.sequence
      /\ DOMAIN new.flog = DOMAIN st.flog \cup {r.sequence}
  BY <1>3 DEF Continues
<1>5. /\ Last(new) = Last(st) + 1 /\ Count(new) = Count(st) + 1
      /\ SavedLast(new) = Last(new) /\ SavedCount(new) = Count(new)
  BY DEF CountedBy, Last, Count, SavedLast, SavedCount
<1>6. PICK a, n, f : a = Last(st) /\ n = Count(st) /\ f = StatusFreq
  OBVIOUS
<1>7. /\ a \in Nat /\ n \in Nat /\ f \in Nat /\ f > 1 /\ n % f = f - 1
      /\ Last(new) = a + 1 /\ Count(new) = n + 1
  BY <1>1, <1>5, <1>6, StatusFreqAssumption
<1>8. /\ (n + 1) % f = 0 /\ f - 1 # 0
      /\ a + 1 \in 0 .. a + 1 /\ a + 1 \in a + 1 .. a + 1 /\ a + 1 \in Nat
      /\ n + 1 \in Nat /\ (n + 1) - (n + 1) \in 0 .. 0
  <2> USE <1>7
  <2>1. (n + 1) % f = 0
    BY ModNext
  <2> QED
    BY <2>1
<1>9. FilesOK(new)
  BY <1>4, <1>5, <1>6, <1>7, <1>8 DEF FilesOK
<1>10. ObjectOK(new)
  BY <1>4, <1>5, <1>6, <1>7, <1>8 DEF ObjectOK
<1>11. Clean(new)
  BY <1>5, <1>6, <1>7, <1>8 DEF Clean, SavedClean
<1> QED
  BY <1>4, <1>5, <1>9, <1>10, <1>11

(* The snapshot at the end of a call keeps data file and log in step and   *)
(* the saved state close.                                                  *)
LEMMA SnapshotStep ==
    ASSUME NEW st, StoreInv(st), FilesOK(st), ObjectOK(st),
           Last(st) = Top(st.fdata),
           SavedCount(st) % StatusFreq # StatusFreq - 1 \/ SavedCount(st) = Count(st),
           NEW new, new = StatusSnapshot(st, TRUE)
    PROVE  /\ FilesOK(new) /\ ObjectOK(new) /\ Clean(new)
           /\ Last(new) = Top(new.fdata)
           /\ StoreInv(new)
<1>0. PICK ok \in BOOLEAN : ok = TRUE
  OBVIOUS
<1>1. StoreInv(new)
  BY <1>0, StatusSnapshotInv
<1>2. CASE Count(st) % StatusFreq # StatusFreq - 1
  <2>1. new = st
    BY <1>0, <1>2, StatusSnapshotEffect DEF Count
  <2> QED
    BY <1>1, <1>2, <2>1 DEF Clean, SavedClean
<1>3. CASE Count(st) % StatusFreq = StatusFreq - 1
  <2>1. PICK r : r = MarkReg("STATUS", Last(st) + 1, << >>)
    OBVIOUS
  <2>2. /\ new.fdata = DataWith(st.fdata, r, ok)
        /\ new.flog = LogWith(st.flog, Last(st) + 1, OffsetIn(st.fdata, ok),
                              NoSerial, "STATUS")
        /\ CountedBy(st, new, 1, Last(st) + 1)
        /\ new.fstate = new.state
    BY <1>0, <1>3, <2>1, StatusSnapshotEffect DEF Count
  <2>3. r \in DataReg /\ r.sequence = Last(st) + 1 /\ r.type = "STATUS"
    <3>1. << >> \in Seq(Serials) /\ "STATUS" \in RecordTypes /\ Last(st) + 1 \in Int
      BY DEF RecordTypes, StoreInv, Stores, State, Last
    <3>2. r \in DataReg
      BY <2>1, <3>1, MarkRegType
    <3> QED
      BY <2>1, <3>2 DEF MarkReg
  <2>4. /\ new.fdata = Append(st.fdata, r)
        /\ new.flog = LogWith(st.flog, r.sequence, Len(st.fdata) + 1, NoSerial, r.type)
    BY <1>0, <2>2, <2>3 DEF DataWith, OffsetIn
  <2>5. CountedBy(st, new, 1, r.sequence)
    BY <2>2, <2>3
  <2> QED
    BY <1>1, <1>3, <2>2, <2>3, <2>4, <2>5, StatusStep
<1> QED
  BY <1>2, <1>3

(* A store between two calls of the object that has it open.               *)
Good(st) ==
    /\ StoreInv(st)
    /\ FilesOK(st)
    /\ ObjectOK(st)
    /\ Clean(st)

(* ... whose object was the last to write a record.                        *)
Settled(st) == Good(st) /\ Last(st) = Top(st.fdata)

(* A record applied to a store, and the snapshot that may follow.          *)
LEMMA AppliedRecord ==
    ASSUME NEW st, Good(st),
           NEW r \in DataReg, r.sequence = Last(st) + 1,
           r.type \in {"ROLLBACK_END", "STATUS"} => Last(st) = Top(st.fdata),
           NEW off \in {0, Len(st.fdata) + 1}, NEW serial,
           NEW mid, StoreInv(mid),
           mid.fdata = Append(st.fdata, r),
           mid.flog = LogWith(st.flog, r.sequence, off, serial, r.type),
           CountedBy(st, mid, 1, r.sequence),
           mid.fstate \in {st.fstate, mid.state}
    PROVE  Settled(StatusSnapshot(mid, TRUE))
<1>1. /\ StoreInv(st) /\ FilesOK(st) /\ ObjectOK(st)
      /\ Count(st) % StatusFreq # StatusFreq - 1
      /\ SavedCount(st) % StatusFreq # StatusFreq - 1
  BY DEF Good, Clean, SavedClean
<1>2. /\ FilesOK(mid) /\ ObjectOK(mid) /\ Last(mid) = Top(mid.fdata)
      /\ SavedCount(mid) \in {SavedCount(st), Count(mid)}
  BY <1>1, RecordStep
<1>3. SavedCount(mid) % StatusFreq # StatusFreq - 1 \/ SavedCount(mid) = Count(mid)
  BY <1>1, <1>2
<1>4. PICK new : new = StatusSnapshot(mid, TRUE)
  OBVIOUS
<1>5. /\ FilesOK(new) /\ ObjectOK(new) /\ Clean(new)
      /\ Last(new) = Top(new.fdata) /\ StoreInv(new)
  BY <1>2, <1>3, <1>4, SnapshotStep
<1> QED
  BY <1>4, <1>5 DEF Settled, Good

(* A successful WRITE with its snapshot.                                   *)
LEMMA WriteWritten ==
    ASSUME NEW st, Good(st), NEW r \in DataReg, r.type = "WRITE",
           r.serial \in Serials, r.sequence = Last(st) + 1
    PROVE  Settled(WriteFiles(st, r, TRUE))
<1>1. StoreInv(st)
  BY DEF Good
<1>2. PICK mid, ok : /\ mid = ApplyWrite(CountRecord(st, r.sequence), r, TRUE)
                     /\ ok = TRUE /\ ok \in BOOLEAN
  OBVIOUS
<1>3. AfterWrite(st, mid, r)
  BY <1>1, <1>2, WriteEffect
<1>4. StoreInv(mid)
  <2>1. r.sequence \in Int
    BY DEF DataReg
  <2>2. StoreInv(CountRecord(st, r.sequence))
    BY <1>1, <2>1, CountRecordInv
  <2> QED
    BY <1>2, <2>2, ApplyWriteInv
<1>5. /\ mid.fdata = Append(st.fdata, r)
      /\ mid.flog = LogWith(st.flog, r.sequence, Len(st.fdata) + 1, r.serial, r.type)
      /\ CountedBy(st, mid, 1, r.sequence)
      /\ mid.fstate \in {st.fstate, mid.state}
  BY <1>3 DEF AfterWrite
<1>6. Settled(StatusSnapshot(mid, TRUE))
  BY <1>4, <1>5, AppliedRecord
<1>7. WriteFiles(st, r, TRUE) = StatusSnapshot(mid, TRUE)
  BY <1>2 DEF WriteFiles
<1> QED
  BY <1>6, <1>7

(* A successful COMMIT or record of a rollback, with its snapshot.         *)
LEMMA MarkWritten ==
    ASSUME NEW st, Good(st), NEW r \in DataReg, r.sequence = Last(st) + 1,
           r.type \in {"COMMIT", "ROLLBACK_BEGIN", "ROLLBACK_END"},
           r.type = "ROLLBACK_END" => Last(st) = Top(st.fdata)
    PROVE  Settled(WriteFiles(st, r, TRUE))
<1>1. StoreInv(st) /\ r.sequence \in Int
  BY DEF Good, DataReg
<1>2. PICK ok \in BOOLEAN : ok = TRUE
  OBVIOUS
<1>3. PICK c : c = CountRecord(st, r.sequence)
  OBVIOUS
<1>4. StoreInv(c) /\ c.state.last_sequence = r.sequence
  BY <1>1, <1>3, CountRecordInv
<1>5. ASSUME NEW mid, StoreInv(mid),
             mid.fdata = DataWith(st.fdata, r, ok),
             NEW off, off \in {0, OffsetIn(st.fdata, ok)},
             mid.flog = LogWith(st.flog, r.sequence, off, r.serial, r.type),
             CountedBy(st, mid, 1, r.sequence),
             mid.fstate = st.fstate
      PROVE  Settled(StatusSnapshot(mid, TRUE))
  <2>1. mid.fdata = Append(st.fdata, r) /\ off \in {0, Len(st.fdata) + 1}
    BY <1>2, <1>5 DEF DataWith, OffsetIn
  <2>2. mid.fstate \in {st.fstate, mid.state}
    BY <1>5
  <2>3. r.type \in {"ROLLBACK_END", "STATUS"} => Last(st) = Top(st.fdata)
    OBVIOUS
  <2> QED
    BY <1>5, <2>1, <2>2, <2>3, AppliedRecord
<1>6. CASE r.type = "COMMIT"
  <2>1. PICK mid : mid = ApplyCommit(c, r, ok)
    OBVIOUS
  <2>2. StoreInv(mid)
    BY <1>4, <2>1, ApplyCommitInv
  <2>3. /\ SameBut(st, mid, {"fdata", "flog", "state"})
        /\ mid.fdata = DataWith(st.fdata, r, ok)
        /\ mid.flog = LogWith(st.flog, r.sequence, OffsetIn(st.fdata, ok),
                              r.serial, r.type)
        /\ CountedBy(st, mid, 1, r.sequence)
    BY <1>1, <1>3, <2>1, CommitEffect
  <2>4. mid.fstate = st.fstate
    BY <2>3 DEF SameBut
  <2>5. Settled(StatusSnapshot(mid, TRUE))
    BY <1>5, <2>2, <2>3, <2>4
  <2>6. WriteFiles(st, r, ok) = StatusSnapshot(mid, ok)
    BY <1>3, <1>6, <2>1 DEF WriteFiles
  <2> QED
    BY <1>2, <2>5, <2>6
<1>7. CASE r.type = "ROLLBACK_BEGIN"
  <2>1. PICK mid, end : mid = ApplyRollbackBegin(c, r, ok) /\ end = ApplyRollbackEnd(c, r, ok)
    OBVIOUS
  <2>2. StoreInv(mid)
    BY <1>4, <2>1, ApplyRollbackInv
  <2>3. /\ SameBut(st, end, {"fdata", "flog", "state"})
        /\ SameBut(end, mid, {"findex"})
        /\ end.fdata = DataWith(st.fdata, r, ok)
        /\ end.flog = LogWith(st.flog, r.sequence, 0, r.serial, r.type)
        /\ CountedBy(st, end, 1, r.sequence)
    BY <1>1, <1>3, <2>1, RollbackEffect
  <2>4. /\ mid.fdata = DataWith(st.fdata, r, ok)
        /\ mid.flog = LogWith(st.flog, r.sequence, 0, r.serial, r.type)
        /\ CountedBy(st, mid, 1, r.sequence)
        /\ mid.fstate = st.fstate
    BY <2>3 DEF SameBut, CountedBy, Last
  <2>5. Settled(StatusSnapshot(mid, TRUE))
    BY <1>5, <2>2, <2>4
  <2>6. WriteFiles(st, r, ok) = StatusSnapshot(mid, ok)
    BY <1>3, <1>7, <2>1 DEF WriteFiles
  <2> QED
    BY <1>2, <2>5, <2>6
<1>8. CASE r.type = "ROLLBACK_END"
  <2>1. PICK end : end = ApplyRollbackEnd(c, r, ok)
    OBVIOUS
  <2>2. StoreInv(end)
    BY <1>4, <2>1, ApplyRollbackInv
  <2>3. /\ SameBut(st, end, {"fdata", "flog", "state"})
        /\ end.fdata = DataWith(st.fdata, r, ok)
        /\ end.flog = LogWith(st.flog, r.sequence, 0, r.serial, r.type)
        /\ CountedBy(st, end, 1, r.sequence)
    BY <1>1, <1>3, <2>1, RollbackEffect
  <2>4. end.fstate = st.fstate
    BY <2>3 DEF SameBut
  <2>5. Settled(StatusSnapshot(end, TRUE))
    BY <1>5, <2>2, <2>3, <2>4
  <2>6. WriteFiles(st, r, ok) = StatusSnapshot(end, ok)
    BY <1>3, <1>8, <2>1 DEF WriteFiles
  <2> QED
    BY <1>2, <2>5, <2>6
<1> QED
  BY <1>6, <1>7, <1>8

(* The log never lags behind the data file, and the saved state never by   *)
(* a status period, whether the storage is open or not.                    *)
LogInv ==
    /\ Inv
    /\ FilesOK(Store) /\ SavedClean(Store)
    /\ opened => ObjectOK(Store) /\ Clean(Store)
    /\ ~opened /\ "crash" \notin Allowed => SavedLast(Store) = Top(fdata)

(* A call that ends with a good store preserves the invariant.             *)
LEMMA BecomesLogInv ==
    ASSUME NEW st, Good(st), Becomes(ClearDirtySerials(st)) \/ Becomes(st),
           opened', Inv'
    PROVE  LogInv'
<1>1. st \in Stores
  BY DEF Good, StoreInv
<1>2. fdata' = st.fdata /\ flog' = st.flog /\ state' = st.state /\ fstate' = st.fstate
  BY <1>1, ClearEffect DEF Becomes, SameBut
<1>3. /\ Store'.fdata = st.fdata /\ Store'.flog = st.flog
      /\ Store'.state = st.state /\ Store'.fstate = st.fstate
  BY <1>2 DEF Store
<1>4. PICK new : new = Store'
  OBVIOUS
<1>5. FilesOK(new) /\ ObjectOK(new) /\ Clean(new)
  BY <1>3, <1>4 DEF Good, FilesOK, ObjectOK, Clean, SavedClean, Count,
       SavedCount,
                    Last, SavedLast
<1>6. /\ FilesOK(Store)' <=> FilesOK(new)
      /\ SavedClean(Store)' <=> SavedClean(new)
      /\ ObjectOK(Store)' <=> ObjectOK(new)
      /\ Clean(Store)' <=> Clean(new)
  BY <1>4 DEF FilesOK, ObjectOK, Clean, SavedClean, Count, SavedCount,
              Last, SavedLast, Enumerates, RecordOK, Previous, Top
<1> QED
  BY <1>5, <1>6 DEF LogInv, Clean

(* What a call finds when it begins.                                       *)
LEMMA LogInvGood == ASSUME LogInv, opened PROVE Good(Store) /\ Inv
  BY DEF LogInv, Good, Inv

(* write() preserves the invariant.                                        *)
LEMMA WriteLogged ==
    ASSUME LogInv, Inv', NEW s \in Serials, NEW v \in Values, Write(s, v, TRUE)
    PROVE  LogInv'
<1>1. opened /\ opened' /\ Good(Store) /\ Inv
  BY LogInvGood DEF Write
<1>2. PICK r : r = WriteReg(s, state.last_sequence + 1, fauto_commit, v)
  OBVIOUS
<1>3. /\ r \in DataReg /\ r.type = "WRITE" /\ r.serial \in Serials
      /\ r.sequence = Last(Store) + 1
  <2>1. PICK seq : seq = state.last_sequence + 1
    OBVIOUS
  <2>2. seq \in Int /\ fauto_commit \in BOOLEAN
    BY <1>1, <2>1, NextSequence DEF Inv
  <2>3. r = WriteReg(s, seq, fauto_commit, v)
    BY <1>2, <2>1
  <2> QED
    BY <2>1, <2>2, <2>3, WriteRegType DEF Last, Store
<1>4. Settled(WriteFiles(Store, r, TRUE))
  BY <1>1, <1>3, WriteWritten
<1>5. Becomes(WriteFiles(Store, r, TRUE))
  BY <1>2 DEF Write
<1> QED
  BY <1>1, <1>4, <1>5, BecomesLogInv DEF Settled

(* commit() preserves the invariant.                                       *)
LEMMA CommitLogged ==
    ASSUME LogInv, Inv', Commit(TRUE)
    PROVE  LogInv'
<1>1. opened /\ opened' /\ Good(Store) /\ Inv
  BY LogInvGood DEF Commit
<1>2. PICK r : r = MarkReg("COMMIT", state.last_sequence + 1, << >>)
  OBVIOUS
<1>3. /\ r \in DataReg /\ r.type = "COMMIT" /\ r.sequence = Last(Store) + 1
  <2>1. "COMMIT" \in RecordTypes /\ << >> \in Seq(Serials)
    BY DEF RecordTypes
  <2>2. state.last_sequence + 1 \in Int
    BY <1>1, NextSequence
  <2>3. r \in DataReg
    BY <1>2, <2>1, <2>2, MarkRegType
  <2> QED
    BY <1>2, <2>3 DEF Last, Store, MarkReg
<1>4. Settled(WriteFiles(Store, r, TRUE))
  BY <1>1, <1>3, MarkWritten
<1>5. Becomes(ClearDirtySerials(WriteFiles(Store, r, TRUE)))
  BY <1>2 DEF Commit
<1> QED
  BY <1>1, <1>4, <1>5, BecomesLogInv DEF Settled

(* rollback() appends two records in a row, with a snapshot after each.    *)
LEMMA RollbackLogged ==
    ASSUME LogInv, Inv', Rollback(TRUE, TRUE)
    PROVE  LogInv'
<1>1. opened /\ opened' /\ Good(Store) /\ Inv
  BY LogInvGood DEF Rollback
<1>2. PICK r : r = MarkReg("ROLLBACK_BEGIN", state.last_sequence + 1, dirtySerials)
  OBVIOUS
<1>3. /\ r \in DataReg /\ r.type = "ROLLBACK_BEGIN" /\ r.sequence = Last(Store) + 1
  <2>1. "ROLLBACK_BEGIN" \in RecordTypes /\ dirtySerials \in Seq(Serials)
    BY <1>1, InvImplies DEF RecordTypes, TypeOK
  <2>2. state.last_sequence + 1 \in Int
    BY <1>1, NextSequence
  <2> QED
    BY <1>2, <2>1, <2>2, MarkRegType DEF Last, Store
<1>4. PICK beg : beg = WriteFiles(Store, r, TRUE)
  BY Zenon
<1>5. Settled(beg)
  BY <1>1, <1>3, <1>4, MarkWritten
<1>6. Good(beg) /\ Last(beg) = Top(beg.fdata)
  BY <1>5 DEF Settled
<1>7. PICK e : e = MarkReg("ROLLBACK_END", beg.state.last_sequence + 1, << >>)
  OBVIOUS
<1>8. /\ e \in DataReg /\ e.type = "ROLLBACK_END" /\ e.sequence = Last(beg) + 1
  <2>1. "ROLLBACK_END" \in RecordTypes /\ << >> \in Seq(Serials)
    BY DEF RecordTypes
  <2>2. beg.state.last_sequence + 1 \in Int
    BY <1>6 DEF Good, StoreInv, Stores, State
  <2>3. e \in DataReg
    BY <1>7, <2>1, <2>2, MarkRegType
  <2> QED
    BY <1>7, <2>3 DEF Last, MarkReg
<1>9. Settled(WriteFiles(beg, e, TRUE))
  BY <1>6, <1>8, MarkWritten
<1>10. Becomes(ClearDirtySerials(WriteFiles(beg, e, TRUE)))
  BY <1>2, <1>4, <1>7 DEF Rollback, RollbackBegin, RollbackEnd
<1> QED
  BY <1>1, <1>9, <1>10, BecomesLogInv DEF Settled

(* Closing, opening and dying leave the data file and the log alone.       *)
LEMMA SameFilesLogged ==
    ASSUME LogInv, Inv', NEW st, st.fdata = fdata, st.flog = flog,
           NEW new, new.fdata = fdata, new.flog = flog, new.fstate = st.fstate,
           FilesOK(st)
    PROVE  FilesOK(new)
  BY DEF FilesOK, SavedLast, SavedCount

(* close() saves the state: nothing is left to lag.                        *)
LEMMA CloseLogged ==
    ASSUME LogInv, Inv', Close
    PROVE  LogInv'
<1>1. opened /\ ~opened' /\ Good(Store) /\ Store \in Stores
  BY LogInvGood DEF Close, Good, StoreInv
<1>2. /\ fdata' = fdata /\ flog' = flog /\ fstate' = state /\ state' = state
  <2>1. PICK sv : sv = SaveState(Store)
    OBVIOUS
  <2>2. SameBut(Store, sv, {"fstate"}) /\ sv.fstate = state /\ sv \in Stores
    <3>1. StoreInv(sv)
      BY <1>1, <2>1, SaveStateInv DEF Good
    <3> QED
      BY <1>1, <2>1, <3>1, SaveStateEffect DEF Store, StoreInv
  <2>3. Becomes(ClearDirtySerials(sv))
    BY <2>1 DEF Close
  <2>4. PICK cl : cl = ClearDirtySerials(sv)
    OBVIOUS
  <2>5. SameBut(sv, cl, {"dirty"}) /\ Becomes(cl)
    BY <2>2, <2>3, <2>4, ClearEffect
  <2> QED
    BY <2>2, <2>5 DEF Becomes, SameBut, Store
<1>3. /\ Enumerates(fdata, flog) /\ Top(fdata) \in Nat
      /\ state.last_sequence \in 0 .. Top(fdata)
      /\ state.last_sequence > 0 => state.last_sequence \in DOMAIN flog
      /\ state.count \in Nat
      /\ state.count % StatusFreq # StatusFreq - 1
      /\ "crash" \notin Allowed => state.last_sequence = Top(fdata)
  BY <1>1 DEF Good, FilesOK, ObjectOK, Clean, Last, Count, SavedLast, Store
<1>4. /\ Enumerates(fdata, flog)' /\ Top(fdata)' = Top(fdata)
  BY <1>2, <1>3 DEF Enumerates, Top, RecordOK, Previous
<1>5. FilesOK(Store)' /\ SavedClean(Store)' /\ SavedLast(Store)' = state.last_sequence
  BY <1>2, <1>3, <1>4 DEF FilesOK, SavedClean, SavedLast, SavedCount, Store
<1> QED
  BY <1>1, <1>3, <1>4, <1>5 DEF LogInv

(* open() goes on with the saved state, whose sequences are at most one    *)
(* status period old.                                                      *)
LEMMA OpenLogged ==
    ASSUME LogInv, Inv', NEW auto, Open(auto)
    PROVE  LogInv'
<1>1. /\ fdata' = fdata /\ flog' = flog /\ fstate' = fstate /\ state' = fstate
      /\ ~opened /\ opened'
  BY DEF Open
<1>2. /\ Enumerates(fdata, flog) /\ Top(fdata) \in Nat
      /\ fstate.last_sequence \in 0 .. Top(fdata)
      /\ fstate.last_sequence > 0 => fstate.last_sequence \in DOMAIN flog
      /\ fstate.count \in Nat
      /\ fstate.count % StatusFreq # StatusFreq - 1
      /\ "crash" \notin Allowed => fstate.last_sequence = Top(fdata)
  BY <1>1 DEF LogInv, FilesOK, SavedClean, SavedCount, SavedLast, Store
<1>3. /\ Enumerates(fdata, flog)' /\ Top(fdata)' = Top(fdata)
  BY <1>1, <1>2 DEF Enumerates, Top, RecordOK, Previous
<1>4. fstate.count % StatusFreq \in Nat
  <2>1. StatusFreq \in Nat /\ StatusFreq > 1
    BY StatusFreqAssumption
  <2>2. fstate.count % StatusFreq \in 0 .. StatusFreq - 1
    BY <1>2, <2>1, ModNext
  <2> QED
    BY <2>1, <2>2
<1>5. FilesOK(Store)' /\ SavedClean(Store)'
  BY <1>1, <1>2, <1>3 DEF FilesOK, SavedClean, SavedLast, SavedCount, Store
<1>6. ObjectOK(Store)' /\ Clean(Store)'
  BY <1>1, <1>2, <1>3, <1>4
     DEF ObjectOK, Clean, SavedClean, Last, Count, SavedLast, SavedCount, Store
<1> QED
  BY <1>1, <1>5, <1>6 DEF LogInv

(* A death leaves the files as they are.                                   *)
LEMMA CrashLogged ==
    ASSUME LogInv, Inv', Crash
    PROVE  LogInv'
<1>1. /\ fdata' = fdata /\ flog' = flog /\ fstate' = fstate
      /\ "crash" \in Allowed /\ ~opened'
  BY DEF Crash, files
<1>2. FilesOK(Store)' /\ SavedClean(Store)'
  BY <1>1 DEF LogInv, FilesOK, SavedClean, SavedLast, SavedCount, Store,
              Enumerates, Top, RecordOK, Previous
<1> QED
  BY <1>1, <1>2 DEF LogInv

(* Nothing happens.                                                        *)
LEMMA StutterLogged ==
    ASSUME LogInv, Inv', UNCHANGED vars
    PROVE  LogInv'
<1>1. /\ fdata' = fdata /\ flog' = flog /\ fstate' = fstate /\ state' = state
      /\ opened' = opened
  BY DEF vars
<1> QED
  BY <1>1 DEF LogInv, FilesOK, SavedClean, SavedLast, SavedCount, Store,
              Enumerates, Top, RecordOK, Previous, ObjectOK, Clean, Last, Count

(* The invariant is inductive as long as no append fails.                  *)
LEMMA NextLogged ==
    ASSUME "fault" \notin Allowed, LogInv, [Next]_vars
    PROVE  LogInv'
<1>1. AppendOutcomes = {TRUE} /\ Inv /\ Inv'
  BY NextInv DEF AppendOutcomes, LogInv
<1>2. CASE \E s \in Serials, v \in Values, ok \in AppendOutcomes : Write(s, v, ok)
  BY <1>1, <1>2, WriteLogged
<1>3. CASE \E ok \in AppendOutcomes : Commit(ok)
  BY <1>1, <1>3, CommitLogged
<1>4. CASE \E ok1, ok2 \in AppendOutcomes : Rollback(ok1, ok2)
  BY <1>1, <1>4, RollbackLogged
<1>5. CASE Close
  BY <1>1, <1>5, CloseLogged
<1>6. CASE \E auto \in BOOLEAN : Open(auto)
  BY <1>1, <1>6, OpenLogged
<1>7. CASE Crash
  BY <1>1, <1>7, CrashLogged
<1>8. CASE UNCHANGED vars
  BY <1>1, <1>8, StutterLogged
<1> QED
  BY <1>2, <1>3, <1>4, <1>5, <1>6, <1>7, <1>8 DEF Next

(* The new storage is empty, and nothing is due.                           *)
LEMMA InitLogged == Init => LogInv
<1> SUFFICES ASSUME Init PROVE LogInv
  OBVIOUS
<1>1. Inv
  BY InitInv
<1>2. fdata = << >> /\ flog = << >> /\ fstate = ZeroState /\ state = ZeroState /\ opened
  BY DEF Init
<1>3. DOMAIN fdata = {} /\ DOMAIN flog = {} /\ Top(fdata) = 0
  BY <1>2 DEF Top
<1>4. Enumerates(fdata, flog)
  BY <1>3 DEF Enumerates
<1>5. StatusFreq \in Nat /\ StatusFreq > 1 /\ 0 % StatusFreq = 0
  BY StatusFreqAssumption
<1>6. /\ state.count = 0 /\ fstate.count = 0
      /\ state.last_sequence = 0 /\ fstate.last_sequence = 0
  BY <1>2 DEF ZeroState
<1>7. FilesOK(Store)
  BY <1>3, <1>4, <1>6 DEF FilesOK, SavedLast, SavedCount, Store
<1>8. ObjectOK(Store)
  <2>1. /\ Last(Store) = 0 /\ SavedLast(Store) = 0 /\ Top(Store.fdata) = 0
        /\ Count(Store) = 0 /\ SavedCount(Store) = 0
    BY <1>3, <1>6 DEF Last, Count, SavedLast, SavedCount, Store
  <2> QED
    BY <1>5, <2>1 DEF ObjectOK
<1>9. Clean(Store) /\ SavedClean(Store)
  BY <1>5, <1>6 DEF Clean, SavedClean, Count, SavedCount, Store
<1> QED
  BY <1>1, <1>2, <1>7, <1>8, <1>9 DEF LogInv

(* As long as no append fails, the log enumerates the data file: one entry *)
(* for every sequence that was given out, in the order of the records and  *)
(* for the last record of each, also after a death of the process, after   *)
(* which sequences are given out a second time (readLog, rebuild).         *)
THEOREM LogEnumerates ==
    ASSUME "fault" \notin Allowed PROVE Spec => []LogEnumeratesData
<1>1. Init => LogInv
  BY InitLogged
<1>2. LogInv /\ [Next]_vars => LogInv'
  BY NextLogged
<1>3. LogInv => LogEnumeratesData
  <2> SUFFICES ASSUME LogInv PROVE LogEnumeratesData
    OBVIOUS
  <2>1. Enumerates(fdata, flog)
    BY DEF LogInv, FilesOK, Store
  <2>2. opened /\ state.last_sequence > 0 => state.last_sequence \in DOMAIN flog
    BY DEF LogInv, ObjectOK, Last, Store
  <2> QED
    BY <2>1, <2>2 DEF Enumerates, RecordOK, Previous, LogEnumeratesData
<1> QED
  BY <1>1, <1>2, <1>3, PTL DEF Spec

(* As long as no append fails, the state file is less than a status period *)
(* behind the state of the object: a reader that has just started misses   *)
(* few commits, and a death of the process gives few sequences out again.  *)
THEOREM SavedLag ==
    ASSUME "fault" \notin Allowed PROVE Spec => []SavedStateLag
<1>1. Init => LogInv
  BY InitLogged
<1>2. LogInv /\ [Next]_vars => LogInv'
  BY NextLogged
<1>3. LogInv => SavedStateLag
  <2> SUFFICES ASSUME LogInv, opened
               PROVE  state.count - fstate.count < StatusFreq - 1
    BY DEF SavedStateLag
  <2>1. PICK c, m, f, d : /\ c = state.count /\ f = StatusFreq /\ m = c % f
                          /\ d = state.count - fstate.count
    OBVIOUS
  <2>2. f \in Nat /\ f > 1
    BY <2>1, StatusFreqAssumption
  <2>3. c \in Nat /\ d \in 0 .. m /\ m # f - 1
    BY <2>1 DEF LogInv, ObjectOK, Clean, Count, SavedCount, Store
  <2>4. m \in 0 .. f - 1
    BY <2>1, <2>2, <2>3, ModNext
  <2>5. d < f - 1
    BY <2>2, <2>3, <2>4
  <2> QED
    BY <2>1, <2>5
<1> QED
  BY <1>1, <1>2, <1>3, PTL DEF Spec

(***************************************************************************)
(* The storage implements the transactional store of TxStore, for every    *)
(* set of serials and values, every status period and every failure of an  *)
(* append, as long as no transaction writes a serial twice, none is left   *)
(* open by a close, and the process does not die between two calls.        *)
(*                                                                         *)
(* The index register of a serial is the heart of it (RegOK and the lemmas *)
(* of SafeFilesProofs). TxInv extends that to a store, each call is then   *)
(* shown to move the three views (committed, work, published) as an action *)
(* of TxStore does, and NextMapped reads the abstract action off.          *)
(***************************************************************************)

(***************************************************************************)
(* Stores and what is read from them.                                       *)
(***************************************************************************)

(* The data file new continues the data file fd.                           *)
Extends(fd, new) ==
    Len(fd) <= Len(new) /\ \A k \in 1 .. Len(fd) : new[k] = fd[k]

(* What a read finds through a register, given the commit sequence it goes *)
(* by.                                                                     *)
ReadIn(fd, ix, lcs, dirtyRead) ==
    LET off == GetLastOffset(ix, lcs, dirtyRead)
    IN  IF off <= 0 THEN NoValue ELSE fd[off].val

(* The three views of a store: what is committed, what the writer reads,   *)
(* and what a reader that has just loaded the state file does.             *)
CommittedOf(st, s) == ReadIn(st.fdata, st.findex[s], LastSeq(st), FALSE)
WorkOf(st, s)      == ReadIn(st.fdata, st.findex[s], LastSeq(st), TRUE)
PublishedOf(st, s) == ReadIn(st.fdata, st.findex[s], SavedSeq(st), FALSE)

(* The registers of a store in which the serials of list are dirty.        *)
Regs(st, list) ==
    /\ LastSeq(st) \in Nat /\ Last(st) \in Nat /\ LastSeq(st) <= Last(st)
    /\ \A s \in Serials : RegOK(st.findex[s], LastSeq(st), Last(st),
                                Listed(list, s))

(* The invariant of the refinement: every register is in order for the     *)
(* list of dirty serials, which repeats none and is empty in auto-commit   *)
(* mode.                                                                   *)
TxInv(st) ==
    /\ Regs(st, st.dirty)
    /\ st.auto => st.dirty = << >>
    /\ Distinct(st.dirty)

(* Neither committed readers nor the writer see a difference.              *)
SameReads(st, new) ==
    \A s \in Serials : /\ CommittedOf(new, s) = CommittedOf(st, s)
                       /\ WorkOf(new, s) = WorkOf(st, s)

(* What other processes see stays, or becomes what is committed.           *)
PublishedMoves(st, new) ==
    \/ \A s \in Serials : PublishedOf(new, s) = PublishedOf(st, s)
    \/ \A s \in Serials : PublishedOf(new, s) = CommittedOf(new, s)

(* Appending, successfully or not, extends the data file.                  *)
LEMMA ExtendsAppend ==
    ASSUME NEW fd \in Seq(DataReg), NEW r, NEW ok \in BOOLEAN
    PROVE  Extends(fd, DataWith(fd, r, ok))
<1>1. CASE ok
  <2>1. /\ Len(Append(fd, r)) = Len(fd) + 1
        /\ \A k \in 1 .. Len(fd) : Append(fd, r)[k] = fd[k]
        /\ Len(fd) \in Nat
    OBVIOUS
  <2> QED
    BY <1>1, <2>1 DEF Extends, DataWith
<1>2. CASE ~ok
  BY <1>2 DEF Extends, DataWith
<1> QED
  BY <1>1, <1>2

(* A read goes to the offset of one of the slots, or nowhere.              *)
LEMMA LastOffsetSlot ==
    ASSUME NEW ix \in IndexReg, NEW lcs, NEW dirty \in BOOLEAN
    PROVE  \/ GetLastOffset(ix, lcs, dirty) = -1
           \/ \E i \in Slot : GetLastOffset(ix, lcs, dirty) = ix[i].offset
  BY DEF GetLastOffset, Slot

(* A hole and a version that was rolled back read as nothing.              *)
LEMMA ReadNothing ==
    ASSUME NEW fd, NEW ix, NEW lcs, NEW dirty \in BOOLEAN,
           \/ GetLastOffset(ix, lcs, dirty) = 0
           \/ GetLastOffset(ix, lcs, dirty) = -1
    PROVE  ReadIn(fd, ix, lcs, dirty) = NoValue
<1>1. 0 <= 0 /\ -1 <= 0
  OBVIOUS
<1> QED
  BY <1>1 DEF ReadIn

(* What a read finds is there to stay: nothing moves in the data file.     *)
LEMMA ReadStays ==
    ASSUME NEW st, StoreInv(st), NEW s \in Serials, NEW lcs,
           NEW dirty \in BOOLEAN, NEW fd, Extends(st.fdata, fd)
    PROVE  ReadIn(fd, st.findex[s], lcs, dirty)
              = ReadIn(st.fdata, st.findex[s], lcs, dirty)
<1> DEFINE ix  == st.findex[s]
           off == GetLastOffset(ix, lcs, dirty)
<1>1. ix \in IndexReg /\ \A i \in Slot : SlotNamed(st.fdata, s, ix[i])
  BY DEF StoreInv, Stores
<1>2. off <= 0 \/ off \in 1 .. Len(st.fdata)
  <2>1. CASE off = -1
    BY <2>1
  <2>2. CASE \E i \in Slot : off = ix[i].offset
    <3>1. PICK i \in Slot : off = ix[i].offset
      BY <2>2
    <3>2. ix[i].offset \in Int
      BY <1>1 DEF IndexReg
    <3> HIDE DEF off, ix
    <3> QED
      BY <1>1, <3>1, <3>2 DEF SlotNamed
  <2> QED
    BY <1>1, <2>1, <2>2, LastOffsetSlot
<1> HIDE DEF off
<1>3. off \in 1 .. Len(st.fdata) => fd[off] = st.fdata[off]
  BY DEF Extends
<1>4. (IF off <= 0 THEN NoValue ELSE fd[off].val)
         = (IF off <= 0 THEN NoValue ELSE st.fdata[off].val)
  BY <1>2, <1>3
<1> QED
  BY <1>4 DEF ReadIn, off

(* More records: the state moves on, the index and the commits do not.     *)
LEMMA RegsGrow ==
    ASSUME NEW st, StoreInv(st), NEW list, Regs(st, list),
           NEW new, new.findex = st.findex, LastSeq(new) = LastSeq(st),
           Last(new) = Last(st) + 1
    PROVE  Regs(new, list)
<1>1. /\ LastSeq(st) \in Nat /\ Last(st) \in Nat /\ Last(st) + 1 \in Nat
      /\ LastSeq(st) <= Last(st) + 1 /\ Last(st) <= Last(st) + 1
  BY DEF Regs
<1>2. ASSUME NEW s \in Serials
      PROVE  RegOK(new.findex[s], LastSeq(new), Last(new), Listed(list, s))
  <2>1. /\ st.findex[s] \in IndexReg /\ Listed(list, s) \in BOOLEAN
        /\ RegOK(st.findex[s], LastSeq(st), Last(st), Listed(list, s))
    BY DEF StoreInv, Stores, Regs, Listed
  <2>2. RegOK(st.findex[s], LastSeq(st), Last(st) + 1, Listed(list, s))
    BY <1>1, <2>1, RegGrows
  <2> QED
    BY <2>2
<1> QED
  BY <1>1, <1>2 DEF Regs

(* Records that touch no register and commit nothing change no view.       *)
LEMMA ReadsStay ==
    ASSUME NEW st, StoreInv(st), NEW new, new.findex = st.findex,
           LastSeq(new) = LastSeq(st), Extends(st.fdata, new.fdata)
    PROVE  /\ SameReads(st, new)
           /\ SavedSeq(new) = SavedSeq(st) =>
                 \A s \in Serials : PublishedOf(new, s) = PublishedOf(st, s)
           /\ SavedSeq(new) = LastSeq(new) =>
                 \A s \in Serials : PublishedOf(new, s) = CommittedOf(new, s)
<1>1. ASSUME NEW s \in Serials, NEW lcs, NEW dirty \in BOOLEAN
      PROVE  ReadIn(new.fdata, new.findex[s], lcs, dirty)
                = ReadIn(st.fdata, st.findex[s], lcs, dirty)
  BY ReadStays
<1>2. ASSUME NEW s \in Serials
      PROVE  /\ CommittedOf(new, s) = CommittedOf(st, s)
             /\ WorkOf(new, s) = WorkOf(st, s)
             /\ SavedSeq(new) = SavedSeq(st) => PublishedOf(new, s) = PublishedOf(st, s)
  <2>1. CommittedOf(new, s) = CommittedOf(st, s)
    BY <1>1 DEF CommittedOf
  <2>2. WorkOf(new, s) = WorkOf(st, s)
    BY <1>1 DEF WorkOf
  <2>3. SavedSeq(new) = SavedSeq(st) => PublishedOf(new, s) = PublishedOf(st, s)
    BY <1>1 DEF PublishedOf
  <2> QED
    BY <2>1, <2>2, <2>3
<1>3. SavedSeq(new) = LastSeq(new) =>
         \A s \in Serials : PublishedOf(new, s) = CommittedOf(new, s)
  BY DEF PublishedOf, CommittedOf
<1> QED
  BY <1>2, <1>3 DEF SameReads

(* A status snapshot changes nothing for readers, except that those in     *)
(* other processes see what is committed.                                  *)
LEMMA SnapshotTx ==
    ASSUME NEW st, StoreInv(st), NEW list, Regs(st, list), NEW ok \in BOOLEAN,
           NEW new, new = StatusSnapshot(st, ok)
    PROVE  /\ StoreInv(new) /\ Regs(new, list)
           /\ new.auto = st.auto /\ new.dirty = st.dirty
           /\ SameReads(st, new)
           /\ PublishedMoves(st, new)
           /\ SavedSeq(st) = LastSeq(st) => SavedSeq(new) = LastSeq(new)
<1>1. StoreInv(new)
  BY StatusSnapshotInv
<1>2. CASE st.state.count % StatusFreq # StatusFreq - 1
  <2>1. new = st
    BY <1>2, StatusSnapshotEffect
  <2> QED
    BY <1>1, <2>1 DEF SameReads, PublishedMoves
<1>3. CASE st.state.count % StatusFreq = StatusFreq - 1
  <2>1. /\ SameBut(st, new, {"fdata", "flog", "fstate", "state"})
        /\ new.fdata = DataWith(st.fdata, MarkReg("STATUS", Last(st) + 1, << >>), ok)
        /\ Last(new) = Last(st) + 1
        /\ LastSeq(new) = LastSeq(st)
        /\ new.fstate = new.state
    BY <1>3, StatusSnapshotEffect DEF CountedBy
  <2>2. Extends(st.fdata, new.fdata)
    BY <2>1, ExtendsAppend DEF StoreInv, Stores
  <2>3. SavedSeq(new) = LastSeq(new) /\ new.findex = st.findex
        /\ new.dirty = st.dirty /\ new.auto = st.auto
    BY <2>1 DEF SavedSeq, LastSeq, SameBut
  <2>4. /\ SameReads(st, new)
        /\ \A s \in Serials : PublishedOf(new, s) = CommittedOf(new, s)
    BY <2>1, <2>2, <2>3, ReadsStay
  <2>5. Regs(new, list)
    BY <2>1, <2>3, RegsGrow
  <2> QED
    BY <1>1, <2>3, <2>4, <2>5 DEF PublishedMoves
<1> QED
  BY <1>2, <1>3

(* What the write of a record r at the offset off does for readers, ix     *)
(* being the index register it leaves.                                     *)
(* The record r was written, and committed too in auto-commit mode.        *)
WriteReads(st, new, r) ==
    \A s \in Serials :
        /\ WorkOf(new, s) = IF s = r.serial THEN r.val ELSE WorkOf(st, s)
        /\ CommittedOf(new, s) = IF s = r.serial /\ st.auto
                                 THEN r.val ELSE CommittedOf(st, s)

(* A WRITE of a serial that is not dirty yet shows its version to the      *)
(* writer, in auto-commit mode to all, and keeps the registers in order.   *)
LEMMA AppliedWriteTx ==
    ASSUME NEW st, StoreInv(st), TxInv(st), NEW r \in DataReg, r.type = "WRITE",
           r.serial \in Serials, r.sequence = Last(st) + 1, r.auto = st.auto,
           ~Listed(st.dirty, r.serial),
           NEW new, new = ApplyWrite(CountRecord(st, r.sequence), r, TRUE)
    PROVE  /\ StoreInv(new) /\ TxInv(new)
           /\ new.auto = st.auto
           /\ SavedSeq(new) = LastSeq(new)
           /\ WriteReads(st, new, r)
<1>0. PICK off, old, ix :
         /\ off = Len(st.fdata) + 1
         /\ old = st.findex[r.serial]
         /\ ix = SetOldestOffset(old, off, Last(st) + 1, st.auto, old = EmptyIndex)
  OBVIOUS
<1>1. /\ st \in Stores /\ st.fdata \in Seq(DataReg) /\ Len(st.fdata) \in Nat
      /\ old \in IndexReg /\ st.auto \in BOOLEAN /\ st.dirty \in Seq(Serials)
      /\ r.sequence \in Int /\ off \in Int /\ off > 0
      /\ st.findex \in [Serials -> IndexReg]
  BY <1>0 DEF StoreInv, Stores, DataReg
<1>2. StoreInv(new)
  <2>1. StoreInv(CountRecord(st, r.sequence))
    BY <1>1, CountRecordInv
  <2> QED
    BY <2>1, ApplyWriteInv
<1>3. /\ SameBut(st, new, {"fdata", "findex", "flog", "fstate", "state", "dirty"})
      /\ new.fdata = Append(st.fdata, r)
      /\ new.findex = [st.findex EXCEPT ![r.serial] = ix]
      /\ Last(new) = Last(st) + 1
      /\ LastSeq(new) = LastSeq(st)
      /\ new.fstate = new.state
      /\ st.auto => new.dirty = st.dirty
      /\ ~st.auto => new.dirty = Append(st.dirty, r.serial)
  <2>1. AfterWrite(st, new, r)
    BY WriteEffect
  <2>2. ix = SetOldestOffset(st.findex[r.serial], Len(st.fdata) + 1, r.sequence,
                             r.auto, st.findex[r.serial] = EmptyIndex)
    BY <1>0
  <2> QED
    BY <2>1, <2>2 DEF AfterWrite, CountedBy
<1>4. /\ new.auto = st.auto /\ SavedSeq(new) = LastSeq(new)
      /\ new.findex[r.serial] = ix
      /\ \A s \in Serials : s # r.serial => new.findex[s] = st.findex[s]
      /\ new.fdata[off] = r
  <2>1. Append(st.fdata, r)[Len(st.fdata) + 1] = r
    BY <1>1
  <2> QED
    BY <1>0, <1>1, <1>3, <2>1 DEF SameBut, SavedSeq, LastSeq
<1>5. Extends(st.fdata, new.fdata)
  <2>1. Append(st.fdata, r) = DataWith(st.fdata, r, TRUE)
    BY DEF DataWith
  <2>2. Extends(st.fdata, DataWith(st.fdata, r, TRUE))
    BY <1>1, ExtendsAppend
  <2> QED
    BY <1>3, <2>1, <2>2
<1>6. /\ LastSeq(st) \in Nat /\ Last(st) \in Nat /\ LastSeq(st) <= Last(st)
      /\ Last(st) + 1 \in Nat /\ Last(st) <= Last(st) + 1
      /\ LastSeq(st) <= Last(st) + 1
  BY DEF TxInv, Regs
<1>6a. RegOK(old, LastSeq(st), Last(st), FALSE)
  <2>1. Listed(st.dirty, r.serial) = FALSE
    BY DEF Listed
  <2> QED
    BY <1>0, <2>1 DEF TxInv, Regs
<1>7. ASSUME NEW s \in Serials, s # r.serial
      PROVE  /\ RegOK(new.findex[s], LastSeq(new), Last(new), Listed(st.dirty, s))
             /\ WorkOf(new, s) = WorkOf(st, s)
             /\ CommittedOf(new, s) = CommittedOf(st, s)
  <2>1. /\ st.findex[s] \in IndexReg /\ Listed(st.dirty, s) \in BOOLEAN
        /\ RegOK(st.findex[s], LastSeq(st), Last(st), Listed(st.dirty, s))
    BY <1>1 DEF TxInv, Regs, Listed
  <2>2. RegOK(st.findex[s], LastSeq(st), Last(st) + 1, Listed(st.dirty, s))
    BY <1>6, <2>1, RegGrows
  <2>3. /\ ReadIn(new.fdata, st.findex[s], LastSeq(st), TRUE)
              = ReadIn(st.fdata, st.findex[s], LastSeq(st), TRUE)
        /\ ReadIn(new.fdata, st.findex[s], LastSeq(st), FALSE)
              = ReadIn(st.fdata, st.findex[s], LastSeq(st), FALSE)
    BY <1>5, ReadStays
  <2>4. new.findex[s] = st.findex[s]
    BY <1>4, <1>7
  <2>5. WorkOf(new, s) = WorkOf(st, s) /\ CommittedOf(new, s) = CommittedOf(st, s)
    BY <1>3, <2>3, <2>4 DEF WorkOf, CommittedOf
  <2> QED
    BY <1>3, <2>2, <2>4, <2>5
<1>8. ASSUME NEW dirty \in BOOLEAN, GetLastOffset(ix, LastSeq(st), dirty) = off
      PROVE  ReadIn(new.fdata, ix, LastSeq(st), dirty) = r.val
  <2>1. ~(off <= 0)
    BY <1>1
  <2> QED
    BY <1>4, <1>8, <2>1 DEF ReadIn
<1>9. CASE st.auto
  <2>1. st.dirty = << >> /\ new.dirty = << >>
    BY <1>3, <1>9 DEF TxInv, Regs
  <2>3. /\ RegOK(ix, LastSeq(st), Last(st) + 1, FALSE)
        /\ GetLastOffset(ix, LastSeq(st), TRUE) = off
        /\ GetLastOffset(ix, LastSeq(st), FALSE) = off
    <3>1. RegAutoWritten(SetOldestOffset(old, off, Last(st) + 1, TRUE, old = EmptyIndex),
                         LastSeq(st), Last(st), off)
      BY <1>1, <1>6, <1>6a, RegAutoWrite
    <3>2. /\ RegOK(ix, LastSeq(st), Last(st) + 1, FALSE)
          /\ GetLastOffset(ix, LastSeq(st), TRUE) = off
      <4>1. ix = SetOldestOffset(old, off, Last(st) + 1, TRUE, old = EmptyIndex)
        BY <1>0, <1>1, <1>9
      <4> QED
        BY <3>1, <4>1 DEF RegAutoWritten
    <3>3. ix \in IndexReg
      BY <1>2, <1>4 DEF StoreInv, Stores
    <3>4. GetLastOffset(ix, LastSeq(st), TRUE) = GetLastOffset(ix, LastSeq(st), FALSE)
      BY <1>6, <3>2, <3>3, RegClean
    <3> QED
      BY <3>2, <3>4
  <2>4. \A s \in Serials : Listed(<< >>, s) = FALSE
    BY DEF Listed
  <2>5. ASSUME NEW s \in Serials
        PROVE  RegOK(new.findex[s], LastSeq(new), Last(new), Listed(new.dirty, s))
    <3>1. CASE s = r.serial
      BY <1>3, <1>4, <2>1, <2>3, <2>4, <3>1
    <3>2. CASE s # r.serial
      BY <1>7, <2>1, <3>2
    <3> QED
      BY <3>1, <3>2
  <2>6. TxInv(new)
    <3>1. Distinct(<< >>)
      BY DEF Distinct
    <3> QED
      BY <1>3, <1>6, <2>1, <2>5, <3>1, ZenonT(60) DEF TxInv, Regs, Distinct
  <2>7. WorkOf(new, r.serial) = r.val /\ CommittedOf(new, r.serial) = r.val
    BY <1>3, <1>4, <1>8, <2>3 DEF WorkOf, CommittedOf
  <2>8. ASSUME NEW s \in Serials
        PROVE  /\ WorkOf(new, s) = IF s = r.serial THEN r.val ELSE WorkOf(st, s)
               /\ CommittedOf(new, s) = IF s = r.serial /\ st.auto
                                        THEN r.val ELSE CommittedOf(st, s)
    BY <1>7, <1>9, <2>7
  <2> QED
    BY <1>2, <1>4, <2>6, <2>8 DEF WriteReads
<1>10. CASE ~st.auto
  <2>1. new.dirty = Append(st.dirty, r.serial)
    BY <1>3, <1>10
  <2>2. ix = SetOldestOffset(old, off, Last(st) + 1, FALSE, old = EmptyIndex)
    BY <1>0, <1>1, <1>10
  <2>3. /\ RegOK(ix, LastSeq(st), Last(st) + 1, TRUE)
        /\ GetLastOffset(ix, LastSeq(st), TRUE) = off
        /\ \/ GetLastOffset(ix, LastSeq(st), FALSE) = GetLastOffset(old, LastSeq(st), FALSE)
           \/ /\ GetLastOffset(ix, LastSeq(st), FALSE) = -1
              /\ GetLastOffset(old, LastSeq(st), FALSE) = 0
    <3>1. RegWritten(SetOldestOffset(old, off, Last(st) + 1, FALSE, old = EmptyIndex),
                     old, LastSeq(st), Last(st), off)
      BY <1>1, <1>6, <1>6a, RegWrite
    <3> QED
      BY <2>2, <3>1 DEF RegWritten
  <2>4. \A s \in Serials : Listed(new.dirty, s) <=> Listed(st.dirty, s) \/ s = r.serial
    <3>1. \A s \in Serials : Listed(Append(st.dirty, r.serial), s)
                                 <=> Listed(st.dirty, s) \/ s = r.serial
      BY <1>1, ListedAppend
    <3> QED
      BY <2>1, <3>1
  <2>5. ASSUME NEW s \in Serials
        PROVE  RegOK(new.findex[s], LastSeq(new), Last(new), Listed(new.dirty, s))
    <3>1. CASE s = r.serial
      <4>1. Listed(new.dirty, s) = TRUE
        BY <2>4, <3>1 DEF Listed
      <4> QED
        BY <1>3, <1>4, <2>3, <3>1, <4>1
    <3>2. CASE s # r.serial
      <4>1. Listed(new.dirty, s) = Listed(st.dirty, s)
        BY <2>4, <3>2 DEF Listed
      <4> QED
        BY <1>7, <3>2, <4>1
    <3> QED
      BY <3>1, <3>2
  <2>6. TxInv(new)
    <3>0. Distinct(st.dirty)
      BY DEF TxInv, Regs, Distinct
    <3>1. Distinct(new.dirty)
      BY <1>1, <2>1, <3>0, DistinctAppend
    <3> QED
      BY <1>3, <1>4, <1>6, <1>10, <2>5, <3>1 DEF TxInv, Regs, Distinct
  <2>7. WorkOf(new, r.serial) = r.val
    BY <1>3, <1>4, <1>8, <2>3 DEF WorkOf
  <2>8. CommittedOf(new, r.serial) = CommittedOf(st, r.serial)
    <3>1. ReadIn(new.fdata, ix, LastSeq(st), FALSE)
             = ReadIn(new.fdata, old, LastSeq(st), FALSE)
      <4>1. CASE GetLastOffset(ix, LastSeq(st), FALSE) = GetLastOffset(old, LastSeq(st), FALSE)
        BY <4>1 DEF ReadIn
      <4>2. CASE /\ GetLastOffset(ix, LastSeq(st), FALSE) = -1
                 /\ GetLastOffset(old, LastSeq(st), FALSE) = 0
        <5>1. ReadIn(new.fdata, ix, LastSeq(st), FALSE) = NoValue
          BY <4>2, ReadNothing
        <5>2. ReadIn(new.fdata, old, LastSeq(st), FALSE) = NoValue
          BY <4>2, ReadNothing
        <5> QED
          BY <5>1, <5>2
      <4> QED
        BY <2>3, <4>1, <4>2
    <3>2. ReadIn(new.fdata, old, LastSeq(st), FALSE)
             = ReadIn(st.fdata, old, LastSeq(st), FALSE)
      BY <1>0, <1>5, ReadStays
    <3> QED
      BY <1>0, <1>3, <1>4, <3>1, <3>2 DEF CommittedOf
  <2>9. ASSUME NEW s \in Serials
        PROVE  /\ WorkOf(new, s) = IF s = r.serial THEN r.val ELSE WorkOf(st, s)
               /\ CommittedOf(new, s) = IF s = r.serial /\ st.auto
                                        THEN r.val ELSE CommittedOf(st, s)
    BY <1>7, <1>10, <2>7, <2>8
  <2> QED
    BY <1>2, <1>4, <2>6, <2>9 DEF WriteReads
<1> QED
  BY <1>1, <1>9, <1>10

(* A write that succeeds publishes the commits before it.                  *)
LEMMA WriteTx ==
    ASSUME NEW st, StoreInv(st), TxInv(st), NEW r \in DataReg, r.type = "WRITE",
           r.serial \in Serials, r.sequence = Last(st) + 1, r.auto = st.auto,
           ~Listed(st.dirty, r.serial),
           NEW new, new = WriteFiles(st, r, TRUE)
    PROVE  /\ StoreInv(new) /\ TxInv(new)
           /\ new.auto = st.auto
           /\ WriteReads(st, new, r)
           /\ \A s \in Serials : PublishedOf(new, s) = CommittedOf(new, s)
<1>1. PICK a : a = ApplyWrite(CountRecord(st, r.sequence), r, TRUE)
  OBVIOUS
<1>2. /\ StoreInv(a) /\ TxInv(a)
      /\ a.auto = st.auto
      /\ SavedSeq(a) = LastSeq(a)
      /\ WriteReads(st, a, r)
  BY <1>1, AppliedWriteTx
<1>3. new = StatusSnapshot(a, TRUE)
  BY <1>1 DEF WriteFiles
<1>4. /\ StoreInv(new) /\ Regs(new, a.dirty)
      /\ new.auto = a.auto /\ new.dirty = a.dirty
      /\ SameReads(a, new)
      /\ SavedSeq(new) = LastSeq(new)
  BY <1>2, <1>3, SnapshotTx, ZenonT(60) DEF TxInv
<1>5. TxInv(new)
  BY <1>2, <1>4 DEF TxInv
<1>6. \A s \in Serials : PublishedOf(new, s) = CommittedOf(new, s)
  BY <1>4 DEF PublishedOf, CommittedOf
<1>7. WriteReads(st, new, r)
  BY <1>2, <1>4 DEF WriteReads, SameReads
<1> QED
  BY <1>2, <1>4, <1>5, <1>6, <1>7

(* A write that fails changes nothing for any reader.                      *)
LEMMA FailedWriteTx ==
    ASSUME NEW st, StoreInv(st), TxInv(st), NEW r \in DataReg, r.type = "WRITE",
           r.serial \in Serials, r.sequence = Last(st) + 1,
           NEW new, new = WriteFiles(st, r, FALSE)
    PROVE  /\ StoreInv(new) /\ TxInv(new)
           /\ new.auto = st.auto
           /\ SameReads(st, new)
           /\ \A s \in Serials : PublishedOf(new, s) = PublishedOf(st, s)
<1>1. new = ApplyWrite(CountRecord(st, r.sequence), r, FALSE)
  BY DEF WriteFiles
<1>2. /\ SameBut(st, new, {"state"})
      /\ CountedBy(st, new, 1, r.sequence)
      /\ LastSeq(new) = LastSeq(st)
  BY <1>1, FailedWriteEffect
<1>3. /\ new.fdata = st.fdata /\ new.findex = st.findex
      /\ new.dirty = st.dirty /\ new.auto = st.auto
      /\ SavedSeq(new) = SavedSeq(st)
      /\ Last(new) = Last(st) + 1
  BY <1>2 DEF SameBut, CountedBy, SavedSeq
<1>4. Extends(st.fdata, new.fdata)
  <2>1. st.fdata \in Seq(DataReg)
    BY DEF StoreInv, Stores
  <2>2. Len(st.fdata) <= Len(st.fdata)
    BY <2>1
  <2> QED
    BY <1>3, <2>2 DEF Extends
<1>5. StoreInv(new)
  BY WriteFilesInv
<1>6. Regs(new, st.dirty)
  BY <1>2, <1>3, RegsGrow DEF TxInv
<1>7. TxInv(new)
  BY <1>3, <1>6 DEF TxInv
<1> QED
  BY <1>2, <1>3, <1>4, <1>5, <1>7, ReadsStay

(* A commit makes the writer's view the committed one, whether or not its  *)
(* record reaches the data file; the saved state need not know of it.      *)
LEMMA CommitTx ==
    ASSUME NEW st, StoreInv(st), TxInv(st), NEW ok \in BOOLEAN,
           NEW new, new = WriteFiles(st, MarkReg("COMMIT", Last(st) + 1, << >>), ok)
    PROVE  /\ StoreInv(new) /\ Regs(new, << >>)
           /\ new.auto = st.auto
           /\ \A s \in Serials : /\ CommittedOf(new, s) = WorkOf(st, s)
                                 /\ WorkOf(new, s) = WorkOf(st, s)
           /\ \/ \A s \in Serials : PublishedOf(new, s) = PublishedOf(st, s)
              \/ \A s \in Serials : PublishedOf(new, s) = CommittedOf(new, s)
<1>1. PICK r, a : /\ r = MarkReg("COMMIT", Last(st) + 1, << >>)
                  /\ a = ApplyCommit(CountRecord(st, r.sequence), r, ok)
  OBVIOUS
<1>2. /\ r \in DataReg /\ r.type = "COMMIT" /\ r.sequence = Last(st) + 1
      /\ StoreInv(new)
  <2>1. /\ "COMMIT" \in RecordTypes /\ "COMMIT" # "WRITE" /\ << >> \in Seq(Serials)
        /\ Last(st) + 1 \in Int
    BY DEF RecordTypes, TxInv, Regs
  <2>2. r \in DataReg
    BY <1>1, <2>1, MarkRegType
  <2>3. StoreInv(new)
    BY <1>1, <2>1, MarkInv DEF Last
  <2> QED
    BY <1>1, <2>2, <2>3 DEF MarkReg
<1>3. /\ SameBut(st, a, {"fdata", "flog", "state"})
      /\ a.fdata = DataWith(st.fdata, r, ok)
      /\ CountedBy(st, a, 1, r.sequence)
      /\ LastSeq(a) = r.sequence
  BY <1>1, <1>2, CommitEffect
<1>4. /\ a.findex = st.findex /\ a.auto = st.auto /\ SavedSeq(a) = SavedSeq(st)
      /\ Last(a) = Last(st) + 1 /\ LastSeq(a) = Last(st) + 1
  BY <1>2, <1>3 DEF SameBut, CountedBy, SavedSeq
<1>5. StoreInv(a)
  <2>1. StoreInv(CountRecord(st, r.sequence)) /\ r.sequence \in Int
    BY <1>2, CountRecordInv DEF DataReg
  <2>2. Last(CountRecord(st, r.sequence)) = r.sequence
    BY CountRecordEffect DEF StoreInv, Last
  <2> QED
    BY <1>1, <1>2, <2>1, <2>2, ApplyCommitInv DEF Last
<1>6. new = StatusSnapshot(a, ok)
  BY <1>1, <1>2 DEF WriteFiles
<1>7. Extends(st.fdata, a.fdata)
  BY <1>3, ExtendsAppend DEF StoreInv, Stores
<1>8. /\ LastSeq(st) \in Nat /\ Last(st) \in Nat /\ Last(st) + 1 \in Nat
      /\ LastSeq(st) <= Last(st) /\ Last(st) <= Last(st) + 1
      /\ Last(st) + 1 <= Last(st) + 1
  BY DEF TxInv, Regs
<1>9. ASSUME NEW s \in Serials
      PROVE  /\ RegOK(a.findex[s], LastSeq(a), Last(a), Listed(<< >>, s))
             /\ CommittedOf(a, s) = WorkOf(st, s)
             /\ WorkOf(a, s) = WorkOf(st, s)
             /\ PublishedOf(a, s) = PublishedOf(st, s)
  <2>1. PICK ix : ix = st.findex[s]
    OBVIOUS
  <2>2. /\ ix \in IndexReg /\ Listed(st.dirty, s) \in BOOLEAN
        /\ RegOK(ix, LastSeq(st), Last(st), Listed(st.dirty, s))
    BY <2>1 DEF StoreInv, Stores, TxInv, Regs, Listed
  <2>3. /\ RegOK(ix, Last(st) + 1, Last(st) + 1, FALSE)
        /\ GetLastOffset(ix, Last(st) + 1, FALSE) = GetLastOffset(ix, LastSeq(st), TRUE)
        /\ GetLastOffset(ix, Last(st) + 1, TRUE) = GetLastOffset(ix, LastSeq(st), TRUE)
    BY <1>8, <2>2, RegCommit
  <2>4. Listed(<< >>, s) = FALSE
    BY DEF Listed
  <2>5. ReadIn(a.fdata, ix, LastSeq(st), TRUE) = ReadIn(st.fdata, ix, LastSeq(st), TRUE)
    BY <1>7, <2>1, ReadStays
  <2>6. /\ ReadIn(a.fdata, ix, Last(st) + 1, FALSE) = ReadIn(a.fdata, ix, LastSeq(st), TRUE)
        /\ ReadIn(a.fdata, ix, Last(st) + 1, TRUE) = ReadIn(a.fdata, ix, LastSeq(st), TRUE)
    BY <2>3 DEF ReadIn
  <2>7. ReadIn(a.fdata, ix, SavedSeq(st), FALSE) = ReadIn(st.fdata, ix, SavedSeq(st), FALSE)
    BY <1>7, <2>1, ReadStays
  <2>8. RegOK(a.findex[s], LastSeq(a), Last(a), Listed(<< >>, s))
    BY <1>4, <2>1, <2>3, <2>4
  <2>9. CommittedOf(a, s) = WorkOf(st, s)
    BY <1>4, <2>1, <2>5, <2>6 DEF CommittedOf, WorkOf
  <2>10. WorkOf(a, s) = WorkOf(st, s)
    BY <1>4, <2>1, <2>5, <2>6 DEF WorkOf
  <2>11. PublishedOf(a, s) = PublishedOf(st, s)
    BY <1>4, <2>1, <2>7 DEF PublishedOf
  <2> QED
    BY <2>8, <2>9, <2>10, <2>11
<1>10. Regs(a, << >>)
  BY <1>4, <1>8, <1>9 DEF Regs
<1>11. /\ Regs(new, << >>) /\ new.auto = a.auto
       /\ SameReads(a, new) /\ PublishedMoves(a, new)
  BY <1>5, <1>6, <1>10, SnapshotTx
<1> QED
  BY <1>2, <1>4, <1>9, <1>11 DEF SameReads, PublishedMoves

(* The register new is ix with its dirty version, if any, undone.          *)
UndoneFrom(new, ix, lcs, last) ==
    /\ RegOK(new, lcs, last, FALSE)
    /\ GetLastOffset(new, lcs, FALSE) = GetLastOffset(ix, lcs, FALSE)
    /\ GetLastOffset(new, lcs, TRUE) = GetLastOffset(ix, lcs, FALSE)

(* Undoing a register gives back the version a committed reader found.     *)
LEMMA UndoneReg ==
    ASSUME NEW ix \in IndexReg, NEW lcs \in Nat, NEW last \in Nat,
           NEW list, Distinct(list), NEW s,
           RegOK(ix, lcs, last, Listed(list, s))
    PROVE  UndoneFrom(UndoIndex(ix, list, s), ix, lcs, last)
<1>0. PICK new : new = UndoIndex(ix, list, s)
  OBVIOUS
<1>1. CASE Listed(list, s)
  <2>1. ~ListedAgain(list, s)
    BY DEF Distinct, ListedAgain
  <2>2. new = SetNewestOffset(ix, -1, FALSE)
    BY <1>0, <1>1, <2>1 DEF UndoIndex
  <2>3. Listed(list, s) = TRUE
    BY <1>1 DEF Listed
  <2>4. RegOK(ix, lcs, last, TRUE)
    BY <2>3
  <2> QED
    BY <1>0, <2>2, <2>4, RegUndo DEF UndoneFrom
<1>2. CASE ~Listed(list, s)
  <2>1. new = ix
    BY <1>0, <1>2 DEF UndoIndex
  <2>2. Listed(list, s) = FALSE
    BY <1>2 DEF Listed
  <2>3. RegOK(ix, lcs, last, FALSE)
    BY <2>2
  <2>4. GetLastOffset(ix, lcs, TRUE) = GetLastOffset(ix, lcs, FALSE)
    BY <2>3, RegClean
  <2> QED
    BY <1>0, <2>1, <2>3, <2>4 DEF UndoneFrom
<1> QED
  BY <1>1, <1>2

(* The writer is back at the last commit.                                  *)
Undone(st, new) ==
    \A s \in Serials : /\ CommittedOf(new, s) = CommittedOf(st, s)
                       /\ WorkOf(new, s) = CommittedOf(st, s)

(* The first record of a rollback puts the committed versions in place of  *)
(* all the dirty ones.                                                     *)
LEMMA RollbackBeginTx ==
    ASSUME NEW st, StoreInv(st), TxInv(st), Carried(st), NEW ok \in BOOLEAN,
           NEW new,
           new = WriteFiles(st, MarkReg("ROLLBACK_BEGIN", Last(st) + 1, st.dirty), ok)
    PROVE  /\ StoreInv(new) /\ Regs(new, << >>)
           /\ new.auto = st.auto
           /\ Undone(st, new)
           /\ PublishedMoves(st, new)
<1>1. PICK r, a, e :
         /\ r = MarkReg("ROLLBACK_BEGIN", Last(st) + 1, st.dirty)
         /\ a = ApplyRollbackBegin(CountRecord(st, r.sequence), r, ok)
         /\ e = ApplyRollbackEnd(CountRecord(st, r.sequence), r, ok)
  OBVIOUS
<1>2. /\ r \in DataReg /\ r.type = "ROLLBACK_BEGIN" /\ r.sequence = Last(st) + 1
      /\ r.serials = st.dirty
      /\ StoreInv(new)
  <2>1. /\ "ROLLBACK_BEGIN" \in RecordTypes /\ "ROLLBACK_BEGIN" # "WRITE"
        /\ st.dirty \in Seq(Serials) /\ Last(st) + 1 \in Int
    BY DEF RecordTypes, TxInv, Regs, StoreInv, Stores
  <2>2. r \in DataReg /\ r.type = "ROLLBACK_BEGIN" /\ r.sequence = Last(st) + 1
        /\ r.serials = st.dirty
    BY <1>1, <2>1, MarkRegType
  <2>3. StoreInv(new)
    BY <1>1, <2>1, MarkInv DEF Last
  <2> QED
    BY <2>2, <2>3
<1>3. /\ SameBut(st, e, {"fdata", "flog", "state"})
      /\ SameBut(e, a, {"findex"})
      /\ a.findex = [s \in Serials |-> UndoIndex(st.findex[s], r.serials, s)]
      /\ e.fdata = DataWith(st.fdata, r, ok)
      /\ CountedBy(st, e, 1, r.sequence)
      /\ LastSeq(e) = LastSeq(st)
  BY <1>1, <1>2, RollbackEffect
<1>4. /\ a.auto = st.auto /\ SavedSeq(a) = SavedSeq(st)
      /\ Last(a) = Last(st) + 1 /\ LastSeq(a) = LastSeq(st)
      /\ a.fdata = DataWith(st.fdata, r, ok)
  BY <1>2, <1>3 DEF SameBut, CountedBy, SavedSeq, LastSeq, Last
<1>5. StoreInv(a)
  <2>1. StoreInv(CountRecord(st, r.sequence)) /\ r.sequence \in Int
    BY <1>2, CountRecordInv DEF DataReg
  <2>2. Last(CountRecord(st, r.sequence)) = r.sequence
    BY CountRecordEffect DEF StoreInv, Last
  <2> QED
    BY <1>1, <1>2, <2>1, <2>2, ApplyRollbackInv DEF Last
<1>6. new = StatusSnapshot(a, ok)
  BY <1>1, <1>2 DEF WriteFiles
<1>7. Extends(st.fdata, a.fdata)
  BY <1>4, ExtendsAppend DEF StoreInv, Stores
<1>8. /\ LastSeq(st) \in Nat /\ Last(st) \in Nat /\ Last(st) + 1 \in Nat
      /\ LastSeq(st) <= Last(st) /\ Last(st) <= Last(st) + 1
      /\ LastSeq(st) <= Last(st) + 1
  BY DEF TxInv, Regs
<1>9. ASSUME NEW s \in Serials
      PROVE  /\ RegOK(a.findex[s], LastSeq(a), Last(a), Listed(<< >>, s))
             /\ CommittedOf(a, s) = CommittedOf(st, s)
             /\ WorkOf(a, s) = CommittedOf(st, s)
             /\ st.dirty = << >> => a.findex[s] = st.findex[s]
  <2>1. PICK ix, u : ix = st.findex[s] /\ u = UndoIndex(ix, st.dirty, s)
    OBVIOUS
  <2>2. /\ ix \in IndexReg /\ Listed(st.dirty, s) \in BOOLEAN
        /\ RegOK(ix, LastSeq(st), Last(st), Listed(st.dirty, s))
    BY <2>1 DEF StoreInv, Stores, TxInv, Regs, Listed
  <2>3. /\ RegOK(u, LastSeq(st), Last(st), FALSE)
        /\ GetLastOffset(u, LastSeq(st), FALSE) = GetLastOffset(ix, LastSeq(st), FALSE)
        /\ GetLastOffset(u, LastSeq(st), TRUE) = GetLastOffset(ix, LastSeq(st), FALSE)
    <3>1. Distinct(st.dirty)
      BY DEF TxInv
    <3>2. UndoneFrom(UndoIndex(ix, st.dirty, s), ix, LastSeq(st), Last(st))
      BY <1>8, <2>2, <3>1, UndoneReg
    <3> QED
      BY <2>1, <3>2 DEF UndoneFrom
  <2>4. Listed(<< >>, s) = FALSE
    BY DEF Listed
  <2>5. a.findex[s] = u
    BY <1>2, <1>3, <2>1
  <2>6. RegOK(u, LastSeq(st), Last(st) + 1, FALSE)
    <3>1. u \in IndexReg
      BY <1>5, <2>5 DEF StoreInv, Stores
    <3> QED
      BY <1>8, <2>3, <3>1, RegGrows
  <2>7. ReadIn(a.fdata, ix, LastSeq(st), FALSE) = ReadIn(st.fdata, ix, LastSeq(st), FALSE)
    BY <1>7, <2>1, ReadStays
  <2>8. /\ ReadIn(a.fdata, u, LastSeq(st), FALSE) = ReadIn(a.fdata, ix, LastSeq(st), FALSE)
        /\ ReadIn(a.fdata, u, LastSeq(st), TRUE) = ReadIn(a.fdata, ix, LastSeq(st), FALSE)
    BY <2>3 DEF ReadIn
  <2>9. RegOK(a.findex[s], LastSeq(a), Last(a), Listed(<< >>, s))
    BY <1>4, <2>4, <2>5, <2>6
  <2>10. CommittedOf(a, s) = CommittedOf(st, s)
    BY <1>4, <2>1, <2>5, <2>7, <2>8 DEF CommittedOf
  <2>11. WorkOf(a, s) = CommittedOf(st, s)
    BY <1>4, <2>1, <2>5, <2>7, <2>8 DEF CommittedOf, WorkOf
  <2>12. st.dirty = << >> => a.findex[s] = st.findex[s]
    BY <2>1, <2>4, <2>5 DEF UndoIndex
  <2> QED
    BY <2>9, <2>10, <2>11, <2>12
<1>10. Regs(a, << >>)
  BY <1>4, <1>8, <1>9 DEF Regs
<1>11. PublishedMoves(st, a)
  <2>1. CASE st.dirty = << >>
    <3>1. ASSUME NEW s \in Serials
          PROVE  PublishedOf(a, s) = PublishedOf(st, s)
      <4>1. a.findex[s] = st.findex[s]
        BY <1>9, <2>1
      <4>2. ReadIn(a.fdata, st.findex[s], SavedSeq(st), FALSE)
               = ReadIn(st.fdata, st.findex[s], SavedSeq(st), FALSE)
        BY <1>7, ReadStays
      <4> QED
        BY <1>4, <4>1, <4>2 DEF PublishedOf
    <3> QED
      BY <3>1 DEF PublishedMoves
  <2>2. CASE st.dirty # << >>
    <3>1. SavedSeq(a) = LastSeq(a)
      BY <1>4, <2>2 DEF Carried
    <3> QED
      BY <3>1 DEF PublishedMoves, PublishedOf, CommittedOf
  <2> QED
    BY <2>1, <2>2
<1>12. /\ Regs(new, << >>) /\ new.auto = a.auto
       /\ SameReads(a, new) /\ PublishedMoves(a, new)
  BY <1>5, <1>6, <1>10, SnapshotTx
<1>13. PublishedMoves(st, new)
  BY <1>11, <1>12 DEF PublishedMoves, SameReads
<1>14. Undone(st, new)
  BY <1>9, <1>12 DEF Undone, SameReads
<1> QED
  BY <1>2, <1>4, <1>12, <1>13, <1>14

(* The second record of a rollback changes nothing for readers.            *)
LEMMA RollbackEndTx ==
    ASSUME NEW st, StoreInv(st), NEW list, Regs(st, list), NEW ok \in BOOLEAN,
           NEW new,
           new = WriteFiles(st, MarkReg("ROLLBACK_END", Last(st) + 1, << >>), ok)
    PROVE  /\ StoreInv(new) /\ Regs(new, list)
           /\ new.auto = st.auto
           /\ SameReads(st, new)
           /\ PublishedMoves(st, new)
<1>1. PICK r, a :
         /\ r = MarkReg("ROLLBACK_END", Last(st) + 1, << >>)
         /\ a = ApplyRollbackEnd(CountRecord(st, r.sequence), r, ok)
  OBVIOUS
<1>2. /\ r \in DataReg /\ r.type = "ROLLBACK_END" /\ r.sequence = Last(st) + 1
      /\ StoreInv(new)
  <2>1. /\ "ROLLBACK_END" \in RecordTypes /\ "ROLLBACK_END" # "WRITE"
        /\ << >> \in Seq(Serials) /\ Last(st) + 1 \in Int
    BY DEF RecordTypes, Regs
  <2>2. r \in DataReg
    BY <1>1, <2>1, MarkRegType
  <2>3. StoreInv(new)
    BY <1>1, <2>1, MarkInv DEF Last
  <2> QED
    BY <1>1, <2>2, <2>3 DEF MarkReg
<1>3. /\ SameBut(st, a, {"fdata", "flog", "state"})
      /\ a.fdata = DataWith(st.fdata, r, ok)
      /\ CountedBy(st, a, 1, r.sequence)
      /\ LastSeq(a) = LastSeq(st)
  BY <1>1, <1>2, RollbackEffect, ZenonT(60)
<1>4. /\ a.findex = st.findex /\ a.auto = st.auto
      /\ SavedSeq(a) = SavedSeq(st) /\ Last(a) = Last(st) + 1
  BY <1>2, <1>3 DEF SameBut, CountedBy, SavedSeq
<1>5. StoreInv(a)
  <2>1. StoreInv(CountRecord(st, r.sequence)) /\ r.sequence \in Int
    BY <1>2, CountRecordInv DEF DataReg
  <2>2. Last(CountRecord(st, r.sequence)) = r.sequence
    BY CountRecordEffect DEF StoreInv, Last
  <2> QED
    BY <1>1, <1>2, <2>1, <2>2, ApplyRollbackInv DEF Last
<1>6. new = StatusSnapshot(a, ok)
  BY <1>1, <1>2 DEF WriteFiles
<1>7. Extends(st.fdata, a.fdata)
  BY <1>3, ExtendsAppend DEF StoreInv, Stores
<1>8. Regs(a, list)
  BY <1>3, <1>4, RegsGrow
<1>9. /\ SameReads(st, a)
      /\ \A s \in Serials : PublishedOf(a, s) = PublishedOf(st, s)
  BY <1>3, <1>4, <1>7, ReadsStay
<1>10. /\ Regs(new, list) /\ new.auto = a.auto
       /\ SameReads(a, new) /\ PublishedMoves(a, new)
  BY <1>5, <1>6, <1>8, SnapshotTx
<1>11. SameReads(st, new)
  BY <1>9, <1>10 DEF SameReads
<1>12. PublishedMoves(st, new)
  BY <1>9, <1>10 DEF PublishedMoves
<1> QED
  BY <1>2, <1>4, <1>10, <1>11, <1>12

(***************************************************************************)
(* The calls.                                                               *)
(***************************************************************************)

(* Clearing the dirty serials of a store that has none left in its index.  *)
LEMMA ClearTx ==
    ASSUME NEW st, StoreInv(st), Regs(st, << >>),
           NEW new, new = ClearDirtySerials(st)
    PROVE  /\ StoreInv(new) /\ TxInv(new)
           /\ new.auto = st.auto
           /\ SameReads(st, new)
           /\ PublishedMoves(st, new)
<1>1. st \in Stores
  BY DEF StoreInv
<1>2. SameBut(st, new, {"dirty"}) /\ new.dirty = << >>
  BY <1>1, ClearEffect
<1>3. /\ new.fdata = st.fdata /\ new.findex = st.findex /\ new.auto = st.auto
      /\ LastSeq(new) = LastSeq(st) /\ Last(new) = Last(st)
      /\ SavedSeq(new) = SavedSeq(st)
  BY <1>2 DEF SameBut, LastSeq, Last, SavedSeq
<1>4. StoreInv(new)
  BY ClearInv
<1>5. TxInv(new)
  <2>1. Distinct(<< >>)
    BY DEF Distinct
  <2> QED
    BY <1>2, <1>3, <2>1 DEF TxInv, Regs
<1> QED
  BY <1>3, <1>4, <1>5
     DEF SameReads, PublishedMoves, CommittedOf, WorkOf, PublishedOf

(* A call leaves the store it has computed.                                *)
LEMMA BecomesStore ==
    ASSUME NEW st, StoreInv(st), Becomes(st), fauto_commit' = st.auto
    PROVE  Store' = st
  BY DEF Becomes, Store, StoreInv, Stores

(* With no caller that writes a serial twice in a transaction or closes    *)
(* the storage inside one, and no crash.                                   *)
TxOK ==
    /\ Inv2
    /\ TxInv(Store)
    /\ ~opened => dirtySerials = << >> /\ fstate = state

(* What a call finds when it begins.                                       *)
LEMMA TxFacts ==
    ASSUME TxOK
    PROVE  /\ Inv /\ StoreInv(Store) /\ TxInv(Store) /\ Carried(Store)
           /\ Store.state = state /\ Store.dirty = dirtySerials
           /\ Store.auto = fauto_commit /\ Store.fstate = fstate
           /\ Last(Store) = state.last_sequence
           /\ fauto_commit \in BOOLEAN /\ opened \in BOOLEAN
           /\ state.last_sequence + 1 \in Int
  BY NextSequence DEF TxOK, Inv2, Inv, Store, Last

(* write() changes the views as the abstract store does, or not at all     *)
(* when its append fails.                                                  *)
LEMMA WriteStep ==
    ASSUME TxOK, "rewrite" \notin Allowed, NEW s \in Serials, NEW v \in Values,
           NEW ok \in BOOLEAN, Write(s, v, ok)
    PROVE  /\ TxInv(Store)'
           /\ IF ok
              THEN /\ WriteReads(Store, Store', WriteReg(s, state.last_sequence + 1,
                                                      fauto_commit, v))
                   /\ \A t \in Serials : PublishedOf(Store', t) = CommittedOf(Store', t)
              ELSE /\ SameReads(Store, Store')
                   /\ \A t \in Serials : PublishedOf(Store', t) = PublishedOf(Store, t)
<1>1. PICK r, new : /\ r = WriteReg(s, state.last_sequence + 1, fauto_commit, v)
                    /\ new = WriteFiles(Store, r, ok)
  OBVIOUS
<1>2. /\ r \in DataReg /\ r.type = "WRITE" /\ r.serial = s /\ r.val = v
      /\ r.sequence = Last(Store) + 1 /\ r.auto = Store.auto
  BY <1>1, TxFacts, WriteRegType DEF WriteReg
<1>3. ~Listed(Store.dirty, r.serial)
  BY <1>2, TxFacts DEF Write, Dirty
<1>4. /\ StoreInv(new) /\ TxInv(new) /\ new.auto = Store.auto
      /\ IF ok
         THEN /\ WriteReads(Store, new, r)
              /\ \A t \in Serials : PublishedOf(new, t) = CommittedOf(new, t)
         ELSE /\ SameReads(Store, new)
              /\ \A t \in Serials : PublishedOf(new, t) = PublishedOf(Store, t)
  <2>1. CASE ok
    <3>1. new = WriteFiles(Store, r, TRUE)
      BY <1>1, <2>1
    <3> QED
      BY <1>2, <1>3, <2>1, <3>1, TxFacts, WriteTx
  <2>2. CASE ~ok
    <3>1. new = WriteFiles(Store, r, FALSE)
      BY <1>1, <2>2
    <3> QED
      BY <1>2, <2>2, <3>1, TxFacts, FailedWriteTx
  <2> QED
    BY <2>1, <2>2
<1>5. Store' = new
  BY <1>1, <1>4, TxFacts, BecomesStore DEF Write
<1>6. TxInv(Store)'
  BY <1>4, <1>5
<1> QED
  BY <1>1, <1>4, <1>5, <1>6

(* commit() makes the writer's view the committed one.                     *)
LEMMA CommitStep ==
    ASSUME TxOK, NEW ok \in BOOLEAN, Commit(ok)
    PROVE  /\ TxInv(Store)'
           /\ \A s \in Serials : /\ CommittedOf(Store', s) = WorkOf(Store, s)
                                 /\ WorkOf(Store', s) = WorkOf(Store, s)
           /\ PublishedMoves(Store, Store')
<1>1. PICK new, clr :
         /\ new = WriteFiles(Store, MarkReg("COMMIT", Last(Store) + 1, << >>), ok)
         /\ clr = ClearDirtySerials(new)
  OBVIOUS
<1>2. /\ StoreInv(new) /\ Regs(new, << >>)
      /\ new.auto = Store.auto
      /\ \A s \in Serials : /\ CommittedOf(new, s) = WorkOf(Store, s)
                            /\ WorkOf(new, s) = WorkOf(Store, s)
      /\ \/ \A s \in Serials : PublishedOf(new, s) = PublishedOf(Store, s)
         \/ \A s \in Serials : PublishedOf(new, s) = CommittedOf(new, s)
  BY <1>1, TxFacts, CommitTx
<1>3. /\ StoreInv(clr) /\ TxInv(clr) /\ clr.auto = new.auto
      /\ SameReads(new, clr) /\ PublishedMoves(new, clr)
  BY <1>1, <1>2, ClearTx
<1>4. Store' = clr
  BY <1>1, <1>2, <1>3, TxFacts, BecomesStore DEF Commit
<1>5. TxInv(Store)'
  BY <1>3, <1>4
<1> QED
  BY <1>2, <1>3, <1>4, <1>5 DEF SameReads, PublishedMoves

(* rollback() makes the committed view the writer's.                       *)
LEMMA RollbackStep ==
    ASSUME TxOK, NEW ok1 \in BOOLEAN, NEW ok2 \in BOOLEAN, Rollback(ok1, ok2)
    PROVE  /\ TxInv(Store)'
           /\ Undone(Store, Store')
           /\ PublishedMoves(Store, Store')
<1>1. PICK beg, end, clr :
         /\ beg = WriteFiles(Store, MarkReg("ROLLBACK_BEGIN", Last(Store) + 1,
                                            Store.dirty), ok1)
         /\ end = WriteFiles(beg, MarkReg("ROLLBACK_END", Last(beg) + 1, << >>), ok2)
         /\ clr = ClearDirtySerials(end)
  OBVIOUS
<1>2. /\ StoreInv(beg) /\ Regs(beg, << >>) /\ beg.auto = Store.auto
      /\ Undone(Store, beg) /\ PublishedMoves(Store, beg)
  BY <1>1, TxFacts, RollbackBeginTx
<1>3. /\ StoreInv(end) /\ Regs(end, << >>) /\ end.auto = beg.auto
      /\ SameReads(beg, end) /\ PublishedMoves(beg, end)
  BY <1>1, <1>2, RollbackEndTx
<1>4. /\ StoreInv(clr) /\ TxInv(clr) /\ clr.auto = end.auto
      /\ SameReads(end, clr) /\ PublishedMoves(end, clr)
  BY <1>1, <1>3, ClearTx
<1>5. Store' = clr
  <2>1. beg = RollbackBegin(ok1) /\ end = RollbackEnd(beg, ok2)
    BY <1>1, TxFacts DEF RollbackBegin, RollbackEnd, Last
  <2> QED
    BY <1>1, <1>2, <1>3, <1>4, <2>1, TxFacts, BecomesStore DEF Rollback
<1>6. TxInv(Store)'
  BY <1>4, <1>5
<1>7. Undone(Store, clr)
  BY <1>2, <1>3, <1>4 DEF Undone, SameReads
<1>8. PublishedMoves(Store, clr)
  <2>1. PublishedMoves(Store, end)
    BY <1>2, <1>3 DEF PublishedMoves, SameReads
  <2> QED
    BY <1>4, <2>1 DEF PublishedMoves, SameReads
<1> QED
  BY <1>5, <1>6, <1>7, <1>8

(* With no dirty serials the writer sees what is committed.                *)
LEMMA CleanReads ==
    ASSUME NEW st, StoreInv(st), TxInv(st), st.dirty = << >>
    PROVE  \A s \in Serials : WorkOf(st, s) = CommittedOf(st, s)
<1> SUFFICES ASSUME NEW s \in Serials PROVE WorkOf(st, s) = CommittedOf(st, s)
  OBVIOUS
<1>1. /\ st.findex[s] \in IndexReg /\ LastSeq(st) \in Nat /\ Last(st) \in Nat
      /\ RegOK(st.findex[s], LastSeq(st), Last(st), Listed(<< >>, s))
  BY DEF StoreInv, Stores, TxInv, Regs
<1>2. Listed(<< >>, s) = FALSE
  BY DEF Listed
<1>3. RegOK(st.findex[s], LastSeq(st), Last(st), FALSE)
  BY <1>1, <1>2
<1>4. GetLastOffset(st.findex[s], LastSeq(st), TRUE)
         = GetLastOffset(st.findex[s], LastSeq(st), FALSE)
  BY <1>1, <1>3, RegClean
<1> QED
  BY <1>4 DEF WorkOf, CommittedOf, ReadIn

(* Saving the state publishes what is committed.                           *)
LEMMA CloseStep ==
    ASSUME TxOK, "dirtyClose" \notin Allowed, Close
    PROVE  /\ TxInv(Store)'
           /\ fstate' = state'
           /\ \A s \in Serials : /\ CommittedOf(Store', s) = CommittedOf(Store, s)
                                 /\ WorkOf(Store', s) = CommittedOf(Store, s)
                                 /\ PublishedOf(Store', s) = CommittedOf(Store, s)
<1>1. PICK sv, clr : sv = SaveState(Store) /\ clr = ClearDirtySerials(sv)
  OBVIOUS
<1>2. Store.dirty = << >>
  BY TxFacts DEF Close
<1>3. StoreInv(sv) /\ sv \in Stores
  BY <1>1, TxFacts, SaveStateInv DEF StoreInv
<1>4. SameBut(Store, sv, {"fstate"}) /\ sv.fstate = Store.state
  BY <1>1, TxFacts, SaveStateEffect DEF StoreInv
<1>5. SameBut(sv, clr, {"dirty"}) /\ clr.dirty = << >>
  BY <1>1, <1>3, ClearEffect
<1>6. /\ clr.fdata = Store.fdata /\ clr.findex = Store.findex
      /\ clr.auto = Store.auto /\ clr.state = Store.state
      /\ clr.fstate = clr.state /\ clr.dirty = Store.dirty
  BY <1>2, <1>4, <1>5 DEF SameBut
<1>7. /\ LastSeq(clr) = LastSeq(Store) /\ Last(clr) = Last(Store)
      /\ SavedSeq(clr) = LastSeq(Store)
  BY <1>6 DEF LastSeq, Last, SavedSeq
<1>8. StoreInv(clr)
  BY <1>1, <1>3, ClearInv
<1>9. fdata' = clr.fdata /\ findex' = clr.findex /\ flog' = clr.flog
      /\ fstate' = clr.fstate /\ state' = clr.state /\ dirtySerials' = clr.dirty
  BY <1>1 DEF Close, Becomes
<1>10. PICK new : new = Store'
  OBVIOUS
<1>11. /\ new.fdata = Store.fdata /\ new.findex = Store.findex
       /\ new.dirty = Store.dirty /\ new.auto = FALSE
       /\ LastSeq(new) = LastSeq(Store) /\ Last(new) = Last(Store)
       /\ SavedSeq(new) = LastSeq(Store)
  <2>1. /\ new.fdata = fdata' /\ new.findex = findex' /\ new.dirty = dirtySerials'
        /\ new.auto = fauto_commit' /\ new.state = state' /\ new.fstate = fstate'
    BY <1>10 DEF Store
  <2>2. fauto_commit' = FALSE
    BY DEF Close
  <2> QED
    BY <1>6, <1>7, <1>9, <2>1, <2>2 DEF LastSeq, Last, SavedSeq
<1>12. TxInv(new)
  BY <1>2, <1>11, TxFacts DEF TxInv, Regs
<1>13. \A s \in Serials : WorkOf(Store, s) = CommittedOf(Store, s)
  BY <1>2, TxFacts, CleanReads
<1>14. TxInv(Store)'
  BY <1>10, <1>12
<1>15. \A s \in Serials : /\ CommittedOf(new, s) = CommittedOf(Store, s)
                          /\ WorkOf(new, s) = WorkOf(Store, s)
                          /\ PublishedOf(new, s) = CommittedOf(Store, s)
  BY <1>11 DEF CommittedOf, WorkOf, PublishedOf
<1>16. \A s \in Serials : /\ CommittedOf(new, s) = CommittedOf(Store, s)
                          /\ WorkOf(new, s) = CommittedOf(Store, s)
                          /\ PublishedOf(new, s) = CommittedOf(Store, s)
  BY <1>13, <1>15
<1> QED
  BY <1>6, <1>9, <1>10, <1>14, <1>16

(* Opening again finds the state that close saved.                         *)
LEMMA OpenStep ==
    ASSUME TxOK, NEW auto \in BOOLEAN, Open(auto)
    PROVE  /\ TxInv(Store)'
           /\ SameReads(Store, Store')
           /\ \A s \in Serials : PublishedOf(Store', s) = PublishedOf(Store, s)
<1>1. PICK new : new = Store'
  OBVIOUS
<1>2. /\ new.fdata = Store.fdata /\ new.findex = Store.findex
      /\ new.dirty = << >> /\ Store.dirty = << >>
      /\ new.state = Store.state /\ new.fstate = Store.fstate
  BY <1>1 DEF Open, Store, TxOK
<1>3. /\ LastSeq(new) = LastSeq(Store) /\ Last(new) = Last(Store)
      /\ SavedSeq(new) = SavedSeq(Store)
  BY <1>2 DEF LastSeq, Last, SavedSeq
<1>4. TxInv(new)
  BY <1>2, <1>3, TxFacts DEF TxInv, Regs
<1>5. TxInv(Store)'
  BY <1>1, <1>4
<1>6. \A s \in Serials : /\ CommittedOf(new, s) = CommittedOf(Store, s)
                         /\ WorkOf(new, s) = WorkOf(Store, s)
                         /\ PublishedOf(new, s) = PublishedOf(Store, s)
  BY <1>2, <1>3 DEF CommittedOf, WorkOf, PublishedOf
<1> QED
  BY <1>1, <1>5, <1>6 DEF SameReads

(* All views of a new storage are empty.                                   *)
LEMMA InitTx == Init => TxOK
<1> SUFFICES ASSUME Init PROVE TxOK
  OBVIOUS
<1>1. Inv2
  <2>1. Carried(Store)
    BY DEF Init, Carried, Store
  <2> QED
    BY <2>1, InitInv DEF Inv2
<1>2. /\ LastSeq(Store) = 0 /\ Last(Store) = 0 /\ Store.dirty = << >>
      /\ \A s \in Serials : Store.findex[s] = EmptyIndex
  BY DEF Init, Store, LastSeq, Last, ZeroState
<1>3. \A s \in Serials : Listed(<< >>, s) = FALSE
  BY DEF Listed
<1>4. Regs(Store, << >>)
  <2>1. \A s \in Serials : RegOK(Store.findex[s], LastSeq(Store), Last(Store), FALSE)
    BY <1>2 DEF RegOK
  <2>2. \A s \in Serials : RegOK(Store.findex[s], LastSeq(Store), Last(Store),
                                 Listed(<< >>, s))
    BY <1>3, <2>1
  <2> QED
    BY <1>2, <2>2 DEF Regs
<1>5. TxInv(Store)
  <2>1. Distinct(<< >>)
    BY DEF Distinct
  <2> QED
    BY <1>2, <1>4, <2>1 DEF TxInv
<1> QED
  BY <1>1, <1>5 DEF TxOK, Init

(* The discipline of the callers: each serial once in a transaction, close *)
(* between transactions; and the process does not die. Appends may fail.   *)
(* Without any of the three the storage is no transactional store, as the  *)
(* README tells.                                                           *)
Tame == Allowed \subseteq {"fault"}

(* The invariant of the refinement is inductive.                           *)
LEMMA NextTx == ASSUME Tame, TxOK, [Next]_vars PROVE TxOK'
<1> USE AppendOutcomesType
<1>1. Inv2'
  BY NextInv2 DEF TxOK
<1>2. CASE \E s \in Serials, v \in Values, ok \in AppendOutcomes : Write(s, v, ok)
  <2>1. PICK s \in Serials, v \in Values, ok \in BOOLEAN : Write(s, v, ok)
    BY <1>2
  <2>2. TxInv(Store)'
    BY <2>1, WriteStep DEF Tame
  <2> QED
    BY <1>1, <2>1, <2>2 DEF TxOK, Write
<1>3. CASE \E ok \in AppendOutcomes : Commit(ok)
  <2>1. PICK ok \in BOOLEAN : Commit(ok)
    BY <1>3
  <2>2. TxInv(Store)'
    BY <2>1, CommitStep
  <2> QED
    BY <1>1, <2>1, <2>2 DEF TxOK, Commit
<1>4. CASE \E ok1, ok2 \in AppendOutcomes : Rollback(ok1, ok2)
  <2>1. PICK ok1 \in BOOLEAN, ok2 \in BOOLEAN : Rollback(ok1, ok2)
    BY <1>4
  <2>2. TxInv(Store)'
    BY <2>1, RollbackStep
  <2> QED
    BY <1>1, <2>1, <2>2 DEF TxOK, Rollback
<1>5. CASE Close
  <2>1. TxInv(Store)' /\ fstate' = state'
    BY <1>5, CloseStep DEF Tame
  <2>2. dirtySerials' = << >>
    <3>1. PICK sv, clr : sv = SaveState(Store) /\ clr = ClearDirtySerials(sv)
      OBVIOUS
    <3>2. sv \in Stores
      BY <3>1, TxFacts, SaveStateInv DEF StoreInv
    <3>3. clr.dirty = << >>
      BY <3>1, <3>2, ClearEffect
    <3> QED
      BY <1>5, <3>1, <3>3 DEF Close, Becomes
  <2> QED
    BY <1>1, <2>1, <2>2 DEF TxOK
<1>6. CASE \E auto \in BOOLEAN : Open(auto)
  <2>1. PICK auto \in BOOLEAN : Open(auto)
    BY <1>6
  <2>2. TxInv(Store)'
    BY <2>1, OpenStep
  <2> QED
    BY <1>1, <2>1, <2>2 DEF TxOK, Open
<1>7. CASE Crash
  BY <1>7 DEF Crash, Tame
<1>8. CASE UNCHANGED vars
  <2>1. Store' = Store /\ opened' = opened /\ dirtySerials' = dirtySerials
        /\ fstate' = fstate /\ state' = state
    BY <1>8 DEF vars, Store
  <2>2. TxInv(Store')
    BY <2>1 DEF TxOK
  <2>3. TxInv(Store)'
    BY <2>2
  <2> QED
    BY <1>1, <2>1, <2>3 DEF TxOK
<1> QED
  BY <1>2, <1>3, <1>4, <1>5, <1>6, <1>7, <1>8 DEF Next

(***************************************************************************)
(* The refinement.                                                          *)
(***************************************************************************)

(* The views as functions, which the abstract store has as variables.      *)
CommittedMap(st) == [s \in Serials |-> CommittedOf(st, s)]
WorkMap(st)      == [s \in Serials |-> WorkOf(st, s)]
PublishedMap(st) == [s \in Serials |-> PublishedOf(st, s)]

(* The refinement mapping of SafeStorage, in terms of the store.           *)
Mapping ==
    /\ [s \in Serials |-> Committed(s)] = CommittedMap(Store)
    /\ [s \in Serials |-> Work(s)] = WorkMap(Store)
    /\ [s \in Serials |-> Published(s)] = PublishedMap(Store)

(* The operators of SafeStorage read what the views of the store say.      *)
LEMMA MappingHolds == TxOK => Mapping
<1> SUFFICES ASSUME TxOK PROVE Mapping
  OBVIOUS
<1>1. /\ LastCommit = LastSeq(Store) /\ fstate.last_commit_sequence = SavedSeq(Store)
      /\ Store.fdata = fdata /\ Store.findex = findex
  BY DEF TxOK, LastCommit, LastSeq, SavedSeq, Store
<1>2. ASSUME NEW s \in Serials, NEW lcs, NEW dirty \in BOOLEAN
      PROVE  Reads(s, lcs, dirty) = ReadIn(Store.fdata, Store.findex[s], lcs, dirty)
  BY <1>1 DEF Reads, ValueAt, ReadIn
<1>3. ASSUME NEW s \in Serials
      PROVE  /\ Committed(s) = CommittedOf(Store, s)
             /\ Work(s) = WorkOf(Store, s)
             /\ Published(s) = PublishedOf(Store, s)
  <2>1. Committed(s) = CommittedOf(Store, s)
    BY <1>1, <1>2 DEF Committed, CommittedOf
  <2>2. Work(s) = WorkOf(Store, s)
    BY <1>1, <1>2 DEF Work, WorkOf
  <2>3. Published(s) = PublishedOf(Store, s)
    BY <1>1, <1>2 DEF Published, PublishedOf
  <2> QED
    BY <2>1, <2>2, <2>3
<1> QED
  BY <1>3 DEF Mapping, CommittedMap, WorkMap, PublishedMap

(* A step of the transactional store between two snapshots of it.          *)
TxStep(c, w, p, cc, ww, pp) ==
    \/ \E s \in Serials, v \in Values :
          \/ ww = [w EXCEPT ![s] = v] /\ pp = c /\ cc = c
          \/ w = c /\ cc = [c EXCEPT ![s] = v] /\ ww = cc /\ pp = cc
    \/ cc = w /\ pp \in {p, cc} /\ ww = w
    \/ ww = c /\ pp \in {p, c} /\ cc = c
    \/ ww = c /\ pp = c /\ cc = c
    \/ ww = w /\ pp = p /\ cc = c

(* A step of the storage is one of the abstract store, or a stutter.       *)
MapStep == TxStep(CommittedMap(Store), WorkMap(Store), PublishedMap(Store),
                  CommittedMap(Store'), WorkMap(Store'), PublishedMap(Store'))

(* From what a call does for each serial to what it does to the maps.      *)
LEMMA MapsEqual ==
    ASSUME NEW st, NEW new
    PROVE  /\ SameReads(st, new) => /\ CommittedMap(new) = CommittedMap(st)
                                    /\ WorkMap(new) = WorkMap(st)
           /\ (\A s \in Serials : PublishedOf(new, s) = PublishedOf(st, s))
                 => PublishedMap(new) = PublishedMap(st)
           /\ (\A s \in Serials : PublishedOf(new, s) = CommittedOf(new, s))
                 => PublishedMap(new) = CommittedMap(new)
           /\ PublishedMoves(st, new)
                 => PublishedMap(new) \in {PublishedMap(st), CommittedMap(new)}
  BY DEF SameReads, PublishedMoves, CommittedMap, WorkMap, PublishedMap

(* write() is TWrite, TAutoWrite or a stutter.                             *)
LEMMA WriteMaps ==
    ASSUME Tame, TxOK, NEW s \in Serials, NEW v \in Values, NEW ok \in BOOLEAN,
           Write(s, v, ok)
    PROVE  MapStep
<1>1. PICK r, new : /\ r = WriteReg(s, state.last_sequence + 1, fauto_commit, v)
                    /\ new = Store'
  OBVIOUS
<1>2. r.serial = s /\ r.val = v
  BY <1>1 DEF WriteReg
<1>3. /\ ok => /\ WriteReads(Store, new, r)
               /\ PublishedMap(new) = CommittedMap(new)
      /\ ~ok => /\ SameReads(Store, new)
                /\ PublishedMap(new) = PublishedMap(Store)
  <2>1. IF ok
        THEN /\ WriteReads(Store, new, r)
             /\ \A t \in Serials : PublishedOf(new, t) = CommittedOf(new, t)
        ELSE /\ SameReads(Store, new)
             /\ \A t \in Serials : PublishedOf(new, t) = PublishedOf(Store, t)
    BY <1>1, WriteStep DEF Tame
  <2> QED
    BY <2>1, MapsEqual
<1>4. CASE ~ok
  BY <1>1, <1>3, <1>4, MapsEqual DEF MapStep, TxStep
<1>5. CASE ok /\ ~fauto_commit
  <2>1. /\ WorkMap(new) = [WorkMap(Store) EXCEPT ![s] = v]
        /\ CommittedMap(new) = CommittedMap(Store)
    <3>1. \A t \in Serials : /\ WorkOf(new, t) = IF t = s THEN v ELSE WorkOf(Store, t)
                             /\ CommittedOf(new, t) = CommittedOf(Store, t)
      BY <1>2, <1>3, <1>5, TxFacts DEF WriteReads
    <3> QED
      BY <3>1 DEF WorkMap, CommittedMap
  <2> QED
    BY <1>1, <1>3, <1>5, <2>1 DEF MapStep, TxStep
<1>6. CASE ok /\ fauto_commit
  <2>1. \A t \in Serials : WorkOf(Store, t) = CommittedOf(Store, t)
    <3>1. Store.dirty = << >>
      BY <1>6, TxFacts DEF TxInv
    <3> QED
      BY <3>1, CleanReads, TxFacts
  <2>2. /\ CommittedMap(new) = [CommittedMap(Store) EXCEPT ![s] = v]
        /\ WorkMap(new) = CommittedMap(new)
        /\ WorkMap(Store) = CommittedMap(Store)
    <3>1. \A t \in Serials :
             /\ WorkOf(new, t) = IF t = s THEN v ELSE WorkOf(Store, t)
             /\ CommittedOf(new, t) = IF t = s THEN v ELSE CommittedOf(Store, t)
      BY <1>2, <1>3, <1>6, TxFacts DEF WriteReads
    <3> QED
      BY <2>1, <3>1 DEF WorkMap, CommittedMap
  <2> QED
    BY <1>1, <1>3, <1>6, <2>2 DEF MapStep, TxStep
<1> QED
  BY <1>4, <1>5, <1>6, TxFacts

(* Every call is a step of the abstract store, or a stutter.               *)
LEMMA NextMaps == ASSUME Tame, TxOK, [Next]_vars PROVE MapStep
<1> USE AppendOutcomesType
<1>1. CASE \E s \in Serials, v \in Values, ok \in AppendOutcomes : Write(s, v, ok)
  BY <1>1, WriteMaps
<1>2. CASE \E ok \in AppendOutcomes : Commit(ok)
  <2>1. PICK ok \in BOOLEAN : Commit(ok)
    BY <1>2
  <2>2. PICK new : new = Store'
    OBVIOUS
  <2>3. /\ \A s \in Serials : /\ CommittedOf(new, s) = WorkOf(Store, s)
                              /\ WorkOf(new, s) = WorkOf(Store, s)
        /\ PublishedMoves(Store, new)
    BY <2>1, <2>2, CommitStep
  <2>4. /\ CommittedMap(new) = WorkMap(Store) /\ WorkMap(new) = WorkMap(Store)
        /\ PublishedMap(new) \in {PublishedMap(Store), CommittedMap(new)}
    BY <2>3, MapsEqual DEF CommittedMap, WorkMap
  <2> QED
    BY <2>2, <2>4 DEF MapStep, TxStep
<1>3. CASE \E ok1, ok2 \in AppendOutcomes : Rollback(ok1, ok2)
  <2>1. PICK ok1 \in BOOLEAN, ok2 \in BOOLEAN : Rollback(ok1, ok2)
    BY <1>3
  <2>2. PICK new : new = Store'
    OBVIOUS
  <2>3. Undone(Store, new) /\ PublishedMoves(Store, new)
    BY <2>1, <2>2, RollbackStep
  <2>4. /\ CommittedMap(new) = CommittedMap(Store)
        /\ WorkMap(new) = CommittedMap(Store)
        /\ PublishedMap(new) \in {PublishedMap(Store), CommittedMap(new)}
    BY <2>3, MapsEqual DEF Undone, CommittedMap, WorkMap
  <2> QED
    BY <2>2, <2>4 DEF MapStep, TxStep
<1>4. CASE Close
  <2>1. PICK new : new = Store'
    OBVIOUS
  <2>2. \A s \in Serials : /\ CommittedOf(new, s) = CommittedOf(Store, s)
                           /\ WorkOf(new, s) = CommittedOf(Store, s)
                           /\ PublishedOf(new, s) = CommittedOf(Store, s)
    BY <1>4, <2>1, CloseStep DEF Tame
  <2>3. /\ CommittedMap(new) = CommittedMap(Store)
        /\ WorkMap(new) = CommittedMap(Store)
        /\ PublishedMap(new) = CommittedMap(Store)
    BY <2>2 DEF CommittedMap, WorkMap, PublishedMap
  <2> QED
    BY <2>1, <2>3 DEF MapStep, TxStep
<1>5. CASE \E auto \in BOOLEAN : Open(auto)
  <2>1. PICK auto \in BOOLEAN : Open(auto)
    BY <1>5
  <2>2. PICK new : new = Store'
    OBVIOUS
  <2>3. /\ SameReads(Store, new)
        /\ \A s \in Serials : PublishedOf(new, s) = PublishedOf(Store, s)
    BY <2>1, <2>2, OpenStep
  <2> QED
    BY <2>2, <2>3, MapsEqual DEF MapStep, TxStep
<1>6. CASE Crash
  BY <1>6 DEF Crash, Tame
<1>7. CASE UNCHANGED vars
  <2>1. Store' = Store
    BY <1>7 DEF vars, Store
  <2> QED
    BY <2>1 DEF MapStep, TxStep
<1> QED
  BY <1>1, <1>2, <1>3, <1>4, <1>5, <1>6, <1>7 DEF Next

(* A new storage is a new transactional store.                             *)
LEMMA InitMaps == Init => Abstract!TInit
<1> SUFFICES ASSUME Init PROVE Abstract!TInit
  OBVIOUS
<1>1. ASSUME NEW s \in Serials
      PROVE  Committed(s) = NoValue /\ Work(s) = NoValue /\ Published(s) = NoValue
  <2>1. findex[s] = EmptyIndex /\ fstate.last_commit_sequence = 0 /\ LastCommit = 0
    BY DEF Init, ZeroState, LastCommit
  <2>2. ASSUME NEW dirty \in BOOLEAN
        PROVE  GetLastOffset(findex[s], 0, dirty) <= 0
    <3>1. 0 \in Nat
      OBVIOUS
    <3>2. GetLastOffset(findex[s], 0, dirty) = 0
      BY <2>1, <3>1, EmptyReg
    <3> QED
      BY <3>2
  <2>3. ASSUME NEW dirty \in BOOLEAN
        PROVE  Reads(s, 0, dirty) = NoValue
    BY <2>2 DEF Reads, ValueAt
  <2> QED
    BY <2>1, <2>3 DEF Committed, Work, Published
<1> QED
  BY <1>1 DEF Abstract!TInit

(* The abstract action itself, with the mapping substituted.               *)
LEMMA NextMapped ==
    ASSUME MapStep, Mapping, Mapping'
    PROVE  [Abstract!TNext]_(Abstract!tvars)
<1>1. PICK c, w, p, cc, ww, pp :
         /\ c = [s \in Serials |-> Committed(s)] /\ cc = [s \in Serials |-> Committed(s)]'
         /\ w = [s \in Serials |-> Work(s)] /\ ww = [s \in Serials |-> Work(s)]'
         /\ p = [s \in Serials |-> Published(s)] /\ pp = [s \in Serials |-> Published(s)]'
  OBVIOUS
<1>2. TxStep(c, w, p, cc, ww, pp)
  <2>1. /\ c = CommittedMap(Store) /\ w = WorkMap(Store) /\ p = PublishedMap(Store)
        /\ cc = CommittedMap(Store)' /\ ww = WorkMap(Store)' /\ pp = PublishedMap(Store)'
    BY <1>1 DEF Mapping
  <2> QED
    BY <2>1 DEF MapStep
<1> QED
  BY <1>1, <1>2 DEF TxStep, Abstract!TNext, Abstract!tvars, Abstract!TWrite,
       Abstract!TAutoWrite, Abstract!TCommit, Abstract!TRollback, Abstract!TClose

(* Under that discipline, whatever appends fail and whenever the files are *)
(* opened and closed, the storage with its two-slot index is the           *)
(* transactional store: writes appear together with the commit, a rollback *)
(* undoes exactly the transaction, and readers in other processes see a    *)
(* prefix of the commits.                                                  *)
THEOREM Implementation ==
    ASSUME Tame
    PROVE  Spec => ImplementsTxStore
<1>1. Init => TxOK /\ Abstract!TInit
  BY InitTx, InitMaps
<1>2. TxOK /\ [Next]_vars => TxOK' /\ MapStep
  BY NextTx, NextMaps
<1>3. TxOK => Mapping
  BY MappingHolds
<1>4. MapStep /\ Mapping /\ Mapping' => [Abstract!TNext]_(Abstract!tvars)
  BY NextMapped
<1> QED
  BY <1>1, <1>2, <1>3, <1>4, PTL DEF Spec, ImplementsTxStore, Abstract!TSpec

(***************************************************************************)
(* What a replica that is fed from the log of a master promises, for any    *)
(* number of records, serials and replicating processes.                    *)
(*                                                                         *)
(* Written says what one record, with the status snapshot that may follow,  *)
(* makes of a store; it is shown once for writeFiles and used for the       *)
(* master, whose calls append records to its log, and for the replica,      *)
(* which applies them. The views of the history carry the index the master  *)
(* had after each sequence (History), and each record of the log that can   *)
(* be read leads from one of these to the next (StepTo). The replica goes   *)
(* the same way, in a data file of its own: its registers and those of the  *)
(* master cannot be told apart by a reader (Alike).                         *)
(*                                                                         *)
(* A process that starts over applies records a second time, which puts     *)
(* them into the slots of older versions. What stays true of the replica    *)
(* then is less than Alike: each register has the newest version the master *)
(* had at the furthest sequence that was ever applied (Twins, Caught). With *)
(* a log that can be read to its end the newest version of a register that  *)
(* is not dirty is a committed one (Owed), so a process that has caught up  *)
(* leaves both storages with the same committed contents.                   *)
(***************************************************************************)

(***************************************************************************)
(* writeFiles, seen from the log.                                           *)
(***************************************************************************)

(* fd2 is fd1 with more records behind it.                                 *)
Longer(fd1, fd2) ==
    /\ Len(fd1) \in Nat /\ Len(fd2) \in Nat
    /\ Len(fd1) <= Len(fd2)
    /\ \A i \in 1 .. Len(fd1) : fd2[i] = fd1[i]

(* Every WRITE record carries a serial that the index has a register for.  *)
Serialed(fd) ==
    \A i \in 1 .. Len(fd) : fd[i].type = "WRITE" => fd[i].serial \in Serials

(* The index after the WRITE record r, which is at off in the data file.   *)
Rewritten(ix, off, r) ==
    [ix EXCEPT ![r.serial] =
        SetOldestOffset(ix[r.serial], off, r.sequence, r.auto,
                        ix[r.serial] = EmptyIndex)]

(* What the record r, which is at off in the data file, makes of an index  *)
(* and of a last commit sequence: none but a rollback does more.           *)
StepTo(ix, lcs, r, off, ix2, lcs2) ==
    \/ /\ r.type = "WRITE" /\ r.serial \in Serials
       /\ ix2 = Rewritten(ix, off, r)
       /\ lcs2 = lcs
    \/ r.type = "COMMIT" /\ ix2 = ix /\ lcs2 = r.sequence
    \/ r.type = "STATUS" /\ ix2 = ix /\ lcs2 = lcs

(* A file is as long as itself.                                            *)
LEMMA LongerReflexive ==
    ASSUME NEW fd \in Seq(DataReg)
    PROVE  Longer(fd, fd)
  BY DEF Longer

(* An append lengthens a data file by its record.                          *)
LEMMA LongerAppend ==
    ASSUME NEW fd \in Seq(DataReg), NEW r \in DataReg
    PROVE  /\ Longer(fd, Append(fd, r))
           /\ Len(Append(fd, r)) = Len(fd) + 1
           /\ Append(fd, r)[Len(fd) + 1] = r
           /\ Serialed(fd) /\ (r.type = "WRITE" => r.serial \in Serials)
                 => Serialed(Append(fd, r))
<1>1. /\ Len(fd) \in Nat
      /\ Len(Append(fd, r)) = Len(fd) + 1
      /\ Append(fd, r)[Len(fd) + 1] = r
      /\ \A i \in 1 .. Len(fd) : Append(fd, r)[i] = fd[i]
  OBVIOUS
<1> QED
  BY <1>1 DEF Longer, Serialed

(* Appends one after the other lengthen it.                                *)
LEMMA LongerTransitive ==
    ASSUME NEW fd1, NEW fd2, NEW fd3, Longer(fd1, fd2), Longer(fd2, fd3)
    PROVE  Longer(fd1, fd3)
<1>1. PICK m \in Nat, n \in Nat, k \in Nat :
        m = Len(fd1) /\ n = Len(fd2) /\ k = Len(fd3)
  BY DEF Longer
<1>2. m <= n /\ n <= k
  BY <1>1 DEF Longer
<1>3. ASSUME NEW i \in 1 .. m PROVE fd3[i] = fd1[i]
  <2>1. i \in 1 .. n
    BY <1>2
  <2> QED
    BY <1>1, <2>1 DEF Longer
<1> QED
  BY <1>1, <1>2, <1>3 DEF Longer

(* The log of new is that of st with an entry for q.                       *)
Entered(st, new, q) ==
    /\ DOMAIN st.flog \subseteq DOMAIN new.flog
    /\ \A p \in DOMAIN new.flog :
          \/ p \in DOMAIN st.flog /\ new.flog[p] = st.flog[p]
          \/ p = q

(* new is st after record r, before the status snapshot.                   *)
Recorded(st, new, r, ok) ==
    /\ StoreInv(new)
    /\ Last(new) = r.sequence
    /\ Entered(st, new, r.sequence)
    /\ \/ new.fdata = st.fdata
       \/ ok /\ new.fdata = Append(st.fdata, r)
    /\ ok /\ r.type # "STATUS" => new.fdata = Append(st.fdata, r)
    /\ r.sequence \in DOMAIN new.flog /\ r.sequence \notin DOMAIN st.flog
       /\ new.flog[r.sequence].offset > 0 =>
          /\ ok /\ r.type \in {"WRITE", "COMMIT"}
          /\ new.flog[r.sequence].offset = Len(st.fdata) + 1
    /\ ok /\ r.type \in {"WRITE", "COMMIT", "STATUS"} =>
          StepTo(st.findex, LastSeq(st), r, Len(st.fdata) + 1,
                 new.findex, LastSeq(new))

(* An entry put into the log is there, with its offset.                    *)
LEMMA LogWithEntered ==
    \A st, new, q, off, serial, type :
        new.flog = LogWith(st.flog, q, off, serial, type) =>
            Entered(st, new, q) /\ new.flog[q].offset = off
  BY DEF LogWith, Entered

(* What writeFiles does with a record before the snapshot, one lemma for   *)
(* each case: a WRITE that is appended.                                    *)
LEMMA RecordedWrite ==
    ASSUME NEW st, StoreInv(st), NEW r \in DataReg, r.type = "WRITE",
           r.serial \in Serials
    PROVE  \A ok \in BOOLEAN : ok =>
              Recorded(st, ApplyWrite(CountRecord(st, r.sequence), r, ok), r, ok)
<1>1. PICK new : new = ApplyWrite(CountRecord(st, r.sequence), r, TRUE)
  OBVIOUS
<1>2. AfterWrite(st, new, r)
  BY <1>1, WriteEffect
<1>3. StoreInv(new)
  <2>1. \A ok \in BOOLEAN : StoreInv(ApplyWrite(CountRecord(st, r.sequence), r, ok))
    <3>1. r.sequence \in Int
      BY DEF DataReg
    <3>2. StoreInv(CountRecord(st, r.sequence))
      BY <3>1, CountRecordInv
    <3> QED
      BY <3>2, ApplyWriteInv
  <2> QED
    BY <1>1, <2>1
<1>4. new.flog = LogWith(st.flog, r.sequence, Len(st.fdata) + 1, r.serial, r.type)
  BY <1>2 DEF AfterWrite
<1>5. Entered(st, new, r.sequence) /\ new.flog[r.sequence].offset = Len(st.fdata) + 1
  <2>1. PICK off : off = Len(st.fdata) + 1
    OBVIOUS
  <2>2. new.flog = LogWith(st.flog, r.sequence, off, r.serial, r.type)
    BY <1>4, <2>1
  <2>3. Entered(st, new, r.sequence) /\ new.flog[r.sequence].offset = off
    BY <2>2, LogWithEntered
  <2> QED
    BY <2>1, <2>3
<1>6. new.findex = Rewritten(st.findex, Len(st.fdata) + 1, r)
  BY <1>2, Zenon DEF AfterWrite, Rewritten
<1>7. /\ Last(new) = r.sequence /\ LastSeq(new) = LastSeq(st)
      /\ new.fdata = Append(st.fdata, r)
  BY <1>2 DEF AfterWrite, CountedBy
<1>8. StepTo(st.findex, LastSeq(st), r, Len(st.fdata) + 1, new.findex, LastSeq(new))
  BY <1>6, <1>7, Zenon DEF StepTo
<1>9. ASSUME NEW ok \in BOOLEAN, ok
      PROVE  Recorded(st, new, r, ok)
  BY <1>3, <1>5, <1>7, <1>8, <1>9 DEF Recorded
<1> QED
  BY <1>1, <1>9, Zenon

(* A WRITE whose append failed is counted, and that is all.                *)
LEMMA RecordedFailedWrite ==
    ASSUME NEW st, StoreInv(st), NEW r \in DataReg, r.type = "WRITE",
           r.serial \in Serials
    PROVE  \A ok \in BOOLEAN : ~ok =>
              Recorded(st, ApplyWrite(CountRecord(st, r.sequence), r, ok), r, ok)
<1>1. PICK new : new = ApplyWrite(CountRecord(st, r.sequence), r, FALSE)
  OBVIOUS
<1>2. /\ SameBut(st, new, {"state"})
      /\ Last(new) = r.sequence
  BY <1>1, FailedWriteEffect DEF CountedBy
<1>3. StoreInv(new)
  <2>1. r.sequence \in Int
    BY DEF DataReg
  <2>2. StoreInv(CountRecord(st, r.sequence))
    BY <2>1, CountRecordInv
  <2>3. \A ok \in BOOLEAN : StoreInv(ApplyWrite(CountRecord(st, r.sequence), r, ok))
    BY <2>2, ApplyWriteInv
  <2> QED
    BY <1>1, <2>3
<1>4. new.fdata = st.fdata /\ new.flog = st.flog
  BY <1>2 DEF SameBut
<1>5. Entered(st, new, r.sequence)
  BY <1>4 DEF Entered
<1>6. ASSUME NEW ok \in BOOLEAN, ~ok
      PROVE  Recorded(st, new, r, ok)
  BY <1>2, <1>3, <1>4, <1>5, <1>6 DEF Recorded
<1> QED
  BY <1>1, <1>6, Zenon

(* A COMMIT, appended or not, moves the commit sequence.                   *)
LEMMA RecordedCommit ==
    ASSUME NEW st, StoreInv(st), NEW r \in DataReg, r.type = "COMMIT",
           NEW ok \in BOOLEAN
    PROVE  Recorded(st, ApplyCommit(CountRecord(st, r.sequence), r, ok), r, ok)
<1>1. PICK new : new = ApplyCommit(CountRecord(st, r.sequence), r, ok)
  OBVIOUS
<1>2. /\ SameBut(st, new, {"fdata", "flog", "state"})
      /\ new.fdata = DataWith(st.fdata, r, ok)
      /\ new.flog = LogWith(st.flog, r.sequence, OffsetIn(st.fdata, ok),
                            r.serial, r.type)
      /\ CountedBy(st, new, 1, r.sequence)
      /\ LastSeq(new) = r.sequence
  BY <1>1, CommitEffect
<1>3. StoreInv(new)
  <2>1. r.sequence \in Int
    BY DEF DataReg
  <2>2. /\ StoreInv(CountRecord(st, r.sequence))
        /\ CountRecord(st, r.sequence).state.last_sequence = r.sequence
    BY <2>1, CountRecordInv
  <2> QED
    BY <1>1, <2>2, ApplyCommitInv
<1>4. /\ Entered(st, new, r.sequence)
      /\ new.flog[r.sequence].offset = OffsetIn(st.fdata, ok)
  BY <1>2, LogWithEntered
<1>5. /\ new.findex = st.findex
      /\ Last(new) = r.sequence
      /\ ok => new.fdata = Append(st.fdata, r)
      /\ ~ok => new.fdata = st.fdata
      /\ OffsetIn(st.fdata, ok) > 0 => ok
      /\ ok => OffsetIn(st.fdata, ok) = Len(st.fdata) + 1
  BY <1>2 DEF SameBut, DataWith, OffsetIn, CountedBy
<1>6. StepTo(st.findex, LastSeq(st), r, Len(st.fdata) + 1, new.findex, LastSeq(new))
  BY <1>2, <1>5, Zenon DEF StepTo
<1>7. Recorded(st, new, r, ok)
  BY <1>3, <1>4, <1>5, <1>6 DEF Recorded
<1> QED
  BY <1>1, <1>7

(* The records of a rollback: the first one undoes, the other one marks    *)
(* the end.                                                                *)
LEMMA RecordedRollback ==
    ASSUME NEW st, StoreInv(st), NEW r \in DataReg,
           r.type \in {"ROLLBACK_BEGIN", "ROLLBACK_END"}, NEW ok \in BOOLEAN
    PROVE  LET c == CountRecord(st, r.sequence)
           IN  /\ Recorded(st, ApplyRollbackBegin(c, r, ok), r, ok)
               /\ Recorded(st, ApplyRollbackEnd(c, r, ok), r, ok)
<1>1. PICK beg : beg = ApplyRollbackBegin(CountRecord(st, r.sequence), r, ok)
  OBVIOUS
<1>2. PICK end : end = ApplyRollbackEnd(CountRecord(st, r.sequence), r, ok)
  OBVIOUS
<1>3. /\ SameBut(end, beg, {"findex"})
      /\ end.fdata = DataWith(st.fdata, r, ok)
      /\ end.flog = LogWith(st.flog, r.sequence, 0, r.serial, r.type)
      /\ CountedBy(st, end, 1, r.sequence)
  BY <1>1, <1>2, RollbackEffect
<1>4. StoreInv(beg) /\ StoreInv(end)
  <2>1. r.sequence \in Int
    BY DEF DataReg
  <2>2. StoreInv(CountRecord(st, r.sequence))
    BY <2>1, CountRecordInv
  <2> QED
    BY <1>1, <1>2, <2>2, ApplyRollbackInv
<1>5. ASSUME NEW new, StoreInv(new), new.fdata = end.fdata,
             new.flog = end.flog, new.state = end.state
      PROVE  Recorded(st, new, r, ok)
  <2>1. Entered(st, new, r.sequence) /\ new.flog[r.sequence].offset = 0
    BY <1>3, <1>5, LogWithEntered
  <2>2. /\ Last(new) = r.sequence
        /\ ok => new.fdata = Append(st.fdata, r)
        /\ ~ok => new.fdata = st.fdata
    BY <1>3, <1>5 DEF DataWith, CountedBy, Last
  <2> QED
    BY <1>5, <2>1, <2>2 DEF Recorded
<1>6. beg.fdata = end.fdata /\ beg.flog = end.flog /\ beg.state = end.state
  BY <1>3 DEF SameBut
<1>7. Recorded(st, beg, r, ok) /\ Recorded(st, end, r, ok)
  BY <1>4, <1>5, <1>6
<1> QED
  BY <1>1, <1>2, <1>7

(* A STATUS record applied from elsewhere is counted and matches no case.  *)
LEMMA RecordedStatus ==
    ASSUME NEW st, StoreInv(st), NEW r \in DataReg, r.type = "STATUS",
           NEW ok \in BOOLEAN
    PROVE  Recorded(st, CountRecord(st, r.sequence), r, ok)
<1>1. PICK new : new = CountRecord(st, r.sequence)
  OBVIOUS
<1>2. st \in Stores /\ r.sequence \in Int
  BY DEF StoreInv, DataReg
<1>3. /\ SameBut(st, new, {"state"})
      /\ Last(new) = r.sequence
      /\ LastSeq(new) = LastSeq(st)
      /\ StoreInv(new)
  BY <1>1, <1>2, CountRecordEffect, CountRecordInv DEF Last
<1>4. new.fdata = st.fdata /\ new.flog = st.flog /\ new.findex = st.findex
  BY <1>3 DEF SameBut
<1>5. Entered(st, new, r.sequence)
  BY <1>4 DEF Entered
<1>6. StepTo(st.findex, LastSeq(st), r, Len(st.fdata) + 1, new.findex, LastSeq(new))
  BY <1>3, <1>4, Zenon DEF StepTo
<1>7. Recorded(st, new, r, ok)
  BY <1>3, <1>4, <1>5, <1>6 DEF Recorded
<1> QED
  BY <1>1, <1>7

(* new is st after record r, with the status snapshot that may be due.     *)
Written(st, new, r, ok) ==
    /\ StoreInv(new)
    /\ Last(new) \in {r.sequence, r.sequence + 1}
    /\ Longer(st.fdata, new.fdata)
    /\ Serialed(st.fdata) => Serialed(new.fdata)
    /\ DOMAIN st.flog \subseteq DOMAIN new.flog
    /\ \A q \in DOMAIN new.flog :
          \/ q \in DOMAIN st.flog /\ new.flog[q] = st.flog[q]
          \/ q = r.sequence
          \/ /\ q = r.sequence + 1 /\ q = Last(new)
             /\ new.flog[q].offset > 0 =>
                   new.fdata[new.flog[q].offset].type = "STATUS"
    /\ r.sequence \in DOMAIN new.flog /\ r.sequence \notin DOMAIN st.flog
       /\ new.flog[r.sequence].offset > 0 =>
          /\ ok /\ r.type \in {"WRITE", "COMMIT"}
          /\ new.flog[r.sequence].offset = Len(st.fdata) + 1
    /\ ok /\ r.type # "STATUS" =>
          /\ Len(st.fdata) + 1 <= Len(new.fdata)
          /\ new.fdata[Len(st.fdata) + 1] = r
    /\ ok /\ r.type \in {"WRITE", "COMMIT", "STATUS"} =>
          StepTo(st.findex, LastSeq(st), r, Len(st.fdata) + 1,
                 new.findex, LastSeq(new))

(* A record after which no snapshot is due.                                *)
LEMMA RecordedWritten ==
    ASSUME NEW st, StoreInv(st), NEW r \in DataReg,
           r.type = "WRITE" => r.serial \in Serials,
           NEW ok \in BOOLEAN, NEW mid, Recorded(st, mid, r, ok)
    PROVE  Written(st, mid, r, ok)
<1>1. st.fdata \in Seq(DataReg) /\ Len(st.fdata) \in Nat
  BY DEF StoreInv, Stores
<1>2. /\ Longer(st.fdata, mid.fdata)
      /\ Serialed(st.fdata) => Serialed(mid.fdata)
  <2>1. CASE mid.fdata = st.fdata
    BY <1>1, <2>1, LongerReflexive
  <2>2. CASE mid.fdata = Append(st.fdata, r)
    BY <1>1, <2>2, LongerAppend
  <2> QED
    BY <2>1, <2>2 DEF Recorded
<1>3. ASSUME ok, r.type # "STATUS"
      PROVE  /\ Len(st.fdata) + 1 <= Len(mid.fdata)
             /\ mid.fdata[Len(st.fdata) + 1] = r
  <2>1. mid.fdata = Append(st.fdata, r)
    BY <1>3 DEF Recorded
  <2> QED
    BY <1>1, <2>1, LongerAppend
<1>4. /\ StoreInv(mid) /\ Last(mid) = r.sequence
      /\ \A q \in DOMAIN mid.flog :
            (q \in DOMAIN st.flog /\ mid.flog[q] = st.flog[q]) \/ q = r.sequence
  BY DEF Recorded, Entered
<1> QED
  BY <1>2, <1>3, <1>4 DEF Recorded, Entered, Written

(* A record with the STATUS record after it.                               *)
LEMMA SnapshotWritten ==
    ASSUME NEW st, StoreInv(st), NEW r \in DataReg,
           r.type = "WRITE" => r.serial \in Serials,
           NEW ok \in BOOLEAN, NEW mid, Recorded(st, mid, r, ok)
    PROVE  Written(st, StatusSnapshot(mid, ok), r, ok)
<1>1. PICK new : new = StatusSnapshot(mid, ok)
  OBVIOUS
<1>2. Written(st, mid, r, ok)
  BY RecordedWritten
<1>3. StoreInv(mid) /\ StoreInv(new) /\ Last(mid) = r.sequence
  <2>1. StoreInv(mid) /\ Last(mid) = r.sequence
    BY DEF Recorded
  <2> QED
    BY <1>1, <2>1, StatusSnapshotInv
<1>4. CASE new = mid
  BY <1>1, <1>2, <1>4
<1>5. CASE new # mid
  <2>1. PICK seq, m : seq = r.sequence + 1 /\ m = MarkReg("STATUS", seq, << >>)
    OBVIOUS
  <2>2. /\ SameBut(mid, new, {"fdata", "flog", "fstate", "state"})
        /\ new.fdata = DataWith(mid.fdata, m, ok)
        /\ new.flog = LogWith(mid.flog, seq, OffsetIn(mid.fdata, ok),
                              NoSerial, "STATUS")
        /\ Last(new) = seq
        /\ LastSeq(new) = LastSeq(mid)
    BY <1>1, <1>3, <1>5, <2>1, StatusSnapshotEffect DEF CountedBy
  <2>3. mid.fdata \in Seq(DataReg) /\ Len(mid.fdata) \in Nat
    BY <1>3 DEF StoreInv, Stores
  <2>4. m \in DataReg /\ m.type = "STATUS"
    <3>1. r.sequence + 1 \in Int
      BY DEF DataReg
    <3>2. << >> \in Seq(Serials) /\ "STATUS" \in RecordTypes
      BY DEF RecordTypes
    <3>3. m \in DataReg
      BY <2>1, <3>1, <3>2, MarkRegType
    <3> QED
      BY <2>1, <3>3 DEF MarkReg
  <2>5. /\ Longer(mid.fdata, new.fdata)
        /\ Serialed(mid.fdata) => Serialed(new.fdata)
        /\ ok => new.fdata[Len(mid.fdata) + 1] = m
    <3>1. CASE ok
      <4>1. new.fdata = Append(mid.fdata, m)
        BY <2>2, <3>1 DEF DataWith
      <4> QED
        BY <2>3, <2>4, <4>1, LongerAppend
    <3>2. CASE ~ok
      <4>1. new.fdata = mid.fdata
        BY <2>2, <3>2 DEF DataWith
      <4> QED
        BY <2>3, <3>2, <4>1, LongerReflexive
    <3> QED
      BY <3>1, <3>2
  <2>6. /\ Longer(st.fdata, new.fdata)
        /\ Serialed(st.fdata) => Serialed(new.fdata)
    <3>1. Longer(st.fdata, mid.fdata)
      BY <1>2 DEF Written
    <3>2. Longer(st.fdata, new.fdata)
      BY <2>5, <3>1, LongerTransitive
    <3> QED
      BY <1>2, <2>5, <3>2 DEF Written
  <2>7. Entered(mid, new, seq) /\ new.flog[seq].offset = OffsetIn(mid.fdata, ok)
    BY <2>2, LogWithEntered
  <2>8. new.flog[seq].offset > 0 => new.fdata[new.flog[seq].offset].type = "STATUS"
    BY <2>4, <2>5, <2>7 DEF OffsetIn
  <2>9. ASSUME NEW q \in DOMAIN new.flog
        PROVE  \/ q \in DOMAIN st.flog /\ new.flog[q] = st.flog[q]
               \/ q = r.sequence
               \/ /\ q = r.sequence + 1 /\ q = Last(new)
                  /\ new.flog[q].offset > 0 =>
                        new.fdata[new.flog[q].offset].type = "STATUS"
    <3>1. CASE q = seq
      BY <2>1, <2>2, <2>8, <3>1
    <3>2. CASE q # seq
      <4>1. q \in DOMAIN mid.flog /\ new.flog[q] = mid.flog[q]
        BY <2>7, <3>2 DEF Entered
      <4> QED
        BY <4>1 DEF Recorded, Entered
    <3> QED
      BY <3>1, <3>2
  <2>10. ASSUME r.sequence \in DOMAIN new.flog, r.sequence \notin DOMAIN st.flog,
                new.flog[r.sequence].offset > 0
         PROVE  /\ ok /\ r.type \in {"WRITE", "COMMIT"}
                /\ new.flog[r.sequence].offset = Len(st.fdata) + 1
    <3>1. r.sequence # seq
      BY <2>1 DEF DataReg
    <3>2. r.sequence \in DOMAIN mid.flog /\ new.flog[r.sequence] = mid.flog[r.sequence]
      BY <2>7, <2>10, <3>1 DEF Entered
    <3> QED
      BY <2>10, <3>2 DEF Recorded
  <2>11. ASSUME ok, r.type # "STATUS"
         PROVE  /\ Len(st.fdata) + 1 <= Len(new.fdata)
                /\ new.fdata[Len(st.fdata) + 1] = r
    <3>1. PICK n : n = Len(st.fdata) + 1
      OBVIOUS
    <3>2. n <= Len(mid.fdata) /\ mid.fdata[n] = r
      BY <1>2, <2>11, <3>1 DEF Written
    <3>3. n \in Nat /\ n > 0 /\ Len(mid.fdata) \in Nat /\ Len(new.fdata) \in Nat
      <4>1. Len(st.fdata) \in Nat
        BY DEF StoreInv, Stores
      <4> QED
        BY <2>5, <3>1, <4>1 DEF Longer
    <3>4. n <= Len(new.fdata) /\ new.fdata[n] = mid.fdata[n]
      BY <2>5, <3>2, <3>3 DEF Longer
    <3> QED
      BY <3>1, <3>2, <3>4
  <2>12. ASSUME ok, r.type \in {"WRITE", "COMMIT", "STATUS"}
         PROVE  StepTo(st.findex, LastSeq(st), r, Len(st.fdata) + 1,
                       new.findex, LastSeq(new))
    <3>1. new.findex = mid.findex
      BY <2>2 DEF SameBut
    <3>2. StepTo(st.findex, LastSeq(st), r, Len(st.fdata) + 1,
                 mid.findex, LastSeq(mid))
      BY <2>12 DEF Recorded
    <3> QED
      BY <2>2, <3>1, <3>2, Zenon
  <2>13. Last(new) \in {r.sequence, r.sequence + 1}
    BY <2>1, <2>2
  <2>14. DOMAIN st.flog \subseteq DOMAIN new.flog
    BY <2>7 DEF Recorded, Entered
  <2>15. Written(st, new, r, ok)
    BY <1>3, <2>6, <2>9, <2>10, <2>11, <2>12, <2>13, <2>14, Zenon DEF Written
  <2> QED
    BY <1>1, <2>15
<1> QED
  BY <1>4, <1>5

(* writeFiles, whatever the record and whether or not the append succeeds. *)
LEMMA WriteFilesWritten ==
    ASSUME NEW st, StoreInv(st), NEW r \in DataReg,
           r.type = "WRITE" => r.serial \in Serials,
           NEW ok \in BOOLEAN
    PROVE  Written(st, WriteFiles(st, r, ok), r, ok)
<1> DEFINE c == CountRecord(st, r.sequence)
<1>1. CASE r.type = "WRITE"
  <2>1. CASE ok
    <3>1. Recorded(st, ApplyWrite(c, r, ok), r, ok)
      BY <1>1, <2>1, RecordedWrite
    <3>2. WriteFiles(st, r, ok) = StatusSnapshot(ApplyWrite(c, r, ok), ok)
      BY <1>1, <2>1 DEF WriteFiles
    <3> QED
      BY <3>1, <3>2, SnapshotWritten
  <2>2. CASE ~ok
    <3>1. Recorded(st, ApplyWrite(c, r, ok), r, ok)
      BY <1>1, <2>2, RecordedFailedWrite
    <3>2. WriteFiles(st, r, ok) = ApplyWrite(c, r, ok)
      BY <1>1, <2>2 DEF WriteFiles
    <3> QED
      BY <3>1, <3>2, RecordedWritten
  <2> QED
    BY <2>1, <2>2
<1>2. CASE r.type = "ROLLBACK_BEGIN"
  <2>1. WriteFiles(st, r, ok) = StatusSnapshot(ApplyRollbackBegin(c, r, ok), ok)
    BY <1>2 DEF WriteFiles
  <2> QED
    BY <1>2, <2>1, RecordedRollback, SnapshotWritten
<1>3. CASE r.type = "ROLLBACK_END"
  <2>1. WriteFiles(st, r, ok) = StatusSnapshot(ApplyRollbackEnd(c, r, ok), ok)
    BY <1>3 DEF WriteFiles
  <2> QED
    BY <1>3, <2>1, RecordedRollback, SnapshotWritten
<1>4. CASE r.type = "COMMIT"
  <2>1. WriteFiles(st, r, ok) = StatusSnapshot(ApplyCommit(c, r, ok), ok)
    BY <1>4 DEF WriteFiles
  <2> QED
    BY <1>4, <2>1, RecordedCommit, SnapshotWritten
<1>5. CASE r.type = "STATUS"
  <2>1. WriteFiles(st, r, ok) = StatusSnapshot(c, ok)
    BY <1>5 DEF WriteFiles
  <2> QED
    BY <1>5, <2>1, RecordedStatus, SnapshotWritten
<1>6. r.type \in RecordTypes
  BY DEF DataReg
<1> QED
  BY <1>1, <1>2, <1>3, <1>4, <1>5, <1>6 DEF RecordTypes

(***************************************************************************)
(* Registers that readers cannot tell apart.                                *)
(***************************************************************************)

(* The value that the slot s of a register leads to, in data file fd.      *)
ValueIn(fd, off) == IF off <= 0 THEN NoValue ELSE fd[off].val

(* Where a committed read goes.                                            *)
FoundOffset(ix, lcs) == GetLastOffset(ix, lcs, FALSE)

(* What a reader with the last commit sequence lcs finds.                  *)
ReadThrough(fd, ix, lcs) ==
    [s \in Serials |-> ValueIn(fd, FoundOffset(ix[s], lcs))]

(* Two slots, each with its data file, that no reader can tell apart.      *)
AlikeSlots(fd1, a, fd2, b) ==
    /\ a.sequence = b.sequence
    /\ a.auto = b.auto
    /\ IF b.offset > 0
       THEN a.offset > 0 /\ fd1[a.offset].val = fd2[b.offset].val
       ELSE a.offset = b.offset

(* Two registers, of two storages, that no reader can tell apart: equal    *)
(* but for the offsets, which lead to the same value.                      *)
AlikeRegs(fd1, a, fd2, b) ==
    \A i \in Slot : AlikeSlots(fd1, a[i], fd2, b[i])

(* Two indexes with such registers for every serial.                       *)
Alike(fd1, ix1, fd2, ix2) ==
    \A s \in Serials : AlikeRegs(fd1, ix1[s], fd2, ix2[s])

(* An index for the data file fd.                                          *)
IndexFor(fd, ix) ==
    /\ ix \in [Serials -> IndexReg]
    /\ \A s \in Serials, i \in Slot : SlotNamed(fd, s, ix[s][i])

(* Alike registers read the same, whatever commit sequence a reader goes   *)
(* by.                                                                     *)
LEMMA AlikeRegsRead ==
    ASSUME NEW fd1, NEW fd2, NEW a \in IndexReg, NEW b \in IndexReg,
           AlikeRegs(fd1, a, fd2, b), NEW lcs \in Int
    PROVE  ValueIn(fd1, FoundOffset(a, lcs))
              = ValueIn(fd2, FoundOffset(b, lcs))
<1>1. PICK i \in {-1, 0, 1} :
        /\ FoundOffset(a, lcs) = IF i = -1 THEN -1 ELSE a[i].offset
        /\ FoundOffset(b, lcs) = IF i = -1 THEN -1 ELSE b[i].offset
  <2>1. /\ a[0].sequence = b[0].sequence /\ a[0].auto = b[0].auto
        /\ a[1].sequence = b[1].sequence /\ a[1].auto = b[1].auto
    BY DEF AlikeRegs, AlikeSlots, Slot
  <2>2. /\ a[0].sequence \in Int /\ a[1].sequence \in Int
        /\ a[0].auto \in BOOLEAN /\ a[1].auto \in BOOLEAN
    BY DEF IndexReg, Slot
  <2> QED
    BY <2>1, <2>2 DEF FoundOffset, GetLastOffset, Readable
<1>2. CASE i = -1
  BY <1>1, <1>2 DEF ValueIn
<1>3. CASE i # -1
  <2>1. i \in Slot
    BY <1>3 DEF Slot
  <2>2. a[i].offset \in Int /\ b[i].offset \in Int
    BY <2>1 DEF IndexReg
  <2>3. AlikeSlots(fd1, a[i], fd2, b[i])
    BY <2>1 DEF AlikeRegs
  <2> QED
    BY <1>1, <1>3, <2>2, <2>3 DEF ValueIn, AlikeSlots
<1> QED
  BY <1>2, <1>3

(* So do alike indexes.                                                    *)
LEMMA AlikeRead ==
    ASSUME NEW fd1, NEW fd2, NEW ix1 \in [Serials -> IndexReg],
           NEW ix2 \in [Serials -> IndexReg], NEW lcs \in Int,
           Alike(fd1, ix1, fd2, ix2)
    PROVE  ReadThrough(fd1, ix1, lcs) = ReadThrough(fd2, ix2, lcs)
<1>1. ASSUME NEW s \in Serials
      PROVE  ValueIn(fd1, FoundOffset(ix1[s], lcs))
                = ValueIn(fd2, FoundOffset(ix2[s], lcs))
  BY AlikeRegsRead DEF Alike
<1> QED
  BY <1>1, Zenon DEF ReadThrough

(* An index leads to the same records in a file that is longer.            *)
LEMMA IndexForLonger ==
    ASSUME NEW fd1, NEW fd2, NEW ix, IndexFor(fd1, ix), Longer(fd1, fd2)
    PROVE  IndexFor(fd2, ix) /\ Alike(fd1, ix, fd2, ix) /\ Alike(fd2, ix, fd1, ix)
<1>1. ASSUME NEW s \in Serials, NEW i \in Slot
      PROVE  /\ SlotNamed(fd2, s, ix[s][i])
             /\ AlikeSlots(fd1, ix[s][i], fd2, ix[s][i])
             /\ AlikeSlots(fd2, ix[s][i], fd1, ix[s][i])
  <2>1. SlotNamed(fd1, s, ix[s][i]) /\ ix[s][i].offset \in Int
    BY DEF IndexFor, IndexReg, Slot
  <2>2. PICK n \in Nat, m \in Nat : n = Len(fd1) /\ m = Len(fd2)
    BY DEF Longer
  <2>3. ix[s][i].offset > 0 =>
           ix[s][i].offset \in 1 .. m /\ fd2[ix[s][i].offset] = fd1[ix[s][i].offset]
    BY <2>1, <2>2 DEF Longer, SlotNamed
  <2> QED
    BY <2>1, <2>2, <2>3 DEF SlotNamed, AlikeSlots
<1> QED
  BY <1>1 DEF IndexFor, Alike, AlikeRegs

(* A third storage that is like the second is like the first.              *)
LEMMA AlikeTransitive ==
    ASSUME NEW fd1, NEW ix1 \in [Serials -> IndexReg], NEW fd2,
           NEW ix2 \in [Serials -> IndexReg], NEW fd3,
           NEW ix3 \in [Serials -> IndexReg],
           Alike(fd1, ix1, fd2, ix2), Alike(fd2, ix2, fd3, ix3)
    PROVE  Alike(fd1, ix1, fd3, ix3)
<1>1. ASSUME NEW s \in Serials, NEW i \in Slot
      PROVE  AlikeSlots(fd1, ix1[s][i], fd3, ix3[s][i])
  <2>1. /\ AlikeSlots(fd1, ix1[s][i], fd2, ix2[s][i])
        /\ AlikeSlots(fd2, ix2[s][i], fd3, ix3[s][i])
    BY DEF Alike, AlikeRegs
  <2>2. /\ ix1[s][i].offset \in Int /\ ix2[s][i].offset \in Int
        /\ ix3[s][i].offset \in Int
    BY DEF IndexReg, Slot
  <2> QED
    BY <2>1, <2>2 DEF AlikeSlots
<1> QED
  BY <1>1 DEF Alike, AlikeRegs

(* A register was never written exactly when the one like it was not.      *)
LEMMA AlikeEmpty ==
    ASSUME NEW fd1, NEW fd2, NEW a \in IndexReg, NEW b \in IndexReg,
           AlikeRegs(fd1, a, fd2, b)
    PROVE  a = EmptyIndex <=> b = EmptyIndex
<1>1. ASSUME NEW x \in IndexReg
      PROVE  x = EmptyIndex <=>
                \A i \in Slot : /\ x[i].offset = 0 /\ x[i].sequence = 0
                                /\ ~x[i].auto
  <2>1. CASE \A i \in Slot : /\ x[i].offset = 0 /\ x[i].sequence = 0
                             /\ ~x[i].auto
    <3>1. \A i \in Slot : x[i] = [offset |-> 0, sequence |-> 0, auto |-> FALSE]
      BY <2>1, Zenon DEF IndexReg
    <3>2. x = [i \in Slot |-> [offset |-> 0, sequence |-> 0, auto |-> FALSE]]
      BY <3>1 DEF IndexReg
    <3> QED
      BY <2>1, <3>2 DEF EmptyIndex
  <2>2. x = EmptyIndex => \A i \in Slot : /\ x[i].offset = 0 /\ x[i].sequence = 0
                                          /\ ~x[i].auto
    <3>1. \A i \in Slot : /\ EmptyIndex[i].offset = 0
                          /\ EmptyIndex[i].sequence = 0 /\ ~EmptyIndex[i].auto
      BY DEF EmptyIndex
    <3> QED
      BY <3>1, Zenon
  <2> QED
    BY <2>1, <2>2
<1>2. ASSUME NEW i \in Slot
      PROVE  /\ a[i].offset = 0 <=> b[i].offset = 0
             /\ a[i].sequence = b[i].sequence /\ a[i].auto = b[i].auto
  <2>1. AlikeSlots(fd1, a[i], fd2, b[i])
    BY DEF AlikeRegs
  <2>2. a[i].offset \in Int /\ b[i].offset \in Int
    BY DEF IndexReg
  <2> QED
    BY <2>1, <2>2 DEF AlikeSlots
<1> QED
  BY <1>1, <1>2

(* A new version in both registers.                                        *)
Renewed(ix, off, seq, auto) == SetOldestOffset(ix, off, seq, auto, ix = EmptyIndex)

(* Writing one value with one sequence into both keeps them alike.         *)
LEMMA AlikeRenewed ==
    ASSUME NEW fd1, NEW fd2, NEW a \in IndexReg, NEW b \in IndexReg,
           AlikeRegs(fd1, a, fd2, b),
           NEW off1 \in Int, off1 > 0, NEW off2 \in Int, off2 > 0,
           fd1[off1].val = fd2[off2].val,
           NEW seq \in Int, NEW auto \in BOOLEAN
    PROVE  AlikeRegs(fd1, Renewed(a, off1, seq, auto),
                     fd2, Renewed(b, off2, seq, auto))
<1>1. NewestSlot(a) = NewestSlot(b) /\ NewestSlot(a) \in Slot
  BY DEF NewestSlot, AlikeRegs, AlikeSlots, Slot
<1>2. a = EmptyIndex <=> b = EmptyIndex
  BY AlikeEmpty
<1>3. ASSUME NEW i \in Slot
      PROVE  AlikeSlots(fd1, Renewed(a, off1, seq, auto)[i],
                        fd2, Renewed(b, off2, seq, auto)[i])
  <2>1. CASE a = EmptyIndex
    <3>1. ASSUME NEW x, x = EmptyIndex, NEW off
          PROVE  Renewed(x, off, seq, auto)[i] =
                    IF i = 0
                    THEN [offset |-> off, sequence |-> seq, auto |-> auto]
                    ELSE [offset |-> -1, sequence |-> 0, auto |-> FALSE]
      BY <3>1 DEF Renewed, SetOldestOffset
    <3>2. CASE i = 0
      <4>1. /\ Renewed(a, off1, seq, auto)[i]
                  = [offset |-> off1, sequence |-> seq, auto |-> auto]
            /\ Renewed(b, off2, seq, auto)[i]
                  = [offset |-> off2, sequence |-> seq, auto |-> auto]
        BY <1>2, <2>1, <3>1, <3>2
      <4> QED
        BY <4>1 DEF AlikeSlots
    <3>3. CASE i # 0
      <4>1. PICK none : none = [offset |-> -1, sequence |-> 0, auto |-> FALSE]
        OBVIOUS
      <4>2. /\ Renewed(a, off1, seq, auto)[i] = none
            /\ Renewed(b, off2, seq, auto)[i] = none
        BY <1>2, <2>1, <3>1, <3>3, <4>1
      <4>3. AlikeSlots(fd1, none, fd2, none)
        BY <4>1 DEF AlikeSlots
      <4> QED
        BY <4>2, <4>3
    <3> QED
      BY <3>2, <3>3
  <2>2. CASE a # EmptyIndex
    <3>1. ASSUME NEW x \in IndexReg, x # EmptyIndex, NEW off
          PROVE  Renewed(x, off, seq, auto)[i] =
                    IF i = 1 - NewestSlot(x)
                    THEN [offset |-> off, sequence |-> seq, auto |-> auto]
                    ELSE x[i]
      BY <3>1 DEF Renewed, SetOldestOffset, IndexReg
    <3>2. AlikeSlots(fd1, a[i], fd2, b[i])
      BY DEF AlikeRegs
    <3>3. CASE i = 1 - NewestSlot(a)
      <4>1. /\ Renewed(a, off1, seq, auto)[i]
                  = [offset |-> off1, sequence |-> seq, auto |-> auto]
            /\ Renewed(b, off2, seq, auto)[i]
                  = [offset |-> off2, sequence |-> seq, auto |-> auto]
        BY <1>1, <1>2, <2>2, <3>1, <3>3
      <4> QED
        BY <4>1 DEF AlikeSlots
    <3>4. CASE i # 1 - NewestSlot(a)
      <4>1. /\ Renewed(a, off1, seq, auto)[i] = a[i]
            /\ Renewed(b, off2, seq, auto)[i] = b[i]
        BY <1>1, <1>2, <2>2, <3>1, <3>4
      <4> QED
        BY <3>2, <4>1
    <3> QED
      BY <3>3, <3>4
  <2> QED
    BY <2>1, <2>2
<1> QED
  BY <1>3, Zenon DEF AlikeRegs

(* A register that is written stays a register.                            *)
LEMMA RenewedType ==
    ASSUME NEW ix \in IndexReg, NEW off \in Int, NEW seq \in Int,
           NEW auto \in BOOLEAN
    PROVE  Renewed(ix, off, seq, auto) \in IndexReg
  BY DEF Renewed, SetOldestOffset, IndexReg, Slot, NewestSlot

(* A WRITE rewrites the register of its serial only.                       *)
LEMMA RewrittenAt ==
    ASSUME NEW ix \in [Serials -> IndexReg], NEW off \in Int, NEW r \in DataReg,
           r.serial \in Serials, NEW s \in Serials
    PROVE  Rewritten(ix, off, r)[s] =
              IF s = r.serial THEN Renewed(ix[s], off, r.sequence, r.auto)
                              ELSE ix[s]
  BY Zenon DEF Rewritten, Renewed

(* Two indexes that are alike stay so when the same record is applied to   *)
(* both, wherever it is in the data file of each.                          *)
LEMMA AlikeStep ==
    ASSUME NEW fd1, NEW fd2,
           NEW ix1 \in [Serials -> IndexReg], NEW ix2 \in [Serials -> IndexReg],
           Alike(fd1, ix1, fd2, ix2),
           NEW r \in DataReg, NEW off1 \in Int, off1 > 0,
           NEW off2 \in Int, off2 > 0,
           r.type = "WRITE" => fd1[off1].val = fd2[off2].val,
           NEW lcs, NEW new1, NEW lcs1, NEW new2, NEW lcs2,
           StepTo(ix1, lcs, r, off1, new1, lcs1),
           StepTo(ix2, lcs, r, off2, new2, lcs2)
    PROVE  Alike(fd1, new1, fd2, new2) /\ lcs1 = lcs2
<1>1. CASE r.type = "WRITE"
  <2>1. /\ r.serial \in Serials
        /\ new1 = Rewritten(ix1, off1, r) /\ new2 = Rewritten(ix2, off2, r)
        /\ lcs1 = lcs /\ lcs2 = lcs
    BY <1>1 DEF StepTo
  <2>2. ASSUME NEW s \in Serials
        PROVE  AlikeRegs(fd1, new1[s], fd2, new2[s])
    <3>1. AlikeRegs(fd1, ix1[s], fd2, ix2[s])
      BY DEF Alike
    <3>2. CASE s = r.serial
      <4>1. /\ new1[s] = Renewed(ix1[s], off1, r.sequence, r.auto)
            /\ new2[s] = Renewed(ix2[s], off2, r.sequence, r.auto)
        BY <2>1, <3>2, RewrittenAt
      <4>2. r.sequence \in Int /\ r.auto \in BOOLEAN
        BY DEF DataReg
      <4> QED
        BY <1>1, <3>1, <4>1, <4>2, AlikeRenewed
    <3>3. CASE s # r.serial
      <4>1. new1[s] = ix1[s] /\ new2[s] = ix2[s]
        BY <2>1, <3>3, RewrittenAt
      <4> QED
        BY <3>1, <4>1
    <3> QED
      BY <3>2, <3>3
  <2> QED
    BY <2>1, <2>2 DEF Alike
<1>2. CASE r.type # "WRITE"
  <2>1. new1 = ix1 /\ new2 = ix2 /\ lcs1 = lcs2
    BY <1>2 DEF StepTo
  <2> QED
    BY <2>1
<1> QED
  BY <1>1, <1>2

(***************************************************************************)
(* The calls of the master.                                                *)
(***************************************************************************)

(* Record of sequence q in the log of new, st being the store before the   *)
(* call that wrote it.                                                     *)
GrownRecord(st, new, q) ==
    LET off == new.flog[q].offset
        r   == new.fdata[off]
    IN  IF q = Last(st) + 1
        THEN StepTo(st.findex, LastSeq(st), r, off, new.findex, LastSeq(new))
        ELSE r.type = "STATUS"

(* new is st after a call that consumed sequences.  What the log names of  *)
(* them is the record of the call, if that is not a rollback, and after it *)
(* STATUS records.                                                         *)
Grown(st, new) ==
    /\ Last(st) \in Nat /\ Last(new) \in Nat /\ Last(st) < Last(new)
    /\ Longer(st.fdata, new.fdata)
    /\ DOMAIN st.flog \subseteq DOMAIN new.flog
    /\ \A q \in DOMAIN new.flog :
          \/ q \in DOMAIN st.flog /\ new.flog[q] = st.flog[q]
          \/ /\ q \in Last(st) + 1 .. Last(new)
             /\ new.flog[q].offset > 0 => GrownRecord(st, new, q)

(* The store after records of which readLog can read none but STATUS       *)
(* records.                                                                *)
Quiet(st, new) ==
    /\ Last(st) \in Nat /\ Last(new) \in Nat /\ Last(st) < Last(new)
    /\ Longer(st.fdata, new.fdata)
    /\ DOMAIN st.flog \subseteq DOMAIN new.flog
    /\ \A q \in DOMAIN new.flog :
          \/ q \in DOMAIN st.flog /\ new.flog[q] = st.flog[q]
          \/ /\ q \in Last(st) + 1 .. Last(new)
             /\ new.flog[q].offset > 0 =>
                   /\ q # Last(st) + 1
                   /\ new.fdata[new.flog[q].offset].type = "STATUS"

(* No sequence of the log is beyond the last one.                          *)
LogWithin(st) == \A q \in DOMAIN st.flog : q <= Last(st)

(* Quiet records are records.                                              *)
LEMMA QuietGrown ==
    ASSUME NEW st, NEW new, Quiet(st, new)
    PROVE  Grown(st, new)
  BY DEF Quiet, Grown, GrownRecord

(* One record with its snapshot.                                           *)
LEMMA WrittenGrown ==
    ASSUME NEW st, StoreInv(st), Last(st) \in Nat, LogWithin(st),
           NEW r \in DataReg, r.sequence = Last(st) + 1,
           NEW ok \in BOOLEAN, NEW new, Written(st, new, r, ok)
    PROVE  Grown(st, new)
<1>1. PICK seq \in Nat : seq = Last(st) + 1 /\ seq = r.sequence
  OBVIOUS
<1>2. seq \notin DOMAIN st.flog
  BY <1>1 DEF LogWithin
<1>3. Last(new) \in {seq, seq + 1}
  BY <1>1 DEF Written
<1>4. ASSUME NEW q \in DOMAIN new.flog,
             ~(q \in DOMAIN st.flog /\ new.flog[q] = st.flog[q])
      PROVE  /\ q \in Last(st) + 1 .. Last(new)
             /\ new.flog[q].offset > 0 => GrownRecord(st, new, q)
  <2>1. CASE q = seq
    <3>1. ASSUME new.flog[q].offset > 0
          PROVE  StepTo(st.findex, LastSeq(st), new.fdata[new.flog[q].offset],
                        new.flog[q].offset, new.findex, LastSeq(new))
      <4>1. /\ ok /\ r.type \in {"WRITE", "COMMIT"}
            /\ new.flog[q].offset = Len(st.fdata) + 1
        BY <1>1, <1>2, <2>1, <3>1 DEF Written
      <4>2. new.fdata[new.flog[q].offset] = r
        BY <4>1 DEF Written
      <4>3. StepTo(st.findex, LastSeq(st), r, Len(st.fdata) + 1,
                   new.findex, LastSeq(new))
        BY <4>1 DEF Written
      <4> QED
        BY <4>1, <4>2, <4>3
    <3>2. new.flog[q].offset > 0 => GrownRecord(st, new, q)
      BY <1>1, <2>1, <3>1 DEF GrownRecord
    <3> QED
      BY <1>1, <1>3, <2>1, <3>2
  <2>2. CASE q # seq
    <3>1. /\ q = seq + 1 /\ q = Last(new)
          /\ new.flog[q].offset > 0 =>
                new.fdata[new.flog[q].offset].type = "STATUS"
      BY <1>1, <1>4, <2>2 DEF Written
    <3>2. new.flog[q].offset > 0 => GrownRecord(st, new, q)
      BY <1>1, <3>1 DEF GrownRecord
    <3> QED
      BY <1>1, <3>1, <3>2
  <2> QED
    BY <2>1, <2>2
<1>5. Longer(st.fdata, new.fdata) /\ DOMAIN st.flog \subseteq DOMAIN new.flog
  BY DEF Written
<1>6. Last(new) \in Nat /\ Last(st) < Last(new)
  BY <1>1, <1>3
<1> QED
  BY <1>4, <1>5, <1>6 DEF Grown

(* The records of a rollback, whose log entries have no offset.            *)
LEMMA WrittenQuiet ==
    ASSUME NEW st, StoreInv(st), Last(st) \in Nat, LogWithin(st),
           NEW r \in DataReg, r.sequence = Last(st) + 1,
           r.type \in {"ROLLBACK_BEGIN", "ROLLBACK_END"},
           NEW ok \in BOOLEAN, NEW new, Written(st, new, r, ok)
    PROVE  Quiet(st, new) /\ LogWithin(new)
<1>1. PICK seq \in Nat : seq = Last(st) + 1 /\ seq = r.sequence
  OBVIOUS
<1>2. seq \notin DOMAIN st.flog
  BY <1>1 DEF LogWithin
<1>3. Last(new) \in {seq, seq + 1}
  BY <1>1 DEF Written
<1>4. ASSUME NEW q \in DOMAIN new.flog,
             ~(q \in DOMAIN st.flog /\ new.flog[q] = st.flog[q])
      PROVE  /\ q \in Last(st) + 1 .. Last(new)
             /\ new.flog[q].offset > 0 =>
                   /\ q # Last(st) + 1
                   /\ new.fdata[new.flog[q].offset].type = "STATUS"
  <2>1. CASE q = seq
    <3>1. ~(new.flog[q].offset > 0)
      BY <1>1, <1>2, <2>1 DEF Written
    <3> QED
      BY <1>1, <1>3, <2>1, <3>1
  <2>2. CASE q # seq
    <3>1. /\ q = seq + 1 /\ q = Last(new)
          /\ new.flog[q].offset > 0 =>
                new.fdata[new.flog[q].offset].type = "STATUS"
      BY <1>1, <1>4, <2>2 DEF Written
    <3> QED
      BY <1>1, <3>1
  <2> QED
    BY <2>1, <2>2
<1>5. Longer(st.fdata, new.fdata) /\ DOMAIN st.flog \subseteq DOMAIN new.flog
  BY DEF Written
<1>6. Last(new) \in Nat /\ Last(st) < Last(new)
  BY <1>1, <1>3
<1>7. Quiet(st, new)
  BY <1>4, <1>5, <1>6 DEF Quiet
<1>8. LogWithin(new)
  <2>1. ASSUME NEW q \in DOMAIN new.flog PROVE q <= Last(new)
    <3>1. CASE q \in DOMAIN st.flog
      <4>1. q \in Int
        <5>1. PICK D \in SUBSET Int : st.flog \in [D -> LogReg]
          BY DEF StoreInv, Stores, LogFile
        <5> QED
          BY <3>1, <5>1
      <4> QED
        BY <1>6, <3>1, <4>1 DEF LogWithin
    <3>2. CASE q \notin DOMAIN st.flog
      BY <1>4, <1>6, <3>2
    <3> QED
      BY <3>1, <3>2
  <2> QED
    BY <2>1 DEF LogWithin
<1> QED
  BY <1>7, <1>8

(* One quiet record after the other.                                       *)
LEMMA QuietTransitive ==
    ASSUME NEW a, NEW b, StoreInv(b), NEW c, Quiet(a, b), Quiet(b, c)
    PROVE  Quiet(a, c)
<1>1. PICK la \in Nat, lb \in Nat, lc \in Nat :
        la = Last(a) /\ lb = Last(b) /\ lc = Last(c) /\ la < lb /\ lb < lc
  BY DEF Quiet
<1>2. Longer(a.fdata, c.fdata)
  BY LongerTransitive DEF Quiet
<1>3. ASSUME NEW q \in DOMAIN c.flog,
             ~(q \in DOMAIN a.flog /\ c.flog[q] = a.flog[q])
      PROVE  /\ q \in la + 1 .. lc
             /\ c.flog[q].offset > 0 =>
                   /\ q # la + 1
                   /\ c.fdata[c.flog[q].offset].type = "STATUS"
  <2>1. CASE q \in DOMAIN b.flog /\ c.flog[q] = b.flog[q]
    <3>1. /\ q \in la + 1 .. lb
          /\ b.flog[q].offset > 0 =>
                /\ q # la + 1
                /\ b.fdata[b.flog[q].offset].type = "STATUS"
      BY <1>1, <1>3, <2>1 DEF Quiet
    <3>2. b.flog[q].offset > 0 => b.flog[q].offset \in 1 .. Len(b.fdata)
      BY <2>1 DEF StoreInv, EntryNamed
    <3>3. b.flog[q].offset > 0 =>
             c.fdata[b.flog[q].offset] = b.fdata[b.flog[q].offset]
      BY <3>2 DEF Quiet, Longer
    <3> QED
      BY <1>1, <2>1, <3>1, <3>3
  <2>2. CASE ~(q \in DOMAIN b.flog /\ c.flog[q] = b.flog[q])
    <3>1. /\ q \in lb + 1 .. lc
          /\ c.flog[q].offset > 0 => c.fdata[c.flog[q].offset].type = "STATUS"
      BY <1>1, <2>2 DEF Quiet
    <3> QED
      BY <1>1, <3>1
  <2> QED
    BY <2>1, <2>2
<1> QED
  BY <1>1, <1>2, <1>3 DEF Quiet

(***************************************************************************)
(* The views of the master.                                                 *)
(***************************************************************************)

(* The index and the last commit sequence that the master had after its    *)
(* record of sequence q.                                                   *)
IndexAt(v, q) == IF q = 0 THEN [s \in Serials |-> EmptyIndex] ELSE v[q].findex
(* The commit sequence the master had after sequence q, and before the     *)
(* first one.                                                              *)
CommitAt(v, q) == IF q = 0 THEN 0 ELSE v[q].commit

(* The views v are those of a master whose store is st.                    *)
History(st, v) ==
    /\ Last(st) \in Nat /\ DOMAIN v = 1 .. Last(st)
    /\ LogWithin(st)
    /\ IndexAt(v, Last(st)) = st.findex
    /\ CommitAt(v, Last(st)) = LastSeq(st)
    /\ \A q \in 0 .. Last(st) :
          IndexFor(st.fdata, IndexAt(v, q)) /\ CommitAt(v, q) \in Int
    /\ \A q \in 1 .. Last(st) :
          v[q].view = ReadThrough(st.fdata, IndexAt(v, q), CommitAt(v, q))
    /\ \A q \in 1 .. Last(st) :
          q \in DOMAIN st.flog /\ st.flog[q].offset > 0 =>
             StepTo(IndexAt(v, q - 1), CommitAt(v, q - 1),
                    st.fdata[st.flog[q].offset], st.flog[q].offset,
                    IndexAt(v, q), CommitAt(v, q))

(* The views of a master go on from those before.                          *)
Views(new, v, v2) ==
    /\ DOMAIN v2 = 1 .. Last(new)
    /\ \A q \in 1 .. Last(new) :
          v2[q] = IF q \in DOMAIN v THEN v[q]
                  ELSE [view   |-> ReadThrough(new.fdata, new.findex, LastSeq(new)),
                        findex |-> new.findex,
                        commit |-> LastSeq(new)]

(* Calls without a record leave the history as it is.                      *)
LEMMA HistorySame ==
    ASSUME NEW st, NEW v, History(st, v), NEW new,
           new.fdata = st.fdata, new.findex = st.findex, new.flog = st.flog,
           Last(new) = Last(st), LastSeq(new) = LastSeq(st),
           NEW v2, Views(new, v, v2)
    PROVE  History(new, v2) /\ \A q \in DOMAIN v : v2[q] = v[q]
<1>1. PICK n \in Nat : n = Last(st) /\ n = Last(new)
  BY DEF History
<1>2. DOMAIN v = 1 .. n /\ DOMAIN v2 = 1 .. n
  BY <1>1 DEF History, Views
<1>3. \A q \in 1 .. n : v2[q] = v[q]
  BY <1>1, <1>2 DEF Views
<1>4. \A q \in 0 .. n : IndexAt(v2, q) = IndexAt(v, q) /\ CommitAt(v2, q) = CommitAt(v, q)
  BY <1>3 DEF IndexAt, CommitAt
<1>5. \A q \in 1 .. n : q \in 0 .. n /\ q - 1 \in 0 .. n
  OBVIOUS
<1>6. n \in 0 .. n
  OBVIOUS
<1>7. History(new, v2)
  <2>1. /\ LogWithin(new)
        /\ IndexAt(v2, n) = new.findex /\ CommitAt(v2, n) = LastSeq(new)
    BY <1>1, <1>4, <1>6 DEF History, LogWithin
  <2>2. \A q \in 0 .. n : IndexFor(new.fdata, IndexAt(v2, q)) /\ CommitAt(v2, q) \in Int
    BY <1>1, <1>4 DEF History
  <2>3. \A q \in 1 .. n :
           v2[q].view = ReadThrough(new.fdata, IndexAt(v2, q), CommitAt(v2, q))
    BY <1>1, <1>3, <1>4, <1>5 DEF History
  <2>4. ASSUME NEW q \in 1 .. n, q \in DOMAIN new.flog, new.flog[q].offset > 0
        PROVE  StepTo(IndexAt(v2, q - 1), CommitAt(v2, q - 1),
                      new.fdata[new.flog[q].offset], new.flog[q].offset,
                      IndexAt(v2, q), CommitAt(v2, q))
    <3>1. StepTo(IndexAt(v, q - 1), CommitAt(v, q - 1),
                 st.fdata[st.flog[q].offset], st.flog[q].offset,
                 IndexAt(v, q), CommitAt(v, q))
      BY <1>1, <2>4 DEF History
    <3>2. /\ IndexAt(v2, q) = IndexAt(v, q) /\ CommitAt(v2, q) = CommitAt(v, q)
          /\ IndexAt(v2, q - 1) = IndexAt(v, q - 1)
          /\ CommitAt(v2, q - 1) = CommitAt(v, q - 1)
      BY <1>4, <1>5
    <3> QED
      BY <3>1, <3>2
  <2> QED
    BY <1>1, <1>2, <2>1, <2>2, <2>3, <2>4 DEF History
<1> QED
  BY <1>2, <1>3, <1>7

(* The records of a call add their views to the history and change none of *)
(* the earlier ones.                                                       *)
LEMMA HistoryGrows ==
    ASSUME NEW st, StoreInv(st), NEW v, History(st, v),
           NEW new, StoreInv(new), Grown(st, new),
           NEW v2, Views(new, v, v2)
    PROVE  History(new, v2) /\ \A q \in DOMAIN v : v2[q] = v[q]
<1>1. PICK n \in Nat, m \in Nat : n = Last(st) /\ m = Last(new) /\ n < m
  BY DEF Grown
<1>2. DOMAIN v = 1 .. n /\ DOMAIN v2 = 1 .. m
  BY <1>1 DEF History, Views
<1>3. /\ \A q \in 1 .. n : v2[q] = v[q]
      /\ \A q \in n + 1 .. m :
            v2[q] = [view   |-> ReadThrough(new.fdata, new.findex, LastSeq(new)),
                     findex |-> new.findex,
                     commit |-> LastSeq(new)]
  BY <1>1, <1>2 DEF Views
<1>4. /\ \A q \in 0 .. n : IndexAt(v2, q) = IndexAt(v, q) /\ CommitAt(v2, q) = CommitAt(v, q)
      /\ \A q \in n + 1 .. m : IndexAt(v2, q) = new.findex /\ CommitAt(v2, q) = LastSeq(new)
  BY <1>3 DEF IndexAt, CommitAt
<1>5. Longer(st.fdata, new.fdata)
  BY DEF Grown
<1>6. LogWithin(new)
  <2>1. ASSUME NEW q \in DOMAIN new.flog PROVE q <= m
    <3>1. CASE q \in DOMAIN st.flog
      <4>1. q \in Int
        <5>1. PICK D \in SUBSET Int : st.flog \in [D -> LogReg]
          BY DEF StoreInv, Stores, LogFile
        <5> QED
          BY <3>1, <5>1
      <4>2. q <= n
        BY <1>1, <3>1 DEF History, LogWithin
      <4> QED
        BY <1>1, <4>1, <4>2
    <3>2. CASE q \notin DOMAIN st.flog
      BY <1>1, <3>2 DEF Grown
    <3> QED
      BY <3>1, <3>2
  <2> QED
    BY <1>1, <2>1 DEF LogWithin
<1>7. IndexFor(new.fdata, new.findex) /\ LastSeq(new) \in Int
  BY DEF StoreInv, Stores, State, IndexFor, LastSeq
<1>8. ASSUME NEW q \in 0 .. m
      PROVE  IndexFor(new.fdata, IndexAt(v2, q)) /\ CommitAt(v2, q) \in Int
  <2>1. CASE q <= n
    <3>1. q \in 0 .. n
      BY <2>1
    <3>2. IndexFor(st.fdata, IndexAt(v, q)) /\ CommitAt(v, q) \in Int
      BY <1>1, <3>1 DEF History
    <3> QED
      BY <1>4, <1>5, <3>1, <3>2, IndexForLonger
  <2>2. CASE q > n
    BY <1>4, <1>7, <2>2
  <2> QED
    BY <2>1, <2>2
<1>9. ASSUME NEW q \in 1 .. m
      PROVE  v2[q].view = ReadThrough(new.fdata, IndexAt(v2, q), CommitAt(v2, q))
  <2>1. CASE q <= n
    <3>1. q \in 0 .. n /\ q \in 1 .. n
      BY <2>1
    <3>2. IndexFor(st.fdata, IndexAt(v, q)) /\ CommitAt(v, q) \in Int
      BY <1>1, <3>1 DEF History
    <3>3. Alike(st.fdata, IndexAt(v, q), new.fdata, IndexAt(v, q))
      BY <1>5, <3>2, IndexForLonger
    <3>4. ReadThrough(st.fdata, IndexAt(v, q), CommitAt(v, q))
             = ReadThrough(new.fdata, IndexAt(v, q), CommitAt(v, q))
      BY <3>2, <3>3, AlikeRead DEF IndexFor
    <3>5. v[q].view = ReadThrough(st.fdata, IndexAt(v, q), CommitAt(v, q))
      BY <1>1, <3>1 DEF History
    <3> QED
      BY <1>3, <1>4, <3>1, <3>4, <3>5
  <2>2. CASE q > n
    BY <1>3, <1>4, <2>2
  <2> QED
    BY <2>1, <2>2
<1>10. ASSUME NEW q \in 1 .. m, q \in DOMAIN new.flog, new.flog[q].offset > 0
       PROVE  StepTo(IndexAt(v2, q - 1), CommitAt(v2, q - 1),
                     new.fdata[new.flog[q].offset], new.flog[q].offset,
                     IndexAt(v2, q), CommitAt(v2, q))
  <2>0. PICK off : off = new.flog[q].offset
    OBVIOUS
  <2>1. CASE q <= n
    <3>1. q \in 0 .. n /\ q \in 1 .. n /\ q - 1 \in 0 .. n
      BY <2>1
    <3>2. q \in DOMAIN st.flog /\ new.flog[q] = st.flog[q]
      BY <1>1, <1>10, <2>1 DEF Grown
    <3>3. new.fdata[off] = st.fdata[off]
      <4>1. off \in 1 .. Len(st.fdata)
        BY <1>10, <2>0, <3>2 DEF StoreInv, EntryNamed
      <4> QED
        BY <1>5, <4>1 DEF Longer
    <3>4. StepTo(IndexAt(v, q - 1), CommitAt(v, q - 1), st.fdata[off], off,
                 IndexAt(v, q), CommitAt(v, q))
      BY <1>1, <1>10, <2>0, <3>1, <3>2 DEF History
    <3>5. /\ IndexAt(v2, q) = IndexAt(v, q) /\ CommitAt(v2, q) = CommitAt(v, q)
          /\ IndexAt(v2, q - 1) = IndexAt(v, q - 1)
          /\ CommitAt(v2, q - 1) = CommitAt(v, q - 1)
      BY <1>4, <3>1
    <3> QED
      BY <2>0, <3>3, <3>4, <3>5
  <2>2. CASE q > n
    <3>1. q \notin DOMAIN st.flog
      BY <1>1, <2>2 DEF History, LogWithin
    <3>2. GrownRecord(st, new, q)
      BY <1>10, <3>1 DEF Grown
    <3>3. IndexAt(v2, q) = new.findex /\ CommitAt(v2, q) = LastSeq(new)
      BY <1>4, <2>2
    <3>4. CASE q = n + 1
      <4>1. StepTo(st.findex, LastSeq(st), new.fdata[off], off,
                   new.findex, LastSeq(new))
        BY <1>1, <2>0, <3>2, <3>4 DEF GrownRecord
      <4>2. IndexAt(v2, q - 1) = st.findex /\ CommitAt(v2, q - 1) = LastSeq(st)
        <5>1. q - 1 = n /\ n \in 0 .. n
          BY <3>4
        <5>2. IndexAt(v, n) = st.findex /\ CommitAt(v, n) = LastSeq(st)
          BY <1>1 DEF History
        <5>3. IndexAt(v2, n) = IndexAt(v, n) /\ CommitAt(v2, n) = CommitAt(v, n)
          BY <1>4, <5>1
        <5> QED
          BY <5>1, <5>2, <5>3
      <4> QED
        BY <2>0, <3>3, <4>1, <4>2
    <3>5. CASE q # n + 1
      <4>1. new.fdata[off].type = "STATUS"
        BY <1>1, <2>0, <3>2, <3>5 DEF GrownRecord
      <4>2. q - 1 \in n + 1 .. m
        BY <2>2, <3>5
      <4>3. IndexAt(v2, q - 1) = new.findex /\ CommitAt(v2, q - 1) = LastSeq(new)
        BY <1>4, <4>2
      <4> QED
        BY <2>0, <3>3, <4>1, <4>3 DEF StepTo
    <3> QED
      BY <3>4, <3>5
  <2> QED
    BY <2>1, <2>2
<1>11. IndexAt(v2, m) = new.findex /\ CommitAt(v2, m) = LastSeq(new)
  BY <1>1, <1>4
<1>12. History(new, v2)
  BY <1>1, <1>2, <1>6, <1>8, <1>9, <1>10, <1>11 DEF History
<1> QED
  BY <1>2, <1>3, <1>12

(* Two stores with the same records, registers, log and state.             *)
SameStore(a, b) ==
    /\ a.fdata = b.fdata /\ a.findex = b.findex /\ a.flog = b.flog
    /\ a.state = b.state

(* Saving the state adds nothing to the log.                               *)
LEMMA GrownSame ==
    ASSUME NEW st, NEW a, NEW b, Grown(st, a), SameStore(a, b)
    PROVE  Grown(st, b)
<1>1. Last(b) = Last(a) /\ LastSeq(b) = LastSeq(a)
  BY DEF SameStore, Last, LastSeq
<1>2. ASSUME NEW q, GrownRecord(st, a, q)
      PROVE  GrownRecord(st, b, q)
  BY <1>1, <1>2, Zenon DEF GrownRecord, SameStore
<1>3. /\ Last(st) \in Nat /\ Last(b) \in Nat /\ Last(st) < Last(b)
      /\ Longer(st.fdata, b.fdata) /\ DOMAIN st.flog \subseteq DOMAIN b.flog
  BY <1>1 DEF Grown, SameStore
<1>4. ASSUME NEW q \in DOMAIN b.flog
      PROVE  \/ q \in DOMAIN st.flog /\ b.flog[q] = st.flog[q]
             \/ /\ q \in Last(st) + 1 .. Last(b)
                /\ b.flog[q].offset > 0 => GrownRecord(st, b, q)
  <2>1. q \in DOMAIN a.flog /\ b.flog = a.flog
    BY DEF SameStore
  <2> QED
    BY <1>1, <1>2, <2>1 DEF Grown
<1> QED
  BY <1>3, <1>4 DEF Grown

(* What the calls other than a crash make of the master, as far as its     *)
(* log goes.                                                               *)
MasterMoved(st, new) ==
    \/ Grown(st, new)
    \/ /\ new.fdata = st.fdata /\ new.findex = st.findex
       /\ new.flog = st.flog
       /\ Last(new) = Last(st) /\ LastSeq(new) = LastSeq(st)

(* No entry of the log is above the last sequence.                         *)
Tidy(st) == Last(st) \in Nat /\ LogWithin(st)

(* A call leaves the files it has computed.                                *)
LEMMA BecomesSame ==
    ASSUME NEW st \in Stores, NEW new, new = Store',
           Becomes(st) \/ Becomes(ClearDirtySerials(st))
    PROVE  SameStore(st, new)
<1>1. SameBut(st, ClearDirtySerials(st), {"dirty"})
  BY ClearEffect
<1>2. /\ new.fdata = fdata' /\ new.findex = findex' /\ new.flog = flog'
      /\ new.state = state'
  BY DEF Store
<1> QED
  BY <1>1, <1>2 DEF Becomes, SameStore, SameBut

(* write() of the master is one record, of the next sequence.              *)
LEMMA WriteRecord ==
    ASSUME Inv, NEW s \in Serials, NEW v \in Values, NEW ok \in BOOLEAN,
           Write(s, v, ok), NEW new, new = Store'
    PROVE  \E r, w :
              /\ r \in DataReg /\ r.type = "WRITE" /\ r.serial = s
              /\ r.sequence = Last(Store) + 1 /\ r.auto = fauto_commit
              /\ w = WriteFiles(Store, r, ok)
              /\ Written(Store, w, r, ok)
              /\ SameStore(w, new) /\ new.dirty = w.dirty
<1>1. StoreInv(Store) /\ fauto_commit \in BOOLEAN
  BY DEF Inv
<1>2. PICK seq : seq = state.last_sequence + 1
  OBVIOUS
<1>3. seq \in Int /\ seq = Last(Store) + 1
  BY <1>1, <1>2 DEF StoreInv, Stores, State, Store, Last
<1>4. PICK r : r = WriteReg(s, seq, fauto_commit, v)
  OBVIOUS
<1>5. r \in DataReg /\ r.type = "WRITE" /\ r.serial = s /\ r.sequence = seq
  BY <1>1, <1>3, <1>4, WriteRegType
<1>6. r.auto = fauto_commit
  BY <1>4, Zenon DEF WriteReg
<1>7. PICK w : w = WriteFiles(Store, r, ok)
  OBVIOUS
<1>8. Written(Store, w, r, ok)
  BY <1>1, <1>5, <1>7, WriteFilesWritten
<1>9. Becomes(w)
  BY <1>2, <1>4, <1>7 DEF Write
<1>10. SameStore(w, new)
  <2>1. w \in Stores
    BY <1>8 DEF Written, StoreInv
  <2> QED
    BY <1>9, <2>1, BecomesSame
<1>11. new.dirty = w.dirty
  BY <1>9 DEF Becomes, Store
<1>12. r.sequence = Last(Store) + 1
  BY <1>3, <1>5
<1> QED
  BY <1>5, <1>6, <1>7, <1>8, <1>10, <1>11, <1>12, Zenon

(* So is commit(), which empties the list besides.                         *)
LEMMA CommitRecord ==
    ASSUME Inv, NEW ok \in BOOLEAN, Commit(ok), NEW new, new = Store'
    PROVE  \E r, w :
              /\ r \in DataReg /\ r.type = "COMMIT" /\ r.sequence = Last(Store) + 1
              /\ Written(Store, w, r, ok)
              /\ SameStore(w, new)
<1>1. StoreInv(Store)
  BY DEF Inv
<1>2. PICK seq : seq = state.last_sequence + 1
  OBVIOUS
<1>3. seq \in Int /\ seq = Last(Store) + 1
  BY <1>1, <1>2 DEF StoreInv, Stores, State, Store, Last
<1>4. PICK r : r = MarkReg("COMMIT", seq, << >>)
  OBVIOUS
<1>5. r \in DataReg /\ r.type = "COMMIT" /\ r.sequence = seq
  <2>1. PICK list \in Seq(Serials) : list = << >>
    <3>1. << >> \in Seq(Serials)
      OBVIOUS
    <3> QED
      BY <3>1, Zenon
  <2>2. "COMMIT" \in RecordTypes
    BY DEF RecordTypes
  <2>3. r = MarkReg("COMMIT", seq, list)
    BY <1>4, <2>1
  <2> QED
    BY <1>3, <2>2, <2>3, MarkRegType
<1>6. PICK w : w = WriteFiles(Store, r, ok)
  OBVIOUS
<1>7. Written(Store, w, r, ok)
  BY <1>1, <1>5, <1>6, WriteFilesWritten
<1>8. Becomes(ClearDirtySerials(w))
  BY <1>2, <1>4, <1>6 DEF Commit
<1>9. SameStore(w, new)
  <2>1. w \in Stores
    BY <1>7 DEF Written, StoreInv
  <2> QED
    BY <1>8, <2>1, BecomesSame
<1>10. r.sequence = Last(Store) + 1
  BY <1>3, <1>5
<1> QED
  BY <1>5, <1>7, <1>9, <1>10, Zenon

(* A record that the master has written adds to its log.                   *)
LEMMA RecordMoves ==
    ASSUME Inv, Serialed(fdata), NEW r \in DataReg, r.sequence = Last(Store) + 1,
           NEW ok \in BOOLEAN, NEW w, Written(Store, w, r, ok),
           NEW new, SameStore(w, new)
    PROVE  /\ Serialed(new.fdata)
           /\ Tidy(Store) => MasterMoved(Store, new)
<1>1. StoreInv(Store) /\ Store.fdata = fdata
  BY DEF Inv, Store
<1>2. Serialed(new.fdata)
  BY <1>1 DEF Written, SameStore
<1>3. ASSUME Tidy(Store) PROVE MasterMoved(Store, new)
  <2>1. Grown(Store, w)
    BY <1>1, <1>3, WrittenGrown DEF Tidy
  <2> QED
    BY <2>1, GrownSame DEF MasterMoved
<1> QED
  BY <1>2, <1>3

(* write() of the master adds its records to the log, in either mode.      *)
LEMMA WriteMoves ==
    ASSUME Inv, Serialed(fdata), NEW s \in Serials, NEW v \in Values,
           NEW ok \in BOOLEAN, Write(s, v, ok), NEW new, new = Store'
    PROVE  /\ Serialed(new.fdata)
           /\ Tidy(Store) => MasterMoved(Store, new)
<1>1. PICK r, w :
        /\ r \in DataReg /\ r.sequence = Last(Store) + 1
        /\ Written(Store, w, r, ok) /\ SameStore(w, new)
  BY WriteRecord
<1> QED
  BY <1>1, RecordMoves

(* commit() of the master does.                                            *)
LEMMA CommitMoves ==
    ASSUME Inv, Serialed(fdata), NEW ok \in BOOLEAN, Commit(ok),
           NEW new, new = Store'
    PROVE  /\ Serialed(new.fdata)
           /\ Tidy(Store) => MasterMoved(Store, new)
<1>1. PICK r, w :
        /\ r \in DataReg /\ r.sequence = Last(Store) + 1
        /\ Written(Store, w, r, ok) /\ SameStore(w, new)
  BY CommitRecord, Zenon
<1> QED
  BY <1>1, RecordMoves

(* One of the two records of a rollback.                                   *)
LEMMA RollbackRecord ==
    ASSUME NEW st, StoreInv(st), Serialed(st.fdata),
           NEW type \in {"ROLLBACK_BEGIN", "ROLLBACK_END"},
           NEW list \in Seq(Serials), NEW ok \in BOOLEAN,
           NEW w, w = WriteFiles(st, MarkReg(type, Last(st) + 1, list), ok)
    PROVE  /\ StoreInv(w) /\ Serialed(w.fdata)
           /\ Tidy(st) => Quiet(st, w) /\ Tidy(w)
<1>1. PICK seq : seq = Last(st) + 1
  OBVIOUS
<1>2. seq \in Int
  BY <1>1 DEF StoreInv, Stores, State, Last
<1>3. PICK r : r = MarkReg(type, seq, list)
  OBVIOUS
<1>4. r \in DataReg /\ r.type = type /\ r.sequence = seq
  <2>1. type \in RecordTypes
    BY DEF RecordTypes
  <2> QED
    BY <1>2, <1>3, <2>1, MarkRegType
<1>5. Written(st, w, r, ok)
  <2>1. r.type # "WRITE"
    BY <1>4
  <2> QED
    BY <1>1, <1>3, <1>4, <2>1, WriteFilesWritten
<1>6. ASSUME Tidy(st) PROVE Quiet(st, w) /\ Tidy(w)
  <2>1. Quiet(st, w) /\ LogWithin(w)
    BY <1>1, <1>4, <1>5, <1>6, WrittenQuiet DEF Tidy
  <2> QED
    BY <2>1 DEF Tidy, Quiet
<1> QED
  BY <1>5, <1>6 DEF Written

(* The log of new cannot be read to its end: the first record that new has *)
(* beyond those of st is missing.                                          *)
Gap(st, new) ==
    /\ Last(st) + 1 <= Last(new)
    /\ Last(st) + 1 \in DOMAIN new.flog =>
          ~(new.flog[Last(st) + 1].offset > 0)

(* rollback() of the master adds records whose log entries lead nowhere.   *)
LEMMA RollbackMoves ==
    ASSUME Inv, Serialed(fdata), NEW ok1 \in BOOLEAN, NEW ok2 \in BOOLEAN,
           Rollback(ok1, ok2), NEW new, new = Store'
    PROVE  /\ Serialed(new.fdata)
           /\ Tidy(Store) => MasterMoved(Store, new) /\ Gap(Store, new)
<1>1. StoreInv(Store) /\ Serialed(Store.fdata) /\ dirtySerials \in Seq(Serials)
  <2>1. TypeOK
    BY InvImplies
  <2> QED
    BY <2>1 DEF Inv, Store, TypeOK
<1>2. PICK beg : beg = RollbackBegin(ok1)
  OBVIOUS
<1>3. PICK end : end = RollbackEnd(beg, ok2)
  OBVIOUS
<1>4. beg = WriteFiles(Store, MarkReg("ROLLBACK_BEGIN", Last(Store) + 1,
                                      dirtySerials), ok1)
  BY <1>2 DEF RollbackBegin, Last, Store
<1>5. /\ StoreInv(beg) /\ Serialed(beg.fdata)
      /\ Tidy(Store) => Quiet(Store, beg) /\ Tidy(beg)
  BY <1>1, <1>4, RollbackRecord
<1>6. end = WriteFiles(beg, MarkReg("ROLLBACK_END", Last(beg) + 1, << >>), ok2)
  BY <1>3 DEF RollbackEnd, Last
<1>7. /\ StoreInv(end) /\ Serialed(end.fdata)
      /\ Tidy(beg) => Quiet(beg, end) /\ Tidy(end)
  <2>1. PICK list \in Seq(Serials) : list = << >>
    <3>1. << >> \in Seq(Serials)
      OBVIOUS
    <3> QED
      BY <3>1, Zenon
  <2>2. end = WriteFiles(beg, MarkReg("ROLLBACK_END", Last(beg) + 1, list), ok2)
    BY <1>6, <2>1
  <2> QED
    BY <1>5, <2>2, RollbackRecord
<1>8. Becomes(ClearDirtySerials(end))
  BY <1>2, <1>3 DEF Rollback
<1>9. SameStore(end, new)
  <2>1. end \in Stores
    BY <1>7 DEF StoreInv
  <2> QED
    BY <1>8, <2>1, BecomesSame
<1>10. Serialed(new.fdata)
  BY <1>7, <1>9 DEF SameStore
<1>11. ASSUME Tidy(Store)
       PROVE  MasterMoved(Store, new) /\ Gap(Store, new)
  <2>1. Quiet(Store, end)
    BY <1>5, <1>7, <1>11, QuietTransitive
  <2>2. Grown(Store, end)
    BY <2>1, QuietGrown
  <2>3. Gap(Store, end)
    <3>1. PICK q \in Nat : q = Last(Store) + 1
      BY <1>11 DEF Tidy
    <3>2. q \notin DOMAIN Store.flog
      BY <1>11, <3>1 DEF Tidy, LogWithin
    <3> QED
      BY <2>1, <3>1, <3>2 DEF Quiet, Gap
  <2>4. Gap(Store, new)
    BY <1>9, <2>3 DEF Gap, SameStore, Last
  <2> QED
    BY <1>9, <2>2, <2>4, GrownSame DEF MasterMoved
<1> QED
  BY <1>10, <1>11

(* The object of a storage that is not open is gone, its state saved.      *)
Saved == ~opened => state = fstate

(* Every step of a master that does not die adds records, or none, to its  *)
(* log, and a master that is closed has its state in the file.             *)
LEMMA NextMoves ==
    ASSUME Inv, Serialed(fdata), [Next]_vars, NEW new, new = Store'
    PROVE  /\ Serialed(new.fdata)
           /\ "crash" \notin Allowed /\ Saved /\ Tidy(Store) =>
                 MasterMoved(Store, new) /\ Saved'
<1>1. ASSUME fdata' = fdata, findex' = findex, flog' = flog, state' = state
      PROVE  Serialed(new.fdata) /\ MasterMoved(Store, new)
  BY <1>1 DEF Store, MasterMoved, Last, LastSeq
<1>2. CASE \E s \in Serials, v \in Values, ok \in AppendOutcomes : Write(s, v, ok)
  <2>1. PICK s \in Serials, v \in Values, ok \in AppendOutcomes : Write(s, v, ok)
    BY <1>2
  <2>2. opened'
    BY <2>1 DEF Write
  <2> QED
    BY <2>1, <2>2, AppendOutcomesType, WriteMoves DEF Saved
<1>3. CASE \E ok \in AppendOutcomes : Commit(ok)
  <2>1. PICK ok \in AppendOutcomes : Commit(ok)
    BY <1>3
  <2>2. opened'
    BY <2>1 DEF Commit
  <2> QED
    BY <2>1, <2>2, AppendOutcomesType, CommitMoves DEF Saved
<1>4. CASE \E ok1, ok2 \in AppendOutcomes : Rollback(ok1, ok2)
  <2>1. PICK ok1 \in AppendOutcomes, ok2 \in AppendOutcomes : Rollback(ok1, ok2)
    BY <1>4
  <2>2. opened'
    BY <2>1 DEF Rollback
  <2> QED
    BY <2>1, <2>2, AppendOutcomesType, RollbackMoves DEF Saved
<1>5. CASE Close
  <2>1. PICK sv : sv = SaveState(Store)
    OBVIOUS
  <2>2. Store \in Stores
    BY DEF Inv, StoreInv
  <2>3. SameBut(Store, sv, {"fstate"}) /\ sv.fstate = state /\ sv \in Stores
    <3>1. StoreInv(sv)
      BY <2>1, SaveStateInv DEF Inv
    <3>2. Store.state = state
      BY DEF Store
    <3> QED
      BY <2>1, <2>2, <3>1, <3>2, SaveStateEffect DEF StoreInv
  <2>4. SameBut(sv, ClearDirtySerials(sv), {"dirty"})
    BY <2>3, ClearEffect
  <2>5. /\ fdata' = fdata /\ findex' = findex /\ flog' = flog /\ state' = state
        /\ fstate' = state
    BY <1>5, <2>1, <2>3, <2>4 DEF Close, Becomes, SameBut, Store
  <2> QED
    BY <1>1, <2>5 DEF Saved
<1>6. CASE \E auto \in BOOLEAN : Open(auto)
  <2>1. /\ ~opened /\ opened' /\ state' = fstate
        /\ fdata' = fdata /\ findex' = findex /\ flog' = flog
    BY <1>6 DEF Open
  <2>2. Serialed(new.fdata)
    BY <2>1 DEF Store
  <2>3. ASSUME Saved PROVE MasterMoved(Store, new) /\ Saved'
    BY <1>1, <2>1, <2>3 DEF Saved
  <2> QED
    BY <2>2, <2>3
<1>7. CASE Crash
  BY <1>7 DEF Crash, files, Store
<1>8. CASE UNCHANGED vars
  BY <1>1, <1>8 DEF vars, Saved
<1> QED
  BY <1>2, <1>3, <1>4, <1>5, <1>6, <1>7, <1>8 DEF Next

(***************************************************************************)
(* The index of the replica.                                               *)
(***************************************************************************)
Names == Inv /\ Serialed(fdata) /\ StoreInv(replica)

(* readLog finds the record of the sequence it was asked for.              *)
LEMMA ReadLogRecord ==
    ASSUME Names, LogReadable(rnext)
    PROVE  /\ ReadLog(rnext) \in DataReg
           /\ ReadLog(rnext).type = "WRITE" => ReadLog(rnext).serial \in Serials
           /\ ReadLog(rnext).sequence = rnext
           /\ flog[rnext].offset \in Int /\ flog[rnext].offset > 0
<1>1. StoreInv(Store) /\ Store.fdata = fdata /\ Store.flog = flog
  BY DEF Names, Inv, Store
<1>2. fdata \in Seq(DataReg)
  BY <1>1 DEF StoreInv, Stores
<1>3. rnext \in DOMAIN flog /\ flog[rnext].offset > 0
  BY DEF LogReadable
<1>4. EntryNamed(fdata, rnext, flog[rnext])
  BY <1>1, <1>3 DEF StoreInv
<1>5. PICK off : off = flog[rnext].offset
  OBVIOUS
<1>6. off \in 1 .. Len(fdata) /\ fdata[off].sequence = rnext
  BY <1>3, <1>4, <1>5 DEF EntryNamed
<1>7. fdata[off] \in DataReg
  BY <1>2, <1>6
<1>8. fdata[off].type = "WRITE" => fdata[off].serial \in Serials
  BY <1>6 DEF Names, Serialed
<1>9. ReadLog(rnext) = fdata[off]
  BY <1>5 DEF ReadLog
<1> QED
  BY <1>3, <1>5, <1>6, <1>7, <1>8, <1>9

(* applyLog puts the record it is given through writeFiles.                *)
LEMMA ApplyWritten ==
    ASSUME Names, Apply, NEW r, r = ReadLog(rnext)
    PROVE  \E ok \in BOOLEAN : ok /\ Written(replica, replica', r, ok)
<1>1. LogReadable(rnext)
  BY DEF Apply
<1>2. r \in DataReg /\ (r.type = "WRITE" => r.serial \in Serials)
  BY <1>1, ReadLogRecord
<1>3. StoreInv(replica)
  BY DEF Names
<1>4. \A ok \in BOOLEAN : Written(replica, WriteFiles(replica, r, ok), r, ok)
  BY <1>2, <1>3, WriteFilesWritten
<1>5. replica' = WriteFiles(replica, r, TRUE)
  BY Zenon DEF Apply
<1> QED
  BY <1>4, <1>5, Zenon

(* A process that starts over opens a good store.                          *)
LEMMA RestartInv ==
    ASSUME Names, Restart
    PROVE  StoreInv(replica')
<1>1. replica \in Stores /\ replica.fstate \in State
  BY DEF Names, StoreInv, Stores
<1>2. PICK new : new = [replica EXCEPT !.state = replica.fstate, !.dirty = << >>]
  OBVIOUS
<1>3. << >> \in Seq(Serials)
  OBVIOUS
<1>4. /\ new \in Stores
      /\ new.fdata = replica.fdata /\ new.findex = replica.findex
      /\ new.flog = replica.flog
  BY <1>1, <1>2, <1>3 DEF Stores
<1>5. StoreInv(new)
  BY <1>4, SameFilesInv DEF Names
<1> QED
  BY <1>2, <1>5 DEF Restart

(* The commit at the end of a process appends its record, and has a        *)
(* sequence above the last one the replica knows; the close saves the      *)
(* state.                                                                  *)
LEMMA EndLoopEffect ==
    ASSUME StoreInv(replica), EndLoop
    PROVE  /\ StoreInv(replica')
           /\ Longer(replica.fdata, replica'.fdata)
           /\ replica'.findex = replica.findex
           /\ LastSeq(replica') = Last(replica) + 1
           /\ Last(replica') >= Last(replica)
<1>1. Last(replica) \in Int
  BY DEF StoreInv, Stores, State, Last
<1>2. PICK r : r = MarkReg("COMMIT", Last(replica) + 1, << >>)
  OBVIOUS
<1>3. r \in DataReg /\ r.type = "COMMIT" /\ r.sequence = Last(replica) + 1
  <2>1. PICK seq \in Int : seq = Last(replica) + 1
    BY <1>1
  <2>2. r = MarkReg("COMMIT", seq, << >>) /\ "COMMIT" \in RecordTypes
    BY <1>2, <2>1 DEF RecordTypes
  <2>3. /\ MarkReg("COMMIT", seq, << >>) \in DataReg
        /\ MarkReg("COMMIT", seq, << >>).type = "COMMIT"
        /\ MarkReg("COMMIT", seq, << >>).sequence = seq
    <3>1. << >> \in Seq(Serials) /\ seq \in Int /\ "COMMIT" \in RecordTypes
      BY <2>1, <2>2
    <3> QED
      BY <3>1, SMT DEF MarkReg, DataReg
  <2> QED
    BY <2>1, <2>2, <2>3
<1>4. PICK w, ok : /\ ok \in BOOLEAN /\ ok
                   /\ w = WriteFiles(replica, r, TRUE) /\ Written(replica, w, r, ok)
  <2>1. \A ok \in BOOLEAN : Written(replica, WriteFiles(replica, r, ok), r, ok)
    BY <1>3, WriteFilesWritten
  <2>2. Written(replica, WriteFiles(replica, r, TRUE), r, TRUE)
    BY <2>1, Zenon
  <2> QED
    BY <2>2, Zenon
<1>5. /\ StoreInv(w) /\ Longer(replica.fdata, w.fdata)
      /\ w.findex = replica.findex /\ LastSeq(w) = Last(replica) + 1
      /\ Last(w) >= Last(replica)
  <2>1. StepTo(replica.findex, LastSeq(replica), r, Len(replica.fdata) + 1,
               w.findex, LastSeq(w))
    BY <1>3, <1>4 DEF Written
  <2>2. w.findex = replica.findex /\ LastSeq(w) = Last(replica) + 1
    BY <1>3, <2>1 DEF StepTo
  <2>3. Last(w) \in {r.sequence, r.sequence + 1}
    BY <1>4 DEF Written
  <2>4. Last(w) >= Last(replica)
    BY <1>1, <1>3, <2>3
  <2>5. StoreInv(w) /\ Longer(replica.fdata, w.fdata)
    BY <1>4 DEF Written
  <2> QED
    BY <2>2, <2>4, <2>5
<1>6. PICK c, sv, d : /\ c = ClearDirtySerials(w) /\ sv = SaveState(c)
                      /\ d = ClearDirtySerials(sv)
  OBVIOUS
<1>7. replica' = d
  BY <1>2, <1>4, <1>6, Zenon DEF EndLoop, OwnCommit, Last
<1>8. SameBut(w, c, {"dirty"}) /\ StoreInv(c)
  BY <1>5, <1>6, ClearEffect, ClearInv DEF StoreInv
<1>9. SameBut(c, sv, {"fstate"}) /\ StoreInv(sv)
  BY <1>6, <1>8, SaveStateEffect, SaveStateInv DEF StoreInv
<1>10. SameBut(sv, d, {"dirty"}) /\ StoreInv(d)
  BY <1>6, <1>9, ClearEffect, ClearInv DEF StoreInv
<1>11. d.fdata = w.fdata /\ d.findex = w.findex /\ d.state = w.state
  BY <1>8, <1>9, <1>10 DEF SameBut
<1> QED
  BY <1>5, <1>7, <1>10, <1>11 DEF LastSeq, Last

(* Both storages are new at the start.                                     *)
LEMMA RInitNames == RInit => Names
<1> SUFFICES ASSUME RInit PROVE Names
  OBVIOUS
<1>1. Inv /\ fdata = << >>
  BY InitInv DEF RInit, Init
<1>2. Serialed(fdata)
  BY <1>1 DEF Serialed
<1>3. PICK new : new = [Store EXCEPT !.auto = FALSE]
  OBVIOUS
<1>4. Store \in Stores /\ StoreInv(Store)
  BY <1>1 DEF Inv, StoreInv
<1>5. /\ new \in Stores
      /\ new.fdata = Store.fdata /\ new.findex = Store.findex
      /\ new.flog = Store.flog
  BY <1>3, <1>4 DEF Stores
<1>6. StoreInv(replica)
  BY <1>3, <1>4, <1>5, SameFilesInv DEF RInit
<1> QED
  BY <1>1, <1>2, <1>6 DEF Names

(* The invariant is inductive, with any number of restarts.                *)
LEMMA RNextNames == Names /\ [RNext]_allvars => Names'
<1> SUFFICES ASSUME Names, [RNext]_allvars PROVE Names'
  OBVIOUS
<1>1. ASSUME [Next]_vars
      PROVE  Inv' /\ Serialed(fdata)'
  <2>1. Inv'
    BY <1>1, NextInv DEF Names
  <2>2. PICK new : new = Store'
    OBVIOUS
  <2>3. Serialed(new.fdata)
    BY <1>1, <2>2, NextMoves DEF Names
  <2>4. new.fdata = fdata'
    BY <2>2 DEF Store
  <2> QED
    BY <2>1, <2>3, <2>4
<1>2. CASE MasterStep
  <2>1. Next /\ replica' = replica
    BY <1>2 DEF MasterStep, rvars
  <2> QED
    BY <1>1, <2>1 DEF Names
<1>3. CASE Apply
  <2>1. UNCHANGED vars
    BY <1>3 DEF Apply
  <2>2. PICK ok \in BOOLEAN : Written(replica, replica', ReadLog(rnext), ok)
    BY <1>3, ApplyWritten
  <2> QED
    BY <1>1, <2>1, <2>2 DEF Names, Written
<1>4. CASE Restart
  <2>1. UNCHANGED vars
    BY <1>4 DEF Restart
  <2> QED
    BY <1>1, <1>4, <2>1, RestartInv DEF Names
<1>5. CASE EndLoop
  <2>1. UNCHANGED vars
    BY <1>5 DEF EndLoop
  <2>2. StoreInv(replica')
    BY <1>5, EndLoopEffect DEF Names
  <2> QED
    BY <1>1, <2>1, <2>2 DEF Names
<1>6. CASE GiveUp \/ Die
  <2>1. UNCHANGED vars /\ replica' = replica
    BY <1>6 DEF GiveUp, Die
  <2> QED
    BY <1>1, <2>1 DEF Names
<1>7. CASE UNCHANGED allvars
  BY <1>1, <1>7 DEF allvars, rvars, Names
<1> QED
  BY <1>2, <1>3, <1>4, <1>5, <1>6, <1>7 DEF RNext

(* However often the replicating process starts again, and whatever the    *)
(* master goes through, every slot of the replica's index with an offset   *)
(* leads to the record of its serial and its sequence, although the data   *)
(* file of the replica repeats sequences.                                  *)
THEOREM ReplicaNames == RSpec => []ReplicaNamesRecord
<1>1. RInit => Names
  BY RInitNames
<1>2. Names /\ [RNext]_allvars => Names'
  BY RNextNames
<1>3. Names => ReplicaNamesRecord
  <2> SUFFICES ASSUME Names, NEW s \in Serials, NEW i \in Slot,
                      replica.findex[s][i].offset > 0
               PROVE  LET slot == replica.findex[s][i]
                      IN  /\ slot.offset \in DOMAIN replica.fdata
                          /\ replica.fdata[slot.offset].serial = s
                          /\ replica.fdata[slot.offset].sequence = slot.sequence
    BY DEF ReplicaNamesRecord
  <2>1. SlotNamed(replica.fdata, s, replica.findex[s][i])
    BY DEF Names, StoreInv
  <2>2. DOMAIN replica.fdata = 1 .. Len(replica.fdata)
    BY DEF Names, StoreInv, Stores
  <2> QED
    BY <2>1, <2>2 DEF SlotNamed
<1> QED
  BY <1>1, <1>2, <1>3, PTL DEF RSpec

(***************************************************************************)
(* The replica mirrors the master.                                         *)
(***************************************************************************)
(* No version of index ix has a sequence above h.                          *)
IndexUpTo(ix, h) == \A s \in Serials, i \in Slot : ix[s][i].sequence <= h

(* The replica is like a master with index ix and commit sequence lcs,     *)
(* which a commit of its own has not replaced yet.                         *)
Mirror(ix, lcs) ==
    /\ Alike(replica.fdata, replica.findex, fdata, ix)
    /\ process # "ended" => LastSeq(replica) = lcs

(* The commit of its own that a process may end with comes after every     *)
(* record it has applied.                                                  *)
CommitsLast ==
    rnext > 1 => /\ rnext - 1 <= Last(replica)
                 /\ process = "ended" => rnext - 1 <= LastSeq(replica)

(* The strengthening: the history is that of the master, and the replica   *)
(* of the first process is like the master was after the last record it    *)
(* has applied.                                                            *)
Mirrors ==
    /\ Saved
    /\ History(Store, views)
    /\ rnext \in Nat \ {0}
    /\ lives \in Nat \ {0}
    /\ CommitsLast
    /\ lives = 1 => /\ rnext - 1 <= Last(Store)
                    /\ IndexUpTo(replica.findex, rnext - 1)
                    /\ Mirror(IndexAt(views, rnext - 1), CommitAt(views, rnext - 1))

(* Two new storages are alike.                                             *)
LEMMA RInitMirrors == RInit => Mirrors
<1> SUFFICES ASSUME RInit PROVE Mirrors
  OBVIOUS
<1>1. /\ Store.fdata = << >> /\ Store.flog = << >>
      /\ Store.findex = [s \in Serials |-> EmptyIndex]
      /\ Last(Store) = 0 /\ LastSeq(Store) = 0
      /\ opened /\ rnext = 1 /\ lives = 1 /\ views = << >>
      /\ StoreInv(Store)
  <2>1. Inv
    BY InitInv DEF RInit
  <2> QED
    BY <2>1 DEF RInit, Init, Store, Last, LastSeq, ZeroState, Inv
<1>2. /\ DOMAIN views = 1 .. Last(Store)
      /\ LogWithin(Store)
      /\ IndexAt(views, 0) = Store.findex /\ CommitAt(views, 0) = 0
  BY <1>1 DEF LogWithin, IndexAt, CommitAt
<1>3. IndexFor(Store.fdata, Store.findex)
  BY <1>1 DEF StoreInv, Stores, IndexFor
<1>4. \A q \in 0 .. Last(Store) : q = 0
  BY <1>1
<1>5. \A q \in 1 .. Last(Store) : FALSE
  BY <1>1
<1>6. History(Store, views)
  <2>1. \A q \in 0 .. Last(Store) :
           IndexFor(Store.fdata, IndexAt(views, q)) /\ CommitAt(views, q) \in Int
    BY <1>2, <1>3, <1>4
  <2>2. IndexAt(views, Last(Store)) = Store.findex
    BY <1>1, <1>2
  <2>3. CommitAt(views, Last(Store)) = LastSeq(Store) /\ Last(Store) \in Nat
    BY <1>1, <1>2
  <2> QED
    BY <1>2, <1>5, <2>1, <2>2, <2>3, Zenon DEF History
<1>7. replica.fdata = << >> /\ replica.findex = Store.findex /\ LastSeq(replica) = 0
  <2>1. Store \in Stores
    BY <1>1 DEF StoreInv
  <2> QED
    BY <1>1, <2>1 DEF RInit, Stores, LastSeq
<1>8. Alike(replica.fdata, replica.findex, fdata, Store.findex)
  <2>1. Longer(Store.fdata, Store.fdata)
    <3>1. Store.fdata \in Seq(DataReg)
      BY <1>1 DEF StoreInv, Stores
    <3> QED
      BY <3>1, LongerReflexive
  <2>2. Alike(Store.fdata, Store.findex, Store.fdata, Store.findex)
    BY <1>3, <2>1, IndexForLonger
  <2> QED
    BY <1>1, <1>7, <2>2 DEF Store
<1>9. IndexUpTo(replica.findex, 0)
  <2>1. PICK none : none = [offset |-> 0, sequence |-> 0, auto |-> FALSE]
    OBVIOUS
  <2>2. none.sequence = 0
    BY <2>1
  <2>3. \A s \in Serials, i \in Slot : replica.findex[s][i] = none
    BY <1>1, <1>7, <2>1 DEF EmptyIndex
  <2> QED
    BY <2>2, <2>3 DEF IndexUpTo
<1> QED
  BY <1>1, <1>2, <1>6, <1>7, <1>8, <1>9 DEF Mirrors, Mirror, Saved, CommitsLast

(* What the master sees now, as the views record it.                       *)
LEMMA SnapshotTaken ==
    ASSUME Saved', NEW new, new = Store'
    PROVE  Snapshot' = [view   |-> ReadThrough(new.fdata, new.findex, LastSeq(new)),
                        findex |-> new.findex,
                        commit |-> LastSeq(new)]
<1>1. /\ new.fdata = fdata' /\ new.findex = findex'
      /\ LastSeq(new) = state.last_commit_sequence'
  BY DEF Store, LastSeq
<1>2. LastCommit' = LastSeq(new)
  BY <1>1 DEF LastCommit, Saved
<1>3. ASSUME NEW s \in Serials
      PROVE  Committed(s)' = ValueIn(new.fdata, FoundOffset(new.findex[s], LastSeq(new)))
  BY <1>1, <1>2, Zenon DEF Committed, Reads, ValueAt, ValueIn, FoundOffset
<1>4. View' = ReadThrough(new.fdata, new.findex, LastSeq(new))
  BY <1>3, Zenon DEF View, ReadThrough
<1> QED
  BY <1>1, <1>2, <1>4, Zenon DEF Snapshot

(* Steps of the master add to the history, and leave the views the replica *)
(* has gone through.                                                       *)
LEMMA MasterMirrors ==
    ASSUME "crash" \notin Allowed, Names, Names', Mirrors, MasterStep
    PROVE  Mirrors'
<1>1. PICK new : new = Store'
  OBVIOUS
<1>2. PICK v2 : v2 = views'
  OBVIOUS
<1>3. /\ Next /\ UNCHANGED rvars
      /\ views' = [q \in 1 .. state'.last_sequence |->
                      IF q \in DOMAIN views THEN views[q] ELSE Snapshot']
  BY DEF MasterStep
<1>4. StoreInv(Store) /\ StoreInv(new) /\ Tidy(Store) /\ Saved /\ History(Store, views)
  BY <1>1 DEF Names, Inv, Mirrors, Tidy, History
<1>5. MasterMoved(Store, new) /\ Saved'
  BY <1>1, <1>3, <1>4, NextMoves DEF Names
<1>6. Views(new, views, v2)
  <2>1. state'.last_sequence = Last(new)
    BY <1>1 DEF Store, Last
  <2>2. Snapshot' = [view   |-> ReadThrough(new.fdata, new.findex, LastSeq(new)),
                     findex |-> new.findex,
                     commit |-> LastSeq(new)]
    BY <1>1, <1>5, SnapshotTaken
  <2> QED
    BY <1>2, <1>3, <2>1, <2>2, Zenon DEF Views
<1>7. /\ History(new, v2)
      /\ \A q \in DOMAIN views : v2[q] = views[q]
      /\ Last(Store) <= Last(new) /\ Longer(Store.fdata, new.fdata)
  <2>1. CASE Grown(Store, new)
    <3>1. Last(Store) <= Last(new) /\ Longer(Store.fdata, new.fdata)
      BY <2>1 DEF Grown
    <3> QED
      BY <1>4, <1>6, <2>1, <3>1, HistoryGrows
  <2>2. CASE ~Grown(Store, new)
    <3>1. /\ new.fdata = Store.fdata /\ new.findex = Store.findex
          /\ new.flog = Store.flog
          /\ Last(new) = Last(Store) /\ LastSeq(new) = LastSeq(Store)
      BY <1>5, <2>2 DEF MasterMoved
    <3>2. Longer(Store.fdata, new.fdata)
      <4>1. Store.fdata \in Seq(DataReg)
        BY <1>4 DEF StoreInv, Stores
      <4> QED
        BY <3>1, <4>1, LongerReflexive
    <3>3. Last(Store) <= Last(new)
      BY <1>4, <3>1 DEF Tidy
    <3> QED
      BY <1>4, <1>6, <3>1, <3>2, <3>3, HistorySame
  <2> QED
    BY <2>1, <2>2
<1>8. replica' = replica /\ rnext' = rnext /\ lives' = lives /\ process' = process
  BY <1>3 DEF rvars
<1>9. ASSUME lives = 1
      PROVE  /\ rnext - 1 <= Last(new)
             /\ Alike(replica.fdata, replica.findex, new.fdata, IndexAt(v2, rnext - 1))
             /\ process # "ended" => LastSeq(replica) = CommitAt(v2, rnext - 1)
  <2>1. PICK q \in Nat : q = rnext - 1
    BY DEF Mirrors
  <2>2. /\ q <= Last(Store)
        /\ Alike(replica.fdata, replica.findex, fdata, IndexAt(views, q))
        /\ process # "ended" => LastSeq(replica) = CommitAt(views, q)
    BY <1>9, <2>1 DEF Mirrors, Mirror
  <2>3. q \in 0 .. Last(Store) /\ Last(Store) \in Nat /\ Last(new) \in Nat
    BY <1>4, <1>7, <2>2 DEF History
  <2>4. IndexAt(v2, q) = IndexAt(views, q) /\ CommitAt(v2, q) = CommitAt(views, q)
    <3>1. CASE q = 0
      BY <3>1 DEF IndexAt, CommitAt
    <3>2. CASE q # 0
      <4>1. q \in DOMAIN views
        BY <1>4, <2>3, <3>2 DEF History
      <4> QED
        BY <1>7, <3>2, <4>1 DEF IndexAt, CommitAt
    <3> QED
      BY <3>1, <3>2
  <2>5. IndexFor(fdata, IndexAt(views, q)) /\ Store.fdata = fdata
    BY <1>4, <2>3 DEF History, Store
  <2>6. Alike(fdata, IndexAt(views, q), new.fdata, IndexAt(views, q))
    BY <1>7, <2>5, IndexForLonger
  <2>7. replica.findex \in [Serials -> IndexReg]
    BY DEF Names, StoreInv, Stores
  <2>8. Alike(replica.fdata, replica.findex, new.fdata, IndexAt(views, q))
    BY <2>2, <2>5, <2>6, <2>7, AlikeTransitive DEF IndexFor
  <2> QED
    BY <1>7, <2>1, <2>2, <2>3, <2>4, <2>8
<1>10. History(Store, views)'
  BY <1>1, <1>2, <1>7
<1>11. new.fdata = fdata' /\ Last(Store)' = Last(new)
  BY <1>1 DEF Store, Last
<1>12. lives' = 1 => (rnext - 1 <= Last(Store)
                    /\ Mirror(IndexAt(views, rnext - 1), CommitAt(views, rnext - 1)))'
  BY <1>2, <1>8, <1>9, <1>11 DEF Mirror, LastSeq, IndexAt, CommitAt, Alike,
     AlikeRegs, AlikeSlots
<1>13. /\ CommitsLast'
       /\ lives' = 1 => IndexUpTo(replica'.findex, rnext' - 1)
  BY <1>8 DEF Mirrors, CommitsLast, LastSeq, Last
<1> QED
  BY <1>5, <1>8, <1>10, <1>12, <1>13 DEF Mirrors

(* A record of sequence q writes no version of a higher one.               *)
LEMMA StepUpTo ==
    ASSUME NEW ix \in [Serials -> IndexReg], NEW q \in Nat, q # 0,
           IndexUpTo(ix, q - 1), NEW lcs, NEW r, r.sequence = q, NEW off,
           NEW ix2, NEW lcs2, StepTo(ix, lcs, r, off, ix2, lcs2)
    PROVE  IndexUpTo(ix2, q)
<1> SUFFICES ASSUME NEW s \in Serials, NEW i \in Slot
             PROVE  ix2[s][i].sequence <= q
  BY DEF IndexUpTo
<1>1. ix[s][i].sequence \in Int /\ ix[s][i].sequence <= q - 1
  BY DEF IndexUpTo, IndexReg
<1>2. CASE ix2 = ix
  BY <1>1, <1>2
<1>3. CASE ix2 # ix
  <2>1. r.serial \in Serials /\ ix2 = Rewritten(ix, off, r)
    BY <1>3 DEF StepTo
  <2>2. PICK reg : reg = SetOldestOffset(ix[r.serial], off, q, r.auto,
                                         ix[r.serial] = EmptyIndex)
    OBVIOUS
  <2>3. ix2[s] = IF s = r.serial THEN reg ELSE ix[s]
    BY <2>1, <2>2 DEF Rewritten
  <2>4. CASE s # r.serial
    BY <1>1, <2>3, <2>4
  <2>5. CASE s = r.serial
    <3>1. ix[s] \in IndexReg
      OBVIOUS
    <3>2. reg[i].sequence \in {q, 0, ix[s][i].sequence}
      BY <2>2, <2>5, <3>1 DEF SetOldestOffset, IndexReg, Slot, NewestSlot
    <3> QED
      BY <1>1, <2>3, <2>5, <3>2
  <2> QED
    BY <2>4, <2>5
<1> QED
  BY <1>2, <1>3

(* Applying the next readable record takes the replica to the next view.   *)
LEMMA ApplyMirrors ==
    ASSUME Names, Names', Mirrors, Apply
    PROVE  Mirrors'
<1>1. PICK new : new = replica'
  OBVIOUS
<1>2. PICK r, off : r = ReadLog(rnext) /\ off = flog[rnext].offset
  OBVIOUS
<1>3. /\ LogReadable(rnext) /\ rnext' = rnext + 1 /\ process # "ended"
      /\ UNCHANGED <<vars, lives, process, views>>
  BY DEF Apply
<1>4. /\ r \in DataReg /\ r.sequence = rnext
      /\ off \in Int /\ off > 0 /\ fdata[off] = r
  BY <1>2, <1>3, ReadLogRecord DEF ReadLog
<1>5. PICK ok \in BOOLEAN : ok /\ Written(replica, new, r, ok)
  BY <1>1, <1>2, ApplyWritten
<1>6. PICK q \in Nat : q = rnext /\ q # 0
  BY DEF Mirrors
<1>7. q \in 1 .. Last(Store) /\ Last(Store) \in Nat /\ q - 1 \in 0 .. Last(Store)
  <2>1. q \in DOMAIN Store.flog
    BY <1>3, <1>6 DEF LogReadable, Store
  <2>2. Last(Store) \in Nat /\ q <= Last(Store)
    BY <2>1 DEF Mirrors, History, LogWithin
  <2> QED
    BY <1>6, <2>2
<1>8. /\ IndexFor(fdata, IndexAt(views, q)) /\ CommitAt(views, q) \in Int
      /\ IndexFor(fdata, IndexAt(views, q - 1)) /\ CommitAt(views, q - 1) \in Int
      /\ StepTo(IndexAt(views, q - 1), CommitAt(views, q - 1), r, off,
                IndexAt(views, q), CommitAt(views, q))
  <2>1. Store.fdata = fdata /\ Store.flog = flog
    BY DEF Store
  <2>2. q \in 0 .. Last(Store)
    BY <1>7
  <2>3. q \in DOMAIN flog /\ flog[q].offset > 0
    BY <1>3, <1>6 DEF LogReadable
  <2> QED
    BY <1>2, <1>4, <1>6, <1>7, <2>1, <2>2, <2>3 DEF Mirrors, History
<1>9. ASSUME lives = 1
      PROVE  /\ Alike(new.fdata, new.findex, fdata, IndexAt(views, q))
             /\ LastSeq(new) = CommitAt(views, q)
             /\ IndexUpTo(new.findex, q)
  <2>1. /\ Alike(replica.fdata, replica.findex, fdata, IndexAt(views, q - 1))
        /\ LastSeq(replica) = CommitAt(views, q - 1)
        /\ IndexUpTo(replica.findex, q - 1)
    BY <1>3, <1>6, <1>9 DEF Mirrors, Mirror
  <2>2. /\ replica.fdata \in Seq(DataReg)
        /\ replica.findex \in [Serials -> IndexReg]
        /\ IndexFor(replica.fdata, replica.findex)
    BY DEF Names, StoreInv, Stores, IndexFor
  <2>3. r.type \in {"WRITE", "COMMIT", "STATUS"}
    BY <1>8 DEF StepTo
  <2>4. PICK n \in Int : n = Len(replica.fdata) + 1 /\ n > 0
    BY <2>2
  <2>5. /\ Longer(replica.fdata, new.fdata)
        /\ r.type = "WRITE" => new.fdata[n] = r
        /\ StepTo(replica.findex, LastSeq(replica), r, n, new.findex, LastSeq(new))
    BY <1>5, <2>3, <2>4 DEF Written
  <2>6. Alike(new.fdata, replica.findex, fdata, IndexAt(views, q - 1))
    <3>1. Alike(new.fdata, replica.findex, replica.fdata, replica.findex)
      BY <2>2, <2>5, IndexForLonger
    <3> QED
      BY <1>8, <2>1, <2>2, <3>1, AlikeTransitive DEF IndexFor
  <2>7. StepTo(replica.findex, CommitAt(views, q - 1), r, n,
               new.findex, LastSeq(new))
    BY <2>1, <2>5
  <2>8. r.type = "WRITE" => new.fdata[n].val = fdata[off].val
    BY <1>4, <2>5
  <2>9. /\ IndexAt(views, q - 1) \in [Serials -> IndexReg]
        /\ r \in DataReg /\ off \in Int /\ off > 0
        /\ StepTo(IndexAt(views, q - 1), CommitAt(views, q - 1), r, off,
                  IndexAt(views, q), CommitAt(views, q))
    BY <1>4, <1>8 DEF IndexFor
  <2>10. PICK ix, lcs : ix = IndexAt(views, q - 1) /\ lcs = CommitAt(views, q - 1)
    OBVIOUS
  <2>11. PICK ix2, lcs2 : ix2 = IndexAt(views, q) /\ lcs2 = CommitAt(views, q)
    OBVIOUS
  <2>12. /\ Alike(new.fdata, replica.findex, fdata, ix)
         /\ ix \in [Serials -> IndexReg]
         /\ StepTo(replica.findex, lcs, r, n, new.findex, LastSeq(new))
         /\ StepTo(ix, lcs, r, off, ix2, lcs2)
    BY <2>6, <2>7, <2>9, <2>10, <2>11
  <2>13. Alike(new.fdata, new.findex, fdata, ix2) /\ LastSeq(new) = lcs2
    <3>1. n \in Int /\ n > 0
      BY <2>4
    <3>2. r \in DataReg /\ off \in Int /\ off > 0
      BY <2>9
    <3>3. r.type = "WRITE" => new.fdata[n].val = fdata[off].val
      BY <2>8
    <3>4. replica.findex \in [Serials -> IndexReg]
      BY <2>2
    <3>5. /\ Alike(new.fdata, replica.findex, fdata, ix)
         /\ ix \in [Serials -> IndexReg]
      BY <2>12
    <3>6. StepTo(replica.findex, lcs, r, n, new.findex, LastSeq(new))
      BY <2>12
    <3>7. StepTo(ix, lcs, r, off, ix2, lcs2)
      BY <2>12
    <3> QED
      BY <3>1, <3>2, <3>3, <3>4, <3>5, <3>6, <3>7, AlikeStep
  <2>14. IndexUpTo(new.findex, q)
    <3>1. r.sequence = q
      BY <1>4, <1>6
    <3> QED
      BY <1>6, <2>1, <2>2, <2>5, <3>1, StepUpTo
  <2> QED
    BY <2>11, <2>13, <2>14
<1>10. Store' = Store /\ views' = views /\ fdata' = fdata /\ Saved' /\ lives' = lives
  BY <1>3 DEF vars, Store, Saved, Mirrors
<1>11. History(Store, views)'
  BY <1>10 DEF Mirrors
<1>12. lives' = 1 =>
         /\ rnext' - 1 <= Last(Store')
         /\ Alike(replica'.fdata, replica'.findex, fdata', IndexAt(views', rnext' - 1))
         /\ LastSeq(replica') = CommitAt(views', rnext' - 1)
         /\ IndexUpTo(replica'.findex, rnext' - 1)
  <2>1. rnext' - 1 = q
    BY <1>3, <1>6
  <2> QED
    BY <1>1, <1>7, <1>9, <1>10, <2>1
<1>13. CommitsLast'
  <2>1. Last(new) \in {r.sequence, r.sequence + 1}
    BY <1>5 DEF Written
  <2>2. rnext' - 1 <= Last(replica')
    BY <1>1, <1>3, <1>4, <1>6, <2>1
  <2>3. process' # "ended"
    BY <1>3
  <2> QED
    BY <2>2, <2>3 DEF CommitsLast, Last
<1> QED
  BY <1>3, <1>6, <1>10, <1>11, <1>12, <1>13 DEF Mirrors, Mirror

(* The end of a process leaves the index of the replica as it was.         *)
LEMMA EndLoopMirrors ==
    ASSUME Names, Mirrors, EndLoop
    PROVE  Mirrors'
<1>1. PICK new : new = replica'
  OBVIOUS
<1>2. /\ StoreInv(replica)
      /\ Longer(replica.fdata, new.fdata) /\ new.findex = replica.findex
      /\ LastSeq(new) = Last(replica) + 1 /\ Last(new) >= Last(replica)
  BY <1>1, EndLoopEffect DEF Names
<1>3. UNCHANGED <<vars, rnext, lives, views>> /\ process' = "ended"
  BY DEF EndLoop
<1>4. /\ Store' = Store /\ views' = views /\ Saved' /\ fdata' = fdata
      /\ lives' = lives /\ rnext' = rnext
  BY <1>3 DEF vars, Store, Saved, Mirrors
<1>5. ASSUME lives = 1
      PROVE  Alike(new.fdata, new.findex, fdata, IndexAt(views, rnext - 1))
  <2>1. PICK q : q = rnext - 1
    OBVIOUS
  <2>2. /\ Alike(replica.fdata, replica.findex, fdata, IndexAt(views, q))
        /\ q \in 0 .. Last(Store)
    BY <1>5, <2>1 DEF Mirrors, Mirror, History
  <2>3. IndexFor(replica.fdata, replica.findex)
    BY <1>2 DEF StoreInv, Stores, IndexFor
  <2>4. Alike(new.fdata, replica.findex, replica.fdata, replica.findex)
    BY <1>2, <2>3, IndexForLonger
  <2>5. Store.fdata = fdata
    BY DEF Store
  <2>6. IndexFor(fdata, IndexAt(views, q))
    BY <2>2, <2>5 DEF Mirrors, History
  <2>7. Alike(new.fdata, replica.findex, fdata, IndexAt(views, q))
    BY <2>2, <2>3, <2>4, <2>6, AlikeTransitive DEF IndexFor
  <2> QED
    BY <1>2, <2>1, <2>7
<1>6. Last(replica) \in Int /\ Last(new) \in Int
  <2>1. StoreInv(new)
    BY <1>1, <1>2, EndLoopEffect
  <2> QED
    BY <1>2, <2>1 DEF StoreInv, Stores, State, Last
<1>7. CommitsLast'
  <2>1. rnext > 1 => rnext - 1 <= Last(new) /\ rnext - 1 <= LastSeq(new)
    BY <1>2, <1>6 DEF Mirrors, CommitsLast
  <2> QED
    BY <1>1, <1>4, <2>1 DEF CommitsLast, Last, LastSeq
<1>8. History(Store, views)'
  BY <1>4 DEF Mirrors
<1>9. lives' = 1 =>
         /\ rnext' - 1 <= Last(Store')
         /\ IndexUpTo(replica'.findex, rnext' - 1)
         /\ Alike(replica'.fdata, replica'.findex, fdata', IndexAt(views', rnext' - 1))
  BY <1>1, <1>2, <1>4, <1>5 DEF Mirrors
<1> QED
  BY <1>3, <1>4, <1>7, <1>8, <1>9 DEF Mirrors, Mirror

(* A process that gives up or dies leaves the replica as it is.            *)
LEMMA GoneMirrors ==
    ASSUME Mirrors, GiveUp \/ Die
    PROVE  Mirrors'
<1>1. /\ process = "runs" /\ process' = "gone"
      /\ UNCHANGED <<vars, replica, rnext, lives, views>>
  BY DEF GiveUp, Die
<1>2. /\ Store' = Store /\ views' = views /\ Saved' /\ fdata' = fdata
      /\ lives' = lives /\ rnext' = rnext /\ replica' = replica
  BY <1>1 DEF vars, Store, Saved, Mirrors
<1>3. History(Store, views)'
  BY <1>2 DEF Mirrors
<1>4. lives' = 1 =>
         /\ rnext' - 1 <= Last(Store')
         /\ IndexUpTo(replica'.findex, rnext' - 1)
         /\ Alike(replica'.fdata, replica'.findex, fdata', IndexAt(views', rnext' - 1))
         /\ LastSeq(replica') = CommitAt(views', rnext' - 1)
  BY <1>1, <1>2 DEF Mirrors, Mirror
<1>5. CommitsLast'
  BY <1>1, <1>2 DEF Mirrors, CommitsLast, Last, LastSeq
<1> QED
  BY <1>2, <1>3, <1>4, <1>5 DEF Mirrors, Mirror

(* Nothing is claimed of the processes after the first.                    *)
LEMMA RestartMirrors ==
    ASSUME Mirrors, Restart
    PROVE  Mirrors'
<1>1. /\ Store' = Store /\ views' = views /\ Saved'
      /\ lives' = lives + 1 /\ rnext' = 1
  BY DEF Restart, vars, Store, Saved, Mirrors
<1>2. lives' \in Nat \ {0, 1}
  BY <1>1 DEF Mirrors
<1>3. History(Store, views)'
  BY <1>1 DEF Mirrors
<1>4. CommitsLast'
  BY <1>1 DEF CommitsLast
<1> QED
  BY <1>1, <1>2, <1>3, <1>4 DEF Mirrors

(* Nothing happens.                                                        *)
LEMMA StutterMirrors ==
    ASSUME Mirrors, UNCHANGED allvars
    PROVE  Mirrors'
<1>1. /\ Store' = Store /\ views' = views /\ Saved' /\ fdata' = fdata
      /\ lives' = lives /\ rnext' = rnext /\ replica' = replica
      /\ process' = process
  BY DEF allvars, rvars, vars, Store, Saved, Mirrors
<1>2. History(Store, views)'
  BY <1>1 DEF Mirrors
<1>3. lives' = 1 =>
         /\ rnext' - 1 <= Last(Store')
         /\ IndexUpTo(replica'.findex, rnext' - 1)
         /\ Alike(replica'.fdata, replica'.findex, fdata', IndexAt(views', rnext' - 1))
         /\ process' # "ended" => LastSeq(replica') = CommitAt(views', rnext' - 1)
  BY <1>1 DEF Mirrors, Mirror
<1>4. CommitsLast'
  BY <1>1 DEF Mirrors, CommitsLast, Last, LastSeq
<1> QED
  BY <1>1, <1>2, <1>3, <1>4 DEF Mirrors, Mirror

(* Both invariants hold after every step.                                  *)
LEMMA NextMirrors ==
    ASSUME "crash" \notin Allowed, Names, Mirrors, [RNext]_allvars
    PROVE  Names' /\ Mirrors'
<1>1. Names'
  BY RNextNames
<1>2. CASE MasterStep
  BY <1>1, <1>2, MasterMirrors
<1>3. CASE Apply
  BY <1>1, <1>3, ApplyMirrors
<1>4. CASE Restart
  BY <1>1, <1>4, RestartMirrors
<1>5. CASE EndLoop
  BY <1>1, <1>5, EndLoopMirrors
<1>6. CASE GiveUp \/ Die
  BY <1>1, <1>6, GoneMirrors
<1>7. CASE UNCHANGED allvars
  BY <1>1, <1>7, StutterMirrors
<1> QED
  BY <1>2, <1>3, <1>4, <1>5, <1>6, <1>7 DEF RNext

(* To a reader whose commit sequence covers both versions, a committed     *)
(* read is a dirty one.                                                    *)
LEMMA ReadAll ==
    ASSUME NEW reg \in IndexReg, NEW lcs \in Int, NEW other \in Int,
           \A i \in Slot : reg[i].sequence <= lcs
    PROVE  FoundOffset(reg, lcs) = GetLastOffset(reg, other, TRUE)
<1>1. reg[0].sequence <= lcs /\ reg[1].sequence <= lcs
  BY DEF Slot
<1> QED
  BY <1>1 DEF FoundOffset, GetLastOffset, Readable

(* What the first replicating process has applied gives a committed reader *)
(* of the replica what one of the master had found after the same record:  *)
(* with any mixture of records, failed appends and STATUS records of       *)
(* either storage, wherever the records are in the data file of each.      *)
(* Once the process has ended with a commit of its own, the reader finds   *)
(* what the writer of the master found at that point, committed or not.    *)
(* The master does not die, for a session after a death gives sequences    *)
(* out again.                                                              *)
THEOREM ReplicaMirrored ==
    ASSUME "crash" \notin Allowed
    PROVE  RSpec => []ReplicaMirrors
<1>1. RInit => Names /\ Mirrors
  BY RInitNames, RInitMirrors
<1>2. Names /\ Mirrors /\ [RNext]_allvars => Names' /\ Mirrors'
  BY NextMirrors
<1>3. Names /\ Mirrors => ReplicaMirrors
  <2> SUFFICES ASSUME Names, Mirrors, lives = 1, rnext > 1
               PROVE  ReplicaView = IF process = "ended" THEN WorkAfter(rnext - 1)
                                    ELSE views[rnext - 1].view
    BY DEF ReplicaMirrors
  <2>1. PICK q \in Nat : q = rnext - 1
    BY DEF Mirrors
  <2>2. q \in 1 .. Last(Store) /\ q \in 0 .. Last(Store)
    BY <2>1 DEF Mirrors, History
  <2>3. /\ Alike(replica.fdata, replica.findex, fdata, IndexAt(views, q))
        /\ IndexUpTo(replica.findex, q)
        /\ process # "ended" => LastSeq(replica) = CommitAt(views, q)
        /\ process = "ended" => q <= LastSeq(replica)
    BY <2>1 DEF Mirrors, Mirror, CommitsLast
  <2>4. /\ IndexFor(fdata, IndexAt(views, q)) /\ CommitAt(views, q) \in Int
        /\ views[q].view = ReadThrough(fdata, IndexAt(views, q), CommitAt(views, q))
    <3>1. Store.fdata = fdata
      BY DEF Store
    <3> QED
      BY <2>2, <3>1 DEF Mirrors, History
  <2>5. replica.findex \in [Serials -> IndexReg]
    BY DEF Names, StoreInv, Stores
  <2>6. PICK lcs \in Int : lcs = LastSeq(replica)
    BY DEF Names, StoreInv, Stores, State, LastSeq
  <2>7. ReadThrough(replica.fdata, replica.findex, lcs)
           = ReadThrough(fdata, IndexAt(views, q), lcs)
    BY <2>3, <2>4, <2>5, AlikeRead DEF IndexFor
  <2>8. ReplicaView = ReadThrough(replica.fdata, replica.findex, lcs)
    BY <2>6, Zenon
       DEF ReplicaView, ReplicaReads, ReadThrough, ValueIn, FoundOffset, LastSeq
  <2>9. CASE process # "ended"
    BY <2>1, <2>3, <2>4, <2>6, <2>7, <2>8, <2>9
  <2>10. CASE process = "ended"
    <3>0. PICK ix : ix = IndexAt(views, q)
      OBVIOUS
    <3>1. PICK c \in Int : ix = IndexAt(views, q) /\ c = CommitAt(views, q)
      BY <2>4, <3>0
    <3>2. ix = views[q].findex /\ c = views[q].commit
      BY <2>2, <3>1 DEF IndexAt, CommitAt
    <3>3. ASSUME NEW s \in Serials
          PROVE  ValueIn(fdata, FoundOffset(ix[s], lcs))
                    = ValueAt(GetLastOffset(ix[s], c, TRUE))
      <4>1. ix[s] \in IndexReg
        BY <2>4, <3>1 DEF IndexFor
      <4>2. ASSUME NEW i \in Slot PROVE ix[s][i].sequence <= lcs
        <5>1. replica.findex[s][i].sequence = ix[s][i].sequence
          BY <2>3, <3>1 DEF Alike, AlikeRegs, AlikeSlots
        <5>2. replica.findex[s][i].sequence <= q
          BY <2>3 DEF IndexUpTo
        <5>3. ix[s][i].sequence \in Int
          BY <4>1 DEF IndexReg
        <5> QED
          BY <2>3, <2>6, <2>10, <5>1, <5>2, <5>3
      <4>3. FoundOffset(ix[s], lcs) = GetLastOffset(ix[s], c, TRUE)
        BY <4>1, <4>2, ReadAll
      <4> QED
        BY <4>3, Zenon DEF ValueIn, ValueAt
    <3>4. ReadThrough(fdata, ix, lcs) = WorkAfter(q)
      BY <3>2, <3>3, Zenon DEF ReadThrough, WorkAfter
    <3> QED
      BY <2>1, <2>7, <2>8, <2>10, <3>1, <3>4
  <2> QED
    BY <2>9, <2>10
<1> QED
  BY <1>1, <1>2, <1>3, PTL DEF RSpec

(***************************************************************************)
(* Processes that start over.  However far one of them has come, and       *)
(* wherever its successor is, each register of the replica has the newest  *)
(* version that the master had at the furthest sequence h any of them has  *)
(* applied (Twins): what is applied a second time never takes its place,   *)
(* since it goes into the slot of the lower sequence.                      *)
(***************************************************************************)

(* The log of st can be read up to sequence n.                             *)
ReadableTo(st, n) ==
    \A q \in 1 .. n : q \in DOMAIN st.flog /\ st.flog[q].offset > 0

(* The record that readLog returns for sequence q.                         *)
Logged(st, q) == st.fdata[st.flog[q].offset]

(* What a record or a miss may have as its value.                          *)
Found == Values \cup {NoValue}

(* The newest version of register reg, for data file fd, is value v, with  *)
(* sequence t and flag au.                                                 *)
Tops(fd, reg, t, v, au) ==
    /\ \E i \in Slot : reg[i].sequence = t
    /\ \A i \in Slot :
          /\ reg[i].sequence <= t
          /\ reg[i].sequence = t =>
                /\ reg[i].offset > 0 /\ reg[i].auto = au
                /\ fd[reg[i].offset].val = v

(* Two registers that were never written, or have the same newest version, *)
(* of a sequence up to h.                                                  *)
Twins(fd1, a, fd2, b, h) ==
    \/ a = EmptyIndex /\ b = EmptyIndex
    \/ \E t \in 1 .. h, v \in Found, au \in BOOLEAN :
          Tops(fd1, a, t, v, au) /\ Tops(fd2, b, t, v, au)

(* The newest version of register reg is that of record r or a later one.  *)
Covers(fd, reg, r, h) ==
    \E t \in r.sequence .. h, v \in Found, au \in BOOLEAN :
       /\ Tops(fd, reg, t, v, au)
       /\ t = r.sequence => v = r.val /\ au = r.auto

(* A replica rep, after p records of a process and h records of the one    *)
(* that got furthest, and the master st with the views v.                  *)
Caught(st, v, rep, p, h) ==
    /\ h \in 0 .. Last(st) /\ p \in 0 .. h
    /\ ReadableTo(st, h)
    /\ \A s \in Serials :
          Twins(rep.fdata, rep.findex[s], st.fdata, IndexAt(v, h)[s], h)
    /\ \A q \in 1 .. h :
          Logged(st, q).type = "WRITE" =>
             Covers(st.fdata, IndexAt(v, h)[Logged(st, q).serial],
                    Logged(st, q), h)
    /\ CommitAt(v, h) # 0 =>
          /\ CommitAt(v, h) \in 1 .. h
          /\ Logged(st, CommitAt(v, h)).type = "COMMIT"
    /\ \A q \in 1 .. p : Logged(st, q).type = "COMMIT" => q <= LastSeq(rep)

(* A version that may be read is what a reader finds if it is the newest.  *)
LEMMA TopsRead ==
    ASSUME NEW fd, NEW reg \in IndexReg, NEW t \in Nat, t > 0, NEW v,
           NEW au \in BOOLEAN, Tops(fd, reg, t, v, au), NEW lcs \in Int,
           au \/ t <= lcs
    PROVE  ValueIn(fd, FoundOffset(reg, lcs)) = v
<1>1. /\ reg[0].sequence \in Int /\ reg[1].sequence \in Int
      /\ reg[0].auto \in BOOLEAN /\ reg[1].auto \in BOOLEAN
      /\ reg[0].offset \in Int /\ reg[1].offset \in Int
  BY DEF IndexReg, Slot
<1>2. PICK i \in Slot : /\ FoundOffset(reg, lcs) = reg[i].offset
                        /\ reg[i].sequence = t
  <2>1. CASE reg[1].sequence = t
    <3>1. reg[0].sequence <= t /\ reg[1].auto = au
      BY <2>1 DEF Tops, Slot
    <3>2. FoundOffset(reg, lcs) = reg[1].offset
      BY <1>1, <2>1, <3>1 DEF FoundOffset, GetLastOffset, Readable
    <3> QED
      BY <2>1, <3>2 DEF Slot
  <2>2. CASE reg[1].sequence # t
    <3>1. /\ reg[0].sequence = t /\ reg[0].auto = au
          /\ reg[1].sequence <= t
      BY <2>2 DEF Tops, Slot
    <3>2. FoundOffset(reg, lcs) = reg[0].offset
      BY <1>1, <2>2, <3>1 DEF FoundOffset, GetLastOffset, Readable
    <3> QED
      BY <3>1, <3>2 DEF Slot
  <2> QED
    BY <2>1, <2>2
<1>3. reg[i].offset \in Int /\ reg[i].offset > 0 /\ fd[reg[i].offset].val = v
  BY <1>1, <1>2 DEF Tops, Slot
<1> QED
  BY <1>2, <1>3 DEF ValueIn

(* The newest version is the newest: there is one.                         *)
LEMMA TopsUnique ==
    ASSUME NEW fd, NEW reg \in IndexReg,
           NEW t1 \in Nat, NEW v1, NEW au1, Tops(fd, reg, t1, v1, au1),
           NEW t2 \in Nat, NEW v2, NEW au2, Tops(fd, reg, t2, v2, au2)
    PROVE  t1 = t2 /\ v1 = v2 /\ au1 = au2
<1>1. reg[0].sequence \in Int /\ reg[1].sequence \in Int
  BY DEF IndexReg, Slot
<1>2. t1 = t2
  BY <1>1 DEF Tops, Slot
<1> QED
  BY <1>2, Zenon DEF Tops

(* A register with a version is not empty.                                 *)
LEMMA TopsWritten ==
    ASSUME NEW fd, NEW reg, NEW t \in Nat, t > 0, NEW v, NEW au,
           Tops(fd, reg, t, v, au)
    PROVE  reg # EmptyIndex
  BY DEF Tops, EmptyIndex, Slot

(* The register in a longer data file.                                     *)
LEMMA TopsLonger ==
    ASSUME NEW fd1, NEW fd2, Longer(fd1, fd2), NEW s, NEW reg,
           \A i \in Slot : SlotNamed(fd1, s, reg[i]),
           NEW t, NEW v, NEW au, Tops(fd1, reg, t, v, au)
    PROVE  Tops(fd2, reg, t, v, au)
<1>1. ASSUME NEW i \in Slot, reg[i].sequence = t
      PROVE  fd2[reg[i].offset].val = v
  <2>1. reg[i].offset > 0 /\ fd1[reg[i].offset].val = v
    BY <1>1 DEF Tops
  <2>2. reg[i].offset \in 1 .. Len(fd1)
    BY <2>1 DEF SlotNamed
  <2> QED
    BY <2>1, <2>2 DEF Longer
<1> QED
  BY <1>1 DEF Tops

(* What a write makes of a register that was written before.               *)
LEMMA RenewedSlots ==
    ASSUME NEW reg \in IndexReg, reg # EmptyIndex, NEW off, NEW seq, NEW auto
    PROVE  \A i \in Slot :
              Renewed(reg, off, seq, auto)[i] =
                 IF i = 1 - NewestSlot(reg)
                 THEN [offset |-> off, sequence |-> seq, auto |-> auto]
                 ELSE reg[i]
  BY DEF Renewed, SetOldestOffset, IndexReg

(* A write with a sequence that is not above the newest version's replaces *)
(* another version than that, or one of two copies of it.                  *)
LEMMA TopsKept ==
    ASSUME NEW fd, NEW reg \in IndexReg, NEW t \in Nat, t > 0, NEW v,
           NEW au, Tops(fd, reg, t, v, au),
           NEW off \in Int, off > 0, NEW q \in Nat, q <= t, NEW a,
           q = t => fd[off].val = v /\ a = au
    PROVE  Tops(fd, Renewed(reg, off, q, a), t, v, au)
<1>1. reg # EmptyIndex
  BY TopsWritten
<1>2. PICK old \in Slot : old = 1 - NewestSlot(reg)
  BY DEF NewestSlot, Slot
<1>3. PICK x : x = [offset |-> off, sequence |-> q, auto |-> a]
  OBVIOUS
<1>4. x.offset = off /\ x.sequence = q /\ x.auto = a
  BY <1>3
<1>5. PICK new : new = Renewed(reg, off, q, a)
  OBVIOUS
<1>6. \A i \in Slot : new[i] = IF i = old THEN x ELSE reg[i]
  BY <1>1, <1>2, <1>3, <1>5, RenewedSlots
<1>7. PICK kept \in Slot : kept # old /\ reg[kept].sequence = t
  <2>1. reg[0].sequence \in Int /\ reg[1].sequence \in Int
    BY DEF IndexReg, Slot
  <2>2. reg[0].sequence <= t /\ reg[1].sequence <= t
        /\ (reg[0].sequence = t \/ reg[1].sequence = t)
    BY DEF Tops, Slot
  <2>3. CASE reg[1].sequence > reg[0].sequence
    BY <1>2, <2>1, <2>2, <2>3 DEF NewestSlot, Slot
  <2>4. CASE ~(reg[1].sequence > reg[0].sequence)
    BY <1>2, <2>1, <2>2, <2>4 DEF NewestSlot, Slot
  <2> QED
    BY <2>3, <2>4
<1>8. new[kept].sequence = t
  BY <1>6, <1>7
<1>9. ASSUME NEW i \in Slot
      PROVE  /\ new[i].sequence <= t
             /\ new[i].sequence = t =>
                   /\ new[i].offset > 0 /\ new[i].auto = au
                   /\ fd[new[i].offset].val = v
  <2>1. CASE i = old
    BY <1>4, <1>6, <2>1
  <2>2. CASE i # old
    BY <1>6, <2>2 DEF Tops
  <2> QED
    BY <2>1, <2>2
<1> QED
  BY <1>5, <1>8, <1>9 DEF Tops

(* A write with a sequence above all others of its register is the newest  *)
(* version.                                                                *)
LEMMA TopsNew ==
    ASSUME NEW fd, NEW reg \in IndexReg, NEW q \in Nat, q > 0,
           \/ reg = EmptyIndex
           \/ \E t, v, au : t \in 1 .. q - 1 /\ Tops(fd, reg, t, v, au),
           NEW off \in Int, off > 0, NEW a
    PROVE  Tops(fd, Renewed(reg, off, q, a), q, fd[off].val, a)
<1>1. PICK x : x = [offset |-> off, sequence |-> q, auto |-> a]
  OBVIOUS
<1>2. x.offset = off /\ x.sequence = q /\ x.auto = a
  BY <1>1
<1>3. PICK new : new = Renewed(reg, off, q, a)
  OBVIOUS
<1>4. PICK w \in Slot :
        new[w] = x /\ \A i \in Slot : i # w => new[i].sequence < q
  <2>1. CASE reg = EmptyIndex
    <3>1. PICK none : none = [offset |-> -1, sequence |-> 0, auto |-> FALSE]
      OBVIOUS
    <3>2. \A i \in Slot : new[i] = IF i = 0 THEN x ELSE none
      BY <1>1, <1>3, <2>1, <3>1, Zenon DEF Renewed, SetOldestOffset
    <3>3. none.sequence < q
      BY <3>1
    <3> QED
      BY <3>2, <3>3 DEF Slot
  <2>2. CASE reg # EmptyIndex
    <3>1. PICK t, v, au : t \in 1 .. q - 1 /\ Tops(fd, reg, t, v, au)
      BY <2>2
    <3>2. PICK old \in Slot : old = 1 - NewestSlot(reg)
      BY DEF NewestSlot, Slot
    <3>3. \A i \in Slot : new[i] = IF i = old THEN x ELSE reg[i]
      BY <1>1, <1>3, <2>2, <3>2, RenewedSlots
    <3>4. ASSUME NEW i \in Slot PROVE reg[i].sequence < q
      <4>1. reg[i].sequence <= t /\ reg[i].sequence \in Int
        BY <3>1 DEF Tops, IndexReg
      <4> QED
        BY <3>1, <4>1
    <3> QED
      BY <3>3, <3>4
  <2> QED
    BY <2>1, <2>2
<1>5. ASSUME NEW i \in Slot
      PROVE  /\ new[i].sequence <= q
             /\ new[i].sequence = q =>
                   /\ new[i].offset > 0 /\ new[i].auto = a
                   /\ fd[new[i].offset].val = fd[off].val
  <2>1. CASE i = w
    BY <1>2, <1>4, <2>1
  <2>2. CASE i # w
    <3>1. new[i].sequence < q
      BY <1>4, <2>2
    <3>2. new[i].sequence \in Int
      <4>1. new[i].sequence \in {0, reg[i].sequence, q}
        BY <1>2, <1>3 DEF Renewed, SetOldestOffset, IndexReg, Slot, NewestSlot
      <4> QED
        BY <4>1 DEF IndexReg
    <3> QED
      BY <3>1, <3>2
  <2> QED
    BY <2>1, <2>2
<1>6. new[w].sequence = q
  BY <1>2, <1>4
<1> QED
  BY <1>3, <1>5, <1>6 DEF Tops

(* The registers of both are twins in longer data files.                   *)
LEMMA TwinsLonger ==
    ASSUME NEW fd1, NEW new1, Longer(fd1, new1), NEW fd2, NEW new2,
           Longer(fd2, new2), NEW s, NEW a, NEW b,
           \A i \in Slot : SlotNamed(fd1, s, a[i]),
           \A i \in Slot : SlotNamed(fd2, s, b[i]),
           NEW h \in Nat, Twins(fd1, a, fd2, b, h),
           NEW k \in Nat, h <= k
    PROVE  Twins(new1, a, new2, b, k)
<1>1. CASE a = EmptyIndex /\ b = EmptyIndex
  BY <1>1 DEF Twins
<1>2. CASE ~(a = EmptyIndex /\ b = EmptyIndex)
  <2>1. PICK t \in 1 .. h, v \in Found, au \in BOOLEAN :
          Tops(fd1, a, t, v, au) /\ Tops(fd2, b, t, v, au)
    BY <1>2 DEF Twins
  <2>2. Tops(new1, a, t, v, au) /\ Tops(new2, b, t, v, au)
    BY <2>1, TopsLonger
  <2>3. t \in 1 .. k
    OBVIOUS
  <2> QED
    BY <2>2, <2>3 DEF Twins
<1> QED
  BY <1>1, <1>2

(* A later version covers a record as well.                                *)
LEMMA CoversLonger ==
    ASSUME NEW fd1, NEW fd2, Longer(fd1, fd2), NEW s, NEW reg,
           \A i \in Slot : SlotNamed(fd1, s, reg[i]),
           NEW r, r.sequence \in Int, NEW h \in Nat, Covers(fd1, reg, r, h),
           NEW k \in Nat, h <= k
    PROVE  Covers(fd2, reg, r, k)
<1>1. PICK t \in r.sequence .. h, v \in Found, au \in BOOLEAN :
        Tops(fd1, reg, t, v, au) /\ (t = r.sequence => v = r.val /\ au = r.auto)
  BY DEF Covers
<1>2. Tops(fd2, reg, t, v, au)
  BY <1>1, TopsLonger
<1>3. t \in r.sequence .. k
  OBVIOUS
<1> QED
  BY <1>1, <1>2, <1>3 DEF Covers

(* Applying record q, which a process before has applied too, to the       *)
(* register of its serial.                                                 *)
LEMMA TwinsAgain ==
    ASSUME NEW fd1, NEW fd2, NEW a \in IndexReg, NEW b \in IndexReg,
           NEW h \in Nat, Twins(fd1, a, fd2, b, h),
           NEW r, r.sequence \in Nat, r.sequence > 0, Covers(fd2, b, r, h),
           NEW off \in Int, off > 0, fd1[off].val = r.val
    PROVE  Twins(fd1, Renewed(a, off, r.sequence, r.auto), fd2, b, h)
<1>1. PICK t \in r.sequence .. h, v \in Found, au \in BOOLEAN :
        Tops(fd2, b, t, v, au) /\ (t = r.sequence => v = r.val /\ au = r.auto)
  BY DEF Covers
<1>2. t \in Nat /\ t > 0
  OBVIOUS
<1>3. b # EmptyIndex
  BY <1>1, <1>2, TopsWritten
<1>4. PICK t2 \in 1 .. h, v2 \in Found, au2 \in BOOLEAN :
        Tops(fd1, a, t2, v2, au2) /\ Tops(fd2, b, t2, v2, au2)
  BY <1>3 DEF Twins
<1>5. t2 = t /\ v2 = v /\ au2 = au
  <2>1. t2 \in Nat
    OBVIOUS
  <2> QED
    BY <1>1, <1>2, <1>4, <2>1, TopsUnique
<1>6. PICK q, x : q \in Nat /\ q = r.sequence /\ x = r.auto
  OBVIOUS
<1>7. Tops(fd1, a, t, v, au) /\ q <= t /\ (q = t => fd1[off].val = v /\ x = au)
  BY <1>1, <1>4, <1>5, <1>6
<1>8. Tops(fd1, Renewed(a, off, q, x), t, v, au)
  BY <1>2, <1>6, <1>7, TopsKept
<1>9. t \in 1 .. h
  BY <1>2
<1> QED
  BY <1>1, <1>6, <1>8, <1>9 DEF Twins

(* Applying a record for the first time.                                   *)
LEMMA TwinsNew ==
    ASSUME NEW fd1, NEW fd2, NEW a \in IndexReg, NEW b \in IndexReg,
           NEW q \in Nat, q > 0, Twins(fd1, a, fd2, b, q - 1),
           NEW off1 \in Int, off1 > 0, NEW off2 \in Int, off2 > 0,
           NEW v \in Found, fd1[off1].val = v, fd2[off2].val = v,
           NEW auto \in BOOLEAN
    PROVE  /\ Tops(fd2, Renewed(b, off2, q, auto), q, v, auto)
           /\ Twins(fd1, Renewed(a, off1, q, auto),
                    fd2, Renewed(b, off2, q, auto), q)
<1>1. CASE a = EmptyIndex /\ b = EmptyIndex
  <2>1. /\ Tops(fd1, Renewed(a, off1, q, auto), q, v, auto)
        /\ Tops(fd2, Renewed(b, off2, q, auto), q, v, auto)
    BY <1>1, TopsNew
  <2> QED
    BY <2>1 DEF Twins
<1>2. CASE ~(a = EmptyIndex /\ b = EmptyIndex)
  <2>1. PICK t \in 1 .. q - 1, v0 \in Found, au \in BOOLEAN :
          Tops(fd1, a, t, v0, au) /\ Tops(fd2, b, t, v0, au)
    BY <1>2 DEF Twins
  <2>2. /\ Tops(fd1, Renewed(a, off1, q, auto), q, v, auto)
        /\ Tops(fd2, Renewed(b, off2, q, auto), q, v, auto)
    BY <2>1, TopsNew
  <2> QED
    BY <2>2 DEF Twins
<1> QED
  BY <1>1, <1>2

(* The record that readLog returns has the sequence it was asked for.      *)
LEMMA LoggedRecord ==
    ASSUME NEW st, StoreInv(st), Serialed(st.fdata), NEW q,
           q \in DOMAIN st.flog, st.flog[q].offset > 0
    PROVE  /\ Logged(st, q) \in DataReg
           /\ Logged(st, q).sequence = q
           /\ Logged(st, q).val \in Found
           /\ Logged(st, q).type = "WRITE" => Logged(st, q).serial \in Serials
           /\ st.flog[q].offset \in 1 .. Len(st.fdata)
<1>1. PICK off : off = st.flog[q].offset
  OBVIOUS
<1>2. off \in 1 .. Len(st.fdata) /\ st.fdata[off].sequence = q
  BY <1>1 DEF StoreInv, EntryNamed
<1>3. st.fdata[off] \in DataReg
  BY <1>2 DEF StoreInv, Stores
<1>4. st.fdata[off].val \in Found
  BY <1>3 DEF DataReg, Found
<1>5. st.fdata[off].type = "WRITE" => st.fdata[off].serial \in Serials
  BY <1>2 DEF Serialed
<1> QED
  BY <1>1, <1>2, <1>3, <1>4, <1>5 DEF Logged

(* The log of a storage that has moved on, without dying, names what it    *)
(* named.                                                                  *)
LEMMA LoggedSame ==
    ASSUME NEW st, StoreInv(st), Last(st) \in Nat, NEW new, MasterMoved(st, new),
           NEW q \in 1 .. Last(st), q \in DOMAIN st.flog, st.flog[q].offset > 0
    PROVE  /\ q \in DOMAIN new.flog /\ new.flog[q] = st.flog[q]
           /\ Logged(new, q) = Logged(st, q)
<1>1. CASE Grown(st, new)
  <2>1. q \in DOMAIN new.flog /\ new.flog[q] = st.flog[q]
    <3>1. q \in DOMAIN new.flog
      BY <1>1 DEF Grown
    <3>2. q \notin Last(st) + 1 .. Last(new)
      BY <1>1 DEF Grown
    <3> QED
      BY <1>1, <3>1, <3>2 DEF Grown
  <2>2. st.flog[q].offset \in 1 .. Len(st.fdata)
    BY DEF StoreInv, EntryNamed
  <2>3. new.fdata[st.flog[q].offset] = st.fdata[st.flog[q].offset]
    BY <1>1, <2>2 DEF Grown, Longer
  <2> QED
    BY <2>1, <2>3 DEF Logged
<1>2. CASE ~Grown(st, new)
  BY <1>2 DEF MasterMoved, Logged
<1> QED
  BY <1>1, <1>2

(* Steps of a master that does not die leave a replica where it was.       *)
LEMMA MasterCaught ==
    ASSUME NEW st, StoreInv(st), Serialed(st.fdata), NEW v, History(st, v),
           NEW new, StoreInv(new), MasterMoved(st, new),
           Last(new) \in Nat, Last(st) <= Last(new),
           Longer(st.fdata, new.fdata),
           NEW v2, \A q \in DOMAIN v : v2[q] = v[q],
           NEW rep, StoreInv(rep), NEW p, NEW h, Caught(st, v, rep, p, h)
    PROVE  Caught(new, v2, rep, p, h)
<1>1. h \in Nat /\ h <= Last(st) /\ Last(st) \in Nat /\ p \in 0 .. h
  BY DEF Caught, History
<1>2. ASSUME NEW q \in 1 .. h
      PROVE  /\ q \in DOMAIN new.flog /\ new.flog[q].offset > 0
             /\ Logged(new, q) = Logged(st, q)
             /\ Logged(st, q) \in DataReg /\ Logged(st, q).sequence = q
             /\ Logged(st, q).type = "WRITE" => Logged(st, q).serial \in Serials
  <2>1. q \in DOMAIN st.flog /\ st.flog[q].offset > 0 /\ q \in 1 .. Last(st)
    BY <1>1 DEF Caught, ReadableTo
  <2> QED
    BY <1>1, <2>1, LoggedSame, LoggedRecord
<1>3. PICK ix, c : ix = IndexAt(v, h) /\ c = CommitAt(v, h)
  OBVIOUS
<1>4. IndexAt(v2, h) = ix /\ CommitAt(v2, h) = c
  <2>1. CASE h = 0
    BY <1>3, <2>1 DEF IndexAt, CommitAt
  <2>2. CASE h # 0
    <3>1. h \in DOMAIN v
      BY <1>1, <2>2 DEF History
    <3> QED
      BY <1>3, <2>2, <3>1 DEF IndexAt, CommitAt
  <2> QED
    BY <2>1, <2>2
<1>5. IndexFor(st.fdata, ix)
  BY <1>1, <1>3 DEF History
<1>6. Longer(rep.fdata, rep.fdata)
  BY LongerReflexive DEF StoreInv, Stores
<1>7. ASSUME NEW s \in Serials
      PROVE  Twins(rep.fdata, rep.findex[s], new.fdata, ix[s], h)
  <2>1. Twins(rep.fdata, rep.findex[s], st.fdata, ix[s], h)
    BY <1>3 DEF Caught
  <2>2. /\ \A i \in Slot : SlotNamed(rep.fdata, s, rep.findex[s][i])
        /\ \A i \in Slot : SlotNamed(st.fdata, s, ix[s][i])
    BY <1>5 DEF StoreInv, IndexFor
  <2> QED
    BY <1>1, <1>6, <2>1, <2>2, TwinsLonger
<1>8. ASSUME NEW q \in 1 .. h, Logged(new, q).type = "WRITE"
      PROVE  Covers(new.fdata, ix[Logged(new, q).serial], Logged(new, q), h)
  <2>1. PICK r : r = Logged(st, q)
    OBVIOUS
  <2>2. PICK s \in Serials : s = r.serial
    BY <1>2, <1>8, <2>1
  <2>3. r.sequence \in Int
    BY <1>2, <2>1
  <2>4. Covers(st.fdata, ix[s], r, h)
    BY <1>2, <1>3, <1>8, <2>1, <2>2 DEF Caught
  <2>5. \A i \in Slot : SlotNamed(st.fdata, s, ix[s][i])
    BY <1>5 DEF IndexFor
  <2>6. Covers(new.fdata, ix[s], r, h)
    BY <1>1, <2>3, <2>4, <2>5, CoversLonger
  <2> QED
    BY <1>2, <2>1, <2>2, <2>6
<1>9. c # 0 => c \in 1 .. h /\ Logged(new, c).type = "COMMIT"
  BY <1>2, <1>3 DEF Caught
<1>10. \A q \in 1 .. p : Logged(new, q).type = "COMMIT" => q <= LastSeq(rep)
  <2>1. \A q \in 1 .. p : q \in 1 .. h
    BY <1>1
  <2> QED
    BY <1>2, <2>1 DEF Caught
<1>11. ReadableTo(new, h)
  BY <1>2 DEF ReadableTo
<1>12. h \in 0 .. Last(new)
  BY <1>1
<1> QED
  BY <1>1, <1>4, <1>7, <1>8, <1>9, <1>10, <1>11, <1>12 DEF Caught

(* Two storages take the same record q, at off in the master's file and    *)
(* behind the last of the replica's.                                       *)
LEMMA AppliedBoth ==
    ASSUME NEW st, StoreInv(st), Serialed(st.fdata), NEW v, History(st, v),
           NEW rep, StoreInv(rep), NEW q \in 1 .. Last(st),
           q \in DOMAIN st.flog, st.flog[q].offset > 0,
           NEW new, NEW ok \in BOOLEAN, ok,
           Written(rep, new, Logged(st, q), ok)
    PROVE  /\ StepTo(IndexAt(v, q - 1), CommitAt(v, q - 1), Logged(st, q),
                     st.flog[q].offset, IndexAt(v, q), CommitAt(v, q))
           /\ \E n \in Nat :
                 /\ n > 0
                 /\ Logged(st, q).type = "WRITE" => new.fdata[n] = Logged(st, q)
                 /\ StepTo(rep.findex, LastSeq(rep), Logged(st, q), n,
                           new.findex, LastSeq(new))
<1>1. StepTo(IndexAt(v, q - 1), CommitAt(v, q - 1), Logged(st, q),
             st.flog[q].offset, IndexAt(v, q), CommitAt(v, q))
  BY DEF History, Logged
<1>2. PICK r : r = Logged(st, q)
  OBVIOUS
<1>3. r.type \in {"WRITE", "COMMIT", "STATUS"}
  BY <1>1, <1>2 DEF StepTo
<1>4. PICK n \in Nat : n = Len(rep.fdata) + 1 /\ n > 0
  BY DEF StoreInv, Stores
<1>5. /\ r.type = "WRITE" => new.fdata[n] = r
      /\ StepTo(rep.findex, LastSeq(rep), r, n, new.findex, LastSeq(new))
  BY <1>2, <1>3, <1>4 DEF Written
<1> QED
  BY <1>1, <1>2, <1>4, <1>5

(* What applying record q does to the commits known to the replica.        *)
LEMMA CommitsApplied ==
    ASSUME NEW st, NEW rep, NEW new, NEW q \in Nat, q > 0,
           NEW r, r = Logged(st, q), r.sequence = q, NEW n,
           StepTo(rep.findex, LastSeq(rep), r, n, new.findex, LastSeq(new)),
           \A x \in 1 .. q - 1 :
              Logged(st, x).type = "COMMIT" => x <= LastSeq(rep)
    PROVE  \A x \in 1 .. q : Logged(st, x).type = "COMMIT" => x <= LastSeq(new)
<1>1. CASE r.type = "COMMIT"
  <2>1. LastSeq(new) = q
    BY <1>1 DEF StepTo
  <2> QED
    BY <2>1
<1>2. CASE r.type # "COMMIT"
  <2>1. LastSeq(new) = LastSeq(rep)
    BY <1>2 DEF StepTo
  <2>2. \A x \in 1 .. q : x = q \/ x \in 1 .. q - 1
    OBVIOUS
  <2> QED
    BY <1>2, <2>1, <2>2
<1> QED
  BY <1>1, <1>2

(* A record that an earlier process has applied already.                   *)
LEMMA AgainCaught ==
    ASSUME NEW st, StoreInv(st), Serialed(st.fdata), NEW v, History(st, v),
           NEW rep, StoreInv(rep), NEW p \in Nat, NEW h \in Nat,
           Caught(st, v, rep, p, h), NEW q \in Nat, q = p + 1, q <= h,
           NEW new, NEW ok \in BOOLEAN, ok,
           Written(rep, new, Logged(st, q), ok)
    PROVE  Caught(st, v, new, q, h)
<1>1. h <= Last(st) /\ Last(st) \in Nat /\ q \in 1 .. h /\ q \in 1 .. Last(st)
  BY DEF Caught, History
<1>2. q \in DOMAIN st.flog /\ st.flog[q].offset > 0
  BY <1>1 DEF Caught, ReadableTo
<1>3. PICK r : r = Logged(st, q)
  OBVIOUS
<1>4. /\ r \in DataReg /\ r.sequence = q /\ r.val \in Found
      /\ r.type = "WRITE" => r.serial \in Serials
  BY <1>2, <1>3, LoggedRecord
<1>5. PICK n \in Nat :
        /\ n > 0 /\ (r.type = "WRITE" => new.fdata[n] = r)
        /\ StepTo(rep.findex, LastSeq(rep), r, n, new.findex, LastSeq(new))
  BY <1>1, <1>2, <1>3, AppliedBoth
<1>6. PICK ix : ix = IndexAt(v, h)
  OBVIOUS
<1>7. IndexFor(st.fdata, ix) /\ ix \in [Serials -> IndexReg]
  BY <1>1, <1>6 DEF History, IndexFor
<1>8. Longer(rep.fdata, new.fdata) /\ Longer(st.fdata, st.fdata)
  <2>1. Longer(rep.fdata, new.fdata)
    BY DEF Written
  <2> QED
    BY <2>1, LongerReflexive DEF StoreInv, Stores
<1>9. ASSUME NEW s \in Serials
      PROVE  Twins(new.fdata, new.findex[s], st.fdata, ix[s], h)
  <2>1. Twins(rep.fdata, rep.findex[s], st.fdata, ix[s], h)
    BY <1>6 DEF Caught
  <2>2. /\ \A i \in Slot : SlotNamed(rep.fdata, s, rep.findex[s][i])
        /\ \A i \in Slot : SlotNamed(st.fdata, s, ix[s][i])
        /\ rep.findex \in [Serials -> IndexReg]
    BY <1>7 DEF StoreInv, IndexFor, Stores
  <2>3. Twins(new.fdata, rep.findex[s], st.fdata, ix[s], h)
    BY <1>8, <2>1, <2>2, TwinsLonger
  <2>4. CASE r.type = "WRITE"
    <3>1. new.findex = Rewritten(rep.findex, n, r)
      BY <1>5, <2>4 DEF StepTo
    <3>2. new.findex[s] = IF s = r.serial THEN Renewed(rep.findex[s], n, r.sequence, r.auto)
                                          ELSE rep.findex[s]
      BY <1>4, <2>2, <2>4, <3>1, RewrittenAt
    <3>3. CASE s = r.serial
      <4>1. Covers(st.fdata, ix[s], r, h)
        BY <1>1, <1>3, <1>6, <2>4, <3>3 DEF Caught
      <4>2. new.fdata[n].val = r.val
        BY <1>5, <2>4
      <4>3. r.sequence \in Nat /\ r.sequence > 0
        BY <1>1, <1>4
      <4>4. PICK a \in IndexReg, b \in IndexReg : a = rep.findex[s] /\ b = ix[s]
        BY <1>7, <2>2
      <4>5. Twins(new.fdata, Renewed(a, n, r.sequence, r.auto), st.fdata, b, h)
        BY <1>5, <2>3, <4>1, <4>2, <4>3, <4>4, TwinsAgain
      <4> QED
        BY <3>2, <3>3, <4>4, <4>5
    <3>4. CASE s # r.serial
      BY <2>3, <3>2, <3>4
    <3> QED
      BY <3>3, <3>4
  <2>5. CASE r.type # "WRITE"
    <3>1. new.findex = rep.findex
      BY <1>5, <2>5 DEF StepTo
    <3> QED
      BY <2>3, <3>1
  <2> QED
    BY <2>4, <2>5
<1>10. \A x \in 1 .. q : Logged(st, x).type = "COMMIT" => x <= LastSeq(new)
  <2>1. \A x \in 1 .. q - 1 :
           Logged(st, x).type = "COMMIT" => x <= LastSeq(rep)
    BY DEF Caught
  <2>2. q > 0
    BY <1>1
  <2> QED
    BY <1>3, <1>4, <1>5, <2>1, <2>2, CommitsApplied
<1>11. q \in 0 .. h
  BY <1>1
<1> QED
  BY <1>6, <1>9, <1>10, <1>11 DEF Caught

(* The record behind the furthest one: both storages go on alike.          *)
LEMMA FurtherCaught ==
    ASSUME NEW st, StoreInv(st), Serialed(st.fdata), NEW v, History(st, v),
           NEW rep, StoreInv(rep), NEW h \in Nat, Caught(st, v, rep, h, h),
           NEW q \in Nat, q = h + 1, q <= Last(st),
           q \in DOMAIN st.flog, st.flog[q].offset > 0,
           NEW new, NEW ok \in BOOLEAN, ok,
           Written(rep, new, Logged(st, q), ok)
    PROVE  Caught(st, v, new, q, q)
<1>1. Last(st) \in Nat /\ q \in 1 .. Last(st) /\ h \in 0 .. Last(st) /\ q - 1 = h
  BY DEF Caught, History
<1>2. PICK r, off : r = Logged(st, q) /\ off = st.flog[q].offset
  OBVIOUS
<1>3. /\ r \in DataReg /\ r.sequence = q /\ r.val \in Found
      /\ r.type = "WRITE" => r.serial \in Serials
      /\ off \in Int /\ off > 0 /\ st.fdata[off] = r
  <2>1. st.flog[q].offset \in 1 .. Len(st.fdata)
    BY LoggedRecord
  <2>2. /\ Logged(st, q) \in DataReg /\ Logged(st, q).sequence = q
        /\ Logged(st, q).val \in Found
        /\ Logged(st, q).type = "WRITE" => Logged(st, q).serial \in Serials
    BY LoggedRecord
  <2>3. off \in Int /\ off > 0
    BY <1>2, <2>1
  <2>4. st.fdata[off] = r
    BY <1>2, Zenon DEF Logged
  <2> QED
    BY <1>2, <2>2, <2>3, <2>4, Zenon
<1>4. PICK ix, c : ix = IndexAt(v, h) /\ c = CommitAt(v, h)
  OBVIOUS
<1>5. PICK ix2, c2 : ix2 = IndexAt(v, q) /\ c2 = CommitAt(v, q)
  OBVIOUS
<1>6. StepTo(ix, c, r, off, ix2, c2)
  BY <1>1, <1>2, <1>4, <1>5, AppliedBoth
<1>7. PICK n \in Nat :
        /\ n > 0 /\ (r.type = "WRITE" => new.fdata[n] = r)
        /\ StepTo(rep.findex, LastSeq(rep), r, n, new.findex, LastSeq(new))
  BY <1>1, <1>2, AppliedBoth
<1>8. IndexFor(st.fdata, ix) /\ ix \in [Serials -> IndexReg]
  BY <1>1, <1>4 DEF History, IndexFor
<1>9. Longer(rep.fdata, new.fdata) /\ Longer(st.fdata, st.fdata)
  <2>1. Longer(rep.fdata, new.fdata)
    BY DEF Written
  <2> QED
    BY <2>1, LongerReflexive DEF StoreInv, Stores
<1>10. ASSUME NEW s \in Serials
       PROVE  /\ Twins(new.fdata, rep.findex[s], st.fdata, ix[s], h)
              /\ Twins(new.fdata, rep.findex[s], st.fdata, ix[s], q)
              /\ rep.findex[s] \in IndexReg /\ ix[s] \in IndexReg
              /\ \A i \in Slot : SlotNamed(st.fdata, s, ix[s][i])
  <2>1. Twins(rep.fdata, rep.findex[s], st.fdata, ix[s], h)
    BY <1>4 DEF Caught
  <2>2. /\ \A i \in Slot : SlotNamed(rep.fdata, s, rep.findex[s][i])
        /\ \A i \in Slot : SlotNamed(st.fdata, s, ix[s][i])
        /\ rep.findex[s] \in IndexReg
    BY <1>8 DEF StoreInv, IndexFor, Stores
  <2>3. h <= q /\ h <= h
    OBVIOUS
  <2> QED
    BY <1>8, <1>9, <2>1, <2>2, <2>3, TwinsLonger
<1>11. ASSUME NEW x \in 1 .. h
       PROVE  /\ Logged(st, x) \in DataReg /\ Logged(st, x).sequence = x
              /\ Logged(st, x).type = "WRITE" => Logged(st, x).serial \in Serials
  <2>1. x \in DOMAIN st.flog /\ st.flog[x].offset > 0
    BY DEF Caught, ReadableTo
  <2> QED
    BY <2>1, LoggedRecord
<1>12. \A x \in 1 .. q : Logged(st, x).type = "COMMIT" => x <= LastSeq(new)
  <2>1. \A x \in 1 .. q - 1 :
           Logged(st, x).type = "COMMIT" => x <= LastSeq(rep)
    BY <1>1 DEF Caught
  <2>2. q > 0
    BY <1>1
  <2> QED
    BY <1>2, <1>3, <1>7, <2>1, <2>2, CommitsApplied
<1>13. ReadableTo(st, q)
  <2>1. \A x \in 1 .. q : x = q \/ x \in 1 .. h
    BY <1>1
  <2> QED
    BY <2>1 DEF Caught, ReadableTo
<1>14. q \in 0 .. Last(st) /\ q \in 0 .. q
  BY <1>1
<1>15. c2 # 0 => c2 \in 1 .. q /\ Logged(st, c2).type = "COMMIT"
  <2>1. CASE r.type = "COMMIT"
    <3>1. c2 = q
      BY <1>3, <1>6, <2>1 DEF StepTo
    <3> QED
      BY <1>1, <1>2, <2>1, <3>1
  <2>2. CASE r.type # "COMMIT"
    <3>1. c2 = c
      BY <1>6, <2>2 DEF StepTo
    <3>2. c # 0 => c \in 1 .. h /\ Logged(st, c).type = "COMMIT"
      BY <1>4 DEF Caught
    <3> QED
      BY <3>1, <3>2
  <2> QED
    BY <2>1, <2>2
<1>16. CASE r.type = "WRITE"
  <2>1. /\ new.findex = Rewritten(rep.findex, n, r)
        /\ ix2 = Rewritten(ix, off, r) /\ c2 = c
    BY <1>6, <1>7, <1>16 DEF StepTo
  <2>2. PICK z \in Serials, auto \in BOOLEAN : z = r.serial /\ auto = r.auto
    BY <1>3, <1>16 DEF DataReg
  <2>3. ASSUME NEW s \in Serials
        PROVE  /\ new.findex[s] = IF s = z THEN Renewed(rep.findex[s], n, q, auto)
                                           ELSE rep.findex[s]
               /\ ix2[s] = IF s = z THEN Renewed(ix[s], off, q, auto) ELSE ix[s]
    <3>1. rep.findex \in [Serials -> IndexReg]
      BY DEF StoreInv, Stores
    <3> QED
      BY <1>3, <1>8, <2>1, <2>2, <3>1, RewrittenAt
  <2>4. /\ Tops(st.fdata, ix2[z], q, r.val, auto)
        /\ Twins(new.fdata, new.findex[z], st.fdata, ix2[z], q)
    <3>1. PICK a \in IndexReg, b \in IndexReg : a = rep.findex[z] /\ b = ix[z]
      BY <1>10
    <3>2. Twins(new.fdata, a, st.fdata, b, q - 1)
      BY <1>1, <1>10, <3>1
    <3>3. PICK val \in Found : val = r.val
      BY <1>3
    <3>4. new.fdata[n].val = val /\ st.fdata[off].val = val
      BY <1>3, <1>7, <1>16, <3>3
    <3>5. n \in Int /\ n > 0 /\ off \in Int /\ off > 0 /\ q > 0
      BY <1>1, <1>3, <1>7
    <3>6. /\ Tops(st.fdata, Renewed(b, off, q, auto), q, val, auto)
          /\ Twins(new.fdata, Renewed(a, n, q, auto),
                   st.fdata, Renewed(b, off, q, auto), q)
      BY <3>2, <3>4, <3>5, TwinsNew, SMTT(30)
    <3> QED
      BY <2>3, <3>1, <3>3, <3>6
  <2>5. ASSUME NEW s \in Serials
        PROVE  Twins(new.fdata, new.findex[s], st.fdata, ix2[s], q)
    BY <1>10, <2>3, <2>4
  <2>6. ASSUME NEW x \in 1 .. q, Logged(st, x).type = "WRITE"
        PROVE  Covers(st.fdata, ix2[Logged(st, x).serial], Logged(st, x), q)
    <3>1. PICK y : y = Logged(st, x)
      OBVIOUS
    <3>2. CASE y.serial = z
      <4>1. y.sequence = x /\ x \in Nat
        BY <1>1, <1>2, <1>3, <1>11, <3>1
      <4>2. q \in y.sequence .. q /\ r.val \in Found
        BY <1>3, <4>1
      <4>3. q = y.sequence => r.val = y.val /\ auto = y.auto
        BY <1>2, <2>2, <3>1, <4>1
      <4> QED
        BY <2>4, <3>1, <3>2, <4>2, <4>3 DEF Covers
    <3>3. CASE y.serial # z
      <4>1. x # q /\ x \in 1 .. h
        BY <1>1, <1>2, <2>2, <3>1, <3>3
      <4>2. PICK s \in Serials : s = y.serial
        BY <1>11, <2>6, <3>1, <4>1
      <4>3. Covers(st.fdata, ix[s], y, h)
        BY <1>4, <2>6, <3>1, <4>1, <4>2 DEF Caught
      <4>4. y.sequence \in Int /\ h <= q
        BY <1>11, <3>1, <4>1
      <4>5. Covers(st.fdata, ix[s], y, q)
        BY <1>9, <1>10, <4>3, <4>4, CoversLonger
      <4>6. ix2[s] = ix[s]
        BY <2>3, <3>3, <4>2
      <4> QED
        BY <3>1, <4>2, <4>5, <4>6
    <3> QED
      BY <3>2, <3>3
  <2> QED
    BY <1>5, <1>12, <1>13, <1>14, <1>15, <2>5, <2>6 DEF Caught
<1>17. CASE r.type # "WRITE"
  <2>1. new.findex = rep.findex /\ ix2 = ix
    BY <1>6, <1>7, <1>17 DEF StepTo
  <2>2. ASSUME NEW s \in Serials
        PROVE  Twins(new.fdata, new.findex[s], st.fdata, ix2[s], q)
    BY <1>10, <2>1
  <2>3. ASSUME NEW x \in 1 .. q, Logged(st, x).type = "WRITE"
        PROVE  Covers(st.fdata, ix2[Logged(st, x).serial], Logged(st, x), q)
    <3>1. x \in 1 .. h
      BY <1>1, <1>2, <1>17, <2>3
    <3>2. PICK y : y = Logged(st, x)
      OBVIOUS
    <3>3. PICK s \in Serials : s = y.serial
      BY <1>11, <2>3, <3>1, <3>2
    <3>4. Covers(st.fdata, ix[s], y, h)
      BY <1>4, <2>3, <3>1, <3>2, <3>3 DEF Caught
    <3>5. y.sequence \in Int /\ h <= q
      BY <1>11, <3>1, <3>2
    <3>6. Covers(st.fdata, ix[s], y, q)
      BY <1>9, <1>10, <3>4, <3>5, CoversLonger
    <3> QED
      BY <2>1, <3>2, <3>3, <3>6
  <2> QED
    BY <1>5, <1>12, <1>13, <1>14, <1>15, <2>2, <2>3 DEF Caught
<1> QED
  BY <1>16, <1>17

(***************************************************************************)
(* The master between transactions.                                        *)
(***************************************************************************)

(* As long as the log of st can be read, that is, as no append has failed  *)
(* and no transaction was rolled back, every version in the index may be   *)
(* read by committed readers, but for those of dirty serials.              *)
Owed(st) ==
    ReadableTo(st, Last(st)) =>
        \A s \in Serials, i \in Slot :
           /\ st.findex[s][i].sequence <= Last(st)
           /\ st.findex[s][i].offset > 0 =>
                 \/ st.findex[s][i].auto
                 \/ st.findex[s][i].sequence <= LastSeq(st)
                 \/ Listed(st.dirty, s)

(* The log could be read before the records that it can be read with.      *)
LEMMA ReadableBefore ==
    ASSUME NEW st, Tidy(st), NEW new, MasterMoved(st, new),
           ReadableTo(new, Last(new))
    PROVE  ReadableTo(st, Last(st))
<1>1. Last(st) \in Nat
  BY DEF Tidy
<1>2. CASE Grown(st, new)
  <2>1. Last(new) \in Nat /\ Last(st) < Last(new)
    BY <1>2 DEF Grown
  <2>2. ASSUME NEW q \in 1 .. Last(st)
        PROVE  q \in DOMAIN st.flog /\ st.flog[q].offset > 0
    <3>1. q \in 1 .. Last(new) /\ q \notin Last(st) + 1 .. Last(new)
      BY <1>1, <2>1
    <3>2. q \in DOMAIN new.flog /\ new.flog[q].offset > 0
      BY <3>1 DEF ReadableTo
    <3> QED
      BY <1>2, <3>1, <3>2 DEF Grown
  <2> QED
    BY <2>2 DEF ReadableTo
<1>3. CASE ~Grown(st, new)
  BY <1>3 DEF MasterMoved, ReadableTo
<1> QED
  BY <1>2, <1>3

(* A log that can be read to its end has no gap.                           *)
LEMMA GapUnreadable ==
    ASSUME NEW st, Tidy(st), NEW new, Last(new) \in Nat, Gap(st, new)
    PROVE  ~ReadableTo(new, Last(new))
<1>1. PICK q \in Nat : q = Last(st) + 1 /\ q \in 1 .. Last(new)
  BY DEF Tidy, Gap
<1> QED
  BY <1>1 DEF Gap, ReadableTo

(* What the slots of a register that is written are.                       *)
LEMMA RenewedEither ==
    ASSUME NEW reg \in IndexReg, NEW off, NEW seq, NEW auto, NEW i \in Slot
    PROVE  \/ /\ Renewed(reg, off, seq, auto)[i].sequence = seq
              /\ Renewed(reg, off, seq, auto)[i].auto = auto
           \/ /\ Renewed(reg, off, seq, auto)[i].offset = -1
              /\ Renewed(reg, off, seq, auto)[i].sequence = 0
           \/ Renewed(reg, off, seq, auto)[i] = reg[i]
<1>1. PICK x : x = [offset |-> off, sequence |-> seq, auto |-> auto]
  OBVIOUS
<1>2. x.sequence = seq /\ x.auto = auto
  BY <1>1
<1>3. PICK none : none = [offset |-> -1, sequence |-> 0, auto |-> FALSE]
  OBVIOUS
<1>4. none.offset = -1 /\ none.sequence = 0
  BY <1>3
<1>5. PICK new : new = Renewed(reg, off, seq, auto)
  OBVIOUS
<1>6. CASE reg = EmptyIndex
  <2>1. new[i] = IF i = 0 THEN x ELSE none
    BY <1>1, <1>3, <1>5, <1>6 DEF Renewed, SetOldestOffset
  <2> QED
    BY <1>2, <1>4, <1>5, <2>1
<1>7. CASE reg # EmptyIndex
  <2>1. new[i] = IF i = 1 - NewestSlot(reg) THEN x ELSE reg[i]
    BY <1>1, <1>5, <1>7, RenewedSlots
  <2> QED
    BY <1>2, <1>5, <2>1
<1> QED
  BY <1>6, <1>7

(* A WRITE that was appended puts its serial on the list, but for          *)
(* auto-commit mode.                                                       *)
LEMMA WriteLists ==
    ASSUME NEW st, StoreInv(st), NEW r \in DataReg, r.type = "WRITE",
           r.serial \in Serials, NEW ok \in BOOLEAN, ok
    PROVE  /\ st.auto => WriteFiles(st, r, ok).dirty = st.dirty
           /\ ~st.auto => WriteFiles(st, r, ok).dirty = Append(st.dirty, r.serial)
<1>1. PICK a : a = ApplyWrite(CountRecord(st, r.sequence), r, TRUE)
  OBVIOUS
<1>2. AfterWrite(st, a, r)
  BY <1>1, WriteEffect
<1>3. StoreInv(a)
  <2>1. r.sequence \in Int
    BY DEF DataReg
  <2>2. StoreInv(CountRecord(st, r.sequence))
    BY <2>1, CountRecordInv
  <2>3. \A x \in BOOLEAN : StoreInv(ApplyWrite(CountRecord(st, r.sequence), r, x))
    BY <2>2, ApplyWriteInv
  <2> QED
    BY <1>1, <2>3
<1>4. WriteFiles(st, r, ok) = StatusSnapshot(a, ok)
  BY <1>1 DEF WriteFiles
<1>5. StatusSnapshot(a, ok).dirty = a.dirty
  BY <1>3, StatusSnapshotObject DEF MaybeSaved
<1> QED
  BY <1>2, <1>4, <1>5 DEF AfterWrite

(* The record at the end of a log that can be read was appended.           *)
LEMMA ReadableAppended ==
    ASSUME NEW st, Tidy(st), NEW r, r.sequence = Last(st) + 1,
           NEW ok \in BOOLEAN, NEW w, Written(st, w, r, ok),
           ReadableTo(w, Last(w))
    PROVE  ok /\ Last(w) \in Nat /\ Last(st) + 1 <= Last(w)
<1>1. PICK q \in Nat : q = Last(st) + 1 /\ q = r.sequence /\ q > 0
  BY DEF Tidy
<1>2. Last(w) \in Nat /\ q <= Last(w)
  BY <1>1 DEF Written
<1>3. q \in DOMAIN w.flog /\ w.flog[q].offset > 0
  BY <1>1, <1>2 DEF ReadableTo
<1>4. q \notin DOMAIN st.flog
  BY <1>1 DEF Tidy, LogWithin
<1> QED
  BY <1>1, <1>2, <1>3, <1>4 DEF Written

(* A WRITE is owed to the committed readers once its serial is on the      *)
(* list.                                                                   *)
LEMMA WriteOwed ==
    ASSUME Inv, Serialed(fdata), Tidy(Store), Owed(Store), NEW s \in Serials,
           NEW v \in Values, NEW ok \in BOOLEAN, Write(s, v, ok),
           NEW new, new = Store'
    PROVE  Owed(new)
<1> SUFFICES ASSUME ReadableTo(new, Last(new)), NEW t \in Serials, NEW i \in Slot
             PROVE  /\ new.findex[t][i].sequence <= Last(new)
                    /\ new.findex[t][i].offset > 0 =>
                          \/ new.findex[t][i].auto
                          \/ new.findex[t][i].sequence <= LastSeq(new)
                          \/ Listed(new.dirty, t)
  BY DEF Owed
<1>1. PICK r, w :
        /\ r \in DataReg /\ r.type = "WRITE" /\ r.serial = s
        /\ r.sequence = Last(Store) + 1 /\ r.auto = fauto_commit
        /\ w = WriteFiles(Store, r, ok)
        /\ Written(Store, w, r, ok)
        /\ SameStore(w, new) /\ new.dirty = w.dirty
  BY WriteRecord
<1>2. StoreInv(Store) /\ Store.auto = fauto_commit /\ fauto_commit \in BOOLEAN
  BY DEF Inv, Store
<1>3. Last(new) = Last(w) /\ LastSeq(new) = LastSeq(w) /\ new.findex = w.findex
  BY <1>1 DEF SameStore, Last, LastSeq
<1>4. ReadableTo(w, Last(w))
  BY <1>1, <1>3 DEF SameStore, ReadableTo
<1>5. ok /\ Last(w) \in Nat /\ Last(Store) + 1 <= Last(w)
  BY <1>1, <1>4, ReadableAppended
<1>6. PICK n : n = Len(Store.fdata) + 1
  OBVIOUS
<1>7. StepTo(Store.findex, LastSeq(Store), r, n, w.findex, LastSeq(w))
  BY <1>1, <1>5, <1>6 DEF Written
<1>8. /\ w.findex = Rewritten(Store.findex, n, r)
      /\ LastSeq(w) = LastSeq(Store)
  BY <1>1, <1>7 DEF StepTo
<1>9. n \in Int /\ Store.findex \in [Serials -> IndexReg] /\ Store.dirty \in Seq(Serials)
  BY <1>2, <1>6 DEF StoreInv, Stores
<1>10. w.findex[t] = IF t = r.serial
                     THEN Renewed(Store.findex[t], n, r.sequence, r.auto)
                     ELSE Store.findex[t]
  BY <1>1, <1>8, <1>9, RewrittenAt
<1>11. /\ Store.auto => w.dirty = Store.dirty
       /\ ~Store.auto => w.dirty = Append(Store.dirty, s)
  BY <1>1, <1>2, <1>5, WriteLists
<1>12. /\ Listed(Store.dirty, t) => Listed(w.dirty, t)
       /\ ~Store.auto => Listed(w.dirty, s)
  <2>1. CASE Store.auto
    BY <1>11, <2>1
  <2>2. CASE ~Store.auto
    <3>1. w.dirty = Append(Store.dirty, s)
      BY <1>11, <2>2
    <3> QED
      BY <1>9, <3>1, ListedAppend
  <2> QED
    BY <2>1, <2>2
<1>13. ReadableTo(Store, Last(Store))
  BY <1>1, WriteMoves, ReadableBefore
<1>14. /\ Store.findex[t][i].sequence <= Last(Store)
       /\ Store.findex[t][i].offset > 0 =>
             \/ Store.findex[t][i].auto
             \/ Store.findex[t][i].sequence <= LastSeq(Store)
             \/ Listed(Store.dirty, t)
  BY <1>13 DEF Owed
<1>15. Last(Store) \in Nat /\ Store.findex[t][i].sequence \in Int
  BY <1>9 DEF Tidy, IndexReg
<1>16. CASE w.findex[t][i] = Store.findex[t][i]
  <2>1. PICK slot : slot = Store.findex[t][i]
    OBVIOUS
  <2>2. PICK n1 \in Nat, n2 \in Nat : n1 = Last(Store) /\ n2 = Last(w)
    BY <1>5, <1>15
  <2>3. slot.sequence <= n2
    BY <1>5, <1>14, <1>15, <2>1, <2>2
  <2>4. slot.offset > 0 =>
           \/ slot.auto
           \/ slot.sequence <= LastSeq(w)
           \/ Listed(w.dirty, t)
    BY <1>8, <1>12, <1>14, <2>1
  <2>5. new.findex[t][i] = slot /\ Last(new) = n2
    BY <1>3, <1>16, <2>1, <2>2
  <2> QED
    BY <1>1, <1>3, <2>3, <2>4, <2>5
<1>17. CASE w.findex[t][i] # Store.findex[t][i]
  <2>1. t = s
    BY <1>1, <1>10, <1>17
  <2>2. PICK reg, slot :
          /\ reg \in IndexReg /\ reg = Store.findex[t]
          /\ slot = Renewed(reg, n, r.sequence, r.auto)[i]
    BY <1>9
  <2>3. w.findex[t][i] = slot /\ slot # reg[i]
    BY <1>1, <1>10, <1>17, <2>1, <2>2
  <2>4. \/ slot.sequence = r.sequence /\ slot.auto = r.auto
        \/ slot.offset = -1 /\ slot.sequence = 0
    BY <2>2, <2>3, RenewedEither
  <2>5. slot.sequence <= Last(w)
    <3>1. PICK n1 \in Nat, n2 \in Nat : n1 = Last(Store) /\ n2 = Last(w)
      BY <1>5, <1>15
    <3>2. r.sequence = n1 + 1 /\ n1 + 1 <= n2
      BY <1>1, <1>5, <3>1
    <3>3. CASE slot.sequence = r.sequence
      BY <3>1, <3>2, <3>3
    <3>4. CASE slot.sequence = 0
      BY <3>1, <3>4
    <3> QED
      BY <2>4, <3>3, <3>4
  <2>6. slot.offset > 0 => slot.auto \/ Listed(w.dirty, t)
    BY <1>1, <1>2, <1>12, <2>1, <2>4
  <2> QED
    BY <1>1, <1>3, <2>3, <2>5, <2>6
<1> QED
  BY <1>16, <1>17

(* A COMMIT has a sequence above those of all versions.                    *)
LEMMA CommitOwed ==
    ASSUME Inv, Serialed(fdata), Tidy(Store), Owed(Store), NEW ok \in BOOLEAN,
           Commit(ok), NEW new, new = Store'
    PROVE  Owed(new)
<1> SUFFICES ASSUME ReadableTo(new, Last(new)), NEW t \in Serials, NEW i \in Slot
             PROVE  /\ new.findex[t][i].sequence <= Last(new)
                    /\ new.findex[t][i].sequence <= LastSeq(new)
  BY DEF Owed
<1>1. PICK r, w :
        /\ r \in DataReg /\ r.type = "COMMIT" /\ r.sequence = Last(Store) + 1
        /\ Written(Store, w, r, ok)
        /\ SameStore(w, new)
  BY CommitRecord
<1>2. Last(new) = Last(w) /\ LastSeq(new) = LastSeq(w) /\ new.findex = w.findex
  BY <1>1 DEF SameStore, Last, LastSeq
<1>3. ReadableTo(w, Last(w))
  BY <1>1, <1>2 DEF SameStore, ReadableTo
<1>4. ok /\ Last(w) \in Nat /\ Last(Store) + 1 <= Last(w)
  BY <1>1, <1>3, ReadableAppended
<1>5. StepTo(Store.findex, LastSeq(Store), r, Len(Store.fdata) + 1,
             w.findex, LastSeq(w))
  BY <1>1, <1>4 DEF Written
<1>6. w.findex = Store.findex /\ LastSeq(w) = Last(Store) + 1
  BY <1>1, <1>5 DEF StepTo
<1>7. ReadableTo(Store, Last(Store))
  BY <1>1, CommitMoves, ReadableBefore
<1>8. Store.findex[t][i].sequence <= Last(Store)
  BY <1>7 DEF Owed
<1>9. Last(Store) \in Nat /\ Store.findex[t][i].sequence \in Int
  BY DEF Tidy, Inv, StoreInv, Stores, IndexReg
<1> QED
  BY <1>2, <1>4, <1>6, <1>8, <1>9

(* The calls without records: what the list says is known elsewhere.       *)
LEMMA SameOwed ==
    ASSUME NEW st, Owed(st), NEW new, new.findex = st.findex,
           new.flog = st.flog, Last(new) = Last(st), LastSeq(new) = LastSeq(st),
           new.dirty = st.dirty
    PROVE  Owed(new)
  BY DEF Owed, ReadableTo

(* Every step of a master that neither dies nor closes inside a            *)
(* transaction.                                                            *)
LEMMA NextOwed ==
    ASSUME "crash" \notin Allowed, "dirtyClose" \notin Allowed,
           Inv, Serialed(fdata), Saved, Tidy(Store), Owed(Store), [Next]_vars,
           NEW new, new = Store', StoreInv(new), Last(new) \in Nat
    PROVE  Owed(new)
<1>1. ASSUME findex' = findex, flog' = flog, state' = state,
             dirtySerials' = dirtySerials
      PROVE  Owed(new)
  <2>1. /\ new.findex = Store.findex /\ new.flog = Store.flog
        /\ Last(new) = Last(Store) /\ LastSeq(new) = LastSeq(Store)
        /\ new.dirty = Store.dirty
    BY <1>1 DEF Store, Last, LastSeq
  <2> QED
    BY <2>1, SameOwed
<1>2. CASE \E s \in Serials, v \in Values, ok \in AppendOutcomes : Write(s, v, ok)
  BY <1>2, AppendOutcomesType, WriteOwed
<1>3. CASE \E ok \in AppendOutcomes : Commit(ok)
  BY <1>3, AppendOutcomesType, CommitOwed
<1>4. CASE \E ok1, ok2 \in AppendOutcomes : Rollback(ok1, ok2)
  <2>1. PICK ok1 \in BOOLEAN, ok2 \in BOOLEAN : Rollback(ok1, ok2)
    BY <1>4, AppendOutcomesType
  <2>2. Gap(Store, new)
    BY <2>1, RollbackMoves
  <2>3. ~ReadableTo(new, Last(new))
    BY <2>2, GapUnreadable
  <2> QED
    BY <2>3 DEF Owed
<1>5. CASE Close
  <2>1. PICK sv : sv = SaveState(Store)
    OBVIOUS
  <2>2. Store \in Stores
    BY DEF Inv, StoreInv
  <2>3. SameBut(Store, sv, {"fstate"}) /\ sv \in Stores
    <3>1. StoreInv(sv)
      BY <2>1, SaveStateInv DEF Inv
    <3> QED
      BY <2>1, <2>2, <3>1, SaveStateEffect DEF StoreInv
  <2>4. SameBut(sv, ClearDirtySerials(sv), {"dirty"})
        /\ ClearDirtySerials(sv).dirty = << >>
    BY <2>3, ClearEffect
  <2>5. /\ findex' = findex /\ flog' = flog /\ state' = state
        /\ dirtySerials' = << >>
    BY <1>5, <2>1, <2>3, <2>4 DEF Close, Becomes, SameBut, Store
  <2>6. dirtySerials = << >>
    BY <1>5 DEF Close
  <2> QED
    BY <1>1, <2>5, <2>6
<1>6. CASE \E auto \in BOOLEAN : Open(auto)
  <2>1. /\ ~opened /\ state' = fstate /\ dirtySerials' = dirtySerials
        /\ findex' = findex /\ flog' = flog
    BY <1>6 DEF Open
  <2> QED
    BY <1>1, <2>1 DEF Saved
<1>7. CASE Crash
  BY <1>7 DEF Crash
<1>8. CASE UNCHANGED vars
  BY <1>1, <1>8 DEF vars
<1> QED
  BY <1>2, <1>3, <1>4, <1>5, <1>6, <1>7, <1>8 DEF Next

(***************************************************************************)
(* Catching up.                                                            *)
(***************************************************************************)

(* What a committed reader of either storage finds is told by its index.   *)
LEMMA ViewsRead ==
    ASSUME Saved
    PROVE  /\ ReplicaView = ReadThrough(replica.fdata, replica.findex, LastSeq(replica))
           /\ View = ReadThrough(Store.fdata, Store.findex, LastSeq(Store))
<1>1. ReplicaView = ReadThrough(replica.fdata, replica.findex, LastSeq(replica))
  BY Zenon DEF ReplicaView, ReplicaReads, ReadThrough, ValueIn, FoundOffset, LastSeq
<1>2. /\ Store.fdata = fdata /\ Store.findex = findex
      /\ LastSeq(Store) = state.last_commit_sequence
  BY DEF Store, LastSeq
<1>3. LastCommit = LastSeq(Store)
  BY <1>2 DEF LastCommit, Saved
<1>4. ASSUME NEW s \in Serials
      PROVE  Committed(s) = ValueIn(Store.fdata, FoundOffset(Store.findex[s], LastSeq(Store)))
  BY <1>2, <1>3, Zenon DEF Committed, Reads, ValueAt, ValueIn, FoundOffset
<1> QED
  BY <1>1, <1>4, Zenon DEF View, ReadThrough

(* Twins read the same, if the newest version may be read in both.         *)
LEMMA TwinsRead ==
    ASSUME NEW fd1, NEW a \in IndexReg, NEW fd2, NEW b \in IndexReg,
           NEW h \in Nat, Twins(fd1, a, fd2, b, h),
           NEW lcs1 \in Int, NEW lcs2 \in Int,
           \A i \in Slot : b[i].offset > 0 => b[i].auto \/ b[i].sequence <= lcs2,
           \A q \in 1 .. h : q <= lcs2 => q <= lcs1
    PROVE  ValueIn(fd1, FoundOffset(a, lcs1)) = ValueIn(fd2, FoundOffset(b, lcs2))
<1>1. CASE a = EmptyIndex /\ b = EmptyIndex
  <2>1. PICK none : none = [offset |-> 0, sequence |-> 0, auto |-> FALSE]
    OBVIOUS
  <2>2. none.offset = 0
    BY <2>1
  <2>3. /\ a[0] = none /\ a[1] = none /\ b[0] = none /\ b[1] = none
    BY <1>1, <2>1 DEF EmptyIndex, Slot
  <2>4. FoundOffset(a, lcs1) \in {0, -1} /\ FoundOffset(b, lcs2) \in {0, -1}
    BY <2>2, <2>3, Zenon DEF FoundOffset, GetLastOffset
  <2>5. /\ ValueIn(fd1, FoundOffset(a, lcs1)) = NoValue
        /\ ValueIn(fd2, FoundOffset(b, lcs2)) = NoValue
    BY <2>4 DEF ValueIn
  <2> QED
    BY <2>5
<1>2. CASE ~(a = EmptyIndex /\ b = EmptyIndex)
  <2>1. PICK t \in 1 .. h, v \in Found, au \in BOOLEAN :
          Tops(fd1, a, t, v, au) /\ Tops(fd2, b, t, v, au)
    BY <1>2 DEF Twins
  <2>2. t \in Nat /\ t > 0
    OBVIOUS
  <2>3. au \/ t <= lcs2
    BY <2>1 DEF Tops
  <2>4. au \/ t <= lcs1
    BY <2>3
  <2>5. ValueIn(fd1, FoundOffset(a, lcs1)) = v
    BY <2>1, <2>2, <2>4, TopsRead
  <2>6. ValueIn(fd2, FoundOffset(b, lcs2)) = v
    BY <2>1, <2>2, <2>3, TopsRead
  <2> QED
    BY <2>5, <2>6
<1> QED
  BY <1>1, <1>2

(* The strengthening for processes that start over.                        *)
Converging ==
    /\ Owed(Store)
    /\ \E h \in Nat : rnext - 1 \in Nat /\ Caught(Store, views, replica, rnext - 1, h)

(* Nothing is applied yet.                                                 *)
LEMMA RInitConverging == ASSUME RInit PROVE Converging
<1>1. /\ Store.findex = [s \in Serials |-> EmptyIndex]
      /\ Last(Store) = 0 /\ rnext = 1 /\ replica.findex = Store.findex
  <2>1. Store \in Stores
    BY InitInv DEF RInit, Inv, StoreInv
  <2> QED
    BY <2>1 DEF RInit, Init, Store, Last, ZeroState, Stores
<1>2. Owed(Store)
  <2>1. ASSUME NEW s \in Serials, NEW i \in Slot
        PROVE  Store.findex[s][i].sequence <= Last(Store)
               /\ ~(Store.findex[s][i].offset > 0)
    <3>1. PICK none : none = [offset |-> 0, sequence |-> 0, auto |-> FALSE]
      OBVIOUS
    <3>2. none.offset = 0 /\ none.sequence = 0
      BY <3>1
    <3>3. Store.findex[s][i] = none
      BY <1>1, <3>1 DEF EmptyIndex
    <3> QED
      BY <1>1, <3>2, <3>3
  <2> QED
    BY <2>1 DEF Owed
<1>3. IndexAt(views, 0) = Store.findex /\ CommitAt(views, 0) = 0
  BY <1>1 DEF IndexAt, CommitAt
<1>4. \A s \in Serials :
         Twins(replica.fdata, replica.findex[s], Store.fdata, IndexAt(views, 0)[s], 0)
  BY <1>1, <1>3 DEF Twins
<1>5. Caught(Store, views, replica, 0, 0)
  <2>1. 0 \in 0 .. Last(Store) /\ 0 \in 0 .. 0
    BY <1>1
  <2>2. \A q \in 1 .. 0 : FALSE
    OBVIOUS
  <2> QED
    BY <1>3, <1>4, <2>1, <2>2, Zenon DEF Caught, ReadableTo
<1>6. rnext - 1 = 0
  BY <1>1
<1> QED
  BY <1>2, <1>5, <1>6 DEF Converging

(* The master goes on.                                                     *)
LEMMA MasterConverging ==
    ASSUME "crash" \notin Allowed, "dirtyClose" \notin Allowed,
           Names, Names', Mirrors, Mirrors', Converging, MasterStep
    PROVE  Converging'
<1>1. PICK new : new = Store'
  OBVIOUS
<1>2. PICK v2 : v2 = views'
  OBVIOUS
<1>3. /\ Next /\ UNCHANGED rvars
      /\ views' = [q \in 1 .. state'.last_sequence |->
                      IF q \in DOMAIN views THEN views[q] ELSE Snapshot']
  BY DEF MasterStep
<1>4. /\ StoreInv(Store) /\ StoreInv(new) /\ Tidy(Store) /\ Saved
      /\ History(Store, views) /\ Store.fdata = fdata
      /\ Inv /\ Serialed(fdata) /\ StoreInv(replica)
  BY <1>1 DEF Names, Inv, Mirrors, Tidy, History, Store
<1>5. MasterMoved(Store, new) /\ Last(new) \in Nat
  <2>1. MasterMoved(Store, new)
    BY <1>1, <1>3, <1>4, NextMoves
  <2>2. Last(new) = Last(Store)'
    BY <1>1 DEF Last
  <2>3. Last(Store)' \in Nat
    BY DEF Mirrors, History
  <2> QED
    BY <2>1, <2>2, <2>3
<1>6. Last(Store) <= Last(new) /\ Longer(Store.fdata, new.fdata)
  <2>1. CASE Grown(Store, new)
    BY <1>4, <2>1 DEF Grown, Tidy
  <2>2. CASE ~Grown(Store, new)
    <3>1. new.fdata = Store.fdata /\ Last(new) = Last(Store)
      BY <1>5, <2>2 DEF MasterMoved
    <3>2. Store.fdata \in Seq(DataReg)
      BY <1>4 DEF StoreInv, Stores
    <3> QED
      BY <1>4, <3>1, <3>2, LongerReflexive DEF Tidy
  <2> QED
    BY <2>1, <2>2
<1>7. \A q \in DOMAIN views : v2[q] = views[q]
  <2>1. state'.last_sequence = Last(new)
    BY <1>1 DEF Store, Last
  <2>2. PICK m \in Nat, n \in Nat : m = Last(Store) /\ n = Last(new)
    BY <1>4, <1>5 DEF Tidy
  <2>3. DOMAIN views \subseteq 1 .. n
    BY <1>4, <1>6, <2>2 DEF History
  <2> QED
    BY <1>2, <1>3, <2>1, <2>2, <2>3
<1>8. PICK h \in Nat : rnext - 1 \in Nat /\ Caught(Store, views, replica, rnext - 1, h)
  BY DEF Converging
<1>9. Caught(new, v2, replica, rnext - 1, h)
  BY <1>4, <1>5, <1>6, <1>7, <1>8, MasterCaught
<1>10. Owed(new)
  BY <1>1, <1>3, <1>4, <1>5, NextOwed DEF Converging
<1>11. replica' = replica /\ rnext' = rnext
  BY <1>3 DEF rvars
<1> QED
  BY <1>1, <1>2, <1>8, <1>9, <1>10, <1>11 DEF Converging

(* A record is applied, again or for the first time.                       *)
LEMMA ApplyConverging ==
    ASSUME Names, Names', Mirrors, Converging, Apply
    PROVE  Converging'
<1>1. PICK new : new = replica'
  OBVIOUS
<1>2. LogReadable(rnext) /\ rnext' = rnext + 1 /\ UNCHANGED <<vars, lives, views>>
  BY DEF Apply
<1>3. Store' = Store /\ views' = views /\ Store.fdata = fdata /\ Store.flog = flog
  BY <1>2 DEF vars, Store
<1>4. PICK q \in Nat : q = rnext /\ q # 0
  BY DEF Mirrors
<1>5. q \in DOMAIN Store.flog /\ Store.flog[q].offset > 0
  BY <1>2, <1>3, <1>4 DEF LogReadable
<1>6. ReadLog(rnext) = Logged(Store, q)
  BY <1>3, <1>4 DEF ReadLog, Logged
<1>7. PICK ok \in BOOLEAN : ok /\ Written(replica, new, Logged(Store, q), ok)
  <2>1. PICK r : r = ReadLog(rnext)
    OBVIOUS
  <2>2. PICK ok \in BOOLEAN : ok /\ Written(replica, new, r, ok)
    BY <1>1, <2>1, ApplyWritten
  <2> QED
    BY <1>6, <2>1, <2>2
<1>8. /\ StoreInv(Store) /\ Serialed(Store.fdata) /\ History(Store, views)
      /\ StoreInv(replica)
  BY <1>3 DEF Names, Inv, Mirrors
<1>9. PICK p \in Nat, h \in Nat : p = rnext - 1 /\ Caught(Store, views, replica, p, h)
  BY DEF Converging
<1>10. q = p + 1 /\ p <= h
  BY <1>4, <1>9 DEF Caught
<1>11. \E k \in Nat : Caught(Store, views, new, q, k)
  <2>1. CASE q <= h
    <3>1. Caught(Store, views, new, q, h)
      BY <1>7, <1>8, <1>9, <1>10, <2>1, AgainCaught
    <3> QED
      BY <3>1
  <2>2. CASE ~(q <= h)
    <3>1. p = h
      BY <1>10, <2>2
    <3>2. q <= Last(Store)
      BY <1>5, <1>8 DEF History, LogWithin
    <3>3. Caught(Store, views, new, q, q)
      BY <1>5, <1>7, <1>8, <1>9, <1>10, <3>1, <3>2, FurtherCaught
    <3> QED
      BY <3>3
  <2> QED
    BY <2>1, <2>2
<1>12. PICK k \in Nat : Caught(Store, views, new, q, k)
  BY <1>11
<1>13. rnext' - 1 = q
  BY <1>2, <1>4
<1>14. Owed(Store)'
  BY <1>3 DEF Converging
<1>15. Caught(Store', views', replica', rnext' - 1, k) /\ rnext' - 1 \in Nat
  BY <1>1, <1>3, <1>12, <1>13
<1> QED
  BY <1>14, <1>15 DEF Converging

(* The commit at the end of a process publishes what it has applied.       *)
LEMMA EndLoopConverging ==
    ASSUME Names, Mirrors, Converging, EndLoop
    PROVE  Converging'
<1>1. PICK new : new = replica'
  OBVIOUS
<1>2. /\ StoreInv(replica)
      /\ Longer(replica.fdata, new.fdata) /\ new.findex = replica.findex
      /\ LastSeq(new) = Last(replica) + 1
  BY <1>1, EndLoopEffect DEF Names
<1>3. Store' = Store /\ views' = views /\ rnext' = rnext
  BY DEF EndLoop, vars, Store
<1>4. PICK p \in Nat, h \in Nat : p = rnext - 1 /\ Caught(Store, views, replica, p, h)
  BY DEF Converging
<1>5. h \in 0 .. Last(Store) /\ IndexFor(Store.fdata, IndexAt(views, h))
  BY <1>4 DEF Caught, Mirrors, History
<1>6. PICK ix : ix = IndexAt(views, h)
  OBVIOUS
<1>7. \A s \in Serials : Twins(new.fdata, new.findex[s], Store.fdata, ix[s], h)
  <2> SUFFICES ASSUME NEW s \in Serials
               PROVE  Twins(new.fdata, new.findex[s], Store.fdata, ix[s], h)
    OBVIOUS
  <2>1. Twins(replica.fdata, replica.findex[s], Store.fdata, ix[s], h)
    BY <1>4, <1>6 DEF Caught
  <2>2. Longer(Store.fdata, Store.fdata)
    <3>1. Store.fdata \in Seq(DataReg)
      BY DEF Names, Inv, StoreInv, Stores
    <3> QED
      BY <3>1, LongerReflexive
  <2>3. /\ \A i \in Slot : SlotNamed(replica.fdata, s, replica.findex[s][i])
        /\ \A i \in Slot : SlotNamed(Store.fdata, s, ix[s][i])
    BY <1>2, <1>5, <1>6 DEF StoreInv, IndexFor
  <2>4. Twins(new.fdata, replica.findex[s], Store.fdata, ix[s], h)
    BY <1>2, <2>1, <2>2, <2>3, TwinsLonger
  <2> QED
    BY <1>2, <2>4
<1>8. \A q \in 1 .. p : q <= LastSeq(new)
  <2>1. Last(replica) \in Int
    BY <1>2 DEF StoreInv, Stores, State, Last
  <2>2. p > 0 => p <= Last(replica)
    BY <1>4 DEF Mirrors, CommitsLast
  <2> QED
    BY <1>2, <2>1, <2>2
<1>9. Caught(Store, views, new, p, h)
  BY <1>4, <1>6, <1>7, <1>8 DEF Caught
<1>10. Owed(Store)'
  BY <1>3 DEF Converging
<1>11. Caught(Store', views', replica', rnext' - 1, h) /\ rnext' - 1 \in Nat
  BY <1>1, <1>3, <1>4, <1>9
<1> QED
  BY <1>10, <1>11 DEF Converging

(* The next process has applied nothing, on top of what is there.          *)
LEMMA RestartConverging ==
    ASSUME Converging, Restart
    PROVE  Converging'
<1>1. PICK new : new = replica'
  OBVIOUS
<1>2. /\ Store' = Store /\ views' = views
      /\ new.fdata = replica.fdata /\ new.findex = replica.findex
      /\ rnext' = 1
  BY <1>1 DEF Restart, vars, Store
<1>3. PICK h \in Nat : Caught(Store, views, replica, rnext - 1, h)
  BY DEF Converging
<1>4. Caught(Store, views, new, 0, h)
  <2>1. \A q \in 1 .. 0 : FALSE
    OBVIOUS
  <2>2. 0 \in 0 .. h
    OBVIOUS
  <2> QED
    BY <1>2, <1>3, <2>1, <2>2 DEF Caught
<1>5. rnext' - 1 = 0
  BY <1>2
<1>6. Owed(Store)'
  BY <1>2 DEF Converging
<1>7. Caught(Store', views', replica', rnext' - 1, h) /\ rnext' - 1 \in Nat
  BY <1>1, <1>2, <1>4, <1>5
<1> QED
  BY <1>6, <1>7 DEF Converging

(* A replicating process that has caught up with a master between two      *)
(* transactions has given the replica the committed contents of the        *)
(* master, also if it is one of many that started over at the first        *)
(* sequence, on top of what the others had applied. The master does not    *)
(* die, and is not closed inside a transaction, which forgets what is      *)
(* uncommitted.                                                            *)
THEOREM ReplicaConverged ==
    ASSUME "crash" \notin Allowed, "dirtyClose" \notin Allowed
    PROVE  RSpec => []ReplicaConverges
<1>1. RInit => Names /\ Mirrors /\ Converging
  BY RInitNames, RInitMirrors, RInitConverging
<1>2. Names /\ Mirrors /\ Converging /\ [RNext]_allvars
         => Names' /\ Mirrors' /\ Converging'
  <2> SUFFICES ASSUME Names, Mirrors, Converging, [RNext]_allvars
               PROVE  Names' /\ Mirrors' /\ Converging'
    OBVIOUS
  <2>1. Names'
    BY RNextNames
  <2>2. CASE MasterStep
    <3>1. Mirrors'
      BY <2>1, <2>2, MasterMirrors
    <3> QED
      BY <2>1, <2>2, <3>1, MasterConverging
  <2>3. CASE Apply
    BY <2>1, <2>3, ApplyMirrors, ApplyConverging
  <2>4. CASE Restart
    BY <2>1, <2>4, RestartMirrors, RestartConverging
  <2>5. CASE EndLoop
    BY <2>1, <2>5, EndLoopMirrors, EndLoopConverging
  <2>6. CASE GiveUp \/ Die
    <3>1. Store' = Store /\ views' = views /\ replica' = replica /\ rnext' = rnext
      BY <2>6 DEF GiveUp, Die, vars, Store
    <3>2. Converging'
      BY <3>1 DEF Converging
    <3> QED
      BY <2>1, <2>6, <3>2, GoneMirrors
  <2>7. CASE UNCHANGED allvars
    <3>1. Store' = Store /\ views' = views /\ replica' = replica /\ rnext' = rnext
      BY <2>7 DEF allvars, rvars, vars, Store
    <3>2. Converging'
      BY <3>1 DEF Converging
    <3> QED
      BY <2>1, <2>7, <3>2, StutterMirrors
  <2> QED
    BY <2>2, <2>3, <2>4, <2>5, <2>6, <2>7 DEF RNext
<1>3. Names /\ Mirrors /\ Converging => ReplicaConverges
  <2> SUFFICES ASSUME Names, Mirrors, Converging, rnext > 1,
                      rnext = state.last_sequence + 1, dirtySerials = << >>
               PROVE  ReplicaView = View
    BY DEF ReplicaConverges
  <2>1. /\ StoreInv(Store) /\ StoreInv(replica) /\ Saved /\ History(Store, views)
        /\ state.last_sequence = Last(Store) /\ Store.dirty = << >>
    BY DEF Names, Inv, Mirrors, Store, Last
  <2>2. PICK n \in Nat : n = Last(Store) /\ rnext - 1 = n
    BY <2>1 DEF History
  <2>3. PICK h \in Nat : Caught(Store, views, replica, n, h)
    BY <2>2 DEF Converging
  <2>4. h = n
    BY <2>2, <2>3 DEF Caught
  <2>5. /\ ReadableTo(Store, Last(Store))
        /\ IndexAt(views, n) = Store.findex
        /\ CommitAt(views, n) = LastSeq(Store)
    BY <2>1, <2>2, <2>3, <2>4 DEF Caught, History
  <2>6. PICK lcs1 \in Int, lcs2 \in Int :
          lcs1 = LastSeq(replica) /\ lcs2 = LastSeq(Store)
    BY <2>1 DEF StoreInv, Stores, State, LastSeq
  <2>7. \A q \in 1 .. n : q <= lcs2 => q <= lcs1
    <3> SUFFICES ASSUME NEW q \in 1 .. n, q <= lcs2 PROVE q <= lcs1
      OBVIOUS
    <3>1. lcs2 # 0
      OBVIOUS
    <3>2. lcs2 \in 1 .. n /\ Logged(Store, lcs2).type = "COMMIT"
      BY <2>3, <2>4, <2>5, <2>6, <3>1 DEF Caught
    <3>3. lcs2 <= lcs1
      BY <2>3, <2>6, <3>2 DEF Caught
    <3> QED
      BY <3>3
  <2>8. ASSUME NEW s \in Serials
        PROVE  ValueIn(replica.fdata, FoundOffset(replica.findex[s], lcs1))
                  = ValueIn(Store.fdata, FoundOffset(Store.findex[s], lcs2))
    <3>1. PICK a \in IndexReg, b \in IndexReg :
            a = replica.findex[s] /\ b = Store.findex[s]
      BY <2>1 DEF StoreInv, Stores
    <3>2. Twins(replica.fdata, a, Store.fdata, b, n)
      BY <2>3, <2>4, <2>5, <3>1 DEF Caught
    <3>3. ~Listed(Store.dirty, s)
      BY <2>1 DEF Listed
    <3>4. \A i \in Slot : b[i].offset > 0 => b[i].auto \/ b[i].sequence <= lcs2
      BY <2>5, <2>6, <3>1, <3>3 DEF Owed, Converging
    <3>5. ValueIn(replica.fdata, FoundOffset(a, lcs1))
             = ValueIn(Store.fdata, FoundOffset(b, lcs2))
      <4>1. PICK fd1, fd2 : fd1 = replica.fdata /\ fd2 = Store.fdata
        OBVIOUS
      <4>2. Twins(fd1, a, fd2, b, n)
        BY <3>2, <4>1
      <4>3. \A i \in Slot : b[i].offset > 0 => b[i].auto \/ b[i].sequence <= lcs2
        BY <3>4
      <4>4. \A q \in 1 .. n : q <= lcs2 => q <= lcs1
        BY <2>7
      <4>5. ValueIn(fd1, FoundOffset(a, lcs1)) = ValueIn(fd2, FoundOffset(b, lcs2))
        BY <4>2, <4>3, <4>4, TwinsRead
      <4> QED
        BY <4>1, <4>5
    <3> QED
      BY <3>1, <3>5
  <2>9. ReadThrough(replica.fdata, replica.findex, lcs1)
           = ReadThrough(Store.fdata, Store.findex, lcs2)
    BY <2>8, Zenon DEF ReadThrough
  <2> QED
    BY <2>1, <2>6, <2>9, ViewsRead
<1> QED
  BY <1>1, <1>2, <1>3, PTL DEF RSpec

(***************************************************************************)
(* Readers of the replica in other processes.                              *)
(***************************************************************************)
(* What writeFiles saves of a record that readLog can return: every WRITE  *)
(* saves the last commit sequence, the others do it or leave it.           *)
LEMMA WriteFilesSaved ==
    ASSUME NEW st, StoreInv(st), NEW r \in DataReg,
           r.type \in {"WRITE", "COMMIT", "STATUS"},
           r.type = "WRITE" => r.serial \in Serials,
           NEW new, new = WriteFiles(st, r, TRUE)
    PROVE  /\ SavedSeq(new) \in {SavedSeq(st), LastSeq(new)}
           /\ r.type = "WRITE" => SavedSeq(new) = LastSeq(new)
<1> DEFINE c == CountRecord(st, r.sequence)
<1>1. st \in Stores /\ r.sequence \in Int
  BY DEF StoreInv, DataReg
<1>2. StoreInv(c) /\ SameObject(st, c) /\ c.state.last_sequence = r.sequence
  BY <1>1, CountRecordInv, FilesSameObject
<1> HIDE DEF c
<1>3. CASE r.type = "WRITE"
  <2>1. PICK a : a = ApplyWrite(c, r, TRUE)
    OBVIOUS
  <2>2. StoreInv(a)
    BY <1>2, <1>3, <2>1, ApplyWriteInv
  <2>3. SavedSeq(a) = LastSeq(a)
    <3>1. TRUE \in BOOLEAN
      OBVIOUS
    <3> QED
      BY <1>2, <1>3, <2>1, <3>1, ApplyWriteObject
  <2>4. MaybeSaved(a, StatusSnapshot(a, TRUE))
    BY <2>2, StatusSnapshotObject
  <2>5. new = StatusSnapshot(a, TRUE)
    BY <1>3, <2>1 DEF WriteFiles, c
  <2> QED
    BY <2>3, <2>4, <2>5 DEF MaybeSaved
<1>4. CASE r.type = "COMMIT"
  <2>1. PICK a : a = ApplyCommit(c, r, TRUE)
    OBVIOUS
  <2>2. StoreInv(a)
    BY <1>2, <2>1, ApplyCommitInv
  <2>3. SavedSeq(a) = SavedSeq(c)
    <3>1. c \in Stores
      BY <1>2 DEF StoreInv
    <3> QED
      BY <2>1, <3>1 DEF ApplyCommit, WriteData, WriteLog, SavedSeq, Stores
  <2>4. MaybeSaved(a, StatusSnapshot(a, TRUE))
    BY <2>2, StatusSnapshotObject
  <2>5. new = StatusSnapshot(a, TRUE)
    BY <1>4, <2>1 DEF WriteFiles, c
  <2> QED
    BY <1>2, <1>4, <2>3, <2>4, <2>5 DEF MaybeSaved, SameObject
<1>5. CASE r.type = "STATUS"
  <2>1. MaybeSaved(c, StatusSnapshot(c, TRUE))
    BY <1>2, StatusSnapshotObject
  <2>2. new = StatusSnapshot(c, TRUE)
    BY <1>5 DEF WriteFiles, c
  <2> QED
    BY <1>2, <1>5, <2>1, <2>2 DEF MaybeSaved, SameObject
<1> QED
  BY <1>3, <1>4, <1>5

(* The state file of replica rep has the commit sequence that the master   *)
(* had after its sequence q; none of those up to p has written since.      *)
LagsTo(st, v, rep, p, q) ==
    /\ q \in 0 .. p
    /\ SavedSeq(rep) = CommitAt(v, q)
    /\ IndexAt(v, q) = IndexAt(v, p)
    /\ \A later \in q + 1 .. p : Logged(st, later).type # "WRITE"

(* The strengthening for readers in other processes.                       *)
Lagging ==
    lives = 1 /\ process # "ended" =>
        /\ ReadableTo(Store, rnext - 1)
        /\ \E q \in Nat : LagsTo(Store, views, replica, rnext - 1, q)

(* Nothing is saved yet.                                                   *)
LEMMA RInitLagging == ASSUME RInit PROVE Lagging
<1>1. Store \in Stores
  BY InitInv DEF RInit, Inv, StoreInv
<1>2. SavedSeq(replica) = 0 /\ rnext - 1 = 0
  BY <1>1 DEF RInit, Init, Store, Stores, SavedSeq, ZeroState
<1>3. LagsTo(Store, views, replica, 0, 0)
  <2>1. CommitAt(views, 0) = 0
    BY DEF CommitAt
  <2>2. 0 \in 0 .. 0 /\ \A later \in 0 + 1 .. 0 : FALSE
    OBVIOUS
  <2> QED
    BY <1>2, <2>1, <2>2 DEF LagsTo
<1>4. ReadableTo(Store, 0)
  BY DEF ReadableTo
<1> QED
  BY <1>2, <1>3, <1>4 DEF Lagging

(* The master goes on.                                                     *)
LEMMA MasterLagging ==
    ASSUME "crash" \notin Allowed,
           Names, Names', Mirrors, Mirrors', Lagging, MasterStep
    PROVE  Lagging'
<1>1. PICK new : new = Store'
  OBVIOUS
<1>2. PICK v2 : v2 = views'
  OBVIOUS
<1>3. /\ Next /\ UNCHANGED rvars
      /\ views' = [q \in 1 .. state'.last_sequence |->
                      IF q \in DOMAIN views THEN views[q] ELSE Snapshot']
  BY DEF MasterStep
<1>4. /\ replica' = replica /\ rnext' = rnext
      /\ lives' = lives /\ process' = process
  BY <1>3 DEF rvars
<1> SUFFICES ASSUME lives = 1, process # "ended"
             PROVE  /\ ReadableTo(new, rnext - 1)
                    /\ \E q \in Nat : LagsTo(new, v2, replica, rnext - 1, q)
  BY <1>1, <1>2, <1>4 DEF Lagging
<1>5. /\ StoreInv(Store) /\ StoreInv(new) /\ Tidy(Store) /\ Saved
      /\ History(Store, views) /\ Store.fdata = fdata
      /\ Inv /\ Serialed(fdata)
  BY <1>1 DEF Names, Inv, Mirrors, Tidy, History, Store
<1>6. MasterMoved(Store, new) /\ Last(new) \in Nat
  <2>1. MasterMoved(Store, new)
    BY <1>1, <1>3, <1>5, NextMoves
  <2>2. Last(new) = Last(Store)'
    BY <1>1 DEF Last
  <2>3. Last(Store)' \in Nat
    BY DEF Mirrors, History
  <2> QED
    BY <2>1, <2>2, <2>3
<1>7. Last(Store) <= Last(new)
  <2>1. CASE Grown(Store, new)
    BY <1>5, <2>1 DEF Grown, Tidy
  <2>2. CASE ~Grown(Store, new)
    BY <1>5, <1>6, <2>2 DEF MasterMoved, Tidy
  <2> QED
    BY <2>1, <2>2
<1>8. \A q \in DOMAIN views : v2[q] = views[q]
  <2>1. state'.last_sequence = Last(new)
    BY <1>1 DEF Store, Last
  <2>2. PICK m \in Nat, n \in Nat : m = Last(Store) /\ n = Last(new)
    BY <1>5, <1>6 DEF Tidy
  <2>3. DOMAIN views \subseteq 1 .. n
    BY <1>5, <1>7, <2>2 DEF History
  <2> QED
    BY <1>2, <1>3, <2>1, <2>2, <2>3
<1>9. PICK p \in Nat : p = rnext - 1 /\ p <= Last(Store)
  BY DEF Mirrors
<1>10. Last(Store) \in Nat
  BY <1>5 DEF Tidy
<1>11. PICK q \in Nat : LagsTo(Store, views, replica, p, q)
  BY <1>9 DEF Lagging
<1>12. ReadableTo(Store, p)
  BY <1>9 DEF Lagging
<1>13. ASSUME NEW x \in 1 .. p
       PROVE  /\ x \in DOMAIN new.flog /\ new.flog[x].offset > 0
              /\ Logged(new, x) = Logged(Store, x)
  <2>1. x \in DOMAIN Store.flog /\ Store.flog[x].offset > 0 /\ x \in 1 .. Last(Store)
    BY <1>9, <1>10, <1>12 DEF ReadableTo
  <2>2. StoreInv(Store) /\ Last(Store) \in Nat /\ MasterMoved(Store, new)
    BY <1>5, <1>6, <1>10
  <2> QED
    BY <2>1, <2>2, LoggedSame
<1>14. ASSUME NEW x \in 0 .. p
       PROVE  IndexAt(v2, x) = IndexAt(views, x) /\ CommitAt(v2, x) = CommitAt(views, x)
  <2>1. CASE x = 0
    BY <2>1 DEF IndexAt, CommitAt
  <2>2. CASE x # 0
    <3>1. x \in DOMAIN views
      BY <1>5, <1>9, <1>10, <2>2 DEF History
    <3> QED
      BY <1>8, <2>2, <3>1 DEF IndexAt, CommitAt
  <2> QED
    BY <2>1, <2>2
<1>15. q \in 0 .. p /\ p \in 0 .. p
  BY <1>11 DEF LagsTo
<1>16. \A later \in q + 1 .. p : Logged(new, later).type # "WRITE"
  <2>1. \A later \in q + 1 .. p : later \in 1 .. p
    BY <1>15
  <2> QED
    BY <1>11, <1>13, <2>1 DEF LagsTo
<1>17. LagsTo(new, v2, replica, p, q)
  BY <1>11, <1>14, <1>15, <1>16 DEF LagsTo
<1>18. ReadableTo(new, p)
  BY <1>13 DEF ReadableTo
<1> QED
  BY <1>9, <1>17, <1>18

(* A record is applied: a WRITE saves what the process knows.              *)
LEMMA ApplyLagging ==
    ASSUME Names, Names', Mirrors, Mirrors', Lagging, Apply
    PROVE  Lagging'
<1>1. PICK new : new = replica'
  OBVIOUS
<1>2. /\ LogReadable(rnext) /\ rnext' = rnext + 1 /\ process = "runs"
      /\ UNCHANGED <<vars, lives, process, views>>
      /\ new = WriteFiles(replica, ReadLog(rnext), TRUE)
  BY <1>1, Zenon DEF Apply
<1>3. Store' = Store /\ views' = views /\ Store.fdata = fdata /\ Store.flog = flog
  BY <1>2 DEF vars, Store
<1>4. PICK n \in Nat : n = rnext /\ n # 0
  BY DEF Mirrors
<1> SUFFICES ASSUME lives = 1
             PROVE  /\ ReadableTo(Store, n)
                    /\ \E q \in Nat : LagsTo(Store, views, new, n, q)
  <2>1. rnext' - 1 = n /\ lives' = lives
    BY <1>2, <1>4
  <2> QED
    BY <1>1, <1>3, <2>1 DEF Lagging
<1>5. n \in DOMAIN Store.flog /\ Store.flog[n].offset > 0
  BY <1>2, <1>3, <1>4 DEF LogReadable
<1>6. PICK r : r = ReadLog(rnext)
  OBVIOUS
<1>7. r = Logged(Store, n)
  BY <1>3, <1>4, <1>6 DEF ReadLog, Logged
<1>8. /\ StoreInv(Store) /\ History(Store, views) /\ StoreInv(replica)
  BY DEF Names, Inv, Mirrors
<1>9. n \in 1 .. Last(Store) /\ n - 1 \in 0 .. Last(Store)
  <2>1. n <= Last(Store) /\ Last(Store) \in Nat
    BY <1>5, <1>8 DEF History, LogWithin
  <2> QED
    BY <1>4, <2>1
<1>10. StepTo(IndexAt(views, n - 1), CommitAt(views, n - 1), r,
              Store.flog[n].offset, IndexAt(views, n), CommitAt(views, n))
  BY <1>5, <1>7, <1>8, <1>9 DEF History, Logged
<1>11. /\ r \in DataReg /\ r.type \in {"WRITE", "COMMIT", "STATUS"}
       /\ r.type = "WRITE" => r.serial \in Serials
  BY <1>2, <1>6, <1>10, ReadLogRecord DEF StepTo
<1>12. /\ SavedSeq(new) \in {SavedSeq(replica), LastSeq(new)}
       /\ r.type = "WRITE" => SavedSeq(new) = LastSeq(new)
  BY <1>2, <1>6, <1>8, <1>11, WriteFilesSaved
<1>13. LastSeq(new) = CommitAt(views, n)
  <2>1. lives' = 1 /\ process' # "ended" /\ rnext' - 1 = n
    BY <1>2, <1>4
  <2> QED
    BY <1>1, <1>3, <2>1 DEF Mirrors, Mirror, LastSeq
<1>14. PICK q \in Nat : LagsTo(Store, views, replica, n - 1, q)
  BY <1>2, <1>4 DEF Lagging
<1>15. ReadableTo(Store, n)
  <2>1. ReadableTo(Store, n - 1)
    BY <1>2, <1>4 DEF Lagging
  <2>2. \A x \in 1 .. n : x = n \/ x \in 1 .. n - 1
    OBVIOUS
  <2> QED
    BY <1>5, <2>1, <2>2 DEF ReadableTo
<1>16. CASE SavedSeq(new) = LastSeq(new)
  <2>1. n \in 0 .. n /\ \A later \in n + 1 .. n : FALSE
    OBVIOUS
  <2>2. LagsTo(Store, views, new, n, n)
    BY <1>13, <1>16, <2>1 DEF LagsTo
  <2> QED
    BY <1>15, <2>2
<1>17. CASE SavedSeq(new) # LastSeq(new)
  <2>1. SavedSeq(new) = SavedSeq(replica) /\ r.type # "WRITE"
    BY <1>12, <1>17
  <2>2. IndexAt(views, n) = IndexAt(views, n - 1)
    BY <1>10, <2>1 DEF StepTo
  <2>3. q \in 0 .. n /\ \A x \in q + 1 .. n : x = n \/ x \in q + 1 .. n - 1
    BY <1>4, <1>14 DEF LagsTo
  <2>4. \A later \in q + 1 .. n : Logged(Store, later).type # "WRITE"
    BY <1>7, <1>14, <2>1, <2>3 DEF LagsTo
  <2>5. LagsTo(Store, views, new, n, q)
    BY <1>14, <2>1, <2>2, <2>3, <2>4 DEF LagsTo
  <2> QED
    BY <1>15, <2>5
<1> QED
  BY <1>16, <1>17

(* The other steps leave the files of the replica, or nothing is claimed   *)
(* after them.                                                             *)
LEMMA OthersLagging ==
    ASSUME Mirrors, Lagging, GiveUp \/ Die \/ EndLoop \/ Restart \/ UNCHANGED allvars
    PROVE  Lagging'
<1>1. CASE EndLoop
  BY <1>1 DEF EndLoop, Lagging
<1>2. CASE Restart
  <2>1. lives' = lives + 1 /\ lives \in Nat \ {0}
    BY <1>2 DEF Restart, Mirrors
  <2> QED
    BY <2>1 DEF Lagging
<1>3. CASE GiveUp \/ Die
  <2>1. /\ Store' = Store /\ views' = views /\ replica' = replica
        /\ rnext' = rnext /\ lives' = lives /\ process = "runs"
    BY <1>3 DEF GiveUp, Die, vars, Store
  <2> QED
    BY <2>1 DEF Lagging
<1>4. CASE UNCHANGED allvars
  <2>1. /\ Store' = Store /\ views' = views /\ replica' = replica
        /\ rnext' = rnext /\ lives' = lives /\ process' = process
    BY <1>4 DEF allvars, rvars, vars, Store
  <2> QED
    BY <2>1 DEF Lagging
<1> QED
  BY <1>1, <1>2, <1>3, <1>4

(* Readers of the replica in other processes find a committed content of   *)
(* the master as long as the first replicating process has not ended with  *)
(* a commit of its own, also after it gave up or died: at worst commits    *)
(* after the last WRITE it has applied are missing.                        *)
THEOREM ReplicaReadersLagged ==
    ASSUME "crash" \notin Allowed
    PROVE  RSpec => []ReplicaReadersLag
<1>1. RInit => Names /\ Mirrors /\ Lagging
  BY RInitNames, RInitMirrors, RInitLagging
<1>2. Names /\ Mirrors /\ Lagging /\ [RNext]_allvars
         => Names' /\ Mirrors' /\ Lagging'
  <2> SUFFICES ASSUME Names, Mirrors, Lagging, [RNext]_allvars
               PROVE  Names' /\ Mirrors' /\ Lagging'
    OBVIOUS
  <2>1. Names' /\ Mirrors'
    BY NextMirrors
  <2>2. CASE MasterStep
    BY <2>1, <2>2, MasterLagging
  <2>3. CASE Apply
    BY <2>1, <2>3, ApplyLagging
  <2>4. CASE ~MasterStep /\ ~Apply
    <3>1. GiveUp \/ Die \/ EndLoop \/ Restart \/ UNCHANGED allvars
      BY <2>4, Zenon DEF RNext
    <3> QED
      BY <2>1, <3>1, OthersLagging, Zenon
  <2>5. Lagging'
    BY <2>2, <2>3, <2>4, Zenon
  <2> QED
    BY <2>1, <2>5, Zenon
<1>3. Names /\ Mirrors /\ Lagging => ReplicaReadersLag
  <2> SUFFICES ASSUME Names, Mirrors, Lagging,
                      lives = 1, process # "ended", rnext > 1
               PROVE  \E q \in 1 .. rnext - 1 :
                        /\ ReplicaPublished = views[q].view
                        /\ \A later \in q + 1 .. rnext - 1 :
                              ReadLog(later).type # "WRITE"
    BY DEF ReplicaReadersLag
  <2>1. PICK p \in Nat : p = rnext - 1 /\ p # 0
    BY DEF Mirrors
  <2>2. PICK q \in Nat : LagsTo(Store, views, replica, p, q)
    BY <2>1 DEF Lagging
  <2>3. /\ p \in 1 .. Last(Store) /\ p \in 0 .. Last(Store) /\ q \in 0 .. p
        /\ Last(Store) \in Nat
    BY <2>1, <2>2 DEF Mirrors, History, LagsTo
  <2>4. Store.fdata = fdata /\ Store.flog = flog /\ History(Store, views)
    BY DEF Store, Mirrors
  <2>5. \A x \in 0 .. p : /\ IndexFor(fdata, IndexAt(views, x))
                          /\ CommitAt(views, x) \in Int
    BY <2>3, <2>4 DEF History
  <2>6. PICK lcs \in Int : lcs = SavedSeq(replica) /\ lcs = CommitAt(views, q)
    BY <2>2, <2>3, <2>5 DEF LagsTo
  <2>7. ReplicaPublished = ReadThrough(replica.fdata, replica.findex, lcs)
    BY <2>6, Zenon
       DEF ReplicaPublished, ReplicaReads, ReadThrough, ValueIn, FoundOffset, SavedSeq
  <2>8. ReadThrough(replica.fdata, replica.findex, lcs)
           = ReadThrough(fdata, IndexAt(views, q), lcs)
    <3>1. Alike(replica.fdata, replica.findex, fdata, IndexAt(views, p))
      BY <2>1 DEF Mirrors, Mirror
    <3>2. Alike(replica.fdata, replica.findex, fdata, IndexAt(views, q))
      BY <2>2, <3>1 DEF LagsTo
    <3>3. replica.findex \in [Serials -> IndexReg]
      BY DEF Names, StoreInv, Stores
    <3> QED
      BY <2>3, <2>5, <3>2, <3>3, AlikeRead DEF IndexFor
  <2>9. \A later \in q + 1 .. p : ReadLog(later).type # "WRITE"
    BY <2>2, <2>4, Zenon DEF LagsTo, ReadLog, Logged
  <2>10. ASSUME NEW x \in 1 .. p
         PROVE  views[x].view = ReadThrough(fdata, IndexAt(views, x), CommitAt(views, x))
    BY <2>3, <2>4 DEF History
  <2>11. CASE q # 0
    <3>1. q \in 1 .. p
      BY <2>3, <2>11
    <3>2. ReplicaPublished = views[q].view
      BY <2>6, <2>7, <2>8, <2>10, <3>1
    <3> QED
      BY <2>1, <2>9, <3>1, <3>2
  <2>12. CASE q = 0
    <3>1. 1 \in 1 .. p /\ 1 \in 1 .. Last(Store) /\ 1 \in q + 1 .. p
      BY <2>3, <2>12
    <3>2. IndexAt(views, 1) = IndexAt(views, 0)
      <4>1. 1 \in DOMAIN Store.flog /\ Store.flog[1].offset > 0
        BY <2>1, <3>1 DEF Lagging, ReadableTo
      <4>2. StepTo(IndexAt(views, 1 - 1), CommitAt(views, 1 - 1),
                   Store.fdata[Store.flog[1].offset], Store.flog[1].offset,
                   IndexAt(views, 1), CommitAt(views, 1))
        BY <2>4, <3>1, <4>1 DEF History
      <4>3. ReadLog(1) = Store.fdata[Store.flog[1].offset]
        BY <2>4 DEF ReadLog
      <4>4. IndexAt(views, 1) = IndexAt(views, 1 - 1)
        BY <2>9, <3>1, <4>2, <4>3 DEF StepTo
      <4> QED
        BY <4>4
    <3>3. PICK ix : ix = [s \in Serials |-> EmptyIndex]
      OBVIOUS
    <3>4. IndexAt(views, 0) = ix
      BY <3>3 DEF IndexAt
    <3>5. ASSUME NEW any \in Int
          PROVE  ReadThrough(fdata, ix, any) = [s \in Serials |-> NoValue]
      <4>1. PICK none : none = [offset |-> 0, sequence |-> 0, auto |-> FALSE]
        OBVIOUS
      <4>2. none.offset = 0
        BY <4>1
      <4>3. \A s \in Serials : ix[s][0] = none /\ ix[s][1] = none
        BY <3>3, <4>1 DEF EmptyIndex, Slot
      <4>4. \A s \in Serials : FoundOffset(ix[s], any) \in {0, -1}
        BY <4>2, <4>3, Zenon DEF FoundOffset, GetLastOffset
      <4>5. \A s \in Serials : ValueIn(fdata, FoundOffset(ix[s], any)) = NoValue
        BY <4>4 DEF ValueIn
      <4> QED
        BY <4>5, Zenon DEF ReadThrough
    <3>6. CommitAt(views, 1) \in Int
      BY <2>5, <3>1
    <3>7. ReplicaPublished = views[1].view
      <4>1. views[1].view = ReadThrough(fdata, ix, CommitAt(views, 1))
        BY <2>10, <3>1, <3>2, <3>4
      <4>2. ReplicaPublished = ReadThrough(fdata, ix, lcs)
        BY <2>7, <2>8, <2>12, <3>4
      <4> QED
        BY <3>5, <3>6, <4>1, <4>2
    <3>8. \A later \in 1 + 1 .. p : later \in q + 1 .. p
      BY <2>12
    <3> QED
      BY <2>1, <2>9, <3>1, <3>7, <3>8
  <2> QED
    BY <2>11, <2>12
<1> QED
  BY <1>1, <1>2, <1>3, PTL DEF RSpec

(***************************************************************************)
(* The data file as the master.                                            *)
(***************************************************************************)

(* A set of natural numbers with an element has a least one.               *)
LEMMA LeastElement ==
    ASSUME NEW S \in SUBSET Nat, S # {}
    PROVE  \E n \in S : \A m \in S : n <= m
<1>1. IsWellFoundedOn(OpToRel(<, Nat), Nat)
  BY NatLessThanWellFounded, Zenon
<1>2. PICK n \in S : \A m \in S : ~ (<<m, n>> \in OpToRel(<, Nat))
  BY <1>1, WFMin, Zenon
<1>3. \A m \in S : ~ (m < n)
  BY <1>2 DEF OpToRel
<1> QED
  BY <1>3

(* Where nobody has written.                                               *)
Blank == [s \in Serials |-> EmptyIndex]

(* f[m] is the index after the first m of the first n records of fd.       *)
IsReplay(f, fd, n) ==
    f = [m \in 0 .. n |-> IF m = 0 THEN Blank ELSE ReplayRecord(f[m - 1], fd[m], m)]

(* What a replay is, read off its definition.                              *)
LEMMA ReplayAt ==
    ASSUME NEW f, NEW fd, NEW n \in Nat, IsReplay(f, fd, n)
    PROVE  /\ f[0] = Blank
           /\ \A m \in 1 .. n : f[m] = ReplayRecord(f[m - 1], fd[m], m)
<1>1. \A m \in 0 .. n : f[m] = IF m = 0 THEN Blank ELSE ReplayRecord(f[m - 1], fd[m], m)
  BY Zenon DEF IsReplay
<1>2. 0 \in 0 .. n /\ \A m \in 1 .. n : m \in 0 .. n /\ m # 0
  OBVIOUS
<1> QED
  BY <1>1, <1>2, Zenon

(* Any number of records can be replayed: the first number that cannot     *)
(* follows one that can.                                                   *)
LEMMA ReplayExists ==
    ASSUME NEW fd, NEW n \in Nat
    PROVE  \E f : IsReplay(f, fd, n)
<1> DEFINE Hard == {m \in Nat : ~ \E f : IsReplay(f, fd, m)}
<1>1. ASSUME Hard # {} PROVE FALSE
  <2>1. PICK m \in Hard : \A k \in Hard : m <= k
    <3>1. Hard \in SUBSET Nat
      OBVIOUS
    <3> HIDE DEF Hard
    <3> QED
      BY <1>1, <3>1, LeastElement
  <2>2. m \in Nat /\ ~ \E f : IsReplay(f, fd, m)
    BY <2>1
  <2>3. m # 0
    <3>1. SUFFICES ASSUME m = 0 PROVE FALSE
      OBVIOUS
    <3>2. PICK f : f = [k \in 0 .. 0 |-> Blank]
      OBVIOUS
    <3>3. \A k \in 0 .. 0 : k = 0
      OBVIOUS
    <3>4. f = [k \in 0 .. 0 |-> IF k = 0 THEN Blank ELSE ReplayRecord(f[k - 1], fd[k], k)]
      BY <3>2, <3>3
    <3> QED
      BY <2>2, <3>1, <3>4 DEF IsReplay
  <2>4. m - 1 \in Nat /\ ~ (m <= m - 1)
    BY <2>2, <2>3
  <2>5. PICK f : IsReplay(f, fd, m - 1)
    BY <2>1, <2>4
  <2>6. PICK g : g = [k \in 0 .. m |-> IF k = m THEN ReplayRecord(f[m - 1], fd[m], m) ELSE f[k]]
    OBVIOUS
  <2>7. /\ f[0] = Blank
        /\ \A k \in 1 .. m - 1 : f[k] = ReplayRecord(f[k - 1], fd[k], k)
    BY <2>4, <2>5, ReplayAt
  <2>8. ASSUME NEW k \in 0 .. m
        PROVE  g[k] = IF k = 0 THEN Blank ELSE ReplayRecord(g[k - 1], fd[k], k)
    <3>1. CASE k = 0
      BY <2>2, <2>3, <2>6, <2>7, <3>1
    <3>2. CASE k = m
      <4>1. g[k] = ReplayRecord(f[m - 1], fd[m], m)
        BY <2>6, <3>2
      <4>2. g[m - 1] = f[m - 1]
        BY <2>2, <2>4, <2>6
      <4> QED
        BY <2>3, <3>2, <4>1, <4>2
    <3>3. CASE k # 0 /\ k # m
      <4>1. k \in 1 .. m - 1 /\ k - 1 \in 0 .. m /\ k - 1 # m
        BY <2>2, <3>3
      <4>2. g[k] = f[k] /\ g[k - 1] = f[k - 1]
        BY <2>6, <3>3, <4>1
      <4> QED
        BY <2>7, <3>3, <4>1, <4>2
    <3> QED
      BY <3>1, <3>2, <3>3
  <2>9. IsReplay(g, fd, m)
    <3>1. g = [k \in 0 .. m |-> g[k]]
      BY <2>6
    <3> QED
      BY <2>8, <3>1 DEF IsReplay
  <2> QED
    BY <2>2, <2>9
<1> QED
  BY <1>1

(* ... and in one way only: where the records agree, so do the replays.    *)
LEMMA ReplayUnique ==
    ASSUME NEW fd, NEW n \in Nat, NEW f, IsReplay(f, fd, n),
           NEW fd2, NEW n2 \in Nat, NEW g, IsReplay(g, fd2, n2),
           NEW k \in Nat, k <= n, k <= n2,
           \A m \in 1 .. k : fd2[m] = fd[m]
    PROVE  f[k] = g[k]
<1> DEFINE Bad == {m \in 0 .. k : f[m] # g[m]}
<1>1. ASSUME Bad # {} PROVE FALSE
  <2>1. PICK m \in Bad : \A j \in Bad : m <= j
    <3>1. Bad \in SUBSET Nat
      OBVIOUS
    <3> HIDE DEF Bad
    <3> QED
      BY <1>1, <3>1, LeastElement
  <2>2. m \in 0 .. k /\ f[m] # g[m]
    BY <2>1
  <2>3. /\ f[0] = Blank /\ g[0] = Blank
        /\ \A j \in 1 .. n : f[j] = ReplayRecord(f[j - 1], fd[j], j)
        /\ \A j \in 1 .. n2 : g[j] = ReplayRecord(g[j - 1], fd2[j], j)
    BY ReplayAt
  <2>4. m # 0
    BY <2>2, <2>3
  <2>5. m \in 1 .. k /\ m \in 1 .. n /\ m \in 1 .. n2 /\ m - 1 \in 0 .. k /\ ~ (m <= m - 1)
    BY <2>2, <2>4
  <2>6. f[m - 1] = g[m - 1]
    BY <2>1, <2>5
  <2>7. /\ f[m] = ReplayRecord(f[m - 1], fd[m], m)
        /\ g[m] = ReplayRecord(g[m - 1], fd2[m], m)
        /\ fd2[m] = fd[m]
    BY <2>3, <2>5
  <2> QED
    BY <2>2, <2>6, <2>7, Zenon
<1>2. k \in 0 .. k
  OBVIOUS
<1> QED
  BY <1>1, <1>2

(* The index that ReplayIndex gives is that of a replay.                   *)
LEMMA ReplayIndexIs ==
    ASSUME NEW fd, Len(fd) \in Nat
    PROVE  \E f : IsReplay(f, fd, Len(fd)) /\ ReplayIndex(fd) = f[Len(fd)]
<1> DEFINE upto[m \in 0 .. Len(fd)] ==
               IF m = 0 THEN [s \in Serials |-> EmptyIndex]
               ELSE ReplayRecord(upto[m - 1], fd[m], m)
<1>1. ReplayIndex(fd) = upto[Len(fd)]
  BY Zenon DEF ReplayIndex
<1>2. upto = CHOOSE f : IsReplay(f, fd, Len(fd))
  BY Zenon DEF IsReplay, Blank
<1> HIDE DEF upto
<1>3. IsReplay(upto, fd, Len(fd))
  <2>1. \E f : IsReplay(f, fd, Len(fd))
    BY ReplayExists
  <2> QED
    BY <1>2, <2>1, Zenon
<1> QED
  BY <1>1, <1>3, Zenon

(* Nothing to replay, nothing in the index.                                *)
LEMMA ReplayEmpty == ReplayIndex(<< >>) = Blank
<1>1. Len(<< >>) = 0 /\ 0 \in Nat
  OBVIOUS
<1>2. PICK f : IsReplay(f, << >>, 0) /\ ReplayIndex(<< >>) = f[0]
  BY <1>1, ReplayIndexIs
<1> QED
  BY <1>1, <1>2, ReplayAt

(* One more record is one more step.                                       *)
LEMMA ReplayAppend ==
    ASSUME NEW fd \in Seq(DataReg), NEW r \in DataReg
    PROVE  ReplayIndex(Append(fd, r)) = ReplayRecord(ReplayIndex(fd), r, Len(fd) + 1)
<1>0. PICK fd2 : fd2 = Append(fd, r)
  OBVIOUS
<1>1. PICK n \in Nat : n = Len(fd)
  OBVIOUS
<1>2. /\ Len(fd2) = n + 1 /\ n + 1 \in Nat /\ fd2[n + 1] = r
      /\ \A m \in 1 .. n : fd2[m] = fd[m]
  BY <1>0, <1>1
<1>3. PICK f : IsReplay(f, fd, n) /\ ReplayIndex(fd) = f[n]
  BY <1>1, ReplayIndexIs
<1>4. PICK g : IsReplay(g, fd2, n + 1) /\ ReplayIndex(fd2) = g[n + 1]
  BY <1>2, ReplayIndexIs
<1>5. f[n] = g[n]
  <2>1. n <= n /\ n <= n + 1
    OBVIOUS
  <2> QED
    BY <1>2, <1>3, <1>4, <2>1, ReplayUnique
<1>6. g[n + 1] = ReplayRecord(g[n], r, n + 1)
  <2>1. \A m \in 1 .. n + 1 : g[m] = ReplayRecord(g[m - 1], fd2[m], m)
    BY <1>2, <1>4, ReplayAt
  <2>2. n + 1 \in 1 .. n + 1 /\ (n + 1) - 1 = n
    OBVIOUS
  <2> QED
    BY <1>2, <2>1, <2>2
<1> QED
  BY <1>0, <1>1, <1>3, <1>4, <1>5, <1>6, Zenon

(* The last of some positions of the data file.                            *)
LEMMA LastPosition ==
    ASSUME NEW n \in Nat, NEW S \in SUBSET (1 .. n), S # {}
    PROVE  \E i \in S : \A j \in S : j <= i
<1> DEFINE Above == {n - i : i \in S}
<1>0. \A i \in S : n - i \in Nat
  OBVIOUS
<1>1. Above \in SUBSET Nat /\ Above # {}
  BY <1>0
<1>2. PICK a \in Above : \A b \in Above : a <= b
  <2> HIDE DEF Above
  <2> QED
    BY <1>1, LeastElement
<1>3. PICK i \in S : a = n - i
  BY <1>2
<1>4. ASSUME NEW j \in S PROVE j <= i
  <2>1. n - i <= n - j /\ i \in 1 .. n /\ j \in 1 .. n
    BY <1>2, <1>3
  <2> QED
    BY <2>1
<1> QED
  BY <1>4

(* Its choice, and the sequence that is read there, are a record's.        *)
LEMMA LastSequenceAt ==
    ASSUME NEW fd \in Seq(DataReg), NEW S \in SUBSET (1 .. Len(fd)), S # {}
    PROVE  \E i \in S : /\ \A j \in S : j <= i
                       /\ LastSequence(fd, S) = fd[i].sequence
                       /\ i = CHOOSE k \in S : \A j \in S : j <= k
<1>1. Len(fd) \in Nat
  OBVIOUS
<1>2. \E i \in S : \A j \in S : j <= i
  BY <1>1, LastPosition
<1>3. PICK i : i = CHOOSE k \in S : \A j \in S : j <= k
  OBVIOUS
<1>4. i \in S /\ \A j \in S : j <= i
  BY <1>2, <1>3
<1>5. LastSequence(fd, S) = fd[i].sequence
  BY <1>3, Zenon DEF LastSequence
<1> QED
  BY <1>3, <1>4, <1>5

(* A record more: the records of its type are one more, those of others    *)
(* the same.                                                               *)
LEMMA RecordsAppend ==
    ASSUME NEW fd \in Seq(DataReg), NEW r \in DataReg, NEW type
    PROVE  /\ r.type = type =>
                 RecordsOf(Append(fd, r), type) = RecordsOf(fd, type) \cup {Len(fd) + 1}
           /\ r.type # type => RecordsOf(Append(fd, r), type) = RecordsOf(fd, type)
           /\ RecordsOf(fd, type) \in SUBSET (1 .. Len(fd))
           /\ IsFiniteSet(RecordsOf(fd, type))
<1>0. PICK fd2 : fd2 = Append(fd, r)
  OBVIOUS
<1>1. PICK n \in Nat : n = Len(fd)
  OBVIOUS
<1>2. /\ DOMAIN fd = 1 .. n /\ DOMAIN fd2 = 1 .. n + 1 /\ fd2[n + 1] = r
      /\ \A m \in 1 .. n : fd2[m] = fd[m]
  BY <1>0, <1>1
<1>3. \A m : m \in 1 .. n + 1 <=> m \in 1 .. n \/ m = n + 1
  OBVIOUS
<1>4. RecordsOf(fd, type) = {m \in 1 .. n : fd[m].type = type}
  BY <1>2 DEF RecordsOf
<1>5. RecordsOf(fd2, type) = {m \in 1 .. n + 1 : fd2[m].type = type}
  BY <1>2 DEF RecordsOf
<1>6. r.type = type => RecordsOf(fd2, type) = RecordsOf(fd, type) \cup {n + 1}
  BY <1>2, <1>3, <1>4, <1>5
<1>7. r.type # type => RecordsOf(fd2, type) = RecordsOf(fd, type)
  BY <1>2, <1>3, <1>4, <1>5
<1>8. RecordsOf(fd, type) \in SUBSET (1 .. n)
  BY <1>4
<1>9. IsFiniteSet(RecordsOf(fd, type))
  <2>1. IsFiniteSet(1 .. n)
    BY FS_Interval
  <2> QED
    BY <1>8, <2>1, FS_Subset
<1> QED
  BY <1>0, <1>1, <1>6, <1>7, <1>8, <1>9

(* How many of them there are.                                             *)
Number(fd, type) == Cardinality(RecordsOf(fd, type))

(* The count of such records is one up, or as it was.                     *)
LEMMA NumberAppend ==
    ASSUME NEW fd \in Seq(DataReg), NEW r \in DataReg, NEW type
    PROVE  /\ Number(fd, type) \in Nat
           /\ Number(Append(fd, r), type)
                 = IF r.type = type THEN Number(fd, type) + 1 ELSE Number(fd, type)
<1>1. PICK old : old = RecordsOf(fd, type)
  OBVIOUS
<1>2. IsFiniteSet(old) /\ old \in SUBSET (1 .. Len(fd))
  BY <1>1, RecordsAppend
<1>3. Cardinality(old) \in Nat
  BY <1>2, FS_CardinalityType
<1>4. CASE r.type = type
  <2>1. RecordsOf(Append(fd, r), type) = old \cup {Len(fd) + 1}
    BY <1>1, <1>4, RecordsAppend
  <2>2. Len(fd) + 1 \notin old
    BY <1>2
  <2>3. Cardinality(old \cup {Len(fd) + 1}) = Cardinality(old) + 1
    BY <1>2, <2>2, FS_AddElement
  <2> QED
    BY <1>1, <1>3, <1>4, <2>1, <2>3 DEF Number
<1>5. CASE r.type # type
  <2>1. RecordsOf(Append(fd, r), type) = old
    BY <1>1, <1>5, RecordsAppend
  <2> QED
    BY <1>1, <1>3, <1>5, <2>1 DEF Number
<1> QED
  BY <1>4, <1>5

(* The sequence of the last COMMIT record.                                 *)
LastMarked(fd) == LastSequence(fd, RecordsOf(fd, "COMMIT"))

(* The last mark is the new record, or the one before it.                 *)
LEMMA MarkedAppend ==
    ASSUME NEW fd \in Seq(DataReg), NEW r \in DataReg
    PROVE  /\ LastMarked(fd) \in Int
           /\ LastMarked(Append(fd, r))
                 = IF r.type = "COMMIT" THEN r.sequence ELSE LastMarked(fd)
<1>0. PICK fd2 : fd2 = Append(fd, r)
  OBVIOUS
<1>1. PICK n \in Nat : n = Len(fd)
  OBVIOUS
<1>2. /\ fd2 \in Seq(DataReg) /\ Len(fd2) = n + 1 /\ fd2[n + 1] = r
      /\ \A m \in 1 .. n : fd2[m] = fd[m]
      /\ n + 1 \in 1 .. n + 1
  BY <1>0, <1>1
<1>3. PICK S, T : S = RecordsOf(fd, "COMMIT") /\ T = RecordsOf(fd2, "COMMIT")
  OBVIOUS
<1>4. /\ S \in SUBSET (1 .. n)
      /\ r.type = "COMMIT" => T = S \cup {n + 1}
      /\ r.type # "COMMIT" => T = S
  BY <1>0, <1>1, <1>3, RecordsAppend
<1>5. LastSequence(fd, S) \in Int
  <2>1. CASE S = {}
    BY <2>1 DEF LastSequence
  <2>2. CASE S # {}
    <3>1. PICK i \in S : LastSequence(fd, S) = fd[i].sequence
      BY <1>1, <1>4, <2>2, LastSequenceAt
    <3>2. fd[i] \in DataReg
      BY <1>1, <1>4
    <3> QED
      BY <3>1, <3>2 DEF DataReg
  <2> QED
    BY <2>1, <2>2
<1>6. CASE r.type = "COMMIT"
  <2>1. T \in SUBSET (1 .. Len(fd2)) /\ T # {} /\ n + 1 \in T
    <3>1. \A j \in 1 .. n : j \in 1 .. n + 1
      OBVIOUS
    <3>2. T = S \cup {n + 1} /\ Len(fd2) = n + 1 /\ n + 1 \in 1 .. n + 1
      BY <1>2, <1>4, <1>6
    <3>3. S \in SUBSET (1 .. n + 1)
      BY <1>4, <3>1
    <3> QED
      BY <3>2, <3>3, Zenon
  <2>2. PICK i \in T : (\A j \in T : j <= i) /\ LastSequence(fd2, T) = fd2[i].sequence
    BY <1>2, <2>1, LastSequenceAt
  <2>3. i = n + 1
    BY <1>4, <1>6, <2>1, <2>2
  <2> QED
    BY <1>0, <1>2, <1>3, <1>5, <1>6, <2>2, <2>3 DEF LastMarked
<1>7. CASE r.type # "COMMIT"
  <2>1. LastSequence(fd2, S) = LastSequence(fd, S)
    <3>1. CASE S = {}
      BY <3>1 DEF LastSequence
    <3>2. CASE S # {}
      <4>1. PICK i \in S : /\ LastSequence(fd, S) = fd[i].sequence
                           /\ i = CHOOSE k \in S : \A j \in S : j <= k
        BY <1>1, <1>4, <3>2, LastSequenceAt
      <4>2. LastSequence(fd2, S) = fd2[i].sequence
        BY <3>2, <4>1, Zenon DEF LastSequence
      <4>3. fd2[i] = fd[i]
        BY <1>2, <1>4
      <4> QED
        BY <4>1, <4>2, <4>3
    <3> QED
      BY <3>1, <3>2
  <2>2. T = S
    BY <1>4, <1>7
  <2> QED
    BY <1>0, <1>3, <1>5, <1>7, <2>1, <2>2 DEF LastMarked
<1> QED
  BY <1>6, <1>7

(* The sequence of the last record of all.                                 *)
LEMMA LastOfAll ==
    ASSUME NEW fd \in Seq(DataReg)
    PROVE  LastSequence(fd, DOMAIN fd) = Top(fd)
<1>1. PICK n \in Nat : n = Len(fd)
  OBVIOUS
<1>2. DOMAIN fd = 1 .. n
  BY <1>1
<1>3. CASE n = 0
  <2>1. fd = << >> /\ DOMAIN fd = {}
    BY <1>1, <1>2, <1>3
  <2> QED
    BY <2>1 DEF LastSequence, Top
<1>4. CASE n # 0
  <2>1. fd # << >> /\ n \in 1 .. n /\ 1 .. n # {} /\ 1 .. n \in SUBSET (1 .. Len(fd))
    BY <1>1, <1>4
  <2>2. PICK i \in 1 .. n : /\ \A j \in 1 .. n : j <= i
                            /\ LastSequence(fd, 1 .. n) = fd[i].sequence
    BY <2>1, LastSequenceAt
  <2>3. i = n
    BY <2>1, <2>2
  <2> QED
    BY <1>1, <1>2, <2>1, <2>2, <2>3 DEF Top
<1> QED
  BY <1>3, <1>4

(* The counters c are those that verify() finds in the data file or, but   *)
(* for the number of WRITE records, behind them.                           *)
Matches(fd, c) ==
    /\ c.count <= Len(fd)
    /\ c.data_count = Number(fd, "WRITE")
    /\ c.commit_count <= Number(fd, "COMMIT")
    /\ c.last_commit_sequence <= c.last_sequence
    /\ c.last_commit_sequence <= LastMarked(fd)

(* The data file tells the index, and what the object and the state file   *)
(* may know; the state file knows no more than the object.                 *)
Mastered(st) ==
    /\ st.findex = ReplayIndex(st.fdata)
    /\ Matches(st.fdata, st.state)
    /\ Matches(st.fdata, st.fstate)
    /\ SavedLast(st) <= Last(st)

(* A record that the counters count.                                       *)
LEMMA MatchesNext ==
    ASSUME NEW fd \in Seq(DataReg), NEW r \in DataReg, NEW c \in State, NEW d \in State,
           Matches(fd, c), c.last_sequence < r.sequence,
           d.count = c.count + 1,
           d.data_count = c.data_count + (IF r.type = "WRITE" THEN 1 ELSE 0),
           d.commit_count = c.commit_count + (IF r.type = "COMMIT" THEN 1 ELSE 0),
           d.last_sequence = r.sequence,
           d.last_commit_sequence
              = IF r.type = "COMMIT" THEN r.sequence ELSE c.last_commit_sequence
    PROVE  Matches(Append(fd, r), d)
<1>0. PICK fd2 : fd2 = Append(fd, r)
  OBVIOUS
<1>1. Len(fd) \in Nat /\ Len(fd2) = Len(fd) + 1
  BY <1>0
<1>2. /\ c.count \in Int /\ c.data_count \in Int /\ c.commit_count \in Int
      /\ c.last_sequence \in Int /\ c.last_commit_sequence \in Int
      /\ r.sequence \in Int
  BY DEF State, DataReg
<1>3. /\ Number(fd, "WRITE") \in Nat /\ Number(fd, "COMMIT") \in Nat
      /\ Number(fd2, "WRITE")
            = IF r.type = "WRITE" THEN Number(fd, "WRITE") + 1 ELSE Number(fd, "WRITE")
      /\ Number(fd2, "COMMIT")
            = IF r.type = "COMMIT" THEN Number(fd, "COMMIT") + 1 ELSE Number(fd, "COMMIT")
  BY <1>0, NumberAppend
<1>4. /\ LastMarked(fd) \in Int
      /\ LastMarked(fd2) = IF r.type = "COMMIT" THEN r.sequence ELSE LastMarked(fd)
  BY <1>0, MarkedAppend
<1>5. /\ c.count <= Len(fd) /\ c.data_count = Number(fd, "WRITE")
      /\ c.commit_count <= Number(fd, "COMMIT")
      /\ c.last_commit_sequence <= c.last_sequence
      /\ c.last_commit_sequence <= LastMarked(fd)
  BY DEF Matches
<1>6. d.count <= Len(fd2)
  BY <1>1, <1>2, <1>5
<1>7. d.data_count = Number(fd2, "WRITE")
  BY <1>2, <1>3, <1>5
<1>8. d.commit_count <= Number(fd2, "COMMIT")
  BY <1>2, <1>3, <1>5
<1>9. d.last_commit_sequence <= d.last_sequence /\ d.last_commit_sequence <= LastMarked(fd2)
  BY <1>2, <1>4, <1>5
<1> QED
  BY <1>0, <1>6, <1>7, <1>8, <1>9 DEF Matches

(* A record that they do not count, and that is no WRITE.                  *)
LEMMA MatchesStill ==
    ASSUME NEW fd \in Seq(DataReg), NEW r \in DataReg, NEW c \in State,
           Matches(fd, c), c.last_sequence < r.sequence, r.type # "WRITE"
    PROVE  Matches(Append(fd, r), c)
<1>0. PICK fd2 : fd2 = Append(fd, r)
  OBVIOUS
<1>1. Len(fd) \in Nat /\ Len(fd2) = Len(fd) + 1
  BY <1>0
<1>2. /\ c.count \in Int /\ c.commit_count \in Int
      /\ c.last_sequence \in Int /\ c.last_commit_sequence \in Int
      /\ r.sequence \in Int
  BY DEF State, DataReg
<1>3. /\ Number(fd, "COMMIT") \in Nat
      /\ Number(fd2, "WRITE") = Number(fd, "WRITE")
      /\ Number(fd2, "COMMIT")
            = IF r.type = "COMMIT" THEN Number(fd, "COMMIT") + 1 ELSE Number(fd, "COMMIT")
  BY <1>0, NumberAppend
<1>4. /\ LastMarked(fd) \in Int
      /\ LastMarked(fd2) = IF r.type = "COMMIT" THEN r.sequence ELSE LastMarked(fd)
  BY <1>0, MarkedAppend
<1> QED
  BY <1>0, <1>1, <1>2, <1>3, <1>4 DEF Matches

(* What a record does in a replay.                                         *)
LEMMA ReplayRecordIs ==
    ASSUME NEW ix, NEW r, NEW off
    PROVE  /\ r.type = "WRITE" => ReplayRecord(ix, r, off) = Rewritten(ix, off, r)
           /\ r.type = "ROLLBACK_BEGIN" =>
                 ReplayRecord(ix, r, off) = [s \in Serials |-> UndoIndex(ix[s], r.serials, s)]
           /\ r.type \notin {"WRITE", "ROLLBACK_BEGIN"} => ReplayRecord(ix, r, off) = ix
<1>1. CASE r.type = "WRITE"
  <2>1. ReplayRecord(ix, r, off) = Rewritten(ix, off, r)
    BY <1>1, Zenon DEF ReplayRecord, Rewritten
  <2> QED
    BY <1>1, <2>1
<1>2. CASE r.type = "ROLLBACK_BEGIN"
  BY <1>2 DEF ReplayRecord
<1>3. CASE r.type \notin {"WRITE", "ROLLBACK_BEGIN"}
  BY <1>3 DEF ReplayRecord
<1> QED
  BY <1>1, <1>2, <1>3

(* new is st with the record r in the data file, the index that a replay   *)
(* makes of it, and counters that count it, saved or not.                  *)
Replayed(st, new, r) ==
    /\ StoreInv(new)
    /\ new.fdata = Append(st.fdata, r)
    /\ new.findex = ReplayRecord(st.findex, r, Len(st.fdata) + 1)
    /\ CountedBy(st, new, 1, r.sequence)
    /\ Tallied(st, new, IF r.type = "WRITE" THEN 1 ELSE 0,
                        IF r.type = "COMMIT" THEN 1 ELSE 0)
    /\ LastSeq(new) = IF r.type = "COMMIT" THEN r.sequence ELSE LastSeq(st)
    /\ \/ new.fstate = new.state
       \/ new.fstate = st.fstate /\ r.type # "WRITE"

(* A store that appends a record and changes as a replay of it does stays   *)
(* what its data file says.                                                 *)
LEMMA ReplayedMastered ==
    ASSUME NEW st, StoreInv(st), Mastered(st),
           NEW r \in DataReg, r.sequence = Last(st) + 1,
           NEW new, Replayed(st, new, r)
    PROVE  Mastered(new)
<1>1. /\ st.fdata \in Seq(DataReg) /\ st.state \in State /\ st.fstate \in State
      /\ new.state \in State /\ new.fstate \in State
      /\ Last(st) \in Int /\ SavedLast(st) \in Int /\ r.sequence \in Int
  BY DEF StoreInv, Stores, Replayed, Last, SavedLast, State, DataReg
<1>2. st.state.last_sequence < r.sequence /\ st.fstate.last_sequence < r.sequence
  BY <1>1 DEF Mastered, Last, SavedLast
<1>3. new.fdata = Append(st.fdata, r)
  BY DEF Replayed
<1>4. new.findex = ReplayIndex(new.fdata)
  <2>1. ReplayIndex(Append(st.fdata, r))
           = ReplayRecord(ReplayIndex(st.fdata), r, Len(st.fdata) + 1)
    BY <1>1, ReplayAppend
  <2>2. st.findex = ReplayIndex(st.fdata)
    BY DEF Mastered
  <2>3. new.findex = ReplayRecord(st.findex, r, Len(st.fdata) + 1)
    BY DEF Replayed
  <2> QED
    BY <1>3, <2>1, <2>2, <2>3, Zenon
<1>5. Matches(new.fdata, new.state)
  <2>1. PICK c \in State, d \in State : c = st.state /\ d = new.state
    BY <1>1
  <2>2. /\ d.count = c.count + 1
        /\ d.data_count = c.data_count + (IF r.type = "WRITE" THEN 1 ELSE 0)
        /\ d.commit_count = c.commit_count + (IF r.type = "COMMIT" THEN 1 ELSE 0)
        /\ d.last_sequence = r.sequence
        /\ d.last_commit_sequence
              = IF r.type = "COMMIT" THEN r.sequence ELSE c.last_commit_sequence
    BY <2>1 DEF Replayed, CountedBy, Tallied, Last, LastSeq
  <2>3. Matches(st.fdata, c) /\ c.last_sequence < r.sequence
    BY <1>2, <2>1 DEF Mastered
  <2>4. Matches(Append(st.fdata, r), d)
    BY <1>1, <2>2, <2>3, MatchesNext
  <2> QED
    BY <1>3, <2>1, <2>4
<1>6. Matches(new.fdata, new.fstate)
  <2>1. CASE new.fstate = new.state
    BY <1>5, <2>1
  <2>2. CASE new.fstate = st.fstate /\ r.type # "WRITE"
    <3>1. Matches(Append(st.fdata, r), st.fstate)
      <4>1. Matches(st.fdata, st.fstate)
        BY DEF Mastered
      <4> QED
        BY <1>1, <1>2, <2>2, <4>1, MatchesStill
    <3> QED
      BY <1>3, <2>2, <3>1
  <2> QED
    BY <2>1, <2>2 DEF Replayed
<1>7. SavedLast(new) <= Last(new)
  <2>1. Last(new) = r.sequence
    BY DEF Replayed, CountedBy
  <2>2. SavedLast(new) = Last(new) \/ SavedLast(new) = SavedLast(st)
    BY DEF Replayed, SavedLast, Last
  <2> QED
    BY <1>1, <1>2, <2>1, <2>2 DEF SavedLast
<1> QED
  BY <1>4, <1>5, <1>6, <1>7 DEF Mastered

(* The snapshot's STATUS record counts, and changes nothing else.          *)
LEMMA SnapshotMastered ==
    ASSUME NEW st, StoreInv(st), Mastered(st)
    PROVE  StoreInv(StatusSnapshot(st, TRUE)) /\ Mastered(StatusSnapshot(st, TRUE))
<1>1. PICK ok \in BOOLEAN : ok = TRUE
  OBVIOUS
<1>2. PICK new : new = StatusSnapshot(st, ok)
  OBVIOUS
<1>3. StoreInv(new)
  BY <1>2, StatusSnapshotInv
<1>4. CASE st.state.count % StatusFreq # StatusFreq - 1
  <2>1. new = st
    BY <1>1, <1>2, <1>4, StatusSnapshotEffect
  <2> QED
    BY <1>1, <1>2, <1>3, <2>1, Zenon
<1>5. CASE st.state.count % StatusFreq = StatusFreq - 1
  <2>1. PICK r : r = MarkReg("STATUS", Last(st) + 1, << >>)
    OBVIOUS
  <2>2. /\ SameBut(st, new, {"fdata", "flog", "fstate", "state"})
        /\ new.fdata = DataWith(st.fdata, r, ok)
        /\ CountedBy(st, new, 1, Last(st) + 1)
        /\ LastSeq(new) = LastSeq(st)
        /\ Tallied(st, new, 0, 0)
        /\ new.fstate = new.state
    BY <1>1, <1>2, <1>3, <1>5, <2>1, StatusSnapshotEffect
  <2>3. r \in DataReg /\ r.sequence = Last(st) + 1 /\ r.type = "STATUS"
    <3>1. << >> \in Seq(Serials) /\ "STATUS" \in RecordTypes /\ Last(st) + 1 \in Int
      BY DEF RecordTypes, StoreInv, Stores, State, Last
    <3>2. r \in DataReg
      BY <2>1, <3>1, MarkRegType
    <3> QED
      BY <2>1, <3>2 DEF MarkReg
  <2>4. new.fdata = Append(st.fdata, r) /\ new.findex = st.findex
    BY <1>1, <2>2 DEF DataWith, SameBut
  <2>5. ReplayRecord(st.findex, r, Len(st.fdata) + 1) = st.findex
    BY <2>3, ReplayRecordIs
  <2>6. Replayed(st, new, r)
    BY <1>3, <2>2, <2>3, <2>4, <2>5 DEF Replayed
  <2>7. Mastered(new)
    BY <2>3, <2>6, ReplayedMastered
  <2> QED
    BY <1>1, <1>2, <1>3, <2>7, Zenon
<1> QED
  BY <1>4, <1>5

(* A record with the snapshot that may follow.                             *)
LEMMA FollowedMastered ==
    ASSUME NEW st, StoreInv(st), Mastered(st),
           NEW r \in DataReg, r.sequence = Last(st) + 1,
           NEW mid, Replayed(st, mid, r)
    PROVE  StoreInv(StatusSnapshot(mid, TRUE)) /\ Mastered(StatusSnapshot(mid, TRUE))
<1>1. StoreInv(mid)
  BY DEF Replayed
<1>2. Mastered(mid)
  BY ReplayedMastered
<1> QED
  BY <1>1, <1>2, SnapshotMastered

(* writeFiles, when its append succeeds: a WRITE,                          *)
LEMMA WriteMastered ==
    ASSUME NEW st, StoreInv(st), Mastered(st), NEW r \in DataReg, r.type = "WRITE",
           r.serial \in Serials, r.sequence = Last(st) + 1
    PROVE  StoreInv(WriteFiles(st, r, TRUE)) /\ Mastered(WriteFiles(st, r, TRUE))
<1>1. PICK mid : mid = ApplyWrite(CountRecord(st, r.sequence), r, TRUE)
  OBVIOUS
<1>2. AfterWrite(st, mid, r)
  BY <1>1, WriteEffect
<1>3. StoreInv(mid)
  <2>1. r.sequence \in Int
    BY DEF DataReg
  <2>2. StoreInv(CountRecord(st, r.sequence))
    BY <2>1, CountRecordInv
  <2>3. PICK ok \in BOOLEAN : ok = TRUE
    OBVIOUS
  <2>4. StoreInv(ApplyWrite(CountRecord(st, r.sequence), r, ok))
    BY <2>2, ApplyWriteInv
  <2> QED
    BY <1>1, <2>3, <2>4
<1>4. mid.findex = ReplayRecord(st.findex, r, Len(st.fdata) + 1)
  <2>1. mid.findex = Rewritten(st.findex, Len(st.fdata) + 1, r)
    BY <1>2, Zenon DEF AfterWrite, Rewritten
  <2>2. ReplayRecord(st.findex, r, Len(st.fdata) + 1)
           = Rewritten(st.findex, Len(st.fdata) + 1, r)
    BY ReplayRecordIs
  <2> QED
    BY <2>1, <2>2, Zenon
<1>5. Replayed(st, mid, r)
  <2>1. /\ mid.fdata = Append(st.fdata, r)
        /\ CountedBy(st, mid, 1, r.sequence)
        /\ LastSeq(mid) = LastSeq(st)
        /\ Tallied(st, mid, 1, 0)
        /\ mid.fstate = mid.state
    BY <1>2, Zenon DEF AfterWrite
  <2> QED
    BY <1>3, <1>4, <2>1 DEF Replayed
<1>6. WriteFiles(st, r, TRUE) = StatusSnapshot(mid, TRUE)
  BY <1>1 DEF WriteFiles
<1>7. StoreInv(StatusSnapshot(mid, TRUE)) /\ Mastered(StatusSnapshot(mid, TRUE))
  BY <1>5, FollowedMastered
<1> QED
  BY <1>6, <1>7

(* ... a COMMIT, or a record of a rollback.                                *)
LEMMA MarkMastered ==
    ASSUME NEW st, StoreInv(st), Mastered(st), NEW r \in DataReg,
           r.type \in {"COMMIT", "ROLLBACK_BEGIN", "ROLLBACK_END"},
           r.sequence = Last(st) + 1
    PROVE  StoreInv(WriteFiles(st, r, TRUE)) /\ Mastered(WriteFiles(st, r, TRUE))
<1>1. PICK ok \in BOOLEAN : ok = TRUE
  OBVIOUS
<1>2. PICK c : c = CountRecord(st, r.sequence)
  OBVIOUS
<1>3. StoreInv(c) /\ c.state.last_sequence = r.sequence
  <2>1. r.sequence \in Int
    BY DEF DataReg
  <2> QED
    BY <1>2, <2>1, CountRecordInv
<1>4. ASSUME NEW mid, Replayed(st, mid, r), WriteFiles(st, r, ok) = StatusSnapshot(mid, ok)
      PROVE  StoreInv(WriteFiles(st, r, TRUE)) /\ Mastered(WriteFiles(st, r, TRUE))
  <2>1. StoreInv(StatusSnapshot(mid, TRUE)) /\ Mastered(StatusSnapshot(mid, TRUE))
    BY <1>4, FollowedMastered
  <2> QED
    BY <1>1, <1>4, <2>1
<1>5. CASE r.type = "COMMIT"
  <2>1. PICK mid : mid = ApplyCommit(c, r, ok)
    OBVIOUS
  <2>2. StoreInv(mid)
    BY <1>3, <2>1, ApplyCommitInv
  <2>3. /\ SameBut(st, mid, {"fdata", "flog", "state"})
        /\ mid.fdata = DataWith(st.fdata, r, ok)
        /\ CountedBy(st, mid, 1, r.sequence)
        /\ LastSeq(mid) = r.sequence
        /\ Tallied(st, mid, 0, 1)
    BY <1>2, <2>1, CommitEffect
  <2>4. /\ mid.fdata = Append(st.fdata, r) /\ mid.findex = st.findex
        /\ mid.fstate = st.fstate
    BY <1>1, <2>3 DEF DataWith, SameBut
  <2>5. ReplayRecord(st.findex, r, Len(st.fdata) + 1) = st.findex
    BY <1>5, ReplayRecordIs
  <2>6. Replayed(st, mid, r)
    BY <1>5, <2>2, <2>3, <2>4, <2>5 DEF Replayed
  <2>7. WriteFiles(st, r, ok) = StatusSnapshot(mid, ok)
    BY <1>2, <1>5, <2>1 DEF WriteFiles
  <2> QED
    BY <1>4, <2>6, <2>7
<1>6. PICK beg, end : beg = ApplyRollbackBegin(c, r, ok) /\ end = ApplyRollbackEnd(c, r, ok)
  OBVIOUS
<1>7. StoreInv(beg) /\ StoreInv(end)
  BY <1>3, <1>6, ApplyRollbackInv
<1>8. /\ SameBut(st, end, {"fdata", "flog", "state"})
      /\ SameBut(end, beg, {"findex"})
      /\ beg.findex = [s \in Serials |-> UndoIndex(st.findex[s], r.serials, s)]
      /\ end.fdata = DataWith(st.fdata, r, ok)
      /\ CountedBy(st, end, 1, r.sequence)
      /\ LastSeq(end) = LastSeq(st)
      /\ Tallied(st, end, 0, 0)
  BY <1>2, <1>6, RollbackEffect
<1>9. /\ end.fdata = Append(st.fdata, r) /\ end.findex = st.findex
      /\ end.fstate = st.fstate
      /\ beg.fdata = end.fdata /\ beg.fstate = end.fstate /\ beg.state = end.state
  BY <1>1, <1>8 DEF DataWith, SameBut
<1>10. CASE r.type = "ROLLBACK_BEGIN"
  <2>1. ReplayRecord(st.findex, r, Len(st.fdata) + 1) = beg.findex
    BY <1>8, <1>10, ReplayRecordIs
  <2>2. /\ CountedBy(st, beg, 1, r.sequence) /\ LastSeq(beg) = LastSeq(st)
        /\ Tallied(st, beg, 0, 0)
    BY <1>8, <1>9 DEF CountedBy, Last, LastSeq, Tallied
  <2>3. Replayed(st, beg, r)
    BY <1>7, <1>9, <1>10, <2>1, <2>2 DEF Replayed
  <2>4. WriteFiles(st, r, ok) = StatusSnapshot(beg, ok)
    BY <1>2, <1>6, <1>10 DEF WriteFiles
  <2> QED
    BY <1>4, <2>3, <2>4
<1>11. CASE r.type = "ROLLBACK_END"
  <2>1. ReplayRecord(st.findex, r, Len(st.fdata) + 1) = st.findex
    BY <1>11, ReplayRecordIs
  <2>2. Replayed(st, end, r)
    BY <1>7, <1>8, <1>9, <1>11, <2>1 DEF Replayed
  <2>3. WriteFiles(st, r, ok) = StatusSnapshot(end, ok)
    BY <1>2, <1>6, <1>11 DEF WriteFiles
  <2> QED
    BY <1>4, <2>2, <2>3
<1> QED
  BY <1>5, <1>10, <1>11

(* The data file is the master of index and state file, whether the        *)
(* storage is open or not, and of the object while it is.                  *)
MasterInv ==
    /\ findex = ReplayIndex(fdata)
    /\ Matches(fdata, fstate)
    /\ opened => Mastered(Store)

(* A call that ends with a store that its data file masters.               *)
LEMMA BecomesMastered ==
    ASSUME NEW st, StoreInv(st), Mastered(st),
           Becomes(ClearDirtySerials(st)) \/ Becomes(st)
    PROVE  MasterInv'
<1>1. st \in Stores
  BY DEF StoreInv
<1>2. /\ fdata' = st.fdata /\ findex' = st.findex
      /\ state' = st.state /\ fstate' = st.fstate
  BY <1>1, ClearEffect DEF Becomes, SameBut
<1>3. findex' = ReplayIndex(fdata') /\ Matches(fdata', fstate') /\ Matches(fdata', state')
  BY <1>2 DEF Mastered
<1>4. fstate'.last_sequence <= state'.last_sequence
  BY <1>2 DEF Mastered, SavedLast, Last
<1> QED
  BY <1>3, <1>4 DEF MasterInv, Mastered, Store, SavedLast, Last

(* The calls preserve it, as long as no append fails.                      *)
LEMMA WriteKeepsMaster ==
    ASSUME Inv, MasterInv, NEW s \in Serials, NEW v \in Values, Write(s, v, TRUE)
    PROVE  MasterInv'
<1>1. StoreInv(Store) /\ Mastered(Store)
  BY DEF Inv, MasterInv, Write
<1>2. PICK seq : seq = state.last_sequence + 1
  OBVIOUS
<1>3. PICK r : r = WriteReg(s, seq, fauto_commit, v)
  OBVIOUS
<1>4. /\ r \in DataReg /\ r.type = "WRITE" /\ r.serial \in Serials
      /\ r.sequence = Last(Store) + 1
  <2>1. seq \in Int /\ fauto_commit \in BOOLEAN
    BY <1>2, NextSequence DEF Inv
  <2> QED
    BY <1>2, <1>3, <2>1, WriteRegType DEF Last, Store
<1>5. StoreInv(WriteFiles(Store, r, TRUE)) /\ Mastered(WriteFiles(Store, r, TRUE))
  BY <1>1, <1>4, WriteMastered
<1>6. Becomes(WriteFiles(Store, r, TRUE))
  BY <1>2, <1>3 DEF Write
<1> QED
  BY <1>5, <1>6, BecomesMastered

(* A commit appends its mark and counts it.                               *)
LEMMA CommitKeepsMaster ==
    ASSUME Inv, MasterInv, Commit(TRUE)
    PROVE  MasterInv'
<1>1. StoreInv(Store) /\ Mastered(Store)
  BY DEF Inv, MasterInv, Commit
<1>2. PICK r : r = MarkReg("COMMIT", state.last_sequence + 1, << >>)
  OBVIOUS
<1>3. /\ r \in DataReg /\ r.type \in {"COMMIT", "ROLLBACK_BEGIN", "ROLLBACK_END"}
      /\ r.sequence = Last(Store) + 1
  <2>1. "COMMIT" \in RecordTypes /\ << >> \in Seq(Serials)
    BY DEF RecordTypes
  <2>2. state.last_sequence + 1 \in Int
    BY NextSequence
  <2>3. r \in DataReg
    BY <1>2, <2>1, <2>2, MarkRegType
  <2> QED
    BY <1>2, <2>3 DEF Last, Store, MarkReg
<1>4. StoreInv(WriteFiles(Store, r, TRUE)) /\ Mastered(WriteFiles(Store, r, TRUE))
  BY <1>1, <1>3, MarkMastered
<1>5. Becomes(ClearDirtySerials(WriteFiles(Store, r, TRUE)))
  BY <1>2 DEF Commit
<1> QED
  BY <1>4, <1>5, BecomesMastered, Zenon

(* A rollback appends the records that undo the transaction.             *)
LEMMA RollbackKeepsMaster ==
    ASSUME Inv, MasterInv, Rollback(TRUE, TRUE)
    PROVE  MasterInv'
<1>1. StoreInv(Store) /\ Mastered(Store)
  BY DEF Inv, MasterInv, Rollback
<1>2. PICK r : r = MarkReg("ROLLBACK_BEGIN", state.last_sequence + 1, dirtySerials)
  OBVIOUS
<1>3. /\ r \in DataReg /\ r.type \in {"COMMIT", "ROLLBACK_BEGIN", "ROLLBACK_END"}
      /\ r.sequence = Last(Store) + 1
  <2>1. "ROLLBACK_BEGIN" \in RecordTypes /\ dirtySerials \in Seq(Serials)
    BY InvImplies DEF RecordTypes, TypeOK
  <2>2. state.last_sequence + 1 \in Int
    BY NextSequence
  <2> QED
    BY <1>2, <2>1, <2>2, MarkRegType DEF Last, Store
<1>4. PICK beg : beg = WriteFiles(Store, r, TRUE)
  BY Zenon
<1>5. StoreInv(beg) /\ Mastered(beg)
  BY <1>1, <1>3, <1>4, MarkMastered
<1>6. PICK e : e = MarkReg("ROLLBACK_END", beg.state.last_sequence + 1, << >>)
  OBVIOUS
<1>7. /\ e \in DataReg /\ e.type \in {"COMMIT", "ROLLBACK_BEGIN", "ROLLBACK_END"}
      /\ e.sequence = Last(beg) + 1
  <2>1. "ROLLBACK_END" \in RecordTypes /\ << >> \in Seq(Serials)
    BY DEF RecordTypes
  <2>2. beg.state.last_sequence + 1 \in Int
    BY <1>5 DEF StoreInv, Stores, State
  <2>3. e \in DataReg
    BY <1>6, <2>1, <2>2, MarkRegType
  <2> QED
    BY <1>6, <2>3 DEF Last, MarkReg
<1>8. StoreInv(WriteFiles(beg, e, TRUE)) /\ Mastered(WriteFiles(beg, e, TRUE))
  BY <1>5, <1>7, MarkMastered
<1>9. Becomes(ClearDirtySerials(WriteFiles(beg, e, TRUE)))
  BY <1>2, <1>4, <1>6 DEF Rollback, RollbackBegin, RollbackEnd
<1> QED
  BY <1>8, <1>9, BecomesMastered, Zenon

(* close() saves what the object knows; open() knows what was saved; a     *)
(* death forgets what was not.                                             *)
LEMMA RestKeepsMaster ==
    ASSUME Inv, MasterInv, Close \/ (\E auto \in BOOLEAN : Open(auto)) \/ Crash \/ UNCHANGED vars
    PROVE  MasterInv'
<1>1. fdata' = fdata /\ findex' = findex
  <2>1. CASE Close
    <3>1. PICK sv : sv = SaveState(Store)
      OBVIOUS
    <3>2. StoreInv(sv) /\ SameBut(Store, sv, {"fstate"})
      BY <3>1, SaveStateInv, SaveStateEffect DEF Inv, StoreInv
    <3>3. Becomes(ClearDirtySerials(sv))
      BY <2>1, <3>1 DEF Close
    <3>4. fdata' = sv.fdata /\ findex' = sv.findex
      BY <3>2, <3>3, ClearEffect DEF Becomes, SameBut, StoreInv
    <3> QED
      BY <3>2, <3>4 DEF SameBut, Store
  <2> QED
    BY <2>1 DEF Open, Crash, vars, files
<1>2. findex' = ReplayIndex(fdata')
  BY <1>1 DEF MasterInv
<1>3. Mastered(Store) <=> /\ findex = ReplayIndex(fdata)
                          /\ Matches(fdata, state) /\ Matches(fdata, fstate)
                          /\ fstate.last_sequence <= state.last_sequence
  BY DEF Mastered, Store, SavedLast, Last
<1>4. CASE Close
  <2>1. Matches(fdata, state)
    BY <1>3, <1>4 DEF MasterInv, Close
  <2>2. fstate' = state /\ ~opened'
    <3>1. PICK sv : sv = SaveState(Store)
      OBVIOUS
    <3>2. StoreInv(sv) /\ sv.fstate = state
      BY <3>1, SaveStateInv, SaveStateEffect DEF Inv, StoreInv, Store
    <3>3. Becomes(ClearDirtySerials(sv)) /\ ~opened'
      BY <1>4, <3>1 DEF Close
    <3> QED
      BY <3>2, <3>3, ClearEffect DEF Becomes, SameBut, StoreInv
  <2>3. Matches(fdata', fstate')
    BY <1>1, <2>1, <2>2
  <2> QED
    BY <1>2, <2>2, <2>3 DEF MasterInv
<1>5. CASE \E auto \in BOOLEAN : Open(auto)
  <2>1. fstate' = fstate /\ state' = fstate
    BY <1>5 DEF Open
  <2>2. Matches(fdata', fstate') /\ Matches(fdata', state')
    BY <1>1, <2>1 DEF MasterInv
  <2>3. fstate'.last_sequence <= state'.last_sequence
    <3>1. fstate.last_sequence \in Int
      BY DEF Inv, StoreInv, Stores, Store, State
    <3> QED
      BY <2>1, <3>1
  <2> QED
    BY <1>2, <2>2, <2>3 DEF MasterInv, Mastered, Store, SavedLast, Last
<1>6. CASE Crash
  <2>1. fstate' = fstate /\ ~opened'
    BY <1>6 DEF Crash, files
  <2>2. Matches(fdata', fstate')
    BY <1>1, <2>1 DEF MasterInv
  <2> QED
    BY <1>2, <2>1, <2>2 DEF MasterInv
<1>7. CASE UNCHANGED vars
  <2>1. fstate' = fstate /\ state' = state /\ opened' = opened
    BY <1>7 DEF vars
  <2>2. Matches(fdata', fstate')
    BY <1>1, <2>1 DEF MasterInv
  <2>3. opened' => Matches(fdata', state') /\ fstate'.last_sequence <= state'.last_sequence
    BY <1>1, <1>3, <2>1 DEF MasterInv
  <2> QED
    BY <1>2, <2>2, <2>3 DEF MasterInv, Mastered, Store, SavedLast, Last
<1> QED
  BY <1>4, <1>5, <1>6, <1>7

(* Every step of a storage whose appends succeed.                         *)
LEMMA NextKeepsMaster ==
    ASSUME "fault" \notin Allowed, Inv, MasterInv, [Next]_vars
    PROVE  MasterInv'
<1>1. AppendOutcomes = {TRUE}
  BY DEF AppendOutcomes
<1>2. CASE \E s \in Serials, v \in Values, ok \in AppendOutcomes : Write(s, v, ok)
  BY <1>1, <1>2, WriteKeepsMaster
<1>3. CASE \E ok \in AppendOutcomes : Commit(ok)
  BY <1>1, <1>3, CommitKeepsMaster
<1>4. CASE \E ok1, ok2 \in AppendOutcomes : Rollback(ok1, ok2)
  BY <1>1, <1>4, RollbackKeepsMaster
<1>5. CASE Close \/ (\E auto \in BOOLEAN : Open(auto)) \/ Crash \/ UNCHANGED vars
  BY <1>5, RestKeepsMaster
<1> QED
  BY <1>2, <1>3, <1>4, <1>5 DEF Next

(* Empty files have nothing to tell.                                       *)
LEMMA InitMaster == Init => MasterInv
<1> SUFFICES ASSUME Init PROVE MasterInv
  OBVIOUS
<1>1. /\ fdata = << >> /\ findex = Blank
      /\ fstate = ZeroState /\ state = ZeroState
  BY DEF Init, Blank
<1>2. /\ Len(<< >>) = 0 /\ DOMAIN << >> = {}
  OBVIOUS
<1>3. \A type : RecordsOf(<< >>, type) = {}
  BY <1>2 DEF RecordsOf
<1>4. \A type : Number(<< >>, type) = 0
  BY <1>3, FS_EmptySet DEF Number
<1>5. LastMarked(<< >>) = 0
  BY <1>3 DEF LastMarked, LastSequence
<1>6. Matches(<< >>, ZeroState)
  BY <1>2, <1>4, <1>5 DEF Matches, ZeroState
<1>7. ZeroState.last_sequence <= ZeroState.last_sequence
  BY DEF ZeroState
<1>8. findex = ReplayIndex(fdata)
  BY <1>1, ReplayEmpty
<1>9. Matches(fdata, fstate) /\ Matches(fdata, state)
  BY <1>1, <1>6
<1> QED
  BY <1>1, <1>7, <1>8, <1>9 DEF MasterInv, Mastered, Store, SavedLast, Last

(* What MasterInv and LogInv say is what DataIsMaster says.                *)
LEMMA MasterInvMeans ==
    ASSUME LogInv, MasterInv
    PROVE  DataIsMaster
<1>1. PICK known \in State : known = IF opened THEN state ELSE fstate
  BY DEF LogInv, Inv, StoreInv, Stores, Store
<1>2. Matches(fdata, known)
  BY <1>1 DEF MasterInv, Mastered, Store
<1>3. known.last_sequence <= Top(fdata)
  BY <1>1 DEF LogInv, FilesOK, ObjectOK, Last, SavedLast, Store
<1>4. fdata \in Seq(DataReg)
  BY DEF LogInv, Inv, StoreInv, Stores, Store
<1>5. PICK re : re = Recalculated(fdata)
  OBVIOUS
<1>6. /\ re.count = Len(fdata) /\ re.data_count = Number(fdata, "WRITE")
      /\ re.commit_count = Number(fdata, "COMMIT")
      /\ re.last_sequence = Top(fdata)
      /\ re.last_commit_sequence = LastMarked(fdata)
  BY <1>4, <1>5, LastOfAll DEF Recalculated, Number, LastMarked
<1>7. /\ known.last_commit_sequence \in Int /\ known.last_sequence \in Int
      /\ known.data_count \in Int /\ known.data_count <= known.data_count
      /\ DOMAIN known = {"count", "data_count", "commit_count", "last_sequence",
                         "last_commit_sequence"}
  BY DEF State
<1>8. /\ known.count <= re.count /\ known.data_count <= re.data_count
      /\ known.commit_count <= re.commit_count
      /\ known.last_sequence <= re.last_sequence
      /\ known.last_commit_sequence <= re.last_commit_sequence
      /\ known.data_count = re.data_count
  BY <1>2, <1>3, <1>6, <1>7 DEF Matches
<1>9. \A field \in DOMAIN known : known[field] <= re[field]
  BY <1>7, <1>8
<1> QED
  BY <1>1, <1>5, <1>8, <1>9 DEF DataIsMaster, MasterInv

(* The data file determines the index, whatever the caller did and however *)
(* often the process died: a replay of all its records, which is what      *)
(* rebuild does, gives the registers that the calls have written. And the  *)
(* counters that verify recalculates from it are nowhere below those of    *)
(* the state, as long as no append fails.                                  *)
THEOREM DataMastersAll ==
    ASSUME "fault" \notin Allowed PROVE Spec => []DataIsMaster
<1>1. Init => LogInv /\ MasterInv
  BY InitLogged, InitMaster
<1>2. LogInv /\ MasterInv /\ [Next]_vars => (LogInv /\ MasterInv)'
  BY NextLogged, NextKeepsMaster DEF LogInv
<1>3. LogInv /\ MasterInv => DataIsMaster
  BY MasterInvMeans
<1> QED
  BY <1>1, <1>2, <1>3, PTL DEF Spec

=============================================================================
