------------------------ MODULE SafeStorageIOProofs ------------------------
(***************************************************************************)
(* What SafeStorageIO promises to its caller and to readers in other        *)
(* processes, proved for any number of readers and serials and any length   *)
(* of a run.                                                                *)
(*                                                                         *)
(* TypeInv is the type invariant with what the next step of a call has at   *)
(* hand; each action is shown to preserve it. Inv says of every point of    *)
(* every call which versions the registers of the index hold (Registers),   *)
(* where the call is (Control), that the saved state and the index show     *)
(* what was published (Published), and what a read that has begun would     *)
(* find now (Reading). Control and Registers hold while no writer has       *)
(* died; the rest holds after a death too, as long as nobody opens the      *)
(* files again.                                                             *)
(*                                                                         *)
(* A call ends its record with EndRecord, perhaps after a status snapshot   *)
(* (EndCase): the lemmas about RecordDone treat that once for all the       *)
(* steps that end a record. What a step owes to reads that have loaded an   *)
(* older state is LateReads.                                                *)
(*                                                                         *)
(* The last part proves that the writer implements SafeStorage call by      *)
(* call: Calling says that what the call in progress comes to is what       *)
(* SafeStorage makes of the store that the call began with.                 *)
(***************************************************************************)
EXTENDS SafeStorageIO, SafeFilesProofs

(***************************************************************************)
(* Types.                                                                   *)
(***************************************************************************)

(* What TypeOK needs besides itself: what the call in progress and the     *)
(* reads have at hand when their next step uses it.                        *)
Shape ==
    /\ cur.type = "WRITE" => cur.serial \in Serials
    /\ pc \in {"state", "index"} => cur.type = "WRITE"
    /\ pc = "undo" => undo # << >>
    /\ \A r \in Readers : rpc[r] = "index" => rserial[r] \in Serials

(* The type invariant is inductive with what the next step of a call has   *)
(* at hand.                                                                *)
TypeInv == TypeOK /\ Shape

(* Counting and committing keep the state a state.                         *)
LEMMA StateTypes ==
    ASSUME NEW s \in State, NEW seq \in Int
    PROVE  /\ [s EXCEPT !.count = @ + 1, !.last_sequence = seq] \in State
           /\ [s EXCEPT !.data_count = @ + 1] \in State
           /\ [s EXCEPT !.commit_count = @ + 1, !.last_commit_sequence = seq] \in State
           /\ s.last_sequence \in Int /\ s.last_commit_sequence \in Int
           /\ s.last_sequence + 1 \in Int
<1>1. [s EXCEPT !.count = @ + 1] \in State /\ [s EXCEPT !.commit_count = @ + 1] \in State
  BY DEF State
<1>2. \A t \in State : /\ [t EXCEPT !.last_sequence = seq] \in State
                       /\ [t EXCEPT !.last_commit_sequence = seq] \in State
  BY DEF State
<1>3. [s EXCEPT !.count = @ + 1, !.last_sequence = seq]
         = [[s EXCEPT !.count = @ + 1] EXCEPT !.last_sequence = seq]
  OBVIOUS
<1>4. [s EXCEPT !.commit_count = @ + 1, !.last_commit_sequence = seq]
         = [[s EXCEPT !.commit_count = @ + 1] EXCEPT !.last_commit_sequence = seq]
  OBVIOUS
<1>5. /\ [s EXCEPT !.data_count = @ + 1] \in State
      /\ s.last_sequence \in Int /\ s.last_commit_sequence \in Int
      /\ s.last_sequence + 1 \in Int
  BY DEF State
<1> QED
  BY <1>1, <1>2, <1>3, <1>4, <1>5

(* An empty record, and the marks that the calls write.                    *)
LEMMA MarkTypes ==
    ASSUME TypeInv
    PROVE  /\ NoRecord \in DataReg /\ NoRecord.type = "STATUS"
           /\ << >> \in Seq(Serials)
           /\ \A type \in RecordTypes, list \in {<< >>, dirtySerials} :
                 LET m == MarkReg(type, state.last_sequence + 1, list)
                 IN  /\ m \in DataReg
                     /\ m.type = type /\ m.serials = list
                     /\ m.sequence = state.last_sequence + 1
<1>1. /\ << >> \in Seq(Serials) /\ 0 \in Int /\ "STATUS" \in RecordTypes
      /\ dirtySerials \in Seq(Serials) /\ state.last_sequence + 1 \in Int
  <2>1. << >> \in Seq(Serials) /\ 0 \in Int /\ "STATUS" \in RecordTypes
    BY DEF RecordTypes
  <2>2. state \in State /\ dirtySerials \in Seq(Serials)
    BY DEF TypeInv, TypeOK
  <2>3. state.last_sequence + 1 \in Int
    BY <2>2 DEF State
  <2> QED
    BY <2>1, <2>2, <2>3
<1>2. NoRecord \in DataReg /\ NoRecord.type = "STATUS"
  BY <1>1, MarkRegType, ZenonT(60) DEF NoRecord
<1>3. PICK seq \in Int : seq = state.last_sequence + 1
  BY <1>1
<1>4. ASSUME NEW type \in RecordTypes, NEW list \in {<< >>, dirtySerials}
      PROVE  LET m == MarkReg(type, seq, list)
             IN  /\ m \in DataReg
                 /\ m.type = type /\ m.serials = list
                 /\ m.sequence = seq
  <2>1. list \in Seq(Serials)
    BY <1>1
  <2> QED
    BY <2>1, MarkRegType
<1> QED
  BY <1>1, <1>2, <1>3, <1>4

(* The state with a record counted.                                        *)
LEMMA CountedType ==
    ASSUME TypeInv, NEW seq \in Int
    PROVE  Counted(seq) \in State
  BY StateTypes, Zenon DEF TypeInv, TypeOK, Counted

(* The places inside a call.                                               *)
Places == {"idle", "data", "state", "log", "index", "undo",
           "statusData", "statusLog", "statusState"}

(* The variables that a step to the next record, or out of the call, sets. *)
NextTypes ==
    /\ state' \in State /\ cur' \in DataReg
    /\ dirtySerials' \in Seq(Serials) /\ undo' \in Seq(Serials)
    /\ pc' \in Places
    /\ cur'.type = "WRITE" => cur'.serial \in Serials
    /\ pc' \in {"state", "index"} => cur'.type = "WRITE"
    /\ pc' = "undo" => undo' # << >>

(* A call that ends its record goes on with the next one, or ends.         *)
LEMMA EndRecordTypes ==
    ASSUME TypeInv, EndRecord
    PROVE  NextTypes
<1>1. CASE cur.type = "ROLLBACK_BEGIN"
  <2>1. PICK m : m = MarkReg("ROLLBACK_END", state.last_sequence + 1, << >>)
    OBVIOUS
  <2>2. m \in DataReg /\ m.type = "ROLLBACK_END" /\ m.serials \in Seq(Serials)
    BY <2>1, MarkTypes DEF RecordTypes
  <2>3. /\ cur' = m /\ state' = Counted(m.sequence) /\ undo' = m.serials
        /\ pc' = "data" /\ dirtySerials' = dirtySerials
    BY <1>1, <2>1 DEF EndRecord, Start
  <2>4. state' \in State
    <3>1. m.sequence \in Int
      BY <2>2 DEF DataReg
    <3> QED
      BY <2>3, <3>1, CountedType
  <2> QED
    BY <2>2, <2>3, <2>4 DEF NextTypes, TypeInv, TypeOK, Places
<1>2. CASE cur.type # "ROLLBACK_BEGIN"
  <2>1. /\ cur' = NoRecord /\ state' = state /\ undo' = << >> /\ pc' = "idle"
        /\ dirtySerials' \in {dirtySerials, << >>}
    BY <1>2 DEF EndRecord
  <2> QED
    BY <2>1, MarkTypes DEF NextTypes, TypeInv, TypeOK, Places
<1> QED
  BY <1>1, <1>2

(* Before that it may begin a snapshot.                                    *)
LEMMA EndCaseTypes ==
    ASSUME TypeInv, EndCase
    PROVE  NextTypes
<1>1. CASE state.count % StatusFreq = StatusFreq - 1
  BY <1>1 DEF EndCase, NextTypes, TypeInv, TypeOK, Shape, Places
<1>2. CASE state.count % StatusFreq # StatusFreq - 1
  BY <1>2, EndRecordTypes DEF EndCase
<1> QED
  BY <1>1, <1>2

(* An entry put into the log.                                              *)
LEMMA PutLogTypes ==
    ASSUME TypeInv, NEW seq \in Int, NEW offset \in Int, NEW type \in RecordTypes,
           NEW serial \in Serials \cup {NoSerial}, PutLog(seq, offset, type, serial)
    PROVE  flog' \in [DOMAIN flog' -> LogReg]
<1>1. [offset |-> offset, serial |-> serial, type |-> type] \in LogReg
  BY DEF LogReg
<1>2. flog \in [DOMAIN flog -> LogReg]
  BY DEF TypeInv, TypeOK
<1> QED
  BY <1>1, <1>2 DEF PutLog

(* The reads in progress, and what a step of the writer lets them see.     *)
LEMMA WitnessTypes ==
    ASSUME TypeInv, WriterOnly, published' \in [Serials -> Int]
    PROVE  /\ seen' \in [Readers -> SUBSET Int]
           /\ rpc' = rpc /\ rserial' = rserial /\ rlcs' = rlcs /\ roffset' = roffset
           /\ fauto_commit' = fauto_commit /\ opened' = opened /\ crashed' = crashed
<1>1. \A r \in Readers : rpc[r] = "index" => published'[rserial[r]] \in Int
  BY DEF TypeInv, Shape
<1>2. \A r \in Readers : seen[r] \in SUBSET Int
  BY DEF TypeInv, TypeOK
<1> QED
  BY <1>1, <1>2 DEF WriterOnly, Witness, readers

(* Types after a step: of the files, and of the three views.               *)
FileTypes ==
    /\ fdata' \in Seq(DataReg)
    /\ findex' \in [Serials -> IndexReg]
    /\ flog' \in [DOMAIN flog' -> LogReg]
    /\ fstate' \in State

GhostTypes ==
    /\ work' \in [Serials -> Int]
    /\ committed' \in [Serials -> Int]
    /\ published' \in [Serials -> Int]

(* A step of the writer that keeps these types and ends at a proper place  *)
(* keeps the type invariant.                                               *)
LEMMA WriterTypes ==
    ASSUME TypeInv, WriterOnly, FileTypes, GhostTypes, NextTypes
    PROVE  TypeInv'
<1>1. /\ seen' \in [Readers -> SUBSET Int]
      /\ rpc' = rpc /\ rserial' = rserial /\ rlcs' = rlcs /\ roffset' = roffset
      /\ fauto_commit' = fauto_commit /\ opened' = opened /\ crashed' = crashed
  BY WitnessTypes DEF GhostTypes
<1>2. TypeOK'
  BY <1>1 DEF FileTypes, GhostTypes, NextTypes, Places, TypeInv, TypeOK
<1>3. Shape'
  BY <1>1 DEF NextTypes, TypeInv, Shape
<1> QED
  BY <1>2, <1>3 DEF TypeInv

(* Types before a step.                                                    *)
LEMMA FilesHere ==
    ASSUME TypeInv
    PROVE  /\ fdata \in Seq(DataReg) /\ Len(fdata) \in Int
           /\ findex \in [Serials -> IndexReg]
           /\ flog \in [DOMAIN flog -> LogReg]
           /\ fstate \in State /\ state \in State
           /\ work \in [Serials -> Int] /\ committed \in [Serials -> Int]
           /\ published \in [Serials -> Int]
           /\ dirtySerials \in Seq(Serials) /\ undo \in Seq(Serials)
           /\ cur \in DataReg /\ cur.sequence \in Int /\ cur.type \in RecordTypes
           /\ cur.auto \in BOOLEAN /\ cur.serial \in Serials \cup {NoSerial}
           /\ state.last_sequence \in Int
  BY SMTT(40) DEF TypeInv, TypeOK, DataReg, State

(* The steps of a call, one lemma for each: the append to the data file.   *)
LEMMA WriteDataTypes == ASSUME TypeInv, WriteDataStep PROVE TypeInv'
<1> USE FilesHere
<1>1. PICK n : n = Len(Append(fdata, cur))
  OBVIOUS
<1>2. fdata' = Append(fdata, cur) /\ fdata' \in Seq(DataReg) /\ n \in Int
  BY <1>1 DEF WriteDataStep
<1>3. state' \in State
  BY StateTypes, Zenon DEF WriteDataStep, AfterData
<1>4. NextTypes
  <2>1. dirtySerials' \in Seq(Serials)
    BY DEF WriteDataStep, TypeInv, Shape
  <2> QED
    BY <1>3, <2>1 DEF WriteDataStep, NextTypes, Places, TypeInv, Shape
<1>5. GhostTypes
  BY <1>1, <1>2 DEF WriteDataStep, GhostTypes
<1>6. FileTypes
  BY <1>2 DEF WriteDataStep, FileTypes
<1> QED
  BY <1>4, <1>5, <1>6, WriterTypes DEF WriteDataStep

(* The state file of a WRITE.                                              *)
LEMMA SaveStateTypes == ASSUME TypeInv, SaveStateStep PROVE TypeInv'
<1> USE FilesHere
<1>1. NextTypes /\ GhostTypes /\ FileTypes
  BY DEF SaveStateStep, NextTypes, GhostTypes, FileTypes, Places, TypeInv,
       Shape
<1> QED
  BY <1>1, WriterTypes DEF SaveStateStep

(* The log.                                                                *)
LEMMA WriteLogTypes == ASSUME TypeInv, WriteLogStep PROVE TypeInv'
<1> USE FilesHere
<1>1. NextTypes
  <2>1. CASE cur.type = "WRITE"
    BY <2>1 DEF WriteLogStep, NextTypes, Places, TypeInv, Shape
  <2>2. CASE cur.type # "WRITE" /\ undo # << >>
    BY <2>2 DEF WriteLogStep, NextTypes, Places, TypeInv, Shape
  <2>3. CASE cur.type # "WRITE" /\ undo = << >>
    BY <2>3, EndCaseTypes DEF WriteLogStep
  <2> QED
    BY <2>1, <2>2, <2>3
<1>2. flog' \in [DOMAIN flog' -> LogReg]
  <2>1. PICK off \in Int : off = IF cur.type \in {"WRITE", "COMMIT"} THEN Len(fdata) ELSE 0
    <3>1. PICK n \in Int : n = Len(fdata)
      OBVIOUS
    <3>2. (IF cur.type \in {"WRITE", "COMMIT"} THEN n ELSE 0) \in Int
      OBVIOUS
    <3> QED
      BY <3>1, <3>2
  <2>2. PutLog(state.last_sequence, off, cur.type, cur.serial)
    BY <2>1 DEF WriteLogStep
  <2> QED
    BY <2>2, PutLogTypes
<1>3. GhostTypes /\ FileTypes
  BY <1>2 DEF WriteLogStep, GhostTypes, FileTypes, ghosts
<1> QED
  BY <1>1, <1>3, WriterTypes DEF WriteLogStep

(* The oldest slot of a register is replaced, or the newest one undone.    *)
LEMMA OldestType ==
    ASSUME NEW ix \in IndexReg, NEW off \in Int, NEW seq \in Int,
           NEW auto \in BOOLEAN, NEW init \in BOOLEAN
    PROVE  SetOldestOffset(ix, off, seq, auto, init) \in IndexReg
  BY DEF SetOldestOffset, IndexReg, Slot, NewestSlot

(* An undone register is a register.                                       *)
LEMMA NewestType ==
    ASSUME NEW ix \in IndexReg
    PROVE  SetNewestOffset(ix, -1, FALSE) \in IndexReg
  BY DEF SetNewestOffset, IndexReg, Slot, NewestSlot

(* The index of a WRITE.                                                   *)
LEMMA WriteIndexTypes == ASSUME TypeInv, WriteIndexStep PROVE TypeInv'
<1> USE FilesHere
<1>1. cur.serial \in Serials
  BY DEF WriteIndexStep, TypeInv, Shape
<1>2. findex' \in [Serials -> IndexReg]
  <2>1. PICK ix \in IndexReg : ix = findex[cur.serial]
    BY <1>1
  <2>2. PICK init \in BOOLEAN : init = (ix = EmptyIndex)
    OBVIOUS
  <2>3. SetOldestOffset(ix, Len(fdata), cur.sequence, cur.auto, init) \in IndexReg
    BY OldestType
  <2> QED
    BY <1>1, <2>1, <2>2, <2>3 DEF WriteIndexStep
<1>3. GhostTypes
  BY <1>1 DEF WriteIndexStep, GhostTypes, ghosts
<1>4. NextTypes
  BY EndCaseTypes DEF WriteIndexStep
<1>5. FileTypes
  BY <1>2 DEF WriteIndexStep, FileTypes
<1> QED
  BY <1>3, <1>4, <1>5, WriterTypes DEF WriteIndexStep

(* The index, one serial of a rollback at a time.                          *)
LEMMA UndoIndexTypes == ASSUME TypeInv, UndoIndexStep PROVE TypeInv'
<1> USE FilesHere
<1>1. undo # << >> /\ Head(undo) \in Serials /\ Tail(undo) \in Seq(Serials)
  BY DEF UndoIndexStep, TypeInv, Shape
<1>2. findex' \in [Serials -> IndexReg]
  BY <1>1, NewestType DEF UndoIndexStep
<1>3. NextTypes
  <2>1. CASE Len(undo) > 1
    <3>1. Tail(undo) # << >>
      <4>1. PICK tl \in Seq(Serials) : tl = Tail(undo)
        BY <1>1
      <4>2. Len(undo) \in Nat /\ undo \in Seq(Serials)
        OBVIOUS
      <4>3. PICK n : n = Len(undo)
        OBVIOUS
      <4>4. n \in Nat /\ n > 1 /\ Len(tl) = n - 1
        BY <1>1, <2>1, <4>1, <4>2, <4>3
      <4>5. Len(tl) # 0
        BY <4>4
      <4> QED
        BY <4>1, <4>5
    <3> QED
      BY <1>1, <2>1, <3>1 DEF UndoIndexStep, NextTypes, Places, TypeInv, Shape
  <2>2. CASE ~(Len(undo) > 1)
    BY <2>2, EndCaseTypes DEF UndoIndexStep
  <2> QED
    BY <2>1, <2>2
<1>4. GhostTypes /\ FileTypes
  BY <1>2 DEF UndoIndexStep, GhostTypes, FileTypes, ghosts
<1> QED
  BY <1>3, <1>4, WriterTypes DEF UndoIndexStep

(* The STATUS record in the data file,                                     *)
LEMMA StatusDataTypes == ASSUME TypeInv, StatusDataStep PROVE TypeInv'
<1> USE FilesHere
<1>1. PICK m : m = MarkReg("STATUS", state.last_sequence + 1, << >>)
  OBVIOUS
<1>2. m \in DataReg
  BY <1>1, MarkTypes DEF RecordTypes
<1>3. state' \in State
  <2>1. state.last_sequence + 1 \in Int
    OBVIOUS
  <2> QED
    BY <2>1, CountedType DEF StatusDataStep
<1>4. NextTypes /\ GhostTypes
  BY <1>3 DEF StatusDataStep, NextTypes, GhostTypes, ghosts, Places,
       TypeInv, Shape
<1>5. FileTypes
  BY <1>1, <1>2 DEF StatusDataStep, FileTypes
<1> QED
  BY <1>4, <1>5, WriterTypes DEF StatusDataStep

(* in the log,                                                             *)
LEMMA StatusLogTypes == ASSUME TypeInv, StatusLogStep PROVE TypeInv'
<1> USE FilesHere
<1>1. flog' \in [DOMAIN flog' -> LogReg]
  BY PutLogTypes DEF StatusLogStep, RecordTypes
<1>2. NextTypes /\ GhostTypes /\ FileTypes
  BY <1>1 DEF StatusLogStep, NextTypes, GhostTypes, FileTypes, ghosts, Places,
              TypeInv, Shape
<1> QED
  BY <1>2, WriterTypes DEF StatusLogStep

(* and the state it is written for.                                        *)
LEMMA StatusStateTypes == ASSUME TypeInv, StatusStateStep PROVE TypeInv'
<1> USE FilesHere
<1>1. NextTypes
  BY EndRecordTypes DEF StatusStateStep
<1>2. GhostTypes /\ FileTypes
  BY DEF StatusStateStep, GhostTypes, FileTypes
<1> QED
  BY <1>1, <1>2, WriterTypes DEF StatusStateStep

(* A call begins on a record r.                                            *)
LEMMA CallTypes ==
    ASSUME TypeInv, NEW r \in DataReg, r.type = "WRITE" => r.serial \in Serials,
           Call(r)
    PROVE  TypeInv'
<1>1. state' \in State /\ cur' \in DataReg /\ undo' \in Seq(Serials)
  BY CountedType DEF Call, Start, DataReg
<1> QED
  BY <1>1 DEF Call, Start, files, readers, ghosts, TypeInv, TypeOK, Shape

(* The beginning of a call.                                                *)
LEMMA CallsTypes ==
    ASSUME TypeInv,
           \/ \E s \in Serials, v \in Values : CallWrite(s, v)
           \/ CallCommit
           \/ CallRollback
    PROVE  TypeInv'
<1> USE FilesHere
<1>1. ASSUME NEW s \in Serials, NEW v \in Values, CallWrite(s, v)
      PROVE  TypeInv'
  <2>1. PICK seq \in Int, auto \in BOOLEAN : /\ seq = state.last_sequence + 1
                                             /\ auto = fauto_commit
    BY DEF TypeInv, TypeOK
  <2>2. /\ WriteReg(s, seq, auto, v) \in DataReg
        /\ WriteReg(s, seq, auto, v).serial = s
    BY WriteRegType
  <2> QED
    BY <1>1, <2>1, <2>2, CallTypes DEF CallWrite
<1>2. ASSUME NEW type \in {"COMMIT", "ROLLBACK_BEGIN"},
             NEW list \in {<< >>, dirtySerials},
             Call(MarkReg(type, state.last_sequence + 1, list))
      PROVE  TypeInv'
  <2>1. PICK m : m = MarkReg(type, state.last_sequence + 1, list)
    OBVIOUS
  <2>2. m \in DataReg /\ m.type = type
    BY <2>1, MarkTypes DEF RecordTypes
  <2> QED
    BY <1>2, <2>1, <2>2, CallTypes
<1> QED
  BY <1>1, <1>2 DEF CallCommit, CallRollback

(* A read finds an offset.                                                 *)
LEMMA FoundType ==
    ASSUME NEW ix \in IndexReg, NEW lcs \in Int, NEW dirty \in BOOLEAN
    PROVE  Found(GetLastOffset(ix, lcs, dirty)) \in Int
<1>1. \A i \in 0 .. 1 : ix[i].offset \in Int
  BY DEF IndexReg, Slot
<1>2. NewestSlot(ix) \in 0 .. 1
  BY DEF NewestSlot
<1>3. PICK n \in 0 .. 1 : n = NewestSlot(ix)
  BY <1>2
<1>4. 1 - n \in 0 .. 1
  BY <1>3
<1>5. GetLastOffset(ix, lcs, dirty) \in Int
  BY <1>1, <1>3, <1>4 DEF GetLastOffset
<1> QED
  BY <1>5 DEF Found, None

(* The state of a new object.                                              *)
LEMMA ZeroStateType == ZeroState \in State
  BY DEF ZeroState, State

(* Type correctness is inductive.                                          *)
LEMMA NextTypeInv == ASSUME TypeInv, [Next]_vars PROVE TypeInv'
<1> USE FilesHere
<1>1. CASE FileStep
  BY <1>1, WriteDataTypes, SaveStateTypes, WriteLogTypes, WriteIndexTypes,
     UndoIndexTypes, StatusDataTypes, StatusLogTypes, StatusStateTypes DEF FileStep
<1>2. CASE Close
  <2>1. \A r \in Readers : rpc[r] = "index" => committed[rserial[r]] \in Int
    BY DEF TypeInv, Shape
  <2>2. seen' \in [Readers -> SUBSET Int]
    BY <1>2, <2>1 DEF Close, Witness, TypeInv, TypeOK
  <2> QED
    BY <1>2, <2>2 DEF Close, call, readers, TypeInv, TypeOK, Shape
<1>3. ASSUME NEW auto \in BOOLEAN, Open(auto) PROVE TypeInv'
  BY <1>3 DEF Open, files, call, readers, ghosts, TypeInv, TypeOK, Shape
<1>4. CASE Crash
  <2>1. /\ NoRecord \in DataReg /\ NoRecord.type = "STATUS" /\ << >> \in Seq(Serials)
        /\ ZeroState \in State
    BY MarkTypes, ZeroStateType
  <2> QED
    BY <1>4, <2>1 DEF Crash, files, readers, ghosts, TypeInv, TypeOK, Shape
<1>5. ASSUME NEW r \in Readers,
             \/ \E s \in Serials : ReadState(r, s)
             \/ ReadIndex(r)
             \/ ReadReturn(r)
      PROVE  TypeInv'
  <2> USE DEF files, object, call, ghosts
  <2>1. ASSUME NEW s \in Serials, ReadState(r, s) PROVE TypeInv'
    <3>1. fstate.last_commit_sequence \in Int /\ {published[s]} \in SUBSET Int
      BY DEF State
    <3> QED
      BY <2>1, <3>1 DEF ReadState, TypeInv, TypeOK, Shape
  <2>2. CASE ReadIndex(r)
    <3>1. PICK ix \in IndexReg : rpc[r] = "index" => ix = findex[rserial[r]]
      BY <2>2 DEF ReadIndex, TypeInv, Shape
    <3>2. Found(GetLastOffset(ix, rlcs[r], FALSE)) \in Int
      BY FoundType DEF TypeInv, TypeOK
    <3> QED
      BY <2>2, <3>1, <3>2 DEF ReadIndex, TypeInv, TypeOK, Shape
  <2>3. CASE ReadReturn(r)
    <3>1. {} \in SUBSET Int /\ None \in Int /\ 0 \in Int
      BY DEF None
    <3> QED
      BY <2>3, <3>1 DEF ReadReturn, TypeInv, TypeOK, Shape
  <2> QED
    BY <1>5, <2>1, <2>2, <2>3
<1>6. CASE UNCHANGED vars
  BY <1>6 DEF vars, files, object, call, readers, ghosts, TypeInv, TypeOK,
       Shape
<1> QED
  BY <1>1, <1>2, <1>3, <1>4, <1>5, <1>6, CallsTypes DEF Next

(* The new storage is well typed.                                          *)
LEMMA InitTypeInv == Init => TypeInv
<1> SUFFICES ASSUME Init PROVE TypeInv
  OBVIOUS
<1>1. /\ NoRecord \in DataReg /\ NoRecord.type = "STATUS"
      /\ << >> \in Seq(Serials) /\ << >> \in Seq(DataReg)
  <2>1. << >> \in Seq(Serials) /\ "STATUS" \in RecordTypes /\ 0 \in Int
    BY DEF RecordTypes
  <2>2. << >> \in Seq(DataReg)
    OBVIOUS
  <2> QED
    BY <2>1, <2>2, MarkRegType, ZenonT(60) DEF NoRecord
<1>2. ZeroState \in State
  BY ZeroStateType
<1>3. [s \in Serials |-> EmptyIndex] \in [Serials -> IndexReg]
  BY DEF EmptyIndex, IndexReg, Slot
<1>4. << >> \in [{} -> LogReg] /\ DOMAIN << >> = {}
  OBVIOUS
<1>5. None \in Int
  BY DEF None
<1>6. /\ fdata \in Seq(DataReg) /\ findex \in [Serials -> IndexReg]
      /\ flog \in [DOMAIN flog -> LogReg] /\ fstate \in State /\ state \in State
      /\ dirtySerials \in Seq(Serials) /\ undo \in Seq(Serials)
      /\ cur \in DataReg /\ cur.type = "STATUS"
  BY <1>1, <1>2, <1>3, <1>4 DEF Init
<1>7. /\ rpc \in [Readers -> {"idle", "index", "done"}]
      /\ rserial \in [Readers -> Serials \cup {NoSerial}]
      /\ rlcs \in [Readers -> Int]
      /\ seen \in [Readers -> SUBSET Int]
      /\ pc = "idle" /\ \A r \in Readers : rpc[r] = "idle"
  BY DEF Init
<1>8. /\ roffset \in [Readers -> Int] /\ work \in [Serials -> Int]
      /\ committed = work /\ published = work
  BY <1>5 DEF Init
<1>9. fauto_commit \in BOOLEAN /\ opened \in BOOLEAN /\ crashed \in BOOLEAN
  BY DEF Init
<1> QED
  BY <1>6, <1>7, <1>8, <1>9 DEF TypeInv, TypeOK, Shape

(* Type correctness, with the files, the object and the reads of the       *)
(* other processes between any two file writes.                            *)
THEOREM TypeCorrect == Spec => []TypeOK
<1>1. TypeInv /\ [Next]_vars => TypeInv'
  BY NextTypeInv
<1>2. TypeInv => TypeOK
  BY DEF TypeInv
<1> QED
  BY <1>1, <1>2, InitTypeInv, PTL DEF Spec

(***************************************************************************)
(* What a reader, and what the writer, finds in a register, and whether a  *)
(* register is in order for a serial that has, or has not, a version of an *)
(* unfinished transaction.                                                 *)
(***************************************************************************)
Visible(ix, lcs) == Found(GetLastOffset(ix, lcs, FALSE))
(* What the writer finds through a register, and the registers in order of *)
(* a serial that is not dirty and of one that is.                          *)
Latest(ix, lcs) == Found(GetLastOffset(ix, lcs, TRUE))
Clean(ix, lcs, last) == RegOK(ix, lcs, last, FALSE)
Dirty(ix, lcs, last) == RegOK(ix, lcs, last, TRUE)

(* Records that do not touch a register leave it in order.                 *)
LEMMA CleanGrows ==
    ASSUME NEW ix \in IndexReg, NEW lcs \in Nat, NEW last \in Nat,
           NEW later \in Nat, last <= later, Clean(ix, lcs, last)
    PROVE  Clean(ix, lcs, later)
  BY RegGrows DEF Clean

(* Also that of a dirty serial.                                            *)
LEMMA DirtyGrows ==
    ASSUME NEW ix \in IndexReg, NEW lcs \in Nat, NEW last \in Nat,
           NEW later \in Nat, last <= later, Dirty(ix, lcs, last)
    PROVE  Dirty(ix, lcs, later)
  BY RegGrows DEF Dirty

(* The lemmas about registers, in terms of what is found. A register that  *)
(* is not dirty:                                                           *)
LEMMA CleanReads ==
    ASSUME NEW ix \in IndexReg, NEW lcs \in Nat, NEW last \in Nat,
           Clean(ix, lcs, last)
    PROVE  Latest(ix, lcs) = Visible(ix, lcs)
  BY RegClean DEF Clean, Latest, Visible

(* After a commit everybody finds what the writer found.                   *)
CommittedReg(ix, lcs, commit) ==
    /\ Clean(ix, commit, commit)
    /\ Visible(ix, commit) = Latest(ix, lcs)
    /\ Latest(ix, commit) = Latest(ix, lcs)

(* A commit does that to every register in order.                          *)
LEMMA CommitReads ==
    ASSUME NEW ix \in IndexReg, NEW lcs \in Nat, NEW last \in Nat, lcs <= last,
           Clean(ix, lcs, last) \/ Dirty(ix, lcs, last)
    PROVE  CommittedReg(ix, lcs, last)
<1>1. ASSUME NEW d \in BOOLEAN, RegOK(ix, lcs, last, d)
      PROVE  CommittedReg(ix, lcs, last)
  <2>1. /\ RegOK(ix, last, last, FALSE)
        /\ GetLastOffset(ix, last, FALSE) = GetLastOffset(ix, lcs, TRUE)
        /\ GetLastOffset(ix, last, TRUE) = GetLastOffset(ix, lcs, TRUE)
    <3>1. last <= last
      OBVIOUS
    <3>2. RegOK(ix, last, last, FALSE)
      BY <1>1, <3>1, RegCommit
    <3>3. GetLastOffset(ix, last, FALSE) = GetLastOffset(ix, lcs, TRUE)
      BY <1>1, <3>1, RegCommit
    <3>4. GetLastOffset(ix, last, TRUE) = GetLastOffset(ix, lcs, TRUE)
      BY <1>1, <3>1, RegCommit
    <3> QED
      BY <3>2, <3>3, <3>4, Zenon
  <2> QED
    BY <2>1, Zenon DEF CommittedReg, Clean, Latest, Visible
<1> QED
  BY <1>1 DEF Clean, Dirty

(* After a rollback the writer finds what was committed, and nobody else   *)
(* sees a difference.                                                      *)
UndoneReg(new, ix, lcs, last) ==
    /\ Clean(new, lcs, last)
    /\ Latest(new, lcs) = Visible(ix, lcs)
    /\ \A rl \in 0 .. lcs : Visible(new, rl) = Visible(ix, rl)

(* Undoing the newest slot of a dirty register does that.                  *)
LEMMA UndoReads ==
    ASSUME NEW ix \in IndexReg, NEW lcs \in Nat, NEW last \in Nat,
           Dirty(ix, lcs, last)
    PROVE  UndoneReg(SetNewestOffset(ix, -1, FALSE), ix, lcs, last)
<1>a. RegOK(ix, lcs, last, TRUE)
  BY Zenon DEF Dirty
<1>1. PICK new : new = SetNewestOffset(ix, -1, FALSE)
  OBVIOUS
<1>2. /\ Clean(new, lcs, last)
      /\ GetLastOffset(new, lcs, TRUE) = GetLastOffset(ix, lcs, FALSE)
  BY <1>1, RegUndo DEF Clean, Dirty
<1>3. ASSUME NEW rl \in 0 .. lcs
      PROVE  Visible(new, rl) = Visible(ix, rl)
  <2>1. rl \in Nat /\ rl <= lcs
    OBVIOUS
  <2>2. GetLastOffset(new, rl, FALSE) = GetLastOffset(ix, rl, FALSE)
    BY <1>a, <1>1, <2>1, RegUndoLate
  <2> QED
    BY <2>2, Zenon DEF Visible
<1> QED
  BY <1>1, <1>2, <1>3, Zenon DEF UndoneReg, Latest, Visible

(* After a write the writer finds its version, readers with the current    *)
(* state what they found before, and readers with an older one that or     *)
(* nothing.                                                                *)
WrittenReg(new, ix, lcs, last, off) ==
    /\ Dirty(new, lcs, last)
    /\ Latest(new, lcs) = off
    /\ Visible(new, lcs) = Visible(ix, lcs)
    /\ \A rl \in 0 .. lcs : Visible(new, rl) \in {Visible(ix, rl), None}

(* Replacing the oldest slot of a clean register does that.                *)
LEMMA WriteReads ==
    ASSUME NEW ix \in IndexReg, NEW lcs \in Nat, NEW last \in Nat, lcs <= last,
           Clean(ix, lcs, last), NEW off \in Int, off > 0
    PROVE  WrittenReg(SetOldestOffset(ix, off, last + 1, FALSE, ix = EmptyIndex),
                      ix, lcs, last + 1, off)
<1>a. RegOK(ix, lcs, last, FALSE)
  BY Zenon DEF Clean
<1>0. RegWritten(SetOldestOffset(ix, off, last + 1, FALSE, ix = EmptyIndex), ix, lcs, last, off)
  BY <1>a, RegWrite
<1>1. PICK new : new = SetOldestOffset(ix, off, last + 1, FALSE, ix = EmptyIndex)
  OBVIOUS
<1>2. RegWritten(new, ix, lcs, last, off)
  BY <1>0, <1>1
<1>3. ASSUME NEW rl \in 0 .. lcs
      PROVE  Visible(new, rl) \in {Visible(ix, rl), None}
  <2>1. rl \in Nat /\ rl <= lcs
    OBVIOUS
  <2>2. SameOrNone(SetOldestOffset(ix, off, last + 1, FALSE, ix = EmptyIndex), ix, rl)
    BY <1>a, <2>1, RegWriteLate
  <2>3. SameOrNone(new, ix, rl)
    BY <1>1, <2>2
  <2> QED
    BY <2>3 DEF SameOrNone, Visible, Found, None
<1>4. Dirty(new, lcs, last + 1) /\ Latest(new, lcs) = off
  <2>1. ~(off <= 0)
    OBVIOUS
  <2> QED
    BY <1>2, <2>1, Zenon DEF RegWritten, Dirty, Latest, Found
<1>5. Visible(new, lcs) = Visible(ix, lcs)
  <2>1. 0 <= 0 /\ -1 <= 0
    OBVIOUS
  <2> QED
    BY <1>2, <2>1, Zenon DEF RegWritten, Visible, Found
<1> QED
  BY <1>1, <1>3, <1>4, <1>5 DEF WrittenReg

(* After a write in auto-commit mode everybody finds the new version.      *)
AutoWrittenReg(new, lcs, last, off) ==
    /\ Clean(new, lcs, last)
    /\ Latest(new, lcs) = off
    /\ \A rl \in 0 .. lcs : Visible(new, rl) = off

(* Replacing the oldest slot of a clean register does that.                *)
LEMMA AutoWriteReads ==
    ASSUME NEW ix \in IndexReg, NEW lcs \in Nat, NEW last \in Nat, lcs <= last,
           Clean(ix, lcs, last), NEW off \in Int, off > 0
    PROVE  AutoWrittenReg(SetOldestOffset(ix, off, last + 1, TRUE, ix = EmptyIndex),
                          lcs, last + 1, off)
<1>a. RegOK(ix, lcs, last, FALSE)
  BY Zenon DEF Clean
<1>0. RegAutoWritten(SetOldestOffset(ix, off, last + 1, TRUE, ix = EmptyIndex), lcs, last, off)
  BY <1>a, RegAutoWrite
<1>1. PICK new : new = SetOldestOffset(ix, off, last + 1, TRUE, ix = EmptyIndex)
  OBVIOUS
<1>2. RegAutoWritten(new, lcs, last, off)
  BY <1>0, <1>1
<1>3. ASSUME NEW rl \in 0 .. lcs
      PROVE  Visible(new, rl) = off
  <2>1. rl \in Nat /\ rl <= lcs
    OBVIOUS
  <2>2. FoundAt(SetOldestOffset(ix, off, last + 1, TRUE, ix = EmptyIndex), rl, off)
    BY <1>a, <2>1, RegAutoWriteLate
  <2>3. GetLastOffset(new, rl, FALSE) = off
    BY <1>1, <2>2, Zenon DEF FoundAt
  <2>4. ~(off <= 0)
    OBVIOUS
  <2> QED
    BY <2>3, <2>4, Zenon DEF Visible, Found
<1>4. Clean(new, lcs, last + 1) /\ Latest(new, lcs) = off
  <2>1. ~(off <= 0)
    OBVIOUS
  <2> QED
    BY <1>2, <2>1, Zenon DEF RegAutoWritten, Clean, Latest, Found
<1> QED
  BY <1>1, <1>3, <1>4 DEF AutoWrittenReg

(* A register that was never written is in order.                          *)
LEMMA EmptyReads ==
    ASSUME NEW last \in Nat
    PROVE  /\ Clean(EmptyIndex, 0, last)
           /\ Visible(EmptyIndex, 0) = None /\ Latest(EmptyIndex, 0) = None
<1>1. /\ GetLastOffset(EmptyIndex, 0, TRUE) = 0
      /\ GetLastOffset(EmptyIndex, 0, FALSE) = 0
  BY EmptyReg
<1>2. Clean(EmptyIndex, 0, last)
  BY Zenon DEF Clean, RegOK
<1>3. 0 <= 0
  OBVIOUS
<1> QED
  BY <1>1, <1>2, <1>3, Zenon DEF Visible, Latest, Found

(***************************************************************************)
(* The inductive invariant.                                                *)
(***************************************************************************)
LastCommit == state.last_commit_sequence
(* The commit sequence in the state file.                                  *)
SavedCommit == fstate.last_commit_sequence

(* A WRITE that the index does not know yet, and one already in the data   *)
(* file.                                                                   *)
Writing == cur.type = "WRITE" /\ pc \in {"data", "state", "log", "index"}
(* A WRITE whose record is in the data file and whose index is still to    *)
(* come.                                                                   *)
Written == cur.type = "WRITE" /\ pc \in {"state", "log", "index"}

(* The last sequence that the index may know.                              *)
LastKnown == IF Writing THEN state.last_sequence - 1 ELSE state.last_sequence

(* The newest slot of s is a version of the transaction in progress: the   *)
(* serial is dirty, its write has reached the index, and no commit or      *)
(* rollback has reached it yet.                                            *)
Unfinished(s) ==
    \/ /\ cur.type \in {"WRITE", "STATUS"}
       /\ Listed(dirtySerials, s)
       /\ ~(Written /\ s = cur.serial)
    \/ /\ cur.type = "COMMIT" /\ pc = "data"
       /\ Listed(dirtySerials, s)
    \/ /\ cur.type = "ROLLBACK_BEGIN" /\ pc \in {"data", "log", "undo"}
       /\ Listed(undo, s)

(* Where a call is, and what it has at hand there.                         *)
Control ==
    /\ pc # "idle" => /\ opened
                      /\ cur.type \in {"WRITE", "COMMIT", "ROLLBACK_BEGIN",
                                       "ROLLBACK_END"}
    /\ pc = "idle" => cur.type = "STATUS"
    /\ pc \in {"state", "index"} => cur.type = "WRITE"
    /\ pc = "undo" => cur.type = "ROLLBACK_BEGIN"
    /\ cur.type # "ROLLBACK_BEGIN" => undo = << >>
    /\ cur.type = "ROLLBACK_BEGIN" /\ pc \in {"data", "log"} => undo = dirtySerials
    /\ cur.type = "WRITE" => cur.serial \in Serials /\ cur.auto = fauto_commit
    /\ Writing /\ pc = "data" => ~Listed(dirtySerials, cur.serial)
    /\ Writing \/ pc = "data" => cur.sequence = state.last_sequence
    /\ Written => /\ Len(fdata) > 0
                  /\ ~fauto_commit => /\ work[cur.serial] = Len(fdata)
                                      /\ Listed(dirtySerials, cur.serial)
    /\ cur.type = "ROLLBACK_BEGIN" /\ pc # "data" => work = committed
    /\ fauto_commit => dirtySerials = << >> /\ cur.type \in {"WRITE", "STATUS"}
    /\ Distinct(dirtySerials) /\ Distinct(undo)
    /\ ~opened => state = fstate /\ dirtySerials = << >> /\ pc = "idle"

(* The index and the saved state against the history: what a reader finds  *)
(* with the writer's state is committed, what the writer finds is its      *)
(* work, and while the index holds versions of the transaction in progress *)
(* no commit is unknown to the saved state.                                *)
Settled(s) ==
    /\ ~(Written /\ ~fauto_commit /\ s = cur.serial)
    /\ ~(cur.type = "ROLLBACK_BEGIN" /\ pc # "data" /\ Unfinished(s))

(* The registers of all serials are in order for what the call has done so *)
(* far, and the state file has every commit before the first write of a    *)
(* transaction.                                                            *)
Registers ==
    /\ SavedCommit <= LastCommit /\ LastCommit <= LastKnown
    /\ \A s \in Serials : Unfinished(s) => SavedCommit = LastCommit
    /\ Written /\ pc # "state" => SavedCommit = LastCommit
    /\ \A s \in Serials :
          /\ IF Unfinished(s) THEN Dirty(findex[s], LastCommit, LastKnown)
                              ELSE Clean(findex[s], LastCommit, LastKnown)
          /\ Visible(findex[s], LastCommit) = committed[s]
          /\ Settled(s) => Latest(findex[s], LastCommit) = work[s]

(* The state file and the index show what has been published.              *)
Published == \A s \in Serials : Visible(findex[s], SavedCommit) = published[s]

(* What a read that has loaded the state would find now.                   *)
Reading ==
    \A r \in Readers :
        /\ rpc[r] # "idle" => rlcs[r] \in 0 .. SavedCommit
        /\ rpc[r] = "index" =>
              /\ rserial[r] \in Serials
              /\ published[rserial[r]] \in seen[r]
              /\ \/ Visible(findex[rserial[r]], rlcs[r]) \in seen[r]
                 \/ /\ Visible(findex[rserial[r]], rlcs[r]) = None
                    /\ rlcs[r] < SavedCommit

(* The invariant. After a death nothing is said of registers and calls.    *)
Inv ==
    /\ TypeInv /\ Published /\ Reading /\ ReadOutcome
    /\ SavedCommit \in Nat
    /\ IF crashed THEN ~opened /\ pc = "idle" ELSE Control /\ Registers

(***************************************************************************)
(* The readers.  A step that keeps what is published to its promise harms  *)
(* no read in progress if a reader with an older state finds what it would *)
(* have found before the step, or nothing, or what is published after it.  *)
(***************************************************************************)
LateReads ==
    \A s \in Serials : \A rl \in 0 .. SavedCommit :
        Visible(findex'[s], rl) \in {Visible(findex[s], rl), None, published'[s]}

(* A step of the writer that changes for reads in progress what LateReads  *)
(* allows keeps what is said of them.                                      *)
LEMMA ReadersKept ==
    ASSUME TypeInv, Published, Reading, ReadOutcome, SavedCommit \in Nat,
           SavedCommit' \in Nat, SavedCommit <= SavedCommit', Published', LateReads,
           UNCHANGED readers, Witness \/ UNCHANGED <<seen, published>>
    PROVE  Reading' /\ ReadOutcome'
<1>1. /\ rpc' = rpc /\ rserial' = rserial /\ rlcs' = rlcs /\ roffset' = roffset
  BY DEF readers
<1>2. ASSUME NEW r \in Readers
      PROVE  /\ seen[r] \subseteq seen'[r]
             /\ rpc[r] = "index" => published'[rserial[r]] \in seen'[r]
             /\ rpc[r] = "done" => seen'[r] = seen[r] \/ seen[r] \subseteq seen'[r]
  <2>1. CASE Witness
    BY <2>1 DEF Witness
  <2>2. CASE UNCHANGED <<seen, published>>
    BY <2>2 DEF Reading
  <2> QED
    BY <2>1, <2>2
<1>3. ReadOutcome'
  <2> SUFFICES ASSUME NEW r \in Readers, rpc[r] = "done"
               PROVE  \/ roffset[r] \in seen'[r]
                      \/ roffset[r] = None /\ SavedCommit' > rlcs[r]
    BY <1>1 DEF ReadOutcome, SavedCommit
  <2>1. rlcs[r] \in Int
    BY DEF TypeInv, TypeOK
  <2>2. \/ roffset[r] \in seen[r]
        \/ roffset[r] = None /\ SavedCommit > rlcs[r]
    BY DEF ReadOutcome, SavedCommit
  <2> QED
    BY <1>2, <2>1, <2>2
<1>4. Reading'
  <2>1. ASSUME NEW r \in Readers, rpc[r] # "idle"
        PROVE  rlcs[r] \in 0 .. SavedCommit'
    BY <2>1 DEF Reading
  <2>2. ASSUME NEW r \in Readers, rpc[r] = "index"
        PROVE  \/ Visible(findex'[rserial[r]], rlcs[r]) \in seen'[r]
               \/ /\ Visible(findex'[rserial[r]], rlcs[r]) = None
                  /\ rlcs[r] < SavedCommit'
    <3>1. PICK s \in Serials, rl \in 0 .. SavedCommit : s = rserial[r] /\ rl = rlcs[r]
      BY <2>2 DEF Reading
    <3>2. published'[s] \in seen'[r] /\ seen[r] \subseteq seen'[r]
      BY <1>2, <2>2, <3>1
    <3>3. CASE rl = SavedCommit'
      <4>1. Visible(findex'[s], rl) = published'[s]
        BY <3>3 DEF Published
      <4> QED
        BY <3>1, <3>2, <4>1
    <3>4. CASE rl # SavedCommit'
      <4>1. rl < SavedCommit'
        BY <3>4
      <4>2. \/ Visible(findex[s], rl) \in seen[r]
            \/ Visible(findex[s], rl) = None
        BY <2>2, <3>1 DEF Reading
      <4>3. Visible(findex'[s], rl) \in {Visible(findex[s], rl), None, published'[s]}
        BY DEF LateReads
      <4> QED
        BY <3>1, <3>2, <4>1, <4>2, <4>3
    <3> QED
      BY <3>3, <3>4
  <2>3. \A r \in Readers : rpc[r] = "index" => rserial[r] \in Serials
    BY DEF Reading
  <2> QED
    BY <1>1, <1>2, <2>1, <2>2, <2>3 DEF Reading
<1> QED
  BY <1>3, <1>4

(* Steps that leave the index alone.                                       *)
LEMMA IndexKept ==
    ASSUME findex' = findex PROVE LateReads
  BY DEF LateReads

(* A step that leaves the index and the saved state alone.                 *)
LEMMA PublishedKept ==
    ASSUME Published, findex' = findex, fstate' = fstate, published' = published
    PROVE  Published'
  BY DEF Published, SavedCommit

(* A step that saves the state that the registers agree with.              *)
LEMMA PublishedSaved ==
    ASSUME Registers, findex' = findex, fstate' = state, published' = committed
    PROVE  Published'
  BY DEF Published, SavedCommit, LastCommit, Registers

(***************************************************************************)
(* The end of a record.  Once it has been through the files, the registers *)
(* of a WRITE's transaction stay dirty and every other record leaves none. *)
(***************************************************************************)
StillDirty(s) == cur.type = "WRITE" /\ Listed(dirtySerials, s)

(* What a step that ends a record has to leave: the registers are in order *)
(* for the next record, or for the end of the call.                        *)
RecordDone ==
    /\ SavedCommit' <= LastCommit /\ LastCommit <= state.last_sequence
    /\ \A s \in Serials :
          /\ StillDirty(s) => SavedCommit' = LastCommit
          /\ IF StillDirty(s)
             THEN Dirty(findex'[s], LastCommit, state.last_sequence)
             ELSE Clean(findex'[s], LastCommit, state.last_sequence)
          /\ Visible(findex'[s], LastCommit) = committed'[s]
          /\ Latest(findex'[s], LastCommit) = work'[s]

(* Neither open, close nor death.                                          *)
SameWriter == UNCHANGED <<fauto_commit, opened, crashed>>

(* Nothing is on the empty list.                                           *)
LEMMA NotListed == \A s : ~Listed(<< >>, s) /\ Distinct(<< >>)
  BY DEF Listed, Distinct

(* The sequences are numbers, which the solver needs to be told.           *)
LEMMA Numbers ==
    ASSUME TypeInv, SavedCommit \in Nat, SavedCommit <= LastCommit
    PROVE  /\ LastCommit \in Nat /\ state.last_sequence \in Int
           /\ LastKnown \in Int /\ LastCommit \in Int
           /\ fstate.last_commit_sequence \in Int
           /\ state.last_sequence + 1 \in Int
<1>1. state.last_commit_sequence \in Int /\ state.last_sequence \in Int
      /\ fstate.last_commit_sequence \in Int
  BY DEF TypeInv, TypeOK, State
<1> QED
  BY <1>1 DEF LastCommit, LastKnown, SavedCommit

(* A status snapshot begins.                                               *)
LEMMA SnapshotKept ==
    ASSUME TypeInv, Control, pc \notin {"idle", "data"}, RecordDone, SameWriter,
           cur.type = "ROLLBACK_BEGIN" => UNCHANGED <<work, committed>>,
           pc' = "statusData", UNCHANGED <<cur, undo, dirtySerials, state>>
    PROVE  Control' /\ Registers'
<1>1. Control'
  BY DEF Control, SameWriter, Writing, Written
<1>2. /\ ~Writing' /\ ~Written' /\ LastKnown' = state.last_sequence
      /\ LastCommit' = LastCommit
  BY DEF Writing, Written, LastKnown, LastCommit
<1>3. \A s : Unfinished(s)' <=> StillDirty(s)
  BY <1>2 DEF Control, Unfinished, StillDirty
<1>4. Registers'
  BY <1>2, <1>3 DEF RecordDone, Registers
<1> QED
  BY <1>1, <1>4

(* A call that ends a record, and perhaps itself, keeps the invariant,     *)
LEMMA EndRecordKept ==
    ASSUME TypeInv, TypeInv', Control, pc # "idle",
           SavedCommit \in Nat, SavedCommit' \in Nat,
           SavedCommit <= LastCommit, RecordDone, SameWriter, EndRecord
    PROVE  Control' /\ Registers'
<1> USE NotListed
<1>1. CASE cur.type = "ROLLBACK_BEGIN"
  <2>1. PICK m : m = MarkReg("ROLLBACK_END", state.last_sequence + 1, << >>)
    OBVIOUS
  <2>2. /\ m.type = "ROLLBACK_END" /\ m.serials = << >>
        /\ m.sequence = state.last_sequence + 1
    BY <2>1, MarkTypes DEF RecordTypes
  <2>3. /\ cur' = m /\ state' = Counted(m.sequence) /\ undo' = << >>
        /\ pc' = "data" /\ dirtySerials' = dirtySerials
    BY <1>1, <2>1, <2>2 DEF EndRecord, Start
  <2>4. /\ state'.last_sequence = m.sequence
        /\ state'.last_commit_sequence = state.last_commit_sequence
    BY <2>3 DEF Counted, TypeInv, TypeOK, State
  <2>5. Control'
    BY <1>1, <2>2, <2>3, <2>4 DEF Control, SameWriter, Writing, Written
  <2>6. /\ ~Writing' /\ ~Written' /\ LastKnown' = state.last_sequence + 1
        /\ LastCommit' = LastCommit
    BY <2>2, <2>3, <2>4 DEF Writing, Written, LastKnown, LastCommit
  <2>7. \A s : ~Unfinished(s)' /\ ~StillDirty(s)
    BY <1>1, <2>2, <2>3 DEF Unfinished, StillDirty
  <2>8. /\ SavedCommit' <= LastCommit'
        /\ LastCommit' <= LastKnown'
        /\ LastCommit \in Nat /\ state.last_sequence \in Nat
        /\ state.last_sequence + 1 \in Nat
        /\ state.last_sequence <= state.last_sequence + 1
    <3>1. LastCommit \in Nat /\ state.last_sequence \in Int
      BY Numbers
    <3> QED
      BY <2>6, <3>1 DEF RecordDone
  <2>9. ASSUME NEW s \in Serials
        PROVE  /\ Clean(findex'[s], LastCommit', LastKnown')
               /\ Visible(findex'[s], LastCommit') = committed'[s]
               /\ Latest(findex'[s], LastCommit') = work'[s]
    <3>1. Clean(findex'[s], LastCommit, state.last_sequence)
      BY <2>7 DEF RecordDone
    <3>2. findex'[s] \in IndexReg
      BY DEF TypeInv, TypeOK
    <3>3. Clean(findex'[s], LastCommit, state.last_sequence + 1)
      BY <2>8, <3>1, <3>2, CleanGrows
    <3> QED
      BY <2>6, <3>3 DEF RecordDone
  <2>10. Registers'
    BY <2>6, <2>7, <2>8, <2>9 DEF Registers
  <2> QED
    BY <2>5, <2>10
<1>2. CASE cur.type # "ROLLBACK_BEGIN"
  <2>1. /\ pc' = "idle" /\ cur' = NoRecord /\ undo' = << >> /\ state' = state
        /\ dirtySerials' = IF cur.type = "WRITE" THEN dirtySerials ELSE << >>
        /\ cur'.type = "STATUS"
    BY <1>2, MarkTypes DEF EndRecord
  <2>2. Control'
    <3>1. opened' /\ fauto_commit' = fauto_commit
      BY DEF Control, SameWriter
    <3>2. Distinct(dirtySerials')
      BY <2>1 DEF Control
    <3>3. fauto_commit => dirtySerials' = << >>
      BY <2>1 DEF Control
    <3> QED
      BY <2>1, <3>1, <3>2, <3>3 DEF Control, Writing, Written
  <2>3. /\ ~Writing' /\ ~Written' /\ LastKnown' = state.last_sequence
        /\ LastCommit' = LastCommit
    BY <2>1 DEF Writing, Written, LastKnown, LastCommit
  <2>4. \A s : Unfinished(s)' <=> StillDirty(s)
    BY <2>1, <2>3 DEF Unfinished, StillDirty
  <2>5. Registers'
    BY <2>3, <2>4 DEF RecordDone, Registers
  <2> QED
    BY <2>2, <2>5
<1> QED
  BY <1>1, <1>2

(* also when it begins a snapshot instead.                                 *)
LEMMA EndCaseKept ==
    ASSUME TypeInv, TypeInv', Control, pc \notin {"idle", "data"},
           SavedCommit \in Nat, SavedCommit' \in Nat,
           SavedCommit <= LastCommit, RecordDone, SameWriter, EndCase,
           cur.type = "ROLLBACK_BEGIN" => UNCHANGED <<work, committed>>
    PROVE  Control' /\ Registers'
<1>1. CASE state.count % StatusFreq = StatusFreq - 1
  BY <1>1, SnapshotKept DEF EndCase
<1>2. CASE state.count % StatusFreq # StatusFreq - 1
  BY <1>2, EndRecordKept DEF EndCase
<1> QED
  BY <1>1, <1>2

(***************************************************************************)
(* The steps that leave the index alone.                                   *)
(***************************************************************************)
Kept == Control' /\ Registers'

(* What a step of a writer that lives finds.                               *)
LEMMA Known ==
    ASSUME Inv, ~crashed
    PROVE  /\ TypeInv /\ Control /\ Registers /\ SavedCommit \in Nat
           /\ SavedCommit <= LastCommit /\ LastCommit <= LastKnown
           /\ LastCommit \in Nat /\ LastKnown \in Nat
           /\ state.last_sequence \in Int /\ state.last_sequence + 1 \in Int
           /\ \A s \in Serials : findex[s] \in IndexReg
<1>1. TypeInv /\ Control /\ Registers /\ SavedCommit \in Nat
  BY DEF Inv
<1>2. SavedCommit <= LastCommit /\ LastCommit <= LastKnown
  BY <1>1 DEF Registers
<1>3. /\ LastCommit \in Nat /\ LastKnown \in Int
      /\ state.last_sequence \in Int /\ state.last_sequence + 1 \in Int
  BY <1>1, <1>2, Numbers
<1>4. \A s \in Serials : findex[s] \in IndexReg
  BY <1>1 DEF TypeInv, TypeOK
<1> QED
  BY <1>1, <1>2, <1>3, <1>4

(* A call that begins keeps the invariant, one lemma for each kind of step *)
(* from here on.                                                           *)
LEMMA CallKept ==
    ASSUME Inv, ~crashed, TypeInv', NEW r \in DataReg,
           r.type \in {"WRITE", "COMMIT", "ROLLBACK_BEGIN"},
           r.sequence = state.last_sequence + 1,
           r.serials = IF r.type = "ROLLBACK_BEGIN" THEN dirtySerials ELSE << >>,
           r.type = "WRITE" => /\ r.serial \in Serials /\ r.auto = fauto_commit
                               /\ ~Listed(dirtySerials, r.serial),
           r.type # "WRITE" => ~fauto_commit,
           Call(r)
    PROVE  Kept
<1> USE NotListed
<1>1. /\ TypeInv /\ Control /\ Registers /\ LastCommit \in Nat
      /\ state.last_sequence \in Int
      /\ cur.type = "STATUS" /\ pc = "idle" /\ opened
      /\ ~Writing /\ ~Written /\ LastKnown = state.last_sequence
  <2>1. cur.type = "STATUS" /\ pc = "idle" /\ opened
    BY Known DEF Call, Control
  <2> QED
    BY <2>1, Known DEF Writing, Written, LastKnown
<1>2. /\ cur' = r /\ undo' = r.serials /\ pc' = "data" /\ dirtySerials' = dirtySerials
      /\ state' = Counted(state.last_sequence + 1)
      /\ fauto_commit' = fauto_commit /\ opened' = opened
      /\ findex' = findex /\ fstate' = fstate
      /\ work' = work /\ committed' = committed
  BY DEF Call, Start, files, ghosts
<1>3. /\ state'.last_sequence = state.last_sequence + 1
      /\ state'.last_commit_sequence = state.last_commit_sequence
  BY <1>1, <1>2 DEF Counted, TypeInv, TypeOK, State
<1>4. Control'
  BY <1>1, <1>2, <1>3 DEF Control, Writing, Written
<1>5. /\ ~Written' /\ LastCommit' = LastCommit /\ SavedCommit' = SavedCommit
      /\ LastKnown' \in {state.last_sequence, state.last_sequence + 1}
  BY <1>1, <1>2, <1>3 DEF Writing, Written, LastKnown, LastCommit, SavedCommit
<1>6. \A s : Unfinished(s)' <=> Unfinished(s)
  BY <1>1, <1>2, <1>5 DEF Unfinished
<1>7. \A s : Settled(s)
  BY <1>1 DEF Settled
<1>8. LastKnown' \in Nat /\ LastKnown \in Nat /\ LastKnown <= LastKnown'
  BY <1>1, <1>5, Known
<1>9. ASSUME NEW s \in Serials
      PROVE  /\ IF Unfinished(s)' THEN Dirty(findex'[s], LastCommit', LastKnown')
                                  ELSE Clean(findex'[s], LastCommit', LastKnown')
             /\ Visible(findex'[s], LastCommit') = committed'[s]
             /\ Latest(findex'[s], LastCommit') = work'[s]
  <2>1. findex[s] \in IndexReg
    BY Known
  <2>2. /\ Dirty(findex[s], LastCommit, LastKnown) => Dirty(findex[s], LastCommit, LastKnown')
        /\ Clean(findex[s], LastCommit, LastKnown) => Clean(findex[s], LastCommit, LastKnown')
    BY <1>1, <1>8, <2>1, DirtyGrows, CleanGrows
  <2> QED
    BY <1>1, <1>2, <1>5, <1>6, <1>7, <2>2 DEF Registers
<1>10. Registers'
  <2>1. SavedCommit <= LastCommit /\ LastCommit <= LastKnown'
    BY <1>1, <1>8, Known
  <2> QED
    BY <1>1, <1>5, <1>6, <1>9, <2>1 DEF Registers
<1> QED
  BY <1>4, <1>10 DEF Kept

(* The state file of a WRITE: what was committed is published.             *)
LEMMA SaveStateKept ==
    ASSUME Inv, ~crashed, SaveStateStep PROVE Kept
<1>1. TypeInv /\ Control /\ Registers
  BY Known
<1>2. cur.type = "WRITE" /\ pc = "state" /\ pc' = "log"
  BY <1>1 DEF SaveStateStep, Control
<1>3. /\ cur' = cur /\ undo' = undo /\ dirtySerials' = dirtySerials /\ state' = state
      /\ fauto_commit' = fauto_commit /\ opened' = opened /\ fdata' = fdata
      /\ findex' = findex /\ fstate' = state
      /\ work' = work /\ committed' = committed
  BY DEF SaveStateStep, WriterOnly
<1>4. Control'
  BY <1>1, <1>2, <1>3 DEF Control, Writing, Written
<1>5. /\ Written' /\ Written /\ LastKnown' = LastKnown
      /\ LastCommit' = LastCommit /\ SavedCommit' = LastCommit
  BY <1>2, <1>3 DEF Writing, Written, LastKnown, LastCommit, SavedCommit
<1>6. \A s : (Unfinished(s)' <=> Unfinished(s)) /\ (Settled(s)' <=> Settled(s))
  BY <1>2, <1>3, <1>5 DEF Unfinished, Settled
<1>7. LastCommit <= LastCommit /\ LastCommit <= LastKnown
  BY Known
<1>8. Registers'
  BY <1>1, <1>3, <1>5, <1>6, <1>7 DEF Registers
<1> QED
  BY <1>4, <1>8 DEF Kept

(* During a snapshot the record is done.                                   *)
LEMMA StatusKnown ==
    ASSUME Inv, ~crashed, pc \in {"statusData", "statusLog", "statusState"}
    PROVE  /\ ~Writing /\ ~Written /\ LastKnown = state.last_sequence
           /\ opened
           /\ \A s : /\ Unfinished(s) <=> StillDirty(s)
                     /\ Settled(s)
<1>1. Control
  BY Known
<1>2. ~Writing /\ ~Written /\ LastKnown = state.last_sequence /\ opened
  BY <1>1 DEF Writing, Written, LastKnown, Control
<1>3. \A s : Unfinished(s) <=> StillDirty(s)
  BY <1>1, <1>2 DEF Unfinished, StillDirty, Control
<1>4. \A s : Settled(s)
  BY <1>2 DEF Settled, Unfinished
<1> QED
  BY <1>2, <1>3, <1>4

(* The STATUS record in the data file,                                     *)
LEMMA StatusDataKept ==
    ASSUME Inv, ~crashed, TypeInv', StatusDataStep PROVE Kept
<1>1. /\ TypeInv /\ Control /\ Registers
      /\ pc = "statusData" /\ pc' = "statusLog"
  BY Known DEF StatusDataStep
<1>2. /\ cur' = cur /\ undo' = undo /\ dirtySerials' = dirtySerials
      /\ state' = Counted(state.last_sequence + 1)
      /\ fauto_commit' = fauto_commit /\ opened' = opened
      /\ findex' = findex /\ fstate' = fstate
      /\ work' = work /\ committed' = committed
  BY DEF StatusDataStep, WriterOnly, ghosts
<1>3. /\ state'.last_sequence = state.last_sequence + 1
      /\ state'.last_commit_sequence = state.last_commit_sequence
  BY <1>1, <1>2 DEF Counted, TypeInv, TypeOK, State
<1>4. /\ ~Writing /\ ~Written /\ LastKnown = state.last_sequence /\ opened
      /\ \A s : Settled(s)
  BY <1>1, StatusKnown
<1>5. /\ ~Writing' /\ ~Written' /\ LastKnown' = LastKnown + 1
      /\ LastCommit' = LastCommit /\ SavedCommit' = SavedCommit
  BY <1>1, <1>2, <1>3, <1>4 DEF Writing, Written, LastKnown, LastCommit,
       SavedCommit
<1>6. \A s : Unfinished(s)' <=> Unfinished(s)
  BY <1>1, <1>2, <1>4, <1>5 DEF Unfinished
<1>7. Control'
  BY <1>1, <1>2, <1>4 DEF Control, Writing, Written
<1>8. /\ LastKnown \in Nat /\ LastKnown' \in Nat /\ LastKnown <= LastKnown'
      /\ SavedCommit <= LastCommit /\ LastCommit <= LastKnown' /\ LastCommit \in Nat
  BY <1>5, Known
<1>9. ASSUME NEW s \in Serials
      PROVE  /\ IF Unfinished(s)' THEN Dirty(findex'[s], LastCommit', LastKnown')
                                  ELSE Clean(findex'[s], LastCommit', LastKnown')
             /\ Visible(findex'[s], LastCommit') = committed'[s]
             /\ Latest(findex'[s], LastCommit') = work'[s]
  <2>1. findex[s] \in IndexReg
    BY Known
  <2>2. /\ Dirty(findex[s], LastCommit, LastKnown) => Dirty(findex[s], LastCommit, LastKnown')
        /\ Clean(findex[s], LastCommit, LastKnown) => Clean(findex[s], LastCommit, LastKnown')
    BY <1>8, <2>1, DirtyGrows, CleanGrows
  <2> QED
    BY <1>1, <1>2, <1>4, <1>5, <1>6, <2>2 DEF Registers
<1>10. Registers'
  BY <1>1, <1>5, <1>6, <1>8, <1>9 DEF Registers
<1> QED
  BY <1>7, <1>10 DEF Kept

(* in the log,                                                             *)
LEMMA StatusLogKept ==
    ASSUME Inv, ~crashed, StatusLogStep PROVE Kept
<1>1. /\ TypeInv /\ Control /\ Registers
      /\ pc = "statusLog" /\ pc' = "statusState"
  BY Known DEF StatusLogStep
<1>2. /\ cur' = cur /\ undo' = undo /\ dirtySerials' = dirtySerials /\ state' = state
      /\ fauto_commit' = fauto_commit /\ opened' = opened
      /\ findex' = findex /\ fstate' = fstate
      /\ work' = work /\ committed' = committed
  BY DEF StatusLogStep, WriterOnly, ghosts
<1>3. Control'
  BY <1>1, <1>2 DEF Control, Writing, Written
<1>4. \A s : Unfinished(s)' <=> Unfinished(s)
  BY <1>1, <1>2 DEF Unfinished, Written
<1>5. /\ LastKnown' = LastKnown /\ LastCommit' = LastCommit /\ SavedCommit' = SavedCommit
      /\ ~Written'
  BY <1>1, <1>2 DEF Writing, Written, LastKnown, LastCommit, SavedCommit
<1>6. \A s : Settled(s)
  BY <1>1, StatusKnown
<1>7. Registers'
  BY <1>1, <1>2, <1>4, <1>5, <1>6 DEF Registers
<1> QED
  BY <1>3, <1>7 DEF Kept

(* and the state file, which publishes what was committed.                 *)
LEMMA StatusStateKept ==
    ASSUME Inv, ~crashed, TypeInv', StatusStateStep PROVE Kept
<1>1. /\ TypeInv /\ Control /\ Registers /\ SavedCommit \in Nat
      /\ SavedCommit <= LastCommit /\ LastCommit \in Nat /\ LastCommit <= LastKnown
      /\ pc = "statusState" /\ pc # "idle"
  BY Known DEF StatusStateStep
<1>2. /\ findex' = findex /\ fstate' = state
      /\ work' = work /\ committed' = committed /\ SameWriter /\ EndRecord
  BY DEF StatusStateStep, WriterOnly, SameWriter
<1>3. /\ LastKnown = state.last_sequence
      /\ \A s : /\ Unfinished(s) <=> StillDirty(s)
                /\ Settled(s)
  BY <1>1, StatusKnown
<1>4. SavedCommit' = LastCommit
  BY <1>2 DEF SavedCommit, LastCommit
<1>5. RecordDone
  <2>1. LastCommit <= LastCommit
    BY <1>1
  <2> QED
    BY <1>1, <1>2, <1>3, <1>4, <2>1 DEF RecordDone, Registers
<1> QED
  BY <1>1, <1>2, <1>4, <1>5, EndRecordKept DEF Kept

(* A record that is in the log and touches no register.                    *)
LEMMA WriteLogKept ==
    ASSUME Inv, ~crashed, TypeInv', WriteLogStep PROVE Kept
<1>1. /\ TypeInv /\ Control /\ Registers /\ SavedCommit \in Nat
      /\ SavedCommit <= LastCommit /\ LastCommit <= LastKnown
      /\ pc = "log" /\ pc # "idle" /\ opened
  BY Known DEF WriteLogStep, Control
<1>2. /\ findex' = findex /\ fstate' = fstate /\ fdata' = fdata
      /\ work' = work /\ committed' = committed /\ SameWriter
      /\ SavedCommit' = SavedCommit
  BY DEF WriteLogStep, WriterOnly, SameWriter, ghosts, SavedCommit
<1>3. CASE cur.type = "WRITE" \/ undo # << >>
  <2>1. /\ cur' = cur /\ undo' = undo /\ dirtySerials' = dirtySerials /\ state' = state
        /\ pc' = IF cur.type = "WRITE" THEN "index" ELSE "undo"
    <3>1. ASSUME cur.type = "WRITE"
          PROVE  /\ cur' = cur /\ undo' = undo /\ dirtySerials' = dirtySerials
                 /\ state' = state /\ pc' = "index"
      <4>1. undo = << >>
        BY <1>1, <3>1 DEF Control
      <4> QED
        BY <3>1, <4>1 DEF WriteLogStep
    <3>2. ASSUME cur.type # "WRITE", undo # << >>
          PROVE  /\ cur' = cur /\ undo' = undo /\ dirtySerials' = dirtySerials
                 /\ state' = state /\ pc' = "undo"
      BY <3>2 DEF WriteLogStep
    <3> QED
      BY <1>3, <3>1, <3>2
  <2>2. Control'
    BY <1>1, <1>2, <1>3, <2>1 DEF Control, Writing, Written, SameWriter
  <2>3. /\ Written' <=> Written
        /\ LastKnown' = LastKnown /\ LastCommit' = LastCommit
    BY <1>1, <1>2, <2>1 DEF Writing, Written, LastKnown, LastCommit
  <2>4. \A s : (Unfinished(s)' <=> Unfinished(s)) /\ (Settled(s)' <=> Settled(s))
    BY <1>1, <1>2, <2>1, <2>3 DEF Unfinished, Settled, SameWriter, Control
  <2>5. Registers'
    BY <1>1, <1>2, <2>1, <2>3, <2>4 DEF Registers
  <2> QED
    BY <2>2, <2>5 DEF Kept
<1>4. CASE cur.type # "WRITE" /\ undo = << >>
  <2>1. EndCase
    BY <1>4 DEF WriteLogStep
  <2>2. ~Written /\ LastKnown = state.last_sequence
    BY <1>4 DEF Written, Writing, LastKnown
  <2>3. \A s : ~Unfinished(s) /\ ~StillDirty(s) /\ Settled(s)
    BY <1>1, <1>4, <2>2, NotListed DEF Unfinished, StillDirty, Settled, Control
  <2>4. RecordDone
    BY <1>1, <1>2, <2>2, <2>3 DEF RecordDone, Registers
  <2> QED
    BY <1>1, <1>2, <2>1, <2>4, EndCaseKept DEF Kept
<1> QED
  BY <1>3, <1>4

(* A record reaches the data file; a COMMIT takes effect in the state, and *)
(* a rollback goes back to what is committed.                              *)
LEMMA WriteDataKept ==
    ASSUME Inv, ~crashed, TypeInv', WriteDataStep PROVE Kept
<1>1. /\ TypeInv /\ Control /\ Registers /\ SavedCommit \in Nat
      /\ SavedCommit <= LastCommit /\ LastCommit <= LastKnown
      /\ LastCommit \in Nat /\ LastKnown \in Nat
      /\ pc = "data" /\ opened /\ ~Written
  BY Known DEF WriteDataStep, Control, Written
<1>2. /\ cur' = cur /\ undo' = undo /\ fauto_commit' = fauto_commit /\ opened' = opened
      /\ findex' = findex /\ fstate' = fstate
      /\ state' = AfterData
      /\ SavedCommit' = SavedCommit
  BY DEF WriteDataStep, WriterOnly, SavedCommit
<1>3. state'.last_sequence = state.last_sequence
  BY <1>1, <1>2 DEF AfterData, TypeInv, TypeOK, State
<1>4. \A s : Settled(s)
  BY <1>1 DEF Settled
<1>5. CASE cur.type = "WRITE"
  <2>1. PICK n \in Nat : n = Len(fdata') /\ n > 0
    <3>1. fdata \in Seq(DataReg) /\ cur \in DataReg
      BY <1>1, FilesHere
    <3>2. fdata' = Append(fdata, cur)
      BY DEF WriteDataStep
    <3>3. Len(fdata') = Len(fdata) + 1 /\ Len(fdata) \in Nat
      BY <3>1, <3>2
    <3> QED
      BY <3>3
  <2>2. /\ pc' = "state" /\ committed' = committed
        /\ LastCommit' = LastCommit
        /\ dirtySerials' = IF fauto_commit THEN dirtySerials
                           ELSE Append(dirtySerials, cur.serial)
        /\ work' = IF fauto_commit THEN work ELSE [work EXCEPT ![cur.serial] = n]
    <3>1. state'.last_commit_sequence = state.last_commit_sequence
      BY <1>1, <1>2, <1>5 DEF AfterData, TypeInv, TypeOK, State
    <3>2. /\ pc' = "state" /\ committed' = committed
          /\ dirtySerials' = IF fauto_commit THEN dirtySerials
                             ELSE Append(dirtySerials, cur.serial)
          /\ work' = IF fauto_commit THEN work ELSE [work EXCEPT ![cur.serial] = n]
      BY <1>5, <2>1 DEF WriteDataStep
    <3> QED
      BY <3>1, <3>2 DEF LastCommit
  <2>3. /\ cur.serial \in Serials /\ ~Listed(dirtySerials, cur.serial)
        /\ dirtySerials \in Seq(Serials) /\ work \in [Serials -> Int]
    BY <1>1, <1>5, FilesHere DEF Control, Writing
  <2>4. /\ \A s : Listed(dirtySerials', s)
                    <=> Listed(dirtySerials, s) \/ (~fauto_commit /\ s = cur.serial)
        /\ Distinct(dirtySerials')
    <3>1. Distinct(dirtySerials)
      BY <1>1 DEF Control
    <3> QED
      BY <2>2, <2>3, <3>1, ListedAppend, DistinctAppend
  <2>5. ~fauto_commit => work'[cur.serial] = n
    BY <2>2, <2>3
  <2>6. Control'
    BY <1>1, <1>2, <1>3, <1>5, <2>1, <2>2, <2>3, <2>4, <2>5
       DEF Control, Writing, Written
  <2>7. /\ Written' /\ LastKnown' = LastKnown /\ LastCommit' = LastCommit
    BY <1>1, <1>2, <1>3, <1>5, <2>2 DEF Writing, Written, LastKnown
  <2>8. \A s : Unfinished(s)' <=> Unfinished(s)
    BY <1>1, <1>2, <1>5, <2>2, <2>3, <2>4, <2>7, NotListed DEF Unfinished,
         Control
  <2>9. \A s \in Serials : Settled(s)' => work'[s] = work[s]
    BY <1>2, <2>2, <2>3, <2>7 DEF Settled
  <2>10. Registers'
    BY <1>1, <1>2, <1>4, <2>2, <2>7, <2>8, <2>9 DEF Registers
  <2> QED
    BY <2>6, <2>10 DEF Kept
<1>6. CASE cur.type = "COMMIT"
  <2>1. /\ pc' = "log" /\ committed' = work /\ work' = work
        /\ dirtySerials' = dirtySerials
        /\ state'.last_commit_sequence = cur.sequence
        /\ cur.sequence = state.last_sequence
    <3>1. /\ pc' = "log" /\ committed' = work /\ work' = work
          /\ dirtySerials' = dirtySerials
      BY <1>6 DEF WriteDataStep
    <3>2. state'.last_commit_sequence = cur.sequence
      BY <1>1, <1>2, <1>6 DEF AfterData, TypeInv, TypeOK, State
    <3> QED
      BY <1>1, <3>1, <3>2 DEF Control
  <2>2. Control'
    BY <1>1, <1>2, <1>3, <1>6, <2>1 DEF Control, Writing, Written
  <2>3. /\ ~Written' /\ LastKnown = state.last_sequence /\ LastKnown' = LastKnown
        /\ LastCommit' = LastKnown
    BY <1>2, <1>3, <1>6, <2>1 DEF Writing, Written, LastKnown, LastCommit
  <2>4. \A s : ~Unfinished(s)'
    BY <1>2, <1>6, <2>1 DEF Unfinished
  <2>5. ASSUME NEW s \in Serials
        PROVE  /\ Clean(findex[s], LastKnown, LastKnown)
               /\ Visible(findex[s], LastKnown) = work[s]
               /\ Latest(findex[s], LastKnown) = work[s]
    <3>1. findex[s] \in IndexReg
      BY Known
    <3>2. /\ Clean(findex[s], LastCommit, LastKnown) \/ Dirty(findex[s], LastCommit, LastKnown)
          /\ Latest(findex[s], LastCommit) = work[s]
      BY <1>1, <1>4 DEF Registers
    <3>3. CommittedReg(findex[s], LastCommit, LastKnown)
      BY <1>1, <3>1, <3>2, CommitReads
    <3> QED
      BY <3>2, <3>3 DEF CommittedReg
  <2>6. SavedCommit <= LastKnown /\ LastKnown <= LastKnown
    BY <1>1
  <2>7. Registers'
    BY <1>2, <2>1, <2>3, <2>4, <2>5, <2>6 DEF Registers
  <2> QED
    BY <2>2, <2>7 DEF Kept
<1>7. CASE cur.type = "ROLLBACK_BEGIN" \/ cur.type = "ROLLBACK_END"
  <2>1. /\ pc' = "log" /\ committed' = committed
        /\ dirtySerials' = dirtySerials /\ state' = state
        /\ work' = IF cur.type = "ROLLBACK_BEGIN" THEN committed ELSE work
    BY <1>2, <1>7 DEF WriteDataStep, AfterData
  <2>2. Control'
    BY <1>1, <1>2, <1>7, <2>1 DEF Control, Writing, Written
  <2>3. /\ ~Written' /\ LastKnown = LastKnown' /\ LastCommit' = LastCommit
    BY <1>1, <1>2, <1>7, <2>1 DEF Writing, Written, LastKnown, LastCommit
  <2>4. \A s : /\ Unfinished(s)' <=> Unfinished(s)
               /\ cur.type = "ROLLBACK_BEGIN" => (Settled(s)' <=> ~Unfinished(s))
    BY <1>1, <1>2, <1>7, <2>1, <2>3 DEF Unfinished, Settled
  <2>5. ASSUME NEW s \in Serials, Settled(s)'
        PROVE  Latest(findex[s], LastCommit) = work'[s]
    <3>1. findex[s] \in IndexReg
      BY Known
    <3>2. ~Unfinished(s) => Latest(findex[s], LastCommit) = committed[s]
      BY <1>1, <3>1, CleanReads DEF Registers
    <3> QED
      BY <1>1, <1>4, <1>7, <2>1, <2>4, <2>5, <3>2 DEF Registers
  <2>6. Registers'
    BY <1>1, <1>2, <2>1, <2>3, <2>4, <2>5 DEF Registers
  <2> QED
    BY <2>2, <2>6 DEF Kept
<1> QED
  BY <1>1, <1>5, <1>6, <1>7 DEF Control

(***************************************************************************)
(* The steps that write a register.                                        *)
(***************************************************************************)

(* What such a step owes to the readers.                                   *)
LEMMA PublishedWritten ==
    ASSUME Registers, Published, SavedCommit = LastCommit, fstate' = fstate,
           \A s \in Serials : \/ /\ Visible(findex'[s], LastCommit) = Visible(findex[s], LastCommit)
                                 /\ published'[s] = published[s]
                              \/ Visible(findex'[s], LastCommit) = published'[s]
    PROVE  Published'
<1>1. SavedCommit' = LastCommit
  BY DEF SavedCommit
<1> QED
  BY <1>1 DEF Published

(* The WRITE reaches the index.                                            *)
LEMMA WriteIndexKept ==
    ASSUME Inv, ~crashed, TypeInv', WriteIndexStep
    PROVE  Kept /\ Published' /\ LateReads
<1>1. /\ TypeInv /\ Control /\ Registers /\ SavedCommit \in Nat
      /\ SavedCommit <= LastCommit /\ LastCommit <= LastKnown
      /\ LastCommit \in Nat /\ LastKnown \in Nat
      /\ pc = "index" /\ opened /\ cur.type = "WRITE" /\ Published
  BY Known DEF WriteIndexStep, Control, Inv
<1>2. /\ Written /\ Writing /\ LastKnown = state.last_sequence - 1
      /\ SavedCommit = LastCommit
  <2>1. Written /\ Writing
    BY <1>1 DEF Written, Writing
  <2> QED
    BY <1>1, <2>1 DEF LastKnown, Registers
<1>3. PICK k \in Serials, n \in Int, last \in Nat :
         /\ k = cur.serial /\ n = Len(fdata) /\ n > 0 /\ last = LastKnown
  <2>1. Len(fdata) \in Int /\ Len(fdata) > 0 /\ cur.serial \in Serials
    BY <1>1, <1>2, FilesHere DEF Control
  <2> QED
    BY <1>1, <2>1
<1>4. /\ cur.sequence = last + 1 /\ state.last_sequence = last + 1
      /\ cur.auto = fauto_commit /\ fauto_commit \in BOOLEAN
  <2>1. cur.sequence = state.last_sequence /\ cur.auto = fauto_commit
    BY <1>1, <1>2 DEF Control
  <2>2. state.last_sequence \in Int /\ fauto_commit \in BOOLEAN
    BY <1>1, Known DEF TypeInv, TypeOK
  <2> QED
    BY <1>2, <1>3, <2>1, <2>2
<1>5. PICK new : new = SetOldestOffset(findex[k], n, cur.sequence, cur.auto,
                                       findex[k] = EmptyIndex)
  OBVIOUS
<1>6. /\ findex' = [findex EXCEPT ![k] = new] /\ findex \in [Serials -> IndexReg]
      /\ fstate' = fstate /\ SameWriter /\ EndCase
      /\ SavedCommit' = LastCommit
  <2>1. findex' = [findex EXCEPT ![k] = new]
    BY <1>3, <1>5 DEF WriteIndexStep
  <2> QED
    BY <1>1, <1>2, <2>1 DEF WriteIndexStep, WriterOnly, SameWriter,
         SavedCommit,
                            TypeInv, TypeOK
<1>7. findex'[k] = new /\ \A s \in Serials : s # k => findex'[s] = findex[s]
  BY <1>6
<1>8. findex[k] \in IndexReg /\ Clean(findex[k], LastCommit, last)
  <2>1. ~Unfinished(k)
    BY <1>1, <1>2, <1>3 DEF Unfinished
  <2> QED
    BY <1>1, <1>3, <2>1, Known DEF Registers
<1>9. LastCommit <= last /\ last + 1 \in Nat /\ last <= last + 1
      /\ LastCommit <= last + 1 /\ LastCommit <= LastCommit
  BY <1>1, <1>3
<1>10. ASSUME NEW s \in Serials, s # k
       PROVE  /\ Unfinished(s) <=> StillDirty(s)
              /\ IF StillDirty(s) THEN Dirty(findex'[s], LastCommit, last + 1)
                                  ELSE Clean(findex'[s], LastCommit, last + 1)
              /\ Visible(findex'[s], LastCommit) = committed[s]
              /\ Latest(findex'[s], LastCommit) = work[s]
              /\ findex'[s] = findex[s]
  <2>1. findex[s] \in IndexReg /\ findex'[s] = findex[s]
    BY <1>7, <1>10, Known
  <2>2. (Unfinished(s) <=> StillDirty(s)) /\ Settled(s)
    BY <1>1, <1>3, <1>10 DEF Unfinished, StillDirty, Settled
  <2>3. /\ IF StillDirty(s) THEN Dirty(findex[s], LastCommit, last)
                            ELSE Clean(findex[s], LastCommit, last)
        /\ Visible(findex[s], LastCommit) = committed[s]
        /\ Latest(findex[s], LastCommit) = work[s]
    BY <1>1, <1>3, <2>2 DEF Registers
  <2>4. /\ Dirty(findex[s], LastCommit, last) => Dirty(findex[s], LastCommit, last + 1)
        /\ Clean(findex[s], LastCommit, last) => Clean(findex[s], LastCommit, last + 1)
    BY <1>1, <1>9, <2>1, DirtyGrows, CleanGrows
  <2> QED
    BY <2>1, <2>2, <2>3, <2>4
<1>11. CASE fauto_commit
  <2>1. /\ work' = [work EXCEPT ![k] = n]
        /\ committed' = [committed EXCEPT ![k] = n]
        /\ published' = [published EXCEPT ![k] = n]
    BY <1>3, <1>4, <1>11 DEF WriteIndexStep
  <2>2. /\ work'[k] = n /\ committed'[k] = n /\ published'[k] = n
        /\ \A s \in Serials : s # k => /\ work'[s] = work[s]
                                       /\ committed'[s] = committed[s]
                                       /\ published'[s] = published[s]
    BY <1>1, <2>1, FilesHere
  <2>3. AutoWrittenReg(new, LastCommit, last + 1, n)
    <3>1. AutoWrittenReg(SetOldestOffset(findex[k], n, last + 1, TRUE,
                                         findex[k] = EmptyIndex),
                         LastCommit, last + 1, n)
      BY <1>1, <1>3, <1>8, <1>9, AutoWriteReads
    <3>2. cur.auto = TRUE
      BY <1>4, <1>11
    <3> QED
      BY <1>4, <1>5, <3>1, <3>2
  <2>4. ~StillDirty(k)
    BY <1>1, <1>11, NotListed DEF StillDirty, Control
  <2>5. /\ Clean(new, LastCommit, last + 1) /\ Latest(new, LastCommit) = n
        /\ Visible(new, LastCommit) = n
        /\ \A rl \in 0 .. LastCommit : Visible(new, rl) = n
    BY <1>1, <2>3 DEF AutoWrittenReg
  <2>6. RecordDone
    BY <1>2, <1>4, <1>6, <1>7, <1>9, <1>10, <2>2, <2>4, <2>5 DEF RecordDone
  <2>7. Kept
    BY <1>1, <1>2, <1>6, <2>6, EndCaseKept DEF Kept
  <2>8. Published'
    <3>1. ASSUME NEW s \in Serials
          PROVE \/ /\ Visible(findex'[s], LastCommit) = Visible(findex[s], LastCommit)
                   /\ published'[s] = published[s]
                \/ Visible(findex'[s], LastCommit) = published'[s]
      BY <1>7, <2>2, <2>5
    <3> QED
      BY <1>1, <1>2, <1>6, <3>1, PublishedWritten
  <2>9. LateReads
    BY <1>2, <1>7, <2>2, <2>5 DEF LateReads
  <2> QED
    BY <2>7, <2>8, <2>9
<1>12. CASE ~fauto_commit
  <2>1. work' = work /\ committed' = committed /\ published' = published
    BY <1>4, <1>12 DEF WriteIndexStep, ghosts
  <2>2. WrittenReg(new, findex[k], LastCommit, last + 1, n)
    <3>1. WrittenReg(SetOldestOffset(findex[k], n, last + 1, FALSE,
                                     findex[k] = EmptyIndex),
                     findex[k], LastCommit, last + 1, n)
      BY <1>1, <1>3, <1>8, <1>9, WriteReads
    <3>2. cur.auto = FALSE
      BY <1>4, <1>12
    <3> QED
      BY <1>4, <1>5, <3>1, <3>2
  <2>3. StillDirty(k) /\ work[k] = n
    BY <1>1, <1>2, <1>3, <1>12 DEF StillDirty, Control
  <2>4. /\ Dirty(new, LastCommit, last + 1) /\ Latest(new, LastCommit) = n
        /\ Visible(new, LastCommit) = Visible(findex[k], LastCommit)
        /\ \A rl \in 0 .. LastCommit :
              Visible(new, rl) \in {Visible(findex[k], rl), None}
    BY <2>2 DEF WrittenReg
  <2>5. Visible(findex[k], LastCommit) = committed[k]
    BY <1>1 DEF Registers
  <2>6. RecordDone
    BY <1>2, <1>4, <1>6, <1>7, <1>9, <1>10, <2>1, <2>3, <2>4, <2>5 DEF
         RecordDone
  <2>7. Kept
    BY <1>1, <1>2, <1>6, <2>6, EndCaseKept DEF Kept
  <2>8. Published'
    <3>1. ASSUME NEW s \in Serials
          PROVE \/ /\ Visible(findex'[s], LastCommit) = Visible(findex[s], LastCommit)
                   /\ published'[s] = published[s]
                \/ Visible(findex'[s], LastCommit) = published'[s]
      BY <1>7, <2>1, <2>4
    <3> QED
      BY <1>1, <1>2, <1>6, <3>1, PublishedWritten
  <2>9. LateReads
    BY <1>2, <1>7, <2>1, <2>4 DEF LateReads
  <2> QED
    BY <2>7, <2>8, <2>9
<1> QED
  BY <1>11, <1>12

(* A rollback undoes the register of one serial.                           *)
LEMMA UndoIndexKept ==
    ASSUME Inv, ~crashed, TypeInv', UndoIndexStep
    PROVE  Kept /\ Published' /\ LateReads
<1>1. /\ TypeInv /\ Control /\ Registers /\ SavedCommit \in Nat
      /\ SavedCommit <= LastCommit /\ LastCommit <= LastKnown
      /\ LastCommit \in Nat /\ LastKnown \in Nat
      /\ pc = "undo" /\ opened /\ cur.type = "ROLLBACK_BEGIN" /\ Published
      /\ undo # << >> /\ undo \in Seq(Serials) /\ Distinct(undo)
      /\ work = committed
  BY Known, FilesHere DEF UndoIndexStep, Control, Inv, TypeInv, Shape
<1>2. PICK k \in Serials : k = Head(undo)
  BY <1>1
<1>3. /\ Listed(undo, k) /\ Tail(undo) \in Seq(Serials) /\ Distinct(Tail(undo))
      /\ \A s : Listed(Tail(undo), s) <=> Listed(undo, s) /\ s # k
  BY <1>1, <1>2, TailListed
<1>4. /\ ~Written /\ ~Writing /\ LastKnown = state.last_sequence
      /\ \A s : (Unfinished(s) <=> Listed(undo, s)) /\ (Settled(s) <=> ~Listed(undo, s))
  <2>1. ~Written /\ ~Writing /\ LastKnown = state.last_sequence
    BY <1>1 DEF Written, Writing, LastKnown
  <2> QED
    BY <1>1, <2>1 DEF Unfinished, Settled
<1>5. SavedCommit = LastCommit
  BY <1>1, <1>3, <1>4 DEF Registers
<1>6. PICK new : new = SetNewestOffset(findex[k], -1, FALSE)
  OBVIOUS
<1>7. /\ findex' = [findex EXCEPT ![k] = new] /\ findex \in [Serials -> IndexReg]
      /\ fstate' = fstate /\ fdata' = fdata /\ SameWriter
      /\ work' = work /\ committed' = committed /\ published' = published
      /\ SavedCommit' = LastCommit
  BY <1>1, <1>2, <1>5, <1>6 DEF UndoIndexStep, WriterOnly, SameWriter,
       SavedCommit,
                                ghosts, TypeInv, TypeOK
<1>8. findex'[k] = new /\ \A s \in Serials : s # k => findex'[s] = findex[s]
  BY <1>7
<1>9. /\ Clean(new, LastCommit, LastKnown)
      /\ Latest(new, LastCommit) = work[k]
      /\ Visible(new, LastCommit) = committed[k]
      /\ \A rl \in 0 .. LastCommit : Visible(new, rl) = Visible(findex[k], rl)
  <2>1. findex[k] \in IndexReg /\ Dirty(findex[k], LastCommit, LastKnown)
    BY <1>1, <1>3, <1>4, Known DEF Registers
  <2>2. UndoneReg(new, findex[k], LastCommit, LastKnown)
    BY <1>1, <1>6, <2>1, UndoReads
  <2>3. Visible(findex[k], LastCommit) = committed[k] /\ work[k] = committed[k]
    BY <1>1 DEF Registers
  <2>4. LastCommit \in 0 .. LastCommit
    BY <1>1
  <2> QED
    BY <2>2, <2>3, <2>4 DEF UndoneReg
<1>10. ASSUME NEW s \in Serials, s # k
       PROVE  /\ IF Listed(undo, s) THEN Dirty(findex'[s], LastCommit, LastKnown)
                                    ELSE Clean(findex'[s], LastCommit, LastKnown)
              /\ Visible(findex'[s], LastCommit) = committed[s]
              /\ ~Listed(undo, s) => Latest(findex'[s], LastCommit) = work[s]
  BY <1>1, <1>4, <1>8, <1>10 DEF Registers
<1>11. Published'
  <2>1. ASSUME NEW s \in Serials
        PROVE \/ /\ Visible(findex'[s], LastCommit) = Visible(findex[s], LastCommit)
                 /\ published'[s] = published[s]
              \/ Visible(findex'[s], LastCommit) = published'[s]
    <3>1. LastCommit \in 0 .. LastCommit
      BY <1>1
    <3> QED
      BY <1>7, <1>8, <1>9, <3>1
  <2> QED
    BY <1>1, <1>5, <1>7, <2>1, PublishedWritten
<1>12. LateReads
  BY <1>5, <1>8, <1>9 DEF LateReads
<1>13. Kept
  <2>1. CASE Len(undo) > 1
    <3>1. /\ undo' = Tail(undo) /\ pc' = pc /\ cur' = cur /\ state' = state
          /\ dirtySerials' = dirtySerials
      BY <2>1 DEF UndoIndexStep
    <3>2. Control'
      BY <1>1, <1>3, <1>7, <3>1 DEF Control, Writing, Written, SameWriter
    <3>3. /\ ~Written' /\ LastKnown' = LastKnown /\ LastCommit' = LastCommit
      BY <1>1, <1>4, <3>1 DEF Written, Writing, LastKnown, LastCommit
    <3>4. \A s : /\ Unfinished(s)' <=> Listed(undo, s) /\ s # k
                 /\ Settled(s)' <=> ~(Listed(undo, s) /\ s # k)
      BY <1>1, <1>3, <3>1, <3>3 DEF Unfinished, Settled
    <3>5. LastCommit <= LastCommit
      BY <1>1
    <3>6. Registers'
      BY <1>1, <1>7, <1>8, <1>9, <1>10, <3>3, <3>4, <3>5 DEF Registers
    <3> QED
      BY <3>2, <3>6 DEF Kept
  <2>2. CASE ~(Len(undo) > 1)
    <3>1. EndCase
      BY <2>2 DEF UndoIndexStep
    <3>2. \A s \in Serials : s # k => ~Listed(undo, s)
      <4>1. \A i \in DOMAIN undo : i = 1
        BY <1>1, <2>2
      <4> QED
        BY <1>1, <1>2, <4>1 DEF Listed
    <3>3. \A s : ~StillDirty(s)
      BY <1>1 DEF StillDirty
    <3>4. LastCommit <= LastCommit
      BY <1>1
    <3>5. RecordDone
      BY <1>1, <1>4, <1>7, <1>8, <1>9, <1>10, <3>2, <3>3, <3>4 DEF RecordDone
    <3> QED
      BY <1>1, <1>7, <3>1, <3>5, EndCaseKept DEF Kept
  <2> QED
    BY <2>1, <2>2
<1> QED
  BY <1>11, <1>12, <1>13

(***************************************************************************)
(* The theorems.                                                           *)
(***************************************************************************)

(* What a step of the writer amounts to.                                   *)
LEMMA StepKept ==
    ASSUME Inv, ~crashed, crashed' = crashed, TypeInv', Kept, Published', LateReads,
           SavedCommit' = SavedCommit \/ SavedCommit' = LastCommit,
           UNCHANGED readers, Witness \/ UNCHANGED <<seen, published>>
    PROVE  Inv'
<1>1. /\ SavedCommit \in Nat /\ SavedCommit' \in Nat /\ SavedCommit <= SavedCommit'
  BY Known
<1>2. Reading' /\ ReadOutcome'
  BY <1>1, ReadersKept DEF Inv
<1> QED
  BY <1>1, <1>2 DEF Inv, Kept

(* Every file write keeps the invariant.                                   *)
LEMMA FileStepKept ==
    ASSUME Inv, TypeInv', FileStep PROVE Inv'
<1>1. ~crashed
  BY DEF Inv, FileStep, WriteDataStep, SaveStateStep, WriteLogStep,
       WriteIndexStep,
         UndoIndexStep, StatusDataStep, StatusLogStep, StatusStateStep
<1>2. WriterOnly
  BY DEF FileStep, WriteDataStep, SaveStateStep, WriteLogStep, WriteIndexStep,
         UndoIndexStep, StatusDataStep, StatusLogStep, StatusStateStep
<1>3. crashed' = crashed /\ Witness /\ UNCHANGED readers
  BY <1>2 DEF WriterOnly
<1>4. TypeInv /\ Published /\ Registers
  BY <1>1, Known DEF Inv
<1>5. ASSUME findex' = findex, fstate' = fstate, published' = published, Kept
      PROVE  Inv'
  <2>1. Published' /\ LateReads /\ SavedCommit' = SavedCommit
    BY <1>4, <1>5, PublishedKept, IndexKept DEF SavedCommit
  <2> QED
    BY <1>1, <1>3, <1>5, <2>1, StepKept
<1>6. ASSUME findex' = findex, fstate' = state, published' = committed, Kept
      PROVE  Inv'
  <2>1. Published' /\ LateReads /\ SavedCommit' = LastCommit
    BY <1>4, <1>6, PublishedSaved, IndexKept DEF SavedCommit, LastCommit
  <2> QED
    BY <1>1, <1>3, <1>6, <2>1, StepKept
<1>7. CASE WriteDataStep
  BY <1>1, <1>5, <1>7, WriteDataKept DEF WriteDataStep
<1>8. CASE SaveStateStep
  BY <1>1, <1>6, <1>8, SaveStateKept DEF SaveStateStep
<1>9. CASE WriteLogStep
  BY <1>1, <1>5, <1>9, WriteLogKept DEF WriteLogStep, ghosts
<1>10. CASE WriteIndexStep
  <2>1. SavedCommit' = SavedCommit
    BY <1>10 DEF WriteIndexStep, SavedCommit
  <2> QED
    BY <1>1, <1>3, <1>10, <2>1, WriteIndexKept, StepKept
<1>11. CASE UndoIndexStep
  <2>1. SavedCommit' = SavedCommit
    BY <1>11 DEF UndoIndexStep, SavedCommit
  <2> QED
    BY <1>1, <1>3, <1>11, <2>1, UndoIndexKept, StepKept
<1>12. CASE StatusDataStep
  BY <1>1, <1>5, <1>12, StatusDataKept DEF StatusDataStep, ghosts
<1>13. CASE StatusLogStep
  BY <1>1, <1>5, <1>13, StatusLogKept DEF StatusLogStep, ghosts
<1>14. CASE StatusStateStep
  BY <1>1, <1>6, <1>14, StatusStateKept DEF StatusStateStep
<1> QED
  BY <1>7, <1>8, <1>9, <1>10, <1>11, <1>12, <1>13, <1>14 DEF FileStep

(* Every call that begins does.                                            *)
LEMMA CallsKept ==
    ASSUME Inv, TypeInv',
           \/ \E s \in Serials, v \in Values : CallWrite(s, v)
           \/ CallCommit
           \/ CallRollback
    PROVE  Inv'
<1>1. ASSUME NEW r \in DataReg, Call(r),
             r.type \in {"WRITE", "COMMIT", "ROLLBACK_BEGIN"},
             r.sequence = state.last_sequence + 1,
             r.serials = IF r.type = "ROLLBACK_BEGIN" THEN dirtySerials ELSE << >>,
             r.type = "WRITE" => /\ r.serial \in Serials /\ r.auto = fauto_commit
                                 /\ ~Listed(dirtySerials, r.serial),
             r.type # "WRITE" => ~fauto_commit
      PROVE  Inv'
  <2>1. ~crashed
    BY <1>1 DEF Inv, Call
  <2>2. Kept
    BY <1>1, <2>1, CallKept
  <2>3. /\ findex' = findex /\ fstate' = fstate /\ published' = published
        /\ crashed' = crashed /\ UNCHANGED readers /\ seen' = seen
    BY <1>1 DEF Call, files, ghosts
  <2>4. Published' /\ LateReads /\ SavedCommit' = SavedCommit
    BY <2>3, PublishedKept, IndexKept DEF Inv, SavedCommit
  <2> QED
    BY <2>1, <2>2, <2>3, <2>4, StepKept
<1>2. ASSUME NEW s \in Serials, NEW v \in Values, CallWrite(s, v)
      PROVE  Inv'
  <2>1. PICK seq \in Int, auto \in BOOLEAN : /\ seq = state.last_sequence + 1
                                             /\ auto = fauto_commit
    <3>1. state.last_sequence \in Int /\ fauto_commit \in BOOLEAN
      <4>1. TypeInv
        BY DEF Inv
      <4> QED
        BY <4>1, FilesHere DEF TypeInv, TypeOK
    <3>2. state.last_sequence + 1 \in Int
      BY <3>1
    <3> QED
      BY <3>1, <3>2
  <2>2. PICK r \in DataReg : r = WriteReg(s, seq, auto, v)
    BY WriteRegType
  <2>3. /\ r.type = "WRITE" /\ r.serial = s /\ r.sequence = seq /\ r.serials = << >>
        /\ r.auto = auto
    BY <2>2 DEF WriteReg
  <2> QED
    BY <1>1, <1>2, <2>1, <2>2, <2>3 DEF CallWrite
<1>3. ASSUME NEW type \in {"COMMIT", "ROLLBACK_BEGIN"}, ~fauto_commit,
             NEW list, list = IF type = "ROLLBACK_BEGIN" THEN dirtySerials ELSE << >>,
             Call(MarkReg(type, state.last_sequence + 1, list))
      PROVE  Inv'
  <2>1. PICK m : m = MarkReg(type, state.last_sequence + 1, list)
    OBVIOUS
  <2>2. /\ m \in DataReg /\ m.type = type /\ m.serials = list
        /\ m.sequence = state.last_sequence + 1
    BY <1>3, <2>1, MarkTypes DEF RecordTypes, Inv
  <2> QED
    BY <1>1, <1>3, <2>1, <2>2
<1> QED
  BY <1>2, <1>3 DEF CallCommit, CallRollback

(* close() publishes what was committed.                                   *)
LEMMA CloseKept ==
    ASSUME Inv, TypeInv', Close PROVE Inv'
<1> USE NotListed
<1>1. ~crashed
  BY DEF Inv, Close
<1>2. /\ TypeInv /\ Control /\ Registers /\ LastCommit \in Nat /\ LastCommit <= LastKnown
      /\ cur.type = "STATUS" /\ pc = "idle" /\ ~Writing /\ ~Written
  <2>1. cur.type = "STATUS" /\ pc = "idle"
    BY <1>1, Known DEF Control, Close
  <2> QED
    BY <1>1, <2>1, Known DEF Writing, Written
<1>3. /\ cur' = cur /\ undo' = undo /\ pc' = pc /\ state' = state
      /\ dirtySerials = << >> /\ dirtySerials' = << >> /\ ~fauto_commit' /\ ~opened'
      /\ findex' = findex /\ fstate' = state /\ published' = committed
      /\ work' = work /\ committed' = committed /\ crashed' = crashed
      /\ Witness /\ UNCHANGED readers
  BY DEF Close, call
<1>4. Control'
  BY <1>2, <1>3 DEF Control, Writing, Written
<1>5. /\ ~Written' /\ LastKnown' = LastKnown /\ LastCommit' = LastCommit
      /\ SavedCommit' = LastCommit
  BY <1>2, <1>3 DEF Writing, Written, LastKnown, LastCommit, SavedCommit
<1>6. \A s : ~Unfinished(s) /\ ~Unfinished(s)' /\ Settled(s)
  BY <1>2, <1>3 DEF Unfinished, Settled
<1>7. LastCommit <= LastCommit
  BY <1>2
<1>8. Registers'
  BY <1>2, <1>3, <1>5, <1>6, <1>7 DEF Registers
<1>9. Published' /\ LateReads
  BY <1>2, <1>3, PublishedSaved, IndexKept
<1> QED
  BY <1>1, <1>3, <1>4, <1>5, <1>8, <1>9, StepKept DEF Kept

(* The process that opens the storage finds the state that its predecessor *)
(* saved when it closed it.                                                *)
LEMMA OpenKept ==
    ASSUME "reopen" \notin Deaths, Inv, TypeInv', NEW auto \in BOOLEAN, Open(auto)
    PROVE  Inv'
<1>1. ~crashed
  BY DEF Open
<1>2. /\ TypeInv /\ Control /\ Registers /\ ~opened
      /\ state = fstate /\ dirtySerials = << >> /\ pc = "idle" /\ cur.type = "STATUS"
  <2>1. TypeInv /\ Control /\ Registers /\ ~opened
    BY <1>1, Known DEF Open
  <2> QED
    BY <2>1 DEF Control
<1>3. /\ cur' = cur /\ undo' = undo /\ pc' = pc /\ state' = state
      /\ dirtySerials' = dirtySerials /\ opened'
      /\ findex' = findex /\ fstate' = fstate /\ published' = published
      /\ work' = work /\ committed' = committed /\ crashed' = crashed /\ seen' = seen
      /\ UNCHANGED readers
  BY <1>2 DEF Open, files, call, ghosts
<1>4. Control'
  BY <1>2, <1>3 DEF Control, Writing, Written
<1>5. /\ ~Written' /\ ~Written /\ LastKnown' = LastKnown /\ LastCommit' = LastCommit
      /\ SavedCommit' = SavedCommit
  BY <1>2, <1>3 DEF Writing, Written, LastKnown, LastCommit, SavedCommit
<1>6. \A s : (Unfinished(s)' <=> Unfinished(s)) /\ Settled(s)
  BY <1>2, <1>3, <1>5 DEF Unfinished, Settled
<1>7. Registers'
  BY <1>2, <1>3, <1>5, <1>6 DEF Registers
<1>8. Published' /\ LateReads
  BY <1>3, PublishedKept, IndexKept DEF Inv
<1> QED
  BY <1>1, <1>3, <1>4, <1>5, <1>7, <1>8, StepKept DEF Kept

(* A death at any point leaves to readers what they had.                   *)
LEMMA CrashKept ==
    ASSUME Inv, TypeInv', Crash PROVE Inv'
<1>1. /\ findex' = findex /\ fstate' = fstate /\ published' = published /\ seen' = seen
      /\ rpc' = rpc /\ rserial' = rserial /\ rlcs' = rlcs /\ roffset' = roffset
      /\ crashed' /\ ~opened' /\ pc' = "idle"
  BY DEF Crash, files, ghosts, readers
<1>2. Published' /\ Reading' /\ ReadOutcome' /\ SavedCommit' \in Nat
  BY <1>1 DEF Inv, Published, Reading, ReadOutcome, SavedCommit
<1> QED
  BY <1>1, <1>2 DEF Inv

(* The steps of a reader.                                                  *)
LEMMA ReadKept ==
    ASSUME Inv, TypeInv', NEW r \in Readers,
           \/ \E s \in Serials : ReadState(r, s)
           \/ ReadIndex(r)
           \/ ReadReturn(r)
    PROVE  Inv'
<1>1. /\ fdata' = fdata /\ findex' = findex /\ fstate' = fstate
      /\ state' = state /\ dirtySerials' = dirtySerials
      /\ fauto_commit' = fauto_commit /\ opened' = opened /\ crashed' = crashed
      /\ pc' = pc /\ cur' = cur /\ undo' = undo
      /\ work' = work /\ committed' = committed /\ published' = published
  BY DEF ReadState, ReadIndex, ReadReturn, files, object, call, ghosts
<1>2. /\ Published' /\ SavedCommit' = SavedCommit
      /\ Control => Control'
      /\ Registers => Registers'
  <2>1. Published'
    BY <1>1 DEF Inv, Published, SavedCommit
  <2>2. Control => Control'
    BY <1>1 DEF Control, Writing, Written
  <2>3. Registers => Registers'
    BY <1>1 DEF Registers, SavedCommit, LastCommit, LastKnown, Unfinished,
         Settled,
                Writing, Written
  <2> QED
    BY <1>1, <2>1, <2>2, <2>3 DEF SavedCommit
<1>3. /\ rpc \in [Readers -> {"idle", "index", "done"}]
      /\ rserial \in [Readers -> Serials \cup {NoSerial}]
      /\ rlcs \in [Readers -> Int] /\ roffset \in [Readers -> Int]
      /\ seen \in [Readers -> SUBSET Int]
      /\ Reading /\ ReadOutcome /\ Published /\ SavedCommit \in Nat
  BY DEF Inv, TypeInv, TypeOK
<1>4. SUFFICES Reading' /\ ReadOutcome'
  BY <1>1, <1>2 DEF Inv
<1>5. ASSUME NEW q \in Readers, q # r
      PROVE  /\ rpc'[q] = rpc[q] /\ rserial'[q] = rserial[q] /\ rlcs'[q] = rlcs[q]
             /\ roffset'[q] = roffset[q] /\ seen'[q] = seen[q]
  BY <1>3, <1>5 DEF ReadState, ReadIndex, ReadReturn
<1>6. ASSUME NEW s \in Serials, ReadState(r, s) PROVE Reading' /\ ReadOutcome'
  <2>1. /\ rpc'[r] = "index" /\ rserial'[r] = s /\ rlcs'[r] = SavedCommit
        /\ seen'[r] = {published[s]}
    BY <1>3, <1>6 DEF ReadState, SavedCommit
  <2>2. Visible(findex[s], SavedCommit) = published[s] /\ SavedCommit \in 0 .. SavedCommit
    BY <1>3 DEF Published
  <2>3. Reading'
    BY <1>1, <1>2, <1>3, <1>5, <2>1, <2>2 DEF Reading
  <2>4. ReadOutcome'
    BY <1>1, <1>3, <1>5, <2>1 DEF ReadOutcome
  <2> QED
    BY <2>3, <2>4
<1>7. CASE ReadIndex(r)
  <2>1. /\ rpc[r] = "index" /\ rpc'[r] = "done" /\ rlcs'[r] = rlcs[r]
        /\ seen'[r] = seen[r]
        /\ roffset'[r] = Visible(findex[rserial[r]], rlcs[r])
    BY <1>3, <1>7 DEF ReadIndex, Visible
  <2>2. Reading'
    BY <1>1, <1>2, <1>3, <1>5, <2>1 DEF Reading
  <2>3. \/ roffset'[r] \in seen[r]
        \/ roffset'[r] = None /\ fstate.last_commit_sequence > rlcs[r]
    <3>1. rlcs[r] \in Int /\ SavedCommit \in Int
      BY <1>3
    <3> QED
      BY <1>3, <2>1, <3>1 DEF Reading, SavedCommit
  <2>4. ReadOutcome'
    BY <1>1, <1>3, <1>5, <2>1, <2>3 DEF ReadOutcome
  <2> QED
    BY <2>2, <2>4
<1>8. CASE ReadReturn(r)
  <2>1. rpc'[r] = "idle"
    BY <1>3, <1>8 DEF ReadReturn
  <2>2. Reading'
    BY <1>1, <1>2, <1>3, <1>5, <2>1 DEF Reading
  <2>3. ReadOutcome'
    BY <1>1, <1>3, <1>5, <2>1 DEF ReadOutcome
  <2> QED
    BY <2>2, <2>3
<1> QED
  BY <1>6, <1>7, <1>8

(* The new storage has nothing to be read.                                 *)
LEMMA InitInv == Init => Inv
<1> SUFFICES ASSUME Init PROVE Inv
  OBVIOUS
<1> USE NotListed
<1>1. TypeInv
  BY InitTypeInv
<1>2. /\ pc = "idle" /\ cur.type = "STATUS" /\ undo = << >> /\ dirtySerials = << >>
      /\ opened /\ ~crashed /\ ~Written /\ ~Writing
      /\ LastCommit = 0 /\ SavedCommit = 0 /\ LastKnown = 0
  <2>1. /\ pc = "idle" /\ cur.type = "STATUS" /\ undo = << >> /\ dirtySerials = << >>
        /\ opened /\ ~crashed
    BY DEF Init, NoRecord, MarkReg
  <2>2. ZeroState.last_commit_sequence = 0 /\ ZeroState.last_sequence = 0
    BY DEF ZeroState
  <2> QED
    BY <2>1, <2>2 DEF Init, Writing, Written, LastCommit, SavedCommit,
         LastKnown
<1>3. \A s \in Serials : /\ findex[s] = EmptyIndex
                         /\ work[s] = None /\ committed[s] = None /\ published[s] = None
  BY DEF Init
<1>4. /\ Clean(EmptyIndex, 0, 0)
      /\ Visible(EmptyIndex, 0) = None /\ Latest(EmptyIndex, 0) = None
  BY EmptyReads
<1>5. Control
  BY <1>2 DEF Control
<1>6. \A s : ~Unfinished(s)
  BY <1>2 DEF Unfinished
<1>7. Registers /\ Published
  <2>1. 0 <= 0
    OBVIOUS
  <2> QED
    BY <1>2, <1>3, <1>4, <1>6, <2>1 DEF Registers, Published
<1>8. \A r \in Readers : rpc[r] = "idle"
  BY DEF Init
<1>9. Reading /\ ReadOutcome
  BY <1>8 DEF Reading, ReadOutcome
<1> QED
  BY <1>1, <1>2, <1>5, <1>7, <1>9 DEF Inv

(* The invariant is inductive as long as nobody opens the files of a       *)
(* writer that died.                                                       *)
LEMMA NextInv ==
    ASSUME "reopen" \notin Deaths, Inv, [Next]_vars PROVE Inv'
<1>1. TypeInv'
  BY NextTypeInv DEF Inv
<1>2. CASE UNCHANGED vars
  <2> USE <1>2 DEF vars, files, object, call, readers, ghosts
  <2>1. Published' /\ Reading' /\ ReadOutcome' /\ (SavedCommit \in Nat)'
    BY DEF Inv, Published, Reading, ReadOutcome, SavedCommit
  <2>2. Control => Control'
    BY DEF Control, Writing, Written
  <2>3. Registers => Registers'
    BY DEF Registers, SavedCommit, LastCommit, LastKnown, Unfinished, Settled,
           Writing, Written
  <2> QED
    BY <1>1, <2>1, <2>2, <2>3 DEF Inv
<1>3. CASE Next
  BY <1>1, <1>3, FileStepKept, CallsKept, CloseKept, OpenKept, CrashKept,
       ReadKept
     DEF Next
<1> QED
  BY <1>2, <1>3

(* It holds in every such behaviour.                                       *)
LEMMA Invariant == ASSUME "reopen" \notin Deaths PROVE Spec => []Inv
<1>1. Inv /\ [Next]_vars => Inv'
  BY NextInv
<1> QED
  BY <1>1, InitInv, PTL DEF Spec

(* Between any two file writes, and wherever the writer dies, the state    *)
(* file and the index show exactly the transactions that the state file    *)
(* knows, as long as nobody opens the files of a writer that has died.     *)
THEOREM Intact ==
    ASSUME "reopen" \notin Deaths PROVE Spec => []PublishedIntact
<1>1. Inv => PublishedIntact
  BY DEF Inv, Published, Visible, SavedCommit, PublishedIntact
<1> QED
  BY <1>1, Invariant, PTL

(* Between calls the writer reads its own writes, and after a rollback     *)
(* what was committed before it.                                           *)
THEOREM WriterReads ==
    ASSUME "reopen" \notin Deaths PROVE Spec => []WriterReadsWork
<1>1. Inv => WriterReadsWork
  <2> SUFFICES ASSUME Inv, opened, pc = "idle", NEW s \in Serials
               PROVE  Latest(findex[s], LastCommit) = work[s]
    BY DEF WriterReadsWork, Latest, LastCommit
  <2>1. Control /\ Registers
    BY DEF Inv
  <2>2. Settled(s)
    BY <2>1 DEF Control, Settled, Written
  <2> QED
    BY <2>1, <2>2 DEF Registers
<1> QED
  BY <1>1, Invariant, PTL

(* A committed read in another process returns a version that was visible  *)
(* at some moment of the read, or misses the record because a commit was   *)
(* published after it loaded the state.                                    *)
THEOREM Reads ==
    ASSUME "reopen" \notin Deaths PROVE Spec => []ReadOutcome
<1>1. Inv => ReadOutcome
  BY DEF Inv
<1> QED
  BY <1>1, Invariant, PTL

(***************************************************************************)
(* The calls as a whole.                                                   *)
(*                                                                         *)
(* What is left of a call is a function of the files and the object: the   *)
(* operators below finish a call from each of its file writes on.  A step  *)
(* of the call does not change what they come to (LeadsTo), and from its   *)
(* first file write on it is writeFiles of SafeFiles, once or, for a       *)
(* rollback, twice (WholeRecord).                                          *)
(***************************************************************************)

(* A store, as SafeStorage has it.                                         *)
Obj(fd, ix, lg, fs, st, di, au) ==
    [fdata |-> fd, findex |-> ix, flog |-> lg, fstate |-> fs, state |-> st,
     dirty |-> di, auto |-> au]

(* The files and the object now.                                           *)
Now == Obj(fdata, findex, flog, fstate, state, dirtySerials, fauto_commit)

(* What a record does to the counters, and to the list of dirty serials.   *)
CountOf(st, seq) == [st EXCEPT !.count = @ + 1, !.last_sequence = seq]
WriteCountOf(st) == [st EXCEPT !.data_count = @ + 1]
CommitCountOf(st, seq) ==
    [st EXCEPT !.commit_count = @ + 1, !.last_commit_sequence = seq]
Committing(st, seq) ==
    [st EXCEPT !.state.commit_count = @ + 1, !.state.last_commit_sequence = seq]
DirtyWith(di, au, s) == IF au THEN di ELSE Append(di, s)
UndoneIndex(ix, list) == [s \in Serials |-> UndoIndex(ix[s], list, s)]

(***************************************************************************)
(* The operators of SafeFiles on such a store.                             *)
(***************************************************************************)
(* Saving the state.                                                       *)
LEMMA ObjSave ==
    ASSUME NEW fd, NEW ix, NEW lg, NEW fs, NEW st, NEW di, NEW au
    PROVE  SaveState(Obj(fd, ix, lg, fs, st, di, au))
              = Obj(fd, ix, lg, st, st, di, au)
  BY DEF SaveState, Obj

(* Forgetting the dirty serials.                                           *)
LEMMA ObjClear ==
    ASSUME NEW fd, NEW ix, NEW lg, NEW fs, NEW st, NEW di, NEW au
    PROVE  ClearDirtySerials(Obj(fd, ix, lg, fs, st, di, au))
              = Obj(fd, ix, lg, fs, st, << >>, au)
  BY DEF ClearDirtySerials, Obj

(* An append to the data file.                                             *)
LEMMA ObjData ==
    ASSUME NEW fd, NEW ix, NEW lg, NEW fs, NEW st, NEW di, NEW au, NEW r
    PROVE  WriteData(Obj(fd, ix, lg, fs, st, di, au), r, TRUE)
              = Obj(Append(fd, r), ix, lg, fs, st, di, au)
  BY DEF WriteData, Obj

(* An entry of the log.                                                    *)
LEMMA ObjLog ==
    ASSUME NEW fd, NEW ix, NEW lg, NEW fs, NEW st, NEW di, NEW au,
           NEW q, NEW off, NEW s, NEW t
    PROVE  WriteLog(Obj(fd, ix, lg, fs, st, di, au), q, off, s, t)
              = Obj(fd, ix, LogWith(lg, q, off, s, t), fs, st, di, au)
  BY DEF WriteLog, LogWith, Obj

(* A register of the index.                                                *)
LEMMA ObjIndex ==
    ASSUME NEW fd, NEW ix, NEW lg, NEW fs, NEW st, NEW di, NEW au,
           NEW s, NEW reg
    PROVE  WriteIndex(Obj(fd, ix, lg, fs, st, di, au), s, reg)
              = Obj(fd, [ix EXCEPT ![s] = reg], lg, fs, st, di, au)
  BY DEF WriteIndex, Obj

(* A serial that is dirty from now on.                                     *)
LEMMA ObjDirty ==
    ASSUME NEW fd, NEW ix, NEW lg, NEW fs, NEW st, NEW di, NEW au, NEW s
    PROVE  AddDirtySerial(Obj(fd, ix, lg, fs, st, di, au), s)
              = Obj(fd, ix, lg, fs, st, DirtyWith(di, au, s), au)
  BY DEF AddDirtySerial, DirtyWith, Obj

(* The counters of every record.                                           *)
LEMMA ObjCount ==
    ASSUME NEW fd, NEW ix, NEW lg, NEW fs, NEW st, NEW di, NEW au, NEW q
    PROVE  CountRecord(Obj(fd, ix, lg, fs, st, di, au), q)
              = Obj(fd, ix, lg, fs, CountOf(st, q), di, au)
<1> DEFINE x == Obj(fd, ix, lg, fs, st, di, au)
<1>1. CountRecord(x, q)
         = [[x EXCEPT !.state.count = @ + 1] EXCEPT !.state.last_sequence = q]
  BY DEF CountRecord
<1>2. CountOf(st, q) = [[st EXCEPT !.count = @ + 1] EXCEPT !.last_sequence = q]
  BY DEF CountOf
<1>3. PICK st1 : st1 = [st EXCEPT !.count = @ + 1]
  OBVIOUS
<1>4. [x EXCEPT !.state.count = @ + 1] = Obj(fd, ix, lg, fs, st1, di, au)
  BY <1>3 DEF Obj
<1>5. [Obj(fd, ix, lg, fs, st1, di, au) EXCEPT !.state.last_sequence = q]
         = Obj(fd, ix, lg, fs, [st1 EXCEPT !.last_sequence = q], di, au)
  BY DEF Obj
<1> QED
  BY <1>1, <1>2, <1>3, <1>4, <1>5, Zenon

(* The counter of a WRITE.                                                 *)
LEMMA ObjWritten ==
    ASSUME NEW fd, NEW ix, NEW lg, NEW fs, NEW st, NEW di, NEW au
    PROVE  [Obj(fd, ix, lg, fs, st, di, au) EXCEPT !.state.data_count = @ + 1]
              = Obj(fd, ix, lg, fs, WriteCountOf(st), di, au)
  BY DEF WriteCountOf, Obj

(* The counter of a COMMIT, and the last commit.                           *)
LEMMA ObjCommitted ==
    ASSUME NEW fd, NEW ix, NEW lg, NEW fs, NEW st, NEW di, NEW au, NEW q
    PROVE  Committing(Obj(fd, ix, lg, fs, st, di, au), q)
              = Obj(fd, ix, lg, fs, CommitCountOf(st, q), di, au)
<1> DEFINE x == Obj(fd, ix, lg, fs, st, di, au)
<1>1. Committing(x, q) = [[x EXCEPT !.state.commit_count = @ + 1]
                           EXCEPT !.state.last_commit_sequence = q]
  BY DEF Committing
<1>2. CommitCountOf(st, q)
         = [[st EXCEPT !.commit_count = @ + 1] EXCEPT !.last_commit_sequence = q]
  BY DEF CommitCountOf
<1>3. PICK st1 : st1 = [st EXCEPT !.commit_count = @ + 1]
  OBVIOUS
<1>4. [x EXCEPT !.state.commit_count = @ + 1] = Obj(fd, ix, lg, fs, st1, di, au)
  BY <1>3 DEF Obj
<1>5. [Obj(fd, ix, lg, fs, st1, di, au) EXCEPT !.state.last_commit_sequence = q]
         = Obj(fd, ix, lg, fs, [st1 EXCEPT !.last_commit_sequence = q], di, au)
  BY DEF Obj
<1> QED
  BY <1>1, <1>2, <1>3, <1>4, <1>5, Zenon

(* The index after a rollback.                                             *)
LEMMA ObjUndone ==
    ASSUME NEW fd, NEW ix, NEW lg, NEW fs, NEW st, NEW di, NEW au, NEW list
    PROVE  [Obj(fd, ix, lg, fs, st, di, au) EXCEPT
               !.findex = [s \in Serials |-> UndoIndex(@[s], list, s)]]
              = Obj(fd, UndoneIndex(ix, list), lg, fs, st, di, au)
  BY DEF UndoneIndex, Obj

(* The parts of such a store.                                              *)
LEMMA ObjParts ==
    ASSUME NEW fd, NEW ix, NEW lg, NEW fs, NEW st, NEW di, NEW au,
           NEW x, x = Obj(fd, ix, lg, fs, st, di, au)
    PROVE  /\ x.fdata = fd /\ x.findex = ix /\ x.flog = lg /\ x.fstate = fs
           /\ x.state = st /\ x.dirty = di /\ x.auto = au
  BY DEF Obj

(***************************************************************************)
(* What is left of a call: of record r, with the list u of serials left to *)
(* undo, when the store is st.                                             *)
(***************************************************************************)

(* writeFiles returns.                                                     *)
Finish(r, st) ==
    IF r.type = "WRITE" THEN st
    ELSE IF r.type = "ROLLBACK_BEGIN"
    THEN ClearDirtySerials(
             WriteFiles(st, MarkReg("ROLLBACK_END", st.state.last_sequence + 1, << >>),
                        TRUE))
    ELSE ClearDirtySerials(st)

(* The record is in all its files.                                         *)
AfterCase(r, st) == Finish(r, StatusSnapshot(st, TRUE))

(* A status snapshot is due.                                               *)
StatusRecord(st) == MarkReg("STATUS", st.state.last_sequence + 1, << >>)
AtStatusState(r, st) == Finish(r, SaveState(st))
AtStatusLog(r, st) ==
    AtStatusState(r, WriteLog(st, st.state.last_sequence, Len(st.fdata),
                              NoSerial, "STATUS"))
AtStatusData(r, st) ==
    AtStatusLog(r, WriteData(CountRecord(st, st.state.last_sequence + 1),
                             StatusRecord(st), TRUE))

(* The index, the log and the state file are to be written.                *)
Register(st, r) ==
    SetOldestOffset(st.findex[r.serial], Len(st.fdata), r.sequence, r.auto,
                    st.findex[r.serial] = EmptyIndex)
AtIndex(r, st) == AfterCase(r, WriteIndex(st, r.serial, Register(st, r)))
AtUndo(r, u, st) ==
    AfterCase(r, [st EXCEPT !.findex = [s \in Serials |-> UndoIndex(@[s], u, s)]])
Entry(st, r) ==
    WriteLog(st, st.state.last_sequence,
             IF r.type \in {"WRITE", "COMMIT"} THEN Len(st.fdata) ELSE 0,
             r.serial, r.type)
AtLog(r, u, st) == IF r.type = "WRITE" THEN AtIndex(r, Entry(st, r))
                                       ELSE AtUndo(r, u, Entry(st, r))
AtState(r, u, st) == AtLog(r, u, SaveState(st))

(* The record is counted and goes into the data file.                      *)
AtData(r, u, st) ==
    IF r.type = "WRITE"
    THEN AtState(r, u, AddDirtySerial(
             WriteData([st EXCEPT !.state.data_count = @ + 1], r, TRUE), r.serial))
    ELSE IF r.type = "COMMIT"
    THEN AtLog(r, u, [WriteData(st, r, TRUE)
                         EXCEPT !.state.commit_count = @ + 1,
                                !.state.last_commit_sequence = r.sequence])
    ELSE AtLog(r, u, WriteData(st, r, TRUE))

(* Nothing is undone where nothing was written.                            *)
LEMMA UndoNone ==
    ASSUME NEW ix \in [Serials -> IndexReg]
    PROVE  UndoneIndex(ix, << >>) = ix
<1>1. \A s \in Serials : UndoIndex(ix[s], << >>, s) = ix[s]
  BY NotListed DEF UndoIndex
<1> QED
  BY <1>1 DEF UndoneIndex

(* The counters that a record does not move.                               *)
LEMMA CountsKept ==
    ASSUME NEW st \in State, NEW seq \in Int
    PROVE  /\ CountOf(st, seq) \in State /\ CountOf(st, seq).last_sequence = seq
           /\ WriteCountOf(st).last_sequence = st.last_sequence
           /\ CommitCountOf(st, seq).last_sequence = st.last_sequence
<1>1. CountOf(st, seq) \in State
  BY StateTypes, Zenon DEF CountOf
<1>2. CountOf(st, seq).last_sequence = seq
  BY DEF CountOf, State
<1>3. WriteCountOf(st).last_sequence = st.last_sequence
  BY DEF WriteCountOf, State
<1>4. CommitCountOf(st, seq).last_sequence = st.last_sequence
  BY DEF CommitCountOf, State
<1> QED
  BY <1>1, <1>2, <1>3, <1>4

(* A snapshot is three writes.                                             *)
LEMMA SnapshotWhole ==
    ASSUME NEW fd, NEW ix, NEW lg, NEW fs, NEW st \in State, NEW di, NEW au,
           NEW x, x = Obj(fd, ix, lg, fs, st, di, au), NEW r
    PROVE  /\ st.count % StatusFreq = StatusFreq - 1 =>
                 AfterCase(r, x) = AtStatusData(r, x)
           /\ st.count % StatusFreq # StatusFreq - 1 =>
                 AfterCase(r, x) = Finish(r, x)
<1>0. x = Obj(fd, ix, lg, fs, st, di, au)
  OBVIOUS
<1>1. x.state = st
  BY ObjParts
<1>2. st.count % StatusFreq # StatusFreq - 1 => StatusSnapshot(x, TRUE) = x
  BY <1>1, Zenon DEF StatusSnapshot
<1>3. ASSUME st.count % StatusFreq = StatusFreq - 1
      PROVE  AfterCase(r, x) = AtStatusData(r, x)
  <2>1. PICK seq \in Int : seq = st.last_sequence + 1
    <3>1. st.last_sequence \in Int
      BY DEF State
    <3> QED
      BY <3>1
  <2>2. PICK w : w = WriteData(CountRecord(x, seq), MarkReg("STATUS", seq, << >>), TRUE)
    OBVIOUS
  <2>3. StatusSnapshot(x, TRUE)
           = SaveState(WriteLog(w, seq, DataOffset(w, TRUE), NoSerial, "STATUS"))
    BY <1>1, <1>3, <2>1, <2>2, Zenon DEF StatusSnapshot
  <2>4. w = Obj(Append(fd, MarkReg("STATUS", seq, << >>)), ix, lg, fs,
                CountOf(st, seq), di, au)
    <3>1. CountRecord(x, seq) = Obj(fd, ix, lg, fs, CountOf(st, seq), di, au)
      BY ObjCount
    <3>2. PICK cs, m : cs = CountOf(st, seq) /\ m = MarkReg("STATUS", seq, << >>)
      OBVIOUS
    <3>3. WriteData(Obj(fd, ix, lg, fs, cs, di, au), m, TRUE)
             = Obj(Append(fd, m), ix, lg, fs, cs, di, au)
      BY DEF WriteData, Obj
    <3> QED
      BY <1>0, <2>2, <3>1, <3>2, <3>3, Zenon
  <2>5. w.state.last_sequence = seq
    BY <2>4, ObjParts, CountsKept
  <2>6. DataOffset(w, TRUE) = Len(w.fdata)
    BY DEF DataOffset
  <2>7. AtStatusData(r, x) = AtStatusLog(r, w)
    BY <1>1, <2>1, <2>2, Zenon DEF AtStatusData, StatusRecord
  <2> QED
    BY <2>3, <2>5, <2>6, <2>7, Zenon DEF AfterCase, AtStatusLog, AtStatusState
<1> QED
  BY <1>2, <1>3, Zenon DEF AfterCase

(* A record that has been counted goes on as writeFiles does with it.      *)
LEMMA WholeRecord ==
    ASSUME NEW fd, NEW ix \in [Serials -> IndexReg], NEW lg, NEW fs,
           NEW st \in State, NEW di, NEW au,
           NEW x, x = Obj(fd, ix, lg, fs, st, di, au),
           NEW r, r.sequence \in Int,
           r.type \in {"WRITE", "COMMIT", "ROLLBACK_BEGIN", "ROLLBACK_END"},
           NEW u, u = r.serials,
           r.type \in {"COMMIT", "ROLLBACK_END"} => u = << >>
    PROVE  AtData(r, u, CountRecord(x, r.sequence)) = Finish(r, WriteFiles(x, r, TRUE))
<1>1. PICK c, st1 : /\ c = CountRecord(x, r.sequence)
                    /\ st1 = CountOf(st, r.sequence)
  OBVIOUS
<1>2. c = Obj(fd, ix, lg, fs, st1, di, au) /\ st1 \in State
      /\ st1.last_sequence = r.sequence
  BY <1>1, ObjCount, CountsKept
<1>3. PICK w : w = WriteData(c, r, TRUE)
  OBVIOUS
<1>4. w = Obj(Append(fd, r), ix, lg, fs, st1, di, au)
  BY <1>2, <1>3 DEF WriteData, Obj
<1>5. w.state.last_sequence = r.sequence /\ c.state.last_sequence = r.sequence
  BY <1>2, <1>4, ObjParts
<1>6. CASE r.type = "WRITE"
  <2>1. PICK d : d = [c EXCEPT !.state.data_count = @ + 1]
    OBVIOUS
  <2>2. d = Obj(fd, ix, lg, fs, WriteCountOf(st1), di, au)
    BY <1>2, <2>1, ObjWritten
  <2>3. PICK wd : wd = WriteData(d, r, TRUE)
    OBVIOUS
  <2>4. wd = Obj(Append(fd, r), ix, lg, fs, WriteCountOf(st1), di, au)
    BY <2>2, <2>3 DEF WriteData, Obj
  <2>5. PICK sv : sv = SaveState(AddDirtySerial(wd, r.serial))
    OBVIOUS
  <2>6. sv = Obj(Append(fd, r), ix, lg, WriteCountOf(st1), WriteCountOf(st1),
                 DirtyWith(di, au, r.serial), au)
    BY <2>4, <2>5, ObjDirty, ObjSave
  <2>7. PICK e : e = WriteLog(sv, r.sequence, Len(wd.fdata), r.serial, r.type)
    OBVIOUS
  <2>8. /\ sv.state.last_sequence = r.sequence
        /\ sv.fdata = Append(fd, r) /\ wd.fdata = Append(fd, r)
    <3>1. WriteCountOf(st1).last_sequence = r.sequence
      BY <1>2, CountsKept
    <3> QED
      BY <2>4, <2>6, <3>1 DEF Obj
  <2>9. e = Entry(sv, r)
    BY <1>6, <2>7, <2>8 DEF Entry
  <2>10. e = Obj(Append(fd, r), ix, LogWith(lg, r.sequence, Len(wd.fdata), r.serial, r.type),
                 WriteCountOf(st1), WriteCountOf(st1),
                 DirtyWith(di, au, r.serial), au)
    BY <2>6, <2>7, ObjLog
  <2>11. e.fdata = Append(fd, r) /\ e.findex = ix /\ c.findex = ix
    BY <1>2, <2>10 DEF Obj
  <2>12. DataOffset(wd, TRUE) = Len(wd.fdata)
    BY DEF DataOffset
  <2>13. ApplyWrite(c, r, TRUE) = WriteIndex(e, r.serial, Register(e, r))
    <3>1. Register(e, r)
             = SetOldestOffset(c.findex[r.serial], DataOffset(wd, TRUE), r.sequence,
                               r.auto, c.findex[r.serial] = EmptyIndex)
      BY <2>8, <2>11, <2>12, Zenon DEF Register
    <3> QED
      BY <2>1, <2>3, <2>5, <2>7, <2>12, <3>1, Zenon DEF ApplyWrite
  <2>14. WriteFiles(x, r, TRUE) = StatusSnapshot(ApplyWrite(c, r, TRUE), TRUE)
    BY <1>1, <1>6, Zenon DEF WriteFiles
  <2>15. AtData(r, u, c) = AtIndex(r, e)
    BY <1>6, <2>1, <2>3, <2>5, <2>9, Zenon DEF AtData, AtState, AtLog
  <2> QED
    BY <1>1, <2>13, <2>14, <2>15, Zenon DEF AtIndex, AfterCase
<1>7. CASE r.type = "COMMIT"
  <2>1. PICK d : d = [w EXCEPT !.state.commit_count = @ + 1,
                               !.state.last_commit_sequence = r.sequence]
    OBVIOUS
  <2>2. d = Obj(Append(fd, r), ix, lg, fs, CommitCountOf(st1, r.sequence), di, au)
    <3>1. PICK q, fd1 : q = r.sequence /\ fd1 = Append(fd, r)
      OBVIOUS
    <3>2. Committing(Obj(fd1, ix, lg, fs, st1, di, au), q)
             = Obj(fd1, ix, lg, fs, CommitCountOf(st1, q), di, au)
      BY ObjCommitted
    <3>3. d = Committing(w, r.sequence)
      BY <2>1 DEF Committing
    <3> QED
      BY <1>4, <3>1, <3>2, <3>3, Zenon
  <2>3. d.state.last_sequence = r.sequence /\ d.fdata = w.fdata
    BY <1>2, <1>4, <2>2, ObjParts, CountsKept
  <2>4. PICK e : e = Entry(d, r)
    OBVIOUS
  <2>5. e = WriteLog(d, r.sequence, Len(d.fdata), r.serial, r.type)
    BY <1>7, <2>3, <2>4 DEF Entry
  <2>6. ApplyCommit(c, r, TRUE) = e
    <3>1. DataOffset(w, TRUE) = Len(w.fdata)
      BY DEF DataOffset
    <3> QED
      BY <1>3, <1>5, <2>1, <2>3, <2>5, <3>1, Zenon DEF ApplyCommit
  <2>7. [e EXCEPT !.findex = [s \in Serials |-> UndoIndex(@[s], u, s)]] = e
    <3>1. PICK lg2 : lg2 = LogWith(lg, r.sequence, Len(d.fdata), r.serial, r.type)
      OBVIOUS
    <3>2. e = Obj(Append(fd, r), ix, lg2, fs, CommitCountOf(st1, r.sequence), di, au)
      BY <2>2, <2>5, <3>1, ObjLog
    <3>3. UndoneIndex(ix, u) = ix
      BY <1>7, UndoNone
    <3> QED
      BY <3>2, <3>3, ObjUndone
  <2>8. WriteFiles(x, r, TRUE) = StatusSnapshot(ApplyCommit(c, r, TRUE), TRUE)
    BY <1>1, <1>7, Zenon DEF WriteFiles
  <2>9. AtData(r, u, c) = AtUndo(r, u, e)
    BY <1>3, <1>7, <2>1, <2>4 DEF AtData, AtLog
  <2> QED
    BY <1>1, <2>6, <2>7, <2>8, <2>9, Zenon DEF AtUndo, AfterCase
<1>8. CASE r.type \in {"ROLLBACK_BEGIN", "ROLLBACK_END"}
  <2>1. PICK e : e = Entry(w, r)
    OBVIOUS
  <2>2. e = WriteLog(w, c.state.last_sequence, 0, r.serial, r.type)
    BY <1>5, <1>8, <2>1 DEF Entry
  <2>3. AtData(r, u, c) = AtUndo(r, u, e)
    BY <1>3, <1>8, <2>1 DEF AtData, AtLog
  <2>4. CASE r.type = "ROLLBACK_BEGIN"
    <3>1. ApplyRollbackBegin(c, r, TRUE)
             = [e EXCEPT !.findex = [s \in Serials |-> UndoIndex(@[s], u, s)]]
      BY <1>3, <2>2, Zenon DEF ApplyRollbackBegin
    <3>2. WriteFiles(x, r, TRUE) = StatusSnapshot(ApplyRollbackBegin(c, r, TRUE), TRUE)
      BY <1>1, <2>4, Zenon DEF WriteFiles
    <3> QED
      BY <1>1, <2>3, <3>1, <3>2, Zenon DEF AtUndo, AfterCase
  <2>5. CASE r.type = "ROLLBACK_END"
    <3>1. ApplyRollbackEnd(c, r, TRUE) = e
      BY <1>3, <2>2, Zenon DEF ApplyRollbackEnd
    <3>2. WriteFiles(x, r, TRUE) = StatusSnapshot(ApplyRollbackEnd(c, r, TRUE), TRUE)
      BY <1>1, <2>5, Zenon DEF WriteFiles
    <3>3. [e EXCEPT !.findex = [s \in Serials |-> UndoIndex(@[s], u, s)]] = e
      <4>1. PICK lg2 : lg2 = LogWith(lg, c.state.last_sequence, 0, r.serial, r.type)
        OBVIOUS
      <4>2. e = Obj(Append(fd, r), ix, lg2, fs, st1, di, au)
        BY <1>4, <2>2, <4>1, ObjLog
      <4>3. UndoneIndex(ix, u) = ix
        BY <2>5, UndoNone
      <4> QED
        BY <4>2, <4>3, ObjUndone
    <3> QED
      BY <1>1, <2>3, <3>1, <3>2, <3>3, Zenon DEF AtUndo, AfterCase
  <2> QED
    BY <1>8, <2>4, <2>5
<1> QED
  BY <1>6, <1>7, <1>8

(***************************************************************************)
(* What a call in progress comes to.                                       *)
(***************************************************************************)
DueAt(p, r, u, st) ==
    CASE p = "data"       -> AtData(r, u, st)
      [] p = "state"      -> AtState(r, u, st)
      [] p = "log"        -> AtLog(r, u, st)
      [] p = "index"      -> AtIndex(r, st)
      [] p = "undo"       -> AtUndo(r, u, st)
      [] p = "statusData" -> AtStatusData(r, st)
      [] p = "statusLog"  -> AtStatusLog(r, st)
      [] OTHER            -> AtStatusState(r, st)

Due == DueAt(pc, cur, undo, Now)

(* A step leads to due: it ends the call with it, or leaves it due.        *)
LeadsTo(due) == IF pc' = "idle" THEN Now' = due ELSE Due' = due

(* The store with the file write of this step and the object before it.    *)
Mid == Obj(fdata', findex', flog', fstate', state, dirtySerials, fauto_commit')

Kinds == {"WRITE", "COMMIT", "ROLLBACK_BEGIN", "ROLLBACK_END"}

(* A step that ends a record leads to what is left after it,               *)
LEMMA EndRecordDue ==
    ASSUME TypeInv, TypeInv', EndRecord, cur.type \in Kinds
    PROVE  LeadsTo(Finish(cur, Mid))
<1>1. CASE cur.type = "ROLLBACK_BEGIN"
  <2>1. PICK seq \in Int : seq = state.last_sequence + 1
    BY FilesHere
  <2>2. PICK m : m = MarkReg("ROLLBACK_END", seq, << >>)
    OBVIOUS
  <2>3. m.type = "ROLLBACK_END" /\ m.serials = << >> /\ m.sequence = seq
    BY <2>2 DEF MarkReg
  <2>4. /\ cur' = m /\ state' = Counted(seq) /\ undo' = << >>
        /\ pc' = "data" /\ dirtySerials' = dirtySerials
    BY <1>1, <2>1, <2>2, <2>3 DEF EndRecord, Start
  <2>5. state' = CountOf(state, seq)
    BY <2>4 DEF Counted, CountOf
  <2>6. PICK x : x = Mid
    OBVIOUS
  <2>7. x = Obj(fdata', findex', flog', fstate', state, dirtySerials, fauto_commit')
    BY <2>6 DEF Mid
  <2>8. Now' = CountRecord(x, seq)
    <3>1. CountRecord(x, seq) = Obj(fdata', findex', flog', fstate',
                                    CountOf(state, seq), dirtySerials, fauto_commit')
      BY <2>7, ObjCount
    <3> QED
      BY <2>4, <2>5, <3>1, Zenon DEF Now
  <2>9. Due' = AtData(m, << >>, CountRecord(x, seq))
    BY <2>4, <2>8 DEF Due, DueAt
  <2>10. AtData(m, << >>, CountRecord(x, seq)) = Finish(m, WriteFiles(x, m, TRUE))
    <3>1. findex' \in [Serials -> IndexReg] /\ state \in State
      BY DEF TypeInv, TypeOK
    <3> QED
      BY <2>3, <2>7, <3>1, WholeRecord
  <2>11. Finish(m, WriteFiles(x, m, TRUE)) = Finish(cur, x)
    <3>1. x.state = state
      BY <2>7, ObjParts
    <3>2. Finish(m, WriteFiles(x, m, TRUE)) = ClearDirtySerials(WriteFiles(x, m, TRUE))
      BY <2>3, Zenon DEF Finish
    <3>3. Finish(cur, x)
             = ClearDirtySerials(WriteFiles(x, MarkReg("ROLLBACK_END",
                                                       state.last_sequence + 1, << >>),
                                            TRUE))
      BY <1>1, <3>1, Zenon DEF Finish
    <3> QED
      BY <2>1, <2>2, <3>2, <3>3, Zenon
  <2> QED
    BY <2>4, <2>6, <2>9, <2>10, <2>11, Zenon DEF LeadsTo
<1>2. CASE cur.type # "ROLLBACK_BEGIN"
  <2>1. /\ pc' = "idle" /\ state' = state
        /\ dirtySerials' = IF cur.type = "WRITE" THEN dirtySerials ELSE << >>
    BY <1>2 DEF EndRecord
  <2>2. CASE cur.type = "WRITE"
    BY <2>1, <2>2, Zenon DEF LeadsTo, Finish, Now, Mid
  <2>3. CASE cur.type # "WRITE"
    <3>1. Finish(cur, Mid) = ClearDirtySerials(Mid)
      BY <1>2, <2>3, Zenon DEF Finish
    <3>2. ClearDirtySerials(Mid)
             = Obj(fdata', findex', flog', fstate', state, << >>, fauto_commit')
      BY ObjClear, Zenon DEF Mid
    <3> QED
      BY <2>1, <2>3, <3>1, <3>2, Zenon DEF LeadsTo, Now
  <2> QED
    BY <2>2, <2>3
<1> QED
  BY <1>1, <1>2

(* and so does one that first begins a snapshot.                           *)
LEMMA EndCaseDue ==
    ASSUME TypeInv, TypeInv', EndCase, cur.type \in Kinds
    PROVE  LeadsTo(AfterCase(cur, Mid))
<1>1. PICK x : x = Mid
  OBVIOUS
<1>2. x = Obj(fdata', findex', flog', fstate', state, dirtySerials, fauto_commit')
  BY <1>1 DEF Mid
<1>3. state \in State
  BY FilesHere
<1>4. CASE state.count % StatusFreq = StatusFreq - 1
  <2>1. /\ pc' = "statusData" /\ cur' = cur /\ undo' = undo
        /\ dirtySerials' = dirtySerials /\ state' = state
    BY <1>4 DEF EndCase
  <2>2. Now' = x
    BY <1>2, <2>1, Zenon DEF Now
  <2>3. Due' = AtStatusData(cur, x)
    BY <2>1, <2>2 DEF Due, DueAt
  <2>4. AfterCase(cur, x) = AtStatusData(cur, x)
    BY <1>2, <1>3, <1>4, SnapshotWhole
  <2> QED
    BY <1>1, <2>1, <2>3, <2>4 DEF LeadsTo
<1>5. CASE state.count % StatusFreq # StatusFreq - 1
  <2>1. AfterCase(cur, x) = Finish(cur, x)
    BY <1>2, <1>3, <1>5, SnapshotWhole
  <2>2. LeadsTo(Finish(cur, Mid))
    BY <1>5, EndRecordDue DEF EndCase
  <2> QED
    BY <1>1, <2>1, <2>2
<1> QED
  BY <1>4, <1>5

(***************************************************************************)
(* The file writes lead to what was due before them.                       *)
(***************************************************************************)
(* The record goes into the data file.                                     *)
LEMMA WriteDataDue ==
    ASSUME TypeInv, cur.type \in Kinds, WriteDataStep PROVE LeadsTo(Due)
<1>1. PICK r, u, au : r = cur /\ u = undo /\ au = fauto_commit
  OBVIOUS
<1>2. /\ pc = "data" /\ pc' # "idle" /\ fdata' = Append(fdata, r) /\ state' = AfterData
      /\ findex' = findex /\ flog' = flog /\ fstate' = fstate
      /\ cur' = r /\ undo' = u /\ fauto_commit' = au
  BY <1>1 DEF WriteDataStep, WriterOnly
<1>3. Due = AtData(r, u, Now)
  BY <1>1, <1>2 DEF Due, DueAt
<1>4. PICK x : x = Now
  OBVIOUS
<1>5. x = Obj(fdata, findex, flog, fstate, state, dirtySerials, au)
  BY <1>1, <1>4 DEF Now
<1>6. CASE r.type = "WRITE"
  <2>1. PICK d : d = [x EXCEPT !.state.data_count = @ + 1]
    OBVIOUS
  <2>2. d = Obj(fdata, findex, flog, fstate, WriteCountOf(state), dirtySerials, au)
    BY <1>5, <2>1, ObjWritten
  <2>3. PICK w : w = WriteData(d, r, TRUE)
    OBVIOUS
  <2>4. w = Obj(Append(fdata, r), findex, flog, fstate, WriteCountOf(state),
                dirtySerials, au)
    BY <2>2, <2>3 DEF WriteData, Obj
  <2>5. AddDirtySerial(w, r.serial)
           = Obj(Append(fdata, r), findex, flog, fstate, WriteCountOf(state),
                 DirtyWith(dirtySerials, au, r.serial), au)
    BY <2>4, ObjDirty
  <2>6. state' = WriteCountOf(state)
    BY <1>1, <1>2, <1>6 DEF AfterData, WriteCountOf
  <2>7. dirtySerials' = DirtyWith(dirtySerials, au, r.serial) /\ pc' = "state"
    BY <1>1, <1>6 DEF WriteDataStep, DirtyWith
  <2>8. Now' = AddDirtySerial(w, r.serial)
    BY <1>2, <2>5, <2>6, <2>7, Zenon DEF Now
  <2>9. Due' = AtState(r, u, AddDirtySerial(w, r.serial))
    BY <1>2, <2>7, <2>8 DEF Due, DueAt
  <2>10. AtData(r, u, x) = AtState(r, u, AddDirtySerial(w, r.serial))
    BY <1>6, <2>1, <2>3, Zenon DEF AtData
  <2> QED
    BY <1>2, <1>3, <1>4, <2>9, <2>10, Zenon DEF LeadsTo
<1>7. CASE r.type # "WRITE"
  <2>1. PICK w : w = WriteData(x, r, TRUE)
    OBVIOUS
  <2>2. w = Obj(Append(fdata, r), findex, flog, fstate, state, dirtySerials, au)
    BY <1>5, <2>1 DEF WriteData, Obj
  <2>3. pc' = "log" /\ dirtySerials' = dirtySerials
    BY <1>1, <1>7 DEF WriteDataStep
  <2>4. CASE r.type = "COMMIT"
    <3>1. state' = CommitCountOf(state, r.sequence)
      BY <1>1, <1>2, <2>4 DEF AfterData, CommitCountOf
    <3>2. PICK fd1, q : fd1 = Append(fdata, r) /\ q = r.sequence
      OBVIOUS
    <3>3. Committing(w, q) = Obj(fd1, findex, flog, fstate,
                                 CommitCountOf(state, q), dirtySerials, au)
      BY <2>2, <3>2, ObjCommitted
    <3>4. Now' = Committing(w, q)
      BY <1>2, <2>3, <3>1, <3>2, <3>3, Zenon DEF Now
    <3>5. Due' = AtLog(r, u, Committing(w, q))
      BY <1>2, <2>3, <3>4 DEF Due, DueAt
    <3>6. AtData(r, u, x) = AtLog(r, u, Committing(w, q))
      BY <1>7, <2>1, <2>4, <3>2 DEF AtData, Committing
    <3> QED
      BY <1>2, <1>3, <1>4, <3>5, <3>6, Zenon DEF LeadsTo
  <2>5. CASE r.type # "COMMIT"
    <3>1. state' = state
      BY <1>1, <1>2, <1>7, <2>5 DEF AfterData
    <3>2. Now' = w
      BY <1>2, <2>2, <2>3, <3>1, Zenon DEF Now
    <3>3. Due' = AtLog(r, u, w)
      BY <1>2, <2>3, <3>2 DEF Due, DueAt
    <3>4. AtData(r, u, x) = AtLog(r, u, w)
      BY <1>7, <2>1, <2>5, Zenon DEF AtData
    <3> QED
      BY <1>2, <1>3, <1>4, <3>3, <3>4, Zenon DEF LeadsTo
  <2> QED
    BY <2>4, <2>5
<1> QED
  BY <1>6, <1>7

(* The state is saved.                                                     *)
LEMMA SaveStateDue == ASSUME SaveStateStep PROVE LeadsTo(Due)
<1>1. PICK x : x = Now
  OBVIOUS
<1>2. /\ pc = "state" /\ pc' = "log" /\ fstate' = state
      /\ UNCHANGED <<fdata, findex, flog, state, dirtySerials, fauto_commit, cur, undo>>
  BY DEF SaveStateStep, WriterOnly
<1>3. Now' = SaveState(x)
  <2>1. SaveState(x) = Obj(fdata, findex, flog, state, state, dirtySerials, fauto_commit)
    BY <1>1, ObjSave DEF Now
  <2> QED
    BY <1>2, <2>1, Zenon DEF Now
<1>4. Due' = AtLog(cur, undo, SaveState(x))
  BY <1>2, <1>3 DEF Due, DueAt
<1>5. Due = AtState(cur, undo, x)
  BY <1>1, <1>2 DEF Due, DueAt
<1> QED
  BY <1>2, <1>4, <1>5 DEF LeadsTo, AtState

(* The record goes into the log.                                           *)
LEMMA WriteLogDue ==
    ASSUME TypeInv, TypeInv', cur.type \in Kinds, cur.type = "WRITE" => undo = << >>,
           WriteLogStep
    PROVE  LeadsTo(Due)
<1>1. PICK x, r, u, au : x = Now /\ r = cur /\ u = undo /\ au = fauto_commit
  OBVIOUS
<1>2. PICK off : off = IF r.type \in {"WRITE", "COMMIT"} THEN Len(fdata) ELSE 0
  OBVIOUS
<1>3. PICK lg : lg = LogWith(flog, state.last_sequence, off, r.serial, r.type)
  OBVIOUS
<1>4. /\ pc = "log" /\ flog' = lg /\ fauto_commit' = au
      /\ fdata' = fdata /\ findex' = findex /\ fstate' = fstate
  BY <1>1, <1>2, <1>3 DEF WriteLogStep, WriterOnly, PutLog, LogWith
<1>5. x = Obj(fdata, findex, flog, fstate, state, dirtySerials, au)
  BY <1>1 DEF Now
<1>6. PICK e : e = Entry(x, r)
  OBVIOUS
<1>7. e = Obj(fdata, findex, lg, fstate, state, dirtySerials, au)
  <2>1. x.fdata = fdata /\ x.state = state
    BY <1>5, ObjParts
  <2>2. e = WriteLog(x, state.last_sequence, off, r.serial, r.type)
    BY <1>2, <1>6, <2>1 DEF Entry
  <2> QED
    BY <1>3, <1>5, <2>2, ObjLog
<1>8. Due = AtLog(r, u, x)
  BY <1>1, <1>4 DEF Due, DueAt
<1>9. ASSUME NEW p, p \in {"index", "undo"}, pc' = p,
             UNCHANGED <<state, dirtySerials, cur, undo>>
      PROVE  Now' = e /\ Due' = DueAt(p, r, u, e)
  <2>1. Now' = e
    BY <1>4, <1>7, <1>9, Zenon DEF Now
  <2> QED
    BY <1>1, <1>9, <2>1, Zenon DEF Due
<1>10. CASE r.type = "WRITE"
  <2>1. pc' = "index" /\ UNCHANGED <<state, dirtySerials, cur, undo>>
    BY <1>1, <1>10 DEF WriteLogStep
  <2>2. Due' = AtIndex(r, e)
    BY <1>9, <2>1 DEF DueAt
  <2>3. AtLog(r, u, x) = AtIndex(r, e)
    BY <1>6, <1>10, Zenon DEF AtLog
  <2> QED
    BY <1>8, <2>1, <2>2, <2>3 DEF LeadsTo
<1>11. CASE r.type # "WRITE" /\ u # << >>
  <2>1. pc' = "undo" /\ UNCHANGED <<state, dirtySerials, cur, undo>>
    BY <1>1, <1>11 DEF WriteLogStep
  <2>2. Due' = AtUndo(r, u, e)
    BY <1>9, <2>1 DEF DueAt
  <2>3. AtLog(r, u, x) = AtUndo(r, u, e)
    BY <1>6, <1>11, Zenon DEF AtLog
  <2> QED
    BY <1>8, <2>1, <2>2, <2>3 DEF LeadsTo
<1>12. CASE r.type # "WRITE" /\ u = << >>
  <2>1. EndCase
    BY <1>1, <1>12 DEF WriteLogStep
  <2>2. LeadsTo(AfterCase(cur, Mid))
    BY <2>1, EndCaseDue
  <2>3. Mid = e
    BY <1>4, <1>7, Zenon DEF Mid
  <2>4. AtLog(r, u, x) = AtUndo(r, << >>, e)
    BY <1>6, <1>12, Zenon DEF AtLog
  <2>5. UndoneIndex(findex, << >>) = findex
    BY FilesHere, UndoNone
  <2>6. [e EXCEPT !.findex = [s \in Serials |-> UndoIndex(@[s], << >>, s)]] = e
    BY <1>7, <2>5, ObjUndone
  <2>7. AtUndo(r, << >>, e) = AfterCase(r, e)
    BY <2>6, Zenon DEF AtUndo
  <2> QED
    BY <1>1, <1>8, <2>2, <2>3, <2>4, <2>7, Zenon
<1> QED
  BY <1>10, <1>11, <1>12

(* The record goes into the register of its serial.                        *)
LEMMA WriteIndexDue ==
    ASSUME TypeInv, TypeInv', cur.type \in Kinds, WriteIndexStep PROVE LeadsTo(Due)
<1>1. PICK x, r, au : x = Now /\ r = cur /\ au = fauto_commit
  OBVIOUS
<1>2. x = Obj(fdata, findex, flog, fstate, state, dirtySerials, au)
  BY <1>1 DEF Now
<1>3. x.fdata = fdata /\ x.findex = findex
  BY <1>2, ObjParts
<1>4. PICK s, off, seq, auto, first :
         /\ s = r.serial /\ off = Len(fdata) /\ seq = r.sequence /\ auto = r.auto
         /\ first = (findex[s] = EmptyIndex)
  OBVIOUS
<1>5. PICK reg : reg = SetOldestOffset(findex[s], off, seq, auto, first)
  OBVIOUS
<1>6. /\ pc = "index" /\ findex' = [findex EXCEPT ![s] = reg] /\ EndCase
      /\ fdata' = fdata /\ flog' = flog /\ fstate' = fstate /\ fauto_commit' = au
  BY <1>1, <1>4, <1>5, Zenon DEF WriteIndexStep, WriterOnly
<1>7. Register(x, r) = reg
  BY <1>3, <1>4, <1>5, Zenon DEF Register
<1>8. WriteIndex(x, s, reg) = Mid
  <2>1. WriteIndex(x, s, reg) = Obj(fdata, [findex EXCEPT ![s] = reg], flog, fstate,
                                    state, dirtySerials, au)
    BY <1>2, ObjIndex
  <2> QED
    BY <1>6, <2>1, Zenon DEF Mid
<1>9. Due = AtIndex(r, x)
  BY <1>1, <1>6 DEF Due, DueAt
<1>10. AtIndex(r, x) = AfterCase(r, Mid)
  BY <1>4, <1>7, <1>8, Zenon DEF AtIndex
<1>11. LeadsTo(AfterCase(cur, Mid))
  BY <1>6, EndCaseDue
<1> QED
  BY <1>1, <1>9, <1>10, <1>11, Zenon

(* The register of a serial whose newest version is undone.                *)
Undone(reg) == SetNewestOffset(reg, -1, FALSE)

(* Nothing is listed again where all are distinct.                         *)
LEMMA UndoOnce ==
    ASSUME NEW list, Distinct(list), NEW s, NEW reg
    PROVE  /\ Listed(list, s) =>
                 UndoIndex(reg, list, s) = Undone(reg)
           /\ ~Listed(list, s) => UndoIndex(reg, list, s) = reg
<1>1. ~ListedAgain(list, s)
  BY DEF ListedAgain, Distinct
<1>2. ASSUME Listed(list, s)
      PROVE  UndoIndex(reg, list, s) = Undone(reg)
  BY <1>1, <1>2, Zenon DEF UndoIndex, Undone
<1>3. ASSUME ~Listed(list, s) PROVE UndoIndex(reg, list, s) = reg
  BY <1>3, Zenon DEF UndoIndex
<1> QED
  BY <1>2, <1>3

(* The first register of the list is undone.                               *)
LEMMA UndoHead ==
    ASSUME NEW ix \in [Serials -> IndexReg], NEW list \in Seq(Serials),
           list # << >>, Distinct(list), NEW tl, tl = Tail(list),
           NEW new, new = [ix EXCEPT ![Head(list)] = Undone(@)]
    PROVE  UndoneIndex(new, tl) = UndoneIndex(ix, list)
<1>1. PICK h, reg : h = Head(list) /\ reg = Undone(ix[h])
  OBVIOUS
<1>2. /\ h \in Serials /\ Distinct(tl) /\ Listed(list, h)
      /\ \A s : Listed(tl, s) <=> Listed(list, s) /\ s # h
  BY <1>1, TailListed
<1>3. ASSUME NEW s \in Serials
      PROVE  UndoIndex(new[s], tl, s) = UndoIndex(ix[s], list, s)
  <2>1. CASE s = h
    <3>1. new[s] = reg
      BY <1>1, <1>2, <2>1
    <3>2. UndoIndex(reg, tl, s) = reg
      BY <1>2, <2>1, UndoOnce, Zenon
    <3>3. UndoIndex(ix[s], list, s) = Undone(ix[s])
      BY <1>2, <2>1, UndoOnce
    <3> QED
      BY <1>1, <2>1, <3>1, <3>2, <3>3, Zenon
  <2>2. CASE s # h
    <3>1. PICK a : a = ix[s]
      OBVIOUS
    <3>2. new[s] = a
      BY <1>1, <2>2, <3>1
    <3>3. CASE Listed(list, s)
      <4>1. UndoIndex(a, tl, s) = Undone(a)
        BY <1>2, <2>2, <3>3, UndoOnce, Zenon
      <4>2. UndoIndex(a, list, s) = Undone(a)
        BY <3>3, UndoOnce, Zenon
      <4> QED
        BY <3>1, <3>2, <4>1, <4>2, Zenon
    <3>4. CASE ~Listed(list, s)
      <4>1. UndoIndex(a, tl, s) = a
        BY <1>2, <3>4, UndoOnce, Zenon
      <4>2. UndoIndex(a, list, s) = a
        BY <3>4, UndoOnce, Zenon
      <4> QED
        BY <3>1, <3>2, <4>1, <4>2, Zenon
    <3> QED
      BY <3>3, <3>4
  <2> QED
    BY <2>1, <2>2
<1> QED
  BY <1>3, Zenon DEF UndoneIndex

(* The register of the next serial of the list is undone.                  *)
LEMMA UndoIndexDue ==
    ASSUME TypeInv, TypeInv', cur.type \in Kinds, Distinct(undo), UndoIndexStep
    PROVE  LeadsTo(Due)
<1>1. PICK x, r, u, au : x = Now /\ r = cur /\ u = undo /\ au = fauto_commit
  OBVIOUS
<1>2. x = Obj(fdata, findex, flog, fstate, state, dirtySerials, au)
  BY <1>1 DEF Now
<1>3. PICK h, reg : h = Head(u) /\ reg = Undone(findex[h])
  OBVIOUS
<1>4. PICK ix : ix = [findex EXCEPT ![h] = reg]
  OBVIOUS
<1>5. /\ pc = "undo" /\ findex' = ix /\ fauto_commit' = au
      /\ fdata' = fdata /\ flog' = flog /\ fstate' = fstate
  BY <1>1, <1>3, <1>4, Zenon DEF UndoIndexStep, WriterOnly, Undone
<1>6. /\ u \in Seq(Serials) /\ u # << >> /\ Distinct(u)
      /\ findex \in [Serials -> IndexReg] /\ ix \in [Serials -> IndexReg]
  BY <1>1, <1>5 DEF TypeInv, TypeOK, Shape
<1>7. UndoneIndex(ix, Tail(u)) = UndoneIndex(findex, u)
  <2>1. PICK tl, index : tl = Tail(u) /\ index = findex
    OBVIOUS
  <2>2. UndoneIndex(ix, tl) = UndoneIndex(index, u)
    <3>1. ix = [index EXCEPT ![Head(u)] = Undone(@)]
      BY <1>3, <1>4, <2>1, Zenon
    <3>2. /\ index \in [Serials -> IndexReg] /\ u \in Seq(Serials)
          /\ u # << >> /\ Distinct(u) /\ tl = Tail(u)
      BY <1>6, <2>1, Zenon
    <3> QED
      BY <3>1, <3>2, UndoHead, Zenon
  <2> QED
    BY <2>1, <2>2, Zenon
<1>8. PICK y : y = Obj(fdata, ix, flog, fstate, state, dirtySerials, au)
  OBVIOUS
<1>9. AtUndo(r, Tail(u), y) = AtUndo(r, u, x)
  <2>1. PICK tl : tl = Tail(u)
    OBVIOUS
  <2>2. [y EXCEPT !.findex = [s \in Serials |-> UndoIndex(@[s], tl, s)]]
           = Obj(fdata, UndoneIndex(ix, tl), flog, fstate, state, dirtySerials, au)
    BY <1>8, ObjUndone
  <2>3. [x EXCEPT !.findex = [s \in Serials |-> UndoIndex(@[s], u, s)]]
           = Obj(fdata, UndoneIndex(findex, u), flog, fstate, state, dirtySerials, au)
    BY <1>2, ObjUndone
  <2> QED
    BY <1>7, <2>1, <2>2, <2>3, Zenon DEF AtUndo
<1>10. Due = AtUndo(r, u, x)
  BY <1>1, <1>5 DEF Due, DueAt
<1>11. CASE Len(u) > 1
  <2>1. undo' = Tail(u) /\ UNCHANGED <<pc, cur, state, dirtySerials>>
    BY <1>1, <1>11 DEF UndoIndexStep
  <2>2. Now' = y
    BY <1>5, <1>8, <2>1, Zenon DEF Now
  <2>3. Due' = AtUndo(r, Tail(u), y)
    BY <1>1, <1>5, <2>1, <2>2 DEF Due, DueAt
  <2> QED
    BY <1>5, <1>9, <1>10, <2>1, <2>3 DEF LeadsTo
<1>12. CASE ~(Len(u) > 1)
  <2>1. EndCase
    BY <1>1, <1>12 DEF UndoIndexStep
  <2>2. LeadsTo(AfterCase(cur, Mid))
    BY <2>1, EndCaseDue
  <2>3. Mid = y
    BY <1>5, <1>8, Zenon DEF Mid
  <2>4. Tail(u) = << >>
    BY <1>6, <1>12
  <2>5. UndoneIndex(ix, << >>) = ix
    BY <1>6, UndoNone
  <2>6. [y EXCEPT !.findex = [s \in Serials |-> UndoIndex(@[s], << >>, s)]] = y
    BY <1>8, <2>5, ObjUndone
  <2>7. AtUndo(r, << >>, y) = AfterCase(r, y)
    BY <2>6, Zenon DEF AtUndo
  <2> QED
    BY <1>1, <1>9, <1>10, <2>2, <2>3, <2>4, <2>7, Zenon
<1> QED
  BY <1>11, <1>12

(* The snapshot goes into the data file, and                               *)
LEMMA StatusDataDue == ASSUME StatusDataStep PROVE LeadsTo(Due)
<1>1. PICK x, seq, m : /\ x = Now /\ seq = state.last_sequence + 1
                       /\ m = MarkReg("STATUS", seq, << >>)
  OBVIOUS
<1>2. /\ pc = "statusData" /\ pc' = "statusLog"
      /\ fdata' = Append(fdata, m) /\ state' = CountOf(state, seq)
      /\ UNCHANGED <<findex, flog, fstate, dirtySerials, fauto_commit, cur, undo>>
  BY <1>1 DEF StatusDataStep, WriterOnly, Counted, CountOf
<1>3. x = Obj(fdata, findex, flog, fstate, state, dirtySerials, fauto_commit)
  BY <1>1 DEF Now
<1>4. PICK st : st = CountOf(state, seq)
  OBVIOUS
<1>5. CountRecord(x, seq) = Obj(fdata, findex, flog, fstate, st, dirtySerials,
                                fauto_commit)
  BY <1>3, <1>4, ObjCount
<1>6. PICK w : w = WriteData(CountRecord(x, seq), m, TRUE)
  BY Zenon
<1>7. w = Obj(Append(fdata, m), findex, flog, fstate, st, dirtySerials, fauto_commit)
  <2>1. WriteData(Obj(fdata, findex, flog, fstate, st, dirtySerials, fauto_commit),
                  m, TRUE)
           = Obj(Append(fdata, m), findex, flog, fstate, st, dirtySerials, fauto_commit)
    BY DEF WriteData, Obj
  <2> QED
    BY <1>5, <1>6, <2>1, Zenon
<1>8. Now' = w
  BY <1>2, <1>4, <1>7, Zenon DEF Now
<1>9. Due' = AtStatusLog(cur, w)
  BY <1>2, <1>8 DEF Due, DueAt
<1>10. Due = AtStatusData(cur, x)
  BY <1>1, <1>2 DEF Due, DueAt
<1>11. x.state = state
  BY <1>3, ObjParts
<1>12. AtStatusData(cur, x) = AtStatusLog(cur, w)
  BY <1>1, <1>6, <1>11, Zenon DEF AtStatusData, StatusRecord
<1> QED
  BY <1>2, <1>9, <1>10, <1>12 DEF LeadsTo

(* into the log, and                                                       *)
LEMMA StatusLogDue == ASSUME StatusLogStep PROVE LeadsTo(Due)
<1>1. PICK x, seq, off : x = Now /\ seq = state.last_sequence /\ off = Len(fdata)
  OBVIOUS
<1>2. PICK lg : lg = LogWith(flog, seq, off, NoSerial, "STATUS")
  OBVIOUS
<1>3. /\ pc = "statusLog" /\ pc' = "statusState" /\ flog' = lg
      /\ UNCHANGED <<fdata, findex, fstate, state, dirtySerials, fauto_commit,
                     cur, undo>>
  BY <1>1, <1>2 DEF StatusLogStep, WriterOnly, PutLog, LogWith
<1>4. x = Obj(fdata, findex, flog, fstate, state, dirtySerials, fauto_commit)
  BY <1>1 DEF Now
<1>5. x.state = state /\ x.fdata = fdata
  BY <1>4, ObjParts
<1>6. WriteLog(x, seq, off, NoSerial, "STATUS")
         = Obj(fdata, findex, lg, fstate, state, dirtySerials, fauto_commit)
  BY <1>2, <1>4, ObjLog
<1>7. PICK w : w = WriteLog(x, seq, off, NoSerial, "STATUS")
  OBVIOUS
<1>8. Now' = w
  BY <1>3, <1>6, <1>7, Zenon DEF Now
<1>9. Due' = AtStatusState(cur, w)
  BY <1>3, <1>8 DEF Due, DueAt
<1>10. Due = AtStatusLog(cur, x)
  BY <1>1, <1>3 DEF Due, DueAt
<1>11. AtStatusLog(cur, x) = AtStatusState(cur, w)
  BY <1>1, <1>5, <1>7, Zenon DEF AtStatusLog
<1> QED
  BY <1>3, <1>9, <1>10, <1>11 DEF LeadsTo

(* the state is saved with it.                                             *)
LEMMA StatusStateDue ==
    ASSUME TypeInv, TypeInv', cur.type \in Kinds, StatusStateStep PROVE LeadsTo(Due)
<1>1. PICK x : x = Now
  OBVIOUS
<1>2. /\ pc = "statusState" /\ fstate' = state /\ EndRecord
      /\ fdata' = fdata /\ findex' = findex /\ flog' = flog
      /\ fauto_commit' = fauto_commit
  BY DEF StatusStateStep, WriterOnly
<1>3. SaveState(x) = Obj(fdata, findex, flog, state, state, dirtySerials, fauto_commit)
  BY <1>1, ObjSave DEF Now
<1>4. Mid = SaveState(x)
  BY <1>2, <1>3, Zenon DEF Mid
<1>5. Due = AtStatusState(cur, x)
  BY <1>1, <1>2 DEF Due, DueAt
<1>6. LeadsTo(Finish(cur, Mid))
  BY <1>2, EndRecordDue
<1> QED
  BY <1>4, <1>5, <1>6, Zenon DEF AtStatusState

(***************************************************************************)
(* The promise of the call in progress.                                    *)
(***************************************************************************)
(* The store b of a call's beginning, as SafeStorage has it.               *)
StoreOf(b) == Obj(b.fdata, b.findex, b.flog, b.fstate, b.state, b.dirty, b.auto)

BoundOf(b) == b.state.last_sequence < MaxSequence /\ Len(b.fdata) < MaxSequence

(* What the calls of SafeStorage make of it.                               *)
NextSeq(b) == b.state.last_sequence + 1
WriteOf(b, s, v) == WriteFiles(StoreOf(b), WriteReg(s, NextSeq(b), b.auto, v), TRUE)
CommitOf(b) ==
    ClearDirtySerials(WriteFiles(StoreOf(b), MarkReg("COMMIT", NextSeq(b), << >>), TRUE))
BegunOf(b) ==
    WriteFiles(StoreOf(b), MarkReg("ROLLBACK_BEGIN", NextSeq(b), b.dirty), TRUE)
EndedOf(st) ==
    ClearDirtySerials(
        WriteFiles(st, MarkReg("ROLLBACK_END", st.state.last_sequence + 1, << >>), TRUE))
RollbackOf(b) == EndedOf(BegunOf(b))

(* A call of SafeStorage that may begin in b leads to due.                 *)
Promised(b, due) ==
    \/ \E s \in Serials, v \in Values :
          BoundOf(b) /\ ~Listed(b.dirty, s) /\ due = WriteOf(b, s, v)
    \/ /\ BoundOf(b) \/ b.dirty # << >>
       /\ b.auto = FALSE
       /\ due \in {CommitOf(b), RollbackOf(b)}

(* What a call has at hand.                                                *)
Ready ==
    /\ Distinct(dirtySerials) /\ Distinct(undo)
    /\ cur.type = "WRITE" => undo = << >>
    /\ pc # "idle" => cur.type \in Kinds
    /\ cur.type = "WRITE" /\ pc = "data" => ~Listed(dirtySerials, cur.serial)

(* The invariant: what a call in progress comes to is what SafeStorage     *)
(* makes of the store that it began with.                                  *)
Calling ==
    /\ Ready
    /\ pc # "idle" => /\ opened /\ before.opened /\ before.auto = fauto_commit
                      /\ Promised(before, Due)

(* A file write leads to what was due.                                     *)
LEMMA FileStepDue ==
    ASSUME TypeInv, TypeInv', Ready, FileStep
    PROVE  LeadsTo(Due) /\ pc # "idle" /\ WriterOnly
<1>1. pc # "idle" /\ WriterOnly
  BY DEF FileStep, WriteDataStep, SaveStateStep, WriteLogStep, WriteIndexStep,
         UndoIndexStep, StatusDataStep, StatusLogStep, StatusStateStep
<1>2. cur.type \in Kinds /\ Distinct(undo) /\ (cur.type = "WRITE" => undo = << >>)
  BY <1>1 DEF Ready
<1>3. LeadsTo(Due)
  <2>1. CASE WriteDataStep
    BY <1>2, <2>1, WriteDataDue
  <2>2. CASE SaveStateStep
    BY <2>2, SaveStateDue
  <2>3. CASE WriteLogStep
    BY <1>2, <2>3, WriteLogDue
  <2>4. CASE WriteIndexStep
    BY <1>2, <2>4, WriteIndexDue
  <2>5. CASE UndoIndexStep
    BY <1>2, <2>5, UndoIndexDue
  <2>6. CASE StatusDataStep
    BY <2>6, StatusDataDue
  <2>7. CASE StatusLogStep
    BY <2>7, StatusLogDue
  <2>8. CASE StatusStateStep
    BY <1>2, <2>8, StatusStateDue
  <2> QED
    BY <2>1, <2>2, <2>3, <2>4, <2>5, <2>6, <2>7, <2>8 DEF FileStep
<1> QED
  BY <1>1, <1>3

(* A step that ends a record has at hand what the next one needs, and      *)
LEMMA EndRecordReady == ASSUME TypeInv, Ready, EndRecord PROVE Ready'
<1>1. CASE cur.type = "ROLLBACK_BEGIN"
  <2>1. PICK m : m = MarkReg("ROLLBACK_END", state.last_sequence + 1, << >>)
    OBVIOUS
  <2>2. m.type = "ROLLBACK_END" /\ m.serials = << >>
    BY <2>1, MarkTypes DEF RecordTypes
  <2>3. cur' = m /\ undo' = << >> /\ dirtySerials' = dirtySerials
    BY <1>1, <2>1, <2>2 DEF EndRecord, Start
  <2> QED
    BY <2>2, <2>3, NotListed DEF Ready, Kinds
<1>2. CASE cur.type # "ROLLBACK_BEGIN"
  <2>1. /\ cur' = NoRecord /\ undo' = << >> /\ pc' = "idle"
        /\ dirtySerials' \in {dirtySerials, << >>}
    BY <1>2 DEF EndRecord
  <2>2. NoRecord.type = "STATUS"
    BY MarkTypes
  <2>3. cur'.type = "STATUS"
    BY <2>1, <2>2
  <2>4. Distinct(dirtySerials') /\ Distinct(undo')
    BY <2>1, NotListed DEF Ready
  <2> QED
    BY <2>1, <2>3, <2>4 DEF Ready
<1> QED
  BY <1>1, <1>2

(* so has one that first begins a snapshot.                                *)
LEMMA EndCaseReady == ASSUME TypeInv, Ready, pc # "idle", EndCase PROVE Ready'
<1>1. CASE state.count % StatusFreq = StatusFreq - 1
  <2>1. pc' = "statusData" /\ UNCHANGED <<cur, undo, dirtySerials>>
    BY <1>1 DEF EndCase
  <2> QED
    BY <2>1 DEF Ready
<1>2. CASE state.count % StatusFreq # StatusFreq - 1
  BY <1>2, EndRecordReady DEF EndCase
<1> QED
  BY <1>1, <1>2

(* Every file write leaves at hand what the next one needs.                *)
LEMMA FileStepReady == ASSUME TypeInv, Ready, FileStep PROVE Ready'
<1>1. CASE WriteDataStep
  <2>1. /\ pc = "data" /\ pc' \in {"state", "log"}
        /\ cur' = cur /\ undo' = undo
    BY <1>1 DEF WriteDataStep
  <2>2. Distinct(dirtySerials')
    <3>1. CASE cur.type = "WRITE" /\ ~fauto_commit
      <4>1. dirtySerials' = Append(dirtySerials, cur.serial)
        BY <1>1, <3>1 DEF WriteDataStep
      <4>2. cur.serial \in Serials /\ dirtySerials \in Seq(Serials)
        BY <3>1 DEF TypeInv, TypeOK, Shape
      <4>3. Distinct(dirtySerials) /\ ~Listed(dirtySerials, cur.serial)
        BY <2>1, <3>1 DEF Ready
      <4> QED
        BY <4>1, <4>2, <4>3, DistinctAppend
    <3>2. CASE ~(cur.type = "WRITE" /\ ~fauto_commit)
      BY <1>1, <3>2 DEF WriteDataStep, Ready
    <3> QED
      BY <3>1, <3>2
  <2> QED
    BY <2>1, <2>2 DEF Ready
<1>2. ASSUME pc # "idle", pc' \in Places \ {"data"},
             UNCHANGED <<cur, undo, dirtySerials>>
      PROVE  Ready'
  BY <1>2 DEF Ready
<1>3. CASE SaveStateStep
  BY <1>2, <1>3 DEF SaveStateStep, Places
<1>4. CASE WriteLogStep
  <2>1. CASE cur.type = "WRITE"
    <3>1. undo = << >> /\ pc = "log"
      BY <1>4, <2>1 DEF Ready, WriteLogStep
    <3>2. pc' = "index" /\ UNCHANGED <<cur, undo, dirtySerials>>
      BY <1>4, <2>1, <3>1 DEF WriteLogStep
    <3> QED
      BY <1>2, <3>1, <3>2 DEF Places
  <2>2. CASE cur.type # "WRITE" /\ undo # << >>
    BY <1>2, <1>4, <2>2 DEF WriteLogStep, Places
  <2>3. CASE cur.type # "WRITE" /\ undo = << >>
    BY <1>4, <2>3, EndCaseReady DEF WriteLogStep
  <2> QED
    BY <2>1, <2>2, <2>3
<1>5. CASE WriteIndexStep
  BY <1>5, EndCaseReady DEF WriteIndexStep
<1>6. CASE UndoIndexStep
  <2>1. CASE Len(undo) > 1
    <3>1. undo' = Tail(undo) /\ pc = "undo" /\ UNCHANGED <<pc, cur, dirtySerials>>
      BY <1>6, <2>1 DEF UndoIndexStep
    <3>2. undo # << >> /\ undo \in Seq(Serials) /\ Distinct(undo)
      BY <3>1 DEF TypeInv, TypeOK, Shape, Ready
    <3>3. Distinct(undo')
      BY <3>1, <3>2, TailListed
    <3> QED
      BY <3>1, <3>2, <3>3 DEF Ready
  <2>2. CASE ~(Len(undo) > 1)
    BY <1>6, <2>2, EndCaseReady DEF UndoIndexStep
  <2> QED
    BY <2>1, <2>2
<1>7. CASE StatusDataStep
  BY <1>2, <1>7 DEF StatusDataStep, Places
<1>8. CASE StatusLogStep
  BY <1>2, <1>8 DEF StatusLogStep, Places
<1>9. CASE StatusStateStep
  BY <1>9, EndRecordReady DEF StatusStateStep
<1> QED
  BY <1>1, <1>3, <1>4, <1>5, <1>6, <1>7, <1>8, <1>9 DEF FileStep

(* A call on record r is due what writeFiles makes of it.                  *)
LEMMA CallDue ==
    ASSUME TypeInv, NEW r \in DataReg, r.type \in {"WRITE", "COMMIT", "ROLLBACK_BEGIN"},
           r.type \in {"WRITE", "COMMIT"} => r.serials = << >>, Call(r)
    PROVE  /\ Due' = Finish(r, WriteFiles(StoreOf(Store), r, TRUE))
           /\ before' = Store /\ opened /\ opened' /\ pc = "idle" /\ pc' = "data"
           /\ cur' = r /\ undo' = r.serials /\ dirtySerials' = dirtySerials
           /\ fauto_commit' = fauto_commit
<1>1. /\ before' = Store /\ opened /\ opened' /\ pc = "idle" /\ pc' = "data"
      /\ cur' = r /\ undo' = r.serials /\ dirtySerials' = dirtySerials
      /\ fauto_commit' = fauto_commit /\ state' = Counted(r.sequence)
      /\ fdata' = fdata /\ findex' = findex /\ flog' = flog /\ fstate' = fstate
  BY DEF Call, Start, files
<1>2. PICK x : x = Now
  OBVIOUS
<1>3. x = Obj(fdata, findex, flog, fstate, state, dirtySerials, fauto_commit)
  BY <1>2 DEF Now
<1>4. PICK q \in Int : q = r.sequence
  BY DEF DataReg
<1>5. CountRecord(x, q) = Obj(fdata, findex, flog, fstate, CountOf(state, q),
                              dirtySerials, fauto_commit)
  BY <1>3, ObjCount
<1>6. state' = CountOf(state, q)
  BY <1>1, <1>4 DEF Counted, CountOf
<1>7. Now' = CountRecord(x, r.sequence)
  BY <1>1, <1>4, <1>5, <1>6, Zenon DEF Now
<1>8. Due' = AtData(r, r.serials, CountRecord(x, r.sequence))
  BY <1>1, <1>7 DEF Due, DueAt
<1>9. AtData(r, r.serials, CountRecord(x, r.sequence)) = Finish(r, WriteFiles(x, r, TRUE))
  <2>1. /\ findex \in [Serials -> IndexReg] /\ state \in State
        /\ r.sequence \in Int
        /\ r.type \in {"WRITE", "COMMIT", "ROLLBACK_BEGIN", "ROLLBACK_END"}
        /\ r.type \in {"COMMIT", "ROLLBACK_END"} => r.serials = << >>
    BY <1>4 DEF TypeInv, TypeOK
  <2> QED
    BY <1>3, <2>1, WholeRecord
<1>10. x = StoreOf(Store)
  BY <1>3 DEF StoreOf, Store, Obj
<1> QED
  BY <1>1, <1>8, <1>9, <1>10, Zenon

(* A call begins with its promise.                                         *)
LEMMA CallsCalling ==
    ASSUME TypeInv, Calling,
           \/ \E s \in Serials, v \in Values : CallWrite(s, v)
           \/ CallCommit
           \/ CallRollback
    PROVE  Calling' /\ pc = "idle" /\ pc' # "idle" /\ before' = Store
<1>1. PICK b : b = Store
  OBVIOUS
<1>2. /\ b.state = state /\ b.fdata = fdata /\ b.dirty = dirtySerials
      /\ b.auto = fauto_commit /\ b.opened = opened
  BY <1>1 DEF Store
<1>3. PICK seq \in Int : seq = state.last_sequence + 1
  BY FilesHere
<1>4. NextSeq(b) = seq
  BY <1>2, <1>3 DEF NextSeq
<1>5. Ready
  BY DEF Calling
<1>6. ASSUME NEW due, Due' = due, Promised(b, due), Ready', before' = b,
             opened, opened' = opened, fauto_commit' = fauto_commit
      PROVE  Calling'
  <2>1. Promised(before, Due)'
    BY <1>6, Zenon
  <2> QED
    BY <1>2, <1>6, <2>1 DEF Calling
<1>7. ASSUME NEW s \in Serials, NEW v \in Values, CallWrite(s, v)
      PROVE  Calling' /\ pc = "idle" /\ pc' # "idle" /\ before' = Store
  <2>1. PICK r, au : r = WriteReg(s, seq, au, v) /\ au = fauto_commit
    OBVIOUS
  <2>2. /\ r \in DataReg /\ r.type = "WRITE" /\ r.serial = s /\ r.serials = << >>
    <3>1. au \in BOOLEAN
      BY <2>1 DEF TypeInv, TypeOK
    <3>2. r.serials = << >>
      BY <2>1 DEF WriteReg
    <3> QED
      BY <2>1, <3>1, <3>2, WriteRegType
  <2>3. Call(r) /\ ~Listed(dirtySerials, s) /\ InBound
    BY <1>3, <1>7, <2>1, Zenon DEF CallWrite
  <2>4. /\ Due' = Finish(r, WriteFiles(StoreOf(Store), r, TRUE))
        /\ before' = Store /\ opened /\ opened' /\ pc = "idle" /\ pc' = "data"
        /\ cur' = r /\ undo' = r.serials /\ dirtySerials' = dirtySerials
        /\ fauto_commit' = fauto_commit
    BY <2>2, <2>3, CallDue
  <2>5. Due' = WriteOf(b, s, v)
    BY <1>1, <1>2, <1>4, <2>1, <2>2, <2>4, Zenon DEF WriteOf, Finish
  <2>6. BoundOf(b) /\ ~Listed(b.dirty, s)
    BY <1>2, <2>3 DEF BoundOf, InBound
  <2>7. Promised(b, WriteOf(b, s, v))
    BY <2>6, Zenon DEF Promised
  <2>8. Ready'
    BY <1>5, <2>2, <2>3, <2>4, NotListed DEF Ready, Kinds
  <2> QED
    BY <1>1, <1>6, <2>4, <2>5, <2>7, <2>8
<1>8. ASSUME NEW type \in {"COMMIT", "ROLLBACK_BEGIN"}, NEW list \in Seq(Serials),
             list = IF type = "COMMIT" THEN << >> ELSE dirtySerials,
             InBound \/ dirtySerials # << >>, ~fauto_commit,
             Call(MarkReg(type, state.last_sequence + 1, list))
      PROVE  Calling' /\ pc = "idle" /\ pc' # "idle" /\ before' = Store
  <2>1. PICK r : r = MarkReg(type, seq, list)
    OBVIOUS
  <2>2. /\ r \in DataReg /\ r.type = type /\ r.serials = list
    BY <2>1, MarkRegType DEF RecordTypes
  <2>3. Call(r)
    BY <1>3, <1>8, <2>1, Zenon
  <2>4. /\ Due' = Finish(r, WriteFiles(StoreOf(Store), r, TRUE))
        /\ before' = Store /\ opened /\ opened' /\ pc = "idle" /\ pc' = "data"
        /\ cur' = r /\ undo' = r.serials /\ dirtySerials' = dirtySerials
        /\ fauto_commit' = fauto_commit
    BY <1>8, <2>2, <2>3, CallDue
  <2>5. BoundOf(b) \/ b.dirty # << >>
    BY <1>2, <1>8 DEF BoundOf, InBound
  <2>6. b.auto = FALSE
    BY <1>2, <1>8 DEF TypeInv, TypeOK
  <2>7. Ready'
    <3>1. Distinct(list)
      BY <1>5, <1>8, NotListed DEF Ready
    <3> QED
      BY <1>5, <1>8, <2>2, <2>4, <3>1 DEF Ready, Kinds
  <2>8. CASE type = "COMMIT"
    <3>1. Due' = CommitOf(b)
      <4>1. list = << >>
        BY <1>8, <2>8
      <4> QED
        BY <1>1, <1>4, <2>1, <2>2, <2>4, <2>8, <4>1 DEF CommitOf, Finish
    <3> QED
      BY <1>1, <1>6, <2>4, <2>5, <2>6, <2>7, <3>1 DEF Promised
  <2>9. CASE type = "ROLLBACK_BEGIN"
    <3>1. Due' = RollbackOf(b)
      <4>1. list = b.dirty
        BY <1>2, <1>8, <2>9
      <4> QED
        BY <1>1, <1>4, <2>1, <2>2, <2>4, <2>9, <4>1
           DEF RollbackOf, BegunOf, EndedOf, Finish
    <3> QED
      BY <1>1, <1>6, <2>4, <2>5, <2>6, <2>7, <3>1 DEF Promised
  <2> QED
    BY <1>8, <2>8, <2>9
<1>9. << >> \in Seq(Serials) /\ dirtySerials \in Seq(Serials)
  BY DEF TypeInv, TypeOK
<1> QED
  BY <1>7, <1>8, <1>9, Zenon DEF CallCommit, CallRollback

(* What a step that leaves the call in progress alone keeps.               *)
LEMMA CallingKept ==
    ASSUME Calling,
           UNCHANGED <<files, object, call, before>>
    PROVE  Calling'
<1>1. /\ Now' = Now /\ pc' = pc /\ cur' = cur /\ undo' = undo
      /\ dirtySerials' = dirtySerials /\ opened' = opened /\ before' = before
      /\ fauto_commit' = fauto_commit
  BY DEF files, object, call, Now
<1>2. Due' = Due
  BY <1>1, Zenon DEF Due
<1>3. Promised(before, Due) => Promised(before, Due)'
  BY <1>1, <1>2, Zenon
<1> QED
  BY <1>1, <1>3 DEF Calling, Ready

(* A file write ends the call with what was due, or leaves it due.         *)
LEMMA FileStepCalling ==
    ASSUME TypeInv, TypeInv', Calling, FileStep
    PROVE  /\ Calling' /\ pc # "idle" /\ before' = before
           /\ pc' = "idle" => Now' = Due
           /\ opened' = opened /\ fauto_commit' = fauto_commit
<1>1. LeadsTo(Due) /\ pc # "idle" /\ WriterOnly
  BY FileStepDue DEF Calling
<1>2. before' = before /\ opened' = opened /\ fauto_commit' = fauto_commit
  BY <1>1 DEF WriterOnly
<1>3. Ready'
  BY FileStepReady DEF Calling
<1>4. opened /\ before.opened /\ before.auto = fauto_commit /\ Promised(before, Due)
  BY <1>1 DEF Calling
<1>5. pc' # "idle" => Promised(before, Due)'
  BY <1>1, <1>2, <1>4, Zenon DEF LeadsTo
<1>6. pc' = "idle" => Now' = Due
  BY <1>1, Zenon DEF LeadsTo
<1> QED
  BY <1>1, <1>2, <1>3, <1>4, <1>5, <1>6 DEF Calling

(* The promise is kept by every step.                                      *)
LEMMA NextCalling == ASSUME TypeInv, TypeInv', Calling, [Next]_vars PROVE Calling'
<1>1. CASE FileStep
  BY <1>1, FileStepCalling
<1>2. CASE Close
  BY <1>2 DEF Close, call, Calling, Ready
<1>3. ASSUME NEW auto \in BOOLEAN, Open(auto) PROVE Calling'
  BY <1>3 DEF Open, call, Calling, Ready
<1>4. CASE Crash
  <2>1. NoRecord.type = "STATUS"
    BY MarkTypes
  <2>2. /\ pc' = "idle" /\ cur'.type = "STATUS" /\ undo' = << >>
        /\ dirtySerials' = << >>
    BY <1>4, <2>1 DEF Crash
  <2> QED
    BY <2>2, NotListed DEF Calling, Ready
<1>5. ASSUME NEW r \in Readers,
             \/ \E s \in Serials : ReadState(r, s)
             \/ ReadIndex(r)
             \/ ReadReturn(r)
      PROVE  Calling'
  <2>1. UNCHANGED <<files, object, call, before>>
    BY <1>5 DEF ReadState, ReadIndex, ReadReturn
  <2> QED
    BY <2>1, CallingKept
<1>6. CASE UNCHANGED vars
  <2>1. UNCHANGED <<files, object, call, before>>
    BY <1>6 DEF vars
  <2> QED
    BY <2>1, CallingKept
<1> QED
  BY <1>1, <1>2, <1>3, <1>4, <1>5, <1>6, CallsCalling DEF Next

(* No call is in progress in a new storage.                                *)
LEMMA InitCalling == Init => Calling
<1> SUFFICES ASSUME Init PROVE Calling
  OBVIOUS
<1>1. /\ pc = "idle" /\ cur.type = "STATUS" /\ undo = << >> /\ dirtySerials = << >>
  BY DEF Init, NoRecord, MarkReg
<1> QED
  BY <1>1, NotListed DEF Calling, Ready

(***************************************************************************)
(* The steps as SafeStorage has them.                                      *)
(***************************************************************************)
(* Between calls the storage is what it is,                                *)
LEMMA BarIdle ==
    ASSUME pc = "idle"
    PROVE  /\ Bar.fdata = fdata /\ Bar.findex = findex /\ Bar.flog = flog
           /\ Bar.fstate = fstate /\ Bar.state = state /\ Bar.dirty = dirtySerials
           /\ Bar.auto = fauto_commit /\ Bar.opened = opened
  BY DEF Bar, Store

(* after a step as before it.                                              *)
LEMMA BarIdleNext ==
    ASSUME pc' = "idle"
    PROVE  /\ Bar'.fdata = fdata' /\ Bar'.findex = findex' /\ Bar'.flog = flog'
           /\ Bar'.fstate = fstate' /\ Bar'.state = state'
           /\ Bar'.dirty = dirtySerials' /\ Bar'.auto = fauto_commit'
           /\ Bar'.opened = opened'
  BY DEF Bar, Store

(* The operators of SafeFiles that SafeStorage uses are those used here:   *)
(* writeFiles,                                                             *)
LEMMA SameWriteFiles ==
    \A st, r, ok : Calls!WriteFiles(st, r, ok) = WriteFiles(st, r, ok)
<1> USE DEF Calls!MarkReg, MarkReg, Calls!CountRecord, CountRecord,
            Calls!WriteLog, WriteLog, Calls!WriteData, WriteData,
            Calls!DataOffset, DataOffset, Calls!SaveState, SaveState
<1>1. \A st, ok : Calls!StatusSnapshot(st, ok) = StatusSnapshot(st, ok)
  BY DEF Calls!StatusSnapshot, StatusSnapshot
<1>2. \A st, r, ok : Calls!ApplyWrite(st, r, ok) = ApplyWrite(st, r, ok)
  BY DEF Calls!ApplyWrite, ApplyWrite, Calls!AddDirtySerial, AddDirtySerial,
         Calls!WriteIndex, WriteIndex, Calls!SetOldestOffset, SetOldestOffset,
         Calls!NewestSlot, NewestSlot, Calls!EmptyIndex, EmptyIndex,
         Calls!Slot, Slot
<1>3. \A st, r, ok : Calls!ApplyRollbackBegin(st, r, ok) = ApplyRollbackBegin(st, r, ok)
  BY DEF Calls!ApplyRollbackBegin, ApplyRollbackBegin, Calls!UndoIndex, UndoIndex,
         Calls!SetNewestOffset, SetNewestOffset, Calls!NewestSlot, NewestSlot,
         Calls!Listed, Listed, Calls!ListedAgain, ListedAgain
<1>4. \A st, r, ok : Calls!ApplyRollbackEnd(st, r, ok) = ApplyRollbackEnd(st, r, ok)
  BY DEF Calls!ApplyRollbackEnd, ApplyRollbackEnd
<1>5. \A st, r, ok : Calls!ApplyCommit(st, r, ok) = ApplyCommit(st, r, ok)
  BY DEF Calls!ApplyCommit, ApplyCommit
<1>6. \A st, q : Calls!CountRecord(st, q) = CountRecord(st, q)
  OBVIOUS
<1> HIDE DEF CountRecord, Calls!CountRecord, MarkReg, Calls!MarkReg,
             WriteLog, Calls!WriteLog, WriteData, Calls!WriteData,
             DataOffset, Calls!DataOffset, SaveState, Calls!SaveState
<1> DEFINE Cases(r, ok, failed, write, begin, end, commit, other) ==
        CASE r.type = "WRITE" /\ ~ok    -> failed
          [] r.type = "WRITE" /\ ok     -> write
          [] r.type = "ROLLBACK_BEGIN" -> begin
          [] r.type = "ROLLBACK_END"   -> end
          [] r.type = "COMMIT"         -> commit
          [] OTHER                     -> other
<1>7. ASSUME NEW st, NEW r, NEW ok
      PROVE  Calls!WriteFiles(st, r, ok) = WriteFiles(st, r, ok)
  <2>1. PICK c : c = CountRecord(st, r.sequence)
    OBVIOUS
  <2>2. Calls!CountRecord(st, r.sequence) = c
    BY <1>6, <2>1, Zenon
  <2>3. WriteFiles(st, r, ok)
          = Cases(r, ok, ApplyWrite(c, r, ok),
                  StatusSnapshot(ApplyWrite(c, r, ok), ok),
                  StatusSnapshot(ApplyRollbackBegin(c, r, ok), ok),
                  StatusSnapshot(ApplyRollbackEnd(c, r, ok), ok),
                  StatusSnapshot(ApplyCommit(c, r, ok), ok),
                  StatusSnapshot(c, ok))
    BY <2>1, Zenon DEF WriteFiles
  <2>4. Calls!WriteFiles(st, r, ok)
          = Cases(r, ok, Calls!ApplyWrite(c, r, ok),
                  Calls!StatusSnapshot(Calls!ApplyWrite(c, r, ok), ok),
                  Calls!StatusSnapshot(Calls!ApplyRollbackBegin(c, r, ok), ok),
                  Calls!StatusSnapshot(Calls!ApplyRollbackEnd(c, r, ok), ok),
                  Calls!StatusSnapshot(Calls!ApplyCommit(c, r, ok), ok),
                  Calls!StatusSnapshot(c, ok))
    BY <2>2, Zenon DEF Calls!WriteFiles
  <2> HIDE DEF Cases
  <2>5. Calls!ApplyWrite(c, r, ok) = ApplyWrite(c, r, ok)
    BY <1>2, Zenon
  <2>6. Calls!StatusSnapshot(Calls!ApplyWrite(c, r, ok), ok)
          = StatusSnapshot(ApplyWrite(c, r, ok), ok)
    BY <1>1, <2>5, Zenon
  <2>7. Calls!StatusSnapshot(Calls!ApplyRollbackBegin(c, r, ok), ok)
          = StatusSnapshot(ApplyRollbackBegin(c, r, ok), ok)
    BY <1>1, <1>3, Zenon
  <2>8. Calls!StatusSnapshot(Calls!ApplyRollbackEnd(c, r, ok), ok)
          = StatusSnapshot(ApplyRollbackEnd(c, r, ok), ok)
    BY <1>1, <1>4, Zenon
  <2>9. Calls!StatusSnapshot(Calls!ApplyCommit(c, r, ok), ok)
          = StatusSnapshot(ApplyCommit(c, r, ok), ok)
    BY <1>1, <1>5, Zenon
  <2>10. Calls!StatusSnapshot(c, ok) = StatusSnapshot(c, ok)
    BY <1>1, Zenon
  <2> QED
    BY <2>3, <2>4, <2>5, <2>6, <2>7, <2>8, <2>9, <2>10, Zenon
<1> QED
  BY <1>7

(* and so are the smaller ones.                                            *)
LEMMA SameRest ==
    /\ \A st : Calls!ClearDirtySerials(st) = ClearDirtySerials(st)
    /\ \A st : Calls!SaveState(st) = SaveState(st)
    /\ \A t, q, l : Calls!MarkReg(t, q, l) = MarkReg(t, q, l)
    /\ \A s, q, a, v : Calls!WriteReg(s, q, a, v) = WriteReg(s, q, a, v)
    /\ \A l, s : Calls!Listed(l, s) = Listed(l, s)
    /\ Calls!ZeroState = ZeroState
    /\ Calls!EmptyIndex = EmptyIndex
  BY DEF Calls!ClearDirtySerials, ClearDirtySerials, Calls!SaveState, SaveState,
     Calls!MarkReg, MarkReg, Calls!WriteReg, WriteReg, Calls!Listed, Listed,
     Calls!ZeroState, ZeroState, Calls!EmptyIndex, EmptyIndex, Calls!Slot, Slot

(* The store of SafeStorage.                                               *)
LEMMA CallsStore == Calls!Store = StoreOf(Bar)
  BY DEF Calls!Store, StoreOf, Obj

(* A step after which no call is in progress takes SafeStorage to the      *)
(* store that is then there.                                               *)
LEMMA BarBecomes ==
    ASSUME pc' = "idle", NEW st, Now' = st
    PROVE  Calls!Becomes(st)
<1>1. /\ st.fdata = fdata' /\ st.findex = findex' /\ st.flog = flog'
      /\ st.fstate = fstate' /\ st.state = state' /\ st.dirty = dirtySerials'
  BY DEF Now, Obj
<1> QED
  BY <1>1, BarIdleNext DEF Calls!Becomes

(* A call that returns is the call of SafeStorage.                         *)
LEMMA Returns ==
    ASSUME TypeInv, Calling, pc # "idle", pc' = "idle", Now' = Due,
           opened' = opened, fauto_commit' = fauto_commit
    PROVE  Calls!Next
<1>1. /\ opened /\ before.opened /\ before.auto = fauto_commit
      /\ Promised(before, Due)
  BY DEF Calling
<1>2. PICK b : b = before
  OBVIOUS
<1>3. Bar = b
  BY <1>2 DEF Bar
<1>4. Bar'.auto = b.auto /\ Bar'.opened = b.opened /\ Bar.opened
  <2>1. opened = TRUE /\ before.opened = TRUE
    <3>1. opened \in BOOLEAN
      BY DEF TypeInv, TypeOK
    <3> QED
      BY <1>1, <3>1
  <2> QED
    BY <1>1, <1>2, <1>3, <2>1, BarIdleNext
<1>5. Calls!Becomes(Due)
  BY BarBecomes
<1>6. TRUE \in Calls!AppendOutcomes
  BY DEF Calls!AppendOutcomes
<1>7. Calls!InBound <=> BoundOf(b)
  BY <1>3 DEF Calls!InBound, BoundOf
<1>8. Calls!Store = StoreOf(b)
  BY <1>3, CallsStore
<1>9. ASSUME NEW s \in Serials, NEW v \in Values,
             BoundOf(b), ~Listed(b.dirty, s), Due = WriteOf(b, s, v)
      PROVE  Calls!Next
  <2>1. ~Calls!Dirty(s)
    BY <1>3, <1>9, SameRest DEF Calls!Dirty
  <2>2. WriteOf(b, s, v)
           = Calls!WriteFiles(Calls!Store,
                Calls!WriteReg(s, Bar.state.last_sequence + 1, Bar.auto, v), TRUE)
    BY <1>3, <1>8, SameWriteFiles, SameRest, Zenon DEF WriteOf, NextSeq
  <2>3. Calls!Write(s, v, TRUE)
    BY <1>3, <1>4, <1>5, <1>7, <1>9, <2>1, <2>2 DEF Calls!Write
  <2> QED
    BY <1>6, <2>3 DEF Calls!Next
<1>10. ASSUME BoundOf(b) \/ b.dirty # << >>, b.auto = FALSE, Due = CommitOf(b)
       PROVE  Calls!Next
  <2>1. CommitOf(b)
           = Calls!ClearDirtySerials(Calls!WriteFiles(Calls!Store,
                Calls!MarkReg("COMMIT", Bar.state.last_sequence + 1, << >>), TRUE))
    BY <1>3, <1>8, SameWriteFiles, SameRest, Zenon DEF CommitOf, NextSeq
  <2>2. Calls!Commit(TRUE)
    BY <1>3, <1>4, <1>5, <1>7, <1>10, <2>1 DEF Calls!Commit, Calls!InBoundOrDirty
  <2> QED
    BY <1>6, <2>2 DEF Calls!Next
<1>11. ASSUME BoundOf(b) \/ b.dirty # << >>, b.auto = FALSE, Due = RollbackOf(b)
       PROVE  Calls!Next
  <2>1. PICK begun : begun = BegunOf(b)
    OBVIOUS
  <2>2. Calls!RollbackBegin(TRUE) = begun
    BY <1>3, <1>8, <2>1, SameWriteFiles, SameRest, Zenon
       DEF Calls!RollbackBegin, BegunOf, NextSeq
  <2>3. Calls!ClearDirtySerials(Calls!RollbackEnd(begun, TRUE)) = RollbackOf(b)
    BY <2>1, SameWriteFiles, SameRest, Zenon
       DEF Calls!RollbackEnd, RollbackOf, EndedOf
  <2>4. Calls!Rollback(TRUE, TRUE)
    BY <1>3, <1>4, <1>5, <1>7, <1>11, <2>2, <2>3
       DEF Calls!Rollback, Calls!InBoundOrDirty
  <2> QED
    BY <1>6, <2>4 DEF Calls!Next
<1> QED
  BY <1>1, <1>2, <1>9, <1>10, <1>11 DEF Promised

(* Every step is a step of SafeStorage or none, except for a death in the  *)
(* middle of a call.                                                       *)
LEMMA StepMaps ==
    ASSUME TypeInv, TypeInv', Calling, [Next]_vars
    PROVE  [Calls!Next \/ (~crashed /\ crashed' /\ pc # "idle")]_(Calls!vars)
<1>1. ASSUME Bar' = Bar PROVE UNCHANGED Calls!vars
  BY <1>1 DEF Calls!vars
<1>2. ASSUME UNCHANGED <<files, object, call, before>> PROVE Bar' = Bar
  <2>1. Store' = Store
    BY <1>2 DEF Store, files, object
  <2> QED
    BY <1>2, <2>1 DEF Bar, call
<1>3. CASE FileStep
  <2>1. /\ pc # "idle" /\ before' = before
        /\ pc' = "idle" => Now' = Due
        /\ opened' = opened /\ fauto_commit' = fauto_commit
    BY <1>3, FileStepCalling
  <2>2. CASE pc' = "idle"
    BY <2>1, <2>2, Returns
  <2>3. CASE pc' # "idle"
    <3>1. Bar' = Bar
      BY <2>1, <2>3 DEF Bar
    <3> QED
      BY <1>1, <3>1
  <2> QED
    BY <2>2, <2>3
<1>4. CASE \/ \E s \in Serials, v \in Values : CallWrite(s, v)
           \/ CallCommit
           \/ CallRollback
  <2>1. pc = "idle" /\ pc' # "idle" /\ before' = Store
    BY <1>4, CallsCalling
  <2>2. Bar' = Bar
    BY <2>1 DEF Bar
  <2> QED
    BY <1>1, <2>2
<1>5. CASE Close
  <2>1. /\ opened /\ pc = "idle" /\ pc' = "idle" /\ dirtySerials = << >>
        /\ fstate' = state /\ fauto_commit' = FALSE /\ opened' = FALSE
        /\ UNCHANGED <<fdata, findex, flog, state, dirtySerials>>
    BY <1>5 DEF Close, call
  <2>2. PICK st : st = Obj(fdata, findex, flog, state, state, << >>, fauto_commit)
    OBVIOUS
  <2>3. Calls!ClearDirtySerials(Calls!SaveState(Calls!Store)) = st
    <3>1. SaveState(Obj(fdata, findex, flog, fstate, state, dirtySerials, fauto_commit))
             = Obj(fdata, findex, flog, state, state, dirtySerials, fauto_commit)
      BY ObjSave
    <3>2. ClearDirtySerials(Obj(fdata, findex, flog, state, state, dirtySerials,
                                fauto_commit)) = st
      BY <2>2, ObjClear
    <3>3. Calls!Store
             = Obj(fdata, findex, flog, fstate, state, dirtySerials, fauto_commit)
      BY <2>1, BarIdle DEF Calls!Store, Obj
    <3> QED
      BY <3>1, <3>2, <3>3, SameRest, Zenon
  <2>4. Calls!Becomes(st)
    <3>1. /\ st.fdata = fdata /\ st.findex = findex /\ st.flog = flog
          /\ st.fstate = state /\ st.state = state /\ st.dirty = << >>
      BY <2>2 DEF Obj
    <3> QED
      BY <2>1, <3>1, BarIdleNext DEF Calls!Becomes
  <2>5. Calls!Close
    BY <2>1, <2>3, <2>4, BarIdle, BarIdleNext DEF Calls!Close
  <2> QED
    BY <2>5 DEF Calls!Next
<1>6. ASSUME NEW auto \in BOOLEAN, Open(auto) PROVE Calls!Next
  <2>1. /\ ~opened /\ state' = fstate /\ fauto_commit' = auto /\ opened' = TRUE
        /\ pc' = pc
        /\ UNCHANGED <<fdata, findex, flog, fstate, dirtySerials>>
    BY <1>6 DEF Open, files, call
  <2>2. pc = "idle" /\ pc' = "idle"
    BY <2>1 DEF Calling
  <2>3. Calls!Open(auto)
    BY <2>1, <2>2, BarIdle, BarIdleNext DEF Calls!Open
  <2> QED
    BY <2>3 DEF Calls!Next
<1>7. CASE Crash
  <2>1. /\ opened /\ ~crashed /\ crashed' /\ pc' = "idle"
        /\ state' = ZeroState /\ dirtySerials' = << >> /\ fauto_commit' = FALSE
        /\ opened' = FALSE
        /\ UNCHANGED <<fdata, findex, flog, fstate>>
    BY <1>7 DEF Crash, files
  <2>2. CASE pc = "idle"
    <3>1. Calls!Crash
      BY <2>1, <2>2, BarIdle, BarIdleNext, SameRest DEF Calls!Crash, Calls!files
    <3> QED
      BY <3>1 DEF Calls!Next
  <2> QED
    BY <2>1, <2>2
<1>8. ASSUME NEW r \in Readers,
             \/ \E s \in Serials : ReadState(r, s)
             \/ ReadIndex(r)
             \/ ReadReturn(r)
      PROVE  UNCHANGED Calls!vars
  <2>1. UNCHANGED <<files, object, call, before>>
    BY <1>8 DEF ReadState, ReadIndex, ReadReturn
  <2> QED
    BY <1>1, <1>2, <2>1
<1>9. CASE UNCHANGED vars
  <2>1. UNCHANGED <<files, object, call, before>>
    BY <1>9 DEF vars
  <2> QED
    BY <1>1, <1>2, <2>1
<1> QED
  BY <1>3, <1>4, <1>5, <1>6, <1>7, <1>8, <1>9 DEF Next

(* The new storage is the new storage of SafeStorage.                      *)
LEMMA InitMaps == Init => Calls!Init
<1> SUFFICES ASSUME Init PROVE Calls!Init
  OBVIOUS
<1>1. pc = "idle"
  BY DEF Init
<1> QED
  BY <1>1, BarIdle, SameRest DEF Init, Calls!Init

(* The writer implements SafeStorage: each of its calls, however its file  *)
(* writes interleave with the readers, is one atomic call, up to a death   *)
(* in the middle of one.                                                   *)
THEOREM CallsImplemented == Spec => ImplementsCalls
<1>1. Init => TypeInv /\ Calling
  BY InitTypeInv, InitCalling
<1>2. TypeInv /\ Calling /\ [Next]_vars => (TypeInv /\ Calling)'
  BY NextTypeInv, NextCalling
<1>3. TypeInv /\ Calling /\ [Next]_vars
         => [Calls!Next \/ (~crashed /\ crashed' /\ pc # "idle")]_(Calls!vars)
  BY <1>2, StepMaps
<1> QED
  BY <1>1, <1>2, <1>3, InitMaps, PTL DEF Spec, ImplementsCalls
=============================================================================
