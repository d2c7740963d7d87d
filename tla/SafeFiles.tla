------------------------------ MODULE SafeFiles ------------------------------
(***************************************************************************)
(* CSafeStorage::writeFiles, the one routine through which every record    *)
(* reaches the four files of a storage, as an operator on a "store": the   *)
(* files together with the part of the CSafeStorage object that writeFiles *)
(* reads and changes.                                                      *)
(*                                                                         *)
(*   fdata   the data file, append only: record i is the one at offset i   *)
(*   findex  the index file: a two-slot register for every serial          *)
(*   flog    the log file: where in the data file each sequence is         *)
(*   fstate  the state file                                                *)
(*   state   the object's state, of which fstate is the last saved copy    *)
(*   dirty   the object's dirtySerials                                     *)
(*   auto    the object's fauto_commit                                     *)
(***************************************************************************)
EXTENDS SafeIndex, Sequences

CONSTANTS
    Serials,     \* serials (keys) of records
    NoSerial,    \* serial of a record that is not a WRITE
    Values,      \* payloads
    NoValue,     \* payload of a record that is not a WRITE, result of a miss
    StatusFreq   \* C_STORAGE_STATUS_FREQ

ASSUME SerialsAssumption == NoSerial \notin Serials
ASSUME ValuesAssumption == NoValue \notin Values
ASSUME StatusFreqAssumption == StatusFreq \in Nat \ {0, 1}

RecordTypes == {"WRITE", "COMMIT", "ROLLBACK_BEGIN", "ROLLBACK_END", "STATUS"}

DataReg == [type     : RecordTypes,
            serial   : Serials \cup {NoSerial},
            sequence : Int,
            auto     : BOOLEAN,
            val      : Values \cup {NoValue},
            serials  : Seq(Serials)]

LogReg == [offset : Int,
           serial : Serials \cup {NoSerial},
           type   : RecordTypes]

State == [count                : Int,
          data_count           : Int,
          commit_count         : Int,
          last_sequence        : Int,
          last_commit_sequence : Int]

(* A CSafeStorageDataReg that is not a WRITE carries neither serial nor    *)
(* payload, except for the list of serials of a ROLLBACK_BEGIN.            *)
MarkReg(type, seq, serials) ==
    [type |-> type, serial |-> NoSerial, sequence |-> seq, auto |-> FALSE,
     val |-> NoValue, serials |-> serials]

WriteReg(serial, seq, auto, val) ==
    [type |-> "WRITE", serial |-> serial, sequence |-> seq, auto |-> auto,
     val |-> val, serials |-> << >>]

ZeroState == [count |-> 0, data_count |-> 0, commit_count |-> 0,
              last_sequence |-> 0, last_commit_sequence |-> 0]

(***************************************************************************)
(* Writes to one file.  ok says whether the append to the data file        *)
(* succeeds; the results of the writes to the other files are ignored by   *)
(* the code.                                                               *)
(***************************************************************************)
WriteData(st, r, ok) ==
    IF ok THEN [st EXCEPT !.fdata = Append(@, r)] ELSE st

(* Mutant of DataOffset: the end of the file before the append.            *)
DataOffsetBefore(st, ok) == IF ok THEN Len(st.fdata) - 1 ELSE -1

(* Mutant of DataOffset: takes the data file to hold record q at offset q, *)
(* as it does for a storage that is not a replica.                         *)
DataOffsetBySequence(st, ok) == IF ok THEN st.state.last_sequence ELSE -1

(* What writeData returns, st being the store after it.                    *)
DataOffset(st, ok) == IF ok THEN Len(st.fdata) ELSE -1

(* Mutant of SaveState: the save is left out, as its fsync is in the code.  *)
SaveStateNever(st) == st

SaveState(st) == [st EXCEPT !.fstate = st.state]

(* Mutants of WriteLog: arguments in the wrong order; the entry before.    *)
WriteLogSwapped(st, seq, offset, serial, type) ==
    [st EXCEPT !.flog =
        [q \in DOMAIN @ \cup {seq} |->
            IF q = seq
            THEN [offset |-> offset, serial |-> type, type |-> serial]
            ELSE @[q]]]

WriteLogPrevious(st, seq, offset, serial, type) ==
    [st EXCEPT !.flog =
        [q \in DOMAIN @ \cup {seq - 1} |->
            IF q = seq - 1
            THEN [offset |-> offset, serial |-> serial, type |-> type]
            ELSE @[q]]]

WriteLog(st, seq, offset, serial, type) ==
    [st EXCEPT !.flog =
        [q \in DOMAIN @ \cup {seq} |->
            IF q = seq
            THEN [offset |-> offset, serial |-> serial, type |-> type]
            ELSE @[q]]]

WriteIndex(st, serial, ix) == [st EXCEPT !.findex[serial] = ix]

AddDirtySerial(st, serial) ==
    IF st.auto THEN st ELSE [st EXCEPT !.dirty = Append(@, serial)]

ClearDirtySerials(st) == [st EXCEPT !.dirty = << >>]

(***************************************************************************)
(* The index after a rollback.  The code walks the list of serials and     *)
(* overwrites the newest slot of each register with -1; a serial listed    *)
(* more than once loses both slots (a third visit finds nothing left).     *)
(***************************************************************************)
Listed(list, s) == \E i \in DOMAIN list : list[i] = s

ListedAgain(list, s) ==
    \E i, j \in DOMAIN list : i # j /\ list[i] = s /\ list[j] = s

UndoIndex(ix, list, s) ==
    IF ~Listed(list, s) THEN ix
    ELSE LET once == SetNewestOffset(ix, -1, FALSE)
         IN  IF ListedAgain(list, s)
             THEN SetNewestOffset(once, -1, FALSE) ELSE once

(***************************************************************************)
(* The cases of writeFiles.                                                *)
(***************************************************************************)
(* Mutant of ApplyWrite: marks the slot with the mode of the object, where *)
(* the record of another storage has that of its own.                      *)
ApplyWriteOwnMode(st, r, ok) ==
    LET w   == WriteData([st EXCEPT !.state.data_count = @ + 1], r, ok)
        off == DataOffset(w, ok)
        ix  == SetOldestOffset(st.findex[r.serial], off, r.sequence, st.auto,
                               st.findex[r.serial] = EmptyIndex)
        log == WriteLog(SaveState(AddDirtySerial(w, r.serial)),
                        r.sequence, off, r.serial, r.type)
    IN  IF ok THEN WriteIndex(log, r.serial, ix) ELSE w

ApplyWrite(st, r, ok) ==
    LET w   == WriteData([st EXCEPT !.state.data_count = @ + 1], r, ok)
        off == DataOffset(w, ok)
        ix  == SetOldestOffset(st.findex[r.serial], off, r.sequence, r.auto,
                               st.findex[r.serial] = EmptyIndex)
        log == WriteLog(SaveState(AddDirtySerial(w, r.serial)),
                        r.sequence, off, r.serial, r.type)
    IN  IF ok THEN WriteIndex(log, r.serial, ix) ELSE w

(* Mutant of ApplyRollbackBegin: the walk stops before the last serial.    *)
ApplyRollbackBeginShort(st, r, ok) ==
    LET log  == WriteLog(WriteData(st, r, ok), st.state.last_sequence,
                         0, r.serial, r.type)
        most == SubSeq(r.serials, 1, Len(r.serials) - 1)
    IN  [log EXCEPT !.findex =
            [s \in Serials |-> UndoIndex(@[s], most, s)]]

(* The log entry keeps the offset 0 its declaration gave it.               *)
ApplyRollbackBegin(st, r, ok) ==
    LET log == WriteLog(WriteData(st, r, ok), st.state.last_sequence,
                        0, r.serial, r.type)
    IN  [log EXCEPT !.findex =
            [s \in Serials |-> UndoIndex(@[s], r.serials, s)]]

ApplyRollbackEnd(st, r, ok) ==
    WriteLog(WriteData(st, r, ok), st.state.last_sequence,
             0, r.serial, r.type)

(* Mutant of ApplyCommit: takes the count of records for the sequence.     *)
ApplyCommitCounted(st, r, ok) ==
    LET w == WriteData(st, r, ok)
    IN  WriteLog([w EXCEPT !.state.commit_count = @ + 1,
                           !.state.last_commit_sequence = st.state.count],
                 st.state.last_sequence, DataOffset(w, ok), r.serial, r.type)

ApplyCommit(st, r, ok) ==
    LET w == WriteData(st, r, ok)
    IN  WriteLog([w EXCEPT !.state.commit_count = @ + 1,
                           !.state.last_commit_sequence = r.sequence],
                 st.state.last_sequence, DataOffset(w, ok), r.serial, r.type)

(* ++state.count, state.last_sequence = ...                                *)
CountRecord(st, seq) ==
    [st EXCEPT !.state.count = @ + 1, !.state.last_sequence = seq]

(* Every StatusFreq records a STATUS record follows and the state is saved. *)
StatusSnapshot(st, ok) ==
    IF st.state.count % StatusFreq # StatusFreq - 1 THEN st
    ELSE LET seq == st.state.last_sequence + 1
             w   == WriteData(CountRecord(st, seq),
                              MarkReg("STATUS", seq, << >>), ok)
         IN  SaveState(WriteLog(w, seq, DataOffset(w, ok), NoSerial, "STATUS"))

(* A failed WRITE returns before the status snapshot; a STATUS record that *)
(* is applied from elsewhere is counted and matches no case.               *)
WriteFiles(st, r, ok) ==
    LET c == CountRecord(st, r.sequence)
    IN  CASE r.type = "WRITE" /\ ~ok -> ApplyWrite(c, r, ok)
          [] r.type = "WRITE" /\ ok  -> StatusSnapshot(ApplyWrite(c, r, ok), ok)
          [] r.type = "ROLLBACK_BEGIN" ->
                 StatusSnapshot(ApplyRollbackBegin(c, r, ok), ok)
          [] r.type = "ROLLBACK_END" ->
                 StatusSnapshot(ApplyRollbackEnd(c, r, ok), ok)
          [] r.type = "COMMIT" -> StatusSnapshot(ApplyCommit(c, r, ok), ok)
          [] OTHER -> StatusSnapshot(c, ok)
=============================================================================
