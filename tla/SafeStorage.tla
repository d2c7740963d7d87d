----------------------------- MODULE SafeStorage -----------------------------
(***************************************************************************)
(* One CSafeStorage object that owns the four files of a storage as their  *)
(* only writer (opened with F_CSTORAGE_WR), at the granularity of its      *)
(* calls: write, commit, rollback, close, open, and the death of its       *)
(* process between two calls.  Readers in other processes keep no state    *)
(* between calls (read() reloads the state file), so they appear as the    *)
(* operators Published and Reads.                                          *)
(*                                                                         *)
(* The caller and the environment are as unruly as the constant Allowed    *)
(* says:                                                                   *)
(*   "rewrite"     a serial is written again inside one transaction        *)
(*   "dirtyClose"  the storage is closed inside a transaction              *)
(*   "crash"       the process dies between two calls                      *)
(*   "fault"       an append to the data file fails                        *)
(***************************************************************************)
EXTENDS SafeFiles, FiniteSets

CONSTANTS
    Allowed,     \* which of the above may happen
    MaxSequence  \* bound: no write is made, and no transaction without
                 \* writes is ended, once last_sequence or the number of
                 \* data records has reached it

ASSUME AllowedAssumption ==
    Allowed \subseteq {"rewrite", "dirtyClose", "crash", "fault"}
ASSUME MaxSequenceAssumption == MaxSequence \in Nat

VARIABLES
    fdata, findex, flog, fstate,  \* the files
    state,         \* the object's state
    dirtySerials,  \* serials written since the last commit or rollback
    fauto_commit,  \* opened with F_CSTORAGE_AUTO_COMMIT
    opened         \* the files are open

files == <<fdata, findex, flog, fstate>>
object == <<state, dirtySerials, fauto_commit, opened>>
vars == <<fdata, findex, flog, fstate, state, dirtySerials, fauto_commit, opened>>

Store == [fdata |-> fdata, findex |-> findex, flog |-> flog,
          fstate |-> fstate, state |-> state, dirty |-> dirtySerials,
          auto |-> fauto_commit]

(* The files and the object become those of the store st.                  *)
Becomes(st) ==
    /\ fdata' = st.fdata
    /\ findex' = st.findex
    /\ flog' = st.flog
    /\ fstate' = st.fstate
    /\ state' = st.state
    /\ dirtySerials' = st.dirty

(* Files just created (the hash records at offset 0 are left out) by an    *)
(* open with F_CSTORAGE_CREATE that is still in force.                     *)
Init ==
    /\ fdata = << >>
    /\ findex = [s \in Serials |-> EmptyIndex]
    /\ flog = << >>
    /\ fstate = ZeroState
    /\ state = ZeroState
    /\ dirtySerials = << >>
    /\ fauto_commit \in BOOLEAN
    /\ opened = TRUE

AppendOutcomes == IF "fault" \in Allowed THEN BOOLEAN ELSE {TRUE}

InBound == state.last_sequence < MaxSequence /\ Len(fdata) < MaxSequence

(* The bound stops writes and empty transactions; a transaction that is    *)
(* open can always be ended.                                               *)
InBoundOrDirty == InBound \/ dirtySerials # << >>

Dirty(s) == Listed(dirtySerials, s)

(***************************************************************************)
(* The calls.                                                              *)
(***************************************************************************)
Write(s, v, ok) ==
    /\ opened
    /\ InBound
    /\ Dirty(s) => "rewrite" \in Allowed
    /\ Becomes(WriteFiles(Store,
                          WriteReg(s, state.last_sequence + 1, fauto_commit, v),
                          ok))
    /\ UNCHANGED <<fauto_commit, opened>>

(* In auto-commit mode commit returns OK and does nothing.                 *)
Commit(ok) ==
    /\ opened
    /\ InBoundOrDirty
    /\ ~fauto_commit
    /\ Becomes(ClearDirtySerials(
           WriteFiles(Store,
                      MarkReg("COMMIT", state.last_sequence + 1, << >>), ok)))
    /\ UNCHANGED <<fauto_commit, opened>>

(* In auto-commit mode rollback returns an error and does nothing.  The    *)
(* ROLLBACK_BEGIN record carries the list of dirty serials.                *)
RollbackBegin(ok) ==
    WriteFiles(Store,
               MarkReg("ROLLBACK_BEGIN", state.last_sequence + 1, dirtySerials),
               ok)

(* Mutant of RollbackEnd: the sequence computed before the first record.   *)
RollbackEndStale(st, ok) ==
    WriteFiles(st, MarkReg("ROLLBACK_END", state.last_sequence + 1, << >>), ok)

RollbackEnd(st, ok) ==
    WriteFiles(st, MarkReg("ROLLBACK_END", st.state.last_sequence + 1, << >>),
               ok)

Rollback(ok1, ok2) ==
    /\ opened
    /\ InBoundOrDirty
    /\ ~fauto_commit
    /\ Becomes(ClearDirtySerials(RollbackEnd(RollbackBegin(ok1), ok2)))
    /\ UNCHANGED <<fauto_commit, opened>>

(* close() saves the state and forgets the dirty serials without rolling   *)
(* them back.                                                              *)
Close ==
    /\ opened
    /\ dirtySerials # << >> => "dirtyClose" \in Allowed
    /\ Becomes(ClearDirtySerials(SaveState(Store)))
    /\ fauto_commit' = FALSE
    /\ opened' = FALSE

(* open() of existing files.                                               *)
Open(auto) ==
    /\ ~opened
    /\ state' = fstate
    /\ fauto_commit' = auto
    /\ opened' = TRUE
    /\ UNCHANGED <<fdata, findex, flog, fstate, dirtySerials>>

(* The process dies between two calls: what was written to the files stays *)
(* (the page cache survives), the next object is a new one.                *)
Crash ==
    /\ "crash" \in Allowed
    /\ opened
    /\ state' = ZeroState
    /\ dirtySerials' = << >>
    /\ fauto_commit' = FALSE
    /\ opened' = FALSE
    /\ UNCHANGED files

Next ==
    \/ \E s \in Serials, v \in Values, ok \in AppendOutcomes : Write(s, v, ok)
    \/ \E ok \in AppendOutcomes : Commit(ok)
    \/ \E ok1, ok2 \in AppendOutcomes : Rollback(ok1, ok2)
    \/ Close
    \/ \E auto \in BOOLEAN : Open(auto)
    \/ Crash

Spec == Init /\ [][Next]_vars

(***************************************************************************)
(* Reading.                                                                *)
(***************************************************************************)
ValueAt(off) == IF off <= 0 THEN NoValue ELSE fdata[off].val

Reads(s, lcs, dirtyRead) == ValueAt(GetLastOffset(findex[s], lcs, dirtyRead))

(* A committed read in another process.                                    *)
Published(s) == Reads(s, fstate.last_commit_sequence, FALSE)

(* The state the object has, or will have once it is opened.               *)
LastCommit == IF opened THEN state.last_commit_sequence
                        ELSE fstate.last_commit_sequence

(* What a reader with the current state of the object sees.                *)
Committed(s) == Reads(s, LastCommit, FALSE)

(* What the writer itself reads, and what a dirty read returns.            *)
Work(s) == Reads(s, LastCommit, TRUE)

(***************************************************************************)
(* Properties.                                                             *)
(***************************************************************************)

(* Type invariant: the files hold records, registers and states of the     *)
(* declared structures, and the object a state and a list of serials.      *)
TypeOK ==
    /\ fdata \in Seq(DataReg)
    /\ findex \in [Serials -> IndexReg]
    /\ flog \in [DOMAIN flog -> LogReg]
    /\ DOMAIN flog \subseteq Int
    /\ fstate \in State
    /\ state \in State
    /\ dirtySerials \in Seq(Serials)
    /\ fauto_commit \in BOOLEAN
    /\ opened \in BOOLEAN

(* Every slot of the index that names an offset names the WRITE record of  *)
(* that serial, with the sequence and the auto-commit flag the slot        *)
(* repeats: read() decides on the copy and returns the record.             *)
IndexNamesRecord ==
    \A s \in Serials, i \in Slot :
        findex[s][i].offset > 0 =>
            /\ findex[s][i].offset \in DOMAIN fdata
            /\ LET r == fdata[findex[s][i].offset]
               IN  /\ r.type = "WRITE"
                   /\ r.serial = s
                   /\ r.sequence = findex[s][i].sequence
                   /\ r.auto = findex[s][i].auto

(* A log entry with an offset leads to the record of its sequence, with    *)
(* the type and the serial that readLogReg reports for it; the entries of  *)
(* rollbacks have offset 0 and lead nowhere.                               *)
LogNamesRecord ==
    \A q \in DOMAIN flog :
        flog[q].offset > 0 =>
            /\ flog[q].offset \in DOMAIN fdata
            /\ LET r == fdata[flog[q].offset]
               IN  /\ r.sequence = q
                   /\ r.type = flog[q].type
                   /\ r.serial = flog[q].serial

(* While a transaction is open the saved state already carries every       *)
(* commit before it: writeFiles saves the state before it touches the      *)
(* index, so that readers in other processes never need the slot that an   *)
(* open transaction has overwritten.                                       *)
OpenTransactionPublished ==
    opened /\ dirtySerials # << >> =>
        fstate.last_commit_sequence = state.last_commit_sequence

(* Replication walks the storage by sequence, a rebuild by position, and   *)
(* they must meet the same records.  The sequences of the data file have   *)
(* no gaps and do not repeat, except that a session after a crash may give *)
(* some out again, never within a call; the log has an entry for exactly   *)
(* these sequences, and it is that of the last record with its sequence.   *)
LogEnumeratesData ==
    /\ DOMAIN flog = {fdata[i].sequence : i \in DOMAIN fdata}
    /\ \A i \in DOMAIN fdata :
          LET q        == fdata[i].sequence
              previous == IF i = 1 THEN 0 ELSE fdata[i - 1].sequence
          IN  /\ q = previous + 1 \/ ("crash" \in Allowed /\ q <= previous)
              /\ fdata[i].type \in {"ROLLBACK_END", "STATUS"} => q = previous + 1
              /\ (\A j \in DOMAIN fdata : fdata[j].sequence = q => j <= i) =>
                     /\ flog[q].type = fdata[i].type
                     /\ flog[q].offset \in {0, i}
    /\ opened /\ state.last_sequence > 0 => state.last_sequence \in DOMAIN flog

(***************************************************************************)
(* What a replay of the data file makes of the index: the register changes *)
(* of writeFiles, applied to the records in file order from empty          *)
(* registers, as rebuild() does.                                           *)
(***************************************************************************)
ReplayRecord(ix, r, off) ==
    CASE r.type = "WRITE" ->
            [ix EXCEPT ![r.serial] =
                SetOldestOffset(@, off, r.sequence, r.auto, @ = EmptyIndex)]
      [] r.type = "ROLLBACK_BEGIN" ->
            [s \in Serials |-> UndoIndex(ix[s], r.serials, s)]
      [] OTHER -> ix

ReplayIndex(fd) ==
    LET upto[n \in 0 .. Len(fd)] ==
            IF n = 0 THEN [s \in Serials |-> EmptyIndex]
            ELSE ReplayRecord(upto[n - 1], fd[n], n)
    IN  upto[Len(fd)]

(***************************************************************************)
(* The counters that verify() recalculates from the data file, in its      *)
(* loop.  The loop never runs, as the test of record 0 before it fails,    *)
(* and would not get past the first record, as it reads for records of     *)
(* fixed size: these are the counters it is meant to find.                 *)
(***************************************************************************)
RecordsOf(fd, type) == {i \in DOMAIN fd : fd[i].type = type}

LastSequence(fd, offs) ==
    IF offs = {} THEN 0 ELSE fd[CHOOSE i \in offs : \A j \in offs : j <= i].sequence

Recalculated(fd) ==
    [count                |-> Len(fd),
     data_count           |-> Cardinality(RecordsOf(fd, "WRITE")),
     commit_count         |-> Cardinality(RecordsOf(fd, "COMMIT")),
     last_sequence        |-> LastSequence(fd, DOMAIN fd),
     last_commit_sequence |-> LastSequence(fd, RecordsOf(fd, "COMMIT"))]

(* The data file is the master of the storage: it alone determines the     *)
(* index, which is the promise behind rebuild(), and the counters of the   *)
(* state are those verify() recalculates from it or, after a death, behind *)
(* them but never ahead, and never behind by a WRITE; whatever the caller  *)
(* did and however often the process died between calls.                   *)
DataIsMaster ==
    LET known == IF opened THEN state ELSE fstate
    IN  /\ findex = ReplayIndex(fdata)
        /\ \A field \in DOMAIN known : known[field] <= Recalculated(fdata)[field]
        /\ known.data_count = Recalculated(fdata).data_count

(* The saved state is never a whole status period behind the object's:     *)
(* this is what the STATUS snapshot is for, as commits and rollbacks do    *)
(* not save the state.                                                     *)
SavedStateLag == opened => state.count - fstate.count < StatusFreq - 1

(* The storage implements the transactional store: writes become visible   *)
(* to committed readers all at once when their transaction commits, and a  *)
(* rollback returns the writer to the last commit.                         *)
Abstract == INSTANCE TxStore
                WITH committed <- [s \in Serials |-> Committed(s)],
                     work      <- [s \in Serials |-> Work(s)],
                     published <- [s \in Serials |-> Published(s)]

ImplementsTxStore == Abstract!TSpec

(* The version of s that the data file says is committed: the last one     *)
(* written in auto-commit mode, or followed by a COMMIT with no rollback   *)
(* before it.                                                              *)
CommittedVersions(s) ==
    {i \in DOMAIN fdata :
        /\ fdata[i].type = "WRITE" /\ fdata[i].serial = s
        /\ \/ fdata[i].auto
           \/ \E j \in DOMAIN fdata :
                 /\ j > i /\ fdata[j].type = "COMMIT"
                 /\ \A k \in i .. j : fdata[k].type # "ROLLBACK_BEGIN"}

CommittedInData(s) ==
    IF CommittedVersions(s) = {} THEN NoValue
    ELSE LET last == CHOOSE i \in CommittedVersions(s) :
                        \A j \in CommittedVersions(s) : j <= i
         IN  fdata[last].val

(* A rollback undoes all writes made since the last commit or rollback     *)
(* (comment of CSafeStorage::rollback, test 8.3 of safe_test.cpp): what    *)
(* was committed is there again.                                           *)
RollbackRestores ==
    [][\A ok1, ok2 \in BOOLEAN : Rollback(ok1, ok2) =>
          \A s \in Serials : Work(s)' = CommittedInData(s)]_vars
=============================================================================
