---------------------------- MODULE SafeStorageIO ----------------------------
(***************************************************************************)
(* The writer of SafeStorage at the granularity of its writes to files,    *)
(* interleaved with committed reads in other processes and with the death  *)
(* of its process at any point.  A call of the writer is a walk through    *)
(* writeFiles: one action per write to a file, in the order of the code.   *)
(* A read is two steps: read() loads the state file, then the index; the   *)
(* data record it then fetches never changes once it is written, so the    *)
(* third read is left out and the result is the record's offset.           *)
(*                                                                         *)
(* A write of one record to a file is atomic for other processes (a torn   *)
(* one fails its CRC), and nothing but the process dies: no power failure. *)
(* Every append succeeds, a serial is written once per transaction, and    *)
(* the storage is closed between transactions; SafeStorage covers the rest.*)
(***************************************************************************)
EXTENDS SafeFiles

CONSTANTS
    Readers,     \* read-only handles in other processes
    Deaths,      \* {}, {"crash"}, or {"crash", "reopen"}: whether a writer may
                 \* die, and another one open the files after it
    MaxSequence  \* bound on the sequences and data records, as in SafeStorage

ASSUME DeathsAssumption == Deaths \subseteq {"crash", "reopen"}

VARIABLES
    fdata, findex, flog, fstate,                \* the files
    state, dirtySerials, fauto_commit, opened,  \* the writer's object
    crashed,    \* a writer has died
    pc,         \* the file write that the call in progress makes next
    cur,        \* the record it is writing (r_data)
    undo,       \* the serials whose registers a rollback has yet to undo
    rpc, rserial, rlcs, roffset,  \* of each reader: where it is, what it reads,
                                  \* the last commit it loaded, its result
    \* History: the files and object when the call in progress began; the
    \* version (offset) of each serial the writer works on, that is committed,
    \* and that the saved state makes visible; the versions of its serial that
    \* were visible at some moment of a read.
    before, work, committed, published, seen

files   == <<fdata, findex, flog, fstate>>
object  == <<state, dirtySerials, fauto_commit, opened>>
call    == <<pc, cur, undo>>
readers == <<rpc, rserial, rlcs, roffset>>
ghosts  == <<work, committed, published>>
vars    == <<files, object, crashed, call, readers, before, ghosts, seen>>

None == -1
Store == [fdata |-> fdata, findex |-> findex, flog |-> flog, fstate |-> fstate,
          state |-> state, dirty |-> dirtySerials, auto |-> fauto_commit,
          opened |-> opened]
NoRecord == MarkReg("STATUS", 0, << >>)

Init ==
    /\ fdata = << >>
    /\ findex = [s \in Serials |-> EmptyIndex]
    /\ flog = << >>
    /\ fstate = ZeroState
    /\ state = ZeroState
    /\ dirtySerials = << >>
    /\ fauto_commit \in BOOLEAN
    /\ opened = TRUE
    /\ crashed = FALSE
    /\ pc = "idle"
    /\ cur = NoRecord
    /\ undo = << >>
    /\ rpc = [r \in Readers |-> "idle"]
    /\ rserial = [r \in Readers |-> NoSerial]
    /\ rlcs = [r \in Readers |-> 0]
    /\ roffset = [r \in Readers |-> None]
    /\ before = Store
    /\ work = [s \in Serials |-> None]
    /\ committed = work
    /\ published = work
    /\ seen = [r \in Readers |-> {}]

InBound == state.last_sequence < MaxSequence /\ Len(fdata) < MaxSequence

(***************************************************************************)
(* Helpers of the writer's steps.                                          *)
(***************************************************************************)
Counted(seq) == [state EXCEPT !.count = @ + 1, !.last_sequence = seq]

(* writeFiles starts on record r.                                          *)
Start(r) == /\ cur' = r
            /\ state' = Counted(r.sequence)
            /\ undo' = r.serials
            /\ pc' = "data"

(* Mutant of EndRecord: a transaction ends with its serials still dirty.   *)
EndRecordDirty ==
    IF cur.type = "ROLLBACK_BEGIN"
    THEN /\ Start(MarkReg("ROLLBACK_END", state.last_sequence + 1, << >>))
         /\ UNCHANGED dirtySerials
    ELSE /\ pc' = "idle"
         /\ cur' = NoRecord
         /\ undo' = << >>
         /\ UNCHANGED <<dirtySerials, state>>

(* writeFiles returns: a rollback goes on with its second record, a commit *)
(* or a rollback ends by forgetting the dirty serials.                     *)
EndRecord ==
    IF cur.type = "ROLLBACK_BEGIN"
    THEN /\ Start(MarkReg("ROLLBACK_END", state.last_sequence + 1, << >>))
         /\ UNCHANGED dirtySerials
    ELSE /\ pc' = "idle"
         /\ cur' = NoRecord
         /\ undo' = << >>
         /\ dirtySerials' = IF cur.type = "WRITE" THEN dirtySerials ELSE << >>
         /\ UNCHANGED state

(* The record is in all its files: a status snapshot, if it is time.       *)
EndCase ==
    IF state.count % StatusFreq = StatusFreq - 1
    THEN /\ pc' = "statusData"
         /\ UNCHANGED <<cur, undo, dirtySerials, state>>
    ELSE EndRecord

(* Mutant of PutLog: the fields in the wrong order.                        *)
PutLogSwapped(seq, offset, type, serial) ==
    flog' = [q \in DOMAIN flog \cup {seq} |->
                IF q = seq
                THEN [offset |-> offset, serial |-> type, type |-> serial]
                ELSE flog[q]]

PutLog(seq, offset, type, serial) ==
    flog' = [q \in DOMAIN flog \cup {seq} |->
                IF q = seq
                THEN [offset |-> offset, serial |-> serial, type |-> type]
                ELSE flog[q]]

(* A reader that has loaded the state sees every version that becomes      *)
(* visible until it has read the index.                                    *)
Witness == seen' = [r \in Readers |->
                       IF rpc[r] = "index"
                       THEN seen[r] \cup {published'[rserial[r]]} ELSE seen[r]]

WriterOnly == /\ Witness
              /\ UNCHANGED <<readers, fauto_commit, opened, crashed, before>>

(***************************************************************************)
(* The calls.                                                              *)
(***************************************************************************)
Call(r) ==
    /\ opened
    /\ pc = "idle"
    /\ Start(r)
    /\ before' = Store
    /\ UNCHANGED <<files, dirtySerials, fauto_commit, opened, crashed,
                   readers, ghosts, seen>>

CallWrite(s, v) ==
    /\ InBound
    /\ ~Listed(dirtySerials, s)
    /\ Call(WriteReg(s, state.last_sequence + 1, fauto_commit, v))

CallCommit ==
    /\ InBound \/ dirtySerials # << >>
    /\ ~fauto_commit
    /\ Call(MarkReg("COMMIT", state.last_sequence + 1, << >>))

CallRollback ==
    /\ InBound \/ dirtySerials # << >>
    /\ ~fauto_commit
    /\ Call(MarkReg("ROLLBACK_BEGIN", state.last_sequence + 1, dirtySerials))

(***************************************************************************)
(* The file writes of a call.                                              *)
(***************************************************************************)
(* What the record does to the object, once it is in the data file.        *)
AfterData ==
    CASE cur.type = "WRITE" -> [state EXCEPT !.data_count = @ + 1]
      [] cur.type = "COMMIT" ->
            [state EXCEPT !.commit_count = @ + 1,
                          !.last_commit_sequence = cur.sequence]
      [] OTHER -> state

WriteDataStep ==
    /\ pc = "data"
    /\ fdata' = Append(fdata, cur)
    /\ state' = AfterData
    /\ dirtySerials' = IF cur.type = "WRITE" /\ ~fauto_commit
                       THEN Append(dirtySerials, cur.serial) ELSE dirtySerials
    /\ pc' = IF cur.type = "WRITE" THEN "state" ELSE "log"
    /\ work' = CASE cur.type = "WRITE" /\ ~fauto_commit ->
                        [work EXCEPT ![cur.serial] = Len(fdata')]
                 [] cur.type = "ROLLBACK_BEGIN" -> committed
                 [] OTHER -> work
    /\ committed' = IF cur.type = "COMMIT" THEN work ELSE committed
    /\ UNCHANGED <<findex, flog, fstate, cur, undo, published>>
    /\ WriterOnly

(* Mutant of SaveStateStep: the state is not saved before the index.       *)
SaveStateStepSkipped ==
    /\ pc = "state"
    /\ pc' = "log"
    /\ published' = committed
    /\ UNCHANGED <<files, state, dirtySerials, cur, undo, work, committed>>
    /\ WriterOnly

SaveStateStep ==
    /\ pc = "state"
    /\ fstate' = state
    /\ pc' = "log"
    /\ published' = committed
    /\ UNCHANGED <<fdata, findex, flog, state, dirtySerials, cur, undo, work,
                   committed>>
    /\ WriterOnly

WriteLogStep ==
    /\ pc = "log"
    /\ PutLog(state.last_sequence,
              IF cur.type \in {"WRITE", "COMMIT"} THEN Len(fdata) ELSE 0,
              cur.type, cur.serial)
    /\ CASE cur.type = "WRITE" ->
                pc' = "index" /\ UNCHANGED <<state, dirtySerials, cur, undo>>
         [] undo # << >> ->
                pc' = "undo" /\ UNCHANGED <<state, dirtySerials, cur, undo>>
         [] OTHER -> EndCase
    /\ UNCHANGED <<fdata, findex, fstate, ghosts>>
    /\ WriterOnly

WriteIndexStep ==
    /\ pc = "index"
    /\ findex' = [findex EXCEPT ![cur.serial] =
                     SetOldestOffset(@, Len(fdata), cur.sequence, cur.auto,
                                     @ = EmptyIndex)]
    /\ EndCase
    /\ IF cur.auto
       THEN /\ work' = [work EXCEPT ![cur.serial] = Len(fdata)]
            /\ committed' = [committed EXCEPT ![cur.serial] = Len(fdata)]
            /\ published' = [published EXCEPT ![cur.serial] = Len(fdata)]
       ELSE UNCHANGED ghosts
    /\ UNCHANGED <<fdata, flog, fstate>>
    /\ WriterOnly

(* Mutant of UndoIndexStep: only the first dirty serial is undone.         *)
UndoFirstStep ==
    /\ pc = "undo"
    /\ findex' = [findex EXCEPT ![Head(undo)] = SetNewestOffset(@, -1, FALSE)]
    /\ EndCase
    /\ UNCHANGED <<fdata, flog, fstate, ghosts>>
    /\ WriterOnly

UndoIndexStep ==
    /\ pc = "undo"
    /\ findex' = [findex EXCEPT ![Head(undo)] = SetNewestOffset(@, -1, FALSE)]
    /\ IF Len(undo) > 1
       THEN undo' = Tail(undo) /\ UNCHANGED <<pc, cur, state, dirtySerials>>
       ELSE EndCase
    /\ UNCHANGED <<fdata, flog, fstate, ghosts>>
    /\ WriterOnly

StatusDataStep ==
    /\ pc = "statusData"
    /\ state' = Counted(state.last_sequence + 1)
    /\ fdata' = Append(fdata, MarkReg("STATUS", state.last_sequence + 1, << >>))
    /\ pc' = "statusLog"
    /\ UNCHANGED <<findex, flog, fstate, dirtySerials, cur, undo, ghosts>>
    /\ WriterOnly

StatusLogStep ==
    /\ pc = "statusLog"
    /\ PutLog(state.last_sequence, Len(fdata), "STATUS", NoSerial)
    /\ pc' = "statusState"
    /\ UNCHANGED <<fdata, findex, fstate, state, dirtySerials, cur, undo, ghosts>>
    /\ WriterOnly

StatusStateStep ==
    /\ pc = "statusState"
    /\ fstate' = state
    /\ published' = committed
    /\ EndRecord
    /\ UNCHANGED <<fdata, findex, flog, work, committed>>
    /\ WriterOnly

(***************************************************************************)
(* Close, open, and the death of the process.                              *)
(***************************************************************************)
Close ==
    /\ opened
    /\ pc = "idle"
    /\ dirtySerials = << >>
    /\ fstate' = state
    /\ fauto_commit' = FALSE
    /\ opened' = FALSE
    /\ published' = committed
    /\ Witness
    /\ UNCHANGED <<fdata, findex, flog, state, dirtySerials, crashed, call,
                   readers, before, work, committed>>

Open(auto) ==
    /\ ~opened
    /\ crashed => "reopen" \in Deaths
    /\ state' = fstate
    /\ fauto_commit' = auto
    /\ opened' = TRUE
    /\ UNCHANGED <<files, dirtySerials, crashed, call, readers, before, ghosts,
                   seen>>

(* Work in progress is lost; the index keeps what the call had reached.    *)
Crash ==
    /\ "crash" \in Deaths
    /\ opened
    /\ ~crashed
    /\ crashed' = TRUE
    /\ opened' = FALSE
    /\ state' = ZeroState
    /\ dirtySerials' = << >>
    /\ fauto_commit' = FALSE
    /\ pc' = "idle"
    /\ cur' = NoRecord
    /\ undo' = << >>
    /\ UNCHANGED <<files, readers, before, ghosts, seen>>

(***************************************************************************)
(* A committed read through a read-only handle.                            *)
(***************************************************************************)
ReadState(r, s) ==
    /\ rpc[r] = "idle"
    /\ rpc' = [rpc EXCEPT ![r] = "index"]
    /\ rserial' = [rserial EXCEPT ![r] = s]
    /\ rlcs' = [rlcs EXCEPT ![r] = fstate.last_commit_sequence]
    /\ seen' = [seen EXCEPT ![r] = {published[s]}]
    /\ UNCHANGED <<files, object, crashed, call, roffset, before, ghosts>>

Found(offset) == IF offset <= 0 THEN None ELSE offset

(* Mutant of ReadIndex: a read-only handle reads as the writer does.       *)
ReadIndexDirty(r) ==
    /\ rpc[r] = "index"
    /\ rpc' = [rpc EXCEPT ![r] = "done"]
    /\ roffset' = [roffset EXCEPT ![r] =
                      Found(GetLastOffset(findex[rserial[r]], rlcs[r], TRUE))]
    /\ UNCHANGED <<files, object, crashed, call, rserial, rlcs, before, ghosts,
                   seen>>

ReadIndex(r) ==
    /\ rpc[r] = "index"
    /\ rpc' = [rpc EXCEPT ![r] = "done"]
    /\ roffset' = [roffset EXCEPT ![r] =
                      Found(GetLastOffset(findex[rserial[r]], rlcs[r], FALSE))]
    /\ UNCHANGED <<files, object, crashed, call, rserial, rlcs, before, ghosts,
                   seen>>

ReadReturn(r) ==
    /\ rpc[r] = "done"
    /\ rpc' = [rpc EXCEPT ![r] = "idle"]
    /\ rserial' = [rserial EXCEPT ![r] = NoSerial]
    /\ rlcs' = [rlcs EXCEPT ![r] = 0]
    /\ roffset' = [roffset EXCEPT ![r] = None]
    /\ seen' = [seen EXCEPT ![r] = {}]
    /\ UNCHANGED <<files, object, crashed, call, before, ghosts>>

FileStep ==
    \/ WriteDataStep \/ SaveStateStep \/ WriteLogStep
    \/ WriteIndexStep \/ UndoIndexStep
    \/ StatusDataStep \/ StatusLogStep \/ StatusStateStep

Next ==
    \/ \E s \in Serials, v \in Values : CallWrite(s, v)
    \/ CallCommit
    \/ CallRollback
    \/ FileStep
    \/ Close
    \/ \E auto \in BOOLEAN : Open(auto)
    \/ Crash
    \/ \E r \in Readers : \/ \E s \in Serials : ReadState(r, s)
                          \/ ReadIndex(r)
                          \/ ReadReturn(r)

Spec == Init /\ [][Next]_vars

(***************************************************************************)
(* Properties.                                                             *)
(***************************************************************************)

(* Type invariant.                                                         *)
TypeOK ==
    /\ fdata \in Seq(DataReg)
    /\ findex \in [Serials -> IndexReg]
    /\ flog \in [DOMAIN flog -> LogReg]
    /\ fstate \in State /\ state \in State
    /\ dirtySerials \in Seq(Serials) /\ undo \in Seq(Serials)
    /\ cur \in DataReg
    /\ pc \in {"idle", "data", "state", "log", "index", "undo",
               "statusData", "statusLog", "statusState"}
    /\ {fauto_commit, opened, crashed} \subseteq BOOLEAN
    /\ rpc \in [Readers -> {"idle", "index", "done"}]
    /\ rserial \in [Readers -> Serials \cup {NoSerial}]
    /\ rlcs \in [Readers -> Int] /\ roffset \in [Readers -> Int]
    /\ {work, committed, published} \subseteq [Serials -> Int]
    /\ seen \in [Readers -> SUBSET Int]

(* Between any two file writes of any call, and wherever the writer dies,  *)
(* the state file and the index show exactly the last transactions that    *)
(* the state file knows: no version of an unfinished transaction, and      *)
(* none of the published versions lost.                                    *)
PublishedIntact ==
    \A s \in Serials :
        Found(GetLastOffset(findex[s], fstate.last_commit_sequence, FALSE))
            = published[s]

(* Between calls the writer reads its own writes, and after a rollback     *)
(* what was committed before.                                              *)
WriterReadsWork ==
    opened /\ pc = "idle" =>
        \A s \in Serials :
            Found(GetLastOffset(findex[s], state.last_commit_sequence, TRUE))
                = work[s]

(* A read that races the writer returns a version that was visible at      *)
(* some moment of the read; it may miss the record instead only if another *)
(* commit was published after it loaded the state.                         *)
ReadOutcome ==
    \A r \in Readers :
        rpc[r] = "done" =>
            \/ roffset[r] \in seen[r]
            \/ /\ roffset[r] = None
               /\ fstate.last_commit_sequence > rlcs[r]

(* Each call of the writer, taken as a whole, is the atomic call of        *)
(* SafeStorage: until a call returns the storage still counts as what it   *)
(* was when the call began.  A death between two calls is the Crash of     *)
(* SafeStorage; one in the middle of a call is what it has no step for.    *)
Bar == IF pc = "idle" THEN Store ELSE before

Calls == INSTANCE SafeStorage
             WITH fdata <- Bar.fdata, findex <- Bar.findex, flog <- Bar.flog,
                  fstate <- Bar.fstate, state <- Bar.state,
                  dirtySerials <- Bar.dirty, fauto_commit <- Bar.auto,
                  opened <- Bar.opened, Allowed <- {"crash"}

ImplementsCalls ==
    /\ Calls!Init
    /\ [][Calls!Next \/ (~crashed /\ crashed' /\ pc # "idle")]_(Calls!vars)
=============================================================================
