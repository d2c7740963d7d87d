---------------------------- MODULE SafeLifecycle ----------------------------
(***************************************************************************)
(* How the four files of a storage come into being, are opened, closed,    *)
(* rebuilt and lost (CSafeStorage::open, create, close, rebuild,           *)
(* writeHashKey, checkHashKey), by several processes with one CSafeStorage *)
(* object each.  create and rebuild take one file at a time, and the       *)
(* process may die between any two.                                        *)
(*                                                                         *)
(* Of the contents of a file the life cycle sees the hash record at its    *)
(* top and how far it goes: n is the number of records of the data file,   *)
(* the sequence up to which the index or the log has its entries, and the  *)
(* last sequence in the state file.  Of the sequences in the data file it  *)
(* sees that of the last record, which a rebuild goes by.                  *)
(***************************************************************************)
EXTENDS Naturals, Sequences, TLC

CONSTANTS
    Procs,       \* processes, each with one object
    Writer,      \* the one of them that creates, writes and rebuilds
    Keys,        \* hash keys that generateHashKey or a caller comes up with
    NoHash,      \* what an empty file has for a hash record
    Flags,       \* the flags that callers open with
    Allowed,     \* liberties: "crash", "lose", "foreign", "reuse"
    MaxRecords   \* bound on the records of a file and on the sequences

ASSUME WriterAssumption == Writer \in Procs
ASSUME FlagsAssumption == Flags \subseteq {"read", "write", "create", "create_only"}
ASSUME MaxRecordsAssumption == MaxRecords \in Nat
ASSUME AllowedAssumption == Allowed \subseteq {"crash", "lose", "foreign", "reuse"}

(* The key of a zeroed structure.  Keys that are drawn or given are not 0. *)
ZeroKey == 0
ASSUME KeysAssumption == ZeroKey \notin Keys /\ NoHash \notin Keys \cup {ZeroKey}

VARIABLES
    disk,   \* the files
    obj,    \* the object of each process
    job,    \* what is left of a create or rebuild in progress
    caller, \* what the last open or rebuild told the caller
    tip     \* sequences in the data file: of the last record, and (history)
            \* of the last WRITE whose call returned

vars == <<disk, obj, job, caller, tip>>

Symmetry == Permutations(Procs \ {Writer}) \cup Permutations(Keys)

File == {"data", "index", "log", "state"}

(* "create" is F_CSTORAGE_WR with F_CSTORAGE_CREATE.                       *)
IsWr(fl) == fl \in {"write", "create"}
IsCreate(fl) == fl \in {"create", "create_only"}

Content == [there : BOOLEAN, hash : Keys \cup {ZeroKey, NoHash}, n : 0 .. MaxRecords]

Absent == [there |-> FALSE, hash |-> NoHash, n |-> 0]
Empty == [there |-> TRUE, hash |-> NoHash, n |-> 0]

Object == [fd   : [File -> {"closed", "ro", "rw"}],
           rdwr : BOOLEAN,
           mode : {"standard", "rebuild"},
           key  : Keys \cup {ZeroKey},
           last_sequence : 0 .. MaxRecords]

NewObject == [fd |-> [f \in File |-> "closed"], rdwr |-> FALSE,
              mode |-> "standard", key |-> ZeroKey, last_sequence |-> 0]

Step == [do : {"open", "key", "hash", "replay", "finish"}, file : File]
Do(what, f) == [do |-> what, file |-> f]

NoTip == [record |-> 0, write |-> 0]

NoJob == [flags |-> "read", key |-> ZeroKey, steps |-> << >>]

Init ==
    /\ disk = [f \in File |-> Absent]
    /\ obj = [p \in Procs |-> NewObject]
    /\ job = [p \in Procs |-> NoJob]
    /\ caller = [p \in Procs |-> "new"]
    /\ tip = NoTip

Idle(p) == job[p].steps = << >>
Holds(p, f) == obj[p].fd[f] # "closed"
NobodyHolds == \A p \in Procs : Idle(p) /\ \A f \in File : ~Holds(p, f)

(* Only one process writes, which the library leaves to its users.  A      *)
(* disciplined caller opens a new object each time, as CSafeProxy does for *)
(* him.                                                                    *)
MayOpen(p, fl) ==
    /\ Idle(p)
    /\ caller[p] = "new" \/ "reuse" \in Allowed
    /\ IsWr(fl) \/ IsCreate(fl) => p = Writer

-----------------------------------------------------------------------------
(* The state in the object and in its file.                                *)

(* Mutant of Saved: looks neither at the mode nor at rdwr.                 *)
SavedAnyway(o, d) ==
    IF o.fd["state"] = "rw"
    THEN [d EXCEPT !["state"] = [there |-> TRUE, hash |-> o.key, n |-> o.last_sequence]]
    ELSE d

(* saveState: the write fails unless the file is open for it.              *)
Saved(o, d) ==
    IF o.mode = "standard" /\ o.rdwr /\ o.fd["state"] = "rw"
    THEN [d EXCEPT !["state"] = [there |-> TRUE, hash |-> o.key, n |-> o.last_sequence]]
    ELSE d

(* loadState ignores that the read failed: the object keeps what it had.   *)
Loaded(o, d) ==
    IF o.fd["state"] # "closed" /\ d["state"].hash # NoHash
    THEN [o EXCEPT !.key = d["state"].hash, !.last_sequence = d["state"].n]
    ELSE o

Closed(o) == [o EXCEPT !.fd = [f \in File |-> "closed"]]

Missing == {f \in File : ~disk[f].there}

(* What is in the structure after a read of record 0: the read of a file   *)
(* without one leaves what the read before it left.                        *)
ReadHash(f, before) == IF disk[f].hash = NoHash THEN before ELSE disk[f].hash

(* Mutant of HashesAgree: the index is not looked at.                      *)
HashesAgreeLog(o) ==
    LET inData == ReadHash("data", ZeroKey)
    IN  ReadHash("log", inData) = inData /\ Loaded(o, disk).key = inData

(* checkHashKey returns E_CSTORAGE_OK.                                     *)
HashesAgree(o) ==
    LET inData  == ReadHash("data", ZeroKey)
        inLog   == ReadHash("log", inData)
        inIndex == ReadHash("index", inLog)
    IN  inLog = inData /\ inIndex = inData /\ Loaded(o, disk).key = inData

-----------------------------------------------------------------------------
(* open                                                                    *)

FdMode(fl) == IF IsWr(fl) \/ IsCreate(fl) THEN "rw" ELSE "ro"

(* Some file is missing and the others are in the way of a create.  What   *)
(* the object had open stays open.                                         *)
OpenRefused(p, fl) ==
    /\ MayOpen(p, fl)
    /\ Missing # {}
    /\ ~(Missing = File /\ IsCreate(fl))
    /\ obj' = [obj EXCEPT ![p].rdwr = IsWr(fl)]
    /\ caller' = [caller EXCEPT ![p] = "failed"]
    /\ UNCHANGED <<disk, job, tip>>

OpenFiles(o, fl) ==
    [o EXCEPT !.rdwr = IsWr(fl), !.fd = [f \in File |-> FdMode(fl)]]

OpenExisting(p, fl) ==
    /\ MayOpen(p, fl)
    /\ Missing = {}
    /\ LET o == Loaded(OpenFiles(obj[p], fl), disk)
       IN  /\ HashesAgree(o)
           /\ obj' = [obj EXCEPT ![p] = o]
    /\ caller' = [caller EXCEPT ![p] = "open"]
    /\ UNCHANGED <<disk, job, tip>>

(* The files belong to different storages: close() in the handler.         *)
OpenMismatch(p, fl) ==
    /\ MayOpen(p, fl)
    /\ Missing = {}
    /\ LET o == Loaded(OpenFiles(obj[p], fl), disk)
       IN  /\ ~HashesAgree(o)
           /\ disk' = Saved(o, disk)
           /\ obj' = [obj EXCEPT ![p] = Closed(o)]
    /\ caller' = [caller EXCEPT ![p] = "failed"]
    /\ UNCHANGED <<job, tip>>

-----------------------------------------------------------------------------
(* create and rebuild                                                      *)

OpenSteps == << Do("open", "data"), Do("open", "index"),
                Do("open", "log"), Do("open", "state"), Do("key", "data") >>

(* writeHashKey.                                                           *)
HashSteps == << Do("hash", "log"), Do("hash", "index"), Do("hash", "state") >>

CreateSteps(mode) ==
    IF mode = "standard"
    THEN OpenSteps \o << Do("hash", "data") >> \o HashSteps
    ELSE OpenSteps \o HashSteps

(* Mutant of OpenCreate: does not ask whether a file is there.             *)
OpenCreateOver(p, fl, key) ==
    /\ MayOpen(p, fl)
    /\ IsCreate(fl)
    /\ obj' = [obj EXCEPT ![p].rdwr = IsWr(fl)]
    /\ job' = [job EXCEPT ![p] =
                   [flags |-> fl, key |-> key, steps |-> CreateSteps(obj[p].mode)]]
    /\ caller' = [caller EXCEPT ![p] = "busy"]
    /\ UNCHANGED <<disk, tip>>

(* All files are missing: open goes on in create, with a key drawn or      *)
(* given.  The state of the object is what it was.                         *)
OpenCreate(p, fl, key) ==
    /\ MayOpen(p, fl)
    /\ Missing = File /\ IsCreate(fl)
    /\ obj' = [obj EXCEPT ![p].rdwr = IsWr(fl)]
    /\ job' = [job EXCEPT ![p] =
                   [flags |-> fl, key |-> key, steps |-> CreateSteps(obj[p].mode)]]
    /\ caller' = [caller EXCEPT ![p] = "busy"]
    /\ UNCHANGED <<disk, tip>>

(* rebuild does not touch rdwr.                                            *)
Rebuild(p, fl) ==
    /\ MayOpen(p, fl) /\ p = Writer
    /\ obj' = [obj EXCEPT ![p].mode = "rebuild"]
    /\ job' = [job EXCEPT ![p] =
                   [flags |-> fl, key |-> ZeroKey,
                    steps |-> CreateSteps("rebuild") \o
                              << Do("replay", "data"), Do("finish", "state") >>]]
    /\ caller' = [caller EXCEPT ![p] = "busy"]
    /\ UNCHANGED <<disk, tip>>

AtStep(p, what) == ~Idle(p) /\ Head(job[p].steps).do = what

StepDone(p) ==
    /\ job' = [job EXCEPT ![p] =
                   IF Len(job[p].steps) = 1 THEN NoJob
                   ELSE [job[p] EXCEPT !.steps = Tail(job[p].steps)]]
    /\ caller' = [caller EXCEPT ![p] =
                      IF Len(job[p].steps) = 1 THEN "open" ELSE @]

(* Mutant of KeepsData: a rebuild truncates the data file too.             *)
KeepsNothing(p, f) == FALSE

KeepsData(p, f) == f = "data" /\ obj[p].mode = "rebuild"

(* create opens with F_CSFILE_TRUNCATE, a rebuild the data file with the   *)
(* caller's flags alone and without exceptions.                            *)
OpenStep(p) ==
    /\ AtStep(p, "open")
    /\ LET f     == Head(job[p].steps).file
           fl    == job[p].flags
           fails == ~disk[f].there /\ ~IsCreate(fl)
       IN  IF KeepsData(p, f)
           THEN /\ obj' = [obj EXCEPT ![p].fd[f] =
                               IF fails THEN "closed" ELSE FdMode(fl)]
                /\ disk' = IF fails THEN disk ELSE [disk EXCEPT ![f].there = TRUE]
                /\ UNCHANGED tip
           ELSE /\ obj' = [obj EXCEPT ![p].fd[f] = "rw"]
                /\ disk' = [disk EXCEPT ![f] = Empty]
                /\ tip' = IF f = "data" THEN NoTip ELSE tip
    /\ StepDone(p)

(* Mutant of KeyStep: takes what the failed read left.                     *)
KeyStepRaw(p) ==
    /\ AtStep(p, "key")
    /\ job' = [job EXCEPT ![p].steps = Tail(@),
                          ![p].key = IF obj[p].mode = "rebuild"
                                     THEN disk["data"].hash ELSE @]
    /\ UNCHANGED <<disk, obj, caller, tip>>

(* getHashKey in a rebuild, which keeps its default when the read fails.   *)
KeyStep(p) ==
    /\ AtStep(p, "key")
    /\ LET inData == IF Holds(p, "data") THEN ReadHash("data", ZeroKey) ELSE ZeroKey
       IN  job' = [job EXCEPT ![p].steps = Tail(@),
                              ![p].key = IF obj[p].mode = "rebuild" THEN inData ELSE @]
    /\ UNCHANGED <<disk, obj, caller, tip>>

HashStep(p) ==
    /\ AtStep(p, "hash")
    /\ LET f == Head(job[p].steps).file
           o == [obj[p] EXCEPT !.key = job[p].key]
       IN  IF f = "state"
           THEN obj' = [obj EXCEPT ![p] = o] /\ disk' = Saved(o, disk)
           ELSE disk' = [disk EXCEPT ![f].hash = job[p].key] /\ UNCHANGED obj
    /\ StepDone(p)
    /\ UNCHANGED tip

(* The records of the data file go through writeFiles, which fills log and *)
(* index, takes over the sequence of each and, should the count call for   *)
(* it after the last one, goes one further for a STATUS record.            *)
ReplayStep(p) ==
    /\ AtStep(p, "replay")
    /\ Holds(p, "data") /\ disk["data"].hash # NoHash
    /\ IF disk["data"].n = 0 THEN UNCHANGED <<disk, obj>>
       ELSE \E status \in {0, 1} :
               /\ tip.record + status <= MaxRecords
               /\ disk' = [disk EXCEPT !["index"].n = tip.record,
                                       !["log"].n = tip.record + status]
               /\ obj' = [obj EXCEPT ![p].last_sequence = tip.record + status]
    /\ StepDone(p)
    /\ UNCHANGED tip

(* Record 0 cannot be read: rebuild returns, in rebuild mode.              *)
ReplayFails(p) ==
    /\ AtStep(p, "replay")
    /\ ~Holds(p, "data") \/ disk["data"].hash = NoHash
    /\ job' = [job EXCEPT ![p] = NoJob]
    /\ caller' = [caller EXCEPT ![p] = "failed"]
    /\ UNCHANGED <<disk, obj, tip>>

(* rebuild returns what the read that ended its loop did, never a positive *)
(* number, and its files are open: its callers go on with it as after an   *)
(* open.                                                                   *)
FinishStep(p) ==
    /\ AtStep(p, "finish")
    /\ LET o == [obj[p] EXCEPT !.mode = "standard"]
       IN  obj' = [obj EXCEPT ![p] = o] /\ disk' = Saved(o, disk)
    /\ StepDone(p)
    /\ UNCHANGED tip

-----------------------------------------------------------------------------
(* write, commit and rollback: records that go through writeFiles, as      *)
(* changes of the object o, the files d and the tip t of the data file.    *)

Now(p) == [o |-> obj[p], d |-> disk, t |-> tip]

(* writeData; in rebuild mode it succeeds and leaves the data file alone.  *)
Appends(o) == o.mode = "standard" /\ o.fd["data"] = "rw"
AppendFails(o) == o.mode = "standard" /\ o.fd["data"] # "rw"

(* state.last_sequence, ahead of the data file if writeData fails.         *)
Added(st) ==
    LET seq == st.o.last_sequence + 1
        o   == [st.o EXCEPT !.last_sequence = seq]
    IN  IF Appends(st.o)
        THEN [o |-> o, d |-> [st.d EXCEPT !["data"].n = @ + 1],
              t |-> [st.t EXCEPT !.record = seq]]
        ELSE [st EXCEPT !.o = o]

(* An entry in the index or the log for the last sequence.                 *)
Entered(f, st) ==
    IF st.o.fd[f] = "rw" THEN [st EXCEPT !.d[f].n = st.o.last_sequence] ELSE st

StateSaved(st) == [st EXCEPT !.d = Saved(st.o, st.d)]

(* The call returns.                                                       *)
Returned(st) ==
    IF Appends(st.o) THEN [st EXCEPT !.t.write = st.o.last_sequence] ELSE st

(* Mutant of WriteRecord: the state is left to the next close.             *)
WriteRecordUnsaved(st) == Entered("index", Entered("log", Added(st)))

(* A WRITE.                                                                *)
WriteRecord(st) == Entered("index", Entered("log", StateSaved(Added(st))))

(* A COMMIT, or one of the two records of a rollback: the state is not     *)
(* saved.                                                                  *)
MarkRecord(st) == Entered("log", Added(st))

(* The STATUS record that follows some of the records.                     *)
StatusAfter(st, status) ==
    IF status THEN StateSaved(Entered("log", Added(st))) ELSE st

(* A call on the storage of p makes st of it.                              *)
Becomes(p, st) ==
    /\ Idle(p)
    /\ caller[p] = "open" \/ "reuse" \in Allowed
    /\ st.o.last_sequence <= MaxRecords /\ st.d["data"].n <= MaxRecords
    /\ obj' = [obj EXCEPT ![p] = st.o]
    /\ disk' = st.d
    /\ tip' = st.t
    /\ UNCHANGED <<job, caller>>

Write(p) ==
    IF AppendFails(obj[p]) THEN Becomes(p, Added(Now(p)))
    ELSE \E status \in BOOLEAN :
            Becomes(p, StatusAfter(Returned(WriteRecord(Now(p))), status))

Commit(p) ==
    \E status \in BOOLEAN : Becomes(p, StatusAfter(MarkRecord(Now(p)), status))

Rollback(p) ==
    \E status1, status2 \in BOOLEAN :
       LET begin == StatusAfter(MarkRecord(Now(p)), status1)
       IN  Becomes(p, StatusAfter(MarkRecord(begin), status2))

(* The process dies inside one of these calls: after writeData, after a    *)
(* WRITE has saved the state, or before it has written the index.          *)
DiesWriting(p) ==
    /\ "crash" \in Allowed
    /\ Idle(p) /\ caller[p] = "open" /\ Appends(obj[p])
    /\ LET added == Added(Now(p))
           saved == StateSaved(added)
       IN  /\ added.o.last_sequence <= MaxRecords
           /\ added.d["data"].n <= MaxRecords
           /\ disk' \in {added.d, saved.d, Entered("log", saved).d}
           /\ tip' = added.t
    /\ obj' = [obj EXCEPT ![p] = NewObject]
    /\ caller' = [caller EXCEPT ![p] = "new"]
    /\ UNCHANGED job

-----------------------------------------------------------------------------
(* The other calls on the object, and its end.                             *)

(* read and readLog of an object that is not for writing load the state.   *)
Read(p) ==
    /\ Idle(p) /\ caller[p] = "open" /\ ~obj[p].rdwr
    /\ obj' = [obj EXCEPT ![p] = Loaded(obj[p], disk)]
    /\ UNCHANGED <<disk, job, caller, tip>>

Close(p) ==
    /\ Idle(p)
    /\ disk' = Saved(obj[p], disk)
    /\ obj' = [obj EXCEPT ![p] = Closed(obj[p])]
    /\ caller' = [caller EXCEPT ![p] = "closed"]
    /\ UNCHANGED <<job, tip>>

(* The destructor closes; the next object is a new one.  CSafeProxy closes *)
(* and deletes, whether its open succeeded or not.                         *)
Delete(p) ==
    /\ Idle(p)
    /\ disk' = Saved(obj[p], disk)
    /\ obj' = [obj EXCEPT ![p] = NewObject]
    /\ caller' = [caller EXCEPT ![p] = "new"]
    /\ UNCHANGED <<job, tip>>

(* The process dies, inside a create or rebuild or outside.                *)
Crash(p) ==
    /\ "crash" \in Allowed
    /\ obj' = [obj EXCEPT ![p] = NewObject]
    /\ job' = [job EXCEPT ![p] = NoJob]
    /\ caller' = [caller EXCEPT ![p] = "new"]
    /\ UNCHANGED <<disk, tip>>

RemoveFiles ==
    /\ "lose" \in Allowed /\ NobodyHolds
    /\ disk' = [f \in File |-> Absent]
    /\ tip' = NoTip
    /\ UNCHANGED <<obj, job, caller>>

(* Someone loses a file, or puts that of another storage in its place, one *)
(* with more records than this one has by now.                             *)
Lose(f) ==
    /\ "lose" \in Allowed /\ NobodyHolds
    /\ disk' = [disk EXCEPT ![f] = Absent]
    /\ tip' = IF f = "data" THEN NoTip ELSE tip
    /\ UNCHANGED <<obj, job, caller>>

Foreign(f, key) ==
    /\ "foreign" \in Allowed /\ NobodyHolds
    /\ \A g \in File : disk[g].hash # key
    /\ disk' = [disk EXCEPT ![f] = [there |-> TRUE, hash |-> key, n |-> MaxRecords]]
    /\ tip' = IF f = "data" THEN [record |-> MaxRecords, write |-> MaxRecords]
              ELSE tip
    /\ UNCHANGED <<obj, job, caller>>

Call(p) ==
    \/ \E fl \in Flags : \/ OpenRefused(p, fl)
                         \/ OpenExisting(p, fl)
                         \/ OpenMismatch(p, fl)
                         \/ Rebuild(p, fl)
                         \/ \E key \in Keys : OpenCreate(p, fl, key)
    \/ Write(p)
    \/ Commit(p)
    \/ Rollback(p)
    \/ Read(p)
    \/ Close(p)
    \/ Delete(p)

Work(p) ==
    \/ OpenStep(p)
    \/ KeyStep(p)
    \/ HashStep(p)
    \/ ReplayStep(p)
    \/ ReplayFails(p)
    \/ FinishStep(p)

Next ==
    \/ \E p \in Procs : Call(p) \/ Work(p) \/ Crash(p) \/ DiesWriting(p)
    \/ RemoveFiles
    \/ \E f \in File : Lose(f)
    \/ \E f \in File, key \in Keys : Foreign(f, key)

Spec == Init /\ [][Next]_vars

-----------------------------------------------------------------------------
(* The types of the state.                                                 *)
TypeOK ==
    /\ disk \in [File -> Content]
    /\ obj \in [Procs -> Object]
    /\ \A p \in Procs :
           /\ job[p].flags \in Flags \cup {"read"}
           /\ job[p].key \in Keys \cup {ZeroKey}
           /\ job[p].steps \in Seq(Step)
    /\ caller \in [Procs -> {"new", "busy", "open", "failed", "closed"}]
    /\ tip \in [record : 0 .. MaxRecords, write : 0 .. MaxRecords]

Opens(p) == caller[p] # "open" /\ caller'[p] = "open"

(* An open that succeeds finds an index and a log that know every WRITE    *)
(* whose call returned if they have their hash record, however creates and *)
(* rebuilds died before and whatever files were lost or exchanged: a       *)
(* rebuild writes it before it fills them, and the state file, empty until *)
(* its end, keeps everybody out meanwhile.                                 *)
OpensWhole ==
    [][\A p \in Procs, f \in {"index", "log"} :
           Opens(p) /\ disk'["data"].hash # NoHash /\ disk'[f].hash # NoHash =>
               disk'[f].n >= tip'.write]_vars

(* A writer never gives out the sequence of a WRITE that returned: neither *)
(* after a death, though commits and rollbacks do not save the state and a *)
(* write may die before it does, nor after a rebuild, which goes by the    *)
(* last record, nor with the state of another storage.  (A data file       *)
(* without hash record can be taken for another's.)                        *)
WrittenSequenceKept ==
    \A p \in Procs :
        /\ Idle(p) /\ caller[p] = "open"
        /\ obj[p].fd["data"] = "rw" /\ disk["data"].hash # NoHash
        => obj[p].last_sequence >= tip.write

(* All hash records are there and the same.                                *)
Linked == \E key \in Keys : \A f \in File : disk[f].hash = key

(* A step of those who remove, lose and exchange files.                    *)
ByOthers == UNCHANGED <<obj, job, caller>>

(* A storage whose files are linked stays linked, and its data stays,      *)
(* through every call but rebuild: opens that fail, opens of readers,      *)
(* closes with an old state in the object.                                 *)
StaysLinked ==
    [][Linked /\ ~Linked' =>
           \/ ByOthers
           \/ \E p \in Procs : ~Idle(p) /\ obj[p].mode = "rebuild"]_vars

(* No call takes a record from the data file, not even a rebuild that      *)
(* dies; only whoever removes or exchanges the file does.                  *)
DataKept ==
    [][disk'["data"].n < disk["data"].n => ByOthers]_vars

(* Whoever has the storage open found the index and the log of the same    *)
(* storage as the data, or empty ones, and nobody exchanges them under     *)
(* him.                                                                    *)
ForeignRefused ==
    \A p \in Procs, f \in {"index", "log"} :
        Idle(p) /\ caller[p] = "open" =>
            disk[f].hash \in {NoHash, ReadHash("data", ZeroKey)}

(* The comment of checkHashKey: the hash record is in all files, that of   *)
(* the data file is the master, and with it it is possible to detect that  *)
(* another file was replaced by an incorrect one.  So what opens with a    *)
(* hash record in its data file is linked.                                 *)
OpenedLinked ==
    \A p \in Procs :
        Idle(p) /\ caller[p] = "open" /\ disk["data"].hash # NoHash => Linked
=============================================================================
