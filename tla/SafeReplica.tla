----------------------------- MODULE SafeReplica -----------------------------
(***************************************************************************)
(* A storage replicated through its log.  A reader of the master asks for  *)
(* one sequence after another with readLog and hands each record to        *)
(* applyLog of a second storage (the log mode of safe_test, the only       *)
(* replication loop of the repository: safe_storage_replica is a stub).    *)
(* The master is the writer of SafeStorage; the replica is a second store  *)
(* whose calls are applyLog and, at the end, commit and close.  The        *)
(* process asks for a fixed number of records at most, and gives up at the *)
(* first one it cannot read, as at the end of the log.  The next process   *)
(* opens the replica's files and starts again at sequence 1, so records    *)
(* are applied that were applied already.                                  *)
(***************************************************************************)
EXTENDS SafeStorage

CONSTANT MaxLives  \* bound on the replicating processes

ASSUME MaxLivesAssumption == MaxLives \in Nat \ {0}

VARIABLES
    replica,  \* the replica: files, state, dirtySerials, as in SafeFiles
    rnext,    \* the sequence to ask for next
    lives,    \* replicating processes started so far
    process,  \* the last of them "runs", has "ended" by commit and close, or
              \* is "gone" without
    views     \* history: what was committed on the master after each sequence,
              \* and the index and last commit it was read through

rvars == <<replica, rnext, lives, process>>
allvars == <<vars, rvars, views>>

RInit ==
    /\ Init
    /\ replica = [Store EXCEPT !.auto = FALSE]
    /\ rnext = 1
    /\ lives = 1
    /\ process = "runs"
    /\ views = << >>

(***************************************************************************)
(* The master.  A step adds one view for each sequence it consumes.        *)
(***************************************************************************)
View == [s \in Serials |-> Committed(s)]

Snapshot == [view |-> View, findex |-> findex, commit |-> LastCommit]

MasterStep ==
    /\ Next
    /\ views' = [q \in 1 .. state'.last_sequence |->
                    IF q \in DOMAIN views THEN views[q] ELSE Snapshot']
    /\ UNCHANGED rvars

(***************************************************************************)
(* readLog: a sequence that is not in the log, or whose entry has offset   *)
(* -1, is an error; so is an entry with offset 0, which leads to the hash  *)
(* record.                                                                 *)
(***************************************************************************)
LogReadable(q) == q \in DOMAIN flog /\ flog[q].offset > 0

ReadLog(q) == fdata[flog[q].offset]

(* Mutant of Apply: goes on after the last sequence the replica knows,     *)
(* which its own STATUS record may have taken.                             *)
ApplyResume ==
    /\ process = "runs"
    /\ LogReadable(rnext)
    /\ replica' = WriteFiles(replica, ReadLog(rnext), TRUE)
    /\ rnext' = replica'.state.last_sequence + 1
    /\ UNCHANGED <<vars, lives, process, views>>

(* One round of the loop: readLog, then applyLog on the replica.           *)
Apply ==
    /\ process = "runs"
    /\ LogReadable(rnext)
    /\ replica' = WriteFiles(replica, ReadLog(rnext), TRUE)
    /\ rnext' = rnext + 1
    /\ UNCHANGED <<vars, lives, process, views>>

(* readLog fails: exit(-1), without a close.                               *)
GiveUp ==
    /\ process = "runs"
    /\ ~LogReadable(rnext)
    /\ process' = "gone"
    /\ UNCHANGED <<vars, replica, rnext, lives, views>>

(* The process dies, or finds that a payload is not what the test wrote    *)
(* (exit(-2)).                                                             *)
Die ==
    /\ process = "runs"
    /\ process' = "gone"
    /\ UNCHANGED <<vars, replica, rnext, lives, views>>

(* The commit of the process's own takes the next sequence of the replica. *)
OwnCommit ==
    ClearDirtySerials(
        WriteFiles(replica,
                   MarkReg("COMMIT", replica.state.last_sequence + 1, << >>),
                   TRUE))

(* The process has asked for as many records as it was told to, which may  *)
(* be any number: commit() and close() of the replica.                     *)
EndLoop ==
    /\ process = "runs"
    /\ process' = "ended"
    /\ replica' = ClearDirtySerials(SaveState(OwnCommit))
    /\ UNCHANGED <<vars, rnext, lives, views>>

(* Another process opens the replica's files.                              *)
Restart ==
    /\ process # "runs"
    /\ lives < MaxLives
    /\ lives' = lives + 1
    /\ process' = "runs"
    /\ replica' = [replica EXCEPT !.state = replica.fstate, !.dirty = << >>]
    /\ rnext' = 1
    /\ UNCHANGED <<vars, views>>

RNext == MasterStep \/ Apply \/ GiveUp \/ Die \/ EndLoop \/ Restart

RSpec == RInit /\ [][RNext]_allvars

(***************************************************************************)
(* Properties.                                                             *)
(***************************************************************************)
ReplicaReads(lcs) ==
    [s \in Serials |->
        LET off == GetLastOffset(replica.findex[s], lcs, FALSE)
        IN  IF off <= 0 THEN NoValue ELSE replica.fdata[off].val]

(* A committed read through the state of the replicating process.          *)
ReplicaView == ReplicaReads(replica.state.last_commit_sequence)

(* A committed read in another process.                                    *)
ReplicaPublished == ReplicaReads(replica.fstate.last_commit_sequence)

(* What the writer of the master itself read after sequence q, what it had *)
(* not committed included.                                                 *)
WorkAfter(q) ==
    [s \in Serials |->
        ValueAt(GetLastOffset(views[q].findex[s], views[q].commit, TRUE))]

(* The first replicating process takes the replica through exactly the     *)
(* committed contents of the master: after it has applied sequence q a     *)
(* committed read finds what it would have found on the master then,       *)
(* although the replica inserts STATUS records of its own and counts those *)
(* of the master twice.  Only the commit it ends with publishes what the   *)
(* master had not committed, and that is all of what its writer read.      *)
ReplicaMirrors ==
    lives = 1 /\ rnext > 1 =>
        ReplicaView = IF process = "ended" THEN WorkAfter(rnext - 1)
                      ELSE views[rnext - 1].view

(* Readers of the replica in other processes, who go by its state file,    *)
(* find a committed content of the master too, of all serials together,    *)
(* while the first process runs and after it is gone: one that is behind   *)
(* by commits, which do not save the state, and never by a WRITE.          *)
ReplicaReadersLag ==
    lives = 1 /\ process # "ended" /\ rnext > 1 =>
        \E q \in 1 .. rnext - 1 :
            /\ ReplicaPublished = views[q].view
            /\ \A later \in q + 1 .. rnext - 1 : ReadLog(later).type # "WRITE"

(* A process that has caught up, even one that started again from the      *)
(* first sequence on top of what others had applied and committed, leaves  *)
(* the replica with the committed contents of the master, between          *)
(* transactions of the master: inside one, a WRITE applied a second time   *)
(* has overwritten the slot of the committed version, which the commit     *)
(* makes good.                                                             *)
ReplicaConverges ==
    rnext > 1 /\ rnext = state.last_sequence + 1 /\ dirtySerials = << >> =>
        ReplicaView = View

(* The replica's own index still names the records it claims, although its *)
(* data file repeats sequences.                                            *)
ReplicaNamesRecord ==
    \A s \in Serials, i \in Slot :
        LET slot == replica.findex[s][i]
        IN  slot.offset > 0 =>
                /\ slot.offset \in DOMAIN replica.fdata
                /\ replica.fdata[slot.offset].serial = s
                /\ replica.fdata[slot.offset].sequence = slot.sequence

(* A process that gives up has applied every record the master has: the    *)
(* log index is there to replicate the file in another host (README.md),   *)
(* and can be read to its end.                                             *)
ReplicaCatchesUp ==
    [][GiveUp => rnext > state.last_sequence]_allvars
=============================================================================
