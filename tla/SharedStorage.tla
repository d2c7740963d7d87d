---------------------------- MODULE SharedStorage ----------------------------
(***************************************************************************)
(* CSharedSafeStorage: handles of one process that share storages.  The    *)
(* class keeps a map from locations to COpenSafeStorage, each with the one *)
(* CSafeStorage of the location, its references and its writer; a handle   *)
(* forwards its calls to it (CSafeStorageBridge) if they are allowed.      *)
(* Here there is one storage on disk, which a caller may name in two ways: *)
(* by its real path or by another name (relative, through a link), which   *)
(* realpath resolves only if the file is there.                            *)
(*                                                                         *)
(* The CSafeStorage behind a handle is the store of SafeFiles; files open  *)
(* for reading, or closed, take no write.  No auto-commit, no CREATE       *)
(* without WR, and no writes while two objects have the files open for     *)
(* writing: what two writers do to the files is not described.             *)
(***************************************************************************)
EXTENDS SafeFiles

CONSTANTS
    Handles,      \* CSharedSafeStorage objects
    NoHandle,
    MaxSequence,  \* bound on the sequences of records
    MaxOpens      \* bound on the opens of a handle

ASSUME HandlesAssumption == NoHandle \notin Handles
ASSUME MaxOpensAssumption == MaxOpens \in Nat

Names == {"real", "other"}
NoName == "none"

VARIABLES
    created, disk,        \* whether the files are there; the files
    storages,             \* the locations in the map
    object,               \* the CSafeStorage of each location
    references, cssWriter,    \* of each COpenSafeStorage
    storage, writer, alive,   \* of each handle
    opens,                \* opens of each handle (a bound)
    \* History: handles that were refused as writers; writers whose object
    \* nobody else has opened or closed since they opened it.
    refused, undisturbed

shared  == <<storages, references, cssWriter>>
handles == <<storage, writer, alive, opens>>
ghosts  == <<refused, undisturbed>>
vars == <<created, disk, object, shared, handles, ghosts>>

EmptyDisk == [fdata |-> << >>, findex |-> [s \in Serials |-> EmptyIndex],
              flog |-> << >>, fstate |-> ZeroState]

NewObject == [state |-> ZeroState, dirty |-> << >>, opened |-> FALSE,
              rdwr |-> FALSE]

Init ==
    /\ created = FALSE
    /\ disk = EmptyDisk
    /\ storages = {}
    /\ object = [k \in Names |-> NewObject]
    /\ references = [k \in Names |-> << >>]
    /\ cssWriter = [k \in Names |-> NoHandle]
    /\ storage = [h \in Handles |-> NoName]
    /\ writer = [h \in Handles |-> FALSE]
    /\ alive = Handles
    /\ opens = [h \in Handles |-> 0]
    /\ refused = {}
    /\ undisturbed = {}

(***************************************************************************)
(* CSafeStorage, as the handles meet it.                                   *)
(***************************************************************************)
Writable(k) == object[k].opened /\ object[k].rdwr

Store(k) == [fdata |-> disk.fdata, findex |-> disk.findex, flog |-> disk.flog,
             fstate |-> disk.fstate, state |-> object[k].state,
             dirty |-> object[k].dirty, auto |-> FALSE]

FilesOf(st) == [fdata |-> st.fdata, findex |-> st.findex, flog |-> st.flog,
                fstate |-> st.fstate]

(* A call leaves the object k with the store st: the writes of the call    *)
(* reach the files only if they are open for writing.                      *)
Becomes(k, st) ==
    /\ object' = [object EXCEPT ![k].state = st.state, ![k].dirty = st.dirty]
    /\ disk' = IF Writable(k) THEN FilesOf(st) ELSE disk

(* Mutant of OpenObject: takes the wrong flag for write mode.              *)
OpenObjectWrongFlag(k, flags) ==
    /\ created' = (created \/ "CREATE" \in flags)
    /\ object' = [object EXCEPT ![k].rdwr = "CREATE" \in flags,
                                ![k].opened = created \/ "CREATE" \in flags,
                                ![k].state = disk.fstate]

(* CSafeStorage::open of the object k.                                     *)
OpenObject(k, flags) ==
    LET o == [object[k] EXCEPT !.rdwr = "WR" \in flags]
    IN  IF created
        THEN /\ object' = [object EXCEPT
                              ![k] = [o EXCEPT !.opened = TRUE,
                                               !.state = disk.fstate]]
             /\ UNCHANGED created
        ELSE /\ created' = ("CREATE" \in flags)
             /\ object' = [object EXCEPT
                              ![k] = [o EXCEPT !.opened = "CREATE" \in flags]]

(* CSafeStorage::close of the object k.                                    *)
CloseObject(k) ==
    /\ disk' = IF Writable(k) THEN [disk EXCEPT !.fstate = object[k].state]
               ELSE disk
    /\ object' = [object EXCEPT ![k].opened = FALSE, ![k].dirty = << >>]

(***************************************************************************)
(* The handles.                                                            *)
(***************************************************************************)
FindLocation(name) == IF created THEN "real" ELSE name

(* Who else has the object k, and so is disturbed when h opens or closes.  *)
Disturb(h, k) == {g \in undisturbed : g # h /\ storage[g] # k}

(* COpenSafeStorage::addReference; the handle that opened for writing has  *)
(* the object for itself until another one touches it.                     *)
AddReference(h, k, wants) ==
    IF wants /\ cssWriter[k] # NoHandle
    THEN UNCHANGED <<references, cssWriter>>
    ELSE /\ references' = [references EXCEPT ![k] = Append(@, h)]
         /\ cssWriter' = IF wants THEN [cssWriter EXCEPT ![k] = h] ELSE cssWriter

(* A refused handle keeps the storage it had, and is a writer from then on.*)
OpenRefused(h, k) ==
    /\ writer' = [writer EXCEPT ![h] = TRUE]
    /\ refused' = refused \cup {h}
    /\ UNCHANGED <<created, disk, object, references, cssWriter, storage,
                   undisturbed>>

OpenGranted(h, k, flags) ==
    /\ writer' = [writer EXCEPT ![h] = flags # {}]
    /\ storage' = [storage EXCEPT ![h] = k]
    /\ OpenObject(k, flags)
    /\ AddReference(h, k, flags # {})
    /\ refused' = refused \ {h}
    /\ undisturbed' = Disturb(h, k) \cup
                          (IF object'[k].opened /\ flags # {} THEN {h} ELSE {})
    /\ UNCHANGED disk

(* Mutant of Refused: nobody is.                                           *)
RefusedNever(k, flags) == FALSE

Refused(k, flags) == flags # {} /\ cssWriter[k] # NoHandle

Open(h, name, flags) ==
    LET k == FindLocation(name)
    IN  /\ h \in alive
        /\ opens[h] < MaxOpens
        /\ opens' = [opens EXCEPT ![h] = @ + 1]
        /\ storages' = storages \cup {k}
        /\ IF Refused(k, flags) THEN OpenRefused(h, k)
           ELSE OpenGranted(h, k, flags)
        /\ UNCHANGED alive

(* Mutant of CloseHandle: frees the object whoever else has it.            *)
CloseHandleFrees(h) ==
    /\ CloseObject(storage[h])
    /\ storages' = storages \ {storage[h]}
    /\ storage' = [storage EXCEPT ![h] = NoName]
    /\ undisturbed' = Disturb(h, storage[h]) \ {h}

(* The object is freed only if it has no reference, which nothing removes. *)
CloseHandle(h) ==
    /\ CloseObject(storage[h])
    /\ IF references[storage[h]] = << >>
       THEN /\ storages' = storages \ {storage[h]}
            /\ storage' = [storage EXCEPT ![h] = NoName]
       ELSE UNCHANGED <<storages, storage>>
    /\ undisturbed' = Disturb(h, storage[h]) \ {h}

Close(h) ==
    /\ h \in alive
    /\ storage[h] # NoName
    /\ CloseHandle(h)
    /\ UNCHANGED <<created, references, cssWriter, writer, alive, opens, refused>>

Destroy(h) ==
    /\ h \in alive
    /\ alive' = alive \ {h}
    /\ IF storage[h] = NoName
       THEN UNCHANGED <<disk, object, storages, storage, undisturbed>>
       ELSE CloseHandle(h)
    /\ UNCHANGED <<created, references, cssWriter, writer, opens, refused>>

(* F_SHARED_SS_WRITE_OPS: APPLY_LOG is not one of them.                    *)
WriteOps == {"COMMIT", "ROLLBACK", "WRITE"}

AllowedOp(h, operation) == operation \in WriteOps => writer[h]

Forward(h, operation) ==
    /\ h \in alive
    /\ AllowedOp(h, operation)
    /\ storage[h] # NoName
    /\ \A k \in Names \ {storage[h]} : ~Writable(k)
    /\ object[storage[h]].state.last_sequence < MaxSequence
    /\ UNCHANGED <<created, shared, handles, ghosts>>

NextSequence(k) == object[k].state.last_sequence + 1

WriteThrough(h, r) ==
    Becomes(storage[h], WriteFiles(Store(storage[h]), r, Writable(storage[h])))

Write(h, s, v) ==
    /\ Forward(h, "WRITE")
    /\ WriteThrough(h, WriteReg(s, NextSequence(storage[h]), FALSE, v))

ApplyLog(h, s, v) ==
    /\ Forward(h, "APPLY_LOG")
    /\ WriteThrough(h, WriteReg(s, NextSequence(storage[h]), FALSE, v))

Commit(h) ==
    /\ Forward(h, "COMMIT")
    /\ LET k == storage[h]
       IN  Becomes(k, ClearDirtySerials(
               WriteFiles(Store(k), MarkReg("COMMIT", NextSequence(k), << >>),
                          Writable(k))))

Rollback(h) ==
    /\ Forward(h, "ROLLBACK")
    /\ LET k   == storage[h]
           seq == NextSequence(k)
           st  == WriteFiles(Store(k),
                             MarkReg("ROLLBACK_BEGIN", seq, object[k].dirty),
                             Writable(k))
       IN  Becomes(k, ClearDirtySerials(
               WriteFiles(st, MarkReg("ROLLBACK_END",
                                      st.state.last_sequence + 1, << >>),
                          Writable(k))))

OpenFlags == {{}, {"WR"}, {"WR", "CREATE"}}

Next ==
    \E h \in Handles :
        \/ \E name \in Names, flags \in OpenFlags : Open(h, name, flags)
        \/ Close(h)
        \/ Destroy(h)
        \/ \E s \in Serials, v \in Values : Write(h, s, v) \/ ApplyLog(h, s, v)
        \/ Commit(h)
        \/ Rollback(h)

Spec == Init /\ [][Next]_vars

(***************************************************************************)
(* Properties.                                                             *)
(***************************************************************************)

(* Type invariant.                                                         *)
TypeOK ==
    /\ created \in BOOLEAN
    /\ disk \in [fdata : Seq(DataReg), findex : [Serials -> IndexReg],
                 flog : [DOMAIN disk.flog -> LogReg], fstate : State]
    /\ storages \subseteq Names
    /\ object \in [Names -> [state : State, dirty : Seq(Serials),
                             opened : BOOLEAN, rdwr : BOOLEAN]]
    /\ references \in [Names -> Seq(Handles)]
    /\ cssWriter \in [Names -> Handles \cup {NoHandle}]
    /\ storage \in [Handles -> storages \cup {NoName}]
    /\ writer \in [Handles -> BOOLEAN]
    /\ {alive, refused, undisturbed} \subseteq SUBSET Handles
    /\ opens \in [Handles -> 0..MaxOpens]

(* The write, commit or rollback of a handle changes the files only if the *)
(* handle is the one writer of its storage, whatever other handles have    *)
(* opened before: apart from a handle that was refused as a writer while   *)
(* it read.                                                                *)
WriterOnly ==
    [][\A h \in Handles :
          /\ \/ \E s \in Serials, v \in Values : Write(h, s, v)
             \/ Commit(h)
             \/ Rollback(h)
          /\ disk' # disk
          => cssWriter[storage[h]] = h \/ h \in refused]_vars

(* A commit reaches the data file, and shows committed readers what the    *)
(* writer read before it, if no other handle has opened or closed the      *)
(* storage since the writer opened it.  (Another handle's open turns the   *)
(* one object read-only, and commit still returns OK.)                     *)
Offset(files, st, s, dirty) ==
    GetLastOffset(files.findex[s], st.last_commit_sequence, dirty)

CommitKept ==
    [][\A h \in undisturbed :
          Commit(h) =>
             LET k == storage[h]
             IN  /\ \E i \in DOMAIN disk'.fdata :
                       /\ disk'.fdata[i].type = "COMMIT"
                       /\ disk'.fdata[i].sequence = NextSequence(k)
                 /\ \A s \in Serials :
                       Offset(disk', object'[k].state, s, FALSE)
                           = Offset(disk, object[k].state, s, TRUE)]_vars
=============================================================================
