# Verification of safe_storage

TLA+ models of `libsafestorage`, with their TLC runs and TLAPS proofs. Paths
are relative to the repository; `safe_storage.cpp` without a path is
`src/lib/safe_storage.cpp`.

## The system

A *storage* is four files with one base name, written by at most one process
and read by any number of others, with no lock between them:

| file | class member | contents |
|------|--------------|----------|
| data | `fdata` | every record, appended: WRITE, COMMIT, ROLLBACK_BEGIN/END, STATUS |
| index | `findex` | per serial a register of two slots: offset, sequence, auto-commit flag of the newest version and of the one before it |
| log | `flog` | per sequence the offset, serial and type of its record |
| state | `fstate` | counters, `last_sequence`, `last_commit_sequence` |

All consistency between writer and readers rests on three things: the order in
which one call writes the files, the CRC that guards every record, and the two
slots, of which a committed reader takes the newest whose sequence is not
above the `last_commit_sequence` it loaded.

### Components

| component | state | operations | what makes it correct |
|-----------|-------|------------|-----------------------|
| storage core, `CSafeStorage` | the four files, the object's `state`, `dirtySerials`, `fauto_commit`, open flags | write, commit, rollback, read, close, open | it is a transactional map: writes appear together at the commit, a rollback undoes them, index and log name the records they claim to |
| file protocol, `writeFiles` and `read` | the position inside a call | one file write or read each | readers between any two steps, and after a death there, find published versions |
| replication, `readLog` / `applyLog` | next sequence, a second storage | apply, give up, end with a commit, start over | the replica goes through the same committed contents and converges |
| record file, `CBaseSafeFile` / `CSafeFile` | descriptor, mode, cache, current and last offset | open, close, setFlags, setCacheSize, write, read | the cache is invisible, torn and racing records are told from whole ones |
| life cycle | hash records, mode, `rdwr`, the last sequences of object and files | create, open with missing files, rebuild, verify, setFlags, records written between them | files of different storages are told apart; sequences of writes that returned are not used again |
| shared storage, `CSharedSafeStorage`, `COpenSafeStorage` | the map of locations, references and writer of each, the handles | open, close, destruction, forwarded calls | one writer; no handle keeps a freed object; a commit is kept |
| listener, connections | descriptors, buffers | accept, onData | requests are cut out of the stream whole and in order |
| threads, `CThread`, `CMutexCond`, `CMutex`, `CMutexLock` | running, finish, sleeping, who has the mutex | start, terminate, sleep, waitLock, wait, wakeUp, wakeUpUnlock, scoped locks | what is locked is unlocked, once; a wake up reaches the sleepers; a terminated thread ends |
| proxy, client, replica service | storage pointer | forwarded calls | the client and the replica service are stubs |
| data array, `CDataArray` | the buffers of one read or write | size, setFromBuffer | a record's cells reach the buffers in order |
| ini file, log, exceptions, CRC | | | support code |

The writer calls the core; the core calls the four record files; readers in
other processes share only the files; a follower reads the log of one storage
and calls `applyLog` of another; shared storage, proxy and bridge forward to a
core object in the same process; the listener runs in a thread of its own.

What is hard: the writes of one call reach four files one after the other and
the process may die between any two; readers load state, index and data in
three steps while the writer goes on; `commit` and `rollback` change the state
in memory only; STATUS records consume sequences in the middle of a call;
failed appends leave counters advanced; a follower that starts over applies
records twice; handles of one process share one object, whose open and close
any of them may call under the others; a thread is terminated while it sleeps
or while others use its mutex.

## The modules

| module | models | extends |
|--------|--------|---------|
| `SafeIndex` | the two-slot register and its operations | |
| `SafeFiles` | `writeFiles` as an operator on a store (files + object) | `SafeIndex` |
| `TxStore` | the abstract transactional store | |
| `SafeStorage` | one writer, one action per call; the replay of the data file | `SafeFiles` |
| `MCSafeStorage` | instance for TLC | `SafeStorage` |
| `SafeStorageIO` | the same calls one file write at a time, readers, deaths | `SafeFiles` |
| `MCSafeStorageIO` | instance for TLC | `SafeStorageIO` |
| `SafeReplica` | the follower of a `SafeStorage` | `SafeStorage` |
| `MCSafeReplica` | instance for TLC | `SafeReplica` |
| `BaseSafeFile` | one record file, its cache, the callers' buffers, torn writes, foreign writers | |
| `SafeLifecycle` | create, open, close, rebuild, hash records, lost files, the proxy | |
| `SafeListener` | the listener thread, its connections, sockets and epoll | |
| `SharedStorage` | the handles of one process on a storage | `SafeFiles` |
| `SafeThread` | a thread object, its mutex and condition, its clients | |
| `SafeFilesProofs` | lemmas about registers and stores | `SafeFiles` |
| `SafeStorageProofs` | theorems about `SafeStorage`, the refinement of `TxStore` among them, and about its replica | `SafeReplica`, `SafeFilesProofs` |
| `SafeStorageIOProofs` | theorems about calls cut into file writes, and their readers | `SafeStorageIO`, `SafeFilesProofs` |
| `SharedStorageProofs` | theorems about shared storages | `SharedStorage`, `SafeFilesProofs` |
| `SafeLifecycleProofs` | theorems about the life cycle | `SafeLifecycle` |
| `BaseSafeFileProofs` | theorems about one record file | `BaseSafeFile` |
| `SafeThreadProofs` | theorems about the mutex of a thread | `SafeThread` |
| `SafeListenerProofs` | theorems about the listener and its streams | `SafeListener` |

`SafeStorage` implements `TxStore` (`ImplementsTxStore`), and `SafeStorageIO`
implements the atomic calls of `SafeStorage` (`ImplementsCalls`), up to the
call in which the process dies: what such a call leaves behind is no state of
the atomic ones, and the properties of the readers speak of it.

### How state and actions correspond to the code

* `fdata` is a sequence of records; record *i* is "the one at offset *i*". The
  hash record at offset 0 of each file is left out, offset 0 then means "no
  record" and -1 "rolled back", as in the code. `findex[s]` is the register of
  serial `s`, all zeros while it was never written (a hole, for which
  `readIndex` returns an error). `flog` is a function from the sequences that
  have an entry.
* `State` keeps the five counters that the code reads; `last_close_*`,
  `rollback_*_count`, `last_offsets` and the hash key are left out, since the
  core writes some of them and reads none.
* A "store" record is what `writeFiles` sees of the object. `WriteFiles` is the
  whole function: it counts the record, runs its case, and takes the STATUS
  snapshot. `Write`, `Commit`, `Rollback`, `Close`, `Open` of `SafeStorage`
  are the methods, with their early returns as guards where a return changes
  nothing (auto-commit).
* `Crash` is the death of the process between two calls, files intact.
* `SafeStorageIO` has a `pc` inside the call: `CallWrite`/`CallCommit`/
  `CallRollback` begin one, then one action for each file write in the order of
  the code, `EndRecord` and `EndCase` end it. Readers have `ReadState`,
  `ReadIndex`, `ReadReturn`.
* `SafeReplica` keeps the replica as a store. Its process is the log mode of
  `src/test/safe/safe_test.cpp`, the only replicating loop of the repository.
  `Apply` is one round of it, `readLog` and `applyLog`. The loop has three
  ends: after `nloops` rounds, which may be any number, the process commits and
  closes the replica (`EndLoop`, lines 365 and 401-404), also in the middle of
  a transaction of the master; at the first record that `readLog` cannot
  deliver, the end of the log included, it exits without a close (`GiveUp`,
  lines 369-372); and it may die (`Die`, which stands for the `exit(-2)` of line
  389 too). `Restart` is the next process, which begins at sequence 1
  (`index = 1`). `views` is a history variable: for each sequence, what was
  committed on the master when it had been given out, with the index and the
  last commit it was read through.
* `BaseSafeFile` counts in cells, the unit in which a write may be cut short or
  a read split (4 bytes in the code: the length, the CRC). A cell names the
  write it comes from, and the CRC is right exactly for the cells of one write
  in order (no collisions). `ReadCall` is `read` up to its first `seek`;
  it is given a `darray`, the structure of the file and perhaps a buffer for
  the data, into which `SetFromBuffer` puts the record at the end, item by
  item (`TakeItem`);
  `TakeFromCache`, `FillCache` are the two halves of the loop of
  `readWorkArea`, `ReadDirect` its uncached branch; `Foreign` is the writer of
  the storage in another process.
* `SafeLifecycle` keeps of a file whether it is there, its hash record and how
  far it goes (records of the data file, sequences of the others), and of each
  process one `CSafeStorage` object. `tip` is the sequence of the last record
  of the data file, by which a rebuild goes, and that of the last WRITE whose
  call returned, a history variable.
  `open` is one action for each of its outcomes (`OpenRefused`,
  `OpenExisting`, `OpenMismatch`), or goes on in `create`. `create` and
  `rebuild` put the file operations that are left into `job`; `OpenStep`,
  `KeyStep`, `HashStep`, `ReplayStep`, `FinishStep` do them one by one, and
  `Crash` may come between any two. `caller` is what the last call told the
  caller; with `"reuse"` outside `Allowed` an object is opened once and then
  deleted, which is how `CSafeProxy` uses it (`Delete` is its `close`). The
  union of `CSafeStorageHashReg` makes the hash of a failed read the one read
  before it (`ReadHash`). `Write`, `Commit` and `Rollback` are records that go
  through `writeFiles` (`Added`, `Entered`, `StateSaved`, in the order of the
  code), of which only a WRITE and a STATUS record save the state; whether a
  STATUS record is due is left open. `DiesWriting` is a death in the middle: after
  the append, after the state of a WRITE was saved, or before its index is
  written. The files of a rebuild fill up in one step, in which nobody else can
  use them, as the state file is still empty: what `writeFiles` does with each
  record is `SafeFiles`'s matter. What `rebuild` returns is never positive, even
  when it has done everything (it is the result of the read that ended its
  loop), so `caller` is `"open"` after one that came to its end.

* `SafeListener` has one action for each step of the thread between two system
  calls: `Wait` (`epoll_wait`), one action for each branch of the loop of
  `run` (`HangUp`, `ListenEvent`, `DataEvent`), `Accept`, `AcceptFails`,
  `AcceptEnds` for the loop of `doListenEvent`, and `OnRequest`, `Read`,
  `ReadEnds` for that of `onData`. Sockets and epoll are modelled as Linux has
  them: an edge puts a descriptor on the ready list, `epoll_wait` takes it off
  and reports what is still so. Ready list and answer are sets, as no order is
  promised; the answer has room for `MaxEvents` of them, and which ones are
  left for the next call is open. Streams are counted in words; a header is
  at least its first two, the second being the length. A connection is what
  `buf` holds up to `dcur` and the size of its memory. `begun`, the requests
  that clients have begun, only serves their bound.
* `SharedStorage` has one storage on disk and two names for it, the second one
  that `realpath` resolves to the first only if the file is there
  (`FindLocation`). The `CSafeStorage` of a location is the store of
  `SafeFiles`; `Becomes` drops the writes of a call on files that are open for
  reading, as `CBaseSafeFile` does, and keeps what the call did to the object.
  `Open` is `OpenRefused` or `OpenGranted`, `Close` and `Destroy` share
  `CloseHandle`, and the forwarded calls are guarded by `Forward`, the macro of
  the bridge. `refused` and `undisturbed` are history variables.
* `SafeThread` has one program counter per thread, at the points where another
  thread can see or stop it: before it takes the mutex (`LockPoints`), with it,
  asleep, before and after the broadcast, and in the loop of `__run__`. `call`
  keeps the flags of the sleep in progress. The guarded data of the clients is
  one bit, `ready`, which a client sets before `wakeUpUnlock` and tests before
  it sleeps with both flags (`Await`); a client that holds the lock may also
  call `wait()`, as its name and the flag `ONLY_WAIT` suggest.

### Assumptions named in the modules

`Allowed` (`SafeStorage`) lists the liberties of caller and environment:
`"rewrite"` a serial written again inside one transaction, `"dirtyClose"` a
close inside one, `"crash"`, `"fault"` a failed append. Each run says which it
allows. Only appends to the data file fail; the results of the writes to the
other files are ignored by the code and assumed good. A file write is one
`write(2)`, atomic for readers; `BaseSafeFile` looks below that. There is one
writer (nothing in the code enforces it across processes). Serials are
positive. What was written stays written: power failures are not modelled.

## The runs

| run | what it shows | instance |
|-----|---------------|----------|
| `storage_abstract` | `ImplementsTxStore`, `OpenTransactionPublished`: with the discipline "each serial once per transaction, close between transactions" the storage is the transactional store, even when appends fail | `{"fault"}` |
| `storage_unruly` | `TypeOK`, `IndexNamesRecord`, `LogNamesRecord` under re-writes, dirty closes and crashes with reused sequences; `DataIsMaster`, a replay of the data file gives the index, and the counters that `verify` recalculates from it bound those of the state; `LogEnumeratesData`, the log has an entry for every record and, without crashes, data and log enumerate the same sequences without holes; `SavedStateLag`, the saved state lags less than a status period | `{"rewrite","dirtyClose","crash"}`, one value, sequences to 7 |
| `io` | `TypeOK`, `WriterReadsWork`, `ImplementsCalls`: the stepwise calls are the atomic ones; `PublishedIntact`, `ReadOutcome`: what readers may see between any two file writes and after a death | one reader, deaths, status period 5 |
| `replica` | `ReplicaMirrors`, `ReplicaConverges`, `ReplicaNamesRecord`: the contents a replica goes through, and what it is like once a process has caught up, however earlier ones ended; `ReplicaReadersLag`, what readers of the replica in other processes find | two replicating processes, `{"rewrite"}`, status period 3, sequences to 5 |
| `base_file` | `TypeOK`, `CacheCoherent`, `ScanAligned`, `ReadFinds`: a read finds the record that is there when it ends, and the callers' buffers get it | fixed records of 2 cells, dynamic ones of 3 and 4, buffers of 0 to 2, cache of 3, 3 writes |
| `lifecycle` | `TypeOK`, `OpensWhole`, `ForeignRefused`, `WrittenSequenceKept`, `StaysLinked`, `DataKept`: what opens and rebuilds find and leave, and which sequences are not given out again | writer and reader, two keys, `{"crash","lose","foreign"}` |
| `listener` | `TypeOK`, `StreamIntact`, `NoOverrun`, `NothingForgotten`, `RequestsWhole`, `RequestsServed`: framing over partial reads, edge-triggered events, accepted clients are served | 2 clients, 2 descriptors, 2 requests of 2 or 3 words, 2 events at a time, `{"reset","fault"}` |
| `thread` | `TypeOK`, `MutexBalanced`, `TerminateStops`, `WakeUpReaches`: the mutex under every flag, the end after `terminate()`, no lost wake up | the thread and 2 clients, 3 calls of each |
| `shared` | `TypeOK`, `WriterOnly`, `CommitKept`: one writer, and its commits, through opens, closes and destructions of the other handle | 2 handles, 2 opens of each, 1 serial, status period 3, sequences to 3 |
| `bug_rollback_rewrite` | violation of `RollbackRestores` | `{"rewrite"}` |
| `bug_replica_stall` | violation of `ReplicaCatchesUp` | one rollback |
| `bug_open_unlinked` | violation of `OpenedLinked` | one process, `{"crash"}` |

### Bounds and why they are enough

* Two serials: a rollback's list, a transaction and an index need two to show
  partial effects; serials do not interact otherwise, and readers of a replica
  must find both of one moment. `replica` has two replicating processes, the
  second of which begins on what the first left in one of three ways; five
  sequences are a transaction of each kind with STATUS records in between, as
  many or fewer in the replica as in the master.
* `StatusFreq` is 50 in the code and 3 to 5 in the passing runs, so that STATUS
  snapshots fall on every kind of record and between the two records of a
  rollback within 5 to 7 sequences. `MaxSequence` stops new writes and empty
  transactions, never the end of an open one, so every transaction can end.
* `lifecycle` has two keys (this storage, another one), two records and
  sequences (a WRITE, and what dies, commits or is a STATUS record after it)
  and one reader beside the writer: readers only load. Files are lost and
  exchanged while nobody holds them.
* The cache of `base_file` is 3 cells and the records in its files 2, so records
  begin, end and cross at every position of a block; dynamic records have no
  cell of data, or one, and the buffers are none, too small, exact or too
  large; three writes are a record, a torn one and what follows.
* `thread`: two clients beside the thread are enough for one that sleeps, one
  that wakes it and the third that is between them at the mutex; three calls
  are a lock, a sleep under it and what another client does in between.
* `shared`: two handles, since all that a third could do to the first the
  second does; two opens of each, so that a handle may be refused, or opened
  for reading, and then come back as another kind; three sequences are a
  write, its commit or rollback, and a STATUS record in between.
* Symmetry on serials and values is used in the safety runs of `SafeStorage`,
  `SafeStorageIO` and `SafeReplica`, and on keys and readers in `SafeLifecycle`, whose definitions
  treat them alike. `listener` checks liveness and uses none.
* `listener` has as many clients as descriptors; running out of them is one of
  the failures of `accept` under `"fault"`. A reset frees the lower descriptor
  for the second client while the first one's half request is in the buffer.
  The buffer holds the shorter request and has to grow for the longer. With
  room for two events, one of three descriptors can be left for the next call.

Deadlock is checked in every run but three. The clients of `listener` may all
have gone while the thread waits, as it may in the code; in `thread` the
thread may have ended, or hang, and in `shared` the handles may all be
destroyed. Elsewhere calls that are bounded can always close and open again.

### Fairness

`SafeReplica` states none: the replicating process of `safe_test.cpp` stops
after `nloops` records and at the first one it cannot read, so nothing
promises that a record is ever applied. `ReplicaCatchesUp`, which
`bug_replica_stall` refutes, is an action property: it says of the moment a
process gives up that nothing was left to apply.

`SafeListener` states weak fairness of the thread, `Listener`: it runs until
the process ends and blocks only in `epoll_wait`, with nothing on the ready
list. Clients owe it nothing. `RequestsServed` also rests on the bound of what
clients send: the loop of `onData` goes on while its socket delivers, so a
client that sends without end keeps the thread from all others.

`SafeThread` states weak fairness of what a thread does next in a call it has
begun (`Continue`): the scheduler runs every thread, scopes of locks end,
`run()` of the parent returns and time limits pass, with which the code can do
nothing else. It states strong fairness of taking the mutex: one that is
released again and again is got by each thread that waits for it. POSIX does
not promise that much of a mutex, but without it no code with a mutex could be
shown to get anywhere. Clients owe nobody a call, nobody owes the thread a
wake up, and a sleep without a time limit need not end.

## Proofs

TLC checks the instances above; the theorems hold for every value of the
constants: any sets of serials, values, readers, handles, processes or
threads, any status period above 1, any sizes, any number of calls. They
assume the named assumptions of the modules (markers outside their sets,
`StatusFreq \in Nat \ {0, 1}`, subsets of the liberties), which TLC evaluates in
the runs. Where a theorem holds only for some callers, its hypothesis says so,
as a condition on the liberties (`Allowed`, `Deaths`, `Flags`).

| module | theorem | states | hypothesis |
|--------|---------|--------|------------|
| `SafeStorageProofs` | `TypeCorrect`, `IndexNames`, `LogNames` | `TypeOK`, `IndexNamesRecord`, `LogNamesRecord` | |
| | `TransactionsPublished` | `OpenTransactionPublished` | |
| | `LogEnumerates`, `SavedLag` | `LogEnumeratesData`, `SavedStateLag` | no append fails |
| | `DataMastersAll` | `DataIsMaster` | no append fails |
| | `Implementation` | `ImplementsTxStore` | `Tame`: no liberty but failing appends |
| | `ReplicaNames` | `ReplicaNamesRecord` | |
| | `ReplicaMirrored`, `ReplicaReadersLagged` | `ReplicaMirrors`, `ReplicaReadersLag` | the master does not die |
| | `ReplicaConverged` | `ReplicaConverges` | nor is it closed inside a transaction |
| `SafeStorageIOProofs` | `TypeCorrect` | `TypeOK` | |
| | `CallsImplemented` | `ImplementsCalls` | |
| | `Intact`, `WriterReads`, `Reads` | `PublishedIntact`, `WriterReadsWork`, `ReadOutcome` | nobody opens the files of a writer that died |
| `SharedStorageProofs` | `TypeCorrect`, `WritersOnly`, `CommitsKept` | `TypeOK`, `WriterOnly`, `CommitKept` | |
| `SafeLifecycleProofs` | `TypeCorrect`, `ForeignFilesRefused`, `LinkStays`, `DataStays` | `TypeOK`, `ForeignRefused`, `StaysLinked`, `DataKept` | |
| | `WrittenSequencesStay`, `WholeOpens` | `WrittenSequenceKept`, `OpensWhole` | a new object for each open, none with CREATE alone |
| `BaseSafeFileProofs` | `TypeCorrect`, `CacheStaysCoherent`, `ScanStaysAligned`, `ReadsFind` | `TypeOK`, `CacheCoherent`, `ScanAligned`, `ReadFinds` | |
| `SafeThreadProofs` | `TypeCorrect`, `MutexAlwaysBalanced` | `TypeOK`, `MutexBalanced` | |
| `SafeListenerProofs` | `ListenerTypes`, `ListenerRoom` | `TypeOK`, `NoOverrun` | |
| | `ListenerStreams`, `ListenerRequests` | `StreamIntact`, `RequestsWhole` | |
| | `ListenerForgetsNothing` | `NothingForgotten` | |

The hypotheses are needed. A failed COMMIT or STATUS leaves a sequence without
its record in the data file, and a snapshot that failed is not saved. A
session after a death gives sequences out again, which breaks the history of
the log that a replica follows. A close inside a transaction forgets what is
uncommitted (point 5 below), so a replica that has applied it twice may have
lost the committed version for good. An object that is opened twice, or
creates without WR, goes on with old counters (points 9 and 10).

### Stores and registers

`SafeFilesProofs` takes the operators of `SafeFiles` one by one. A store is
*good* (`StoreInv`) when its files and object are well typed and its index and
log name their records. Appending a record keeps it good because no offset
that is in use moves; a log entry is right because it is written with the
offset, type and serial of the record just appended; a slot is right because
`SetOldestOffset` copies sequence and flag from that record; a rollback only
replaces slots by -1. `WriteFiles` composes them, with one lemma for each case
and one for the snapshot. `RegOK` says what the two slots of one register are
to a committed reader: which one he may take, and which one a rollback leaves.

### One writer

`IndexNames` and `LogNames` follow from good stores, which say nothing about
`last_sequence`: a death that makes sequences be used again overwrites log
entries with equally right ones. `TransactionsPublished` needs `Carried`: a
store's published commit differs from the object's only while `dirty` is
empty, since a WRITE saves the state in the call that makes a serial dirty,
commit and rollback clear the list in the call that moves
`last_commit_sequence`, and `open` loads the file.

`LogEnumerates` and `SavedLag` need to know where the counters are (`LogInv`):
the last sequence of the object is that of the last record, every sequence of
a record is in the log with the type of its last record, and the saved
sequence is less than a status period behind, in step with the count that
triggers the snapshots.

`DataMastersAll` says of a data file of any length what a recursive function
makes of it (`ReplayIndex`). That there is such a function for every number of
records, and only one (`ReplayExists`, `ReplayUnique`), is an induction on that
number, done by the least one for which it would be false; the least element is
the library's well-foundedness of the natural numbers (`LeastElement`). Then the
replay of one record more is `ReplayRecord` of the replay so far
(`ReplayAppend`). What is left is a statement about one record: each call of
`writeFiles` that appends one changes the index as the replay of that record
does, a rollback too, whose first record lists the serials it undoes
(`Replayed`). The counters are the
lengths of sets of records, which a record changes by one or not at all
(`Matches`). The saved state is the object's after every WRITE, so its number of
writes is never behind. A storage that is open again starts from the saved state,
of which the same was known; after a death its counts of records and commits may
be behind the data file for good.

`Implementation` maps the index to the abstract versions. Each register has to
be in order (`RegOK`), and the list of dirty serials has to say where an
uncommitted version is (`TxInv`): a serial is on the list exactly if its newest
slot is above the last commit. A write then goes into the slot that is neither
committed nor dirty, a commit makes every newest slot readable, and a rollback
removes those of the list. Every call maps to one abstract step or a stutter.

### Between two file writes

`SafeStorageIOProofs` says for every point of every call where it is
(`Control`), which versions the registers hold (`Registers`: what is published
before the index is written, what the call works towards after it), and that
the saved state with the index shows what was published (`Published`).
`Reading` adds what a read that has begun would find now: the version of its
moment, a later published one, or a miss because the commit it would need was
published after it loaded the state. Each step owes this to the reads that
have loaded an older state (`LateReads`). `Control` and `Registers` are not
claimed after a death; the rest is, as nothing moves any more.

`CallsImplemented` is the refinement of `SafeStorage` by the stepwise calls.
Its mapping takes the storage to be what it was when the call in progress
began (`Bar`), so a call has to be shown to come out as the atomic one. What
is left of a call is a function of the files and the object (`DueAt`: one
operator for each place inside a call, each the next file write followed by the
operator of the next place). The invariant `Calling` says that it is what a
`Write`, `Commit` or `Rollback` of `SafeStorage` makes of the store of the
beginning (`Promised`). A call begins with that because its places put together
are `writeFiles` (`WholeRecord`), for a rollback twice; every file write leaves
what is due unchanged or ends the call with it (`LeadsTo`), for which the list
of a rollback must not repeat a serial (`Ready`). The last file write is then
the atomic call, every other one and every read is a stutter, and so is the
beginning of a call. Deaths between two calls are the `Crash` of `SafeStorage`.
Nothing is assumed of deaths or of who opens the files after them.

### Replicas

`Written` says what one record, with the snapshot that may follow, makes of a
store; it is shown of `writeFiles` once and used on both sides. `History` ties
the views to the log: each record that can be read leads from the index of one
sequence to that of the next (`StepTo`), and the replica goes the same way in
a data file of its own, so that its registers and the master's cannot be told
apart by a reader (`Alike`). Its own STATUS records do not matter. The commit
with which a process may end makes the newest slot of every register a
committed one, which is what the writer of the master reads (`WorkAfter`).
Readers of other processes go by the saved state (`Lagging`): a WRITE saves it,
and what has been applied since then is a commit, a STATUS record or nothing, so
what they read is what the master had committed at some sequence since the
last WRITE.

A process that starts over makes the replica unlike any state of the master,
because a WRITE applied a second time takes the slot of an older version. What
remains is `Caught`: each register of the replica has the same newest version
(`Twins`) as the master had at the furthest sequence that any process has
applied, at or above which no WRITE up to there is missing (`Covers`), and the
replica knows the commits its present process has applied. On the master,
`Owed`: with a log that can be read to its end, no slot of a serial that is not
dirty is uncommitted, because a rollback or a failed append leaves a hole in
the log for ever (`Gap`). A process that has caught up has applied all of it,
so the newest versions are those of committed reads on both sides.

### Shared storage, life cycle, record file, thread

* `SharedStorageProofs`: `Files` keeps the stores of both objects good and
  every register at or below the last sequence of who may write (`Numbered`,
  and `Fresh` before there are files); records of several handles may share a
  sequence, but a commit is above all of them. `Roles` follows references and
  writers (`Held`, `OneWriter`), `Alone` keeps an undisturbed writer's files
  writable.
* `SafeLifecycleProofs`: `Good` follows a create or rebuild step by step: how
  many steps are left says which files are open and truncated and which have
  their hash record, and that the empty state file keeps others out until the
  end. Readers hold files that match (`Session`). A call that writes records is a
  chain of small changes (`Added`, `Entered`, `StateSaved`), each of which keeps
  to the files the object may write (`Moves`) and does not fall behind where it
  was not (`Rises`); `Recording` says so of whole calls and of deaths inside
  them. `Sound` adds the counters: a state file that lets somebody in says that
  index, log and state know every WRITE that returned (`Counts`, `Vouched`), as
  does the last record of the data file (`TipSound`), a rebuild fills them
  (`Refilling`), and who can write is not behind (`OpenSound`).
* `BaseSafeFileProofs`: `Begun` is what a read in progress has gathered and
  what it lacks; `CacheCoherent` is inductive together with where the cache
  lies (`CachePlaced`) and with `DynamicFile`, by which files of dynamic
  records have no cache.
* `SafeThreadProofs`: `Balanced` says of each place of a thread whether it has
  the mutex there, and that a client that awaits the data will find its
  `CMutexLock` locked.

### Listener

`SafeListenerProofs` has one invariant for everything (`ListenerInvariant`),
for any numbers of clients, descriptors, requests and events, any lengths of
requests, any pieces in which they come.

* `StreamIntact` compares neighbouring words of a stream that has buffer and
  socket for its two parts. That is not inductive: when a request is whole,
  what goes is as many words as the second of them says, and the next stream
  has to begin where they end. `Streams` therefore says of *any* two words how
  they lie: words of one request are as far apart as their numbers in it, and
  a word that lies where the request of an earlier one has just ended is the
  first of the next. A read then moves words from one part to the
  other without changing the stream (`ReadKeepsStream`), a client appends the
  next (`SendExtendsStream`), `onRequest` drops a prefix of known length
  (`StreamShift`), and the second word of the buffer is the length of the
  request it holds (`WholeRequest`), which is `RequestsWhole`.
* `Buffers` bounds the buffer by the header, or by the length in it, and its
  memory by what was asked for, so a read has room (`GrownEnough`).
* `Covered` follows what a socket has to say: it is on the ready list, in the
  answer of `epoll_wait`, or being handled by a loop that ends only once
  there is nothing left. Where the thread waits with an empty list, this is
  `NothingForgotten`.
* `Descriptors` and `AcceptedOnce` keep descriptors and clients apart: one
  descriptor of a client at most, and none while he is in the backlog.

`accept` gives out the lowest free descriptor. That there is a lowest one among
any number is an induction, taken from the library's least-element principle
of well-founded relations (`LeastElement`).

### Only model-checked

* Liveness: `RequestsServed`, `TerminateStops`, `WakeUpReaches`. The prover has no rules for `ENABLED`, on which fairness
  rests.
* The violated properties of the three `bug_` runs.

## Where the code departs from what it says

With a run and a counterexample:

1. A serial written twice in a transaction loses its committed version at the
   rollback (`bug_rollback_rewrite`; `safe_storage.cpp:1019`, comment at 412).
2. Replication stops at the first rollback: its log entries lead nowhere, so
   the replicating process exits there, and so does every later one
   (`bug_replica_stall`; `safe_storage.cpp:815`, comment at 414).
3. A storage whose rebuild died can be opened with an index that is empty and
   has no hash record (`bug_open_unlinked`; `safe_storage.cpp:727`, comment at
   703).

Seen while modelling, without a run of their own:

4. A commit that returned is forgotten when the process dies before the next
   save of the state (`safe_storage.cpp:884`), although the comment at line 367
   says that it adds the commit to data and log and updates the status. The
   next session then gives its sequence out again, as it does that of a write
   that died between its record and the state (lines 795 and 803).
   `WrittenSequenceKept` says that no WRITE that returned shares this fate.
5. `close` inside a transaction keeps the uncommitted writes in the index and
   forgets that they are dirty (`safe_storage.cpp:111`); a later commit
   publishes them. The comment in `shared_safe_storage.cpp:30` expects a
   rollback. Writes of a process that died have the same fate.
6. `commit` ignores a failed append of its record (`safe_storage.cpp:850`) and
   still advances `last_commit_sequence`: the commit is visible but a rebuild
   does not know it.
7. Re-applying a WRITE on a replica inside an open transaction of the master
   overwrites the committed slot there; `ReplicaConverges` therefore speaks of
   the moments between transactions. The log mode of `safe_test` ends with a
   commit of its own (`safe_test.cpp:402`), which publishes what the master has
   not committed if it falls inside a transaction, and would keep it if the
   master rolled back; `ReplicaMirrors` says that this is the only moment and
   that it publishes exactly what the writer of the master reads.
8. `rebuild` never writes the state file it truncates, so what it rebuilt is
   refused by the next `open` (`safe_storage.cpp:307`, `rdwr` is false in an
   object that was not opened before); the life cycle's safety even rests on
   it, since until then the empty state file keeps others out. A rebuild that
   fails leaves the object in rebuild mode, in which `write` skips the data
   file (`safe_storage.cpp:297`).
9. `F_CSTORAGE_CREATE` without `F_CSTORAGE_WR` creates the files and leaves
   `rdwr` false: the state is never saved and the storage cannot be opened
   again (`safe_storage.cpp:148`).
10. `create` and `loadState` leave the counters of the object as they were: an
   object that is opened again on other files can go on with the old ones.
   `CSafeProxy` makes a new one each time; a caller of `CSafeStorage` has to.
11. `verify` rejects every intact storage (it takes the length of record 0 for
   an error), as would `recoverDirtySerials`, which nobody calls. The loop of
   `verify` would not get past the first record either, as it reads the data
   file for records of fixed size (`safe_storage.cpp:480`); `Recalculated` is
   what it is meant to count. A `setFlags` of the storage never reaches its
   second pass, a write of serial 0 destroys the hash record of the index,
   `readLog` returns the error of the file before it can say "not found", and
   `open` of a file spins on errors other than ENOENT.
12. A descriptor that was reset is closed but its connection stays in the map
   (`safe_storage_listener.cpp:66`), so the next client with that descriptor
   has its first words appended to its predecessor's half request. The
   properties of `listener` speak of clients whose buffer was empty at the
   start (`fresh`). The descriptor of a client that closed is never closed,
   and after an `accept` that failed the rest of the backlog waits for another
   connection to arrive.
13. Shared storage: nothing removes a reference, so the first writer of a
   location is its writer for ever, and no `close` ever frees the object
   (`open_safe_storage.cpp:49`). Every open and close
   of a handle opens and closes the one object of all: an open for reading makes
   the writer's files read-only, after which its `commit` returns OK and
   nothing is written; `CommitKept` excludes it by `undisturbed`. A refused
   writer has become one nevertheless (`shared_safe_storage.cpp:100`, excluded
   by `refused`). `APPLY_LOG` is not among the write operations (line 18), so a
   reading handle may apply a log. Under a name that `realpath` cannot resolve
   yet a storage gets a second object once it is there (line 57). `muteFlags`
   adds `F_CSTORAGE_COMMITED_READ`, which is 0: readers that share the writer's
   object read its uncommitted versions. The two-parameter `open` hides the one
   of the bridge instead of overriding it.
14. Threads: `wait()` locks (`mutex_cond.h:19` repeats one flag), so its caller
   hangs if it has the lock, and with it everybody who uses the mutex; the
   properties of `thread` except this (`Hung`). `waitLock(0)` returns without
   the lock (`mutex_cond.cpp:27`). The destructor of `CThread` cancels the
   thread without joining it, or a thread identifier that was never set
   (`thread.cpp:46`). A thread that has ended cannot be started again
   (`running` is never reset).
15. `CBaseSafeFile::read` ignores that `setFromBuffer` failed
   (`base_safe_file.cpp:486`) and returns the length of the record even if the
   buffer took less of it.

## Not modelled

Left out of modelled parts:

* storage: serial 0, the early return of `verify` and the calls nobody makes
  (`recoverDirtySerials`, `setFlags` of a storage, `goTop`, `goPos`), `getInfo`,
  `dumpState`, power failures, permissions;
* record file and data array: `F_DYNAMIC_ALLOCATE`, `fsize`, `debug`, the work
  area's growth, `findLastSignatureReg` (a diagnostic nobody calls);
* listener: failing `malloc`, message headers whose length is below the
  header's;
* shared storage: reads, which the bridge passes on; `removeReference` and the
  destructor of `COpenSafeStorage`, which nobody reaches; auto-commit; CREATE
  without WR; what two objects that write to one storage do to its files;
* threads: the destructor of `CThread`, after which a cancelled thread may run on
  a dead object and nothing can be said; sleeps of 0 ms; the time
  measurements; threads that cannot be created.

Left out for good: the network client and the replica service (stubs without
behaviour); `CIniFile`, a sequential parser of configuration files that only an
example uses, character by character, where a model would repeat the code;
logging, exceptions, CRC arithmetic; tests, examples and benchmarks except the
replicating loop.

## Plan

In this order:

1. done: index, files, storage, transactional store, file protocol, first
   theorems; replica; record file.
2. done: `SafeLifecycle`, with the proxy.
3. done: `SharedStorage`.
4. done: `SafeListener`, `SafeThread`.
5. done: the data array, as part of `BaseSafeFile`.
6. done: theorems about every module but `TxStore`, which is a specification.
7. done: `ImplementsCalls` as a theorem.
8. done: theorems about `SafeListener`, its streams said word by word
   instead of folded.
9. done: `DataIsMaster` as a theorem, moved to `SafeStorage` for it.
