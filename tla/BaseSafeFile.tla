---------------------------- MODULE BaseSafeFile ----------------------------
(***************************************************************************)
(* One CBaseSafeFile object and the file it is open on: records guarded by *)
(* a CRC, a one-block read cache, and sequential reading from the current  *)
(* offset.  A file is a sequence of cells, the unit in which a write may   *)
(* be cut short and a read may be split; every cell remembers the write it *)
(* comes from, so that the CRC of a record is right exactly when its cells *)
(* are those of one write in order.                                        *)
(*                                                                         *)
(* The files of a storage are of two kinds: the data file holds records of *)
(* any length, appended (F_CSFILE_DYNAMIC) and never cached; the others    *)
(* hold records of one length, written in place, perhaps beyond the end of *)
(* the file, and their cache can be switched on (setParam).                *)
(*                                                                         *)
(* A call that writes makes one system call.  A call that reads makes      *)
(* several, and another process, the writer of the storage, may write      *)
(* between them: whole records, one write(2) each.                         *)
(***************************************************************************)
EXTENDS Integers, Sequences, SequencesExt

CONSTANTS
    RecSize,     \* cells of a record of fixed length, CRC included
    DynSizes,    \* cells of the records that are appended: the length, the
                 \* structure of the file, the data and the CRC
    StructSize,  \* cells of that structure
    BufferSizes, \* cells of the callers' buffers for the data
    CacheSizes,  \* sizes the cache is given, in cells
    MaxRecords,  \* bound on the records of a file
    MaxWrites    \* bound on the writes, of both processes

ASSUME RecSizeAssumption == RecSize \in Nat \ {0, 1}
ASSUME StructSizeAssumption == StructSize \in Nat \ {0}
ASSUME DynSizesAssumption ==
    DynSizes \subseteq {n \in Nat : n >= StructSize + 2}
ASSUME BufferSizesAssumption == BufferSizes \subseteq Nat
ASSUME CacheSizesAssumption == CacheSizes \subseteq Nat
ASSUME MaxRecordsAssumption == MaxRecords \in Nat
ASSUME MaxWritesAssumption == MaxWrites \in Nat

VARIABLES
    file,            \* the cells of the file
    dynamic,         \* F_CSFILE_DYNAMIC
    opened,          \* fd >= 0
    f_write_mode,
    cache_size,
    cache_offset,
    cache,           \* cache_len cells
    current_offset,
    last_offset,
    op,              \* the read in progress
    result,          \* what the last call returned
    writes,          \* history: writes so far, the name of the last one
    exposed,         \* history: the file changed behind the cache
    scan             \* history: the last call leaves current_offset at a
                     \* record, so that a sequential read may follow

fileVars == <<file, writes>>
cacheVars == <<cache_size, cache_offset, cache, exposed>>
modeVars == <<dynamic, opened, f_write_mode>>
vars == <<file, writes, cache_size, cache_offset, cache, exposed, dynamic,
          opened, f_write_mode, current_offset, last_offset, op, result, scan>>

Larger(a, b) == IF a > b THEN a ELSE b
Smaller(a, b) == IF a < b THEN a ELSE b

Zero == [id |-> 0, at |-> 0, len |-> 0]

Record(id, n) == [i \in 1 .. n |-> [id |-> id, at |-> i, len |-> n]]

(* The CRC over the cells is right.                                        *)
Valid(cells) ==
    /\ cells # << >>
    /\ cells[1].id # 0
    /\ cells = Record(cells[1].id, Len(cells))

(***************************************************************************)
(* CDataArray, the buffers that a record is read into: the structure of    *)
(* the file, of its fixed length, and perhaps a buffer for the data that   *)
(* follow (F_CDARRAY_VLEN), which takes what fits.                         *)
(***************************************************************************)
Item(n) == [len |-> n, vlen |-> FALSE]
VlenItem(n) == [len |-> n, vlen |-> TRUE]

Size(darray) == FoldLeft(LAMBDA n, item : n + item.len, 0, darray)

(* An item takes its cells from the front of what is left of the data, a   *)
(* variable one all of it, though it copies no more than it has room for.  *)
TakeItem(acc, item) ==
    LET takes  == IF item.vlen THEN Len(acc.left) ELSE item.len
        copies == IF item.vlen THEN Smaller(takes, item.len) ELSE item.len
    IN  IF acc.failed \/ Len(acc.left) < copies
        THEN [acc EXCEPT !.failed = TRUE]
        ELSE [failed |-> FALSE,
              left   |-> SubSeq(acc.left, takes + 1, Len(acc.left)),
              items  |-> Append(acc.items, SubSeq(acc.left, 1, copies))]

(* setFromBuffer: an item that does not get its cells, and those behind    *)
(* it, keep what they had.                                                 *)
SetFromBuffer(darray, data) ==
    FoldLeft(TakeItem, [failed |-> FALSE, left |-> data, items |-> << >>],
             darray).items

(* Idle, or reading left cells at position at of the record at from into   *)
(* darray; got is the work area.                                           *)
Idle == [pc |-> "idle", from |-> 0, at |-> 0, left |-> 0, got |-> << >>,
         darray |-> << >>]

(* The result of a call: the write whose record it was about and what a    *)
(* read has put into the items.                                            *)
Ok(id, items) == [kind |-> "OK", id |-> id, items |-> items]
Fail(kind) == [kind |-> kind, id |-> 0, items |-> << >>]

Init ==
    /\ file = << >>
    /\ dynamic \in BOOLEAN
    /\ opened = FALSE
    /\ f_write_mode = FALSE
    /\ cache_size = 0
    /\ cache_offset = -1
    /\ cache = << >>
    /\ current_offset = 0
    /\ last_offset = 0
    /\ op = Idle
    /\ result = Fail("NONE")
    /\ writes = 0
    /\ exposed = FALSE
    /\ scan = FALSE

(***************************************************************************)
(* Opening and closing.  Neither resets the cache.                         *)
(***************************************************************************)
Open(wr, truncate) ==
    /\ op = Idle
    /\ opened' = TRUE
    /\ f_write_mode' = wr
    /\ file' = IF wr /\ truncate THEN << >> ELSE file
    /\ exposed' = (exposed \/ (file' # file /\ cache # << >>))
    /\ scan' = FALSE
    /\ UNCHANGED <<dynamic, writes, cache_size, cache_offset, cache,
                   current_offset, last_offset, op, result>>

Close ==
    /\ op = Idle
    /\ opened
    /\ opened' = FALSE
    /\ f_write_mode' = FALSE
    /\ UNCHANGED <<fileVars, cacheVars, dynamic, current_offset, last_offset,
                   op, result, scan>>

(* Opens the file again in the other mode; if that fails the old           *)
(* descriptor stays.                                                       *)
SetFlags(wr) ==
    /\ op = Idle
    /\ opened
    /\ f_write_mode # wr
    /\ f_write_mode' = wr
    /\ UNCHANGED <<fileVars, cacheVars, dynamic, opened, current_offset,
                   last_offset, op, result, scan>>

(* Only the index and the log have a cache that can be set.                *)
SetCacheSize(n) ==
    /\ op = Idle
    /\ ~dynamic
    /\ n # cache_size
    /\ cache_size' = n
    /\ cache_offset' = -1
    /\ cache' = << >>
    /\ exposed' = FALSE
    /\ UNCHANGED <<fileVars, modeVars, current_offset, last_offset, op, result,
                   scan>>

(***************************************************************************)
(* Writing.                                                                *)
(***************************************************************************)
(* The file after cells were written at offset off: a write beyond the end *)
(* leaves a hole of zeros.                                                 *)
FileWith(off, cells) ==
    IF cells = << >> THEN file
    ELSE [i \in 1 .. Larger(Len(file), off + Len(cells)) |->
             IF i > off /\ i <= off + Len(cells) THEN cells[i - off]
             ELSE IF i <= Len(file) THEN file[i] ELSE Zero]

(* Mutant of Places: the end of the file is not looked up.                 *)
PlacesUnresolved == IF dynamic THEN {-1} ELSE {RecSize * i : i \in 0 .. MaxRecords - 1}

(* Where a record of n cells is written: at C_CSFILE_ENDFILE, or by        *)
(* writeIndex at a multiple of the size.                                   *)
Places == IF dynamic THEN {Len(file)} ELSE {RecSize * i : i \in 0 .. MaxRecords - 1}
Sizes == IF dynamic THEN DynSizes ELSE {RecSize}

Overlaps(off, n) ==
    off < cache_offset + Len(cache) /\ off + n > cache_offset

(* Mutant of ClearCache: looks only where the written cells begin.         *)
ClearCacheFirst(off, n) ==
    IF cache_offset >= 0 /\ off >= cache_offset /\ Overlaps(off, n)
    THEN cache_offset' = -1 /\ cache' = << >>
    ELSE UNCHANGED <<cache_offset, cache>>

(* A write drops the whole cache if it touches it.                         *)
ClearCache(off, n) ==
    IF cache_offset >= 0 /\ cache # << >> /\ Overlaps(off, n)
    THEN cache_offset' = -1 /\ cache' = << >>
    ELSE UNCHANGED <<cache_offset, cache>>

(* k of the n cells reach the file; all the others are an error.           *)
Write(off, n, k) ==
    /\ op = Idle
    /\ opened
    /\ writes < MaxWrites
    /\ ~f_write_mode => k = 0
    /\ writes' = writes + 1
    /\ file' = FileWith(off, SubSeq(Record(writes + 1, n), 1, k))
    /\ ClearCache(off, n)
    /\ last_offset' = off
    /\ \/ /\ k = n
          /\ current_offset' = off + n
          /\ result' = Ok(writes + 1, << >>)
          /\ scan' = TRUE
       \/ /\ k < n
          /\ result' = Fail("WRITE")
          /\ UNCHANGED <<current_offset, scan>>
    /\ UNCHANGED <<modeVars, cache_size, exposed, op>>

(* The writer of the storage is another process while this one only reads. *)
Foreign(off, n) ==
    /\ ~f_write_mode
    /\ writes < MaxWrites
    /\ writes' = writes + 1
    /\ file' = FileWith(off, Record(writes + 1, n))
    /\ exposed' = (exposed \/ (~dynamic /\ cache # << >>))
    /\ UNCHANGED <<modeVars, cache_size, cache_offset, cache, current_offset,
                   last_offset, op, result, scan>>

(***************************************************************************)
(* Reading.                                                                *)
(***************************************************************************)
WholeAt(off, n) ==
    off + n <= Len(file) /\ Valid(SubSeq(file, off + 1, off + n))

(* The write whose record is at offset off, 0 if there is none.            *)
RecordAt(off) ==
    LET n == IF ~dynamic THEN RecSize
             ELSE IF off < Len(file) THEN file[off + 1].len ELSE 1
    IN  IF WholeAt(off, n) THEN file[off + 1].id ELSE 0

(* The offsets a caller asks for: those it was given when the record was   *)
(* written, any record of a file of fixed records, or C_CSFILE_CURRPOS.    *)
Offsets ==
    IF dynamic
    THEN {off \in 0 .. Len(file) : RecordAt(off) # 0}
             \cup (IF scan THEN {current_offset} ELSE {})
    ELSE {RecSize * i : i \in 0 .. MaxRecords - 1}

(* seek() looks for the end of the file only in a file open for reading.   *)
BeyondEnd(off, n) == ~f_write_mode /\ off + n > Len(file)

(* The call returns.                                                       *)
Return(res, offset) ==
    /\ op' = Idle
    /\ result' = res
    /\ current_offset' = offset
    /\ scan' = (res.kind = "OK")

(* What the methods of CSafeFile hand to read: the structure alone, in     *)
(* which case the record is taken for one of fixed size, or with a buffer, *)
(* which dynamic records are read with.                                    *)
DataArrays ==
    IF dynamic
    THEN {<<Item(StructSize), VlenItem(n)>> : n \in BufferSizes}
    ELSE {<<Item(RecSize - 1)>>}

ReadCall(off, darray) ==
    LET n == IF dynamic THEN 1 ELSE Size(darray) + 1
    IN  /\ op = Idle
        /\ opened
        /\ \/ /\ BeyondEnd(off, n)
              /\ Return(Fail("EOF"), current_offset)
              /\ UNCHANGED last_offset
           \/ /\ ~BeyondEnd(off, n)
              /\ op' = [pc |-> IF dynamic THEN "length" ELSE "record",
                        from |-> off, at |-> off, left |-> n, got |-> << >>,
                        darray |-> darray]
              /\ last_offset' = IF dynamic THEN off ELSE last_offset
              /\ UNCHANGED <<current_offset, result, scan>>
        /\ UNCHANGED <<fileVars, cacheVars, modeVars>>

(* What a record is about: its cells without the length and the CRC.       *)
Payload(cells) ==
    SubSeq(cells, IF dynamic THEN 2 ELSE 1, Len(cells) - 1)

(* What read() makes of the work area.  It does not look at what           *)
(* setFromBuffer returns.                                                  *)
Outcome(cells) ==
    IF Valid(cells)
    THEN Ok(cells[1].id, SetFromBuffer(op.darray, Payload(cells)))
    ELSE IF \A i \in DOMAIN cells : cells[i] = Zero THEN Fail("EMPTY_DATA")
    ELSE Fail("CRC")

(* Mutant of Received: the current offset is taken before the last read.   *)
ReceivedEarly(cells) ==
    LET at   == op.at + Len(cells)
        got  == op.got \o cells
        left == op.left - Len(cells)
        rest == got[1].len - 1
    IN  \/ /\ left > 0
           /\ op' = [op EXCEPT !.at = at, !.left = left, !.got = got]
           /\ UNCHANGED <<current_offset, result, scan>>
        \/ /\ left = 0
           /\ op.pc = "length"
           /\ \/ /\ BeyondEnd(at, rest)
                 /\ Return(Fail("EOF"), current_offset)
              \/ /\ ~BeyondEnd(at, rest)
                 /\ op' = [op EXCEPT !.pc = "record", !.at = at,
                                     !.left = rest, !.got = got]
                 /\ UNCHANGED <<current_offset, result, scan>>
        \/ /\ left = 0
           /\ op.pc = "record"
           /\ Return(Outcome(got), op.at)

(* cells arrive in the work area: more are wanted, or they were the length *)
(* of a dynamic record, whose rest is wanted then, or the record is there. *)
Received(cells) ==
    LET at   == op.at + Len(cells)
        got  == op.got \o cells
        left == op.left - Len(cells)
        rest == got[1].len - 1
    IN  \/ /\ left > 0
           /\ op' = [op EXCEPT !.at = at, !.left = left, !.got = got]
           /\ UNCHANGED <<current_offset, result, scan>>
        \/ /\ left = 0
           /\ op.pc = "length"
           /\ \/ /\ BeyondEnd(at, rest)
                 /\ Return(Fail("EOF"), current_offset)
              \/ /\ ~BeyondEnd(at, rest)
                 /\ op' = [op EXCEPT !.pc = "record", !.at = at,
                                     !.left = rest, !.got = got]
                 /\ UNCHANGED <<current_offset, result, scan>>
        \/ /\ left = 0
           /\ op.pc = "record"
           /\ Return(Outcome(got), at)

(* What ::read finds at the position, n cells at most.                     *)
Block(n) == SubSeq(file, op.at + 1, Smaller(op.at + n, Len(file)))

InCache == cache_offset >= 0 /\ op.at >= cache_offset
                             /\ op.at < cache_offset + Len(cache)

(* Mutant of TakeFromCache: copies from the beginning of the cache.        *)
TakeFromStart ==
    /\ op # Idle /\ cache_size > 0 /\ InCache
    /\ Received(SubSeq(cache, 1, Smaller(op.left, Len(cache))))
    /\ UNCHANGED <<fileVars, cacheVars, modeVars, last_offset>>

TakeFromCache ==
    /\ op # Idle /\ cache_size > 0 /\ InCache
    /\ LET skip == op.at - cache_offset
       IN  Received(SubSeq(cache, skip + 1,
                           Smaller(skip + op.left, Len(cache))))
    /\ UNCHANGED <<fileVars, cacheVars, modeVars, last_offset>>

(* A cache miss: the cache is filled from the position on.  If the file    *)
(* ends there the read fails, what was copied before it notwithstanding.   *)
FillCache ==
    /\ op # Idle /\ cache_size > 0 /\ ~InCache
    /\ cache_offset' = op.at
    /\ cache' = Block(cache_size)
    /\ \/ cache' # << >> /\ UNCHANGED <<op, result, current_offset, scan>>
       \/ cache' = << >> /\ Return(Fail("EMPTY_DATA"), current_offset)
    /\ UNCHANGED <<fileVars, modeVars, cache_size, exposed, last_offset>>

ReadDirect ==
    /\ op # Idle /\ cache_size = 0
    /\ LET cells == Block(op.left)
       IN  IF Len(cells) = op.left THEN Received(cells)
           ELSE Return(Fail(IF cells = << >> THEN "EMPTY_DATA" ELSE "READ"),
                       current_offset)
    /\ UNCHANGED <<fileVars, cacheVars, modeVars, last_offset>>

Next ==
    \/ \E wr, truncate \in BOOLEAN : Open(wr, truncate)
    \/ Close
    \/ \E wr \in BOOLEAN : SetFlags(wr)
    \/ \E n \in CacheSizes : SetCacheSize(n)
    \/ \E off \in Places, n \in Sizes : \E k \in 0 .. n : Write(off, n, k)
    \/ \E off \in Places, n \in Sizes : Foreign(off, n)
    \/ \E off \in Offsets, darray \in DataArrays : ReadCall(off, darray)
    \/ TakeFromCache
    \/ FillCache
    \/ ReadDirect

Spec == Init /\ [][Next]_vars

(***************************************************************************)
(* Properties.                                                             *)
(***************************************************************************)
Cell == [id : Nat, at : Nat, len : Nat]

(* Type invariant.                                                         *)
TypeOK ==
    /\ file \in Seq(Cell)
    /\ cache \in Seq(Cell)
    /\ cache_size \in CacheSizes \cup {0}
    /\ cache_offset \in Int
    /\ current_offset \in Nat /\ last_offset \in Nat
    /\ {dynamic, opened, f_write_mode, exposed, scan} \subseteq BOOLEAN
    /\ writes \in Nat
    /\ op.got \in Seq(Cell) /\ {op.from, op.at, op.left} \subseteq Nat
    /\ result.id \in Nat /\ result.items \in Seq(Seq(Cell))

(* The cache holds what the file holds, as long as nobody else has written *)
(* in place, whatever own writes were cut short and however often the file *)
(* was closed and opened.                                                  *)
CacheCoherent ==
    ~exposed =>
        \A i \in DOMAIN cache : /\ cache_offset + i <= Len(file)
                                /\ file[cache_offset + i] = cache[i]

(* What was written with the number id, as its reader gets it: what of the *)
(* record fits into the items, in order and from the beginning.            *)
Delivered(items, id, darray) ==
    \E n \in Sizes :
        LET got == FlattenSeq(items)
            all == Payload(Record(id, n))
        IN  /\ IsPrefix(got, all)
            /\ Len(got) = Smaller(Len(all), Size(darray))

(* A read that has begun returns the record that is at the offset when it  *)
(* ends, and fails only if there is none then, over however many blocks of *)
(* the cache it runs and whatever another process appends in the meantime; *)
(* and the caller's items hold that record.                                *)
ReadFinds ==
    [][op # Idle /\ op' = Idle /\ ~exposed =>
          /\ result'.id = RecordAt(op.from)
          /\ result'.kind = "OK" =>
                 Delivered(result'.items, result'.id, op.darray)]_vars

(* After a record was read or written the current offset is where a record *)
(* ends, so that the next sequential read begins where the next record     *)
(* does, also when another process appends.                                *)
ScanAligned ==
    dynamic /\ scan =>
        \E n \in DynSizes : n <= current_offset /\ WholeAt(current_offset - n, n)
=============================================================================
