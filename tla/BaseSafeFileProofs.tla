------------------------- MODULE BaseSafeFileProofs -------------------------
(***************************************************************************)
(* What one record file promises, for records, buffers, caches and files   *)
(* of any size and any number of writes, torn writes and foreign writers.  *)
(*                                                                         *)
(* The caller's buffers come first: what the folds over one or two items   *)
(* are. Then the file: what a write leaves of it and what a block of it    *)
(* is. The invariant says what a read in progress has gathered (Begun),    *)
(* that the cache agrees with the file, and where a sequential read would  *)
(* go on; every step that takes cells is one case of TakesCells.           *)
(***************************************************************************)
EXTENDS BaseSafeFile, SequenceTheorems, TLAPS

(***************************************************************************)
(* The folds over one and two items.                                       *)
(***************************************************************************)

(* The items are folded from the last index downwards.                     *)
LEMMA LastIndex == Max({1}) = 1 /\ Max({1, 2}) = 2
  BY DEF Max

(* The parts of {1, 2}.                                                    *)
LEMMA PartsOfTwo ==
    /\ \A s \in SUBSET {1} : s = {} \/ s = {1}
    /\ \A s \in SUBSET {1, 2} : s \in {{}, {1}, {2}, {1, 2}}
    /\ {1} \ {1} = {} /\ {2} \ {2} = {} /\ {1, 2} \ {2} = {1}
    /\ {1} # {} /\ {2} # {} /\ {1, 2} # {} /\ {1, 2} # {1} /\ {1, 2} # {2}
    /\ Max({2}) = 2
<1>1. \A s \in SUBSET {1, 2} : s \in {{}, {1}, {2}, {1, 2}}
  <2> SUFFICES ASSUME NEW s \in SUBSET {1, 2}
               PROVE  s \in {{}, {1}, {2}, {1, 2}}
    OBVIOUS
  <2>1. CASE 1 \in s /\ 2 \in s
    BY <2>1
  <2>2. CASE 1 \in s /\ 2 \notin s
    BY <2>2
  <2>3. CASE 1 \notin s /\ 2 \in s
    BY <2>3
  <2>4. CASE 1 \notin s /\ 2 \notin s
    BY <2>4
  <2> QED
    BY <2>1, <2>2, <2>3, <2>4
<1>2. Max({2}) = 2
  BY DEF Max
<1>3. 1 \in {1, 2} /\ 2 \in {1, 2} /\ 1 \notin {2} /\ 2 \notin {1} /\ 1 # 2
  OBVIOUS
<1> QED
  BY <1>1, <1>2, <1>3

(* The size of a structure alone.                                          *)
LEMMA SizeOne ==
    ASSUME NEW n \in Nat
    PROVE  Size(<<Item(n)>>) = n
<1>1. PICK d : d = <<Item(n)>>
  OBVIOUS
<1>2. DOMAIN d = {1} /\ d[1].len = n
  BY <1>1 DEF Item
<1> DEFINE Rec(h) == h = [s \in SUBSET {1} |->
                            IF s = {} THEN 0 ELSE h[s \ {Max(s)}] + d[Max(s)].len]
           g == [s \in SUBSET {1} |-> IF s = {} THEN 0 ELSE n]
<1>3. Rec(g)
  <2>1. \A s \in SUBSET {1} : s # {} => s \ {Max(s)} = {} /\ d[Max(s)].len = n
    BY <1>2, LastIndex, PartsOfTwo
  <2>2. g[{}] = 0
    OBVIOUS
  <2> SUFFICES ASSUME NEW s \in SUBSET {1}
               PROVE  g[s] = IF s = {} THEN 0 ELSE g[s \ {Max(s)}] + d[Max(s)].len
    OBVIOUS
  <2> QED
    BY <2>1, <2>2
<1>4. PICK h : h = CHOOSE x : Rec(x)
  OBVIOUS
<1>5. Rec(h)
  <2> HIDE DEF Rec, g
  <2> QED
    BY <1>3, <1>4
<1>6. h[{1}] = n
  <2>1. h[{}] = 0
    BY <1>5
  <2>2. h[{1}] = h[{1} \ {1}] + n
    BY <1>2, <1>5, LastIndex
  <2> QED
    BY <2>1, <2>2, PartsOfTwo
<1>7. Size(d) = h[{1}]
  BY <1>2, <1>4 DEF Size, FoldLeft, MapThenFoldSet
<1> QED
  BY <1>1, <1>6, <1>7

(* And with a buffer for the data behind it.                               *)
LEMMA SizeTwo ==
    ASSUME NEW n \in Nat, NEW m \in Nat
    PROVE  Size(<<Item(n), VlenItem(m)>>) = n + m
<1>1. PICK d : d = <<Item(n), VlenItem(m)>>
  OBVIOUS
<1>2. DOMAIN d = {1, 2} /\ d[1].len = n /\ d[2].len = m
  BY <1>1 DEF Item, VlenItem
<1> DEFINE Rec(h) == h = [s \in SUBSET {1, 2} |->
                            IF s = {} THEN 0 ELSE h[s \ {Max(s)}] + d[Max(s)].len]
           g == [s \in SUBSET {1, 2} |->
                    IF s = {} THEN 0 ELSE IF s = {1} THEN n
                    ELSE IF s = {2} THEN m ELSE n + m]
<1>3. Rec(g)
  <2>1. g[{}] = 0 /\ g[{1}] = n /\ g[{2}] = m /\ g[{1, 2}] = n + m
    BY PartsOfTwo
  <2> SUFFICES ASSUME NEW s \in SUBSET {1, 2}
               PROVE  g[s] = IF s = {} THEN 0 ELSE g[s \ {Max(s)}] + d[Max(s)].len
    OBVIOUS
  <2> HIDE DEF g
  <2>2. CASE s = {}
    BY <2>1, <2>2
  <2>3. CASE s = {1}
    BY <1>2, <2>1, <2>3, LastIndex, PartsOfTwo
  <2>4. CASE s = {2}
    BY <1>2, <2>1, <2>4, PartsOfTwo
  <2>5. CASE s = {1, 2}
    BY <1>2, <2>1, <2>5, LastIndex, PartsOfTwo, SMTT(40)
  <2> QED
    BY <2>2, <2>3, <2>4, <2>5, PartsOfTwo
<1>4. PICK h : h = CHOOSE x : Rec(x)
  OBVIOUS
<1>5. Rec(h)
  <2> HIDE DEF Rec, g
  <2> QED
    BY <1>3, <1>4
<1>6. h[{1, 2}] = n + m
  <2>1. h[{}] = 0
    BY <1>5
  <2>2. {1} \in SUBSET {1, 2} /\ {1} # {}
    OBVIOUS
  <2>3. h[{1}] = h[{1} \ {1}] + n
    BY <1>2, <1>5, <2>2, LastIndex
  <2>4. h[{1, 2}] = h[{1, 2} \ {2}] + m
    BY <1>2, <1>5, LastIndex, PartsOfTwo
  <2>5. {1} \ {1} = {} /\ {1, 2} \ {2} = {1}
    BY PartsOfTwo
  <2> HIDE DEF Rec
  <2>6. h[{1}] = 0 + n /\ h[{1, 2}] = h[{1}] + m
    BY <2>1, <2>3, <2>4, <2>5
  <2> QED
    BY <2>6
<1>7. Size(d) = h[{1, 2}]
  BY <1>2, <1>4 DEF Size, FoldLeft, MapThenFoldSet
<1> QED
  BY <1>1, <1>6, <1>7

(* What the items get when the data are there: first all of the structure. *)
LEMMA SetOne ==
    ASSUME NEW n \in Nat, NEW data \in Seq(Cell), n <= Len(data)
    PROVE  SetFromBuffer(<<Item(n)>>, data) = <<SubSeq(data, 1, n)>>
<1>0. PICK p : p = Item(n)
  OBVIOUS
<1>1. PICK d : d = <<p>>
  OBVIOUS
<1>2. DOMAIN d = {1} /\ d[1] = p
  BY <1>1
<1>3. PICK base : base = [failed |-> FALSE, left |-> data, items |-> << >>]
  OBVIOUS
<1>4. PICK one : one = TakeItem(base, p)
  OBVIOUS
<1> DEFINE Rec(h) == h = [s \in SUBSET {1} |->
                            IF s = {} THEN base
                            ELSE TakeItem(h[s \ {Max(s)}], d[Max(s)])]
           g == [s \in SUBSET {1} |-> IF s = {} THEN base ELSE one]
<1>5. Rec(g)
  <2>1. \A s \in SUBSET {1} : s # {} => s \ {Max(s)} = {} /\ d[Max(s)] = p
    BY <1>2, LastIndex, PartsOfTwo
  <2>2. g[{}] = base
    OBVIOUS
  <2> SUFFICES ASSUME NEW s \in SUBSET {1}
               PROVE  g[s] = IF s = {} THEN base
                             ELSE TakeItem(g[s \ {Max(s)}], d[Max(s)])
    OBVIOUS
  <2> QED
    BY <1>4, <2>1, <2>2
<1>6. PICK h : h = CHOOSE x : Rec(x)
  OBVIOUS
<1>7. Rec(h)
  <2> HIDE DEF Rec, g
  <2> QED
    BY <1>5, <1>6
<1>8. h[{1}] = one
  <2>1. h[{}] = base
    BY <1>7
  <2>2. h[{1}] = TakeItem(h[{1} \ {1}], p)
    BY <1>2, <1>7, LastIndex
  <2> HIDE DEF Rec
  <2> QED
    BY <1>4, <2>1, <2>2, PartsOfTwo
<1>9. SetFromBuffer(d, data) = one.items
  <2>1. FoldLeft(TakeItem, base, d) = h[{1}]
    BY <1>2, <1>6 DEF FoldLeft, MapThenFoldSet
  <2> QED
    BY <1>3, <1>8, <2>1 DEF SetFromBuffer
<1>10. one.items = <<SubSeq(data, 1, n)>>
  BY <1>0, <1>3, <1>4 DEF TakeItem, Item
<1> QED
  BY <1>0, <1>1, <1>9, <1>10

(* A row of two.                                                           *)
LEMMA AppendOne ==
    ASSUME NEW a, NEW b
    PROVE  Append(<<a>>, b) = <<a, b>>
<1>1. PICK S : S = {a, b}
  BY Zenon
<1>2. PICK x, y, z : x = <<a>> /\ y = Append(<<a>>, b) /\ z = <<a, b>>
  OBVIOUS
<1>3. x \in Seq(S) /\ Len(x) = 1 /\ x[1] = a
  BY <1>1, <1>2
<1>4. y \in Seq(S) /\ Len(y) = 2 /\ y[1] = a /\ y[2] = b
  BY <1>1, <1>2, <1>3, AppendProperties
<1>5. z \in Seq(S) /\ Len(z) = 2 /\ z[1] = a /\ z[2] = b
  BY <1>1, <1>2
<1>6. y = z
  <2>1. \A i \in 1 .. 2 : y[i] = z[i]
    BY <1>4, <1>5
  <2> QED
    BY <1>4, <1>5, <2>1, SeqEqual
<1> QED
  BY <1>2, <1>6

(* Then what of the rest there is room for.                                *)
LEMMA SetTwo ==
    ASSUME NEW n \in Nat, NEW m \in Nat, NEW data \in Seq(Cell), n <= Len(data)
    PROVE  SetFromBuffer(<<Item(n), VlenItem(m)>>, data) =
              <<SubSeq(data, 1, n),
                SubSeq(SubSeq(data, n + 1, Len(data)), 1, Smaller(Len(data) - n, m))>>
<1>0. PICK p, q : p = Item(n) /\ q = VlenItem(m)
  OBVIOUS
<1>1. PICK d : d = <<p, q>>
  OBVIOUS
<1>2. DOMAIN d = {1, 2} /\ d[1] = p /\ d[2] = q
  BY <1>1
<1>3. PICK base : base = [failed |-> FALSE, left |-> data, items |-> << >>]
  OBVIOUS
<1>4. PICK one, other, both : /\ one = TakeItem(base, p)
                              /\ other = TakeItem(base, q)
                              /\ both = TakeItem(one, q)
  OBVIOUS
<1> DEFINE Rec(h) == h = [s \in SUBSET {1, 2} |->
                            IF s = {} THEN base
                            ELSE TakeItem(h[s \ {Max(s)}], d[Max(s)])]
           g == [s \in SUBSET {1, 2} |->
                    IF s = {} THEN base ELSE IF s = {1} THEN one
                    ELSE IF s = {2} THEN other ELSE both]
<1>5. Rec(g)
  <2>1. g[{}] = base /\ g[{1}] = one /\ g[{2}] = other /\ g[{1, 2}] = both
    BY PartsOfTwo
  <2> SUFFICES ASSUME NEW s \in SUBSET {1, 2}
               PROVE  g[s] = IF s = {} THEN base
                             ELSE TakeItem(g[s \ {Max(s)}], d[Max(s)])
    OBVIOUS
  <2> HIDE DEF g
  <2>2. CASE s = {}
    BY <2>1, <2>2
  <2>3. CASE s = {1}
    <3>1. s # {} /\ s \ {Max(s)} = {} /\ d[Max(s)] = p
      BY <1>2, <2>3, LastIndex, PartsOfTwo
    <3> QED
      BY <1>4, <2>1, <2>3, <3>1
  <2>4. CASE s = {2}
    <3>1. s # {} /\ s \ {Max(s)} = {} /\ d[Max(s)] = q
      BY <1>2, <2>4, PartsOfTwo
    <3> QED
      BY <1>4, <2>1, <2>4, <3>1
  <2>5. CASE s = {1, 2}
    <3>1. s # {} /\ s \ {Max(s)} = {1} /\ d[Max(s)] = q
      BY <1>2, <2>5, LastIndex, PartsOfTwo
    <3> QED
      BY <1>4, <2>1, <2>5, <3>1
  <2> QED
    BY <2>2, <2>3, <2>4, <2>5, PartsOfTwo
<1>6. PICK h : h = CHOOSE x : Rec(x)
  OBVIOUS
<1>7. Rec(h)
  <2> HIDE DEF Rec, g
  <2> QED
    BY <1>5, <1>6
<1>8. h[{1, 2}] = both
  <2>1. h[{}] = base
    BY <1>7
  <2>2. {1} \in SUBSET {1, 2} /\ {1} # {}
    OBVIOUS
  <2>3. h[{1}] = TakeItem(h[{1} \ {1}], p)
    BY <1>2, <1>7, <2>2, LastIndex
  <2>4. h[{1, 2}] = TakeItem(h[{1, 2} \ {2}], q)
    <3>1. {1, 2} \in SUBSET {1, 2} /\ {1, 2} # {}
      OBVIOUS
    <3> QED
      BY <1>2, <1>7, <3>1, LastIndex
  <2>5. {1} \ {1} = {} /\ {1, 2} \ {2} = {1}
    BY PartsOfTwo
  <2> HIDE DEF Rec
  <2> QED
    BY <1>4, <2>1, <2>3, <2>4, <2>5
<1>9. SetFromBuffer(d, data) = both.items
  <2>1. FoldLeft(TakeItem, base, d) = h[{1, 2}]
    BY <1>2, <1>6 DEF FoldLeft, MapThenFoldSet
  <2> QED
    BY <1>3, <1>8, <2>1 DEF SetFromBuffer
<1>10. PICK first, left : /\ first = SubSeq(data, 1, n)
                          /\ left = SubSeq(data, n + 1, Len(data))
  OBVIOUS
<1>11. left \in Seq(Cell) /\ Len(left) = Len(data) - n
  <2>1. \A i \in n + 1 .. Len(data) : data[i] \in Cell
    OBVIOUS
  <2> QED
    BY <1>10, <2>1, SubSeqProperties
<1>12. one = [failed |-> FALSE, left |-> left, items |-> <<first>>]
  BY <1>0, <1>3, <1>4, <1>10 DEF TakeItem, Item
<1>13. PICK copies : copies = Smaller(Len(data) - n, m)
  OBVIOUS
<1>14. copies <= Len(left) /\ copies \in Nat
  BY <1>11, <1>13 DEF Smaller
<1>15. PICK second : second = SubSeq(left, 1, copies)
  OBVIOUS
<1>16. both.items = Append(<<first>>, second)
  <2>1. one.left = left /\ one.failed = FALSE /\ one.items = <<first>>
    BY <1>12
  <2>2. q.vlen = TRUE /\ q.len = m
    BY <1>0 DEF VlenItem
  <2>3. ~(Len(one.left) < copies) /\ Smaller(Len(one.left), q.len) = copies
    BY <1>11, <1>13, <1>14, <2>1, <2>2
  <2> QED
    BY <1>4, <1>15, <2>1, <2>2, <2>3, Zenon DEF TakeItem
<1>17. Append(<<first>>, second) = <<first, second>>
  BY AppendOne
<1> QED
  BY <1>0, <1>1, <1>9, <1>10, <1>13, <1>15, <1>16, <1>17

(* One sequence in a row, and two.                                         *)
LEMMA FlattenOne ==
    ASSUME NEW a
    PROVE  FlattenSeq(<<a>>) = a
<1>1. PICK seqs : seqs = <<a>>
  OBVIOUS
<1>2. Len(seqs) = 1 /\ seqs[1] = a
  BY <1>1
<1> DEFINE Rec(h) == h = [i \in 1 .. 1 |-> IF i = 1 THEN seqs[i]
                                           ELSE h[i - 1] \o seqs[i]]
           g == [i \in 1 .. 1 |-> seqs[1]]
<1>3. Rec(g)
  OBVIOUS
<1>4. PICK h : h = CHOOSE x : Rec(x)
  OBVIOUS
<1>5. Rec(h)
  <2> HIDE DEF Rec, g
  <2> QED
    BY <1>3, <1>4
<1>6. FlattenSeq(seqs) = h[1]
  BY <1>2, <1>4 DEF FlattenSeq
<1> QED
  BY <1>1, <1>2, <1>5, <1>6

(* One sequence after the other.                                           *)
LEMMA FlattenTwo ==
    ASSUME NEW a, NEW b
    PROVE  FlattenSeq(<<a, b>>) = a \o b
<1>1. PICK seqs : seqs = <<a, b>>
  OBVIOUS
<1>2. Len(seqs) = 2 /\ seqs[1] = a /\ seqs[2] = b
  BY <1>1
<1>3. PICK ab : ab = a \o b
  OBVIOUS
<1> DEFINE Rec(h) == h = [i \in 1 .. 2 |-> IF i = 1 THEN seqs[i]
                                           ELSE h[i - 1] \o seqs[i]]
           g == [i \in 1 .. 2 |-> IF i = 1 THEN a ELSE ab]
<1>4. Rec(g)
  <2> SUFFICES ASSUME NEW i \in 1 .. 2
               PROVE  g[i] = IF i = 1 THEN seqs[i] ELSE g[i - 1] \o seqs[i]
    OBVIOUS
  <2>1. CASE i = 1
    BY <1>2, <2>1
  <2>2. CASE i = 2
    <3>1. g[1] = a /\ g[2] = ab /\ i - 1 = 1
      BY <2>2
    <3> HIDE DEF g
    <3> QED
      BY <1>2, <1>3, <2>2, <3>1
  <2> QED
    BY <2>1, <2>2
<1>5. PICK h : h = CHOOSE x : Rec(x)
  OBVIOUS
<1>6. Rec(h)
  <2> HIDE DEF Rec, g
  <2> QED
    BY <1>4, <1>5
<1>7. h[2] = ab
  <2>1. h[1] = a
    BY <1>2, <1>6
  <2>2. h[2] = h[2 - 1] \o seqs[2]
    <3>1. 2 \in 1 .. 2 /\ 2 # 1
      OBVIOUS
    <3> QED
      BY <1>6, <3>1
  <2>3. 2 - 1 = 1
    OBVIOUS
  <2> HIDE DEF Rec
  <2> QED
    BY <1>2, <1>3, <2>1, <2>2, <2>3
<1>8. FlattenSeq(seqs) = h[2]
  BY <1>2, <1>5 DEF FlattenSeq
<1> QED
  BY <1>1, <1>3, <1>7, <1>8

(***************************************************************************)
(* Records, and what a write makes of a file.                              *)
(***************************************************************************)

(* What a record, or the beginning of one, is made of.                     *)
LEMMA RecordCells ==
    ASSUME NEW id \in Nat, NEW n \in Nat, NEW k \in 0 .. n
    PROVE  /\ Record(id, n) \in Seq(Cell) /\ Len(Record(id, n)) = n
           /\ SubSeq(Record(id, n), 1, k) \in Seq(Cell)
           /\ Len(SubSeq(Record(id, n), 1, k)) = k
           /\ \A i \in 1 .. n : Record(id, n)[i] = [id |-> id, at |-> i, len |-> n]
           /\ \A i \in 1 .. k : SubSeq(Record(id, n), 1, k)[i] = Record(id, n)[i]
<1>1. PICK r : r = Record(id, n)
  OBVIOUS
<1>2. r \in Seq(Cell) /\ Len(r) = n
  BY <1>1 DEF Record, Cell
<1>3. \A i \in 1 .. n : r[i] = [id |-> id, at |-> i, len |-> n]
  BY <1>1 DEF Record
<1>4. /\ SubSeq(r, 1, k) \in Seq(Cell)
      /\ Len(SubSeq(r, 1, k)) = k
      /\ \A i \in 1 .. k : SubSeq(r, 1, k)[i] = r[i]
  <2>1. \A i \in 1 .. k : r[i] \in Cell
    BY <1>2
  <2>2. Len(SubSeq(r, 1, k)) = IF 1 <= k THEN k - 1 + 1 ELSE 0
    BY <2>1, SubSeqProperties
  <2>3. SubSeq(r, 1, k) \in Seq(Cell)
    BY <2>1, SubSeqProperties
  <2>4. \A i \in 1 .. k - 1 + 1 : SubSeq(r, 1, k)[i] = r[1 + i - 1]
    BY <2>1, SubSeqProperties
  <2> QED
    BY <2>2, <2>3, <2>4
<1> QED
  BY <1>1, <1>2, <1>3, <1>4

(* Records of a kind have their places and at least two cells, three if    *)
(* they are appended.                                                      *)
LEMMA PlacesAndSizes ==
    ASSUME dynamic \in BOOLEAN, file \in Seq(Cell), NEW off \in Places, NEW n \in Sizes
    PROVE  /\ off \in Nat /\ n \in Nat /\ n > 1
           /\ dynamic => off = Len(file) /\ n \in DynSizes /\ n > StructSize + 1
           /\ ~dynamic => n = RecSize
<1>1. CASE dynamic
  BY <1>1, StructSizeAssumption, DynSizesAssumption DEF Places, Sizes
<1>2. CASE ~dynamic
  <2>1. PICK i \in 0 .. MaxRecords - 1 : off = RecSize * i
    BY <1>2 DEF Places
  <2>2. RecSize \in Nat /\ RecSize > 1 /\ i \in Nat
    BY <2>1, RecSizeAssumption, MaxRecordsAssumption
  <2>3. RecSize * i \in Nat
    BY <2>2
  <2> QED
    BY <1>2, <2>1, <2>2, <2>3 DEF Sizes
<1> QED
  BY <1>1, <1>2

(* The file after a write: nothing is lost, and only the cells written and *)
(* the hole before them are new.                                           *)
LEMMA AfterWriting ==
    ASSUME file \in Seq(Cell), NEW off \in Nat, NEW cells \in Seq(Cell)
    PROVE  LET new == FileWith(off, cells)
           IN  /\ new \in Seq(Cell) /\ Len(new) >= Len(file)
               /\ \A i \in 1 .. Len(file) :
                     i <= off \/ i > off + Len(cells) => new[i] = file[i]
               /\ off = Len(file) => Len(new) = Len(file) + Len(cells)
               /\ \A i \in 1 .. Len(cells) :
                     off + i <= Len(new) /\ new[off + i] = cells[i]
<1>1. CASE cells = << >>
  BY <1>1 DEF FileWith
<1>2. CASE cells # << >>
  <2>1. PICK k \in Nat : k = Len(cells) /\ k > 0
    BY <1>2
  <2>2. PICK m \in Nat : m = Larger(Len(file), off + k)
    BY <2>1 DEF Larger
  <2>3. m >= Len(file) /\ m >= off + k /\ (off = Len(file) => m = Len(file) + k)
    BY <2>1, <2>2 DEF Larger
  <2> DEFINE At(i) == IF i > off /\ i <= off + k THEN cells[i - off]
                      ELSE IF i <= Len(file) THEN file[i] ELSE Zero
  <2>4. PICK new : new = [i \in 1 .. m |-> At(i)]
    OBVIOUS
  <2>5. new = FileWith(off, cells)
    BY <1>2, <2>1, <2>2, <2>4 DEF FileWith
  <2>6. Zero \in Cell
    BY DEF Zero, Cell
  <2>7. \A i \in 1 .. m : At(i) \in Cell
    BY <2>1, <2>3, <2>6
  <2>8. new \in Seq(Cell) /\ Len(new) = m
    BY <2>4, <2>7
  <2>9. \A i \in 1 .. m : new[i] = At(i)
    BY <2>4
  <2>10. \A i \in 1 .. Len(file) : i <= off \/ i > off + k => new[i] = file[i]
    BY <2>1, <2>3, <2>9
  <2>11. \A i \in 1 .. k : off + i <= m /\ new[off + i] = cells[i]
    <3> SUFFICES ASSUME NEW i \in 1 .. k
                 PROVE  off + i <= m /\ new[off + i] = cells[i]
      OBVIOUS
    <3>1. off + i \in 1 .. m /\ off + i > off /\ off + i <= off + k
      BY <2>1, <2>3
    <3>2. off + i - off = i
      BY <2>1
    <3> QED
      BY <2>9, <3>1, <3>2
  <2> QED
    BY <2>1, <2>3, <2>5, <2>8, <2>10, <2>11
<1> QED
  BY <1>1, <1>2

(* The cells of a part of a file.                                          *)
LEMMA PartOf ==
    ASSUME NEW f \in Seq(Cell), NEW a \in Nat, NEW n \in Nat, a + n <= Len(f)
    PROVE  /\ SubSeq(f, a + 1, a + n) \in Seq(Cell)
           /\ Len(SubSeq(f, a + 1, a + n)) = n
           /\ \A i \in 1 .. n : SubSeq(f, a + 1, a + n)[i] = f[a + i]
<1>1. \A i \in a + 1 .. a + n : f[i] \in Cell
  OBVIOUS
<1>2. SubSeq(f, a + 1, a + n) \in Seq(Cell)
  BY <1>1, SubSeqProperties
<1>3. Len(SubSeq(f, a + 1, a + n)) = IF a + 1 <= a + n THEN a + n - (a + 1) + 1 ELSE 0
  BY <1>1, SubSeqProperties
<1>4. \A i \in 1 .. a + n - (a + 1) + 1 : SubSeq(f, a + 1, a + n)[i] = f[a + 1 + i - 1]
  BY <1>1, SubSeqProperties
<1>5. \A i \in 1 .. n : SubSeq(f, a + 1, a + n)[i] = f[a + i]
  <2> SUFFICES ASSUME NEW i \in 1 .. n
               PROVE  SubSeq(f, a + 1, a + n)[i] = f[a + i]
    OBVIOUS
  <2>1. i \in 1 .. a + n - (a + 1) + 1 /\ a + 1 + i - 1 = a + i
    OBVIOUS
  <2> QED
    BY <1>4, <2>1
<1> QED
  BY <1>2, <1>3, <1>5

(* A file has a whole record at an offset.                                 *)
WholeIn(f, off, n) == off + n <= Len(f) /\ Valid(SubSeq(f, off + 1, off + n))

(* A file that agrees with another one has the same records there.         *)
LEMMA WholeAgrees ==
    ASSUME NEW f \in Seq(Cell), NEW g \in Seq(Cell), NEW off \in Nat, NEW n \in Nat,
           off + n <= Len(g), \A i \in 1 .. n : g[off + i] = f[off + i],
           WholeIn(f, off, n)
    PROVE  WholeIn(g, off, n)
<1>1. PICK s, t : s = SubSeq(f, off + 1, off + n) /\ t = SubSeq(g, off + 1, off + n)
  OBVIOUS
<1>2. s \in Seq(Cell) /\ Len(s) = n /\ \A i \in 1 .. n : s[i] = f[off + i]
  BY <1>1, PartOf DEF WholeIn
<1>3. t \in Seq(Cell) /\ Len(t) = n /\ \A i \in 1 .. n : t[i] = g[off + i]
  BY <1>1, PartOf
<1>4. s = t
  BY <1>2, <1>3, SeqEqual
<1> QED
  BY <1>1, <1>4 DEF WholeIn

(* A record written is a whole one.                                        *)
LEMMA RecordWhole ==
    ASSUME NEW f \in Seq(Cell), NEW off \in Nat, NEW id \in Nat \ {0}, NEW n \in Nat \ {0},
           off + n <= Len(f), \A i \in 1 .. n : f[off + i] = Record(id, n)[i]
    PROVE  WholeIn(f, off, n)
<1>1. PICK s : s = SubSeq(f, off + 1, off + n)
  OBVIOUS
<1>2. s \in Seq(Cell) /\ Len(s) = n /\ \A i \in 1 .. n : s[i] = f[off + i]
  BY <1>1, PartOf
<1>3. PICK r : r = Record(id, n)
  OBVIOUS
<1>4. r \in Seq(Cell) /\ Len(r) = n /\ r[1].id = id
  <2>1. 0 \in 0 .. n /\ 1 \in 1 .. n
    OBVIOUS
  <2>2. r \in Seq(Cell) /\ Len(r) = n
    BY <1>3, <2>1, RecordCells
  <2>3. r[1] = [id |-> id, at |-> 1, len |-> n]
    BY <1>3, <2>1, RecordCells, ZenonT(60)
  <2> QED
    BY <2>2, <2>3
<1>5. s = r
  <2>1. \A i \in 1 .. n : s[i] = r[i]
    BY <1>2, <1>3, Zenon
  <2> QED
    BY <1>2, <1>4, <2>1, SeqEqual
<1>6. s # << >>
  BY <1>2
<1> QED
  BY <1>1, <1>2, <1>3, <1>4, <1>5, <1>6 DEF WholeIn, Valid

(***************************************************************************)
(* The invariant.                                                          *)
(***************************************************************************)

(* A read that has begun, and what calls return.                           *)
Calls == [pc : {"length", "record"}, from : Nat, at : Nat, left : Nat,
          got : Seq(Cell), darray : DataArrays]

Kinds == {"NONE", "OK", "WRITE", "EOF", "EMPTY_DATA", "READ", "CRC"}
Results == [kind : Kinds, id : Nat, items : Seq(Seq(Cell))]

Types ==
    /\ file \in Seq(Cell) /\ cache \in Seq(Cell)
    /\ cache_size \in CacheSizes \cup {0} /\ cache_offset \in Nat \cup {-1}
    /\ current_offset \in Nat /\ last_offset \in Nat
    /\ dynamic \in BOOLEAN /\ opened \in BOOLEAN /\ f_write_mode \in BOOLEAN
    /\ exposed \in BOOLEAN /\ scan \in BOOLEAN
    /\ writes \in Nat
    /\ op \in Calls \cup {Idle}
    /\ result \in Results

(* cells are what the file holds behind the offset.                        *)
InFile(off, cells) ==
    \A i \in DOMAIN cells : off + i <= Len(file) /\ file[off + i] = cells[i]

(* What a read has gathered, and what is missing: the length first, of a   *)
(* dynamic record, then all the rest of it in one piece; of another one    *)
(* what the blocks of the cache have given.                                *)
Begun ==
    op # Idle =>
        /\ op.at = op.from + Len(op.got)
        /\ op.left > 0
        /\ dynamic \/ ~exposed => InFile(op.from, op.got)
        /\ dynamic =>
              \/ op.pc = "length" /\ op.got = << >> /\ op.left = 1
              \/ /\ op.pc = "record" /\ Len(op.got) = 1
                 /\ op.left = op.got[1].len - 1
        /\ ~dynamic =>
              /\ op.pc = "record"
              /\ Len(op.got) + op.left = RecSize
              /\ op.got # << >> => cache # << >>

(* A dynamic file is not cached and has only cells of appended records.    *)
DynamicFile ==
    dynamic => /\ cache = << >> /\ cache_size = 0
               /\ \A i \in DOMAIN file : file[i].len \in DynSizes

CachePlaced == cache # << >> => cache_offset >= 0

Inv == Types /\ Begun /\ DynamicFile /\ CachePlaced /\ CacheCoherent /\ ScanAligned

(* An error names no record.                                               *)
LEMMA FailIs ==
    ASSUME NEW k \in Kinds
    PROVE  Fail(k) \in Results /\ Fail(k).kind = k /\ Fail(k).id = 0
<1>0. << >> \in Seq(Seq(Cell))
  OBVIOUS
<1>1. PICK none : none = << >> /\ none \in Seq(Seq(Cell))
  BY <1>0
<1>2. Fail(k) = [kind |-> k, id |-> 0, items |-> none]
  BY <1>1 DEF Fail
<1> QED
  BY <1>1, <1>2 DEF Results

(* The invariant has what the runs check.                                  *)
LEMMA InvTypes == Inv => TypeOK
<1> SUFFICES ASSUME Inv PROVE TypeOK
  OBVIOUS
<1>1. CASE op = Idle
  BY <1>1 DEF Inv, Types, Results, Idle, TypeOK
<1>2. CASE op # Idle
  BY <1>2 DEF Inv, Types, Results, Calls, TypeOK
<1> QED
  BY <1>1, <1>2

(* The initial states.                                                     *)
LEMMA InitInv == Init => Inv
<1> SUFFICES ASSUME Init PROVE Inv
  OBVIOUS
<1>1. op = Idle /\ file = << >> /\ cache = << >> /\ result = Fail("NONE")
  BY DEF Init
<1>2. << >> \in Seq(Cell) /\ << >> \in Seq(Seq(Cell))
  OBVIOUS
<1>3. Types
  <2>1. result \in Results
    BY <1>1, FailIs DEF Kinds
  <2>2. 0 \in Nat /\ -1 \in Nat \cup {-1} /\ 0 \in CacheSizes \cup {0}
    OBVIOUS
  <2> QED
    BY <1>1, <1>2, <2>1, <2>2 DEF Init, Types
<1>4. Begun /\ DynamicFile /\ CachePlaced
  BY <1>1 DEF Begun, DynamicFile, CachePlaced, Init
<1>5. CacheCoherent /\ ScanAligned
  BY <1>1 DEF Init, CacheCoherent, ScanAligned
<1> QED
  BY <1>3, <1>4, <1>5 DEF Inv

(* Steps that leave file, cache and reads as they are.                     *)
LEMMA Unmoved ==
    ASSUME Inv, opened' \in BOOLEAN, f_write_mode' \in BOOLEAN,
           UNCHANGED <<fileVars, cacheVars, dynamic, current_offset, last_offset,
                       op, result, scan>>
    PROVE  Inv'
<1>1. Types'
  BY DEF Inv, Types, fileVars, cacheVars, Calls, DataArrays
<1>2. Begun'
  BY DEF Inv, Begun, fileVars, cacheVars, InFile
<1>3. DynamicFile' /\ CachePlaced' /\ CacheCoherent'
  BY DEF Inv, DynamicFile, CachePlaced, CacheCoherent, fileVars, cacheVars
<1>4. ScanAligned'
  BY DEF Inv, ScanAligned, WholeAt, fileVars, cacheVars
<1> QED
  BY <1>1, <1>2, <1>3, <1>4 DEF Inv

(* Without a read in progress only file, cache and scan matter.            *)
LEMMA IdleStep ==
    ASSUME Inv, op = Idle, op' = Idle, Types', DynamicFile', CachePlaced',
           CacheCoherent', ScanAligned'
    PROVE  Inv'
  BY DEF Inv, Begun

(* Opening, with or without truncation.                                    *)
LEMMA OpenInv ==
    ASSUME Inv, NEW wr \in BOOLEAN, NEW truncate \in BOOLEAN, Open(wr, truncate)
    PROVE  Inv'
<1>1. file' \in {file, << >>} /\ cache' = cache /\ dynamic' = dynamic
  BY DEF Open
<1>2. op = Idle /\ op' = Idle /\ scan' = FALSE
  BY DEF Open
<1>3. /\ (exposed \/ (file' # file /\ cache # << >>)) \in BOOLEAN
      /\ exposed \in BOOLEAN
  BY DEF Inv, Types
<1>4. exposed' \in BOOLEAN /\ (~exposed' => ~exposed /\ (file' = file \/ cache = << >>))
  BY <1>3 DEF Open
<1>5. Types'
  <2>1. << >> \in Seq(Cell)
    OBVIOUS
  <2> QED
    BY <1>1, <1>2, <1>4, <2>1 DEF Inv, Types, Open
<1>6. DynamicFile' /\ CachePlaced'
  BY <1>1 DEF Inv, DynamicFile, CachePlaced, Open
<1>7. CacheCoherent'
  BY <1>1, <1>4 DEF Inv, CacheCoherent, Open
<1>8. ScanAligned'
  BY <1>2 DEF ScanAligned
<1> QED
  BY <1>2, <1>5, <1>6, <1>7, <1>8, IdleStep

(* Another size drops the cache.                                           *)
LEMMA SetCacheSizeInv ==
    ASSUME Inv, NEW n \in CacheSizes, SetCacheSize(n)
    PROVE  Inv'
<1>1. op = Idle /\ op' = Idle /\ cache' = << >> /\ cache_offset' = -1
  BY DEF SetCacheSize
<1>2. Types'
  <2>1. << >> \in Seq(Cell)
    OBVIOUS
  <2> QED
    BY <1>1, <2>1 DEF Inv, Types, SetCacheSize, fileVars, modeVars
<1>3. DynamicFile' /\ CachePlaced' /\ CacheCoherent'
  BY <1>1 DEF DynamicFile, CachePlaced, CacheCoherent, SetCacheSize, modeVars
<1>4. ScanAligned'
  BY DEF Inv, ScanAligned, WholeAt, SetCacheSize, fileVars, modeVars
<1> QED
  BY <1>1, <1>2, <1>3, <1>4, IdleStep

(***************************************************************************)
(* Writing.                                                                *)
(***************************************************************************)

(* A record at the end of what is read stays where it is.                  *)
LEMMA ScanStays ==
    ASSUME Inv, file' \in Seq(Cell), Len(file') >= Len(file),
           \A i \in 1 .. Len(file) : file'[i] = file[i],
           dynamic, scan
    PROVE  \E n \in DynSizes : n <= current_offset /\ WholeIn(file', current_offset - n, n)
<1>1. PICK n \in DynSizes : n <= current_offset /\ WholeIn(file, current_offset - n, n)
  BY DEF Inv, ScanAligned, WholeAt, WholeIn
<1>2. n \in Nat /\ current_offset \in Nat /\ file \in Seq(Cell)
  BY DynSizesAssumption DEF Inv, Types
<1>3. PICK off \in Nat : off = current_offset - n
  BY <1>1, <1>2
<1>4. off + n <= Len(file)
  BY <1>1, <1>3 DEF WholeIn
<1>5. \A i \in 1 .. n : file'[off + i] = file[off + i]
  BY <1>2, <1>4
<1>6. WholeIn(file', off, n)
  BY <1>1, <1>2, <1>3, <1>4, <1>5, WholeAgrees
<1> QED
  BY <1>1, <1>3, <1>6

(* A write, cut short or not.                                              *)
LEMMA WriteInv ==
    ASSUME Inv, NEW off \in Places, NEW n \in Sizes, NEW k \in 0 .. n, Write(off, n, k)
    PROVE  Inv'
<1>1. op = Idle /\ op' = Idle /\ UNCHANGED modeVars /\ UNCHANGED <<cache_size, exposed>>
  BY DEF Write
<1>2. /\ file \in Seq(Cell) /\ dynamic \in BOOLEAN /\ writes \in Nat
      /\ cache \in Seq(Cell) /\ cache_offset \in Nat \cup {-1}
  BY DEF Inv, Types
<1>3. /\ off \in Nat /\ n \in Nat /\ n > 1
      /\ dynamic => off = Len(file) /\ n \in DynSizes /\ n > StructSize + 1
  BY <1>2, PlacesAndSizes
<1>4. PICK id \in Nat \ {0} : id = writes + 1
  BY <1>2
<1>5. PICK cells : cells = SubSeq(Record(id, n), 1, k)
  OBVIOUS
<1>6. /\ cells \in Seq(Cell) /\ Len(cells) = k
      /\ \A i \in 1 .. k : cells[i] = Record(id, n)[i] /\ cells[i].len = n
  <2>1. PICK r : r = Record(id, n)
    OBVIOUS
  <2>2. cells \in Seq(Cell) /\ Len(cells) = k
    BY <1>3, <1>5, RecordCells
  <2>3. \A i \in 1 .. k : cells[i] = r[i]
    BY <1>3, <1>5, <2>1, RecordCells
  <2>4. \A i \in 1 .. n : r[i] = [id |-> id, at |-> i, len |-> n]
    BY <1>3, <2>1, RecordCells
  <2>5. \A i \in 1 .. k : i \in 1 .. n
    BY <1>3
  <2>6. \A i \in 1 .. k : r[i].len = n
    <3> SUFFICES ASSUME NEW i \in 1 .. k PROVE r[i].len = n
      OBVIOUS
    <3>1. r[i] = [id |-> id, at |-> i, len |-> n]
      BY <2>4, <2>5
    <3> QED
      BY <3>1
  <2> QED
    BY <2>1, <2>2, <2>3, <2>6
<1>7. /\ file' \in Seq(Cell) /\ Len(file') >= Len(file)
      /\ \A i \in 1 .. Len(file) : i <= off \/ i > off + k => file'[i] = file[i]
      /\ off = Len(file) => Len(file') = Len(file) + k
      /\ \A i \in 1 .. k : off + i <= Len(file') /\ file'[off + i] = cells[i]
  <2>1. file' = FileWith(off, cells)
    BY <1>4, <1>5 DEF Write
  <2> QED
    BY <1>2, <1>3, <1>6, <2>1, AfterWriting
<1>8. \/ cache' = << >> /\ cache_offset' = -1
      \/ /\ cache' = cache /\ cache_offset' = cache_offset
         /\ \/ cache = << >>
            \/ off >= cache_offset + Len(cache)
            \/ off + n <= cache_offset
  <2>1. ClearCache(off, n) /\ (cache # << >> => cache_offset >= 0)
    BY DEF Write, Inv, CachePlaced
  <2> QED
    BY <1>2, <1>3, <2>1 DEF ClearCache, Overlaps
<1>9. /\ \/ k = n /\ current_offset' = off + n /\ result' = Ok(id, << >>)
         \/ k < n /\ current_offset' = current_offset /\ result' = Fail("WRITE")
      /\ scan' \in BOOLEAN
      /\ k < n => (scan' => scan)
  <2>1. scan \in BOOLEAN
    BY DEF Inv, Types
  <2>2. \/ k = n /\ current_offset' = off + n /\ result' = Ok(id, << >>) /\ scan' = TRUE
        \/ k < n /\ result' = Fail("WRITE") /\ current_offset' = current_offset
           /\ scan' = scan
    BY <1>4, Zenon DEF Write
  <2>3. k < n => k # n
    BY <1>3
  <2>4. \/ k = n /\ current_offset' = off + n /\ result' = Ok(id, << >>)
        \/ k < n /\ current_offset' = current_offset /\ result' = Fail("WRITE")
    BY <2>2, Zenon
  <2>5. scan' = TRUE \/ scan' = scan
    BY <2>2, Zenon
  <2>6. scan' \in BOOLEAN
    BY <2>1, <2>5
  <2>7. k < n => scan' = scan
    BY <2>2, <2>3, Zenon
  <2>8. k < n => (scan' => scan)
    BY <2>7, Zenon
  <2> QED
    BY <2>4, <2>6, <2>8, Zenon
<1>10. Types'
  <2>1. result' \in Results
    <3>0. << >> \in Seq(Seq(Cell))
      OBVIOUS
    <3>1. PICK none : none = << >> /\ none \in Seq(Seq(Cell))
      BY <3>0
    <3>2. Ok(id, none) \in Results
      BY <3>1 DEF Ok, Results, Kinds
    <3>3. Fail("WRITE") \in Results
      BY FailIs DEF Kinds
    <3> QED
      BY <1>9, <3>1, <3>2, <3>3
  <2>2. current_offset' \in Nat /\ scan' \in BOOLEAN /\ last_offset' \in Nat
    BY <1>3, <1>9 DEF Inv, Types, Write
  <2>3. cache' \in Seq(Cell) /\ cache_offset' \in Nat \cup {-1}
    <3>1. << >> \in Seq(Cell)
      OBVIOUS
    <3> QED
      BY <1>2, <1>8, <3>1
  <2>4. writes' \in Nat
    BY <1>2 DEF Write
  <2> QED
    BY <1>1, <1>7, <2>1, <2>2, <2>3, <2>4 DEF Inv, Types, modeVars
<1>11. DynamicFile'
  <2> SUFFICES ASSUME dynamic
               PROVE  /\ cache' = << >> /\ cache_size' = 0
                      /\ \A i \in 1 .. Len(file') : file'[i].len \in DynSizes
    BY <1>1, <1>7 DEF DynamicFile, modeVars
  <2>1. cache = << >> /\ cache_size = 0 /\ \A i \in 1 .. Len(file) : file[i].len \in DynSizes
    BY <1>2 DEF Inv, DynamicFile
  <2>2. ASSUME NEW i \in 1 .. Len(file')
        PROVE  file'[i].len \in DynSizes
    <3>1. CASE i <= Len(file)
      BY <1>2, <1>3, <1>7, <2>1, <3>1
    <3>2. CASE i > Len(file)
      <4>1. PICK j \in 1 .. k : i = off + j
        <5>1. i - off \in 1 .. k /\ off + (i - off) = i
          BY <1>2, <1>3, <1>7, <3>2
        <5> QED
          BY <5>1
      <4> QED
        BY <1>3, <1>6, <1>7, <4>1
    <3> QED
      BY <1>2, <1>7, <3>1, <3>2
  <2> QED
    BY <1>1, <1>8, <2>1, <2>2
<1>12. CachePlaced'
  BY <1>8 DEF Inv, CachePlaced
<1>13. CacheCoherent'
  <2> SUFFICES ASSUME ~exposed', NEW i \in DOMAIN cache'
               PROVE  /\ cache_offset' + i <= Len(file')
                      /\ file'[cache_offset' + i] = cache'[i]
    BY DEF CacheCoherent
  <2>1. cache' = cache /\ cache_offset' = cache_offset /\ cache # << >> /\ i \in 1 .. Len(cache)
    BY <1>2, <1>8
  <2>2. /\ cache_offset + i <= Len(file) /\ file[cache_offset + i] = cache[i]
        /\ cache_offset \in Nat
    BY <1>1, <1>2, <2>1 DEF Inv, CacheCoherent, CachePlaced
  <2>3. cache_offset + i <= off \/ cache_offset + i > off + k
    BY <1>3, <1>8, <2>1, <2>2
  <2>4. cache_offset + i \in 1 .. Len(file)
    BY <1>2, <2>1, <2>2
  <2> QED
    BY <1>2, <1>7, <2>1, <2>2, <2>3, <2>4
<1>14. ScanAligned'
  <2> SUFFICES ASSUME dynamic, scan'
               PROVE  \E m \in DynSizes : m <= current_offset' /\
                                          WholeIn(file', current_offset' - m, m)
    BY <1>1 DEF ScanAligned, WholeAt, WholeIn, modeVars
  <2>1. CASE k = n
    <3>1. off + n <= Len(file') /\ \A i \in 1 .. n : file'[off + i] = Record(id, n)[i]
      BY <1>3, <1>6, <1>7, <2>1
    <3>2. WholeIn(file', off, n)
      <4>1. n \in Nat \ {0}
        BY <1>3
      <4> QED
        BY <1>3, <1>4, <1>7, <3>1, <4>1, RecordWhole
    <3>3. current_offset' = off + n /\ off + n - n = off /\ n <= off + n
      BY <1>3, <1>9, <2>1
    <3> QED
      BY <1>3, <3>2, <3>3
  <2>2. CASE k < n
    <3>1. current_offset' = current_offset /\ scan
      BY <1>3, <1>9, <2>2
    <3>2. \A i \in 1 .. Len(file) : file'[i] = file[i]
      BY <1>2, <1>3, <1>7
    <3> QED
      BY <1>7, <3>1, <3>2, ScanStays
  <2> QED
    BY <1>3, <2>1, <2>2
<1> QED
  BY <1>1, <1>10, <1>11, <1>12, <1>13, <1>14, IdleStep

(* The writer in another process, perhaps while a record is being read.    *)
LEMMA ForeignInv ==
    ASSUME Inv, NEW off \in Places, NEW n \in Sizes, Foreign(off, n)
    PROVE  Inv'
<1>1. /\ UNCHANGED modeVars
      /\ UNCHANGED <<cache_size, cache_offset, cache, current_offset, last_offset,
                     op, result, scan>>
  BY DEF Foreign
<1>2. /\ file \in Seq(Cell) /\ dynamic \in BOOLEAN /\ writes \in Nat
      /\ cache \in Seq(Cell) /\ exposed \in BOOLEAN
  BY DEF Inv, Types
<1>3. /\ off \in Nat /\ n \in Nat /\ n > 1
      /\ dynamic => off = Len(file) /\ n \in DynSizes /\ n > StructSize + 1
  BY <1>2, PlacesAndSizes
<1>4. PICK id \in Nat \ {0} : id = writes + 1
  BY <1>2
<1>5. PICK cells : cells = Record(id, n)
  OBVIOUS
<1>6. /\ cells \in Seq(Cell) /\ Len(cells) = n
      /\ \A i \in 1 .. n : cells[i].len = n
  <2>1. 0 \in 0 .. n
    BY <1>3
  <2>2. cells \in Seq(Cell) /\ Len(cells) = n
    BY <1>3, <1>5, <2>1, RecordCells
  <2>3. \A i \in 1 .. n : cells[i] = [id |-> id, at |-> i, len |-> n]
    BY <1>3, <1>5, <2>1, RecordCells
  <2>4. ASSUME NEW i \in 1 .. n PROVE cells[i].len = n
    <3>1. cells[i] = [id |-> id, at |-> i, len |-> n]
      BY <2>3
    <3> QED
      BY <3>1
  <2> QED
    BY <2>2, <2>4
<1>7. /\ file' \in Seq(Cell) /\ Len(file') >= Len(file)
      /\ off = Len(file) => Len(file') = Len(file) + n
      /\ dynamic => \A i \in 1 .. Len(file) : file'[i] = file[i]
      /\ \A i \in 1 .. n : off + i <= Len(file') /\ file'[off + i] = cells[i]
  <2>1. file' = FileWith(off, cells)
    BY <1>4, <1>5 DEF Foreign
  <2>2. \A i \in 1 .. Len(file) : i <= off \/ i > off + n => file'[i] = file[i]
    BY <1>2, <1>3, <1>6, <2>1, AfterWriting
  <2>3. /\ file' \in Seq(Cell) /\ Len(file') >= Len(file)
        /\ off = Len(file) => Len(file') = Len(file) + n
        /\ \A i \in 1 .. n : off + i <= Len(file') /\ file'[off + i] = cells[i]
    BY <1>2, <1>3, <1>6, <2>1, AfterWriting
  <2> QED
    BY <1>2, <1>3, <2>2, <2>3
<1>8. exposed' \in BOOLEAN /\ (~exposed' => ~exposed /\ (dynamic \/ cache = << >>))
  <2>1. (exposed \/ (~dynamic /\ cache # << >>)) \in BOOLEAN
    BY <1>2
  <2> QED
    BY <1>2, <2>1 DEF Foreign
<1>9. Types'
  <2>1. writes' \in Nat
    BY <1>2 DEF Foreign
  <2> QED
    BY <1>1, <1>7, <1>8, <2>1 DEF Inv, Types, modeVars, Calls, DataArrays
<1>10. Begun'
  <2> SUFFICES ASSUME op # Idle
               PROVE  dynamic' \/ ~exposed' => InFile(op.from, op.got)'
    BY <1>1 DEF Inv, Begun, modeVars
  <2>1. op.got \in Seq(Cell) /\ op.from \in Nat
    BY DEF Inv, Types, Calls
  <2>2. CASE dynamic
    <3>1. InFile(op.from, op.got)
      BY <2>2 DEF Inv, Begun
    <3> SUFFICES ASSUME NEW i \in DOMAIN op.got
                 PROVE  op.from + i <= Len(file') /\ file'[op.from + i] = op.got[i]
      BY <1>1 DEF InFile
    <3>2. op.from + i <= Len(file) /\ file[op.from + i] = op.got[i]
      BY <3>1 DEF InFile
    <3>3. op.from + i \in 1 .. Len(file)
      BY <1>2, <2>1, <3>2
    <3> QED
      BY <1>2, <1>7, <2>2, <3>2, <3>3
  <2>3. CASE ~dynamic /\ ~exposed'
    <3>1. op.got = << >>
      BY <1>8, <2>3 DEF Inv, Begun
    <3> QED
      BY <1>1, <3>1 DEF InFile
  <2> QED
    BY <1>1, <2>2, <2>3 DEF modeVars
<1>11. DynamicFile'
  <2> SUFFICES ASSUME dynamic
               PROVE  \A i \in 1 .. Len(file') : file'[i].len \in DynSizes
    BY <1>1, <1>7 DEF Inv, DynamicFile, modeVars
  <2>1. \A i \in 1 .. Len(file) : file[i].len \in DynSizes
    BY <1>2 DEF Inv, DynamicFile
  <2> SUFFICES ASSUME NEW i \in 1 .. Len(file')
               PROVE  file'[i].len \in DynSizes
    OBVIOUS
  <2>2. CASE i <= Len(file)
    BY <1>2, <1>7, <2>1, <2>2
  <2>3. CASE i > Len(file)
    <3>1. PICK j \in 1 .. n : i = off + j
      <4>1. i - off \in 1 .. n /\ off + (i - off) = i
        BY <1>2, <1>3, <1>7, <2>3
      <4> QED
        BY <4>1
    <3> QED
      BY <1>3, <1>6, <1>7, <3>1
  <2> QED
    BY <1>2, <1>7, <2>2, <2>3
<1>12. CachePlaced'
  BY <1>1 DEF Inv, CachePlaced
<1>13. CacheCoherent'
  <2> SUFFICES ASSUME ~exposed'
               PROVE  cache = << >>
    BY <1>1 DEF CacheCoherent
  <2> QED
    BY <1>8 DEF Inv, DynamicFile
<1>14. ScanAligned'
  <2> SUFFICES ASSUME dynamic, scan
               PROVE  \E m \in DynSizes : m <= current_offset /\
                                          WholeIn(file', current_offset - m, m)
    BY <1>1 DEF ScanAligned, WholeAt, WholeIn, modeVars
  <2> QED
    BY <1>7, ScanStays
<1> QED
  BY <1>9, <1>10, <1>11, <1>12, <1>13, <1>14 DEF Inv

(***************************************************************************)
(* What the caller's items get of a record.                                *)
(***************************************************************************)

(* The beginning of a sequence, as the library has it.                     *)
LEMMA Beginning ==
    ASSUME NEW t \in Seq(Cell), NEW s \in Seq(Cell), Len(s) <= Len(t),
           \A i \in 1 .. Len(s) : s[i] = t[i]
    PROVE  IsPrefix(s, t)
<1>1. PICK k \in Nat : k = Len(s)
  OBVIOUS
<1>2. PICK a, b : a = SubSeq(s, 1, k) /\ b = SubSeq(t, 1, k)
  OBVIOUS
<1>3. 0 \in Nat /\ 0 + 1 = 1 /\ 0 + k = k /\ \A i \in 1 .. k : 0 + i = i
  BY <1>1
<1>4. a \in Seq(Cell) /\ Len(a) = k /\ \A i \in 1 .. k : a[i] = s[i]
  <2>1. /\ SubSeq(s, 0 + 1, 0 + k) \in Seq(Cell) /\ Len(SubSeq(s, 0 + 1, 0 + k)) = k
        /\ \A i \in 1 .. k : SubSeq(s, 0 + 1, 0 + k)[i] = s[0 + i]
    BY <1>1, <1>3, PartOf
  <2> QED
    BY <1>2, <1>3, <2>1
<1>5. b \in Seq(Cell) /\ Len(b) = k /\ \A i \in 1 .. k : b[i] = t[i]
  <2>1. /\ SubSeq(t, 0 + 1, 0 + k) \in Seq(Cell) /\ Len(SubSeq(t, 0 + 1, 0 + k)) = k
        /\ \A i \in 1 .. k : SubSeq(t, 0 + 1, 0 + k)[i] = t[0 + i]
    BY <1>1, <1>3, PartOf
  <2> QED
    BY <1>2, <1>3, <2>1
<1>6. a = b
  BY <1>1, <1>4, <1>5, SeqEqual
<1> QED
  BY <1>1, <1>2, <1>6 DEF IsPrefix

(* The first k cells of some data.                                         *)
LEMMA FirstCells ==
    ASSUME NEW t \in Seq(Cell), NEW k \in Nat, k <= Len(t)
    PROVE  /\ SubSeq(t, 1, k) \in Seq(Cell) /\ Len(SubSeq(t, 1, k)) = k
           /\ \A i \in 1 .. k : SubSeq(t, 1, k)[i] = t[i]
<1>1. 0 + 1 = 1 /\ 0 + k = k /\ \A i \in 1 .. k : 0 + i = i
  OBVIOUS
<1>2. /\ SubSeq(t, 0 + 1, 0 + k) \in Seq(Cell) /\ Len(SubSeq(t, 0 + 1, 0 + k)) = k
      /\ \A i \in 1 .. k : SubSeq(t, 0 + 1, 0 + k)[i] = t[0 + i]
  BY PartOf
<1> QED
  BY <1>1, <1>2

(* The items hold the data from the beginning, as far as they have room.   *)
LEMMA ItemsGet ==
    ASSUME dynamic \in BOOLEAN, NEW darray \in DataArrays, NEW data \in Seq(Cell),
           IF dynamic THEN Len(data) >= StructSize ELSE Len(data) = RecSize - 1
    PROVE  LET items == SetFromBuffer(darray, data)
           IN  /\ items \in Seq(Seq(Cell))
               /\ IsPrefix(FlattenSeq(items), data)
               /\ Len(FlattenSeq(items)) = Smaller(Len(data), Size(darray))
<1>1. ASSUME NEW n \in Nat, n <= Len(data), darray = <<Item(n)>>
      PROVE  LET items == SetFromBuffer(darray, data)
             IN  /\ items \in Seq(Seq(Cell))
                 /\ IsPrefix(FlattenSeq(items), data)
                 /\ Len(FlattenSeq(items)) = Smaller(Len(data), Size(darray))
  <2>1. PICK s : s = SubSeq(data, 1, n)
    OBVIOUS
  <2>2. s \in Seq(Cell) /\ Len(s) = n /\ \A i \in 1 .. n : s[i] = data[i]
    BY <1>1, <2>1, FirstCells
  <2>3. IsPrefix(s, data)
    BY <1>1, <2>2, Beginning
  <2>4. SetFromBuffer(darray, data) = <<s>>
    BY <1>1, <2>1, SetOne
  <2>5. FlattenSeq(<<s>>) = s
    BY FlattenOne
  <2>6. Size(darray) = n
    BY <1>1, SizeOne
  <2>7. Smaller(Len(data), n) = n
    BY <1>1 DEF Smaller
  <2>8. <<s>> \in Seq(Seq(Cell))
    BY <2>2
  <2> QED
    BY <2>2, <2>3, <2>4, <2>5, <2>6, <2>7, <2>8
<1>2. ASSUME NEW n \in Nat, NEW m \in Nat, n <= Len(data),
             darray = <<Item(n), VlenItem(m)>>
      PROVE  LET items == SetFromBuffer(darray, data)
             IN  /\ items \in Seq(Seq(Cell))
                 /\ IsPrefix(FlattenSeq(items), data)
                 /\ Len(FlattenSeq(items)) = Smaller(Len(data), Size(darray))
  <2>1. PICK len \in Nat : len = Len(data)
    OBVIOUS
  <2>2. PICK s, left : s = SubSeq(data, 1, n) /\ left = SubSeq(data, n + 1, len)
    OBVIOUS
  <2>3. s \in Seq(Cell) /\ Len(s) = n /\ \A i \in 1 .. n : s[i] = data[i]
    BY <1>2, <2>2, FirstCells
  <2>4. /\ left \in Seq(Cell) /\ Len(left) = len - n
        /\ \A i \in 1 .. len - n : left[i] = data[n + i]
    <3>1. len - n \in Nat
      BY <1>2, <2>1
    <3>2. PICK k \in Nat : k = len - n
      BY <3>1
    <3>3. n + k = len
      BY <2>1, <3>2
    <3>4. /\ SubSeq(data, n + 1, n + k) \in Seq(Cell)
          /\ Len(SubSeq(data, n + 1, n + k)) = k
          /\ \A i \in 1 .. k : SubSeq(data, n + 1, n + k)[i] = data[n + i]
      BY <2>1, <3>3, PartOf
    <3> QED
      BY <2>2, <3>2, <3>3, <3>4
  <2>5. PICK c : c = Smaller(len - n, m)
    OBVIOUS
  <2>6. c \in Nat /\ c <= len - n /\ n + c = Smaller(len, n + m)
    BY <1>2, <2>1, <2>5 DEF Smaller
  <2>7. PICK t : t = SubSeq(left, 1, c)
    OBVIOUS
  <2>8. t \in Seq(Cell) /\ Len(t) = c /\ \A i \in 1 .. c : t[i] = left[i]
    BY <2>4, <2>6, <2>7, FirstCells
  <2>9. PICK st : st = s \o t
    OBVIOUS
  <2>10. /\ st \in Seq(Cell) /\ Len(st) = n + c
         /\ \A i \in 1 .. n + c : st[i] = IF i <= n THEN s[i] ELSE t[i - n]
    BY <2>3, <2>8, <2>9, ConcatProperties, ZenonT(60)
  <2>11. \A i \in 1 .. n + c : st[i] = data[i]
    <3> SUFFICES ASSUME NEW i \in 1 .. n + c
                 PROVE  st[i] = data[i]
      OBVIOUS
    <3>1. CASE i <= n
      BY <2>3, <2>10, <3>1
    <3>2. CASE i > n
      <4>1. PICK j \in 1 .. c : j = i - n
        BY <2>6, <3>2
      <4>2. n + j = i /\ j \in 1 .. len - n
        BY <2>1, <2>6, <4>1
      <4>3. st[i] = t[j] /\ t[j] = left[j] /\ left[j] = data[i]
        BY <2>4, <2>8, <2>10, <3>2, <4>1, <4>2
      <4> QED
        BY <4>3
    <3> QED
      BY <2>6, <3>1, <3>2
  <2>12. IsPrefix(st, data)
    BY <1>2, <2>1, <2>6, <2>10, <2>11, Beginning, SMTT(40)
  <2>13. SetFromBuffer(darray, data) = <<s, t>>
    BY <1>2, <2>1, <2>2, <2>5, <2>7, SetTwo
  <2>14. FlattenSeq(<<s, t>>) = st
    BY <2>9, FlattenTwo
  <2>15. Size(darray) = n + m
    BY <1>2, SizeTwo
  <2>16. <<s, t>> \in Seq(Seq(Cell))
    BY <2>3, <2>8
  <2> QED
    BY <2>1, <2>6, <2>10, <2>12, <2>13, <2>14, <2>15, <2>16
<1>3. CASE dynamic
  <2>1. StructSize \in Nat
    BY StructSizeAssumption
  <2>2. \E m \in BufferSizes : darray = <<Item(StructSize), VlenItem(m)>>
    BY <1>3 DEF DataArrays
  <2> QED
    BY <1>2, <1>3, <2>1, <2>2, BufferSizesAssumption
<1>4. CASE ~dynamic
  <2>1. PICK n \in Nat : n = RecSize - 1
    BY RecSizeAssumption
  <2>2. darray = <<Item(n)>>
    BY <1>4, <2>1 DEF DataArrays
  <2> QED
    BY <1>1, <1>4, <2>1, <2>2
<1> QED
  BY <1>3, <1>4

(***************************************************************************)
(* Reading.                                                                *)
(***************************************************************************)

(* What ReadFinds says of a step.                                          *)
Finds ==
    op # Idle /\ op' = Idle /\ ~exposed =>
        /\ result'.id = RecordAt(op.from)
        /\ result'.kind = "OK" => Delivered(result'.items, result'.id, op.darray)

(* The data of a record is what its length and its CRC leave.              *)
LEMMA PayloadIs ==
    ASSUME dynamic \in BOOLEAN, NEW n \in Sizes, NEW cells \in Seq(Cell), Len(cells) = n
    PROVE  /\ Payload(cells) \in Seq(Cell)
           /\ IF dynamic THEN Len(Payload(cells)) >= StructSize
                         ELSE Len(Payload(cells)) = RecSize - 1
<1>1. CASE dynamic
  <2>1. StructSize \in Nat /\ n \in Nat /\ n >= StructSize + 2
    BY <1>1, StructSizeAssumption, DynSizesAssumption DEF Sizes
  <2>2. \A i \in 2 .. n - 1 : cells[i] \in Cell
    BY <2>1
  <2>3. Payload(cells) = SubSeq(cells, 2, n - 1)
    BY <1>1 DEF Payload
  <2>4. /\ SubSeq(cells, 2, n - 1) \in Seq(Cell)
        /\ Len(SubSeq(cells, 2, n - 1)) = IF 2 <= n - 1 THEN n - 1 - 2 + 1 ELSE 0
    BY <2>1, <2>2, SubSeqProperties
  <2> QED
    BY <1>1, <2>1, <2>3, <2>4
<1>2. CASE ~dynamic
  <2>1. n = RecSize /\ n \in Nat /\ n > 1
    BY <1>2, RecSizeAssumption DEF Sizes
  <2>2. PICK k \in Nat : k = n - 1
    BY <2>1
  <2>3. Payload(cells) = SubSeq(cells, 1, k)
    BY <1>2, <2>2 DEF Payload
  <2> QED
    BY <1>2, <2>1, <2>2, <2>3, FirstCells
<1> QED
  BY <1>1, <1>2

(* What a record read is and what its reader gets.                         *)
LEMMA OutcomeIs ==
    ASSUME dynamic \in BOOLEAN, NEW n \in Sizes, NEW cells \in Seq(Cell), Len(cells) = n,
           n > 1, op.darray \in DataArrays
    PROVE  LET res == Outcome(cells)
           IN  /\ res \in Results
               /\ res.id = IF Valid(cells) THEN cells[1].id ELSE 0
               /\ res.kind = "OK" =>
                     Valid(cells) /\ Delivered(res.items, res.id, op.darray)
<1>1. CASE Valid(cells)
  <2>1. PICK items : items = SetFromBuffer(op.darray, Payload(cells))
    OBVIOUS
  <2>2. PICK id : id = cells[1].id
    OBVIOUS
  <2>3. id \in Nat
    <3>1. cells[1] \in Cell
      OBVIOUS
    <3> QED
      BY <2>2, <3>1 DEF Cell
  <2>4. Outcome(cells) = [kind |-> "OK", id |-> id, items |-> items]
    BY <1>1, <2>1, <2>2 DEF Outcome, Ok
  <2>5. /\ items \in Seq(Seq(Cell))
        /\ IsPrefix(FlattenSeq(items), Payload(cells))
        /\ Len(FlattenSeq(items)) = Smaller(Len(Payload(cells)), Size(op.darray))
    BY <2>1, PayloadIs, ItemsGet
  <2>6. cells = Record(id, n)
    BY <1>1, <2>2 DEF Valid
  <2>7. Delivered(items, id, op.darray)
    BY <2>5, <2>6 DEF Delivered
  <2> QED
    BY <1>1, <2>2, <2>3, <2>4, <2>5, <2>7 DEF Results, Kinds
<1>2. CASE ~Valid(cells)
  <2>1. PICK k \in {"EMPTY_DATA", "CRC"} : Outcome(cells) = Fail(k)
    BY <1>2 DEF Outcome
  <2>2. k \in Kinds /\ k # "OK"
    BY DEF Kinds
  <2> QED
    BY <1>2, <2>1, <2>2, FailIs
<1> QED
  BY <1>1, <1>2

(* A call that returns leaves a sequential reader where it may go on.      *)
LEMMA Ends ==
    ASSUME Inv, NEW res \in Results, NEW offset \in Nat, Return(res, offset),
           UNCHANGED <<fileVars, modeVars, cache_size, exposed>>,
           last_offset' \in Nat,
           cache' \in Seq(Cell), cache_offset' \in Nat \cup {-1},
           DynamicFile', CachePlaced', CacheCoherent',
           res.kind = "OK" /\ dynamic =>
               \E n \in DynSizes : n <= offset /\ WholeIn(file, offset - n, n)
    PROVE  Inv'
<1>1. op' = Idle /\ result' = res /\ current_offset' = offset
  BY DEF Return
<1>2. (res.kind = "OK") \in BOOLEAN
  OBVIOUS
<1>3. scan' \in BOOLEAN /\ (scan' => res.kind = "OK")
  BY <1>2 DEF Return
<1>4. Types'
  BY <1>1, <1>3 DEF Inv, Types, fileVars, modeVars
<1>5. Begun'
  BY <1>1 DEF Begun
<1>6. ScanAligned'
  BY <1>1, <1>3 DEF ScanAligned, WholeAt, WholeIn, fileVars, modeVars
<1> QED
  BY <1>4, <1>5, <1>6 DEF Inv

(* One that fails returns no record.                                       *)
LEMMA Fails ==
    ASSUME Inv, NEW k \in Kinds \ {"OK"}, Return(Fail(k), current_offset),
           UNCHANGED <<fileVars, modeVars, cache_size, exposed>>,
           last_offset' \in Nat,
           cache' \in Seq(Cell), cache_offset' \in Nat \cup {-1},
           DynamicFile', CachePlaced', CacheCoherent',
           op # Idle /\ ~exposed => RecordAt(op.from) = 0
    PROVE  Inv' /\ Finds
<1>1. PICK res : res = Fail(k)
  OBVIOUS
<1>2. res \in Results /\ res.kind = k /\ res.id = 0
  BY <1>1, FailIs
<1>3. Return(res, current_offset) /\ current_offset \in Nat
  BY <1>1 DEF Inv, Types
<1>4. Inv'
  BY <1>2, <1>3, Ends
<1>5. result' = res
  BY <1>3 DEF Return
<1> QED
  BY <1>2, <1>4, <1>5 DEF Finds

(* Where callers ask for records.                                          *)
LEMMA OffsetsType == Inv => Offsets \subseteq Nat
<1> SUFFICES ASSUME Inv, NEW off \in Offsets PROVE off \in Nat
  OBVIOUS
<1>1. CASE dynamic
  BY <1>1 DEF Offsets, Inv, Types
<1>2. CASE ~dynamic
  <2>1. PICK i \in 0 .. MaxRecords - 1 : off = RecSize * i
    BY <1>2 DEF Offsets
  <2>2. RecSize \in Nat /\ i \in Nat
    BY RecSizeAssumption, MaxRecordsAssumption
  <2>3. RecSize * i \in Nat
    BY <2>2
  <2> QED
    BY <2>1, <2>3
<1> QED
  BY <1>1, <1>2

(* The call of read().                                                     *)
LEMMA ReadCallInv ==
    ASSUME Inv, NEW off \in Offsets, NEW darray \in DataArrays, ReadCall(off, darray)
    PROVE  Inv' /\ Finds
<1>1. op = Idle /\ UNCHANGED <<fileVars, cacheVars, modeVars>>
  BY DEF ReadCall
<1>2. off \in Nat
  BY OffsetsType
<1>3. DynamicFile' /\ CachePlaced' /\ CacheCoherent'
  BY <1>1 DEF Inv, DynamicFile, CachePlaced, CacheCoherent, fileVars, cacheVars, modeVars
<1>4. PICK n : n = IF dynamic THEN 1 ELSE Size(darray) + 1
  OBVIOUS
<1>5. n \in Nat /\ n > 0 /\ (dynamic => n = 1) /\ (~dynamic => n = RecSize)
  <2>1. CASE dynamic
    BY <1>4, <2>1
  <2>2. CASE ~dynamic
    <3>1. PICK k \in Nat : k = RecSize - 1 /\ RecSize = k + 1
      BY RecSizeAssumption
    <3>2. darray = <<Item(k)>>
      BY <2>2, <3>1 DEF DataArrays
    <3>3. Size(darray) = k
      BY <3>2, SizeOne
    <3> QED
      BY <1>4, <2>2, <3>1, <3>3
  <2> QED
    BY <2>1, <2>2
<1>6. CASE Return(Fail("EOF"), current_offset) /\ UNCHANGED last_offset
  <2>1. "EOF" \in Kinds \ {"OK"}
    BY DEF Kinds
  <2> QED
    BY <1>1, <1>3, <1>6, <2>1, Fails DEF Inv, Types, cacheVars
<1>7. CASE /\ op' = [pc |-> IF dynamic THEN "length" ELSE "record",
                     from |-> off, at |-> off, left |-> n, got |-> << >>,
                     darray |-> darray]
           /\ last_offset' = IF dynamic THEN off ELSE last_offset
           /\ UNCHANGED <<current_offset, result, scan>>
  <2>1. PICK none \in Seq(Cell) : none = << >> /\ Len(none) = 0
    <3>1. << >> \in Seq(Cell) /\ Len(<< >>) = 0
      OBVIOUS
    <3> QED
      BY <3>1
  <2>2. op' = [pc |-> IF dynamic THEN "length" ELSE "record",
               from |-> off, at |-> off, left |-> n, got |-> none, darray |-> darray]
    BY <1>7, <2>1
  <2>3. op' \in Calls
    BY <1>2, <1>5, <2>2 DEF Calls
  <2>4. op' # Idle
    BY <2>2 DEF Idle
  <2>5. /\ op'.pc = (IF dynamic THEN "length" ELSE "record") /\ op'.from = off
        /\ op'.at = off /\ op'.left = n /\ op'.got = none
    BY <2>2
  <2>6. last_offset' \in Nat
    BY <1>2, <1>7 DEF Inv, Types
  <2>7. Types'
    BY <1>1, <1>7, <2>3, <2>6
       DEF Inv, Types, fileVars, cacheVars, modeVars, Calls, DataArrays
  <2>8. Begun'
    BY <1>1, <1>2, <1>5, <2>1, <2>5 DEF Begun, InFile, modeVars
  <2>9. ScanAligned'
    BY <1>1, <1>7 DEF Inv, ScanAligned, WholeAt, fileVars, modeVars
  <2>10. Inv'
    BY <1>3, <2>7, <2>8, <2>9 DEF Inv
  <2> QED
    BY <2>4, <2>10 DEF Finds
<1> QED
  BY <1>4, <1>6, <1>7 DEF ReadCall

(* What RecordAt finds where a whole record of its kind was read, or not.  *)
LEMMA RecordFound ==
    ASSUME Inv, NEW off \in Nat, NEW n \in Nat, NEW cells \in Seq(Cell), Len(cells) = n,
           n > 0, InFile(off, cells), IF dynamic THEN n = cells[1].len ELSE n = RecSize
    PROVE  /\ off + n <= Len(file)
           /\ WholeIn(file, off, n) <=> Valid(cells)
           /\ RecordAt(off) = IF Valid(cells) THEN cells[1].id ELSE 0
<1>1. file \in Seq(Cell)
  BY DEF Inv, Types
<1>2. /\ off + n <= Len(file)
      /\ \A i \in 1 .. n : file[off + i] = cells[i]
  BY DEF InFile
<1>3. PICK s : s = SubSeq(file, off + 1, off + n)
  OBVIOUS
<1>4. s \in Seq(Cell) /\ Len(s) = n /\ \A i \in 1 .. n : s[i] = file[off + i]
  BY <1>1, <1>2, <1>3, PartOf
<1>5. s = cells
  BY <1>2, <1>4, SeqEqual
<1>6. WholeIn(file, off, n) <=> Valid(cells)
  BY <1>2, <1>3, <1>5 DEF WholeIn
<1>7. file[off + 1] = cells[1] /\ off < Len(file)
  BY <1>1, <1>2
<1>8. RecordAt(off) = IF WholeIn(file, off, n) THEN file[off + 1].id ELSE 0
  BY <1>7 DEF RecordAt, WholeAt, WholeIn
<1> QED
  BY <1>2, <1>6, <1>7, <1>8

(* Cells arrive that are in the file behind those the read has: all that   *)
(* it wants next, or a block of the cache.                                 *)
LEMMA TakesCells ==
    ASSUME Inv, op # Idle, NEW cells \in Seq(Cell), Len(cells) > 0,
           Len(cells) <= op.left, Received(cells),
           UNCHANGED <<fileVars, cacheVars, modeVars, last_offset>>,
           dynamic \/ ~exposed => InFile(op.at, cells),
           dynamic => Len(cells) = op.left,
           Len(cells) = op.left \/ cache # << >>
    PROVE  Inv' /\ Finds
<1>1. /\ op \in Calls /\ op.got \in Seq(Cell) /\ op.from \in Nat /\ op.at \in Nat
      /\ op.left \in Nat /\ op.pc \in {"length", "record"} /\ op.darray \in DataArrays
  BY DEF Inv, Types, Calls
<1>2. /\ op.at = op.from + Len(op.got) /\ op.left > 0
      /\ dynamic \/ ~exposed => InFile(op.from, op.got)
      /\ dynamic => \/ op.pc = "length" /\ op.got = << >> /\ op.left = 1
                    \/ /\ op.pc = "record" /\ Len(op.got) = 1
                       /\ op.left = op.got[1].len - 1
      /\ ~dynamic => op.pc = "record" /\ Len(op.got) + op.left = RecSize
  BY DEF Inv, Begun
<1>3. dynamic \in BOOLEAN /\ exposed \in BOOLEAN /\ file \in Seq(Cell)
  BY DEF Inv, Types
<1>4. PICK got : got = op.got \o cells
  OBVIOUS
<1>5. /\ got \in Seq(Cell) /\ Len(got) = Len(op.got) + Len(cells)
      /\ \A i \in 1 .. Len(op.got) + Len(cells) :
            got[i] = IF i <= Len(op.got) THEN op.got[i] ELSE cells[i - Len(op.got)]
  BY <1>1, <1>4, ConcatProperties
<1>6. PICK n \in Nat : n = Len(got) /\ n > 0
  BY <1>1, <1>5
<1>7. PICK at \in Nat : at = op.at + Len(cells)
  BY <1>1
<1>8. at = op.from + n
  BY <1>1, <1>2, <1>5, <1>6, <1>7
<1>9. PICK left \in Nat : left = op.left - Len(cells)
  <2>1. op.left - Len(cells) \in Nat
    BY <1>1
  <2> QED
    BY <2>1
<1>10. dynamic \/ ~exposed => InFile(op.from, got)
  <2> SUFFICES ASSUME dynamic \/ ~exposed, NEW i \in 1 .. n
               PROVE  op.from + i <= Len(file) /\ file[op.from + i] = got[i]
    BY <1>5, <1>6 DEF InFile
  <2>1. CASE i <= Len(op.got)
    BY <1>1, <1>2, <1>5, <1>6, <2>1 DEF InFile
  <2>2. CASE i > Len(op.got)
    <3>1. PICK j \in 1 .. Len(cells) : j = i - Len(op.got)
      BY <1>1, <1>5, <1>6, <2>2
    <3>2. op.at + j = op.from + i
      BY <1>1, <1>2, <3>1, SMTT(40)
    <3>3. op.at + j <= Len(file) /\ file[op.at + j] = cells[j]
      BY <3>1 DEF InFile
    <3>4. got[i] = cells[j]
      BY <1>1, <1>5, <1>6, <2>2, <3>1
    <3> QED
      BY <3>2, <3>3, <3>4
  <2> QED
    BY <1>1, <2>1, <2>2
<1>11. got[1] \in Cell
  BY <1>5, <1>6
<1>12. PICK rest : rest = got[1].len - 1
  OBVIOUS
<1>13. \/ /\ left > 0
          /\ op' = [op EXCEPT !.at = at, !.left = left, !.got = got]
          /\ UNCHANGED <<current_offset, result, scan>>
       \/ /\ left = 0 /\ op.pc = "length"
          /\ \/ BeyondEnd(at, rest) /\ Return(Fail("EOF"), current_offset)
             \/ /\ op' = [op EXCEPT !.pc = "record", !.at = at, !.left = rest,
                                    !.got = got]
                /\ UNCHANGED <<current_offset, result, scan>>
       \/ left = 0 /\ op.pc = "record" /\ Return(Outcome(got), at)
  BY <1>4, <1>7, <1>9, <1>12 DEF Received
<1>14. DynamicFile' /\ CachePlaced' /\ CacheCoherent'
  BY DEF Inv, DynamicFile, CachePlaced, CacheCoherent, fileVars, cacheVars, modeVars
<1>15. /\ last_offset' \in Nat /\ cache' \in Seq(Cell) /\ cache_offset' \in Nat \cup {-1}
       /\ UNCHANGED <<fileVars, modeVars, cache_size, exposed>>
  BY DEF Inv, Types, cacheVars
<1>16. ASSUME NEW pc \in {"length", "record"}, NEW l \in Nat, l > 0,
              op' = [op EXCEPT !.pc = pc, !.at = at, !.left = l, !.got = got],
              UNCHANGED <<current_offset, result, scan>>,
              dynamic => pc = "record" /\ n = 1 /\ l = got[1].len - 1,
              ~dynamic => pc = "record" /\ n + l = RecSize /\ cache # << >>
       PROVE  Inv' /\ Finds
  <2>1. /\ op' \in Calls /\ op'.pc = pc /\ op'.from = op.from /\ op'.at = at
        /\ op'.left = l /\ op'.got = got
    BY <1>1, <1>5, <1>16 DEF Calls
  <2>2. op' # Idle
    BY <2>1 DEF Idle
  <2>3. Types'
    BY <1>16, <2>1 DEF Inv, Types, fileVars, cacheVars, modeVars, Calls, DataArrays
  <2>4. Begun'
    BY <1>6, <1>8, <1>10, <1>16, <2>1
       DEF Begun, InFile, fileVars, cacheVars, modeVars
  <2>5. ScanAligned'
    BY <1>16 DEF Inv, ScanAligned, WholeAt, fileVars, modeVars
  <2> QED
    BY <1>14, <2>2, <2>3, <2>4, <2>5 DEF Inv, Finds
<1>17. CASE /\ left > 0
            /\ op' = [op EXCEPT !.at = at, !.left = left, !.got = got]
            /\ UNCHANGED <<current_offset, result, scan>>
  <2>1. ~dynamic /\ cache # << >>
    BY <1>1, <1>9, <1>17
  <2>2. op' = [op EXCEPT !.pc = "record", !.at = at, !.left = left, !.got = got]
    BY <1>1, <1>2, <1>17, <2>1 DEF Calls
  <2>3. n + left = RecSize
    BY <1>1, <1>2, <1>5, <1>6, <1>9, <2>1
  <2> QED
    BY <1>16, <1>17, <2>1, <2>2, <2>3, Zenon
<1>18. CASE left = 0 /\ op.pc = "length"
  <2>1. /\ dynamic /\ op.got = << >> /\ n = 1 /\ at = op.from + 1
        /\ got[1] = file[op.from + 1] /\ op.from < Len(file)
    BY <1>1, <1>2, <1>3, <1>5, <1>6, <1>8, <1>9, <1>10, <1>18, SMTT(40) DEF InFile
  <2>2. got[1].len \in DynSizes
    <3>1. op.from + 1 \in DOMAIN file
      BY <1>1, <1>3, <2>1
    <3> QED
      BY <2>1, <3>1 DEF Inv, DynamicFile
  <2>3. rest \in Nat /\ rest > 0 /\ got[1].len = rest + 1
    <3>1. got[1].len \in Nat /\ got[1].len >= StructSize + 2 /\ StructSize \in Nat
      BY <2>2, DynSizesAssumption, StructSizeAssumption
    <3> QED
      BY <1>12, <3>1
  <2>4. CASE BeyondEnd(at, rest) /\ Return(Fail("EOF"), current_offset)
    <3>1. op.from + got[1].len > Len(file)
      BY <1>1, <1>3, <2>1, <2>3, <2>4 DEF BeyondEnd
    <3>2. RecordAt(op.from) = 0
      BY <1>1, <1>3, <2>1, <2>3, <3>1 DEF RecordAt, WholeAt
    <3>3. "EOF" \in Kinds \ {"OK"}
      BY DEF Kinds
    <3> QED
      BY <1>14, <1>15, <2>4, <3>2, <3>3, Fails
  <2>5. CASE /\ op' = [op EXCEPT !.pc = "record", !.at = at, !.left = rest, !.got = got]
             /\ UNCHANGED <<current_offset, result, scan>>
    BY <1>12, <1>16, <2>1, <2>3, <2>5, Zenon
  <2>6. \/ BeyondEnd(at, rest) /\ Return(Fail("EOF"), current_offset)
        \/ /\ op' = [op EXCEPT !.pc = "record", !.at = at, !.left = rest, !.got = got]
           /\ UNCHANGED <<current_offset, result, scan>>
    <3>1. ~(left > 0) /\ op.pc # "record"
      BY <1>18
    <3> QED
      BY <1>13, <3>1
  <2> QED
    BY <2>4, <2>5, <2>6
<1>19. CASE left = 0 /\ op.pc = "record"
  <2>1. PICK res : res = Outcome(got)
    OBVIOUS
  <2>2. Return(res, at)
    BY <1>19, <1>13, <2>1
  <2>3. IF dynamic THEN n = got[1].len ELSE n = RecSize
    <3>1. CASE dynamic
      <4>1. Len(op.got) = 1 /\ op.left = op.got[1].len - 1 /\ Len(cells) = op.left
        BY <1>2, <1>19, <3>1
      <4>2. got[1] = op.got[1] /\ n = 1 + op.left
        BY <1>1, <1>5, <1>6, <4>1
      <4>3. got[1].len \in Nat
        BY <1>11 DEF Cell
      <4> QED
        BY <1>1, <3>1, <4>1, <4>2, <4>3
    <3>2. CASE ~dynamic
      BY <1>1, <1>2, <1>5, <1>6, <1>9, <1>19, <3>2
    <3> QED
      BY <1>3, <3>1, <3>2
  <2>4. n \in Sizes /\ n > 1
    <3>1. CASE dynamic
      <4>1. InFile(op.from, got) /\ 1 \in DOMAIN got
        BY <1>5, <1>6, <1>10, <3>1
      <4>2. got[1] = file[op.from + 1] /\ op.from + 1 \in DOMAIN file
        BY <1>1, <1>3, <4>1 DEF InFile
      <4>3. n \in DynSizes
        BY <2>3, <3>1, <4>2 DEF Inv, DynamicFile
      <4> QED
        BY <3>1, <4>3, DynSizesAssumption, StructSizeAssumption DEF Sizes
    <3>2. CASE ~dynamic
      BY <2>3, <3>2, RecSizeAssumption DEF Sizes
    <3> QED
      BY <1>3, <3>1, <3>2
  <2>5. /\ res \in Results
        /\ res.id = IF Valid(got) THEN got[1].id ELSE 0
        /\ res.kind = "OK" => Valid(got) /\ Delivered(res.items, res.id, op.darray)
    BY <1>1, <1>3, <1>5, <1>6, <2>1, <2>4, OutcomeIs
  <2>6. dynamic \/ ~exposed =>
           /\ WholeIn(file, op.from, n) <=> Valid(got)
           /\ RecordAt(op.from) = IF Valid(got) THEN got[1].id ELSE 0
    BY <1>1, <1>5, <1>6, <1>10, <2>3, RecordFound
  <2>7. Inv'
    <3>1. ASSUME res.kind = "OK", dynamic
          PROVE  \E m \in DynSizes : m <= at /\ WholeIn(file, at - m, m)
      <4>1. n \in DynSizes
        BY <2>4, <3>1 DEF Sizes
      <4>2. WholeIn(file, op.from, n)
        BY <2>5, <2>6, <3>1
      <4>3. n <= at /\ at - n = op.from
        BY <1>1, <1>6, <1>8
      <4> QED
        BY <4>1, <4>2, <4>3
    <3> QED
      BY <1>14, <1>15, <2>2, <2>5, <3>1, Ends
  <2>8. result' = res
    BY <2>2 DEF Return
  <2> QED
    BY <2>5, <2>6, <2>7, <2>8 DEF Finds
<1> QED
  BY <1>17, <1>18, <1>19, <1>13

(* What a system call reads: cells of the file, fewer than asked for only  *)
(* at its end.                                                             *)
LEMMA BlockIs ==
    ASSUME Inv, op # Idle, NEW n \in Nat
    PROVE  /\ Block(n) \in Seq(Cell) /\ Len(Block(n)) <= n
           /\ InFile(op.at, Block(n))
           /\ Len(Block(n)) < n => op.at + n > Len(file)
           /\ n > 0 /\ Block(n) = << >> => op.at >= Len(file)
<1>1. op.at \in Nat /\ file \in Seq(Cell)
  BY DEF Inv, Types, Calls
<1>2. PICK b : b = Block(n)
  OBVIOUS
<1>3. CASE op.at < Len(file)
  <2>1. PICK m : m = Smaller(op.at + n, Len(file))
    OBVIOUS
  <2>2. m - op.at \in Nat /\ m <= Len(file) /\ m <= op.at + n
    BY <1>1, <1>3, <2>1 DEF Smaller
  <2>3. PICK k \in Nat : k = m - op.at
    BY <2>2
  <2>4. /\ op.at + k = m /\ k <= n /\ op.at + k <= Len(file)
        /\ (k < n => op.at + n > Len(file)) /\ (n > 0 => k > 0)
    BY <1>1, <1>3, <2>1, <2>2, <2>3 DEF Smaller
  <2>5. b = SubSeq(file, op.at + 1, op.at + k)
    BY <1>2, <2>1, <2>4 DEF Block
  <2>6. b \in Seq(Cell) /\ Len(b) = k /\ \A i \in 1 .. k : b[i] = file[op.at + i]
    BY <1>1, <2>4, <2>5, PartOf, ZenonT(60)
  <2>7. InFile(op.at, b)
    <3> SUFFICES ASSUME NEW i \in 1 .. k
                 PROVE  op.at + i <= Len(file) /\ file[op.at + i] = b[i]
      BY <2>6 DEF InFile
    <3> QED
      BY <1>1, <2>4, <2>6
  <2> QED
    BY <1>2, <2>4, <2>6, <2>7
<1>4. CASE op.at >= Len(file)
  <2>1. Smaller(op.at + n, Len(file)) = Len(file)
    BY <1>1, <1>4 DEF Smaller
  <2>2. Len(file) < op.at + 1 /\ op.at + 1 \in Int /\ Len(file) \in Int
    BY <1>1, <1>4
  <2>3. b = << >>
    BY <1>2, <2>1, <2>2, SubSeqEmpty DEF Block
  <2>4. b \in Seq(Cell) /\ Len(b) = 0
    BY <2>3
  <2>5. n > 0 => op.at + n > Len(file)
    BY <1>1, <1>4
  <2>6. InFile(op.at, b)
    BY <2>4 DEF InFile
  <2> QED
    BY <1>2, <1>4, <2>4, <2>5, <2>6
<1> QED
  BY <1>1, <1>3, <1>4

(* A read that cannot go on finds no record, since the file ends before it.*)
LEMMA TooShort ==
    ASSUME Inv, op # Idle, op.at + op.left > Len(file)
    PROVE  ~exposed => RecordAt(op.from) = 0
<1> SUFFICES ASSUME ~exposed PROVE RecordAt(op.from) = 0
  OBVIOUS
<1>1. /\ op.got \in Seq(Cell) /\ op.from \in Nat /\ op.at \in Nat /\ op.left \in Nat
      /\ file \in Seq(Cell) /\ dynamic \in BOOLEAN
  BY DEF Inv, Types, Calls
<1>2. op.at = op.from + Len(op.got) /\ InFile(op.from, op.got)
  BY DEF Inv, Begun
<1>3. CASE dynamic /\ op.pc = "length" /\ op.got = << >> /\ op.left = 1
  <2>1. op.from >= Len(file)
    BY <1>1, <1>2, <1>3
  <2> QED
    BY <1>1, <1>3, <2>1 DEF RecordAt, WholeAt
<1>4. CASE dynamic /\ Len(op.got) = 1 /\ op.left = op.got[1].len - 1
  <2>1. 1 \in DOMAIN op.got
    BY <1>1, <1>4
  <2>2. op.from + 1 <= Len(file) /\ file[op.from + 1] = op.got[1]
    BY <1>2, <2>1 DEF InFile
  <2>3. PICK n \in Nat : n = op.got[1].len
    <3>1. op.got[1] \in Cell
      BY <1>1, <2>1
    <3> QED
      BY <3>1 DEF Cell
  <2>4. op.from + n > Len(file) /\ op.from < Len(file)
    BY <1>1, <1>2, <1>4, <2>2, <2>3, SMTT(40)
  <2>5. file[op.from + 1].len = n
    BY <2>2, <2>3
  <2>6. ~WholeAt(op.from, n)
    BY <1>1, <2>4 DEF WholeAt
  <2> QED
    BY <1>4, <2>4, <2>5, <2>6 DEF RecordAt
<1>5. CASE ~dynamic
  <2>1. Len(op.got) + op.left = RecSize
    BY <1>5 DEF Inv, Begun
  <2>2. op.from + RecSize > Len(file) /\ RecSize \in Nat
    BY <1>1, <1>2, <2>1, RecSizeAssumption
  <2>3. ~WholeAt(op.from, RecSize)
    BY <1>1, <2>2 DEF WholeAt
  <2> QED
    BY <1>5, <2>3 DEF RecordAt
<1> QED
  BY <1>1, <1>3, <1>4, <1>5 DEF Inv, Begun

(* Cells out of the cache.                                                 *)
LEMMA TakeFromCacheInv ==
    ASSUME Inv, TakeFromCache
    PROVE  Inv' /\ Finds
<1>1. /\ op # Idle /\ InCache
      /\ UNCHANGED <<fileVars, cacheVars, modeVars, last_offset>>
  BY DEF TakeFromCache
<1>2. /\ op.at \in Nat /\ op.left \in Nat /\ cache \in Seq(Cell) /\ cache_offset \in Int
      /\ file \in Seq(Cell) /\ dynamic \in BOOLEAN /\ exposed \in BOOLEAN
  BY <1>1 DEF Inv, Types, Calls
<1>3. op.left > 0
  BY <1>1 DEF Inv, Begun
<1>4. cache_offset >= 0 /\ op.at >= cache_offset /\ op.at < cache_offset + Len(cache)
  BY <1>1 DEF InCache
<1>5. cache # << >> /\ ~dynamic
  BY <1>2, <1>4 DEF Inv, DynamicFile
<1>6. PICK skip \in Nat : skip = op.at - cache_offset /\ skip < Len(cache)
  <2>1. op.at - cache_offset \in Nat /\ op.at - cache_offset < Len(cache)
    BY <1>2, <1>4
  <2> QED
    BY <2>1
<1>7. PICK m : m = Smaller(skip + op.left, Len(cache))
  OBVIOUS
<1>8. m - skip \in Nat /\ m - skip > 0 /\ m - skip <= op.left /\ m <= Len(cache)
  <2>1. PICK len \in Nat : len = Len(cache)
    BY <1>2
  <2>2. PICK left \in Nat : left = op.left /\ left > 0
    BY <1>2, <1>3
  <2>3. m = Smaller(skip + left, len) /\ skip < len
    BY <1>6, <1>7, <2>1, <2>2
  <2>4. \/ m = len /\ len <= skip + left
        \/ m = skip + left /\ skip + left <= len
    BY <2>3 DEF Smaller
  <2>5. m - skip \in Nat /\ m - skip > 0 /\ m - skip <= left /\ m <= len
    BY <2>2, <2>3, <2>4
  <2> QED
    BY <2>1, <2>2, <2>5
<1>9. PICK k \in Nat : k = m - skip
  BY <1>8
<1>10. skip + k = m /\ k > 0 /\ k <= op.left
  BY <1>6, <1>7, <1>8, <1>9 DEF Smaller
<1>11. PICK cells : cells = SubSeq(cache, skip + 1, skip + k)
  OBVIOUS
<1>12. cells \in Seq(Cell) /\ Len(cells) = k /\ \A i \in 1 .. k : cells[i] = cache[skip + i]
  BY <1>2, <1>8, <1>10, <1>11, PartOf
<1>13. Received(cells)
  BY <1>6, <1>7, <1>10, <1>11 DEF TakeFromCache
<1>14. ~exposed => InFile(op.at, cells)
  <2> SUFFICES ASSUME ~exposed, NEW i \in 1 .. k
               PROVE  op.at + i <= Len(file) /\ file[op.at + i] = cells[i]
    BY <1>12 DEF InFile
  <2>1. skip + i \in DOMAIN cache /\ cache_offset + (skip + i) = op.at + i
    <3>1. PICK len \in Nat : len = Len(cache)
      BY <1>2
    <3>2. skip + i \in 1 .. len
      BY <1>8, <1>10, <3>1
    <3>3. skip + cache_offset = op.at
      BY <1>2, <1>6
    <3> QED
      BY <1>2, <3>1, <3>2, <3>3
  <2>2. /\ cache_offset + (skip + i) <= Len(file)
        /\ file[cache_offset + (skip + i)] = cache[skip + i]
    BY <2>1 DEF Inv, CacheCoherent
  <2> QED
    BY <1>12, <2>1, <2>2
<1> QED
  BY <1>1, <1>5, <1>10, <1>12, <1>13, <1>14, TakesCells

(* A block of the file into the cache.                                     *)
LEMMA FillCacheInv ==
    ASSUME Inv, FillCache
    PROVE  Inv' /\ Finds
<1>1. /\ op # Idle /\ cache_size > 0 /\ cache_offset' = op.at
      /\ UNCHANGED <<fileVars, modeVars, cache_size, exposed, last_offset>>
  BY DEF FillCache
<1>2. /\ op.at \in Nat /\ op.left \in Nat /\ op.from \in Nat /\ op \in Calls
      /\ file \in Seq(Cell) /\ last_offset \in Nat
  BY <1>1 DEF Inv, Types, Calls
<1>3. cache_size \in Nat /\ ~dynamic
  BY <1>1, CacheSizesAssumption DEF Inv, Types, DynamicFile
<1>4. PICK block : block = Block(cache_size)
  OBVIOUS
<1>5. /\ block \in Seq(Cell) /\ InFile(op.at, block)
      /\ block = << >> => op.at >= Len(file)
  BY <1>1, <1>3, <1>4, BlockIs
<1>6. cache' = block
  BY <1>4 DEF FillCache
<1>7. DynamicFile' /\ CachePlaced' /\ CacheCoherent'
  <2>1. DynamicFile'
    BY <1>1, <1>3 DEF DynamicFile, modeVars
  <2>2. CachePlaced'
    BY <1>1, <1>2 DEF CachePlaced
  <2>3. CacheCoherent'
    BY <1>1, <1>5, <1>6 DEF CacheCoherent, InFile, fileVars
  <2> QED
    BY <2>1, <2>2, <2>3
<1>8. CASE cache' # << >> /\ UNCHANGED <<op, result, current_offset, scan>>
  <2>1. Types'
    BY <1>1, <1>2, <1>5, <1>6, <1>8
       DEF Inv, Types, fileVars, modeVars, Calls, DataArrays
  <2>2. Begun'
    BY <1>1, <1>8 DEF Inv, Begun, InFile, fileVars, modeVars
  <2>3. ScanAligned'
    BY <1>1, <1>8 DEF Inv, ScanAligned, WholeAt, fileVars, modeVars
  <2> QED
    BY <1>1, <1>7, <1>8, <2>1, <2>2, <2>3 DEF Inv, Finds
<1>9. CASE cache' = << >> /\ Return(Fail("EMPTY_DATA"), current_offset)
  <2>1. op.left > 0
    BY <1>1 DEF Inv, Begun
  <2>2. op.at + op.left > Len(file)
    BY <1>2, <1>5, <1>6, <1>9, <2>1
  <2>3. ~exposed => RecordAt(op.from) = 0
    BY <1>1, <2>2, TooShort
  <2>4. "EMPTY_DATA" \in Kinds \ {"OK"}
    BY DEF Kinds
  <2>5. cache' \in Seq(Cell) /\ cache_offset' \in Nat \cup {-1} /\ last_offset' \in Nat
    BY <1>1, <1>2, <1>5, <1>6
  <2> QED
    BY <1>1, <1>7, <1>9, <2>3, <2>4, <2>5, Fails
<1> QED
  BY <1>8, <1>9 DEF FillCache

(* The cells wanted next, from the file.                                   *)
LEMMA ReadDirectInv ==
    ASSUME Inv, ReadDirect
    PROVE  Inv' /\ Finds
<1>1. op # Idle /\ UNCHANGED <<fileVars, cacheVars, modeVars, last_offset>>
  BY DEF ReadDirect
<1>2. op.left \in Nat /\ op.left > 0
  BY <1>1 DEF Inv, Types, Calls, Begun
<1>3. PICK cells : cells = Block(op.left)
  OBVIOUS
<1>4. /\ cells \in Seq(Cell) /\ Len(cells) <= op.left /\ InFile(op.at, cells)
      /\ Len(cells) < op.left => op.at + op.left > Len(file)
  BY <1>1, <1>2, <1>3, BlockIs
<1>5. CASE Len(cells) = op.left
  <2>1. Received(cells)
    BY <1>3, <1>5 DEF ReadDirect
  <2> QED
    BY <1>1, <1>2, <1>4, <1>5, <2>1, TakesCells
<1>6. CASE Len(cells) # op.left
  <2>1. PICK k \in {"EMPTY_DATA", "READ"} : Return(Fail(k), current_offset)
    BY <1>3, <1>6 DEF ReadDirect
  <2>2. k \in Kinds \ {"OK"}
    BY DEF Kinds
  <2>3. Len(cells) < op.left
    BY <1>2, <1>4, <1>6
  <2>4. ~exposed => RecordAt(op.from) = 0
    BY <1>1, <1>4, <2>3, TooShort
  <2>5. DynamicFile' /\ CachePlaced' /\ CacheCoherent'
    BY <1>1 DEF Inv, DynamicFile, CachePlaced, CacheCoherent, fileVars, cacheVars, modeVars
  <2>6. /\ cache' \in Seq(Cell) /\ cache_offset' \in Nat \cup {-1} /\ last_offset' \in Nat
        /\ UNCHANGED <<fileVars, modeVars, cache_size, exposed>>
    BY <1>1 DEF Inv, Types, cacheVars
  <2> QED
    BY <1>1, <2>1, <2>2, <2>4, <2>5, <2>6, Fails
<1> QED
  BY <1>5, <1>6

(* The invariant is inductive, and every step finds what it should.        *)
LEMMA NextInv == ASSUME Inv, [Next]_vars PROVE Inv' /\ Finds
<1>1. ASSUME NEW wr \in BOOLEAN, NEW truncate \in BOOLEAN, Open(wr, truncate)
      PROVE  Inv' /\ Finds
  BY <1>1, OpenInv DEF Open, Finds
<1>2. CASE Close
  <2>1. opened' \in BOOLEAN /\ f_write_mode' \in BOOLEAN
    BY <1>2 DEF Close
  <2> QED
    BY <1>2, <2>1, Unmoved DEF Close, Finds
<1>3. ASSUME NEW wr \in BOOLEAN, SetFlags(wr)
      PROVE  Inv' /\ Finds
  <2>1. opened' \in BOOLEAN /\ f_write_mode' \in BOOLEAN
    BY <1>3 DEF SetFlags, Inv, Types
  <2> QED
    BY <1>3, <2>1, Unmoved DEF SetFlags, Finds
<1>4. ASSUME NEW n \in CacheSizes, SetCacheSize(n)
      PROVE  Inv' /\ Finds
  BY <1>4, SetCacheSizeInv DEF SetCacheSize, Finds
<1>5. ASSUME NEW off \in Places, NEW n \in Sizes, NEW k \in 0 .. n, Write(off, n, k)
      PROVE  Inv' /\ Finds
  BY <1>5, WriteInv DEF Write, Finds
<1>6. ASSUME NEW off \in Places, NEW n \in Sizes, Foreign(off, n)
      PROVE  Inv' /\ Finds
  BY <1>6, ForeignInv DEF Foreign, Finds
<1>7. ASSUME NEW off \in Offsets, NEW darray \in DataArrays, ReadCall(off, darray)
      PROVE  Inv' /\ Finds
  BY <1>7, ReadCallInv
<1>8. CASE TakeFromCache
  BY <1>8, TakeFromCacheInv
<1>9. CASE FillCache
  BY <1>9, FillCacheInv
<1>10. CASE ReadDirect
  BY <1>10, ReadDirectInv
<1>11. CASE UNCHANGED vars
  <2>1. opened' \in BOOLEAN /\ f_write_mode' \in BOOLEAN
    BY <1>11 DEF vars, Inv, Types
  <2>2. UNCHANGED <<fileVars, cacheVars, dynamic, current_offset, last_offset,
                    op, result, scan>>
    BY <1>11 DEF vars, fileVars, cacheVars
  <2> QED
    BY <2>1, <2>2, Unmoved DEF Finds
<1> QED
  BY <1>1, <1>2, <1>3, <1>4, <1>5, <1>6, <1>7, <1>8, <1>9, <1>10, <1>11 DEF Next

(* The invariant holds in every behaviour.                                 *)
LEMMA Invariant == Spec => []Inv
<1>1. Inv /\ [Next]_vars => Inv'
  BY NextInv
<1> QED
  BY <1>1, InitInv, PTL DEF Spec

(***************************************************************************)
(* What follows.                                                           *)
(***************************************************************************)

(* File, cache, work area and results keep their types, for records,       *)
(* buffers and caches of any size.                                         *)
THEOREM TypeCorrect == Spec => []TypeOK
  BY InvTypes, Invariant, PTL

(* The cache holds what the file holds until somebody else writes in       *)
(* place: own writes drop it when they touch it, torn ones too, and no     *)
(* closing, opening or truncation leaves cells in it that are gone.        *)
THEOREM CacheStaysCoherent == Spec => []CacheCoherent
<1>1. Inv => CacheCoherent
  BY DEF Inv
<1> QED
  BY <1>1, Invariant, PTL

(* After a record was read or written the current offset is where a whole  *)
(* record ends, so that readNext goes on with the next one.                *)
THEOREM ScanStaysAligned == Spec => []ScanAligned
<1>1. Inv => ScanAligned
  BY DEF Inv
<1> QED
  BY <1>1, Invariant, PTL

(* read() returns the record that is in the file at its offset, and an     *)
(* error only if there is none, over however many blocks of the cache it   *)
(* runs and whatever another process appends meanwhile; and the items of   *)
(* the caller hold that record from its beginning, as far as they go.      *)
THEOREM ReadsFind == Spec => ReadFinds
<1>1. Inv /\ [Next]_vars =>
         (op # Idle /\ op' = Idle /\ ~exposed =>
            /\ result'.id = RecordAt(op.from)
            /\ result'.kind = "OK" =>
                   Delivered(result'.items, result'.id, op.darray))
  BY NextInv DEF Finds
<1> QED
  BY <1>1, Invariant, PTL DEF Spec, ReadFinds
=============================================================================
