------------------------- MODULE SafeListenerProofs -------------------------
(***************************************************************************)
(* Proofs of the safety properties of SafeListener, for any number of      *)
(* clients, descriptors and requests, and any sizes that its assumptions   *)
(* allow.                                                                  *)
(*                                                                         *)
(* The invariant has six parts.  Types and Descriptors let the actions be  *)
(* reasoned about; AcceptedOnce keeps the streams of two clients apart.    *)
(* Streams is the heart: what a connection holds, buffer and socket, says  *)
(* of every two of its words how far apart they are, so that a read, which *)
(* moves words between the two, and onRequest, which drops as many as the  *)
(* second of them says, keep it.  Buffers bounds what was read, Covered    *)
(* follows an event from the socket to the ready list, from there to       *)
(* epoll_wait's answer, and from there to the handler.                     *)
(***************************************************************************)
EXTENDS SafeListener, SequenceTheorems, WellFoundedInduction, TLAPS

-----------------------------------------------------------------------------
(* Streams.                                                                *)

(* s holds what client c, of which cl says what it did, sent after its     *)
(* first h requests.  Word by word: where a word is says which word it is  *)
(* from any word before it, of the same request or the one before.         *)
InStream(c, cl, h, s) ==
    LET n == Len(cl.lens)
    IN  /\ h <= n
        /\ s = << >> => h = n /\ (n = 0 \/ cl.words = cl.lens[n])
        /\ s # << >> => /\ s[1] = Word(c, h + 1, 1, Huge)
                        /\ s[Len(s)] = Word(c, n, cl.words, cl.lens[n])
        /\ \A i \in 1 .. Len(s) :
               /\ s[i].request \in 1 .. n
               /\ s[i].at \in 1 .. cl.lens[s[i].request]
        /\ \A i, j \in 1 .. Len(s) :
               i <= j /\ s[i].at + (j - i) <= cl.lens[s[i].request] =>
                   s[j] = Word(c, s[i].request, s[i].at + (j - i), cl.lens[s[i].request])
        /\ \A i, j \in 1 .. Len(s) :
               i <= j /\ s[i].at + (j - i) = cl.lens[s[i].request] + 1 =>
                   s[j] = Word(c, s[i].request + 1, 1, Huge)

(* What a client that has begun n requests and sent w words of the last    *)
(* may have done.                                                          *)
Record == [state : {"idle", "connected", "closed"}, lens : Seq(Lens), words : Nat]
Sending(cl) == IF cl.lens = << >> THEN cl.words = 0
               ELSE cl.words \in 1 .. cl.lens[Len(cl.lens)]

(* A length has the header in it, and the header the length.               *)
LEMMA LenBounds == \A n \in Lens : n \in Nat /\ n >= HeaderLen /\ n >= 2 /\ n < Huge
  BY LensAssumption, SizesAssumption

(* The fields of a word.                                                   *)
LEMMA WordFields ==
  ASSUME NEW c, NEW k, NEW i, NEW len
  PROVE  /\ Word(c, k, i, len).of = c
         /\ Word(c, k, i, len).request = k
         /\ Word(c, k, i, len).at = i
         /\ i = 2 => Word(c, k, i, len).len = len
  BY DEF Word

(* The first word of a request does not tell its length.                   *)
LEMMA FirstWord ==
  ASSUME NEW c, NEW k, NEW len
  PROVE  Word(c, k, 1, len) = Word(c, k, 1, Huge)
  BY DEF Word

(* A client that is in the midst of a request sends the next word of it.   *)
LEMMA StreamGoesOn ==
  ASSUME NEW c, NEW cl \in Record, NEW h \in Nat, NEW s \in Seq(WordType),
         Sending(cl), InStream(c, cl, h, s),
         cl.lens # << >>, cl.words < cl.lens[Len(cl.lens)],
         NEW cl2 \in Record, cl2.lens = cl.lens, cl2.words = cl.words + 1
  PROVE  InStream(c, cl2, h,
                  Append(s, Word(c, Len(cl.lens), cl.words + 1, cl.lens[Len(cl.lens)])))
<1> DEFINE n == Len(cl.lens)
           L == cl.lens[n]
           a == cl.words
           w == Word(c, n, a + 1, L)
           t == Append(s, w)
<1>1. n \in Nat /\ n >= 1 /\ L \in Nat /\ L >= 2 /\ a \in Nat /\ a >= 1 /\ a < L
      /\ \A k \in 1 .. n : cl.lens[k] \in Nat
  BY LenBounds DEF Record, Sending
<1>2. s # << >>
  BY <1>1 DEF InStream
<1>3. Len(s) \in Nat /\ Len(s) >= 1 /\ Len(t) = Len(s) + 1 /\ t # << >>
      /\ t[Len(t)] = w /\ \A i \in 1 .. Len(s) : t[i] = s[i]
  BY <1>2
<1>4. s[Len(s)] = Word(c, n, a, L) /\ s[1] = Word(c, h + 1, 1, Huge) /\ h <= n
  BY <1>2 DEF InStream
<1>5. \A i \in 1 .. Len(s) : s[i].request \in 1 .. n /\ s[i].at \in 1 .. cl.lens[s[i].request]
  BY DEF InStream
<1>6. \A i, j \in 1 .. Len(s) :
          i <= j /\ s[i].at + (j - i) <= cl.lens[s[i].request] =>
              s[j] = Word(c, s[i].request, s[i].at + (j - i), cl.lens[s[i].request])
  BY DEF InStream
<1>7. \A i, j \in 1 .. Len(s) :
          i <= j /\ s[i].at + (j - i) = cl.lens[s[i].request] + 1 =>
              s[j] = Word(c, s[i].request + 1, 1, Huge)
  BY DEF InStream
<1>5a. \A i \in 1 .. Len(s) : s[i].request \in Nat /\ s[i].at \in Nat
                               /\ cl.lens[s[i].request] \in Nat
  BY <1>1, <1>5, SMTT(40)
<1>8. w.request = n /\ w.at = a + 1 /\ s[Len(s)].request = n /\ s[Len(s)].at = a
  BY <1>4, WordFields
<1> HIDE DEF n, L, a, w, t
<1>9. ASSUME NEW i \in 1 .. Len(s), NEW d \in Nat, d = Len(s) + 1 - i,
             s[i].at + d <= cl.lens[s[i].request] + 1
      PROVE  s[i].request = n /\ s[i].at + d = a + 1 /\ a + 1 <= L
             /\ cl.lens[s[i].request] = L
  <2>1. Len(s) \in 1 .. Len(s) /\ i <= Len(s) /\ Len(s) - i = d - 1
    BY <1>3, <1>9
  <2>2. PICK r \in Nat : r = s[i].request /\ r \in 1 .. n
    BY <1>5, <1>1
  <2>3. PICK p \in Nat : p = s[i].at
    BY <1>5, <2>2, <1>1
  <2>4. PICK m \in Nat : m = cl.lens[r]
    BY <2>2, <1>1
  <2>5. p + (d - 1) <= m
    <3>1. p + d <= m + 1
      BY <1>9, <2>2, <2>3, <2>4
    <3> QED BY <3>1
  <2>6. s[Len(s)] = Word(c, r, p + (Len(s) - i), m)
    BY <2>1, <2>2, <2>3, <2>4, <2>5, <1>6
  <2>7. r = n /\ p + (d - 1) = a
    BY <2>6, <2>1, <1>8, WordFields, SMTT(40)
  <2>8. m = L
    BY <2>7, <2>4 DEF L
  <2>9. p + d = a + 1 /\ a + 1 <= L
    BY <2>7, <1>1
  <2> QED BY <2>7, <2>8, <2>9, <2>2, <2>3, <2>4
<1>10. ASSUME NEW i \in 1 .. Len(t)
       PROVE  t[i].request \in 1 .. n /\ t[i].at \in 1 .. cl.lens[t[i].request]
  <2>1. CASE i = Len(t)
    BY <2>1, <1>3, <1>8, <1>1 DEF L
  <2>2. CASE i # Len(t)
    BY <2>2, <1>3, <1>5
  <2> QED BY <2>1, <2>2
<1>11. ASSUME NEW i \in 1 .. Len(t), NEW j \in 1 .. Len(t), i <= j,
              t[i].at + (j - i) <= cl.lens[t[i].request]
       PROVE  t[j] = Word(c, t[i].request, t[i].at + (j - i), cl.lens[t[i].request])
  <2>1. CASE j # Len(t)
    <3>1. i \in 1 .. Len(s) /\ j \in 1 .. Len(s)
      BY <2>1, <1>3, <1>11
    <3>2. t[i] = s[i] /\ t[j] = s[j]
      BY <3>1, <1>3
    <3> QED BY <3>1, <3>2, <1>6, <1>11
  <2>2. CASE j = Len(t) /\ i = j
    <3>1. j - i = 0 /\ t[i] = w /\ cl.lens[t[i].request] = L
      BY <2>2, <1>3, <1>8 DEF L
    <3>2. t[i].at + (j - i) = a + 1
      BY <3>1, <1>8, <1>1
    <3> QED BY <3>1, <3>2, <1>8 DEF w
  <2>3. CASE j = Len(t) /\ i # j
    <3>1. i \in 1 .. Len(s) /\ j - i \in Nat /\ j - i = Len(s) + 1 - i
      BY <2>3, <1>3, <1>11
    <3>2. s[i].at + (j - i) <= cl.lens[s[i].request] /\ t[i] = s[i]
      BY <3>1, <1>11, <1>3
    <3>3. PICK d \in Nat : d = j - i
      BY <3>1
    <3>4. PICK p \in Nat, m \in Nat : p = s[i].at /\ m = cl.lens[s[i].request]
      BY <3>1, <1>5a
    <3>5a. p + d <= m
      BY <3>2, <3>3, <3>4, Zenon
    <3>5. p + d <= m + 1
      BY <3>5a
    <3>6. s[i].request = n /\ s[i].at + d = a + 1 /\ cl.lens[s[i].request] = L
      BY <3>1, <3>3, <3>4, <3>5, <1>9
    <3>7. t[i].request = n /\ t[i].at + (j - i) = a + 1 /\ cl.lens[t[i].request] = L
      BY <3>2, <3>3, <3>6
    <3>8. t[j] = w
      BY <2>3, <1>3
    <3> QED BY <3>7, <3>8, Zenon DEF w
  <2> QED BY <2>1, <2>2, <2>3
<1>12. ASSUME NEW i \in 1 .. Len(t), NEW j \in 1 .. Len(t), i <= j,
              t[i].at + (j - i) = cl.lens[t[i].request] + 1
       PROVE  t[j] = Word(c, t[i].request + 1, 1, Huge)
  <2>1. CASE j # Len(t)
    <3>1. i \in 1 .. Len(s) /\ j \in 1 .. Len(s)
      BY <2>1, <1>3, <1>12
    <3>2. t[i] = s[i] /\ t[j] = s[j]
      BY <3>1, <1>3
    <3> QED BY <3>1, <3>2, <1>7, <1>12
  <2>2. CASE j = Len(t) /\ i = j
    <3>1. t[i].request \in 1 .. n /\ t[i].at \in 1 .. cl.lens[t[i].request]
      BY <1>10, Zenon
    <3>2. PICK m \in Nat : m = cl.lens[t[i].request]
      BY <3>1, <1>1
    <3>3. PICK p \in Nat : p = t[i].at /\ p <= m
      BY <3>1, <3>2
    <3>4. j - i = 0
      BY <2>2, <1>3
    <3>5. p + 0 = m + 1
      BY <3>2, <3>3, <3>4, <1>12
    <3> QED BY <3>3, <3>5
  <2>3. CASE j = Len(t) /\ i # j
    <3>1. i \in 1 .. Len(s) /\ j - i \in Nat /\ j - i = Len(s) + 1 - i
      BY <2>3, <1>3, <1>12
    <3>2. s[i].at + (j - i) = cl.lens[s[i].request] + 1
      BY <3>1, <1>12, <1>3
    <3>3. PICK d \in Nat : d = j - i
      BY <3>1
    <3>4. PICK p \in Nat, m \in Nat : p = s[i].at /\ m = cl.lens[s[i].request]
      BY <3>1, <1>5a
    <3>5a. p + d = m + 1
      BY <3>2, <3>3, <3>4, Zenon
    <3>5. p + d <= m + 1
      BY <3>5a
    <3>6. s[i].at + d = a + 1 /\ a + 1 <= L /\ cl.lens[s[i].request] = L
      BY <3>1, <3>3, <3>4, <3>5, <1>9
    <3>7. m = L /\ m + 1 = a + 1
      BY <3>4, <3>5a, <3>6
    <3> QED BY <3>7, <3>6, <3>4, <1>1
  <2> QED BY <2>1, <2>2, <2>3
<1>13. t[1] = Word(c, h + 1, 1, Huge)
  BY <1>3, <1>4
<1>14. Len(cl2.lens) = n /\ cl2.lens = cl.lens /\ cl2.words = a + 1 /\ cl2.lens[n] = L
  BY DEF n, a, L
<1>15. t[Len(t)] = Word(c, n, cl2.words, cl2.lens[n])
  BY <1>3, <1>14 DEF w
<1>16. InStream(c, cl2, h, t)
  BY <1>3, <1>4, <1>10, <1>11, <1>12, <1>13, <1>14, <1>15 DEF InStream
<1> QED BY <1>16 DEF t, w, L, a, n

(* A client between two requests begins the next one.                      *)
LEMMA StreamBegins ==
  ASSUME NEW c, NEW cl \in Record, NEW h \in Nat, NEW s \in Seq(WordType),
         Sending(cl), InStream(c, cl, h, s),
         cl.lens = << >> \/ cl.words = cl.lens[Len(cl.lens)],
         NEW len \in Lens,
         NEW cl2 \in Record, cl2.lens = Append(cl.lens, len), cl2.words = 1
  PROVE  InStream(c, cl2, h, Append(s, Word(c, Len(cl.lens) + 1, 1, len)))
<1> DEFINE n == Len(cl.lens)
           w == Word(c, n + 1, 1, len)
           t == Append(s, w)
<1>1. n \in Nat /\ Len(cl2.lens) = n + 1 /\ cl2.lens[n + 1] = len /\ len \in Nat /\ len >= 2
      /\ \A k \in 1 .. n : cl2.lens[k] = cl.lens[k] /\ cl.lens[k] \in Nat
  BY LenBounds DEF Record
<1>2. Len(s) \in Nat /\ Len(t) = Len(s) + 1 /\ t # << >> /\ t \in Seq(WordType) \cup {t}
      /\ t[Len(t)] = w /\ \A i \in 1 .. Len(s) : t[i] = s[i]
  OBVIOUS
<1>3. h <= n /\ (s = << >> => h = n)
      /\ (s # << >> => s[1] = Word(c, h + 1, 1, Huge) /\ s[Len(s)] = Word(c, n, cl.words, cl.lens[n]))
  BY DEF InStream
<1>4. \A i \in 1 .. Len(s) : s[i].request \in 1 .. n /\ s[i].at \in 1 .. cl.lens[s[i].request]
  BY DEF InStream
<1>5. \A i \in 1 .. Len(s) : s[i].request \in Nat /\ s[i].at \in Nat
                              /\ cl.lens[s[i].request] \in Nat
                              /\ cl2.lens[s[i].request] = cl.lens[s[i].request]
  BY <1>1, <1>4, SMTT(40)
<1>6. \A i, j \in 1 .. Len(s) :
          i <= j /\ s[i].at + (j - i) <= cl.lens[s[i].request] =>
              s[j] = Word(c, s[i].request, s[i].at + (j - i), cl.lens[s[i].request])
  BY DEF InStream
<1>7. \A i, j \in 1 .. Len(s) :
          i <= j /\ s[i].at + (j - i) = cl.lens[s[i].request] + 1 =>
              s[j] = Word(c, s[i].request + 1, 1, Huge)
  BY DEF InStream
<1>8. w.request = n + 1 /\ w.at = 1 /\ w = Word(c, n + 1, 1, Huge)
  BY WordFields, FirstWord
<1>9. cl2.words = 1 /\ t[Len(t)] = Word(c, n + 1, cl2.words, cl2.lens[n + 1])
  BY <1>1, <1>2
<1>10. n # 0 => cl.words = cl.lens[n]
  BY <1>1 DEF Record
<1> HIDE DEF n, w, t
<1>11. ASSUME NEW i \in 1 .. Len(s), NEW d \in Nat, d = Len(s) + 1 - i,
              s[i].at + d <= cl.lens[s[i].request] + 1
       PROVE  s[i].request = n /\ s[i].at + d = cl.lens[s[i].request] + 1
  <2>1. Len(s) \in 1 .. Len(s) /\ i <= Len(s) /\ Len(s) - i = d - 1 /\ s # << >>
    BY <1>2, <1>11
  <2>2. PICK r \in Nat : r = s[i].request /\ r \in 1 .. n
    BY <1>4, <1>5, <1>1
  <2>3. PICK p \in Nat : p = s[i].at
    BY <1>5
  <2>4. PICK m \in Nat : m = cl.lens[r]
    BY <2>2, <1>1
  <2>5. p + (d - 1) <= m
    <3>1. p + d <= m + 1
      BY <1>11, <2>2, <2>3, <2>4
    <3> QED BY <3>1
  <2>6. s[Len(s)] = Word(c, r, p + (Len(s) - i), m)
    BY <2>1, <2>2, <2>3, <2>4, <2>5, <1>6
  <2>7. s[Len(s)] = Word(c, n, cl.words, cl.lens[n])
    BY <2>1, <1>3
  <2>8a. s[Len(s)].request = r /\ s[Len(s)].at = p + (Len(s) - i)
    BY <2>6, WordFields
  <2>8b. s[Len(s)].request = n /\ s[Len(s)].at = cl.words
    BY <2>7, WordFields
  <2>8. r = n /\ p + (d - 1) = cl.words
    BY <2>8a, <2>8b, <2>1
  <2>9. cl.words = m
    BY <2>8, <2>2, <2>4, <1>10
  <2>10. p + d = m + 1
    BY <2>8, <2>9
  <2> QED BY <2>8, <2>10, <2>2, <2>3, <2>4
<1>12. ASSUME NEW i \in 1 .. Len(t)
       PROVE  t[i].request \in 1 .. (n + 1) /\ t[i].at \in 1 .. cl2.lens[t[i].request]
  <2>1. CASE i = Len(t)
    BY <2>1, <1>1, <1>2, <1>8
  <2>2. CASE i # Len(t)
    <3>1. i \in 1 .. Len(s) /\ t[i] = s[i]
      BY <2>2, <1>2
    <3>2. s[i].request \in 1 .. n /\ s[i].at \in 1 .. cl2.lens[s[i].request]
      BY <3>1, <1>4, <1>5
    <3> QED BY <3>1, <3>2, <1>1
  <2> QED BY <2>1, <2>2
<1>13. ASSUME NEW i \in 1 .. Len(t), NEW j \in 1 .. Len(t), i <= j,
              t[i].at + (j - i) <= cl2.lens[t[i].request]
       PROVE  t[j] = Word(c, t[i].request, t[i].at + (j - i), cl2.lens[t[i].request])
  <2>1. CASE j # Len(t)
    <3>1. i \in 1 .. Len(s) /\ j \in 1 .. Len(s)
      BY <2>1, <1>2, <1>13
    <3>2. t[i] = s[i] /\ t[j] = s[j] /\ cl2.lens[t[i].request] = cl.lens[s[i].request]
      BY <3>1, <1>2, <1>5
    <3> QED BY <3>1, <3>2, <1>6, <1>13
  <2>2. CASE j = Len(t) /\ i = j
    <3>1. j - i = 0 /\ t[i] = w /\ t[j] = w /\ cl2.lens[t[i].request] = len
      BY <2>2, <1>1, <1>2, <1>8
    <3>2. t[i].at + (j - i) = 1 /\ t[i].request = n + 1
      BY <3>1, <1>8
    <3> QED BY <3>1, <3>2 DEF w
  <2>3. CASE j = Len(t) /\ i # j
    <3>1. i \in 1 .. Len(s) /\ j - i \in Nat /\ j - i = Len(s) + 1 - i
      BY <2>3, <1>2, <1>13
    <3>2. s[i].at + (j - i) <= cl.lens[s[i].request] /\ t[i] = s[i]
      BY <3>1, <1>13, <1>2, <1>5
    <3>3. PICK d \in Nat : d = j - i
      BY <3>1
    <3>4. PICK p \in Nat, m \in Nat : p = s[i].at /\ m = cl.lens[s[i].request]
      BY <3>1, <1>5
    <3>5a. p + d <= m
      BY <3>2, <3>3, <3>4, Zenon
    <3>5. p + d <= m + 1
      BY <3>5a
    <3>6. s[i].at + d = cl.lens[s[i].request] + 1
      BY <3>1, <3>3, <3>4, <3>5, <1>11
    <3>7. p + d = m + 1
      BY <3>4, <3>6
    <3> QED BY <3>7, <3>5a
  <2> QED BY <2>1, <2>2, <2>3
<1>14. ASSUME NEW i \in 1 .. Len(t), NEW j \in 1 .. Len(t), i <= j,
              t[i].at + (j - i) = cl2.lens[t[i].request] + 1
       PROVE  t[j] = Word(c, t[i].request + 1, 1, Huge)
  <2>1. CASE j # Len(t)
    <3>1. i \in 1 .. Len(s) /\ j \in 1 .. Len(s)
      BY <2>1, <1>2, <1>14
    <3>2. t[i] = s[i] /\ t[j] = s[j] /\ cl2.lens[t[i].request] = cl.lens[s[i].request]
      BY <3>1, <1>2, <1>5
    <3> QED BY <3>1, <3>2, <1>7, <1>14
  <2>2. CASE j = Len(t) /\ i = j
    <3>1. j - i = 0 /\ t[i] = w /\ cl2.lens[t[i].request] = len
      BY <2>2, <1>1, <1>2, <1>8
    <3>2. 1 + 0 = len + 1
      BY <3>1, <1>14, <1>8
    <3> QED BY <3>2, <1>1
  <2>3. CASE j = Len(t) /\ i # j
    <3>1. i \in 1 .. Len(s) /\ j - i \in Nat /\ j - i = Len(s) + 1 - i
      BY <2>3, <1>2, <1>14
    <3>2. s[i].at + (j - i) = cl.lens[s[i].request] + 1 /\ t[i] = s[i]
      BY <3>1, <1>14, <1>2, <1>5
    <3>3. PICK d \in Nat : d = j - i
      BY <3>1
    <3>4. PICK p \in Nat, m \in Nat : p = s[i].at /\ m = cl.lens[s[i].request]
      BY <3>1, <1>5
    <3>5a. p + d = m + 1
      BY <3>2, <3>3, <3>4, Zenon
    <3>5. p + d <= m + 1
      BY <3>5a
    <3>6. s[i].request = n
      BY <3>1, <3>3, <3>4, <3>5, <1>11
    <3> QED BY <3>2, <3>6, <2>3, <1>2, <1>8
  <2> QED BY <2>1, <2>2, <2>3
<1>15. t[1] = Word(c, h + 1, 1, Huge) /\ h <= n + 1
  <2>1. CASE s = << >>
    BY <2>1, <1>1, <1>2, <1>3, <1>8
  <2>2. CASE s # << >>
    BY <2>2, <1>1, <1>2, <1>3
  <2> QED BY <2>1, <2>2
<1>16. InStream(c, cl2, h, t)
  BY <1>1, <1>2, <1>9, <1>12, <1>13, <1>14, <1>15 DEF InStream
<1> QED BY <1>16 DEF t, w, n

(* The words at the head of a stream are those of the next request.        *)
LEMMA StreamRequest ==
  ASSUME NEW c, NEW cl \in Record, NEW h \in Nat, NEW s \in Seq(WordType),
         InStream(c, cl, h, s), s # << >>
  PROVE  /\ h + 1 \in 1 .. Len(cl.lens) /\ cl.lens[h + 1] \in Lens
         /\ \A i \in 1 .. Len(s) :
                i <= cl.lens[h + 1] => s[i] = Word(c, h + 1, i, cl.lens[h + 1])
<1>1. Len(s) \in Nat /\ 1 \in 1 .. Len(s) /\ Len(cl.lens) \in Nat
  BY DEF Record
<1>2. s[1].request = h + 1 /\ s[1].at = 1 /\ s[1].request \in 1 .. Len(cl.lens)
  BY <1>1, WordFields DEF InStream
<1>3. PICK m \in Lens : m = cl.lens[h + 1]
  BY <1>2 DEF Record
<1>4. ASSUME NEW i \in 1 .. Len(s), i <= m
      PROVE  s[i] = Word(c, h + 1, i, m)
  <2>1. PICK d \in Nat : d = i - 1
    BY <1>1
  <2>2. 1 + d <= m /\ 1 <= i /\ 1 + d = i
    BY <2>1, <1>4, <1>1
  <2>3. s[1].at + (i - 1) <= cl.lens[s[1].request]
    BY <2>1, <2>2, <1>2, <1>3
  <2>4. s[i] = Word(c, s[1].request, s[1].at + (i - 1), cl.lens[s[1].request])
    BY <2>2, <2>3, <1>1 DEF InStream
  <2>5. s[1].at + (i - 1) = i
    BY <2>1, <2>2, <1>2
  <2> QED BY <2>4, <2>5, <1>2, <1>3
<1> QED BY <1>2, <1>3, <1>4

(* When the whole next request is taken from a stream the rest goes on     *)
(* after it.                                                               *)
LEMMA StreamShift ==
  ASSUME NEW c, NEW cl \in Record, NEW h \in Nat,
         NEW b \in Seq(WordType), NEW d \in Seq(WordType),
         InStream(c, cl, h, b \o d), b # << >>, Len(b) = cl.lens[h + 1]
  PROVE  InStream(c, cl, h + 1, d)
<1> DEFINE s == b \o d
           n == Len(cl.lens)
           L == Len(b)
<1>1. L \in Nat /\ L >= 1 /\ Len(d) \in Nat /\ Len(s) = L + Len(d) /\ n \in Nat
      /\ s # << >> /\ s \in Seq(WordType) /\ \A i \in 1 .. Len(d) : d[i] = s[L + i]
  <2>1. n \in Nat
    BY DEF Record
  <2>2. L \in Nat /\ L >= 1 /\ Len(d) \in Nat
    OBVIOUS
  <2>3. s \in Seq(WordType) /\ Len(s) = L + Len(d)
    OBVIOUS
  <2>4. \A i \in 1 .. Len(d) : d[i] = s[L + i]
    BY SMTT(40)
  <2> HIDE DEF s, L
  <2>5. s # << >>
    BY <2>2, <2>3
  <2> QED BY <2>1, <2>2, <2>3, <2>4, <2>5
<1>2. h + 1 \in 1 .. n /\ cl.lens[h + 1] = L
      /\ \A i \in 1 .. Len(s) : i <= L => s[i] = Word(c, h + 1, i, L)
  <2>1. InStream(c, cl, h, s) /\ s \in Seq(WordType) /\ s # << >>
    BY <1>1
  <2>2. cl.lens[h + 1] = L
    OBVIOUS
  <2> HIDE DEF s
  <2>3. /\ h + 1 \in 1 .. Len(cl.lens)
        /\ \A i \in 1 .. Len(s) :
               i <= cl.lens[h + 1] => s[i] = Word(c, h + 1, i, cl.lens[h + 1])
    BY <2>1, StreamRequest
  <2> QED BY <2>2, <2>3
<1>3. \A i \in 1 .. Len(s) : s[i].request \in 1 .. n /\ s[i].at \in 1 .. cl.lens[s[i].request]
  BY DEF InStream
<1>4. \A i, j \in 1 .. Len(s) :
          i <= j /\ s[i].at + (j - i) <= cl.lens[s[i].request] =>
              s[j] = Word(c, s[i].request, s[i].at + (j - i), cl.lens[s[i].request])
  BY DEF InStream
<1>5. \A i, j \in 1 .. Len(s) :
          i <= j /\ s[i].at + (j - i) = cl.lens[s[i].request] + 1 =>
              s[j] = Word(c, s[i].request + 1, 1, Huge)
  BY DEF InStream
<1>6. s[Len(s)] = Word(c, n, cl.words, cl.lens[n])
  BY <1>1 DEF InStream
<1> HIDE DEF s, n, L
<1>7. s[L] = Word(c, h + 1, L, L)
  BY <1>1, <1>2
<1>8. d = << >> => h + 1 = n /\ cl.words = cl.lens[n]
  <2>1. SUFFICES ASSUME d = << >> PROVE h + 1 = n /\ cl.words = cl.lens[n]
    OBVIOUS
  <2>2. Len(s) = L
    BY <1>1, <2>1
  <2> QED BY <2>2, <1>2, <1>6, <1>7, WordFields
<1>9. d # << >> => d[1] = Word(c, (h + 1) + 1, 1, Huge) /\ d[Len(d)] = Word(c, n, cl.words, cl.lens[n])
  <2>1. SUFFICES ASSUME d # << >>
                 PROVE  d[1] = Word(c, (h + 1) + 1, 1, Huge)
                        /\ d[Len(d)] = Word(c, n, cl.words, cl.lens[n])
    OBVIOUS
  <2>2. Len(d) >= 1 /\ d[1] = s[L + 1] /\ d[Len(d)] = s[Len(s)]
    BY <1>1, <2>1
  <2>3. L \in 1 .. Len(s) /\ L + 1 \in 1 .. Len(s) /\ L <= L + 1 /\ (L + 1) - L = 1
    BY <1>1, <2>2
  <2>4. s[L].at + ((L + 1) - L) = cl.lens[s[L].request] + 1 /\ s[L].request = h + 1
    BY <2>3, <1>2, <1>7, <1>1, WordFields
  <2>5. s[L + 1] = Word(c, s[L].request + 1, 1, Huge)
    BY <2>3, <2>4, <1>5
  <2> QED BY <2>2, <2>4, <2>5, <1>6
<1>10. ASSUME NEW i \in 1 .. Len(d)
       PROVE  d[i].request \in 1 .. n /\ d[i].at \in 1 .. cl.lens[d[i].request]
  <2>1. L + i \in 1 .. Len(s) /\ d[i] = s[L + i]
    BY <1>1
  <2> QED BY <2>1, <1>3
<1>11. ASSUME NEW i \in 1 .. Len(d), NEW j \in 1 .. Len(d)
       PROVE  /\ L + i \in 1 .. Len(s) /\ L + j \in 1 .. Len(s)
              /\ d[i] = s[L + i] /\ d[j] = s[L + j]
              /\ (L + j) - (L + i) = j - i /\ (i <= j => L + i <= L + j)
  BY <1>1
<1>12. ASSUME NEW i \in 1 .. Len(d), NEW j \in 1 .. Len(d), i <= j,
              d[i].at + (j - i) <= cl.lens[d[i].request]
       PROVE  d[j] = Word(c, d[i].request, d[i].at + (j - i), cl.lens[d[i].request])
  <2>1. PICK i2 \in 1 .. Len(s), j2 \in 1 .. Len(s) :
            d[i] = s[i2] /\ d[j] = s[j2] /\ j2 - i2 = j - i /\ i2 <= j2
    BY <1>11, <1>12, ZenonT(60)
  <2> QED BY <2>1, <1>4, <1>12
<1>13. ASSUME NEW i \in 1 .. Len(d), NEW j \in 1 .. Len(d), i <= j,
              d[i].at + (j - i) = cl.lens[d[i].request] + 1
       PROVE  d[j] = Word(c, d[i].request + 1, 1, Huge)
  <2>1. PICK i2 \in 1 .. Len(s), j2 \in 1 .. Len(s) :
            d[i] = s[i2] /\ d[j] = s[j2] /\ j2 - i2 = j - i /\ i2 <= j2
    BY <1>11, <1>13
  <2> QED BY <2>1, <1>5, <1>13
<1>14. h + 1 <= n /\ n = Len(cl.lens)
  BY <1>1, <1>2 DEF n
<1> QED BY <1>8, <1>9, <1>10, <1>12, <1>13, <1>14 DEF InStream

(* What a stream says of neighbours.                                       *)
LEMMA StreamNeighbours ==
  ASSUME NEW c, NEW cl \in Record, NEW h \in Nat, NEW s \in Seq(WordType),
         InStream(c, cl, h, s), NEW i \in 1 .. Len(s) - 1
  PROVE  s[i + 1] = IF s[i].at < cl.lens[s[i].request]
                    THEN Word(c, s[i].request, s[i].at + 1, cl.lens[s[i].request])
                    ELSE Word(c, s[i].request + 1, 1, Huge)
<1>1. i \in 1 .. Len(s) /\ i + 1 \in 1 .. Len(s) /\ (i + 1) - i = 1 /\ i <= i + 1
  OBVIOUS
<1>2. s[i].request \in 1 .. Len(cl.lens) /\ s[i].at \in 1 .. cl.lens[s[i].request]
  BY <1>1 DEF InStream
<1>3. PICK m \in Nat : m = cl.lens[s[i].request]
  BY <1>2, LenBounds DEF Record
<1>4. PICK p \in Nat : p = s[i].at /\ p <= m
  BY <1>2, <1>3
<1>5. CASE p < m
  <2>1. s[i].at + ((i + 1) - i) <= cl.lens[s[i].request]
    BY <1>1, <1>3, <1>4, <1>5
  <2>2. s[i + 1] = Word(c, s[i].request, s[i].at + ((i + 1) - i), cl.lens[s[i].request])
    BY <1>1, <2>1 DEF InStream
  <2> QED BY <2>2, <1>1, <1>3, <1>4, <1>5
<1>6. CASE p = m
  <2>1. s[i].at + ((i + 1) - i) = cl.lens[s[i].request] + 1
    BY <1>1, <1>3, <1>4, <1>6
  <2>2. s[i + 1] = Word(c, s[i].request + 1, 1, Huge)
    BY <1>1, <2>1 DEF InStream
  <2> QED BY <2>2, <1>3, <1>4, <1>6
<1> QED BY <1>4, <1>5, <1>6
-----------------------------------------------------------------------------
(* The inductive invariant.                                                *)

SockType == [data : Seq(WordType), fin : BOOLEAN, rst : BOOLEAN]
ConnType == [made : BOOLEAN, buf : Seq(WordType), dsize : Nat]
ThreadType == [pc : {"wait", "events", "accept", "data"},
               events : SUBSET [fd : Fds \cup {Listening}, hup : BOOLEAN],
               fd : Fds \cup {Listening}]

(* The types of the state.                                                 *)
Types ==
    /\ client \in [Clients -> Record]
    /\ sock \in [Clients -> SockType]
    /\ backlog \in Seq(Clients)
    /\ fds \in [Fds -> Clients \cup {NoOne}]
    /\ ready \subseteq Fds \cup {Listening}
    /\ connections \in [Fds -> ConnType]
    /\ thread \in ThreadType
    /\ handled \in [Clients -> Nat]
    /\ fresh \subseteq Clients
    /\ starved \in BOOLEAN
    /\ begun \in 0 .. MaxRequests
    /\ \A c \in Clients : Len(client[c].lens) <= begun /\ Sending(client[c])

(* What the thread goes by: events and the ready list name open            *)
(* descriptors, no descriptor has two events, and data is read from an     *)
(* open one.                                                               *)
Descriptors ==
    /\ \A e \in thread.events :
           /\ e.fd # Listening => fds[e.fd] # NoOne
           /\ e.hup => e.fd # Listening
    /\ \A e1, e2 \in thread.events : e1.fd = e2.fd => e1 = e2
    /\ \A fd \in ready : fd # Listening => fds[fd] # NoOne
    /\ thread.pc = "data" => thread.fd # Listening /\ fds[thread.fd] # NoOne
    /\ thread.pc = "wait" => thread.events = {}

(* A client that has not been accepted.                                    *)
Unaccepted(c) == client[c].state = "idle" \/ \E i \in 1 .. Len(backlog) : backlog[i] = c

(* Each client is accepted once, and has one descriptor at most.           *)
AcceptedOnce ==
    /\ \A i, j \in 1 .. Len(backlog) : backlog[i] = backlog[j] => i = j
    /\ \A i \in 1 .. Len(backlog) : client[backlog[i]].state # "idle"
    /\ \A c \in Clients :
           Unaccepted(c) => handled[c] = 0 /\ c \notin fresh /\ \A fd \in Fds : fds[fd] # c
    /\ \A fd1, fd2 \in Fds : fds[fd1] # NoOne /\ fds[fd1] = fds[fd2] => fd1 = fd2

(* The streams, before accept and after.                                   *)
Streams ==
    /\ \A c \in Clients : Unaccepted(c) => InStream(c, client[c], 0, sock[c].data)
    /\ \A fd \in Fds :
           fds[fd] \in fresh =>
               InStream(fds[fd], client[fds[fd]], handled[fds[fd]],
                        connections[fd].buf \o sock[fds[fd]].data)
    /\ \A c \in fresh : handled[c] <= Len(client[c].lens)

(* The buffers: room for what they hold, which is part of a header or of   *)
(* what the header says.                                                   *)
Buffers ==
    \A fd \in Fds :
        LET buf == connections[fd].buf
        IN  /\ Len(buf) <= connections[fd].dsize
            /\ Len(buf) >= HeaderLen => Len(buf) <= buf[2].len

(* What there is to do is on the ready list, among the events, or what the *)
(* thread is about to do.                                                  *)
Covered ==
    /\ \A fd \in Fds :
           fds[fd] # NoOne =>
               /\ sock[fds[fd]].data # << >> =>
                      \/ fd \in ready
                      \/ \E e \in thread.events : e.fd = fd
                      \/ thread.pc = "data" /\ thread.fd = fd
               /\ sock[fds[fd]].rst =>
                      fd \in ready \/ \E e \in thread.events : e.fd = fd /\ e.hup
    /\ backlog # << >> =>
           \/ Listening \in ready
           \/ \E e \in thread.events : e.fd = Listening
           \/ thread.pc = "accept"
           \/ starved

Invariant == Types /\ Descriptors /\ AcceptedOnce /\ Streams /\ Buffers /\ Covered

-----------------------------------------------------------------------------
(* Facts about sequences and sets.                                         *)

(* A set of natural numbers with an element has a least one.               *)
LEMMA LeastElement ==
  ASSUME NEW S \in SUBSET Nat, S # {}
  PROVE  \E n \in S : \A m \in S : n <= m
<1>1. IsWellFoundedOn(OpToRel(<, Nat), Nat)
  BY NatLessThanWellFounded, Zenon
<1>2. PICK n \in S : \A m \in S : ~ (<<m, n>> \in OpToRel(<, Nat))
  BY <1>1, WFMin, Zenon
<1>3. \A m \in S : ~ (m < n)
  BY <1>2 DEF OpToRel
<1> QED BY <1>3

(* The descriptor of a new connection is a free one.                       *)
LEMMA NewFdIsFree ==
  ASSUME Free # {}
  PROVE  NewFd \in Fds /\ fds[NewFd] = NoOne
<1>1. Free \in SUBSET Nat
  BY DEF Free, Fds
<1>2. \E fd \in Free : \A other \in Free : fd <= other
  BY <1>1, LeastElement
<1>3. NewFd \in Free
  BY <1>2 DEF NewFd
<1> QED BY <1>3 DEF Free

(* What the buffer takes from the socket stays in the stream.              *)
LEMMA ReadKeepsStream ==
  ASSUME NEW b \in Seq(WordType), NEW d \in Seq(WordType), NEW n \in 1 .. Len(d)
  PROVE  /\ SubSeq(d, 1, n) \in Seq(WordType) /\ Len(SubSeq(d, 1, n)) = n
         /\ SubSeq(d, n + 1, Len(d)) \in Seq(WordType)
         /\ (b \o SubSeq(d, 1, n)) \o SubSeq(d, n + 1, Len(d)) = b \o d
<1>1. SubSeq(d, 1, n) \in Seq(WordType) /\ Len(SubSeq(d, 1, n)) = n
  OBVIOUS
<1>2. SubSeq(d, n + 1, Len(d)) \in Seq(WordType)
  OBVIOUS
<1>3. SubSeq(d, 1, n) \o SubSeq(d, n + 1, Len(d)) = d
  OBVIOUS
<1>4. PICK t \in Seq(WordType), u \in Seq(WordType) : t = SubSeq(d, 1, n) /\ u = SubSeq(d, n + 1, Len(d))
  BY <1>1, <1>2
<1>5. (b \o t) \o u = b \o (t \o u)
  BY ConcatAssociative, SMTT(40)
<1> QED BY <1>1, <1>2, <1>3, <1>4, <1>5

(* A word that a client sends comes to the end of the stream.              *)
LEMMA SendExtendsStream ==
  ASSUME NEW S, NEW b \in Seq(S), NEW d \in Seq(S), NEW w \in S
  PROVE  b \o Append(d, w) = Append(b \o d, w)
  OBVIOUS

(* What is left of a queue when its head leaves.                           *)
LEMMA HeadLeaves ==
  ASSUME NEW S, NEW q \in Seq(S), q # << >>
  PROVE  /\ Head(q) \in S /\ Head(q) = q[1] /\ 1 \in 1 .. Len(q)
         /\ Tail(q) \in Seq(S) /\ Len(Tail(q)) = Len(q) - 1
         /\ \A i \in 1 .. Len(Tail(q)) : i + 1 \in 1 .. Len(q) /\ Tail(q)[i] = q[i + 1]
  OBVIOUS

(* The buffer grows to as much as it has to.                               *)
LEMMA GrownEnough ==
  ASSUME NEW dsize \in Nat, NEW size \in Nat
  PROVE  Grown(dsize, size) \in Nat /\ Grown(dsize, size) >= size
<1>1. CASE dsize >= size
  BY <1>1 DEF Grown
<1>2. CASE ~ (dsize >= size)
  <2> DEFINE q == size \div BlockSize
             r == size % BlockSize
  <2>1. BlockSize \in Nat /\ BlockSize >= 1
    BY SizesAssumption
  <2>2. q \in Nat /\ r \in Nat /\ r < BlockSize /\ size = q * BlockSize + r
    BY <2>1
  <2>3. Grown(dsize, size) = (q + IF r # 0 THEN 1 ELSE 0) * BlockSize
    BY <1>2 DEF Grown
  <2> HIDE DEF q, r
  <2>4. CASE r = 0
    BY <2>1, <2>2, <2>3, <2>4
  <2>5. CASE r # 0
    <3>1. (q + 1) * BlockSize = q * BlockSize + BlockSize /\ q * BlockSize \in Nat
      BY <2>1, <2>2
    <3> QED BY <3>1, <2>1, <2>2, <2>3, <2>5
  <2> QED BY <2>4, <2>5
<1> QED BY <1>1, <1>2

-----------------------------------------------------------------------------
(* Types.                                                                  *)

(* A connection of the descriptor, old or new, has its type.               *)
LEMMA AddConnectionType ==
  ASSUME Types, NEW fd \in Fds
  PROVE  AddConnection(fd) \in ConnType
  BY SizesAssumption DEF Types, ConnType, AddConnection

(* The word that a client sends next is one.                               *)
LEMMA NextWordType ==
  ASSUME NEW c \in Clients, NEW k \in 1 .. MaxRequests, NEW i \in Nat, NEW len \in Lens
  PROVE  Word(c, k, i, len) \in WordType
  BY DEF Word, WordType

(* What one word more makes of a client, of its socket and of the count of *)
(* requests: it is in the request begun, or begins one.                    *)
LEMMA SendCases ==
  ASSUME Types, NEW c \in Clients, NEW len \in Lens, Send(c, len)
  PROVE  \E k \in 1 .. MaxRequests, i \in Nat, cl2 \in Record :
             /\ client' = [client EXCEPT ![c] = cl2]
             /\ sock' = [sock EXCEPT ![c].data = Append(@, Word(c, k, i, len))]
             /\ cl2.state = client[c].state /\ cl2.words = i
             /\ \/ /\ client[c].lens # << >>
                   /\ client[c].words < client[c].lens[Len(client[c].lens)]
                   /\ len = client[c].lens[Len(client[c].lens)]
                   /\ k = Len(client[c].lens) /\ i = client[c].words + 1
                   /\ cl2.lens = client[c].lens /\ begun' = begun
                \/ /\ client[c].lens = << >> \/ client[c].words = client[c].lens[Len(client[c].lens)]
                   /\ k = Len(client[c].lens) + 1 /\ i = 1
                   /\ cl2.lens = Append(client[c].lens, len)
                   /\ begun' = begun + 1 /\ begun < MaxRequests
<1>1. client \in [Clients -> Record] /\ begun \in 0 .. MaxRequests /\ client[c] \in Record
      /\ Len(client[c].lens) <= begun /\ Sending(client[c])
  BY DEF Types
<1> DEFINE cl == client[c]
           n == Len(cl.lens)
<1>2. n \in Nat /\ cl.lens \in Seq(Lens) /\ cl.words \in Nat /\ MaxRequests \in Nat
      /\ (cl.lens = << >> <=> n = 0)
  BY <1>1, SizesAssumption DEF Record
<1> DEFINE going == SentWhole(c) < n
           k == IF going THEN n ELSE n + 1
           i == IF going THEN cl.words + 1 ELSE 1
           ls == IF going THEN cl.lens ELSE Append(cl.lens, len)
           cl2 == [state |-> cl.state, lens |-> ls, words |-> i]
<1>4. sock' = [sock EXCEPT ![c].data = Append(@, Word(c, k, i, len))]
  BY Zenon DEF Send
<1>5. begun' = IF going THEN begun ELSE begun + 1
  BY Zenon DEF Send
<1>6. IF going THEN len = cl.lens[n] ELSE begun < MaxRequests
  BY Zenon DEF Send
<1>8. client' = [client EXCEPT ![c] = cl2]
  <2>1. cl.state = "connected"
    BY Zenon DEF Send
  <2>2. client' = [client EXCEPT ![c] = [state |-> "connected", lens |-> ls, words |-> i]]
    BY Zenon DEF Send
  <2> QED BY <2>1, <2>2
<1>9. cl2.state = cl.state /\ cl2.lens = ls /\ cl2.words = i
  OBVIOUS
<1>10. CASE going
  <2>1. n # 0 /\ cl.words # cl.lens[n]
    BY <1>2, <1>10 DEF SentWhole
  <2>2. cl.lens[n] \in Nat /\ cl.words < cl.lens[n] /\ n \in 1 .. MaxRequests
    BY <1>1, <1>2, <2>1, LenBounds DEF Sending
  <2>3. k = n /\ i = cl.words + 1 /\ ls = cl.lens
    BY <1>10
  <2>4. cl2 \in Record
    BY <1>1, <1>2, <2>3 DEF Record
  <2> HIDE DEF cl2, k, i, ls
  <2>5. cl2.lens = cl.lens /\ len = cl.lens[n] /\ begun' = begun /\ cl.lens # << >>
        /\ k \in 1 .. MaxRequests /\ i \in Nat
    BY <1>2, <1>5, <1>6, <1>9, <1>10, <2>1, <2>2, <2>3
  <2> HIDE DEF cl, n
  <2> QED BY <1>4, <1>8, <1>9, <2>2, <2>3, <2>4, <2>5 DEF n, cl
<1>11. CASE ~going
  <2>1. n = 0 \/ cl.words = cl.lens[n]
    BY <1>2, <1>11 DEF SentWhole
  <2>3. k = n + 1 /\ i = 1 /\ ls = Append(cl.lens, len)
    BY <1>11
  <2>4. cl2 \in Record
    BY <1>1, <1>2, <2>3 DEF Record
  <2> HIDE DEF cl2, k, i, ls
  <2>5. cl2.lens = Append(cl.lens, len) /\ begun' = begun + 1 /\ begun < MaxRequests
        /\ (cl.lens = << >> \/ cl.words = cl.lens[n]) /\ k \in 1 .. MaxRequests /\ i \in Nat
    BY <1>1, <1>2, <1>5, <1>6, <1>9, <1>11, <2>1, <2>3
  <2> QED BY <1>4, <1>8, <1>9, <2>3, <2>4, <2>5 DEF n, cl
<1> QED BY <1>10, <1>11

(* Only reads take from a socket, and only from that of the descriptor at  *)
(* hand.                                                                   *)
LEMMA ReadCases ==
  ASSUME Types, Descriptors, Read
  PROVE  \E fd \in Fds, c \in Clients, n \in Nat :
             /\ fd = thread.fd /\ c = fds[fd]
             /\ n \in 1 .. Len(sock[c].data) /\ n <= Wanted /\ Wanted > 0
             /\ sock' = [sock EXCEPT ![c].data = SubSeq(@, n + 1, Len(@))]
             /\ connections' = [connections EXCEPT ![fd] =
                    [made  |-> TRUE,
                     buf   |-> @.buf \o SubSeq(sock[c].data, 1, n),
                     dsize |-> Grown(@.dsize, Buffered + Wanted)]]
<1> DEFINE fd == thread.fd
           c == fds[fd]
           n == IF Wanted < Len(sock[c].data) THEN Wanted ELSE Len(sock[c].data)
<1>1. fd \in Fds /\ c \in Clients
  BY DEF Types, ThreadType, Descriptors, Read, Listening
<1>2. Len(sock[c].data) \in Nat
  BY <1>1 DEF Types, SockType
<1>3. Wanted \in Int
  <2>1. connections[fd] \in [made : BOOLEAN, buf : Seq(WordType), dsize : Nat]
    BY <1>1 DEF Types, ConnType
  <2>2. Len(connections[fd].buf) \in Nat /\ HeaderLen \in Nat /\ HeaderLen >= 2
    BY <2>1, SizesAssumption
  <2>3. Len(connections[fd].buf) >= HeaderLen => connections[fd].buf[2].len \in Nat
    <3>1. SUFFICES ASSUME Len(connections[fd].buf) >= HeaderLen
                   PROVE  connections[fd].buf[2].len \in Nat
      OBVIOUS
    <3>2. 2 \in 1 .. Len(connections[fd].buf)
      BY <2>2, <3>1
    <3>3. connections[fd].buf[2] \in WordType
      BY <2>1, <3>2
    <3> QED BY <3>3, LenBounds, LensAssumption DEF WordType
  <2> QED BY <2>2, <2>3 DEF Wanted, Buffered, Connection
<1>4. Wanted > 0 /\ n > 0
      /\ sock' = [sock EXCEPT ![c].data = SubSeq(@, n + 1, Len(@))]
      /\ connections' = [connections EXCEPT ![fd] =
             [made  |-> TRUE,
              buf   |-> @.buf \o SubSeq(sock[c].data, 1, n),
              dsize |-> Grown(@.dsize, Buffered + Wanted)]]
  BY Zenon DEF Read
<1>5. n \in Nat /\ n \in 1 .. Len(sock[c].data) /\ n <= Wanted
  <2>1. PICK k \in Nat : k = Len(sock[c].data)
    BY <1>2
  <2>2. PICK w \in Int : w = Wanted
    BY <1>3
  <2>3. w > 0 /\ n = IF w < k THEN w ELSE k
    BY <1>4, <2>1, <2>2, Zenon
  <2> HIDE DEF n
  <2>4. n > 0
    BY <1>4
  <2>5. n \in Nat /\ n \in 1 .. k /\ n <= w
    BY <2>3, <2>4
  <2> QED BY <2>1, <2>2, <2>5
<1> QED BY <1>1, <1>4, <1>5, Zenon

(* What onData asks read for is never so little that the sizes go below 0. *)
LEMMA WantedType ==
  ASSUME Types, Descriptors, thread.pc = "data"
  PROVE  /\ thread.fd \in Fds /\ fds[thread.fd] \in Clients
         /\ connections[thread.fd] \in [made : BOOLEAN, buf : Seq(WordType), dsize : Nat]
         /\ Buffered \in Nat /\ Wanted \in Int
         /\ Wanted > 0 => /\ Buffered + Wanted \in Nat
                          /\ Grown(connections[thread.fd].dsize, Buffered + Wanted) \in Nat
                          /\ Grown(connections[thread.fd].dsize, Buffered + Wanted)
                             >= Buffered + Wanted
<1> DEFINE fd == thread.fd
<1>1. fd \in Fds /\ fds[fd] \in Clients
  BY DEF Types, ThreadType, Descriptors, Listening
<1>2. connections[fd] \in [made : BOOLEAN, buf : Seq(WordType), dsize : Nat]
  BY <1>1 DEF Types, ConnType
<1>3. Buffered \in Nat /\ HeaderLen \in Nat /\ HeaderLen >= 2
  BY <1>2, SizesAssumption DEF Buffered, Connection
<1>4. Buffered >= HeaderLen => connections[fd].buf[2].len \in Nat
  <2>1. SUFFICES ASSUME Buffered >= HeaderLen PROVE connections[fd].buf[2].len \in Nat
    OBVIOUS
  <2>2. 2 \in 1 .. Len(connections[fd].buf)
    BY <1>2, <1>3, <2>1 DEF Buffered, Connection
  <2>3. connections[fd].buf[2] \in WordType
    BY <1>2, <2>2
  <2> QED BY <2>3, LenBounds, LensAssumption DEF WordType
<1>5. Wanted \in Int
  BY <1>3, <1>4 DEF Wanted, Connection
<1>6. PICK size \in Int : size = Buffered + Wanted
  BY <1>3, <1>5
<1>7. Wanted > 0 => size \in Nat
  BY <1>3, <1>5, <1>6
<1>8. connections[fd].dsize \in Nat
  BY <1>2
<1>9. Wanted > 0 => Grown(connections[fd].dsize, size) \in Nat
                    /\ Grown(connections[fd].dsize, size) >= size
  BY <1>7, <1>8, GrownEnough
<1> QED BY <1>1, <1>2, <1>3, <1>5, <1>6, <1>7, <1>9

(* A field of a socket changed.                                            *)
LEMMA SockChanges ==
  ASSUME NEW f \in [Clients -> SockType], NEW c \in Clients
  PROVE  /\ \A d \in Seq(WordType) : [f EXCEPT ![c].data = d] \in [Clients -> SockType]
         /\ [f EXCEPT ![c].fin = TRUE] \in [Clients -> SockType]
         /\ [f EXCEPT ![c].rst = TRUE] \in [Clients -> SockType]
  BY DEF SockType

(* The same of the fields of a connection.                                 *)
LEMMA ConnChanges ==
  ASSUME NEW f \in [Fds -> ConnType], NEW fd \in Fds
  PROVE  /\ \A b \in Seq(WordType) : [f EXCEPT ![fd].buf = b] \in [Fds -> ConnType]
         /\ \A n \in Nat : [f EXCEPT ![fd].dsize = n] \in [Fds -> ConnType]
  BY DEF ConnType

(* The state of a client changed: its requests are not.                    *)
LEMMA StateChanges ==
  ASSUME NEW f \in [Clients -> Record], NEW c \in Clients,
         NEW state \in {"idle", "connected", "closed"}
  PROVE  /\ [f EXCEPT ![c].state = state] \in [Clients -> Record]
         /\ \A d \in Clients :
                /\ [f EXCEPT ![c].state = state][d].lens = f[d].lens
                /\ [f EXCEPT ![c].state = state][d].words = f[d].words
                /\ [f EXCEPT ![c].state = state][d].state = IF d = c THEN state ELSE f[d].state
  BY DEF Record

(* Every step keeps the types.                                             *)
LEMMA TypesKept ==
  ASSUME Types, Descriptors, [Next]_vars
  PROVE  Types'
<1>0. /\ client \in [Clients -> Record] /\ sock \in [Clients -> SockType]
      /\ connections \in [Fds -> ConnType] /\ thread \in ThreadType
      /\ fds \in [Fds -> Clients \cup {NoOne}] /\ ready \subseteq Fds \cup {Listening}
      /\ backlog \in Seq(Clients)
  BY DEF Types
<1>1. ASSUME NEW c \in Clients, Connect(c) PROVE Types'
  <2>1. client' = [client EXCEPT ![c].state = "connected"]
    BY <1>1 DEF Connect
  <2>2. client' \in [Clients -> Record]
        /\ \A d \in Clients : Len(client'[d].lens) <= begun /\ Sending(client'[d])
    <3>1. /\ client' \in [Clients -> Record]
          /\ \A d \in Clients : client'[d].lens = client[d].lens /\ client'[d].words = client[d].words
      BY <1>0, <2>1, StateChanges, ZenonT(60)
    <3>2. \A d \in Clients : Len(client[d].lens) <= begun /\ Sending(client[d])
      BY DEF Types
    <3> QED BY <3>1, <3>2 DEF Sending
  <2>3. backlog' \in Seq(Clients)
    BY <1>0, <1>1 DEF Connect
  <2> QED BY <1>1, <2>2, <2>3 DEF Connect, Types
<1>2. ASSUME NEW c \in Clients, NEW len \in Lens, Send(c, len) PROVE Types'
  <2>1. PICK k \in 1 .. MaxRequests, i \in Nat, cl2 \in Record :
             /\ client' = [client EXCEPT ![c] = cl2]
             /\ sock' = [sock EXCEPT ![c].data = Append(@, Word(c, k, i, len))]
             /\ cl2.state = client[c].state /\ cl2.words = i
             /\ \/ /\ client[c].lens # << >>
                   /\ client[c].words < client[c].lens[Len(client[c].lens)]
                   /\ len = client[c].lens[Len(client[c].lens)]
                   /\ k = Len(client[c].lens) /\ i = client[c].words + 1
                   /\ cl2.lens = client[c].lens /\ begun' = begun
                \/ /\ client[c].lens = << >> \/ client[c].words = client[c].lens[Len(client[c].lens)]
                   /\ k = Len(client[c].lens) + 1 /\ i = 1
                   /\ cl2.lens = Append(client[c].lens, len)
                   /\ begun' = begun + 1 /\ begun < MaxRequests
    BY <1>2, SendCases
  <2>2. PICK w \in WordType : w = Word(c, k, i, len)
    BY <2>1, NextWordType
  <2>3. sock' \in [Clients -> SockType]
    <3>1. Append(sock[c].data, w) \in Seq(WordType)
      BY <1>0 DEF SockType
    <3>2. sock' = [sock EXCEPT ![c].data = Append(sock[c].data, w)]
      BY <2>1, <2>2
    <3> QED BY <1>0, <3>1, <3>2, SockChanges
  <2>4. client' \in [Clients -> Record]
    BY <1>0, <2>1
  <2>5. begun' \in 0 .. MaxRequests /\ begun' >= begun /\ begun \in Nat
    BY <2>1, SizesAssumption DEF Types
  <2>6. Len(client[c].lens) \in Nat /\ client[c].lens \in Seq(Lens) /\ client[c].words \in Nat
        /\ Len(client[c].lens) <= begun /\ Sending(client[c])
    BY DEF Types, Record
  <2>7. Len(cl2.lens) <= begun' /\ Sending(cl2)
    <3>1. CASE client[c].lens # << >> /\ cl2.lens = client[c].lens /\ i = client[c].words + 1
               /\ begun' = begun
               /\ client[c].words < client[c].lens[Len(client[c].lens)]
      <4>1. client[c].lens[Len(client[c].lens)] \in Nat
        BY <3>1, <2>6, LenBounds
      <4> QED BY <3>1, <4>1, <2>1, <2>6 DEF Sending
    <3>2. CASE cl2.lens = Append(client[c].lens, len) /\ i = 1 /\ begun' = begun + 1
      <4>0. PICK old \in Seq(Lens) : old = client[c].lens
        BY <2>6
      <4>1. Len(cl2.lens) = Len(client[c].lens) + 1 /\ cl2.lens[Len(cl2.lens)] = len /\ cl2.lens # << >>
        BY <3>2, <4>0
      <4>2. 1 \in 1 .. len
        BY LenBounds
      <4>3. Len(cl2.lens) <= begun'
        BY <4>1, <3>2, <2>5, <2>6
      <4> QED BY <4>1, <4>2, <4>3, <3>2, <2>1 DEF Sending
    <3> QED BY <2>1, <3>1, <3>2
  <2>8. \A d \in Clients : Len(client'[d].lens) <= begun' /\ Sending(client'[d])
    <3> TAKE d \in Clients
    <3>1. CASE d = c
      BY <3>1, <1>0, <2>1, <2>7
    <3>2. CASE d # c
      <4>1. client'[d] = client[d] /\ Len(client[d].lens) \in Nat
        BY <3>2, <1>0, <2>1 DEF Record
      <4> QED BY <4>1, <2>5 DEF Types
    <3> QED BY <3>1, <3>2
  <2>9. ready' \subseteq Fds \cup {Listening}
    BY <1>0, <1>2 DEF Send, FdsOf
  <2>10. UNCHANGED <<backlog, fds, connections, thread, handled, fresh, starved>>
    BY <1>2 DEF Send
  <2> QED BY <2>3, <2>4, <2>5, <2>8, <2>9, <2>10 DEF Types
<1>3. ASSUME NEW c \in Clients, Finish(c) \/ Reset(c) PROVE Types'
  <2>1. client' = [client EXCEPT ![c].state = "closed"]
    BY <1>3 DEF Finish, Reset
  <2>2. client' \in [Clients -> Record]
        /\ \A d \in Clients : Len(client'[d].lens) <= begun /\ Sending(client'[d])
    <3>1. /\ client' \in [Clients -> Record]
          /\ \A d \in Clients : client'[d].lens = client[d].lens /\ client'[d].words = client[d].words
      BY <1>0, <2>1, StateChanges, ZenonT(60)
    <3>2. \A d \in Clients : Len(client[d].lens) <= begun /\ Sending(client[d])
      BY DEF Types
    <3> QED BY <3>1, <3>2 DEF Sending
  <2>3. sock' \in [Clients -> SockType]
    <3>1. sock' = [sock EXCEPT ![c].fin = TRUE] \/ sock' = [sock EXCEPT ![c].rst = TRUE]
      BY <1>3, Zenon DEF Finish, Reset
    <3>2. /\ [sock EXCEPT ![c].fin = TRUE] \in [Clients -> SockType]
          /\ [sock EXCEPT ![c].rst = TRUE] \in [Clients -> SockType]
      BY <1>0, SockChanges, Zenon
    <3> QED BY <3>1, <3>2, Zenon
  <2>4. ready' \subseteq Fds \cup {Listening}
    BY <1>0, <1>3 DEF Finish, Reset, FdsOf
  <2> QED BY <1>3, <2>2, <2>3, <2>4 DEF Finish, Reset, Types
<1>4. ASSUME Wait PROVE Types'
  <2>1. PICK taken \in SUBSET ready :
             /\ ready' = ready \ taken
             /\ thread' = [thread EXCEPT !.events = Events(taken),
                                         !.pc = IF Events(taken) = {} THEN "wait" ELSE "events"]
    BY <1>4, Zenon DEF Wait
  <2>2. Events(taken) \subseteq [fd : Fds \cup {Listening}, hup : BOOLEAN]
    <3>1. SUFFICES ASSUME NEW fd \in taken
                   PROVE  [fd |-> fd, hup |-> HangsUp(fd)] \in [fd : Fds \cup {Listening}, hup : BOOLEAN]
      BY DEF Events
    <3>2. HangsUp(fd) \in BOOLEAN
      <4>1. fd \in Fds => fds[fd] = NoOne \/ sock[fds[fd]].rst \in BOOLEAN
        BY <1>0 DEF SockType
      <4>2. fd \in Fds => fds[fd] # NoOne /\ fd # Listening
        BY DEF Descriptors, Fds, Listening
      <4> QED BY Zenon DEF HangsUp
    <3> QED BY <1>0, <3>2
  <2>3. thread' \in ThreadType
    BY <1>0, <2>1, <2>2, Zenon DEF ThreadType
  <2> QED BY <1>4, <2>1, <2>3 DEF Wait, environment, Types
<1>5. ASSUME NEW e \in thread.events, HangUp(e) \/ ListenEvent(e) \/ DataEvent(e) PROVE Types'
  <2>1. e \in [fd : Fds \cup {Listening}, hup : BOOLEAN]
    BY <1>0 DEF ThreadType
  <2>2. thread' \in ThreadType
    BY <1>0, <1>5, <2>1 DEF ThreadType, HangUp, ListenEvent, DataEvent, Handle
  <2>3. fds' \in [Fds -> Clients \cup {NoOne}] /\ ready' \subseteq Fds \cup {Listening}
    BY <1>0, <1>5, <2>1 DEF HangUp, ListenEvent, DataEvent
  <2> QED BY <1>5, <2>2, <2>3 DEF HangUp, ListenEvent, DataEvent, environment, Types
<1>6. CASE EndOfEvents
  BY <1>6 DEF EndOfEvents, Goto, environment, Types, ThreadType
<1>7. CASE Accept
  <2>1. NewFd \in Fds /\ Head(backlog) \in Clients /\ Tail(backlog) \in Seq(Clients)
    BY <1>0, <1>7, NewFdIsFree, HeadLeaves DEF Accept
  <2>2. connections' \in [Fds -> ConnType]
    BY <1>0, <1>7, <2>1, AddConnectionType DEF Accept
  <2>3. fds' \in [Fds -> Clients \cup {NoOne}] /\ ready' \subseteq Fds \cup {Listening}
        /\ fresh' \subseteq Clients
    BY <1>7, <2>1 DEF Accept, Types
  <2> QED BY <1>7, <2>1, <2>2, <2>3 DEF Accept, Types
<1>8. CASE AcceptFails
  <2>1. NewFd \in Fds /\ Tail(backlog) \in Seq(Clients)
    BY <1>0, <1>8, NewFdIsFree, HeadLeaves DEF AcceptFails
  <2>2. connections' \in [Fds -> ConnType]
    BY <1>0, <1>8, <2>1, AddConnectionType DEF AcceptFails
  <2> QED BY <1>8, <2>1, <2>2 DEF AcceptFails, Types
<1>9. CASE AcceptEnds
  BY <1>9 DEF AcceptEnds, Goto, environment, Types, ThreadType
<1>10. CASE OnRequest
  <2>1. thread.fd \in Fds /\ fds[thread.fd] \in Clients
    BY <1>10, WantedType DEF OnRequest
  <2>2. connections' \in [Fds -> ConnType]
    <3>1. connections' = [connections EXCEPT ![thread.fd].buf = << >>] /\ << >> \in Seq(WordType)
      BY <1>10 DEF OnRequest
    <3> QED BY <1>0, <2>1, <3>1, ConnChanges
  <2>3. handled' \in [Clients -> Nat]
    BY <1>10, <2>1 DEF OnRequest, Types
  <2> QED BY <1>10, <2>2, <2>3 DEF OnRequest, environment, Types
<1>11. CASE Read
  <2>1. PICK fd \in Fds, c \in Clients, n \in Nat :
             /\ fd = thread.fd /\ c = fds[fd]
             /\ n \in 1 .. Len(sock[c].data) /\ n <= Wanted /\ Wanted > 0
             /\ sock' = [sock EXCEPT ![c].data = SubSeq(@, n + 1, Len(@))]
             /\ connections' = [connections EXCEPT ![fd] =
                    [made  |-> TRUE,
                     buf   |-> @.buf \o SubSeq(sock[c].data, 1, n),
                     dsize |-> Grown(@.dsize, Buffered + Wanted)]]
    BY <1>11, ReadCases
  <2>2. sock[c].data \in Seq(WordType) /\ connections[fd].buf \in Seq(WordType)
    BY <1>0 DEF SockType, ConnType
  <2>3. SubSeq(sock[c].data, n + 1, Len(sock[c].data)) \in Seq(WordType)
        /\ SubSeq(sock[c].data, 1, n) \in Seq(WordType)
    BY <2>1, <2>2, ReadKeepsStream, Zenon
  <2>4. Grown(connections[fd].dsize, Buffered + Wanted) \in Nat
    BY <1>11, <2>1, WantedType, Zenon DEF Read
  <2>5. sock' \in [Clients -> SockType]
    BY <1>0, <2>1, <2>3, SockChanges
  <2>6. connections[fd].buf \o SubSeq(sock[c].data, 1, n) \in Seq(WordType)
    BY <2>2, <2>3
  <2>7. connections' \in [Fds -> ConnType]
    BY <1>0, <2>1, <2>4, <2>6 DEF ConnType
  <2> QED BY <1>11, <2>5, <2>7, Zenon DEF Read, Types
<1>12. CASE ReadEnds
  <2>1. thread.fd \in Fds /\ Grown(connections[thread.fd].dsize, Buffered + Wanted) \in Nat
    BY <1>12, WantedType DEF ReadEnds
  <2>2. connections' \in [Fds -> ConnType]
    BY <1>0, <1>12, <2>1, ConnChanges DEF ReadEnds
  <2> QED BY <1>12, <2>2 DEF ReadEnds, Goto, environment, Types, ThreadType
<1>13. CASE UNCHANGED vars
  BY <1>13 DEF vars, Types
<1> QED BY <1>1, <1>2, <1>3, <1>4, <1>5, <1>6, <1>7, <1>8, <1>9, <1>10, <1>11, <1>12, <1>13
        DEF Next, Listener, Client

-----------------------------------------------------------------------------
(* Descriptors.                                                            *)

(* Every step keeps the events and the ready list to open descriptors.     *)
LEMMA DescriptorsKept ==
  ASSUME Types, Descriptors, [Next]_vars
  PROVE  Descriptors'
<1>0. /\ thread \in ThreadType /\ fds \in [Fds -> Clients \cup {NoOne}]
      /\ ready \subseteq Fds \cup {Listening} /\ backlog \in Seq(Clients)
  BY DEF Types
<1>1. Listening \notin Fds /\ NoOne \notin Clients
  BY NoOneAssumption DEF Fds, Listening
<1>2. ASSUME UNCHANGED <<fds, thread>>,
             \A fd \in ready' \ ready : fd # Listening => fds[fd] # NoOne
      PROVE  Descriptors'
  BY <1>2 DEF Descriptors
<1>3. ASSUME NEW c \in Clients, Connect(c) PROVE Descriptors'
  BY <1>2, <1>3 DEF Connect
<1>4. ASSUME NEW c \in Clients, (\E len \in Lens : Send(c, len)) \/ Finish(c) \/ Reset(c)
      PROVE  Descriptors'
  <2>1. UNCHANGED <<fds, thread>> /\ ready' = ready \cup FdsOf(c)
    BY <1>4 DEF Send, Finish, Reset
  <2>2. \A fd \in FdsOf(c) : fds[fd] # NoOne
    BY <1>1 DEF FdsOf
  <2> QED BY <1>2, <2>1, <2>2
<1>5. ASSUME Wait PROVE Descriptors'
  <2>1. PICK taken \in SUBSET ready :
             /\ ready' = ready \ taken
             /\ thread' = [thread EXCEPT !.events = Events(taken),
                                         !.pc = IF Events(taken) = {} THEN "wait" ELSE "events"]
    BY <1>5, Zenon DEF Wait
  <2>2. \A e \in Events(taken) : e.fd \in ready /\ (e.hup => e.fd # Listening)
    <3>1. SUFFICES ASSUME NEW fd \in taken
                   PROVE  HangsUp(fd) => fd # Listening
      BY DEF Events
    <3> QED BY DEF HangsUp
  <2>3. \A e1, e2 \in Events(taken) : e1.fd = e2.fd => e1 = e2
    BY DEF Events
  <2>4. thread'.events = Events(taken) /\ thread'.fd = thread.fd
        /\ thread'.pc = IF Events(taken) = {} THEN "wait" ELSE "events"
    BY <1>0, <2>1 DEF ThreadType
  <2>5. fds' = fds
    BY <1>5 DEF Wait
  <2> QED BY <2>1, <2>2, <2>3, <2>4, <2>5 DEF Descriptors
<1>6. ASSUME NEW e \in thread.events, HangUp(e) PROVE Descriptors'
  <2>1. thread'.events = thread.events \ {e} /\ thread'.pc = "events"
        /\ fds' = [fds EXCEPT ![e.fd] = NoOne] /\ ready' = ready \ {e.fd}
    BY <1>6 DEF HangUp, Handle
  <2>2. \A x \in thread'.events : x.fd # e.fd
    BY <2>1 DEF Descriptors
  <2>3. \A fd \in Fds : fd # e.fd => fds'[fd] = fds[fd]
    BY <1>0, <2>1
  <2>4. \A x \in thread'.events : x \in thread.events /\ x.fd \in Fds \cup {Listening}
    BY <1>0, <2>1 DEF ThreadType
  <2> QED BY <1>0, <2>1, <2>2, <2>3, <2>4 DEF Descriptors
<1>7. ASSUME NEW e \in thread.events, ListenEvent(e) \/ DataEvent(e) PROVE Descriptors'
  <2>1. thread'.events = thread.events \ {e} /\ thread'.fd = e.fd
        /\ UNCHANGED <<fds, ready>>
        /\ (thread'.pc = "accept" \/ (thread'.pc = "data" /\ e.fd # Listening))
    BY <1>7 DEF ListenEvent, DataEvent, Handle
  <2> QED BY <2>1 DEF Descriptors
<1>8. CASE EndOfEvents
  BY <1>0, <1>8 DEF EndOfEvents, Goto, Descriptors, ThreadType
<1>9. CASE Accept
  <2>1. NewFd \in Fds /\ Head(backlog) \in Clients
    BY <1>0, <1>9, NewFdIsFree, HeadLeaves DEF Accept
  <2>2. fds'[NewFd] \in Clients /\ \A fd \in Fds : fd # NewFd => fds'[fd] = fds[fd]
    BY <1>0, <1>9, <2>1 DEF Accept
  <2>3. \A fd \in Fds : fds[fd] # NoOne => fds'[fd] # NoOne
    BY <1>1, <2>1, <2>2
  <2>4. thread' = thread /\ ready' \subseteq ready \cup {NewFd}
    BY <1>9 DEF Accept
  <2>5. \A e \in thread.events : e.fd \in Fds \cup {Listening}
    BY <1>0 DEF ThreadType
  <2>6. thread.fd \in Fds \cup {Listening}
    BY <1>0 DEF ThreadType
  <2>7. \A fd \in ready' : fd # Listening => fds'[fd] # NoOne
    BY <1>0, <1>1, <2>2, <2>3, <2>4 DEF Descriptors
  <2> QED BY <2>3, <2>4, <2>5, <2>6, <2>7 DEF Descriptors
<1>10. CASE AcceptFails
  BY <1>2, <1>10 DEF AcceptFails
<1>11. CASE AcceptEnds \/ ReadEnds
  <2>1. thread' = [thread EXCEPT !.pc = "events"] /\ UNCHANGED <<fds, ready>>
    BY <1>11 DEF AcceptEnds, ReadEnds, Goto
  <2>2. thread'.pc = "events" /\ thread'.events = thread.events
    BY <1>0, <2>1 DEF ThreadType
  <2> QED BY <2>1, <2>2 DEF Descriptors
<1>12. CASE OnRequest \/ Read
  BY <1>2, <1>12, Zenon DEF OnRequest, Read
<1>13. CASE UNCHANGED vars
  BY <1>2, <1>13 DEF vars
<1> QED BY <1>3, <1>4, <1>5, <1>6, <1>7, <1>8, <1>9, <1>10, <1>11, <1>12, <1>13
        DEF Next, Listener, Client

-----------------------------------------------------------------------------
(* Accepting.                                                              *)

(* The clients that have not been accepted stay as few as they are when    *)
(* those that wait, and those that do not connect, do.                     *)
LEMMA AcceptedOnceKept ==
  ASSUME Types, Descriptors, AcceptedOnce, [Next]_vars
  PROVE  AcceptedOnce'
<1>0. /\ thread \in ThreadType /\ fds \in [Fds -> Clients \cup {NoOne}]
      /\ backlog \in Seq(Clients) /\ client \in [Clients -> Record]
      /\ handled \in [Clients -> Nat]
  BY DEF Types
<1>1. Listening \notin Fds /\ NoOne \notin Clients
  BY NoOneAssumption DEF Fds, Listening
<1>1a. Len(backlog) \in Nat /\ \A i \in 1 .. Len(backlog) : backlog[i] \in Clients
  BY <1>0
<1>2. ASSUME UNCHANGED <<backlog, fds, handled, fresh>>,
             \A c \in Clients : client'[c].state = "idle" <=> client[c].state = "idle"
      PROVE  AcceptedOnce'
  <2>1. \A c \in Clients : Unaccepted(c)' => Unaccepted(c)
    BY <1>2 DEF Unaccepted
  <2> QED BY <1>1a, <1>2, <2>1 DEF AcceptedOnce
<1>3. ASSUME NEW c \in Clients, Connect(c) PROVE AcceptedOnce'
  <2>1. client[c].state = "idle" /\ backlog' = Append(backlog, c)
        /\ UNCHANGED <<fds, handled, fresh>> /\ client' = [client EXCEPT ![c].state = "connected"]
    BY <1>3 DEF Connect
  <2>2. \A d \in Clients : client'[d].state = IF d = c THEN "connected" ELSE client[d].state
    BY <1>0, <2>1, StateChanges
  <2>3. Len(backlog') = Len(backlog) + 1 /\ backlog'[Len(backlog')] = c
        /\ \A i \in 1 .. Len(backlog) : backlog'[i] = backlog[i]
    BY <1>0, <2>1
  <2>4. \A i \in 1 .. Len(backlog) : backlog[i] # c
    BY <2>1 DEF AcceptedOnce
  <2>5. \A d \in Clients : Unaccepted(d)' => Unaccepted(d)
    <3> SUFFICES ASSUME NEW d \in Clients, Unaccepted(d)' PROVE Unaccepted(d)
      OBVIOUS
    <3>1. CASE d = c
      BY <3>1, <2>1 DEF Unaccepted
    <3>2. CASE d # c /\ client'[d].state = "idle"
      BY <3>2, <2>2 DEF Unaccepted
    <3>3. ASSUME d # c, NEW i \in 1 .. Len(backlog'), backlog'[i] = d PROVE Unaccepted(d)
      BY <3>3, <2>3, <1>1a DEF Unaccepted
    <3> QED BY <3>1, <3>2, <3>3 DEF Unaccepted
  <2>6. \A i, j \in 1 .. Len(backlog') : backlog'[i] = backlog'[j] => i = j
    <3> TAKE i, j \in 1 .. Len(backlog')
    <3>1. i = Len(backlog) + 1 \/ i \in 1 .. Len(backlog)
      BY <2>3, <1>1a
    <3>2. j = Len(backlog) + 1 \/ j \in 1 .. Len(backlog)
      BY <2>3, <1>1a
    <3> QED BY <3>1, <3>2, <2>3, <2>4 DEF AcceptedOnce
  <2>7. \A i \in 1 .. Len(backlog') : client'[backlog'[i]].state # "idle"
    <3> TAKE i \in 1 .. Len(backlog')
    <3>1. i = Len(backlog) + 1 \/ i \in 1 .. Len(backlog)
      BY <2>3, <1>1a
    <3>2. CASE i = Len(backlog) + 1
      BY <3>2, <2>2, <2>3
    <3>3. CASE i \in 1 .. Len(backlog)
      <4>1. client[backlog[i]].state # "idle" /\ backlog[i] \in Clients /\ backlog'[i] = backlog[i]
        BY <3>3, <2>3, <1>1a DEF AcceptedOnce
      <4> QED BY <4>1, <2>2
    <3> QED BY <3>1, <3>2, <3>3
  <2> QED BY <2>1, <2>5, <2>6, <2>7 DEF AcceptedOnce
<1>4. ASSUME NEW c \in Clients, NEW len \in Lens, Send(c, len) PROVE AcceptedOnce'
  <2>1. UNCHANGED <<backlog, fds, handled, fresh>> /\ client[c].state = "connected"
    BY <1>4 DEF Send
  <2>2. PICK cl2 \in Record : client' = [client EXCEPT ![c] = cl2] /\ cl2.state = client[c].state
    BY <1>4, SendCases
  <2>3. \A d \in Clients : client'[d].state = "idle" <=> client[d].state = "idle"
    BY <1>0, <2>2
  <2> QED BY <1>2, <2>1, <2>3
<1>5. ASSUME NEW c \in Clients, Finish(c) \/ Reset(c) PROVE AcceptedOnce'
  <2>1. UNCHANGED <<backlog, fds, handled, fresh>> /\ client[c].state = "connected"
        /\ client' = [client EXCEPT ![c].state = "closed"]
    BY <1>5 DEF Finish, Reset
  <2>2. \A d \in Clients : client'[d].state = IF d = c THEN "closed" ELSE client[d].state
    BY <1>0, <2>1, StateChanges
  <2> QED BY <1>2, <2>1, <2>2
<1>6. CASE Wait \/ EndOfEvents \/ AcceptEnds \/ Read \/ ReadEnds \/ UNCHANGED vars
           \/ \E e \in thread.events : ListenEvent(e) \/ DataEvent(e)
  BY <1>2, <1>6, Zenon DEF Wait, EndOfEvents, AcceptEnds, Read, ReadEnds, vars, ListenEvent, DataEvent,
                    environment
<1>7. ASSUME NEW e \in thread.events, HangUp(e) PROVE AcceptedOnce'
  <2>1. UNCHANGED <<client, backlog, handled, fresh>> /\ fds' = [fds EXCEPT ![e.fd] = NoOne]
    BY <1>7 DEF HangUp, environment
  <2>2. \A fd \in Fds : fds'[fd] = NoOne \/ fds'[fd] = fds[fd]
    BY <1>0, <2>1
  <2>3. \A c \in Clients : Unaccepted(c)' => Unaccepted(c)
    BY <2>1 DEF Unaccepted
  <2>4. \A fd1, fd2 \in Fds : fds'[fd1] # NoOne /\ fds'[fd1] = fds'[fd2] => fd1 = fd2
    BY <2>2 DEF AcceptedOnce
  <2>5. \A c \in Clients : Unaccepted(c)' => \A fd \in Fds : fds'[fd] # c
    BY <1>1, <2>2, <2>3 DEF AcceptedOnce
  <2> QED BY <2>1, <2>3, <2>4, <2>5 DEF AcceptedOnce
<1>8. ASSUME backlog # << >>, backlog' = Tail(backlog), client' = client, handled' = handled
      PROVE  /\ Unaccepted(Head(backlog)) /\ Head(backlog) \in Clients
             /\ \A c \in Clients : Unaccepted(c)' => Unaccepted(c) /\ c # Head(backlog)
             /\ \A i, j \in 1 .. Len(backlog') : backlog'[i] = backlog'[j] => i = j
             /\ \A i \in 1 .. Len(backlog') : client'[backlog'[i]].state # "idle"
  <2>1. /\ Head(backlog) \in Clients /\ Head(backlog) = backlog[1] /\ 1 \in 1 .. Len(backlog)
        /\ Len(backlog') = Len(backlog) - 1
        /\ \A i \in 1 .. Len(backlog') : i + 1 \in 1 .. Len(backlog) /\ backlog'[i] = backlog[i + 1]
    BY <1>0, <1>8, HeadLeaves
  <2>2. Unaccepted(Head(backlog))
    BY <2>1 DEF Unaccepted
  <2>3. ASSUME NEW c \in Clients, Unaccepted(c)' PROVE Unaccepted(c) /\ c # Head(backlog)
    <3>1. CASE client'[c].state = "idle"
      BY <3>1, <1>8, <2>1 DEF Unaccepted, AcceptedOnce
    <3>2. ASSUME NEW i \in 1 .. Len(backlog'), backlog'[i] = c
          PROVE  Unaccepted(c) /\ c # Head(backlog)
      <4>1. i + 1 \in 1 .. Len(backlog) /\ backlog[i + 1] = c /\ i \in Nat /\ i >= 1
        BY <2>1, <3>2
      <4>2. c # backlog[1]
        <5>1. i + 1 # 1
          BY <4>1
        <5> QED BY <4>1, <5>1, <2>1 DEF AcceptedOnce
      <4> QED BY <4>1, <4>2, <2>1 DEF Unaccepted
    <3> QED BY <2>3, <3>1, <3>2 DEF Unaccepted
  <2>4. ASSUME NEW i \in 1 .. Len(backlog'), NEW j \in 1 .. Len(backlog'), backlog'[i] = backlog'[j]
        PROVE  i = j
    <3>1. i + 1 = j + 1
      BY <2>1, <2>4 DEF AcceptedOnce
    <3> QED BY <3>1
  <2>5. \A i \in 1 .. Len(backlog') : client'[backlog'[i]].state # "idle"
    BY <2>1, <1>8 DEF AcceptedOnce
  <2> QED BY <2>1, <2>2, <2>3, <2>4, <2>5
<1>9. CASE Accept
  <2> DEFINE h == Head(backlog)
  <2>1. backlog # << >> /\ backlog' = Tail(backlog) /\ client' = client /\ handled' = handled
        /\ fds' = [fds EXCEPT ![NewFd] = h] /\ fresh' \subseteq fresh \cup {h} /\ Free # {}
    BY <1>9 DEF Accept
  <2>2. NewFd \in Fds /\ fds[NewFd] = NoOne
    BY <2>1, NewFdIsFree
  <2>3. /\ Unaccepted(h) /\ h \in Clients
        /\ \A c \in Clients : Unaccepted(c)' => Unaccepted(c) /\ c # h
        /\ \A i, j \in 1 .. Len(backlog') : backlog'[i] = backlog'[j] => i = j
        /\ \A i \in 1 .. Len(backlog') : client'[backlog'[i]].state # "idle"
    BY <2>1, <1>8
  <2> HIDE DEF h
  <2>4. \A fd \in Fds : fds'[fd] = IF fd = NewFd THEN h ELSE fds[fd]
    BY <1>0, <2>1
  <2>5. \A fd \in Fds : fds[fd] # h
    BY <2>3 DEF AcceptedOnce
  <2>6. \A fd1, fd2 \in Fds : fds'[fd1] # NoOne /\ fds'[fd1] = fds'[fd2] => fd1 = fd2
    BY <2>4, <2>5 DEF AcceptedOnce
  <2>7. ASSUME NEW c \in Clients, Unaccepted(c)'
        PROVE  handled'[c] = 0 /\ c \notin fresh' /\ \A fd \in Fds : fds'[fd] # c
    BY <2>1, <2>3, <2>4, <2>7 DEF AcceptedOnce
  <2> QED BY <2>3, <2>6, <2>7 DEF AcceptedOnce
<1>10. CASE AcceptFails
  <2>1. backlog # << >> /\ backlog' = Tail(backlog) /\ client' = client
        /\ UNCHANGED <<handled, fds, fresh>>
    BY <1>10 DEF AcceptFails
  <2> QED BY <1>8, <2>1 DEF AcceptedOnce
<1>11. CASE OnRequest
  <2>1. thread.fd \in Fds /\ fds[thread.fd] \in Clients
    BY <1>11, WantedType DEF OnRequest
  <2>2. handled' = [handled EXCEPT ![fds[thread.fd]] = @ + 1]
        /\ UNCHANGED <<client, backlog, fds, fresh>>
    BY <1>11 DEF OnRequest, environment
  <2>3. \A c \in Clients : Unaccepted(c)' => Unaccepted(c) /\ c # fds[thread.fd]
    BY <2>1, <2>2 DEF AcceptedOnce, Unaccepted
  <2>4. \A c \in Clients : c # fds[thread.fd] => handled'[c] = handled[c]
    BY <1>0, <2>2
  <2> QED BY <2>2, <2>3, <2>4 DEF AcceptedOnce
<1> QED BY <1>3, <1>4, <1>5, <1>6, <1>7, <1>9, <1>10, <1>11 DEF Next, Listener, Client

-----------------------------------------------------------------------------
(* Buffers.                                                                *)

(* Every step keeps the buffers within their room, and within the length   *)
(* in their header.                                                        *)
LEMMA BuffersKept ==
  ASSUME Types, Descriptors, Buffers, [Next]_vars
  PROVE  Buffers'
<1>0. connections \in [Fds -> ConnType] /\ sock \in [Clients -> SockType]
  BY DEF Types
<1>1. \A fd \in Fds : connections[fd].buf \in Seq(WordType) /\ Len(connections[fd].buf) \in Nat
                      /\ connections[fd].dsize \in Nat
  BY <1>0 DEF ConnType
<1>2. ASSUME connections' = connections PROVE Buffers'
  BY <1>2 DEF Buffers
<1>3. ASSUME NEW fd \in Fds, \A x \in Fds : x # fd => connections'[x] = connections[x],
             connections'[fd].buf = << >>, connections'[fd].dsize \in Nat
      PROVE  Buffers'
  <2>1. Len(connections'[fd].buf) = 0 /\ HeaderLen >= 2 /\ HeaderLen \in Nat
    BY <1>3, SizesAssumption
  <2> QED BY <1>3, <2>1 DEF Buffers
<1>4. ASSUME Free # {}, connections' = [connections EXCEPT ![NewFd] = AddConnection(NewFd)]
      PROVE  Buffers'
  <2>1. NewFd \in Fds
    BY <1>4, NewFdIsFree
  <2>2. CASE connections[NewFd].made
    <3>1. connections'[NewFd] = connections[NewFd] /\ \A x \in Fds : connections'[x] = connections[x]
      BY <1>0, <1>4, <2>1, <2>2 DEF AddConnection
    <3> QED BY <3>1 DEF Buffers
  <2>3. CASE ~ connections[NewFd].made
    <3>1. connections'[NewFd] = [made |-> TRUE, buf |-> << >>, dsize |-> InitSize]
      BY <1>0, <1>4, <2>1, <2>3 DEF AddConnection
    <3>2. \A x \in Fds : x # NewFd => connections'[x] = connections[x]
      BY <1>0, <1>4, <2>1
    <3>3. connections'[NewFd].buf = << >> /\ connections'[NewFd].dsize \in Nat
      BY <3>1, SizesAssumption
    <3> QED BY <1>3, <2>1, <3>2, <3>3
  <2> QED BY <2>2, <2>3
<1>5. CASE Accept \/ AcceptFails
  BY <1>2, <1>4, <1>5 DEF Accept, AcceptFails
<1>6. CASE OnRequest
  <2>1. thread.fd \in Fds
    BY <1>6, WantedType DEF OnRequest
  <2>2. connections' = [connections EXCEPT ![thread.fd].buf = << >>]
    BY <1>6 DEF OnRequest
  <2>3. connections'[thread.fd].buf = << >> /\ connections'[thread.fd].dsize \in Nat
        /\ \A x \in Fds : x # thread.fd => connections'[x] = connections[x]
    BY <1>0, <1>1, <2>1, <2>2 DEF ConnType
  <2> QED BY <1>3, <2>1, <2>3
<1>7. CASE ReadEnds
  <2> DEFINE fd == thread.fd
             size == Grown(connections[fd].dsize, Buffered + Wanted)
  <2>1. fd \in Fds /\ Buffered \in Nat /\ Wanted \in Int /\ Wanted > 0
        /\ size \in Nat /\ size >= Buffered + Wanted
    BY <1>7, WantedType DEF ReadEnds
  <2>2. connections' = [connections EXCEPT ![fd].dsize = size]
    BY <1>7 DEF ReadEnds
  <2> HIDE DEF size, fd
  <2>3. connections'[fd].buf = connections[fd].buf /\ connections'[fd].dsize = size
        /\ \A x \in Fds : x # fd => connections'[x] = connections[x]
    BY <1>0, <2>1, <2>2 DEF ConnType
  <2>4. Len(connections[fd].buf) <= size
    BY <2>1 DEF Buffered, Connection, fd
  <2> QED BY <2>1, <2>3, <2>4 DEF Buffers
<1>8. CASE Read
  <2>1. PICK fd \in Fds, c \in Clients, n \in Nat :
             /\ fd = thread.fd /\ c = fds[fd]
             /\ n \in 1 .. Len(sock[c].data) /\ n <= Wanted /\ Wanted > 0
             /\ sock' = [sock EXCEPT ![c].data = SubSeq(@, n + 1, Len(@))]
             /\ connections' = [connections EXCEPT ![fd] =
                    [made  |-> TRUE,
                     buf   |-> @.buf \o SubSeq(sock[c].data, 1, n),
                     dsize |-> Grown(@.dsize, Buffered + Wanted)]]
    BY <1>8, ReadCases
  <2>2. PICK size \in Nat : size = Grown(connections[fd].dsize, Buffered + Wanted)
                            /\ size >= Buffered + Wanted
    BY <1>8, <2>1, WantedType, ZenonT(60) DEF Read
  <2>3. Buffered \in Nat /\ Wanted \in Int
    BY <1>8, WantedType, Zenon DEF Read
  <2>4. PICK old \in Seq(WordType) : old = connections[fd].buf
    BY <1>1
  <2>5. sock[c].data \in Seq(WordType)
    BY <1>0 DEF SockType
  <2>6. PICK new \in Seq(WordType) : new = SubSeq(sock[c].data, 1, n) /\ Len(new) = n
    <3>1. PICK d \in Seq(WordType) : d = sock[c].data
      BY <2>5
    <3>2. n \in 1 .. Len(d)
      BY <2>1, <3>1
    <3>3. SubSeq(d, 1, n) \in Seq(WordType) /\ Len(SubSeq(d, 1, n)) = n
      BY <3>2
    <3> QED BY <3>1, <3>3
  <2>7. connections' = [connections EXCEPT ![fd] = [made |-> TRUE, buf |-> old \o new, dsize |-> size]]
    BY <2>1, <2>2, <2>4, <2>6
  <2>8. connections'[fd].buf = old \o new /\ connections'[fd].dsize = size
        /\ \A x \in Fds : x # fd => connections'[x] = connections[x]
    BY <1>0, <2>7
  <2>9. Buffered = Len(old) /\ Len(old) \in Nat /\ Len(old \o new) = Len(old) + n
        /\ \A i \in 1 .. Len(old) : (old \o new)[i] = old[i]
    <3>1. Buffered = Len(old)
      BY <2>1, <2>4, Zenon DEF Buffered, Connection
    <3>2. /\ Len(old) \in Nat /\ Len(old \o new) = Len(old) + Len(new)
          /\ \A i \in 1 .. Len(old) : (old \o new)[i] = old[i]
      OBVIOUS
    <3> QED BY <3>1, <3>2, <2>6
  <2>10. Len(old \o new) <= size
    BY <2>1, <2>2, <2>3, <2>9
  <2>11. HeaderLen \in Nat /\ HeaderLen >= 2
    BY SizesAssumption
  <2>12. ASSUME Len(old \o new) >= HeaderLen PROVE Len(old \o new) <= (old \o new)[2].len
    <3>1. CASE Len(old) < HeaderLen
      <4>1. Wanted = HeaderLen - Len(old)
        BY <3>1, <2>9 DEF Wanted
      <4>2. Len(old \o new) = HeaderLen
        BY <4>1, <2>1, <2>9, <2>11, <2>12
      <4>3. (old \o new)[2] \in WordType
        <5>1. old \o new \in Seq(WordType) /\ 2 \in 1 .. Len(old \o new)
          BY <4>2, <2>11
        <5> QED BY <5>1
      <4>4. (old \o new)[2].len \in Nat /\ (old \o new)[2].len >= HeaderLen
        <5>1. PICK x \in Lens \cup {Huge} : x = (old \o new)[2].len
          BY <4>3 DEF WordType
        <5>2. x \in Nat /\ x >= HeaderLen
          BY LenBounds, LensAssumption, SizesAssumption
        <5> QED BY <5>1, <5>2
      <4> QED BY <4>2, <4>4
    <3>2. CASE Len(old) >= HeaderLen
      <4>1. (old \o new)[2] = old[2] /\ 2 \in 1 .. Len(old)
        BY <3>2, <2>9, <2>11
      <4>2. PICK m \in Nat : m = old[2].len
        <5>1. old[2] \in WordType
          BY <4>1
        <5>2. old[2].len \in Lens \cup {Huge}
          BY <5>1 DEF WordType
        <5> QED BY <5>2, LenBounds, LensAssumption
      <4>3. Wanted = m - Len(old)
        <5>1. Connection.buf[2].len = m
          BY <4>2, <2>1, <2>4, Zenon DEF Connection
        <5>2. PICK k \in Nat : k = Buffered
          BY <2>3
        <5>3. ~ (k < HeaderLen) /\ k = Len(old)
          BY <5>2, <3>2, <2>9, <2>11
        <5>4. Wanted = m - k
          BY <5>1, <5>2, <5>3, Zenon DEF Wanted
        <5> QED BY <5>3, <5>4
      <4>4. Len(old) + n <= m
        BY <4>3, <2>1, <2>9
      <4>5. (old \o new)[2].len = m
        BY <4>1, <4>2
      <4>6. Len(old \o new) <= m
        BY <4>4, <2>9
      <4> QED BY <4>5, <4>6, Zenon
    <3>3. Len(old) < HeaderLen \/ Len(old) >= HeaderLen
      BY <2>9, <2>11
    <3> QED BY <3>1, <3>2, <3>3, Zenon
  <2> QED BY <2>8, <2>10, <2>12 DEF Buffers
<1>9. ASSUME NEW c \in Clients, Client(c) PROVE Buffers'
  BY <1>2, <1>9 DEF Client, Connect, Send, Finish, Reset
<1>10. CASE Wait \/ EndOfEvents \/ AcceptEnds \/ UNCHANGED vars
            \/ \E e \in thread.events : HangUp(e) \/ ListenEvent(e) \/ DataEvent(e)
  BY <1>2, <1>10, Zenon DEF Wait, EndOfEvents, AcceptEnds, vars, HangUp, ListenEvent, DataEvent
<1> QED BY <1>5, <1>6, <1>7, <1>8, <1>9, <1>10 DEF Next, Listener

-----------------------------------------------------------------------------
(* Work to do.                                                             *)

(* Every step keeps what there is to do in sight.                          *)
LEMMA CoveredKept ==
  ASSUME Types, Descriptors, AcceptedOnce, Covered, [Next]_vars
  PROVE  Covered'
<1>0. /\ thread \in ThreadType /\ fds \in [Fds -> Clients \cup {NoOne}]
      /\ backlog \in Seq(Clients) /\ sock \in [Clients -> SockType]
  BY DEF Types
<1>1. Listening \notin Fds /\ NoOne \notin Clients
  BY NoOneAssumption DEF Fds, Listening
<1>2. ASSUME UNCHANGED <<fds, backlog, thread, starved>>, ready \subseteq ready',
             \A fd \in Fds : fds[fd] # NoOne => sock'[fds[fd]] = sock[fds[fd]] \/ fd \in ready'
      PROVE  Covered'
  BY <1>2 DEF Covered
<1>3. ASSUME NEW c \in Clients, Connect(c) PROVE Covered'
  BY <1>3 DEF Connect, Covered
<1>4. ASSUME NEW c \in Clients, (\E len \in Lens : Send(c, len)) \/ Finish(c) \/ Reset(c)
      PROVE  Covered'
  <2>1. UNCHANGED <<fds, backlog, thread, starved>> /\ ready' = ready \cup FdsOf(c)
    BY <1>4 DEF Send, Finish, Reset
  <2>2. \A d \in Clients : d # c => sock'[d] = sock[d]
    <3>1. CASE \E len \in Lens : Send(c, len)
      <4>1. PICK x : sock' = [sock EXCEPT ![c].data = x]
        BY <3>1, SendCases
      <4> QED BY <4>1, <1>0
    <3>2. CASE Finish(c) \/ Reset(c)
      BY <3>2, <1>0 DEF Finish, Reset
    <3> QED BY <1>4, <3>1, <3>2
  <2>3. \A fd \in Fds : fds[fd] = c => fd \in ready'
    BY <2>1 DEF FdsOf
  <2> QED BY <1>0, <1>2, <2>1, <2>2, <2>3
<1>5. CASE Wait
  <2>0. PICK taken \in SUBSET ready :
             /\ ready' = ready \ taken
             /\ thread' = [thread EXCEPT !.events = Events(taken),
                                         !.pc = IF Events(taken) = {} THEN "wait" ELSE "events"]
    BY <1>5, Zenon DEF Wait
  <2>1. thread.pc = "wait" /\ thread.events = {} /\ thread'.events = Events(taken)
        /\ UNCHANGED <<client, sock, backlog, fds, starved>>
    BY <1>0, <1>5, <2>0 DEF Wait, ThreadType, Descriptors, environment
  <2>2. ASSUME NEW fd \in Fds, fds[fd] # NoOne, fd \in taken,
               sock[fds[fd]].data # << >> \/ sock[fds[fd]].rst
        PROVE  [fd |-> fd, hup |-> HangsUp(fd)] \in Events(taken)
               /\ HangsUp(fd) = sock[fds[fd]].rst
    <3>1. fd # Listening
      BY <1>1
    <3>2. Readable(fd)
      BY <2>2, <3>1 DEF Readable
    <3>3. HangsUp(fd) = sock[fds[fd]].rst
      <4>1. sock[fds[fd]].rst \in BOOLEAN
        BY <2>2, <1>0 DEF SockType
      <4> QED BY <3>1, <4>1 DEF HangsUp
    <3> QED BY <2>2, <3>2, <3>3 DEF Events
  <2>3. ASSUME backlog # << >>, Listening \in taken
        PROVE  \E e \in Events(taken) : e.fd = Listening
    <3>1. Readable(Listening)
      BY <2>3 DEF Readable
    <3>2. [fd |-> Listening, hup |-> HangsUp(Listening)] \in Events(taken)
      BY <2>3, <3>1 DEF Events
    <3> QED BY <3>2
  <2>4. ASSUME NEW fd \in Fds, fds[fd] # NoOne, sock[fds[fd]].data # << >>
        PROVE  fd \in ready' \/ \E e \in Events(taken) : e.fd = fd
    <3>1. fd \in ready
      BY <2>1, <2>4 DEF Covered
    <3>2. CASE fd \in taken
      BY <2>2, <2>4, <3>2
    <3> QED BY <2>0, <3>1, <3>2
  <2>5. ASSUME NEW fd \in Fds, fds[fd] # NoOne, sock[fds[fd]].rst
        PROVE  fd \in ready' \/ \E e \in Events(taken) : e.fd = fd /\ e.hup
    <3>1. fd \in ready
      BY <2>1, <2>5 DEF Covered
    <3>2. CASE fd \in taken
      <4>1. [fd |-> fd, hup |-> HangsUp(fd)] \in Events(taken) /\ HangsUp(fd)
        BY <2>2, <2>5, <3>2
      <4> QED BY <4>1
    <3> QED BY <2>0, <3>1, <3>2
  <2>6. backlog # << >> =>
            Listening \in ready' \/ (\E e \in Events(taken) : e.fd = Listening) \/ starved
    <3>1. backlog # << >> => Listening \in ready \/ starved
      BY <2>1 DEF Covered
    <3> QED BY <2>0, <2>3, <3>1
  <2> QED BY <2>1, <2>4, <2>5, <2>6 DEF Covered
<1>6. ASSUME NEW e \in thread.events, HangUp(e) PROVE Covered'
  <2>1. thread'.events = thread.events \ {e} /\ thread'.pc = "events" /\ thread.pc = "events"
        /\ fds' = [fds EXCEPT ![e.fd] = NoOne] /\ ready' = ready \ {e.fd}
        /\ UNCHANGED <<sock, backlog, starved>> /\ e.fd # Listening
    BY <1>6 DEF HangUp, Handle, AtEvent, environment, Descriptors
  <2>2. \A fd \in Fds : fds'[fd] # NoOne => fd # e.fd /\ fds'[fd] = fds[fd]
    BY <1>0, <2>1
  <2> QED BY <2>1, <2>2 DEF Covered
<1>7. ASSUME NEW e \in thread.events, ListenEvent(e) PROVE Covered'
  <2>1. thread'.events = thread.events \ {e} /\ thread'.pc = "accept" /\ thread.pc = "events"
        /\ e.fd = Listening /\ UNCHANGED <<sock, backlog, starved, fds, ready>>
    BY <1>7 DEF ListenEvent, Handle, AtEvent, environment
  <2>2. \A fd \in Fds : fd # Listening
    BY <1>1
  <2> QED BY <2>1, <2>2 DEF Covered
<1>8. ASSUME NEW e \in thread.events, DataEvent(e) PROVE Covered'
  <2>1. thread'.events = thread.events \ {e} /\ thread'.pc = "data" /\ thread'.fd = e.fd
        /\ thread.pc = "events" /\ e.fd # Listening /\ ~e.hup
        /\ UNCHANGED <<sock, backlog, starved, fds, ready>>
    BY <1>8 DEF DataEvent, Handle, AtEvent, environment
  <2>2. ASSUME NEW fd \in Fds, fds[fd] # NoOne
        PROVE  /\ sock[fds[fd]].data # << >> =>
                      \/ fd \in ready
                      \/ \E x \in thread'.events : x.fd = fd
                      \/ thread'.pc = "data" /\ thread'.fd = fd
               /\ sock[fds[fd]].rst =>
                      fd \in ready \/ \E x \in thread'.events : x.fd = fd /\ x.hup
    BY <2>1, <2>2 DEF Covered
  <2>3. backlog # << >> =>
           \/ Listening \in ready
           \/ \E x \in thread'.events : x.fd = Listening
           \/ starved
    BY <2>1 DEF Covered
  <2> QED BY <2>1, <2>2, <2>3 DEF Covered
<1>9. CASE EndOfEvents
  <2>1. thread'.events = thread.events /\ thread.events = {} /\ thread.pc = "events"
        /\ UNCHANGED <<sock, backlog, starved, fds, ready>>
    BY <1>0, <1>9 DEF EndOfEvents, Goto, ThreadType, environment
  <2> QED BY <2>1 DEF Covered
<1>10. CASE Accept
  <2> DEFINE h == Head(backlog)
  <2>1. NewFd \in Fds /\ fds[NewFd] = NoOne /\ h \in Clients
    BY <1>0, <1>10, NewFdIsFree, HeadLeaves DEF Accept
  <2>2. fds' = [fds EXCEPT ![NewFd] = h] /\ UNCHANGED <<sock, thread, starved>>
        /\ thread.pc = "accept"
        /\ ready' = IF sock[h] = [data |-> << >>, fin |-> FALSE, rst |-> FALSE]
                    THEN ready ELSE ready \cup {NewFd}
    BY <1>10 DEF Accept
  <2> HIDE DEF h
  <2>3. \A fd \in Fds : fds'[fd] = IF fd = NewFd THEN h ELSE fds[fd]
    BY <1>0, <2>1, <2>2
  <2>4. ready \subseteq ready'
    BY <2>2
  <2>5. sock[h].data # << >> \/ sock[h].rst => NewFd \in ready'
    <3>1. CASE sock[h] = [data |-> << >>, fin |-> FALSE, rst |-> FALSE]
      BY <3>1
    <3>2. CASE sock[h] # [data |-> << >>, fin |-> FALSE, rst |-> FALSE]
      BY <3>2, <2>2
    <3> QED BY <3>1, <3>2
  <2> QED BY <2>2, <2>3, <2>4, <2>5 DEF Covered
<1>11. CASE AcceptFails
  BY <1>11 DEF AcceptFails, Covered
<1>12. CASE AcceptEnds
  <2>1. thread'.events = thread.events /\ thread'.pc = "events" /\ thread.pc = "accept"
        /\ UNCHANGED <<sock, backlog, fds, ready>>
    BY <1>0, <1>12 DEF AcceptEnds, Goto, ThreadType, environment
  <2>2. backlog # << >> => starved'
    BY <1>12 DEF AcceptEnds
  <2> QED BY <2>1, <2>2 DEF Covered
<1>13. CASE OnRequest
  BY <1>2, <1>13 DEF OnRequest, environment
<1>14. CASE Read
  <2>1. PICK fd \in Fds, c \in Clients, n \in Nat :
             /\ fd = thread.fd /\ c = fds[fd]
             /\ sock' = [sock EXCEPT ![c].data = SubSeq(@, n + 1, Len(@))]
    BY <1>14, ReadCases
  <2>2. sock'[c].rst = sock[c].rst /\ \A d \in Clients : d # c => sock'[d] = sock[d]
    BY <1>0, <2>1 DEF SockType
  <2>3. \A x \in Fds : fds[x] = c => x = fd
    BY <1>1, <2>1 DEF AcceptedOnce
  <2>4. UNCHANGED <<fds, ready, thread, backlog, starved>> /\ thread.pc = "data"
    BY <1>14, Zenon DEF Read
  <2>5. ASSUME NEW x \in Fds, fds[x] # NoOne
        PROVE  /\ sock'[fds[x]].data # << >> =>
                      \/ x \in ready
                      \/ \E e \in thread.events : e.fd = x
                      \/ thread.pc = "data" /\ thread.fd = x
               /\ sock'[fds[x]].rst =>
                      x \in ready \/ \E e \in thread.events : e.fd = x /\ e.hup
    <3>1. CASE fds[x] = c
      BY <3>1, <2>1, <2>2, <2>3, <2>4, <2>5 DEF Covered
    <3>2. CASE fds[x] # c
      <4>1. sock'[fds[x]] = sock[fds[x]]
        BY <3>2, <2>2, <2>5, <1>0
      <4> QED BY <4>1, <2>5 DEF Covered
    <3> QED BY <3>1, <3>2
  <2> QED BY <2>4, <2>5 DEF Covered
<1>15. CASE ReadEnds
  <2>1. thread'.events = thread.events /\ thread'.pc = "events" /\ thread.pc = "data"
        /\ sock[fds[thread.fd]].data = << >>
        /\ UNCHANGED <<sock, backlog, starved, fds, ready>>
    BY <1>0, <1>15 DEF ReadEnds, Goto, ThreadType, environment
  <2> QED BY <2>1 DEF Covered
<1>16. CASE UNCHANGED vars
  BY <1>2, <1>16 DEF vars
<1> QED BY <1>3, <1>4, <1>5, <1>6, <1>7, <1>8, <1>9, <1>10, <1>11, <1>12, <1>13, <1>14, <1>15, <1>16
        DEF Next, Listener, Client

-----------------------------------------------------------------------------
(* Streams.                                                                *)

(* What a stream is depends on the requests of the client only, not on     *)
(* whether it is still connected.                                          *)
LEMMA StreamOfRequests ==
  ASSUME NEW c, NEW cl, NEW cl2, NEW h, NEW s, InStream(c, cl, h, s),
         cl2.lens = cl.lens, cl2.words = cl.words
  PROVE  InStream(c, cl2, h, s)
  BY DEF InStream

(* Once a client has been accepted it stays so.                            *)
LEMMA UnacceptedNoMore ==
  ASSUME Types, [Next]_vars, NEW c \in Clients, Unaccepted(c)'
  PROVE  Unaccepted(c)
<1>0. backlog \in Seq(Clients) /\ client \in [Clients -> Record]
  BY DEF Types
<1>1. client'[c].state = "idle" => client[c].state = "idle"
  <2>1. CASE client' = client
    BY <2>1
  <2>2. ASSUME NEW d \in Clients, Connect(d) \/ Finish(d) \/ Reset(d)
        PROVE  client'[c].state = "idle" => client[c].state = "idle"
    <3>1. PICK state \in {"connected", "closed"} : client' = [client EXCEPT ![d].state = state]
      BY <2>2 DEF Connect, Finish, Reset
    <3>2. client'[c].state = IF c = d THEN state ELSE client[c].state
      BY <1>0, <3>1, StateChanges
    <3> QED BY <3>1, <3>2
  <2>3. ASSUME NEW d \in Clients, NEW len \in Lens, Send(d, len)
        PROVE  client'[c].state = "idle" => client[c].state = "idle"
    <3>1. PICK cl2 \in Record : client' = [client EXCEPT ![d] = cl2] /\ cl2.state = client[d].state
      BY <2>3, SendCases
    <3> QED BY <1>0, <3>1
  <2>4. client' = client \/ \E d \in Clients : Client(d)
    BY Zenon DEF Next, Listener, Wait, HangUp, ListenEvent, DataEvent, EndOfEvents, Accept, AcceptFails,
           AcceptEnds, OnRequest, Read, ReadEnds, environment, vars
  <2> QED BY <2>1, <2>2, <2>3, <2>4 DEF Client
<1>2. ASSUME NEW i \in 1 .. Len(backlog'), backlog'[i] = c PROVE Unaccepted(c)
  <2>1. CASE backlog' = backlog
    BY <1>2, <2>1 DEF Unaccepted
  <2>2. ASSUME NEW d \in Clients, Connect(d) PROVE Unaccepted(c)
    <3>1. backlog' = Append(backlog, d) /\ client[d].state = "idle"
      BY <2>2 DEF Connect
    <3>2. CASE i \in 1 .. Len(backlog)
      BY <1>0, <1>2, <3>1, <3>2 DEF Unaccepted
    <3>3. CASE i \notin 1 .. Len(backlog)
      <4>1. backlog'[i] = d
        BY <1>0, <1>2, <3>1, <3>3
      <4> QED BY <1>2, <3>1, <4>1 DEF Unaccepted
    <3> QED BY <3>2, <3>3
  <2>3. CASE backlog # << >> /\ backlog' = Tail(backlog)
    <3>1. i + 1 \in 1 .. Len(backlog) /\ backlog[i + 1] = c
      BY <1>0, <1>2, <2>3, HeadLeaves
    <3> QED BY <3>1 DEF Unaccepted
  <2>4. \/ backlog' = backlog
        \/ \E d \in Clients : Connect(d)
        \/ backlog # << >> /\ backlog' = Tail(backlog)
    BY ZenonT(60) DEF Next, Listener, Wait, HangUp, ListenEvent, DataEvent, EndOfEvents, Accept,
           AcceptFails, AcceptEnds, OnRequest, Read, ReadEnds, Client, Send, Finish, Reset,
           environment, vars
  <2> QED BY <2>1, <2>2, <2>3, <2>4
<1> QED BY <1>1, <1>2 DEF Unaccepted

(* When onData finds nothing more to read for, the buffer is the next      *)
(* request of the client.                                                  *)
LEMMA WholeRequest ==
  ASSUME Types, Descriptors, Streams, thread.pc = "data", Wanted = 0,
         fds[thread.fd] \in fresh
  PROVE  LET c == fds[thread.fd]
             b == connections[thread.fd].buf
             k == handled[c] + 1
         IN  /\ k \in 1 .. Len(client[c].lens)
             /\ b # << >> /\ Len(b) = client[c].lens[k]
             /\ b = Request(c, k)
<1>1. PICK fd \in Fds, c \in Clients : fd = thread.fd /\ c = fds[fd]
  BY WantedType
<1>2. PICK b \in Seq(WordType) : b = connections[fd].buf
  BY DEF Types, ConnType
<1>3. PICK d \in Seq(WordType) : d = sock[c].data
  BY DEF Types, SockType
<1>4. PICK h \in Nat : h = handled[c]
  BY DEF Types
<1>5. PICK cl \in Record : cl = client[c]
  BY DEF Types
<1>6. InStream(c, cl, h, b \o d)
  BY <1>1, <1>2, <1>3, <1>4, <1>5 DEF Streams
<1>7. HeaderLen \in Nat /\ HeaderLen >= 2 /\ Len(b) \in Nat
  BY SizesAssumption
<1>8. Len(b) >= HeaderLen
  <2>1. SUFFICES ASSUME Len(b) < HeaderLen PROVE FALSE
    BY <1>7
  <2>2. Wanted = HeaderLen - Len(b)
    BY <1>1, <1>2, <2>1 DEF Wanted, Buffered, Connection
  <2> QED BY <1>7, <2>1, <2>2
<1>9. PICK s \in Seq(WordType) : s = b \o d
  <2>1. b \o d \in Seq(WordType)
    OBVIOUS
  <2> QED BY <2>1
<1>10. 2 \in 1 .. Len(b) /\ Len(s) >= Len(b) /\ Len(s) \in Nat /\ s # << >> /\ b # << >>
       /\ \A i \in 1 .. Len(b) : s[i] = b[i]
  BY <1>7, <1>8, <1>9
<1>11. PICK m \in Lens : m = cl.lens[h + 1]
  BY <1>6, <1>9, <1>10, StreamRequest
<1>12. /\ h + 1 \in 1 .. Len(cl.lens)
       /\ \A i \in 1 .. Len(s) : i <= m => s[i] = Word(c, h + 1, i, m)
  <2>1. /\ h + 1 \in 1 .. Len(cl.lens)
        /\ \A i \in 1 .. Len(s) :
               i <= cl.lens[h + 1] => s[i] = Word(c, h + 1, i, cl.lens[h + 1])
    BY <1>6, <1>9, <1>10, StreamRequest, ZenonT(60)
  <2> QED BY <2>1, <1>11
<1>13. b[2] = Word(c, h + 1, 2, m)
  BY <1>10, <1>12, LenBounds
<1>14. b[2].len = m
  BY <1>13, WordFields
<1>15. Wanted = m - Len(b)
  <2>1. ~ (Buffered < HeaderLen)
    BY <1>1, <1>2, <1>7, <1>8 DEF Buffered, Connection
  <2> QED BY <2>1, <1>1, <1>2, <1>14 DEF Wanted, Buffered, Connection
<1>16. Len(b) = m
  BY <1>7, <1>15, LenBounds
<1>17. b = [i \in 1 .. m |-> Word(c, h + 1, i, m)]
  <2>1. \A i \in 1 .. Len(b) : b[i] = Word(c, h + 1, i, m)
    BY <1>7, <1>10, <1>12, <1>16
  <2>2. b = [i \in 1 .. Len(b) |-> b[i]]
    OBVIOUS
  <2> QED BY <2>1, <2>2, <1>16
<1>18. b = Request(c, h + 1)
  BY <1>17, <1>11, <1>5 DEF Request
<1> QED BY <1>1, <1>2, <1>4, <1>5, <1>10, <1>11, <1>12, <1>16, <1>18, Zenon

(* Every step keeps the streams.                                           *)
LEMMA StreamsKept ==
  ASSUME Types, Descriptors, AcceptedOnce, Streams, [Next]_vars
  PROVE  Streams'
<1>0. /\ client \in [Clients -> Record] /\ sock \in [Clients -> SockType]
      /\ connections \in [Fds -> ConnType] /\ fds \in [Fds -> Clients \cup {NoOne}]
      /\ handled \in [Clients -> Nat] /\ fresh \subseteq Clients /\ backlog \in Seq(Clients)
      /\ NoOne \notin Clients
  BY NoOneAssumption DEF Types
<1>1. \A c \in Clients : Unaccepted(c)' => Unaccepted(c)
  BY UnacceptedNoMore
<1>2. ASSUME \A c \in Clients : /\ client'[c].lens = client[c].lens
                                /\ client'[c].words = client[c].words
                                /\ sock'[c].data = sock[c].data,
             handled' = handled, fresh' = fresh,
             \A fd \in Fds : fds'[fd] \in fresh =>
                 fds'[fd] = fds[fd] /\ connections'[fd].buf = connections[fd].buf
      PROVE  Streams'
  <2>1. ASSUME NEW c \in Clients, Unaccepted(c)'
        PROVE  InStream(c, client'[c], 0, sock'[c].data)
    <3>1. InStream(c, client[c], 0, sock[c].data)
      BY <1>1, <2>1 DEF Streams
    <3> QED BY <1>2, <3>1, StreamOfRequests
  <2>2. ASSUME NEW fd \in Fds, fds'[fd] \in fresh'
        PROVE  InStream(fds'[fd], client'[fds'[fd]], handled'[fds'[fd]],
                        connections'[fd].buf \o sock'[fds'[fd]].data)
    <3>1. PICK c \in Clients : c = fds[fd] /\ c = fds'[fd] /\ c \in fresh
      BY <1>0, <1>2, <2>2
    <3>2. InStream(c, client[c], handled[c], connections[fd].buf \o sock[c].data)
      BY <3>1 DEF Streams
    <3>3. InStream(c, client'[c], handled[c], connections[fd].buf \o sock[c].data)
      BY <1>2, <3>2, StreamOfRequests
    <3>4. connections'[fd].buf = connections[fd].buf /\ sock'[c].data = sock[c].data
      BY <1>2, <2>2, <3>1
    <3> QED BY <1>2, <3>1, <3>3, <3>4
  <2>3. \A c \in fresh' : handled'[c] <= Len(client'[c].lens)
    BY <1>0, <1>2 DEF Streams
  <2> QED BY <2>1, <2>2, <2>3 DEF Streams
<1>3. ASSUME NEW c \in Clients, Connect(c) PROVE Streams'
  <2>1. client' = [client EXCEPT ![c].state = "connected"]
        /\ UNCHANGED <<sock, handled, fresh, fds, connections>>
    BY <1>3 DEF Connect
  <2>2. \A d \in Clients : client'[d].lens = client[d].lens /\ client'[d].words = client[d].words
    BY <1>0, <2>1, StateChanges
  <2> QED BY <1>2, <2>1, <2>2
<1>4. ASSUME NEW c \in Clients, Finish(c) \/ Reset(c) PROVE Streams'
  <2>1. client' = [client EXCEPT ![c].state = "closed"]
        /\ UNCHANGED <<handled, fresh, fds, connections>>
    BY <1>4 DEF Finish, Reset
  <2>2. \A d \in Clients : client'[d].lens = client[d].lens /\ client'[d].words = client[d].words
    BY <1>0, <2>1, StateChanges
  <2>3. \A d \in Clients : sock'[d].data = sock[d].data
    <3>1. CASE sock' = [sock EXCEPT ![c].fin = TRUE]
      BY <1>0, <3>1 DEF SockType
    <3>2. CASE sock' = [sock EXCEPT ![c].rst = TRUE]
      BY <1>0, <3>2 DEF SockType
    <3> QED BY <1>4, <3>1, <3>2, Zenon DEF Finish, Reset
  <2> QED BY <1>2, <2>1, <2>2, <2>3
<1>5. ASSUME NEW c \in Clients, NEW len \in Lens, Send(c, len) PROVE Streams'
  <2>1. PICK k \in 1 .. MaxRequests, i \in Nat, cl2 \in Record :
             /\ client' = [client EXCEPT ![c] = cl2]
             /\ sock' = [sock EXCEPT ![c].data = Append(@, Word(c, k, i, len))]
             /\ cl2.state = client[c].state /\ cl2.words = i
             /\ \/ /\ client[c].lens # << >>
                   /\ client[c].words < client[c].lens[Len(client[c].lens)]
                   /\ len = client[c].lens[Len(client[c].lens)]
                   /\ k = Len(client[c].lens) /\ i = client[c].words + 1
                   /\ cl2.lens = client[c].lens /\ begun' = begun
                \/ /\ client[c].lens = << >> \/ client[c].words = client[c].lens[Len(client[c].lens)]
                   /\ k = Len(client[c].lens) + 1 /\ i = 1
                   /\ cl2.lens = Append(client[c].lens, len)
                   /\ begun' = begun + 1 /\ begun < MaxRequests
    BY <1>5, SendCases
  <2>2. UNCHANGED <<backlog, fds, connections, handled, fresh>>
    BY <1>5 DEF Send
  <2>3. PICK cl \in Record : cl = client[c] /\ Sending(cl)
    BY DEF Types
  <2>4. PICK w \in WordType : w = Word(c, k, i, len)
    BY NextWordType
  <2>5. PICK d \in Seq(WordType) : d = sock[c].data
    BY <1>0 DEF SockType
  <2>6. client'[c] = cl2 /\ sock'[c].data = Append(d, w)
        /\ \A x \in Clients : x # c => client'[x] = client[x] /\ sock'[x] = sock[x]
    BY <1>0, <2>1, <2>4, <2>5 DEF SockType
  <2>7. Len(cl2.lens) >= Len(cl.lens) /\ Len(cl.lens) \in Nat /\ Len(cl2.lens) \in Nat
    BY <2>1, <2>3 DEF Record
  <2>8. ASSUME NEW h \in Nat, NEW s \in Seq(WordType), InStream(c, cl, h, s)
        PROVE  InStream(c, cl2, h, Append(s, w))
    <3>1. CASE /\ cl.lens # << >> /\ cl.words < cl.lens[Len(cl.lens)]
               /\ len = cl.lens[Len(cl.lens)] /\ k = Len(cl.lens) /\ i = cl.words + 1
               /\ cl2.lens = cl.lens
      <4>1. cl2.words = cl.words + 1
        BY <2>1, <3>1
      <4>2. w = Word(c, Len(cl.lens), cl.words + 1, cl.lens[Len(cl.lens)])
        BY <2>4, <3>1
      <4> QED BY <2>3, <2>8, <3>1, <4>1, <4>2, StreamGoesOn
    <3>2. CASE /\ cl.lens = << >> \/ cl.words = cl.lens[Len(cl.lens)]
               /\ k = Len(cl.lens) + 1 /\ i = 1 /\ cl2.lens = Append(cl.lens, len)
      <4>1. cl2.words = 1
        BY <2>1, <3>2
      <4>2. w = Word(c, Len(cl.lens) + 1, 1, len)
        BY <2>4, <3>2
      <4> QED BY <2>3, <2>8, <3>2, <4>1, <4>2, StreamBegins
    <3> QED BY <2>1, <2>3, <3>1, <3>2
  <2>9. ASSUME NEW x \in Clients, Unaccepted(x)'
        PROVE  InStream(x, client'[x], 0, sock'[x].data)
    <3>1. InStream(x, client[x], 0, sock[x].data)
      BY <1>1, <2>9 DEF Streams
    <3>2. CASE x = c
      <4>1. InStream(c, cl, 0, d)
        BY <2>3, <2>5, <3>1, <3>2
      <4>2. InStream(c, cl2, 0, Append(d, w))
        BY <2>8, <4>1
      <4> QED BY <2>6, <3>2, <4>2
    <3>3. CASE x # c
      BY <2>6, <3>1, <3>3
    <3> QED BY <3>2, <3>3
  <2>10. ASSUME NEW fd \in Fds, fds[fd] \in fresh
         PROVE  InStream(fds[fd], client'[fds[fd]], handled[fds[fd]],
                         connections[fd].buf \o sock'[fds[fd]].data)
    <3>1. PICK x \in Clients : x = fds[fd]
      BY <1>0, <2>10
    <3>2. InStream(x, client[x], handled[x], connections[fd].buf \o sock[x].data)
      BY <2>10, <3>1 DEF Streams
    <3>3. CASE x = c
      <4>1. PICK h \in Nat : h = handled[c]
        BY <1>0
      <4>2. PICK b \in Seq(WordType) : b = connections[fd].buf
        BY <1>0 DEF ConnType
      <4>3. InStream(c, cl, h, b \o d) /\ b \o d \in Seq(WordType)
        BY <2>3, <2>5, <3>2, <3>3, <4>1, <4>2
      <4>4. InStream(c, cl2, h, Append(b \o d, w))
        BY <2>8, <4>3
      <4>5. b \o Append(d, w) = Append(b \o d, w)
        BY SendExtendsStream
      <4>6. InStream(c, cl2, h, b \o Append(d, w))
        BY <4>4, <4>5, Zenon
      <4>7. connections[fd].buf \o sock'[x].data = b \o Append(d, w)
        BY <2>6, <3>3, <4>2
      <4> QED BY <2>6, <3>1, <3>3, <4>1, <4>6, <4>7, Zenon
    <3>4. CASE x # c
      BY <2>6, <3>1, <3>2, <3>4
    <3> QED BY <3>3, <3>4
  <2>11. \A x \in fresh : handled[x] <= Len(client'[x].lens)
    <3> TAKE x \in fresh
    <3>1. handled[x] \in Nat /\ handled[x] <= Len(client[x].lens) /\ x \in Clients
      BY <1>0 DEF Streams
    <3>2. CASE x = c
      BY <2>3, <2>6, <2>7, <3>1, <3>2
    <3>3. CASE x # c
      BY <2>6, <3>1, <3>3
    <3> QED BY <3>2, <3>3
  <2> QED BY <2>2, <2>9, <2>10, <2>11 DEF Streams
<1>6. CASE Wait \/ EndOfEvents \/ AcceptEnds \/ UNCHANGED vars
           \/ \E e \in thread.events : ListenEvent(e) \/ DataEvent(e)
  <2>1. UNCHANGED <<client, sock, handled, fresh, fds, connections>>
    BY <1>6, Zenon DEF Wait, EndOfEvents, AcceptEnds, ListenEvent, DataEvent, environment, vars
  <2> QED BY <1>2, <2>1
<1>7. ASSUME NEW e \in thread.events, HangUp(e) PROVE Streams'
  <2>1. fds' = [fds EXCEPT ![e.fd] = NoOne]
        /\ UNCHANGED <<client, sock, handled, fresh, connections>>
    BY <1>7 DEF HangUp, environment
  <2>2. \A fd \in Fds : fds'[fd] \in fresh => fds'[fd] = fds[fd]
    BY <1>0, <2>1
  <2> QED BY <1>2, <2>1, <2>2
<1>8. CASE Accept
  <2>1. Free # {} /\ backlog # << >> /\ UNCHANGED <<client, sock, handled>>
    BY <1>8 DEF Accept
  <2>2. PICK h \in Clients : h = Head(backlog) /\ Unaccepted(h)
    BY <1>0, <2>1, HeadLeaves DEF Unaccepted
  <2>3. PICK new \in Fds : new = NewFd /\ fds[new] = NoOne
    BY <2>1, NewFdIsFree
  <2>4. fds' = [fds EXCEPT ![new] = h]
        /\ connections' = [connections EXCEPT ![new] = AddConnection(new)]
        /\ fresh' = IF AddConnection(new).buf = << >> THEN fresh \cup {h} ELSE fresh
    BY <1>8, <2>2, <2>3 DEF Accept
  <2>5. h \notin fresh /\ handled[h] = 0 /\ \A fd \in Fds : fds[fd] # h
    BY <2>2 DEF AcceptedOnce
  <2>6. fds'[new] = h /\ connections'[new] = AddConnection(new)
        /\ \A fd \in Fds : fd # new => fds'[fd] = fds[fd] /\ connections'[fd] = connections[fd]
    BY <1>0, <2>3, <2>4
  <2>7. ASSUME NEW fd \in Fds, fds'[fd] \in fresh'
        PROVE  InStream(fds'[fd], client[fds'[fd]], handled[fds'[fd]],
                        connections'[fd].buf \o sock[fds'[fd]].data)
    <3>1. CASE fd = new
      <4>1. connections'[fd].buf = << >>
        BY <2>4, <2>5, <2>6, <2>7, <3>1
      <4>2. InStream(h, client[h], 0, sock[h].data)
        BY <2>2 DEF Streams
      <4>3. << >> \o sock[h].data = sock[h].data
        BY <1>0 DEF SockType
      <4> QED BY <2>5, <2>6, <3>1, <4>1, <4>2, <4>3
    <3>2. CASE fd # new
      <4>1. fds'[fd] = fds[fd] /\ connections'[fd] = connections[fd] /\ fds[fd] \in fresh
        BY <2>4, <2>5, <2>6, <2>7, <3>2
      <4> QED BY <4>1 DEF Streams
    <3> QED BY <3>1, <3>2
  <2>8. \A c \in fresh' : handled[c] <= Len(client[c].lens)
    <3>1. Len(client[h].lens) \in Nat
      BY <1>0 DEF Record
    <3> QED BY <2>4, <2>5, <3>1 DEF Streams
  <2> QED BY <1>1, <2>1, <2>7, <2>8 DEF Streams
<1>9. CASE AcceptFails
  <2>1. Free # {} /\ UNCHANGED <<client, sock, fds, handled, fresh>>
        /\ connections' \in {connections, [connections EXCEPT ![NewFd] = AddConnection(NewFd)]}
    BY <1>9 DEF AcceptFails
  <2>2. NewFd \in Fds /\ fds[NewFd] = NoOne
    BY <2>1, NewFdIsFree
  <2>3. \A fd \in Fds : fds[fd] \in fresh => connections'[fd] = connections[fd]
    BY <1>0, <2>1, <2>2
  <2> QED BY <1>2, <2>1, <2>3
<1>10. CASE OnRequest
  <2>1. PICK fd \in Fds, c \in Clients : fd = thread.fd /\ c = fds[fd]
    BY <1>10, WantedType DEF OnRequest
  <2>2. handled' = [handled EXCEPT ![c] = @ + 1]
        /\ connections' = [connections EXCEPT ![fd].buf = << >>]
        /\ UNCHANGED <<client, sock, fds, fresh>>
    BY <1>10, <2>1 DEF OnRequest, environment
  <2>3. /\ handled'[c] = handled[c] + 1
        /\ connections'[fd].buf = << >>
        /\ \A x \in Clients : x # c => handled'[x] = handled[x]
        /\ \A x \in Fds : x # fd => connections'[x] = connections[x]
    BY <1>0, <2>2 DEF ConnType
  <2>4. \A x \in Fds : fds[x] = c => x = fd
    BY <1>0, <2>1 DEF AcceptedOnce
  <2>5. PICK d \in Seq(WordType) : d = sock[c].data
    BY <1>0 DEF SockType
  <2>6. ASSUME c \in fresh
        PROVE  InStream(c, client[c], handled'[c], d) /\ handled'[c] <= Len(client[c].lens)
    <3>1. PICK b \in Seq(WordType) : b = connections[fd].buf
      BY <1>0 DEF ConnType
    <3>2. PICK h \in Nat : h = handled[c]
      BY <1>0
    <3>3. PICK cl \in Record : cl = client[c]
      BY <1>0
    <3>4. InStream(c, cl, h, b \o d)
      BY <2>1, <2>5, <2>6, <3>1, <3>2, <3>3 DEF Streams
    <3>5. thread.pc = "data" /\ Wanted = 0
      BY <1>10 DEF OnRequest
    <3>6. h + 1 \in 1 .. Len(cl.lens) /\ b # << >> /\ Len(b) = cl.lens[h + 1]
      BY <2>1, <2>6, <3>1, <3>2, <3>3, <3>5, WholeRequest
    <3>7. InStream(c, cl, h + 1, d)
      BY <3>4, <3>6, StreamShift
    <3>8. h + 1 <= Len(cl.lens)
      BY <3>6
    <3> QED BY <2>3, <3>2, <3>3, <3>7, <3>8
  <2>7. ASSUME NEW x \in Fds, fds[x] \in fresh
        PROVE  InStream(fds[x], client[fds[x]], handled'[fds[x]],
                        connections'[x].buf \o sock[fds[x]].data)
    <3>1. CASE fds[x] = c
      <4>1. x = fd
        BY <2>4, <3>1
      <4>2. << >> \o d = d
        OBVIOUS
      <4>3. connections'[x].buf \o sock[fds[x]].data = d
        BY <2>3, <2>5, <3>1, <4>1, <4>2
      <4> QED BY <2>6, <2>7, <3>1, <4>3
    <3>2. CASE fds[x] # c
      <4>1. x # fd /\ fds[x] \in Clients
        BY <1>0, <2>1, <2>7, <3>2
      <4>2. connections'[x] = connections[x] /\ handled'[fds[x]] = handled[fds[x]]
        BY <2>3, <3>2, <4>1
      <4> QED BY <2>7, <4>2 DEF Streams
    <3> QED BY <3>1, <3>2
  <2>8. \A x \in fresh : handled'[x] <= Len(client[x].lens)
    BY <1>0, <2>3, <2>6 DEF Streams
  <2> QED BY <1>1, <2>2, <2>7, <2>8 DEF Streams
<1>11. CASE Read
  <2>1. PICK fd \in Fds, c \in Clients, n \in Nat :
             /\ fd = thread.fd /\ c = fds[fd]
             /\ n \in 1 .. Len(sock[c].data) /\ n <= Wanted /\ Wanted > 0
             /\ sock' = [sock EXCEPT ![c].data = SubSeq(@, n + 1, Len(@))]
             /\ connections' = [connections EXCEPT ![fd] =
                    [made  |-> TRUE,
                     buf   |-> @.buf \o SubSeq(sock[c].data, 1, n),
                     dsize |-> Grown(@.dsize, Buffered + Wanted)]]
    BY <1>11, ReadCases
  <2>2. UNCHANGED <<client, backlog, fds, handled, fresh>>
    BY <1>11, Zenon DEF Read
  <2>3. PICK b \in Seq(WordType) : b = connections[fd].buf
    BY <1>0 DEF ConnType
  <2>4. PICK d \in Seq(WordType) : d = sock[c].data
    BY <1>0 DEF SockType
  <2>5. (b \o SubSeq(d, 1, n)) \o SubSeq(d, n + 1, Len(d)) = b \o d
    <3>1. PICK m \in 1 .. Len(d) : m = n
      BY <2>1, <2>4
    <3>2. (b \o SubSeq(d, 1, m)) \o SubSeq(d, m + 1, Len(d)) = b \o d
      BY ReadKeepsStream
    <3> QED BY <3>1, <3>2
  <2>6. /\ sock'[c].data = SubSeq(d, n + 1, Len(d))
        /\ connections'[fd].buf = b \o SubSeq(d, 1, n)
        /\ \A x \in Clients : x # c => sock'[x] = sock[x]
        /\ \A x \in Fds : x # fd => connections'[x] = connections[x]
    BY <1>0, <2>1, <2>3, <2>4, ZenonT(60) DEF SockType
  <2>7. \A x \in Fds : fds[x] = c => x = fd
    BY <1>0, <2>1 DEF AcceptedOnce
  <2>8. ASSUME NEW x \in Clients, Unaccepted(x)'
        PROVE  InStream(x, client[x], 0, sock'[x].data)
    <3>1. Unaccepted(x) /\ x # c
      BY <1>1, <2>1, <2>8 DEF AcceptedOnce
    <3> QED BY <2>6, <3>1 DEF Streams
  <2>9. ASSUME NEW x \in Fds, fds[x] \in fresh
        PROVE  InStream(fds[x], client[fds[x]], handled[fds[x]],
                        connections'[x].buf \o sock'[fds[x]].data)
    <3>1. CASE fds[x] = c
      <4>1. x = fd
        BY <2>7, <3>1
      <4>2. InStream(c, client[c], handled[c], b \o d)
        BY <2>1, <2>3, <2>4, <2>9, <3>1, <4>1 DEF Streams
      <4>3. connections'[x].buf \o sock'[c].data = b \o d
        BY <2>5, <2>6, <4>1
      <4> QED BY <3>1, <4>2, <4>3
    <3>2. CASE fds[x] # c
      <4>1. x # fd /\ fds[x] \in Clients
        BY <1>0, <2>1, <2>9, <3>2
      <4>2. connections'[x] = connections[x] /\ sock'[fds[x]] = sock[fds[x]]
        BY <2>6, <3>2, <4>1
      <4> QED BY <2>9, <4>2 DEF Streams
    <3> QED BY <3>1, <3>2
  <2> QED BY <2>2, <2>8, <2>9 DEF Streams
<1>12. CASE ReadEnds
  <2>1. thread.fd \in Fds
    BY <1>12, WantedType DEF ReadEnds
  <2>2. UNCHANGED <<client, sock, fds, handled, fresh>>
        /\ connections' = [connections EXCEPT ![thread.fd].dsize = Grown(@, Buffered + Wanted)]
    BY <1>12 DEF ReadEnds, environment
  <2>3. \A x \in Fds : connections'[x].buf = connections[x].buf
    BY <1>0, <2>1, <2>2 DEF ConnType
  <2> QED BY <1>2, <2>2, <2>3
<1> QED BY <1>3, <1>4, <1>5, <1>6, <1>7, <1>8, <1>9, <1>10, <1>11, <1>12
        DEF Next, Listener, Client

-----------------------------------------------------------------------------
(* The invariant.                                                          *)

(* It holds when the listener starts.                                      *)
LEMMA InvariantBegins == Init => Invariant
<1> SUFFICES ASSUME Init PROVE Invariant
  OBVIOUS
<1>1. Types
  <2>1. \A c \in Clients : client[c].lens = << >> /\ client[c].words = 0 /\ Len(client[c].lens) = 0
    BY DEF Init
  <2>2. client \in [Clients -> Record]
    BY DEF Init, Record
  <2>3. sock \in [Clients -> SockType] /\ connections \in [Fds -> ConnType] /\ thread \in ThreadType
    BY DEF Init, SockType, ConnType, ThreadType, NoConnection
  <2>4. handled \in [Clients -> Nat] /\ fds \in [Fds -> Clients \cup {NoOne}]
        /\ ready \subseteq Fds \cup {Listening} /\ fresh \subseteq Clients /\ begun = 0
    BY DEF Init
  <2>5. backlog \in Seq(Clients)
    BY DEF Init
  <2>6. starved \in BOOLEAN
    BY DEF Init
  <2> QED BY <2>1, <2>2, <2>3, <2>4, <2>5, <2>6, SizesAssumption DEF Types, Sending
<1>2. Descriptors
  BY DEF Init, Descriptors
<1>3. AcceptedOnce
  BY NoOneAssumption DEF Init, AcceptedOnce
<1>4. Streams
  <2>1. ASSUME NEW c \in Clients PROVE InStream(c, client[c], 0, sock[c].data)
    <3>1. sock[c].data = << >> /\ Len(client[c].lens) = 0 /\ Len(sock[c].data) = 0
      BY DEF Init
    <3> QED BY <3>1 DEF InStream
  <2>2. fresh = {}
    BY DEF Init
  <2> QED BY <2>1, <2>2 DEF Streams
<1>5. Buffers
  <2>1. \A fd \in Fds : connections[fd].buf = << >> /\ connections[fd].dsize = 0
                        /\ Len(connections[fd].buf) = 0
    BY DEF Init, NoConnection
  <2> QED BY <2>1, SizesAssumption DEF Buffers
<1>6. Covered
  BY DEF Init, Covered
<1> QED BY <1>1, <1>2, <1>3, <1>4, <1>5, <1>6 DEF Invariant

(* Every step keeps it.                                                    *)
LEMMA InvariantKept == Invariant /\ [Next]_vars => Invariant'
  BY TypesKept, DescriptorsKept, AcceptedOnceKept, StreamsKept, BuffersKept, CoveredKept DEF Invariant

(* What the buffers and the socket of a fresh connection hold is the       *)
(* stream of its client, word for word.                                    *)
LEMMA StreamOfInvariant ==
  ASSUME Invariant, NEW fd \in Fds, fds[fd] \in fresh
  PROVE  LET c == fds[fd]
             n == Len(client[c].lens)
             stream == connections[fd].buf \o sock[c].data
         IN  IF stream = << >> THEN handled[c] = n /\ SentWhole(c) = n
             ELSE /\ stream[1] = Word(c, handled[c] + 1, 1, Huge)
                  /\ \A i \in 1 .. Len(stream) - 1 :
                         stream[i + 1] = Following(c, stream[i])
                  /\ stream[Len(stream)] = Word(c, n, client[c].words, client[c].lens[n])
<1>0. Types /\ Streams
  BY DEF Invariant
<1>1. PICK c \in Clients : c = fds[fd]
  BY <1>0 DEF Types
<1>2. PICK h \in Nat : h = handled[c]
  BY <1>0 DEF Types
<1>3. PICK cl \in Record : cl = client[c]
  BY <1>0 DEF Types
<1>4. PICK s \in Seq(WordType) : s = connections[fd].buf \o sock[c].data
  <2>1. connections[fd].buf \in Seq(WordType) /\ sock[c].data \in Seq(WordType)
    BY <1>0 DEF Types, ConnType, SockType
  <2>2. connections[fd].buf \o sock[c].data \in Seq(WordType)
    BY <2>1
  <2> QED BY <2>2
<1>5. InStream(c, cl, h, s)
  BY <1>0, <1>1, <1>2, <1>3, <1>4 DEF Streams
<1>6. PICK n \in Nat : n = Len(cl.lens)
  BY DEF Record
<1>7. CASE s = << >>
  <2>1. h = n /\ (n = 0 \/ cl.words = cl.lens[n])
    BY <1>5, <1>6, <1>7 DEF InStream
  <2>2. SentWhole(c) = n
    BY <2>1, <1>3, <1>6 DEF SentWhole
  <2> QED BY <2>1, <2>2, <1>1, <1>2, <1>3, <1>4, <1>6, <1>7, Zenon
<1>8. CASE s # << >>
  <2>1. s[1] = Word(c, h + 1, 1, Huge) /\ s[Len(s)] = Word(c, n, cl.words, cl.lens[n])
    BY <1>5, <1>6, <1>8 DEF InStream
  <2>2. ASSUME NEW i \in 1 .. Len(s) - 1
        PROVE  s[i + 1] = Following(c, s[i])
    <3>1. s[i + 1] = IF s[i].at < cl.lens[s[i].request]
                     THEN Word(c, s[i].request, s[i].at + 1, cl.lens[s[i].request])
                     ELSE Word(c, s[i].request + 1, 1, Huge)
      BY <1>5, StreamNeighbours
    <3> QED BY <3>1, <1>3 DEF Following
  <2> QED BY <2>1, <2>2, <1>1, <1>2, <1>3, <1>4, <1>6, <1>8, Zenon
<1> QED BY <1>7, <1>8, Zenon

-----------------------------------------------------------------------------
(* The theorems.                                                           *)

(* In every reachable state of the listener the invariant holds.           *)
THEOREM ListenerInvariant == Spec => []Invariant
  BY InvariantBegins, InvariantKept, PTL DEF Spec

(* The types of the state, and that no more requests are handled than were *)
(* begun.                                                                  *)
THEOREM ListenerTypes == Spec => []TypeOK
<1>1. Invariant => TypeOK
  BY DEF Invariant, Types, Streams, TypeOK, Record, SockType, ConnType, ThreadType
<1> QED BY <1>1, ListenerInvariant, PTL

(* However reads cut the stream of a client, its buffer and its socket     *)
(* hold what it sent after the requests that onRequest got, each word once *)
(* and in its order.                                                       *)
THEOREM ListenerStreams == Spec => []StreamIntact
<1>1. Invariant => StreamIntact
  BY StreamOfInvariant, Zenon DEF StreamIntact
<1> QED BY <1>1, ListenerInvariant, PTL

(* onData never reads past the end of the buffer.                          *)
THEOREM ListenerRoom == Spec => []NoOverrun
<1>1. Invariant => NoOverrun
  BY DEF Invariant, Buffers, NoOverrun
<1> QED BY <1>1, ListenerInvariant, PTL

(* The edge-triggered loop leaves nothing unseen when it waits.            *)
THEOREM ListenerForgetsNothing == Spec => []NothingForgotten
<1>1. Invariant => NothingForgotten
  <2> SUFFICES ASSUME Invariant, thread.pc = "wait", ready = {}
               PROVE  /\ \A fd \in Fds \ Free : sock[fds[fd]].data = << >> /\ ~sock[fds[fd]].rst
                      /\ backlog = << >> \/ starved
    BY DEF NothingForgotten
  <2>1. thread.events = {} /\ Covered
    BY DEF Invariant, Descriptors
  <2> QED BY <2>1 DEF Covered, Free
<1> QED BY <1>1, ListenerInvariant, PTL

(* What onRequest gets is one whole request, the next one of its client.   *)
THEOREM ListenerRequests == Spec => RequestsWhole
<1> DEFINE A == \A c \in fresh :
                    handled'[c] # handled[c] =>
                        \E fd \in FdsOf(c) : connections[fd].buf = Request(c, handled'[c])
<1>1. Invariant /\ [Next]_vars => [A]_vars
  <2> SUFFICES ASSUME Invariant, Next, NEW c \in fresh, handled'[c] # handled[c]
               PROVE  \E fd \in FdsOf(c) : connections[fd].buf = Request(c, handled'[c])
    OBVIOUS
  <2>0. Types /\ Descriptors /\ Streams
    BY DEF Invariant
  <2>1. OnRequest
    BY Zenon DEF Next, Listener, Client, Connect, Send, Finish, Reset, Wait, HangUp, ListenEvent,
           DataEvent, EndOfEvents, Accept, AcceptFails, AcceptEnds, Read, ReadEnds
  <2>2. thread.fd \in Fds /\ fds[thread.fd] \in Clients /\ thread.pc = "data" /\ Wanted = 0
        /\ handled' = [handled EXCEPT ![fds[thread.fd]] = @ + 1]
    BY <2>0, <2>1, WantedType DEF OnRequest
  <2>3. handled \in [Clients -> Nat] /\ fresh \subseteq Clients
    BY <2>0 DEF Types
  <2>4. c = fds[thread.fd] /\ handled'[c] = handled[c] + 1
    BY <2>2, <2>3
  <2>5. connections[thread.fd].buf = Request(c, handled[c] + 1)
    BY <2>0, <2>2, <2>4, WholeRequest
  <2> QED BY <2>2, <2>4, <2>5 DEF FdsOf
<1>2. RequestsWhole <=> [][A]_vars
  BY PTL DEF RequestsWhole
<1> QED BY <1>1, <1>2, ListenerInvariant, PTL DEF Spec
=============================================================================
