-------------------------- MODULE DispatcherProofs --------------------------
(***************************************************************************)
(* TLAPS proofs about Dispatcher.                                          *)
(***************************************************************************)
EXTENDS Dispatcher, SequenceTheorems, WellFoundedInduction, TLAPS

-----------------------------------------------------------------------------
(***************************************************************************)
(* What the operations on the queue do to its elements.                    *)
(***************************************************************************)

(* Erasing one element keeps the others, in order.                         *)
LEMMA EraseElements ==
  ASSUME NEW S, NEW q \in Seq(S), NEW i \in DOMAIN q
  PROVE  /\ Erase(q, i) \in Seq(S)
         /\ Len(Erase(q, i)) = Len(q) - 1
         /\ \A j \in 1 .. Len(q) - 1 :
              Erase(q, i)[j] = IF j < i THEN q[j] ELSE q[j + 1]
<1> DEFINE a == SubSeq(q, 1, i - 1)
           b == SubSeq(q, i + 1, Len(q))
<1>1. /\ a \in Seq(S) /\ Len(a) = i - 1
      /\ \A j \in 1 .. i - 1 : a[j] = q[j]
  OBVIOUS
<1>2. /\ b \in Seq(S) /\ Len(b) = Len(q) - i
      /\ \A j \in 1 .. Len(q) - i : b[j] = q[j + i]
  OBVIOUS
<1> HIDE DEF a, b
<1>3. Erase(q, i) = a \o b
  BY Zenon DEF Erase, a, b
<1> QED  BY <1>1, <1>2, <1>3, ConcatProperties, SMTT(30)

(* Inserting one element keeps the others, in order.                       *)
LEMMA InsertElements ==
  ASSUME NEW S, NEW q \in Seq(S), NEW e \in S, NEW i \in 1 .. Len(q) + 1
  PROVE  /\ Insert(q, i, e) \in Seq(S)
         /\ Len(Insert(q, i, e)) = Len(q) + 1
         /\ \A j \in 1 .. Len(q) + 1 :
              Insert(q, i, e)[j] = IF j < i THEN q[j] ELSE IF j = i THEN e ELSE q[j - 1]
<1> DEFINE a == SubSeq(q, 1, i - 1)
           b == SubSeq(q, i, Len(q))
           ae == a \o <<e>>
<1>1. /\ a \in Seq(S) /\ Len(a) = i - 1
      /\ \A j \in 1 .. i - 1 : a[j] = q[j]
  OBVIOUS
<1>2. /\ b \in Seq(S) /\ Len(b) = Len(q) + 1 - i
      /\ \A j \in 1 .. Len(q) + 1 - i : b[j] = q[j + i - 1]
  OBVIOUS
<1>3. Insert(q, i, e) = ae \o b
  BY Zenon DEF Insert
<1> HIDE DEF a, b
<1>4. /\ ae \in Seq(S) /\ Len(ae) = i
      /\ \A j \in 1 .. i : ae[j] = IF j < i THEN q[j] ELSE e
  BY <1>1
<1> HIDE DEF ae
<1>5. /\ ae \o b \in Seq(S) /\ Len(ae \o b) = Len(q) + 1
      /\ \A j \in 1 .. Len(q) + 1 : (ae \o b)[j] = IF j <= i THEN ae[j] ELSE b[j - i]
  BY <1>2, <1>4, ConcatProperties
<1>6. ASSUME NEW j \in 1 .. Len(q) + 1
      PROVE  (ae \o b)[j] = IF j < i THEN q[j] ELSE IF j = i THEN e ELSE q[j - 1]
  BY <1>2, <1>4, <1>5
<1> QED  BY <1>3, <1>5, <1>6, Zenon

(* Every element is still there after an insertion.                        *)
LEMMA InsertKeeps ==
  ASSUME NEW S, NEW q \in Seq(S), NEW e \in S, NEW i \in 1 .. Len(q) + 1, NEW k \in DOMAIN q
  PROVE  \E j \in DOMAIN Insert(q, i, e) : Insert(q, i, e)[j] = q[k]
<1> DEFINE a == SubSeq(q, 1, i - 1)
           b == SubSeq(q, i, Len(q))
           ae == a \o <<e>>
           p == ae \o b
<1>1. /\ a \in Seq(S) /\ Len(a) = i - 1
      /\ \A j \in 1 .. i - 1 : a[j] = q[j]
  OBVIOUS
<1>2. /\ b \in Seq(S) /\ Len(b) = Len(q) + 1 - i
      /\ \A j \in 1 .. Len(q) + 1 - i : b[j] = q[j + i - 1]
  OBVIOUS
<1>3. Insert(q, i, e) = p
  BY Zenon DEF Insert
<1> HIDE DEF a, b
<1>4. /\ ae \in Seq(S) /\ Len(ae) = i
      /\ \A j \in 1 .. i - 1 : ae[j] = a[j]
  BY <1>1
<1> HIDE DEF ae
<1>5. /\ DOMAIN p = 1 .. Len(q) + 1
      /\ \A j \in 1 .. i : p[j] = ae[j]
      /\ \A j \in 1 .. Len(q) + 1 - i : p[i + j] = b[j]
  <2>1. p \in Seq(S) /\ Len(p) = Len(ae) + Len(b)
    BY <1>2, <1>4, ConcatProperties, Zenon
  <2>2. Len(p) = Len(q) + 1 /\ DOMAIN p = 1 .. Len(p)
    BY <1>2, <1>4, <2>1
  <2>3. ASSUME NEW j \in 1 .. i
        PROVE  p[j] = ae[j]
    BY <1>2, <1>4
  <2>4. ASSUME NEW j \in 1 .. Len(q) + 1 - i
        PROVE  p[i + j] = b[j]
    BY <1>2, <1>4
  <2> QED  BY <2>2, <2>3, <2>4, Zenon
<1> HIDE DEF p
<1>6. k \in 1 .. Len(q) /\ Len(q) \in Nat /\ i \in Int
  OBVIOUS
<1>7. CASE k < i
  <2>1. k \in 1 .. Len(q) + 1 /\ k \in 1 .. i /\ k \in 1 .. i - 1
    BY <1>6, <1>7
  <2>2. k \in DOMAIN p /\ p[k] = q[k]
    BY <1>1, <1>4, <1>5, <2>1, Zenon
  <2> QED  BY <1>3, <2>2, Zenon
<1>8. CASE ~(k < i)
  <2>1. PICK j \in 1 .. Len(q) + 1 - i : i + j = k + 1 /\ j + i - 1 = k
    <3>1. /\ k + 1 - i \in 1 .. Len(q) + 1 - i
          /\ i + (k + 1 - i) = k + 1 /\ (k + 1 - i) + i - 1 = k
      BY <1>6, <1>8
    <3> QED  BY <3>1, Zenon
  <2>2. k + 1 \in 1 .. Len(q) + 1
    BY <1>6
  <2>3. k + 1 \in DOMAIN p /\ p[k + 1] = q[k]
    BY <1>2, <1>5, <2>1, <2>2, Zenon
  <2> QED  BY <1>3, <2>3, Zenon
<1> QED  BY <1>7, <1>8, Zenon

LEMMA SuffixElements ==
  ASSUME NEW S, NEW q \in Seq(S), NEW n \in 0 .. Len(q)
  PROVE  /\ SubSeq(q, n + 1, Len(q)) \in Seq(S)
         /\ Len(SubSeq(q, n + 1, Len(q))) = Len(q) - n
         /\ \A j \in 1 .. Len(q) - n : SubSeq(q, n + 1, Len(q))[j] = q[j + n]
  OBVIOUS

LEMMA PrefixElements ==
  ASSUME NEW S, NEW q \in Seq(S), NEW n \in 0 .. Len(q)
  PROVE  /\ SubSeq(q, 1, n) \in Seq(S)
         /\ Len(SubSeq(q, 1, n)) = n
         /\ \A j \in 1 .. n : SubSeq(q, 1, n)[j] = q[j]
  OBVIOUS

-----------------------------------------------------------------------------
(***************************************************************************)
(* The books: a queue q and the answers res given so far agree when n      *)
(* packets have been accepted.                                             *)
(***************************************************************************)
Sound(q, res, n) ==
  /\ q \in Seq(Entries)
  /\ \A i \in DOMAIN q : q[i].seq < n
  /\ \A i, j \in DOMAIN q : q[i].seq = q[j].seq => i = j
  /\ res \in [Ids -> Seq(BOOLEAN)]
  /\ \A s \in Ids : Len(res[s]) = IF s < n /\ s \notin Queued(q) THEN 1 ELSE 0

(* The dedup table covers the queue.                                       *)
Covered(q, table) ==
  \A i \in DOMAIN q : /\ q[i].expiry <= SeenTtl
                      /\ ~Expired(q[i]) => table[q[i].hash] >= q[i].expiry

(* An on_result call is one more answer.                                   *)
LEMMA TellCounts ==
  ASSUME NEW B, NEW res \in [Ids -> Seq(B)], NEW ids, NEW ok \in B
  PROVE  /\ Tell(res, ids, ok) \in [Ids -> Seq(B)]
         /\ \A s \in Ids :
              Len(Tell(res, ids, ok)[s]) = IF s \in ids THEN Len(res[s]) + 1 ELSE Len(res[s])
<1>1. \A s \in Ids : Append(res[s], ok) \in Seq(B) /\ Len(Append(res[s], ok)) = Len(res[s]) + 1
  BY AppendProperties
<1> QED  BY <1>1, Zenon DEF Tell

(* Erasing a packet and calling its on_result keeps the books.             *)
LEMMA RemoveSound ==
  ASSUME NEW q, NEW res, NEW n \in Nat, NEW i \in DOMAIN q, NEW ok \in BOOLEAN,
         Sound(q, res, n)
  PROVE  /\ Sound(Erase(q, i), Tell(res, {q[i].seq}, ok), n)
         /\ Queued(Erase(q, i)) = Queued(q) \ {q[i].seq}
<1> DEFINE p == Erase(q, i)
           told == Tell(res, {q[i].seq}, ok)
<1>1. /\ q \in Seq(Entries) /\ i \in 1 .. Len(q) /\ q[i] \in Entries
      /\ res \in [Ids -> Seq(BOOLEAN)]
  BY DEF Sound
<1>2. /\ p \in Seq(Entries) /\ Len(p) = Len(q) - 1
      /\ \A j \in 1 .. Len(q) - 1 : p[j] = IF j < i THEN q[j] ELSE q[j + 1]
  BY <1>1, EraseElements, Zenon
<1> HIDE DEF p
<1>3. \A j \in DOMAIN p : \E k \in DOMAIN q : k # i /\ p[j] = q[k]
  <2> TAKE j \in DOMAIN p
  <2>1. CASE j < i
    BY <1>1, <1>2, <2>1, SMTT(30)
  <2>2. CASE j >= i
    <3>1. j + 1 \in DOMAIN q /\ j + 1 # i /\ p[j] = q[j + 1]
      BY <1>1, <1>2, <2>2
    <3> QED  BY <3>1, Zenon
  <2> QED  BY <1>1, <1>2, <2>1, <2>2
<1>4. \A k \in DOMAIN q : k # i => \E j \in DOMAIN p : p[j] = q[k]
  <2> TAKE k \in DOMAIN q
  <2> HAVE k # i
  <2>1. CASE k < i
    BY <1>1, <1>2, <2>1
  <2>2. CASE k > i
    <3>1. k - 1 \in DOMAIN p /\ p[k - 1] = q[k]
      BY <1>1, <1>2, <2>2
    <3> QED  BY <3>1, Zenon
  <2> QED  BY <1>1, <2>1, <2>2
<1>5. Queued(p) = Queued(q) \ {q[i].seq}
  BY <1>3, <1>4, SMTT(30) DEF Queued, Sound
<1>6. \A j \in DOMAIN p : p[j].seq < n
  BY <1>3, Zenon DEF Sound
<1>7. \A j, k \in DOMAIN p : p[j].seq = p[k].seq => j = k
  <2> SUFFICES ASSUME NEW j \in DOMAIN p, NEW k \in DOMAIN p, p[j].seq = p[k].seq
               PROVE  j = k
    BY Zenon
  <2> DEFINE J == IF j < i THEN j ELSE j + 1
             K == IF k < i THEN k ELSE k + 1
  <2>1. j \in 1 .. Len(q) - 1 /\ k \in 1 .. Len(q) - 1 /\ DOMAIN q = 1 .. Len(q)
    BY <1>1, <1>2
  <2>2. J \in DOMAIN q /\ K \in DOMAIN q
    BY <1>1, <2>1
  <2>3. p[j] = q[J] /\ p[k] = q[K]
    BY <1>2, <2>1, Zenon
  <2>4. \A a, b \in DOMAIN q : q[a].seq = q[b].seq => a = b
    BY Zenon DEF Sound
  <2>5. J = K
    <3> HIDE DEF J, K
    <3> QED  BY <2>2, <2>3, <2>4, Zenon
  <2> QED  BY <1>1, <2>1, <2>5
<1>8. told \in [Ids -> Seq(BOOLEAN)]
  BY <1>1, TellCounts, SMTT(30)
<1>9. \A s \in Ids : Len(told[s]) = IF s < n /\ s \notin Queued(p) THEN 1 ELSE 0
  <2> TAKE s \in Ids
  <2>1. Len(told[s]) = IF s = q[i].seq THEN Len(res[s]) + 1 ELSE Len(res[s])
    BY <1>1, TellCounts
  <2>2. q[i].seq \in Queued(q) /\ q[i].seq < n
    BY Zenon DEF Queued, Sound
  <2>3. Len(res[s]) = IF s < n /\ s \notin Queued(q) THEN 1 ELSE 0
    BY Zenon DEF Sound
  <2> HIDE DEF told
  <2> QED  BY <1>5, <2>1, <2>2, <2>3
<1> QED  BY <1>2, <1>5, <1>6, <1>7, <1>8, <1>9, Zenon DEF Sound, p

(* Putting a refused packet back at the front keeps the books.             *)
LEMMA PutBackSound ==
  ASSUME NEW q, NEW res, NEW n \in Nat, NEW i \in DOMAIN q, Sound(q, res, n)
  PROVE  /\ Sound(PutBack(q, i), res, n)
         /\ Queued(PutBack(q, i)) = Queued(q)
         /\ Len(PutBack(q, i)) = Len(q)
         /\ \A j \in DOMAIN PutBack(q, i) : \E k \in DOMAIN q : PutBack(q, i)[j] = q[k]
<1> DEFINE p == PutBack(q, i)
           At(j) == IF j = 1 THEN i ELSE IF j <= i THEN j - 1 ELSE j
<1>1. q \in Seq(Entries) /\ i \in 1 .. Len(q) /\ q[i] \in Entries
  BY DEF Sound
<1>2. /\ p \in Seq(Entries) /\ Len(p) = Len(q)
      /\ \A j \in 1 .. Len(q) : p[j] = q[At(j)]
  <2>1. /\ Erase(q, i) \in Seq(Entries) /\ Len(Erase(q, i)) = Len(q) - 1
        /\ \A j \in 1 .. Len(q) - 1 : Erase(q, i)[j] = IF j < i THEN q[j] ELSE q[j + 1]
    BY <1>1, EraseElements, Zenon
  <2>2. <<q[i]>> \in Seq(Entries) /\ Len(<<q[i]>>) = 1 /\ <<q[i]>>[1] = q[i]
    BY <1>1
  <2>3. /\ p \in Seq(Entries) /\ Len(p) = Len(q)
        /\ \A j \in 1 .. Len(q) :
             p[j] = IF j <= 1 THEN <<q[i]>>[j] ELSE Erase(q, i)[j - 1]
    BY <1>1, <2>1, <2>2, ConcatProperties DEF PutBack
  <2>4. ASSUME NEW j \in 1 .. Len(q)
        PROVE  p[j] = q[At(j)]
    BY <1>1, <2>1, <2>2, <2>3
  <2> QED  BY <2>3, <2>4, Zenon
<1> HIDE DEF p
<1>3. /\ \A j \in DOMAIN p : At(j) \in DOMAIN q
      /\ \A j, k \in DOMAIN p : At(j) = At(k) => j = k
      /\ \A k \in DOMAIN q : \E j \in DOMAIN p : At(j) = k
  <2>1. \A k \in DOMAIN q : \E j \in DOMAIN p : At(j) = k
    <3> TAKE k \in DOMAIN q
    <3> DEFINE w == IF k = i THEN 1 ELSE IF k < i THEN k + 1 ELSE k
    <3> w \in DOMAIN p
      BY <1>1, <1>2
    <3> WITNESS w \in DOMAIN p
    <3> QED  BY <1>1, <1>2
  <2> QED  BY <1>1, <1>2, <2>1
<1> HIDE DEF At
<1>4. Queued(p) = Queued(q)
  BY <1>1, <1>2, <1>3, SMTT(30) DEF Queued
<1>5. Sound(p, res, n)
  <2>1. \A j \in DOMAIN p : p[j].seq < n
    BY <1>2, <1>3 DEF Sound
  <2>2. \A j, k \in DOMAIN p : p[j].seq = p[k].seq => j = k
    <3>1. \A a, b \in DOMAIN q : q[a].seq = q[b].seq => a = b
      BY Zenon DEF Sound
    <3>2. \A j \in DOMAIN p : p[j] = q[At(j)]
      BY <1>2
    <3>3. ASSUME NEW j \in DOMAIN p, NEW k \in DOMAIN p, p[j].seq = p[k].seq
          PROVE  j = k
      <4>1. q[At(j)].seq = q[At(k)].seq /\ At(j) \in DOMAIN q /\ At(k) \in DOMAIN q
        BY <1>3, <3>2, <3>3, Zenon
      <4>2. At(j) = At(k)
        BY <3>1, <4>1, Zenon
      <4> QED  BY <1>3, <4>2, Zenon
    <3> QED  BY <3>3, Zenon
  <2> QED  BY <1>2, <1>4, <2>1, <2>2, Zenon DEF Sound
<1> QED  BY <1>1, <1>2, <1>3, <1>4, <1>5 DEF p

(* Accepting the next packet keeps the books.                              *)
LEMMA InsertSound ==
  ASSUME NEW q, NEW res, NEW n \in Ids, NEW e \in Entries, e.seq = n,
         NEW i \in 1 .. Len(q) + 1, Sound(q, res, n)
  PROVE  /\ Sound(Insert(q, i, e), res, n + 1)
         /\ Queued(Insert(q, i, e)) = Queued(q) \cup {n}
         /\ Len(Insert(q, i, e)) = Len(q) + 1
         /\ \A j \in DOMAIN Insert(q, i, e) :
              Insert(q, i, e)[j] = e \/ \E k \in DOMAIN q : Insert(q, i, e)[j] = q[k]
<1> DEFINE p == Insert(q, i, e)
<1>1. q \in Seq(Entries) /\ i \in 1 .. Len(q) + 1
  BY Zenon DEF Sound
<1>2. /\ p \in Seq(Entries) /\ Len(p) = Len(q) + 1
      /\ \A j \in 1 .. Len(q) + 1 :
           p[j] = IF j < i THEN q[j] ELSE IF j = i THEN e ELSE q[j - 1]
  BY <1>1, InsertElements
<1> HIDE DEF p
<1>3. \A j \in DOMAIN p : j # i => (IF j < i THEN j ELSE j - 1) \in DOMAIN q
  BY <1>1, <1>2
<1>4. \A k \in DOMAIN q : \E j \in DOMAIN p : j # i /\ p[j] = q[k]
  <2> TAKE k \in DOMAIN q
  <2>1. CASE k < i
    BY <1>1, <1>2, <2>1, SMTT(30)
  <2>2. CASE k >= i
    <3>1. k + 1 \in DOMAIN p /\ k + 1 # i /\ p[k + 1] = q[k]
      BY <1>1, <1>2, <2>2
    <3> QED  BY <3>1, Zenon
  <2> QED  BY <1>1, <2>1, <2>2
<1>5. \A j \in DOMAIN p : p[j] = e \/ \E k \in DOMAIN q : p[j] = q[k]
  BY <1>1, <1>2, <1>3
<1>6. Queued(p) = Queued(q) \cup {n}
  <2>1. i \in DOMAIN p /\ p[i] = e
    BY <1>1, <1>2
  <2> QED  BY <1>4, <1>5, <2>1 DEF Queued
<1>7. n \notin Queued(q) /\ n \in Nat
  BY DEF Queued, Sound, Ids
<1>8. \A j \in DOMAIN p : p[j].seq < n + 1
  <2> TAKE j \in DOMAIN p
  <2>1. CASE p[j] = e
    BY <1>7, <2>1
  <2>2. ASSUME NEW k \in DOMAIN q, p[j] = q[k]
        PROVE  p[j].seq < n + 1
    <3>1. q[k] \in Entries /\ q[k].seq < n
      BY <1>1 DEF Sound
    <3>2. q[k].seq \in Nat
      BY <3>1 DEF Entries, Ids
    <3> QED  BY <1>7, <2>2, <3>1, <3>2
  <2> QED  BY <1>5, <2>1, <2>2, Zenon
<1>9. \A j, k \in DOMAIN p : p[j].seq = p[k].seq => j = k
  <2> SUFFICES ASSUME NEW j \in DOMAIN p, NEW k \in DOMAIN p, p[j].seq = p[k].seq
               PROVE  j = k
    BY Zenon
  <2>1. CASE j = i \/ k = i
    BY <1>1, <1>2, <1>3, <1>7, <2>1 DEF Queued
  <2>2. CASE j # i /\ k # i
    <3>1. \A a, b \in DOMAIN q : q[a].seq = q[b].seq => a = b
      BY Zenon DEF Sound
    <3> DEFINE J == IF j < i THEN j ELSE j - 1
               K == IF k < i THEN k ELSE k - 1
    <3>2. j \in 1 .. Len(q) + 1 /\ k \in 1 .. Len(q) + 1
      BY <1>1, <1>2
    <3>3. J \in DOMAIN q /\ K \in DOMAIN q
      BY <1>3, <2>2, Zenon
    <3>4. p[j] = q[J] /\ p[k] = q[K]
      BY <1>2, <2>2, <3>2, Zenon
    <3>5. J = K
      <4> HIDE DEF J, K
      <4> QED  BY <3>1, <3>3, <3>4, Zenon
    <3> QED  BY <1>1, <2>2, <3>2, <3>5
  <2> QED  BY <2>1, <2>2, Zenon
<1>10. \A s \in Ids : Len(res[s]) = IF s < n + 1 /\ s \notin Queued(p) THEN 1 ELSE 0
  BY <1>6, <1>7 DEF Sound, Ids
<1>11. Sound(p, res, n + 1)
  BY <1>2, <1>8, <1>9, <1>10, Zenon DEF Sound
<1> QED  BY <1>2, <1>5, <1>6, <1>11, Zenon DEF p

(* The first k packets of q, and those behind them.                        *)
Splits(q, k) ==
  /\ Queued(SubSeq(q, k + 1, Len(q))) = Queued(q) \ Queued(SubSeq(q, 1, k))
  /\ Queued(SubSeq(q, 1, k)) \subseteq Queued(q)

LEMMA SweepQueued ==
  ASSUME NEW q, NEW res, NEW n \in Nat, NEW k \in 0 .. Len(q), Sound(q, res, n)
  PROVE  Splits(q, k)
<1> DEFINE p == SubSeq(q, k + 1, Len(q))
           d == SubSeq(q, 1, k)
<1>1. q \in Seq(Entries) /\ k \in 0 .. Len(q) /\ Len(q) \in Nat
  BY DEF Sound
<1>2. /\ p \in Seq(Entries) /\ Len(p) = Len(q) - k
      /\ \A j \in 1 .. Len(q) - k : p[j] = q[j + k]
  BY <1>1, SuffixElements, Zenon
<1>3. /\ d \in Seq(Entries) /\ Len(d) = k
      /\ \A j \in 1 .. k : d[j] = q[j]
  BY <1>1, PrefixElements, Zenon
<1> HIDE DEF p, d
<1>4. Queued(d) \subseteq Queued(q)
  BY <1>1, <1>3 DEF Queued
<1>5. \A j \in DOMAIN p : j + k \in DOMAIN q /\ p[j] = q[j + k] /\ j + k > k
  BY <1>1, <1>2
<1>6. Queued(p) = Queued(q) \ Queued(d)
  <2>1. ASSUME NEW j \in DOMAIN p
        PROVE  p[j].seq \in Queued(q) \ Queued(d)
    <3>1. j + k \in DOMAIN q /\ p[j] = q[j + k] /\ j + k > k
      BY <1>5, Zenon
    <3>2. \A m \in DOMAIN d : m \in DOMAIN q /\ m # j + k /\ d[m] = q[m]
      BY <1>1, <1>3, <3>1
    <3> QED  BY <3>1, <3>2, Zenon DEF Queued, Sound
  <2>2. ASSUME NEW m \in DOMAIN q, q[m].seq \notin Queued(d)
        PROVE  q[m].seq \in Queued(p)
    <3>1. m \notin 1 .. k
      BY <1>3, <2>2 DEF Queued
    <3>2. m \in 1 .. Len(q) /\ m - k \in 1 .. Len(q) - k /\ (m - k) + k = m
      BY <1>1, <3>1
    <3>3. m - k \in DOMAIN p /\ p[m - k] = q[m]
      BY <1>2, <3>2
    <3> QED  BY <3>3, Zenon DEF Queued
  <2> QED  BY <2>1, <2>2, Zenon DEF Queued
<1> QED  BY <1>4, <1>6, Zenon DEF p, d, Splits

(* Dropping the packets at the front and telling their senders keeps the   *)
(* books.                                                                  *)
LEMMA SweepSound ==
  ASSUME NEW q, NEW res, NEW n \in Nat, NEW k \in 0 .. Len(q), NEW ok \in BOOLEAN,
         Sound(q, res, n)
  PROVE  Sound(SubSeq(q, k + 1, Len(q)), Tell(res, Queued(SubSeq(q, 1, k)), ok), n)
<1> DEFINE p == SubSeq(q, k + 1, Len(q))
           d == SubSeq(q, 1, k)
           told == Tell(res, Queued(d), ok)
<1>1. /\ q \in Seq(Entries) /\ k \in 0 .. Len(q) /\ res \in [Ids -> Seq(BOOLEAN)]
      /\ Len(q) \in Nat
  BY DEF Sound
<1>2. /\ p \in Seq(Entries) /\ Len(p) = Len(q) - k
      /\ \A j \in 1 .. Len(q) - k : p[j] = q[j + k]
  BY <1>1, SuffixElements, Zenon
<1>3. Queued(p) = Queued(q) \ Queued(d) /\ Queued(d) \subseteq Queued(q)
  <2>1. Splits(q, k)
    BY SweepQueued, Zenon
  <2> QED  BY <2>1, Zenon DEF Splits
<1> HIDE DEF p, d
<1>5. \A j \in DOMAIN p : j + k \in DOMAIN q /\ p[j] = q[j + k] /\ j + k > k
  BY <1>1, <1>2
<1>7. \A i, j \in DOMAIN p : p[i].seq = p[j].seq => i = j
  <2> SUFFICES ASSUME NEW i \in DOMAIN p, NEW j \in DOMAIN p, p[i].seq = p[j].seq
               PROVE  i = j
    BY Zenon
  <2>1. i + k = j + k
    BY <1>5, Zenon DEF Sound
  <2> QED  BY <1>1, <1>2, <2>1
<1>8. told \in [Ids -> Seq(BOOLEAN)]
  BY <1>1, TellCounts, Zenon
<1>9. \A s \in Ids : Len(told[s]) = IF s < n /\ s \notin Queued(p) THEN 1 ELSE 0
  <2> TAKE s \in Ids
  <2>1. Len(told[s]) = IF s \in Queued(d) THEN Len(res[s]) + 1 ELSE Len(res[s])
    BY <1>1, TellCounts
  <2>2. s \in Queued(q) => s < n
    BY Zenon DEF Queued, Sound
  <2>3. Len(res[s]) = IF s < n /\ s \notin Queued(q) THEN 1 ELSE 0
    BY Zenon DEF Sound
  <2> HIDE DEF told
  <2> QED  BY <1>3, <2>1, <2>2, <2>3
<1>10. \A j \in DOMAIN p : p[j].seq < n
  BY <1>5, Zenon DEF Sound
<1> QED  BY <1>2, <1>7, <1>8, <1>9, <1>10, Zenon DEF Sound, p, d
-----------------------------------------------------------------------------
(***************************************************************************)
(* Delays                                                                  *)
(***************************************************************************)

(* A non-empty set of naturals has a least element.                        *)
LEMMA MinNat ==
  ASSUME NEW T \in SUBSET Nat, T # {}
  PROVE  Min(T) \in T
<1>1. PICK x \in T : \A y \in T : ~(<<y, x>> \in OpToRel(<, Nat))
  BY NatLessThanWellFounded, WFMin, Zenon
<1>2. \A y \in T : x <= y
  <2> TAKE y \in T
  <2>1. x \in Nat /\ y \in Nat
    BY Zenon
  <2>2. ~(y < x)
    BY <1>1, <2>1, Zenon DEF OpToRel
  <2> QED  BY <2>1, <2>2
<1> QED  BY <1>2, Zenon DEF Min

(* wait_ms() is a delay.                                                   *)
LEMMA WaitMsNat ==
  ASSUME NEW account, NEW b, NEW airtime
  PROVE  WaitMs(account, b, airtime) \in Nat
<1>1. Window \in Nat
  BY WindowAssumption, Zenon
<1>2. ASSUME NEW x, Releases(account, x) # {}
      PROVE  Min(Releases(account, x)) \in Nat
  <2>1. Releases(account, x) \in SUBSET Nat
    BY <1>1 DEF Releases, Ages
  <2> QED  BY <1>2, <2>1, MinNat, Zenon
<1> QED  BY <1>1, <1>2, Zenon DEF WaitMs

(* schedule_pump() always leaves a timer armed.                            *)
LEMMA SchedulePumpArms ==
  ASSUME NEW t \in Nat \cup {NoTimer}, NEW d \in Nat
  PROVE  SchedulePump(t, d) \in Nat
  BY Zenon DEF SchedulePump, NoTimer
-----------------------------------------------------------------------------
(***************************************************************************)
(* The pump                                                                *)
(***************************************************************************)
Radios == [ready : BOOLEAN, hasFrequency : BOOLEAN, hearing : BOOLEAN]

BusyOK == busyFor \in 0 .. BusyMax \cup {NotBusy}

OnAirOK == onAir \in Seq(Entries) /\ Len(onAir) <= 1

(* What pump() needs of the state its caller has reached.                  *)
PumpPre(q, res, t, r, n, table) ==
  /\ Sound(q, res, n) /\ Covered(q, table) /\ Len(q) <= QueueLimit
  /\ t \in Nat \cup {NoTimer}
  /\ r \in Radios
  /\ BusyOK /\ OnAirOK /\ refused \in BOOLEAN

(* What pump() leaves behind.                                              *)
PumpPost(n, table) ==
  /\ Sound(queue', results', n) /\ Covered(queue', table) /\ Len(queue') <= QueueLimit
  /\ timer' \in Nat \cup {NoTimer}
  /\ radio' \in Radios
  /\ BusyOK' /\ OnAirOK' /\ refused' \in BOOLEAN
  /\ NoStall'

LEMMA ConstantTypes ==
  /\ QueueLimit \in Nat \ {0} /\ ExpiryPerPriority \in Nat \ {0} /\ SeenTtl \in Nat \ {0}
  /\ BusyRetry \in Nat \ {0} /\ BusyJitter \in Nat \ {0} /\ BusyMax \in Nat \ {0}
  /\ DownRecheck \in Nat \ {0} /\ DutyRecheck \in Nat \ {0} /\ TxRetry \in Nat \ {0}
  /\ Jitter \in Nat /\ MaxSends \in Nat
  BY DispatcherAssumption, Zenon

(* The transmit attempt: the radio takes the packet, or it goes back to    *)
(* the front and the pump is scheduled.                                    *)
LEMMA TransmitSound ==
  ASSUME NEW q, NEW res, NEW t, NEW r, NEW n \in Nat, NEW table, NEW i \in DOMAIN q,
         PumpPre(q, res, t, r, n, table), Transmit(q, i, res, t, r)
  PROVE  PumpPost(n, table)
<1>1. q \in Seq(Entries) /\ i \in 1 .. Len(q) /\ q[i] \in Entries
  BY DEF PumpPre, Sound
<1>2. BusyOK'
  BY Zenon DEF Transmit, BusyOK
<1>3. CASE /\ onAir' = <<q[i]>>
           /\ Rest(Erase(q, i), Tell(res, {q[i].seq}, TRUE), t, r)
           /\ UNCHANGED refused
  <2>1. Sound(Erase(q, i), Tell(res, {q[i].seq}, TRUE), n)
    BY RemoveSound, Zenon DEF PumpPre
  <2>2. /\ Len(Erase(q, i)) = Len(q) - 1
        /\ \A j \in 1 .. Len(q) - 1 : Erase(q, i)[j] = IF j < i THEN q[j] ELSE q[j + 1]
    BY <1>1, EraseElements, Zenon
  <2>3. Len(queue') <= QueueLimit
    BY <1>1, <1>3, <2>2, ConstantTypes DEF Rest, PumpPre
  <2>4. Covered(queue', table)
    <3> SUFFICES ASSUME NEW j \in DOMAIN Erase(q, i)
                 PROVE  \E k \in DOMAIN q : Erase(q, i)[j] = q[k]
      BY <1>3, Zenon DEF Covered, Rest, PumpPre
    <3>1. j \in 1 .. Len(q) - 1
      BY <1>1, <2>1, <2>2 DEF Sound
    <3>2. (IF j < i THEN j ELSE j + 1) \in DOMAIN q
      BY <1>1, <3>1
    <3> QED  BY <2>2, <3>1, <3>2, Zenon
  <2>5. OnAirOK' /\ onAir' # <<>>
    BY <1>1, <1>3 DEF OnAirOK
  <2> QED  BY <1>2, <1>3, <2>1, <2>3, <2>4, <2>5, Zenon DEF PumpPost, PumpPre, Rest, NoStall
<1>4. CASE /\ Rest(PutBack(q, i), res, SchedulePump(t, TxRetry), [r EXCEPT !.ready = FALSE])
           /\ refused' = TRUE
           /\ UNCHANGED onAir
  <2>1. /\ Sound(PutBack(q, i), res, n) /\ Len(PutBack(q, i)) = Len(q)
        /\ \A j \in DOMAIN PutBack(q, i) : \E k \in DOMAIN q : PutBack(q, i)[j] = q[k]
    BY PutBackSound DEF PumpPre
  <2>2. timer' \in Nat
    BY <1>4, SchedulePumpArms, ConstantTypes, Zenon DEF PumpPre, Rest
  <2>3. Covered(queue', table)
    BY <1>4, <2>1, Zenon DEF Covered, Rest, PumpPre
  <2>4. radio' \in Radios
    BY <1>4, Zenon DEF Rest, Radios, PumpPre
  <2>5. OnAirOK'
    BY <1>4, Zenon DEF OnAirOK, PumpPre
  <2>6. NoStall'
    BY <2>2 DEF NoStall, NoTimer
  <2> QED  BY <1>2, <1>4, <2>1, <2>2, <2>3, <2>4, <2>5, <2>6, Zenon DEF PumpPost, PumpPre, Rest
<1> QED  BY <1>3, <1>4, Zenon DEF Transmit

(* A pump that leaves the queue as it is leaves a timer armed.             *)
LEMMA HoldSound ==
  ASSUME NEW q, NEW res, NEW t, NEW r, NEW n \in Nat, NEW table, NEW d \in Nat,
         PumpPre(q, res, t, r, n, table), Rest(q, res, SchedulePump(t, d), r),
         UNCHANGED <<onAir, refused>>, BusyOK'
  PROVE  PumpPost(n, table)
<1>1. timer' \in Nat
  BY SchedulePumpArms, Zenon DEF PumpPre, Rest
<1>2. NoStall'
  BY <1>1 DEF NoStall, NoTimer
<1>3. OnAirOK'
  BY Zenon DEF OnAirOK, PumpPre
<1> QED  BY <1>1, <1>2, <1>3, Zenon DEF PumpPost, PumpPre, Rest

LEMMA PumpLiveSound ==
  ASSUME NEW q, NEW res, NEW t, NEW r, NEW b, NEW n \in Nat, NEW table,
         PumpPre(q, res, t, r, n, table), PumpLive(q, res, t, r, b)
  PROVE  PumpPost(n, table)
<1> DEFINE Same == UNCHANGED <<busyFor, onAir, refused>>
<1>1. Same => BusyOK' /\ OnAirOK' /\ refused' \in BOOLEAN
  BY Zenon DEF PumpPre, BusyOK, OnAirOK
<1>2. CASE q = <<>> /\ Rest(q, res, t, r) /\ Same
  BY <1>1, <1>2, Zenon DEF PumpPre, PumpPost, Rest, NoStall
<1>3. CASE Rest(q, res, SchedulePump(t, DownRecheck), r) /\ Same
  BY <1>1, <1>3, HoldSound, ConstantTypes, Zenon
<1>4. ASSUME NEW i \in DOMAIN q, Rest(q, res, SchedulePump(t, q[i].notBefore), r), Same
      PROVE  PumpPost(n, table)
  <2>1. q[i] \in Entries
    BY DEF PumpPre, Sound
  <2>2. q[i].notBefore \in Nat
    BY <2>1, Zenon DEF Entries
  <2> QED  BY <1>1, <1>4, <2>2, HoldSound, Zenon
<1>5. ASSUME NEW i \in DOMAIN q, PumpReady(q, i, res, t, r, b)
      PROVE  PumpPost(n, table)
  <2> DEFINE wait == WaitMs(spent, b, q[i].airtime)
  <2>1. CASE Rest(q, res, SchedulePump(t, Min({wait, DutyRecheck})), r) /\ Same
    <3>1. wait \in Nat
      BY WaitMsNat, Zenon
    <3>2. {wait, DutyRecheck} \in SUBSET Nat /\ {wait, DutyRecheck} # {}
      BY <3>1, ConstantTypes, Zenon
    <3>3. Min({wait, DutyRecheck}) \in Nat
      BY <3>2, MinNat, Zenon
    <3> QED  BY <1>1, <2>1, <3>3, HoldSound, Zenon
  <2>2. CASE Defer(q, res, t, r)
    <3>1. BusyOK'
      BY <2>2, ConstantTypes DEF Defer, BusyOK, PumpPre, NotBusy
    <3>2. PICK d \in BusyRetry .. BusyRetry + BusyJitter - 1 :
            Rest(q, res, SchedulePump(t, d), r)
      BY <2>2, Zenon DEF Defer
    <3>3. d \in Nat /\ UNCHANGED <<onAir, refused>>
      BY <2>2, <3>2, ConstantTypes DEF Defer
    <3> QED  BY <3>1, <3>2, <3>3, HoldSound, Zenon
  <2>3. CASE Transmit(q, i, res, t, r)
    BY <2>3, TransmitSound, Zenon
  <2> QED  BY <1>5, <2>1, <2>2, <2>3, Zenon DEF PumpReady
<1> QED  BY <1>2, <1>3, <1>4, <1>5, Zenon DEF PumpLive

(* pump(), from any state that keeps the books, keeps them and leaves no   *)
(* packet without something that will pump again.                          *)
LEMMA PumpSound ==
  ASSUME NEW q, NEW res, NEW t, NEW r, NEW b, NEW n \in Nat, NEW table,
         PumpPre(q, res, t, r, n, table), Pump(q, res, t, r, b)
  PROVE  PumpPost(n, table)
<1>1. CASE (q = <<>> \/ TxBusy) /\ Rest(q, res, t, r) /\ UNCHANGED <<busyFor, onAir, refused>>
  <2>1. BusyOK' /\ OnAirOK' /\ refused' \in BOOLEAN
    BY <1>1, Zenon DEF PumpPre, BusyOK, OnAirOK
  <2>2. NoStall'
    BY <1>1, Zenon DEF NoStall, TxBusy, Rest
  <2> QED  BY <1>1, <2>1, <2>2, Zenon DEF PumpPre, PumpPost, Rest
<1>2. ASSUME NEW k \in 0 .. Len(q),
             PumpLive(SubSeq(q, k + 1, Len(q)), Tell(res, Queued(SubSeq(q, 1, k)), FALSE), t, r, b)
      PROVE  PumpPost(n, table)
  <2> DEFINE p == SubSeq(q, k + 1, Len(q))
             told == Tell(res, Queued(SubSeq(q, 1, k)), FALSE)
  <2>1. Sound(p, told, n)
    BY SweepSound, Zenon DEF PumpPre
  <2>2. q \in Seq(Entries) /\ Len(q) \in Nat
    BY DEF PumpPre, Sound
  <2>3. Len(p) = Len(q) - k /\ \A j \in 1 .. Len(q) - k : p[j] = q[j + k]
    BY <2>2, SuffixElements, Zenon
  <2>4. DOMAIN p = 1 .. Len(q) - k
    BY <2>1, <2>3 DEF Sound
  <2> HIDE DEF p
  <2>5. Covered(p, table)
    <3> SUFFICES ASSUME NEW j \in DOMAIN p
                 PROVE  j + k \in DOMAIN q /\ p[j] = q[j + k]
      BY Zenon DEF Covered, PumpPre
    <3> QED  BY <2>2, <2>3, <2>4
  <2>6. Len(p) <= QueueLimit
    BY <2>2, <2>3, ConstantTypes DEF PumpPre
  <2> HIDE DEF told
  <2>7. PumpPre(p, told, t, r, n, table)
    BY <2>1, <2>5, <2>6, Zenon DEF PumpPre
  <2> QED  BY <1>2, <2>7, PumpLiveSound, Zenon DEF p, told
<1> QED  BY <1>1, <1>2, Zenon DEF Pump
-----------------------------------------------------------------------------
(***************************************************************************)
(* The inductive invariant, action by action                               *)
(***************************************************************************)
Inv ==
  /\ PumpPre(queue, results, timer, radio, nextSeq, seen)
  /\ NoStall
  /\ nextSeq \in 0 .. MaxSends
  /\ seen \in [Hashes -> Nat \cup {Unseen}]
  /\ spent \in [Ages -> Nat]
  /\ budget \in Budgets

LEMMA InvImplies == Inv => TypeOK /\ ExactlyOnce /\ NoStall /\ QueuedIsSeen
  BY Zenon DEF Inv, PumpPre, Sound, Covered, BusyOK, OnAirOK, Radios, TypeOK, ExactlyOnce, QueuedIsSeen

LEMMA InvAfterPump ==
  ASSUME PumpPost(nextSeq', seen'), nextSeq' \in 0 .. MaxSends,
         seen' \in [Hashes -> Nat \cup {Unseen}], spent' \in [Ages -> Nat], budget' \in Budgets
  PROVE  Inv'
  BY Zenon DEF Inv, PumpPre, PumpPost, BusyOK, OnAirOK, NoStall

LEMMA InitInv == Init => Inv
<1> SUFFICES ASSUME Init PROVE Inv
  BY Zenon
<1>1. Sound(queue, results, nextSeq)
  <2>1. queue \in Seq(Entries) /\ DOMAIN queue = {}
    BY DEF Init
  <2>2. <<>> \in Seq(BOOLEAN) /\ Len(<<>>) = 0
    OBVIOUS
  <2>3. results \in [Ids -> Seq(BOOLEAN)] /\ \A s \in Ids : Len(results[s]) = 0
    BY <2>2, Zenon DEF Init
  <2>4. \A s \in Ids : ~(s < nextSeq)
    BY ConstantTypes DEF Init, Ids
  <2> QED  BY <2>1, <2>3, <2>4, Zenon DEF Sound
<1>2. Covered(queue, seen) /\ Len(queue) <= QueueLimit /\ NoStall
  BY ConstantTypes DEF Init, Covered, NoStall
<1>3. timer \in Nat \cup {NoTimer} /\ busyFor \in {NotBusy} /\ refused \in BOOLEAN
  BY Zenon DEF Init
<1>4. onAir = <<>>
  BY Zenon DEF Init
<1>5. BusyOK /\ OnAirOK
  BY <1>3, <1>4 DEF BusyOK, OnAirOK
<1>6. radio \in Radios
  <2> PICK freq \in BOOLEAN : radio = [ready |-> FALSE, hasFrequency |-> freq, hearing |-> FALSE]
    BY Zenon DEF Init
  <2> QED  BY Zenon DEF Radios
<1>7. nextSeq \in 0 .. MaxSends /\ seen \in [Hashes -> Nat \cup {Unseen}] /\ budget \in Budgets
  BY ConstantTypes DEF Init
<1>8. spent \in [Ages -> Nat]
  BY Zenon DEF Init, NothingSpent
<1> QED  BY <1>1, <1>2, <1>3, <1>5, <1>6, <1>7, <1>8, Zenon DEF Inv, PumpPre

(* A dedup entry only gets fresher when its hash is marked.                *)
LEMMA MarkSeenCovers ==
  ASSUME NEW q \in Seq(Entries), NEW hash \in Hashes, seen \in [Hashes -> Nat \cup {Unseen}],
         Covered(q, seen)
  PROVE  MarkSeen(hash) \in [Hashes -> Nat \cup {Unseen}] /\ Covered(q, MarkSeen(hash))
<1>1. MarkSeen(hash) \in [Hashes -> Nat \cup {Unseen}]
  BY ConstantTypes, Zenon DEF MarkSeen
<1>2. \A i \in DOMAIN q : q[i] \in Entries
  OBVIOUS
<1> QED  BY <1>1, <1>2, Zenon DEF Covered, MarkSeen, Entries

LEMMA SendInv ==
  ASSUME Inv, NEW p \in Traffic, Send(p)
  PROVE  Inv'
<1> DEFINE e == [hash |-> p.hash, airtime |-> p.airtime, priority |-> p.priority,
                 expiry |-> ExpiryPerPriority * p.priority, notBefore |-> p.delay,
                 seq |-> nextSeq]
<1>1. /\ p.hash \in Hashes /\ p.airtime \in Nat /\ p.priority \in Nat \ {0} /\ p.delay \in Nat
      /\ ExpiryPerPriority * p.priority <= SeenTtl
  BY DispatcherAssumption, Zenon
<1>2. ExpiryPerPriority * p.priority \in Nat
  BY <1>1, ConstantTypes
<1>3. nextSeq \in Ids /\ nextSeq \in Nat /\ nextSeq' = nextSeq + 1 /\ nextSeq' \in 0 .. MaxSends
  BY ConstantTypes, SMTT(30) DEF Send, Inv, Ids
<1>4. e \in Entries
  BY <1>1, <1>2, <1>3, Zenon DEF Entries
<1>5. PICK pos \in 1 .. Len(queue) + 1 :
        LET q == Insert(queue, pos, e)
        IN  \/ /\ ~Overflows(q)
               /\ Pump(q, results, timer, radio, budget)
            \/ /\ Overflows(q)
               /\ \E v \in DOMAIN q :
                    Pump(Erase(q, v), Tell(results, {q[v].seq}, FALSE), timer, radio, budget)
  BY Zenon DEF Send, UpperBounds
<1> DEFINE q == Insert(queue, pos, e)
<1>6. /\ Sound(queue, results, nextSeq) /\ queue \in Seq(Entries) /\ Covered(queue, seen)
      /\ Len(queue) <= QueueLimit /\ seen \in [Hashes -> Nat \cup {Unseen}]
  BY Zenon DEF Inv, PumpPre, Sound
<1>7. /\ seen' = MarkSeen(p.hash) /\ seen' \in [Hashes -> Nat \cup {Unseen}]
      /\ Covered(queue, seen')
  BY <1>1, <1>6, MarkSeenCovers, Zenon DEF Send
<1>8. e.seq = nextSeq /\ e.hash = p.hash /\ e.expiry = ExpiryPerPriority * p.priority
  BY Zenon
<1> HIDE DEF e
<1>9. /\ Sound(q, results, nextSeq') /\ Len(q) = Len(queue) + 1
      /\ \A j \in DOMAIN q : q[j] = e \/ \E k \in DOMAIN queue : q[j] = queue[k]
  BY <1>3, <1>4, <1>6, <1>8, InsertSound, SMTT(30)
<1>10. e.expiry <= SeenTtl /\ seen'[e.hash] >= e.expiry
  BY <1>1, <1>2, <1>6, <1>7, <1>8, ConstantTypes, Zenon DEF MarkSeen
<1> HIDE DEF q
<1>11. Covered(q, seen')
  BY <1>7, <1>9, <1>10, Zenon DEF Covered
<1>12. nextSeq' \in Nat
  BY <1>3
<1>13. PumpPost(nextSeq', seen')
  <2>1. CASE ~Overflows(q) /\ Pump(q, results, timer, radio, budget)
    <3>1. Len(q) <= QueueLimit
      BY <2>1, <1>6, <1>9, ConstantTypes DEF Overflows
    <3>2. PumpPre(q, results, timer, radio, nextSeq', seen')
      BY <1>9, <1>11, <3>1, Zenon DEF Inv, PumpPre
    <3> QED  BY <1>12, <2>1, <3>2, PumpSound, Zenon
  <2>2. ASSUME NEW v \in DOMAIN q,
               Pump(Erase(q, v), Tell(results, {q[v].seq}, FALSE), timer, radio, budget)
        PROVE  PumpPost(nextSeq', seen')
    <3> DEFINE rest == Erase(q, v)
               told == Tell(results, {q[v].seq}, FALSE)
    <3>1. Sound(rest, told, nextSeq')
      BY <1>9, <1>12, RemoveSound, Zenon
    <3>2. /\ q \in Seq(Entries) /\ v \in 1 .. Len(q) /\ Len(q) \in Nat
      BY <1>9 DEF Sound
    <3>3. /\ Len(rest) = Len(q) - 1
          /\ \A j \in 1 .. Len(q) - 1 : rest[j] = IF j < v THEN q[j] ELSE q[j + 1]
      BY <3>2, EraseElements, Zenon
    <3>4. DOMAIN rest = 1 .. Len(q) - 1
      BY <3>1, <3>3 DEF Sound
    <3> HIDE DEF rest, told
    <3>5. Covered(rest, seen')
      <4> SUFFICES ASSUME NEW j \in DOMAIN rest
                   PROVE  \E k \in DOMAIN q : rest[j] = q[k]
        BY <1>11, Zenon DEF Covered
      <4>1. (IF j < v THEN j ELSE j + 1) \in DOMAIN q
        BY <3>2, <3>4
      <4> QED  BY <3>3, <3>4, <4>1, Zenon
    <3>6. Len(rest) <= QueueLimit
      BY <1>6, <1>9, <3>2, <3>3, ConstantTypes
    <3>7. PumpPre(rest, told, timer, radio, nextSeq', seen')
      BY <3>1, <3>5, <3>6, Zenon DEF Inv, PumpPre
    <3> QED  BY <1>12, <2>2, <3>7, PumpSound, Zenon DEF rest, told
  <2> QED  BY <1>5, <2>1, <2>2, Zenon DEF q
<1>14. spent' = spent /\ budget' = budget
  BY Zenon DEF Send
<1> QED  BY <1>3, <1>7, <1>13, <1>14, InvAfterPump, Zenon DEF Inv

LEMMA PumpTimerInv ==
  ASSUME Inv, PumpTimer
  PROVE  Inv'
<1>1. PumpPre(queue, results, NoTimer, radio, nextSeq, seen)
  BY Zenon DEF Inv, PumpPre
<1>2. nextSeq \in Nat /\ Pump(queue, results, NoTimer, radio, budget)
  BY DEF Inv, PumpTimer
<1>3. PumpPost(nextSeq, seen)
  BY <1>1, <1>2, PumpSound, Zenon
<1>4. UNCHANGED <<nextSeq, seen, spent, budget>>
  BY Zenon DEF PumpTimer
<1> QED  BY <1>3, <1>4, InvAfterPump, Zenon DEF Inv

LEMMA ReconfigureInv ==
  ASSUME Inv, NEW b \in Budgets, Reconfigure(b)
  PROVE  Inv'
<1>1. PICK r \in Reconfigured(radio) : Pump(queue, results, timer, r, b)
  BY Zenon DEF Reconfigure
<1>2. r \in Radios
  BY Zenon DEF Reconfigured, Radios, Inv, PumpPre
<1>3. PumpPre(queue, results, timer, r, nextSeq, seen) /\ nextSeq \in Nat
  BY <1>2 DEF Inv, PumpPre
<1>4. PumpPost(nextSeq, seen)
  BY <1>1, <1>3, PumpSound, Zenon
<1>5. UNCHANGED <<nextSeq, seen, spent>> /\ budget' \in Budgets
  BY Zenon DEF Reconfigure
<1> QED  BY <1>4, <1>5, InvAfterPump, Zenon DEF Inv

(* The steps that leave the queue and the books alone.                     *)
LEMMA QuietInv ==
  ASSUME Inv, UNCHANGED <<queue, nextSeq, results, busyFor, refused>>,
         timer' \in Nat \cup {NoTimer}, radio' \in Radios, OnAirOK', NoStall',
         seen' \in [Hashes -> Nat \cup {Unseen}], Covered(queue, seen'),
         spent' \in [Ages -> Nat], budget' \in Budgets
  PROVE  Inv'
  BY Zenon DEF Inv, PumpPre, BusyOK

LEMMA SeenInv ==
  ASSUME Inv, ExpireSeen \/ \E h \in Hashes : Receive(h)
  PROVE  Inv'
<1>1. /\ UNCHANGED <<queue, nextSeq, timer, busyFor, spent, budget, radio, onAir, results, refused>>
      /\ NoStall' /\ OnAirOK'
  BY Zenon DEF ExpireSeen, Receive, Inv, NoStall, OnAirOK, PumpPre
<1>2. /\ queue \in Seq(Entries) /\ seen \in [Hashes -> Nat \cup {Unseen}] /\ Covered(queue, seen)
  BY Zenon DEF Inv, PumpPre, Sound
<1>3. seen' \in [Hashes -> Nat \cup {Unseen}] /\ Covered(queue, seen')
  <2>1. CASE ExpireSeen
    <3>1. seen' \in [Hashes -> Nat \cup {Unseen}]
      BY <1>2, <2>1, Zenon DEF ExpireSeen
    <3>2. \A i \in DOMAIN queue : queue[i] \in Entries
      BY <1>2
    <3>3. ASSUME NEW i \in DOMAIN queue, ~Expired(queue[i])
          PROVE  seen'[queue[i].hash] = seen[queue[i].hash]
      <4>1. queue[i].hash \in Hashes /\ queue[i].expiry \in Nat /\ queue[i].expiry # 0
        BY <3>2, <3>3, Zenon DEF Entries, Expired
      <4>2. seen[queue[i].hash] # 0
        BY <1>2, <3>3, <4>1 DEF Covered
      <4> QED  BY <2>1, <4>1, <4>2, Zenon DEF ExpireSeen
    <3> QED  BY <1>2, <3>1, <3>3, Zenon DEF Covered
  <2>2. ASSUME NEW h \in Hashes, Receive(h)
        PROVE  seen' \in [Hashes -> Nat \cup {Unseen}] /\ Covered(queue, seen')
    BY <1>2, <2>2, MarkSeenCovers, Zenon DEF Receive
  <2> QED  BY <2>1, <2>2, Zenon
<1> QED  BY <1>1, <1>3, QuietInv, Zenon DEF Inv, PumpPre

LEMMA TxDoneInv ==
  ASSUME Inv, NEW airtime \in Nat, TxDone(airtime)
  PROVE  Inv'
<1>1. PICK d \in 1 .. 1 + Jitter : timer' = SchedulePump(timer, d)
  BY Zenon DEF TxDone
<1>2. d \in Nat /\ timer \in Nat \cup {NoTimer}
  BY ConstantTypes DEF Inv, PumpPre
<1>3. timer' \in Nat
  BY <1>1, <1>2, SchedulePumpArms, Zenon
<1>4. timer' \in Nat /\ NoStall'
  BY <1>3 DEF NoStall, NoTimer
<1>5. radio' \in Radios
  BY Zenon DEF TxDone, Inv, PumpPre, Radios
<1>6. OnAirOK'
  BY DEF TxDone, OnAirOK
<1>7. spent' \in [Ages -> Nat]
  BY WindowAssumption DEF TxDone, Inv, Record, Ages
<1> QED  BY <1>4, <1>5, <1>6, <1>7, QuietInv, Zenon DEF TxDone, Inv, PumpPre

LEMMA RadioInv ==
  ASSUME Inv, RadioDown \/ RadioUp \/ ChannelChanges
  PROVE  Inv'
<1>1. radio' \in Radios
  BY Zenon DEF RadioDown, RadioUp, ChannelChanges, Inv, PumpPre, Radios
<1>2. UNCHANGED <<queue, nextSeq, timer, busyFor, seen, spent, budget, onAir, results, refused>>
  BY Zenon DEF RadioDown, RadioUp, ChannelChanges
<1>3. NoStall' /\ OnAirOK'
  BY <1>2, Zenon DEF Inv, PumpPre, NoStall, OnAirOK
<1> QED  BY <1>1, <1>2, <1>3, QuietInv, Zenon DEF Inv, PumpPre

(* Time passes: what is left of every deadline shrinks, and what a packet  *)
(* has left never shrinks slower than what its dedup entry has.            *)
LEMMA TickInv ==
  ASSUME Inv, Tick
  PROVE  Inv'
<1>1. \A n \in Nat \cup {-1} : Less(n) \in Nat \cup {-1} /\ (n \in Nat => Less(n) \in Nat)
  BY DEF Less
<1> DEFINE Older(e) == [e EXCEPT !.expiry = Less(@), !.notBefore = Less(@)]
<1>2. queue' = [i \in DOMAIN queue |-> Older(queue[i])]
  BY Zenon DEF Tick
<1>3. /\ timer' = Less(timer)
      /\ busyFor' = IF busyFor = NotBusy \/ busyFor = BusyMax THEN busyFor ELSE busyFor + 1
      /\ seen' = [h \in Hashes |-> Less(seen[h])]
  BY Zenon DEF Tick
<1>4. UNCHANGED <<nextSeq, budget, radio, onAir, results, refused>>
  BY Zenon DEF Tick
<1>5. spent' = Aged(spent)
  BY Zenon DEF Tick
<1>6. ASSUME NEW e \in Entries
      PROVE  /\ Older(e) \in Entries
             /\ Older(e).seq = e.seq /\ Older(e).hash = e.hash
             /\ Older(e).expiry = Less(e.expiry)
  <2>1. Less(e.expiry) \in Nat /\ Less(e.notBefore) \in Nat
    BY <1>1, Zenon DEF Entries
  <2> QED  BY <2>1, Zenon DEF Entries
<1> HIDE DEF Older
<1>7. /\ queue \in Seq(Entries) /\ Len(queue) \in Nat /\ Len(queue) <= QueueLimit
      /\ \A i \in DOMAIN queue : queue[i] \in Entries
      /\ Sound(queue, results, nextSeq)
  <2>1. Sound(queue, results, nextSeq) /\ Len(queue) <= QueueLimit
    BY Zenon DEF Inv, PumpPre
  <2>2. queue \in Seq(Entries)
    BY <2>1, Zenon DEF Sound
  <2> QED  BY <2>1, <2>2
<1>8. /\ DOMAIN queue' = DOMAIN queue /\ DOMAIN queue = 1 .. Len(queue)
      /\ \A i \in DOMAIN queue : queue'[i] = Older(queue[i])
  BY <1>2, <1>7
<1>9. \A i \in DOMAIN queue :
        /\ queue'[i] \in Entries
        /\ queue'[i].seq = queue[i].seq /\ queue'[i].hash = queue[i].hash
        /\ queue'[i].expiry = Less(queue[i].expiry)
  BY <1>6, <1>7, <1>8, Zenon
<1>10. queue' \in Seq(Entries) /\ Len(queue') = Len(queue)
  BY <1>2, <1>7, <1>8, <1>9
<1>11. Queued(queue') = Queued(queue)
  BY <1>8, <1>9, Zenon DEF Queued
<1>12. Sound(queue', results', nextSeq')
  <2>1. \A i \in DOMAIN queue' : queue'[i].seq < nextSeq'
    BY <1>4, <1>7, <1>8, <1>9, Zenon DEF Sound
  <2>2. \A i, j \in DOMAIN queue' : queue'[i].seq = queue'[j].seq => i = j
    BY <1>7, <1>8, <1>9, Zenon DEF Sound
  <2>3. results' = results /\ nextSeq' = nextSeq
    BY <1>4, Zenon
  <2> QED  BY <1>7, <1>10, <1>11, <2>1, <2>2, <2>3, Zenon DEF Sound
<1>13. seen' \in [Hashes -> Nat \cup {Unseen}]
  BY <1>1, <1>3, Zenon DEF Inv, Unseen
<1>14. Covered(queue', seen')
  <2> SUFFICES ASSUME NEW i \in DOMAIN queue
               PROVE  /\ queue'[i].expiry <= SeenTtl
                      /\ ~Expired(queue'[i]) => seen'[queue'[i].hash] >= queue'[i].expiry
    BY <1>8, Zenon DEF Covered
  <2> DEFINE x == queue[i].expiry
             h == queue[i].hash
  <2>1. x \in Nat /\ h \in Hashes /\ seen[h] \in Nat \cup {Unseen}
    BY <1>7, Zenon DEF Entries, Inv
  <2>2. x <= SeenTtl /\ (x # 0 => seen[h] >= x)
    BY Zenon DEF Inv, PumpPre, Covered, Expired
  <2>3. queue'[i].expiry = Less(x) /\ queue'[i].hash = h /\ seen'[h] = Less(seen[h])
    BY <1>3, <1>9, <2>1, Zenon
  <2> HIDE DEF x, h
  <2> QED  BY <2>1, <2>2, <2>3, ConstantTypes DEF Less, Expired, Unseen
<1>15. timer' \in Nat \cup {NoTimer} /\ (timer' = NoTimer => timer = NoTimer)
  <2>1. timer \in Nat \cup {NoTimer}
    BY Zenon DEF Inv, PumpPre
  <2> QED  BY <1>3, <2>1 DEF Less, NoTimer
<1>16. BusyOK'
  <2>1. busyFor \in 0 .. BusyMax \cup {NotBusy}
    BY Zenon DEF BusyOK, Inv, PumpPre
  <2> QED  BY <1>3, <2>1, ConstantTypes DEF BusyOK, NotBusy
<1>17. NoStall'
  BY <1>4, <1>7, <1>10, <1>15 DEF NoStall, Inv
<1>18. spent' \in [Ages -> Nat]
  <2>1. spent \in [Ages -> Nat]
    BY Zenon DEF Inv
  <2> QED  BY <1>5, <2>1, WindowAssumption DEF Aged, Ages
<1>19. OnAirOK'
  BY <1>4, Zenon DEF OnAirOK, Inv, PumpPre
<1> QED  BY <1>4, <1>7, <1>10, <1>12, <1>13, <1>14, <1>15, <1>16, <1>17, <1>18, <1>19, Zenon
           DEF Inv, PumpPre
-----------------------------------------------------------------------------
LEMMA NextInv == Inv /\ [Next]_vars => Inv'
<1> SUFFICES ASSUME Inv, [Next]_vars PROVE Inv'
  BY Zenon
<1>1. ASSUME NEW p \in Traffic, Send(p) PROVE Inv'
  BY <1>1, SendInv, Zenon
<1>2. CASE PumpTimer
  BY <1>2, PumpTimerInv, Zenon
<1>3. CASE ExpireSeen \/ \E h \in Hashes : Receive(h)
  BY <1>3, SeenInv, Zenon
<1>4. ASSUME NEW b \in Budgets, Reconfigure(b) PROVE Inv'
  BY <1>4, ReconfigureInv, Zenon
<1>5. CASE Transmitted
  <2>1. PICK i \in DOMAIN onAir : TxDone(onAir[i].airtime)
    BY <1>5, Zenon DEF Transmitted
  <2>2. onAir[i] \in Entries
    BY DEF Inv, PumpPre, OnAirOK
  <2>3. onAir[i].airtime \in Nat
    BY <2>2, Zenon DEF Entries
  <2> QED  BY <2>1, <2>3, TxDoneInv, Zenon
<1>6. CASE TransmitLost
  BY <1>6, TxDoneInv, Zenon DEF TransmitLost
<1>7. CASE RadioDown \/ RadioUp \/ ChannelChanges
  BY <1>7, RadioInv, Zenon
<1>8. CASE Tick
  BY <1>8, TickInv, Zenon
<1>9. CASE UNCHANGED vars
  BY <1>9, Zenon DEF vars, Inv, PumpPre, NoStall, BusyOK, OnAirOK
<1> QED  BY <1>1, <1>2, <1>3, <1>4, <1>5, <1>6, <1>7, <1>8, <1>9, Zenon DEF Next, Step

LEMMA Invariance == Spec => []Inv
  BY InitInv, NextInv, PTL DEF Spec

(* Type correctness: among the rest, the queue never holds more than       *)
(* queue_limit_ packets after a send().                                    *)
THEOREM TypeCorrect == Spec => []TypeOK
  BY Invariance, InvImplies, PTL

(* on_result is called exactly once for every packet send() accepts: never *)
(* while it waits, once when it leaves, whichever way it leaves.           *)
THEOREM AnsweredExactlyOnce == Spec => []ExactlyOnce
  BY Invariance, InvImplies, PTL

(* A packet in the queue always has a transmission or a timer to wait for. *)
THEOREM NeverStalls == Spec => []NoStall
  BY Invariance, InvImplies, PTL

(* The dedup entry of a waiting packet lasts at least as long as it.       *)
THEOREM WaitingPacketIsSeen == Spec => []QueuedIsSeen
  BY Invariance, InvImplies, PTL
-----------------------------------------------------------------------------

(***************************************************************************)
(* The airtime account of DutyCycle, age by age.                           *)
(***************************************************************************)
(* Induction: a set that has 0 and with every number the next has all.     *)
LEMMA SetInduction ==
  ASSUME NEW T \in SUBSET Nat, 0 \in T, \A n \in T : n + 1 \in T
  PROVE  \A n \in Nat : n \in T
<1> SUFFICES ASSUME NEW m \in Nat, m \notin T PROVE FALSE
  BY Zenon
<1> DEFINE Bad == {n \in Nat : n \notin T}
<1>1. PICK x \in Bad : \A y \in Bad : ~(<<y, x>> \in OpToRel(<, Nat))
  BY NatLessThanWellFounded, WFMin, Zenon
<1>2. x \in Nat /\ x \notin T /\ x # 0
  BY Zenon
<1>3. x - 1 \in Nat /\ x - 1 < x /\ (x - 1) + 1 = x
  BY <1>2
<1>4. x - 1 \notin T
  BY <1>2, <1>3, Zenon
<1>5. <<x - 1, x>> \in OpToRel(<, Nat)
  BY <1>2, <1>3, Zenon DEF OpToRel
<1> QED  BY <1>1, <1>3, <1>4, <1>5, Zenon

(* The sum from each age on exists.                                        *)
Sums(account, f, first) ==
  /\ f \in [first .. Window + 1 -> Nat]
  /\ f[Window + 1] = 0
  /\ \A b \in first .. Window : f[b] = account[b] + f[b + 1]

LEMMA SumsExist ==
  ASSUME NEW account \in [Ages -> Nat]
  PROVE  \E f : Sums(account, f, 0)
<1> DEFINE T == {n \in Nat : n <= Window + 1 => \E f : Sums(account, f, Window + 1 - n)}
<1>1. Window \in Nat
  BY WindowAssumption, Zenon
<1>2. 0 \in T
  <2> DEFINE f == [b \in Window + 1 .. Window + 1 |-> 0]
  <2>1. Sums(account, f, Window + 1 - 0)
    BY <1>1 DEF Sums
  <2> HIDE DEF f
  <2> QED  BY <2>1, Zenon
<1>3. ASSUME NEW n \in T, n + 1 <= Window + 1
      PROVE  \E f : Sums(account, f, Window + 1 - (n + 1))
  <2>1. PICK f : Sums(account, f, Window + 1 - n)
    BY <1>1, <1>3
  <2> DEFINE a == Window - n
             g == [b \in a .. Window + 1 |-> IF b = a THEN account[a] + f[a + 1] ELSE f[b]]
  <2>2. n \in Nat /\ a \in Ages /\ Window + 1 - n = a + 1 /\ Window + 1 - (n + 1) = a /\ a \in Nat
    BY <1>1, <1>3 DEF Ages
  <2> HIDE DEF a
  <2>3. account[a] \in Nat /\ f[a + 1] \in Nat
    BY <1>1, <2>1, <2>2 DEF Sums, Ages
  <2>4. g \in [a .. Window + 1 -> Nat]
    BY <1>1, <2>1, <2>2, <2>3 DEF Sums, Ages
  <2>5. g[Window + 1] = 0
    BY <1>1, <2>1, <2>2 DEF Sums, Ages
  <2>6. ASSUME NEW b \in a .. Window
        PROVE  g[b] = account[b] + g[b + 1]
    <3>1. g[b + 1] = f[b + 1]
      BY <1>1, <2>2 DEF Ages
    <3>2. CASE b = a
      BY <1>1, <2>2, <3>1, <3>2 DEF Ages
    <3>3. CASE b # a
      BY <1>1, <2>1, <2>2, <3>1, <3>3 DEF Sums, Ages
    <3> QED  BY <3>2, <3>3, Zenon
  <2> HIDE DEF g
  <2> QED  BY <2>2, <2>4, <2>5, <2>6, Zenon DEF Sums
<1>4. \A n \in T : n + 1 \in T
  BY <1>3
<1>5. T \in SUBSET Nat
  BY Zenon
<1>6. Window + 1 \in T
  <2> HIDE DEF T
  <2> QED  BY <1>1, <1>2, <1>4, <1>5, SetInduction, Zenon
<1> QED  BY <1>1, <1>6

(* The airtime since each age, computed from the oldest on.                *)
LEMMA SpentSinceStep ==
  ASSUME NEW account \in [Ages -> Nat]
  PROVE  /\ SpentSince(account, Window + 1) = 0
         /\ \A a \in Ages : SpentSince(account, a) = account[a] + SpentSince(account, a + 1)
         /\ \A a \in 0 .. Window + 1 : SpentSince(account, a) \in Nat
<1> DEFINE Is(f) == f = [b \in 0 .. Window + 1 |-> IF b > Window THEN 0 ELSE account[b] + f[b + 1]]
           s == CHOOSE f : Is(f)
<1>1. Window \in Nat
  BY WindowAssumption, Zenon
<1>2. PICK f : Sums(account, f, 0)
  BY SumsExist, Zenon
<1>3. Is(f)
  BY <1>1, <1>2 DEF Sums
<1>4. Is(s)
  BY <1>3, Zenon
<1>5. \A a \in 0 .. Window + 1 : SpentSince(account, a) = s[a]
  BY Zenon DEF SpentSince
<1> HIDE DEF s
<1>6. /\ s[Window + 1] = 0
      /\ \A a \in Ages : s[a] = account[a] + s[a + 1]
  BY <1>1, <1>4 DEF Ages
<1>7. \A a \in 0 .. Window + 1 : s[a] \in Nat
  <2> DEFINE T == {n \in Nat : n <= Window + 1 => s[Window + 1 - n] \in Nat}
  <2>1. 0 \in T
    BY <1>1, <1>6
  <2>2. ASSUME NEW n \in T
        PROVE  n + 1 \in T
    <3> SUFFICES ASSUME n + 1 <= Window + 1
                 PROVE  s[Window + 1 - (n + 1)] \in Nat
      OBVIOUS
    <3>1. /\ Window - n \in Ages /\ Window + 1 - (n + 1) = Window - n
          /\ Window + 1 - n = (Window - n) + 1
      BY <1>1 DEF Ages
    <3>2. s[(Window - n) + 1] \in Nat /\ account[Window - n] \in Nat
      BY <1>1, <3>1
    <3> QED  BY <1>6, <3>1, <3>2
  <2>3. T \in SUBSET Nat
    BY Zenon
  <2>4. \A n \in Nat : n \in T
    <3> HIDE DEF T
    <3> QED  BY <2>1, <2>2, <2>3, SetInduction, Zenon
  <2> TAKE a \in 0 .. Window + 1
  <2>5. Window + 1 - a \in Nat /\ Window + 1 - (Window + 1 - a) = a /\ Window + 1 - a <= Window + 1
    BY <1>1
  <2> QED  BY <2>4, <2>5, Zenon
<1>8. /\ Window + 1 \in 0 .. Window + 1
      /\ \A a \in Ages : a \in 0 .. Window + 1 /\ a + 1 \in 0 .. Window + 1
  BY <1>1 DEF Ages
<1> QED  BY <1>5, <1>6, <1>7, <1>8, Zenon

(* Accounts that agree from age a on have spent the same since.            *)
LEMMA SameSince ==
  ASSUME NEW x \in [Ages -> Nat], NEW y \in [Ages -> Nat], NEW first \in Ages,
         \A a \in Ages : a >= first => x[a] = y[a]
  PROVE  SpentSince(x, first) = SpentSince(y, first)
<1> DEFINE T == {n \in Nat : n <= Window + 1 - first =>
                   SpentSince(x, Window + 1 - n) = SpentSince(y, Window + 1 - n)}
<1>1. Window \in Nat /\ first \in 0 .. Window
  BY WindowAssumption, Zenon DEF Ages
<1>2. 0 \in T
  BY <1>1, SpentSinceStep
<1>3. ASSUME NEW n \in T
      PROVE  n + 1 \in T
  <2> SUFFICES ASSUME n + 1 <= Window + 1 - first
               PROVE  SpentSince(x, Window + 1 - (n + 1)) = SpentSince(y, Window + 1 - (n + 1))
    OBVIOUS
  <2>1. /\ n \in Nat /\ Window - n \in Ages /\ Window - n >= first
        /\ Window + 1 - (n + 1) = Window - n /\ Window + 1 - n = (Window - n) + 1
        /\ n <= Window + 1 - first
    BY <1>1 DEF Ages
  <2>2. SpentSince(x, (Window - n) + 1) = SpentSince(y, (Window - n) + 1)
    BY <2>1, Zenon
  <2> QED  BY <2>1, <2>2, SpentSinceStep, Zenon
<1>4. T \in SUBSET Nat
  BY Zenon
<1>5. Window + 1 - first \in T
  <2> HIDE DEF T
  <2> QED  BY <1>1, <1>2, <1>3, <1>4, SetInduction
<1>6. Window + 1 - (Window + 1 - first) = first
  BY <1>1
<1> QED  BY <1>1, <1>5, <1>6

(* record() adds to the total, and to what may not leave the window yet.   *)
LEMMA RecordTotal ==
  ASSUME NEW account \in [Ages -> Nat], NEW airtime \in Nat
  PROVE  /\ Record(account, airtime) \in [Ages -> Nat]
         /\ Total(Record(account, airtime)) = Total(account) + airtime
         /\ Record(account, airtime)[Window] = account[Window]
<1> DEFINE new == Record(account, airtime)
<1>1. 0 \in Ages /\ 1 \in Ages /\ Window \in Ages /\ Window # 0 /\ 0 + 1 = 1
  BY WindowAssumption DEF Ages
<1>2. /\ new \in [Ages -> Nat] /\ new[0] = account[0] + airtime
      /\ \A a \in Ages : a # 0 => new[a] = account[a]
  BY <1>1 DEF Record
<1> HIDE DEF new
<1>3. \A a \in Ages : a >= 1 => new[a] = account[a]
  BY <1>2
<1>4. SpentSince(new, 1) = SpentSince(account, 1)
  BY <1>1, <1>2, <1>3, SameSince, Zenon
<1>5. /\ SpentSince(new, 0) = new[0] + SpentSince(new, 1)
      /\ SpentSince(account, 0) = account[0] + SpentSince(account, 1)
      /\ SpentSince(account, 1) \in Nat
  <2>1. 1 \in 0 .. Window + 1
    BY WindowAssumption
  <2> QED  BY <1>1, <1>2, <2>1, SpentSinceStep, Zenon
<1>6. account[0] \in Nat
  BY <1>1, Zenon
<1>7. Total(new) = Total(account) + airtime
  BY <1>2, <1>4, <1>5, <1>6 DEF Total
<1> QED  BY <1>1, <1>2, <1>7, Zenon DEF new

(* One tick takes out of the account what has reached the end of the       *)
(* window.                                                                 *)
LEMMA AgedTotal ==
  ASSUME NEW account \in [Ages -> Nat]
  PROVE  /\ Aged(account) \in [Ages -> Nat]
         /\ Total(Aged(account)) = Total(account) - account[Window]
         /\ Aged(account)[Window] \in Nat
<1> DEFINE new == Aged(account)
           T == {n \in Nat : n <= Window =>
                   SpentSince(new, Window + 1 - n) + account[Window]
                     = SpentSince(account, Window - n)}
<1>1. Window \in Nat /\ Window # 0 /\ 0 \in Ages /\ Window \in Ages
  BY WindowAssumption DEF Ages
<1>2. /\ new \in [Ages -> Nat] /\ new[0] = 0
      /\ \A a \in Ages : a # 0 => a - 1 \in Ages /\ new[a] = account[a - 1]
  BY <1>1 DEF Aged, Ages
<1>3. account[Window] \in Nat
  BY <1>1, Zenon
<1> HIDE DEF new
<1>4. 0 \in T
  <2>1. SpentSince(new, Window + 1) = 0 /\ SpentSince(account, Window + 1) = 0
    BY <1>2, SpentSinceStep, Zenon
  <2>2. SpentSince(account, Window) = account[Window] + SpentSince(account, Window + 1)
    BY <1>1, SpentSinceStep, Zenon
  <2> QED  BY <1>1, <1>3, <2>1, <2>2
<1>5. ASSUME NEW n \in T
      PROVE  n + 1 \in T
  <2> SUFFICES ASSUME n + 1 <= Window
               PROVE  SpentSince(new, Window + 1 - (n + 1)) + account[Window]
                        = SpentSince(account, Window - (n + 1))
    OBVIOUS
  <2> DEFINE a == Window - n
  <2>1. /\ n \in Nat /\ a \in Ages /\ a # 0 /\ a - 1 \in Ages /\ (a - 1) + 1 = a
        /\ Window + 1 - (n + 1) = a /\ Window - (n + 1) = a - 1 /\ Window + 1 - n = a + 1
        /\ n <= Window /\ a + 1 \in 0 .. Window + 1 /\ a \in 0 .. Window + 1
    BY <1>1 DEF Ages
  <2>2. SpentSince(new, a + 1) + account[Window] = SpentSince(account, a)
    BY <2>1, Zenon
  <2> HIDE DEF a, T
  <2>3. SpentSince(new, a) = new[a] + SpentSince(new, a + 1) /\ SpentSince(new, a + 1) \in Nat
    BY <1>2, <2>1, SpentSinceStep, Zenon
  <2>4. SpentSince(account, a - 1) = account[a - 1] + SpentSince(account, a)
    BY <2>1, SpentSinceStep, Zenon
  <2>5. new[a] = account[a - 1] /\ account[a - 1] \in Nat
    BY <1>2, <2>1, Zenon
  <2> QED  BY <1>3, <2>1, <2>2, <2>3, <2>4, <2>5
<1>6. T \in SUBSET Nat
  BY Zenon
<1>7. Window \in T
  <2> HIDE DEF T
  <2> QED  BY <1>1, <1>4, <1>5, <1>6, SetInduction, Zenon
<1>8. SpentSince(new, 1) + account[Window] = SpentSince(account, 0)
  <2>1. Window + 1 - Window = 1 /\ Window - Window = 0 /\ Window <= Window
    BY <1>1
  <2> QED  BY <1>7, <2>1, Zenon
<1>9. SpentSince(new, 0) = SpentSince(new, 1) /\ SpentSince(new, 1) \in Nat
  <2>1. SpentSince(new, 0) = new[0] + SpentSince(new, 0 + 1) /\ 1 \in 0 .. Window + 1
    BY <1>1, <1>2, SpentSinceStep
  <2> QED  BY <1>2, <2>1, SpentSinceStep
<1> QED  BY <1>1, <1>2, <1>3, <1>8, <1>9 DEF Total, new

LEMMA TotalOfNothing ==
  ASSUME NEW account \in [Ages -> Nat], \A a \in Ages : account[a] = 0
  PROVE  Total(account) = 0
<1> DEFINE T == {n \in Nat : n <= Window + 1 => SpentSince(account, Window + 1 - n) = 0}
<1>1. Window \in Nat
  BY WindowAssumption, Zenon
<1>2. 0 \in T
  BY <1>1, SpentSinceStep
<1>3. ASSUME NEW n \in T
      PROVE  n + 1 \in T
  <2> SUFFICES ASSUME n + 1 <= Window + 1
               PROVE  SpentSince(account, Window + 1 - (n + 1)) = 0
    OBVIOUS
  <2>1. /\ n \in Nat /\ Window - n \in Ages /\ n <= Window + 1
        /\ Window + 1 - (n + 1) = Window - n /\ Window + 1 - n = (Window - n) + 1
    BY <1>1 DEF Ages
  <2>2. SpentSince(account, (Window - n) + 1) = 0
    BY <2>1, Zenon
  <2> QED  BY <2>1, <2>2, SpentSinceStep
<1>4. T \in SUBSET Nat
  BY Zenon
<1>5. Window + 1 \in T
  <2> HIDE DEF T
  <2> QED  BY <1>1, <1>2, <1>3, <1>4, SetInduction, Zenon
<1>6. Window + 1 - (Window + 1) = 0
  BY <1>1
<1> QED  BY <1>1, <1>5, <1>6 DEF Total

(* wait_ms() lets a packet go at once only if the airtime that has not     *)
(* come to the end of the window leaves room for it.                       *)
LEMMA NoWaitFits ==
  ASSUME NEW account \in [Ages -> Nat], NEW b \in Nat, NEW airtime \in Nat,
         WaitMs(account, b, airtime) = 0
  PROVE  Total(account) - account[Window] + airtime <= b
<1>1. /\ Window \in Nat /\ Window # 0 /\ 0 \in Ages /\ Window \in Ages
      /\ 0 \in 0 .. Window + 1 /\ b # Unlimited
  BY WindowAssumption DEF Ages, Unlimited
<1>2. Total(account) \in Nat /\ account[Window] \in Nat
  BY <1>1, SpentSinceStep, Zenon DEF Total
<1>3. CASE Total(account) + airtime <= b
  BY <1>2, <1>3
<1>4. CASE ~(Total(account) + airtime <= b)
  <2> DEFINE waits == Releases(account, Total(account) + airtime - b)
  <2>1. waits # {} /\ Min(waits) = 0
    BY <1>1, <1>4, Zenon DEF WaitMs
  <2>2. waits \in SUBSET Nat
    BY <1>1 DEF Releases, Ages
  <2>3. 0 \in waits
    <3> HIDE DEF waits
    <3> QED  BY <2>1, <2>2, MinNat, Zenon
  <2>4. SpentSince(account, Window - 0) >= Total(account) + airtime - b
    BY <2>3, Zenon DEF Releases
  <2>5. SpentSince(account, Window) = account[Window] + 0
    BY <1>1, SpentSinceStep, Zenon
  <2>6. Window - 0 = Window
    BY <1>1
  <2> QED  BY <1>2, <2>4, <2>5, <2>6
<1> QED  BY <1>3, <1>4, Zenon

(* A packet goes on the air only when wait_ms() asks it to wait no longer. *)
LEMMA PumpWaits ==
  ASSUME NEW q \in Seq(Entries), NEW res, NEW t, NEW r, NEW b, Pump(q, res, t, r, b)
  PROVE  \/ onAir' = onAir
         \/ \E e \in Entries : onAir = <<>> /\ onAir' = <<e>> /\ WaitMs(spent, b, e.airtime) = 0
<1>1. ASSUME onAir = <<>>, NEW p \in Seq(Entries), NEW told, PumpLive(p, told, t, r, b)
      PROVE  \/ onAir' = onAir
             \/ \E e \in Entries : onAir' = <<e>> /\ WaitMs(spent, b, e.airtime) = 0
  <2>1. ASSUME NEW i \in DOMAIN p, PumpReady(p, i, told, t, r, b)
        PROVE  \/ onAir' = onAir
               \/ onAir' = <<p[i]>> /\ WaitMs(spent, b, p[i].airtime) = 0
    BY <2>1, Zenon DEF PumpReady, Defer, Transmit
  <2>2. \A i \in DOMAIN p : p[i] \in Entries
    OBVIOUS
  <2>3. onAir' = onAir \/ \E i \in DOMAIN p : PumpReady(p, i, told, t, r, b)
    BY <1>1, Zenon DEF PumpLive
  <2> QED  BY <2>1, <2>2, <2>3, Zenon
<1>2. CASE onAir' = onAir
  BY <1>2, Zenon
<1>3. ASSUME onAir = <<>>, NEW n \in 0 .. Len(q),
             PumpLive(SubSeq(q, n + 1, Len(q)), Tell(res, Queued(SubSeq(q, 1, n)), FALSE), t, r, b)
      PROVE  \/ onAir' = onAir
             \/ \E e \in Entries : onAir' = <<e>> /\ WaitMs(spent, b, e.airtime) = 0
  <2>1. SubSeq(q, n + 1, Len(q)) \in Seq(Entries)
    BY SuffixElements, Zenon
  <2> QED  BY <1>1, <1>3, <2>1, Zenon
<1> QED  BY <1>2, <1>3, Zenon DEF Pump, TxBusy

(* The airtime in the window, with the packet on the air.                  *)
InUse == Total(spent) - spent[Window] + (IF onAir = <<>> THEN 0 ELSE onAir[1].airtime)

LEMMA WithinBudgetIs == WithinBudget <=> (budget # Unlimited /\ Budgets = {budget} => InUse <= budget)
  BY Zenon DEF WithinBudget, InUse, Total

LEMMA PumpWithinBudget ==
  ASSUME Inv, WithinBudget, NEW q \in Seq(Entries), NEW res, NEW t, NEW r,
         budget' \in Budgets, Pump(q, res, t, r, budget'), UNCHANGED spent
  PROVE  WithinBudget'
<1> SUFFICES ASSUME budget' # Unlimited, Budgets = {budget'}
             PROVE  InUse' <= budget'
  BY Zenon DEF WithinBudget, InUse, Total
<1>1. budget = budget' /\ budget \in Nat /\ spent \in [Ages -> Nat]
  BY DispatcherAssumption, Zenon DEF Inv
<1>2. CASE onAir' = onAir
  BY <1>1, <1>2, WithinBudgetIs, Zenon DEF InUse
<1>3. ASSUME NEW e \in Entries, onAir' = <<e>>, WaitMs(spent, budget', e.airtime) = 0
      PROVE  InUse' <= budget'
  <2>1. e.airtime \in Nat
    BY Zenon DEF Entries
  <2>2. Total(spent) - spent[Window] + e.airtime <= budget'
    BY <1>1, <1>3, <2>1, NoWaitFits, Zenon
  <2>3. onAir' # <<>> /\ onAir'[1] = e
    BY <1>3, Zenon
  <2> QED  BY <2>2, <2>3, Zenon DEF InUse
<1> QED  BY <1>2, <1>3, PumpWaits, Zenon

LEMMA SpentTypes ==
  ASSUME Inv
  PROVE  spent \in [Ages -> Nat] /\ Total(spent) \in Nat /\ spent[Window] \in Nat
<1>1. spent \in [Ages -> Nat] /\ Window \in Ages /\ 0 \in 0 .. Window + 1
  BY WindowAssumption DEF Inv, Ages
<1> QED  BY <1>1, SpentSinceStep, Zenon DEF Total

LEMMA TxDoneWithinBudget ==
  ASSUME Inv, WithinBudget, NEW airtime \in Nat, TxDone(airtime),
         airtime = 0 \/ airtime = onAir[1].airtime
  PROVE  WithinBudget'
<1> SUFFICES ASSUME budget' # Unlimited, Budgets = {budget'}
             PROVE  InUse' <= budget'
  BY Zenon DEF WithinBudget, InUse, Total
<1>1. /\ onAir # <<>> /\ onAir' = <<>> /\ spent' = Record(spent, airtime) /\ budget' = budget
  BY Zenon DEF TxDone
<1>2. budget \in Nat /\ onAir[1].airtime \in Nat
  <2>1. onAir[1] \in Entries
    BY <1>1, SMTT(30) DEF Inv, PumpPre, OnAirOK
  <2> QED  BY <1>1, <2>1, DispatcherAssumption, Zenon DEF Inv, Entries
<1>3. spent \in [Ages -> Nat] /\ Total(spent) \in Nat /\ spent[Window] \in Nat
  BY SpentTypes, Zenon
<1>4. Total(spent)' = Total(spent) + airtime /\ spent'[Window] = spent[Window]
  BY <1>1, <1>3, RecordTotal, Zenon
<1>5. Total(spent) - spent[Window] + onAir[1].airtime <= budget
  BY <1>1, WithinBudgetIs, Zenon DEF InUse
<1>6. InUse' = Total(spent) + airtime - spent[Window]
  BY <1>1, <1>3, <1>4 DEF InUse
<1> QED  BY <1>1, <1>2, <1>3, <1>5, <1>6, SMTT(30)

LEMMA TickWithinBudget ==
  ASSUME Inv, WithinBudget, Tick
  PROVE  WithinBudget'
<1> SUFFICES ASSUME budget' # Unlimited, Budgets = {budget'}
             PROVE  InUse' <= budget'
  BY Zenon DEF WithinBudget, InUse, Total
<1>1. onAir' = onAir /\ spent' = Aged(spent) /\ budget' = budget
  BY Zenon DEF Tick
<1> DEFINE air == IF onAir = <<>> THEN 0 ELSE onAir[1].airtime
<1>2. budget \in Nat /\ air \in Nat
  <2>1. onAir # <<>> => onAir[1] \in Entries
    BY DEF Inv, PumpPre, OnAirOK
  <2> QED  BY <1>1, <2>1, DispatcherAssumption, Zenon DEF Inv, Entries
<1>3. spent \in [Ages -> Nat] /\ Total(spent) \in Nat /\ spent[Window] \in Nat
  BY SpentTypes, Zenon
<1>4. Total(spent)' = Total(spent) - spent[Window] /\ spent'[Window] \in Nat
  BY <1>1, <1>3, AgedTotal, Zenon
<1>5. Total(spent) - spent[Window] + air <= budget
  BY <1>1, WithinBudgetIs, Zenon DEF InUse
<1>6. InUse' = Total(spent) - spent[Window] - spent'[Window] + air
  BY <1>1, <1>4, Zenon DEF InUse
<1> HIDE DEF air
<1> QED  BY <1>1, <1>2, <1>3, <1>4, <1>5, <1>6

(* send() has a sequence number to give.                                   *)
LEMMA NextId ==
  ASSUME Inv, NEW p \in Traffic, Send(p)
  PROVE  /\ nextSeq \in Ids /\ nextSeq \in Nat /\ nextSeq < MaxSends
         /\ nextSeq' = nextSeq + 1 /\ nextSeq + 1 \in Nat
<1>1. nextSeq \in 0 .. MaxSends /\ MaxSends \in Nat
  BY ConstantTypes, Zenon DEF Inv
<1>2. nextSeq < MaxSends /\ nextSeq' = nextSeq + 1
  BY Zenon DEF Send
<1> QED  BY <1>1, <1>2 DEF Ids

LEMMA StepWithinBudget ==
  ASSUME Inv, WithinBudget, [Next]_vars
  PROVE  WithinBudget'
<1>1. queue \in Seq(Entries) /\ budget \in Budgets
  BY Zenon DEF Inv, PumpPre, Sound
<1>2. ASSUME NEW p \in Traffic, Send(p)
      PROVE  WithinBudget'
  <2> DEFINE e == [hash |-> p.hash, airtime |-> p.airtime, priority |-> p.priority,
                   expiry |-> ExpiryPerPriority * p.priority, notBefore |-> p.delay,
                   seq |-> nextSeq]
  <2>1. e \in Entries
    <3>1. p.hash \in Hashes /\ p.airtime \in Nat /\ p.priority \in Nat \ {0} /\ p.delay \in Nat
      BY DispatcherAssumption, Zenon
    <3>2. ExpiryPerPriority * p.priority \in Nat /\ nextSeq \in Ids
      BY <1>2, <3>1, ConstantTypes, NextId
    <3> QED  BY <3>1, <3>2, Zenon DEF Entries
  <2>2. PICK pos \in 1 .. Len(queue) + 1 :
          LET q == Insert(queue, pos, e)
          IN  \/ Pump(q, results, timer, radio, budget)
              \/ \E v \in DOMAIN q :
                   Pump(Erase(q, v), Tell(results, {q[v].seq}, FALSE), timer, radio, budget)
    BY <1>2, Zenon DEF Send, UpperBounds
  <2>3. UNCHANGED <<spent, budget>>
    BY <1>2, Zenon DEF Send
  <2> HIDE DEF e
  <2> DEFINE q == Insert(queue, pos, e)
  <2>4. q \in Seq(Entries)
    BY <1>1, <2>1, InsertElements, Zenon
  <2> HIDE DEF q
  <2>5. \A v \in DOMAIN q : Erase(q, v) \in Seq(Entries)
    BY <2>4, EraseElements, Zenon
  <2>6. ASSUME NEW any \in Seq(Entries), NEW told, Pump(any, told, timer, radio, budget)
        PROVE  WithinBudget'
    BY <1>1, <2>3, <2>6, PumpWithinBudget, Zenon
  <2> QED  BY <2>2, <2>4, <2>5, <2>6, Zenon DEF q
<1>3. CASE PumpTimer
  BY <1>1, <1>3, PumpWithinBudget, Zenon DEF PumpTimer
<1>4. ASSUME NEW b \in Budgets, Reconfigure(b)
      PROVE  WithinBudget'
  BY <1>1, <1>4, PumpWithinBudget, Zenon DEF Reconfigure
<1>5. CASE Transmitted
  <2>1. PICK i \in DOMAIN onAir : TxDone(onAir[i].airtime)
    BY <1>5, Zenon DEF Transmitted
  <2>2. i = 1 /\ onAir[i] \in Entries
    BY DEF Inv, PumpPre, OnAirOK
  <2>3. onAir[1].airtime \in Nat
    BY <2>2, Zenon DEF Entries
  <2> QED  BY <2>1, <2>2, <2>3, TxDoneWithinBudget, Zenon
<1>6. CASE TransmitLost
  BY <1>6, TxDoneWithinBudget, Zenon DEF TransmitLost
<1>7. CASE UNCHANGED <<spent, budget, onAir>>
  BY <1>7, Zenon DEF WithinBudget, SpentSince
<1>8. ExpireSeen \/ (\E h \in Hashes : Receive(h)) \/ RadioDown \/ RadioUp \/ ChannelChanges
        => UNCHANGED <<spent, budget, onAir>>
  BY Zenon DEF ExpireSeen, Receive, RadioDown, RadioUp, ChannelChanges
<1>9. UNCHANGED vars => UNCHANGED <<spent, budget, onAir>>
  BY Zenon DEF vars
<1> QED  BY <1>2, <1>3, <1>4, <1>5, <1>6, <1>7, <1>8, <1>9, TickWithinBudget, Zenon DEF Next, Step

(* The regulation the account is kept for: under a budget that does not    *)
(* change, the airtime of a whole window, the packet on the air included,  *)
(* never exceeds it, whatever is queued, lost, refused or retried          *)
(* (DutyCycle::wait_ms, pump()).                                           *)
THEOREM BudgetIsKept == Spec => []WithinBudget
<1>1. Init => WithinBudget
  <2> SUFFICES ASSUME Init, budget # Unlimited, Budgets = {budget}
               PROVE  InUse <= budget
    BY WithinBudgetIs, Zenon
  <2>1. spent \in [Ages -> Nat] /\ \A a \in Ages : spent[a] = 0
    BY Zenon DEF Init, NothingSpent
  <2>2. budget \in Nat /\ onAir = <<>>
    BY DispatcherAssumption, Zenon DEF Init
  <2>3. Total(spent) = 0 /\ spent[Window] = 0
    BY <2>1, TotalOfNothing, WindowAssumption DEF Ages
  <2> QED  BY <2>2, <2>3 DEF InUse
<1>2. Inv /\ WithinBudget /\ [Next]_vars => WithinBudget'
  BY StepWithinBudget, Zenon
<1> QED  BY <1>1, <1>2, Invariance, PTL DEF Spec
-----------------------------------------------------------------------------
(***************************************************************************)
(* The order of service.  pump() drops n expired packets at the front of   *)
(* the queue q; of those behind, it leaves all, puts one back that the     *)
(* radio refused, or hands the radio the first whose backoff is over.      *)
(***************************************************************************)
Behind(q, n) == SubSeq(q, n + 1, Len(q))
Dropped(q, n, res) == Tell(res, Queued(SubSeq(q, 1, n)), FALSE)

LeavesAll(p, res) == queue' = p /\ results' = res /\ UNCHANGED <<onAir, refused>>

IsRefused(p, res) ==
  /\ \E i \in DOMAIN p : queue' = PutBack(p, i)
  /\ results' = res /\ refused' = TRUE /\ UNCHANGED onAir

Takes(p, res, i) ==
  /\ Ready(p[i]) /\ \A j \in 1 .. i - 1 : ~Ready(p[j])
  /\ queue' = Erase(p, i) /\ results' = Tell(res, {p[i].seq}, TRUE)
  /\ onAir' = <<p[i]>> /\ UNCHANGED refused

Serves(q, res, n) ==
  LET p == Behind(q, n)
      told == Dropped(q, n, res)
  IN  /\ \A i \in 1 .. n : Expired(q[i])
      /\ \/ LeavesAll(p, told)
         \/ IsRefused(p, told)
         \/ p # <<>> /\ ~Expired(p[1]) /\ \E i \in DOMAIN p : Takes(p, told, i)

LEMMA PumpServes ==
  ASSUME NEW q \in Seq(Entries), NEW res \in [Ids -> Seq(BOOLEAN)], NEW t, NEW r, NEW b,
         Pump(q, res, t, r, b)
  PROVE  \E n \in 0 .. Len(q) : Serves(q, res, n)
<1>1. CASE Rest(q, res, t, r) /\ UNCHANGED <<busyFor, onAir, refused>>
  <2>1. 0 \in 0 .. Len(q) /\ Len(q) \in Nat
    OBVIOUS
  <2>2. Behind(q, 0) = q
    BY <2>1 DEF Behind
  <2>3. Queued(SubSeq(q, 1, 0)) = {}
    BY DEF Queued
  <2>4. Dropped(q, 0, res) = res
    BY <2>3, Zenon DEF Dropped, Tell
  <2>5. Serves(q, res, 0)
    BY <1>1, <2>2, <2>4, SMTT(30) DEF Serves, LeavesAll, Rest
  <2> QED  BY <2>1, <2>5, Zenon
<1>2. ASSUME NEW n \in 0 .. Len(q), Swept(q, n), PumpLive(Behind(q, n), Dropped(q, n, res), t, r, b)
      PROVE  Serves(q, res, n)
  <2> DEFINE p == Behind(q, n)
             told == Dropped(q, n, res)
  <2>1. \A i \in 1 .. n : Expired(q[i])
    BY <1>2, Zenon DEF Swept
  <2>2. p # <<>> => ~Expired(p[1])
    <3>1. /\ p \in Seq(Entries) /\ Len(p) = Len(q) - n
          /\ \A j \in 1 .. Len(q) - n : p[j] = q[j + n]
      BY SuffixElements, Zenon DEF Behind
    <3>2. p # <<>> => n < Len(q) /\ p[1] = q[n + 1]
      BY <3>1
    <3> QED  BY <1>2, <3>2, Zenon DEF Swept
  <2> HIDE DEF p, told
  <2>3. ASSUME NEW i \in DOMAIN p, Ready(p[i]), \A j \in 1 .. i - 1 : ~Ready(p[j]),
               Transmit(p, i, told, t, r)
        PROVE  Takes(p, told, i) \/ IsRefused(p, told)
    BY <2>3, Zenon DEF Transmit, Rest, Takes, IsRefused
  <2>4. \/ LeavesAll(p, told)
        \/ \E i \in DOMAIN p : Takes(p, told, i) \/ IsRefused(p, told)
    <3>1. ASSUME NEW i \in DOMAIN p, PumpReady(p, i, told, t, r, b)
          PROVE  LeavesAll(p, told) \/ Transmit(p, i, told, t, r)
      BY <3>1, Zenon DEF PumpReady, Defer, Rest, LeavesAll
    <3>2. PumpLive(p, told, t, r, b)
      BY <1>2, Zenon DEF p, told
    <3>3. \/ LeavesAll(p, told)
          \/ \E i \in DOMAIN p : /\ Ready(p[i]) /\ \A j \in 1 .. i - 1 : ~Ready(p[j])
                                 /\ PumpReady(p, i, told, t, r, b)
      BY <3>2, Zenon DEF PumpLive, Rest, LeavesAll
    <3> QED  BY <2>3, <3>1, <3>3, Zenon
  <2>5. p # <<>> \/ DOMAIN p = {}
    OBVIOUS
  <2> QED  BY <2>1, <2>2, <2>4, <2>5, Zenon DEF Serves, p, told
<1> QED  BY <1>1, <1>2, Zenon DEF Pump, Behind, Dropped

(* In order of urgency.                                                    *)
Ordered(q) == \A i, j \in DOMAIN q : i < j => q[i].priority <= q[j].priority

LEMMA RemoveOrdered ==
  ASSUME NEW q \in Seq(Entries), NEW v \in DOMAIN q, Ordered(q)
  PROVE  Ordered(Erase(q, v))
<1> DEFINE p == Erase(q, v)
<1>1. /\ p \in Seq(Entries) /\ Len(p) = Len(q) - 1
      /\ \A j \in 1 .. Len(q) - 1 : p[j] = IF j < v THEN q[j] ELSE q[j + 1]
  BY EraseElements, Zenon
<1>2. Len(q) \in Nat /\ v \in 1 .. Len(q)
  OBVIOUS
<1> HIDE DEF p
<1>3. ASSUME NEW j \in DOMAIN p, NEW k \in DOMAIN p, j < k
      PROVE  p[j].priority <= p[k].priority
  <2> DEFINE J == IF j < v THEN j ELSE j + 1
             K == IF k < v THEN k ELSE k + 1
  <2>1. J \in DOMAIN q /\ K \in DOMAIN q /\ J < K /\ p[j] = q[J] /\ p[k] = q[K]
    BY <1>1, <1>2, <1>3, SMTT(30)
  <2> HIDE DEF J, K
  <2> QED  BY <2>1, Zenon DEF Ordered
<1> QED  BY <1>3, Zenon DEF Ordered, p

(* A packet that leaves the queue has not expired, or one is before it     *)
(* that is backing off; and in a queue that is in order it is as urgent as *)
(* any packet that is left and could go.                                   *)
LEMMA TakesInOrder ==
  ASSUME NEW p \in Seq(Entries), NEW res, NEW i \in DOMAIN p, Takes(p, res, i), ~Expired(p[1])
  PROVE  /\ StaleOnlyBehindBackoffStep
         /\ Ordered(p) => /\ \A k \in DOMAIN queue' :
                               Ready(queue'[k]) => onAir'[1].priority <= queue'[k].priority
                          /\ Ordered(queue')
<1>1. /\ onAir' = <<p[i]>> /\ queue' = Erase(p, i)
      /\ Ready(p[i]) /\ \A j \in 1 .. i - 1 : ~Ready(p[j])
  BY Zenon DEF Takes
<1>2. i \in 1 .. Len(p) /\ Len(p) \in Nat
  OBVIOUS
<1>3. /\ queue' \in Seq(Entries) /\ Len(queue') = Len(p) - 1
      /\ \A j \in 1 .. Len(p) - 1 : queue'[j] = IF j < i THEN p[j] ELSE p[j + 1]
  BY <1>1, <1>2, EraseElements, Zenon
<1>4. onAir'[1] = p[i]
  BY <1>1, Zenon
<1>5. StaleOnlyBehindBackoffStep
  <2> SUFFICES ASSUME Expired(p[i])
               PROVE  \E k \in DOMAIN queue' : ~Expired(queue'[k]) /\ ~Ready(queue'[k])
    BY <1>4, Zenon DEF StaleOnlyBehindBackoffStep
  <2>1. i # 1 /\ 1 \in 1 .. i - 1 /\ 1 \in 1 .. Len(p) - 1
    BY <1>2
  <2>2. 1 \in DOMAIN queue' /\ queue'[1] = p[1]
    BY <1>2, <1>3, <2>1
  <2> QED  BY <1>1, <2>1, <2>2, Zenon
<1>6. ASSUME Ordered(p), NEW k \in DOMAIN queue', Ready(queue'[k])
      PROVE  onAir'[1].priority <= queue'[k].priority
  <2>1. k \in 1 .. Len(p) - 1
    BY <1>3, <1>6, SMTT(30)
  <2>2. ~(k < i)
    <3> SUFFICES ASSUME k < i
                 PROVE  FALSE
      BY Zenon
    <3>1. k \in 1 .. i - 1 /\ i \in Int
      BY <1>2, <2>1
    <3>2. queue'[k] = p[k]
      BY <1>3, <2>1, Zenon
    <3>3. Ready(p[k])
      BY <1>6, <3>2, Zenon
    <3> QED  BY <1>1, <3>1, <3>3, Zenon
  <2>3. queue'[k] = p[k + 1] /\ k + 1 \in DOMAIN p /\ i < k + 1
    BY <1>2, <1>3, <2>1, <2>2, SMTT(30)
  <2> QED  BY <1>4, <1>6, <2>3, Zenon DEF Ordered
<1>7. Ordered(p) => Ordered(queue')
  BY <1>1, RemoveOrdered, Zenon
<1> QED  BY <1>5, <1>6, <1>7, Zenon

(* The same for a pump that starts from the queue q.                       *)
LEMMA ServesInOrder ==
  ASSUME NEW q \in Seq(Entries), NEW res, NEW n \in 0 .. Len(q), Serves(q, res, n)
  PROVE  /\ StaleOnlyBehindBackoffStep /\ (refused => refused')
         /\ Ordered(q) =>
              /\ KeysUp => \A k \in DOMAIN queue' :
                             Ready(queue'[k]) => onAir'[1].priority <= queue'[k].priority
              /\ ~refused' => Ordered(queue')
<1> DEFINE p == Behind(q, n)
           told == Dropped(q, n, res)
<1>1. /\ p \in Seq(Entries) /\ Len(p) = Len(q) - n /\ Len(q) \in Nat
      /\ \A j \in 1 .. Len(q) - n : p[j] = q[j + n]
  BY SuffixElements DEF Behind
<1>2. \/ LeavesAll(p, told)
      \/ IsRefused(p, told)
      \/ ~Expired(p[1]) /\ \E i \in DOMAIN p : Takes(p, told, i)
  BY Zenon DEF Serves
<1> HIDE DEF p, told
<1>3. ASSUME Ordered(q)
      PROVE  Ordered(p)
  <2> SUFFICES ASSUME NEW j \in DOMAIN p, NEW k \in DOMAIN p, j < k
               PROVE  p[j].priority <= p[k].priority
    BY Zenon DEF Ordered
  <2>1. /\ j + n \in DOMAIN q /\ k + n \in DOMAIN q /\ j + n < k + n
        /\ p[j] = q[j + n] /\ p[k] = q[k + n]
    BY <1>1
  <2> QED  BY <1>3, <2>1, Zenon DEF Ordered
<1>4. refused => refused'
  BY <1>2, Zenon DEF LeavesAll, IsRefused, Takes
<1>5. CASE LeavesAll(p, told) \/ IsRefused(p, told)
  <2>1. ~KeysUp
    BY <1>5, Zenon DEF LeavesAll, IsRefused, KeysUp
  <2>2. ~refused' => queue' = p
    BY <1>5, Zenon DEF LeavesAll, IsRefused
  <2> QED  BY <1>3, <1>4, <2>1, <2>2, Zenon DEF StaleOnlyBehindBackoffStep
<1>6. ASSUME NEW i \in DOMAIN p, Takes(p, told, i), ~Expired(p[1])
      PROVE  /\ StaleOnlyBehindBackoffStep
             /\ Ordered(p) => /\ \A k \in DOMAIN queue' :
                                   Ready(queue'[k]) => onAir'[1].priority <= queue'[k].priority
                              /\ Ordered(queue')
  BY <1>1, <1>6, TakesInOrder, Zenon
<1> QED  BY <1>2, <1>3, <1>4, <1>5, <1>6, Zenon

(* A packet that has not expired is never answered false by pump(), and    *)
(* what pump() leaves was in the queue.                                    *)
LEMMA ServesAnswers ==
  ASSUME NEW q, NEW res, NEW m \in Nat, Sound(q, res, m), NEW n \in 0 .. Len(q),
         Serves(q, res, n)
  PROVE  /\ \A k \in DOMAIN q : ~Expired(q[k]) =>
              results'[q[k].seq] \in {res[q[k].seq], Append(res[q[k].seq], TRUE)}
         /\ \A j \in DOMAIN queue' : \E k \in DOMAIN q : queue'[j] = q[k]
<1> DEFINE p == Behind(q, n)
           told == Dropped(q, n, res)
<1>1. /\ q \in Seq(Entries) /\ Len(q) \in Nat /\ res \in [Ids -> Seq(BOOLEAN)]
      /\ Sound(p, told, m) /\ p \in Seq(Entries)
  <2>1. Sound(p, told, m)
    BY SweepSound, Zenon DEF Behind, Dropped
  <2> HIDE DEF p, told
  <2> QED  BY <2>1, SMTT(30) DEF Sound
<1>2. /\ Len(p) = Len(q) - n /\ \A j \in 1 .. Len(q) - n : p[j] = q[j + n]
  BY <1>1, SuffixElements, Zenon DEF Behind
<1>3. ASSUME NEW k \in DOMAIN q, ~Expired(q[k])
      PROVE  q[k].seq \in Ids /\ told[q[k].seq] = res[q[k].seq]
  <2>1. q[k] \in Entries
    BY <1>1
  <2>2. q[k].seq \in Ids
    BY <2>1, Zenon DEF Entries
  <2>3. \A i \in 1 .. n : i \in DOMAIN q /\ Expired(q[i])
    BY <1>1, SMTT(30) DEF Serves
  <2>4. \A i \in 1 .. n : q[i].seq # q[k].seq
    BY <1>3, <2>3, Zenon DEF Sound
  <2>5. Len(SubSeq(q, 1, n)) = n /\ \A j \in 1 .. n : SubSeq(q, 1, n)[j] = q[j]
    BY <1>1, PrefixElements, Zenon
  <2>6. DOMAIN SubSeq(q, 1, n) = 1 .. n
    BY <1>1, <2>5, SMTT(30)
  <2>7. q[k].seq \notin Queued(SubSeq(q, 1, n))
    BY <2>4, <2>5, <2>6, Zenon DEF Queued
  <2> QED  BY <2>2, <2>7, Zenon DEF Dropped, Tell
<1>4. \A j \in DOMAIN p : \E k \in DOMAIN q : p[j] = q[k]
  <2> TAKE j \in DOMAIN p
  <2>1. j \in 1 .. Len(q) - n /\ DOMAIN q = 1 .. Len(q)
    BY <1>1, <1>2
  <2>2. j + n \in DOMAIN q
    BY <1>1, <2>1
  <2>3. p[j] = q[j + n]
    BY <1>2, <2>1, Zenon
  <2> QED  BY <2>2, <2>3, Zenon
<1>5. \/ LeavesAll(p, told)
      \/ IsRefused(p, told)
      \/ \E i \in DOMAIN p : Takes(p, told, i)
  BY Zenon DEF Serves
<1> HIDE DEF p, told
<1>6. CASE LeavesAll(p, told)
  BY <1>3, <1>4, <1>6, Zenon DEF LeavesAll
<1>7. CASE IsRefused(p, told)
  <2>1. PICK i \in DOMAIN p : queue' = PutBack(p, i)
    BY <1>7, Zenon DEF IsRefused
  <2>2. \A j \in DOMAIN queue' : \E k \in DOMAIN p : queue'[j] = p[k]
    BY <1>1, <2>1, PutBackSound
  <2>3. results' = told
    BY <1>7, Zenon DEF IsRefused
  <2>4. \A j \in DOMAIN queue' : \E k \in DOMAIN q : queue'[j] = q[k]
    BY <1>4, <2>2, Zenon
  <2> QED  BY <1>3, <2>3, <2>4, Zenon
<1>8. ASSUME NEW i \in DOMAIN p, Takes(p, told, i)
      PROVE  /\ \A k \in DOMAIN q : ~Expired(q[k]) =>
                  results'[q[k].seq] \in {res[q[k].seq], Append(res[q[k].seq], TRUE)}
             /\ \A j \in DOMAIN queue' : \E k \in DOMAIN q : queue'[j] = q[k]
  <2>1. queue' = Erase(p, i) /\ results' = Tell(told, {p[i].seq}, TRUE)
    BY <1>8, Zenon DEF Takes
  <2>2. /\ Len(queue') = Len(p) - 1 /\ queue' \in Seq(Entries)
        /\ \A j \in 1 .. Len(p) - 1 : queue'[j] = IF j < i THEN p[j] ELSE p[j + 1]
    BY <1>1, <2>1, EraseElements, Zenon
  <2>3. \A j \in DOMAIN queue' : \E k \in DOMAIN p : queue'[j] = p[k]
    <3> TAKE j \in DOMAIN queue'
    <3> DEFINE J == IF j < i THEN j ELSE j + 1
    <3>1. J \in DOMAIN p /\ queue'[j] = p[J]
      BY <1>1, <2>2, SMTT(30)
    <3> QED  BY <3>1, Zenon
  <2>4. \A s \in Ids : results'[s] \in {told[s], Append(told[s], TRUE)}
    BY <2>1, Zenon DEF Tell
  <2>5. \A j \in DOMAIN queue' : \E k \in DOMAIN q : queue'[j] = q[k]
    BY <1>4, <2>3, Zenon
  <2> QED  BY <1>3, <2>4, <2>5, Zenon
<1> QED  BY <1>5, <1>6, <1>7, <1>8, Zenon

LEMMA InsertOrdered ==
  ASSUME NEW q \in Seq(Entries), NEW e \in Entries, NEW pos \in UpperBounds(q, e), Ordered(q)
  PROVE  Ordered(Insert(q, pos, e))
<1> DEFINE p == Insert(q, pos, e)
<1>1. /\ pos \in 1 .. Len(q) + 1 /\ Len(q) \in Nat
      /\ pos > 1 => ~Precedes(e, q[pos - 1])
      /\ pos <= Len(q) => Precedes(e, q[pos])
  BY DEF UpperBounds
<1>2. /\ p \in Seq(Entries) /\ Len(p) = Len(q) + 1
      /\ \A j \in 1 .. Len(q) + 1 :
           p[j] = IF j < pos THEN q[j] ELSE IF j = pos THEN e ELSE q[j - 1]
  BY <1>1, InsertElements, SMTT(30)
<1> HIDE DEF p
<1>3. /\ e.priority \in Nat /\ \A i \in DOMAIN q : q[i].priority \in Nat
      /\ DOMAIN q = 1 .. Len(q)
  <2>1. DOMAIN q = 1 .. Len(q) /\ \A i \in DOMAIN q : q[i] \in Entries
    OBVIOUS
  <2> QED  BY <2>1, Zenon DEF Entries
<1>4. \A i \in DOMAIN q : i < pos => q[i].priority <= e.priority
  <2> SUFFICES ASSUME NEW i \in DOMAIN q, i < pos PROVE q[i].priority <= e.priority
    BY Zenon
  <2>1. pos - 1 \in DOMAIN q /\ (i < pos - 1 \/ i = pos - 1) /\ pos > 1
    <3>1. i \in 1 .. Len(q) /\ pos \in 1 .. Len(q) + 1 /\ Len(q) \in Nat
      BY <1>1, <1>3, Zenon
    <3> QED  BY <1>3, <3>1
  <2>2. q[i].priority <= q[pos - 1].priority
    BY <1>3, <2>1, SMTT(30) DEF Ordered
  <2>3. ~(e.priority < q[pos - 1].priority)
    BY <1>1, <2>1, Zenon DEF Precedes
  <2> QED  BY <1>3, <2>1, <2>2, <2>3, SMTT(30)
<1>5. \A i \in DOMAIN q : i >= pos => e.priority <= q[i].priority
  <2> SUFFICES ASSUME NEW i \in DOMAIN q, i >= pos PROVE e.priority <= q[i].priority
    BY Zenon
  <2>1. pos \in DOMAIN q /\ (pos < i \/ i = pos) /\ pos <= Len(q)
    BY <1>1, <1>3, SMTT(30)
  <2>2. q[pos].priority <= q[i].priority
    BY <1>3, <2>1, SMTT(30) DEF Ordered
  <2>3. e.priority <= q[pos].priority
    BY <1>1, <1>3, <2>1, SMTT(30) DEF Precedes
  <2> QED  BY <1>3, <2>1, <2>2, <2>3, SMTT(30)
<1>6. ASSUME NEW j \in DOMAIN p, NEW k \in DOMAIN p, j < k
      PROVE  p[j].priority <= p[k].priority
  <2>1. j \in 1 .. Len(q) + 1 /\ k \in 1 .. Len(q) + 1
    BY <1>2
  <2>2. CASE k = pos
    <3>1. j \in DOMAIN q /\ j < pos /\ p[j] = q[j] /\ p[k] = e
      BY <1>1, <1>2, <1>3, <1>6, <2>1, <2>2, SMTT(30)
    <3> QED  BY <1>4, <3>1, Zenon
  <2>3. CASE j = pos
    <3>1. k - 1 \in DOMAIN q /\ k - 1 >= pos /\ p[k] = q[k - 1] /\ p[j] = e
      BY <1>1, <1>2, <1>3, <1>6, <2>1, <2>3, SMTT(30)
    <3> QED  BY <1>5, <3>1, Zenon
  <2>4. CASE j # pos /\ k # pos
    <3> DEFINE J == IF j < pos THEN j ELSE j - 1
               K == IF k < pos THEN k ELSE k - 1
    <3>1. J \in DOMAIN q /\ K \in DOMAIN q /\ J < K /\ p[j] = q[J] /\ p[k] = q[K]
      BY <1>1, <1>2, <1>3, <1>6, <2>1, <2>4, SMTT(30)
    <3> HIDE DEF J, K
    <3> QED  BY <3>1, Zenon DEF Ordered
  <2> QED  BY <2>2, <2>3, <2>4, Zenon
<1> QED  BY <1>6, Zenon DEF Ordered, p

(* The queue is in order of urgency until the radio first refuses a        *)
(* packet, which goes to the front.                                        *)
InOrder == ~refused => Ordered(queue)

LEMMA PumpInOrder ==
  ASSUME NEW q \in Seq(Entries), NEW res \in [Ids -> Seq(BOOLEAN)], NEW t, NEW r, NEW b,
         Pump(q, res, t, r, b), ~refused => Ordered(q)
  PROVE  StaleOnlyBehindBackoffStep /\ UrgentFirstStep /\ InOrder'
<1>1. PICK n \in 0 .. Len(q) : Serves(q, res, n)
  BY PumpServes, Zenon
<1>2. /\ StaleOnlyBehindBackoffStep /\ (refused => refused')
      /\ Ordered(q) =>
           /\ KeysUp => \A k \in DOMAIN queue' :
                          Ready(queue'[k]) => onAir'[1].priority <= queue'[k].priority
           /\ ~refused' => Ordered(queue')
  BY <1>1, ServesInOrder, Zenon
<1> QED  BY <1>2, Zenon DEF UrgentFirstStep, InOrder

LEMMA PumpEvicts ==
  ASSUME NEW q, NEW res, NEW m \in Nat, Sound(q, res, m), NEW t, NEW r, NEW b,
         Pump(q, res, t, r, b)
  PROVE  /\ \A k \in DOMAIN q : ~Expired(q[k]) /\ res[q[k].seq] = <<>> =>
              results'[q[k].seq] # <<FALSE>>
         /\ \A j \in DOMAIN queue' : \E k \in DOMAIN q : queue'[j] = q[k]
<1>1. PICK n \in 0 .. Len(q) : Serves(q, res, n)
  BY PumpServes, Zenon DEF Sound
<1>2. /\ \A k \in DOMAIN q : ~Expired(q[k]) =>
           results'[q[k].seq] \in {res[q[k].seq], Append(res[q[k].seq], TRUE)}
      /\ \A j \in DOMAIN queue' : \E k \in DOMAIN q : queue'[j] = q[k]
  BY <1>1, ServesAnswers, Zenon
<1>3. Append(<<>>, TRUE) # <<FALSE>> /\ <<>> # <<FALSE>>
  <2>1. Append(<<>>, TRUE) = <<TRUE>> /\ <<TRUE>>[1] = TRUE /\ <<FALSE>>[1] = FALSE
    OBVIOUS
  <2>2. <<>> # <<FALSE>>
    BY Zenon
  <2> QED  BY <2>1, <2>2, Zenon
<1> QED  BY <1>2, <1>3, Zenon

LEMMA SendInOrder ==
  ASSUME Inv, InOrder, NEW pkt \in Traffic, Send(pkt)
  PROVE  StaleOnlyBehindBackoffStep /\ UrgentFirstStep /\ EvictionStep /\ InOrder'
<1> DEFINE e == [hash |-> pkt.hash, airtime |-> pkt.airtime, priority |-> pkt.priority,
                 expiry |-> ExpiryPerPriority * pkt.priority, notBefore |-> pkt.delay,
                 seq |-> nextSeq]
<1>1. /\ nextSeq \in Ids /\ nextSeq \in Nat /\ nextSeq + 1 \in Nat
  BY NextId, Zenon
<1>2. e \in Entries /\ e.seq = nextSeq
  <2>1. pkt.hash \in Hashes /\ pkt.airtime \in Nat /\ pkt.priority \in Nat \ {0} /\ pkt.delay \in Nat
    BY DispatcherAssumption, Zenon
  <2>2. ExpiryPerPriority * pkt.priority \in Nat
    BY <2>1, ConstantTypes
  <2> QED  BY <1>1, <2>1, <2>2, Zenon DEF Entries
<1>3. /\ Sound(queue, results, nextSeq) /\ queue \in Seq(Entries)
      /\ results \in [Ids -> Seq(BOOLEAN)]
  BY Zenon DEF Inv, PumpPre, Sound
<1>4. PICK pos \in UpperBounds(queue, e) :
        LET q == Insert(queue, pos, e)
        IN  \/ Pump(q, results, timer, radio, budget)
            \/ \E v \in DOMAIN q :
                 /\ IsVictim(q, v)
                 /\ Pump(Erase(q, v), Tell(results, {q[v].seq}, FALSE), timer, radio, budget)
  BY Zenon DEF Send
<1>5. pos \in 1 .. Len(queue) + 1
  BY Zenon DEF UpperBounds
<1> HIDE DEF e
<1> DEFINE q == Insert(queue, pos, e)
<1>6. Sound(q, results, nextSeq + 1)
  BY <1>1, <1>2, <1>3, <1>5, InsertSound, Zenon
<1>7. q \in Seq(Entries) /\ (~refused => Ordered(q))
  BY <1>2, <1>3, <1>6, InsertOrdered, Zenon DEF InOrder, Sound
<1>8. \A i \in DOMAIN queue : \E k \in DOMAIN q : q[k] = queue[i]
  BY <1>2, <1>3, <1>5, InsertKeeps, Zenon
<1> HIDE DEF q
<1>9. CASE Pump(q, results, timer, radio, budget)
  <2>1. StaleOnlyBehindBackoffStep /\ UrgentFirstStep /\ InOrder'
    BY <1>3, <1>7, <1>9, PumpInOrder, Zenon
  <2>2. \A k \in DOMAIN q : ~Expired(q[k]) /\ results[q[k].seq] = <<>> =>
          results'[q[k].seq] # <<FALSE>>
    BY <1>1, <1>6, <1>9, PumpEvicts, Zenon
  <2>3. EvictionStep
    BY <1>8, <2>2, Zenon DEF EvictionStep
  <2> QED  BY <2>1, <2>3, Zenon
<1>10. ASSUME NEW v \in DOMAIN q, IsVictim(q, v),
              Pump(Erase(q, v), Tell(results, {q[v].seq}, FALSE), timer, radio, budget)
       PROVE  StaleOnlyBehindBackoffStep /\ UrgentFirstStep /\ EvictionStep /\ InOrder'
  <2> DEFINE rest == Erase(q, v)
             told == Tell(results, {q[v].seq}, FALSE)
  <2>1. Sound(rest, told, nextSeq + 1)
    BY <1>1, <1>6, RemoveSound, Zenon
  <2>2. ~refused => Ordered(rest)
    BY <1>7, RemoveOrdered, Zenon
  <2>3. /\ Len(rest) = Len(q) - 1
        /\ \A j \in 1 .. Len(q) - 1 : rest[j] = IF j < v THEN q[j] ELSE q[j + 1]
    BY <1>7, EraseElements, Zenon
  <2>4. \A s \in Ids : s # q[v].seq => told[s] = results[s]
    BY Zenon DEF Tell
  <2> HIDE DEF rest, told
  <2>5. rest \in Seq(Entries) /\ told \in [Ids -> Seq(BOOLEAN)]
    BY <2>1, Zenon DEF Sound
  <2>6. StaleOnlyBehindBackoffStep /\ UrgentFirstStep /\ InOrder'
    BY <1>10, <2>2, <2>5, PumpInOrder, Zenon DEF rest, told
  <2>7. /\ \A k \in DOMAIN rest : ~Expired(rest[k]) /\ told[rest[k].seq] = <<>> =>
             results'[rest[k].seq] # <<FALSE>>
        /\ \A j \in DOMAIN queue' : \E k \in DOMAIN rest : queue'[j] = rest[k]
    <3>1. Pump(rest, told, timer, radio, budget)
      BY <1>10, Zenon DEF rest, told
    <3> QED  BY <1>1, <2>1, <3>1, PumpEvicts, Zenon
  <2>8. /\ DOMAIN rest = 1 .. Len(q) - 1 /\ Len(q) \in Nat /\ DOMAIN q = 1 .. Len(q)
        /\ v \in 1 .. Len(q)
    BY <1>7, <2>3, <2>5, SMTT(30)
  <2>9. \A j \in DOMAIN rest : \E k \in DOMAIN q : k # v /\ rest[j] = q[k]
    <3> TAKE j \in DOMAIN rest
    <3> DEFINE k == IF j < v THEN j ELSE j + 1
    <3>1. k \in DOMAIN q /\ k # v /\ rest[j] = q[k]
      BY <2>3, <2>8, SMTT(30)
    <3> QED  BY <3>1, Zenon
  <2>10. \A k \in DOMAIN q : k # v => \E j \in DOMAIN rest : rest[j] = q[k]
    <3> TAKE k \in DOMAIN q
    <3> HAVE k # v
    <3> DEFINE j == IF k < v THEN k ELSE k - 1
    <3>1. j \in DOMAIN rest /\ rest[j] = q[k]
      BY <2>3, <2>8, SMTT(30)
    <3> QED  BY <3>1, Zenon
  <2>11. ASSUME NEW k \in DOMAIN q, k # v, ~Expired(q[k]), results[q[k].seq] = <<>>
         PROVE  results'[q[k].seq] # <<FALSE>>
    <3>1. q[k].seq \in Ids /\ q[k].seq # q[v].seq
      <4>1. q[k] \in Entries /\ q[k].seq # q[v].seq
        BY <1>6, <1>7, <2>11, SMTT(30) DEF Sound
      <4> QED  BY <4>1, Zenon DEF Entries
    <3>2. told[q[k].seq] = <<>>
      BY <2>4, <2>11, <3>1, Zenon
    <3>3. PICK j \in DOMAIN rest : rest[j] = q[k]
      BY <2>10, <2>11, Zenon
    <3> QED  BY <2>7, <2>11, <3>2, <3>3, Zenon
  <2>12. \A j \in DOMAIN queue' : \/ queue'[j].priority < q[v].priority
                                  \/ queue'[j].priority = q[v].priority /\ q[v].seq < queue'[j].seq
    <3> TAKE j \in DOMAIN queue'
    <3>1. PICK k \in DOMAIN q : k # v /\ queue'[j] = q[k]
      BY <2>7, <2>9, SMTT(30)
    <3>2. \/ q[k].priority < q[v].priority
          \/ q[k].priority = q[v].priority /\ q[v].seq <= q[k].seq
      BY <1>10, Zenon DEF IsVictim
    <3>3. q[k].seq # q[v].seq /\ q[k].seq \in Nat /\ q[v].seq \in Nat
      <4>1. q[k] \in Entries /\ q[v] \in Entries /\ q[k].seq # q[v].seq
        BY <1>6, <1>7, <3>1, SMTT(30) DEF Sound
      <4> QED  BY <4>1, ConstantTypes, SMTT(30) DEF Entries, Ids
    <3> QED  BY <3>1, <3>2, <3>3, SMTT(30)
  <2>13. EvictionStep
    <3> SUFFICES ASSUME NEW i \in DOMAIN queue, ~Expired(queue[i]),
                        results[queue[i].seq] = <<>>, results'[queue[i].seq] = <<FALSE>>
                 PROVE  \A j \in DOMAIN queue' :
                          \/ queue'[j].priority < queue[i].priority
                          \/ /\ queue'[j].priority = queue[i].priority
                             /\ queue[i].seq < queue'[j].seq
      BY Zenon DEF EvictionStep
    <3>1. PICK k \in DOMAIN q : q[k] = queue[i]
      BY <1>8, Zenon
    <3>2. k = v
      BY <2>11, <3>1, Zenon
    <3> QED  BY <2>12, <3>1, <3>2, Zenon
  <2> QED  BY <2>6, <2>13, Zenon
<1> QED  BY <1>4, <1>9, <1>10, Zenon DEF q

(* A pump that starts from the queue as it is.                             *)
LEMMA ServiceInOrder ==
  ASSUME Inv, InOrder, NEW t, NEW r, NEW b, Pump(queue, results, t, r, b)
  PROVE  StaleOnlyBehindBackoffStep /\ UrgentFirstStep /\ EvictionStep /\ InOrder'
<1>1. /\ Sound(queue, results, nextSeq) /\ nextSeq \in Nat /\ queue \in Seq(Entries)
      /\ results \in [Ids -> Seq(BOOLEAN)]
  <2>1. Sound(queue, results, nextSeq) /\ nextSeq \in 0 .. MaxSends
    BY Zenon DEF Inv, PumpPre
  <2> QED  BY <2>1, SMTT(30) DEF Sound
<1>2. StaleOnlyBehindBackoffStep /\ UrgentFirstStep /\ InOrder'
  BY <1>1, PumpInOrder, Zenon DEF InOrder
<1>3. \A k \in DOMAIN queue : ~Expired(queue[k]) /\ results[queue[k].seq] = <<>> =>
        results'[queue[k].seq] # <<FALSE>>
  BY <1>1, PumpEvicts, Zenon
<1> QED  BY <1>2, <1>3, Zenon DEF EvictionStep

(* A step that transmits nothing and answers nothing.                      *)
LEMMA QuietInOrder ==
  ASSUME Inv, UNCHANGED results, ~KeysUp
  PROVE  StaleOnlyBehindBackoffStep /\ UrgentFirstStep /\ EvictionStep
<1>1. <<>> # <<FALSE>>
  BY Zenon
<1> QED  BY <1>1, Zenon DEF StaleOnlyBehindBackoffStep, UrgentFirstStep, EvictionStep

LEMMA TickInOrder ==
  ASSUME Inv, InOrder, Tick
  PROVE  InOrder'
<1>1. /\ queue' = [i \in DOMAIN queue |->
                     [queue[i] EXCEPT !.expiry = Less(@), !.notBefore = Less(@)]]
      /\ UNCHANGED refused
  BY Zenon DEF Tick
<1>2. \A i \in DOMAIN queue : queue[i] \in Entries
  BY SMTT(30) DEF Inv, PumpPre, Sound
<1>3. DOMAIN queue' = DOMAIN queue /\ \A i \in DOMAIN queue : queue'[i].priority = queue[i].priority
  BY <1>1, <1>2, Zenon DEF Entries
<1> QED  BY <1>1, <1>3, ZenonT(30) DEF InOrder, Ordered

LEMMA StepInOrder ==
  ASSUME Inv, InOrder, [Next]_vars
  PROVE  InOrder' /\ [StaleOnlyBehindBackoffStep /\ UrgentFirstStep /\ EvictionStep]_vars
<1>1. ASSUME UNCHANGED <<queue, results, refused>>, onAir' = onAir \/ onAir' = <<>>
      PROVE  /\ InOrder'
             /\ StaleOnlyBehindBackoffStep /\ UrgentFirstStep /\ EvictionStep
  <2>1. ~KeysUp
    BY <1>1, Zenon DEF KeysUp
  <2> QED  BY <1>1, <2>1, QuietInOrder, Zenon DEF InOrder, Ordered
<1>2. CASE \E p \in Traffic : Send(p)
  BY <1>2, SendInOrder, Zenon
<1>3. CASE PumpTimer
  BY <1>3, ServiceInOrder, Zenon DEF PumpTimer
<1>4. CASE \E b \in Budgets : Reconfigure(b)
  BY <1>4, ServiceInOrder, Zenon DEF Reconfigure
<1>5. CASE Transmitted \/ TransmitLost
  BY <1>1, <1>5, Zenon DEF Transmitted, TransmitLost, TxDone
<1>6. CASE ExpireSeen \/ \E h \in Hashes : Receive(h)
  BY <1>1, <1>6, Zenon DEF ExpireSeen, Receive
<1>7. CASE RadioDown \/ RadioUp \/ ChannelChanges
  BY <1>1, <1>7, Zenon DEF RadioDown, RadioUp, ChannelChanges
<1>8. CASE Tick
  <2>1. UNCHANGED results /\ ~KeysUp
    BY <1>8, Zenon DEF Tick, KeysUp
  <2> QED  BY <1>8, <2>1, QuietInOrder, TickInOrder, Zenon
<1>9. CASE UNCHANGED vars
  BY <1>9, Zenon DEF vars, InOrder, Ordered
<1> QED  BY <1>2, <1>3, <1>4, <1>5, <1>6, <1>7, <1>8, <1>9, Zenon DEF Next, Step

LEMMA OrderInvariance == Spec => [](Inv /\ InOrder)
<1>1. Init => InOrder
  BY DEF Init, InOrder, Ordered
<1>2. Inv /\ InOrder /\ [Next]_vars => InOrder'
  BY StepInOrder, Zenon
<1> QED  BY <1>1, <1>2, Invariance, PTL DEF Spec

(* Urgency decides, for all limits, delays, traffic and budgets, which     *)
(* packet is handed to the radio and which is dropped from a full queue    *)
(* (send() and pump()).                                                    *)
THEOREM UrgencyDecides == Spec => UrgencyKept
<1>1. Inv /\ InOrder /\ [Next]_vars => [UrgentFirstStep /\ EvictionStep]_vars
  BY StepInOrder, Zenon
<1> QED  BY <1>1, OrderInvariance, PTL DEF Spec, UrgencyKept

(* An expired packet is only ever transmitted from behind one that is      *)
(* backing off and hides it from the sweep of pump().                      *)
THEOREM StaleNeedsBackoff == Spec => StaleOnlyBehindBackoff
<1>1. Inv /\ InOrder /\ [Next]_vars => [StaleOnlyBehindBackoffStep]_vars
  BY StepInOrder, Zenon
<1> QED  BY <1>1, OrderInvariance, PTL DEF Spec, StaleOnlyBehindBackoff
-----------------------------------------------------------------------------
(***************************************************************************)
(* The refinement.  What a step of the dispatcher does is seen from the    *)
(* queue q and the answers res its pump started from: packets lost are     *)
(* dropped and tx, one packet at most, is on the air.                      *)
(***************************************************************************)
Told(res, ok) == {s \in Ids : \E i \in DOMAIN res[s] : res[s][i] = ok}

Outcome(q, res, lost, tx) ==
  /\ lost \subseteq Queued(q) /\ tx \subseteq Queued(q) \ lost
  /\ \/ tx = {} /\ onAir' = onAir
     \/ \E s \in tx : tx = {s} /\ onAir = <<>> /\ onAir' # <<>>
  /\ Queued(queue') = Queued(q) \ (lost \cup tx)
  /\ Told(results', TRUE) = Told(res, TRUE) \cup tx
  /\ Told(results', FALSE) = Told(res, FALSE) \cup lost

LEMMA QueuedIds ==
  ASSUME NEW q \in Seq(Entries)
  PROVE  Queued(q) \subseteq Ids
<1>1. \A i \in DOMAIN q : q[i] \in Entries
  OBVIOUS
<1> QED  BY <1>1, Zenon DEF Queued, Entries

(* A call of on_result adds its answer and takes none away.                *)
LEMMA TellTold ==
  ASSUME NEW res \in [Ids -> Seq(BOOLEAN)], NEW ids \in SUBSET Ids, NEW v \in BOOLEAN,
         NEW ok \in BOOLEAN
  PROVE  Told(Tell(res, ids, v), ok) = IF ok = v THEN Told(res, ok) \cup ids ELSE Told(res, ok)
<1>1. ASSUME NEW s \in Ids
      PROVE  (\E i \in DOMAIN Append(res[s], v) : Append(res[s], v)[i] = ok)
               <=> (\E i \in DOMAIN res[s] : res[s][i] = ok) \/ ok = v
  <2>1. res[s] \in Seq(BOOLEAN) /\ Len(res[s]) \in Nat /\ DOMAIN res[s] = 1 .. Len(res[s])
    OBVIOUS
  <2>2. /\ DOMAIN Append(res[s], v) = 1 .. Len(res[s]) + 1
        /\ \A i \in 1 .. Len(res[s]) : Append(res[s], v)[i] = res[s][i]
        /\ Append(res[s], v)[Len(res[s]) + 1] = v
    BY <2>1
  <2>3. \A i \in 1 .. Len(res[s]) + 1 : i \in 1 .. Len(res[s]) \/ i = Len(res[s]) + 1
    BY <2>1
  <2>4. 1 .. Len(res[s]) \subseteq 1 .. Len(res[s]) + 1 /\ Len(res[s]) + 1 \in 1 .. Len(res[s]) + 1
    BY <2>1
  <2> QED  BY <2>1, <2>2, <2>3, <2>4, Zenon
<1>2. \A s \in Ids : Tell(res, ids, v)[s] = IF s \in ids THEN Append(res[s], v) ELSE res[s]
  BY Zenon DEF Tell
<1> DEFINE Has(seq) == \E i \in DOMAIN seq : seq[i] = ok
<1>3. \A s \in Ids : Has(Tell(res, ids, v)[s]) <=> Has(res[s]) \/ (s \in ids /\ ok = v)
  <2> TAKE s \in Ids
  <2>1. Has(Append(res[s], v)) <=> Has(res[s]) \/ ok = v
    BY <1>1, Zenon
  <2> HIDE DEF Has
  <2> QED  BY <1>2, <2>1, Zenon
<1>4. \A f : Told(f, ok) = {s \in Ids : Has(f[s])}
  BY Zenon DEF Told
<1> HIDE DEF Has
<1> QED  BY <1>3, <1>4, Zenon

LEMMA TransmitOutcome ==
  ASSUME NEW q, NEW res, NEW t, NEW r, NEW n \in Nat, NEW i \in DOMAIN q,
         Sound(q, res, n), onAir = <<>>, Transmit(q, i, res, t, r)
  PROVE  \E tx \in SUBSET Ids : Outcome(q, res, {}, tx)
<1>1. /\ q \in Seq(Entries) /\ res \in [Ids -> Seq(BOOLEAN)]
      /\ q[i].seq \in Queued(q) /\ Queued(q) \subseteq Ids
  BY QueuedIds, Zenon DEF Sound, Queued
<1>2. CASE /\ onAir' = <<q[i]>>
           /\ Rest(Erase(q, i), Tell(res, {q[i].seq}, TRUE), t, r)
  <2>1. Queued(queue') = Queued(q) \ {q[i].seq}
    BY <1>2, RemoveSound, Zenon DEF Rest
  <2>2. {q[i].seq} \in SUBSET Ids
    BY <1>1, Zenon
  <2>3. /\ Told(results', TRUE) = Told(res, TRUE) \cup {q[i].seq}
        /\ Told(results', FALSE) = Told(res, FALSE)
    BY <1>1, <1>2, <2>2, TellTold, Zenon DEF Rest
  <2>4. onAir' # <<>>
    BY <1>2, Zenon
  <2>5. Outcome(q, res, {}, {q[i].seq})
    BY <1>1, <2>1, <2>3, <2>4, Zenon DEF Outcome
  <2> QED  BY <2>2, <2>5, Zenon
<1>3. CASE /\ Rest(PutBack(q, i), res, SchedulePump(t, TxRetry), [r EXCEPT !.ready = FALSE])
           /\ UNCHANGED onAir
  <2>1. Queued(queue') = Queued(q) /\ results' = res
    BY <1>3, PutBackSound, Zenon DEF Rest
  <2>2. \A S : S \ ({} \cup {}) = S /\ S \cup {} = S /\ {} \subseteq S
    BY Zenon
  <2>3. Outcome(q, res, {}, {})
    BY <1>3, <2>1, <2>2, Zenon DEF Outcome
  <2> QED  BY <2>3, Zenon
<1> QED  BY <1>2, <1>3, Zenon DEF Transmit

LEMMA PumpLiveOutcome ==
  ASSUME NEW q, NEW res, NEW t, NEW r, NEW b, NEW n \in Nat,
         Sound(q, res, n), onAir = <<>>, PumpLive(q, res, t, r, b)
  PROVE  \E tx \in SUBSET Ids : Outcome(q, res, {}, tx)
<1>1. CASE queue' = q /\ results' = res /\ onAir' = onAir
  <2>1. Outcome(q, res, {}, {})
    BY <1>1, Zenon DEF Outcome
  <2> QED  BY <2>1, Zenon
<1>2. ASSUME NEW i \in DOMAIN q, Transmit(q, i, res, t, r)
      PROVE  \E tx \in SUBSET Ids : Outcome(q, res, {}, tx)
  BY <1>2, TransmitOutcome, Zenon
<1>3. ASSUME NEW i \in DOMAIN q, PumpReady(q, i, res, t, r, b), ~Transmit(q, i, res, t, r)
      PROVE  queue' = q /\ results' = res /\ onAir' = onAir
  BY <1>3, Zenon DEF PumpReady, Defer, Rest
<1> QED  BY <1>1, <1>2, <1>3, Zenon DEF PumpLive, Rest

LEMMA PumpOutcome ==
  ASSUME NEW q, NEW res, NEW t, NEW r, NEW b, NEW n \in Nat,
         Sound(q, res, n), Pump(q, res, t, r, b)
  PROVE  \E lost, tx \in SUBSET Ids : Outcome(q, res, lost, tx)
<1>1. CASE queue' = q /\ results' = res /\ onAir' = onAir
  <2>1. Outcome(q, res, {}, {})
    BY <1>1, Zenon DEF Outcome
  <2> QED  BY <2>1, Zenon
<1>2. ASSUME onAir = <<>>, NEW k \in 0 .. Len(q),
             PumpLive(SubSeq(q, k + 1, Len(q)), Tell(res, Queued(SubSeq(q, 1, k)), FALSE), t, r, b)
      PROVE  \E lost, tx \in SUBSET Ids : Outcome(q, res, lost, tx)
  <2> DEFINE p == SubSeq(q, k + 1, Len(q))
             lost == Queued(SubSeq(q, 1, k))
             told == Tell(res, lost, FALSE)
  <2>1. Sound(p, told, n) /\ Queued(p) = Queued(q) \ lost /\ lost \subseteq Queued(q)
    <3>1. Sound(p, told, n)
      BY SweepSound, Zenon
    <3>2. Splits(q, k)
      BY SweepQueued, Zenon
    <3> QED  BY <3>1, <3>2, Zenon DEF Splits
  <2>2. PICK tx \in SUBSET Ids : Outcome(p, told, {}, tx)
    BY <1>2, <2>1, PumpLiveOutcome, Zenon
  <2>3. lost \in SUBSET Ids /\ res \in [Ids -> Seq(BOOLEAN)]
    BY <2>1, QueuedIds, Zenon DEF Sound
  <2> HIDE DEF lost
  <2>4. /\ Told(told, TRUE) = Told(res, TRUE)
        /\ Told(told, FALSE) = Told(res, FALSE) \cup lost
    BY <2>3, TellTold, Zenon
  <2> HIDE DEF p, told
  <2>5. Outcome(q, res, lost, tx)
    BY <2>1, <2>2, <2>4, Zenon DEF Outcome
  <2> QED  BY <2>2, <2>3, <2>5, Zenon
<1> QED  BY <1>1, <1>2, Zenon DEF Pump, Rest, TxBusy

(* A step with an outcome is a step of the promise.                        *)
LEMMA ServiceStep ==
  ASSUME NEW lost, NEW tx, lost \in SUBSET Ids, tx \in SUBSET Ids,
         Outcome(queue, results, lost, tx), UNCHANGED nextSeq
  PROVE  Promise!Next
<1>1. Promise!Service(lost, tx)
  BY Zenon DEF Promise!Service, Promise!Settle, Outcome, Answered, Told
<1> QED  BY <1>1, Zenon DEF Promise!Next, Promise!Ids, Ids

LEMMA SendStep ==
  ASSUME Inv, NEW p \in Traffic, Send(p)
  PROVE  Promise!Next
<1> DEFINE e == [hash |-> p.hash, airtime |-> p.airtime, priority |-> p.priority,
                 expiry |-> ExpiryPerPriority * p.priority, notBefore |-> p.delay,
                 seq |-> nextSeq]
<1>1. /\ nextSeq \in Ids /\ nextSeq \in Nat /\ nextSeq' = nextSeq + 1 /\ nextSeq + 1 \in Nat
      /\ nextSeq < MaxSends
  BY NextId, Zenon
<1>2. e \in Entries /\ e.seq = nextSeq
  <2>1. p.hash \in Hashes /\ p.airtime \in Nat /\ p.priority \in Nat \ {0} /\ p.delay \in Nat
    BY DispatcherAssumption, Zenon
  <2>2. ExpiryPerPriority * p.priority \in Nat
    BY <2>1, ConstantTypes
  <2> QED  BY <1>1, <2>1, <2>2, Zenon DEF Entries
<1>3. Sound(queue, results, nextSeq)
  BY Zenon DEF Inv, PumpPre
<1>4. PICK pos \in 1 .. Len(queue) + 1 :
        LET q == Insert(queue, pos, e)
        IN  \/ Pump(q, results, timer, radio, budget)
            \/ \E v \in DOMAIN q :
                 Pump(Erase(q, v), Tell(results, {q[v].seq}, FALSE), timer, radio, budget)
  BY Zenon DEF Send, UpperBounds
<1> HIDE DEF e
<1> DEFINE q == Insert(queue, pos, e)
<1>5. Sound(q, results, nextSeq + 1) /\ Queued(q) = Queued(queue) \cup {nextSeq}
  <2>1. pos \in 1 .. Len(queue) + 1
    OBVIOUS
  <2>2. Sound(q, results, nextSeq + 1)
    BY <1>1, <1>2, <1>3, <2>1, InsertSound, Zenon
  <2>3. Queued(q) = Queued(queue) \cup {nextSeq}
    BY <1>1, <1>2, <1>3, <2>1, InsertSound, SMTT(30)
  <2> QED  BY <2>2, <2>3, Zenon
<1> HIDE DEF q
<1>6. q \in Seq(Entries) /\ results \in [Ids -> Seq(BOOLEAN)] /\ Queued(q) \subseteq Ids
  BY <1>5, QueuedIds, Zenon DEF Sound
<1>7. \E lost, tx \in SUBSET Ids : Outcome(q, results, lost, tx)
  <2>1. CASE Pump(q, results, timer, radio, budget)
    BY <1>1, <1>5, <2>1, PumpOutcome, Zenon
  <2>2. ASSUME NEW v \in DOMAIN q,
               Pump(Erase(q, v), Tell(results, {q[v].seq}, FALSE), timer, radio, budget)
        PROVE  \E lost, tx \in SUBSET Ids : Outcome(q, results, lost, tx)
    <3> DEFINE rest == Erase(q, v)
               told == Tell(results, {q[v].seq}, FALSE)
    <3>1. Sound(rest, told, nextSeq + 1) /\ Queued(rest) = Queued(q) \ {q[v].seq}
      BY <1>1, <1>5, RemoveSound, Zenon
    <3>2. q[v].seq \in Queued(q) /\ {q[v].seq} \in SUBSET Ids
      BY <1>6, Zenon DEF Queued
    <3>3. /\ Told(told, TRUE) = Told(results, TRUE)
          /\ Told(told, FALSE) = Told(results, FALSE) \cup {q[v].seq}
      BY <1>6, <3>2, TellTold, Zenon
    <3>4. PICK lost, tx \in SUBSET Ids : Outcome(rest, told, lost, tx)
      BY <1>1, <2>2, <3>1, PumpOutcome, Zenon
    <3> HIDE DEF rest, told
    <3>5. Outcome(q, results, lost \cup {q[v].seq}, tx)
      BY <3>1, <3>2, <3>3, <3>4, Zenon DEF Outcome
    <3>6. lost \cup {q[v].seq} \in SUBSET Ids
      BY <3>2, Zenon
    <3> QED  BY <3>5, <3>6, Zenon
  <2> QED  BY <1>4, <2>1, <2>2, Zenon DEF q
<1>8. PICK lost, tx \in SUBSET Ids : Outcome(q, results, lost, tx)
  BY <1>7, Zenon
<1>9. Promise!Accept(lost, tx)
  BY <1>1, <1>5, <1>8, Zenon DEF Promise!Accept, Promise!Settle, Outcome, Answered, Told
<1> QED  BY <1>9, Zenon DEF Promise!Next, Promise!Ids, Ids

LEMMA TickStep ==
  ASSUME Inv, Tick
  PROVE  UNCHANGED Promise!vars
<1>1. /\ queue' = [i \in DOMAIN queue |->
                     [queue[i] EXCEPT !.expiry = Less(@), !.notBefore = Less(@)]]
      /\ UNCHANGED <<nextSeq, onAir, results>>
  BY Zenon DEF Tick
<1>2. \A i \in DOMAIN queue : queue[i] \in Entries
  BY SMTT(30) DEF Inv, PumpPre, Sound
<1>3. DOMAIN queue' = DOMAIN queue /\ \A i \in DOMAIN queue : queue'[i].seq = queue[i].seq
  BY <1>1, <1>2, Zenon DEF Entries
<1>4. Queued(queue') = Queued(queue)
  BY <1>3, Zenon DEF Queued
<1> QED  BY <1>1, <1>4, Zenon DEF Promise!vars, Answered

LEMMA StepSimulates ==
  ASSUME Inv, [Next]_vars
  PROVE  [Promise!Next]_(Promise!vars)
<1>1. ASSUME UNCHANGED <<queue, nextSeq, results, onAir>> PROVE UNCHANGED Promise!vars
  BY <1>1, Zenon DEF Promise!vars, Queued, Answered
<1>2. Sound(queue, results, nextSeq) /\ nextSeq \in Nat
  BY DEF Inv, PumpPre
<1>3. ASSUME NEW p \in Traffic, Send(p) PROVE Promise!Next
  BY <1>3, SendStep, Zenon
<1>4. CASE PumpTimer
  <2>1. PICK lost, tx \in SUBSET Ids : Outcome(queue, results, lost, tx)
    BY <1>2, <1>4, PumpOutcome, Zenon DEF PumpTimer
  <2>2. UNCHANGED nextSeq
    BY <1>4, Zenon DEF PumpTimer
  <2> QED  BY <2>1, <2>2, ServiceStep, Zenon
<1>5. ASSUME NEW b \in Budgets, Reconfigure(b) PROVE Promise!Next
  <2>1. PICK lost, tx \in SUBSET Ids : Outcome(queue, results, lost, tx)
    BY <1>2, <1>5, PumpOutcome, Zenon DEF Reconfigure
  <2>2. UNCHANGED nextSeq
    BY <1>5, Zenon DEF Reconfigure
  <2> QED  BY <2>1, <2>2, ServiceStep, Zenon
<1>6. ASSUME NEW airtime, TxDone(airtime) PROVE Promise!Next
  <2>1. UNCHANGED <<queue, nextSeq, results>> /\ onAir' = <<>>
    BY <1>6, Zenon DEF TxDone
  <2>2. Promise!TxDone
    BY <2>1, Zenon DEF Promise!TxDone, Queued, Answered
  <2> QED  BY <2>2, Zenon DEF Promise!Next
<1>7. CASE Transmitted \/ TransmitLost
  BY <1>6, <1>7, Zenon DEF Transmitted, TransmitLost
<1>8. CASE ExpireSeen \/ \E h \in Hashes : Receive(h)
  BY <1>1, <1>8, Zenon DEF ExpireSeen, Receive
<1>9. CASE RadioDown \/ RadioUp \/ ChannelChanges
  BY <1>1, <1>9, Zenon DEF RadioDown, RadioUp, ChannelChanges
<1>10. CASE Tick
  BY <1>10, TickStep, Zenon
<1>11. CASE UNCHANGED vars
  BY <1>1, <1>11, Zenon DEF vars
<1> QED  BY <1>3, <1>4, <1>5, <1>7, <1>8, <1>9, <1>10, <1>11, Zenon DEF Next, Step

LEMMA InitSimulates == Init => Promise!Init
<1> SUFFICES ASSUME Init PROVE Promise!Init
  BY Zenon
<1>1. nextSeq = 0 /\ Queued(queue) = {} /\ onAir = <<>>
  BY DEF Init, Queued
<1>2. \A s \in Ids : results[s] = <<>>
  BY Zenon DEF Init
<1>3. Answered(TRUE) = {} /\ Answered(FALSE) = {}
  BY <1>2 DEF Answered
<1> QED  BY <1>1, <1>3, Zenon DEF Promise!Init

(* For all limits, delays, traffic and budgets the dispatcher keeps the    *)
(* promise that ReliableSender is built on: a packet accepted is answered  *)
(* once, true by the step that puts it on the air and false by one that    *)
(* drops it, and one packet at most is on the air.                         *)
THEOREM DispatcherImplementsTxQueue == Spec => ImplementsTxQueue
  BY InitSimulates, StepSimulates, Invariance, PTL DEF Spec, ImplementsTxQueue, Promise!Spec
=============================================================================
