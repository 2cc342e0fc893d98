-------------------------- MODULE CompanionProofs ---------------------------
(***************************************************************************)
(* TLAPS proofs about Companion: what a client gets on its socket is whole *)
(* frames of its own, pushes only after it has started, news of every      *)
(* message that waits, and one answer for each of its commands.            *)
(***************************************************************************)
EXTENDS Companion, Integers, TLAPS

-----------------------------------------------------------------------------
(***************************************************************************)
(* Sequences.                                                              *)
(***************************************************************************)
LEMMA ElementOfSeq ==
  ASSUME NEW S, NEW p \in Seq(S), NEW n \in 1..Len(p)
  PROVE  p[n] \in S
  OBVIOUS

LEMMA LenProperties ==
  ASSUME NEW S, NEW p \in Seq(S)
  PROVE  Len(p) \in Nat /\ p \in [1..Len(p) -> S] /\ DOMAIN p = 1..Len(p)
  OBVIOUS

LEMMA EmptySeq ==
  ASSUME NEW S
  PROVE  <<>> \in Seq(S) /\ Len(<<>>) = 0 /\ \A p \in Seq(S) : p # <<>> => Len(p) \in Nat \ {0}
  OBVIOUS

LEMMA SeqEqual ==
  ASSUME NEW S, NEW p \in Seq(S), NEW q \in Seq(S), Len(p) = Len(q), \A i \in 1..Len(p) : p[i] = q[i]
  PROVE  p = q
  OBVIOUS

LEMMA ConcatProperties ==
  ASSUME NEW S, NEW p \in Seq(S), NEW q \in Seq(S)
  PROVE  /\ p \o q \in Seq(S) /\ Len(p \o q) = Len(p) + Len(q)
         /\ \A i \in 1..Len(p) + Len(q) : (p \o q)[i] = IF i <= Len(p) THEN p[i] ELSE q[i - Len(p)]
  OBVIOUS

LEMMA ConcatEmptySeq ==
  ASSUME NEW S, NEW p \in Seq(S)
  PROVE  p \o <<>> = p /\ <<>> \o p = p
  OBVIOUS

LEMMA Associate ==
  ASSUME NEW S, NEW p \in Seq(S), NEW q \in Seq(S), NEW r \in Seq(S)
  PROVE  (p \o q) \o r = p \o (q \o r)
  BY SMTT(30)

LEMMA SubSeqProperties ==
  ASSUME NEW S, NEW p \in Seq(S), NEW m \in Nat \ {0}, NEW n \in 0..Len(p)
  PROVE  /\ SubSeq(p, m, n) \in Seq(S) /\ Len(SubSeq(p, m, n)) = IF m <= n THEN n - m + 1 ELSE 0
         /\ \A i \in 1..n - m + 1 : SubSeq(p, m, n)[i] = p[m + i - 1]
  OBVIOUS

LEMMA SubSeqEmpty ==
  ASSUME NEW p, NEW m \in Nat, NEW n \in Nat, n < m
  PROVE  SubSeq(p, m, n) = <<>>
  OBVIOUS

LEMMA SubSeqFull ==
  ASSUME NEW S, NEW p \in Seq(S)
  PROVE  SubSeq(p, 1, Len(p)) = p
  OBVIOUS

LEMMA ConcatAdjacentSubSeq ==
  ASSUME NEW S, NEW p \in Seq(S), NEW m \in 1..Len(p) + 1, NEW k \in m - 1..Len(p), NEW n \in k..Len(p)
  PROVE  SubSeq(p, m, k) \o SubSeq(p, k + 1, n) = SubSeq(p, m, n)
  OBVIOUS

LEMMA HeadTailProperties ==
  ASSUME NEW S, NEW p \in Seq(S), p # <<>>
  PROVE  /\ Head(p) \in S /\ Tail(p) \in Seq(S) /\ Len(Tail(p)) = Len(p) - 1
         /\ \A i \in 1..Len(Tail(p)) : Tail(p)[i] = p[i + 1]
  OBVIOUS

LEMMA AppendProperties ==
  ASSUME NEW S, NEW p \in Seq(S), NEW e \in S
  PROVE  /\ Append(p, e) \in Seq(S) /\ Append(p, e) # <<>> /\ Len(Append(p, e)) = Len(p) + 1
         /\ \A i \in 1..Len(p) : Append(p, e)[i] = p[i]
         /\ Append(p, e)[Len(p) + 1] = e
  OBVIOUS

LEMMA AppendIsConcat ==
  ASSUME NEW S, NEW p \in Seq(S), NEW e \in S
  PROVE  Append(p, e) = p \o <<e>>
  OBVIOUS
-----------------------------------------------------------------------------
(***************************************************************************)
(* What the lemmas use of numbers and of finite sets.  It is a hypothesis  *)
(* of theirs, and the library's theorems, from which it follows, are       *)
(* instantiated where it is discharged, before the theorems: the proofs in *)
(* between are checked much faster without them.                           *)
(***************************************************************************)
Basics ==
  /\ \A T \in SUBSET Nat : T # {} => \E x \in T : \A y \in T : x <= y
  /\ \A S : IsFiniteSet(S) => Cardinality(S) \in Nat
  /\ \A S, x : IsFiniteSet(S) =>
       IsFiniteSet(S \cup {x}) /\ Cardinality(S \cup {x}) = IF x \in S THEN Cardinality(S) ELSE Cardinality(S) + 1
  /\ \A S : \A T \in SUBSET S : IsFiniteSet(S) => IsFiniteSet(T) /\ Cardinality(T) <= Cardinality(S)
  /\ IsFiniteSet({}) /\ Cardinality({}) = 0

(* A set of numbers has a least one.                                       *)
LEMMA Least ==
  ASSUME Basics, NEW T, T \subseteq Nat, T # {}
  PROVE  \E x \in T : \A y \in T : x <= y
  BY Zenon DEF Basics

(* Induction: a set that has 0 and with every number the next has all.     *)
LEMMA SetInduction ==
  ASSUME Basics, NEW T \in SUBSET Nat, 0 \in T, \A n \in T : n + 1 \in T
  PROVE  \A n \in Nat : n \in T
<1> SUFFICES ASSUME NEW m \in Nat, m \notin T PROVE FALSE
  BY Zenon
<1> DEFINE Bad == {n \in Nat : n \notin T}
<1>1. PICK x \in Bad : \A y \in Bad : x <= y
  <2>1. Bad \subseteq Nat /\ Bad # {}
    BY Zenon
  <2> HIDE DEF Bad
  <2> QED  BY <2>1, Least, Zenon
<1>2. x \in Nat /\ x # 0 /\ x - 1 \in T /\ (x - 1) + 1 = x
  BY <1>1
<1> QED  BY <1>2, Zenon

(* Replies: frame by frame.                                                *)
Sending(sent, t, kinds, re, n) ==
  /\ sent = [i \in 0..n |-> sent[i]]
  /\ sent[0] = t
  /\ \A i \in 1..n : sent[i] = ServerSend(sent[i - 1], kinds[i], re)

LEMMA RepliesStep ==
  ASSUME Basics, NEW t, NEW kinds \in Seq(Kinds), NEW re
  PROVE  \E sent : /\ Sending(sent, t, kinds, re, Len(kinds))
                   /\ Replies(t, kinds, re) = sent[Len(kinds)]
<1> DEFINE T == {n \in Nat : \E sent : Sending(sent, t, kinds, re, n)}
<1>1. \E f : Sending(f, t, kinds, re, 0)
  <2> DEFINE f == [i \in 0..0 |-> t]
  <2>1. Sending(f, t, kinds, re, 0)
    BY DEF Sending
  <2> HIDE DEF f
  <2> QED  BY <2>1, Zenon
<1>2. ASSUME NEW n \in Nat, NEW f, Sending(f, t, kinds, re, n)
      PROVE  \E g : Sending(g, t, kinds, re, n + 1)
  <2> DEFINE g == [i \in 0..n + 1 |-> IF i = n + 1 THEN ServerSend(f[n], kinds[n + 1], re) ELSE f[i]]
  <2>1. /\ f[0] = t
        /\ \A i \in 1..n : f[i] = ServerSend(f[i - 1], kinds[i], re)
    BY <1>2, Zenon DEF Sending
  <2>2. g[0] = t
    BY <2>1
  <2>3. ASSUME NEW i \in 1..n + 1
        PROVE  g[i] = ServerSend(g[i - 1], kinds[i], re)
    <3>1. g[i - 1] = f[i - 1]
      OBVIOUS
    <3>2. CASE i = n + 1
      BY <3>1, <3>2
    <3>3. CASE i # n + 1
      BY <2>1, <3>1, <3>3
    <3> QED  BY <3>2, <3>3, Zenon
  <2>4. g = [i \in 0..n + 1 |-> g[i]]
    BY Zenon
  <2> HIDE DEF g
  <2>5. Sending(g, t, kinds, re, n + 1)
    BY <2>2, <2>3, <2>4, Zenon DEF Sending
  <2> QED  BY <2>5, Zenon
<1>3. Len(kinds) \in T
  <2>1. T \in SUBSET Nat /\ Len(kinds) \in Nat
    OBVIOUS
  <2>2. 0 \in T
    BY <1>1, Zenon
  <2>3. ASSUME NEW n \in T
        PROVE  n + 1 \in T
    BY <1>2
  <2> HIDE DEF T
  <2> QED  BY <2>1, <2>2, <2>3, SetInduction, Zenon
<1>4. PICK f : Sending(f, t, kinds, re, Len(kinds))
  BY <1>3, Zenon
<1> DEFINE Is(h) == h = [i \in 0..Len(kinds) |-> IF i = 0 THEN t ELSE ServerSend(h[i - 1], kinds[i], re)]
           s0 == CHOOSE h : Is(h)
<1>5. Is(f)
  BY <1>4, SMTT(30) DEF Sending
<1>6. Is(s0)
  BY <1>5, Zenon
<1>7. Replies(t, kinds, re) = s0[Len(kinds)]
  BY Zenon DEF Replies
<1> HIDE DEF s0
<1>8. Sending(s0, t, kinds, re, Len(kinds))
  BY <1>6 DEF Sending
<1> QED  BY <1>7, <1>8, Zenon

(* The loop of on_client_ready(), round by round.                          *)
Serving(served, t, disk, err, n) ==
  /\ served = [i \in 0..n |-> served[i]]
  /\ served[0] = t
  /\ \A i \in 1..n : served[i] = ServeFrame(served[i - 1], disk, err)

LEMMA ServeFramesStep ==
  ASSUME Basics, NEW t, NEW disk, NEW err, Len(t.s.reader) \in Nat
  PROVE  \E served : /\ Serving(served, t, disk, err, Len(t.s.reader))
                     /\ ServeFrames(t, disk, err) = served[Len(t.s.reader)]
<1> DEFINE T == {n \in Nat : \E served : Serving(served, t, disk, err, n)}
<1>1. \E f : Serving(f, t, disk, err, 0)
  <2> DEFINE f == [i \in 0..0 |-> t]
  <2>1. Serving(f, t, disk, err, 0)
    BY DEF Serving
  <2> HIDE DEF f
  <2> QED  BY <2>1, Zenon
<1>2. ASSUME NEW n \in Nat, NEW f, Serving(f, t, disk, err, n)
      PROVE  \E g : Serving(g, t, disk, err, n + 1)
  <2> DEFINE g == [i \in 0..n + 1 |-> IF i = n + 1 THEN ServeFrame(f[n], disk, err) ELSE f[i]]
  <2>1. /\ f[0] = t
        /\ \A i \in 1..n : f[i] = ServeFrame(f[i - 1], disk, err)
    BY <1>2, Zenon DEF Serving
  <2>2. g[0] = t
    BY <2>1
  <2>3. ASSUME NEW i \in 1..n + 1
        PROVE  g[i] = ServeFrame(g[i - 1], disk, err)
    <3>1. g[i - 1] = f[i - 1]
      OBVIOUS
    <3>2. CASE i = n + 1
      BY <3>1, <3>2
    <3>3. CASE i # n + 1
      BY <2>1, <3>1, <3>3
    <3> QED  BY <3>2, <3>3, Zenon
  <2>4. g = [i \in 0..n + 1 |-> g[i]]
    BY Zenon
  <2> HIDE DEF g
  <2>5. Serving(g, t, disk, err, n + 1)
    BY <2>2, <2>3, <2>4, Zenon DEF Serving
  <2> QED  BY <2>5, Zenon
<1>3. Len(t.s.reader) \in T
  <2>1. T \in SUBSET Nat /\ Len(t.s.reader) \in Nat
    BY Zenon
  <2>2. 0 \in T
    BY <1>1, Zenon
  <2>3. ASSUME NEW n \in T
        PROVE  n + 1 \in T
    BY <1>2
  <2> HIDE DEF T
  <2> QED  BY <2>1, <2>2, <2>3, SetInduction, Zenon
<1>4. PICK f : Serving(f, t, disk, err, Len(t.s.reader))
  BY <1>3, Zenon
<1> DEFINE Is(h) == h = [i \in 0..Len(t.s.reader) |-> IF i = 0 THEN t ELSE ServeFrame(h[i - 1], disk, err)]
           s0 == CHOOSE h : Is(h)
<1>5. Is(f)
  <2>1. PICK m \in Nat : m = Len(t.s.reader)
    BY Zenon
  <2>2. Serving(f, t, disk, err, m)
    BY <1>4, <2>1, Zenon
  <2> DEFINE g == [i \in 0..m |-> IF i = 0 THEN t ELSE ServeFrame(f[i - 1], disk, err)]
  <2>3. f = [i \in 0..m |-> f[i]]
    BY <2>2, Zenon DEF Serving
  <2>4. ASSUME NEW i \in 0..m
        PROVE  f[i] = g[i]
    <3>1. CASE i = 0
      BY <2>2, <3>1, Zenon DEF Serving
    <3>2. CASE i # 0
      BY <2>2, <3>2, SMTT(30) DEF Serving
    <3> QED  BY <3>1, <3>2, Zenon
  <2>5. f = g
    BY <2>3, <2>4, Zenon
  <2> QED  BY <2>1, <2>5, Zenon
<1>6. Is(s0)
  BY <1>5, Zenon
<1>7. ServeFrames(t, disk, err) = s0[Len(t.s.reader)]
  BY Zenon DEF ServeFrames
<1> HIDE DEF s0
<1>8. Serving(s0, t, disk, err, Len(t.s.reader))
  BY <1>6 DEF Serving
<1> QED  BY <1>7, <1>8, Zenon

(* Induction downwards, from the end of a sequence.                        *)
LEMMA DownInduction ==
  ASSUME Basics, NEW m \in Nat, NEW T,
         \A i \in 1..m : (\A j \in i + 1..m : j \in T) => i \in T
  PROVE  \A i \in 1..m : i \in T
<1> DEFINE U == {n \in Nat : \A j \in 1..m : j > m - n => j \in T}
<1>1. 0 \in U
  OBVIOUS
<1>2. ASSUME NEW n \in U
      PROVE  n + 1 \in U
  <2> SUFFICES ASSUME NEW j \in 1..m, j > m - (n + 1)
               PROVE  j \in T
    OBVIOUS
  <2>1. \A k \in j + 1..m : k \in T
    BY <1>2
  <2> QED  BY <2>1, Zenon
<1>3. U \in SUBSET Nat
  BY Zenon
<1>4. m \in U
  <2> HIDE DEF U
  <2> QED  BY <1>1, <1>2, <1>3, SetInduction, Zenon
<1> QED  BY <1>4

(* CommandsIn: from the end of the bytes to their beginning.               *)
ScanFrom(from, bytes, i) ==
  IF i >= Len(bytes) THEN <<>>
  ELSE IF ~IsMarker(bytes[i]) \/ bytes[i + 1] > MaxFrame THEN from[i + 1]
  ELSE IF i + 1 + bytes[i + 1] > Len(bytes) THEN <<>>
  ELSE (IF bytes[i + 1] = 0 THEN <<>> ELSE <<bytes[i + 2]>>) \o from[i + 2 + bytes[i + 1]]

Scanning(from, bytes, first) ==
  /\ from = [i \in first..Len(bytes) + 1 |-> from[i]]
  /\ \A i \in first..Len(bytes) + 1 : from[i] = ScanFrom(from, bytes, i)

LEMMA BytesAreNumbers == \A b \in Bytes : b \in Nat
  BY DEF Bytes

(* A step of the scan looks only ahead.                                    *)
LEMMA ScanLooksAhead ==
  ASSUME NEW bytes \in Seq(Bytes), NEW i \in 1..Len(bytes) + 1, NEW f, NEW g,
         \A j \in i + 1..Len(bytes) + 1 : f[j] = g[j]
  PROVE  ScanFrom(f, bytes, i) = ScanFrom(g, bytes, i)
<1>1. CASE i >= Len(bytes)
  BY <1>1, Zenon DEF ScanFrom
<1>2. CASE i < Len(bytes)
  <2>0. i \in Nat /\ Len(bytes) \in Nat /\ i + 1 \in 1..Len(bytes)
    BY <1>2
  <2>1. bytes[i + 1] \in Nat
    <3>1. bytes[i + 1] \in Bytes
      BY <2>0, ElementOfSeq, Zenon
    <3> QED  BY <3>1, BytesAreNumbers, Zenon
  <2>2. f[i + 1] = g[i + 1]
    BY <2>0
  <2>3. i + 1 + bytes[i + 1] <= Len(bytes) => f[i + 2 + bytes[i + 1]] = g[i + 2 + bytes[i + 1]]
    <3> SUFFICES ASSUME i + 1 + bytes[i + 1] <= Len(bytes)
                 PROVE  f[i + 2 + bytes[i + 1]] = g[i + 2 + bytes[i + 1]]
      BY Zenon
    <3>1. i + 2 + bytes[i + 1] \in i + 1..Len(bytes) + 1
      BY <2>0, <2>1
    <3> QED  BY <3>1, Zenon
  <2>4. i + 1 + bytes[i + 1] > Len(bytes) \/ i + 1 + bytes[i + 1] <= Len(bytes)
    BY <2>0, <2>1
  <2> QED  BY <2>2, <2>3, <2>4, Zenon DEF ScanFrom
<1> QED  BY <1>1, <1>2

LEMMA ScanningExists ==
  ASSUME Basics, NEW bytes \in Seq(Bytes)
  PROVE  \E f : Scanning(f, bytes, 1)
<1> DEFINE m == Len(bytes) + 1
           T == {i \in 1..m : \E f : Scanning(f, bytes, i)}
<1>1. m \in Nat /\ m >= 1
  OBVIOUS
<1>2. \E f : Scanning(f, bytes, m)
  <2> DEFINE f == [i \in m..m |-> <<>>]
  <2>1. Scanning(f, bytes, m)
    <3>1. \A i \in m..m : i = m /\ f[i] = <<>> /\ i >= Len(bytes)
      OBVIOUS
    <3>2. f = [i \in m..m |-> f[i]]
      BY Zenon
    <3> HIDE DEF f
    <3> QED  BY <3>1, <3>2, Zenon DEF Scanning, ScanFrom
  <2> HIDE DEF f
  <2> QED  BY <2>1, Zenon
<1>3. ASSUME NEW a \in 1..m - 1, NEW f, Scanning(f, bytes, a + 1)
      PROVE  \E g : Scanning(g, bytes, a)
  <2> DEFINE g == [i \in a..m |-> IF i = a THEN ScanFrom(f, bytes, a) ELSE f[i]]
  <2>1. \A i \in a + 1..m : g[i] = f[i]
    OBVIOUS
  <2>2. g[a] = ScanFrom(f, bytes, a)
    BY <1>1
  <2>3. g = [i \in a..m |-> g[i]]
    BY Zenon
  <2> HIDE DEF g
  <2>4. \A i \in a..m : ScanFrom(f, bytes, i) = ScanFrom(g, bytes, i)
    <3> TAKE i \in a..m
    <3>1. i \in 1..m /\ \A j \in i + 1..m : f[j] = g[j]
      BY <1>1, <2>1
    <3> QED  BY <3>1, ScanLooksAhead, Zenon
  <2>5. \A i \in a + 1..m : f[i] = ScanFrom(f, bytes, i)
    BY <1>3, Zenon DEF Scanning
  <2>6. \A i \in a..m : g[i] = ScanFrom(g, bytes, i)
    <3> TAKE i \in a..m
    <3>1. CASE i = a
      BY <2>2, <2>4, <3>1, Zenon
    <3>2. CASE i # a
      <4>1. i \in a + 1..m
        BY <1>1, <3>2
      <4> QED  BY <2>1, <2>4, <2>5, <4>1, Zenon
    <3> QED  BY <3>1, <3>2, Zenon
  <2>7. Scanning(g, bytes, a)
    BY <2>3, <2>6, Zenon DEF Scanning
  <2> QED  BY <2>7, Zenon
<1>4. \A i \in 1..m : (\A j \in i + 1..m : j \in T) => i \in T
  <2> SUFFICES ASSUME NEW i \in 1..m, \A j \in i + 1..m : j \in T
               PROVE  \E f : Scanning(f, bytes, i)
    BY Zenon
  <2>1. CASE i = m
    BY <1>2, <2>1, Zenon
  <2>2. CASE i # m
    <3>1. i \in 1..m - 1 /\ i + 1 \in i + 1..m
      BY <1>1, <2>2
    <3>2. PICK f : Scanning(f, bytes, i + 1)
      BY <3>1, Zenon
    <3> QED  BY <1>3, <3>1, <3>2, Zenon
  <2> QED  BY <2>1, <2>2, Zenon
<1>5. 1 \in T
  <2>1. 1 \in 1..m
    BY <1>1
  <2> HIDE DEF T, m
  <2> QED  BY <1>1, <1>4, <2>1, DownInduction, Zenon
<1> QED  BY <1>5, Zenon

Scan(bytes) == CHOOSE f : f = [i \in 1..Len(bytes) + 1 |-> ScanFrom(f, bytes, i)]

LEMMA ScanStep ==
  ASSUME Basics, NEW bytes \in Seq(Bytes)
  PROVE  /\ CommandsIn(bytes) = Scan(bytes)[1]
         /\ \A i \in 1..Len(bytes) + 1 : Scan(bytes)[i] = ScanFrom(Scan(bytes), bytes, i)
<1> DEFINE Is(f) == f = [i \in 1..Len(bytes) + 1 |-> ScanFrom(f, bytes, i)]
<1>1. PICK f : Scanning(f, bytes, 1)
  BY ScanningExists, Zenon
<1>2. Is(f)
  <2>1. f = [i \in 1..Len(bytes) + 1 |-> f[i]]
    BY <1>1, Zenon DEF Scanning
  <2>2. \A i \in 1..Len(bytes) + 1 : f[i] = ScanFrom(f, bytes, i)
    BY <1>1, Zenon DEF Scanning
  <2> QED  BY <2>1, <2>2, Zenon
<1>3. Is(Scan(bytes))
  BY <1>2, Zenon DEF Scan
<1>4. CommandsIn(bytes) = Scan(bytes)[1]
  BY Zenon DEF CommandsIn, Scan, ScanFrom
<1>5. \A i \in 1..Len(bytes) + 1 : Scan(bytes)[i] = ScanFrom(Scan(bytes), bytes, i)
  BY <1>3, Zenon
<1> QED  BY <1>4, <1>5, Zenon

LEMMA ScanTyped ==
  ASSUME Basics, NEW bytes \in Seq(Bytes)
  PROVE  \A i \in 1..Len(bytes) + 1 : Scan(bytes)[i] \in Seq(Bytes)
<1> DEFINE f == Scan(bytes)
           T == {i \in 1..Len(bytes) + 1 : f[i] \in Seq(Bytes)}
<1>1. ASSUME NEW i \in 1..Len(bytes) + 1,
             \A j \in i + 1..Len(bytes) + 1 : f[j] \in Seq(Bytes)
      PROVE  f[i] \in Seq(Bytes)
  <2>1. f[i] = ScanFrom(f, bytes, i)
    BY ScanStep, Zenon
  <2> HIDE DEF f
  <2>2. i \in Nat /\ Len(bytes) \in Nat /\ <<>> \in Seq(Bytes)
    OBVIOUS
  <2>3. CASE i >= Len(bytes)
    BY <2>1, <2>2, <2>3, Zenon DEF ScanFrom
  <2>4. CASE i < Len(bytes)
    <3>1. i + 1 \in 1..Len(bytes) /\ i + 1 \in i + 1..Len(bytes) + 1
      BY <2>2, <2>4
    <3>2. f[i + 1] \in Seq(Bytes)
      BY <1>1, <3>1, Zenon
    <3>3. PICK b \in Nat : b = bytes[i + 1]
      BY <3>1, ElementOfSeq, BytesAreNumbers, Zenon
    <3>4. CASE ~IsMarker(bytes[i]) \/ b > MaxFrame
      BY <2>1, <2>2, <2>4, <3>2, <3>3, <3>4, Zenon DEF ScanFrom
    <3>5. CASE i + 1 + b > Len(bytes)
      BY <2>1, <2>2, <3>2, <3>3, <3>5, Zenon DEF ScanFrom
    <3>6. CASE ~(~IsMarker(bytes[i]) \/ b > MaxFrame) /\ ~(i + 1 + b > Len(bytes))
      <4>1. i + 2 + b \in i + 1..Len(bytes) + 1 /\ (b # 0 => i + 2 \in 1..Len(bytes))
        BY <2>2, <3>6
      <4>2. f[i + 2 + b] \in Seq(Bytes)
        BY <1>1, <4>1, Zenon
      <4>3. CASE b = 0
        <5>1. f[i] = <<>> \o f[i + 2 + b]
          BY <2>1, <2>2, <2>4, <3>3, <3>6, <4>3 DEF ScanFrom
        <5> QED  BY <2>2, <4>2, <5>1, ConcatProperties, Zenon
      <4>4. CASE b # 0
        <5>1. bytes[i + 2] \in Bytes
          BY <4>1, <4>4, ElementOfSeq, Zenon
        <5>2. <<bytes[i + 2]>> \in Seq(Bytes)
          BY <5>1
        <5>3. f[i] = <<bytes[i + 2]>> \o f[i + 2 + b]
          BY <2>1, <2>2, <2>4, <3>3, <3>6, <4>4, SMTT(30) DEF ScanFrom
        <5> QED  BY <4>2, <5>2, <5>3, ConcatProperties, Zenon
      <4> QED  BY <4>3, <4>4, Zenon
    <3> QED  BY <3>4, <3>5, <3>6, Zenon
  <2> QED  BY <2>2, <2>3, <2>4
<1>2. \A i \in 1..Len(bytes) + 1 : (\A j \in i + 1..Len(bytes) + 1 : j \in T) => i \in T
  BY <1>1, Zenon
<1>3. Len(bytes) + 1 \in Nat
  OBVIOUS
<1>4. \A i \in 1..Len(bytes) + 1 : i \in T
  <2> HIDE DEF T
  <2> QED  BY <1>2, <1>3, DownInduction, Zenon
<1> QED  BY <1>4, Zenon

(* The scan from a position on is that of the bytes from there.            *)
LEMMA ScanSuffix ==
  ASSUME Basics, NEW z \in Seq(Bytes), NEW k \in 1..Len(z) + 1
  PROVE  /\ SubSeq(z, k, Len(z)) \in Seq(Bytes)
         /\ CommandsIn(SubSeq(z, k, Len(z))) = Scan(z)[k]
<1> DEFINE y == SubSeq(z, k, Len(z))
           f == Scan(z)
           g == Scan(y)
           T == {j \in 1..Len(y) + 1 : g[j] = f[k - 1 + j]}
<1>1. /\ y \in Seq(Bytes) /\ Len(y) = Len(z) + 1 - k
      /\ \A j \in 1..Len(y) : y[j] = z[k - 1 + j]
  BY SubSeqProperties
<1> HIDE DEF y
<1>2. /\ \A i \in 1..Len(z) + 1 : f[i] = ScanFrom(f, z, i)
      /\ \A j \in 1..Len(y) + 1 : g[j] = ScanFrom(g, y, j)
      /\ CommandsIn(y) = g[1]
  BY <1>1, ScanStep, Zenon
<1> HIDE DEF f, g
<1>3. ASSUME NEW j \in 1..Len(y) + 1,
             \A n \in j + 1..Len(y) + 1 : g[n] = f[k - 1 + n]
      PROVE  g[j] = f[k - 1 + j]
  <2>0. PICK i \in Nat : i = k - 1 + j
    BY <1>1
  <2> SUFFICES g[j] = f[i]
    BY <2>0, Zenon
  <2>1. /\ j \in Nat /\ k \in Nat /\ k >= 1 /\ i \in Nat /\ i \in 1..Len(z) + 1
        /\ Len(z) \in Nat /\ Len(y) \in Nat
    BY <1>1, <2>0
  <2>2. g[j] = ScanFrom(g, y, j) /\ f[i] = ScanFrom(f, z, i)
    BY <1>2, <2>1, Zenon
  <2>3. CASE j >= Len(y)
    <3>1. i >= Len(z)
      BY <1>1, <2>0, <2>1, <2>3
    <3> QED  BY <2>2, <2>3, <3>1, Zenon DEF ScanFrom
  <2>4. CASE j < Len(y)
    <3>0. i < Len(z)
      BY <1>1, <2>0, <2>1, <2>4
    <3>1. /\ i < Len(z) /\ ~(i >= Len(z)) /\ ~(j >= Len(y)) /\ j + 1 \in 1..Len(y)
          /\ i + 1 \in 1..Len(z) /\ k - 1 + (j + 1) = i + 1 /\ j + 1 \in j + 1..Len(y) + 1
      BY <2>0, <2>1, <2>4, <3>0
    <3>2. y[j] = z[i] /\ y[j + 1] = z[i + 1] /\ g[j + 1] = f[i + 1]
      <4>1. g[j + 1] = f[k - 1 + (j + 1)]
        BY <1>3, <3>1, Zenon
      <4>2. y[j + 1] = z[k - 1 + (j + 1)] /\ y[j] = z[k - 1 + j]
        <5>1. j \in 1..Len(y)
          BY <2>1, <2>4
        <5> QED  BY <1>1, <3>1, <5>1, Zenon
      <4> QED  BY <2>0, <3>1, <4>1, <4>2, Zenon
    <3>3. PICK b \in Nat : b = z[i + 1]
      BY <3>1, ElementOfSeq, BytesAreNumbers, Zenon
    <3>4. j + 1 + b > Len(y) <=> i + 1 + b > Len(z)
      BY <1>1, <2>0, <2>1
    <3>5. CASE i + 1 + b > Len(z)
      BY <2>2, <3>1, <3>2, <3>3, <3>4, <3>5 DEF ScanFrom
    <3>6. CASE ~(i + 1 + b > Len(z))
      <4>1. /\ j + 2 + b \in j + 1..Len(y) + 1 /\ k - 1 + (j + 2 + b) = i + 2 + b
            /\ (b # 0 => j + 2 \in 1..Len(y) /\ k - 1 + (j + 2) = i + 2)
        BY <1>1, <2>0, <2>1, <3>6
      <4>2. g[j + 2 + b] = f[i + 2 + b] /\ (b # 0 => y[j + 2] = z[i + 2])
        BY <1>1, <1>3, <2>0, <4>1, Zenon
      <4>3. CASE ~IsMarker(z[i]) \/ b > MaxFrame
        BY <2>2, <3>1, <3>2, <3>3, <4>3, Zenon DEF ScanFrom
      <4>4. CASE ~(~IsMarker(z[i]) \/ b > MaxFrame) /\ b = 0
        <5>1. f[i] = <<>> \o f[i + 2 + b]
          BY <2>2, <3>1, <3>3, <3>6, <4>4, Zenon DEF ScanFrom
        <5>2. g[j] = <<>> \o g[j + 2 + b]
          BY <2>2, <3>1, <3>2, <3>3, <3>4, <3>6, <4>4, Zenon DEF ScanFrom
        <5> QED  BY <4>2, <5>1, <5>2, Zenon
      <4>5. CASE ~(~IsMarker(z[i]) \/ b > MaxFrame) /\ b # 0
        <5>1. f[i] = <<z[i + 2]>> \o f[i + 2 + b]
          BY <2>2, <3>1, <3>3, <3>6, <4>5, Zenon DEF ScanFrom
        <5>2. g[j] = <<y[j + 2]>> \o g[j + 2 + b]
          BY <2>2, <3>1, <3>2, <3>3, <3>4, <3>6, <4>5, Zenon DEF ScanFrom
        <5> QED  BY <4>2, <4>5, <5>1, <5>2, Zenon
      <4> QED  BY <4>3, <4>4, <4>5, Zenon
    <3> QED  BY <3>5, <3>6, Zenon
  <2> QED  BY <2>1, <2>3, <2>4
<1>4. \A j \in 1..Len(y) + 1 : (\A n \in j + 1..Len(y) + 1 : n \in T) => j \in T
  BY <1>3, Zenon
<1>5. Len(y) + 1 \in Nat /\ 1 \in 1..Len(y) + 1 /\ k - 1 + 1 = k
  BY <1>1
<1>6. 1 \in T
  <2> HIDE DEF T
  <2> QED  BY <1>4, <1>5, DownInduction, Zenon
<1> QED  BY <1>1, <1>2, <1>5, <1>6, Zenon DEF y, f

-----------------------------------------------------------------------------
(***************************************************************************)
(* FrameReader::next().                                                    *)
(***************************************************************************)

(* The end of what two pieces make.                                        *)
LEMMA SuffixConcat ==
  ASSUME NEW S, NEW x \in Seq(S), NEW y \in Seq(S), NEW k \in 1..Len(x) + 1
  PROVE  SubSeq(x \o y, k, Len(x \o y)) = SubSeq(x, k, Len(x)) \o y
<1> DEFINE z == x \o y
           a == SubSeq(z, k, Len(z))
           b == SubSeq(x, k, Len(x))
<1>1. /\ z \in Seq(S) /\ Len(z) = Len(x) + Len(y) /\ Len(x) \in Nat /\ Len(y) \in Nat
      /\ \A i \in 1..Len(x) + Len(y) : z[i] = IF i <= Len(x) THEN x[i] ELSE y[i - Len(x)]
  BY ConcatProperties
<1> HIDE DEF z
<1>2. /\ a \in Seq(S) /\ Len(a) = Len(z) + 1 - k
      /\ \A i \in 1..Len(a) : a[i] = z[k + i - 1]
  <2>1. \A i \in k..Len(z) : z[i] \in S
    BY <1>1, ElementOfSeq
  <2> QED  BY <1>1, <2>1, SubSeqProperties, SMTT(30)
<1>3. /\ b \in Seq(S) /\ Len(b) = Len(x) + 1 - k
      /\ \A i \in 1..Len(b) : b[i] = x[k + i - 1]
  <2>1. \A i \in k..Len(x) : x[i] \in S
    BY <1>1, ElementOfSeq
  <2> QED  BY <1>1, <2>1, SubSeqProperties
<1> HIDE DEF a, b
<1>4. /\ b \o y \in Seq(S) /\ Len(b \o y) = Len(b) + Len(y)
      /\ \A i \in 1..Len(b) + Len(y) : (b \o y)[i] = IF i <= Len(b) THEN b[i] ELSE y[i - Len(b)]
  BY <1>3, ConcatProperties, Zenon
<1>5. Len(a) = Len(b \o y)
  BY <1>1, <1>2, <1>3, <1>4
<1>6. ASSUME NEW i \in 1..Len(a)
      PROVE  a[i] = (b \o y)[i]
  <2>0. /\ i \in Nat /\ k \in Nat /\ k + i - 1 \in 1..Len(x) + Len(y) /\ i \in 1..Len(b) + Len(y)
        /\ Len(b) = Len(x) + 1 - k
    BY <1>1, <1>2, <1>3
  <2>1. CASE i <= Len(b)
    <3>1. i \in 1..Len(b) /\ k + i - 1 <= Len(x)
      BY <1>1, <2>0, <2>1
    <3>2. a[i] = z[k + i - 1] /\ b[i] = x[k + i - 1]
      BY <1>2, <1>3, <3>1, Zenon
    <3>3. z[k + i - 1] = x[k + i - 1] /\ (b \o y)[i] = b[i]
      BY <1>1, <1>4, <2>0, <2>1, <3>1, Zenon
    <3> QED  BY <3>2, <3>3, Zenon
  <2>2. CASE ~(i <= Len(b))
    <3>1. ~(k + i - 1 <= Len(x)) /\ k + i - 1 - Len(x) = i - Len(b)
      BY <1>1, <2>0, <2>2
    <3>2. a[i] = z[k + i - 1]
      BY <1>2, Zenon
    <3>3. z[k + i - 1] = y[k + i - 1 - Len(x)]
      <4>1. PICK h : h = k + i - 1
        BY Zenon
      <4>2. h \in 1..Len(x) + Len(y) /\ ~(h <= Len(x))
        BY <2>0, <3>1, <4>1, Zenon
      <4> QED  BY <1>1, <4>1, <4>2, SMTT(30)
    <3>4. (b \o y)[i] = y[i - Len(b)]
      BY <1>4, <2>0, <2>2, Zenon
    <3> QED  BY <3>1, <3>2, <3>3, <3>4, Zenon
  <2> QED  BY <2>1, <2>2, Zenon
<1>7. a = b \o y
  BY <1>2, <1>4, <1>5, <1>6, SeqEqual, Zenon
<1> QED  BY <1>7, Zenon DEF a, b, z

(* The scan passes over bytes at which no frame starts.                    *)
LEMMA ScanSkips ==
  ASSUME Basics, NEW z \in Seq(Bytes), NEW n \in Nat, n <= Len(z),
         \A j \in 1..n : ~IsMarker(z[j]) \/ (j < Len(z) /\ z[j + 1] > MaxFrame)
  PROVE  Scan(z)[1] = Scan(z)[n + 1]
<1> DEFINE f == Scan(z)
           T == {k \in Nat : k <= n => f[1] = f[k + 1]}
<1>1. \A i \in 1..Len(z) + 1 : f[i] = ScanFrom(f, z, i)
  BY ScanStep, Zenon
<1> HIDE DEF f
<1>2. 0 \in T
  OBVIOUS
<1>3. ASSUME NEW k \in T
      PROVE  k + 1 \in T
  <2> SUFFICES ASSUME k + 1 <= n
               PROVE  f[1] = f[(k + 1) + 1]
    OBVIOUS
  <2>1. /\ k \in Nat /\ Len(z) \in Nat /\ k + 1 \in 1..n /\ k + 1 \in 1..Len(z) + 1
        /\ (k + 1) + 1 \in 1..Len(z) + 1 /\ f[1] = f[k + 1]
    BY <1>3
  <2>2. f[k + 1] = ScanFrom(f, z, k + 1) /\ f[(k + 1) + 1] = ScanFrom(f, z, (k + 1) + 1)
    BY <1>1, <2>1, Zenon
  <2>3. CASE k + 1 < Len(z)
    <3>1. ~(k + 1 >= Len(z))
      BY <2>1, <2>3
    <3>2. ~IsMarker(z[k + 1]) \/ z[(k + 1) + 1] > MaxFrame
      BY <2>1, Zenon
    <3> QED  BY <2>1, <2>2, <3>1, <3>2, Zenon DEF ScanFrom
  <2>4. CASE ~(k + 1 < Len(z))
    <3>1. k + 1 >= Len(z) /\ (k + 1) + 1 >= Len(z)
      BY <2>1, <2>4
    <3> QED  BY <2>1, <2>2, <3>1, Zenon DEF ScanFrom
  <2> QED  BY <2>3, <2>4, Zenon
<1>4. T \in SUBSET Nat
  BY Zenon
<1>5. n \in T
  <2> HIDE DEF T
  <2> QED  BY <1>2, <1>3, <1>4, SetInduction, Zenon
<1> QED  BY <1>5 DEF f

(* What is dropped before the first start holds no command, whatever comes *)
(* after it.                                                               *)
LEMMA ResyncKeepsCommands ==
  ASSUME Basics, NEW buf \in Seq(Bytes), NEW y \in Seq(Bytes)
  PROVE  /\ Resynced(buf) \in Seq(Bytes)
         /\ Len(Resynced(buf)) <= Len(buf)
         /\ Resynced(buf) = <<>> \/ 1 \in Starts(Resynced(buf))
         /\ CommandsIn(buf \o y) = CommandsIn(Resynced(buf) \o y)
<1> DEFINE z == buf \o y
<1>1. /\ z \in Seq(Bytes) /\ Len(z) = Len(buf) + Len(y) /\ Len(buf) \in Nat /\ Len(y) \in Nat
      /\ \A i \in 1..Len(buf) : z[i] = buf[i]
  BY ConcatProperties
<1> HIDE DEF z
<1>2. MaxFrame \in Nat
  BY CompanionAssumption, Zenon
<1>3. ASSUME NEW j \in 1..Len(buf), j \notin Starts(buf)
      PROVE  ~IsMarker(z[j]) \/ (j < Len(z) /\ z[j + 1] > MaxFrame)
  <2> SUFFICES ASSUME IsMarker(z[j]) PROVE j < Len(z) /\ z[j + 1] > MaxFrame
    BY Zenon
  <2>1. z[j] = buf[j] /\ j \in DOMAIN buf
    BY <1>1
  <2>2. j < Len(buf) /\ ~(buf[j + 1] <= MaxFrame)
    BY <1>3, <2>1, Zenon DEF Starts
  <2>3. j + 1 \in 1..Len(buf)
    BY <1>1, <2>2
  <2>4. buf[j + 1] \in Nat /\ z[j + 1] = buf[j + 1]
    BY <1>1, <2>3, ElementOfSeq, BytesAreNumbers, Zenon
  <2> QED  BY <1>1, <1>2, <2>2, <2>4
<1>4. ASSUME NEW n \in Nat, n <= Len(buf), \A j \in 1..n : j \notin Starts(buf)
      PROVE  CommandsIn(z) = CommandsIn(SubSeq(buf, n + 1, Len(buf)) \o y)
  <2>1. Scan(z)[1] = Scan(z)[n + 1]
    <3>1. \A j \in 1..n : ~IsMarker(z[j]) \/ (j < Len(z) /\ z[j + 1] > MaxFrame)
      BY <1>1, <1>3, <1>4
    <3>2. n <= Len(z)
      BY <1>1, <1>4
    <3> QED  BY <1>1, <3>1, <3>2, ScanSkips, Zenon
  <2>2. n + 1 \in 1..Len(z) + 1 /\ n + 1 \in 1..Len(buf) + 1
    BY <1>1, <1>4
  <2>3. CommandsIn(SubSeq(z, n + 1, Len(z))) = Scan(z)[n + 1] /\ CommandsIn(z) = Scan(z)[1]
    BY <1>1, <2>2, ScanSuffix, ScanStep, Zenon
  <2>4. SubSeq(z, n + 1, Len(z)) = SubSeq(buf, n + 1, Len(buf)) \o y
    BY <2>2, SuffixConcat, Zenon DEF z
  <2> QED  BY <2>1, <2>3, <2>4, Zenon
<1>5. CASE Starts(buf) = {}
  <2>1. SubSeq(buf, Len(buf) + 1, Len(buf)) = <<>>
    BY <1>1, SubSeqEmpty
  <2>2. CommandsIn(z) = CommandsIn(SubSeq(buf, Len(buf) + 1, Len(buf)) \o y)
    BY <1>1, <1>4, <1>5
  <2>3. Resynced(buf) = <<>>
    BY <1>5, Zenon DEF Resynced
  <2>4. <<>> \in Seq(Bytes) /\ Len(<<>>) = 0
    OBVIOUS
  <2>5. CommandsIn(buf \o y) = CommandsIn(<<>> \o y)
    BY <2>1, <2>2, Zenon DEF z
  <2>6. Len(<<>>) <= Len(buf)
    BY <1>1, <2>4
  <2> QED  BY <2>3, <2>4, <2>5, <2>6, Zenon
<1>6. CASE Starts(buf) # {}
  <2>1. Starts(buf) \subseteq Nat /\ Starts(buf) \subseteq 1..Len(buf)
    BY <1>1 DEF Starts
  <2>2. \E i \in Starts(buf) : \A j \in Starts(buf) : i <= j
    BY <1>6, <2>1, Least, Zenon
  <2>3. PICK i : i = CHOOSE h \in Starts(buf) : \A j \in Starts(buf) : h <= j
    BY Zenon
  <2>4. i \in Starts(buf) /\ \A j \in Starts(buf) : i <= j
    BY <2>2, <2>3, Zenon
  <2>5. Resynced(buf) = SubSeq(buf, i, Len(buf))
    BY <1>6, <2>3, Zenon DEF Resynced
  <2>6. i \in 1..Len(buf) /\ i - 1 \in Nat /\ i - 1 <= Len(buf) /\ (i - 1) + 1 = i
    BY <1>1, <2>1, <2>4
  <2>7. \A j \in 1..i - 1 : j \notin Starts(buf)
    BY <2>4, <2>6
  <2>8. CommandsIn(z) = CommandsIn(SubSeq(buf, i, Len(buf)) \o y)
    <3>1. PICK n \in Nat : n + 1 = i /\ n = i - 1
      BY <2>6, Zenon
    <3>2. CommandsIn(z) = CommandsIn(SubSeq(buf, n + 1, Len(buf)) \o y)
      BY <1>4, <2>6, <2>7, <3>1, Zenon
    <3> QED  BY <3>1, <3>2, Zenon
  <2> DEFINE b == SubSeq(buf, i, Len(buf))
  <2>9. /\ b \in Seq(Bytes) /\ Len(b) = Len(buf) + 1 - i
        /\ \A j \in 1..Len(b) : b[j] = buf[i + j - 1]
    <3>1. \A j \in i..Len(buf) : buf[j] \in Bytes
      BY <1>1, <2>6, ElementOfSeq
    <3> QED  BY <1>1, <2>6, <3>1, SubSeqProperties
  <2> HIDE DEF b
  <2>10. 1 \in Starts(b)
    <3>1. IsMarker(buf[i]) /\ (i < Len(buf) => buf[i + 1] <= MaxFrame)
      BY <2>4, Zenon DEF Starts
    <3>2. 1 \in DOMAIN b /\ b[1] = buf[i]
      <4>1. 1 \in 1..Len(b) /\ i + 1 - 1 = i /\ DOMAIN b = 1..Len(b)
        BY <1>1, <2>6, <2>9
      <4> QED  BY <2>9, <4>1, Zenon
    <3>3. 1 < Len(b) => i < Len(buf) /\ b[1 + 1] = buf[i + 1]
      <4> SUFFICES ASSUME 1 < Len(b) PROVE i < Len(buf) /\ b[1 + 1] = buf[i + 1]
        BY Zenon
      <4>1. 2 \in 1..Len(b) /\ i < Len(buf) /\ i + 2 - 1 = i + 1 /\ 1 + 1 = 2
        BY <1>1, <2>6, <2>9
      <4>2. b[2] = buf[i + 2 - 1]
        BY <2>9, <4>1, Zenon
      <4> QED  BY <4>1, <4>2, Zenon
    <3> QED  BY <3>1, <3>2, <3>3, Zenon DEF Starts
  <2> QED  BY <1>1, <2>5, <2>6, <2>8, <2>9, <2>10 DEF b, z
<1> QED  BY <1>5, <1>6, Zenon

\* The code of the command in a frame, if it has one.
Code(f) == IF f = <<>> THEN <<>> ELSE <<f[1]>>

(* What a frame takes from the buffer is its own command, whatever comes   *)
(* after it.                                                               *)
LEMMA CutTakesOne ==
  ASSUME Basics, NEW b \in Seq(Bytes), NEW y \in Seq(Bytes), 1 \in Starts(b), HasFrame(b)
  PROVE  /\ FirstFrame(b) \in Seq(Bytes) /\ AfterFrame(b) \in Seq(Bytes)
         /\ Len(AfterFrame(b)) + 2 <= Len(b)
         /\ CommandsIn(b \o y) = Code(FirstFrame(b)) \o CommandsIn(AfterFrame(b) \o y)
<1> DEFINE z == b \o y
<1>1. /\ z \in Seq(Bytes) /\ Len(z) = Len(b) + Len(y) /\ Len(b) \in Nat /\ Len(y) \in Nat
      /\ \A i \in 1..Len(b) : z[i] = b[i]
  BY ConcatProperties
<1> HIDE DEF z
<1>2. MaxFrame \in Nat
  BY CompanionAssumption, Zenon
<1>3. Len(b) > 1 /\ 2 + b[2] <= Len(b)
  BY Zenon DEF HasFrame
<1>4. 1 \in 1..Len(b) /\ 2 \in 1..Len(b)
  BY <1>1, <1>3
<1>5. PICK n \in Nat : n = b[2]
  BY <1>4, ElementOfSeq, BytesAreNumbers, Zenon
<1>6. 2 + n <= Len(b) /\ n <= MaxFrame /\ IsMarker(z[1]) /\ z[2] = n
  <2>1. IsMarker(b[1]) /\ (1 < Len(b) => b[1 + 1] <= MaxFrame)
    BY Zenon DEF Starts
  <2>2. b[1 + 1] = b[2] /\ 1 < Len(b)
    BY <1>1, <1>3
  <2> QED  BY <1>1, <1>3, <1>4, <1>5, <2>1, <2>2, Zenon
<1>7. FirstFrame(b) = SubSeq(b, 3, 2 + n) /\ AfterFrame(b) = SubSeq(b, 3 + n, Len(b))
  BY <1>5, Zenon DEF FirstFrame, AfterFrame
<1>8. /\ FirstFrame(b) \in Seq(Bytes) /\ Len(FirstFrame(b)) = n
      /\ \A i \in 1..n : FirstFrame(b)[i] = b[3 + i - 1]
  <2>1. \A i \in 3..2 + n : b[i] \in Bytes
    BY <1>1, <1>6, ElementOfSeq
  <2>2. 3 \in Int /\ 2 + n \in Int /\ (2 + n) - 3 + 1 = n
    OBVIOUS
  <2> QED  BY <1>7, <2>1, <2>2, SubSeqProperties
<1>9. AfterFrame(b) \in Seq(Bytes) /\ Len(AfterFrame(b)) = Len(b) - 2 - n
  <2>1. \A i \in 3 + n..Len(b) : b[i] \in Bytes
    BY <1>1, <1>6, ElementOfSeq
  <2> QED  BY <1>1, <1>6, <1>7, <2>1, SubSeqProperties
<1>10. Code(FirstFrame(b)) = IF n = 0 THEN <<>> ELSE <<z[3]>>
  <2>1. CASE n = 0
    <3>1. FirstFrame(b) = <<>>
      BY <1>8, <2>1
    <3> QED  BY <2>1, <3>1, Zenon DEF Code
  <2>2. CASE n # 0
    <3>1. 1 \in 1..n /\ 3 \in 1..Len(b) /\ 3 + 1 - 1 = 3
      BY <1>1, <1>6, <2>2
    <3>2. FirstFrame(b) # <<>> /\ FirstFrame(b)[1] = z[3]
      BY <1>1, <1>8, <2>2, <3>1, SMTT(30)
    <3> QED  BY <2>2, <3>2, Zenon DEF Code
  <2> QED  BY <2>1, <2>2, Zenon
<1>11. CommandsIn(z) = Code(FirstFrame(b)) \o Scan(z)[3 + n]
  <2>1. CommandsIn(z) = Scan(z)[1] /\ Scan(z)[1] = ScanFrom(Scan(z), z, 1)
    BY <1>1, ScanStep
  <2>2. /\ ~(1 >= Len(z)) /\ ~(~IsMarker(z[1]) \/ n > MaxFrame) /\ ~(1 + 1 + n > Len(z))
        /\ 1 + 1 = 2 /\ 1 + 2 + n = 3 + n /\ 1 + 2 = 3
    BY <1>1, <1>2, <1>3, <1>6
  <2>3. ScanFrom(Scan(z), z, 1) = (IF n = 0 THEN <<>> ELSE <<z[3]>>) \o Scan(z)[3 + n]
    BY <1>6, <2>2, Zenon DEF ScanFrom
  <2> QED  BY <1>10, <2>1, <2>3, Zenon
<1>12. Scan(z)[3 + n] = CommandsIn(AfterFrame(b) \o y)
  <2>1. 3 + n \in 1..Len(b) + 1 /\ 3 + n \in 1..Len(z) + 1
    BY <1>1, <1>6
  <2>2. Scan(z)[3 + n] = CommandsIn(SubSeq(z, 3 + n, Len(z)))
    BY <1>1, <2>1, ScanSuffix, Zenon
  <2>3. SubSeq(z, 3 + n, Len(z)) = SubSeq(b, 3 + n, Len(b)) \o y
    BY <2>1, SuffixConcat, Zenon DEF z
  <2> QED  BY <1>7, <2>2, <2>3, Zenon
<1>13. Len(AfterFrame(b)) + 2 <= Len(b)
  BY <1>1, <1>9
<1> QED  BY <1>8, <1>9, <1>11, <1>12, <1>13, Zenon DEF z

(* What is left when no frame is there holds no command yet.               *)
LEMMA RestHoldsNone ==
  ASSUME Basics, NEW b \in Seq(Bytes), b = <<>> \/ 1 \in Starts(b), ~HasFrame(b)
  PROVE  CommandsIn(b) = <<>>
<1>1. CommandsIn(b) = Scan(b)[1] /\ Scan(b)[1] = ScanFrom(Scan(b), b, 1) /\ Len(b) \in Nat
  BY ScanStep
<1>2. CASE 1 >= Len(b)
  BY <1>1, <1>2, Zenon DEF ScanFrom
<1>3. CASE ~(1 >= Len(b))
  <2>1. Len(b) > 1 /\ 2 \in 1..Len(b) /\ b # <<>> /\ 1 < Len(b)
    BY <1>1, <1>3
  <2>2. PICK n \in Nat : n = b[2]
    BY <2>1, ElementOfSeq, BytesAreNumbers, Zenon
  <2>3. IsMarker(b[1]) /\ (1 < Len(b) => b[1 + 1] <= MaxFrame)
    BY <2>1, Zenon DEF Starts
  <2>4. 1 + 1 = 2
    OBVIOUS
  <2>5. IsMarker(b[1]) /\ n <= MaxFrame /\ ~(2 + n <= Len(b)) /\ MaxFrame \in Nat
    BY <2>1, <2>2, <2>3, <2>4, CompanionAssumption, Zenon DEF HasFrame
  <2>6. ~(~IsMarker(b[1]) \/ n > MaxFrame) /\ 1 + 1 + n > Len(b)
    BY <1>1, <2>5
  <2> QED  BY <1>1, <1>3, <2>2, <2>4, <2>6, Zenon DEF ScanFrom
<1> QED  BY <1>2, <1>3, Zenon

-----------------------------------------------------------------------------
(***************************************************************************)
(* The stream of a client, and what one more frame does to it.             *)
(***************************************************************************)
Frames == [to : Clients, kind : Kinds, re : Bytes \cup {NoCommand}]

\* The answers after one more half of a frame.
AnswerStep(answers, h) ==
  IF h.half = 1 /\ IsAnswer(h.f) THEN Append(answers, h.f.re) ELSE answers

Answering(upTo, stream, n) ==
  /\ upTo = [i \in 0..n |-> upTo[i]]
  /\ upTo[0] = <<>>
  /\ \A i \in 1..n : upTo[i] = AnswerStep(upTo[i - 1], stream[i])

LEMMA AnswersStep ==
  ASSUME Basics, NEW stream \in Seq(Halves)
  PROVE  \E upTo : /\ Answering(upTo, stream, Len(stream))
                   /\ Answers(stream) = upTo[Len(stream)]
<1> DEFINE T == {n \in Nat : \E f : Answering(f, stream, n)}
<1>1. \E f : Answering(f, stream, 0)
  <2> DEFINE f == [i \in 0..0 |-> <<>>]
  <2>1. Answering(f, stream, 0)
    BY DEF Answering
  <2> HIDE DEF f
  <2> QED  BY <2>1, Zenon
<1>2. ASSUME NEW n \in Nat, NEW f, Answering(f, stream, n)
      PROVE  \E g : Answering(g, stream, n + 1)
  <2> DEFINE g == [i \in 0..n + 1 |-> IF i = n + 1 THEN AnswerStep(f[n], stream[n + 1]) ELSE f[i]]
  <2>1. /\ f[0] = <<>>
        /\ \A i \in 1..n : f[i] = AnswerStep(f[i - 1], stream[i])
    BY <1>2, Zenon DEF Answering
  <2>2. g[0] = <<>>
    BY <2>1
  <2>3. ASSUME NEW i \in 1..n + 1
        PROVE  g[i] = AnswerStep(g[i - 1], stream[i])
    <3>1. g[i - 1] = f[i - 1]
      OBVIOUS
    <3>2. CASE i = n + 1
      BY <3>1, <3>2
    <3>3. CASE i # n + 1
      BY <2>1, <3>1, <3>3
    <3> QED  BY <3>2, <3>3, Zenon
  <2>4. g = [i \in 0..n + 1 |-> g[i]]
    BY Zenon
  <2> HIDE DEF g
  <2>5. Answering(g, stream, n + 1)
    BY <2>2, <2>3, <2>4, Zenon DEF Answering
  <2> QED  BY <2>5, Zenon
<1>3. Len(stream) \in T
  <2>1. T \in SUBSET Nat /\ Len(stream) \in Nat
    OBVIOUS
  <2>2. 0 \in T
    BY <1>1, Zenon
  <2>3. ASSUME NEW n \in T
        PROVE  n + 1 \in T
    BY <1>2
  <2> HIDE DEF T
  <2> QED  BY <2>1, <2>2, <2>3, SetInduction, Zenon
<1>4. PICK f : Answering(f, stream, Len(stream))
  BY <1>3, Zenon
<1> DEFINE Is(h) == h = [i \in 0..Len(stream) |->
                           IF i = 0 THEN <<>> ELSE AnswerStep(h[i - 1], stream[i])]
           a0 == CHOOSE h : Is(h)
<1>5. Is(f)
  BY <1>4 DEF Answering
<1>6. Is(a0)
  BY <1>5, Zenon
<1>7. Answers(stream) = a0[Len(stream)]
  BY Zenon DEF Answers, AnswerStep
<1> HIDE DEF a0
<1>8. Answering(a0, stream, Len(stream))
  BY <1>6 DEF Answering
<1> QED  BY <1>7, <1>8, Zenon

LEMMA AnswersAppend ==
  ASSUME Basics, NEW st \in Seq(Halves), NEW h \in Halves
  PROVE  Answers(Append(st, h)) = AnswerStep(Answers(st), h)
<1> DEFINE n == Len(st)
           new == Append(st, h)
<1>1. n \in Nat /\ new \in Seq(Halves) /\ Len(new) = n + 1 /\ new[n + 1] = h /\ \A i \in 1..n : new[i] = st[i]
  BY AppendProperties
<1>2. PICK f : Answering(f, st, n) /\ Answers(st) = f[n]
  BY AnswersStep, Zenon
<1> HIDE DEF n, new
<1>3. PICK g : Answering(g, new, n + 1) /\ Answers(new) = g[n + 1]
  BY <1>1, AnswersStep, Zenon
<1> DEFINE T == {k \in Nat : k <= n => f[k] = g[k]}
<1>4. 0 \in T
  BY <1>2, <1>3, Zenon DEF Answering
<1>5. ASSUME NEW k \in T
      PROVE  k + 1 \in T
  <2> SUFFICES ASSUME k + 1 <= n
               PROVE  f[k + 1] = g[k + 1]
    OBVIOUS
  <2>1. k \in Nat /\ k + 1 \in 1..n /\ k + 1 \in 1..n + 1 /\ (k + 1) - 1 = k /\ f[k] = g[k]
    BY <1>1, <1>5
  <2>2. f[k + 1] = AnswerStep(f[(k + 1) - 1], st[k + 1])
    BY <1>2, <2>1, Zenon DEF Answering
  <2>3. g[k + 1] = AnswerStep(g[(k + 1) - 1], new[k + 1])
    BY <1>3, <2>1, Zenon DEF Answering
  <2>4. new[k + 1] = st[k + 1]
    BY <1>1, <2>1, Zenon
  <2> QED  BY <2>1, <2>2, <2>3, <2>4, Zenon
<1>6. f[n] = g[n]
  <2>1. T \in SUBSET Nat
    BY Zenon
  <2>2. n \in T
    <3> HIDE DEF T
    <3> QED  BY <1>1, <1>4, <1>5, <2>1, SetInduction, Zenon
  <2> QED  BY <1>1, <2>2
<1>7. g[n + 1] = AnswerStep(g[n], h)
  <2>1. n + 1 \in 1..n + 1 /\ (n + 1) - 1 = n
    BY <1>1
  <2>2. g[n + 1] = AnswerStep(g[(n + 1) - 1], new[n + 1])
    BY <1>3, <2>1, Zenon DEF Answering
  <2> QED  BY <1>1, <2>1, <2>2, Zenon
<1> QED  BY <1>2, <1>3, <1>6, <1>7, Zenon DEF new

LEMMA AnswersTyped ==
  ASSUME Basics, NEW st \in Seq(Halves)
  PROVE  Answers(st) \in Seq(Bytes)
<1>1. PICK f : Answering(f, st, Len(st)) /\ Answers(st) = f[Len(st)]
  BY AnswersStep, Zenon
<1> DEFINE T == {k \in Nat : k <= Len(st) => f[k] \in Seq(Bytes)}
<1>2. 0 \in T
  BY <1>1 DEF Answering
<1>3. ASSUME NEW k \in T
      PROVE  k + 1 \in T
  <2> SUFFICES ASSUME k + 1 <= Len(st)
               PROVE  f[k + 1] \in Seq(Bytes)
    OBVIOUS
  <2>1. k \in Nat /\ k + 1 \in 1..Len(st) /\ (k + 1) - 1 = k /\ f[k] \in Seq(Bytes)
    BY <1>3
  <2>2. f[k + 1] = AnswerStep(f[(k + 1) - 1], st[k + 1])
    BY <1>1, <2>1, Zenon DEF Answering
  <2>3. st[k + 1] \in Halves
    BY <2>1, ElementOfSeq, Zenon
  <2>4. st[k + 1].f.re \in Bytes \cup {NoCommand}
    BY <2>3, Zenon DEF Halves
  <2>5. CASE st[k + 1].half = 1 /\ IsAnswer(st[k + 1].f)
    <3>1. st[k + 1].f.re \in Bytes
      BY <2>4, <2>5, Zenon DEF IsAnswer
    <3>2. f[k + 1] = Append(f[k], st[k + 1].f.re)
      BY <2>1, <2>2, <2>5, Zenon DEF AnswerStep
    <3> QED  BY <2>1, <3>1, <3>2, AppendProperties
  <2>6. CASE ~(st[k + 1].half = 1 /\ IsAnswer(st[k + 1].f))
    BY <2>1, <2>2, <2>6, Zenon DEF AnswerStep
  <2> QED  BY <2>5, <2>6, Zenon
<1>4. T \in SUBSET Nat /\ Len(st) \in Nat
  OBVIOUS
<1>5. Len(st) \in T
  <2> HIDE DEF T
  <2> QED  BY <1>2, <1>3, <1>4, SetInduction, Zenon
<1> QED  BY <1>1, <1>4, <1>5

(* A frame more on the stream.                                             *)
LEMMA OneMoreFrame ==
  ASSUME Basics, NEW st \in Seq(Halves), NEW f \in Frames
  PROVE  /\ FrameResponse(f) \in Seq(Halves) /\ Len(FrameResponse(f)) = 2
         /\ st \o FrameResponse(f) \in Seq(Halves)
         /\ Len(st \o FrameResponse(f)) = Len(st) + 2
         /\ \A i \in 1..Len(st) : (st \o FrameResponse(f))[i] = st[i]
         /\ (st \o FrameResponse(f))[Len(st) + 1] = [f |-> f, half |-> 1]
         /\ (st \o FrameResponse(f))[Len(st) + 2] = [f |-> f, half |-> 2]
         /\ Answers(st \o FrameResponse(f)) =
              IF IsAnswer(f) THEN Append(Answers(st), f.re) ELSE Answers(st)
<1> DEFINE a == [f |-> f, half |-> 1]
           b == [f |-> f, half |-> 2]
           new == st \o FrameResponse(f)
<1>1. a \in Halves /\ b \in Halves
  BY Zenon DEF Halves, Frames
<1>2. a.f = f /\ a.half = 1 /\ b.f = f /\ b.half = 2
  BY Zenon
<1>3. FrameResponse(f) = <<a, b>>
  BY Zenon DEF FrameResponse
<1> HIDE DEF a, b
<1>4. <<a, b>> \in Seq(Halves) /\ Len(<<a, b>>) = 2 /\ <<a, b>>[1] = a /\ <<a, b>>[2] = b
  BY <1>1
<1>5. /\ new \in Seq(Halves) /\ Len(new) = Len(st) + 2 /\ Len(st) \in Nat
      /\ \A i \in 1..Len(st) + 2 : new[i] = IF i <= Len(st) THEN st[i] ELSE <<a, b>>[i - Len(st)]
  BY <1>3, <1>4, ConcatProperties
<1>6. new[Len(st) + 1] = a /\ new[Len(st) + 2] = b /\ \A i \in 1..Len(st) : new[i] = st[i]
  <2>1. /\ Len(st) + 1 \in 1..Len(st) + 2 /\ Len(st) + 2 \in 1..Len(st) + 2
        /\ ~(Len(st) + 1 <= Len(st)) /\ ~(Len(st) + 2 <= Len(st))
        /\ (Len(st) + 1) - Len(st) = 1 /\ (Len(st) + 2) - Len(st) = 2
    BY <1>5
  <2>2. new[Len(st) + 1] = a
    BY <1>4, <1>5, <2>1, Zenon
  <2>3. new[Len(st) + 2] = b
    BY <1>4, <1>5, <2>1, Zenon
  <2>4. \A i \in 1..Len(st) : new[i] = st[i]
    BY <1>5
  <2> QED  BY <2>2, <2>3, <2>4, Zenon
<1>7. new = Append(Append(st, a), b)
  <2> DEFINE u == Append(st, a)
             v == Append(u, b)
  <2>1. u \in Seq(Halves) /\ Len(u) = Len(st) + 1 /\ u[Len(st) + 1] = a /\ \A i \in 1..Len(st) : u[i] = st[i]
    BY <1>1, AppendProperties
  <2> HIDE DEF u
  <2>2. v \in Seq(Halves) /\ Len(v) = Len(u) + 1 /\ v[Len(u) + 1] = b /\ \A i \in 1..Len(u) : v[i] = u[i]
    BY <1>1, <2>1, AppendProperties
  <2> HIDE DEF v, new
  <2>3. ASSUME NEW i \in 1..Len(new) PROVE new[i] = v[i]
    <3>1. i \in 1..Len(st) \/ i = Len(st) + 1 \/ i = Len(st) + 2
      BY <1>5
    <3>2. CASE i \in 1..Len(st)
      BY <1>5, <1>6, <2>1, <2>2, <3>2
    <3>3. CASE i = Len(st) + 1
      BY <1>5, <1>6, <2>1, <2>2, <3>3
    <3>4. CASE i = Len(st) + 2
      <4>1. Len(st) + 2 = Len(u) + 1
        BY <1>5, <2>1
      <4> QED  BY <1>6, <2>2, <3>4, <4>1, Zenon
    <3> QED  BY <3>1, <3>2, <3>3, <3>4, Zenon
  <2>4. Len(new) = Len(v)
    BY <1>5, <2>1, <2>2
  <2>5. new = v
    BY <1>5, <2>2, <2>3, <2>4, SeqEqual, Zenon
  <2> QED  BY <2>5, Zenon DEF u, v
<1>8. Answers(new) = IF IsAnswer(f) THEN Append(Answers(st), f.re) ELSE Answers(st)
  <2>1. Append(st, a) \in Seq(Halves)
    BY <1>1, AppendProperties, Zenon
  <2>2. Answers(new) = AnswerStep(AnswerStep(Answers(st), a), b)
    BY <1>1, <1>7, <2>1, AnswersAppend, Zenon
  <2>3. \A x : AnswerStep(x, b) = x
    BY <1>2 DEF AnswerStep
  <2>4. Answers(new) = AnswerStep(Answers(st), a)
    BY <2>2, <2>3, Zenon
  <2> HIDE DEF new
  <2> QED  BY <1>2, <2>4, Zenon DEF AnswerStep
<1> QED  BY <1>3, <1>4, <1>5, <1>6, <1>8, Zenon DEF a, b

-----------------------------------------------------------------------------
(***************************************************************************)
(* The properties as they are about a client c and its stream st.          *)
(***************************************************************************)
Own(c, st) ==
  /\ Len(st) % 2 = 0
  /\ \A i \in DOMAIN st : /\ st[i].f.to = c
                          /\ st[i].half = (IF i % 2 = 1 THEN 1 ELSE 2)
                          /\ i % 2 = 1 => st[i + 1].f = st[i].f

AfterStart(st) ==
  \A i \in DOMAIN st : st[i].f.re = NoCommand => \E j \in 1..i - 1 : st[j].f.kind = "self_info"

HasStarted(st) == \E i \in DOMAIN st : st[i].f.kind = "self_info"

Told(st) ==
  \E i \in DOMAIN st : /\ st[i].f.kind = "msg_waiting"
                       /\ \A j \in i..Len(st) : st[j].f.kind # "no_more_messages"

(* What one more frame does to each of them.                               *)
LEMMA FrameAdds ==
  ASSUME Basics, NEW c, NEW st \in Seq(Halves), NEW f \in Frames, f.to = c,
         NEW new, new = st \o FrameResponse(f)
  PROVE  /\ new \in Seq(Halves)
         /\ Own(c, st) => Own(c, new)
         /\ AfterStart(st) /\ (f.re = NoCommand => HasStarted(st)) => AfterStart(new)
         /\ HasStarted(st) \/ f.kind = "self_info" => HasStarted(new)
         /\ (Told(st) /\ f.kind # "no_more_messages") \/ f.kind = "msg_waiting" => Told(new)
<1>1. /\ new \in Seq(Halves) /\ Len(new) = Len(st) + 2 /\ Len(st) \in Nat
      /\ DOMAIN new = 1..Len(new) /\ DOMAIN st = 1..Len(st)
      /\ \A i \in 1..Len(st) : new[i] = st[i]
  <2>1. /\ new \in Seq(Halves) /\ Len(new) = Len(st) + 2
        /\ \A i \in 1..Len(st) : new[i] = st[i]
    BY OneMoreFrame, Zenon
  <2> QED  BY <2>1, LenProperties, Zenon
<1>2. PICK n \in Nat : n = Len(st)
  BY <1>1, Zenon
<1>3. /\ new[n + 1].f = f /\ new[n + 1].half = 1
      /\ new[n + 2].f = f /\ new[n + 2].half = 2
  <2>1. new[n + 1] = [f |-> f, half |-> 1] /\ new[n + 2] = [f |-> f, half |-> 2]
    BY <1>2, OneMoreFrame, Zenon
  <2> QED  BY <2>1
<1>4. DOMAIN new = 1..n + 2 /\ DOMAIN st = 1..n /\ Len(new) = n + 2 /\ Len(st) = n
  BY <1>1, <1>2, Zenon
<1>5. \A i \in 1..n : new[i] = st[i]
  BY <1>1, <1>2, Zenon
<1>6. ASSUME NEW i \in 1..n + 2
      PROVE  i \in 1..n \/ i = n + 1 \/ i = n + 2
  OBVIOUS
<1>7. ASSUME Own(c, st)
      PROVE  Own(c, new)
  <2>1. n % 2 = 0
    BY <1>4, <1>7, Zenon DEF Own
  <2>2. (n + 1) % 2 = 1 /\ (n + 2) % 2 = 0
    BY <2>1
  <2>3. ASSUME NEW i \in 1..n
        PROVE  /\ new[i].f.to = c
               /\ new[i].half = (IF i % 2 = 1 THEN 1 ELSE 2)
               /\ i % 2 = 1 => new[i + 1].f = new[i].f
    <3>1. /\ st[i].f.to = c
          /\ st[i].half = (IF i % 2 = 1 THEN 1 ELSE 2)
          /\ i % 2 = 1 => st[i + 1].f = st[i].f
      BY <1>4, <1>7, Zenon DEF Own
    <3>2. i % 2 = 1 => i + 1 \in 1..n
      BY <2>1
    <3>3. new[i] = st[i] /\ (i % 2 = 1 => new[i + 1] = st[i + 1])
      BY <1>5, <3>2, Zenon
    <3> QED  BY <3>1, <3>3, Zenon
  <2>4. /\ new[n + 1].f.to = c /\ new[n + 1].half = (IF (n + 1) % 2 = 1 THEN 1 ELSE 2)
        /\ new[(n + 1) + 1].f = new[n + 1].f
    <3>1. (n + 1) + 1 = n + 2
      OBVIOUS
    <3> QED  BY <1>3, <2>2, <3>1, Zenon
  <2>5. /\ new[n + 2].f.to = c /\ new[n + 2].half = (IF (n + 2) % 2 = 1 THEN 1 ELSE 2)
        /\ (n + 2) % 2 # 1
    BY <1>3, <2>2
  <2>6. ASSUME NEW i \in DOMAIN new
        PROVE  /\ new[i].f.to = c
               /\ new[i].half = (IF i % 2 = 1 THEN 1 ELSE 2)
               /\ i % 2 = 1 => new[i + 1].f = new[i].f
    <3>1. i \in 1..n \/ i = n + 1 \/ i = n + 2
      BY <1>4, <1>6, Zenon
    <3> QED  BY <2>3, <2>4, <2>5, <3>1, Zenon
  <2>7. Len(new) % 2 = 0
    BY <1>4, <2>2, Zenon
  <2> QED  BY <2>6, <2>7, Zenon DEF Own
<1>8. ASSUME AfterStart(st), f.re = NoCommand => HasStarted(st)
      PROVE  AfterStart(new)
  <2> SUFFICES ASSUME NEW i \in DOMAIN new, new[i].f.re = NoCommand
               PROVE  \E j \in 1..i - 1 : new[j].f.kind = "self_info"
    BY Zenon DEF AfterStart
  <2>1. CASE i \in 1..n
    <3>1. PICK j \in 1..i - 1 : st[j].f.kind = "self_info"
      BY <1>4, <1>5, <1>8, <2>1, Zenon DEF AfterStart
    <3>2. j \in 1..n
      BY <2>1, <3>1
    <3> QED  BY <1>5, <3>1, <3>2, Zenon
  <2>2. CASE i = n + 1 \/ i = n + 2
    <3>1. HasStarted(st)
      BY <1>3, <1>8, <2>2, Zenon
    <3>2. PICK j \in 1..n : st[j].f.kind = "self_info"
      BY <1>4, <3>1, Zenon DEF HasStarted
    <3>3. j \in 1..i - 1
      BY <2>2, <3>2
    <3> QED  BY <1>5, <3>2, <3>3, Zenon
  <2> QED  BY <1>4, <1>6, <2>1, <2>2, Zenon
<1>9. ASSUME HasStarted(st) \/ f.kind = "self_info"
      PROVE  HasStarted(new)
  <2>1. CASE HasStarted(st)
    <3>1. PICK j \in 1..n : st[j].f.kind = "self_info"
      BY <1>4, <2>1, Zenon DEF HasStarted
    <3>2. j \in DOMAIN new
      BY <1>4, <3>1
    <3> QED  BY <1>5, <3>1, <3>2, Zenon DEF HasStarted
  <2>2. CASE f.kind = "self_info"
    <3>1. n + 1 \in DOMAIN new
      BY <1>4
    <3> QED  BY <1>3, <2>2, <3>1, Zenon DEF HasStarted
  <2> QED  BY <1>9, <2>1, <2>2, Zenon
<1>10. ASSUME (Told(st) /\ f.kind # "no_more_messages") \/ f.kind = "msg_waiting"
       PROVE  Told(new)
  <2>1. CASE Told(st) /\ f.kind # "no_more_messages"
    <3>1. PICK i \in 1..n : /\ st[i].f.kind = "msg_waiting"
                            /\ \A j \in i..n : st[j].f.kind # "no_more_messages"
      BY <1>4, <2>1, Zenon DEF Told
    <3>2. ASSUME NEW j \in i..n + 2
          PROVE  new[j].f.kind # "no_more_messages"
      <4>1. (j \in i..n /\ j \in 1..n) \/ j = n + 1 \/ j = n + 2
        <5>1. i \in Nat /\ i >= 1 /\ j \in Int /\ i <= j /\ j <= n + 2
          OBVIOUS
        <5> QED  BY <5>1
      <4> QED  BY <1>3, <1>5, <2>1, <3>1, <4>1, Zenon
    <3>3. i \in DOMAIN new /\ new[i].f.kind = "msg_waiting"
      BY <1>4, <1>5, <3>1
    <3> QED  BY <1>4, <3>2, <3>3, Zenon DEF Told
  <2>2. CASE f.kind = "msg_waiting"
    <3>1. ASSUME NEW j \in n + 1..n + 2
          PROVE  new[j].f.kind # "no_more_messages"
      <4>1. j = n + 1 \/ j = n + 2
        OBVIOUS
      <4> QED  BY <1>3, <2>2, <4>1, Zenon
    <3>2. n + 1 \in DOMAIN new /\ new[n + 1].f.kind = "msg_waiting"
      BY <1>3, <1>4, <2>2
    <3> QED  BY <1>4, <3>1, <3>2, Zenon DEF Told
  <2> QED  BY <1>10, <2>1, <2>2, Zenon
<1> QED  BY <1>1, <1>7, <1>8, <1>9, <1>10, Zenon

-----------------------------------------------------------------------------
(***************************************************************************)
(* The daemon t between two calls, and what the server's output does to    *)
(* it.                                                                     *)
(***************************************************************************)
Tables ==
  {f \in UNION {[D -> BOOLEAN] : D \in SUBSET Nat} :
     IsFiniteSet(DOMAIN f) /\ Cardinality(DOMAIN f) <= MaxContacts}

Sessions ==
  [client : Clients \cup {None}, reader : Seq(Bytes), out : Seq(Halves),
   events : {"none", "in", "inout"}, started : BOOLEAN, inbox : 0..InboxLimit,
   contacts : Tables, channels : SUBSET (0..MaxChannels - 1), clock : BOOLEAN,
   dirty : BOOLEAN, healthy : BOOLEAN]

Daemons == [s : Sessions, line : [Clients -> Seq(Halves)]]

\* It has its type, and neither its buffer nor a socket holds too much.
Fits(t) ==
  /\ t \in Daemons /\ drained \in [Clients -> Nat]
  /\ Len(t.s.out) <= MaxOutbound
  /\ \A c \in Clients : Len(t.line[c]) - drained[c] \in 0..Room

StreamOf(t) == t.line[t.s.client] \o t.s.out

\* What no output changes: the session's own state, and the other clients' sockets.
Keeps(t, u) ==
  /\ u.s.started = t.s.started /\ u.s.inbox = t.s.inbox
  /\ u.s.contacts = t.s.contacts /\ u.s.channels = t.s.channels
  /\ \A c \in Clients : c # t.s.client => u.line[c] = t.line[c]

\* The client is dropped, or its stream grows by more.
Grows(t, u, more) ==
  /\ Fits(u) /\ Keeps(t, u)
  /\ u.s.client # None => /\ u.s.client = t.s.client /\ u.s.reader = t.s.reader
                          /\ StreamOf(u) = StreamOf(t) \o more

LEMMA ClientsAreNumbers ==
  Clients \subseteq Nat \ {0} /\ None \notin Clients
  BY CompanionAssumption, Zenon DEF None

LEMMA StreamTyped ==
  ASSUME NEW t \in Daemons, t.s.client # None
  PROVE  /\ t.s.client \in Clients /\ t.line[t.s.client] \in Seq(Halves) /\ t.s.out \in Seq(Halves)
         /\ StreamOf(t) \in Seq(Halves)
<1>1. t.s \in Sessions /\ t.line \in [Clients -> Seq(Halves)]
  BY Zenon DEF Daemons
<1>2. t.s.client \in Clients /\ t.s.out \in Seq(Halves)
  BY <1>1, Zenon DEF Sessions
<1>3. t.line[t.s.client] \in Seq(Halves)
  BY <1>1, <1>2, Zenon
<1> QED  BY <1>2, <1>3, ConcatProperties, Zenon DEF StreamOf

LEMMA DropClientResult ==
  ASSUME NEW t, Fits(t)
  PROVE  \A more : Grows(t, DropClient(t), more) /\ DropClient(t).s.client = None
<1> DEFINE u == DropClient(t)
<1>1. t \in Daemons /\ t.s \in Sessions /\ t.line \in [Clients -> Seq(Halves)]
  BY Zenon DEF Fits, Daemons
<1>2. u = [t EXCEPT !.s = [t.s EXCEPT !.client = None, !.reader = <<>>, !.out = <<>>, !.events = "none"]]
  BY <1>1, Zenon DEF DropClient, Emptied, Daemons, Sessions
<1> HIDE DEF u
<1>3. u.s = [t.s EXCEPT !.client = None, !.reader = <<>>, !.out = <<>>, !.events = "none"] /\ u.line = t.line
  BY <1>1, <1>2, Zenon DEF Daemons
<1>4. /\ u.s \in Sessions /\ u.s.client = None /\ u.s.out = <<>>
      /\ u.s.started = t.s.started /\ u.s.inbox = t.s.inbox
      /\ u.s.contacts = t.s.contacts /\ u.s.channels = t.s.channels
  <2>1. PICK e : e = <<>> /\ e \in Seq(Bytes) /\ e \in Seq(Halves)
    BY EmptySeq, Zenon
  <2>2. u.s = [t.s EXCEPT !.client = None, !.reader = e, !.out = e, !.events = "none"]
    BY <1>3, <2>1, Zenon
  <2>3. u.s \in Sessions /\ u.s.client = None /\ u.s.out = e
    BY <1>1, <2>1, <2>2, Zenon DEF Sessions
  <2>4. /\ u.s.started = t.s.started /\ u.s.inbox = t.s.inbox
        /\ u.s.contacts = t.s.contacts /\ u.s.channels = t.s.channels
    BY <1>1, <2>2, Zenon DEF Sessions
  <2> QED  BY <2>1, <2>3, <2>4, Zenon
<1>5. u = [s |-> u.s, line |-> u.line]
  BY <1>1, <1>2, Zenon DEF Daemons
<1>6. u \in Daemons
  BY <1>1, <1>3, <1>4, <1>5, Zenon DEF Daemons
<1>7. Len(u.s.out) <= MaxOutbound
  BY <1>4, CompanionAssumption
<1>8. Fits(u)
  BY <1>3, <1>6, <1>7, Zenon DEF Fits
<1>9. Keeps(t, u)
  BY <1>3, <1>4, Zenon DEF Keeps
<1> QED  BY <1>4, <1>8, <1>9, Zenon DEF Grows, u

LEMMA FlushResult ==
  ASSUME NEW t, Fits(t)
  PROVE  Grows(t, Flush(t), <<>>)
<1> DEFINE c == t.s.client
           out == t.s.out
           sp == Space(t)
           n == IF sp < Len(out) THEN sp ELSE Len(out)
           rest == SubSeq(out, n + 1, Len(out))
           u == [t EXCEPT !.line[c] = @ \o SubSeq(out, 1, n), !.s.out = rest, !.s.events = Watched(rest)]
<1>1. t \in Daemons /\ t.s \in Sessions /\ t.line \in [Clients -> Seq(Halves)] /\ out \in Seq(Halves)
  BY Zenon DEF Fits, Daemons, Sessions
<1>2. CASE c = None
  <2>1. Flush(t) = t
    BY <1>2, Zenon DEF Flush
  <2> QED  BY <1>2, <2>1, Zenon DEF Grows, Keeps
<1>3. CASE c # None /\ out # <<>> /\ c \notin alive
  <2>1. Flush(t) = DropClient(t)
    BY <1>3, Zenon DEF Flush
  <2> QED  BY <2>1, DropClientResult, Zenon
<1>4. CASE c # None /\ ~(out # <<>> /\ c \notin alive)
  <2>1. Flush(t) = u
    BY <1>4, Zenon DEF Flush
  <2>2. /\ c \in Clients /\ t.line[c] \in Seq(Halves) /\ StreamOf(t) = t.line[c] \o out
        /\ StreamOf(t) \in Seq(Halves)
    BY <1>1, <1>4, StreamTyped, Zenon DEF StreamOf
  <2>3. /\ Len(t.line[c]) - drained[c] \in 0..Room /\ drained[c] \in Nat /\ Room \in Nat
        /\ Len(t.line[c]) \in Nat /\ Len(out) \in Nat /\ Len(out) <= MaxOutbound /\ MaxOutbound \in Nat
    BY <1>1, <2>2, CompanionAssumption, LenProperties, Zenon DEF Fits
  <2>4. PICK l \in Nat, d \in Nat, k \in Nat : l = Len(t.line[c]) /\ d = drained[c] /\ k = Len(out)
    BY <2>3, Zenon
  <2>5. sp = Room - (l - d)
    BY <2>4, Zenon DEF Space
  <2>6. n \in 0..k /\ (l + n) - d \in 0..Room
    <3>1. n = IF sp < k THEN sp ELSE k
      BY <2>4, Zenon
    <3>2. l - d \in 0..Room /\ Room \in Nat
      BY <2>3, <2>4, Zenon
    <3> HIDE DEF n, sp
    <3> QED  BY <2>5, <3>1, <3>2
  <2> DEFINE one == SubSeq(out, 1, n)
             first == t.line[c] \o one
  <2> HIDE DEF n, sp
  <2>7. rest \in Seq(Halves) /\ Len(rest) = k - n /\ one \in Seq(Halves) /\ Len(one) = n
    <3>1. \A i \in 1..k : out[i] \in Halves
      BY <1>1, <2>4, ElementOfSeq, Zenon
    <3>2. (\A i \in n + 1..k : out[i] \in Halves) /\ \A i \in 1..n : out[i] \in Halves
      BY <2>6, <3>1
    <3>3. n + 1 \in Int /\ k \in Int /\ n \in Int /\ 1 \in Int
      BY <2>4, <2>6
    <3>4. rest \in Seq(Halves) /\ Len(rest) = IF n + 1 <= k THEN k - (n + 1) + 1 ELSE 0
      BY <2>4, <3>2, <3>3, SubSeqProperties
    <3>5. one \in Seq(Halves) /\ Len(one) = IF 1 <= n THEN n - 1 + 1 ELSE 0
      BY <3>2, <3>3, SubSeqProperties
    <3> QED  BY <2>6, <3>4, <3>5
  <2>8. one \o rest = out
    <3>1. /\ 1 \in 1..Len(out) + 1 /\ n \in 1 - 1..Len(out) /\ Len(out) \in n..Len(out)
      BY <2>4, <2>6
    <3>2. one \o rest = SubSeq(out, 1, Len(out))
      BY <1>1, <3>1, ConcatAdjacentSubSeq, Zenon
    <3> QED  BY <1>1, <3>2, SubSeqFull, Zenon
  <2>9. first \in Seq(Halves) /\ Len(first) = l + n
    BY <2>2, <2>4, <2>7, ConcatProperties, SMTT(30)
  <2> HIDE DEF rest, one
  <2>10. u = [t EXCEPT !.line = [t.line EXCEPT ![c] = first],
                       !.s = [t.s EXCEPT !.out = rest, !.events = Watched(rest)]]
    BY <1>1, <2>2, Zenon DEF Daemons, Sessions, one
  <2> HIDE DEF u, first
  <2>11. u.line = [t.line EXCEPT ![c] = first] /\ u.s = [t.s EXCEPT !.out = rest, !.events = Watched(rest)]
    BY <1>1, <2>10, Zenon DEF Daemons
  <2>12. /\ u.s \in Sessions /\ u.s.out = rest /\ u.s.client = c /\ u.s.reader = t.s.reader
         /\ u.s.started = t.s.started /\ u.s.inbox = t.s.inbox
         /\ u.s.contacts = t.s.contacts /\ u.s.channels = t.s.channels
    <3>1. Watched(rest) \in {"none", "in", "inout"}
      BY Zenon DEF Watched
    <3> QED  BY <1>1, <2>7, <2>11, <3>1, Zenon DEF Sessions
  <2>13. u \in Daemons
    <3>1. u = [s |-> u.s, line |-> u.line]
      BY <1>1, <2>10, Zenon DEF Daemons
    <3>2. u.line \in [Clients -> Seq(Halves)]
      BY <1>1, <2>9, <2>11, Zenon
    <3> QED  BY <2>12, <3>1, <3>2, Zenon DEF Daemons
  <2>14. u.line[c] = first /\ \A b \in Clients : b # c => u.line[b] = t.line[b]
    BY <1>1, <2>2, <2>11, Zenon
  <2>15. \A b \in Clients : Len(u.line[b]) - drained[b] \in 0..Room
    <3>1. Len(u.line[c]) - drained[c] \in 0..Room
      <4>1. Len(u.line[c]) = l + n /\ drained[c] = d
        BY <2>4, <2>9, <2>14, Zenon
      <4> QED  BY <2>6, <4>1, Zenon
    <3> QED  BY <2>14, <3>1, Zenon DEF Fits
  <2>16. Len(u.s.out) <= MaxOutbound
    BY <2>3, <2>4, <2>6, <2>7, <2>12
  <2>17. Fits(u)
    BY <2>13, <2>15, <2>16, Zenon DEF Fits
  <2>18. Keeps(t, u)
    BY <2>12, <2>14, Zenon DEF Keeps
  <2>19. StreamOf(u) = StreamOf(t) \o <<>>
    <3>1. StreamOf(u) = first \o rest
      BY <2>12, <2>14, Zenon DEF StreamOf
    <3>2. first \o rest = t.line[c] \o (one \o rest)
      <4>1. (t.line[c] \o one) \o rest = t.line[c] \o (one \o rest)
        <5>1. PICK a \in Seq(Halves) : a = t.line[c]
          BY <2>2, Zenon
        <5>2. one \in Seq(Halves) /\ rest \in Seq(Halves)
          BY <2>7, Zenon
        <5>3. (a \o one) \o rest = a \o (one \o rest)
          BY <5>2, Associate
        <5> QED  BY <5>1, <5>3, Zenon
      <4> QED  BY <4>1, Zenon DEF first
    <3>3. StreamOf(t) \o <<>> = StreamOf(t)
      BY <2>2, ConcatEmptySeq, Zenon
    <3> QED  BY <2>2, <2>8, <3>1, <3>2, <3>3, Zenon
  <2> QED  BY <2>1, <2>12, <2>17, <2>18, <2>19, Zenon DEF Grows
<1> QED  BY <1>2, <1>3, <1>4, Zenon

LEMMA SetSession ==
  ASSUME NEW t \in Daemons, NEW x \in Sessions
  PROVE  /\ [t EXCEPT !.s = x] \in Daemons
         /\ [t EXCEPT !.s = x].s = x /\ [t EXCEPT !.s = x].line = t.line
  BY Zenon DEF Daemons

LEMMA GrowsTwice ==
  ASSUME NEW t, NEW u, NEW v, NEW a \in Seq(Halves), NEW b \in Seq(Halves),
         Fits(t), Grows(t, u, a), Grows(u, v, b)
  PROVE  Grows(t, v, a \o b)
<1>1. Fits(v) /\ Keeps(t, u) /\ Keeps(u, v)
  BY Zenon DEF Grows
<1>2. CASE u.s.client = None
  <2>1. v.s.client = None
    BY <1>2, Zenon DEF Grows
  <2>2. \A c \in Clients : c # u.s.client
    BY <1>2, ClientsAreNumbers, Zenon
  <2>3. Keeps(t, v)
    BY <1>1, <2>2, Zenon DEF Keeps
  <2> QED  BY <1>1, <2>1, <2>3, Zenon DEF Grows
<1>3. CASE u.s.client # None
  <2>1. u.s.client = t.s.client /\ u.s.reader = t.s.reader /\ StreamOf(u) = StreamOf(t) \o a
    BY <1>3, Zenon DEF Grows
  <2>2. Keeps(t, v)
    BY <1>1, <2>1, Zenon DEF Keeps
  <2>3. StreamOf(t) \in Seq(Halves)
    BY <1>3, <2>1, StreamTyped, Zenon DEF Fits
  <2>4. (StreamOf(t) \o a) \o b = StreamOf(t) \o (a \o b)
    BY <2>3, Associate
  <2>5. v.s.client # None => /\ v.s.client = t.s.client /\ v.s.reader = t.s.reader
                             /\ StreamOf(v) = StreamOf(t) \o (a \o b)
    BY <2>1, <2>4, Zenon DEF Grows
  <2> QED  BY <1>1, <2>2, <2>5, Zenon DEF Grows
<1> QED  BY <1>2, <1>3, Zenon

LEMMA ServerSendResult ==
  ASSUME Basics, NEW t, Fits(t), NEW kind \in Kinds, NEW re \in Bytes \cup {NoCommand}
  PROVE  /\ t.s.client # None => Frame(t.s.client, kind, re) \in Frames
         /\ Grows(t, ServerSend(t, kind, re), FrameResponse(Frame(t.s.client, kind, re)))
<1> DEFINE f == Frame(t.s.client, kind, re)
           framed == FrameResponse(f)
           x == [t.s EXCEPT !.out = @ \o framed]
           u == [t EXCEPT !.s = x]
<1>1. t \in Daemons /\ t.s \in Sessions /\ t.s.out \in Seq(Halves)
  BY Zenon DEF Fits, Daemons, Sessions
<1>2. CASE t.s.client = None
  <2>1. ServerSend(t, kind, re) = t
    BY <1>2, Zenon DEF ServerSend
  <2> QED  BY <1>2, <2>1, Zenon DEF Grows, Keeps
<1>3. ASSUME t.s.client # None
      PROVE  f \in Frames
  BY <1>1, <1>3, StreamTyped, Zenon DEF Frames, Frame
<1>4. CASE t.s.client # None /\ ~HasCapacity(Len(t.s.out), Len(framed))
  <2>1. ServerSend(t, kind, re) = DropClient(t)
    BY <1>4, Zenon DEF ServerSend
  <2> QED  BY <1>3, <1>4, <2>1, DropClientResult, Zenon
<1>5. CASE t.s.client # None /\ HasCapacity(Len(t.s.out), Len(framed))
  <2>1. ServerSend(t, kind, re) = Flush([t EXCEPT !.s.out = @ \o framed])
    BY <1>5, Zenon DEF ServerSend
  <2>2. [t EXCEPT !.s.out = @ \o framed] = u
    BY <1>1, Zenon DEF Daemons, Sessions
  <2>3. framed \in Seq(Halves) /\ Len(framed) = 2
    BY <1>1, <1>3, <1>5, OneMoreFrame, Zenon
  <2>4. Len(t.s.out) \in Nat /\ MaxOutbound \in Nat
    BY <1>1, CompanionAssumption
  <2>5. Len(t.s.out) + 2 <= MaxOutbound
    BY <1>5, <2>3, <2>4 DEF HasCapacity
  <2> HIDE DEF framed, f
  <2>6. t.s.out \o framed \in Seq(Halves) /\ Len(t.s.out \o framed) = Len(t.s.out) + 2
    <3>1. PICK o \in Seq(Halves), fr \in Seq(Halves) : o = t.s.out /\ fr = framed
      BY <1>1, <2>3, Zenon
    <3>2. o \o fr \in Seq(Halves) /\ Len(o \o fr) = Len(o) + Len(fr)
      BY ConcatProperties, Zenon
    <3> QED  BY <2>3, <3>1, <3>2, Zenon
  <2>7. /\ x \in Sessions /\ x.out = t.s.out \o framed /\ x.client = t.s.client
        /\ x.reader = t.s.reader /\ x.started = t.s.started /\ x.inbox = t.s.inbox
        /\ x.contacts = t.s.contacts /\ x.channels = t.s.channels
    <3>1. PICK y \in Seq(Halves) : y = t.s.out \o framed
      BY <2>6, Zenon
    <3>2. x = [t.s EXCEPT !.out = y]
      BY <3>1, Zenon
    <3> QED  BY <1>1, <3>1, <3>2, Zenon DEF Sessions
  <2> HIDE DEF x
  <2>8. u \in Daemons /\ u.s = x /\ u.line = t.line
    BY <1>1, <2>7, SetSession, Zenon
  <2> HIDE DEF u
  <2>9. Fits(u) /\ Keeps(t, u)
    BY <2>5, <2>6, <2>7, <2>8, Zenon DEF Fits, Keeps
  <2>10. StreamOf(u) = StreamOf(t) \o framed
    <3>1. StreamOf(u) = t.line[t.s.client] \o (t.s.out \o framed)
      BY <2>7, <2>8, Zenon DEF StreamOf
    <3>2. PICK l \in Seq(Halves) : l = t.line[t.s.client]
      BY <1>1, <1>5, StreamTyped, Zenon
    <3>3. PICK o \in Seq(Halves), fr \in Seq(Halves) : o = t.s.out /\ fr = framed
      BY <1>1, <2>3, Zenon
    <3>4. (l \o o) \o fr = l \o (o \o fr)
      BY Associate
    <3> QED  BY <3>1, <3>2, <3>3, <3>4, Zenon DEF StreamOf
  <2>11. Grows(t, u, framed)
    BY <2>7, <2>8, <2>9, <2>10, Zenon DEF Grows
  <2>12. Grows(u, Flush(u), <<>>)
    BY <2>9, FlushResult, Zenon
  <2>13. framed \o <<>> = framed /\ <<>> \in Seq(Halves)
    BY <2>3, ConcatEmptySeq, EmptySeq, Zenon
  <2>14. Grows(t, Flush(u), framed)
    BY <2>3, <2>11, <2>12, <2>13, GrowsTwice, Zenon
  <2> QED  BY <1>3, <1>5, <2>1, <2>2, <2>14, Zenon DEF framed, f
<1> QED  BY <1>2, <1>3, <1>4, <1>5, Zenon

(* One frame that is sent: the client is dropped, or has all of it.        *)
LEMMA SendSays ==
  ASSUME Basics, NEW t, Fits(t), NEW kind \in Kinds, NEW re \in Bytes \cup {NoCommand},
         NEW u, u = ServerSend(t, kind, re)
  PROVE  /\ Fits(u) /\ Keeps(t, u)
         /\ u.s.client # None =>
              /\ u.s.client = t.s.client /\ u.s.reader = t.s.reader
              /\ StreamOf(t) \in Seq(Halves) /\ StreamOf(u) \in Seq(Halves)
              /\ Own(t.s.client, StreamOf(t)) => Own(t.s.client, StreamOf(u))
              /\ AfterStart(StreamOf(t)) /\ (re = NoCommand => HasStarted(StreamOf(t)))
                   => AfterStart(StreamOf(u))
              /\ HasStarted(StreamOf(t)) \/ kind = "self_info" => HasStarted(StreamOf(u))
              /\ (Told(StreamOf(t)) /\ kind # "no_more_messages") \/ kind = "msg_waiting"
                   => Told(StreamOf(u))
              /\ Answers(StreamOf(u)) =
                   IF re # NoCommand /\ ~(re = 4 /\ kind \in {"contact", "end_of_contacts"})
                   THEN Append(Answers(StreamOf(t)), re) ELSE Answers(StreamOf(t))
<1> DEFINE f == Frame(t.s.client, kind, re)
<1>1. Grows(t, u, FrameResponse(f))
  BY ServerSendResult, Zenon
<1>2. Fits(u) /\ Keeps(t, u)
  BY <1>1, Zenon DEF Grows
<1>3. SUFFICES ASSUME u.s.client # None
      PROVE  /\ u.s.client = t.s.client /\ u.s.reader = t.s.reader
             /\ StreamOf(t) \in Seq(Halves) /\ StreamOf(u) \in Seq(Halves)
             /\ Own(t.s.client, StreamOf(t)) => Own(t.s.client, StreamOf(u))
             /\ AfterStart(StreamOf(t)) /\ (re = NoCommand => HasStarted(StreamOf(t)))
                  => AfterStart(StreamOf(u))
             /\ HasStarted(StreamOf(t)) \/ kind = "self_info" => HasStarted(StreamOf(u))
             /\ (Told(StreamOf(t)) /\ kind # "no_more_messages") \/ kind = "msg_waiting"
                  => Told(StreamOf(u))
             /\ Answers(StreamOf(u)) =
                  IF re # NoCommand /\ ~(re = 4 /\ kind \in {"contact", "end_of_contacts"})
                  THEN Append(Answers(StreamOf(t)), re) ELSE Answers(StreamOf(t))
  BY <1>2, Zenon
<1>4. u.s.client = t.s.client /\ u.s.reader = t.s.reader /\ StreamOf(u) = StreamOf(t) \o FrameResponse(f)
  BY <1>1, <1>3, Zenon DEF Grows
<1>5. f \in Frames
  BY <1>3, <1>4, ServerSendResult, Zenon
<1>6. f.to = t.s.client /\ f.kind = kind /\ f.re = re
  BY Zenon DEF Frame
<1> HIDE DEF f
<1>7. PICK st \in Seq(Halves) : st = StreamOf(t)
  BY <1>3, <1>4, StreamTyped, Zenon DEF Fits
<1>8. PICK new : new = st \o FrameResponse(f)
  BY Zenon
<1>9. PICK c : c = t.s.client
  BY Zenon
<1>10. /\ new \in Seq(Halves)
       /\ Own(c, st) => Own(c, new)
       /\ AfterStart(st) /\ (f.re = NoCommand => HasStarted(st)) => AfterStart(new)
       /\ HasStarted(st) \/ f.kind = "self_info" => HasStarted(new)
       /\ (Told(st) /\ f.kind # "no_more_messages") \/ f.kind = "msg_waiting" => Told(new)
  <2>1. f.to = c
    BY <1>6, <1>9, Zenon
  <2> QED  BY <1>5, <1>8, <2>1, FrameAdds, Zenon
<1>11. Answers(new) = IF IsAnswer(f) THEN Append(Answers(st), f.re) ELSE Answers(st)
  BY <1>5, <1>8, OneMoreFrame, Zenon
<1>12. IsAnswer(f) <=> re # NoCommand /\ ~(re = 4 /\ kind \in {"contact", "end_of_contacts"})
  BY <1>6, Zenon DEF IsAnswer
<1>13. StreamOf(u) = new
  BY <1>4, <1>7, <1>8, Zenon
<1> QED  BY <1>4, <1>6, <1>7, <1>9, <1>10, <1>11, <1>12, <1>13, Zenon

\* The first of a command's replies is the one that counts as its answer.
OneAnswer(kinds, re) ==
  \A j \in 1..Len(kinds) : (re = 4 /\ kinds[j] \in {"contact", "end_of_contacts"}) <=> j # 1

\* What the stream st has become after the first i replies.
Said(c, st, now, kinds, re, i) ==
  /\ now \in Seq(Halves)
  /\ Own(c, st) => Own(c, now)
  /\ AfterStart(st) => AfterStart(now)
  /\ HasStarted(st) \/ (i > 0 /\ kinds[1] = "self_info") => HasStarted(now)
  /\ Told(st) /\ (\A j \in 1..Len(kinds) : kinds[j] # "no_more_messages") => Told(now)
  /\ Answers(now) = IF i = 0 THEN Answers(st) ELSE Append(Answers(st), re)

LEMMA RepliesResult ==
  ASSUME Basics, NEW t, Fits(t), NEW kinds \in Seq(Kinds), NEW re \in Bytes, OneAnswer(kinds, re),
         NEW u, u = Replies(t, kinds, re)
  PROVE  /\ Fits(u) /\ Keeps(t, u)
         /\ u.s.client # None => /\ u.s.client = t.s.client /\ u.s.reader = t.s.reader
                                 /\ Said(t.s.client, StreamOf(t), StreamOf(u), kinds, re, Len(kinds))
<1> DEFINE P(v, i) == /\ Fits(v) /\ Keeps(t, v)
                      /\ v.s.client # None =>
                           /\ v.s.client = t.s.client /\ v.s.reader = t.s.reader
                           /\ Said(t.s.client, StreamOf(t), StreamOf(v), kinds, re, i)
<1>1. PICK sent : Sending(sent, t, kinds, re, Len(kinds)) /\ u = sent[Len(kinds)]
  BY RepliesStep, Zenon
<1>2. Len(kinds) \in Nat
  OBVIOUS
<1>3. re # NoCommand /\ re \in Bytes \cup {NoCommand}
  BY DEF Bytes, NoCommand
<1>4. P(t, 0)
  <2>1. Keeps(t, t)
    BY Zenon DEF Keeps
  <2>2. t.s.client # None => Said(t.s.client, StreamOf(t), StreamOf(t), kinds, re, 0)
    BY StreamTyped, SMTT(30) DEF Said, Fits
  <2> QED  BY <2>1, <2>2, Zenon
<1>5. ASSUME NEW i \in 1..Len(kinds), NEW v, P(v, i - 1)
      PROVE  P(ServerSend(v, kinds[i], re), i)
  <2>1. kinds[i] \in Kinds
    BY ElementOfSeq, Zenon
  <2>2. PICK w : w = ServerSend(v, kinds[i], re)
    BY Zenon
  <2>3. PICK kind \in Kinds : kind = kinds[i]
    BY <2>1, Zenon
  <2>4. Fits(v) /\ Keeps(t, v)
    BY <1>5, Zenon
  <2>5. Fits(w) /\ Keeps(v, w)
    BY <1>3, <2>2, <2>3, <2>4, SendSays, Zenon
  <2>6. ASSUME w.s.client # None
        PROVE  /\ w.s.client = v.s.client /\ w.s.reader = v.s.reader
               /\ StreamOf(w) \in Seq(Halves)
               /\ Own(v.s.client, StreamOf(v)) => Own(v.s.client, StreamOf(w))
               /\ AfterStart(StreamOf(v)) => AfterStart(StreamOf(w))
               /\ HasStarted(StreamOf(v)) \/ kind = "self_info" => HasStarted(StreamOf(w))
               /\ Told(StreamOf(v)) /\ kind # "no_more_messages" => Told(StreamOf(w))
               /\ Answers(StreamOf(w)) =
                    IF i = 1 THEN Append(Answers(StreamOf(v)), re) ELSE Answers(StreamOf(v))
    <3>1. (re = 4 /\ kind \in {"contact", "end_of_contacts"}) <=> i # 1
      BY <2>3, Zenon DEF OneAnswer
    <3>2. w = ServerSend(v, kind, re)
      BY <2>2, <2>3, Zenon
    <3>3. Answers(StreamOf(w)) =
            IF re # NoCommand /\ ~(re = 4 /\ kind \in {"contact", "end_of_contacts"})
            THEN Append(Answers(StreamOf(v)), re) ELSE Answers(StreamOf(v))
      BY <1>3, <2>4, <2>6, <3>2, SendSays
    <3>4. Answers(StreamOf(w)) =
            IF i = 1 THEN Append(Answers(StreamOf(v)), re) ELSE Answers(StreamOf(v))
      BY <1>3, <3>1, <3>3, Zenon
    <3>5. /\ w.s.client = v.s.client /\ w.s.reader = v.s.reader
          /\ StreamOf(w) \in Seq(Halves)
          /\ Own(v.s.client, StreamOf(v)) => Own(v.s.client, StreamOf(w))
          /\ AfterStart(StreamOf(v)) => AfterStart(StreamOf(w))
      BY <1>3, <2>4, <2>6, <3>2, SendSays
    <3>6. /\ HasStarted(StreamOf(v)) \/ kind = "self_info" => HasStarted(StreamOf(w))
          /\ Told(StreamOf(v)) /\ kind # "no_more_messages" => Told(StreamOf(w))
      BY <1>3, <2>4, <2>6, <3>2, SendSays, Zenon
    <3> QED  BY <3>4, <3>5, <3>6, Zenon
  <2>7. v.s.client # None => v.s.client = t.s.client /\ v.s.reader = t.s.reader
    BY <1>5, Zenon
  <2>8. v.s.client = None => w.s.client = None
    BY <2>6, Zenon
  <2>9. Keeps(t, w)
    BY <2>4, <2>5, <2>7, ClientsAreNumbers, Zenon DEF Keeps
  <2>10. ASSUME w.s.client # None
         PROVE  Said(t.s.client, StreamOf(t), StreamOf(w), kinds, re, i)
    <3>1. v.s.client = t.s.client /\ v.s.client # None
      BY <2>6, <2>7, <2>10, Zenon
    <3>2. Said(t.s.client, StreamOf(t), StreamOf(v), kinds, re, i - 1)
      BY <1>5, <3>1, Zenon
    <3> DEFINE st == StreamOf(t)
               old == StreamOf(v)
               now == StreamOf(w)
               c == t.s.client
    <3>3. now \in Seq(Halves) /\ (Own(c, st) => Own(c, now)) /\ (AfterStart(st) => AfterStart(now))
      BY <2>6, <2>10, <3>1, <3>2, Zenon DEF Said
    <3>4. HasStarted(st) \/ (i > 0 /\ kinds[1] = "self_info") => HasStarted(now)
      <4>1. i = 1 \/ i - 1 > 0
        BY <1>2
      <4>2. HasStarted(old) \/ kind = "self_info" => HasStarted(now)
        BY <2>6, <2>10, Zenon
      <4>3. HasStarted(st) \/ (i - 1 > 0 /\ kinds[1] = "self_info") => HasStarted(old)
        BY <3>2, Zenon DEF Said
      <4> QED  BY <2>3, <4>1, <4>2, <4>3, Zenon
    <3>5. Told(st) /\ (\A j \in 1..Len(kinds) : kinds[j] # "no_more_messages") => Told(now)
      BY <2>3, <2>6, <2>10, <3>2, Zenon DEF Said
    <3>6. Answers(now) = IF i = 0 THEN Answers(st) ELSE Append(Answers(st), re)
      <4>1. i # 0 /\ (i = 1 <=> i - 1 = 0)
        BY <1>2
      <4>2. Answers(old) = IF i - 1 = 0 THEN Answers(st) ELSE Append(Answers(st), re)
        BY <3>2, Zenon DEF Said
      <4>3. Answers(now) = IF i = 1 THEN Append(Answers(old), re) ELSE Answers(old)
        BY <2>6, <2>10, Zenon
      <4> QED  BY <4>1, <4>2, <4>3, Zenon
    <3> HIDE DEF st, now, c
    <3>7. Said(c, st, now, kinds, re, i)
      BY <3>3, <3>4, <3>5, <3>6, Zenon DEF Said
    <3> QED  BY <3>7, Zenon DEF st, now, c
  <2>11. P(w, i)
    BY <2>5, <2>6, <2>7, <2>8, <2>9, <2>10, Zenon
  <2> QED  BY <2>2, <2>11, Zenon
<1> DEFINE T == {i \in Nat : i <= Len(kinds) => P(sent[i], i)}
<1> HIDE DEF P
<1>6. 0 \in T
  BY <1>1, <1>4, Zenon DEF Sending
<1>7. ASSUME NEW i \in T
      PROVE  i + 1 \in T
  <2> SUFFICES ASSUME i + 1 <= Len(kinds)
               PROVE  P(sent[i + 1], i + 1)
    OBVIOUS
  <2>1. i \in Nat /\ i + 1 \in 1..Len(kinds) /\ (i + 1) - 1 = i /\ P(sent[i], i)
    BY <1>2, <1>7
  <2>2. sent[i + 1] = ServerSend(sent[(i + 1) - 1], kinds[i + 1], re)
    BY <1>1, <2>1, Zenon DEF Sending
  <2>3. PICK k \in 1..Len(kinds) : k = i + 1
    BY <2>1, Zenon
  <2>4. P(ServerSend(sent[i], kinds[k], re), k)
    BY <1>5, <2>1, <2>3, Zenon
  <2> QED  BY <2>1, <2>2, <2>3, <2>4, Zenon
<1>8. P(u, Len(kinds))
  <2>1. T \in SUBSET Nat
    BY Zenon
  <2>2. Len(kinds) \in T
    <3> HIDE DEF T
    <3> QED  BY <1>2, <1>6, <1>7, <2>1, SetInduction, Zenon
  <2> QED  BY <1>1, <1>2, <2>2
<1> QED  BY <1>8, Zenon DEF P

\* The stream is the client's own, and a start that the session knows of is in it.
Sound(t) ==
  t.s.client # None => /\ Own(t.s.client, StreamOf(t)) /\ AfterStart(StreamOf(t))
                       /\ t.s.started => HasStarted(StreamOf(t))

\* The app knows of what waits for it.
Informed(t) == t.s.client # None /\ t.s.started /\ t.s.inbox > 0 => Told(StreamOf(t))

LEMMA PushResult ==
  ASSUME Basics, NEW t, Fits(t), Sound(t), NEW kind \in Kinds, kind # "no_more_messages",
         NEW u, u = Push(t, kind)
  PROVE  /\ Fits(u) /\ Keeps(t, u) /\ Sound(u)
         /\ Informed(t) \/ kind = "msg_waiting" => Informed(u)
         /\ u.s.client # None => /\ u.s.client = t.s.client /\ u.s.reader = t.s.reader
                                 /\ Answers(StreamOf(u)) = Answers(StreamOf(t))
<1>1. CASE ~t.s.started
  <2>1. u = t
    BY <1>1, Zenon DEF Push
  <2>2. Keeps(t, t)
    BY Zenon DEF Keeps
  <2> QED  BY <1>1, <2>1, <2>2, Zenon DEF Informed
<1>2. CASE t.s.started
  <2>1. u = ServerSend(t, kind, NoCommand) /\ NoCommand \in Bytes \cup {NoCommand}
    BY <1>2, Zenon DEF Push
  <2>2. Fits(u) /\ Keeps(t, u)
    BY <2>1, SendSays, Zenon
  <2>3. u.s.started = t.s.started /\ u.s.inbox = t.s.inbox
    BY <2>2, Zenon DEF Keeps
  <2>4. ASSUME u.s.client # None
        PROVE  /\ u.s.client = t.s.client /\ u.s.reader = t.s.reader
               /\ Answers(StreamOf(u)) = Answers(StreamOf(t))
               /\ Own(t.s.client, StreamOf(t)) => Own(t.s.client, StreamOf(u))
               /\ AfterStart(StreamOf(t)) /\ HasStarted(StreamOf(t)) => AfterStart(StreamOf(u))
               /\ HasStarted(StreamOf(t)) => HasStarted(StreamOf(u))
               /\ Told(StreamOf(t)) \/ kind = "msg_waiting" => Told(StreamOf(u))
    <3>1. /\ u.s.client = t.s.client /\ u.s.reader = t.s.reader
          /\ Answers(StreamOf(u)) = Answers(StreamOf(t))
      BY <2>1, <2>4, SendSays, SMTT(30)
    <3>2. /\ Own(t.s.client, StreamOf(t)) => Own(t.s.client, StreamOf(u))
          /\ AfterStart(StreamOf(t)) /\ HasStarted(StreamOf(t)) => AfterStart(StreamOf(u))
          /\ HasStarted(StreamOf(t)) => HasStarted(StreamOf(u))
          /\ Told(StreamOf(t)) \/ kind = "msg_waiting" => Told(StreamOf(u))
      BY <2>1, <2>4, SendSays, SMTT(30)
    <3> QED  BY <3>1, <3>2, Zenon
  <2>5. Sound(u)
    BY <1>2, <2>3, <2>4, Zenon DEF Sound
  <2>6. Informed(t) \/ kind = "msg_waiting" => Informed(u)
    BY <1>2, <2>3, <2>4, Zenon DEF Informed
  <2> QED  BY <2>2, <2>4, <2>5, <2>6, Zenon
<1> QED  BY <1>1, <1>2, Zenon DEF Fits
-----------------------------------------------------------------------------
(***************************************************************************)
(* The commands.                                                           *)
(***************************************************************************)
LEMMA UpsertResult ==
  ASSUME Basics, NEW contacts \in Tables, NEW k \in Nat, NEW known \in BOOLEAN, ~IsFull(contacts, k)
  PROVE  Upsert(contacts, k, known) \in Tables
<1> DEFINE D == DOMAIN contacts
           E == D \cup {k}
           new == Upsert(contacts, k, known)
<1>1. D \subseteq Nat /\ contacts \in [D -> BOOLEAN] /\ IsFiniteSet(D) /\ Cardinality(D) <= MaxContacts
  BY Zenon DEF Tables
<1>2. /\ IsFiniteSet(E) /\ Cardinality(D) \in Nat
      /\ Cardinality(E) = IF k \in D THEN Cardinality(D) ELSE Cardinality(D) + 1
  BY <1>1, Zenon DEF Basics
<1>3. MaxContacts \in Nat
  BY CompanionAssumption, Zenon
<1>4. Cardinality(E) <= MaxContacts
  BY <1>1, <1>2, <1>3 DEF IsFull
<1>5. new \in [E -> BOOLEAN] /\ DOMAIN new = E
  BY <1>1, Zenon DEF Upsert
<1>6. E \in SUBSET Nat
  BY <1>1, Zenon
<1> HIDE DEF E, new
<1>7. new \in UNION {[X -> BOOLEAN] : X \in SUBSET Nat}
  BY <1>5, <1>6, Zenon
<1>8. new \in Tables
  BY <1>2, <1>4, <1>5, <1>7, Zenon DEF Tables
<1> QED  BY <1>8, Zenon DEF new

LEMMA RemoveResult ==
  ASSUME Basics, NEW contacts \in Tables, NEW k
  PROVE  [j \in DOMAIN contacts \ {k} |-> contacts[j]] \in Tables
<1> DEFINE D == DOMAIN contacts
           E == D \ {k}
           new == [j \in E |-> contacts[j]]
<1>1. D \subseteq Nat /\ contacts \in [D -> BOOLEAN] /\ IsFiniteSet(D) /\ Cardinality(D) <= MaxContacts
  BY Zenon DEF Tables
<1>2. IsFiniteSet(E) /\ Cardinality(E) <= Cardinality(D) /\ Cardinality(D) \in Nat /\ Cardinality(E) \in Nat
  BY <1>1, Zenon DEF Basics
<1>3. MaxContacts \in Nat
  BY CompanionAssumption, Zenon
<1>4. Cardinality(E) <= MaxContacts
  BY <1>1, <1>2, <1>3
<1>5. new \in [E -> BOOLEAN] /\ DOMAIN new = E
  BY <1>1, Zenon
<1>6. E \in SUBSET Nat
  BY <1>1, Zenon
<1> HIDE DEF E, new
<1>7. new \in UNION {[X -> BOOLEAN] : X \in SUBSET Nat}
  BY <1>5, <1>6, Zenon
<1>8. new \in Tables
  BY <1>2, <1>4, <1>5, <1>7, Zenon DEF Tables
<1> QED  BY <1>8, Zenon DEF new, E

LEMMA PathResult ==
  ASSUME NEW contacts \in Tables, NEW k, NEW known \in BOOLEAN
  PROVE  [contacts EXCEPT ![k] = known] \in Tables
<1> DEFINE D == DOMAIN contacts
           new == [contacts EXCEPT ![k] = known]
<1>1. D \in SUBSET Nat /\ contacts \in [D -> BOOLEAN] /\ IsFiniteSet(D) /\ Cardinality(D) <= MaxContacts
  BY Zenon DEF Tables
<1>2. new \in [D -> BOOLEAN] /\ DOMAIN new = D
  BY <1>1, Zenon
<1> HIDE DEF D, new
<1>3. new \in UNION {[X -> BOOLEAN] : X \in SUBSET Nat}
  BY <1>1, <1>2, Zenon
<1>4. new \in Tables
  BY <1>1, <1>2, <1>3, Zenon DEF Tables
<1> QED  BY <1>4, Zenon DEF new

\* The server's part of the session, which no command touches.
SameServer(u, x) ==
  /\ x \in Sessions
  /\ x.client = u.client /\ x.reader = u.reader /\ x.out = u.out /\ x.events = u.events

\* What is asked of the answer a to cmd in the session u.
Answered(u, a, cmd) ==
  /\ SameServer(u, a.s)
  /\ a.kinds \in Seq(Kinds) /\ Len(a.kinds) > 0 /\ OneAnswer(a.kinds, cmd)
  /\ IF cmd = 1 THEN a.s.started /\ a.kinds[1] = "self_info" ELSE a.s.started = u.started
  /\ a.s.inbox <= u.inbox
  /\ a.s.inbox > 0 => \A j \in 1..Len(a.kinds) : a.kinds[j] # "no_more_messages"

LEMMA AnswerResult ==
  ASSUME NEW u \in Sessions, NEW x, SameServer(u, x), x.inbox <= u.inbox, NEW cmd \in Bytes,
         NEW kind \in Kinds, cmd # 4,
         IF cmd = 1 THEN x.started /\ kind = "self_info" ELSE x.started = u.started,
         x.inbox > 0 => kind # "no_more_messages"
  PROVE  Answered(u, Answer(x, kind), cmd)
<1> DEFINE a == Answer(x, kind)
<1>1. a.s = x /\ a.kinds = <<kind>>
  BY Zenon DEF Answer
<1>2. a.kinds \in Seq(Kinds) /\ Len(a.kinds) = 1 /\ a.kinds[1] = kind
  BY <1>1
<1>3. \A j \in 1..Len(a.kinds) : j = 1
  BY <1>2
<1> HIDE DEF a
<1>4. OneAnswer(a.kinds, cmd)
  BY <1>3, Zenon DEF OneAnswer
<1>5. Answered(u, a, cmd)
  BY <1>1, <1>2, <1>3, <1>4 DEF Answered
<1> QED  BY <1>5, Zenon DEF a

\* A session in which at most the app's own data differ.
OnlyData(u, x) == SameServer(u, x) /\ x.started = u.started /\ x.inbox = u.inbox

LEMMA SavedReplyResult ==
  ASSUME NEW u \in Sessions, NEW x, OnlyData(u, x), NEW cmd \in Bytes \ {1, 4}
  PROVE  Answered(u, SavedReply(x), cmd)
<1> DEFINE y == [x EXCEPT !.dirty = TRUE]
           kind == IF x.healthy THEN "ok" ELSE "io_error"
<1>1. SavedReply(x) = Answer(y, kind)
  BY Zenon DEF SavedReply
<1>2. x \in Sessions
  BY Zenon DEF OnlyData, SameServer
<1>3. OnlyData(u, y)
  BY <1>2, Zenon DEF OnlyData, SameServer, Sessions
<1>4. kind \in Kinds /\ kind # "no_more_messages"
  <2>1. kind = "ok" \/ kind = "io_error"
    BY Zenon
  <2> HIDE DEF kind
  <2> QED  BY <2>1, Zenon DEF Kinds
<1>5. y.inbox <= u.inbox
  BY <1>3 DEF OnlyData, Sessions
<1> HIDE DEF y, kind
<1> QED  BY <1>1, <1>3, <1>4, <1>5, AnswerResult, Zenon DEF OnlyData

LEMMA SettingsReplyResult ==
  ASSUME NEW u \in Sessions, NEW legal, NEW disk, NEW cmd \in Bytes \ {1, 4}
  PROVE  Answered(u, SettingsReply(u, legal, disk), cmd)
<1> DEFINE kind == IF ~legal THEN "illegal_arg" ELSE IF disk THEN "ok" ELSE "io_error"
<1>1. SettingsReply(u, legal, disk) = Answer(u, kind)
  BY Zenon DEF SettingsReply
<1>2. kind = "illegal_arg" \/ kind = "ok" \/ kind = "io_error"
  BY Zenon
<1> HIDE DEF kind
<1>3. kind \in Kinds /\ kind # "no_more_messages"
  BY <1>2, Zenon DEF Kinds
<1>4. SameServer(u, u) /\ u.inbox <= u.inbox
  BY SMTT(30) DEF SameServer, Sessions
<1> QED  BY <1>1, <1>3, <1>4, AnswerResult, Zenon

LEMMA GetContactsResult ==
  ASSUME Basics, NEW u \in Sessions
  PROVE  Answered(u, GetContacts(u), 4)
<1> DEFINE a == GetContacts(u)
           m == Cardinality(DOMAIN u.contacts)
           list == [i \in 1..m |-> "contact"]
           one == <<"contacts_start">>
           last == <<"end_of_contacts">>
           kinds == one \o list \o last
<1>1. a.s = u /\ a.kinds = kinds
  BY Zenon DEF GetContacts
<1>2. m \in Nat
  BY Zenon DEF Basics, Sessions, Tables
<1> HIDE DEF m
<1>3. list \in Seq(Kinds) /\ Len(list) = m /\ \A i \in 1..m : list[i] = "contact"
  <2>1. "contact" \in Kinds
    BY Zenon DEF Kinds
  <2> QED  BY <1>2, <2>1
<1>4. /\ one \in Seq(Kinds) /\ Len(one) = 1 /\ one[1] = "contacts_start"
      /\ last \in Seq(Kinds) /\ Len(last) = 1 /\ last[1] = "end_of_contacts"
  <2>1. "contacts_start" \in Kinds /\ "end_of_contacts" \in Kinds
    BY Zenon DEF Kinds
  <2> QED  BY <2>1
<1> HIDE DEF list, one, last
<1>5. PICK b : b = one \o list
  BY Zenon
<1>6. /\ b \in Seq(Kinds) /\ Len(b) = m + 1
      /\ \A i \in 1..m + 1 : b[i] = IF i <= 1 THEN one[i] ELSE list[i - 1]
  <2>1. /\ b \in Seq(Kinds) /\ Len(b) = Len(one) + Len(list)
        /\ \A i \in 1..Len(one) + Len(list) : b[i] = IF i <= Len(one) THEN one[i] ELSE list[i - Len(one)]
    BY <1>3, <1>4, <1>5, ConcatProperties, Zenon
  <2>2. Len(one) + Len(list) = m + 1
    BY <1>2, <1>3, <1>4
  <2> QED  BY <1>4, <2>1, <2>2, Zenon
<1>7. /\ kinds \in Seq(Kinds) /\ Len(kinds) = m + 2
      /\ \A i \in 1..m + 2 : kinds[i] = IF i <= m + 1 THEN b[i] ELSE last[i - (m + 1)]
  <2>1. /\ kinds \in Seq(Kinds) /\ Len(kinds) = Len(b) + Len(last)
        /\ \A i \in 1..Len(b) + Len(last) : kinds[i] = IF i <= Len(b) THEN b[i] ELSE last[i - Len(b)]
    BY <1>4, <1>5, <1>6, ConcatProperties, ZenonT(30)
  <2>2. Len(b) + Len(last) = m + 2
    BY <1>2, <1>4, <1>6
  <2> QED  BY <1>6, <2>1, <2>2, Zenon
<1> HIDE DEF kinds
<1>8. kinds[1] = "contacts_start"
  BY <1>2, <1>4, <1>6, <1>7
<1>9. ASSUME NEW i \in 2..m + 2
      PROVE  kinds[i] \in {"contact", "end_of_contacts"}
  <2>1. CASE i <= m + 1
    <3>1. i \in 1..m + 2 /\ i \in 1..m + 1 /\ ~(i <= 1) /\ i - 1 \in 1..m
      BY <1>2, <2>1
    <3> QED  BY <1>3, <1>6, <1>7, <2>1, <3>1, Zenon
  <2>2. CASE ~(i <= m + 1)
    <3>1. i \in 1..m + 2 /\ i - (m + 1) = 1
      BY <1>2, <2>2
    <3> QED  BY <1>4, <1>7, <2>2, <3>1, Zenon
  <2> QED  BY <2>1, <2>2, Zenon
<1>10. ASSUME NEW j \in 1..Len(kinds)
       PROVE  /\ kinds[j] \in {"contact", "end_of_contacts"} <=> j # 1
              /\ kinds[j] # "no_more_messages"
  <2>1. j = 1 \/ (j # 1 /\ j \in 2..m + 2)
    BY <1>2, <1>7
  <2> QED  BY <1>8, <1>9, <2>1, Zenon
<1>11. OneAnswer(kinds, 4)
  BY <1>10, Zenon DEF OneAnswer
<1>12. Len(kinds) > 0
  BY <1>2, <1>7
<1>13. SameServer(u, u) /\ u.inbox <= u.inbox
  BY DEF SameServer, Sessions
<1> HIDE DEF a
<1>14. Answered(u, a, 4)
  BY <1>1, <1>7, <1>10, <1>11, <1>12, <1>13 DEF Answered
<1> QED  BY <1>14, Zenon DEF a

(* Every command, also one that is too short or unknown.                   *)
LEMMA CommandResult ==
  ASSUME Basics, NEW u \in Sessions, NEW cmd \in Bytes, NEW args \in Seq(Bytes), NEW disk, NEW err
  PROVE  Answered(u, Command(u, cmd, args, disk, err), cmd)
<1> DEFINE a == Command(u, cmd, args, disk, err)
           Plain == Kinds \ {"no_more_messages"}
<1>1. OnlyData(u, u) /\ SameServer(u, u) /\ u.inbox <= u.inbox
  BY SMTT(30) DEF OnlyData, SameServer, Sessions
<1>2. ASSUME NEW kind \in Plain, cmd \notin {1, 4}
      PROVE  Answered(u, Answer(u, kind), cmd)
  BY <1>1, <1>2, AnswerResult, Zenon
<1>3. ASSUME NEW i \in Nat, i > 0, ~(Len(args) < i)
      PROVE  args[i] \in Bytes /\ args[i] \in Nat
  BY <1>3, ElementOfSeq, BytesAreNumbers
<1>4. CASE Len(args) < Needs(cmd)
  <2>1. a = Answer(u, "illegal_arg")
    BY <1>4, Zenon DEF Command
  <2>2. cmd \notin {1, 4}
    BY <1>4, SMTT(30) DEF Needs
  <2>3. "illegal_arg" \in Plain
    BY Zenon DEF Kinds
  <2> QED  BY <1>2, <2>1, <2>2, <2>3, Zenon
<1>5. CASE ~(Len(args) < Needs(cmd)) /\ cmd = 1
  <2>1. a = Answer([u EXCEPT !.started = TRUE], "self_info")
    BY <1>5 DEF Command, AppStart
  <2> DEFINE x == [u EXCEPT !.started = TRUE]
  <2>2. SameServer(u, x) /\ x.inbox <= u.inbox /\ x.started
    <3>1. x.inbox = u.inbox /\ x.started
      BY Zenon DEF Sessions
    <3>2. SameServer(u, x)
      BY Zenon DEF SameServer, Sessions
    <3> QED  BY <1>1, <3>1, <3>2, Zenon
  <2>3. "self_info" \in Kinds
    BY Zenon DEF Kinds
  <2> HIDE DEF x
  <2>4. Answered(u, Answer(x, "self_info"), cmd)
    BY <1>5, <2>2, <2>3, AnswerResult
  <2> QED  BY <2>1, <2>4, Zenon DEF x
<1>6. CASE ~(Len(args) < Needs(cmd)) /\ cmd = 2
  <2>1. a = SendTxtMsg(u, args[1], err)
    BY <1>6 DEF Command
  <2>2. SendErrorCode(err) \in {"table_full", "illegal_arg", "bad_state"}
    BY Zenon DEF SendErrorCode
  <2>3. PICK kind \in {"not_found", "sent", SendErrorCode(err)} : a = Answer(u, kind)
    BY <2>1, Zenon DEF SendTxtMsg
  <2>4. kind \in Plain
    BY <2>2, <2>3, Zenon DEF Kinds
  <2> QED  BY <1>2, <1>6, <2>3, <2>4
<1>7. CASE ~(Len(args) < Needs(cmd)) /\ cmd = 4
  <2>1. a = GetContacts(u)
    BY <1>7 DEF Command
  <2> QED  BY <1>7, <2>1, GetContactsResult, Zenon
<1>8. CASE ~(Len(args) < Needs(cmd)) /\ cmd = 6
  <2> DEFINE x == [u EXCEPT !.clock = TRUE]
  <2>1. a = Answer(x, "ok")
    BY <1>8 DEF Command, SetDeviceTime
  <2>2. SameServer(u, x) /\ x.inbox <= u.inbox /\ x.started = u.started
    <3>1. x.inbox = u.inbox /\ x.started = u.started
      BY Zenon DEF Sessions
    <3>2. SameServer(u, x)
      BY Zenon DEF SameServer, Sessions
    <3> QED  BY <1>1, <3>1, <3>2, Zenon
  <2>3. "ok" \in Kinds
    BY Zenon DEF Kinds
  <2> HIDE DEF x
  <2> QED  BY <1>8, <2>1, <2>2, <2>3, AnswerResult
<1>9. CASE ~(Len(args) < Needs(cmd)) /\ cmd = 9
  <2>1. a = AddUpdateContact(u, args[1], args[2] # 0)
    BY <1>9 DEF Command
  <2>2. Needs(cmd) = 2
    BY <1>9 DEF Needs
  <2>3. PICK k \in Nat : k = args[1]
    BY <1>3, <1>9, <2>2
  <2>4. PICK known \in BOOLEAN : known = (args[2] # 0)
    BY Zenon
  <2>5. CASE IsFull(u.contacts, k)
    <3>1. a = Answer(u, "table_full")
      BY <2>1, <2>3, <2>5, Zenon DEF AddUpdateContact
    <3>2. "table_full" \in Plain
      BY Zenon DEF Kinds
    <3> QED  BY <1>2, <1>9, <3>1, <3>2
  <2>6. CASE ~IsFull(u.contacts, k)
    <3>1. PICK new : new = Upsert(u.contacts, k, known)
      BY Zenon
    <3>2. u.contacts \in Tables
      BY Zenon DEF Sessions
    <3>3. new \in Tables
      BY <2>6, <3>1, <3>2, UpsertResult, Zenon
    <3>4. a = SavedReply([u EXCEPT !.contacts = new])
      BY <2>1, <2>3, <2>4, <2>6, <3>1, Zenon DEF AddUpdateContact
    <3>5. OnlyData(u, [u EXCEPT !.contacts = new])
      BY <3>3, Zenon DEF OnlyData, SameServer, Sessions
    <3> QED  BY <1>9, <3>4, <3>5, SavedReplyResult
  <2> QED  BY <2>5, <2>6, Zenon
<1>10. CASE ~(Len(args) < Needs(cmd)) /\ cmd = 10
  <2>1. a = SyncNextMessage(u)
    BY <1>10 DEF Command
  <2>2. u.inbox \in Nat
    BY DEF Sessions
  <2>3. CASE u.inbox = 0
    <3>1. a = Answer(u, "no_more_messages")
      BY <2>1, <2>3, Zenon DEF SyncNextMessage
    <3>2. "no_more_messages" \in Kinds
      BY Zenon DEF Kinds
    <3> QED  BY <1>1, <1>10, <2>3, <3>1, <3>2, AnswerResult
  <2>4. CASE u.inbox # 0
    <3> DEFINE x == [u EXCEPT !.inbox = @ - 1, !.dirty = TRUE]
    <3>1. a = Answer(x, "message")
      BY <2>1, <2>4, Zenon DEF SyncNextMessage
    <3>2. u.inbox - 1 \in 0..InboxLimit
      BY <2>4, CompanionAssumption DEF Sessions
    <3>3. x.inbox = u.inbox - 1 /\ x.started = u.started
      BY Zenon DEF Sessions
    <3>4. x.inbox <= u.inbox
      BY <2>2, <3>3
    <3>5. SameServer(u, x)
      BY <3>2, Zenon DEF SameServer, Sessions
    <3>6. "message" \in Kinds
      BY Zenon DEF Kinds
    <3> HIDE DEF x
    <3> QED  BY <1>10, <3>1, <3>3, <3>4, <3>5, <3>6, AnswerResult, SMTT(30)
  <2> QED  BY <2>3, <2>4, Zenon
<1>11. CASE ~(Len(args) < Needs(cmd)) /\ cmd = 13
  <2>1. a = ResetPath(u, args[1])
    BY <1>11 DEF Command
  <2>2. PICK k : k = args[1]
    BY Zenon
  <2>3. CASE k \notin DOMAIN u.contacts
    <3>1. a = Answer(u, "not_found")
      BY <2>1, <2>2, <2>3, Zenon DEF ResetPath
    <3>2. "not_found" \in Plain
      BY Zenon DEF Kinds
    <3> QED  BY <1>2, <1>11, <3>1, <3>2
  <2>4. CASE k \in DOMAIN u.contacts
    <3>1. PICK new : new = [u.contacts EXCEPT ![k] = FALSE]
      BY Zenon
    <3>2. u.contacts \in Tables
      BY Zenon DEF Sessions
    <3>3. new \in Tables
      BY <3>1, <3>2, PathResult, Zenon
    <3>4. a = SavedReply([u EXCEPT !.contacts = new])
      BY <2>1, <2>2, <2>4, <3>1, Zenon DEF ResetPath
    <3>5. OnlyData(u, [u EXCEPT !.contacts = new])
      BY <3>3, Zenon DEF OnlyData, SameServer, Sessions
    <3> QED  BY <1>11, <3>4, <3>5, SavedReplyResult
  <2> QED  BY <2>3, <2>4, Zenon
<1>12. CASE ~(Len(args) < Needs(cmd)) /\ cmd = 15
  <2>1. a = RemoveContact(u, args[1])
    BY <1>12 DEF Command
  <2>2. PICK k : k = args[1]
    BY Zenon
  <2>3. CASE k \notin DOMAIN u.contacts
    <3>1. a = Answer(u, "not_found")
      BY <2>1, <2>2, <2>3, Zenon DEF RemoveContact
    <3>2. "not_found" \in Plain
      BY Zenon DEF Kinds
    <3> QED  BY <1>2, <1>12, <3>1, <3>2
  <2>4. CASE k \in DOMAIN u.contacts
    <3>1. PICK new : new = [j \in DOMAIN u.contacts \ {k} |-> u.contacts[j]]
      BY Zenon
    <3>2. u.contacts \in Tables
      BY Zenon DEF Sessions
    <3>3. new \in Tables
      BY <3>1, <3>2, RemoveResult, Zenon
    <3>4. a = SavedReply([u EXCEPT !.contacts = new])
      BY <2>1, <2>2, <2>4, <3>1, Zenon DEF RemoveContact
    <3>5. OnlyData(u, [u EXCEPT !.contacts = new])
      BY <3>3, Zenon DEF OnlyData, SameServer, Sessions
    <3> QED  BY <1>12, <3>4, <3>5, SavedReplyResult
  <2> QED  BY <2>3, <2>4, Zenon
<1>13. CASE ~(Len(args) < Needs(cmd)) /\ cmd = 32
  <2>1. a = SetChannel(u, args[1], args[2])
    BY <1>13 DEF Command
  <2>2. Needs(cmd) = 2
    BY <1>13 DEF Needs
  <2>3. PICK slot \in Nat : slot = args[1]
    BY <1>3, <1>13, <2>2
  <2>4. CASE slot >= MaxChannels
    <3>1. a = Answer(u, "illegal_arg")
      BY <2>1, <2>3, <2>4, Zenon DEF SetChannel
    <3>2. "illegal_arg" \in Plain
      BY Zenon DEF Kinds
    <3> QED  BY <1>2, <1>13, <3>1, <3>2
  <2>5. CASE ~(slot >= MaxChannels)
    <3>1. PICK new : new = IF args[2] = 0 THEN u.channels \ {slot} ELSE u.channels \cup {slot}
      BY Zenon
    <3>2. u.channels \in SUBSET (0..MaxChannels - 1)
      BY Zenon DEF Sessions
    <3>3. slot \in 0..MaxChannels - 1
      BY <2>5, CompanionAssumption
    <3>4. new \in SUBSET (0..MaxChannels - 1)
      BY <3>1, <3>2, <3>3, Zenon
    <3>5. a = SavedReply([u EXCEPT !.channels = new])
      BY <2>1, <2>3, <2>5, <3>1, Zenon DEF SetChannel
    <3>6. OnlyData(u, [u EXCEPT !.channels = new])
      BY <3>4, Zenon DEF OnlyData, SameServer, Sessions
    <3> QED  BY <1>13, <3>5, <3>6, SavedReplyResult
  <2> QED  BY <2>4, <2>5, Zenon
<1>14. CASE ~(Len(args) < Needs(cmd)) /\ cmd \in {8, 11, 12, 14, 21}
  <2>1. PICK legal : a = SettingsReply(u, legal, disk)
    <3>1. CASE cmd = 8
      BY <1>14, <3>1 DEF Command, SetAdvertName
    <3>2. CASE cmd = 11
      BY <1>14, <3>2 DEF Command, SetRadioParams
    <3>3. CASE cmd = 12
      BY <1>14, <3>3 DEF Command, SetTxPower
    <3>4. CASE cmd = 14
      BY <1>14, <3>4 DEF Command, SetAdvertLatLon
    <3>5. CASE cmd = 21
      BY <1>14, <3>5 DEF Command, SetTuningParams
    <3> QED  BY <1>14, <3>1, <3>2, <3>3, <3>4, <3>5, Zenon
  <2>2. cmd \in Bytes \ {1, 4}
    BY <1>14
  <2> QED  BY <2>1, <2>2, SettingsReplyResult, Zenon
<1>15. CASE ~(Len(args) < Needs(cmd)) /\ cmd \notin {1, 2, 4, 6, 8, 9, 10, 11, 12, 13, 14, 15, 21, 32}
  <2> DEFINE Few == {"ok", "not_found", "curr_time", "card", "bad_state", "battery", "device_info",
                     "contact", "channel_info", "tuning_params", "unsupported_cmd"}
  <2>1. PICK kind \in Few : a = Answer(u, kind)
    <3>1. CASE cmd = 3
      BY <1>15, <3>1 DEF Command, SendChannelTxtMsg
    <3>2. CASE cmd = 5
      BY <1>15, <3>2 DEF Command, GetDeviceTime
    <3>3. CASE cmd \in {16, 17}
      <4>1. a = ExportContact(u, args)
        <5>1. CASE cmd = 16
          BY <1>15, <5>1 DEF Command
        <5>2. CASE cmd = 17
          BY <1>15, <5>2 DEF Command
        <5> QED  BY <3>3, <5>1, <5>2, Zenon
      <4> QED  BY <4>1, Zenon DEF ExportContact
    <3>4. CASE cmd \in {20, 22, 43}
      <4>1. a \in {GetBattery(u), DeviceQuery(u), GetTuningParams(u)}
        BY <1>15, <3>4, SMTT(30) DEF Command
      <4> QED  BY <4>1, Zenon DEF GetBattery, DeviceQuery, GetTuningParams
    <3>5. CASE cmd = 30
      BY <1>15, <3>5 DEF Command, GetContactByKey
    <3>6. CASE cmd = 31
      BY <1>15, <3>6 DEF Command, GetChannel
    <3>7. CASE cmd \notin {3, 5, 16, 17, 20, 22, 43, 30, 31}
      BY <1>15, <3>7, Zenon DEF Command
    <3> QED  BY <3>1, <3>2, <3>3, <3>4, <3>5, <3>6, <3>7, Zenon
  <2>2. kind \in Plain
    BY <2>1, Zenon DEF Kinds
  <2> QED  BY <1>2, <1>15, <2>1, <2>2, Zenon
<1> QED  BY <1>4, <1>5, <1>6, <1>7, <1>8, <1>9, <1>10, <1>11, <1>12, <1>13, <1>14, <1>15, Zenon

\* The other clients' sockets are as they were.
Apart(t, u) == \A c \in Clients : c # t.s.client => u.line[c] = t.line[c]

(* A frame is answered once, or its client is dropped.                     *)
LEMMA HandleFrameResult ==
  ASSUME Basics, NEW t, Fits(t), Sound(t), Informed(t), t.s.client # None,
         NEW f \in Seq(Bytes), f # <<>>, NEW disk, NEW err,
         NEW u, u = HandleFrame(t, f, disk, err)
  PROVE  /\ Fits(u) /\ Sound(u) /\ Informed(u) /\ Apart(t, u)
         /\ u.s.client # None =>
              /\ u.s.client = t.s.client /\ u.s.reader = t.s.reader
              /\ Answers(StreamOf(u)) = Append(Answers(StreamOf(t)), f[1])
<1>1. PICK cmd \in Bytes : cmd = f[1]
  <2>1. 1 \in 1..Len(f)
    BY EmptySeq
  <2> QED  BY <2>1, ElementOfSeq, Zenon
<1>2. PICK args \in Seq(Bytes) : args = Tail(f)
  BY HeadTailProperties, Zenon
<1>3. PICK a : a = Command(t.s, cmd, args, disk, err)
  BY Zenon
<1>4. t \in Daemons /\ t.s \in Sessions
  BY Zenon DEF Fits, Daemons
<1>5. Answered(t.s, a, cmd)
  BY <1>3, <1>4, CommandResult, Zenon
<1>6. a.s \in Sessions /\ a.s.client = t.s.client /\ a.s.reader = t.s.reader /\ a.s.out = t.s.out
  BY <1>5, Zenon DEF Answered, SameServer
<1>7. PICK v : v = [t EXCEPT !.s = a.s]
  BY Zenon
<1>8. v \in Daemons /\ v.s = a.s /\ v.line = t.line
  BY <1>4, <1>6, <1>7, SetSession, Zenon
<1>9. Fits(v) /\ StreamOf(v) = StreamOf(t)
  BY <1>6, <1>8, Zenon DEF Fits, StreamOf
<1>10. PICK r : r = Replies(v, a.kinds, cmd)
  BY Zenon
<1>11. u = IF MustTell(r.s, cmd) THEN Push(r, "msg_waiting") ELSE r
  BY <1>1, <1>2, <1>3, <1>7, <1>10, Zenon DEF HandleFrame
<1>12. PICK kinds \in Seq(Kinds) : kinds = a.kinds
  BY <1>5, Zenon DEF Answered
<1>13. /\ Len(kinds) > 0 /\ OneAnswer(kinds, cmd)
       /\ IF cmd = 1 THEN a.s.started /\ kinds[1] = "self_info" ELSE a.s.started = t.s.started
       /\ a.s.inbox <= t.s.inbox
       /\ a.s.inbox > 0 => \A j \in 1..Len(kinds) : kinds[j] # "no_more_messages"
  BY <1>5, <1>12, Zenon DEF Answered
<1>14. /\ Fits(r) /\ Keeps(v, r)
       /\ r.s.client # None => /\ r.s.client = v.s.client /\ r.s.reader = v.s.reader
                               /\ Said(v.s.client, StreamOf(v), StreamOf(r), kinds, cmd, Len(kinds))
  <2>1. r = Replies(v, kinds, cmd)
    BY <1>10, <1>12, Zenon
  <2>2. OneAnswer(kinds, cmd)
    BY <1>13, Zenon
  <2>3. Fits(v)
    BY <1>9, Zenon
  <2> QED  BY <2>1, <2>2, <2>3, RepliesResult, SMT
<1>15. r.s.started = a.s.started /\ r.s.inbox = a.s.inbox /\ Apart(t, r)
  BY <1>6, <1>8, <1>14, Zenon DEF Keeps, Apart
<1>16. ASSUME r.s.client # None
       PROVE  /\ r.s.client = t.s.client /\ r.s.reader = t.s.reader
              /\ Said(t.s.client, StreamOf(t), StreamOf(r), kinds, cmd, Len(kinds))
              /\ Answers(StreamOf(r)) = Append(Answers(StreamOf(t)), cmd)
  <2>1. /\ r.s.client = t.s.client /\ r.s.reader = t.s.reader
        /\ Said(t.s.client, StreamOf(t), StreamOf(r), kinds, cmd, Len(kinds))
    BY <1>6, <1>8, <1>9, <1>14, <1>16, Zenon
  <2>2. Len(kinds) # 0
    BY <1>13, SMTT(30)
  <2> QED  BY <2>1, <2>2, Zenon DEF Said
<1>17. Sound(r)
  <2> SUFFICES ASSUME r.s.client # None
               PROVE  /\ Own(r.s.client, StreamOf(r)) /\ AfterStart(StreamOf(r))
                      /\ r.s.started => HasStarted(StreamOf(r))
    BY Zenon DEF Sound
  <2>1. /\ Own(t.s.client, StreamOf(t)) /\ AfterStart(StreamOf(t))
        /\ t.s.started => HasStarted(StreamOf(t))
    BY Zenon DEF Sound
  <2>2. Own(r.s.client, StreamOf(r)) /\ AfterStart(StreamOf(r))
    BY <1>16, <2>1, Zenon DEF Said
  <2>3. r.s.started => HasStarted(StreamOf(t)) \/ kinds[1] = "self_info"
    BY <1>13, <1>15, <2>1, Zenon
  <2>4. HasStarted(StreamOf(t)) \/ kinds[1] = "self_info" => HasStarted(StreamOf(r))
    BY <1>13, <1>16, Zenon DEF Said
  <2> QED  BY <2>2, <2>3, <2>4, Zenon
<1>18. CASE MustTell(r.s, cmd)
  <2>1. u = Push(r, "msg_waiting") /\ "msg_waiting" \in Kinds
    BY <1>11, <1>18, Zenon DEF Kinds
  <2>2. /\ Fits(u) /\ Keeps(r, u) /\ Sound(u) /\ Informed(u)
        /\ u.s.client # None => /\ u.s.client = r.s.client /\ u.s.reader = r.s.reader
                                /\ Answers(StreamOf(u)) = Answers(StreamOf(r))
    BY <1>14, <1>17, <2>1, PushResult, Zenon
  <2>3. Apart(t, u)
    <3>1. r.s.client = None \/ r.s.client = t.s.client
      BY <1>16, Zenon
    <3> QED  BY <1>15, <2>2, <3>1, ClientsAreNumbers, Zenon DEF Apart, Keeps
  <2> QED  BY <1>1, <1>16, <2>2, <2>3, Zenon
<1>19. CASE ~MustTell(r.s, cmd)
  <2>1. u = r
    BY <1>11, <1>19, Zenon
  <2>2. Informed(r)
    <3> SUFFICES ASSUME r.s.client # None, r.s.started, r.s.inbox > 0
                 PROVE  Told(StreamOf(r))
      BY Zenon DEF Informed
    <3>1. cmd # 1
      BY <1>19, Zenon DEF MustTell
    <3>2. t.s.started /\ t.s.inbox > 0
      <4>1. a.s.inbox \in Nat /\ t.s.inbox \in Nat
        BY <1>4, <1>6, SMTT(30) DEF Sessions
      <4> QED  BY <1>13, <1>15, <3>1, <4>1, SMTT(30)
    <3>3. Told(StreamOf(t))
      BY <3>2, Zenon DEF Informed
    <3> QED  BY <1>13, <1>15, <1>16, <3>3, Zenon DEF Said
  <2> QED  BY <1>1, <1>14, <1>15, <1>16, <1>17, <2>1, <2>2, Zenon
<1> QED  BY <1>18, <1>19, Zenon
-----------------------------------------------------------------------------
(***************************************************************************)
(* The loop that serves what has been read.  Pending(t, y) is what t has   *)
(* answered and has still to answer, when y is all that comes after it.    *)
(***************************************************************************)
Pending(t, y) == Answers(StreamOf(t)) \o CommandsIn(t.s.reader \o y)

LEMMA CommandsTyped ==
  ASSUME Basics, NEW z \in Seq(Bytes)
  PROVE  CommandsIn(z) \in Seq(Bytes)
<1>1. 1 \in 1..Len(z) + 1
  OBVIOUS
<1> QED  BY <1>1, ScanStep, ScanTyped, Zenon

LEMMA NoCommandsInNothing ==
  ASSUME Basics, NEW z \in Seq(Bytes), Len(z) = 0
  PROVE  CommandsIn(z) = <<>>
<1>1. z = <<>>
  BY EmptySeq, Zenon
<1>2. ~HasFrame(z)
  BY DEF HasFrame
<1> QED  BY <1>1, <1>2, RestHoldsNone, Zenon

WithReader(t, b) == [t EXCEPT !.s.reader = b]

LEMMA SetReader ==
  ASSUME NEW t, Fits(t), Sound(t), Informed(t), NEW b \in Seq(Bytes),
         NEW u, u = WithReader(t, b)
  PROVE  /\ Fits(u) /\ Sound(u) /\ Informed(u) /\ Apart(t, u)
         /\ u.s.client = t.s.client /\ u.s.reader = b /\ StreamOf(u) = StreamOf(t)
<1> DEFINE x == [t.s EXCEPT !.reader = b]
<1>1. t \in Daemons /\ t.s \in Sessions
  BY Zenon DEF Fits, Daemons
<1>2. u = [t EXCEPT !.s = x]
  BY <1>1, Zenon DEF Daemons, Sessions, WithReader
<1>3. /\ x \in Sessions /\ x.reader = b /\ x.client = t.s.client /\ x.out = t.s.out
      /\ x.started = t.s.started /\ x.inbox = t.s.inbox
  BY <1>1, Zenon DEF Sessions
<1> HIDE DEF x
<1>4. u \in Daemons /\ u.s = x /\ u.line = t.line
  BY <1>1, <1>2, <1>3, SetSession, Zenon
<1>5. Fits(u) /\ StreamOf(u) = StreamOf(t) /\ Apart(t, u)
  BY <1>3, <1>4, Zenon DEF Fits, StreamOf, Apart
<1>6. Sound(u) /\ Informed(u)
  BY <1>3, <1>4, <1>5, Zenon DEF Sound, Informed
<1> QED  BY <1>3, <1>4, <1>5, <1>6, Zenon

LEMMA ServeFrameResult ==
  ASSUME Basics, NEW t, Fits(t), Sound(t), Informed(t), NEW disk, NEW err,
         NEW u, u = ServeFrame(t, disk, err)
  PROVE  /\ Fits(u) /\ Sound(u) /\ Informed(u) /\ Apart(t, u)
         /\ u.s.client # None =>
              /\ u.s.client = t.s.client
              /\ \A y \in Seq(Bytes) : Pending(u, y) = Pending(t, y)
              /\ Len(u.s.reader) < Len(t.s.reader) \/ CommandsIn(u.s.reader) = <<>>
              /\ CommandsIn(t.s.reader) = <<>> => CommandsIn(u.s.reader) = <<>>
<1>1. CASE t.s.client = None
  <2>1. u = t
    BY <1>1, Zenon DEF ServeFrame
  <2> QED  BY <1>1, <2>1, Zenon DEF Apart
<1>2. CASE t.s.client # None
  <2>1. t \in Daemons /\ t.s \in Sessions
    BY Zenon DEF Fits, Daemons
  <2>2. PICK buf \in Seq(Bytes) : buf = t.s.reader
    BY <2>1, Zenon DEF Sessions
  <2>3. PICK b \in Seq(Bytes) : b = Resynced(buf)
    BY ResyncKeepsCommands, EmptySeq, Zenon
  <2>4. /\ Len(b) <= Len(buf) /\ (b = <<>> \/ 1 \in Starts(b))
        /\ \A y \in Seq(Bytes) : CommandsIn(buf \o y) = CommandsIn(b \o y)
    <3>1. ASSUME NEW y \in Seq(Bytes)
          PROVE  /\ Len(b) <= Len(buf) /\ (b = <<>> \/ 1 \in Starts(b))
                 /\ CommandsIn(buf \o y) = CommandsIn(b \o y)
      BY <2>3, ResyncKeepsCommands, Zenon
    <3> QED  BY <3>1, EmptySeq, Zenon
  <2>5. PICK A \in Seq(Bytes) : A = Answers(StreamOf(t))
    BY <1>2, <2>1, StreamTyped, AnswersTyped, Zenon
  <2>6. \A y \in Seq(Bytes) : Pending(t, y) = A \o CommandsIn(b \o y)
    BY <2>2, <2>4, <2>5, Zenon DEF Pending
  <2>7. \A z \in Seq(Bytes) : z \o <<>> = z
    BY ConcatEmptySeq, Zenon
  <2>8. <<>> \in Seq(Bytes)
    BY EmptySeq, Zenon
  <2>9. CommandsIn(buf) = CommandsIn(b)
    BY <2>4, <2>7, <2>8, Zenon
  <2>10. CASE ~HasFrame(b)
    <3>1. u = WithReader(t, b)
      BY <1>2, <2>2, <2>3, <2>10, Zenon DEF ServeFrame, WithReader
    <3>2. /\ Fits(u) /\ Sound(u) /\ Informed(u) /\ Apart(t, u)
          /\ u.s.client = t.s.client /\ u.s.reader = b /\ StreamOf(u) = StreamOf(t)
      BY <3>1, SetReader, Zenon
    <3>3. \A y \in Seq(Bytes) : Pending(u, y) = Pending(t, y)
      BY <2>5, <2>6, <3>2, Zenon DEF Pending
    <3>4. CommandsIn(b) = <<>>
      BY <2>4, <2>10, RestHoldsNone, Zenon
    <3> QED  BY <3>2, <3>3, <3>4, Zenon
  <2>11. CASE HasFrame(b)
    <3>1. 1 \in Starts(b)
      BY <2>4, <2>11 DEF HasFrame
    <3>2. PICK f \in Seq(Bytes), rest \in Seq(Bytes) : f = FirstFrame(b) /\ rest = AfterFrame(b)
      BY <2>8, <2>11, <3>1, CutTakesOne, Zenon
    <3>3. /\ Len(rest) + 2 <= Len(b)
          /\ \A y \in Seq(Bytes) : CommandsIn(b \o y) = Code(f) \o CommandsIn(rest \o y)
      BY <2>8, <2>11, <3>1, <3>2, CutTakesOne, Zenon
    <3>4. Len(rest) < Len(buf)
      BY <2>4, <3>3
    <3>5. PICK v : v = WithReader(t, rest)
      BY Zenon
    <3>6. /\ Fits(v) /\ Sound(v) /\ Informed(v) /\ Apart(t, v)
          /\ v.s.client = t.s.client /\ v.s.reader = rest /\ StreamOf(v) = StreamOf(t)
      BY <3>5, SetReader, ZenonT(30)
    <3>7. \A y \in Seq(Bytes) : CommandsIn(rest \o y) \in Seq(Bytes)
      BY CommandsTyped, ConcatProperties, Zenon
    <3>8. CASE f = <<>>
      <4>1. u = v
        BY <1>2, <2>2, <2>3, <2>11, <3>2, <3>5, <3>8, Zenon DEF ServeFrame, WithReader
      <4>2. ASSUME NEW y \in Seq(Bytes)
            PROVE  CommandsIn(b \o y) = CommandsIn(rest \o y)
        BY <3>3, <3>7, <3>8, ConcatEmptySeq, Zenon DEF Code
      <4>3. \A y \in Seq(Bytes) : Pending(u, y) = Pending(t, y)
        BY <2>5, <2>6, <3>6, <4>1, <4>2, Zenon DEF Pending
      <4>4. CommandsIn(b) = CommandsIn(rest)
        BY <2>7, <2>8, <4>2, Zenon
      <4> QED  BY <2>2, <2>9, <3>4, <3>6, <4>1, <4>3, <4>4, Zenon
    <3>9. CASE f # <<>>
      <4>1. u = HandleFrame(v, f, disk, err)
        BY <1>2, <2>2, <2>3, <2>11, <3>2, <3>5, <3>9, Zenon DEF ServeFrame, WithReader
      <4>2. /\ Fits(u) /\ Sound(u) /\ Informed(u) /\ Apart(v, u)
            /\ u.s.client # None =>
                 /\ u.s.client = v.s.client /\ u.s.reader = v.s.reader
                 /\ Answers(StreamOf(u)) = Append(Answers(StreamOf(v)), f[1])
        BY <1>2, <3>6, <3>9, <4>1, HandleFrameResult
      <4>3. Apart(t, u)
        BY <3>6, <4>2, Zenon DEF Apart
      <4>4. PICK cmd \in Bytes : cmd = f[1]
        <5>1. 1 \in 1..Len(f)
          BY <3>9, EmptySeq
        <5> QED  BY <5>1, ElementOfSeq, Zenon
      <4>5. ASSUME u.s.client # None, NEW y \in Seq(Bytes)
            PROVE  Pending(u, y) = Pending(t, y)
        <5>1. PICK X \in Seq(Bytes) : X = CommandsIn(rest \o y)
          BY <3>7, Zenon
        <5>2. Pending(u, y) = Append(A, cmd) \o X
          BY <2>5, <3>6, <4>2, <4>4, <4>5, <5>1, Zenon DEF Pending
        <5>3. Append(A, cmd) = A \o <<cmd>>
          BY AppendIsConcat, Zenon
        <5>4. <<cmd>> \in Seq(Bytes)
          OBVIOUS
        <5>5. (A \o <<cmd>>) \o X = A \o (<<cmd>> \o X)
          BY <5>4, Associate, SMTT(30)
        <5>6. CommandsIn(b \o y) = <<cmd>> \o X
          BY <3>3, <3>9, <4>4, <5>1, Zenon DEF Code
        <5> QED  BY <2>6, <5>2, <5>3, <5>5, <5>6, Zenon
      <4>6. CommandsIn(buf) # <<>>
        <5>1. PICK X \in Seq(Bytes) : X = CommandsIn(rest)
          BY CommandsTyped, Zenon
        <5>2. CommandsIn(b) = <<cmd>> \o X
          BY <2>7, <2>8, <3>3, <3>9, <4>4, <5>1, Zenon DEF Code
        <5>3. <<cmd>> \in Seq(Bytes) /\ Len(<<cmd>>) = 1
          OBVIOUS
        <5>4. PICK z \in Seq(Bytes) : z = <<cmd>> /\ Len(z) = 1
          BY <5>3, Zenon
        <5>5. Len(z \o X) = 1 + Len(X)
          BY <5>4, ConcatProperties, Zenon
        <5>6. Len(CommandsIn(b)) # 0
          BY <5>2, <5>4, <5>5
        <5> QED  BY <2>9, <5>6
      <4> QED  BY <2>2, <3>4, <3>6, <4>2, <4>3, <4>5, <4>6, Zenon
    <3> QED  BY <3>8, <3>9, Zenon
  <2> QED  BY <2>10, <2>11, Zenon
<1> QED  BY <1>1, <1>2, Zenon

LEMMA ServeFramesResult ==
  ASSUME Basics, NEW t, Fits(t), Sound(t), Informed(t), NEW disk, NEW err,
         NEW u, u = ServeFrames(t, disk, err)
  PROVE  /\ Fits(u) /\ Sound(u) /\ Informed(u) /\ Apart(t, u)
         /\ u.s.client # None =>
              /\ u.s.client = t.s.client
              /\ \A y \in Seq(Bytes) : Pending(u, y) = Pending(t, y)
              /\ CommandsIn(u.s.reader) = <<>>
<1> DEFINE P(v, n) == /\ Fits(v) /\ Sound(v) /\ Informed(v) /\ Apart(t, v)
                      /\ v.s.client # None =>
                           /\ v.s.client = t.s.client
                           /\ \A y \in Seq(Bytes) : Pending(v, y) = Pending(t, y)
                           /\ Len(v.s.reader) + n <= Len(t.s.reader) \/ CommandsIn(v.s.reader) = <<>>
<1>1. \A v : Fits(v) => v.s.reader \in Seq(Bytes) /\ Len(v.s.reader) \in Nat
  BY LenProperties, Zenon DEF Fits, Daemons, Sessions
<1>2. PICK m \in Nat : m = Len(t.s.reader)
  BY <1>1, Zenon
<1>3. PICK served : Serving(served, t, disk, err, m) /\ u = served[m]
  BY <1>2, ServeFramesStep, Zenon
<1>4. P(t, 0)
  BY <1>2 DEF Apart
<1>5. ASSUME NEW n \in Nat, NEW v, P(v, n), NEW w, w = ServeFrame(v, disk, err)
      PROVE  P(w, n + 1)
  <2>1. Fits(v) /\ Sound(v) /\ Informed(v) /\ Apart(t, v)
    BY <1>5, Zenon
  <2>2. /\ Fits(w) /\ Sound(w) /\ Informed(w) /\ Apart(v, w)
        /\ w.s.client # None =>
             /\ w.s.client = v.s.client
             /\ \A y \in Seq(Bytes) : Pending(w, y) = Pending(v, y)
             /\ Len(w.s.reader) < Len(v.s.reader) \/ CommandsIn(w.s.reader) = <<>>
             /\ CommandsIn(v.s.reader) = <<>> => CommandsIn(w.s.reader) = <<>>
    BY <1>5, <2>1, ServeFrameResult
  <2>3. v.s.client # None => v.s.client = t.s.client
    BY <1>5, Zenon
  <2>4. Apart(t, w)
    BY <2>1, <2>2, <2>3, ClientsAreNumbers, Zenon DEF Apart
  <2>5. ASSUME w.s.client # None
        PROVE  /\ w.s.client = t.s.client
               /\ \A y \in Seq(Bytes) : Pending(w, y) = Pending(t, y)
               /\ Len(w.s.reader) + (n + 1) <= Len(t.s.reader) \/ CommandsIn(w.s.reader) = <<>>
    <3>1. v.s.client # None /\ w.s.client = t.s.client
      BY <2>2, <2>3, <2>5, Zenon
    <3>2. \A y \in Seq(Bytes) : Pending(w, y) = Pending(t, y)
      BY <1>5, <2>2, <2>5, <3>1, Zenon
    <3>3. Len(v.s.reader) + n <= m \/ CommandsIn(v.s.reader) = <<>>
      BY <1>2, <1>5, <3>1, Zenon
    <3>4. PICK a \in Nat, b \in Nat : a = Len(v.s.reader) /\ b = Len(w.s.reader)
      BY <1>1, <2>1, <2>2, Zenon
    <3>5. a + n <= m /\ b < a => b + (n + 1) <= m
      OBVIOUS
    <3>6. Len(w.s.reader) + (n + 1) <= m \/ CommandsIn(w.s.reader) = <<>>
      BY <2>2, <2>5, <3>3, <3>4, <3>5, Zenon
    <3> QED  BY <1>2, <3>1, <3>2, <3>6, Zenon
  <2> QED  BY <2>2, <2>4, <2>5, Zenon
<1> DEFINE T == {n \in Nat : n <= m => P(served[n], n)}
<1> HIDE DEF P
<1>6. 0 \in T
  BY <1>3, <1>4, Zenon DEF Serving
<1>7. ASSUME NEW n \in T
      PROVE  n + 1 \in T
  <2> SUFFICES ASSUME n + 1 <= m
               PROVE  P(served[n + 1], n + 1)
    OBVIOUS
  <2>1. n \in Nat /\ n + 1 \in 1..m /\ (n + 1) - 1 = n /\ P(served[n], n)
    BY <1>7
  <2>2. served[n + 1] = ServeFrame(served[(n + 1) - 1], disk, err)
    BY <1>3, <2>1, Zenon DEF Serving
  <2> QED  BY <1>5, <2>1, <2>2, Zenon
<1>8. P(u, m)
  <2>1. T \in SUBSET Nat
    BY Zenon
  <2>2. m \in T
    <3> HIDE DEF T
    <3> QED  BY <1>6, <1>7, <2>1, SetInduction, Zenon
  <2> QED  BY <1>3, <2>2
<1>9. /\ Fits(u) /\ Sound(u) /\ Informed(u) /\ Apart(t, u)
      /\ u.s.client # None =>
           /\ u.s.client = t.s.client
           /\ \A y \in Seq(Bytes) : Pending(u, y) = Pending(t, y)
           /\ Len(u.s.reader) + m <= Len(t.s.reader) \/ CommandsIn(u.s.reader) = <<>>
  BY <1>8, Zenon DEF P
<1>10. u.s.client # None => CommandsIn(u.s.reader) = <<>>
  <2>1. PICK z \in Seq(Bytes) : z = u.s.reader
    BY <1>1, <1>9, Zenon
  <2>2. Len(z) + m <= m => Len(z) = 0
    BY LenProperties
  <2> QED  BY <1>2, <1>9, <2>1, <2>2, NoCommandsInNothing, Zenon
<1> QED  BY <1>9, <1>10, Zenon
-----------------------------------------------------------------------------
(***************************************************************************)
(* The delegate: pushes, and the session's data between them.              *)
(***************************************************************************)
\* The client is dropped, or told only what answers no command.
Pushed(t, u) ==
  /\ Fits(u) /\ Sound(u) /\ Apart(t, u)
  /\ u.s.client # None => /\ u.s.client = t.s.client /\ u.s.reader = t.s.reader
                          /\ Answers(StreamOf(u)) = Answers(StreamOf(t))

LEMMA PushedTwice ==
  ASSUME NEW t, NEW u, NEW v, Pushed(t, u), Pushed(u, v)
  PROVE  Pushed(t, v)
<1>1. u.s.client = None => v.s.client = None
  BY Zenon DEF Pushed
<1>2. Apart(t, v)
  BY <1>1, ClientsAreNumbers, Zenon DEF Pushed, Apart
<1> QED  BY <1>1, <1>2, Zenon DEF Pushed

LEMMA PushIsPushed ==
  ASSUME Basics, NEW t, Fits(t), Sound(t), NEW kind \in Kinds, kind # "no_more_messages"
  PROVE  /\ Pushed(t, Push(t, kind)) /\ Push(t, kind).s.contacts = t.s.contacts
         /\ Informed(t) \/ kind = "msg_waiting" => Informed(Push(t, kind))
<1>1. PICK u : u = Push(t, kind)
  BY Zenon
<1>2. /\ Fits(u) /\ Keeps(t, u) /\ Sound(u)
      /\ Informed(t) \/ kind = "msg_waiting" => Informed(u)
      /\ u.s.client # None => /\ u.s.client = t.s.client /\ u.s.reader = t.s.reader
                              /\ Answers(StreamOf(u)) = Answers(StreamOf(t))
  BY <1>1, PushResult, Zenon
<1> QED  BY <1>1, <1>2, Zenon DEF Pushed, Apart, Keeps

LEMMA SetData ==
  ASSUME NEW t, Fits(t), Sound(t), NEW x, SameServer(t.s, x), x.started = t.s.started,
         NEW u, u = [t EXCEPT !.s = x]
  PROVE  /\ Pushed(t, u) /\ u.s = x
         /\ Informed(t) /\ x.inbox = t.s.inbox => Informed(u)
<1>1. t \in Daemons /\ x \in Sessions /\ x.client = t.s.client /\ x.reader = t.s.reader /\ x.out = t.s.out
  BY Zenon DEF Fits, SameServer
<1>2. u \in Daemons /\ u.s = x /\ u.line = t.line
  BY <1>1, SetSession, Zenon
<1>3. Fits(u) /\ StreamOf(u) = StreamOf(t) /\ Apart(t, u)
  BY <1>1, <1>2, Zenon DEF Fits, StreamOf, Apart
<1>4. Sound(u)
  BY <1>1, <1>2, <1>3, Zenon DEF Sound
<1>5. Informed(t) /\ x.inbox = t.s.inbox => Informed(u)
  BY <1>1, <1>2, <1>3, Zenon DEF Informed
<1> QED  BY <1>1, <1>2, <1>3, <1>4, <1>5, Zenon DEF Pushed

LEMMA OnPathUpdatedResult ==
  ASSUME Basics, NEW t, Fits(t), Sound(t), Informed(t), NEW k
  PROVE  Pushed(t, OnPathUpdated(t, k)) /\ Informed(OnPathUpdated(t, k))
<1>1. t \in Daemons /\ t.s \in Sessions /\ t.s.contacts \in Tables
  BY Zenon DEF Fits, Daemons, Sessions
<1>2. PICK new \in Tables : new = [t.s.contacts EXCEPT ![k] = TRUE]
  BY <1>1, PathResult, Zenon
<1>3. PICK x : x = [t.s EXCEPT !.contacts = new]
  BY Zenon
<1>4. PICK u : u = [t EXCEPT !.s = x]
  BY Zenon
<1>5. [t EXCEPT !.s.contacts[k] = TRUE] = u
  BY <1>1, <1>2, <1>3, <1>4, Zenon DEF Daemons, Sessions
<1>6. SameServer(t.s, x) /\ x.started = t.s.started /\ x.inbox = t.s.inbox
  BY <1>1, <1>2, <1>3, Zenon DEF SameServer, Sessions
<1>7. Pushed(t, u) /\ Informed(u)
  BY <1>4, <1>6, SetData, Zenon
<1>8. "path_updated" \in Kinds
  BY Zenon DEF Kinds
<1>9. Pushed(u, Push(u, "path_updated")) /\ Informed(Push(u, "path_updated"))
  BY <1>7, <1>8, PushIsPushed, Zenon DEF Pushed
<1> QED  BY <1>5, <1>7, <1>9, PushedTwice, Zenon DEF OnPathUpdated

LEMMA OnMessageStoredResult ==
  ASSUME Basics, NEW t, Fits(t), Sound(t)
  PROVE  Pushed(t, OnMessageStored(t)) /\ Informed(OnMessageStored(t))
<1>1. t \in Daemons /\ t.s \in Sessions /\ t.s.inbox \in 0..InboxLimit /\ InboxLimit \in Nat
  BY CompanionAssumption, Zenon DEF Fits, Daemons, Sessions
<1>2. PICK n \in 0..InboxLimit : n = IF t.s.inbox < InboxLimit THEN t.s.inbox + 1 ELSE t.s.inbox
  BY <1>1
<1>3. PICK x : x = [t.s EXCEPT !.inbox = n]
  BY Zenon
<1>4. PICK u : u = [t EXCEPT !.s = x]
  BY Zenon
<1>5. [t EXCEPT !.s.inbox = IF @ < InboxLimit THEN @ + 1 ELSE @] = u
  BY <1>1, <1>2, <1>3, <1>4, Zenon DEF Daemons, Sessions
<1>6. SameServer(t.s, x) /\ x.started = t.s.started
  BY <1>1, <1>2, <1>3, Zenon DEF SameServer, Sessions
<1>7. Pushed(t, u)
  BY <1>4, <1>6, SetData, Zenon
<1>8. "msg_waiting" \in Kinds
  BY Zenon DEF Kinds
<1>9. Pushed(u, Push(u, "msg_waiting")) /\ Informed(Push(u, "msg_waiting"))
  BY <1>7, <1>8, PushIsPushed, Zenon DEF Pushed
<1> QED  BY <1>5, <1>7, <1>9, PushedTwice, Zenon DEF OnMessageStored

LEMMA OnContactChangedResult ==
  ASSUME Basics, NEW t, Fits(t), Sound(t), Informed(t), NEW isNew
  PROVE  Pushed(t, OnContactChanged(t, isNew)) /\ Informed(OnContactChanged(t, isNew))
<1>1. PICK told : told = IF isNew THEN Push(t, "new_advert") ELSE t
  BY Zenon
<1>2. "new_advert" \in Kinds
  BY Zenon DEF Kinds
<1>3. Pushed(t, told) /\ Informed(told)
  <2>1. Pushed(t, t)
    BY Zenon DEF Pushed, Apart
  <2>2. Pushed(t, Push(t, "new_advert")) /\ Informed(Push(t, "new_advert"))
    BY <1>2, PushIsPushed, Zenon
  <2> QED  BY <1>1, <2>1, <2>2, Zenon
<1>4. told \in Daemons /\ told.s \in Sessions
  BY <1>3, Zenon DEF Pushed, Fits, Daemons
<1>5. PICK x : x = [told.s EXCEPT !.dirty = TRUE]
  BY Zenon
<1>6. PICK u : u = [told EXCEPT !.s = x]
  BY Zenon
<1>7. OnContactChanged(t, isNew) = u
  <2>1. [told EXCEPT !.s.dirty = TRUE] = u
    BY <1>4, <1>5, <1>6, Zenon DEF Daemons, Sessions
  <2> QED  BY <1>1, <2>1, Zenon DEF OnContactChanged
<1>8. SameServer(told.s, x) /\ x.started = told.s.started /\ x.inbox = told.s.inbox
  BY <1>4, <1>5, Zenon DEF SameServer, Sessions
<1>9. Pushed(told, u) /\ Informed(u)
  BY <1>3, <1>6, <1>8, SetData DEF Pushed
<1> QED  BY <1>3, <1>7, <1>9, PushedTwice, Zenon

LEMMA AdvertisedResult ==
  ASSUME Basics, NEW t, Fits(t), Sound(t), Informed(t), NEW k \in Nat
  PROVE  Pushed(t, Advertised(t, k)) /\ Informed(Advertised(t, k))
<1>1. t \in Daemons /\ t.s \in Sessions /\ t.s.contacts \in Tables
  BY Zenon DEF Fits, Daemons, Sessions
<1>2. CASE IsFull(t.s.contacts, k)
  <2>1. Advertised(t, k) = t
    BY <1>2, Zenon DEF Advertised
  <2> QED  BY <2>1, Zenon DEF Pushed, Apart
<1>3. CASE ~IsFull(t.s.contacts, k)
  <2>1. PICK known \in BOOLEAN : known = (k \in DOMAIN t.s.contacts /\ t.s.contacts[k])
    <3>1. k \in DOMAIN t.s.contacts => t.s.contacts[k] \in BOOLEAN
      BY <1>1, Zenon DEF Tables
    <3> QED  BY <3>1, Zenon
  <2>2. PICK new \in Tables : new = Upsert(t.s.contacts, k, known)
    BY <1>1, <1>3, UpsertResult, Zenon
  <2>3. PICK x : x = [t.s EXCEPT !.contacts = new]
    BY Zenon
  <2>4. PICK u : u = [t EXCEPT !.s = x]
    BY Zenon
  <2>5. [t EXCEPT !.s.contacts = Upsert(@, k, k \in DOMAIN t.s.contacts /\ t.s.contacts[k])] = u
    BY <1>1, <2>1, <2>2, <2>3, <2>4, Zenon DEF Daemons, Sessions
  <2>6. SameServer(t.s, x) /\ x.started = t.s.started /\ x.inbox = t.s.inbox
    BY <1>1, <2>2, <2>3, Zenon DEF SameServer, Sessions
  <2>7. Pushed(t, u) /\ Informed(u)
    BY <2>4, <2>6, SetData, Zenon
  <2>8. PICK v : v = OnAdvertSeen(u)
    BY Zenon
  <2>9. "advert" \in Kinds
    BY Zenon DEF Kinds
  <2>10. Pushed(u, v) /\ Informed(v)
    BY <2>7, <2>8, <2>9, PushIsPushed, Zenon DEF Pushed, OnAdvertSeen
  <2>11. PICK w : w = OnContactChanged(v, ~(k \in DOMAIN t.s.contacts))
    BY Zenon
  <2>12. Pushed(v, w) /\ Informed(w)
    BY <2>10, <2>11, OnContactChangedResult, Zenon DEF Pushed
  <2>13. Advertised(t, k) = w
    BY <1>3, <2>5, <2>8, <2>11, Zenon DEF Advertised
  <2>14. Pushed(t, v)
    BY <2>7, <2>10, PushedTwice, Zenon
  <2> QED  BY <2>12, <2>13, <2>14, PushedTwice, Zenon
<1> QED  BY <1>2, <1>3, Zenon

LEMMA BringsResult ==
  ASSUME Basics, NEW t, Fits(t), Sound(t), Informed(t), NEW packet, NEW u \in Brings(t, packet)
  PROVE  Pushed(t, u) /\ Informed(u)
<1>1. Pushed(t, t)
  BY Zenon DEF Pushed, Apart
<1>2. "send_confirmed" \in Kinds
  BY Zenon DEF Kinds
<1>3. ASSUME NEW v, Fits(v), Sound(v), Informed(v)
      PROVE  Pushed(v, OnAck(v)) /\ Informed(OnAck(v))
  BY <1>2, <1>3, PushIsPushed, Zenon DEF OnAck
<1>4. CASE packet = "ack"
  <2>1. u = OnAck(t)
    BY <1>4, Zenon DEF Brings
  <2> QED  BY <1>3, <2>1, Zenon
<1>5. CASE packet = "message"
  <2>1. u = OnMessageStored(t)
    BY <1>5, Zenon DEF Brings
  <2> QED  BY <2>1, OnMessageStoredResult, Zenon
<1>6. CASE packet = "path"
  <2>1. PICK k : u = OnPathUpdated(t, k)
    BY <1>6, Zenon DEF Brings
  <2> QED  BY <2>1, OnPathUpdatedResult, Zenon
<1>7. CASE packet = "path with ack"
  <2>1. PICK k : u = OnAck(OnPathUpdated(t, k))
    BY <1>7, Zenon DEF Brings
  <2>2. PICK v : v = OnPathUpdated(t, k)
    BY Zenon
  <2>3. Pushed(t, v) /\ Informed(v)
    BY <2>2, OnPathUpdatedResult, Zenon
  <2>4. Pushed(v, u) /\ Informed(u)
    BY <1>3, <2>1, <2>2, <2>3, Zenon DEF Pushed
  <2> QED  BY <2>3, <2>4, PushedTwice, Zenon
<1>8. CASE packet = "advert"
  <2>1. PICK k \in Keys : u = Advertised(t, k)
    BY <1>8, Zenon DEF Brings
  <2>2. k \in Nat
    BY CompanionAssumption DEF Keys
  <2> QED  BY <2>1, <2>2, AdvertisedResult, Zenon
<1>9. CASE packet \notin {"ack", "message", "path", "path with ack", "advert"}
  <2>1. u = t
    BY <1>9, Zenon DEF Brings
  <2> QED  BY <1>1, <2>1, Zenon
<1> QED  BY <1>4, <1>5, <1>6, <1>7, <1>8, <1>9, Zenon
-----------------------------------------------------------------------------
(***************************************************************************)
(* The inductive invariant.                                                *)
(***************************************************************************)
World ==
  /\ script \in [Clients -> Seq(Bytes)] /\ cuts \in [Clients -> SUBSET Nat]
  /\ \A c \in Clients : cuts[c] \subseteq 0..Len(script[c])
  /\ news \in Seq(SUBSET Packets)
  /\ conn \in [Clients -> {"idle", "waiting", "open", "closed"}] /\ alive \subseteq Clients
  /\ written \in [Clients -> Nat] /\ got \in [Clients -> Nat]
  /\ \A c \in Clients : got[c] <= written[c] /\ written[c] <= Len(script[c])

\* The client is the one that is open, and one that has not been accepted has nothing.
Linked ==
  /\ \A c \in Clients : conn[c] = "open" <=> s.client = c
  /\ \A c \in Clients : conn[c] \in {"idle", "waiting"} => line[c] = <<>> /\ got[c] = 0

\* Whatever the client writes next, its commands are those that were answered and those
\* that the reader's buffer will give with it; the buffer alone gives none.
Read ==
  s.client # None =>
    /\ \A y \in Seq(Bytes) :
         CommandsIn(SubSeq(script[s.client], 1, got[s.client]) \o y) = Pending(Daemon, y)
    /\ CommandsIn(s.reader) = <<>>

IInv == World /\ Fits(Daemon) /\ Sound(Daemon) /\ Informed(Daemon) /\ Linked /\ Read

LEMMA DaemonFields ==
  /\ Daemon.s = s /\ Daemon.line = line
  /\ Daemon'.s = s' /\ Daemon'.line = line'
  BY Zenon DEF Daemon

LEMMA ReadPrefix ==
  ASSUME NEW z \in Seq(Bytes), NEW n \in Nat, NEW m \in Nat, n <= m, m <= Len(z)
  PROVE  /\ SubSeq(z, 1, n) \in Seq(Bytes) /\ SubSeq(z, n + 1, m) \in Seq(Bytes)
         /\ SubSeq(z, 1, n) \o SubSeq(z, n + 1, m) = SubSeq(z, 1, m)
<1>1. \A i \in 1..Len(z) : z[i] \in Bytes
  BY ElementOfSeq, Zenon
<1>2. (\A i \in 1..n : z[i] \in Bytes) /\ \A i \in n + 1..m : z[i] \in Bytes
  BY <1>1
<1>3. 1 \in Int /\ n \in Int /\ m \in Int /\ n + 1 \in Int
  OBVIOUS
<1>4. SubSeq(z, 1, n) \in Seq(Bytes) /\ SubSeq(z, n + 1, m) \in Seq(Bytes)
  BY <1>2, <1>3, SubSeqProperties
<1>5. 1 \in 1..Len(z) + 1 /\ n \in 1 - 1..Len(z) /\ m \in n..Len(z)
  OBVIOUS
<1> QED  BY <1>4, <1>5, ConcatAdjacentSubSeq, Zenon

(* The invariant gives the properties.                                     *)
LEMMA InvariantSuffices ==
  ASSUME Basics, IInv
  PROVE  TypeOK /\ OwnWholeFrames /\ PushedAfterStart /\ WaitingIsAnnounced /\ AnsweredOnceInOrder
<1>1. s \in Sessions /\ line \in [Clients -> Seq(Halves)] /\ Daemon \in Daemons
  BY DaemonFields, Zenon DEF IInv, Fits, Daemons
<1>2. TypeOK
  <2>1. s.client \in Clients \cup {None} /\ conn \in [Clients -> {"idle", "waiting", "open", "closed"}]
    BY <1>1, Zenon DEF IInv, World, Sessions
  <2>2. \A c \in Clients : conn[c] = "open" <=> s.client = c
    BY Zenon DEF IInv, Linked
  <2>3. \A i \in DOMAIN s.out : s.out[i] \in Halves
    <3>1. PICK o \in Seq(Halves) : o = s.out
      BY <1>1, Zenon DEF Sessions
    <3>2. \A i \in DOMAIN o : o[i] \in Halves
      BY ElementOfSeq, LenProperties, Zenon
    <3> QED  BY <3>1, <3>2, Zenon
  <2>4. /\ s.events \in {"none", "in", "inout"}
        /\ s.started \in BOOLEAN /\ s.inbox \in 0..InboxLimit
        /\ s.channels \subseteq 0..MaxChannels - 1
    BY <1>1, Zenon DEF Sessions
  <2>5. Cardinality(DOMAIN s.contacts) <= MaxContacts
    BY <1>1, Zenon DEF Sessions, Tables
  <2>6. \A c \in Clients : got[c] <= written[c] /\ written[c] <= Len(script[c])
    BY Zenon DEF IInv, World
  <2>7. \A c \in Clients : Len(line[c]) - drained[c] \in 0..Room
    BY DaemonFields, Zenon DEF IInv, Fits
  <2> QED  BY <2>1, <2>2, <2>3, <2>4, <2>5, <2>6, <2>7, Zenon DEF TypeOK
<1>3. Stream = StreamOf(Daemon)
  BY DaemonFields, Zenon DEF Stream, StreamOf
<1>4. ASSUME s.client # None
      PROVE  /\ Own(s.client, Stream) /\ AfterStart(Stream) /\ Len(s.out) <= MaxOutbound
             /\ s.started /\ s.inbox > 0 => Told(Stream)
             /\ Answers(Stream) \in Seq(Bytes)
  <2>1. Own(s.client, Stream) /\ AfterStart(Stream)
    BY <1>3, <1>4, DaemonFields, Zenon DEF IInv, Sound
  <2>2. s.started /\ s.inbox > 0 => Told(Stream)
    BY <1>3, <1>4, DaemonFields, Zenon DEF IInv, Informed
  <2>3. Answers(Stream) \in Seq(Bytes)
    BY <1>1, <1>3, <1>4, StreamTyped, AnswersTyped, DaemonFields, Zenon
  <2>4. Len(s.out) <= MaxOutbound
    BY DaemonFields, Zenon DEF IInv, Fits
  <2> QED  BY <2>1, <2>2, <2>3, <2>4, Zenon
<1>5. OwnWholeFrames
  BY <1>4, Zenon DEF OwnWholeFrames, Own
<1>6. PushedAfterStart
  BY <1>4, Zenon DEF PushedAfterStart, AfterStart
<1>7. WaitingIsAnnounced
  BY <1>4, Zenon DEF WaitingIsAnnounced, Told
<1>8. AnsweredOnceInOrder
  <2> SUFFICES ASSUME s.client # None
               PROVE  Answers(Stream) = CommandsIn(SubSeq(script[s.client], 1, got[s.client]))
    BY Zenon DEF AnsweredOnceInOrder
  <2>1. s.client \in Clients
    BY <1>1, Zenon DEF Sessions
  <2>2. /\ script[s.client] \in Seq(Bytes) /\ got[s.client] \in Nat /\ written[s.client] \in Nat
        /\ got[s.client] <= written[s.client] /\ written[s.client] <= Len(script[s.client])
    BY <2>1, Zenon DEF IInv, World
  <2>3. PICK z \in Seq(Bytes) : z = SubSeq(script[s.client], 1, got[s.client])
    BY <2>2, ReadPrefix, Zenon
  <2>4. PICK b \in Seq(Bytes) : b = s.reader
    BY <1>1, Zenon DEF Sessions
  <2>5. z \o <<>> = z /\ b \o <<>> = b /\ <<>> \in Seq(Bytes)
    BY ConcatEmptySeq, EmptySeq, Zenon
  <2>6. CommandsIn(z \o <<>>) = Pending(Daemon, <<>>) /\ CommandsIn(b) = <<>>
    BY <2>3, <2>4, <2>5, Zenon DEF IInv, Read
  <2>7. CommandsIn(z) = Answers(Stream) \o <<>>
    BY <1>3, <2>4, <2>5, <2>6, DaemonFields, Zenon DEF Pending
  <2> QED  BY <1>4, <2>3, <2>7, ConcatEmptySeq, Zenon
<1> QED  BY <1>2, <1>5, <1>6, <1>7, <1>8, Zenon

(* What a callback leaves, t, keeps the invariant.                         *)
LEMMA BecomesResult ==
  ASSUME IInv, NEW t, Fits(t), Sound(t), Informed(t), Apart(Daemon, t), Becomes(t),
         t.s.client # None => t.s.client = s.client,
         UNCHANGED <<script, cuts, alive, written, drained>>, news' \in Seq(SUBSET Packets),
         got' \in [Clients -> Nat],
         \A c \in Clients : got'[c] <= written[c] /\ (c # s.client => got'[c] = got[c]),
         t.s.client # None =>
           /\ \A y \in Seq(Bytes) :
                CommandsIn(SubSeq(script[s.client], 1, got'[s.client]) \o y) = Pending(t, y)
           /\ CommandsIn(t.s.reader) = <<>>
  PROVE  IInv'
<1>1. /\ s' = t.s /\ line' = t.line
      /\ conn' = [c \in Clients |-> IF c = s.client /\ t.s.client # c THEN "closed" ELSE conn[c]]
  BY Zenon DEF Becomes
<1>2. Daemon' = t
  BY <1>1, Zenon DEF Daemon, Fits, Daemons
<1>3. World'
  <2>1. conn' \in [Clients -> {"idle", "waiting", "open", "closed"}]
    BY <1>1, Zenon DEF IInv, World
  <2>2. \A c \in Clients : written[c] <= Len(script[c])
    BY Zenon DEF IInv, World
  <2> QED  BY <2>1, <2>2, Zenon DEF IInv, World
<1>4. Fits(Daemon)'
  BY <1>2, Zenon DEF Fits
<1>5. Sound(Daemon)'
  BY <1>2, Zenon DEF Sound
<1>6. Informed(Daemon)'
  BY <1>2, Zenon DEF Informed
<1>7. Linked'
  <2>1. ASSUME NEW c \in Clients
        PROVE  /\ conn'[c] = "open" <=> s'.client = c
               /\ conn'[c] \in {"idle", "waiting"} => line'[c] = <<>> /\ got'[c] = 0
    <3>1. c # None
      BY ClientsAreNumbers, Zenon
    <3>2. /\ conn[c] = "open" <=> s.client = c
          /\ conn[c] \in {"idle", "waiting"} => line[c] = <<>> /\ got[c] = 0
      BY Zenon DEF IInv, Linked
    <3>3. CASE c = s.client
      <4>1. conn'[c] = IF t.s.client # c THEN "closed" ELSE "open"
        BY <1>1, <3>2, <3>3, Zenon
      <4> QED  BY <1>1, <4>1, Zenon
    <3>4. CASE c # s.client
      <4>1. conn'[c] = conn[c] /\ line'[c] = line[c] /\ got'[c] = got[c]
        BY <1>1, <3>4, DaemonFields, Zenon DEF Apart
      <4> QED  BY <1>1, <3>1, <3>2, <3>4, <4>1, Zenon
    <3> QED  BY <3>3, <3>4, Zenon
  <2> QED  BY <2>1, Zenon DEF Linked
<1>8. Read'
  <2>1. ASSUME s'.client # None
        PROVE  /\ \A y \in Seq(Bytes) :
                    CommandsIn(SubSeq(script'[s'.client], 1, got'[s'.client]) \o y) = Pending(t, y)
               /\ CommandsIn(s'.reader) = <<>>
    BY <1>1, <2>1, Zenon
  <2> QED  BY <1>2, <2>1, Zenon DEF Read
<1> QED  BY <1>3, <1>4, <1>5, <1>6, <1>7, <1>8, Zenon DEF IInv

LEMMA InitInvariant ==
  ASSUME Basics
  PROVE  Init => IInv
<1> SUFFICES ASSUME Init PROVE IInv
  BY Zenon
<1>1. PICK w \in Scenarios : script = w.writes /\ cuts = w.cuts /\ news = w.news
  BY Zenon DEF Init
<1>2. /\ written = [c \in Clients |-> 0] /\ got = written /\ drained = written
      /\ line = [c \in Clients |-> <<>>] /\ conn = [c \in Clients |-> "idle"] /\ alive = Clients
  BY Zenon DEF Init
<1>3. /\ s.client = None /\ s.out = <<>> /\ s.inbox = 0
  BY Zenon DEF Init
<1>4. \A c \in Clients : c # None
  BY ClientsAreNumbers, Zenon
<1>5. World
  <2>1. /\ script \in [Clients -> Seq(Bytes)] /\ cuts \in [Clients -> SUBSET Nat]
        /\ \A c \in Clients : cuts[c] \subseteq 0..Len(script[c])
        /\ news \in Seq(SUBSET Packets)
    BY <1>1, CompanionAssumption, Zenon
  <2>2. \A c \in Clients : Len(script[c]) \in Nat
    BY <2>1, LenProperties, Zenon
  <2> QED  BY <1>2, <2>1, <2>2 DEF World
<1>6. s \in Sessions
  <2>1. PICK e : e = <<>> /\ e \in Seq(Bytes) /\ e \in Seq(Halves)
    BY EmptySeq, Zenon
  <2>2. <<>> \in Tables
    <3>1. DOMAIN <<>> = {} /\ <<>> \in [{} -> BOOLEAN]
      OBVIOUS
    <3>2. IsFiniteSet({}) /\ Cardinality({}) = 0
      BY Zenon DEF Basics
    <3>3. 0 <= MaxContacts
      BY CompanionAssumption
    <3>4. {} \in SUBSET Nat
      BY Zenon
    <3>5. <<>> \in UNION {[D -> BOOLEAN] : D \in SUBSET Nat}
      BY <3>1, <3>4, Zenon
    <3> QED  BY <3>1, <3>2, <3>3, <3>5, Zenon DEF Tables
  <2>3. 0 \in 0..InboxLimit /\ {0} \in SUBSET (0..MaxChannels - 1)
    BY CompanionAssumption
  <2>4. PICK none \in Tables : none = <<>>
    BY <2>2, Zenon
  <2>5. s = [client |-> None, reader |-> e, out |-> e, events |-> "none", started |-> FALSE,
             inbox |-> 0, contacts |-> none, channels |-> {0}, clock |-> FALSE,
             dirty |-> FALSE, healthy |-> TRUE]
    BY <2>1, <2>4, Zenon DEF Init
  <2> QED  BY <2>1, <2>3, <2>5, Zenon DEF Sessions
<1>7. Fits(Daemon)
  <2>1. line \in [Clients -> Seq(Halves)]
    BY <1>2, EmptySeq, Zenon
  <2>2. Daemon \in Daemons
    BY <1>6, <2>1, Zenon DEF Daemon, Daemons
  <2>3. drained \in [Clients -> Nat]
    BY <1>2, Zenon
  <2>4. Len(s.out) <= MaxOutbound
    BY <1>3, CompanionAssumption
  <2>5. ASSUME NEW c \in Clients
        PROVE  Len(line[c]) - drained[c] \in 0..Room
    <3>1. Len(line[c]) = 0 /\ drained[c] = 0
      BY <1>2, Zenon
    <3> QED  BY <3>1, CompanionAssumption
  <2> QED  BY <2>2, <2>3, <2>4, <2>5, DaemonFields, Zenon DEF Fits
<1>8. Sound(Daemon) /\ Informed(Daemon) /\ Read
  BY <1>3, DaemonFields, Zenon DEF Sound, Informed, Read
<1>9. Linked
  BY <1>2, <1>3, <1>4, Zenon DEF Linked
<1> QED  BY <1>5, <1>7, <1>8, <1>9, Zenon DEF IInv

LEMMA OnClientReadyKeeps ==
  ASSUME Basics, IInv, OnClientReady
  PROVE  IInv'
<1> DEFINE c == s.client
           chunk == SubSeq(script[c], got[c] + 1, written[c])
           flushed == IF Writable(c) THEN Flush(Daemon) ELSE Daemon
           fed == [flushed EXCEPT !.s.reader = @ \o chunk]
<1>1. c = s.client
  BY Zenon
<1>2. chunk = SubSeq(script[c], got[c] + 1, written[c])
  BY Zenon
<1>3. flushed = IF Writable(c) THEN Flush(Daemon) ELSE Daemon
  BY Zenon
<1>4. fed = [flushed EXCEPT !.s.reader = @ \o chunk]
  BY Zenon
<1>5. /\ c # None
      /\ \E disk, hup \in BOOLEAN, err \in {"None", "NoSharedSecret", "PendingFull", "TooLong"} :
           Becomes(IF c \notin alive /\ (hup \/ chunk = <<>>)
                   THEN DropClient(IF flushed.s.client = None THEN flushed ELSE ServeFrames(fed, disk, err))
                   ELSE IF flushed.s.client = None THEN flushed ELSE ServeFrames(fed, disk, err))
      /\ got' = [got EXCEPT ![c] = written[c]]
      /\ UNCHANGED <<script, cuts, alive, written, drained, news>>
  BY Zenon DEF OnClientReady, ClientReady
<1> HIDE DEF c, chunk, flushed, fed
<1>6. PICK disk, hup, err :
        Becomes(IF c \notin alive /\ (hup \/ chunk = <<>>)
                THEN DropClient(IF flushed.s.client = None THEN flushed ELSE ServeFrames(fed, disk, err))
                ELSE IF flushed.s.client = None THEN flushed ELSE ServeFrames(fed, disk, err))
  BY <1>5, Zenon
<1>7. PICK ready : ready = IF flushed.s.client = None THEN flushed ELSE ServeFrames(fed, disk, err)
  BY Zenon
<1>8. PICK t : t = IF c \notin alive /\ (hup \/ chunk = <<>>) THEN DropClient(ready) ELSE ready
  BY Zenon
<1>9. Becomes(t)
  BY <1>6, <1>7, <1>8, Zenon
<1>10. /\ Fits(Daemon) /\ Sound(Daemon) /\ Informed(Daemon) /\ Daemon.s = s /\ Daemon.line = line
       /\ Daemon \in Daemons /\ s \in Sessions
  BY DaemonFields, Zenon DEF IInv, Fits, Daemons
<1>11. c \in Clients
  BY <1>1, <1>5, <1>10, Zenon DEF Sessions
<1>12. /\ script[c] \in Seq(Bytes) /\ got[c] \in Nat /\ written[c] \in Nat
       /\ got[c] <= written[c] /\ written[c] <= Len(script[c])
  BY <1>11, Zenon DEF IInv, World
<1>13. /\ SubSeq(script[c], 1, got[c]) \in Seq(Bytes) /\ chunk \in Seq(Bytes)
       /\ SubSeq(script[c], 1, got[c]) \o chunk = SubSeq(script[c], 1, written[c])
  BY <1>2, <1>12, ReadPrefix, Zenon
<1>14. /\ Fits(flushed) /\ Sound(flushed) /\ Informed(flushed) /\ Apart(Daemon, flushed)
       /\ flushed.s.client # None =>
            flushed.s.client = c /\ flushed.s.reader = s.reader /\ StreamOf(flushed) = StreamOf(Daemon)
  <2>1. CASE ~Writable(c)
    <3>1. flushed = Daemon
      BY <1>3, <2>1, Zenon
    <3> QED  BY <1>1, <1>10, <3>1, Zenon DEF Apart
  <2>2. CASE Writable(c)
    <3>1. flushed = Flush(Daemon)
      BY <1>3, <2>2, Zenon
    <3>2. Grows(Daemon, flushed, <<>>)
      BY <1>10, <3>1, FlushResult, Zenon
    <3>3. Fits(flushed) /\ Keeps(Daemon, flushed) /\ Apart(Daemon, flushed)
      BY <3>2, Zenon DEF Grows, Keeps, Apart
    <3>4. StreamOf(Daemon) \o <<>> = StreamOf(Daemon)
      BY <1>1, <1>5, <1>10, StreamTyped, ConcatEmptySeq, Zenon
    <3>5. flushed.s.client # None =>
            flushed.s.client = c /\ flushed.s.reader = s.reader /\ StreamOf(flushed) = StreamOf(Daemon)
      BY <1>1, <1>10, <3>2, <3>4, Zenon DEF Grows
    <3>6. Sound(flushed) /\ Informed(flushed)
      BY <1>1, <1>10, <3>3, <3>5, Zenon DEF Sound, Informed, Keeps
    <3> QED  BY <3>3, <3>5, <3>6, Zenon
  <2> QED  BY <2>1, <2>2, Zenon
<1>15. PICK A : A = Answers(StreamOf(Daemon))
  BY Zenon
<1>16. PICK rd \in Seq(Bytes) : rd = s.reader
  BY <1>10, Zenon DEF Sessions
<1>17. /\ Fits(ready) /\ Sound(ready) /\ Informed(ready) /\ Apart(Daemon, ready)
       /\ ready.s.client # None =>
            /\ ready.s.client = c
            /\ \A y \in Seq(Bytes) : Pending(ready, y) = A \o CommandsIn((rd \o chunk) \o y)
            /\ CommandsIn(ready.s.reader) = <<>>
  <2>1. CASE flushed.s.client = None
    <3>1. ready = flushed
      BY <1>7, <2>1, Zenon
    <3> QED  BY <1>14, <2>1, <3>1, Zenon
  <2>2. CASE flushed.s.client # None
    <3>1. flushed.s.reader = rd /\ StreamOf(flushed) = StreamOf(Daemon) /\ flushed.s.client = c
      BY <1>14, <1>16, <2>2, Zenon
    <3>2. PICK b \in Seq(Bytes) : b = rd \o chunk
      BY <1>13, ConcatProperties, Zenon
    <3>3. fed = WithReader(flushed, b)
      <4>1. flushed \in Daemons /\ flushed.s \in Sessions
        BY <1>14, Zenon DEF Fits, Daemons
      <4> QED  BY <1>4, <3>1, <3>2, <4>1, Zenon DEF WithReader, Daemons, Sessions
    <3>4. /\ Fits(fed) /\ Sound(fed) /\ Informed(fed) /\ Apart(flushed, fed)
          /\ fed.s.client = flushed.s.client /\ fed.s.reader = b /\ StreamOf(fed) = StreamOf(flushed)
      BY <1>14, <3>3, SetReader, SMTT(30)
    <3>5. ready = ServeFrames(fed, disk, err)
      BY <1>7, <2>2, Zenon
    <3>6. /\ Fits(ready) /\ Sound(ready) /\ Informed(ready) /\ Apart(fed, ready)
          /\ ready.s.client # None =>
               /\ ready.s.client = fed.s.client
               /\ \A y \in Seq(Bytes) : Pending(ready, y) = Pending(fed, y)
               /\ CommandsIn(ready.s.reader) = <<>>
      BY <3>4, <3>5, ServeFramesResult, SMTT(30)
    <3>7. Apart(Daemon, ready)
      BY <1>1, <1>10, <1>14, <3>1, <3>4, <3>6, Zenon DEF Apart
    <3>8. \A y : Pending(fed, y) = A \o CommandsIn((rd \o chunk) \o y)
      BY <1>15, <3>1, <3>2, <3>4, Zenon DEF Pending
    <3> QED  BY <3>1, <3>4, <3>6, <3>7, <3>8, Zenon
  <2> QED  BY <2>1, <2>2, Zenon
<1>18. /\ Fits(t) /\ Sound(t) /\ Informed(t) /\ Apart(Daemon, t)
       /\ t.s.client # None => t = ready
  <2>1. CASE t = ready
    BY <1>17, <2>1, Zenon
  <2>2. CASE t = DropClient(ready)
    <3>1. t.s.client = None /\ Fits(t) /\ Keeps(ready, t)
      BY <1>17, <2>2, DropClientResult, Zenon DEF Grows
    <3>2. Sound(t) /\ Informed(t)
      BY <3>1, Zenon DEF Sound, Informed
    <3>3. \A b \in Clients : b # ready.s.client => t.line[b] = ready.line[b]
      BY <3>1, Zenon DEF Keeps
    <3>4. ready.s.client = None \/ ready.s.client = Daemon.s.client
      BY <1>1, <1>10, <1>17, Zenon
    <3>5. Apart(Daemon, t)
      BY <1>17, <3>3, <3>4, ClientsAreNumbers, Zenon DEF Apart
    <3> QED  BY <3>1, <3>2, <3>5, Zenon
  <2> QED  BY <1>8, <2>1, <2>2, Zenon
<1>19. ASSUME t.s.client # None
       PROVE  /\ \A y \in Seq(Bytes) :
                   CommandsIn(SubSeq(script[s.client], 1, got'[s.client]) \o y) = Pending(t, y)
              /\ CommandsIn(t.s.reader) = <<>>
  <2>1. t = ready /\ got'[c] = written[c]
    BY <1>5, <1>11, <1>18, <1>19, Zenon DEF IInv, World
  <2>2. ASSUME NEW y \in Seq(Bytes)
        PROVE  CommandsIn(SubSeq(script[c], 1, written[c]) \o y) = Pending(t, y)
    <3>1. PICK p \in Seq(Bytes) : p = SubSeq(script[c], 1, got[c])
      BY <1>13, Zenon
    <3>2. chunk \o y \in Seq(Bytes)
      BY <1>13, ConcatProperties, Zenon
    <3>3. (p \o chunk) \o y = p \o (chunk \o y) /\ (rd \o chunk) \o y = rd \o (chunk \o y)
      <4>1. PICK k \in Seq(Bytes) : k = chunk
        BY <1>13, Zenon
      <4>2. (p \o k) \o y = p \o (k \o y)
        BY Associate, SMTT(30)
      <4>3. (rd \o k) \o y = rd \o (k \o y)
        BY Associate, SMTT(30)
      <4> QED  BY <4>1, <4>2, <4>3, Zenon
    <3>4. CommandsIn(p \o (chunk \o y)) = Pending(Daemon, chunk \o y)
      BY <1>1, <1>5, <3>1, <3>2, Zenon DEF IInv, Read
    <3>5. Pending(Daemon, chunk \o y) = A \o CommandsIn(rd \o (chunk \o y))
      BY <1>10, <1>15, <1>16, Zenon DEF Pending
    <3>6. Pending(t, y) = A \o CommandsIn((rd \o chunk) \o y)
      BY <1>17, <1>19, <2>1, Zenon
    <3> QED  BY <1>13, <3>1, <3>3, <3>4, <3>5, <3>6, Zenon
  <2> QED  BY <1>1, <1>17, <1>19, <2>1, <2>2, Zenon
<1>20. /\ got' \in [Clients -> Nat]
       /\ \A b \in Clients : got'[b] <= written[b] /\ (b # s.client => got'[b] = got[b])
  <2>1. got \in [Clients -> Nat] /\ \A b \in Clients : got[b] <= written[b] /\ written[b] \in Nat
    BY Zenon DEF IInv, World
  <2> QED  BY <1>1, <1>5, <1>11, <1>12, <2>1, SMTT(30)
<1>21. news' \in Seq(SUBSET Packets) /\ UNCHANGED <<script, cuts, alive, written, drained>>
  BY <1>5, Zenon DEF IInv, World
<1>22. t.s.client # None => t.s.client = s.client
  BY <1>1, <1>17, <1>18, Zenon
<1> QED  BY <1>9, <1>18, <1>19, <1>20, <1>21, <1>22, BecomesResult, Zenon

LEMMA OnClientErrorKeeps ==
  ASSUME IInv, OnClientError
  PROVE  IInv'
<1>1. PICK t : t = DropClient(Daemon)
  BY Zenon
<1>2. Becomes(t) /\ UNCHANGED <<script, cuts, alive, written, drained, got, news>>
  BY <1>1, Zenon DEF OnClientError
<1>3. Fits(Daemon)
  BY Zenon DEF IInv
<1>4. t.s.client = None /\ Fits(t) /\ Keeps(Daemon, t)
  BY <1>1, <1>3, DropClientResult, Zenon DEF Grows
<1>5. Sound(t) /\ Informed(t) /\ Apart(Daemon, t)
  BY <1>4, Zenon DEF Sound, Informed, Apart, Keeps
<1>6. /\ got' \in [Clients -> Nat]
      /\ \A c \in Clients : got'[c] <= written[c] /\ (c # s.client => got'[c] = got[c])
      /\ news' \in Seq(SUBSET Packets)
  BY <1>2, Zenon DEF IInv, World
<1> QED  BY <1>2, <1>4, <1>5, <1>6, BecomesResult, Zenon

LEMMA HearKeeps ==
  ASSUME Basics, IInv, Hear
  PROVE  IInv'
<1>1. PICK packet \in Head(news) : \E b \in Brings(OnRawRx(Daemon), packet), touched \in BOOLEAN :
        Becomes([b EXCEPT !.s.dirty = @ \/ touched])
  BY Zenon DEF Hear
<1>2. PICK b \in Brings(OnRawRx(Daemon), packet), touched \in BOOLEAN :
        Becomes([b EXCEPT !.s.dirty = @ \/ touched])
  BY <1>1, Zenon
<1> DEFINE t == [b EXCEPT !.s.dirty = @ \/ touched]
           x == [b.s EXCEPT !.dirty = @ \/ touched]
<1>3. news # <<>> /\ news' = Tail(news) /\ UNCHANGED <<script, cuts, alive, written, drained, got>>
  BY Zenon DEF Hear
<1>4. Fits(Daemon) /\ Sound(Daemon) /\ Informed(Daemon) /\ Daemon.s = s
  BY DaemonFields, Zenon DEF IInv
<1>5. PICK raw : raw = OnRawRx(Daemon)
  BY Zenon
<1>6. "log_rx_data" \in Kinds
  BY Zenon DEF Kinds
<1>7. Pushed(Daemon, raw) /\ Informed(raw)
  BY <1>4, <1>5, <1>6, PushIsPushed, Zenon DEF OnRawRx
<1>8. Pushed(raw, b) /\ Informed(b)
  BY <1>2, <1>5, <1>7, BringsResult, Zenon DEF Pushed
<1>9. Pushed(Daemon, t) /\ Informed(t)
  <2>1. Pushed(Daemon, b) /\ Fits(b) /\ Sound(b)
    BY <1>7, <1>8, PushedTwice, Zenon DEF Pushed
  <2>2. b \in Daemons /\ b.s \in Sessions
    BY <2>1, Zenon DEF Fits, Daemons
  <2>3. t = [b EXCEPT !.s = x]
    BY <2>2, Zenon
  <2>4. SameServer(b.s, x) /\ x.started = b.s.started /\ x.inbox = b.s.inbox
    BY <2>2, Zenon DEF SameServer, Sessions
  <2> HIDE DEF t, x
  <2>5. Pushed(b, t) /\ Informed(t)
    BY <1>8, <2>1, <2>3, <2>4, SetData, Zenon
  <2> QED  BY <2>1, <2>5, PushedTwice, Zenon
<1> HIDE DEF t
<1>10. /\ Fits(t) /\ Sound(t) /\ Apart(Daemon, t)
       /\ t.s.client # None => /\ t.s.client = s.client /\ t.s.reader = s.reader
                               /\ Answers(StreamOf(t)) = Answers(StreamOf(Daemon))
  BY <1>4, <1>9, Zenon DEF Pushed
<1>11. ASSUME t.s.client # None
       PROVE  /\ \A y \in Seq(Bytes) :
                   CommandsIn(SubSeq(script[s.client], 1, got'[s.client]) \o y) = Pending(t, y)
              /\ CommandsIn(t.s.reader) = <<>>
  <2>1. s.client # None /\ got' = got
    BY <1>3, <1>10, <1>11, Zenon
  <2>2. \A y : Pending(t, y) = Pending(Daemon, y)
    BY <1>4, <1>10, <1>11, Zenon DEF Pending
  <2> QED  BY <1>10, <1>11, <2>1, <2>2, Zenon DEF IInv, Read
<1>12. /\ got' \in [Clients -> Nat]
       /\ \A c \in Clients : got'[c] <= written[c] /\ (c # s.client => got'[c] = got[c])
  BY <1>3, Zenon DEF IInv, World
<1>13. Becomes(t)
  BY <1>2, Zenon DEF t
<1>14. news' \in Seq(SUBSET Packets)
  BY <1>3, HeadTailProperties, Zenon DEF IInv, World
<1> QED  BY <1>3, <1>9, <1>10, <1>11, <1>12, <1>13, <1>14, BecomesResult, Zenon

LEMMA FlushStateKeeps ==
  ASSUME IInv, FlushState
  PROVE  IInv'
<1>1. PICK ok \in BOOLEAN : s' = [s EXCEPT !.dirty = ~ok, !.healthy = ok]
  BY Zenon DEF FlushState
<1>2. UNCHANGED <<script, cuts, conn, alive, written, drained, got, line, news>>
  BY Zenon DEF FlushState
<1>3. Fits(Daemon) /\ Sound(Daemon) /\ Informed(Daemon) /\ Daemon.s = s /\ Daemon.line = line /\ s \in Sessions
  BY DaemonFields, Zenon DEF IInv, Fits, Daemons
<1>4. /\ SameServer(s, s') /\ s'.started = s.started /\ s'.inbox = s.inbox
      /\ s'.client = s.client /\ s'.reader = s.reader /\ s'.out = s.out
  BY <1>1, <1>3, Zenon DEF SameServer, Sessions
<1>5. PICK u : u = Daemon'
  BY Zenon
<1>6. PICK x : x = s'
  BY Zenon
<1>7. u = [Daemon EXCEPT !.s = x]
  BY <1>2, <1>5, <1>6 DEF Daemon
<1>8. Pushed(Daemon, u) /\ Informed(u)
  BY <1>3, <1>4, <1>6, <1>7, SetData, Zenon
<1>9. Fits(Daemon)'
  BY <1>2, <1>5, <1>8, Zenon DEF Pushed, Fits
<1>10. Sound(Daemon)'
  BY <1>5, <1>8, Zenon DEF Pushed, Sound
<1>11. Informed(Daemon)'
  BY <1>5, <1>8, Zenon DEF Informed
<1>12. World' /\ Linked'
  BY <1>2, <1>4, Zenon DEF IInv, World, Linked
<1>13. Read'
  <2>1. \A y : Pending(u, y) = Pending(Daemon, y)
    <3>1. u.s = s' /\ u.line = line
      BY <1>2, <1>5, DaemonFields, Zenon
    <3>2. StreamOf(u) = StreamOf(Daemon)
      BY <1>3, <1>4, <3>1, Zenon DEF StreamOf
    <3> QED  BY <1>3, <1>4, <3>1, <3>2, Zenon DEF Pending
  <2> QED  BY <1>2, <1>4, <1>5, <2>1, Zenon DEF IInv, Read
<1> QED  BY <1>9, <1>10, <1>11, <1>12, <1>13, Zenon DEF IInv

LEMMA AcceptKeeps ==
  ASSUME Basics, IInv, Accept
  PROVE  IInv'
<1>1. PICK c \in Newcomer, usable \in BOOLEAN : AcceptClient(c, usable)
  BY Zenon DEF Accept
<1>2. c \in Clients /\ conn[c] = "waiting"
  BY Zenon DEF Newcomer
<1>3. Fits(Daemon) /\ Daemon.s = s /\ Daemon.line = line /\ s \in Sessions /\ Daemon \in Daemons
  BY DaemonFields, Zenon DEF IInv, Fits, Daemons
<1>4. line[c] = <<>> /\ got[c] = 0 /\ s.client # c
  BY <1>2, Zenon DEF IInv, Linked
<1>5. PICK dropped : dropped = IF s.client = None THEN s ELSE DropClient(Daemon).s
  BY Zenon
<1>6. PICK taken : taken = [dropped EXCEPT !.client = c, !.reader = <<>>, !.out = Emptied(@), !.events = "in"]
  BY Zenon
<1>7. /\ s' = IF usable THEN OnConnect(taken) ELSE dropped
      /\ conn' = [b \in Clients |-> CASE b = c -> IF usable THEN "open" ELSE "closed"
                                       [] b # c /\ b = s.client -> "closed"
                                       [] OTHER -> conn[b]]
      /\ UNCHANGED <<script, cuts, alive, written, drained, got, line, news>>
  BY <1>1, <1>5, <1>6, Zenon DEF AcceptClient
<1>8. dropped \in Sessions /\ dropped.client = None /\ Len(dropped.out) <= MaxOutbound
  <2>1. CASE s.client = None
    BY <1>3, <1>5, <2>1, Zenon DEF Fits
  <2>2. CASE s.client # None
    <3>1. PICK t : t = DropClient(Daemon)
      BY Zenon
    <3>2. Fits(t) /\ t.s.client = None
      BY <1>3, <3>1, DropClientResult, Zenon DEF Grows
    <3>3. dropped = t.s
      BY <1>5, <2>2, <3>1, Zenon
    <3> QED  BY <3>2, <3>3, Zenon DEF Fits, Daemons
  <2> QED  BY <2>1, <2>2, Zenon
<1>9. \A b \in Clients : b # None
  BY ClientsAreNumbers, Zenon
<1>10. /\ s' \in Sessions /\ Len(s'.out) <= MaxOutbound
       /\ usable => s'.client = c /\ s'.out = <<>> /\ s'.reader = <<>> /\ ~s'.started
       /\ ~usable => s'.client = None
  <2>1. CASE ~usable
    BY <1>7, <1>8, <2>1, Zenon
  <2>2. CASE usable
    <3>1. PICK e : e = <<>> /\ e \in Seq(Bytes) /\ e \in Seq(Halves)
      BY EmptySeq, Zenon
    <3>2. taken = [dropped EXCEPT !.client = c, !.reader = e, !.out = e, !.events = "in"]
      BY <1>6, <3>1, Zenon DEF Emptied
    <3>3. /\ taken \in Sessions /\ taken.client = c /\ taken.out = e /\ taken.reader = e
      BY <1>2, <1>8, <3>1, <3>2, Zenon DEF Sessions
    <3>4. s' = [taken EXCEPT !.started = FALSE]
      BY <1>7, <2>2, Zenon DEF OnConnect
    <3>5. s' \in Sessions /\ s'.client = c /\ s'.out = e /\ s'.reader = e /\ s'.started = FALSE
      BY <3>3, <3>4, Zenon DEF Sessions
    <3>6. Len(e) = 0 /\ 0 <= MaxOutbound
      BY <3>1, CompanionAssumption, SMTT(30)
    <3> QED  BY <2>2, <3>1, <3>5, <3>6, Zenon
  <2> QED  BY <2>1, <2>2, Zenon
<1>11. conn' \in [Clients -> {"idle", "waiting", "open", "closed"}]
  BY <1>7, Zenon DEF IInv, World
<1>12. World'
  BY <1>7, <1>11, Zenon DEF IInv, World
<1>13. Fits(Daemon)'
  <2>1. line' \in [Clients -> Seq(Halves)]
    BY <1>3, <1>7, Zenon DEF Daemons
  <2>2. Daemon' \in Daemons
    BY <1>10, <2>1, Zenon DEF Daemon, Daemons
  <2>3. \A b \in Clients : Len(line'[b]) - drained'[b] \in 0..Room
    BY <1>3, <1>7, Zenon DEF Fits
  <2> QED  BY <1>3, <1>7, <1>10, <2>2, <2>3, DaemonFields, Zenon DEF Fits
<1>14. s'.client # None =>
         s'.client = c /\ s'.reader = <<>> /\ ~s'.started /\ StreamOf(Daemon)' = <<>>
  <2> SUFFICES ASSUME usable
               PROVE  s'.client = c /\ s'.reader = <<>> /\ ~s'.started /\ StreamOf(Daemon)' = <<>>
    BY <1>10, Zenon
  <2>1. line'[c] \o s'.out = <<>> \o <<>>
    BY <1>4, <1>7, <1>10, Zenon
  <2>2. <<>> \o <<>> = <<>>
    BY EmptySeq, ConcatEmptySeq, Zenon
  <2> QED  BY <1>10, <2>1, <2>2, DaemonFields, Zenon DEF StreamOf
<1>15. Own(c, <<>>) /\ AfterStart(<<>>) /\ Answers(<<>>) = <<>>
  <2>1. Len(<<>>) = 0 /\ DOMAIN <<>> = {} /\ 0 % 2 = 0
    OBVIOUS
  <2>2. <<>> \in Seq(Halves)
    BY EmptySeq, Zenon
  <2>3. Answers(<<>>) = <<>>
    <3>1. PICK f : Answering(f, <<>>, Len(<<>>)) /\ Answers(<<>>) = f[Len(<<>>)]
      BY <2>2, AnswersStep, Zenon
    <3> QED  BY <2>1, <3>1, Zenon DEF Answering
  <2> QED  BY <2>1, <2>3, Zenon DEF Own, AfterStart
<1>16. Sound(Daemon)'
  BY <1>14, <1>15, DaemonFields, Zenon DEF Sound
<1>17. Informed(Daemon)'
  BY <1>14, DaemonFields, Zenon DEF Informed
<1>18. Linked'
  <2> SUFFICES ASSUME NEW b \in Clients
               PROVE  /\ conn'[b] = "open" <=> s'.client = b
                      /\ conn'[b] \in {"idle", "waiting"} => line'[b] = <<>> /\ got'[b] = 0
    BY Zenon DEF Linked
  <2>1. /\ conn[b] = "open" <=> s.client = b
        /\ conn[b] \in {"idle", "waiting"} => line[b] = <<>> /\ got[b] = 0
    BY Zenon DEF IInv, Linked
  <2>2. CASE b = c
    <3>1. conn'[b] = IF usable THEN "open" ELSE "closed"
      BY <1>7, <2>2, Zenon
    <3> QED  BY <1>9, <1>10, <2>2, <3>1, Zenon
  <2>3. CASE b # c /\ b = s.client
    <3>1. conn'[b] = "closed"
      BY <1>7, <2>3, Zenon
    <3>2. s'.client # b
      BY <1>9, <1>10, <2>3, Zenon
    <3> QED  BY <3>1, <3>2, Zenon
  <2>4. CASE b # c /\ b # s.client
    <3>1. conn'[b] = conn[b]
      BY <1>7, <2>4, Zenon
    <3>2. s'.client # b
      BY <1>9, <1>10, <2>4, Zenon
    <3> QED  BY <1>7, <2>1, <2>4, <3>1, <3>2, Zenon
  <2> QED  BY <2>2, <2>3, <2>4, Zenon
<1>19. Read'
  <2> SUFFICES ASSUME s'.client # None
               PROVE  /\ \A y \in Seq(Bytes) :
                           CommandsIn(SubSeq(script'[s'.client], 1, got'[s'.client]) \o y) = Pending(Daemon, y)'
                      /\ CommandsIn(s'.reader) = <<>>
    BY Zenon DEF Read
  <2>1. CommandsIn(s'.reader) = <<>>
    BY <1>14, EmptySeq, NoCommandsInNothing, Zenon
  <2>2. SubSeq(script'[s'.client], 1, got'[s'.client]) = <<>>
    BY <1>4, <1>7, <1>14, SubSeqEmpty
  <2>3. ASSUME NEW y \in Seq(Bytes)
        PROVE  CommandsIn(<<>> \o y) = Pending(Daemon, y)'
    <3>1. CommandsIn(y) \in Seq(Bytes) /\ <<>> \o y = y
      BY CommandsTyped, ConcatEmptySeq, Zenon
    <3>2. Pending(Daemon, y)' = <<>> \o CommandsIn(<<>> \o y)
      BY <1>14, <1>15, DaemonFields, Zenon DEF Pending
    <3> QED  BY <3>1, <3>2, ConcatEmptySeq, Zenon
  <2> QED  BY <2>1, <2>2, <2>3, Zenon
<1> QED  BY <1>12, <1>13, <1>16, <1>17, <1>18, <1>19, Zenon DEF IInv

(* The clients' own steps do not touch the daemon.                         *)
LEMMA ClientKeeps ==
  ASSUME IInv, NEW c \in Clients, Connect(c) \/ Write(c) \/ Drain(c) \/ HangUp(c)
  PROVE  IInv'
<1>1. UNCHANGED <<script, cuts, got, line, s, news>>
  BY Zenon DEF Connect, Write, Drain, HangUp
<1>2. Daemon' = Daemon
  BY <1>1, Zenon DEF Daemon
<1>3. Sound(Daemon)'
  BY <1>2, Zenon DEF IInv, Sound
<1>4. Informed(Daemon)'
  BY <1>2, Zenon DEF IInv, Informed
<1>5. Read'
  BY <1>1, <1>2, Zenon DEF IInv, Read
<1>6. Fits(Daemon)'
  <2>1. CASE drained' = drained
    BY <1>2, <2>1, Zenon DEF IInv, Fits
  <2>2. CASE Drain(c)
    <3>1. drained' = [drained EXCEPT ![c] = Len(line[c])]
      BY <2>2, Zenon DEF Drain
    <3>2. Fits(Daemon) /\ Daemon.line = line /\ line \in [Clients -> Seq(Halves)]
      BY DaemonFields, Zenon DEF IInv, Fits, Daemons
    <3>3. Len(line[c]) \in Nat /\ drained \in [Clients -> Nat]
      BY <3>2, LenProperties, Zenon DEF Fits
    <3>4. drained' \in [Clients -> Nat]
      BY <3>1, <3>3, Zenon
    <3>5. ASSUME NEW b \in Clients
          PROVE  Len(line[b]) - drained'[b] \in 0..Room
      <4>1. CASE b = c
        <5>1. drained'[b] = Len(line[b])
          BY <3>1, <3>3, <4>1, Zenon
        <5> QED  BY <3>3, <4>1, <5>1, CompanionAssumption
      <4>2. CASE b # c
        BY <3>1, <3>2, <3>3, <4>2, Zenon DEF Fits
      <4> QED  BY <4>1, <4>2, Zenon
    <3> QED  BY <1>2, <3>2, <3>4, <3>5, Zenon DEF Fits
  <2> QED  BY <2>1, <2>2, Zenon DEF Connect, Write, HangUp
<1>7. World' /\ Linked'
  <2>1. CASE Connect(c)
    <3>1. /\ conn[c] = "idle" /\ conn' = [conn EXCEPT ![c] = "waiting"]
          /\ UNCHANGED <<alive, written>>
      BY <2>1, Zenon DEF Connect
    <3>2. World'
      BY <1>1, <3>1, Zenon DEF IInv, World
    <3>3. conn \in [Clients -> {"idle", "waiting", "open", "closed"}]
      BY Zenon DEF IInv, World
    <3>4. Linked'
      <4> SUFFICES ASSUME NEW b \in Clients
                   PROVE  /\ conn'[b] = "open" <=> s.client = b
                          /\ conn'[b] \in {"idle", "waiting"} => line[b] = <<>> /\ got[b] = 0
        BY <1>1, Zenon DEF Linked
      <4>1. /\ conn[b] = "open" <=> s.client = b
            /\ conn[b] \in {"idle", "waiting"} => line[b] = <<>> /\ got[b] = 0
        BY Zenon DEF IInv, Linked
      <4>2. conn'[b] = IF b = c THEN "waiting" ELSE conn[b]
        BY <3>1, <3>3, Zenon
      <4> QED  BY <3>1, <4>1, <4>2
    <3> QED  BY <3>2, <3>4, Zenon
  <2>2. CASE Write(c)
    <3>1. UNCHANGED <<conn, alive>>
      BY <2>2, Zenon DEF Write
    <3>2. PICK n \in cuts[c] : n > written[c] /\ written' = [written EXCEPT ![c] = n]
      BY <2>2, Zenon DEF Write
    <3>3. n \in Nat /\ n <= Len(script[c])
      BY <3>2 DEF IInv, World
    <3>4. /\ written \in [Clients -> Nat] /\ got \in [Clients -> Nat]
          /\ \A b \in Clients : got[b] <= written[b] /\ written[b] <= Len(script[b])
      BY Zenon DEF IInv, World
    <3>5. /\ written' \in [Clients -> Nat]
          /\ \A b \in Clients : got[b] <= written'[b] /\ written'[b] <= Len(script[b])
      BY <3>2, <3>3, <3>4
    <3>6. World'
      BY <1>1, <3>1, <3>5, Zenon DEF IInv, World
    <3> QED  BY <1>1, <3>1, <3>6, Zenon DEF IInv, Linked
  <2>3. CASE Drain(c)
    <3>1. UNCHANGED <<conn, alive, written>>
      BY <2>3, Zenon DEF Drain
    <3> QED  BY <1>1, <3>1, Zenon DEF IInv, World, Linked
  <2>4. CASE HangUp(c)
    <3>1. UNCHANGED <<conn, written>> /\ alive' \subseteq alive
      BY <2>4, Zenon DEF HangUp
    <3> QED  BY <1>1, <3>1, Zenon DEF IInv, World, Linked
  <2> QED  BY <2>1, <2>2, <2>3, <2>4, Zenon
<1> QED  BY <1>3, <1>4, <1>5, <1>6, <1>7, Zenon DEF IInv

LEMMA NextKeeps ==
  ASSUME Basics
  PROVE  IInv /\ [Next]_vars => IInv'
<1> SUFFICES ASSUME IInv, [Next]_vars
             PROVE  IInv'
  BY Zenon
<1>1. CASE Accept
  BY <1>1, AcceptKeeps, Zenon
<1>2. CASE OnClientReady
  BY <1>2, OnClientReadyKeeps, Zenon
<1>3. CASE OnClientError
  BY <1>3, OnClientErrorKeeps, Zenon
<1>4. CASE Hear
  BY <1>4, HearKeeps, Zenon
<1>5. CASE FlushState
  BY <1>5, FlushStateKeeps, Zenon
<1>6. CASE \E c \in Clients : Connect(c) \/ Write(c) \/ Drain(c) \/ HangUp(c)
  BY <1>6, ClientKeeps, Zenon
<1>7. CASE UNCHANGED vars
  <2>1. UNCHANGED <<script, cuts, conn, alive, written, drained, got, line, s, news>>
    BY <1>7, Zenon DEF vars
  <2>2. Daemon' = Daemon
    BY <2>1, Zenon DEF Daemon
  <2>3. Fits(Daemon)' /\ Sound(Daemon)' /\ Informed(Daemon)'
    BY <2>1, <2>2, Zenon DEF IInv, Fits, Sound, Informed
  <2>4. World' /\ Linked'
    BY <2>1, Zenon DEF IInv, World, Linked
  <2>5. Read'
    BY <2>1, <2>2, Zenon DEF IInv, Read
  <2> QED  BY <2>3, <2>4, <2>5, Zenon DEF IInv
<1> QED  BY <1>1, <1>2, <1>3, <1>4, <1>5, <1>6, <1>7, Zenon DEF Next

-----------------------------------------------------------------------------
(***************************************************************************)
(* The facts about numbers and finite sets, from the library.              *)
(***************************************************************************)
INSTANCE FiniteSetTheorems

LEMMA BasicsHold == Basics
<1> DEFINE R == {p \in Nat \X Nat : p[1] < p[2]}
<1>1. IsWellFoundedOn(R, Nat)
  BY NatLessThanWellFounded, Zenon DEF OpToRel
<1>2. ASSUME NEW T \in SUBSET Nat, T # {} PROVE \E x \in T : \A y \in T : x <= y
  <2> HIDE DEF R
  <2>1. PICK x \in T : \A y \in T : ~ (<<y, x>> \in R)
    BY <1>1, <1>2, WFMin, Zenon
  <2>2. ASSUME NEW y \in T, y < x PROVE FALSE
    <3>1. <<y, x>> \in R
      BY <2>2, Zenon DEF R
    <3> QED  BY <2>1, <3>1, Zenon
  <2> QED  BY <2>2
<1>3. \A S : IsFiniteSet(S) => Cardinality(S) \in Nat
  BY FS_CardinalityType, Zenon
<1>4. \A S, x : IsFiniteSet(S) =>
        IsFiniteSet(S \cup {x}) /\ Cardinality(S \cup {x}) = IF x \in S THEN Cardinality(S) ELSE Cardinality(S) + 1
  BY FS_AddElement, Zenon
<1>5. \A S : \A T \in SUBSET S : IsFiniteSet(S) => IsFiniteSet(T) /\ Cardinality(T) <= Cardinality(S)
  BY FS_Subset, Zenon
<1>6. IsFiniteSet({}) /\ Cardinality({}) = 0
  BY FS_EmptySet, Zenon
<1> QED  BY <1>2, <1>3, <1>4, <1>5, <1>6, Zenon DEF Basics

LEMMA AlwaysIInv == Spec => []IInv
  BY BasicsHold, InitInvariant, NextKeeps, PTL DEF Spec
-----------------------------------------------------------------------------
(* The session's state has its type, whatever clients connect, write, stop *)
(* reading or hang up: the outbound buffer stays within max_outbound_bytes *)
(* (server.cpp), the inbox and the contact table within their limits, and  *)
(* the client the server keeps is the one whose connection is open.        *)
THEOREM TypeCorrect == Spec => []TypeOK
<1>1. IInv => TypeOK
  BY BasicsHold, InvariantSuffices, Zenon
<1> QED  BY <1>1, AlwaysIInv, PTL

(* A client gets whole frames, and only frames that were made for it:      *)
(* drop_client(), accept_client(), send() and flush() leave nothing of a   *)
(* client that was replaced, and cut no frame, for any number of clients,  *)
(* any socket room and any limit of the buffer.                            *)
THEOREM FramesAreOwn == Spec => []OwnWholeFrames
<1>1. IInv => OwnWholeFrames
  BY BasicsHold, InvariantSuffices, Zenon
<1> QED  BY <1>1, AlwaysIInv, PTL

(* Nothing is pushed to a client before its own CMD_APP_START is answered: *)
(* the connect handler forgets that the one before it had started.         *)
THEOREM NoPushBeforeStart == Spec => []PushedAfterStart
<1>1. IInv => PushedAfterStart
  BY BasicsHold, InvariantSuffices, Zenon
<1> QED  BY <1>1, AlwaysIInv, PTL

(* While messages wait for an app that has started, it has been told so    *)
(* since it last heard that there were none (handle_frame(),               *)
(* on_message_stored() and sync_next_message()).                           *)
THEOREM WaitingIsKnown == Spec => []WaitingIsAnnounced
<1>1. IInv => WaitingIsAnnounced
  BY BasicsHold, InvariantSuffices, Zenon
<1> QED  BY <1>1, AlwaysIInv, PTL

(* Every command is answered once and in order, for every script of bytes, *)
(* wherever the reads cut it: FrameReader::next() and the loop of          *)
(* on_client_ready() find in the pieces the commands that are in the       *)
(* whole, and handle_frame() answers each of them once.                    *)
THEOREM EveryCommandAnswered == Spec => []AnsweredOnceInOrder
<1>1. IInv => AnsweredOnceInOrder
  BY BasicsHold, InvariantSuffices, Zenon
<1> QED  BY <1>1, AlwaysIInv, PTL
=============================================================================
