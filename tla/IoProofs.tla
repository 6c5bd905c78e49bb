------------------------------ MODULE IoProofs ------------------------------
(***************************************************************************)
(* The structures of input and output, for all their sizes and all orders   *)
(* of operations.                                                          *)
(*                                                                         *)
(* Chains (Dbuf): they are queues of bytes, none of which is lost or        *)
(* changed, and the pool counts its buffers.  FlattenSeq of the community   *)
(* modules is a recursive function: it is unrolled one step at a time       *)
(* (IsFlat), and what is said of Bytes rests on BytesSnoc, BytesSplit and    *)
(* BytesConcat.                                                             *)
(*                                                                         *)
(* Heaps (Blalloc): no element is handed out twice or refused while there   *)
(* is one.                                                                  *)
(*                                                                         *)
(* Flood lists (Flud): targets and fluders list each other, and more than   *)
(* FLUDNUM of them are blocked.                                             *)
(*                                                                         *)
(* Rounds (Poll): as long as a request or a listener is polled, nobody with *)
(* an event is passed over.                                                 *)
(*                                                                         *)
(* The table of clients (Hash): every client that has a place in the table  *)
(* is found by its name.  A chain is read as the sequence of its clients    *)
(* (IsChain), and what a walk along it meets follows by WalkIs.             *)
(***************************************************************************)
EXTENDS Structures, Hash, TLAPS, SequenceTheorems, WellFoundedInduction, FiniteSetTheorems

-----------------------------------------------------------------------------
(* Induction over the natural numbers, for a set of numbers.               *)

\* A set of natural numbers that is not empty has a least element.
LEMMA LeastNat ==
  ASSUME NEW T \in SUBSET Nat, T # {}
  PROVE  \E x \in T : \A y \in T : x <= y
<1> DEFINE R == {ss \in Nat \X Nat : ss[1] < ss[2]}
<1>1. IsWellFoundedOn(R, Nat)
  BY NatLessThanWellFounded DEF OpToRel
<1>2. \A x, y \in Nat : <<y, x>> \in R <=> y < x
  OBVIOUS
<1> HIDE DEF R
<1>3. PICK x \in T : \A y \in T : ~(<<y, x>> \in R)
  BY <1>1, WFMin
<1>4. \A y \in T : x \in Nat /\ y \in Nat /\ ~(y < x)
  BY <1>2, <1>3
<1>5. \A y \in T : x <= y
  BY <1>4
<1> QED BY <1>5

\* A set that holds 0 and every successor of a member holds all the numbers.
LEMMA SetInduction ==
  ASSUME NEW S, 0 \in S, \A n \in Nat : n \in S => n + 1 \in S
  PROVE  Nat \subseteq S
<1> DEFINE T == Nat \ S
<1> SUFFICES ASSUME T # {} PROVE FALSE
  OBVIOUS
<1>1. T \in SUBSET Nat
  OBVIOUS
<1>2. PICK x \in T : \A y \in T : x <= y
  BY <1>1, LeastNat
<1>3. x \in Nat /\ x # 0 /\ x \notin S
  BY <1>2
<1>4. x - 1 \in Nat /\ x - 1 \notin T
  BY <1>2, <1>3
<1>5. x - 1 \in S
  BY <1>4
<1> QED
  BY <1>3, <1>4, <1>5

-----------------------------------------------------------------------------
(* FlattenSeq: the recursive function of its definition exists and is only *)
(* one, so that the last part of a sequence of sequences can be split off. *)

IsFlat(f, s) == f = [i \in 1..Len(s) |-> IF i = 1 THEN s[i] ELSE f[i-1] \o s[i]]

\* One step of the recursion: the last part is appended to what is before it.
LEMMA FlatAt ==
  ASSUME NEW s, Len(s) \in Nat, NEW f, IsFlat(f, s), NEW n \in Nat, n + 1 \in 1..Len(s)
  PROVE  /\ n = 0 => f[n + 1] = s[n + 1]
         /\ n # 0 => f[n + 1] = f[n] \o s[n + 1]
<1>1. \A i \in 1..Len(s) : f[i] = IF i = 1 THEN s[i] ELSE f[i-1] \o s[i]
  <2> TAKE i \in 1..Len(s)
  <2> QED BY Zenon DEF IsFlat
<1>2. PICK i : i = n + 1
  OBVIOUS
<1>3. (i = 1 <=> n = 0) /\ i - 1 = n /\ i \in 1..Len(s)
  BY <1>2
<1>4. f[i] = IF i = 1 THEN s[i] ELSE f[i-1] \o s[i]
  BY <1>1, <1>3, Zenon
<1> QED
  BY <1>2, <1>3, <1>4, Zenon

\* The recursion stays inside the sequences over the given set.
LEMMA FlatType ==
  ASSUME NEW s \in Seq(Seq(Byte)), NEW f, IsFlat(f, s)
  PROVE  \A i \in 1..Len(s) : f[i] \in Seq(Byte)
<1> DEFINE S == {n \in Nat : n \in 1..Len(s) => f[n] \in Seq(Byte)}
<1>1. 0 \in S
  OBVIOUS
<1>2. ASSUME NEW n \in Nat, n \in S PROVE n + 1 \in S
  <2> SUFFICES ASSUME n + 1 \in 1..Len(s) PROVE f[n + 1] \in Seq(Byte)
    OBVIOUS
  <2>1. /\ n = 0 => f[n + 1] = s[n + 1]
        /\ n # 0 => f[n + 1] = f[n] \o s[n + 1]
    BY FlatAt, LenProperties
  <2>2. s[n + 1] \in Seq(Byte)
    BY ElementOfSeq
  <2>3. CASE n = 0
    BY <2>1, <2>2, <2>3
  <2>4. CASE n # 0
    <3>1. n \in 1..Len(s)
      BY <2>4, LenProperties
    <3>2. f[n] \in Seq(Byte)
      BY <1>2, <3>1
    <3>3. f[n + 1] = f[n] \o s[n + 1]
      BY <2>1, <2>4
    <3> QED BY <2>2, <3>2, <3>3, ConcatProperties
  <2> QED BY <2>3, <2>4
<1>3. Nat \subseteq S
  <2> HIDE DEF S
  <2> QED BY <1>1, <1>2, SetInduction
<1> QED BY <1>3

\* Two functions that satisfy the recursion are the same function.
LEMMA FlatUnique ==
  ASSUME NEW s \in Seq(Seq(Byte)), NEW k \in 0..Len(s), NEW f, NEW g,
         IsFlat(f, s), IsFlat(g, SubSeq(s, 1, k))
  PROVE  \A i \in 1..k : f[i] = g[i]
<1>0. Len(SubSeq(s, 1, k)) = k /\ \A i \in 1..k : SubSeq(s, 1, k)[i] = s[i]
  BY LenProperties
<1> DEFINE S == {n \in Nat : n \in 1..k => f[n] = g[n]}
<1>1. 0 \in S
  OBVIOUS
<1>2. ASSUME NEW n \in Nat, n \in S PROVE n + 1 \in S
  <2> SUFFICES ASSUME n + 1 \in 1..k PROVE f[n + 1] = g[n + 1]
    OBVIOUS
  <2>1. /\ n = 0 => f[n + 1] = s[n + 1]
        /\ n # 0 => f[n + 1] = f[n] \o s[n + 1]
    <3>1. n + 1 \in 1..Len(s) /\ Len(s) \in Nat
      BY LenProperties
    <3> QED BY <3>1, FlatAt
  <2>2. /\ n = 0 => g[n + 1] = s[n + 1]
        /\ n # 0 => g[n + 1] = g[n] \o s[n + 1]
    <3> DEFINE p == SubSeq(s, 1, k)
    <3>1. Len(p) = k /\ p[n + 1] = s[n + 1] /\ k \in Nat /\ IsFlat(g, p)
      BY <1>0, LenProperties
    <3> HIDE DEF p
    <3>2. /\ n = 0 => g[n + 1] = p[n + 1]
          /\ n # 0 => g[n + 1] = g[n] \o p[n + 1]
      BY <3>1, FlatAt
    <3> QED BY <3>1, <3>2
  <2>3. CASE n = 0
    BY <2>1, <2>2, <2>3
  <2>4. CASE n # 0
    <3>1. n \in 1..k
      BY <2>4
    <3> QED BY <1>2, <2>1, <2>2, <2>4, <3>1
  <2> QED BY <2>3, <2>4
<1>3. Nat \subseteq S
  <2> HIDE DEF S
  <2> QED BY <1>1, <1>2, SetInduction
<1> QED BY <1>3

\* There is a function that satisfies the recursion.
LEMMA FlatExists ==
  ASSUME NEW s \in Seq(Seq(Byte)) PROVE \E f : IsFlat(f, s)
<1> DEFINE S == {n \in Nat : n <= Len(s) => \E f : IsFlat(f, SubSeq(s, 1, n))}
<1>0. Len(s) \in Nat
  BY LenProperties
<1>1. 0 \in S
  <2>1. Len(SubSeq(s, 1, 0)) = 0
    BY <1>0
  <2>2. IsFlat([i \in 1..0 |-> {}], SubSeq(s, 1, 0))
    BY <2>1 DEF IsFlat
  <2> QED BY <2>2
<1>2. ASSUME NEW n \in Nat, n \in S PROVE n + 1 \in S
  <2> SUFFICES ASSUME n + 1 <= Len(s) PROVE \E f : IsFlat(f, SubSeq(s, 1, n + 1))
    OBVIOUS
  <2>1. PICK g : IsFlat(g, SubSeq(s, 1, n))
    BY <1>0, <1>2
  <2>2. /\ Len(SubSeq(s, 1, n)) = n /\ Len(SubSeq(s, 1, n + 1)) = n + 1
        /\ \A i \in 1..n : SubSeq(s, 1, n)[i] = s[i]
        /\ \A i \in 1..(n + 1) : SubSeq(s, 1, n + 1)[i] = s[i]
    BY <1>0
  <2> DEFINE last == IF n = 0 THEN s[1] ELSE g[n] \o s[n + 1]
             f == [i \in 1..(n + 1) |-> IF i = n + 1 THEN last ELSE g[i]]
  <2>3. ASSUME NEW i \in 1..(n + 1)
        PROVE  f[i] = IF i = 1 THEN s[i] ELSE f[i - 1] \o s[i]
    <3>1. CASE i = n + 1
      <4>1. CASE n = 0
        BY <3>1, <4>1
      <4>2. CASE n # 0
        <5>1. n \in 1..(n + 1) /\ n # n + 1 /\ i - 1 = n /\ i # 1
          BY <3>1, <4>2
        <5>2. f[n] = g[n]
          BY <5>1
        <5> QED BY <3>1, <4>2, <5>1, <5>2
      <4> QED BY <4>1, <4>2
    <3>2. CASE i # n + 1
      <4>1. i \in 1..n /\ (i # 1 => i - 1 \in 1..n /\ i - 1 # n + 1 /\ i - 1 \in 1..(n + 1))
        BY <3>2
      <4>2. f[i] = g[i] /\ (i # 1 => f[i - 1] = g[i - 1])
        BY <3>2, <4>1
      <4>3. g[i] = IF i = 1 THEN s[i] ELSE g[i - 1] \o s[i]
        BY <2>1, <2>2, <4>1 DEF IsFlat
      <4> QED BY <4>2, <4>3
    <3> QED BY <3>1, <3>2
  <2>4. IsFlat(f, SubSeq(s, 1, n + 1))
    <3>1. f = [i \in 1..(n + 1) |-> f[i]]
      OBVIOUS
    <3> DEFINE t == SubSeq(s, 1, n + 1)
    <3> HIDE DEF f, last
    <3>2. Len(t) = n + 1 /\ \A i \in 1..(n + 1) : t[i] = s[i]
      BY <2>2
    <3> HIDE DEF t
    <3>3. \A i \in 1..Len(t) : f[i] = IF i = 1 THEN t[i] ELSE f[i - 1] \o t[i]
      BY <2>3, <3>2
    <3>4. f = [i \in 1..Len(t) |-> f[i]]
      BY <3>1, <3>2
    <3>5. f = [i \in 1..Len(t) |-> IF i = 1 THEN t[i] ELSE f[i - 1] \o t[i]]
      BY <3>3, <3>4
    <3> QED BY <3>5 DEF IsFlat, t
  <2> QED BY <2>4
<1>3. Nat \subseteq S
  <2> HIDE DEF S
  <2> QED BY <1>1, <1>2, SetInduction
<1>4. SubSeq(s, 1, Len(s)) = s
  BY SubSeqFull
<1>5. Len(s) \in S
  BY <1>0, <1>3
<1>6. \E f : IsFlat(f, SubSeq(s, 1, Len(s)))
  BY <1>0, <1>5
<1> QED BY <1>4, <1>6, Zenon

\* No parts, no bytes.
LEMMA FlattenEmpty == ASSUME NEW s, Len(s) = 0 PROVE FlattenSeq(s) = s
BY DEF FlattenSeq

\* FlattenSeq of a sequence ends with the last part of it.
LEMMA FlattenSnoc ==
  ASSUME NEW s \in Seq(Seq(Byte)), NEW n \in Nat, Len(s) = n + 1
  PROVE  /\ FlattenSeq(s) = FlattenSeq(SubSeq(s, 1, n)) \o s[n + 1]
         /\ FlattenSeq(s) \in Seq(Byte) /\ FlattenSeq(SubSeq(s, 1, n)) \in Seq(Byte)
<1> DEFINE p == SubSeq(s, 1, n)
           f == CHOOSE h : h = [i \in 1..Len(s) |-> IF i = 1 THEN s[i] ELSE h[i-1] \o s[i]]
           g == CHOOSE h : h = [i \in 1..Len(p) |-> IF i = 1 THEN p[i] ELSE h[i-1] \o p[i]]
<1>1. p \in Seq(Seq(Byte)) /\ Len(p) = n
  OBVIOUS
<1>2. IsFlat(f, s)
  BY FlatExists DEF IsFlat
<1>3. IsFlat(g, p)
  <2> HIDE DEF p
  <2> QED BY <1>1, FlatExists DEF IsFlat
<1>4. FlattenSeq(s) = f[n + 1]
  BY DEF FlattenSeq
<1>5. n # 0 => FlattenSeq(p) = g[n]
  <2> HIDE DEF p
  <2> QED BY <1>1 DEF FlattenSeq
<1>6. s[n + 1] \in Seq(Byte)
  BY ElementOfSeq
<1>7. /\ n = 0 => f[n + 1] = s[n + 1]
      /\ n # 0 => f[n + 1] = f[n] \o s[n + 1]
  <2> HIDE DEF f
  <2>1. n + 1 \in 1..Len(s) /\ Len(s) \in Nat
    OBVIOUS
  <2> QED BY <1>2, <2>1, FlatAt
<1>8. f[n + 1] \in Seq(Byte)
  <2> HIDE DEF f
  <2> QED BY <1>2, FlatType
<1>9. CASE n = 0
  <2>1. FlattenSeq(p) = <<>>
    BY <1>1, <1>9, FlattenEmpty, EmptySeq
  <2>2. f[n + 1] = <<>> \o s[n + 1]
    BY <1>6, <1>7, <1>9, ConcatEmptySeq
  <2> QED BY <1>4, <1>8, <2>1, <2>2, EmptySeq
<1>10. CASE n # 0
  <2> HIDE DEF f, g
  <2>1. f[n] = g[n]
    BY <1>2, <1>3, <1>10, FlatUnique
  <2>2. g[n] \in Seq(Byte)
    <3> HIDE DEF p
    <3>1. n \in 1..Len(p)
      BY <1>1, <1>10
    <3> QED BY <1>1, <1>3, <3>1, FlatType
  <2>3. f[n + 1] = f[n] \o s[n + 1]
    BY <1>7, <1>10
  <2> QED BY <1>4, <1>5, <1>8, <1>10, <2>1, <2>2, <2>3
<1> QED BY <1>9, <1>10
-----------------------------------------------------------------------------
(* The bytes of a chain.                                                   *)

Buffer == [start : Nat, rest : Seq(Byte)]

\* Concatenation is associative.
LEMMA Assoc == \A x, y, z \in Seq(Byte) : (x \o y) \o z = x \o (y \o z)
<1> TAKE x, y, z \in Seq(Byte)
<1> QED BY ConcatAssociative

\* An empty chain holds no bytes.
LEMMA BytesEmpty == Bytes(<<>>) = <<>>
<1> DEFINE s == [i \in DOMAIN <<>> |-> <<>>[i].rest]
<1>1. s = <<>> /\ Len(s) = 0
  OBVIOUS
<1> QED BY <1>1, FlattenEmpty DEF Bytes

\* The bytes of one buffer more are appended to those before.
LEMMA BytesSnoc ==
  ASSUME NEW c \in Seq(Buffer), NEW n \in Nat, n + 1 \in 1..Len(c)
  PROVE  /\ Bytes(SubSeq(c, 1, n)) \in Seq(Byte)
         /\ Bytes(SubSeq(c, 1, n + 1)) \in Seq(Byte)
         /\ Bytes(SubSeq(c, 1, n + 1)) = Bytes(SubSeq(c, 1, n)) \o c[n + 1].rest
<1> DEFINE d == SubSeq(c, 1, n + 1)
           p == SubSeq(c, 1, n)
           s == [i \in DOMAIN d |-> d[i].rest]
           t == [i \in DOMAIN p |-> p[i].rest]
<1>1. d \in Seq(Buffer) /\ Len(d) = n + 1 /\ p \in Seq(Buffer) /\ Len(p) = n
  OBVIOUS
<1>2. DOMAIN d = 1..(n + 1) /\ DOMAIN p = 1..n
  BY <1>1, LenProperties
<1>3. \A i \in 1..(n + 1) : d[i] = c[i] /\ c[i] \in Buffer
  BY ElementOfSeq
<1>4. \A i \in 1..n : p[i] = c[i]
  OBVIOUS
<1> HIDE DEF d, p
<1>5. s = [i \in 1..(n + 1) |-> c[i].rest] /\ t = [i \in 1..n |-> c[i].rest]
  BY <1>2, <1>3, <1>4
<1> HIDE DEF s, t
<1>6. \A i \in 1..(n + 1) : c[i].rest \in Seq(Byte)
  BY <1>3 DEF Buffer
<1>7. s \in Seq(Seq(Byte)) /\ Len(s) = n + 1 /\ t \in Seq(Seq(Byte)) /\ Len(t) = n
  BY <1>5, <1>6
<1>8. t = SubSeq(s, 1, n)
  BY <1>5, <1>7
<1>9. s[n + 1] = c[n + 1].rest
  BY <1>5
<1>10. Bytes(d) = FlattenSeq(s) /\ Bytes(p) = FlattenSeq(t)
  BY DEF Bytes, s, t
<1> QED
  BY <1>7, <1>8, <1>9, <1>10, FlattenSnoc DEF d, p

\* The bytes of a chain of buffers are a sequence of bytes.
LEMMA BytesType ==
  ASSUME NEW c \in Seq(Buffer) PROVE Bytes(c) \in Seq(Byte)
<1>1. CASE c = <<>>
  BY <1>1, BytesEmpty, EmptySeq
<1>2. CASE c # <<>>
  <2>1. Len(c) - 1 \in Nat /\ (Len(c) - 1) + 1 \in 1..Len(c) /\ (Len(c) - 1) + 1 = Len(c)
    BY <1>2, EmptySeq
  <2>2. Bytes(SubSeq(c, 1, Len(c))) \in Seq(Byte)
    BY <2>1, BytesSnoc
  <2> QED BY <2>2, SubSeqFull
<1> QED BY <1>1, <1>2

\* A chain that is cut in two holds the bytes of the one part, then of the other.
LEMMA BytesSplit ==
  ASSUME NEW c \in Seq(Buffer), NEW k \in 0..Len(c)
  PROVE  Bytes(c) = Bytes(SubSeq(c, 1, k)) \o Bytes(SubSeq(c, k + 1, Len(c)))
<1> DEFINE F(m) == SubSeq(c, 1, m)
           G(m) == SubSeq(c, k + 1, k + m)
           S == {m \in Nat : k + m <= Len(c) => Bytes(F(k + m)) = Bytes(F(k)) \o Bytes(G(m))}
<1>0. Len(c) \in Nat /\ k \in Nat
  BY LenProperties
<1>1. F(k) \in Seq(Buffer)
  BY <1>0
<1>2. 0 \in S
  <2>1. G(0) = <<>> /\ k + 0 = k
    BY <1>0
  <2>2. Bytes(F(k)) \in Seq(Byte)
    BY <1>1, BytesType
  <2> QED BY <2>1, <2>2, BytesEmpty, ConcatEmptySeq
<1>3. ASSUME NEW m \in Nat, m \in S PROVE m + 1 \in S
  <2> SUFFICES ASSUME k + (m + 1) <= Len(c)
               PROVE  Bytes(F(k + (m + 1))) = Bytes(F(k)) \o Bytes(G(m + 1))
    OBVIOUS
  <2> DEFINE d == SubSeq(c, k + 1, Len(c))
             r == c[(k + m) + 1].rest
  <2>1. d \in Seq(Buffer) /\ Len(d) = Len(c) - k /\ d[m + 1] = c[(k + m) + 1]
    BY <1>0
  <2>2. G(m) = SubSeq(d, 1, m) /\ G(m + 1) = SubSeq(d, 1, m + 1)
    <3>1. G(m) \in Seq(Buffer) /\ Len(G(m)) = m /\ \A i \in 1..m : G(m)[i] = c[k + i]
      BY <1>0, SMTT(30)
    <3>2. G(m + 1) \in Seq(Buffer) /\ Len(G(m + 1)) = m + 1
          /\ \A i \in 1..(m + 1) : G(m + 1)[i] = c[k + i]
      BY <1>0, SMTT(30)
    <3>3. \A i \in 1..(m + 1) : d[i] = c[k + i]
      BY <1>0
    <3>4. /\ SubSeq(d, 1, m) \in Seq(Buffer) /\ Len(SubSeq(d, 1, m)) = m
          /\ \A i \in 1..m : SubSeq(d, 1, m)[i] = d[i]
      BY <1>0, <2>1
    <3>5. /\ SubSeq(d, 1, m + 1) \in Seq(Buffer) /\ Len(SubSeq(d, 1, m + 1)) = m + 1
          /\ \A i \in 1..(m + 1) : SubSeq(d, 1, m + 1)[i] = d[i]
      BY <1>0, <2>1
    <3> HIDE DEF d, G
    <3>6. G(m) = SubSeq(d, 1, m)
      BY <3>1, <3>3, <3>4, SeqEqual
    <3>7. G(m + 1) = SubSeq(d, 1, m + 1)
      BY <3>2, <3>3, <3>5, SeqEqual
    <3> QED BY <3>6, <3>7
  <2>3. m + 1 \in 1..Len(d)
    BY <1>0, <2>1
  <2> HIDE DEF d, G
  <2>4. /\ Bytes(G(m)) \in Seq(Byte)
        /\ Bytes(G(m + 1)) = Bytes(G(m)) \o d[m + 1].rest
    BY <2>1, <2>2, <2>3, BytesSnoc
  <2>5. (k + m) + 1 \in 1..Len(c) /\ k + m \in Nat /\ k + (m + 1) = (k + m) + 1
    BY <1>0
  <2>6. Bytes(F(k + (m + 1))) = Bytes(F(k + m)) \o r
    BY <2>5, BytesSnoc
  <2>7. Bytes(F(k + m)) = Bytes(F(k)) \o Bytes(G(m))
    BY <1>3, <2>5
  <2>8. r \in Seq(Byte)
    <3>1. c[(k + m) + 1] \in Buffer
      BY <2>5, ElementOfSeq
    <3> QED BY <3>1 DEF Buffer
  <2>9. Bytes(F(k)) \in Seq(Byte)
    BY <1>1, BytesType
  <2>10. Bytes(G(m + 1)) = Bytes(G(m)) \o r
    BY <2>1, <2>4
  <2> HIDE DEF F, r
  <2>11. (Bytes(F(k)) \o Bytes(G(m))) \o r = Bytes(F(k)) \o (Bytes(G(m)) \o r)
    BY <2>4, <2>8, <2>9, Assoc, Zenon
  <2> QED BY <2>6, <2>7, <2>10, <2>11
<1>4. Nat \subseteq S
  <2> HIDE DEF S
  <2> QED BY <1>2, <1>3, SetInduction
<1>5. Len(c) - k \in S /\ Len(c) - k \in Nat /\ k + (Len(c) - k) = Len(c)
  <2> HIDE DEF S
  <2> QED BY <1>0, <1>4
<1>6. F(Len(c)) = c
  BY SubSeqFull
<1>7. Bytes(F(k + (Len(c) - k))) = Bytes(F(k)) \o Bytes(G(Len(c) - k))
  BY <1>0, <1>5
<1> QED BY <1>5, <1>6, <1>7

\* Two chains put together hold the bytes of the first, then of the second.
LEMMA BytesConcat ==
  ASSUME NEW c \in Seq(Buffer), NEW d \in Seq(Buffer)
  PROVE  Bytes(c \o d) = Bytes(c) \o Bytes(d)
<1> DEFINE e == c \o d
<1>1. /\ e \in Seq(Buffer) /\ Len(e) = Len(c) + Len(d)
      /\ Len(c) \in Nat /\ Len(d) \in Nat
      /\ \A i \in 1..Len(e) : e[i] = IF i <= Len(c) THEN c[i] ELSE d[i - Len(c)]
  BY ConcatProperties, LenProperties
<1> HIDE DEF e
<1>2. SubSeq(e, 1, Len(c)) = c
  <2>1. /\ SubSeq(e, 1, Len(c)) \in Seq(Buffer) /\ Len(SubSeq(e, 1, Len(c))) = Len(c)
        /\ \A i \in 1..Len(c) : SubSeq(e, 1, Len(c))[i] = c[i]
    BY <1>1
  <2> QED BY <2>1, SeqEqual
<1>3. SubSeq(e, Len(c) + 1, Len(e)) = d
  <2>1. /\ SubSeq(e, Len(c) + 1, Len(e)) \in Seq(Buffer)
        /\ Len(SubSeq(e, Len(c) + 1, Len(e))) = Len(d)
        /\ \A i \in 1..Len(d) : SubSeq(e, Len(c) + 1, Len(e))[i] = d[i]
    <3>1. /\ SubSeq(e, Len(c) + 1, Len(e)) \in Seq(Buffer)
          /\ Len(SubSeq(e, Len(c) + 1, Len(e))) = Len(d)
      BY <1>1
    <3>2. ASSUME NEW i \in 1..Len(d) PROVE SubSeq(e, Len(c) + 1, Len(e))[i] = d[i]
      <4>1. SubSeq(e, Len(c) + 1, Len(e))[i] = e[Len(c) + i]
        BY <1>1
      <4>2. Len(c) + i \in 1..Len(e) /\ ~(Len(c) + i <= Len(c)) /\ Len(c) + i - Len(c) = i
        BY <1>1
      <4> QED BY <1>1, <4>1, <4>2
    <3> QED BY <3>1, <3>2
  <2> QED BY <2>1, SeqEqual
<1>4. Len(c) \in 0..Len(e)
  BY <1>1
<1>5. Bytes(e) = Bytes(c) \o Bytes(d)
  BY <1>1, <1>2, <1>3, <1>4, BytesSplit
<1> QED BY <1>5 DEF e

\* A chain of one buffer holds what is left in that buffer.
LEMMA BytesOne ==
  ASSUME NEW b \in Buffer PROVE <<b>> \in Seq(Buffer) /\ Bytes(<<b>>) = b.rest
<1>1. <<b>> \in Seq(Buffer) /\ Len(<<b>>) = 1 /\ <<b>>[1] = b
  OBVIOUS
<1>2. SubSeq(<<b>>, 1, 0) = <<>> /\ SubSeq(<<b>>, 1, 0 + 1) = <<b>>
  <2>1. SubSeq(<<b>>, 1, 1) = <<b>>
    <3> DEFINE c == <<b>>
    <3> HIDE DEF c
    <3>1. c \in Seq(Buffer) /\ Len(c) = 1
      BY <1>1 DEF c
    <3>2. SubSeq(c, 1, 1) = c
      BY <3>1, SubSeqFull
    <3> QED BY <3>2 DEF c
  <2>2. SubSeq(<<b>>, 1, 0) = <<>>
    BY SubSeqEmpty
  <2> QED BY <2>1, <2>2
<1>3. 0 + 1 \in 1..Len(<<b>>) /\ 0 + 1 = 1
  BY <1>1
<1>4. Bytes(<<b>>) = Bytes(<<>>) \o b.rest
  BY <1>1, <1>2, <1>3, BytesSnoc
<1>5. b.rest \in Seq(Byte)
  BY DEF Buffer
<1> QED BY <1>1, <1>4, <1>5, BytesEmpty, ConcatEmptySeq
-----------------------------------------------------------------------------
(* Least and greatest numbers.                                             *)

\* Min is a least element.
LEMMA MinIs ==
  ASSUME NEW T \in SUBSET Nat, T # {}
  PROVE  Min(T) \in T /\ \A y \in T : Min(T) <= y
<1>1. \E x \in T : \A y \in T : x <= y
  BY LeastNat
<1> QED BY <1>1 DEF Min

\* Max of numbers that are bounded is a greatest element.
LEMMA MaxIs ==
  ASSUME NEW n \in Nat, NEW T \in SUBSET (0..n), T # {}
  PROVE  Max(T) \in T /\ \A y \in T : y <= Max(T)
<1> DEFINE R == {n - x : x \in T}
<1>1. R \in SUBSET Nat /\ R # {}
  <2>1. \A x \in T : n - x \in Nat
    OBVIOUS
  <2> QED BY <2>1
<1>2. PICK r \in R : \A y \in R : r <= y
  BY <1>1, LeastNat
<1>3. PICK x \in T : r = n - x
  BY <1>2
<1>4. ASSUME NEW y \in T PROVE y <= x
  <2>1. n - y \in R
    OBVIOUS
  <2>2. n - x <= n - y
    BY <1>2, <1>3, <2>1
  <2> QED BY <2>2
<1>5. \E z \in T : \A y \in T : z >= y
  BY <1>4
<1>6. Max(T) \in T /\ \A y \in T : Max(T) >= y
  BY <1>5 DEF Max
<1> QED BY <1>6

\* Min of two numbers is the smaller one.
LEMMA MinTwo ==
  ASSUME NEW x \in Nat, NEW y \in Nat
  PROVE  Min({x, y}) = IF x <= y THEN x ELSE y
<1>1. {x, y} \in SUBSET Nat /\ {x, y} # {}
  OBVIOUS
<1>2. Min({x, y}) \in {x, y} /\ \A z \in {x, y} : Min({x, y}) <= z
  BY <1>1, MinIs
<1> QED BY <1>2

-----------------------------------------------------------------------------
(* A chain: its buffers are not empty, all but the last are full, and all  *)
(* but the first begin at their start.                                     *)

Sound(c) ==
  /\ \A i \in DOMAIN c : c[i].rest # <<>>
  /\ \A i \in DOMAIN c : i < Len(c) => End(c[i]) = DBUF_SIZE
  /\ \A i \in DOMAIN c : i > 1 => c[i].start = 0
  /\ \A i \in DOMAIN c : End(c[i]) <= DBUF_SIZE

\* How many bytes there are in front of the end of each buffer.
LEMMA BeforeIs ==
  ASSUME NEW c \in Seq(Buffer), Sound(c)
  PROVE  /\ \A i \in 0..Len(c) : Before(c, i) \in Nat
         /\ Before(c, 0) = 0 /\ Before(c, Len(c)) = Len(Bytes(c))
         /\ \A i \in 1..Len(c) : /\ Before(c, i) = Before(c, i - 1) + Len(c[i].rest)
                                 /\ Before(c, i - 1) < Before(c, i)
<1>0. Len(c) \in Nat /\ DOMAIN c = 1..Len(c)
  BY LenProperties
<1>1. \A i \in 0..Len(c) : Bytes(SubSeq(c, 1, i)) \in Seq(Byte)
  <2> TAKE i \in 0..Len(c)
  <2>1. SubSeq(c, 1, i) \in Seq(Buffer)
    OBVIOUS
  <2> QED BY <2>1, BytesType
<1>2. \A i \in 0..Len(c) : Before(c, i) \in Nat
  BY <1>1, LenProperties DEF Before
<1>3. Before(c, 0) = 0
  <2>1. SubSeq(c, 1, 0) = <<>>
    BY SubSeqEmpty
  <2>2. Len(<<>>) = 0
    OBVIOUS
  <2> QED BY <2>1, <2>2, BytesEmpty DEF Before
<1>4. Before(c, Len(c)) = Len(Bytes(c))
  BY SubSeqFull DEF Before
<1>5. ASSUME NEW i \in 1..Len(c)
      PROVE  /\ Before(c, i) = Before(c, i - 1) + Len(c[i].rest)
             /\ Before(c, i - 1) < Before(c, i)
  <2>1. PICK n \in Nat : i = n + 1
    <3>1. i - 1 \in Nat /\ i = (i - 1) + 1
      OBVIOUS
    <3> QED BY <3>1
  <2>2. /\ Bytes(SubSeq(c, 1, n)) \in Seq(Byte)
        /\ Bytes(SubSeq(c, 1, n + 1)) = Bytes(SubSeq(c, 1, n)) \o c[n + 1].rest
    BY <2>1, BytesSnoc
  <2>3. c[i] \in Buffer
    BY ElementOfSeq
  <2>4. c[i].rest \in Seq(Byte) /\ c[i].rest # <<>>
    BY <1>0, <2>3 DEF Buffer, Sound
  <2>5. Len(c[i].rest) \in Nat /\ Len(c[i].rest) > 0
    BY <2>4, EmptySeq
  <2>6. i - 1 = n
    BY <2>1
  <2>7. Before(c, n + 1) = Before(c, n) + Len(c[n + 1].rest)
    BY <2>1, <2>2, <2>4, ConcatProperties DEF Before
  <2>8. Before(c, n) \in Nat
    BY <1>2, <2>6, <1>0
  <2> QED BY <2>1, <2>5, <2>6, <2>7, <2>8
<1> QED BY <1>2, <1>3, <1>4, <1>5

\* No buffer of a sound chain is empty: there are more bytes before a later one.
LEMMA BeforeGrows ==
  ASSUME NEW c \in Seq(Buffer), Sound(c), NEW j \in 0..Len(c)
  PROVE  \A i \in 0..j : Before(c, i) <= Before(c, j)
<1> DEFINE S == {m \in Nat : m <= j => Before(c, j - m) <= Before(c, j)}
<1>0. Len(c) \in Nat /\ \A i \in 0..Len(c) : Before(c, i) \in Nat
  BY LenProperties, BeforeIs
<1>1. 0 \in S
  <2>1. j - 0 = j
    BY <1>0
  <2> QED BY <1>0, <2>1
<1>2. ASSUME NEW m \in Nat, m \in S PROVE m + 1 \in S
  <2> SUFFICES ASSUME m + 1 <= j PROVE Before(c, j - (m + 1)) <= Before(c, j)
    OBVIOUS
  <2>1. j - m \in 1..Len(c) /\ (j - m) - 1 = j - (m + 1) /\ j - (m + 1) \in 0..Len(c) /\ j - m \in 0..Len(c)
    BY <1>0
  <2>2. Before(c, (j - m) - 1) < Before(c, j - m)
    BY <2>1, BeforeIs
  <2>3. Before(c, j - m) <= Before(c, j)
    BY <1>2
  <2> QED BY <1>0, <2>1, <2>2, <2>3
<1>3. Nat \subseteq S
  <2> HIDE DEF S
  <2> QED BY <1>1, <1>2, SetInduction
<1>4. ASSUME NEW i \in 0..j PROVE Before(c, i) <= Before(c, j)
  <2>1. j - i \in Nat /\ j - i <= j /\ j - (j - i) = i
    BY <1>0
  <2>2. j - i \in S
    BY <1>3, <2>1
  <2>3. Before(c, j - (j - i)) <= Before(c, j)
    BY <2>1, <2>2
  <2> QED BY <2>1, <2>3
<1> QED BY <1>4

\* Which buffers go with the first n bytes.
LEMMA GoneIs ==
  ASSUME NEW c \in Seq(Buffer), Sound(c), NEW n \in 0..Len(Bytes(c))
  PROVE  LET g == Cardinality({i \in DOMAIN c : Before(c, i) <= n}) IN
         /\ g \in 0..Len(c) /\ Before(c, g) <= n
         /\ g < Len(c) => n < Before(c, g + 1)
<1>0. Len(c) \in Nat /\ DOMAIN c = 1..Len(c) /\ \A i \in 0..Len(c) : Before(c, i) \in Nat
  BY LenProperties, BeforeIs
<1>1. Before(c, 0) = 0 /\ n \in Nat
  BY BeforeIs, BytesType, LenProperties
<1> DEFINE T == {i \in 0..Len(c) : Before(c, i) <= n}
           g == Max(T)
<1>2. T \in SUBSET (0..Len(c)) /\ T # {}
  BY <1>0, <1>1
<1>3. g \in T /\ \A y \in T : y <= g
  BY <1>0, <1>2, MaxIs
<1>4. g \in 0..Len(c) /\ Before(c, g) <= n
  BY <1>3
<1>5. g < Len(c) => n < Before(c, g + 1)
  <2> SUFFICES ASSUME g < Len(c), ~(n < Before(c, g + 1)) PROVE FALSE
    OBVIOUS
  <2> HIDE DEF g
  <2>1. g + 1 \in 0..Len(c)
    BY <1>0, <1>4
  <2>2. Before(c, g + 1) <= n
    BY <1>0, <1>1, <2>1
  <2>3. g + 1 \in T
    BY <2>1, <2>2
  <2> QED BY <1>3, <1>4, <2>3
<1>6. {i \in DOMAIN c : Before(c, i) <= n} = 1..g
  <2> HIDE DEF g
  <2>1. ASSUME NEW i \in DOMAIN c, Before(c, i) <= n PROVE i \in 1..g
    <3>1. i \in T
      BY <1>0, <2>1
    <3> QED BY <1>0, <1>3, <1>4, <3>1
  <2>2. ASSUME NEW i \in 1..g PROVE i \in DOMAIN c /\ Before(c, i) <= n
    <3>1. i \in 0..g /\ i \in 0..Len(c)
      BY <1>0, <1>4
    <3>2. Before(c, i) <= Before(c, g)
      BY <1>4, <3>1, BeforeGrows
    <3> QED BY <1>0, <1>1, <1>4, <3>1, <3>2
  <2> QED BY <2>1, <2>2
<1>7. Cardinality(1..g) = g
  <2> HIDE DEF g
  <2>1. g \in Nat
    BY <1>4
  <2> QED BY <2>1, FS_Interval
<1> HIDE DEF g
<1> QED BY <1>4, <1>5, <1>6, <1>7
-----------------------------------------------------------------------------
(* Taking bytes off the front.                                             *)

\* What is left of a sequence without its first k elements.
LEMMA SuffixIs ==
  ASSUME NEW B, NEW s \in Seq(B), NEW k \in 0..Len(s)
  PROVE  /\ SubSeq(s, k + 1, Len(s)) \in Seq(B)
         /\ Len(SubSeq(s, k + 1, Len(s))) = Len(s) - k
         /\ \A i \in 1..(Len(s) - k) : SubSeq(s, k + 1, Len(s))[i] = s[k + i]
<1> DEFINE t == SubSeq(s, k + 1, Len(s))
<1>0. Len(s) \in Nat
  BY LenProperties
<1>1. \A i \in (k + 1)..Len(s) : s[i] \in B
  BY <1>0, ElementOfSeq
<1>2. /\ t \in Seq(B)
      /\ Len(t) = IF k + 1 <= Len(s) THEN Len(s) - (k + 1) + 1 ELSE 0
      /\ \A i \in 1..(Len(s) - (k + 1) + 1) : t[i] = s[(k + 1) + i - 1]
  <2>1. k + 1 \in Int /\ Len(s) \in Int
    BY <1>0
  <2> QED BY <1>1, <2>1, SubSeqProperties
<1> HIDE DEF t
<1>3. Len(s) - (k + 1) + 1 = Len(s) - k
  BY <1>0
<1>4. \A i \in 1..(Len(s) - k) : (k + 1) + i - 1 = k + i
  BY <1>0
<1>5. Len(t) = Len(s) - k
  BY <1>0, <1>2
<1>6. \A i \in 1..(Len(s) - k) : t[i] = s[k + i]
  BY <1>2, <1>3, <1>4
<1> QED BY <1>2, <1>5, <1>6 DEF t

\* Concatenation, element by element.
LEMMA JoinIs ==
  \A x, y \in Seq(Byte) :
    /\ x \o y \in Seq(Byte) /\ Len(x \o y) = Len(x) + Len(y)
    /\ \A i \in 1..(Len(x) + Len(y)) :
         (x \o y)[i] = IF i <= Len(x) THEN x[i] ELSE y[i - Len(x)]
BY ConcatProperties

\* Cutting inside the middle one of three sequences leaves a part of it and the third.
LEMMA CutInside ==
  ASSUME NEW p \in Seq(Byte), NEW r \in Seq(Byte), NEW t \in Seq(Byte), NEW k \in 0..Len(r)
  PROVE  LET s == p \o (r \o t) IN
         SubSeq(s, Len(p) + k + 1, Len(s)) = SubSeq(r, k + 1, Len(r)) \o t
<1> DEFINE s == p \o (r \o t)
           u == SubSeq(s, Len(p) + k + 1, Len(s))
           v == SubSeq(r, k + 1, Len(r))
           w == v \o t
<1>0. Len(p) \in Nat /\ Len(r) \in Nat /\ Len(t) \in Nat
  BY LenProperties
<1>1. /\ r \o t \in Seq(Byte) /\ Len(r \o t) = Len(r) + Len(t)
      /\ \A i \in 1..(Len(r) + Len(t)) :
           (r \o t)[i] = IF i <= Len(r) THEN r[i] ELSE t[i - Len(r)]
  BY ConcatProperties
<1>2. /\ s \in Seq(Byte) /\ Len(s) = Len(p) + Len(r) + Len(t)
      /\ \A i \in 1..(Len(p) + (Len(r) + Len(t))) :
           s[i] = IF i <= Len(p) THEN p[i] ELSE (r \o t)[i - Len(p)]
  <2> DEFINE q == r \o t
  <2> HIDE DEF q
  <2>1. q \in Seq(Byte) /\ Len(q) = Len(r) + Len(t)
    BY <1>1 DEF q
  <2>2. /\ p \o q \in Seq(Byte) /\ Len(p \o q) = Len(p) + Len(q)
        /\ \A i \in 1..(Len(p) + Len(q)) :
             (p \o q)[i] = IF i <= Len(p) THEN p[i] ELSE q[i - Len(p)]
    BY <2>1, JoinIs, Zenon
  <2>3. s = p \o q
    BY DEF q
  <2>4. Len(s) = Len(p) + Len(r) + Len(t)
    BY <1>0, <2>1, <2>2, <2>3
  <2> QED BY <2>1, <2>2, <2>3, <2>4 DEF q
<1> HIDE DEF s
<1>3. /\ v \in Seq(Byte) /\ Len(v) = Len(r) - k
      /\ \A i \in 1..(Len(r) - k) : v[i] = r[k + i]
  BY <1>0
<1>4. /\ u \in Seq(Byte) /\ Len(u) = Len(r) - k + Len(t)
      /\ \A i \in 1..(Len(r) - k + Len(t)) : u[i] = s[Len(p) + k + i]
  <2>1. \A i \in (Len(p) + k + 1)..Len(s) : s[i] \in Byte
    BY <1>0, <1>2, ElementOfSeq
  <2>2. Len(p) + k + 1 \in Int /\ Len(s) \in Int
        /\ Len(s) - (Len(p) + k + 1) + 1 = Len(r) - k + Len(t)
    BY <1>0, <1>2
  <2>3. /\ u \in Seq(Byte)
        /\ Len(u) = IF Len(p) + k + 1 <= Len(s) THEN Len(s) - (Len(p) + k + 1) + 1 ELSE 0
        /\ \A i \in 1..(Len(s) - (Len(p) + k + 1) + 1) : u[i] = s[(Len(p) + k + 1) + i - 1]
    BY <2>1, <2>2, SubSeqProperties, SMTT(30)
  <2>4. Len(u) = Len(r) - k + Len(t)
    BY <1>0, <1>2, <2>2, <2>3, SMTT(30)
  <2>5. \A i \in 1..(Len(r) - k + Len(t)) : (Len(p) + k + 1) + i - 1 = Len(p) + k + i
    BY <1>0
  <2> QED BY <2>2, <2>3, <2>4, <2>5
<1> HIDE DEF u, v
<1>5. /\ w \in Seq(Byte) /\ Len(w) = Len(r) - k + Len(t)
      /\ \A i \in 1..(Len(r) - k + Len(t)) :
           w[i] = IF i <= Len(r) - k THEN v[i] ELSE t[i - (Len(r) - k)]
  <2>1. /\ v \o t \in Seq(Byte) /\ Len(v \o t) = Len(v) + Len(t)
        /\ \A i \in 1..(Len(v) + Len(t)) :
             (v \o t)[i] = IF i <= Len(v) THEN v[i] ELSE t[i - Len(v)]
    BY <1>3, JoinIs, Zenon
  <2> QED BY <1>3, <2>1
<1> HIDE DEF w
<1>6. ASSUME NEW i \in 1..(Len(r) - k + Len(t)) PROVE u[i] = w[i]
  <2>1. /\ Len(p) + k + i \in 1..(Len(p) + (Len(r) + Len(t))) /\ ~(Len(p) + k + i <= Len(p))
        /\ Len(p) + k + i - Len(p) = k + i /\ k + i \in 1..(Len(r) + Len(t))
    BY <1>0
  <2>2. u[i] = (r \o t)[k + i]
    BY <1>2, <1>4, <2>1, SMTT(30)
  <2>3. u[i] = IF k + i <= Len(r) THEN r[k + i] ELSE t[k + i - Len(r)]
    BY <1>1, <2>1, <2>2, SMTT(30)
  <2>4. CASE k + i <= Len(r)
    <3>1. i <= Len(r) - k /\ i \in 1..(Len(r) - k)
      BY <1>0, <2>4
    <3> QED BY <1>3, <1>5, <2>3, <2>4, <3>1
  <2>5. CASE ~(k + i <= Len(r))
    <3>1. ~(i <= Len(r) - k) /\ i - (Len(r) - k) = k + i - Len(r)
      BY <1>0, <2>5
    <3> QED BY <1>5, <2>3, <2>5, <3>1
  <2> QED BY <2>4, <2>5
<1>7. u = w
  BY <1>4, <1>5, <1>6, SeqEqual
<1> QED BY <1>7 DEF s, u, v, w

\* Dropped takes exactly the first n bytes off a sound chain, which stays sound,
\* and leaves no chain only when no byte is left.
LEMMA DroppedIs ==
  ASSUME NEW c \in Seq(Buffer), Sound(c), NEW n \in 0..Len(Bytes(c))
  PROVE  /\ Dropped(c, n) \in Seq(Buffer) /\ Sound(Dropped(c, n))
         /\ Bytes(Dropped(c, n)) = SubSeq(Bytes(c), n + 1, Len(Bytes(c)))
         /\ Dropped(c, n) = <<>> => n = Len(Bytes(c))
<1> DEFINE g == Cardinality({i \in DOMAIN c : Before(c, i) <= n})
           part == n - Before(c, g)
           kept == SubSeq(c, g + 1, Len(c))
<1>0. Len(c) \in Nat /\ DOMAIN c = 1..Len(c) /\ n \in Nat /\ Len(Bytes(c)) \in Nat
      /\ Bytes(c) \in Seq(Byte)
  BY LenProperties, BytesType
<1>1. /\ g \in 0..Len(c) /\ Before(c, g) <= n
      /\ g < Len(c) => n < Before(c, g + 1)
  BY GoneIs
<1> HIDE DEF g
<1>2. /\ Before(c, g) \in Nat /\ Before(c, Len(c)) = Len(Bytes(c))
      /\ g < Len(c) => Before(c, g + 1) = Before(c, g) + Len(c[g + 1].rest)
  <2>1. g < Len(c) => g + 1 \in 1..Len(c) /\ (g + 1) - 1 = g
    BY <1>0, <1>1
  <2> QED BY <1>1, <2>1, BeforeIs
<1>3. Dropped(c, n) =
        IF kept = <<>> THEN <<>>
        ELSE [kept EXCEPT ![1] = [start |-> kept[1].start + part,
                                  rest |-> SubSeq(kept[1].rest, part + 1, Len(kept[1].rest))]]
  BY DEF Dropped, g
<1>4. kept \in Seq(Buffer) /\ Len(kept) = Len(c) - g
      /\ \A i \in 1..(Len(c) - g) : kept[i] = c[g + i]
  BY <1>1, SuffixIs, Zenon
<1>5. CASE g = Len(c)
  <2>1. kept = <<>>
    BY <1>4, <1>5, EmptySeq
  <2>2. Dropped(c, n) = <<>>
    BY <1>3, <2>1
  <2>3. n = Len(Bytes(c))
    BY <1>0, <1>1, <1>2, <1>5
  <2>4. SubSeq(Bytes(c), n + 1, Len(Bytes(c))) = <<>>
    BY <1>0, <2>3, SubSeqEmpty
  <2>5. Sound(<<>>) /\ <<>> \in Seq(Buffer)
    BY EmptySeq DEF Sound
  <2> QED BY <2>2, <2>3, <2>4, <2>5, BytesEmpty
<1>6. CASE g < Len(c)
  <2> DEFINE r == c[g + 1].rest
             b == [start |-> c[g + 1].start + part, rest |-> SubSeq(r, part + 1, Len(r))]
             tail == SubSeq(c, g + 2, Len(c))
             d == <<b>> \o tail
  <2>1. g + 1 \in 1..Len(c) /\ c[g + 1] \in Buffer
    BY <1>0, <1>1, <1>6, ElementOfSeq
  <2>2. /\ c[g + 1].start \in Nat /\ r \in Seq(Byte) /\ Len(r) \in Nat
        /\ End(c[g + 1]) = c[g + 1].start + Len(r)
    BY <2>1, LenProperties DEF Buffer, End
  <2>3. part \in 0..Len(r) /\ part < Len(r) /\ part \in Nat
    BY <1>0, <1>1, <1>2, <1>6, <2>2
  <2> HIDE DEF part
  <2>4. /\ SubSeq(r, part + 1, Len(r)) \in Seq(Byte)
        /\ Len(SubSeq(r, part + 1, Len(r))) = Len(r) - part
    <3> HIDE DEF r
    <3>1. \A i \in (part + 1)..Len(r) : r[i] \in Byte
      BY <2>2, <2>3, ElementOfSeq
    <3>2. part + 1 \in Int /\ Len(r) \in Int /\ part + 1 <= Len(r) /\ Len(r) - (part + 1) + 1 = Len(r) - part
      BY <2>2, <2>3
    <3> QED BY <3>1, <3>2, SubSeqProperties
  <2>5. /\ b \in Buffer /\ b.rest # <<>> /\ End(b) = End(c[g + 1])
        /\ b.rest = SubSeq(r, part + 1, Len(r))
    <3>1. b.rest = SubSeq(r, part + 1, Len(r)) /\ b.start = c[g + 1].start + part
      OBVIOUS
    <3>2. b \in Buffer
      <4>1. c[g + 1].start + part \in Nat
        BY <2>2, <2>3
      <4> QED BY <2>4, <4>1, Zenon DEF Buffer
    <3> HIDE DEF b
    <3>3. b.rest # <<>>
      <4>1. Len(b.rest) = Len(r) - part
        BY <2>4, <3>1, Zenon
      <4>2. Len(b.rest) # 0
        BY <2>2, <2>3, <4>1
      <4>3. Len(<<>>) = 0
        OBVIOUS
      <4> QED BY <4>2, <4>3
    <3>4. End(b) = End(c[g + 1])
      BY <2>2, <2>3, <2>4, <3>1 DEF End
    <3> QED BY <3>1, <3>2, <3>3, <3>4
  <2>6. /\ tail \in Seq(Buffer) /\ Len(tail) = Len(c) - g - 1
        /\ \A i \in 1..(Len(c) - g - 1) : tail[i] = c[g + 1 + i]
    <3> DEFINE k == g + 1
    <3>1. k \in 0..Len(c) /\ k + 1 = g + 2 /\ Len(c) - k = Len(c) - g - 1
      BY <1>0, <1>1, <1>6
    <3>2. /\ SubSeq(c, k + 1, Len(c)) \in Seq(Buffer)
          /\ Len(SubSeq(c, k + 1, Len(c))) = Len(c) - k
          /\ \A i \in 1..(Len(c) - k) : SubSeq(c, k + 1, Len(c))[i] = c[k + i]
      <4> HIDE DEF k
      <4> QED BY <3>1, SuffixIs, Zenon
    <3> QED BY <3>1, <3>2
  <2>7. kept # <<>> /\ kept[1] = c[g + 1]
    <3> DEFINE k == Len(c)
    <3>0. g \in 0..k /\ g < k /\ k \in Nat
      BY <1>0, <1>1, <1>6
    <3>1. 1 \in 1..(Len(c) - g) /\ Len(c) - g # 0
      <4> HIDE DEF k
      <4>1. 1 \in 1..(k - g) /\ k - g # 0
        BY <3>0
      <4> QED BY <4>1 DEF k
    <3>2. kept[1] = c[g + 1]
      BY <1>4, <3>1
    <3> HIDE DEF kept
    <3>3. Len(kept) # Len(<<>>)
      <4>1. Len(<<>>) = 0
        OBVIOUS
      <4> QED BY <1>4, <3>1, <4>1
    <3> QED BY <3>2, <3>3
  <2> HIDE DEF b, tail
  <2>8. /\ d \in Seq(Buffer) /\ Len(d) = Len(c) - g
        /\ \A i \in 1..(Len(c) - g) : d[i] = IF i = 1 THEN b ELSE c[g + i]
    <3>1. <<b>> \in Seq(Buffer) /\ Len(<<b>>) = 1 /\ <<b>>[1] = b
      BY <2>5
    <3>2. /\ d \in Seq(Buffer) /\ Len(d) = 1 + Len(tail)
          /\ \A i \in 1..(1 + Len(tail)) : d[i] = IF i <= 1 THEN <<b>>[i] ELSE tail[i - 1]
      <4> DEFINE o == <<b>>
      <4> HIDE DEF o
      <4>1. /\ o \o tail \in Seq(Buffer) /\ Len(o \o tail) = Len(o) + Len(tail)
            /\ \A i \in 1..(Len(o) + Len(tail)) :
                 (o \o tail)[i] = IF i <= Len(o) THEN o[i] ELSE tail[i - Len(o)]
        BY <2>6, <3>1, ConcatProperties DEF o
      <4> QED BY <3>1, <4>1 DEF o
    <3> HIDE DEF d
    <3>3. ASSUME NEW i \in 1..(Len(c) - g) PROVE d[i] = IF i = 1 THEN b ELSE c[g + i]
      <4>1. i \in 1..(1 + Len(tail)) /\ i <= 1 <=> i = 1
        BY <2>6, <1>0, <1>1, <1>6
      <4>2. i # 1 => i - 1 \in 1..(Len(c) - g - 1) /\ g + 1 + (i - 1) = g + i
        BY <1>0, <1>1, <1>6
      <4>3. i \in 1..(1 + Len(tail))
        BY <2>6, <1>0, <1>1, <1>6
      <4> QED BY <2>6, <3>1, <3>2, <4>1, <4>2, <4>3
    <3> QED BY <1>0, <1>1, <1>6, <2>6, <3>2, <3>3
  <2>9. Dropped(c, n) = d
    <3>1. Dropped(c, n) = [kept EXCEPT ![1] = b]
      BY <1>3, <2>7 DEF b
    <3> DEFINE e == [kept EXCEPT ![1] = b]
    <3> HIDE DEF kept, d
    <3>2. 1 \in 1..Len(kept)
      BY <1>0, <1>1, <1>4, <1>6
    <3>3. e \in Seq(Buffer) /\ Len(e) = Len(kept)
          /\ \A j \in 1..Len(kept) : e[j] = IF j = 1 THEN b ELSE kept[j]
      BY <1>4, <2>5, <3>2, ExceptSeq
    <3> HIDE DEF e
    <3>4. \A j \in 1..Len(e) : e[j] = d[j]
      BY <1>4, <2>8, <3>3
    <3>5. e = d
      BY <1>4, <2>8, <3>3, <3>4, SeqEqual
    <3> QED BY <3>1, <3>5 DEF e
  <2>10. Sound(d)
    <3> HIDE DEF d
    <3>1. DOMAIN d = 1..Len(d)
      BY <2>8, LenProperties
    <3>2. ASSUME NEW i \in 1..Len(d)
          PROVE  /\ d[i].rest # <<>>
                 /\ i < Len(d) => End(d[i]) = DBUF_SIZE
                 /\ i > 1 => d[i].start = 0
                 /\ End(d[i]) <= DBUF_SIZE
      <4>1. /\ g + i \in DOMAIN c /\ (i < Len(d) => g + i < Len(c)) /\ (i > 1 => g + i > 1)
            /\ i \in 1..(Len(c) - g)
        BY <1>0, <1>1, <2>8
      <4>2. /\ c[g + i].rest # <<>>
            /\ i < Len(d) => End(c[g + i]) = DBUF_SIZE
            /\ i > 1 => c[g + i].start = 0
            /\ End(c[g + i]) <= DBUF_SIZE
        BY <4>1 DEF Sound
      <4>3. CASE i = 1
        <5>1. d[i] = b /\ c[g + i] = c[g + 1] /\ ~(i > 1)
          BY <2>8, <4>1, <4>3
        <5> QED BY <2>5, <4>2, <5>1
      <4>4. CASE i # 1
        BY <2>8, <4>1, <4>2, <4>4
      <4> QED BY <4>3, <4>4
    <3> QED BY <3>1, <3>2 DEF Sound
  <2>11. Bytes(d) = SubSeq(r, part + 1, Len(r)) \o Bytes(tail)
    <3>1. <<b>> \in Seq(Buffer) /\ Bytes(<<b>>) = b.rest
      BY <2>5, BytesOne
    <3> QED BY <2>5, <2>6, <3>1, BytesConcat
  <2> DEFINE p == Bytes(SubSeq(c, 1, g))
  <2>12. Bytes(c) = p \o (r \o Bytes(tail))
    <3>1. Bytes(c) = p \o Bytes(kept)
      BY <1>1, BytesSplit
    <3>2. kept = <<c[g + 1]>> \o tail
      <4> HIDE DEF kept
      <4>1. g + 1 \in 1..Len(c) /\ Len(c) \in (g + 1)..Len(c) /\ (g + 1) + 1 = g + 2
        BY <1>0, <1>1, <1>6
      <4> QED BY <4>1, SubSeqRecursiveFirst DEF kept, tail
    <3>3. <<c[g + 1]>> \in Seq(Buffer) /\ Bytes(<<c[g + 1]>>) = r
      BY <2>1, BytesOne
    <3>4. Bytes(kept) = r \o Bytes(tail)
      BY <2>6, <3>2, <3>3, BytesConcat
    <3> QED BY <3>1, <3>4
  <2>13. p \in Seq(Byte) /\ Bytes(tail) \in Seq(Byte) /\ Len(p) + part = n
    <3>1. SubSeq(c, 1, g) \in Seq(Buffer)
      BY <1>0, <1>1
    <3>2. Len(p) = Before(c, g)
      BY DEF Before
    <3>3. Before(c, g) + part = n
      BY <1>0, <1>2 DEF part
    <3> QED BY <2>6, <3>1, <3>2, <3>3, BytesType
  <2> HIDE DEF p, r, d
  <2>14. SubSeq(Bytes(c), n + 1, Len(Bytes(c))) = SubSeq(r, part + 1, Len(r)) \o Bytes(tail)
    <3> DEFINE t == Bytes(tail)
               z == p \o (r \o t)
    <3> HIDE DEF t
    <3>1. t \in Seq(Byte)
      BY <2>13 DEF t
    <3>2. SubSeq(z, Len(p) + part + 1, Len(z)) = SubSeq(r, part + 1, Len(r)) \o t
      BY <2>2, <2>3, <2>13, <3>1, CutInside
    <3>3. z = Bytes(c)
      BY <2>12 DEF t
    <3> QED BY <2>13, <3>2, <3>3 DEF t
  <2>15. d # <<>>
    BY <1>6, <1>0, <1>1, <2>8, EmptySeq
  <2> QED BY <2>8, <2>9, <2>10, <2>11, <2>14, <2>15
<1>7. g = Len(c) \/ g < Len(c)
  <2>1. g \in 0..Len(c) /\ Len(c) \in Nat
    BY <1>0, <1>1, Zenon
  <2> HIDE DEF kept, part
  <2> QED BY <2>1
<1> QED BY <1>5, <1>6, <1>7, Zenon
-----------------------------------------------------------------------------
(* Appending bytes: the room of the tail, and blocks of DBUF_SIZE.         *)

\* The number of buffers of size S that n bytes take: enough, and none too many.
LEMMA Blocks ==
  ASSUME NEW n \in Nat, NEW S \in Nat \ {0}
  PROVE  LET q == (n + S - 1) \div S IN
         /\ q \in Nat /\ q * S >= n
         /\ \A i \in 1..q : (i - 1) * S < n
<1> DEFINE m == n + S - 1
           q == m \div S
<1>1. m \in Nat /\ S > 0
  OBVIOUS
<1> HIDE DEF m
<1>2. q \in Nat
  BY <1>1, SMTT(20)
<1>3. q * S <= m /\ m < q * S + S
  BY <1>1, SMTT(20)
<1> HIDE DEF q
<1>4. \A i \in 1..q : (i - 1) * S <= (q - 1) * S
  BY <1>2, SMTT(20)
<1>5. (q - 1) * S = q * S - S /\ q * S \in Nat
  BY <1>2, SMTT(20)
<1>6. q * S >= n /\ (q - 1) * S < n
  BY <1>3, <1>5, <1>2 DEF m
<1>7. \A i \in 1..q : (i - 1) * S \in Int
  BY <1>2
<1>8. \A i \in 1..q : (i - 1) * S < n
  BY <1>4, <1>5, <1>6, <1>7
<1> QED BY <1>2, <1>6, <1>8 DEF q, m

(* The bytes s in blocks, as dbuf_put writes them to new buffers.          *)
CutAt(s, i) == SubSeq(s, (i - 1) * DBUF_SIZE + 1, Min({i * DBUF_SIZE, Len(s)}))
CutUp(s) ==
  [i \in 1..((Len(s) + DBUF_SIZE - 1) \div DBUF_SIZE) |-> [start |-> 0, rest |-> CutAt(s, i)]]

\* New buffers hold the bytes they are made for, in order, all but the last full.
LEMMA CutUpIs ==
  ASSUME NEW s \in Seq(Byte), DBUF_SIZE \in Nat \ {0}
  PROVE  /\ CutUp(s) \in Seq(Buffer) /\ Sound(CutUp(s)) /\ Bytes(CutUp(s)) = s
         /\ \A i \in DOMAIN CutUp(s) : CutUp(s)[i].start = 0
<1> DEFINE q == (Len(s) + DBUF_SIZE - 1) \div DBUF_SIZE
           P(i) == i * DBUF_SIZE
           E(i) == IF P(i) <= Len(s) THEN P(i) ELSE Len(s)
           c == CutUp(s)
<1>0. Len(s) \in Nat
  BY LenProperties
<1>1. q \in Nat /\ P(q) >= Len(s) /\ \A i \in 1..q : P(i - 1) < Len(s)
  BY <1>0, Blocks
<1> HIDE DEF q
<1>2. \A i \in Nat : P(i) \in Nat /\ P(i + 1) = P(i) + DBUF_SIZE
  BY SMTT(20)
<1>3. P(0) = 0
  OBVIOUS
<1> HIDE DEF P
<1>4. \A i \in Nat : E(i) \in 0..Len(s) /\ Min({P(i), Len(s)}) = E(i)
  <2> TAKE i \in Nat
  <2>1. P(i) \in Nat
    BY <1>2
  <2>2. Min({P(i), Len(s)}) = IF P(i) <= Len(s) THEN P(i) ELSE Len(s)
    BY <1>0, <2>1, MinTwo
  <2>3. E(i) \in 0..Len(s)
    BY <1>0, <2>1
  <2> QED BY <2>2, <2>3
<1>5. ASSUME NEW i \in Nat, i + 1 \in 1..q
      PROVE  /\ CutAt(s, i + 1) = SubSeq(s, E(i) + 1, E(i + 1))
             /\ E(i) = P(i) /\ E(i) < E(i + 1)
             /\ E(i + 1) - E(i) <= DBUF_SIZE
             /\ i + 1 < q => E(i + 1) - E(i) = DBUF_SIZE
  <2>1. (i + 1) - 1 = i /\ P(i) < Len(s) /\ i + 1 \in Nat
    <3>1. (i + 1) - 1 = i
      OBVIOUS
    <3>2. P((i + 1) - 1) < Len(s)
      BY <1>1, <1>5
    <3> QED BY <3>1, <3>2
  <2>2. CutAt(s, i + 1) = SubSeq(s, ((i + 1) - 1) * DBUF_SIZE + 1, Min({P(i + 1), Len(s)}))
    BY DEF CutAt, P
  <2>3. ((i + 1) - 1) * DBUF_SIZE = P(i)
    BY <2>1 DEF P
  <2>4. P(i) \in Nat /\ P(i + 1) = P(i) + DBUF_SIZE
    BY <1>2
  <2>5. E(i) = P(i)
    BY <1>0, <2>1, <2>4
  <2>6. E(i) < E(i + 1) /\ E(i + 1) - E(i) <= DBUF_SIZE
    BY <1>0, <2>1, <2>4
  <2>7. i + 1 < q => E(i + 1) - E(i) = DBUF_SIZE
    <3> SUFFICES ASSUME i + 1 < q PROVE E(i + 1) - E(i) = DBUF_SIZE
      OBVIOUS
    <3>1. (i + 1) + 1 \in 1..q /\ ((i + 1) + 1) - 1 = i + 1
      BY <1>1
    <3>2. P(i + 1) < Len(s)
      <4>1. P(((i + 1) + 1) - 1) < Len(s)
        BY <1>1, <3>1
      <4> QED BY <3>1, <4>1
    <3> QED BY <1>0, <2>1, <2>4, <3>2
  <2>8. Min({P(i + 1), Len(s)}) = E(i + 1)
    BY <1>4, <2>1
  <2>9. CutAt(s, i + 1) = SubSeq(s, E(i) + 1, E(i + 1))
    BY <2>2, <2>3, <2>5, <2>8, Zenon
  <2> HIDE DEF E
  <2> QED BY <2>5, <2>6, <2>7, <2>9
<1>6. ASSUME NEW i \in 1..q
      PROVE  /\ CutAt(s, i) \in Seq(Byte) /\ CutAt(s, i) # <<>>
             /\ Len(CutAt(s, i)) <= DBUF_SIZE
             /\ i < q => Len(CutAt(s, i)) = DBUF_SIZE
  <2>1. PICK j \in Nat : i = j + 1
    <3>1. i - 1 \in Nat /\ i = (i - 1) + 1
      BY <1>1
    <3> QED BY <3>1
  <2>2. /\ CutAt(s, i) = SubSeq(s, E(j) + 1, E(i)) /\ E(j) < E(i)
        /\ E(i) - E(j) <= DBUF_SIZE
        /\ i < q => E(i) - E(j) = DBUF_SIZE
    BY <1>5, <2>1
  <2>3. E(j) \in 0..Len(s) /\ E(i) \in 0..Len(s)
    <3>1. i \in Nat
      BY <2>1
    <3> HIDE DEF E
    <3> QED BY <1>4, <2>1, <3>1
  <2> HIDE DEF E
  <2>4. /\ SubSeq(s, E(j) + 1, E(i)) \in Seq(Byte)
        /\ Len(SubSeq(s, E(j) + 1, E(i))) = E(i) - E(j)
    <3>1. \A k \in (E(j) + 1)..E(i) : s[k] \in Byte
      BY <1>0, <2>3, ElementOfSeq
    <3>2. E(j) + 1 \in Int /\ E(i) \in Int /\ E(j) + 1 <= E(i) /\ E(i) - (E(j) + 1) + 1 = E(i) - E(j)
      BY <1>0, <2>2, <2>3
    <3> QED BY <3>1, <3>2, SubSeqProperties
  <2>5. E(i) - E(j) # 0
    BY <1>0, <2>2, <2>3
  <2>6. Len(CutAt(s, i)) # Len(<<>>)
    <3>1. Len(<<>>) = 0
      OBVIOUS
    <3> QED BY <2>2, <2>4, <2>5, <3>1
  <2> QED BY <2>2, <2>4, <2>6
<1>7. c = [i \in 1..q |-> [start |-> 0, rest |-> CutAt(s, i)]]
  BY DEF CutUp, q
<1>8. /\ c \in Seq(Buffer) /\ Len(c) = q /\ DOMAIN c = 1..q
      /\ \A i \in 1..q : c[i].start = 0 /\ c[i].rest = CutAt(s, i)
  <2>1. \A i \in 1..q : [start |-> 0, rest |-> CutAt(s, i)] \in Buffer
    BY <1>6 DEF Buffer
  <2> HIDE DEF c
  <2>2. c \in Seq(Buffer) /\ Len(c) = q /\ DOMAIN c = 1..q
    BY <1>1, <1>7, <2>1
  <2>3. \A i \in 1..q : c[i] = [start |-> 0, rest |-> CutAt(s, i)]
    BY <1>7
  <2> QED BY <2>2, <2>3
<1> HIDE DEF c
<1>9. Sound(c)
  <2>1. ASSUME NEW i \in 1..q
        PROVE  /\ c[i].rest # <<>> /\ c[i].start = 0
               /\ End(c[i]) <= DBUF_SIZE
               /\ i < q => End(c[i]) = DBUF_SIZE
    <3>1. End(c[i]) = 0 + Len(CutAt(s, i))
      BY <1>8 DEF End
    <3>2. Len(CutAt(s, i)) \in Nat
      BY <1>6, LenProperties
    <3>3. End(c[i]) = Len(CutAt(s, i))
      BY <3>1, <3>2
    <3> QED BY <1>6, <1>8, <3>3
  <2> QED BY <1>8, <2>1 DEF Sound
<1>10. Bytes(c) = s
  <2> DEFINE T == {m \in Nat : m <= q => Bytes(SubSeq(c, 1, m)) = SubSeq(s, 1, E(m))}
  <2>1. 0 \in T
    <3>1. E(0) = 0
      BY <1>0, <1>3
    <3>2. SubSeq(c, 1, 0) = <<>> /\ SubSeq(s, 1, 0) = <<>>
      BY SubSeqEmpty
    <3> QED BY <3>1, <3>2, BytesEmpty
  <2>2. ASSUME NEW m \in Nat, m \in T PROVE m + 1 \in T
    <3> SUFFICES ASSUME m + 1 <= q PROVE Bytes(SubSeq(c, 1, m + 1)) = SubSeq(s, 1, E(m + 1))
      OBVIOUS
    <3>1. m + 1 \in 1..q
      OBVIOUS
    <3>2. Bytes(SubSeq(c, 1, m + 1)) = Bytes(SubSeq(c, 1, m)) \o c[m + 1].rest
      BY <1>8, <3>1, BytesSnoc
    <3>3. Bytes(SubSeq(c, 1, m)) = SubSeq(s, 1, E(m))
      BY <2>2, <1>1, <3>1
    <3>4. c[m + 1].rest = SubSeq(s, E(m) + 1, E(m + 1)) /\ E(m) < E(m + 1)
      BY <1>5, <1>8, <3>1
    <3>5. E(m) \in 0..Len(s) /\ E(m + 1) \in 0..Len(s)
      <4>1. m + 1 \in Nat
        OBVIOUS
      <4> HIDE DEF E
      <4> QED BY <1>4, <4>1
    <3> HIDE DEF E
    <3>6. SubSeq(s, 1, E(m)) \o SubSeq(s, E(m) + 1, E(m + 1)) = SubSeq(s, 1, E(m + 1))
      <4>1. 1 \in 1..(Len(s) + 1) /\ E(m) \in (1 - 1)..Len(s) /\ E(m + 1) \in E(m)..Len(s)
        BY <1>0, <3>4, <3>5
      <4> QED BY <4>1, ConcatAdjacentSubSeq
    <3> QED BY <3>2, <3>3, <3>4, <3>6
  <2>3. Nat \subseteq T
    <3> HIDE DEF T
    <3> QED BY <2>1, <2>2, SetInduction
  <2>4. Bytes(SubSeq(c, 1, q)) = SubSeq(s, 1, E(q))
    <3>1. q \in T
      BY <1>1, <2>3
    <3>2. q <= q
      BY <1>1
    <3> QED BY <3>1, <3>2
  <2>5. E(q) = Len(s)
    BY <1>0, <1>1, <1>2
  <2> HIDE DEF E
  <2> QED BY <1>8, <2>4, <2>5, SubSeqFull
<1> QED BY <1>8, <1>9, <1>10 DEF c

\* Filling the room of the last buffer keeps the chain sound and appends the bytes.
LEMMA FilledIs ==
  ASSUME NEW c \in Seq(Buffer), Sound(c), c # <<>>, NEW x \in Seq(Byte),
         End(c[Len(c)]) + Len(x) <= DBUF_SIZE, DBUF_SIZE \in Nat
  PROVE  LET f == [c EXCEPT ![Len(c)].rest = @ \o x] IN
         /\ f \in Seq(Buffer) /\ Len(f) = Len(c) /\ Sound(f)
         /\ End(f[Len(c)]) = End(c[Len(c)]) + Len(x)
         /\ Bytes(f) = Bytes(c) \o x
<1> DEFINE l == Len(c)
           b == [c[l] EXCEPT !.rest = @ \o x]
           f == [c EXCEPT ![l].rest = @ \o x]
<1>0. l \in Nat /\ l >= 1 /\ DOMAIN c = 1..l
  BY LenProperties, EmptySeq
<1>1. c[l] \in Buffer /\ c[l].start \in Nat /\ c[l].rest \in Seq(Byte) /\ c[l].rest # <<>>
  <2>1. c[l] \in Buffer /\ l \in DOMAIN c
    BY <1>0, ElementOfSeq
  <2>2. c[l].rest # <<>>
    BY <2>1 DEF Sound
  <2>3. c[l].start \in Nat /\ c[l].rest \in Seq(Byte)
    <3> HIDE DEF l
    <3> QED BY <2>1 DEF Buffer
  <2> QED BY <2>1, <2>2, <2>3
<1>2. /\ c[l].rest \o x \in Seq(Byte) /\ Len(c[l].rest \o x) = Len(c[l].rest) + Len(x)
      /\ Len(c[l].rest) \in Nat /\ Len(x) \in Nat /\ Len(c[l].rest) > 0
  <2>1. Len(c[l].rest) \in Nat /\ Len(x) \in Nat /\ Len(c[l].rest) > 0
    BY <1>1, EmptySeq, LenProperties
  <2> QED BY <1>1, <2>1, JoinIs, Zenon
<1>3. b = [start |-> c[l].start, rest |-> c[l].rest \o x]
  <2>1. ASSUME NEW u \in [start : Nat, rest : Seq(Byte)], NEW t
        PROVE  [u EXCEPT !.rest = t] = [start |-> u.start, rest |-> t]
    OBVIOUS
  <2>2. c[l] \in [start : Nat, rest : Seq(Byte)]
    BY <1>1 DEF Buffer
  <2> QED BY <2>1, <2>2
<1>4. b \in Buffer /\ b.rest = c[l].rest \o x /\ b.start = c[l].start
  BY <1>1, <1>2, <1>3 DEF Buffer
<1>5. b.rest # <<>> /\ End(b) = End(c[l]) + Len(x)
  <2>1. Len(<<>>) = 0
    OBVIOUS
  <2>2. Len(b.rest) # 0
    BY <1>2, <1>4
  <2>3. End(b) = End(c[l]) + Len(x)
    <3> HIDE DEF b
    <3> QED BY <1>1, <1>2, <1>4 DEF End
  <2> QED BY <2>1, <2>2, <2>3
<1>6. f = [c EXCEPT ![l] = b]
  OBVIOUS
<1> HIDE DEF b, f
<1>7. f \in Seq(Buffer) /\ Len(f) = l /\ \A j \in 1..l : f[j] = IF j = l THEN b ELSE c[j]
  BY <1>0, <1>4, <1>6, ExceptSeq
<1>8. f[l] = b
  <2>1. l \in 1..l
    BY <1>0
  <2> QED BY <1>7, <2>1
<1>9. Sound(f)
  <2>1. DOMAIN f = 1..l
    BY <1>7, LenProperties
  <2>2. ASSUME NEW i \in 1..l
        PROVE  /\ f[i].rest # <<>>
               /\ i < l => End(f[i]) = DBUF_SIZE
               /\ i > 1 => f[i].start = 0
               /\ End(f[i]) <= DBUF_SIZE
    <3>1. CASE i = l
      <4>1. f[i] = b /\ ~(i < l)
        BY <1>0, <1>8, <3>1
      <4>2. i > 1 => c[i].start = 0
        BY <1>0 DEF Sound
      <4> QED BY <1>4, <1>5, <3>1, <4>1, <4>2
    <3>2. CASE i # l
      <4>1. f[i] = c[i]
        BY <1>7, <3>2
      <4> QED BY <1>0, <4>1 DEF Sound
    <3> QED BY <3>1, <3>2
  <2> QED BY <1>7, <2>1, <2>2 DEF Sound
<1>10. Bytes(f) = Bytes(c) \o x
  <2> DEFINE n == l - 1
             p == SubSeq(c, 1, n)
  <2>1. n \in Nat /\ n + 1 = l /\ n + 1 \in 1..l
    BY <1>0
  <2> HIDE DEF n, l
  <2>2. SubSeq(f, 1, n) = p
    <3>1. \A i \in 1..n : f[i] = c[i]
      BY <1>0, <1>7, <2>1
    <3>2. /\ SubSeq(f, 1, n) \in Seq(Buffer) /\ Len(SubSeq(f, 1, n)) = n
          /\ \A i \in 1..n : SubSeq(f, 1, n)[i] = f[i]
      BY <1>7, <2>1
    <3>3. /\ p \in Seq(Buffer) /\ Len(p) = n
          /\ \A i \in 1..n : p[i] = c[i]
      BY <2>1 DEF l
    <3> HIDE DEF p
    <3> QED BY <3>1, <3>2, <3>3, SeqEqual
  <2>3. Bytes(SubSeq(f, 1, l)) = Bytes(p) \o b.rest
    <3>1. n + 1 \in 1..Len(f)
      BY <1>7, <2>1
    <3> QED BY <1>7, <1>8, <2>1, <2>2, <3>1, BytesSnoc
  <2>4. Bytes(SubSeq(c, 1, l)) = Bytes(p) \o c[l].rest /\ Bytes(p) \in Seq(Byte)
    <3>1. n + 1 \in 1..Len(c)
      BY <2>1 DEF l
    <3> QED BY <2>1, <3>1, BytesSnoc
  <2>5. SubSeq(f, 1, l) = f /\ SubSeq(c, 1, l) = c
    BY <1>7, SubSeqFull DEF l
  <2>6. (Bytes(p) \o c[l].rest) \o x = Bytes(p) \o (c[l].rest \o x)
    BY <1>1, <2>4, Assoc, Zenon
  <2> QED BY <1>4, <2>3, <2>4, <2>5, <2>6
<1> QED BY <1>5, <1>7, <1>8, <1>9, <1>10 DEF f

\* New buffers may follow a chain whose last buffer is full.
LEMMA JoinSound ==
  ASSUME NEW c \in Seq(Buffer), Sound(c), NEW d \in Seq(Buffer), Sound(d),
         \A i \in DOMAIN d : d[i].start = 0,
         c # <<>> /\ d # <<>> => End(c[Len(c)]) = DBUF_SIZE
  PROVE  c \o d \in Seq(Buffer) /\ Sound(c \o d)
<1> DEFINE e == c \o d
<1>0. Len(c) \in Nat /\ Len(d) \in Nat /\ DOMAIN c = 1..Len(c) /\ DOMAIN d = 1..Len(d)
  BY LenProperties
<1>1. /\ e \in Seq(Buffer) /\ Len(e) = Len(c) + Len(d)
      /\ \A i \in 1..(Len(c) + Len(d)) : e[i] = IF i <= Len(c) THEN c[i] ELSE d[i - Len(c)]
  BY ConcatProperties
<1> HIDE DEF e
<1>2. DOMAIN e = 1..Len(e)
  BY <1>1, LenProperties
<1>3. ASSUME NEW i \in 1..Len(e)
      PROVE  /\ e[i].rest # <<>>
             /\ i < Len(e) => End(e[i]) = DBUF_SIZE
             /\ i > 1 => e[i].start = 0
             /\ End(e[i]) <= DBUF_SIZE
  <2>1. CASE i <= Len(c)
    <3>1. e[i] = c[i] /\ i \in DOMAIN c
      BY <1>0, <1>1, <2>1
    <3>2. i < Len(e) => i < Len(c) \/ (i = Len(c) /\ c # <<>> /\ d # <<>>)
      <4>1. i \in Nat /\ i >= 1
        BY <1>0, <1>1
      <4>2. d = <<>> => Len(d) = 0
        OBVIOUS
      <4>3. c = <<>> => Len(c) = 0
        OBVIOUS
      <4> SUFFICES ASSUME i < Len(e), ~(i < Len(c)) PROVE i = Len(c) /\ Len(c) # 0 /\ Len(d) # 0
        BY <4>2, <4>3
      <4> DEFINE lc == Len(c)
                 ld == Len(d)
                 le == Len(e)
      <4>4. lc \in Nat /\ ld \in Nat /\ le = lc + ld /\ i <= lc /\ i < le /\ ~(i < lc)
        BY <1>0, <1>1, <2>1
      <4> HIDE DEF lc, ld, le
      <4>5. i = lc /\ lc # 0 /\ ld # 0
        BY <4>1, <4>4
      <4> QED BY <4>5 DEF lc, ld
    <3>3. i < Len(c) => End(c[i]) = DBUF_SIZE
      BY <3>1 DEF Sound
    <3>4. i < Len(e) => End(c[i]) = DBUF_SIZE
      BY <3>2, <3>3
    <3>5. /\ c[i].rest # <<>> /\ End(c[i]) <= DBUF_SIZE
          /\ i > 1 => c[i].start = 0
      BY <3>1 DEF Sound
    <3> QED BY <3>1, <3>4, <3>5
  <2>2. CASE ~(i <= Len(c))
    <3>1. /\ e[i] = d[i - Len(c)] /\ i - Len(c) \in DOMAIN d
          /\ i < Len(e) => i - Len(c) < Len(d)
      <4> DEFINE lc == Len(c)
                 ld == Len(d)
      <4>1. /\ lc \in Nat /\ ld \in Nat /\ Len(e) = lc + ld /\ ~(i <= lc) /\ DOMAIN d = 1..ld
            /\ i \in 1..(lc + ld)
            /\ \A j \in 1..(lc + ld) : e[j] = IF j <= lc THEN c[j] ELSE d[j - lc]
        BY <1>0, <1>1, <2>2
      <4> HIDE DEF lc, ld
      <4>2. e[i] = d[i - lc]
        BY <4>1
      <4>3. i - lc \in 1..ld /\ (i < lc + ld => i - lc < ld)
        BY <4>1
      <4> QED BY <4>1, <4>2, <4>3 DEF lc, ld
    <3> DEFINE k == i - Len(c)
    <3> HIDE DEF k
    <3>2. e[i] = d[k] /\ k \in DOMAIN d /\ (i < Len(e) => k < Len(d))
      BY <3>1 DEF k
    <3>3. /\ d[k].rest # <<>> /\ End(d[k]) <= DBUF_SIZE /\ d[k].start = 0
          /\ k < Len(d) => End(d[k]) = DBUF_SIZE
      BY <3>2 DEF Sound
    <3> QED BY <3>2, <3>3
  <2> QED BY <2>1, <2>2
<1> QED BY <1>1, <1>2, <1>3 DEF Sound, e

\* Appended keeps a sound chain sound and puts the bytes at its end.
LEMMA AppendedIs ==
  ASSUME NEW c \in Seq(Buffer), Sound(c), NEW s \in Seq(Byte), s # <<>>,
         DBUF_SIZE \in Nat \ {0}
  PROVE  /\ Appended(c, s) \in Seq(Buffer) /\ Sound(Appended(c, s))
         /\ Len(Appended(c, s)) >= Len(c)
         /\ Bytes(Appended(c, s)) = Bytes(c) \o s
<1> DEFINE room == IF c = <<>> THEN 0 ELSE DBUF_SIZE - End(Last(c))
           fill == Min({room, Len(s)})
           left == SubSeq(s, fill + 1, Len(s))
           f == IF fill = 0 THEN c ELSE [c EXCEPT ![Len(c)].rest = @ \o SubSeq(s, 1, fill)]
<1>0. Len(c) \in Nat /\ Len(s) \in Nat /\ DOMAIN c = 1..Len(c) /\ (c # <<>> => Len(c) \in DOMAIN c)
  BY LenProperties, EmptySeq
<1>1. c # <<>> => End(c[Len(c)]) \in Nat /\ End(c[Len(c)]) <= DBUF_SIZE
  <2> SUFFICES ASSUME c # <<>>
               PROVE  End(c[Len(c)]) \in Nat /\ End(c[Len(c)]) <= DBUF_SIZE
    OBVIOUS
  <2>1. c[Len(c)] \in Buffer
    BY <1>0, ElementOfSeq
  <2>2. c[Len(c)].start \in Nat /\ Len(c[Len(c)].rest) \in Nat
    BY <2>1, LenProperties DEF Buffer
  <2> QED BY <1>0, <2>2 DEF Sound, End
<1>2. room \in Nat /\ (c # <<>> => room = DBUF_SIZE - End(c[Len(c)]))
  BY <1>1 DEF Last
<1>3. fill = IF room <= Len(s) THEN room ELSE Len(s)
  <2> HIDE DEF room
  <2> QED BY <1>0, <1>2, MinTwo
<1>4. fill \in 0..Len(s) /\ fill <= room
  <2> HIDE DEF room, fill
  <2> QED BY <1>0, <1>2, <1>3
<1>5. Appended(c, s) = f \o CutUp(left)
  BY DEF Appended, CutUp, CutAt
<1> HIDE DEF fill
<1>6. left \in Seq(Byte) /\ Len(left) = Len(s) - fill
  BY <1>4, SuffixIs, Zenon
<1>7. SubSeq(s, 1, fill) \in Seq(Byte) /\ Len(SubSeq(s, 1, fill)) = fill
  BY <1>0, <1>4
<1>8. SubSeq(s, 1, fill) \o left = s
  <2>1. 1 \in 1..(Len(s) + 1) /\ fill \in (1 - 1)..Len(s) /\ Len(s) \in fill..Len(s)
    BY <1>0, <1>4
  <2>2. SubSeq(s, 1, fill) \o SubSeq(s, fill + 1, Len(s)) = SubSeq(s, 1, Len(s))
    BY <2>1, ConcatAdjacentSubSeq
  <2> QED BY <2>2, SubSeqFull
<1>9. /\ CutUp(left) \in Seq(Buffer) /\ Sound(CutUp(left)) /\ Bytes(CutUp(left)) = left
      /\ \A i \in DOMAIN CutUp(left) : CutUp(left)[i].start = 0
  <2> HIDE DEF left
  <2> QED BY <1>6, CutUpIs
<1>10. left # <<>> => fill = room
  <2> SUFFICES ASSUME fill # room PROVE left = <<>>
    OBVIOUS
  <2>1. fill = Len(s)
    BY <1>3
  <2> QED BY <1>0, <2>1, SubSeqEmpty
<1>11. /\ f \in Seq(Buffer) /\ Len(f) = Len(c) /\ Sound(f) /\ Bytes(f) = Bytes(c) \o SubSeq(s, 1, fill)
       /\ f # <<>> /\ left # <<>> => End(f[Len(f)]) = DBUF_SIZE
  <2>1. CASE fill = 0
    <3>1. f = c /\ SubSeq(s, 1, fill) = <<>>
      BY <2>1, SubSeqEmpty
    <3>2. Bytes(c) = Bytes(c) \o <<>>
      BY BytesType, ConcatEmptySeq
    <3>3. c # <<>> /\ left # <<>> => End(c[Len(c)]) = DBUF_SIZE
      <4> SUFFICES ASSUME c # <<>>, left # <<>> PROVE End(c[Len(c)]) = DBUF_SIZE
        OBVIOUS
      <4>1. room = 0 /\ room = DBUF_SIZE - End(c[Len(c)])
        BY <1>2, <1>10, <2>1
      <4> HIDE DEF room
      <4> QED BY <1>1, <4>1
    <3> QED BY <3>1, <3>2, <3>3
  <2>2. CASE fill # 0
    <3> DEFINE x == SubSeq(s, 1, fill)
    <3>1. c # <<>>
      BY <1>4, <2>2
    <3>2. End(c[Len(c)]) + Len(x) <= DBUF_SIZE
      <4> HIDE DEF room
      <4> QED BY <1>1, <1>2, <1>4, <1>7, <3>1
    <3> HIDE DEF x
    <3>3. x \in Seq(Byte) /\ Len(x) = fill
      BY <1>7 DEF x
    <3>4. f = [c EXCEPT ![Len(c)].rest = @ \o x]
      BY <2>2 DEF x
    <3> HIDE DEF f
    <3>5. /\ f \in Seq(Buffer) /\ Len(f) = Len(c) /\ Sound(f)
          /\ End(f[Len(c)]) = End(c[Len(c)]) + Len(x)
          /\ Bytes(f) = Bytes(c) \o x
      BY <3>1, <3>2, <3>3, <3>4, FilledIs
    <3>6. left # <<>> => End(f[Len(f)]) = DBUF_SIZE
      <4>1. left # <<>> => End(c[Len(c)]) + fill = DBUF_SIZE
        <5>1. c # <<>> /\ left # <<>> => fill = DBUF_SIZE - End(c[Len(c)])
          BY <1>2, <1>10
        <5> HIDE DEF left, room
        <5> QED BY <1>1, <3>1, <5>1
      <4> QED BY <3>3, <3>5, <4>1
    <3> QED BY <3>5, <3>6 DEF x
  <2> QED BY <2>1, <2>2
<1> HIDE DEF f
<1>12. CutUp(left) # <<>> => left # <<>>
  <2> SUFFICES ASSUME left = <<>> PROVE CutUp(left) = <<>>
    OBVIOUS
  <2>1. (Len(left) + DBUF_SIZE - 1) \div DBUF_SIZE = 0
    <3>1. Len(left) = 0
      <4> HIDE DEF left
      <4>1. Len(<<>>) = 0
        OBVIOUS
      <4> QED BY <4>1
    <3>2. (0 + DBUF_SIZE - 1) \div DBUF_SIZE = 0
      BY SMTT(20)
    <3> QED BY <3>1, <3>2
  <2>2. Len(CutUp(left)) = 0
    <3> DEFINE q == (Len(left) + DBUF_SIZE - 1) \div DBUF_SIZE
    <3>1. CutUp(left) = [i \in 1..q |-> [start |-> 0, rest |-> CutAt(left, i)]]
      BY DEF CutUp
    <3> HIDE DEF q
    <3>2. DOMAIN CutUp(left) = 1..0
      BY <2>1, <3>1 DEF q
    <3> QED BY <1>9, <3>2, LenProperties
  <2> QED BY <1>9, <2>2, EmptySeq
<1>13. f \o CutUp(left) \in Seq(Buffer) /\ Sound(f \o CutUp(left))
  <2> DEFINE d == CutUp(left)
  <2> HIDE DEF d
  <2>1. /\ d \in Seq(Buffer) /\ Sound(d) /\ \A i \in DOMAIN d : d[i].start = 0
        /\ f # <<>> /\ d # <<>> => End(f[Len(f)]) = DBUF_SIZE
    BY <1>9, <1>11, <1>12 DEF d
  <2> QED BY <1>11, <2>1, JoinSound DEF d
<1>14. Bytes(f \o CutUp(left)) = (Bytes(c) \o SubSeq(s, 1, fill)) \o left
  BY <1>9, <1>11, BytesConcat
<1>15. (Bytes(c) \o SubSeq(s, 1, fill)) \o left = Bytes(c) \o s
  <2>1. Bytes(c) \in Seq(Byte)
    BY BytesType
  <2> HIDE DEF left
  <2>2. (Bytes(c) \o SubSeq(s, 1, fill)) \o left = Bytes(c) \o (SubSeq(s, 1, fill) \o left)
    BY <1>6, <1>7, <2>1, Assoc, Zenon
  <2> QED BY <1>8, <2>2
<1>16. Len(f \o CutUp(left)) >= Len(c)
  <2> DEFINE d == CutUp(left)
  <2> HIDE DEF d
  <2>1. d \in Seq(Buffer)
    BY <1>9 DEF d
  <2>2. Len(f \o d) = Len(f) + Len(d) /\ Len(d) \in Nat
    <3>1. f \in Seq(Buffer)
      BY <1>11
    <3> HIDE DEF left, room
    <3> QED BY <2>1, <3>1, ConcatProperties, LenProperties, Zenon
  <2> QED BY <1>0, <1>11, <2>2 DEF d
<1> QED BY <1>5, <1>13, <1>14, <1>15, <1>16
\* A suffix of a suffix of s is a suffix of s.
LEMMA SuffixTwice ==
  ASSUME NEW s \in Seq(Byte), NEW j \in 0..Len(s), NEW k \in 0..(Len(s) - j)
  PROVE  LET t == SubSeq(s, j + 1, Len(s)) IN
         SubSeq(t, k + 1, Len(t)) = SubSeq(s, j + k + 1, Len(s))
<1> DEFINE t == SubSeq(s, j + 1, Len(s))
           u == SubSeq(t, k + 1, Len(t))
           v == SubSeq(s, j + k + 1, Len(s))
<1>0. Len(s) \in Nat
  BY LenProperties
<1>1. t \in Seq(Byte) /\ Len(t) = Len(s) - j /\ \A i \in 1..(Len(s) - j) : t[i] = s[j + i]
  BY SuffixIs, Zenon
<1> HIDE DEF t
<1>2. k \in 0..Len(t)
  BY <1>1
<1>3. u \in Seq(Byte) /\ Len(u) = Len(t) - k /\ \A i \in 1..(Len(t) - k) : u[i] = t[k + i]
  BY <1>1, <1>2, SuffixIs, Zenon
<1>4. (j + k) \in 0..Len(s)
  BY <1>0
<1>5. v \in Seq(Byte) /\ Len(v) = Len(s) - (j + k) /\ \A i \in 1..(Len(s) - (j + k)) : v[i] = s[(j + k) + i]
  BY <1>4, SuffixIs, Zenon
<1> HIDE DEF u, v
<1>6. Len(u) = Len(v)
  BY <1>0, <1>1, <1>3, <1>5
<1>7. ASSUME NEW i \in 1..Len(u) PROVE u[i] = v[i]
  <2>1. i \in 1..(Len(t) - k) /\ k + i \in 1..(Len(s) - j) /\ i \in 1..(Len(s) - (j + k))
    BY <1>0, <1>1, <1>3
  <2>2. u[i] = t[k + i] /\ t[k + i] = s[j + (k + i)] /\ v[i] = s[(j + k) + i]
    BY <1>1, <1>3, <1>5, <2>1
  <2>3. j + (k + i) = (j + k) + i
    BY <1>0, <2>1
  <2> QED BY <2>2, <2>3
<1>8. u = v
  BY <1>3, <1>5, <1>6, <1>7, SeqEqual
<1> QED BY <1>8 DEF t, u, v

\* What dbuf_flush counts: the ends of line in front, all of them.
LEMMA FlushIs ==
  ASSUME NEW s \in Seq(Byte)
  PROVE  /\ dbuf_flush(s) \in 0..Len(s)
         /\ \A i \in 1..dbuf_flush(s) : s[i] \in Eol
         /\ dbuf_flush(s) < Len(s) => s[dbuf_flush(s) + 1] \notin Eol
<1> DEFINE T == {k \in 0..Len(s) : \A i \in 1..k : s[i] \in Eol}
           l == Max(T)
<1>0. Len(s) \in Nat
  BY LenProperties
<1>1. 0 \in T
  BY <1>0
<1>2. T \in SUBSET (0..Len(s)) /\ T # {}
  BY <1>1
<1>3. l \in T /\ \A y \in T : y <= l
  <2> HIDE DEF T
  <2> QED BY <1>0, <1>2, MaxIs
<1>4. dbuf_flush(s) = l
  BY DEF dbuf_flush
<1> HIDE DEF l
<1>5. ASSUME l < Len(s), s[l + 1] \in Eol PROVE FALSE
  <2>1. l \in Nat /\ l + 1 \in 0..Len(s)
    BY <1>0, <1>3, <1>5
  <2>2. \A i \in 1..(l + 1) : s[i] \in Eol
    <3> TAKE i \in 1..(l + 1)
    <3>1. i \in 1..l \/ i = l + 1
      BY <2>1
    <3> QED BY <1>3, <1>5, <3>1
  <2>3. l + 1 \in T
    BY <2>1, <2>2
  <2> QED BY <1>3, <2>1, <2>3
<1> QED BY <1>3, <1>4, <1>5

\* The abstract queue strips what dbuf_flush drops.
LEMMA StrippedIs ==
  ASSUME NEW s \in Seq(Byte)
  PROVE  Queue!Stripped(s) = SubSeq(s, dbuf_flush(s) + 1, Len(s))
<1> DEFINE C == {SubSeq(s, k + 1, Len(s)) : k \in 0..Len(s)}
           OK(t) == /\ t # <<>> => Head(t) \notin Eol
                    /\ \A k \in 1..(Len(s) - Len(t)) : s[k] \in Eol
           l == dbuf_flush(s)
           w == SubSeq(s, l + 1, Len(s))
<1>0. Len(s) \in Nat
  BY LenProperties
<1>1. /\ l \in 0..Len(s) /\ \A i \in 1..l : s[i] \in Eol
      /\ l < Len(s) => s[l + 1] \notin Eol
  BY FlushIs
<1> HIDE DEF l
<1>2. ASSUME NEW k \in 0..Len(s), NEW t, t = SubSeq(s, k + 1, Len(s))
      PROVE  /\ t \in Seq(Byte) /\ Len(t) = Len(s) - k
             /\ t # <<>> <=> k < Len(s)
             /\ k < Len(s) => Head(t) = s[k + 1]
  <2>1. /\ t \in Seq(Byte) /\ Len(t) = Len(s) - k
        /\ \A i \in 1..(Len(s) - k) : t[i] = s[k + i]
    BY <1>2, SuffixIs, Zenon
  <2>2. t # <<>> <=> Len(t) # 0
    BY <2>1, EmptySeq
  <2>3. k < Len(s) => Head(t) = s[k + 1]
    <3> SUFFICES ASSUME k < Len(s) PROVE Head(t) = s[k + 1]
      OBVIOUS
    <3>1. t # <<>> /\ 1 \in 1..(Len(s) - k)
      BY <1>0, <2>1, <2>2
    <3>2. Head(t) = t[1]
      BY <2>1, <3>1
    <3> QED BY <2>1, <3>1, <3>2
  <2> QED BY <1>0, <2>1, <2>2, <2>3
<1>3. w \in C /\ OK(w)
  <2>1. w \in C
    BY <1>1
  <2>2. Len(w) = Len(s) - l /\ (w # <<>> <=> l < Len(s)) /\ (l < Len(s) => Head(w) = s[l + 1])
    BY <1>1, <1>2
  <2> HIDE DEF w
  <2>3. Len(s) - Len(w) = l
    BY <1>0, <1>1, <2>2
  <2> QED BY <1>1, <2>1, <2>2, <2>3
<1>4. ASSUME NEW t \in C, OK(t) PROVE t = w
  <2>1. PICK k \in 0..Len(s) : t = SubSeq(s, k + 1, Len(s))
    OBVIOUS
  <2>2. Len(t) = Len(s) - k /\ (t # <<>> <=> k < Len(s)) /\ (k < Len(s) => Head(t) = s[k + 1])
    BY <1>2, <2>1
  <2>3. Len(s) - Len(t) = k
    BY <1>0, <2>2
  <2>4. (\A i \in 1..k : s[i] \in Eol) /\ (k < Len(s) => s[k + 1] \notin Eol)
    BY <1>4, <2>2, <2>3
  <2>5. k = l
    <3>1. ~(k < l)
      <4> SUFFICES ASSUME k < l PROVE FALSE
        OBVIOUS
      <4>1. k + 1 \in 1..l /\ k < Len(s)
        BY <1>0, <1>1
      <4> QED BY <1>1, <2>4, <4>1
    <3>2. ~(l < k)
      <4> SUFFICES ASSUME l < k PROVE FALSE
        OBVIOUS
      <4>1. l + 1 \in 1..k /\ l < Len(s)
        BY <1>0, <1>1
      <4> QED BY <1>1, <2>4, <4>1
    <3> QED BY <1>0, <1>1, <3>1, <3>2
  <2> QED BY <2>1, <2>5
<1>5. Queue!Stripped(s) = CHOOSE t \in C : OK(t)
  BY DEF Queue!Stripped
<1> HIDE DEF C, OK, w
<1>6. (CHOOSE t \in C : OK(t)) = w
  BY <1>3, <1>4
<1> QED BY <1>5, <1>6 DEF w, l
(***************************************************************************)
(* The invariant, and the step of every operation.                          *)
(***************************************************************************)
ChainsInv ==
  /\ chain \in [Owner -> Seq(Buffer)]
  /\ length = [o \in Owner |-> Len(Bytes(chain[o]))]
  /\ \A o \in Owner : Sound(chain[o])

\* The abstract queues that the chains stand for.
queues == [o \in Owner |-> Bytes(chain[o])]

\* What the invariant says of one queue.
LEMMA OwnerInv ==
  ASSUME ChainsInv, NEW o \in Owner
  PROVE  /\ chain[o] \in Seq(Buffer) /\ Sound(chain[o])
         /\ Bytes(chain[o]) \in Seq(Byte) /\ Len(Bytes(chain[o])) \in Nat
         /\ length[o] = Len(Bytes(chain[o])) /\ queues[o] = Bytes(chain[o])
<1>1. chain[o] \in Seq(Buffer) /\ Sound(chain[o]) /\ length[o] = Len(Bytes(chain[o]))
  BY DEF ChainsInv
<1>2. Bytes(chain[o]) \in Seq(Byte)
  BY <1>1, BytesType
<1>3. queues[o] = Bytes(chain[o])
  BY DEF queues
<1> QED BY <1>1, <1>2, <1>3, LenProperties

\* When one chain is replaced by a sound one whose bytes are counted, the
\* invariant holds on, and one abstract queue has changed.
LEMMA OneChain ==
  ASSUME ChainsInv, NEW o \in Owner, NEW d \in Seq(Buffer), Sound(d),
         chain' = [chain EXCEPT ![o] = d], length' = [length EXCEPT ![o] = Len(Bytes(d))]
  PROVE  ChainsInv' /\ queues' = [queues EXCEPT ![o] = Bytes(d)]
<1>1. chain' \in [Owner -> Seq(Buffer)] /\ \A p \in Owner : chain'[p] = IF p = o THEN d ELSE chain[p]
  BY DEF ChainsInv
<1>2. \A p \in Owner : Sound(chain[p])
  BY DEF ChainsInv
<1>3. \A p \in Owner : Sound(chain'[p])
  BY <1>1, <1>2
<1>4. length' = [p \in Owner |-> Len(Bytes(chain'[p]))]
  <2>1. length = [p \in Owner |-> Len(Bytes(chain[p]))]
    BY DEF ChainsInv
  <2>2. length' = [p \in Owner |-> IF p = o THEN Len(Bytes(d)) ELSE Len(Bytes(chain[p]))]
    BY <2>1
  <2> QED BY <1>1, <2>2
<1>5. queues' = [p \in Owner |-> Bytes(chain'[p])]
  BY DEF queues, Bytes
<1>6. queues' = [queues EXCEPT ![o] = Bytes(d)]
  BY <1>1, <1>5 DEF queues
<1>7. ChainsInv'
  BY <1>1, <1>3, <1>4 DEF ChainsInv, Bytes, Sound, End
<1> QED BY <1>6, <1>7

\* Shrink takes n bytes off the front of one abstract queue.
LEMMA ShrinkIs ==
  ASSUME ChainsInv, NEW o \in Owner, NEW n \in 0..Len(Bytes(chain[o])), Shrink(o, n)
  PROVE  /\ ChainsInv'
         /\ queues' = [queues EXCEPT ![o] = SubSeq(queues[o], n + 1, Len(queues[o]))]
<1> DEFINE s == Bytes(chain[o])
           d == Dropped(chain[o], n)
<1>1. /\ chain[o] \in Seq(Buffer) /\ Sound(chain[o]) /\ s \in Seq(Byte) /\ Len(s) \in Nat
      /\ length[o] = Len(s) /\ queues[o] = s
  BY OwnerInv
<1>2. /\ d \in Seq(Buffer) /\ Sound(d) /\ Bytes(d) = SubSeq(s, n + 1, Len(s))
      /\ d = <<>> => n = Len(s)
  BY <1>1, DroppedIs
<1>3. Len(Bytes(d)) = Len(s) - n
  BY <1>1, <1>2, SuffixIs
<1>4. /\ chain' = [chain EXCEPT ![o] = d]
      /\ length' = [length EXCEPT ![o] = IF d = <<>> THEN 0 ELSE length[o] - n]
  BY DEF Shrink
<1> HIDE DEF d, s
<1>5. (IF d = <<>> THEN 0 ELSE length[o] - n) = Len(Bytes(d))
  BY <1>1, <1>2, <1>3
<1>6. length' = [length EXCEPT ![o] = Len(Bytes(d))]
  BY <1>4, <1>5
<1>7. ChainsInv' /\ queues' = [queues EXCEPT ![o] = Bytes(d)]
  BY <1>2, <1>4, <1>6, OneChain
<1> QED BY <1>1, <1>2, <1>7

\* dbuf_put is a Put of the abstract queue.
LEMMA PutStep ==
  ASSUME ChainsInv, NEW o \in Owner, NEW bytes \in Seq(Byte), bytes # <<>>, dbuf_put(o, bytes)
  PROVE  ChainsInv' /\ Queue!Next
<1> DEFINE s == Bytes(chain[o])
           base == IF length[o] = 0 THEN <<>> ELSE chain[o]
           d == Appended(base, bytes)
           all == s \o bytes
<1>1. /\ chain[o] \in Seq(Buffer) /\ Sound(chain[o]) /\ s \in Seq(Byte) /\ Len(s) \in Nat
      /\ length[o] = Len(s) /\ queues[o] = s
  BY OwnerInv
<1>2. base \in Seq(Buffer) /\ Sound(base) /\ Bytes(base) = s
  <2>1. CASE length[o] = 0
    <3>1. s = <<>>
      BY <1>1, <2>1, EmptySeq
    <3>2. Sound(<<>>) /\ <<>> \in Seq(Buffer)
      BY DEF Sound
    <3> QED BY <2>1, <3>1, <3>2, BytesEmpty
  <2> QED BY <1>1, <2>1
<1> HIDE DEF base
<1>3. d \in Seq(Buffer) /\ Sound(d) /\ Bytes(d) = all
  BY <1>2, AppendedIs, DbufSizes
<1>4. all \in Seq(Byte) /\ Len(all) = Len(s) + Len(bytes)
  BY <1>1, JoinIs, Zenon
<1>5. chain' = [chain EXCEPT ![o] = d] /\ length' = [length EXCEPT ![o] = length[o] + Len(bytes)] /\ got' = <<>>
  BY DEF dbuf_put, base
<1> HIDE DEF d, s
<1>6. length' = [length EXCEPT ![o] = Len(Bytes(d))]
  BY <1>1, <1>3, <1>4, <1>5
<1>7. ChainsInv' /\ queues' = [queues EXCEPT ![o] = all]
  BY <1>3, <1>5, <1>6, OneChain
<1>8. queues'[o] = all
  <2>1. o \in DOMAIN queues
    BY DEF queues
  <2> QED BY <1>7, <2>1
<1>9. Len(bytes) \in 1..Len(all)
  <2>1. Len(bytes) \in Nat /\ Len(bytes) # 0
    BY LenProperties, EmptySeq
  <2> QED BY <1>1, <1>4, <2>1
<1>10. SubSeq(all, Len(all) - Len(bytes) + 1, Len(all)) = bytes
  <2> DEFINE t == SubSeq(all, Len(s) + 1, Len(all))
  <2>1. Len(all) - Len(bytes) = Len(s)
    BY <1>1, <1>4, <1>9
  <2>2. Len(s) \in 0..Len(all)
    BY <1>1, <1>4, <1>9
  <2>3. /\ t \in Seq(Byte) /\ Len(t) = Len(all) - Len(s)
        /\ \A i \in 1..(Len(all) - Len(s)) : t[i] = all[Len(s) + i]
    <3> HIDE DEF all
    <3> QED BY <1>4, <2>2, SuffixIs, Zenon
  <2>4. \A i \in 1..(Len(s) + Len(bytes)) : all[i] = IF i <= Len(s) THEN s[i] ELSE bytes[i - Len(s)]
    BY <1>1, JoinIs, Zenon
  <2> HIDE DEF t, all
  <2>5. Len(t) = Len(bytes) /\ \A i \in 1..Len(bytes) : t[i] = bytes[i]
    <3>1. Len(t) = Len(bytes) /\ Len(bytes) \in Nat
      BY <1>1, <1>4, <1>9, <2>3
    <3>2. ASSUME NEW i \in 1..Len(bytes) PROVE t[i] = bytes[i]
      <4>1. i \in 1..(Len(all) - Len(s)) /\ Len(s) + i \in 1..(Len(s) + Len(bytes))
            /\ ~(Len(s) + i <= Len(s)) /\ (Len(s) + i) - Len(s) = i
        BY <1>1, <1>4, <3>1
      <4> QED BY <2>3, <2>4, <4>1
    <3> QED BY <3>1, <3>2
  <2>6. t = bytes
    BY <2>3, <2>5, SeqEqual
  <2> QED BY <2>1, <2>6 DEF t
<1> HIDE DEF all
<1>11. Queue!Put(o, SubSeq(queues'[o], Len(queues'[o]) - Len(bytes) + 1, Len(queues'[o])))
  <2>1. queues' = [queues EXCEPT ![o] = queues[o] \o bytes]
    BY <1>1, <1>7 DEF all, s
  <2> QED BY <1>5, <1>8, <1>10, <2>1 DEF Queue!Put, queues
<1> QED BY <1>7, <1>8, <1>9, <1>11 DEF Queue!Next, queues
\* Bytes go from the front, thrown away or handed over.
LEMMA TakeStep ==
  ASSUME ChainsInv, NEW o \in Owner, NEW n \in 0..Len(Bytes(chain[o])), Shrink(o, n),
         got' = <<>> \/ got' = SubSeq(Bytes(chain[o]), 1, n)
  PROVE  ChainsInv' /\ Queue!Next
<1>1. queues[o] = Bytes(chain[o])
  BY OwnerInv
<1>2. /\ ChainsInv'
      /\ queues' = [queues EXCEPT ![o] = SubSeq(queues[o], n + 1, Len(queues[o]))]
  BY ShrinkIs
<1>3. n \in 0..Len(queues[o]) /\ got' \in {<<>>, SubSeq(queues[o], 1, n)}
  BY <1>1
<1>4. Queue!Take(o)
  BY <1>2, <1>3 DEF Queue!Take, queues
<1> QED BY <1>2, <1>4 DEF Queue!Next, queues

\* What dbuf_map shows is a prefix of the bytes.
LEMMA MapIs ==
  ASSUME ChainsInv, NEW o \in Owner
  PROVE  /\ Len(dbuf_map(o)) \in 0..Len(Bytes(chain[o]))
         /\ \A n \in 1..Len(dbuf_map(o)) : SubSeq(dbuf_map(o), 1, n) = SubSeq(Bytes(chain[o]), 1, n)
<1> DEFINE c == chain[o]
           s == Bytes(c)
           m == dbuf_map(o)
<1>1. /\ c \in Seq(Buffer) /\ s \in Seq(Byte) /\ Len(s) \in Nat /\ length[o] = Len(s)
  BY OwnerInv
<1>2. CASE length[o] = 0
  <2>1. m = <<>>
    BY <1>2 DEF dbuf_map
  <2>2. Len(m) = 0
    <3> HIDE DEF m
    <3>1. Len(<<>>) = 0
      OBVIOUS
    <3> QED BY <2>1, <3>1
  <2> QED BY <1>1, <2>2
<1>3. CASE length[o] # 0
  <2>1. c # <<>>
    <3> SUFFICES ASSUME c = <<>> PROVE FALSE
      OBVIOUS
    <3>1. s = <<>>
      BY BytesEmpty
    <3>2. Len(<<>>) = 0
      OBVIOUS
    <3> QED BY <1>1, <1>3, <3>1, <3>2
  <2>2. Len(c) \in Nat /\ Len(c) >= 1 /\ 1 \in DOMAIN c
    BY <1>1, <2>1, EmptySeq, LenProperties
  <2>3. m = c[1].rest
    BY <1>1, <1>3, <2>1 DEF dbuf_map
  <2>4. c[1] \in Buffer
    BY <1>1, <2>2, ElementOfSeq
  <2>5. SubSeq(c, 1, 1) = <<c[1]>>
    <3>1. SubSeq(c, 1, 1) \in Seq(Buffer) /\ Len(SubSeq(c, 1, 1)) = 1 /\ SubSeq(c, 1, 1)[1] = c[1]
      BY <1>1, <2>2
    <3> DEFINE u == SubSeq(c, 1, 1)
    <3> HIDE DEF u
    <3>2. u \in Seq(Buffer) /\ Len(u) = 1 /\ u[1] = c[1]
      BY <3>1 DEF u
    <3>3. u = <<u[1]>>
      BY <3>2
    <3> QED BY <3>2, <3>3 DEF u
  <2>6. s = m \o Bytes(SubSeq(c, 2, Len(c)))
    <3>1. 1 \in 0..Len(c)
      BY <2>2
    <3>2. s = Bytes(SubSeq(c, 1, 1)) \o Bytes(SubSeq(c, 1 + 1, Len(c)))
      BY <1>1, <3>1, BytesSplit
    <3>3. Bytes(<<c[1]>>) = c[1].rest
      BY <2>4, BytesOne
    <3>4. 1 + 1 = 2
      OBVIOUS
    <3> HIDE DEF s, m
    <3>5. s = Bytes(SubSeq(c, 1, 1)) \o Bytes(SubSeq(c, 2, Len(c)))
      BY <3>2, <3>4, Zenon DEF s
    <3>6. Bytes(SubSeq(c, 1, 1)) = m
      BY <2>3, <2>5, <3>3, Zenon
    <3> QED BY <3>5, <3>6
  <2>7. m \in Seq(Byte) /\ Bytes(SubSeq(c, 2, Len(c))) \in Seq(Byte)
    <3>1. m \in Seq(Byte)
      <4>1. c[1].rest \in Seq(Byte)
        BY <2>4 DEF Buffer
      <4> QED BY <2>3, <4>1
    <3>2. 1 \in 0..Len(c)
      BY <2>2
    <3>3. SubSeq(c, 1 + 1, Len(c)) \in Seq(Buffer)
      BY <1>1, <3>2, SuffixIs
    <3>4. SubSeq(c, 2, Len(c)) \in Seq(Buffer)
      BY <3>3
    <3> QED BY <3>1, <3>4, BytesType
  <2> DEFINE t == Bytes(SubSeq(c, 2, Len(c)))
  <2> HIDE DEF t, m, s
  <2>8. /\ s = m \o t /\ m \in Seq(Byte) /\ t \in Seq(Byte) /\ s \in Seq(Byte)
        /\ Len(m) \in Nat /\ Len(t) \in Nat
    BY <1>1, <2>6, <2>7, LenProperties DEF t
  <2>9. /\ Len(s) = Len(m) + Len(t)
        /\ \A i \in 1..(Len(m) + Len(t)) : s[i] = IF i <= Len(m) THEN m[i] ELSE t[i - Len(m)]
    BY <2>8, JoinIs, Zenon
  <2>10. Len(m) \in 0..Len(s)
    BY <2>8, <2>9
  <2>11. ASSUME NEW n \in 1..Len(m) PROVE SubSeq(m, 1, n) = SubSeq(s, 1, n)
    <3>1. n \in Nat /\ n <= Len(m) /\ n <= Len(s)
      BY <2>8, <2>9
    <3>2. SubSeq(m, 1, n) \in Seq(Byte) /\ Len(SubSeq(m, 1, n)) = n /\ \A i \in 1..n : SubSeq(m, 1, n)[i] = m[i]
      BY <2>8, <3>1
    <3>3. SubSeq(s, 1, n) \in Seq(Byte) /\ Len(SubSeq(s, 1, n)) = n /\ \A i \in 1..n : SubSeq(s, 1, n)[i] = s[i]
      BY <2>8, <3>1
    <3>4. \A i \in 1..n : m[i] = s[i]
      BY <2>8, <2>9, <3>1
    <3> DEFINE u == SubSeq(m, 1, n)
               v == SubSeq(s, 1, n)
    <3>5. /\ u \in Seq(Byte) /\ v \in Seq(Byte) /\ Len(u) = Len(v)
          /\ \A i \in 1..Len(u) : u[i] = v[i]
      BY <3>2, <3>3, <3>4
    <3> HIDE DEF u, v
    <3>6. u = v
      BY <3>5, SeqEqual
    <3> QED BY <3>6 DEF u, v
  <2> QED BY <2>10, <2>11 DEF m, s
<1> QED BY <1>2, <1>3

\* dbuf_getmsg is a Line of the abstract queue, or NoLine when none is complete.
LEMMA GetmsgStep ==
  ASSUME ChainsInv, NEW o \in Owner, NEW n \in Nat, dbuf_getmsg(o, n)
  PROVE  ChainsInv' /\ Queue!Next
<1> DEFINE all == Bytes(chain[o])
           lead == dbuf_flush(all)
           line == SubSeq(all, lead + 1, Len(all))
           ends == {i \in 1..Min({n, Len(line)}) : line[i] \in Eol}
           k == Min(ends)
           copied == k - 1
           after == SubSeq(line, copied + 1, Len(line))
           trail == dbuf_flush(after)
<1>1. /\ chain[o] \in Seq(Buffer) /\ all \in Seq(Byte) /\ Len(all) \in Nat /\ queues[o] = all
  BY OwnerInv
<1>2. /\ lead \in 0..Len(all) /\ \A i \in 1..lead : all[i] \in Eol
      /\ lead < Len(all) => all[lead + 1] \notin Eol
  <2> HIDE DEF all
  <2> QED BY <1>1, FlushIs
<1>3. Queue!Stripped(all) = line
  <2> HIDE DEF all
  <2> QED BY <1>1, StrippedIs
<1>4. dbuf_getmsg(o, n) <=>
        IF ends = {} THEN Shrink(o, lead) /\ got' = <<>>
        ELSE got' = SubSeq(line, 1, copied) /\ Shrink(o, lead + copied + trail)
  BY DEF dbuf_getmsg
<1> HIDE DEF all, lead, k, trail
<1>5. /\ line \in Seq(Byte) /\ Len(line) = Len(all) - lead /\ Len(line) \in Nat
      /\ \A i \in 1..(Len(all) - lead) : line[i] = all[lead + i]
  BY <1>1, <1>2, SuffixIs, LenProperties
<1>6. CASE ends = {}
  <2>1. Shrink(o, lead) /\ got' = <<>>
    <3> HIDE DEF line, ends
    <3> QED BY <1>4, <1>6
  <2>2. lead \in 0..Len(Bytes(chain[o]))
    BY <1>2 DEF all
  <2>3. /\ ChainsInv'
        /\ queues' = [queues EXCEPT ![o] = SubSeq(queues[o], lead + 1, Len(queues[o]))]
    BY <2>1, <2>2, ShrinkIs
  <2>4. queues' = [queues EXCEPT ![o] = Queue!Stripped(queues[o])]
    BY <1>1, <1>3, <2>3
  <2>5. Queue!NoLine(o)
    BY <2>1, <2>4 DEF Queue!NoLine, queues
  <2> QED BY <2>3, <2>5 DEF Queue!Next, queues
<1>7. CASE ends # {}
  <2>1. got' = SubSeq(line, 1, copied) /\ Shrink(o, lead + copied + trail)
    <3> HIDE DEF line, ends, copied
    <3> QED BY <1>4, <1>7
  <2> HIDE DEF line
  <2>2. Min({n, Len(line)}) \in Nat /\ Min({n, Len(line)}) <= Len(line) /\ Min({n, Len(line)}) <= n
    <3> QED BY <1>5, MinTwo
  <2> DEFINE m == Min({n, Len(line)})
  <2>3. k \in ends /\ \A y \in ends : k <= y
    <3>1. ends \in SUBSET Nat
      BY <2>2
    <3> HIDE DEF ends
    <3> QED BY <1>7, <3>1, MinIs DEF k
  <2>4. k \in 1..m /\ m \in Nat /\ m <= Len(line) /\ line[k] \in Eol
    BY <2>2, <2>3
  <2>5. k \in 1..Len(line)
    BY <1>5, <2>4
  <2>6. \A i \in 1..(k - 1) : line[i] \notin Eol
    <3> SUFFICES ASSUME NEW i \in 1..(k - 1), line[i] \in Eol PROVE FALSE
      OBVIOUS
    <3>1. i \in 1..m /\ i < k
      BY <2>4
    <3>2. i \in ends
      BY <3>1
    <3> HIDE DEF ends, m
    <3> QED BY <2>3, <2>4, <3>1, <3>2
  <2> HIDE DEF ends, m
  <2>7. k > 1
    <3> SUFFICES ASSUME k = 1 PROVE FALSE
      BY <2>5
    <3>1. lead < Len(all) /\ 1 \in 1..(Len(all) - lead)
      BY <1>1, <1>2, <1>5, <2>5
    <3>2. line[1] = all[lead + 1]
      BY <1>5, <3>1
    <3> QED BY <1>2, <2>4, <3>1, <3>2
  <2>8. copied \in 0..Len(line) /\ copied + 1 = k /\ lead + copied \in 0..Len(all)
    BY <1>1, <1>2, <1>5, <2>5, <2>7
  <2>9. /\ after \in Seq(Byte) /\ Len(after) = Len(line) - copied /\ Len(after) \in Nat
    <3> HIDE DEF copied
    <3> QED BY <1>5, <2>8, SuffixIs, LenProperties
  <2>10. after = SubSeq(line, k, Len(line))
    <3> HIDE DEF copied
    <3> QED BY <2>8
  <2>11. after = SubSeq(all, lead + copied + 1, Len(all))
    <3>1. copied \in 0..(Len(all) - lead)
      BY <1>5, <2>8
    <3>2. line = SubSeq(all, lead + 1, Len(all))
      BY DEF line
    <3> HIDE DEF copied
    <3>3. SubSeq(SubSeq(all, lead + 1, Len(all)), copied + 1, Len(SubSeq(all, lead + 1, Len(all))))
          = SubSeq(all, lead + copied + 1, Len(all))
      BY <1>1, <1>2, <3>1, SuffixTwice
    <3> QED BY <3>2, <3>3
  <2> HIDE DEF copied
  <2>12. Queue!Stripped(after) = SubSeq(after, trail + 1, Len(after)) /\ trail \in 0..Len(after)
    <3> HIDE DEF after
    <3> QED BY <2>9, StrippedIs, FlushIs DEF trail
  <2>13. /\ SubSeq(after, trail + 1, Len(after)) = SubSeq(all, lead + copied + trail + 1, Len(all))
         /\ lead + copied + trail \in 0..Len(all)
    <3> DEFINE j == lead + copied
    <3>1. /\ j \in 0..Len(all) /\ trail \in 0..(Len(all) - j) /\ Len(after) = Len(all) - j
          /\ lead + copied + trail = j + trail
      BY <1>1, <1>2, <1>5, <2>8, <2>9, <2>12
    <3>2. after = SubSeq(all, j + 1, Len(all))
      BY <2>11
    <3> HIDE DEF j
    <3>3. SubSeq(SubSeq(all, j + 1, Len(all)), trail + 1, Len(SubSeq(all, j + 1, Len(all))))
          = SubSeq(all, j + trail + 1, Len(all))
      BY <1>1, <3>1, SuffixTwice
    <3>4. SubSeq(after, trail + 1, Len(after)) = SubSeq(all, j + trail + 1, Len(all))
      BY <3>2, <3>3
    <3>5. j + trail \in 0..Len(all)
      BY <1>1, <3>1
    <3> HIDE DEF after
    <3> QED BY <3>1, <3>4, <3>5
  <2> DEFINE t == lead + copied + trail
  <2> HIDE DEF after
  <2>14. t \in 0..Len(Bytes(chain[o])) /\ Shrink(o, t)
    BY <2>1, <2>13 DEF all
  <2> HIDE DEF t
  <2>15. /\ ChainsInv'
         /\ queues' = [queues EXCEPT ![o] = SubSeq(queues[o], t + 1, Len(queues[o]))]
    BY <2>14, ShrinkIs
  <2>16. queues' = [queues EXCEPT ![o] = Queue!Stripped(SubSeq(line, k, Len(line)))]
    BY <1>1, <2>10, <2>12, <2>13, <2>15 DEF t
  <2>17. line = Queue!Stripped(queues[o])
    BY <1>1, <1>3
  <2>18. got' = SubSeq(line, 1, k - 1)
    BY <2>1, <2>8 DEF copied
  <2>19. Queue!Line(o)
    BY <2>4, <2>5, <2>6, <2>7, <2>16, <2>17, <2>18 DEF Queue!Line, queues
  <2> QED BY <2>15, <2>19 DEF Queue!Next, queues
<1> QED BY <1>6, <1>7
\* Every step keeps the invariant and is a step of the abstract queue.
LEMMA StepIs ==
  ASSUME ChainsInv, [Next]_vars
  PROVE  ChainsInv' /\ [Queue!Next]_(Queue!vars)
<1>1. CASE UNCHANGED vars
  <2>1. queues' = queues /\ got' = got
    BY <1>1 DEF vars, queues
  <2>2. ChainsInv'
    BY <1>1 DEF vars, ChainsInv
  <2> QED BY <2>1, <2>2 DEF Queue!vars, queues
<1>2. CASE Next
  <2> USE DbufSizes
  <2>1. PICK o \in Owner :
           \/ \E bytes \in SeqOf(Byte, MaxPut) \ {<<>>} : dbuf_put(o, bytes)
           \/ \E n \in 1..(MaxLength + 1) : dbuf_delete(o, n)
           \/ \E n \in 1..MaxLength : Deliver(o, n)
           \/ \E n \in 1..MaxLength : dbuf_get(o, n)
           \/ \E n \in 1..MaxLength : dbuf_getmsg(o, n)
    BY <1>2 DEF Next
  <2>2. length[o] = Len(Bytes(chain[o])) /\ Len(Bytes(chain[o])) \in Nat
    BY OwnerInv
  <2>3. ASSUME NEW n \in Nat PROVE Min({n, length[o]}) \in 0..Len(Bytes(chain[o]))
    BY <2>2, MinTwo
  <2>4. CASE \E bytes \in SeqOf(Byte, MaxPut) \ {<<>>} : dbuf_put(o, bytes)
    <3>1. PICK bytes \in SeqOf(Byte, MaxPut) \ {<<>>} : dbuf_put(o, bytes)
      BY <2>4
    <3>2. bytes \in Seq(Byte)
      <4>1. PICK m \in 0..MaxPut : bytes \in [1..m -> Byte]
        BY <3>1 DEF SeqOf
      <4>2. m \in Nat
        BY <4>1
      <4> QED BY <4>1, <4>2
    <3>3. bytes # <<>>
      BY <3>1
    <3>4. ChainsInv' /\ Queue!Next
      BY <3>1, <3>2, <3>3, PutStep
    <3> QED BY <3>4
  <2>5. CASE \E n \in 1..(MaxLength + 1) : dbuf_delete(o, n)
    <3>1. PICK n \in 1..(MaxLength + 1) : dbuf_delete(o, n)
      BY <2>5
    <3>2. Min({n, length[o]}) \in 0..Len(Bytes(chain[o]))
      BY <2>3
    <3>3. Shrink(o, Min({n, length[o]})) /\ got' = <<>>
      BY <3>1 DEF dbuf_delete
    <3>4. ChainsInv' /\ Queue!Next
      BY <3>2, <3>3, TakeStep
    <3> QED BY <3>4
  <2>6. CASE \E n \in 1..MaxLength : Deliver(o, n)
    <3>1. PICK n \in 1..MaxLength : Deliver(o, n)
      BY <2>6
    <3>2. /\ n \in 1..Len(dbuf_map(o)) /\ Shrink(o, n) /\ got' = SubSeq(dbuf_map(o), 1, n)
      BY <3>1 DEF Deliver
    <3>3. /\ Len(dbuf_map(o)) \in 0..Len(Bytes(chain[o]))
          /\ SubSeq(dbuf_map(o), 1, n) = SubSeq(Bytes(chain[o]), 1, n)
      BY <3>2, MapIs
    <3>4. n \in 0..Len(Bytes(chain[o]))
      BY <2>2, <3>2, <3>3
    <3>5. ChainsInv' /\ Queue!Next
      BY <3>2, <3>3, <3>4, TakeStep
    <3> QED BY <3>5
  <2>7. CASE \E n \in 1..MaxLength : dbuf_get(o, n)
    <3>1. PICK n \in 1..MaxLength : dbuf_get(o, n)
      BY <2>7
    <3>2. Min({n, length[o]}) \in 0..Len(Bytes(chain[o]))
      BY <2>3
    <3>3. /\ Shrink(o, Min({n, length[o]}))
          /\ got' = SubSeq(Bytes(chain[o]), 1, Min({n, length[o]}))
      BY <3>1 DEF dbuf_get
    <3>4. ChainsInv' /\ Queue!Next
      BY <3>2, <3>3, TakeStep
    <3> QED BY <3>4
  <2>8. CASE \E n \in 1..MaxLength : dbuf_getmsg(o, n)
    <3>1. PICK n \in 1..MaxLength : dbuf_getmsg(o, n)
      BY <2>8
    <3>2. ChainsInv' /\ Queue!Next
      BY <3>1, GetmsgStep
    <3> QED BY <3>2
  <2> QED BY <2>1, <2>4, <2>5, <2>6, <2>7, <2>8
<1> QED BY <1>1, <1>2

\* dbuf_init gives empty queues.
LEMMA InitIs == dbuf_init => ChainsInv /\ Queue!Init
<1> SUFFICES ASSUME dbuf_init PROVE ChainsInv /\ Queue!Init
  OBVIOUS
<1>1. chain = [o \in Owner |-> <<>>] /\ length = [o \in Owner |-> 0] /\ got = <<>>
  BY DEF dbuf_init
<1>2. \A o \in Owner : chain[o] = <<>> /\ Bytes(chain[o]) = <<>>
  BY <1>1, BytesEmpty
<1>3. \A o \in Owner : Len(Bytes(chain[o])) = 0
  <2>1. Len(<<>>) = 0
    OBVIOUS
  <2> QED BY <1>2, <2>1
<1>4. Sound(<<>>)
  BY DEF Sound
<1>5. chain \in [Owner -> Seq(Buffer)]
  <2>1. <<>> \in Seq(Buffer)
    OBVIOUS
  <2> QED BY <1>1, <2>1
<1>6. ChainsInv
  BY <1>1, <1>2, <1>3, <1>4, <1>5 DEF ChainsInv
<1>7. Queue!Init
  BY <1>1, <1>2 DEF Queue!Init
<1> QED BY <1>6, <1>7

\* The chains of buffers implement the queues of bytes, for every size of the
\* buffers: what dbuf_put takes comes out once and in order, whether the socket,
\* dbuf_get or dbuf_getmsg takes it, and a line ends where the first end of line
\* stands, wherever the buffers were cut.
THEOREM DbufImplementsQueue == Spec => QueueSpec
<1>1. dbuf_init => ChainsInv /\ Queue!Init
  BY InitIs
<1>2. ChainsInv /\ [Next]_vars => ChainsInv' /\ [Queue!Next]_(Queue!vars)
  BY StepIs
<1> QED BY <1>1, <1>2, PTL DEF Spec, QueueSpec, Queue!Spec

\* The chains keep what the operations rely on without looking: the length is
\* the number of the bytes, no buffer is empty, only the last one has room.
THEOREM ChainsStaySound == Spec => []ChainSound
<1>1. dbuf_init => ChainsInv
  BY InitIs
<1>2. ChainsInv /\ [Next]_vars => ChainsInv'
  BY StepIs
<1>3. ChainsInv => ChainSound
  BY DEF ChainsInv, ChainSound, Sound
<1> QED BY <1>1, <1>2, <1>3, PTL DEF Spec
-----------------------------------------------------------------------------
(* Sums: SumFunction is a recursive function over the subsets of a domain,  *)
(* which takes out one member at a time.                                   *)

Picked(s) == CHOOSE x \in s : TRUE

SumStep(f, fun, s) == IF s = {} THEN 0 ELSE fun[Picked(s)] + f[s \ {Picked(s)}]

IsSum(f, fun) == f = [s \in SUBSET DOMAIN fun |-> SumStep(f, fun, s)]

\* A set without the member that is taken out is smaller by one.
LEMMA OneLess ==
  ASSUME NEW D, IsFiniteSet(D), NEW s \in SUBSET D, s # {}
  PROVE  /\ Picked(s) \in s /\ s \ {Picked(s)} \in SUBSET D
         /\ Cardinality(s) \in Nat /\ Cardinality(s \ {Picked(s)}) = Cardinality(s) - 1
<1>1. Picked(s) \in s
  BY DEF Picked
<1>2. IsFiniteSet(s)
  BY FS_Subset
<1> QED BY <1>1, <1>2, FS_RemoveElement, FS_CardinalityType

\* There is a function that satisfies the recursion.
LEMMA SumExists ==
  ASSUME NEW fun, IsFiniteSet(DOMAIN fun) PROVE \E f : IsSum(f, fun)
<1> DEFINE D == DOMAIN fun
           Small(n) == {s \in SUBSET D : Cardinality(s) <= n}
           S == {n \in Nat : \E g : \A s \in Small(n) : g[s] = SumStep(g, fun, s)}
<1>0. \A s \in SUBSET D : IsFiniteSet(s) /\ Cardinality(s) \in Nat
  BY FS_Subset, FS_CardinalityType
<1>1. 0 \in S
  <2> DEFINE g == [s \in SUBSET D |-> 0]
  <2>1. ASSUME NEW s \in Small(0) PROVE g[s] = SumStep(g, fun, s)
    <3>1. s = {}
      <4>1. Cardinality(s) = 0
        BY <1>0
      <4> QED BY <1>0, <4>1, FS_EmptySet
    <3> QED BY <3>1 DEF SumStep
  <2>2. \A s \in Small(0) : g[s] = SumStep(g, fun, s)
    BY <2>1
  <2> HIDE DEF g
  <2> QED BY <2>2
<1>2. ASSUME NEW n \in Nat, n \in S PROVE n + 1 \in S
  <2>1. PICK g : \A s \in Small(n) : g[s] = SumStep(g, fun, s)
    BY <1>2
  <2> DEFINE h == [s \in SUBSET D |-> SumStep(g, fun, s)]
  <2>2. ASSUME NEW s \in Small(n + 1) PROVE h[s] = SumStep(h, fun, s)
    <3>1. h[s] = SumStep(g, fun, s)
      OBVIOUS
    <3>2. CASE s = {}
      BY <3>1, <3>2 DEF SumStep
    <3>3. CASE s # {}
      <4> DEFINE t == s \ {Picked(s)}
      <4>1. t \in Small(n)
        <5>1. t \in SUBSET D /\ Cardinality(s) \in Nat /\ Cardinality(t) = Cardinality(s) - 1
          BY <3>3, OneLess
        <5>2. Cardinality(s) <= n + 1
          OBVIOUS
        <5> HIDE DEF t
        <5> QED BY <5>1, <5>2
      <4>2. h[t] = g[t]
        <5>1. t \in SUBSET D /\ g[t] = SumStep(g, fun, t)
          BY <2>1, <4>1
        <5> HIDE DEF t
        <5> QED BY <5>1
      <4> HIDE DEF h
      <4> QED BY <3>1, <3>3, <4>2 DEF SumStep
    <3> QED BY <3>2, <3>3
  <2>3. \A s \in Small(n + 1) : h[s] = SumStep(h, fun, s)
    BY <2>2
  <2> HIDE DEF h
  <2> QED BY <2>3
<1>3. Nat \subseteq S
  <2> HIDE DEF S
  <2> QED BY <1>1, <1>2, SetInduction
<1>4. Cardinality(D) \in S
  BY <1>0, <1>3
<1>5. PICK g : \A s \in Small(Cardinality(D)) : g[s] = SumStep(g, fun, s)
  BY <1>4
<1>6. ASSUME NEW s \in SUBSET D PROVE s \in Small(Cardinality(D))
  BY FS_Subset
<1>7. \A s \in SUBSET D : g[s] = SumStep(g, fun, s)
  BY <1>5, <1>6
<1> DEFINE f == [s \in SUBSET D |-> g[s]]
<1>8. ASSUME NEW s \in SUBSET D PROVE g[s] = SumStep(f, fun, s)
  <2>1. CASE s = {}
    BY <1>7, <2>1 DEF SumStep
  <2>2. CASE s # {}
    <3>1. s \ {Picked(s)} \in SUBSET D
      OBVIOUS
    <3>2. f[s \ {Picked(s)}] = g[s \ {Picked(s)}]
      BY <3>1
    <3> HIDE DEF f
    <3> QED BY <1>7, <2>2, <3>2 DEF SumStep
  <2> QED BY <2>1, <2>2
<1>9. IsSum(f, fun)
  <2>1. f = [s \in SUBSET D |-> g[s]]
    OBVIOUS
  <2> HIDE DEF f
  <2>2. [s \in SUBSET D |-> g[s]] = [s \in SUBSET D |-> SumStep(f, fun, s)]
    BY <1>8
  <2> QED BY <2>1, <2>2 DEF IsSum
<1> QED BY <1>9

\* SumFunction is what such a function gives for all of the domain.
LEMMA SumIs ==
  ASSUME NEW D, IsFiniteSet(D), NEW fun, DOMAIN fun = D
  PROVE  \E f : SumFunction(fun) = f[D] /\ \A s \in SUBSET D : f[s] = SumStep(f, fun, s)
<1> DEFINE f == CHOOSE h : h = [s \in SUBSET DOMAIN fun |->
                  IF s = {} THEN 0
                  ELSE fun[CHOOSE x \in s : TRUE] + h[s \ {CHOOSE x \in s : TRUE}]]
<1>1. IsSum(f, fun)
  BY SumExists, Zenon DEF IsSum, SumStep, Picked
<1>2. SumFunction(fun) = f[DOMAIN fun]
  BY Zenon DEF SumFunction, SumFunctionOnSet, FoldFunctionOnSet, MapThenFoldSet
<1> HIDE DEF f
<1>3. \A s \in SUBSET DOMAIN fun : f[s] = SumStep(f, fun, s)
  <2> TAKE s \in SUBSET DOMAIN fun
  <2> QED BY <1>1, Zenon DEF IsSum
<1> QED BY <1>2, <1>3

\* The same for all functions on one domain.
LEMMA SumAll ==
  ASSUME NEW D, IsFiniteSet(D)
  PROVE  \A u \in [D -> Int] :
           \E f : SumFunction(u) = f[D] /\ \A s \in SUBSET D : f[s] = SumStep(f, u, s)
BY SumIs

\* When one value changes the sum changes by as much.
LEMMA SumChange ==
  ASSUME NEW D, IsFiniteSet(D), NEW u \in [D -> Int], NEW v \in [D -> Int], NEW o \in D,
         \A d \in D : d # o => v[d] = u[d]
  PROVE  SumFunction(u) \in Int /\ SumFunction(v) = SumFunction(u) + (v[o] - u[o])
<1>0. DOMAIN u = D /\ DOMAIN v = D
  OBVIOUS
<1>01. \A w \in [D -> Int] :
         \E f : SumFunction(w) = f[D] /\ \A s \in SUBSET D : f[s] = SumStep(f, w, s)
  BY SumAll
<1>1. PICK f : SumFunction(u) = f[D] /\ \A s \in SUBSET D : f[s] = SumStep(f, u, s)
  BY <1>01, u \in [D -> Int], Zenon
<1>2. PICK g : SumFunction(v) = g[D] /\ \A s \in SUBSET D : g[s] = SumStep(g, v, s)
  BY <1>01, v \in [D -> Int], Zenon
<1> DEFINE Differ(s) == /\ f[s] \in Int
                        /\ g[s] = f[s] + (IF o \in s THEN v[o] - u[o] ELSE 0)
           S == {n \in Nat : \A s \in SUBSET D : Cardinality(s) = n => Differ(s)}
<1>3. 0 \in S
  <2> SUFFICES ASSUME NEW s \in SUBSET D, Cardinality(s) = 0 PROVE Differ(s)
    OBVIOUS
  <2>1. s = {}
    BY FS_Subset, FS_EmptySet
  <2>2. f[s] = 0 /\ g[s] = 0
    BY <1>1, <1>2, <2>1 DEF SumStep
  <2> QED BY <2>1, <2>2
<1>4. ASSUME NEW n \in Nat, n \in S PROVE n + 1 \in S
  <2> SUFFICES ASSUME NEW s \in SUBSET D, Cardinality(s) = n + 1 PROVE Differ(s)
    OBVIOUS
  <2> DEFINE x == Picked(s)
             t == s \ {x}
  <2>1. s # {}
    BY FS_EmptySet
  <2>2. x \in s /\ t \in SUBSET D /\ Cardinality(t) = n
    BY <2>1, OneLess
  <2>3. Differ(t)
    BY <1>4, <2>2
  <2>4. f[s] = u[x] + f[t] /\ g[s] = v[x] + g[t]
    BY <1>1, <1>2, <2>1 DEF SumStep
  <2>5. x = o => o \in s /\ o \notin t
    BY <2>2
  <2>6. x # o => v[x] = u[x] /\ (o \in s <=> o \in t)
    BY <2>2
  <2>7. u[x] \in Int /\ v[x] \in Int /\ u[o] \in Int /\ v[o] \in Int
    BY <2>2
  <2> HIDE DEF x, t
  <2> QED BY <2>3, <2>4, <2>5, <2>6, <2>7
<1>5. Nat \subseteq S
  <2> HIDE DEF S
  <2> QED BY <1>3, <1>4, SetInduction
<1>6. Cardinality(D) \in S
  BY <1>5, FS_CardinalityType
<1>7. Differ(D)
  BY <1>6
<1> QED BY <1>1, <1>2, <1>7

\* The sum of zeros is 0.
LEMMA SumZero ==
  ASSUME NEW D, IsFiniteSet(D), NEW u \in [D -> {0}] PROVE SumFunction(u) = 0
<1>0. DOMAIN u = D
  OBVIOUS
<1>1. PICK f : SumFunction(u) = f[D] /\ \A s \in SUBSET D : f[s] = SumStep(f, u, s)
  BY <1>0, SumIs
<1> DEFINE S == {n \in Nat : \A s \in SUBSET D : Cardinality(s) = n => f[s] = 0}
<1>2. 0 \in S
  <2> SUFFICES ASSUME NEW s \in SUBSET D, Cardinality(s) = 0 PROVE f[s] = 0
    OBVIOUS
  <2>1. s = {}
    BY FS_Subset, FS_EmptySet
  <2> QED BY <1>1, <2>1 DEF SumStep
<1>3. ASSUME NEW n \in Nat, n \in S PROVE n + 1 \in S
  <2> SUFFICES ASSUME NEW s \in SUBSET D, Cardinality(s) = n + 1 PROVE f[s] = 0
    OBVIOUS
  <2>1. s # {}
    BY FS_EmptySet
  <2>2. Picked(s) \in D /\ s \ {Picked(s)} \in SUBSET D /\ Cardinality(s \ {Picked(s)}) = n
    BY <2>1, OneLess
  <2>3. f[s] = u[Picked(s)] + f[s \ {Picked(s)}]
    BY <1>1, <2>1 DEF SumStep
  <2>4. f[s \ {Picked(s)}] = 0 /\ u[Picked(s)] = 0
    BY <1>3, <2>2
  <2> QED BY <2>3, <2>4
<1>4. Nat \subseteq S
  <2> HIDE DEF S
  <2> QED BY <1>2, <1>3, SetInduction
<1>5. Cardinality(D) \in S
  BY <1>4, FS_CardinalityType
<1> QED BY <1>1, <1>5

-----------------------------------------------------------------------------
(* The pool of buffers.                                                    *)

Usual == Max({INITIAL_DBUFS + 1, USUAL_MAX})

PoolInv == free \in Nat /\ used \in Int /\ count \in Int /\ PoolAgrees

\* Max of two numbers is the greater one.
LEMMA MaxTwo ==
  ASSUME NEW x \in Int, NEW y \in Int
  PROVE  Max({x, y}) = IF x >= y THEN x ELSE y
<1> DEFINE m == IF x >= y THEN x ELSE y
<1>1. m \in {x, y} /\ \A z \in {x, y} : m >= z
  OBVIOUS
<1>2. \A z \in {x, y} : (\A w \in {x, y} : z >= w) => z = m
  OBVIOUS
<1> HIDE DEF m
<1>3. Max({x, y}) = m
  BY <1>1, <1>2, Zenon DEF Max
<1> QED BY <1>3 DEF m

\* What leaves the free list is not counted, what malloc gives is.
LEMMA AllocKeeps ==
  ASSUME PoolInv, NEW k \in Nat, dbuf_alloc(k)
  PROVE  /\ free' \in Nat /\ used' \in Int /\ count' \in Int /\ used' = used + k
         /\ free' > 0 => used' + free' <= Usual
         /\ used' + free' <= count' + 1
<1> DEFINE reused == Min({k, free})
<1>1. /\ free \in Nat /\ used \in Int /\ count \in Int
      /\ free > 0 => used + free <= Usual
      /\ used + free <= count + 1
  BY DEF PoolInv, PoolAgrees, Usual
<1>2. reused = IF k <= free THEN k ELSE free
  BY <1>1, MinTwo
<1>3. free' = free - reused /\ count' = count + k - reused /\ used' = used + k
  BY DEF dbuf_alloc
<1> HIDE DEF reused
<1>4. Usual \in Int
  BY DbufSizes, MaxTwo DEF Usual
<1> QED BY <1>1, <1>2, <1>3, <1>4

\* Those above the usual number go to free(), so that the free list ends where it
\* began, whoever grew it.
LEMMA FreeKeeps ==
  ASSUME PoolInv, NEW k \in Nat, dbuf_free(k)
  PROVE  /\ free' \in Nat /\ used' \in Int /\ count' \in Int /\ used' = used - k
         /\ free' > 0 => used' + free' <= Usual
         /\ used' + free' <= count' + 1
<1> DEFINE above == Max({0, used - USUAL_MAX})
           surplus == Min({k, above})
<1>1. /\ free \in Nat /\ used \in Int /\ count \in Int
      /\ free > 0 => used + free <= Usual
      /\ used + free <= count + 1
  BY DEF PoolInv, PoolAgrees, Usual
<1>2. USUAL_MAX \in Nat /\ INITIAL_DBUFS \in Nat
  BY DbufSizes
<1>3. above = IF 0 >= used - USUAL_MAX THEN 0 ELSE used - USUAL_MAX
  BY <1>1, <1>2, MaxTwo
<1>4. above \in Nat
  <2> HIDE DEF above
  <2> QED BY <1>1, <1>2, <1>3
<1>5. surplus = IF k <= above THEN k ELSE above
  <2> HIDE DEF above
  <2> QED BY <1>4, MinTwo
<1>6. free' = free + k - surplus /\ count' = count /\ used' = used - k
  BY DEF dbuf_free
<1>7. Usual \in Int /\ Usual >= USUAL_MAX
  BY <1>2, MaxTwo DEF Usual
<1> HIDE DEF surplus, above
<1> QED BY <1>1, <1>2, <1>3, <1>4, <1>5, <1>6, <1>7

\* One chain grows or shrinks.
LEMMA HeldChange ==
  ASSUME ChainsInv, NEW o \in Owner, NEW d, Len(d) \in Nat,
         chain' = [chain EXCEPT ![o] = d]
  PROVE  /\ SumFunction([p \in Owner |-> Len(chain[p])]) \in Int
         /\ SumFunction([p \in Owner |-> Len(chain'[p])])
              = SumFunction([p \in Owner |-> Len(chain[p])]) + (Len(d) - Len(chain[o]))
<1> DEFINE u == [p \in Owner |-> Len(chain[p])]
           v == [p \in Owner |-> Len(chain'[p])]
<1>1. chain \in [Owner -> Seq(Buffer)] /\ \A p \in Owner : Len(chain[p]) \in Nat
  BY LenProperties DEF ChainsInv
<1>2. \A p \in Owner : chain'[p] = IF p = o THEN d ELSE chain[p]
  BY <1>1
<1>3. u \in [Owner -> Int] /\ u[o] = Len(chain[o])
  BY <1>1
<1>4. v \in [Owner -> Int] /\ v[o] = Len(d) /\ \A p \in Owner : p # o => v[p] = u[p]
  BY <1>1, <1>2
<1>5. IsFiniteSet(Owner)
  BY DbufSizes
<1> HIDE DEF u, v
<1>6. SumFunction(u) \in Int /\ SumFunction(v) = SumFunction(u) + (v[o] - u[o])
  BY <1>3, <1>4, <1>5, SumChange
<1> QED BY <1>3, <1>4, <1>6 DEF u, v

\* A chain is not longer when bytes are taken from its front.
LEMMA DroppedShorter ==
  ASSUME NEW c \in Seq(Buffer), NEW n PROVE Len(Dropped(c, n)) \in 0..Len(c)
<1> DEFINE G == {i \in DOMAIN c : Before(c, i) <= n}
           gone == Cardinality(G)
           kept == SubSeq(c, gone + 1, Len(c))
           b == [start |-> kept[1].start + (n - Before(c, gone)),
                 rest |-> SubSeq(kept[1].rest, (n - Before(c, gone)) + 1, Len(kept[1].rest))]
<1>1. Len(c) \in Nat /\ DOMAIN c = 1..Len(c)
  BY LenProperties
<1>2. IsFiniteSet(1..Len(c)) /\ Cardinality(1..Len(c)) = Len(c)
  <2>1. IsFiniteSet(1..Len(c)) /\ Cardinality(1..Len(c)) = IF 1 > Len(c) THEN 0 ELSE Len(c) - 1 + 1
    BY <1>1, FS_Interval
  <2> QED BY <1>1, <2>1
<1>3. gone \in 0..Len(c)
  <2>1. G \subseteq 1..Len(c)
    BY <1>1
  <2> HIDE DEF G
  <2>2. IsFiniteSet(G) /\ Cardinality(G) <= Len(c)
    BY <1>2, <2>1, FS_Subset
  <2> QED BY <1>1, <2>2, FS_CardinalityType
<1> HIDE DEF G, gone
<1>4. kept \in Seq(Buffer) /\ Len(kept) = Len(c) - gone
  BY <1>1, <1>3, SuffixIs
<1>5. Dropped(c, n) = IF kept = <<>> THEN <<>> ELSE [kept EXCEPT ![1] = b]
  BY DEF Dropped, gone, G
<1> HIDE DEF kept, b
<1>6. Len([kept EXCEPT ![1] = b]) = Len(kept)
  <2>1. kept \in Seq(Buffer \cup {b})
    BY <1>4
  <2> QED BY <2>1
<1>7. Len(<<>>) = 0
  OBVIOUS
<1> QED BY <1>1, <1>3, <1>4, <1>5, <1>6, <1>7

\* The buffers that a queue gives up come back to the pool.
LEMMA ShrinkPool ==
  ASSUME ChainsInv, PoolInv, NEW o \in Owner, NEW n, Shrink(o, n)
  PROVE  PoolInv'
<1> DEFINE d == Dropped(chain[o], n)
           k == Len(chain[o]) - Len(d)
<1>1. chain[o] \in Seq(Buffer) /\ Len(chain[o]) \in Nat
  BY OwnerInv, LenProperties
<1>2. Len(d) \in Nat /\ k \in Nat
  <2>1. Len(d) \in 0..Len(chain[o])
    BY <1>1, DroppedShorter
  <2> HIDE DEF d
  <2> QED BY <1>1, <2>1
<1>3. chain' = [chain EXCEPT ![o] = d] /\ dbuf_free(k)
  BY DEF Shrink
<1> HIDE DEF d
<1>4. /\ SumFunction([p \in Owner |-> Len(chain[p])]) \in Int
      /\ SumFunction([p \in Owner |-> Len(chain'[p])])
           = SumFunction([p \in Owner |-> Len(chain[p])]) + (Len(d) - Len(chain[o]))
  BY <1>2, <1>3, HeldChange
<1>5. used = SumFunction([p \in Owner |-> Len(chain[p])])
  BY DEF PoolInv, PoolAgrees
<1>6. used' = SumFunction([p \in Owner |-> Len(chain'[p])])
  <2> HIDE DEF k
  <2>1. used' = used - k
    BY <1>2, <1>3, FreeKeeps
  <2>2. k = Len(chain[o]) - Len(d)
    BY DEF k
  <2> QED BY <1>1, <1>2, <1>4, <1>5, <2>1, <2>2
<1> HIDE DEF k
<1>7. /\ free' \in Nat /\ used' \in Int /\ count' \in Int
      /\ free' > 0 => used' + free' <= Usual
      /\ used' + free' <= count' + 1
  BY <1>2, <1>3, FreeKeeps
<1> QED BY <1>6, <1>7 DEF PoolInv, PoolAgrees, Usual

\* What dbuf_put adds comes from the pool.
LEMMA PutPool ==
  ASSUME ChainsInv, PoolInv, NEW o \in Owner, NEW bytes \in Seq(Byte), bytes # <<>>,
         dbuf_put(o, bytes)
  PROVE  PoolInv'
<1> DEFINE base == IF length[o] = 0 THEN <<>> ELSE chain[o]
           d == Appended(base, bytes)
           k == Len(d) - Len(chain[o])
<1>1. /\ chain[o] \in Seq(Buffer) /\ Sound(chain[o]) /\ Len(chain[o]) \in Nat
      /\ length[o] = Len(Bytes(chain[o]))
  BY OwnerInv, LenProperties
<1>2. length[o] = 0 => chain[o] = <<>>
  <2> SUFFICES ASSUME length[o] = 0, chain[o] # <<>> PROVE FALSE
    OBVIOUS
  <2> DEFINE c == chain[o]
  <2>1. c \in Seq(Buffer) /\ Sound(c) /\ Len(Bytes(c)) = 0 /\ Len(c) \in Nat /\ Len(c) # 0
    BY <1>1, EmptySeq
  <2> HIDE DEF c
  <2>2. /\ \A i \in 0..Len(c) : Before(c, i) \in Nat
        /\ Before(c, 0) = 0 /\ Before(c, Len(c)) = 0
        /\ \A i \in 1..Len(c) : Before(c, i - 1) < Before(c, i)
    BY <2>1, BeforeIs
  <2>3. Before(c, Len(c) - 1) \in Nat /\ Before(c, Len(c) - 1) < 0
    BY <2>1, <2>2
  <2> QED BY <2>3
<1>3. base = chain[o]
  BY <1>2
<1>4. d \in Seq(Buffer) /\ Len(d) >= Len(chain[o])
  <2> HIDE DEF base
  <2>1. base \in Seq(Buffer) /\ Sound(base)
    BY <1>1, <1>3
  <2> QED BY <1>3, <2>1, AppendedIs, DbufSizes
<1>5. chain' = [chain EXCEPT ![o] = d] /\ dbuf_alloc(k)
  BY DEF dbuf_put
<1> HIDE DEF d
<1>6. Len(d) \in Nat /\ k \in Nat
  BY <1>1, <1>4, LenProperties
<1>7. /\ SumFunction([p \in Owner |-> Len(chain[p])]) \in Int
      /\ SumFunction([p \in Owner |-> Len(chain'[p])])
           = SumFunction([p \in Owner |-> Len(chain[p])]) + (Len(d) - Len(chain[o]))
  BY <1>5, <1>6, HeldChange
<1>8. used = SumFunction([p \in Owner |-> Len(chain[p])])
  BY DEF PoolInv, PoolAgrees
<1>9. used' = SumFunction([p \in Owner |-> Len(chain'[p])])
  <2> HIDE DEF k
  <2>1. used' = used + k
    BY <1>5, <1>6, AllocKeeps
  <2>2. k = Len(d) - Len(chain[o])
    BY DEF k
  <2> QED BY <1>1, <1>6, <1>7, <1>8, <2>1, <2>2
<1> HIDE DEF k
<1>10. /\ free' \in Nat /\ used' \in Int /\ count' \in Int
       /\ free' > 0 => used' + free' <= Usual
       /\ used' + free' <= count' + 1
  BY <1>5, <1>6, AllocKeeps
<1> QED BY <1>9, <1>10 DEF PoolInv, PoolAgrees, Usual

\* Every operation keeps the pool in agreement with the chains.
LEMMA PoolStep ==
  ASSUME ChainsInv, PoolInv, [Next]_vars PROVE PoolInv'
<1>1. CASE UNCHANGED vars
  BY <1>1 DEF vars, PoolInv, PoolAgrees
<1>2. CASE Next
  <2>1. PICK o \in Owner :
           \/ \E bytes \in SeqOf(Byte, MaxPut) \ {<<>>} : dbuf_put(o, bytes)
           \/ \E n : Shrink(o, n)
    BY <1>2 DEF Next, dbuf_delete, Deliver, dbuf_get, dbuf_getmsg
  <2>2. CASE \E bytes \in SeqOf(Byte, MaxPut) \ {<<>>} : dbuf_put(o, bytes)
    <3>1. PICK bytes \in SeqOf(Byte, MaxPut) \ {<<>>} : dbuf_put(o, bytes)
      BY <2>2
    <3>2. bytes \in Seq(Byte)
      <4>1. PICK m \in 0..MaxPut : bytes \in [1..m -> Byte]
        BY <3>1 DEF SeqOf
      <4>2. m \in Nat
        BY <4>1, DbufSizes
      <4> QED BY <4>1, <4>2
    <3> QED BY <3>1, <3>2, PutPool
  <2>3. CASE \E n : Shrink(o, n)
    BY <2>3, ShrinkPool
  <2> QED BY <2>1, <2>2, <2>3
<1> QED BY <1>1, <1>2

\* dbuf_init makes a pool that is used by nobody.
LEMMA InitPool == dbuf_init => PoolInv
<1> SUFFICES ASSUME dbuf_init PROVE PoolInv
  OBVIOUS
<1>1. /\ chain = [o \in Owner |-> <<>>] /\ free = INITIAL_DBUFS + 1 /\ used = 0
      /\ count = INITIAL_DBUFS
  BY DEF dbuf_init
<1>2. SumFunction([o \in Owner |-> Len(chain[o])]) = 0
  <2> DEFINE u == [o \in Owner |-> Len(chain[o])]
  <2>1. \A o \in Owner : Len(chain[o]) = 0
    <3>1. Len(<<>>) = 0
      OBVIOUS
    <3> QED BY <1>1, <3>1
  <2>2. u \in [Owner -> {0}]
    BY <2>1
  <2> HIDE DEF u
  <2>3. SumFunction(u) = 0
    BY <2>2, DbufSizes, SumZero
  <2> QED BY <2>3 DEF u
<1>3. Usual \in Int /\ Usual >= INITIAL_DBUFS + 1
  BY DbufSizes, MaxTwo DEF Usual
<1> QED BY <1>1, <1>2, <1>3, DbufSizes DEF PoolInv, PoolAgrees, Usual

\* The buffers counted as used are those in the chains, the free list keeps no
\* more than the usual number, and DBufCount covers every buffer but the first.
THEOREM PoolStaysRight == Spec => []PoolAgrees
<1>1. dbuf_init => ChainsInv /\ PoolInv
  BY InitIs, InitPool
<1>2. ChainsInv /\ PoolInv /\ [Next]_vars => ChainsInv' /\ PoolInv'
  BY StepIs, PoolStep
<1>3. PoolInv => PoolAgrees
  BY DEF PoolInv
<1> QED BY <1>1, <1>2, <1>3, PTL DEF Spec

\* The sum of positive numbers is as great as their number, at least.
LEMMA SumAtLeast ==
  ASSUME NEW D, IsFiniteSet(D), NEW u \in [D -> Nat \ {0}]
  PROVE  SumFunction(u) \in Int /\ Cardinality(D) <= SumFunction(u)
<1>0. DOMAIN u = D
  OBVIOUS
<1>1. PICK f : SumFunction(u) = f[D] /\ \A s \in SUBSET D : f[s] = SumStep(f, u, s)
  BY <1>0, SumIs
<1> DEFINE S == {n \in Nat : \A s \in SUBSET D : Cardinality(s) = n => f[s] \in Int /\ n <= f[s]}
<1>2. 0 \in S
  <2> SUFFICES ASSUME NEW s \in SUBSET D, Cardinality(s) = 0 PROVE f[s] = 0
    OBVIOUS
  <2>1. s = {}
    BY FS_Subset, FS_EmptySet
  <2> QED BY <1>1, <2>1 DEF SumStep
<1>3. ASSUME NEW n \in Nat, n \in S PROVE n + 1 \in S
  <2> SUFFICES ASSUME NEW s \in SUBSET D, Cardinality(s) = n + 1 PROVE f[s] \in Int /\ n + 1 <= f[s]
    OBVIOUS
  <2>1. s # {}
    BY FS_EmptySet
  <2>2. Picked(s) \in D /\ s \ {Picked(s)} \in SUBSET D /\ Cardinality(s \ {Picked(s)}) = n
    BY <2>1, OneLess
  <2>3. f[s] = u[Picked(s)] + f[s \ {Picked(s)}]
    BY <1>1, <2>1 DEF SumStep
  <2>4. f[s \ {Picked(s)}] \in Int /\ n <= f[s \ {Picked(s)}] /\ u[Picked(s)] \in Nat \ {0}
    BY <1>3, <2>2
  <2> QED BY <2>3, <2>4
<1>4. Nat \subseteq S
  <2> HIDE DEF S
  <2> QED BY <1>2, <1>3, SetInduction
<1>5. Cardinality(D) \in S
  BY <1>4, FS_CardinalityType
<1> QED BY <1>1, <1>5

-----------------------------------------------------------------------------
(* What stays of a list: the entries at the places in K.                   *)

\* How many of the numbers in K come up to i.
UpTo(K, i) == Cardinality({k \in K : k <= i})
LEMMA RankIs ==
  ASSUME NEW n \in Nat, NEW K \in SUBSET (1..n)
  PROVE  /\ IsFiniteSet(K) /\ Cardinality(K) \in Nat
         /\ \A i \in K : UpTo(K, i) \in 1..Cardinality(K)
         /\ \A i, j \in K : i < j => UpTo(K, i) < UpTo(K, j)
         /\ \A p \in 1..Cardinality(K) : \E i \in K : UpTo(K, i) = p
<1>1. IsFiniteSet(K) /\ Cardinality(K) \in Nat
  <2>1. IsFiniteSet(1..n)
    BY FS_Interval
  <2> QED BY <2>1, FS_Subset, FS_CardinalityType
<1>2. ASSUME NEW i \in K PROVE UpTo(K, i) \in 1..Cardinality(K)
  <2> DEFINE T == {k \in K : k <= i}
  <2>1. T \in SUBSET K /\ i \in T
    OBVIOUS
  <2>2. IsFiniteSet(T) /\ Cardinality(T) \in Nat /\ Cardinality(T) <= Cardinality(K)
    BY <1>1, <2>1, FS_Subset, FS_CardinalityType
  <2>3. Cardinality(T) # 0
    BY <2>1, <2>2, FS_EmptySet
  <2> HIDE DEF T
  <2>4. Cardinality(T) \in 1..Cardinality(K)
    BY <1>1, <2>2, <2>3
  <2> QED BY <2>4 DEF UpTo, T
<1>3. ASSUME NEW i \in K, NEW j \in K, i < j PROVE UpTo(K, i) < UpTo(K, j)
  <2> DEFINE T == {k \in K : k <= i}
             V == {k \in K : k <= j}
  <2>0. \A k \in K : k \in Int
    OBVIOUS
  <2>1. T \in SUBSET V /\ j \in V /\ j \notin T /\ V \in SUBSET K
    <3>1. \A k \in K : k <= i => k <= j
      BY <1>3, <2>0
    <3>2. j <= j /\ ~(j <= i)
      BY <1>3, <2>0
    <3> QED BY <3>1, <3>2
  <2> HIDE DEF T, V
  <2>2. IsFiniteSet(V) /\ Cardinality(V) \in Nat
    BY <1>1, <2>1, FS_Subset, FS_CardinalityType
  <2>3. IsFiniteSet(T) /\ Cardinality(T) \in Nat /\ Cardinality(T) <= Cardinality(V)
        /\ (Cardinality(V) = Cardinality(T) => V = T)
    BY <2>1, <2>2, FS_Subset, FS_CardinalityType
  <2>4. Cardinality(T) < Cardinality(V)
    BY <2>1, <2>2, <2>3
  <2> QED BY <2>4 DEF UpTo, T, V
<1> DEFINE r == [i \in K |-> UpTo(K, i)]
           R == 1..Cardinality(K)
<1>4. r \in Injection(K, R)
  <2>1. r \in [K -> R]
    BY <1>2
  <2>2. \A i, j \in K : i # j => r[i] # r[j]
    <3> SUFFICES ASSUME NEW i \in K, NEW j \in K, i # j PROVE UpTo(K, i) # UpTo(K, j)
      OBVIOUS
    <3>1. UpTo(K, i) \in Nat /\ UpTo(K, j) \in Nat
      BY <1>2
    <3>2. i < j \/ j < i
      OBVIOUS
    <3> QED BY <1>3, <3>1, <3>2
  <2> HIDE DEF r, R
  <2> QED BY <2>1, <2>2 DEF Injection, IsInjective
<1>5. IsFiniteSet(R) /\ Cardinality(R) = Cardinality(K)
  BY <1>1, FS_Interval
<1>6. r \in Surjection(K, R)
  <2> HIDE DEF r, R
  <2> QED BY <1>1, <1>4, <1>5, FS_Injection
<1>7. \A p \in R : \E i \in K : r[i] = p
  <2> HIDE DEF r, R
  <2> QED BY <1>6 DEF Surjection
<1> QED BY <1>1, <1>2, <1>3, <1>7

\* k holds the entries of list at the places in K, and g says where each was.
IsSublist(k, list, K, g) ==
  /\ g \in [DOMAIN k -> DOMAIN list]
  /\ \A j \in DOMAIN k : g[j] \in K /\ k[j] = list[g[j]]
  /\ \A j, l \in DOMAIN k : j < l => g[j] < g[l]
  /\ \A j, l \in DOMAIN k : g[j] = g[l] => j = l
  /\ \A i \in K : \E j \in DOMAIN k : g[j] = i

\* What Kept keeps.
LEMMA KeptIs ==
  ASSUME NEW S, NEW list \in Seq(S), NEW K \in SUBSET DOMAIN list
  PROVE  /\ Kept(list, K) \in Seq(S) /\ Len(Kept(list, K)) = Cardinality(K)
         /\ \E g : IsSublist(Kept(list, K), list, K, g)
<1> DEFINE f == [j \in 1..Cardinality(K) |-> CHOOSE i \in K : UpTo(K, i) = j]
<1>1. Len(list) \in Nat /\ K \in SUBSET (1..Len(list)) /\ \A i \in 1..Len(list) : list[i] \in S
  OBVIOUS
<1>2. /\ IsFiniteSet(K) /\ Cardinality(K) \in Nat
      /\ \A i \in K : UpTo(K, i) \in 1..Cardinality(K)
      /\ \A i, j \in K : i < j => UpTo(K, i) < UpTo(K, j)
      /\ \A p \in 1..Cardinality(K) : \E i \in K : UpTo(K, i) = p
  BY <1>1, RankIs
<1>3. \A j \in 1..Cardinality(K) : f[j] \in K /\ UpTo(K, f[j]) = j
  <2> TAKE j \in 1..Cardinality(K)
  <2>1. \E i \in K : UpTo(K, i) = j
    BY <1>2
  <2>2. f[j] = CHOOSE i \in K : UpTo(K, i) = j
    OBVIOUS
  <2> HIDE DEF f
  <2> QED BY <2>1, <2>2
<1>4. Kept(list, K) = [j \in 1..Cardinality(K) |-> list[f[j]]]
  BY DEF Kept, UpTo
<1>5. f \in [1..Cardinality(K) -> K]
  BY <1>3
<1> HIDE DEF f
<1>6. Kept(list, K) \in Seq(S) /\ Len(Kept(list, K)) = Cardinality(K)
  <2>1. \A j \in 1..Cardinality(K) : list[f[j]] \in S
    BY <1>1, <1>3
  <2> QED BY <1>2, <1>4, <2>1
<1>7. \A j \in 1..Cardinality(K) : Kept(list, K)[j] = list[f[j]]
  BY <1>4
<1>8. \A j, l \in 1..Cardinality(K) : j < l => f[j] < f[l]
  <2> TAKE j, l \in 1..Cardinality(K)
  <2> HAVE j < l
  <2>1. f[j] \in K /\ f[l] \in K /\ UpTo(K, f[j]) = j /\ UpTo(K, f[l]) = l
    BY <1>3
  <2>2. f[j] \in Nat /\ f[l] \in Nat
    BY <1>1, <2>1
  <2>3. f[j] # f[l]
    BY <2>1
  <2>4. ~ (f[l] < f[j])
    BY <1>2, <2>1
  <2> QED BY <2>2, <2>3, <2>4
<1>9. \A i \in K : \E j \in 1..Cardinality(K) : f[j] = i
  <2> TAKE i \in K
  <2>1. UpTo(K, i) \in 1..Cardinality(K)
    BY <1>2
  <2>2. f[UpTo(K, i)] \in K /\ UpTo(K, f[UpTo(K, i)]) = UpTo(K, i)
    BY <1>3, <2>1
  <2>3. UpTo(K, i) \in Nat
    BY <2>1, <1>2
  <2>4. ~(i < f[UpTo(K, i)]) /\ ~(f[UpTo(K, i)] < i)
    BY <1>2, <2>2, <2>3
  <2>5. f[UpTo(K, i)] = i
    BY <1>1, <2>2, <2>4
  <2> QED BY <2>1, <2>5
<1>10. DOMAIN Kept(list, K) = 1..Cardinality(K)
  BY <1>4
<1>11. f \in [DOMAIN Kept(list, K) -> DOMAIN list]
  BY <1>5, <1>10
<1>12. \A j, l \in 1..Cardinality(K) : f[j] = f[l] => j = l
  BY <1>3
<1>13. IsSublist(Kept(list, K), list, K, f)
  <2> DEFINE k == Kept(list, K)
  <2>1. DOMAIN k = 1..Cardinality(K)
    BY <1>10
  <2>2. \A j \in 1..Cardinality(K) : k[j] = list[f[j]]
    BY <1>7
  <2> HIDE DEF k
  <2> QED BY <1>3, <1>8, <1>9, <1>11, <1>12, <2>1, <2>2 DEF IsSublist, k
<1> QED BY <1>6, <1>13

-----------------------------------------------------------------------------
(* Heaps of equal elements.                                                *)

Bits == 0..ElemsPerBlock - 1
Block == [at : Address, map : SUBSET Bits, freeElems : Int]

\* What is handed out of the blocks b.
IsTaken(t, b) ==
  \A p : p \in t <=> \E i \in DOMAIN b : \E e \in b[i].map : p = <<b[i].at, e>>

HeapAt(b, f, t, o) ==
  /\ b \in Seq(Block) /\ IsFiniteSet(t)
  /\ \A i, j \in DOMAIN b : b[i].at = b[j].at => i = j
  /\ \A i \in DOMAIN b : b[i].freeElems = ElemsPerBlock - Cardinality(b[i].map)
  /\ IsTaken(t, b)
  /\ Cardinality(t) = o /\ f = Len(b) * ElemsPerBlock - o

HeapInv == HeapAt(blocks, freeElems, taken, out) /\ ~refused

LEMMA BitSets ==
  /\ IsFiniteSet(Bits) /\ Cardinality(Bits) = ElemsPerBlock
  /\ \A m \in SUBSET Bits : IsFiniteSet(m) /\ Cardinality(m) \in 0..ElemsPerBlock
<1>1. IsFiniteSet(Bits) /\ Cardinality(Bits) = ElemsPerBlock
  BY FS_Interval, HeapSizes DEF Bits
<1>2. \A m \in SUBSET Bits : IsFiniteSet(m) /\ Cardinality(m) \in Nat /\ Cardinality(m) <= ElemsPerBlock
  BY <1>1, FS_Subset, FS_CardinalityType
<1> QED BY <1>1, <1>2, HeapSizes

LEMMA BlockIs ==
  /\ \A x \in Block : /\ x = [at |-> x.at, map |-> x.map, freeElems |-> x.freeElems]
                      /\ x.at \in Address /\ x.map \in SUBSET Bits /\ x.freeElems \in Int
  /\ \A at \in Address, m \in SUBSET Bits, k \in Int : [at |-> at, map |-> m, freeElems |-> k] \in Block
BY DEF Block

LEMMA HeapIsSound == HeapInv => HeapSound
<1> SUFFICES ASSUME HeapInv PROVE HeapSound
  OBVIOUS
<1>1. taken = UNION {{<<blocks[i].at, e>> : e \in blocks[i].map} : i \in DOMAIN blocks}
  BY DEF HeapInv, HeapAt, IsTaken
<1>2. ASSUME NEW i \in DOMAIN blocks
      PROVE  blocks[i].map \subseteq 0..ElemsPerBlock - 1
  <2>1. blocks[i] \in Block
    BY DEF HeapInv, HeapAt
  <2> QED BY <2>1, BlockIs DEF Bits
<1> QED BY <1>1, <1>2 DEF HeapInv, HeapAt, HeapSound

\* An element of block i is handed out.
LEMMA HandOut ==
  ASSUME NEW b, NEW f, NEW t, NEW o, HeapAt(b, f, t, o),
         NEW i \in DOMAIN b, NEW e \in Bits, e \notin b[i].map
  PROVE  HeapAt([b EXCEPT ![i].map = @ \cup {e}, ![i].freeElems = @ - 1], f - 1,
                t \cup {<<b[i].at, e>>}, o + 1)
<1> DEFINE c == [b EXCEPT ![i].map = @ \cup {e}, ![i].freeElems = @ - 1]
           p == <<b[i].at, e>>
<1>1. b \in Seq(Block) /\ IsFiniteSet(t) /\ IsTaken(t, b)
      /\ (\A j, k \in DOMAIN b : b[j].at = b[k].at => j = k)
      /\ (\A j \in DOMAIN b : b[j].freeElems = ElemsPerBlock - Cardinality(b[j].map))
      /\ Cardinality(t) = o /\ f = Len(b) * ElemsPerBlock - o
  BY DEF HeapAt
<1>2. Len(b) \in Nat /\ DOMAIN b = 1..Len(b) /\ \A j \in DOMAIN b : b[j] \in Block
  BY <1>1
<1>30. /\ b[i] = [at |-> b[i].at, map |-> b[i].map, freeElems |-> b[i].freeElems]
       /\ b[i].at \in Address /\ b[i].map \in SUBSET Bits /\ b[i].freeElems \in Int
  BY <1>2, BlockIs
<1>3. /\ DOMAIN c = DOMAIN b /\ c = [j \in DOMAIN b |-> c[j]]
      /\ c[i] = [at |-> b[i].at, map |-> b[i].map \cup {e}, freeElems |-> b[i].freeElems - 1]
      /\ \A j \in DOMAIN b : j # i => c[j] = b[j]
  BY <1>2, <1>30
<1> HIDE DEF c
<1>4. c \in Seq(Block) /\ DOMAIN c = DOMAIN b /\ Len(c) = Len(b)
  <2>1. c[i] \in Block
    BY <1>3, <1>30, BlockIs
  <2>2. \A j \in DOMAIN b : c[j] \in Block
    BY <1>2, <1>3, <2>1
  <2>3. c \in [1..Len(b) -> Block]
    BY <1>2, <1>3, <2>2
  <2> QED BY <1>2, <2>3
<1>5. \A j, k \in DOMAIN c : c[j].at = c[k].at => j = k
  <2>1. \A j \in DOMAIN b : c[j].at = b[j].at
    BY <1>3
  <2> QED BY <1>1, <1>4, <2>1
<1>6. ASSUME NEW j \in DOMAIN c PROVE c[j].freeElems = ElemsPerBlock - Cardinality(c[j].map)
  <2>1. CASE j = i
    <3>1. b[i].map \in SUBSET Bits
      BY <1>2 DEF Block
    <3>2. IsFiniteSet(b[i].map) /\ Cardinality(b[i].map) \in 0..ElemsPerBlock
      BY <3>1, BitSets
    <3>3. Cardinality(b[i].map \cup {e}) = Cardinality(b[i].map) + 1
      BY <3>2, FS_AddElement
    <3>4. b[i].freeElems = ElemsPerBlock - Cardinality(b[i].map)
      BY <1>1
    <3>5. c[i].freeElems = b[i].freeElems - 1 /\ c[i].map = b[i].map \cup {e}
      BY <1>3
    <3>6. Cardinality(b[i].map) \in Int /\ ElemsPerBlock \in Int
      BY <3>2, HeapSizes
    <3>7. c[i].freeElems = ElemsPerBlock - Cardinality(c[i].map)
      BY <3>3, <3>4, <3>5, <3>6
    <3> QED BY <2>1, <3>7
  <2>2. CASE j # i
    BY <1>1, <1>3, <1>4, <2>2
  <2> QED BY <2>1, <2>2
<1>7. IsTaken(t \cup {p}, c)
  <2>1. ASSUME NEW q PROVE (\E j \in DOMAIN c : \E d \in c[j].map : q = <<c[j].at, d>>)
                           <=> (q = p \/ \E j \in DOMAIN b : \E d \in b[j].map : q = <<b[j].at, d>>)
    BY <1>3, <1>4
  <2>2. \A q : q \in t <=> \E j \in DOMAIN b : \E d \in b[j].map : q = <<b[j].at, d>>
    BY <1>1 DEF IsTaken
  <2> HIDE DEF p
  <2> QED BY <2>1, <2>2 DEF IsTaken
<1>8. p \notin t
  <2>1. ASSUME p \in t PROVE FALSE
    <3>1. PICK j \in DOMAIN b : \E d \in b[j].map : p = <<b[j].at, d>>
      BY <1>1, <2>1 DEF IsTaken
    <3>2. PICK d \in b[j].map : p = <<b[j].at, d>>
      BY <3>1
    <3>3. j = i /\ d = e
      BY <1>1, <3>2
    <3> QED BY <3>3
  <2> QED BY <2>1
<1>9. IsFiniteSet(t \cup {p}) /\ Cardinality(t \cup {p}) = o + 1 /\ o \in Nat
  BY <1>1, <1>8, FS_AddElement, FS_CardinalityType
<1>10. f - 1 = Len(c) * ElemsPerBlock - (o + 1)
  <2>1. Len(b) * ElemsPerBlock \in Int
    BY <1>2, HeapSizes
  <2> QED BY <1>1, <1>4, <1>9, <2>1
<1>11. HeapAt(c, f - 1, t \cup {p}, o + 1)
  BY <1>4, <1>5, <1>6, <1>7, <1>9, <1>10 DEF HeapAt
<1> QED BY <1>11 DEF c, p

\* An element that is in use comes back to block i.
LEMMA TakeBack ==
  ASSUME NEW b, NEW f, NEW t, NEW o, HeapAt(b, f, t, o),
         NEW i \in DOMAIN b, NEW e \in b[i].map
  PROVE  HeapAt([b EXCEPT ![i].map = @ \ {e}, ![i].freeElems = @ + 1], f + 1,
                t \ {<<b[i].at, e>>}, o - 1)
<1> DEFINE c == [b EXCEPT ![i].map = @ \ {e}, ![i].freeElems = @ + 1]
           p == <<b[i].at, e>>
<1>1. b \in Seq(Block) /\ IsFiniteSet(t) /\ IsTaken(t, b)
      /\ (\A j, k \in DOMAIN b : b[j].at = b[k].at => j = k)
      /\ (\A j \in DOMAIN b : b[j].freeElems = ElemsPerBlock - Cardinality(b[j].map))
      /\ Cardinality(t) = o /\ f = Len(b) * ElemsPerBlock - o
  BY DEF HeapAt
<1>2. Len(b) \in Nat /\ DOMAIN b = 1..Len(b) /\ \A j \in DOMAIN b : b[j] \in Block
  BY <1>1
<1>30. /\ b[i] = [at |-> b[i].at, map |-> b[i].map, freeElems |-> b[i].freeElems]
       /\ b[i].at \in Address /\ b[i].map \in SUBSET Bits /\ b[i].freeElems \in Int
  BY <1>2, BlockIs
<1>3. /\ DOMAIN c = DOMAIN b /\ c = [j \in DOMAIN b |-> c[j]]
      /\ c[i] = [at |-> b[i].at, map |-> b[i].map \ {e}, freeElems |-> b[i].freeElems + 1]
      /\ \A j \in DOMAIN b : j # i => c[j] = b[j]
  BY <1>2, <1>30
<1> HIDE DEF c
<1>4. c \in Seq(Block) /\ DOMAIN c = DOMAIN b /\ Len(c) = Len(b)
  <2>1. c[i] \in Block
    BY <1>3, <1>30, BlockIs
  <2>2. \A j \in DOMAIN b : c[j] \in Block
    BY <1>2, <1>3, <2>1
  <2>3. c \in [1..Len(b) -> Block]
    BY <1>2, <1>3, <2>2
  <2> QED BY <1>2, <2>3
<1>5. \A j, k \in DOMAIN c : c[j].at = c[k].at => j = k
  <2>1. \A j \in DOMAIN b : c[j].at = b[j].at
    BY <1>3
  <2> QED BY <1>1, <1>4, <2>1
<1>6. ASSUME NEW j \in DOMAIN c PROVE c[j].freeElems = ElemsPerBlock - Cardinality(c[j].map)
  <2>1. CASE j = i
    <3>1. b[i].map \in SUBSET Bits
      BY <1>2 DEF Block
    <3>2. IsFiniteSet(b[i].map) /\ Cardinality(b[i].map) \in 0..ElemsPerBlock
      BY <3>1, BitSets
    <3>3. Cardinality(b[i].map \ {e}) = Cardinality(b[i].map) - 1
      BY <3>2, FS_RemoveElement
    <3>4. b[i].freeElems = ElemsPerBlock - Cardinality(b[i].map)
      BY <1>1
    <3>5. c[i].freeElems = b[i].freeElems + 1 /\ c[i].map = b[i].map \ {e}
      BY <1>3
    <3>6. Cardinality(b[i].map) \in Int /\ ElemsPerBlock \in Int
      BY <3>2, HeapSizes
    <3>7. c[i].freeElems = ElemsPerBlock - Cardinality(c[i].map)
      BY <3>3, <3>4, <3>5, <3>6
    <3> QED BY <2>1, <3>7
  <2>2. CASE j # i
    BY <1>1, <1>3, <1>4, <2>2
  <2> QED BY <2>1, <2>2
<1>7. IsTaken(t \ {p}, c)
  <2>1. ASSUME NEW q PROVE (\E j \in DOMAIN c : \E d \in c[j].map : q = <<c[j].at, d>>)
                           <=> (q # p /\ \E j \in DOMAIN b : \E d \in b[j].map : q = <<b[j].at, d>>)
    <3>1. ASSUME NEW j \in DOMAIN c, NEW d \in c[j].map
          PROVE  <<c[j].at, d>> # p /\ d \in b[j].map /\ c[j].at = b[j].at
      <4>1. CASE j = i
        BY <1>3, <1>4, <4>1
      <4>2. CASE j # i
        BY <1>1, <1>3, <1>4, <4>2
      <4> QED BY <4>1, <4>2
    <3>2. ASSUME NEW j \in DOMAIN b, NEW d \in b[j].map, <<b[j].at, d>> # p
          PROVE  d \in c[j].map /\ c[j].at = b[j].at
      BY <1>3, <3>2
    <3> HIDE DEF p
    <3> QED BY <1>4, <3>1, <3>2
  <2>2. \A q : q \in t <=> \E j \in DOMAIN b : \E d \in b[j].map : q = <<b[j].at, d>>
    BY <1>1 DEF IsTaken
  <2> HIDE DEF p
  <2> QED BY <2>1, <2>2 DEF IsTaken
<1>8. p \in t
  BY <1>1 DEF IsTaken
<1>9. IsFiniteSet(t \ {p}) /\ Cardinality(t \ {p}) = o - 1 /\ o \in Nat
  BY <1>1, <1>8, FS_RemoveElement, FS_CardinalityType
<1>10. f + 1 = Len(c) * ElemsPerBlock - (o - 1)
  <2>1. Len(b) * ElemsPerBlock \in Int
    BY <1>2, HeapSizes
  <2> QED BY <1>1, <1>4, <1>9, <2>1
<1>11. HeapAt(c, f + 1, t \ {p}, o - 1)
  BY <1>4, <1>5, <1>6, <1>7, <1>9, <1>10 DEF HeapAt
<1> QED BY <1>11 DEF c, p

\* A new block of which the first element is handed out at once.
LEMMA NewBlock ==
  ASSUME NEW b, NEW t, NEW o, HeapAt(b, 0, t, o),
         NEW at \in Address, \A i \in DOMAIN b : b[i].at # at
  PROVE  HeapAt(<<newblock(at)>> \o b, ElemsPerBlock - 1, t \cup {<<at, 0>>}, o + 1)
<1> DEFINE n == newblock(at)
           c == <<n>> \o b
           p == <<at, 0>>
<1>1. b \in Seq(Block) /\ IsFiniteSet(t) /\ IsTaken(t, b)
      /\ (\A j, k \in DOMAIN b : b[j].at = b[k].at => j = k)
      /\ (\A j \in DOMAIN b : b[j].freeElems = ElemsPerBlock - Cardinality(b[j].map))
      /\ Cardinality(t) = o /\ 0 = Len(b) * ElemsPerBlock - o
  BY DEF HeapAt
<1>2. n \in Block /\ n.at = at /\ n.map = {0} /\ n.freeElems = ElemsPerBlock - 1
  BY HeapSizes DEF newblock, Block, Bits
<1> HIDE DEF n
<1>3. Len(b) \in Nat /\ DOMAIN b = 1..Len(b) /\ \A j \in DOMAIN b : b[j] \in Block
  BY <1>1
<1>4. /\ c \in Seq(Block) /\ Len(c) = Len(b) + 1 /\ DOMAIN c = 1..Len(b) + 1
      /\ c[1] = n /\ \A j \in DOMAIN c : j # 1 => j - 1 \in DOMAIN b /\ c[j] = b[j - 1]
  BY <1>1, <1>2, <1>3
<1>5. \A j \in DOMAIN b : j + 1 \in DOMAIN c /\ j + 1 # 1 /\ c[j + 1] = b[j]
  BY <1>3, <1>4
<1> HIDE DEF c
<1>6. \A j, k \in DOMAIN c : c[j].at = c[k].at => j = k
  <2> TAKE j, k \in DOMAIN c
  <2> HAVE c[j].at = c[k].at
  <2>1. CASE j = 1 /\ k # 1
    BY <1>2, <1>4, <2>1
  <2>2. CASE j # 1 /\ k = 1
    BY <1>2, <1>4, <2>2
  <2>3. CASE j # 1 /\ k # 1
    <3>1. j - 1 \in DOMAIN b /\ k - 1 \in DOMAIN b /\ b[j - 1].at = b[k - 1].at
      BY <1>4, <2>3
    <3>2. j - 1 = k - 1
      BY <1>1, <3>1
    <3> QED BY <1>4, <3>2
  <2> QED BY <2>1, <2>2, <2>3
<1>7. \A j \in DOMAIN c : c[j].freeElems = ElemsPerBlock - Cardinality(c[j].map)
  <2>1. n.freeElems = ElemsPerBlock - Cardinality(n.map)
    BY <1>2, FS_Singleton
  <2> QED BY <1>1, <1>4, <2>1
<1>8. IsTaken(t \cup {p}, c)
  <2>1. ASSUME NEW q PROVE (\E j \in DOMAIN c : \E d \in c[j].map : q = <<c[j].at, d>>)
                           <=> (q = p \/ \E j \in DOMAIN b : \E d \in b[j].map : q = <<b[j].at, d>>)
    <3>1. \A j \in DOMAIN c : \A d \in c[j].map : q = <<c[j].at, d>> =>
            q = p \/ \E k \in DOMAIN b : \E g \in b[k].map : q = <<b[k].at, g>>
      BY <1>2, <1>4
    <3>2. q = p => \E j \in DOMAIN c : \E d \in c[j].map : q = <<c[j].at, d>>
      <4>1. 1 \in DOMAIN c /\ 0 \in c[1].map /\ p = <<c[1].at, 0>>
        BY <1>2, <1>3, <1>4
      <4> HIDE DEF p
      <4> QED BY <4>1
    <3>3. \A k \in DOMAIN b : \A g \in b[k].map : q = <<b[k].at, g>> =>
            \E j \in DOMAIN c : \E d \in c[j].map : q = <<c[j].at, d>>
      BY <1>5
    <3> QED BY <3>1, <3>2, <3>3
  <2>2. \A q : q \in t <=> \E j \in DOMAIN b : \E d \in b[j].map : q = <<b[j].at, d>>
    BY <1>1 DEF IsTaken
  <2> HIDE DEF p
  <2> QED BY <2>1, <2>2 DEF IsTaken
<1>9. p \notin t
  <2>1. ASSUME p \in t PROVE FALSE
    <3>1. PICK j \in DOMAIN b : \E d \in b[j].map : p = <<b[j].at, d>>
      BY <1>1, <2>1 DEF IsTaken
    <3> QED BY <3>1
  <2> QED BY <2>1
<1>10. IsFiniteSet(t \cup {p}) /\ Cardinality(t \cup {p}) = o + 1 /\ o \in Nat
  BY <1>1, <1>9, FS_AddElement, FS_CardinalityType
<1>11. ElemsPerBlock - 1 = Len(c) * ElemsPerBlock - (o + 1)
  BY <1>1, <1>3, <1>4, <1>10, HeapSizes
<1>12. HeapAt(c, ElemsPerBlock - 1, t \cup {p}, o + 1)
  BY <1>4, <1>6, <1>7, <1>8, <1>10, <1>11 DEF HeapAt
<1> QED BY <1>12 DEF c, n, p

\* The bits of a block go up to its last element, and a block with a free element
\* has a bit for it.
LEMMA BitFree ==
  ASSUME NEW b \in Block, b.freeElems = ElemsPerBlock - Cardinality(b.map), b.freeElems > 0
  PROVE  Clear(b) # {} /\ Lowest(Clear(b)) \in Bits /\ Lowest(Clear(b)) \notin b.map
<1>1. numlongs * BitsPerLong >= ElemsPerBlock /\ numlongs * BitsPerLong \in Int
  <2> DEFINE x == ElemsPerBlock + BitsPerLong - 1
  <2>1. x \in Nat /\ BitsPerLong \in Nat \ {0} /\ x = ElemsPerBlock + BitsPerLong - 1
    BY HeapSizes
  <2> HIDE DEF x
  <2>2. x \div BitsPerLong \in Nat /\ (x \div BitsPerLong) * BitsPerLong > x - BitsPerLong
        /\ (x \div BitsPerLong) * BitsPerLong \in Nat
    BY <2>1
  <2>3. numlongs = x \div BitsPerLong
    BY DEF numlongs, x
  <2>4. numlongs * BitsPerLong = (x \div BitsPerLong) * BitsPerLong
    BY <2>3
  <2> QED BY <2>1, <2>2, <2>4, HeapSizes
<1>2. b.map \in SUBSET Bits
  BY DEF Block
<1>3. PICK e \in Bits : e \notin b.map
  <2>1. Cardinality(b.map) # ElemsPerBlock
    BY <1>2, BitSets, HeapSizes
  <2> QED BY <1>2, <2>1, BitSets
<1> DEFINE C == Clear(b)
<1>4. C \in SUBSET Nat /\ e \in C
  BY <1>1, <1>3, HeapSizes DEF Clear, Bits
<1>5. \E m \in C : \A k \in C : m <= k
  <2> HIDE DEF C
  <2> QED BY <1>4, LeastNat
<1>6. Lowest(C) \in C /\ \A k \in C : Lowest(C) <= k
  <2> HIDE DEF C
  <2> QED BY <1>5, Zenon DEF Lowest
<1>7. Lowest(C) <= e /\ Lowest(C) \in Nat
  BY <1>4, <1>6
<1>8. Lowest(C) \in Bits
  BY <1>3, <1>7, HeapSizes DEF Bits
<1> QED BY <1>4, <1>6, <1>8 DEF Clear

\* When elements are free some block has one.
LEMMA SomeRoom ==
  ASSUME NEW b, NEW f, NEW t, NEW o, HeapAt(b, f, t, o), f # 0
  PROVE  \E i \in DOMAIN b : b[i].freeElems > 0
<1> SUFFICES ASSUME \A i \in DOMAIN b : ~(b[i].freeElems > 0) PROVE f = 0
  OBVIOUS
<1> DEFINE A == {b[i].at : i \in DOMAIN b}
<1>1. b \in Seq(Block) /\ IsFiniteSet(t) /\ IsTaken(t, b)
      /\ (\A j, k \in DOMAIN b : b[j].at = b[k].at => j = k)
      /\ (\A j \in DOMAIN b : b[j].freeElems = ElemsPerBlock - Cardinality(b[j].map))
      /\ Cardinality(t) = o /\ f = Len(b) * ElemsPerBlock - o
  BY DEF HeapAt
<1>2. Len(b) \in Nat /\ DOMAIN b = 1..Len(b) /\ \A j \in DOMAIN b : b[j] \in Block
  BY <1>1
<1>3. ASSUME NEW i \in DOMAIN b PROVE b[i].map = Bits
  <2>1. b[i].map \in SUBSET Bits
    BY <1>2 DEF Block
  <2>2. Cardinality(b[i].map) \in 0..ElemsPerBlock
    BY <2>1, BitSets
  <2>3. Cardinality(b[i].map) = ElemsPerBlock
    BY <1>1, <2>2, HeapSizes
  <2> QED BY <2>1, <2>3, BitSets, FS_Subset
<1>4. t = A \X Bits
  <2>1. \A p : p \in t <=> \E i \in DOMAIN b : \E e \in Bits : p = <<b[i].at, e>>
    BY <1>1, <1>3 DEF IsTaken
  <2> QED BY <2>1
<1>5. IsFiniteSet(A) /\ Cardinality(A) = Len(b)
  <2> DEFINE g == [i \in 1..Len(b) |-> b[i].at]
  <2>1. g \in [1..Len(b) -> A]
    BY <1>2
  <2>2. \A x \in A : \E i \in 1..Len(b) : g[i] = x
    BY <1>2
  <2>3. \A i, j \in 1..Len(b) : g[i] = g[j] => i = j
    BY <1>1, <1>2
  <2> HIDE DEF g, A
  <2>4. g \in Bijection(1..Len(b), A)
    BY <2>1, <2>2, <2>3 DEF Bijection, Injection, Surjection, IsInjective
  <2>5. IsFiniteSet(1..Len(b)) /\ Cardinality(1..Len(b)) = Len(b)
    <3>1. \A n \in Nat : IsFiniteSet(1..n) /\ Cardinality(1..n) = n
      BY FS_Interval
    <3> QED BY <1>2, <3>1
  <2> QED BY <2>4, <2>5, FS_Bijection DEF ExistsBijection
<1>6. Cardinality(t) = Len(b) * ElemsPerBlock
  <2> HIDE DEF A
  <2> QED BY <1>4, <1>5, BitSets, FS_Product
<1> QED BY <1>1, <1>2, <1>6, HeapSizes

\* The collection of the blocks of which nothing is in use.
LEMMA Collected ==
  ASSUME NEW b, NEW f, NEW t, NEW o, HeapAt(b, f, t, o)
  PROVE  LET c == Kept(b, {i \in DOMAIN b : b[i].map # {}}) IN
         HeapAt(c, f - (Len(b) - Len(c)) * ElemsPerBlock, t, o)
<1> DEFINE K == {i \in DOMAIN b : b[i].map # {}}
           c == Kept(b, K)
<1>1. b \in Seq(Block) /\ IsFiniteSet(t) /\ IsTaken(t, b)
      /\ (\A j, k \in DOMAIN b : b[j].at = b[k].at => j = k)
      /\ (\A j \in DOMAIN b : b[j].freeElems = ElemsPerBlock - Cardinality(b[j].map))
      /\ Cardinality(t) = o /\ f = Len(b) * ElemsPerBlock - o
  BY DEF HeapAt
<1>2. Len(b) \in Nat /\ DOMAIN b = 1..Len(b) /\ \A j \in DOMAIN b : b[j] \in Block
  BY <1>1
<1>3. K \in SUBSET DOMAIN b /\ \A i \in DOMAIN b : b[i].map # {} <=> i \in K
  OBVIOUS
<1> HIDE DEF K
<1>4. c \in Seq(Block) /\ \E g : IsSublist(c, b, K, g)
  BY <1>1, <1>3, KeptIs
<1> HIDE DEF c
<1>5a. PICK g : IsSublist(c, b, K, g)
  BY <1>4
<1>5. /\ g \in [DOMAIN c -> DOMAIN b]
      /\ \A j \in DOMAIN c : g[j] \in K /\ c[j] = b[g[j]]
      /\ \A j, l \in DOMAIN c : g[j] = g[l] => j = l
  BY <1>5a DEF IsSublist
<1>5b. \A i \in K : \E j \in DOMAIN c : g[j] = i
  BY <1>5a DEF IsSublist
<1>6. \A j \in DOMAIN c : g[j] \in DOMAIN b /\ c[j] = b[g[j]]
  BY <1>5
<1>7. \A j, k \in DOMAIN c : c[j].at = c[k].at => j = k
  BY <1>1, <1>5, <1>6
<1>8. \A j \in DOMAIN c : c[j].freeElems = ElemsPerBlock - Cardinality(c[j].map)
  BY <1>1, <1>6
<1>9. IsTaken(t, c)
  <2>1. ASSUME NEW q PROVE (\E j \in DOMAIN c : \E d \in c[j].map : q = <<c[j].at, d>>)
                           <=> (\E j \in DOMAIN b : \E d \in b[j].map : q = <<b[j].at, d>>)
    <3>1. \A j \in DOMAIN b : \A d \in b[j].map : \E k \in DOMAIN c : c[k] = b[j]
      <4>1. \A j \in DOMAIN b : (\E d \in b[j].map : TRUE) => j \in K
        BY <1>3
      <4> QED BY <1>5, <1>5b, <4>1
    <3> QED BY <1>6, <3>1
  <2>2. \A q : q \in t <=> \E j \in DOMAIN b : \E d \in b[j].map : q = <<b[j].at, d>>
    BY <1>1 DEF IsTaken
  <2> QED BY <2>1, <2>2 DEF IsTaken
<1>10. f - (Len(b) - Len(c)) * ElemsPerBlock = Len(c) * ElemsPerBlock - o
  <2>1. Len(c) \in Nat /\ o \in Nat
    BY <1>1, <1>4, FS_CardinalityType
  <2> QED BY <1>1, <1>2, <2>1, HeapSizes
<1>11. HeapAt(c, f - (Len(b) - Len(c)) * ElemsPerBlock, t, o)
  BY <1>1, <1>4, <1>7, <1>8, <1>9, <1>10 DEF HeapAt
<1> QED BY <1>11 DEF c, K

LEMMA HeapInit == BlockHeapCreate => HeapInv
<1> SUFFICES ASSUME BlockHeapCreate PROVE HeapInv
  OBVIOUS
<1>1. PICK at \in Address : blocks = <<[at |-> at, map |-> {}, freeElems |-> ElemsPerBlock]>>
  BY DEF BlockHeapCreate
<1>2. Len(blocks) = 1 /\ DOMAIN blocks = {1} /\ blocks[1].at = at /\ blocks[1].map = {}
      /\ blocks[1].freeElems = ElemsPerBlock /\ blocks[1] \in Block
  BY <1>1, HeapSizes, BlockIs
<1>3. blocks \in Seq(Block)
  BY <1>1, <1>2
<1>4. freeElems = ElemsPerBlock /\ taken = {} /\ out = 0 /\ ~refused
  BY DEF BlockHeapCreate
<1>5. IsTaken(taken, blocks)
  BY <1>2, <1>4 DEF IsTaken
<1>6. IsFiniteSet({}) /\ Cardinality({}) = 0
  BY FS_EmptySet
<1>7. blocks[1].freeElems = ElemsPerBlock - Cardinality(blocks[1].map)
  BY <1>2, <1>6, HeapSizes
<1>8. freeElems = Len(blocks) * ElemsPerBlock - out
  BY <1>2, <1>4, HeapSizes
<1> QED BY <1>2, <1>3, <1>4, <1>5, <1>6, <1>7, <1>8 DEF HeapInv, HeapAt

LEMMA AllocStep == HeapInv /\ BlockHeapAlloc => HeapInv'
<1> SUFFICES ASSUME HeapInv, BlockHeapAlloc PROVE HeapInv'
  OBVIOUS
<1>1. HeapAt(blocks, freeElems, taken, out) /\ ~refused
  BY DEF HeapInv
<1>2. /\ blocks \in Seq(Block)
      /\ \A j \in DOMAIN blocks : blocks[j].freeElems = ElemsPerBlock - Cardinality(blocks[j].map)
      /\ freeElems = Len(blocks) * ElemsPerBlock - out
  BY <1>1 DEF HeapAt
<1>3. ASSUME freeElems = 0, NEW at \in Address \ Used,
             blocks' = <<newblock(at)>> \o blocks, freeElems' = freeElems + ElemsPerBlock - 1,
             Hand(<<at, 0>>)
      PROVE  HeapInv'
  <2>1. \A i \in DOMAIN blocks : blocks[i].at # at
    BY <1>3 DEF Used
  <2>2. HeapAt(<<newblock(at)>> \o blocks, ElemsPerBlock - 1, taken \cup {<<at, 0>>}, out + 1)
    BY <1>1, <1>3, <2>1, NewBlock
  <2>3. freeElems' = ElemsPerBlock - 1
    BY <1>3, HeapSizes
  <2>4. HeapAt(blocks', freeElems', taken', out')
    BY <1>3, <2>2, <2>3 DEF Hand
  <2>5. ~refused'
    BY <1>1, <1>3 DEF Hand
  <2> QED BY <2>4, <2>5 DEF HeapInv, HeapAt, IsTaken
<1>4. ASSUME freeElems # 0
      PROVE  Roomy # {} /\ Lowest(Roomy) \in Roomy
  <2>1. PICK i \in DOMAIN blocks : blocks[i].freeElems > 0
    BY <1>1, <1>4, SomeRoom
  <2>2. blocks[i] \in Block
    BY <1>2
  <2>3. Clear(blocks[i]) # {}
    BY <1>2, <2>1, <2>2, BitFree
  <2>4. i \in Roomy /\ Roomy \in SUBSET Nat
    BY <1>2, <2>1, <2>3 DEF Roomy
  <2>5. \E m \in Roomy : \A k \in Roomy : m <= k
    BY <2>4, LeastNat
  <2> QED BY <2>4, <2>5, Zenon DEF Lowest
<1> DEFINE i == Lowest(Roomy)
           e == Lowest(Clear(blocks[i]))
<1>5. ASSUME freeElems # 0, Roomy # {},
             blocks' = [blocks EXCEPT ![i].map = @ \cup {e}, ![i].freeElems = @ - 1],
             freeElems' = freeElems - 1, Hand(<<blocks[i].at, e>>)
      PROVE  HeapInv'
  <2>1. i \in DOMAIN blocks /\ blocks[i].freeElems > 0
    BY <1>4, <1>5 DEF Roomy
  <2>2. blocks[i] \in Block /\ blocks[i].freeElems = ElemsPerBlock - Cardinality(blocks[i].map)
    BY <1>2, <2>1
  <2>3. e \in Bits /\ e \notin blocks[i].map
    BY <2>1, <2>2, BitFree
  <2> HIDE DEF i, e
  <2>4. HeapAt([blocks EXCEPT ![i].map = @ \cup {e}, ![i].freeElems = @ - 1], freeElems - 1,
                taken \cup {<<blocks[i].at, e>>}, out + 1)
    BY <1>1, <2>1, <2>3, HandOut
  <2>5. HeapAt(blocks', freeElems', taken', out')
    BY <1>5, <2>4 DEF Hand
  <2>6. ~refused'
    BY <1>1, <1>5 DEF Hand
  <2> QED BY <2>5, <2>6 DEF HeapInv, HeapAt, IsTaken
<1> QED BY <1>3, <1>4, <1>5, Zenon DEF BlockHeapAlloc

LEMMA FreeStep ==
  ASSUME HeapInv, NEW i \in DOMAIN blocks, NEW e, BlockHeapFree(i, e)
  PROVE  HeapInv'
<1>1. HeapAt(blocks, freeElems, taken, out) /\ ~refused /\ ~refused'
  BY DEF HeapInv, BlockHeapFree
<1>2. CASE e \in blocks[i].map
  <2>1. HeapAt([blocks EXCEPT ![i].map = @ \ {e}, ![i].freeElems = @ + 1], freeElems + 1,
                taken \ {<<blocks[i].at, e>>}, out - 1)
    BY <1>1, <1>2, TakeBack
  <2>2. HeapAt(blocks', freeElems', taken', out')
    BY <1>2, <2>1 DEF BlockHeapFree
  <2> QED BY <1>1, <2>2 DEF HeapInv, HeapAt, IsTaken
<1>3. CASE e \notin blocks[i].map
  <2>1. blocks' = blocks /\ freeElems' = freeElems /\ taken' = taken /\ out' = out
    BY <1>3 DEF BlockHeapFree
  <2> QED BY <1>1, <2>1 DEF HeapInv, HeapAt, IsTaken
<1> QED BY <1>2, <1>3

LEMMA CollectStep == HeapInv /\ BlockHeapGarbageCollect => HeapInv'
<1> SUFFICES ASSUME HeapInv, BlockHeapGarbageCollect PROVE HeapInv'
  OBVIOUS
<1> DEFINE c == Kept(blocks, {i \in DOMAIN blocks : blocks[i].map # {}})
<1>1. HeapAt(blocks, freeElems, taken, out) /\ ~refused
  BY DEF HeapInv
<1>2. HeapAt(c, freeElems - (Len(blocks) - Len(c)) * ElemsPerBlock, taken, out)
  BY <1>1, Collected
<1>3. blocks' = c /\ freeElems' = freeElems - (Len(blocks) - Len(blocks')) * ElemsPerBlock
      /\ taken' = taken /\ out' = out /\ refused' = refused
  BY DEF BlockHeapGarbageCollect, Left
<1> HIDE DEF c
<1>4. HeapAt(blocks', freeElems', taken', out')
  BY <1>2, <1>3
<1> QED BY <1>1, <1>3, <1>4 DEF HeapInv, HeapAt, IsTaken

LEMMA HeapStep == HeapInv /\ [HeapNext]_heapVars => HeapInv'
<1> SUFFICES ASSUME HeapInv, [HeapNext]_heapVars PROVE HeapInv'
  OBVIOUS
<1>1. CASE BlockHeapAlloc
  BY <1>1, AllocStep
<1>2. ASSUME NEW i \in DOMAIN blocks, NEW e \in 0..ElemsPerBlock - 1, BlockHeapFree(i, e)
      PROVE  HeapInv'
  BY <1>2, FreeStep
<1>3. CASE BlockHeapGarbageCollect
  BY <1>3, CollectStep
<1>4. CASE UNCHANGED heapVars
  BY <1>4 DEF heapVars, HeapInv, HeapAt, IsTaken
<1> QED BY <1>1, <1>2, <1>3, <1>4 DEF HeapNext

\* The heap of blocks is sound (src/blalloc.c) for every size of blocks and longs:
\* no element is handed out twice, none is lost, none is refused while there is one.
THEOREM HeapStaysSound == HeapSpec => []HeapSound
<1>1. BlockHeapCreate => HeapInv
  BY HeapInit
<1>2. HeapInv /\ [HeapNext]_heapVars => HeapInv'
  BY HeapStep
<1>3. HeapInv => HeapSound
  BY HeapIsSound
<1> QED BY <1>1, <1>2, <1>3, PTL DEF HeapSpec

-----------------------------------------------------------------------------
(* The lists of fluders and fludees.                                       *)

Entry == [fluder : Client, count : Nat \ {0}, first : 0..Old, last : 0..Old]

\* Who is in a list of fluders; in such a list, and in one of fludees, nobody is twice.
Fluders(list) == {list[i].fluder : i \in DOMAIN list}
Once(list) == \A i, j \in DOMAIN list : list[i].fluder = list[j].fluder => i = j
OnceEach(list) == \A i, j \in DOMAIN list : list[i] = list[j] => i = j
Fludees(list) == {list[i] : i \in DOMAIN list}

LEMMA EntryIs ==
  /\ \A e \in Entry : e.fluder \in Client /\ e.count \in Nat \ {0} /\ e.first \in 0..Old /\ e.last \in 0..Old
  /\ \A c \in Client, n \in Nat \ {0}, x, y \in 0..Old :
       [fluder |-> c, count |-> n, first |-> x, last |-> y] \in Entry
BY DEF Entry

\* What stays of a list of fluders without those in Q.
LEMMA KeptFluders ==
  ASSUME NEW list \in Seq(Entry), Once(list), NEW K \in SUBSET DOMAIN list, NEW Q,
         \A i \in DOMAIN list : i \in K <=> list[i].fluder \notin Q
  PROVE  /\ Kept(list, K) \in Seq(Entry) /\ Once(Kept(list, K))
         /\ Fluders(Kept(list, K)) = Fluders(list) \ Q
         /\ \A j \in DOMAIN Kept(list, K) : \E i \in DOMAIN list : Kept(list, K)[j] = list[i]
<1> DEFINE k == Kept(list, K)
<1>1. k \in Seq(Entry) /\ \E g : IsSublist(k, list, K, g)
  BY KeptIs
<1> HIDE DEF k
<1>2a. PICK g : IsSublist(k, list, K, g)
  BY <1>1
<1>2. /\ g \in [DOMAIN k -> DOMAIN list]
      /\ \A j \in DOMAIN k : g[j] \in K /\ k[j] = list[g[j]]
      /\ \A j, l \in DOMAIN k : g[j] = g[l] => j = l
  BY <1>2a DEF IsSublist
<1>2b. \A i \in K : \E j \in DOMAIN k : g[j] = i
  BY <1>2a DEF IsSublist
<1>3. \A j \in DOMAIN k : g[j] \in DOMAIN list
  BY <1>2
<1>4. Once(k)
  BY <1>2, <1>3 DEF Once
<1>5. Fluders(k) = Fluders(list) \ Q
  <2>1. \A j \in DOMAIN k : k[j].fluder \in Fluders(list) \ Q
    BY <1>2, <1>3 DEF Fluders
  <2>2. ASSUME NEW c \in Fluders(list) \ Q PROVE c \in Fluders(k)
    <3>1. PICK i \in DOMAIN list : list[i].fluder = c
      BY DEF Fluders
    <3>2. i \in K
      BY <3>1
    <3>3. PICK j \in DOMAIN k : g[j] = i
      BY <1>2b, <3>2
    <3>4. k[j] = list[i]
      BY <1>2, <3>3
    <3> QED BY <3>1, <3>3, <3>4 DEF Fluders
  <2>3. Fluders(k) \subseteq Fluders(list) \ Q
    BY <2>1 DEF Fluders
  <2> QED BY <2>2, <2>3
<1>6. \A j \in DOMAIN k : \E i \in DOMAIN list : k[j] = list[i]
  BY <1>2, <1>3
<1> QED BY <1>1, <1>4, <1>5, <1>6 DEF k

LEMMA WithoutFluder ==
  ASSUME NEW list \in Seq(Entry), Once(list), NEW c
  PROVE  LET r == remove_fluder_reference(list, c) IN
         /\ r \in Seq(Entry) /\ Once(r) /\ Fluders(r) = Fluders(list) \ {c}
         /\ \A j \in DOMAIN r : \E i \in DOMAIN list : r[j] = list[i]
<1> DEFINE K == {i \in DOMAIN list : list[i].fluder # c}
<1>1. K \in SUBSET DOMAIN list /\ \A i \in DOMAIN list : i \in K <=> list[i].fluder \notin {c}
  OBVIOUS
<1>2. remove_fluder_reference(list, c) = Kept(list, K)
  BY DEF remove_fluder_reference
<1> HIDE DEF K
<1>3. LET r == Kept(list, K) IN
         /\ r \in Seq(Entry) /\ Once(r) /\ Fluders(r) = Fluders(list) \ {c}
         /\ \A j \in DOMAIN r : \E i \in DOMAIN list : r[j] = list[i]
  BY <1>1, KeptFluders
<1> QED BY <1>2, <1>3

LEMMA WithoutFludee ==
  ASSUME NEW list \in Seq(Target), OnceEach(list), NEW t
  PROVE  LET r == remove_fludee_reference(list, t) IN
         r \in Seq(Target) /\ OnceEach(r) /\ Fludees(r) = Fludees(list) \ {t}
<1> DEFINE K == {i \in DOMAIN list : list[i] # t}
           k == Kept(list, K)
<1>0. K \in SUBSET DOMAIN list /\ \A i \in DOMAIN list : i \in K <=> list[i] # t
  OBVIOUS
<1> HIDE DEF K
<1>1. k \in Seq(Target) /\ \E g : IsSublist(k, list, K, g)
  BY <1>0, KeptIs
<1> HIDE DEF k
<1>2a. PICK g : IsSublist(k, list, K, g)
  BY <1>1
<1>2. /\ g \in [DOMAIN k -> DOMAIN list]
      /\ \A j \in DOMAIN k : g[j] \in K /\ k[j] = list[g[j]]
      /\ \A j, l \in DOMAIN k : g[j] = g[l] => j = l
  BY <1>2a DEF IsSublist
<1>2b. \A i \in K : \E j \in DOMAIN k : g[j] = i
  BY <1>2a DEF IsSublist
<1>3. \A j \in DOMAIN k : g[j] \in DOMAIN list
  BY <1>2
<1>4. OnceEach(k)
  BY <1>2, <1>3 DEF OnceEach
<1>5. Fludees(k) = Fludees(list) \ {t}
  <2>1. \A j \in DOMAIN k : k[j] \in Fludees(list) \ {t}
    BY <1>0, <1>2, <1>3 DEF Fludees
  <2>2. ASSUME NEW c \in Fludees(list) \ {t} PROVE c \in Fludees(k)
    <3>1. PICK i \in DOMAIN list : list[i] = c
      BY DEF Fludees
    <3>2. i \in K
      BY <1>0, <3>1
    <3>3. PICK j \in DOMAIN k : g[j] = i
      BY <1>2b, <3>2
    <3>4. k[j] = list[i]
      BY <1>2, <3>3
    <3> QED BY <3>1, <3>3, <3>4 DEF Fludees
  <2>3. Fludees(k) \subseteq Fludees(list) \ {t}
    BY <2>1 DEF Fludees
  <2> QED BY <2>2, <2>3
<1>6. remove_fludee_reference(list, t) = k
  BY DEF remove_fludee_reference, k, K
<1> QED BY <1>1, <1>4, <1>5, <1>6

-----------------------------------------------------------------------------
\* The two lists of a fluder and its target name each other, but for a stale one.
ListsAt(fs, es, h, st) ==
  /\ fs \in [Target -> Seq(Entry)] /\ es \in [Client -> Seq(Target)]
  /\ h \in SUBSET Client /\ st \in SUBSET Chan
  /\ \A t \in Target : Once(fs[t])
  /\ \A c \in Client : OnceEach(es[c])
  /\ \A t \in Target, c \in Client :
       t \in Fludees(es[c]) <=> t \notin st /\ c \in Fluders(fs[t])
  /\ \A t \in Target, c \in Client :
       t \in Fludees(es[c]) => c \in h /\ (t \in Client => t \in h)

ListsInv == ListsAt(fluders, fludees, here, stale)

\* Who of h was heard within FLUDTIME seconds.
Recently(h, age) == {c \in h : age[c] <= FLUDTIME}

\* The lists keep everyone who was heard lately, with the time; when they are too
\* many the last one was blocked.
HeardAt(fs, b, h, st, hd) ==
  /\ b \in [Target -> 0..FLUDBLOCK] /\ hd \in [Target -> [Client -> 0..Old]]
  /\ \A t \in Target \ st : \A i \in DOMAIN fs[t] : fs[t][i].last = hd[t][fs[t][i].fluder]
  /\ \A t \in Target \ st, c \in Client : hd[t][c] <= FLUDTIME => c \in Fluders(fs[t])
  /\ \A t \in Target \ st :
       Cardinality(Recently(h, hd[t])) > FLUDNUM => \A c \in Recently(h, hd[t]) : b[t] <= hd[t][c]

FludInv == ListsInv /\ HeardAt(fluders, blocked, here, stale, heard)

\* A list has someone once, who is in it and is not in it twice.
LEMMA CountOne ==
  ASSUME NEW D, NEW P, P \in SUBSET D, IsFiniteSet(D), \A i, j \in P : i = j
  PROVE  Cardinality(P) = IF P = {} THEN 0 ELSE 1
<1>1. CASE P = {}
  BY <1>1, FS_EmptySet
<1>2. CASE P # {}
  <2>1. PICK x \in P : TRUE
    BY <1>2
  <2>2. P = {x}
    BY <2>1
  <2> QED BY <1>2, <2>2, FS_Singleton
<1> QED BY <1>1, <1>2

LEMMA ListsInvAgree == ListsInv => FludListsAgree
<1> SUFFICES ASSUME ListsInv, NEW t \in Target \ stale, NEW c \in Client
             PROVE  LET listed == Cardinality({i \in DOMAIN fluders[t] : fluders[t][i].fluder = c}) IN
                    /\ listed = Times(fludees[c], t) /\ listed <= 1
                    /\ listed = 1 => c \in here /\ (t \in Client => t \in here)
  BY DEF FludListsAgree
<1> DEFINE P == {i \in DOMAIN fluders[t] : fluders[t][i].fluder = c}
           Q == {i \in DOMAIN fludees[c] : fludees[c][i] = t}
<1>1. fluders[t] \in Seq(Entry) /\ fludees[c] \in Seq(Target)
  BY DEF ListsInv, ListsAt
<1>2. IsFiniteSet(DOMAIN fluders[t]) /\ IsFiniteSet(DOMAIN fludees[c])
  <2>1. \A n \in Nat : IsFiniteSet(1..n)
    BY FS_Interval
  <2>2. DOMAIN fluders[t] = 1..Len(fluders[t]) /\ DOMAIN fludees[c] = 1..Len(fludees[c])
        /\ Len(fluders[t]) \in Nat /\ Len(fludees[c]) \in Nat
    BY <1>1
  <2> QED BY <2>1, <2>2
<1>3. Cardinality(P) = IF P = {} THEN 0 ELSE 1
  <2>1. P \in SUBSET DOMAIN fluders[t] /\ \A i, j \in P : i = j
    BY DEF ListsInv, ListsAt, Once
  <2> HIDE DEF P
  <2> QED BY <1>2, <2>1, CountOne
<1>4. Cardinality(Q) = IF Q = {} THEN 0 ELSE 1
  <2>1. Q \in SUBSET DOMAIN fludees[c] /\ \A i, j \in Q : i = j
    BY DEF ListsInv, ListsAt, OnceEach
  <2> HIDE DEF Q
  <2> QED BY <1>2, <2>1, CountOne
<1>5. (P = {} <=> c \notin Fluders(fluders[t])) /\ (Q = {} <=> t \notin Fludees(fludees[c]))
  BY DEF Fluders, Fludees
<1>6. P = {} <=> Q = {}
  BY <1>5 DEF ListsInv, ListsAt
<1>7. P # {} => c \in here /\ (t \in Client => t \in here)
  BY <1>5, <1>6 DEF ListsInv, ListsAt
<1>8. Times(fludees[c], t) = Cardinality(Q)
  BY DEF Times
<1> HIDE DEF P, Q
<1>9. /\ Cardinality(P) = Cardinality(Q) /\ Cardinality(P) <= 1
      /\ Cardinality(P) = 1 => P # {}
  BY <1>3, <1>4, <1>6
<1> QED BY <1>7, <1>8, <1>9 DEF P

-----------------------------------------------------------------------------
(* The steps.                                                              *)

\* An age that is a second greater, up to its limit.
LEMMA OlderIs ==
  /\ Old \in Nat /\ Old = FLUDTIME + 1 /\ FLUDTIME \in Nat
  /\ \A x \in Nat, m \in Nat : Older(x, m) = IF x + 1 <= m THEN x + 1 ELSE m
  /\ \A m \in Nat : \A x \in 0..m : Older(x, m) \in 0..m
<1>1. Old \in Nat /\ Old = FLUDTIME + 1 /\ FLUDTIME \in Nat
  BY FludSettings DEF Old
<1>2. \A x \in Nat, m \in Nat : Older(x, m) = IF x + 1 <= m THEN x + 1 ELSE m
  <2> TAKE x \in Nat, m \in Nat
  <2>1. x + 1 \in Nat
    OBVIOUS
  <2>2. Min({x + 1, m}) = IF x + 1 <= m THEN x + 1 ELSE m
    BY <2>1, MinTwo
  <2> QED BY <2>2 DEF Older
<1>3. \A m \in Nat : \A x \in 0..m : Older(x, m) \in 0..m
  BY <1>2
<1> QED BY <1>1, <1>2, <1>3

\* A list of fluders a second later.
Aged(list) == [i \in DOMAIN list |-> [list[i] EXCEPT !.first = Older(@, Old), !.last = Older(@, Old)]]
LEMMA AgedIs ==
  ASSUME NEW list \in Seq(Entry)
  PROVE  /\ Aged(list) \in Seq(Entry) /\ Fluders(Aged(list)) = Fluders(list)
         /\ Once(list) => Once(Aged(list))
         /\ DOMAIN Aged(list) = DOMAIN list
         /\ \A i \in DOMAIN list : /\ Aged(list)[i].fluder = list[i].fluder
                                   /\ Aged(list)[i].last = Older(list[i].last, Old)
<1>1. Len(list) \in Nat /\ DOMAIN list = 1..Len(list) /\ \A i \in DOMAIN list : list[i] \in Entry
  OBVIOUS
<1>2. ASSUME NEW e \in Entry
      PROVE  LET r == [e EXCEPT !.first = Older(@, Old), !.last = Older(@, Old)] IN
             r \in Entry /\ r.fluder = e.fluder /\ r.last = Older(e.last, Old)
  <2>1. Older(e.first, Old) \in 0..Old /\ Older(e.last, Old) \in 0..Old
    BY EntryIs, OlderIs
  <2> QED BY <2>1 DEF Entry
<1>3. \A i \in DOMAIN list : /\ Aged(list)[i] \in Entry /\ Aged(list)[i].fluder = list[i].fluder
                             /\ Aged(list)[i].last = Older(list[i].last, Old)
  BY <1>1, <1>2 DEF Aged
<1>4. DOMAIN Aged(list) = DOMAIN list /\ Aged(list) \in Seq(Entry)
  <2>1. Aged(list) = [i \in 1..Len(list) |-> Aged(list)[i]]
    BY <1>1 DEF Aged
  <2> QED BY <1>1, <1>3, <2>1
<1>5. Fluders(Aged(list)) = Fluders(list)
  BY <1>3, <1>4 DEF Fluders
<1>6. Once(list) => Once(Aged(list))
  BY <1>3, <1>4 DEF Once
<1> QED BY <1>3, <1>4, <1>5, <1>6

\* The list after a CTCP of c.
LEMMA NotedIs ==
  ASSUME NEW list \in Seq(Entry), Once(list), NEW c \in Client
  PROVE  LET r == Noted(list, c) IN
         /\ r \in Seq(Entry) /\ Once(r) /\ Fluders(r) = Fluders(list) \cup {c}
         /\ \A j \in DOMAIN r : r[j].fluder = c => r[j].last = 0
         /\ \A j \in DOMAIN r : r[j].fluder # c => \E i \in DOMAIN list : r[j] = list[i]
<1> DEFINE r == Noted(list, c)
<1>1. Len(list) \in Nat /\ DOMAIN list = 1..Len(list) /\ \A i \in DOMAIN list : list[i] \in Entry
  OBVIOUS
<1>2. CASE \E i \in DOMAIN list : list[i].fluder = c
  <2>1. ASSUME NEW e \in Entry
        PROVE  LET x == [e EXCEPT !.last = 0, !.count = Min({@ + 1, Many})] IN
               x \in Entry /\ x.fluder = e.fluder /\ x.last = 0
    <3>1. e.count + 1 \in Nat \ {0} /\ Many \in Nat \ {0}
      BY EntryIs, FludSettings DEF Many
    <3>2. Min({e.count + 1, Many}) \in Nat \ {0}
      BY <3>1, MinTwo
    <3>3. 0 \in 0..Old
      BY OlderIs
    <3> QED BY <3>2, <3>3 DEF Entry
  <2>2. r = [i \in DOMAIN list |-> IF list[i].fluder = c
               THEN [list[i] EXCEPT !.last = 0, !.count = Min({@ + 1, Many})] ELSE list[i]]
    BY <1>2 DEF Noted
  <2>3. DOMAIN r = DOMAIN list
    BY <2>2
  <2>4. \A i \in DOMAIN list : /\ r[i] \in Entry /\ r[i].fluder = list[i].fluder
                               /\ (list[i].fluder = c => r[i].last = 0)
                               /\ (list[i].fluder # c => r[i] = list[i])
    <3> TAKE i \in DOMAIN list
    <3>1. list[i] \in Entry
      BY <1>1
    <3>2. CASE list[i].fluder = c
      <4>1. r[i] = [list[i] EXCEPT !.last = 0, !.count = Min({@ + 1, Many})]
        BY <2>2, <3>2
      <4> HIDE DEF r
      <4> QED BY <2>1, <3>1, <3>2, <4>1
    <3>3. CASE list[i].fluder # c
      BY <2>2, <3>1, <3>3
    <3> QED BY <3>2, <3>3
  <2>5. r \in Seq(Entry)
    <3>1. r = [i \in 1..Len(list) |-> r[i]]
      BY <1>1, <2>2
    <3> HIDE DEF r
    <3> QED BY <1>1, <2>4, <3>1
  <2>6. Fluders(r) = Fluders(list) \cup {c}
    <3> HIDE DEF r
    <3>1. Fluders(r) = Fluders(list)
      BY <2>3, <2>4 DEF Fluders
    <3>2. c \in Fluders(list)
      BY <1>2 DEF Fluders
    <3> QED BY <3>1, <3>2
  <2> HIDE DEF r
  <2>7. Once(r)
    BY <2>3, <2>4 DEF Once
  <2> QED BY <2>3, <2>4, <2>5, <2>6, <2>7 DEF r
<1>3. CASE ~\E i \in DOMAIN list : list[i].fluder = c
  <2> DEFINE e == [fluder |-> c, count |-> 1, first |-> 0, last |-> 0]
  <2>1. e \in Entry /\ e.fluder = c /\ e.last = 0
    <3>1. 0 \in 0..Old /\ 1 \in Nat \ {0}
      BY OlderIs
    <3> QED BY <3>1, EntryIs
  <2>2. r = <<e>> \o list
    BY <1>3 DEF Noted
  <2> HIDE DEF e
  <2>3. r \in Seq(Entry) /\ DOMAIN r = 1..(Len(list) + 1) /\ r[1] = e
        /\ \A j \in DOMAIN r : j # 1 => j - 1 \in DOMAIN list /\ r[j] = list[j - 1]
    <3>1. <<e>> \in Seq(Entry) /\ Len(<<e>>) = 1 /\ <<e>>[1] = e
      BY <2>1
    <3> DEFINE o == <<e>>
    <3> HIDE DEF o
    <3>2. o \in Seq(Entry) /\ Len(o) = 1 /\ o[1] = e
      BY <3>1 DEF o
    <3>3. r = o \o list
      BY <2>2 DEF o
    <3> HIDE DEF r
    <3>4. /\ r \in Seq(Entry) /\ Len(r) = Len(o) + Len(list)
          /\ \A j \in 1..Len(o) + Len(list) : r[j] = IF j <= Len(o) THEN o[j] ELSE list[j - Len(o)]
      BY <3>2, <3>3, ConcatProperties
    <3>5. \A j \in 1..(Len(list) + 1) : r[j] = IF j <= 1 THEN o[j] ELSE list[j - 1]
      BY <1>1, <3>2, <3>4
    <3> QED BY <1>1, <3>2, <3>4, <3>5
  <2>4. \A i \in DOMAIN list : i + 1 \in DOMAIN r /\ i + 1 # 1 /\ (i + 1) - 1 = i
    BY <1>1, <2>3
  <2> HIDE DEF r
  <2>5. Once(r)
    <3> SUFFICES ASSUME NEW i \in DOMAIN r, NEW j \in DOMAIN r, r[i].fluder = r[j].fluder PROVE i = j
      BY DEF Once
    <3>1. CASE i = 1 /\ j # 1
      BY <1>3, <2>1, <2>3, <3>1
    <3>2. CASE i # 1 /\ j = 1
      BY <1>3, <2>1, <2>3, <3>2
    <3>3. CASE i # 1 /\ j # 1
      <4>1. i - 1 \in DOMAIN list /\ j - 1 \in DOMAIN list /\ list[i - 1].fluder = list[j - 1].fluder
        BY <2>3, <3>3
      <4>2. i - 1 = j - 1
        BY <4>1 DEF Once
      <4> QED BY <2>3, <4>2
    <3> QED BY <3>1, <3>2, <3>3
  <2>6. Fluders(r) = Fluders(list) \cup {c}
    <3>1. ASSUME NEW j \in DOMAIN r PROVE r[j].fluder \in Fluders(list) \cup {c}
      BY <2>1, <2>3 DEF Fluders
    <3>2. ASSUME NEW i \in DOMAIN list PROVE \E j \in DOMAIN r : r[j].fluder = list[i].fluder
      <4>1. r[i + 1] = list[i] /\ i + 1 \in DOMAIN r
        BY <2>3, <2>4
      <4> QED BY <4>1
    <3>3. 1 \in DOMAIN r
      BY <1>1, <2>3
    <3>4. \E j \in DOMAIN r : r[j].fluder = c
      BY <2>1, <2>3, <3>3
    <3> QED BY <3>1, <3>2, <3>4 DEF Fluders
  <2>7. \A j \in DOMAIN r : r[j].fluder = c => r[j].last = 0
    BY <1>3, <2>1, <2>3
  <2>8. \A j \in DOMAIN r : r[j].fluder # c => \E i \in DOMAIN list : r[j] = list[i]
    BY <2>1, <2>3
  <2> QED BY <2>3, <2>5, <2>6, <2>7, <2>8 DEF r
<1> QED BY <1>2, <1>3

\* A list of targets with t in front.
LEMMA PrependIs ==
  ASSUME NEW list \in Seq(Target), OnceEach(list), NEW t \in Target \ Fludees(list)
  PROVE  LET r == <<t>> \o list IN
         r \in Seq(Target) /\ OnceEach(r) /\ Fludees(r) = Fludees(list) \cup {t}
<1> DEFINE o == <<t>>
           r == o \o list
<1>1. o \in Seq(Target) /\ Len(o) = 1 /\ o[1] = t
  OBVIOUS
<1>2. Len(list) \in Nat /\ DOMAIN list = 1..Len(list)
  OBVIOUS
<1> HIDE DEF o
<1>3. /\ r \in Seq(Target) /\ Len(r) = Len(o) + Len(list)
      /\ \A j \in 1..Len(o) + Len(list) : r[j] = IF j <= Len(o) THEN o[j] ELSE list[j - Len(o)]
  BY <1>1, ConcatProperties
<1> HIDE DEF r
<1>4. DOMAIN r = 1..(Len(list) + 1) /\ r[1] = t
      /\ \A j \in DOMAIN r : j # 1 => j - 1 \in DOMAIN list /\ r[j] = list[j - 1]
  BY <1>1, <1>2, <1>3
<1>5. \A i \in DOMAIN list : i + 1 \in DOMAIN r /\ r[i + 1] = list[i]
  <2> TAKE i \in DOMAIN list
  <2>1. i + 1 \in DOMAIN r /\ i + 1 # 1 /\ (i + 1) - 1 = i
    BY <1>2, <1>4
  <2> QED BY <1>4, <2>1
<1>6. OnceEach(r)
  <2> SUFFICES ASSUME NEW i \in DOMAIN r, NEW j \in DOMAIN r, r[i] = r[j] PROVE i = j
    BY DEF OnceEach
  <2>0. \A k \in DOMAIN list : list[k] # t
    BY DEF Fludees
  <2>1. CASE i = 1 /\ j # 1
    BY <1>4, <2>0, <2>1
  <2>2. CASE i # 1 /\ j = 1
    BY <1>4, <2>0, <2>2
  <2>3. CASE i # 1 /\ j # 1
    <3>1. i - 1 \in DOMAIN list /\ j - 1 \in DOMAIN list /\ list[i - 1] = list[j - 1]
      BY <1>4, <2>3
    <3>2. i - 1 = j - 1
      BY <3>1 DEF OnceEach
    <3> QED BY <1>4, <3>2
  <2> QED BY <2>1, <2>2, <2>3
<1>7. Fludees(r) = Fludees(list) \cup {t}
  <2>1. \A j \in DOMAIN r : r[j] \in Fludees(list) \cup {t}
    BY <1>4 DEF Fludees
  <2>2. \A i \in DOMAIN list : \E j \in DOMAIN r : r[j] = list[i]
    BY <1>5
  <2>3. 1 \in DOMAIN r
    BY <1>2, <1>4
  <2> QED BY <1>4, <2>1, <2>2, <2>3 DEF Fludees
<1> QED BY <1>3, <1>6, <1>7 DEF r, o

\* Those in Q forget the target t.
Without(es, Q, t) == [c \in Client |-> IF c \in Q THEN remove_fludee_reference(es[c], t) ELSE es[c]]
AreWithout(r, es, Q, t) ==
  /\ r \in [Client -> Seq(Target)]
  /\ \A c \in Client : /\ OnceEach(r[c])
                       /\ Fludees(r[c]) = IF c \in Q THEN Fludees(es[c]) \ {t} ELSE Fludees(es[c])
LEMMA ForgetTarget ==
  ASSUME NEW es \in [Client -> Seq(Target)], \A c \in Client : OnceEach(es[c]), NEW Q, NEW t
  PROVE  AreWithout(Without(es, Q, t), es, Q, t)
<1> DEFINE g(c) == remove_fludee_reference(es[c], t)
<1>1. \A c \in Client : g(c) \in Seq(Target) /\ OnceEach(g(c)) /\ Fludees(g(c)) = Fludees(es[c]) \ {t}
  BY WithoutFludee
<1> HIDE DEF g
<1>2. LET r == [c \in Client |-> IF c \in Q THEN g(c) ELSE es[c]] IN
         /\ r \in [Client -> Seq(Target)]
         /\ \A c \in Client : /\ OnceEach(r[c])
                              /\ Fludees(r[c]) = IF c \in Q THEN Fludees(es[c]) \ {t} ELSE Fludees(es[c])
  BY <1>1
<1> QED BY <1>2 DEF g, Without, AreWithout

\* Those in T forget the fluder c.
Forgotten(fs, T, c) == [t \in Target |-> IF t \in T THEN remove_fluder_reference(fs[t], c) ELSE fs[t]]
HaveForgotten(r, fs, T, c) ==
  /\ r \in [Target -> Seq(Entry)]
  /\ \A t \in Target :
       /\ Once(r[t])
       /\ Fluders(r[t]) = IF t \in T THEN Fluders(fs[t]) \ {c} ELSE Fluders(fs[t])
       /\ \A j \in DOMAIN r[t] : \E i \in DOMAIN fs[t] : r[t][j] = fs[t][i]
LEMMA ForgetFluder ==
  ASSUME NEW fs \in [Target -> Seq(Entry)], \A t \in Target : Once(fs[t]), NEW T, NEW c
  PROVE  HaveForgotten(Forgotten(fs, T, c), fs, T, c)
<1> DEFINE g(t) == remove_fluder_reference(fs[t], c)
<1>1. \A t \in Target : /\ g(t) \in Seq(Entry) /\ Once(g(t)) /\ Fluders(g(t)) = Fluders(fs[t]) \ {c}
                        /\ \A j \in DOMAIN g(t) : \E i \in DOMAIN fs[t] : g(t)[j] = fs[t][i]
  BY WithoutFluder
<1> HIDE DEF g
<1>2. LET r == [t \in Target |-> IF t \in T THEN g(t) ELSE fs[t]] IN
         /\ r \in [Target -> Seq(Entry)]
         /\ \A t \in Target :
              /\ Once(r[t])
              /\ Fluders(r[t]) = IF t \in T THEN Fluders(fs[t]) \ {c} ELSE Fluders(fs[t])
              /\ \A j \in DOMAIN r[t] : \E i \in DOMAIN fs[t] : r[t][j] = fs[t][i]
  BY <1>1
<1> QED BY <1>2 DEF g, Forgotten, HaveForgotten

\* A list counts for as many messages as it has fluders, at least.
LEMMA CountedIs ==
  ASSUME NEW list \in Seq(Entry)
  PROVE  Counted(list) \in Int /\ IsFiniteSet(Fluders(list)) /\ Cardinality(Fluders(list)) <= Counted(list)
<1> DEFINE D == DOMAIN list
           u == [i \in D |-> Weight(list[i])]
<1>1. Len(list) \in Nat /\ D = 1..Len(list) /\ \A i \in D : list[i] \in Entry
  OBVIOUS
<1>2. IsFiniteSet(D)
  BY <1>1, FS_Interval
<1>3. \A i \in D : Weight(list[i]) \in Nat \ {0}
  BY <1>1, EntryIs DEF Weight
<1>4. u \in [D -> Nat \ {0}]
  BY <1>3
<1>5. Counted(list) = SumFunction(u)
  BY DEF Counted
<1> HIDE DEF u
<1>6. Cardinality(D) <= SumFunction(u) /\ SumFunction(u) \in Int
  BY <1>2, <1>4, SumAtLeast
<1>7. IsFiniteSet(Fluders(list)) /\ Cardinality(Fluders(list)) <= Cardinality(D)
  <2> DEFINE g == [i \in D |-> list[i].fluder]
  <2>1. g \in Surjection(D, Fluders(list))
    <3>1. g \in [D -> Fluders(list)] /\ \A x \in Fluders(list) : \E i \in D : g[i] = x
      BY DEF Fluders
    <3> QED BY <3>1 DEF Surjection
  <2> HIDE DEF g, D
  <2> QED BY <1>2, <2>1, FS_Surjection
<1>8. Cardinality(D) \in Nat /\ Cardinality(Fluders(list)) \in Nat
  BY <1>2, <1>7, FS_CardinalityType
<1> HIDE DEF D
<1> QED BY <1>5, <1>6, <1>7, <1>8

\* Of clients that are here the numbers are those of finite sets.
LEMMA FewerHeard ==
  ASSUME NEW h \in SUBSET Client, NEW T \in SUBSET h
  PROVE  IsFiniteSet(T) /\ Cardinality(T) \in Nat /\ Cardinality(T) <= Cardinality(h) /\ Cardinality(h) \in Nat
<1>1. IsFiniteSet(h)
  BY FludSettings, FS_Subset
<1> QED BY <1>1, FS_Subset, FS_CardinalityType

LEMMA FewerRecent ==
  ASSUME NEW h \in SUBSET Client, NEW x, NEW S, NEW T \in SUBSET S, S = Recently(h, x)
  PROVE  Cardinality(T) > FLUDNUM => Cardinality(S) > FLUDNUM
<1>1. IsFiniteSet(S)
  BY FludSettings, FS_Subset DEF Recently
<1>2. Cardinality(T) <= Cardinality(S) /\ Cardinality(T) \in Nat /\ Cardinality(S) \in Nat
  BY <1>1, FS_Subset, FS_CardinalityType
<1> QED BY <1>2, FludSettings

\* What HeardAt says of one target.
OneHeard(list, b, h, age) ==
  /\ b \in 0..FLUDBLOCK /\ age \in [Client -> 0..Old]
  /\ \A i \in DOMAIN list : list[i].last = age[list[i].fluder]
  /\ \A c \in Client : age[c] <= FLUDTIME => c \in Fluders(list)
  /\ Cardinality(Recently(h, age)) > FLUDNUM => \A c \in Recently(h, age) : b <= age[c]

LEMMA HeardEach ==
  ASSUME NEW fs, NEW b, NEW h, NEW st, NEW hd
  PROVE  HeardAt(fs, b, h, st, hd) <=>
           /\ b \in [Target -> 0..FLUDBLOCK] /\ hd \in [Target -> [Client -> 0..Old]]
           /\ \A t \in Target \ st : OneHeard(fs[t], b[t], h, hd[t])
<1>1. ASSUME b \in [Target -> 0..FLUDBLOCK], hd \in [Target -> [Client -> 0..Old]]
      PROVE  \A t \in Target : b[t] \in 0..FLUDBLOCK /\ hd[t] \in [Client -> 0..Old]
  BY <1>1
<1> QED BY <1>1 DEF HeardAt, OneHeard

LEMMA SecondHeard ==
  ASSUME NEW list \in Seq(Entry), NEW b, NEW h \in SUBSET Client, NEW age, OneHeard(list, b, h, age)
  PROVE  OneHeard(Aged(list), Older(b, FLUDBLOCK), h, [c \in Client |-> Older(age[c], Old)])
<1> DEFINE older == [c \in Client |-> Older(age[c], Old)]
<1>1. /\ b \in 0..FLUDBLOCK /\ FLUDBLOCK \in Nat
      /\ age \in [Client -> 0..Old] /\ \A c \in Client : age[c] \in 0..Old
  BY FludSettings DEF OneHeard
<1>2. Older(b, FLUDBLOCK) \in 0..FLUDBLOCK
  BY <1>1, OlderIs
<1>3. \A c \in Client : older[c] = Older(age[c], Old) /\ older[c] \in 0..Old
  BY <1>1, OlderIs
<1>4. older \in [Client -> 0..Old]
  BY <1>3
<1> HIDE DEF older
<1>5. \A c \in Client : older[c] <= FLUDTIME => age[c] <= FLUDTIME /\ older[c] = age[c] + 1
  <2> TAKE c \in Client
  <2>0. age[c] \in Nat /\ Old \in Nat /\ older[c] = Older(age[c], Old)
    BY <1>1, <1>3, OlderIs
  <2>1. age[c] \in Nat /\ older[c] = IF age[c] + 1 <= Old THEN age[c] + 1 ELSE Old
    <3>1. \A x \in Nat, m \in Nat : Older(x, m) = IF x + 1 <= m THEN x + 1 ELSE m
      BY OlderIs
    <3> QED BY <2>0, <3>1
  <2>2. Old = FLUDTIME + 1 /\ FLUDTIME \in Nat
    BY OlderIs
  <2> QED BY <2>1, <2>2
<1>6. \A i \in DOMAIN Aged(list) : Aged(list)[i].last = older[Aged(list)[i].fluder]
  <2> TAKE i \in DOMAIN Aged(list)
  <2>1. i \in DOMAIN list /\ list[i] \in Entry
    BY AgedIs
  <2>2. list[i].fluder \in Client /\ list[i].last = age[list[i].fluder]
    BY <2>1, EntryIs DEF OneHeard
  <2> QED BY <1>3, <2>1, <2>2, AgedIs
<1>7. \A c \in Client : older[c] <= FLUDTIME => c \in Fluders(Aged(list))
  BY <1>5, AgedIs DEF OneHeard
<1>8. ASSUME Cardinality(Recently(h, older)) > FLUDNUM, NEW c \in Recently(h, older)
      PROVE  Older(b, FLUDBLOCK) <= older[c]
  <2>1. Recently(h, older) \in SUBSET Recently(h, age)
    BY <1>5 DEF Recently
  <2>2. Cardinality(Recently(h, age)) > FLUDNUM
    BY <1>8, <2>1, FewerRecent
  <2>3. b <= age[c]
    BY <2>1, <2>2 DEF OneHeard
  <2>4. c \in Client /\ older[c] <= FLUDTIME
    BY DEF Recently
  <2>5. older[c] = age[c] + 1 /\ age[c] \in Nat
    BY <1>1, <1>5, <2>4
  <2>6. Older(b, FLUDBLOCK) <= b + 1
    BY <1>1, OlderIs
  <2> QED BY <1>1, <1>2, <2>3, <2>5, <2>6
<1> QED BY <1>2, <1>4, <1>6, <1>7, <1>8 DEF OneHeard, older

LEMMA SecondStep ==
  ASSUME FludInv, Second
  PROVE  ListsAt(fluders', fludees', here', stale') /\ HeardAt(fluders', blocked', here', stale', heard')
<1> DEFINE fs == fluders'
<1>1. /\ fluders \in [Target -> Seq(Entry)] /\ fludees \in [Client -> Seq(Target)]
      /\ here \in SUBSET Client /\ stale \in SUBSET Chan
      /\ \A t \in Target : Once(fluders[t])
      /\ \A t \in Target : fluders[t] \in Seq(Entry)
  BY DEF FludInv, ListsInv, ListsAt
<1>2. fs = [t \in Target |-> Aged(fluders[t])]
  BY DEF Second, Aged
<1>3. fludees' = fludees /\ here' = here /\ stale' = stale
  BY DEF Second
<1> HIDE DEF fs
<1>4. \A t \in Target : fs[t] = Aged(fluders[t]) /\ fs[t] \in Seq(Entry) /\ Once(fs[t]) /\ Fluders(fs[t]) = Fluders(fluders[t])
  BY <1>1, <1>2, AgedIs
<1>5. ListsAt(fs, fludees, here, stale)
  BY <1>2, <1>4 DEF FludInv, ListsInv, ListsAt
<1>6. HeardAt(fs, blocked', here, stale, heard')
  <2>1. /\ blocked \in [Target -> 0..FLUDBLOCK] /\ heard \in [Target -> [Client -> 0..Old]]
        /\ \A t \in Target \ stale : OneHeard(fluders[t], blocked[t], here, heard[t])
    BY HeardEach DEF FludInv
  <2>2. blocked' = [t \in Target |-> Older(blocked[t], FLUDBLOCK)]
        /\ heard' = [t \in Target |-> [c \in Client |-> Older(heard[t][c], Old)]]
    BY DEF Second
  <2>3. blocked' \in [Target -> 0..FLUDBLOCK]
    <3>1. \A t \in Target : Older(blocked[t], FLUDBLOCK) \in 0..FLUDBLOCK
      BY <2>1, OlderIs, FludSettings
    <3> QED BY <2>2, <3>1
  <2>4. heard' \in [Target -> [Client -> 0..Old]]
    <3>1. \A t \in Target : \A c \in Client : Older(heard[t][c], Old) \in 0..Old
      BY <2>1, OlderIs
    <3> QED BY <2>2, <3>1
  <2>5. \A t \in Target \ stale : OneHeard(fs[t], blocked'[t], here, heard'[t])
    <3> TAKE t \in Target \ stale
    <3>1. OneHeard(Aged(fluders[t]), Older(blocked[t], FLUDBLOCK), here, [c \in Client |-> Older(heard[t][c], Old)])
      <4>1. fluders[t] \in Seq(Entry) /\ here \in SUBSET Client /\ OneHeard(fluders[t], blocked[t], here, heard[t])
        BY <1>1, <2>1
      <4>2. \A l \in Seq(Entry), k \in SUBSET Client : \A x, y : OneHeard(l, x, k, y) =>
              OneHeard(Aged(l), Older(x, FLUDBLOCK), k, [c \in Client |-> Older(y[c], Old)])
        BY SecondHeard
      <4> QED BY <4>1, <4>2
    <3> QED BY <1>4, <2>2, <3>1
  <2> QED BY <2>3, <2>4, <2>5, HeardEach
<1> QED BY <1>3, <1>5, <1>6 DEF fs

LEMMA ReturnsStep ==
  ASSUME FludInv, NEW c \in Client, Returns(c)
  PROVE  ListsAt(fluders', fludees', here', stale') /\ HeardAt(fluders', blocked', here', stale', heard')
<1>1. fluders' = fluders /\ fludees' = fludees /\ blocked' = blocked /\ stale' = stale /\ heard' = heard
      /\ here' = here \cup {c} /\ c \notin here
  BY DEF Returns
<1>2. ListsAt(fluders, fludees, here \cup {c}, stale)
  BY DEF FludInv, ListsInv, ListsAt
<1>3. \A t \in Target \ stale : Recently(here \cup {c}, heard[t]) = Recently(here, heard[t])
  <2> TAKE t \in Target \ stale
  <2>1. ~(heard[t][c] <= FLUDTIME)
    <3>1. heard[t][c] <= FLUDTIME => c \in Fluders(fluders[t])
      BY DEF FludInv, HeardAt
    <3>2. c \notin Fluders(fluders[t])
      BY <1>1 DEF FludInv, ListsInv, ListsAt
    <3> QED BY <3>1, <3>2
  <2> QED BY <2>1 DEF Recently
<1>4. HeardAt(fluders, blocked, here \cup {c}, stale, heard)
  BY <1>3 DEF FludInv, HeardAt
<1> QED BY <1>1, <1>2, <1>4

\* What a target hears is nothing new when some are no longer counted.
LEMMA LessHeard ==
  ASSUME NEW list, NEW b, NEW h \in SUBSET Client, NEW age, OneHeard(list, b, h, age),
         NEW r \in Seq(Entry), NEW c \in Client, Fluders(r) = Fluders(list) \ {c},
         \A j \in DOMAIN r : \E i \in DOMAIN list : r[j] = list[i]
  PROVE  OneHeard(r, b, h \ {c}, [x \in Client |-> IF x = c THEN Old ELSE age[x]])
<1> DEFINE new == [x \in Client |-> IF x = c THEN Old ELSE age[x]]
<1>1. /\ b \in 0..FLUDBLOCK /\ Old \in 0..Old /\ Old > FLUDTIME
      /\ age \in [Client -> 0..Old]
  <2>1. Old \in 0..Old /\ Old > FLUDTIME
    BY OlderIs
  <2> QED BY <2>1 DEF OneHeard
<1>2. new \in [Client -> 0..Old] /\ \A x \in Client : new[x] = IF x = c THEN Old ELSE age[x]
  BY <1>1
<1> HIDE DEF new
<1>3. \A j \in DOMAIN r : r[j].last = new[r[j].fluder]
  <2> TAKE j \in DOMAIN r
  <2>1. PICK i \in DOMAIN list : r[j] = list[i]
    OBVIOUS
  <2>2. r[j] \in Entry
    OBVIOUS
  <2>3. r[j].fluder # c /\ r[j].fluder \in Client
    BY <2>2, EntryIs DEF Fluders
  <2> QED BY <1>2, <2>1, <2>3 DEF OneHeard
<1>4. \A x \in Client : new[x] <= FLUDTIME => x # c /\ new[x] = age[x]
  <2>1. ~(Old <= FLUDTIME)
    BY OlderIs
  <2> QED BY <1>2, <2>1
<1>5. \A x \in Client : new[x] <= FLUDTIME => x \in Fluders(r)
  BY <1>4 DEF OneHeard
<1>6. ASSUME Cardinality(Recently(h \ {c}, new)) > FLUDNUM, NEW x \in Recently(h \ {c}, new)
      PROVE  b <= new[x]
  <2>1. Recently(h \ {c}, new) \in SUBSET Recently(h, age)
    BY <1>4 DEF Recently
  <2>2. Cardinality(Recently(h, age)) > FLUDNUM
    BY <1>6, <2>1, FewerRecent
  <2>3. b <= age[x]
    BY <2>1, <2>2 DEF OneHeard
  <2>4. x \in Client /\ new[x] <= FLUDTIME
    BY DEF Recently
  <2> QED BY <1>4, <2>3, <2>4
<1> QED BY <1>1, <1>2, <1>3, <1>5, <1>6 DEF OneHeard, new

\* Nothing was heard by a target whose list is empty.
LEMMA NoneHeard ==
  ASSUME NEW h \in SUBSET Client
  PROVE  /\ <<>> \in Seq(Entry) /\ Once(<<>>) /\ Fluders(<<>>) = {}
         /\ OneHeard(<<>>, FLUDBLOCK, h, [c \in Client |-> Old])
<1> DEFINE new == [c \in Client |-> Old]
<1>1. FLUDBLOCK \in 0..FLUDBLOCK
  BY FludSettings
<1>2. new \in [Client -> 0..Old] /\ \A c \in Client : ~(new[c] <= FLUDTIME)
  BY OlderIs
<1> HIDE DEF new
<1>3. Recently(h, new) = {}
  BY <1>2 DEF Recently
<1>4. DOMAIN <<>> = {}
  OBVIOUS
<1>5. <<>> \in Seq(Entry) /\ Once(<<>>) /\ Fluders(<<>>) = {}
  BY <1>4 DEF Once, Fluders
<1>6. OneHeard(<<>>, FLUDBLOCK, h, new)
  BY <1>1, <1>2, <1>3, <1>4 DEF OneHeard
<1> QED BY <1>5, <1>6 DEF new

LEMMA LeavesStep ==
  ASSUME FludInv, NEW c \in Client, Leaves(c)
  PROVE  ListsAt(fluders', fludees', here', stale') /\ HeardAt(fluders', blocked', here', stale', heard')
<1> DEFINE fs == fluders'
           es == fludees'
           T == Fludees(fludees[c])
           Q == IF c \in Local THEN Fluders(fluders[c]) ELSE {}
           left == [t \in Target |-> IF t \in T THEN remove_fluder_reference(fluders[t], c) ELSE fluders[t]]
           kept == [x \in Client |-> IF x \in Q THEN remove_fludee_reference(fludees[x], c) ELSE fludees[x]]
<1>1. /\ fluders \in [Target -> Seq(Entry)] /\ fludees \in [Client -> Seq(Target)]
      /\ here \in SUBSET Client /\ stale \in SUBSET Chan
      /\ \A t \in Target : Once(fluders[t])
      /\ \A x \in Client : OnceEach(fludees[x])
      /\ \A t \in Target, x \in Client :
           t \in Fludees(fludees[x]) <=> t \notin stale /\ x \in Fluders(fluders[t])
      /\ \A t \in Target, x \in Client :
           t \in Fludees(fludees[x]) => x \in here /\ (t \in Client => t \in here)
  BY DEF FludInv, ListsInv, ListsAt
<1>2. stale' = stale /\ here' = here \ {c}
  BY DEF Leaves
<1>3. fs = [t \in Target |-> IF t = c THEN <<>> ELSE left[t]]
  <2>1. free_fludees(c) = left
    BY DEF free_fludees, Fludees
  <2>2. fluders' = [t \in Target |-> IF t = c THEN <<>> ELSE free_fludees(c)[t]]
    BY DEF Leaves
  <2> QED BY <2>1, <2>2
<1>4. es = [kept EXCEPT ![c] = <<>>]
  <2>1. CASE c \in Local
    <3>1. free_fluders(c, fludees) = kept
      BY <2>1 DEF free_fluders, Fluders
    <3>2. fludees' = [free_fluders(c, fludees) EXCEPT ![c] = <<>>]
      BY <2>1 DEF Leaves
    <3> QED BY <3>1, <3>2
  <2>2. CASE c \notin Local
    <3>1. kept = fludees
      BY <1>1, <2>2
    <3>2. fludees' = [fludees EXCEPT ![c] = <<>>]
      BY <2>2 DEF Leaves
    <3> QED BY <3>1, <3>2
  <2> QED BY <2>1, <2>2
<1> HIDE DEF fs, es
<1>5. /\ left \in [Target -> Seq(Entry)]
      /\ \A t \in Target :
              /\ Once(left[t])
              /\ Fluders(left[t]) = IF t \in T THEN Fluders(fluders[t]) \ {c} ELSE Fluders(fluders[t])
              /\ \A j \in DOMAIN left[t] : \E i \in DOMAIN fluders[t] : left[t][j] = fluders[t][i]
  <2>1. left = Forgotten(fluders, T, c)
    BY DEF Forgotten
  <2> HIDE DEF T, left
  <2>2. HaveForgotten(Forgotten(fluders, T, c), fluders, T, c)
    BY <1>1, ForgetFluder
  <2> QED BY <2>1, <2>2 DEF HaveForgotten
<1>6. /\ kept \in [Client -> Seq(Target)]
      /\ \A x \in Client : /\ OnceEach(kept[x])
                           /\ Fludees(kept[x]) = IF x \in Q THEN Fludees(fludees[x]) \ {c} ELSE Fludees(fludees[x])
  <2>1. kept = Without(fludees, Q, c)
    BY DEF Without
  <2> HIDE DEF Q, kept
  <2>2. AreWithout(Without(fludees, Q, c), fludees, Q, c)
    BY <1>1, ForgetTarget
  <2> QED BY <2>1, <2>2 DEF AreWithout
<1> HIDE DEF left, kept
<1>7. \A t \in Target : /\ fs[t] \in Seq(Entry) /\ Once(fs[t])
                        /\ fs[t] = IF t = c THEN <<>> ELSE left[t]
  BY <1>1, <1>3, <1>5, NoneHeard
<1>8. fs \in [Target -> Seq(Entry)]
  BY <1>3, <1>7
<1>9. \A t \in Target \ stale : t # c => Fluders(fs[t]) = Fluders(fluders[t]) \ {c}
  <2> SUFFICES ASSUME NEW t \in Target \ stale, t # c PROVE Fluders(fs[t]) = Fluders(fluders[t]) \ {c}
    OBVIOUS
  <2>1. fs[t] = left[t] /\ Fluders(left[t]) = IF t \in T THEN Fluders(fluders[t]) \ {c} ELSE Fluders(fluders[t])
    BY <1>5, <1>7
  <2>2. c \in Fluders(fluders[t]) => t \in T
    BY <1>1
  <2> QED BY <2>1, <2>2
<1>10. Fluders(<<>>) = {} /\ Fludees(<<>>) = {} /\ OnceEach(<<>>) /\ <<>> \in Seq(Target)
  <2>1. DOMAIN <<>> = {}
    OBVIOUS
  <2> QED BY <2>1 DEF Fluders, Fludees, OnceEach
<1>11. \A x \in Client : es[x] = IF x = c THEN <<>> ELSE kept[x]
  BY <1>4, <1>6
<1>12. es \in [Client -> Seq(Target)] /\ \A x \in Client : OnceEach(es[x])
  <2>1. \A x \in Client : es[x] \in Seq(Target) /\ OnceEach(es[x])
    BY <1>6, <1>10, <1>11
  <2> QED BY <1>4, <1>6, <1>10, <2>1
<1>13. c \in Target => c \in Local
  BY FludSettings DEF Target
<1>14. \A x \in Client : x # c => Fludees(es[x]) = Fludees(fludees[x]) \ {c}
  <2> SUFFICES ASSUME NEW x \in Client, x # c PROVE Fludees(es[x]) = Fludees(fludees[x]) \ {c}
    OBVIOUS
  <2>1. Fludees(es[x]) = IF x \in Q THEN Fludees(fludees[x]) \ {c} ELSE Fludees(fludees[x])
    BY <1>6, <1>11
  <2>2. c \in Fludees(fludees[x]) => x \in Q
    <3>1. Fludees(fludees[x]) \subseteq Target
      BY <1>1 DEF Fludees
    <3> QED BY <1>1, <1>13, <3>1
  <2> QED BY <2>1, <2>2
<1>15. \A t \in Target, x \in Client :
         t \in Fludees(es[x]) <=> t \notin stale /\ x \in Fluders(fs[t])
  <2> TAKE t \in Target, x \in Client
  <2>1. CASE x = c
    BY <1>7, <1>9, <1>10, <1>11, <2>1
  <2>2. CASE x # c /\ t = c
    BY <1>7, <1>10, <1>14, <2>2
  <2>3. CASE x # c /\ t # c
    BY <1>1, <1>9, <1>14, <2>3
  <2> QED BY <2>1, <2>2, <2>3
<1>16. \A t \in Target, x \in Client :
         t \in Fludees(es[x]) => x \in here \ {c} /\ (t \in Client => t \in here \ {c})
  BY <1>1, <1>10, <1>11, <1>14
<1>17. ListsAt(fs, es, here \ {c}, stale)
  BY <1>1, <1>7, <1>8, <1>12, <1>15, <1>16 DEF ListsAt
<1>18. HeardAt(fs, blocked', here \ {c}, stale, heard')
  <2>1. /\ blocked \in [Target -> 0..FLUDBLOCK] /\ heard \in [Target -> [Client -> 0..Old]]
        /\ \A t \in Target \ stale : OneHeard(fluders[t], blocked[t], here, heard[t])
    BY HeardEach DEF FludInv
  <2>2. blocked' = [t \in Target |-> IF t = c THEN FLUDBLOCK ELSE blocked[t]]
        /\ heard' = [t \in Target |-> [x \in Client |-> IF t = c \/ x = c THEN Old ELSE heard[t][x]]]
    BY DEF Leaves
  <2>3. blocked' \in [Target -> 0..FLUDBLOCK] /\ heard' \in [Target -> [Client -> 0..Old]]
    <3>1. FLUDBLOCK \in 0..FLUDBLOCK /\ Old \in 0..Old
      BY FludSettings, OlderIs
    <3> QED BY <2>1, <2>2, <3>1
  <2>4. \A t \in Target \ stale : OneHeard(fs[t], blocked'[t], here \ {c}, heard'[t])
    <3> TAKE t \in Target \ stale
    <3>1. CASE t = c
      <4>1. heard'[t] = [x \in Client |-> Old] /\ blocked'[t] = FLUDBLOCK /\ fs[t] = <<>>
        BY <1>7, <2>2, <3>1
      <4>2. here \ {c} \in SUBSET Client
        BY <1>1
      <4> QED BY <4>1, <4>2, NoneHeard
    <3>2. CASE t # c
      <4>1. heard'[t] = [x \in Client |-> IF x = c THEN Old ELSE heard[t][x]] /\ blocked'[t] = blocked[t]
        BY <2>2, <3>2
      <4>2. fs[t] \in Seq(Entry) /\ Fluders(fs[t]) = Fluders(fluders[t]) \ {c}
            /\ (\A j \in DOMAIN fs[t] : \E i \in DOMAIN fluders[t] : fs[t][j] = fluders[t][i])
            /\ OneHeard(fluders[t], blocked[t], here, heard[t])
        <5>1. fs[t] = left[t] /\ fs[t] \in Seq(Entry)
          BY <1>7, <3>2
        <5>2. \A j \in DOMAIN left[t] : \E i \in DOMAIN fluders[t] : left[t][j] = fluders[t][i]
          BY <1>5
        <5> QED BY <1>9, <2>1, <3>2, <5>1, <5>2
      <4>3. OneHeard(fs[t], blocked[t], here \ {c}, [x \in Client |-> IF x = c THEN Old ELSE heard[t][x]])
        <5> DEFINE r == fs[t]
                   list == fluders[t]
        <5>1. r \in Seq(Entry) /\ Fluders(r) = Fluders(list) \ {c}
              /\ (\A j \in DOMAIN r : \E i \in DOMAIN list : r[j] = list[i])
              /\ OneHeard(list, blocked[t], here, heard[t]) /\ here \in SUBSET Client
          BY <1>1, <4>2
        <5> HIDE DEF r, list
        <5>2. OneHeard(r, blocked[t], here \ {c}, [x \in Client |-> IF x = c THEN Old ELSE heard[t][x]])
          BY <5>1, LessHeard
        <5> QED BY <5>2 DEF r
      <4> QED BY <4>1, <4>3
    <3> QED BY <3>1, <3>2
  <2> QED BY <2>3, <2>4, HeardEach
<1> QED BY <1>2, <1>17, <1>18 DEF fs, es

LEMMA EmptiedStep ==
  ASSUME FludInv, NEW t \in Chan, Emptied(t)
  PROVE  ListsAt(fluders', fludees', here', stale') /\ HeardAt(fluders', blocked', here', stale', heard')
<1> DEFINE es == fludees'
           Q == Fluders(fluders[t])
           kept == [x \in Client |-> IF x \in Q THEN remove_fludee_reference(fludees[x], t) ELSE fludees[x]]
<1>1. /\ fluders \in [Target -> Seq(Entry)] /\ fludees \in [Client -> Seq(Target)]
      /\ here \in SUBSET Client /\ stale \in SUBSET Chan
      /\ \A u \in Target : Once(fluders[u])
      /\ \A x \in Client : OnceEach(fludees[x])
      /\ \A u \in Target, x \in Client :
           u \in Fludees(fludees[x]) <=> u \notin stale /\ x \in Fluders(fluders[u])
      /\ \A u \in Target, x \in Client :
           u \in Fludees(fludees[x]) => x \in here /\ (u \in Client => u \in here)
  BY DEF FludInv, ListsInv, ListsAt
<1>2. t \in Target /\ t \notin stale /\ here' = here
  BY DEF Emptied, Target
<1>3. es = kept
  BY DEF Emptied, free_fluders, Fluders
<1>4. /\ kept \in [Client -> Seq(Target)]
      /\ \A x \in Client : /\ OnceEach(kept[x])
                           /\ Fludees(kept[x]) = IF x \in Q THEN Fludees(fludees[x]) \ {t} ELSE Fludees(fludees[x])
  <2>1. kept = Without(fludees, Q, t)
    BY DEF Without
  <2> HIDE DEF Q, kept
  <2>2. AreWithout(Without(fludees, Q, t), fludees, Q, t)
    BY <1>1, ForgetTarget
  <2> QED BY <2>1, <2>2 DEF AreWithout
<1> HIDE DEF kept, es
<1>5. \A x \in Client : Fludees(es[x]) = Fludees(fludees[x]) \ {t}
  BY <1>1, <1>2, <1>3, <1>4
<1>6. es \in [Client -> Seq(Target)] /\ \A x \in Client : OnceEach(es[x])
  BY <1>3, <1>4
<1>7. CASE t \in juped
  <2>1. fluders' = fluders /\ blocked' = blocked /\ heard' = heard
        /\ stale' = IF fluders[t] = <<>> THEN stale ELSE stale \cup {t}
    BY <1>7 DEF Emptied
  <2>2. fluders[t] = <<>> => Fluders(fluders[t]) = {}
    BY NoneHeard, <1>1
  <2>3. stale' \in SUBSET Chan /\ stale \subseteq stale'
    BY <1>1, <2>1
  <2>4. \A u \in Target, x \in Client :
          u \in Fludees(es[x]) <=> u \notin stale' /\ x \in Fluders(fluders[u])
    BY <1>1, <1>2, <1>5, <2>1, <2>2
  <2>5. ListsAt(fluders, es, here, stale')
    BY <1>1, <1>5, <1>6, <2>3, <2>4 DEF ListsAt
  <2>6. HeardAt(fluders, blocked, here, stale', heard)
    BY <2>3 DEF FludInv, HeardAt
  <2> QED BY <1>2, <2>1, <2>5, <2>6 DEF es
<1>8. CASE t \notin juped
  <2>1. /\ fluders' = [fluders EXCEPT ![t] = <<>>]
        /\ blocked' = [blocked EXCEPT ![t] = FLUDBLOCK]
        /\ heard' = [heard EXCEPT ![t] = [c \in Client |-> Old]]
        /\ stale' = stale
    BY <1>8 DEF Emptied
  <2>2. <<>> \in Seq(Entry) /\ Once(<<>>) /\ Fluders(<<>>) = {}
        /\ OneHeard(<<>>, FLUDBLOCK, here, [c \in Client |-> Old])
    BY <1>1, NoneHeard
  <2>3. fluders' \in [Target -> Seq(Entry)] /\ \A u \in Target : fluders'[u] = IF u = t THEN <<>> ELSE fluders[u]
    BY <1>1, <2>1, <2>2
  <2>4. \A u \in Target : Once(fluders'[u])
    BY <1>1, <2>2, <2>3
  <2>5. \A u \in Target, x \in Client :
          u \in Fludees(es[x]) <=> u \notin stale /\ x \in Fluders(fluders'[u])
    BY <1>1, <1>5, <2>2, <2>3
  <2>6. ListsAt(fluders', es, here, stale)
    BY <1>1, <1>5, <1>6, <2>3, <2>4, <2>5 DEF ListsAt
  <2>7. HeardAt(fluders', blocked', here, stale, heard')
    <3>1. /\ blocked \in [Target -> 0..FLUDBLOCK] /\ heard \in [Target -> [Client -> 0..Old]]
          /\ \A u \in Target \ stale : OneHeard(fluders[u], blocked[u], here, heard[u])
      BY HeardEach DEF FludInv
    <3>2. FLUDBLOCK \in 0..FLUDBLOCK /\ [c \in Client |-> Old] \in [Client -> 0..Old]
      BY <2>2 DEF OneHeard
    <3>3. /\ blocked' \in [Target -> 0..FLUDBLOCK] /\ heard' \in [Target -> [Client -> 0..Old]]
          /\ \A u \in Target : /\ blocked'[u] = IF u = t THEN FLUDBLOCK ELSE blocked[u]
                               /\ heard'[u] = IF u = t THEN [c \in Client |-> Old] ELSE heard[u]
      BY <2>1, <3>1, <3>2
    <3>4. \A u \in Target \ stale : OneHeard(fluders'[u], blocked'[u], here, heard'[u])
      BY <2>2, <2>3, <3>1, <3>3
    <3> QED BY <3>3, <3>4, HeardEach
  <2> QED BY <1>2, <2>1, <2>6, <2>7 DEF es
<1> QED BY <1>7, <1>8

LEMMA CheckStep ==
  ASSUME FludInv, NEW c \in Client, NEW t \in Target, check_for_flud(c, t)
  PROVE  ListsAt(fluders', fludees', here', stale') /\ HeardAt(fluders', blocked', here', stale', heard')
<1> DEFINE Q == Quiet(t)
           K == {i \in DOMAIN fluders[t] : fluders[t][i].fluder \notin Q}
           kept == Kept(fluders[t], K)
           list == Noted(kept, c)
           un == [x \in Client |-> IF x \in Q THEN remove_fludee_reference(fludees[x], t) ELSE fludees[x]]
           es == fludees'
<1>1. /\ fluders \in [Target -> Seq(Entry)] /\ fludees \in [Client -> Seq(Target)]
      /\ here \in SUBSET Client /\ stale \in SUBSET Chan
      /\ \A u \in Target : Once(fluders[u]) /\ fluders[u] \in Seq(Entry)
      /\ \A x \in Client : OnceEach(fludees[x])
      /\ \A u \in Target, x \in Client :
           u \in Fludees(fludees[x]) <=> u \notin stale /\ x \in Fluders(fluders[u])
      /\ \A u \in Target, x \in Client :
           u \in Fludees(fludees[x]) => x \in here /\ (u \in Client => u \in here)
  BY DEF FludInv, ListsInv, ListsAt
<1>2. /\ c \in here /\ (t \in Client => t \in here) /\ t \notin stale
      /\ fluders' = [fluders EXCEPT ![t] = list]
      /\ es = IF \E i \in DOMAIN kept : kept[i].fluder = c THEN un ELSE [un EXCEPT ![c] = <<t>> \o @]
      /\ blocked' = [blocked EXCEPT ![t] = IF Blocking(t) \/ Counted(list) > FLUDNUM THEN 0 ELSE @]
      /\ heard' = [heard EXCEPT ![t][c] = 0]
      /\ here' = here /\ stale' = stale
  BY DEF check_for_flud, Unlisted
<1> HIDE DEF es
<1>3. /\ un \in [Client -> Seq(Target)]
      /\ \A x \in Client : /\ OnceEach(un[x])
                           /\ Fludees(un[x]) = IF x \in Q THEN Fludees(fludees[x]) \ {t} ELSE Fludees(fludees[x])
  <2>1. un = Without(fludees, Q, t)
    BY DEF Without
  <2> HIDE DEF Q, un
  <2>2. AreWithout(Without(fludees, Q, t), fludees, Q, t)
    BY <1>1, ForgetTarget
  <2> QED BY <2>1, <2>2 DEF AreWithout
<1> HIDE DEF un
<1>4. /\ kept \in Seq(Entry) /\ Once(kept) /\ Fluders(kept) = Fluders(fluders[t]) \ Q
      /\ \A j \in DOMAIN kept : \E i \in DOMAIN fluders[t] : kept[j] = fluders[t][i]
  <2> HIDE DEF Q
  <2>1. fluders[t] \in Seq(Entry) /\ Once(fluders[t])
    BY <1>1
  <2>2. K \in SUBSET DOMAIN fluders[t] /\ \A i \in DOMAIN fluders[t] : i \in K <=> fluders[t][i].fluder \notin Q
    OBVIOUS
  <2> HIDE DEF K
  <2> QED BY <2>1, <2>2, KeptFluders
<1> HIDE DEF K, kept
<1>5. /\ list \in Seq(Entry) /\ Once(list) /\ Fluders(list) = Fluders(kept) \cup {c}
      /\ \A j \in DOMAIN list : list[j].fluder = c => list[j].last = 0
      /\ \A j \in DOMAIN list : list[j].fluder # c => \E i \in DOMAIN kept : list[j] = kept[i]
  BY <1>4, NotedIs
<1> HIDE DEF list, Q
<1>6. \A u \in Target : fluders'[u] = IF u = t THEN list ELSE fluders[u]
  BY <1>1, <1>2
<1>7. fluders' \in [Target -> Seq(Entry)] /\ \A u \in Target : Once(fluders'[u])
  <2>1. \A u \in Target : fluders'[u] \in Seq(Entry) /\ Once(fluders'[u])
    BY <1>1, <1>5, <1>6
  <2> QED BY <1>1, <1>2, <1>5, <2>1
<1>8. (\E i \in DOMAIN kept : kept[i].fluder = c) <=> c \in Fluders(kept)
  BY DEF Fluders
<1>9. /\ es \in [Client -> Seq(Target)] /\ \A x \in Client : OnceEach(es[x])
      /\ \A x \in Client : Fludees(es[x]) = IF x = c THEN Fludees(un[x]) \cup {t} ELSE Fludees(un[x])
  <2>1. t \in Fludees(un[c]) <=> c \in Fluders(kept)
    BY <1>1, <1>2, <1>3, <1>4
  <2>2. CASE c \in Fluders(kept)
    <3>1. es = un
      BY <1>2, <1>8, <2>2
    <3>2. \A x \in Client : Fludees(es[x]) = IF x = c THEN Fludees(un[x]) \cup {t} ELSE Fludees(un[x])
      BY <2>1, <2>2, <3>1
    <3> QED BY <1>3, <3>1, <3>2
  <2>3. CASE c \notin Fluders(kept)
    <3>1. es = [un EXCEPT ![c] = <<t>> \o @]
      BY <1>2, <1>8, <2>3
    <3>2. un[c] \in Seq(Target) /\ OnceEach(un[c]) /\ t \in Target \ Fludees(un[c])
      BY <1>3, <2>1, <2>3
    <3> DEFINE r == <<t>> \o un[c]
    <3>3. r \in Seq(Target) /\ OnceEach(r) /\ Fludees(r) = Fludees(un[c]) \cup {t}
      BY <3>2, PrependIs
    <3>4. es = [un EXCEPT ![c] = r]
      BY <3>1
    <3> HIDE DEF r
    <3>5. es \in [Client -> Seq(Target)] /\ \A x \in Client : es[x] = IF x = c THEN r ELSE un[x]
      BY <1>3, <3>3, <3>4
    <3> QED BY <1>3, <3>3, <3>5
  <2> QED BY <2>2, <2>3
<1>10. \A u \in Target, x \in Client :
         u \in Fludees(es[x]) <=> u \notin stale /\ x \in Fluders(fluders'[u])
  <2> SUFFICES ASSUME NEW u \in Target, NEW x \in Client
               PROVE  u \in Fludees(es[x]) <=> u \notin stale /\ x \in Fluders(fluders'[u])
    OBVIOUS
  <2>1. CASE u = t
    <3>1. u \in Fludees(es[x]) <=> x = c \/ u \in Fludees(un[x])
      BY <1>9, <2>1
    <3>2. u \in Fludees(un[x]) <=> x \in Fluders(kept)
      BY <1>1, <1>2, <1>3, <1>4, <2>1
    <3> QED BY <1>2, <1>5, <1>6, <2>1, <3>1, <3>2
  <2>2. CASE u # t
    BY <1>1, <1>3, <1>6, <1>9, <2>2
  <2> QED BY <2>1, <2>2
<1>11. \A u \in Target, x \in Client :
         u \in Fludees(es[x]) => x \in here /\ (u \in Client => u \in here)
  <2> SUFFICES ASSUME NEW u \in Target, NEW x \in Client, u \in Fludees(es[x])
               PROVE  x \in here /\ (u \in Client => u \in here)
    OBVIOUS
  <2>1. CASE u \in Fludees(un[x])
    BY <1>1, <1>3, <2>1
  <2>2. CASE u \notin Fludees(un[x])
    <3>1. x = c /\ u = t
      BY <1>9, <2>2
    <3> QED BY <1>2, <3>1
  <2> QED BY <2>1, <2>2
<1>12. ListsAt(fluders', es, here, stale)
  BY <1>1, <1>7, <1>9, <1>10, <1>11 DEF ListsAt
<1>13. HeardAt(fluders', blocked', here, stale, heard')
  <2>1. /\ blocked \in [Target -> 0..FLUDBLOCK] /\ heard \in [Target -> [Client -> 0..Old]]
        /\ \A u \in Target \ stale : OneHeard(fluders[u], blocked[u], here, heard[u])
    BY HeardEach DEF FludInv
  <2> DEFINE b == blocked'[t]
             old == heard[t]
             age == heard'[t]
  <2>2. 0 \in 0..FLUDBLOCK /\ 0 \in 0..Old /\ FLUDTIME \in Nat /\ FLUDNUM \in Nat
    BY FludSettings, OlderIs
  <2>3. b = (IF Blocking(t) \/ Counted(list) > FLUDNUM THEN 0 ELSE blocked[t])
        /\ blocked' \in [Target -> 0..FLUDBLOCK]
        /\ \A u \in Target : u # t => blocked'[u] = blocked[u]
    BY <1>2, <2>1, <2>2
  <2>4. /\ heard' = [heard EXCEPT ![t] = age]
        /\ age = [old EXCEPT ![c] = 0] /\ old \in [Client -> 0..Old]
        /\ \A u \in Target : u # t => heard'[u] = heard[u]
    BY <1>2, <2>1
  <2> HIDE DEF b, age, old
  <2>5. age \in [Client -> 0..Old] /\ age[c] = 0 /\ \A x \in Client : x # c => age[x] = old[x]
    BY <2>2, <2>4
  <2>6. heard' \in [Target -> [Client -> 0..Old]]
    BY <2>1, <2>4, <2>5
  <2>7. OneHeard(fluders[t], blocked[t], here, old)
    BY <1>2, <2>1 DEF old
  <2>8. OneHeard(list, b, here, age)
    <3>1. b \in 0..FLUDBLOCK
      BY <2>3 DEF b
    <3>2. \A j \in DOMAIN list : list[j].last = age[list[j].fluder]
      <4> TAKE j \in DOMAIN list
      <4>1. CASE list[j].fluder = c
        BY <1>5, <2>5, <4>1
      <4>2. CASE list[j].fluder # c
        <5>1. PICK i \in DOMAIN kept : list[j] = kept[i]
          BY <1>5, <4>2
        <5>2. PICK k \in DOMAIN fluders[t] : list[j] = fluders[t][k]
          BY <1>4, <5>1
        <5>3. list[j].last = old[list[j].fluder]
          BY <2>7, <5>2 DEF OneHeard
        <5>4. list[j].fluder \in Client
          BY <1>5, EntryIs
        <5> QED BY <2>5, <4>2, <5>3, <5>4
      <4> QED BY <4>1, <4>2
    <3>3. \A x \in Client : age[x] <= FLUDTIME => x \in Fluders(list)
      <4> SUFFICES ASSUME NEW x \in Client, age[x] <= FLUDTIME, x # c PROVE x \in Fluders(list)
        BY <1>5
      <4>1. old[x] <= FLUDTIME /\ old[x] \in Nat
        BY <2>4, <2>5
      <4>2. x \in Fluders(fluders[t])
        BY <2>7, <4>1 DEF OneHeard
      <4>3. x \notin Q
        <5>1. ASSUME NEW j \in DOMAIN fluders[t], fluders[t][j].last > FLUDTIME, fluders[t][j].fluder = x
              PROVE  FALSE
          <6>1. fluders[t][j].last = old[x]
            BY <2>7, <5>1 DEF OneHeard
          <6> QED BY <2>2, <4>1, <5>1, <6>1
        <5> QED BY <5>1 DEF Q, Quiet
      <4> QED BY <1>4, <1>5, <4>2, <4>3
    <3>4. ASSUME Cardinality(Recently(here, age)) > FLUDNUM, NEW x \in Recently(here, age)
          PROVE  b <= age[x]
      <4>1. Counted(list) \in Int /\ IsFiniteSet(Fluders(list)) /\ Cardinality(Fluders(list)) <= Counted(list)
        BY <1>5, CountedIs
      <4>2. Recently(here, age) \in SUBSET Fluders(list)
        BY <1>1, <3>3 DEF Recently
      <4>3. /\ Cardinality(Recently(here, age)) <= Cardinality(Fluders(list))
            /\ Cardinality(Recently(here, age)) \in Nat /\ Cardinality(Fluders(list)) \in Nat
        BY <4>1, <4>2, FS_Subset, FS_CardinalityType
      <4>4. Counted(list) > FLUDNUM
        BY <2>2, <3>4, <4>1, <4>3
      <4>5. b = 0
        BY <2>3, <4>4
      <4>6. age[x] \in Nat
        BY <1>1, <2>5 DEF Recently
      <4> QED BY <4>5, <4>6
    <3> QED BY <2>5, <3>1, <3>2, <3>3, <3>4 DEF OneHeard
  <2>9. \A u \in Target \ stale : OneHeard(fluders'[u], blocked'[u], here, heard'[u])
    <3> TAKE u \in Target \ stale
    <3>1. CASE u = t
      BY <1>6, <2>8, <3>1 DEF b, age
    <3>2. CASE u # t
      BY <1>6, <2>1, <2>3, <2>4, <3>2
    <3> QED BY <3>1, <3>2
  <2> QED BY <2>3, <2>6, <2>9, HeardEach
<1> QED BY <1>2, <1>12, <1>13 DEF es

LEMMA FludStarts == FludInit => FludInv
<1> SUFFICES ASSUME FludInit PROVE FludInv
  OBVIOUS
<1>1. /\ fluders = [t \in Target |-> <<>>] /\ fludees = [c \in Client |-> <<>>]
      /\ blocked = [t \in Target |-> FLUDBLOCK] /\ here = Client /\ stale = {}
      /\ heard = [t \in Target |-> [c \in Client |-> Old]]
  BY DEF FludInit
<1>2. /\ <<>> \in Seq(Entry) /\ Once(<<>>) /\ Fluders(<<>>) = {}
      /\ OneHeard(<<>>, FLUDBLOCK, here, [c \in Client |-> Old])
  BY <1>1, NoneHeard
<1>3. <<>> \in Seq(Target) /\ OnceEach(<<>>) /\ Fludees(<<>>) = {}
  <2>1. DOMAIN <<>> = {}
    OBVIOUS
  <2> QED BY <2>1 DEF OnceEach, Fludees
<1>4. ListsAt(fluders, fludees, here, stale)
  BY <1>1, <1>2, <1>3 DEF ListsAt
<1>5. HeardAt(fluders, blocked, here, stale, heard)
  <2>1. FLUDBLOCK \in 0..FLUDBLOCK /\ [c \in Client |-> Old] \in [Client -> 0..Old]
    BY <1>2 DEF OneHeard
  <2>2. blocked \in [Target -> 0..FLUDBLOCK] /\ heard \in [Target -> [Client -> 0..Old]]
    BY <1>1, <2>1
  <2>3. \A t \in Target \ stale : OneHeard(fluders[t], blocked[t], here, heard[t])
    BY <1>1, <1>2
  <2> QED BY <2>2, <2>3, HeardEach
<1> QED BY <1>4, <1>5 DEF FludInv, ListsInv

LEMMA FludKeeps == FludInv /\ [FludNext]_fludVars => FludInv'
<1> SUFFICES ASSUME FludInv, [FludNext]_fludVars
             PROVE  ListsAt(fluders', fludees', here', stale') /\ HeardAt(fluders', blocked', here', stale', heard')
  BY DEF FludInv, ListsInv, ListsAt, HeardAt
<1>1. CASE Second
  BY <1>1, SecondStep
<1>2. CASE \E c \in Client : Leaves(c)
  BY <1>2, LeavesStep
<1>3. CASE \E c \in Client : Returns(c)
  BY <1>3, ReturnsStep
<1>4. CASE \E c \in Client, t \in Target : check_for_flud(c, t)
  BY <1>4, CheckStep
<1>5. CASE \E t \in Chan : Emptied(t)
  BY <1>5, EmptiedStep
<1>6. CASE UNCHANGED fludVars
  BY <1>6 DEF FludInv, ListsInv, fludVars
<1> QED BY <1>1, <1>2, <1>3, <1>4, <1>5, <1>6 DEF FludNext

LEMMA FludInvBlocks == FludInv => FludnetBlocked
<1> SUFFICES ASSUME FludInv, NEW t \in Target \ stale,
                    Cardinality({c \in here : heard[t][c] <= FLUDTIME}) > FLUDNUM
             PROVE  blocked[t] <= FLUDTIME
  BY DEF FludnetBlocked
<1> DEFINE S == Recently(here, heard[t])
<1>1. Cardinality(S) > FLUDNUM
  BY DEF Recently
<1>2. S # {}
  <2>1. FLUDNUM \in Nat /\ ~(0 > FLUDNUM)
    BY FludSettings
  <2> QED BY <1>1, <2>1, FS_EmptySet
<1>3. PICK c \in S : TRUE
  BY <1>2
<1>4. blocked[t] <= heard[t][c]
  BY <1>1 DEF FludInv, HeardAt
<1>5. heard[t][c] <= FLUDTIME /\ c \in Client
  BY DEF Recently, FludInv, ListsInv, ListsAt
<1>6. blocked[t] \in Int /\ heard[t][c] \in Int /\ FLUDTIME \in Int
  <2>1. /\ blocked \in [Target -> 0..FLUDBLOCK] /\ heard \in [Target -> [Client -> 0..Old]]
        /\ t \in Target /\ c \in Client
    BY <1>5 DEF FludInv, HeardAt
  <2> QED BY <2>1, FludSettings
<1> QED BY <1>4, <1>5, <1>6

\* The two lists of a fluder and its target name each other, and nobody who left,
\* whoever goes first (free_fluders, free_fludees), whatever is collected as garbage
\* and however many there are; a juped channel without members is the exception.
THEOREM FludListsStayInStep == FludSpec => []FludListsAgree
<1>1. FludInv => FludListsAgree
  BY ListsInvAgree DEF FludInv
<1> QED BY FludStarts, FludKeeps, <1>1, PTL DEF FludSpec

\* More than FLUDNUM clients that sent a CTCP within FLUDTIME seconds are blocked from
\* the last of them on, though entries come and go in between.
THEOREM FludnetIsBlocked == FludSpec => []FludnetBlocked
BY FludStarts, FludKeeps, FludInvBlocks, PTL DEF FludSpec

-----------------------------------------------------------------------------
(* One round of read_message.                                              *)

\* The requests are a number, and the last round passed over nobody.
PollInv == requests \in Nat /\ NoneMissed

LEMMA PolledIs == IsFiniteSet(Polled) /\ Cardinality(Polled) \in Nat /\ (Polled # {} => Cardinality(Polled) > 0)
<1>1. IsFiniteSet(1..Doors)
  <2>1. \A n \in Nat : IsFiniteSet(1..n)
    BY FS_Interval
  <2> QED BY <2>1, PollSizes
<1>2. IsFiniteSet(Polled)
  BY <1>1, FS_Subset DEF Polled
<1>3. Cardinality(Polled) \in Nat /\ (Cardinality(Polled) = 0 => Polled = {})
  BY <1>2, FS_CardinalityType, FS_EmptySet
<1> QED BY <1>2, <1>3

\* Wherever the loops over requests and listeners ended, when there is an entry of
\* theirs i is not behind the last of them.
LEMMA LastIndexIs ==
  ASSUME NEW n \in Nat, NEW ready \in SUBSET (1..(n + Cardinality(Polled))), NEW events,
         n + Cardinality(Polled) # 0
  PROVE  LastIndex(n, ready, events) \in 0..(n + Cardinality(Polled))
<1> DEFINE before == n + Cardinality(Polled)
           stop == IF events = {} /\ ready # {} THEN Max(ready) ELSE 0
<1>1. before \in Nat /\ Cardinality(Polled) \in Nat /\ before = n + Cardinality(Polled)
      /\ (Polled = {} => before = n) /\ before # 0
  <2>1. Cardinality({}) = 0
    BY FS_EmptySet
  <2> QED BY PolledIs, <2>1
<1>2. ready \in SUBSET (1..before)
  OBVIOUS
<1> HIDE DEF before
<1>3. stop \in 0..before
  <2>1. CASE ready # {}
    <3>0. stop = Max(ready) \/ stop = 0
      OBVIOUS
    <3>1. ready \in SUBSET (0..before)
      BY <1>1, <1>2
    <3>2. Max(ready) \in ready
      BY <1>1, <2>1, <3>1, MaxIs
    <3> DEFINE m == Max(ready)
    <3>4. m \in ready
      BY <3>2
    <3> HIDE DEF m
    <3>5. m \in 0..before /\ 0 \in 0..before
      BY <1>1, <3>1, <3>4
    <3>3. Max(ready) \in 0..before /\ 0 \in 0..before
      BY <3>5 DEF m
    <3> HIDE DEF stop
    <3> QED BY <3>0, <3>3
  <2>2. CASE ready = {}
    BY <1>1, <2>2
  <2> QED BY <2>1, <2>2
<1>4. LastIndex(n, ready, events) =
        CASE Polled # {} -> IF stop > n THEN stop ELSE before
          [] Polled = {} /\ n > 0 -> IF stop > 0 THEN stop ELSE n
          [] OTHER -> Max(Fd) + 1
  BY DEF LastIndex, before
<1> HIDE DEF stop
<1>5. LastIndex(n, ready, events) \in 0..before
  <2>1. CASE Polled # {}
    BY <1>1, <1>3, <1>4, <2>1
  <2>2. CASE Polled = {}
    <3>1. n > 0
      BY <1>1, <2>2
    <3> QED BY <1>1, <1>3, <1>4, <2>2, <3>1
  <2> QED BY <2>1, <2>2
<1> QED BY <1>5 DEF before

LEMMA RoundStep ==
  ASSUME PollInv, NEW mask \in SUBSET Fd, read_message(mask)
  PROVE  requests' \in Nat /\ (round'.missed # {} => round'.before = 0)
<1>1. requests \in Nat /\ Ahead \in Nat
  BY PolledIs DEF PollInv, Ahead
<1>2. PICK gone \in SUBSET Squished(mask) :
        \E ghosts \in SUBSET gone :
        \E ready \in SUBSET (1..Ahead), writable \in SUBSET Writes(mask, gone, ghosts) :
        \E o \in [mask -> {"exits", "done", "more"}] : Round(mask, gone, ghosts, ready, writable, o)
  BY Zenon DEF read_message
<1>3. PICK ghosts \in SUBSET gone :
        \E ready \in SUBSET (1..Ahead), writable \in SUBSET Writes(mask, gone, ghosts) :
        \E o \in [mask -> {"exits", "done", "more"}] : Round(mask, gone, ghosts, ready, writable, o)
  BY <1>2, Zenon
<1>4. PICK ready \in SUBSET (1..Ahead), writable \in SUBSET Writes(mask, gone, ghosts),
           o \in [mask -> {"exits", "done", "more"}] : Round(mask, gone, ghosts, ready, writable, o)
  BY <1>3, Zenon
<1> DEFINE served == Reads(mask) \cup Writes(mask, gone, ghosts)
<1> DEFINE start == Start(ready, Events(mask, writable))
           visited == Visited(served, start)
<1>5. served \in SUBSET Fd /\ Events(mask, writable) \subseteq served
  <2>1. Squished(mask) \subseteq mask
    BY DEF Squished
  <2>2. Reads(mask) \subseteq Fd /\ Writes(mask, gone, ghosts) \subseteq Fd
    BY <2>1 DEF Reads, Writes
  <2> QED BY <2>2 DEF Events
<1> HIDE DEF served
<1>6. ASSUME Ahead # 0 PROVE start = 1
  <2> DEFINE l == LastIndex(requests, ready, Events(mask, writable))
  <2>1. l \in 0..Ahead
    BY <1>1, <1>6, LastIndexIs DEF Ahead
  <2> HIDE DEF l
  <2>2. l + 1 - Ahead \in Int /\ l + 1 - Ahead <= 1
    BY <1>1, <2>1
  <2>3. Max({1, l + 1 - Ahead}) = 1
    BY <2>2, MaxTwo
  <2> QED BY <2>3 DEF Start, l
<1> HIDE DEF start
<1>7. ASSUME Ahead # 0, NEW fd \in served PROVE fd \in visited
  <2> DEFINE S == {g \in served : g <= fd}
  <2>1. fd \in S /\ S \in SUBSET Fd
    <3>1. fd \in Nat
      BY <1>5, PollSizes
    <3>2. fd <= fd
      BY <3>1
    <3> QED BY <1>5, <3>2
  <2>2. IsFiniteSet(S)
    BY <2>1, PollSizes, FS_Subset
  <2>3. Cardinality(S) \in Nat /\ Cardinality(S) # 0
    BY <2>1, <2>2, FS_CardinalityType, FS_EmptySet
  <2> HIDE DEF S
  <2>4. Cardinality(S) >= start
    BY <1>6, <1>7, <2>3
  <2> QED BY <2>4 DEF Visited, S
<1> HIDE DEF visited
<1>8. Ahead # 0 => Events(mask, writable) \ visited = {}
  BY <1>5, <1>7
<1>9. /\ requests' \in 0..MaxRequests
      /\ round' = [missed |-> {fd \in Events(mask, writable) \ visited : Squeezed(mask, gone)[fd] # None},
                   before |-> Ahead]
  BY <1>4 DEF Round, visited, start, served
<1>10. round'.before = Ahead /\ (Ahead # 0 => round'.missed = {})
  BY <1>8, <1>9
<1> QED BY <1>9, <1>10, PollSizes

\* A round passes over no connection with an event as long as an ident request or
\* a listener was polled in it, however many there are and whichever entry the
\* loops before ended at (read_message).
THEOREM NobodyIsMissed == PollSpec => []NoneMissed
<1>1. PollInit => PollInv
  BY DEF PollInit, PollInv, NoneMissed
<1>2. PollInv /\ [PollNext]_plVars => PollInv'
  <2> SUFFICES ASSUME PollInv, [PollNext]_plVars PROVE PollInv'
    OBVIOUS
  <2>1. CASE read_message(Served) \/ read_message(Fd)
    BY <2>1, RoundStep, PollSizes DEF PollInv, NoneMissed
  <2>2. CASE Appears \/ PeerSends \/ Filled \/ Tick \/ UNCHANGED plVars
    BY <2>2 DEF PollInv, NoneMissed, Appears, PeerSends, Filled, Tick, plVars
  <2> QED BY <2>1, <2>2 DEF PollNext
<1>3. PollInv => NoneMissed
  BY DEF PollInv
<1> QED BY <1>1, <1>2, <1>3, PTL DEF PollSpec

-----------------------------------------------------------------------------
(* Together.                                                               *)

\* What input stands on stays sound, for any owners, bytes, sizes, clients, limits,
\* addresses and descriptors.
THEOREM StructuresCorrect == StructuresSpec => []StructuresSound
BY ChainsStaySound, PoolStaysRight, HeapStaysSound, FludListsStayInStep, FludnetIsBlocked,
   NobodyIsMissed, PTL DEF StructuresSpec, StructuresSound

-----------------------------------------------------------------------------
(* The table of clients.                                                   *)

\* A set that holds 0 and the successors of its members up to n holds 0..n.
LEMMA InductUpTo ==
  ASSUME NEW n \in Nat, NEW G, 0 \in G, \A k \in 0..n : k # n /\ k \in G => k + 1 \in G
  PROVE  0..n \subseteq G
<1> DEFINE T == (0..n) \ G
<1> SUFFICES ASSUME T # {} PROVE FALSE
  OBVIOUS
<1>1. T \in SUBSET Nat
  OBVIOUS
<1>2. PICK x \in T : \A y \in T : x <= y
  BY <1>1, LeastNat
<1>3. x \in 0..n /\ x # 0 /\ x \notin G
  OBVIOUS
<1>4. x - 1 \in 0..n /\ x - 1 # n /\ ~(x <= x - 1)
  BY <1>3
<1>5. x - 1 \in G
  BY <1>2, <1>4
<1>6. (x - 1) + 1 \in G
  BY <1>4, <1>5
<1> QED BY <1>3, <1>6

-----------------------------------------------------------------------------
(* The chains of the table of clients.                                     *)

At(q, i) == IF i \in 1..Len(q) THEN q[i] ELSE NoClient

\* The clients of q, no one twice, are linked from the head of bucket b on.
IsChain(tab, b, q) ==
  /\ q \in Seq(Clients)
  /\ \A i, j \in 1..Len(q) : q[i] = q[j] => i = j
  /\ tab.head[b] = At(q, 1)
  /\ \A i \in 1..Len(q) : tab.hnext[q[i]] = At(q, i + 1)
  /\ tab.links[b] = Len(q)

\* The clients in bucket b are those of S.
Holds(tab, b, S) ==
  \E q \in Seq(Clients) : IsChain(tab, b, q) /\ S = {q[i] : i \in 1..Len(q)}

Tables ==
  [head : [Bucket -> Clients \cup {NoClient}], hnext : [Clients -> Clients \cup {NoClient}],
   links : [Bucket -> Nat]]

\* A chain is no longer than the number of clients.
LEMMA LenIs ==
  ASSUME NEW tab, NEW b, NEW q, IsChain(tab, b, q)
  PROVE  /\ Len(q) \in Nat /\ Cardinality(Clients) \in Nat
         /\ Len(q) <= Cardinality(Clients)
         /\ q \in [1..Len(q) -> Clients]
         /\ Cardinality({q[i] : i \in 1..Len(q)}) = Len(q)
<1> DEFINE S == 1..Len(q)
           T == {q[i] : i \in S}
<1>1. Len(q) \in Nat /\ q \in [S -> Clients] /\ q \in [S -> T]
      /\ \A i, j \in S : q[i] = q[j] => i = j
  BY LenProperties DEF IsChain
<1>2. IsFiniteSet(S) /\ Cardinality(S) = Len(q)
  BY <1>1, FS_Interval
<1>3. q \in Injection(S, Clients)
  BY <1>1 DEF Injection, IsInjective
<1>4. Cardinality(Clients) \in Nat
  BY HashAssumption, FS_CardinalityType
<1>5. Len(q) <= Cardinality(Clients)
  BY <1>2, <1>3, FS_Injection, HashAssumption
<1>6. q \in Bijection(S, T)
  BY <1>1 DEF Injection, Surjection, Bijection, IsInjective
<1>7. ExistsBijection(S, T)
  BY <1>6 DEF ExistsBijection
<1>8. Cardinality(T) = Len(q)
  BY <1>2, <1>7, FS_Bijection
<1> QED BY <1>1, <1>4, <1>5, <1>8

\* A walk along a chain meets its clients, and then no one.
LEMMA WalkIs ==
  ASSUME NEW tab, NEW b, NEW q, IsChain(tab, b, q)
  PROVE  Walk(tab, b) = [k \in 0..Cardinality(Clients) |-> At(q, k + 1)]
<1> DEFINE n == Cardinality(Clients)
           F(v) == v = [k \in 0..n |-> IF k = 0 THEN tab.head[b]
                                       ELSE IF v[k - 1] = NoClient THEN NoClient
                                       ELSE tab.hnext[v[k - 1]]]
           w == [k \in 0..n |-> At(q, k + 1)]
<1>1. n \in Nat /\ Len(q) \in Nat /\ q \in [1..Len(q) -> Clients]
  BY LenIs
<1>2. Walk(tab, b) = CHOOSE v : F(v)
  BY DEF Walk
<1>3. \A k \in 1..n : At(q, k + 1) = IF At(q, k) = NoClient THEN NoClient ELSE tab.hnext[At(q, k)]
  <2> TAKE k \in 1..n
  <2>1. CASE k \in 1..Len(q)
    <3>1. At(q, k) = q[k] /\ q[k] \in Clients /\ q[k] # NoClient
      BY <1>1, <2>1, HashAssumption DEF At
    <3> QED BY <2>1, <3>1 DEF IsChain
  <2>2. CASE k \notin 1..Len(q)
    <3>1. k + 1 \notin 1..Len(q)
      BY <1>1, <2>2
    <3> QED BY <2>2, <3>1 DEF At
  <2> QED BY <2>1, <2>2
<1>4. F(w)
  <2>1. \A k \in 0..n : w[k] = IF k = 0 THEN tab.head[b]
                               ELSE IF w[k - 1] = NoClient THEN NoClient
                               ELSE tab.hnext[w[k - 1]]
    <3> TAKE k \in 0..n
    <3>1. CASE k = 0
      BY <3>1 DEF IsChain
    <3>2. CASE k # 0
      <4>1. k \in 1..n /\ k - 1 \in 0..n /\ (k - 1) + 1 = k
        BY <1>1, <3>2
      <4>2. w[k - 1] = At(q, k) /\ w[k] = At(q, k + 1)
        BY <4>1
      <4> QED BY <3>2, <4>1, <4>2, <1>3
    <3> QED BY <3>1, <3>2
  <2> QED BY <2>1
<1>5. ASSUME NEW v, F(v) PROVE v = w
  <2> DEFINE G == {k \in 0..n : v[k] = w[k]}
  <2>0. \A k \in 0..n : v[k] = IF k = 0 THEN tab.head[b]
                               ELSE IF v[k - 1] = NoClient THEN NoClient
                               ELSE tab.hnext[v[k - 1]]
    BY <1>5
  <2>00. \A k \in 0..n : w[k] = IF k = 0 THEN tab.head[b]
                               ELSE IF w[k - 1] = NoClient THEN NoClient
                               ELSE tab.hnext[w[k - 1]]
    BY <1>4
  <2> HIDE DEF w, F
  <2>1. 0 \in G
    BY <1>1, <2>0, <2>00
  <2>2. \A k \in 0..n : k # n /\ k \in G => k + 1 \in G
    <3> SUFFICES ASSUME NEW k \in 0..n, k # n, k \in G PROVE k + 1 \in G
      OBVIOUS
    <3>1. k + 1 \in 0..n /\ k + 1 # 0 /\ (k + 1) - 1 = k
      BY <1>1
    <3>2. v[k] = w[k]
      OBVIOUS
    <3> QED BY <2>0, <2>00, <3>1, <3>2
  <2>3. 0..n \subseteq G
    <3> HIDE DEF G, n
    <3> QED BY <1>1, <2>1, <2>2, InductUpTo
  <2>4. \A k \in 0..n : v[k] = w[k]
    BY <2>3
  <2>5. DOMAIN v = 0..n /\ v = [k \in 0..n |-> v[k]]
    BY <1>5 DEF F
  <2>6. DOMAIN w = 0..n /\ w = [k \in 0..n |-> w[k]]
    BY DEF w
  <2> QED BY <2>4, <2>5, <2>6
<1> HIDE DEF F, w
<1>6. (CHOOSE v : F(v)) = w
  BY <1>4, <1>5
<1> QED BY <1>2, <1>6 DEF w

\* Places, Chain and Walk of the module meet the clients of a chain and no one else.
LEMMA ChainIs ==
  ASSUME NEW tab, NEW b, NEW q, IsChain(tab, b, q)
  PROVE  /\ Places(tab, b) = 0..Len(q) - 1
         /\ \A k \in 0..Len(q) - 1 : Walk(tab, b)[k] = q[k + 1] /\ k + 1 \in 1..Len(q)
         /\ Chain(tab, b) = {q[i] : i \in 1..Len(q)}
         /\ Walk(tab, b)[Cardinality(Clients)] = NoClient
<1> DEFINE n == Cardinality(Clients)
<1>1. /\ n \in Nat /\ Len(q) \in Nat /\ q \in [1..Len(q) -> Clients]
      /\ Len(q) <= n
  BY LenIs
<1>2. Walk(tab, b) = [k \in 0..n |-> At(q, k + 1)]
  BY WalkIs
<1>3. \A k \in 0..n : Walk(tab, b)[k] = At(q, k + 1)
  BY <1>2
<1>4. \A k \in 0..n : k + 1 \in 1..Len(q) <=> k \in 0..Len(q) - 1
  BY <1>1
<1>5. \A k \in 0..n : (At(q, k + 1) # NoClient) <=> k \in 0..Len(q) - 1
  BY <1>1, <1>4, HashAssumption DEF At
<1>6. 0..Len(q) - 1 \subseteq 0..n
  BY <1>1
<1>7. Places(tab, b) = 0..Len(q) - 1
  <2>1. DOMAIN Walk(tab, b) = 0..n
    BY <1>2
  <2> QED BY <1>3, <1>5, <1>6, <2>1 DEF Places
<1>8. \A k \in 0..Len(q) - 1 : Walk(tab, b)[k] = q[k + 1] /\ k + 1 \in 1..Len(q)
  BY <1>3, <1>4, <1>6 DEF At
<1>9. Chain(tab, b) = {q[i] : i \in 1..Len(q)}
  <2>1. Chain(tab, b) = {q[k + 1] : k \in 0..Len(q) - 1}
    BY <1>7, <1>8 DEF Chain
  <2>2. \A i \in 1..Len(q) : i - 1 \in 0..Len(q) - 1 /\ (i - 1) + 1 = i
    BY <1>1
  <2>3. \A i \in 1..Len(q) : \E k \in 0..Len(q) - 1 : q[i] = q[k + 1]
    BY <2>2
  <2> QED BY <1>8, <2>1, <2>3
<1>10. Walk(tab, b)[n] = NoClient
  <2>1. n \in 0..n /\ n + 1 \notin 1..Len(q)
    BY <1>1
  <2> QED BY <1>3, <2>1 DEF At
<1> QED BY <1>7, <1>8, <1>9, <1>10

\* RemoveAt of the community modules leaves the other elements in their order.
LEMMA RemoveAtIs ==
  ASSUME NEW S, NEW q \in Seq(S), NEW p \in 1..Len(q)
  PROVE  /\ RemoveAt(q, p) \in Seq(S)
         /\ Len(RemoveAt(q, p)) = Len(q) - 1
         /\ \A i \in 1..Len(q) - 1 : RemoveAt(q, p)[i] = IF i < p THEN q[i] ELSE q[i + 1]
<1> DEFINE l == SubSeq(q, 1, p - 1)
           r == SubSeq(q, p + 1, Len(q))
<1>1. Len(q) \in Nat /\ q \in [1..Len(q) -> S]
  BY LenProperties
<1>2. /\ l \in Seq(S) /\ Len(l) = p - 1
      /\ \A i \in 1..p - 1 : l[i] = q[i]
  <2>1. \A i \in 1..p - 1 : q[i] \in S
    BY <1>1
  <2>2. 1 \in Int /\ p - 1 \in Int
    BY <1>1
  <2> QED BY <1>1, <2>1, <2>2, SubSeqProperties
<1>3. /\ r \in Seq(S) /\ Len(r) = Len(q) - p
      /\ \A i \in 1..Len(q) - p : r[i] = q[p + i]
  <2>1. \A i \in p + 1..Len(q) : q[i] \in S
    BY <1>1
  <2>2. p + 1 \in Int /\ Len(q) \in Int
    BY <1>1
  <2>3. /\ r \in Seq(S) /\ Len(r) = IF p + 1 <= Len(q) THEN Len(q) - (p + 1) + 1 ELSE 0
        /\ \A i \in 1..Len(q) - (p + 1) + 1 : r[i] = q[(p + 1) + i - 1]
    BY <2>1, <2>2, SubSeqProperties
  <2>4. \A i \in 1..Len(q) - p : i \in 1..Len(q) - (p + 1) + 1 /\ (p + 1) + i - 1 = p + i
    BY <1>1
  <2> HIDE DEF r
  <2>5. Len(r) = Len(q) - p
    <3>1. p \in Int /\ Len(q) \in Int /\ p <= Len(q)
      BY <1>1
    <3>2. CASE p + 1 <= Len(q)
      BY <2>3, <3>1, <3>2
    <3>3. CASE ~(p + 1 <= Len(q))
      <4>1. Len(q) - p = 0
        BY <3>1, <3>3
      <4> QED BY <2>3, <3>3, <4>1
    <3> QED BY <3>2, <3>3
  <2>6. \A i \in 1..Len(q) - p : r[i] = q[p + i]
    BY <2>3, <2>4
  <2> QED BY <2>3, <2>5, <2>6
<1> HIDE DEF l, r
<1>4. RemoveAt(q, p) = l \o r
  BY DEF RemoveAt, l, r
<1>5. /\ l \o r \in Seq(S) /\ Len(l \o r) = Len(l) + Len(r)
      /\ \A i \in 1..Len(l) + Len(r) : (l \o r)[i] = IF i <= Len(l) THEN l[i] ELSE r[i - Len(l)]
  BY <1>2, <1>3, ConcatProperties
<1>6. Len(l) + Len(r) = Len(q) - 1
  BY <1>1, <1>2, <1>3
<1>7. ASSUME NEW i \in 1..Len(q) - 1
      PROVE  (l \o r)[i] = IF i < p THEN q[i] ELSE q[i + 1]
  <2>0. (l \o r)[i] = IF i <= p - 1 THEN l[i] ELSE r[i - (p - 1)]
    BY <1>2, <1>5, <1>6
  <2>1. CASE i < p
    <3>1. i \in 1..p - 1 /\ i <= p - 1
      BY <1>1, <2>1
    <3> QED BY <1>2, <2>0, <2>1, <3>1
  <2>2. CASE ~(i < p)
    <3>1. i - (p - 1) \in 1..Len(q) - p /\ ~(i <= p - 1) /\ p + (i - (p - 1)) = i + 1
      BY <1>1, <2>2
    <3> QED BY <1>3, <2>0, <2>2, <3>1
  <2> QED BY <2>1, <2>2
<1> QED BY <1>4, <1>5, <1>6, <1>7

\* A bucket is as it was when its head and the links of its clients are.
LEMMA Untouched ==
  ASSUME NEW tab, NEW new, NEW b, NEW S, Holds(tab, b, S),
         new.head[b] = tab.head[b], new.links[b] = tab.links[b],
         \A d \in S : new.hnext[d] = tab.hnext[d]
  PROVE  Holds(new, b, S)
<1>1. PICK q \in Seq(Clients) : IsChain(tab, b, q) /\ S = {q[i] : i \in 1..Len(q)}
  BY DEF Holds
<1>2. \A i \in 1..Len(q) : new.hnext[q[i]] = tab.hnext[q[i]]
  BY <1>1
<1>3. IsChain(new, b, q)
  BY <1>1, <1>2 DEF IsChain
<1> QED BY <1>1, <1>3 DEF Holds

\* add_to_client_hash_table puts a client that is in no chain in front of one.
LEMMA AddKeeps ==
  ASSUME NEW tab \in Tables, NEW n \in Nick \cup Host \cup {NoName}, NEW c \in Clients,
         NEW b \in Bucket, NEW S, Holds(tab, b, S), c \notin S
  PROVE  Holds(add_to_client_hash_table(tab, n, c), b, IF b = Slot[n] THEN S \cup {c} ELSE S)
<1> DEFINE new == add_to_client_hash_table(tab, n, c)
<1>1. /\ new.head = [tab.head EXCEPT ![Slot[n]] = c]
      /\ new.hnext = [tab.hnext EXCEPT ![c] = tab.head[Slot[n]]]
      /\ new.links = [tab.links EXCEPT ![Slot[n]] = @ + 1]
  BY DEF add_to_client_hash_table
<1>2. Slot[n] \in Bucket
  BY HashAssumption
<1>3. /\ tab.head \in [Bucket -> Clients \cup {NoClient}]
      /\ tab.hnext \in [Clients -> Clients \cup {NoClient}]
      /\ tab.links \in [Bucket -> Nat]
  BY DEF Tables
<1> HIDE DEF new
<1>4. PICK q \in Seq(Clients) : IsChain(tab, b, q) /\ S = {q[i] : i \in 1..Len(q)}
  BY DEF Holds
<1>5. Len(q) \in Nat /\ q \in [1..Len(q) -> Clients]
  BY LenProperties
<1>6. CASE b # Slot[n]
  <2>1. \A d \in S : d \in Clients /\ d # c
    BY <1>4, <1>5
  <2>2. new.head[b] = tab.head[b] /\ new.links[b] = tab.links[b]
        /\ \A d \in S : new.hnext[d] = tab.hnext[d]
    BY <1>1, <1>2, <1>3, <1>6, <2>1
  <2>3. Holds(new, b, S)
    BY <2>2, Untouched
  <2> QED BY <1>6, <2>3 DEF new
<1>7. CASE b = Slot[n]
  <2> DEFINE r == <<c>> \o q
  <2>1. /\ r \in Seq(Clients) /\ Len(r) = Len(q) + 1 /\ r[1] = c
        /\ \A i \in 2..Len(q) + 1 : r[i] = q[i - 1] /\ i - 1 \in 1..Len(q)
    <3>1. <<c>> \in Seq(Clients) /\ Len(<<c>>) = 1 /\ <<c>>[1] = c
      OBVIOUS
    <3>2. /\ r \in Seq(Clients) /\ Len(r) = Len(<<c>>) + Len(q)
          /\ \A i \in 1..Len(<<c>>) + Len(q) :
               r[i] = IF i <= Len(<<c>>) THEN <<c>>[i] ELSE q[i - Len(<<c>>)]
      BY <3>1, ConcatProperties
    <3> HIDE DEF r
    <3>3. \A i \in 2..Len(q) + 1 : i \in 1..1 + Len(q) /\ ~(i <= 1) /\ i - 1 \in 1..Len(q)
      BY <1>5
    <3>4. 1 \in 1..1 + Len(q) /\ 1 + Len(q) = Len(q) + 1
      BY <1>5
    <3> QED BY <3>1, <3>2, <3>3, <3>4
  <2> HIDE DEF r
  <2>2. \A i \in 1..Len(r) : i = 1 \/ i \in 2..Len(q) + 1
    BY <1>5, <2>1
  <2>3. \A i \in 1..Len(q) : q[i] \in S /\ q[i] # c /\ i + 1 \in 2..Len(q) + 1 /\ (i + 1) - 1 = i
    BY <1>4, <1>5
  <2>4. \A i, j \in 1..Len(r) : r[i] = r[j] => i = j
    <3> TAKE i, j \in 1..Len(r)
    <3> HAVE r[i] = r[j]
    <3>0. \A h \in 2..Len(q) + 1 : r[h] # c
      BY <2>1, <2>3
    <3>1. (i = 1 /\ j = 1) \/ (i \in 2..Len(q) + 1 /\ j \in 2..Len(q) + 1)
      BY <2>1, <2>2, <3>0
    <3>2. CASE i \in 2..Len(q) + 1 /\ j \in 2..Len(q) + 1
      <4>1. q[i - 1] = q[j - 1] /\ i - 1 \in 1..Len(q) /\ j - 1 \in 1..Len(q)
        BY <2>1, <3>2
      <4>2. i - 1 = j - 1
        BY <1>4, <4>1 DEF IsChain
      <4> QED BY <3>2, <4>2
    <3> QED BY <3>1, <3>2
  <2>5. new.head[b] = At(r, 1)
    <3>1. 1 \in 1..Len(r)
      BY <1>5, <2>1
    <3> QED BY <1>1, <1>2, <1>3, <1>7, <2>1, <3>1 DEF At
  <2>6. ASSUME NEW i \in 1..Len(r) PROVE new.hnext[r[i]] = At(r, i + 1)
    <3>1. CASE i = 1
      <4>1. new.hnext[c] = tab.head[b]
        BY <1>1, <1>3, <1>7
      <4>2. tab.head[b] = At(q, 1)
        BY <1>4 DEF IsChain
      <4>3. At(q, 1) = At(r, 2)
        <5>1. 1 \in 1..Len(q) <=> 2 \in 1..Len(r)
          BY <1>5, <2>1
        <5>2. 1 \in 1..Len(q) => r[2] = q[1]
          <6>1. 1 \in 1..Len(q) => 2 \in 2..Len(q) + 1
            BY <1>5
          <6> QED BY <2>1, <6>1
        <5> QED BY <5>1, <5>2 DEF At
      <4> QED BY <2>1, <3>1, <4>1, <4>2, <4>3
    <3>2. CASE i \in 2..Len(q) + 1
      <4>1. r[i] = q[i - 1] /\ i - 1 \in 1..Len(q)
        BY <2>1, <3>2
      <4>2. new.hnext[r[i]] = tab.hnext[q[i - 1]]
        BY <1>1, <1>3, <1>5, <2>3, <4>1
      <4>3. tab.hnext[q[i - 1]] = At(q, i)
        <5>1. (i - 1) + 1 = i
          BY <3>2
        <5> QED BY <1>4, <4>1, <5>1 DEF IsChain
      <4>4. At(q, i) = At(r, i + 1)
        <5>1. i \in 1..Len(q) <=> i + 1 \in 1..Len(r)
          BY <1>5, <2>1, <3>2
        <5>2. i \in 1..Len(q) => r[i + 1] = q[i]
          BY <2>1, <2>3
        <5> QED BY <5>1, <5>2 DEF At
      <4> QED BY <4>2, <4>3, <4>4
    <3> QED BY <2>2, <3>1, <3>2
  <2>7. new.links[b] = Len(r)
    BY <1>1, <1>2, <1>3, <1>4, <1>7, <2>1 DEF IsChain
  <2>8. IsChain(new, b, r)
    BY <2>1, <2>4, <2>5, <2>6, <2>7 DEF IsChain
  <2>9. S \cup {c} = {r[i] : i \in 1..Len(r)}
    <3>1. 1 \in 1..Len(r) /\ \A i \in 1..Len(q) : i + 1 \in 1..Len(r) /\ r[i + 1] = q[i]
      BY <1>5, <2>1, <2>3
    <3>2. \A i \in 1..Len(r) : r[i] = c \/ r[i] \in S
      BY <1>4, <2>1, <2>2
    <3>3. ASSUME NEW d \in S PROVE \E i \in 1..Len(r) : r[i] = d
      <4>1. PICK i \in 1..Len(q) : q[i] = d
        BY <1>4
      <4> QED BY <3>1, <4>1
    <3>4. r[1] = c
      BY <2>1
    <3> QED BY <3>1, <3>2, <3>3, <3>4
  <2>10. Holds(new, b, S \cup {c})
    BY <2>1, <2>8, <2>9 DEF Holds
  <2> QED BY <1>7, <2>10 DEF new
<1> QED BY <1>6, <1>7

\* The table keeps its type when a client is filed.
LEMMA AddType ==
  ASSUME NEW tab \in Tables, NEW n \in Nick \cup Host \cup {NoName}, NEW c \in Clients
  PROVE  add_to_client_hash_table(tab, n, c) \in Tables
<1>1. Slot[n] \in Bucket
  BY HashAssumption
<1> QED BY <1>1 DEF Tables, add_to_client_hash_table

\* del_from_client_hash_table looks in one chain: it takes the client out of it,
LEMMA DelKeeps ==
  ASSUME NEW tab \in Tables, NEW n \in Nick \cup Host \cup {NoName}, NEW c \in Clients,
         NEW S, Holds(tab, Slot[n], S), c \in S
  PROVE  /\ Holds(del_from_client_hash_table(tab, n, c), Slot[n], S \ {c})
         /\ \A T : \A b \in Bucket : b # Slot[n] /\ Holds(tab, b, T) /\ S \cap T = {} =>
              Holds(del_from_client_hash_table(tab, n, c), b, T)
<1> DEFINE B == Slot[n]
           new == del_from_client_hash_table(tab, n, c)
<1>1. /\ tab.head \in [Bucket -> Clients \cup {NoClient}]
      /\ tab.hnext \in [Clients -> Clients \cup {NoClient}]
      /\ tab.links \in [Bucket -> Nat]
  BY DEF Tables
<1>2. B \in Bucket
  BY HashAssumption
<1>3. PICK q \in Seq(Clients) : IsChain(tab, B, q) /\ S = {q[i] : i \in 1..Len(q)}
  BY DEF Holds
<1>4. /\ Len(q) \in Nat /\ q \in [1..Len(q) -> Clients]
      /\ \A i, j \in 1..Len(q) : q[i] = q[j] => i = j
      /\ tab.head[B] = At(q, 1) /\ tab.links[B] = Len(q)
      /\ \A i \in 1..Len(q) : tab.hnext[q[i]] = At(q, i + 1)
  BY <1>3, LenProperties DEF IsChain
<1>5. PICK p \in 1..Len(q) : q[p] = c
  BY <1>3
<1>6. /\ Places(tab, B) = 0..Len(q) - 1
      /\ \A k \in 0..Len(q) - 1 : Walk(tab, B)[k] = q[k + 1] /\ k + 1 \in 1..Len(q)
      /\ Chain(tab, B) = S
  BY <1>3, ChainIs
<1>7. /\ new.head = [tab.head EXCEPT ![B] = IF @ = c THEN tab.hnext[c] ELSE @]
      /\ new.hnext = IF tab.head[B] = c THEN [tab.hnext EXCEPT ![c] = NoClient]
                     ELSE [tab.hnext EXCEPT ![Previous(tab, n, c)] = tab.hnext[c], ![c] = NoClient]
      /\ new.links = [tab.links EXCEPT ![B] = IF @ > 0 THEN @ - 1 ELSE @]
  BY <1>6 DEF del_from_client_hash_table, Tables
<1> HIDE DEF new
<1>8. tab.head[B] = q[1] /\ 1 \in 1..Len(q) /\ (q[1] = c <=> p = 1)
  <2>1. 1 \in 1..Len(q)
    BY <1>4
  <2> QED BY <1>4, <1>5, <2>1 DEF At
<1>9. p # 1 => Previous(tab, n, c) = q[p - 1] /\ p - 1 \in 1..Len(q)
  <2> SUFFICES ASSUME p # 1 PROVE Previous(tab, n, c) = q[p - 1] /\ p - 1 \in 1..Len(q)
    OBVIOUS
  <2> DEFINE Q(k) == Walk(tab, B)[k] = c /\ \A j \in 0..k - 1 : Walk(tab, B)[j] # c
             m == CHOOSE k \in Places(tab, B) : Q(k)
  <2>1. \A k \in 0..Len(q) - 1 : Walk(tab, B)[k] = c <=> k = p - 1
    <3> TAKE k \in 0..Len(q) - 1
    <3>1. Walk(tab, B)[k] = q[k + 1] /\ k + 1 \in 1..Len(q)
      BY <1>6
    <3>2. q[k + 1] = q[p] <=> k + 1 = p
      BY <1>4, <3>1
    <3>3. k + 1 = p <=> k = p - 1
      BY <1>4
    <3> QED BY <1>5, <3>1, <3>2, <3>3
  <2>2. p - 1 \in 0..Len(q) - 1 /\ \A j \in 0..p - 1 - 1 : j \in 0..Len(q) - 1 /\ j # p - 1
    BY <1>4
  <2>3. Q(p - 1)
    BY <2>1, <2>2
  <2>4. m \in 0..Len(q) - 1 /\ Q(m)
    <3>1. \E k \in Places(tab, B) : Q(k)
      BY <1>6, <2>2, <2>3
    <3> HIDE DEF Q
    <3> QED BY <1>6, <3>1
  <2> HIDE DEF m
  <2>5. m = p - 1
    BY <2>1, <2>4
  <2>6. Previous(tab, n, c) = Walk(tab, B)[m - 1]
    BY DEF Previous, m
  <2>7. m - 1 \in 0..Len(q) - 1 /\ (m - 1) + 1 = p - 1
    BY <1>4, <2>5
  <2> QED BY <1>6, <2>6, <2>7
<1>10. \A d \in Clients : d # c /\ ~(p # 1 /\ d = q[p - 1]) => new.hnext[d] = tab.hnext[d]
  BY <1>1, <1>7, <1>8, <1>9
<1>11. p # 1 => new.hnext[q[p - 1]] = tab.hnext[c]
  <2> SUFFICES ASSUME p # 1 PROVE new.hnext[q[p - 1]] = tab.hnext[c]
    OBVIOUS
  <2>1. p - 1 \in 1..Len(q) /\ p - 1 # p
    BY <1>4, <1>9
  <2>2. q[p - 1] \in Clients /\ q[p - 1] # c
    BY <1>4, <1>5, <2>1
  <2>3. new.hnext = [tab.hnext EXCEPT ![q[p - 1]] = tab.hnext[c], ![c] = NoClient]
    BY <1>7, <1>8, <1>9
  <2> QED BY <1>1, <2>2, <2>3
<1>12. Holds(new, B, S \ {c})
  <2> DEFINE r == RemoveAt(q, p)
  <2>1. /\ r \in Seq(Clients) /\ Len(r) = Len(q) - 1
        /\ \A i \in 1..Len(q) - 1 : r[i] = IF i < p THEN q[i] ELSE q[i + 1]
    BY RemoveAtIs
  <2> HIDE DEF r
  <2>2. \A i \in 1..Len(r) :
          /\ i \in 1..Len(q) /\ i + 1 \in 1..Len(q)
          /\ i < p => (r[i] = q[i] /\ i # p)
          /\ ~(i < p) => (r[i] = q[i + 1] /\ i + 1 # p)
    BY <1>4, <2>1
  <2>3. \A i, j \in 1..Len(r) : r[i] = r[j] => i = j
    <3> TAKE i, j \in 1..Len(r)
    <3> HAVE r[i] = r[j]
    <3>1. CASE i < p /\ j < p
      <4>1. q[i] = q[j] /\ i \in 1..Len(q) /\ j \in 1..Len(q)
        BY <2>2, <3>1
      <4> QED BY <1>4, <4>1
    <3>2. CASE ~(i < p) /\ ~(j < p)
      <4>1. q[i + 1] = q[j + 1] /\ i + 1 \in 1..Len(q) /\ j + 1 \in 1..Len(q)
        BY <2>2, <3>2
      <4>2. i + 1 = j + 1
        BY <1>4, <4>1
      <4> QED BY <4>2
    <3>3. CASE i < p /\ ~(j < p)
      <4>1. q[i] = q[j + 1] /\ i \in 1..Len(q) /\ j + 1 \in 1..Len(q)
        BY <2>2, <3>3
      <4>2. i = j + 1
        BY <1>4, <4>1
      <4> QED BY <3>3, <4>2
    <3>4. CASE ~(i < p) /\ j < p
      <4>1. q[j] = q[i + 1] /\ j \in 1..Len(q) /\ i + 1 \in 1..Len(q)
        BY <2>2, <3>4
      <4>2. j = i + 1
        BY <1>4, <4>1
      <4> QED BY <3>4, <4>2
    <3> QED BY <3>1, <3>2, <3>3, <3>4
  <2>4. \A i \in p..Len(q) : At(r, i) = At(q, i + 1)
    <3> TAKE i \in p..Len(q)
    <3>1. (i \in 1..Len(r) <=> i + 1 \in 1..Len(q)) /\ ~(i < p)
      BY <1>4, <2>1
    <3> QED BY <2>2, <3>1 DEF At
  <2>5. \A i \in 1..p - 1 : At(r, i) = At(q, i) /\ i \in 1..Len(r) /\ i \in 1..Len(q)
    <3> TAKE i \in 1..p - 1
    <3>1. i \in 1..Len(r) /\ i \in 1..Len(q) /\ i < p
      BY <1>4, <2>1
    <3> QED BY <2>2, <3>1 DEF At
  <2>6. new.head[B] = At(r, 1)
    <3>1. CASE p = 1
      <4>1. new.head[B] = tab.hnext[c]
        BY <1>1, <1>2, <1>7, <1>8, <3>1
      <4>2. tab.hnext[c] = At(q, 1 + 1)
        BY <1>4, <1>5, <3>1
      <4>3. 1 \in p..Len(q)
        BY <1>4, <3>1
      <4> QED BY <2>4, <4>1, <4>2, <4>3
    <3>2. CASE p # 1
      <4>1. new.head[B] = tab.head[B]
        BY <1>1, <1>2, <1>7, <1>8, <3>2
      <4>2. 1 \in 1..p - 1
        BY <1>4, <3>2
      <4> QED BY <1>4, <2>5, <4>1, <4>2
    <3> QED BY <3>1, <3>2
  <2>7. ASSUME NEW i \in 1..Len(r) PROVE new.hnext[r[i]] = At(r, i + 1)
    <3>1. CASE ~(i < p)
      <4>1. r[i] = q[i + 1] /\ i + 1 \in 1..Len(q) /\ i + 1 # p /\ i + 1 # p - 1 /\ i + 1 \in p..Len(q)
        BY <1>4, <2>1, <2>2, <3>1
      <4>2. q[i + 1] \in Clients /\ q[i + 1] # c /\ ~(p # 1 /\ q[i + 1] = q[p - 1])
        BY <1>4, <1>5, <1>9, <4>1
      <4>3. new.hnext[q[i + 1]] = tab.hnext[q[i + 1]]
        BY <1>10, <4>2
      <4>4. tab.hnext[q[i + 1]] = At(q, (i + 1) + 1)
        BY <1>4, <4>1
      <4> QED BY <2>4, <4>1, <4>3, <4>4
    <3>2. CASE i < p - 1
      <4>1. r[i] = q[i] /\ i \in 1..Len(q) /\ i # p /\ i # p - 1 /\ i + 1 \in 1..p - 1
        BY <1>4, <2>1, <2>2, <3>2
      <4>2. q[i] \in Clients /\ q[i] # c /\ ~(p # 1 /\ q[i] = q[p - 1])
        BY <1>4, <1>5, <1>9, <4>1
      <4>3. new.hnext[q[i]] = tab.hnext[q[i]]
        BY <1>10, <4>2
      <4>4. tab.hnext[q[i]] = At(q, i + 1)
        BY <1>4, <4>1
      <4> QED BY <2>5, <4>1, <4>3, <4>4
    <3>3. CASE i = p - 1
      <4>1. r[i] = q[p - 1] /\ p # 1 /\ i + 1 = p /\ p \in p..Len(q)
        BY <1>4, <2>1, <2>2, <3>3
      <4>2. new.hnext[r[i]] = tab.hnext[c]
        BY <1>11, <4>1
      <4>3. tab.hnext[c] = At(q, p + 1)
        BY <1>4, <1>5
      <4> QED BY <2>4, <4>1, <4>2, <4>3
    <3> QED BY <1>4, <3>1, <3>2, <3>3
  <2>8. new.links[B] = Len(r)
    <3>1. tab.links[B] = Len(q) /\ Len(q) > 0
      BY <1>4, <1>8
    <3> QED BY <1>1, <1>2, <1>7, <2>1, <3>1
  <2>9. IsChain(new, B, r)
    BY <2>1, <2>3, <2>6, <2>7, <2>8 DEF IsChain
  <2>10. S \ {c} = {r[i] : i \in 1..Len(r)}
    <3>1. \A i \in 1..Len(r) : r[i] \in S \ {c}
      <4> TAKE i \in 1..Len(r)
      <4>1. CASE i < p
        BY <1>3, <1>4, <1>5, <2>2, <4>1
      <4>2. CASE ~(i < p)
        BY <1>3, <1>4, <1>5, <2>2, <4>2
      <4> QED BY <4>1, <4>2
    <3>2. ASSUME NEW d \in S \ {c} PROVE \E i \in 1..Len(r) : r[i] = d
      <4>1. PICK j \in 1..Len(q) : q[j] = d /\ j # p
        BY <1>3, <1>5
      <4>2. CASE j < p
        <5>1. j \in 1..Len(r)
          BY <1>4, <2>1, <4>2
        <5> QED BY <2>2, <4>1, <4>2, <5>1
      <4>3. CASE j > p
        <5>1. j - 1 \in 1..Len(r) /\ ~(j - 1 < p) /\ (j - 1) + 1 = j
          BY <1>4, <2>1, <4>3
        <5> QED BY <2>2, <4>1, <5>1
      <4> QED BY <1>4, <4>1, <4>2, <4>3
    <3> QED BY <3>1, <3>2
  <2> QED BY <2>1, <2>9, <2>10 DEF Holds
<1>13. ASSUME NEW b \in Bucket, NEW T, b # B, Holds(tab, b, T), S \cap T = {}
       PROVE  Holds(new, b, T)
  <2>1. new.head[b] = tab.head[b] /\ new.links[b] = tab.links[b]
    BY <1>1, <1>7, <1>13
  <2>2. T \subseteq Clients
    <3>1. PICK x \in Seq(Clients) : T = {x[i] : i \in 1..Len(x)}
      BY <1>13 DEF Holds
    <3> QED BY <3>1, LenProperties
  <2>3. ASSUME NEW d \in T PROVE new.hnext[d] = tab.hnext[d]
    <3>1. d \in Clients /\ d \notin S /\ d # c
      BY <1>13, <2>2
    <3>2. p # 1 => q[p - 1] \in S
      BY <1>3, <1>9
    <3> QED BY <1>10, <3>1, <3>2
  <2> QED BY <1>13, <2>1, <2>3, Untouched
<1> QED BY <1>12, <1>13 DEF new

\* and when he is not there it changes nothing.
LEMMA DelNone ==
  ASSUME NEW tab, NEW n, NEW c, NEW S, Holds(tab, Slot[n], S), c \notin S
  PROVE  del_from_client_hash_table(tab, n, c) = tab
<1>1. PICK q \in Seq(Clients) :
        IsChain(tab, Slot[n], q) /\ S = {q[i] : i \in 1..Len(q)}
  BY DEF Holds
<1>2. Chain(tab, Slot[n]) = S
  BY <1>1, ChainIs
<1> QED BY <1>2 DEF del_from_client_hash_table

\* The table keeps its type when a client is taken out.
LEMMA DelType ==
  ASSUME NEW tab \in Tables, NEW n \in Nick \cup Host \cup {NoName}, NEW c \in Clients
  PROVE  del_from_client_hash_table(tab, n, c) \in Tables
<1>1. Slot[n] \in Bucket
  BY HashAssumption
<1> DEFINE new == del_from_client_hash_table(tab, n, c)
<1>2. /\ tab.head \in [Bucket -> Clients \cup {NoClient}]
      /\ tab.hnext \in [Clients -> Clients \cup {NoClient}]
      /\ tab.links \in [Bucket -> Nat]
  BY DEF Tables
<1>3. CASE c \notin Chain(tab, Slot[n])
  BY <1>3 DEF del_from_client_hash_table
<1>4. CASE c \in Chain(tab, Slot[n])
  <2> DEFINE h == [tab.head EXCEPT ![Slot[n]] = IF @ = c THEN tab.hnext[c] ELSE @]
             x == IF tab.head[Slot[n]] = c THEN [tab.hnext EXCEPT ![c] = NoClient]
                  ELSE [tab.hnext EXCEPT ![Previous(tab, n, c)] = tab.hnext[c], ![c] = NoClient]
             l == [tab.links EXCEPT ![Slot[n]] = IF @ > 0 THEN @ - 1 ELSE @]
  <2>1. new = [tab EXCEPT !.head = h, !.hnext = x, !.links = l]
    BY <1>4 DEF del_from_client_hash_table, Tables
  <2>2. h \in [Bucket -> Clients \cup {NoClient}]
    BY <1>1, <1>2
  <2>3. x \in [Clients -> Clients \cup {NoClient}]
    BY <1>2
  <2>4. l \in [Bucket -> Nat]
    <3>1. tab.links[Slot[n]] \in Nat
      BY <1>1, <1>2
    <3> QED BY <1>1, <1>2, <3>1
  <2> HIDE DEF new, h, x, l
  <2> QED BY <2>1, <2>2, <2>3, <2>4 DEF Tables, new
<1> QED BY <1>3, <1>4

\* Who is the first with the name in a chain: no one, or one of those who have it.
LEMMA FirstIs ==
  ASSUME NEW tab, NEW n, NEW among, NEW S, Holds(tab, Slot[n], S)
  PROVE  LET f == First(tab, n, among) IN
         /\ f # NoClient => f \in S /\ f \in among /\ name[f] = n
         /\ f = NoClient => \A c \in S : c \in among => name[c] # n
<1>1. PICK q \in Seq(Clients) :
        IsChain(tab, Slot[n], q) /\ S = {q[i] : i \in 1..Len(q)}
  BY DEF Holds
<1> DEFINE b == Slot[n]
           fits == {k \in Places(tab, b) : Walk(tab, b)[k] \in among /\ name[Walk(tab, b)[k]] = n}
           m == CHOOSE k \in fits : \A j \in fits : k <= j
<1>2. /\ Places(tab, b) = 0..Len(q) - 1
      /\ \A k \in 0..Len(q) - 1 : Walk(tab, b)[k] = q[k + 1] /\ k + 1 \in 1..Len(q)
  BY <1>1, ChainIs
<1>3. Len(q) \in Nat /\ q \in [1..Len(q) -> Clients]
  BY LenProperties
<1>4. First(tab, n, among) = IF fits = {} THEN NoClient ELSE Walk(tab, b)[m]
  BY DEF First
<1>5. CASE fits = {}
  <2>1. ASSUME NEW c \in S, c \in among PROVE name[c] # n
    <3>1. PICK i \in 1..Len(q) : c = q[i]
      BY <1>1
    <3>2. i - 1 \in 0..Len(q) - 1 /\ (i - 1) + 1 = i
      BY <1>3
    <3>3. i - 1 \in Places(tab, b) /\ Walk(tab, b)[i - 1] = c
      BY <1>2, <3>1, <3>2
    <3> QED BY <1>5, <2>1, <3>3
  <2> QED BY <1>4, <1>5, <2>1
<1>6. CASE fits # {}
  <2>1. fits \in SUBSET Nat
    BY <1>2, <1>3
  <2>2. \E k \in fits : \A j \in fits : k <= j
    <3> HIDE DEF fits
    <3> QED BY <1>6, <2>1, LeastNat
  <2>3. m \in fits
    <3> HIDE DEF fits
    <3> QED BY <2>2
  <2> HIDE DEF m
  <2>4. m \in Places(tab, b) /\ Walk(tab, b)[m] \in among /\ name[Walk(tab, b)[m]] = n
    BY <2>3
  <2>5. Walk(tab, b)[m] \in S /\ Walk(tab, b)[m] # NoClient
    <3>1. Walk(tab, b)[m] = q[m + 1] /\ m + 1 \in 1..Len(q)
      BY <1>2, <2>4
    <3> QED BY <1>1, <1>3, <3>1, HashAssumption
  <2> HIDE DEF fits, b
  <2> QED BY <1>4, <1>6, <2>4, <2>5
<1> QED BY <1>5, <1>6

\* HASH r files the clients of the list one after the other.
LEMMA FiledIs ==
  ASSUME clients \in Seq(Clients), \A i, j \in 1..Len(clients) : clients[i] = clients[j] => i = j,
         name \in [Clients -> Nick \cup Host \cup {NoName}]
  PROVE  /\ Filed \in Tables
         /\ \A b \in Bucket :
              Holds(Filed, b, {c \in Clients : Listed(c) /\ Slot[name[c]] = b})
<1> DEFINE L == Len(clients)
           F(m, g) == g = [n \in 0..m |-> IF n = 0 THEN Empty
                            ELSE add_to_client_hash_table(g[n - 1], name[clients[n]], clients[n])]
           G == {m \in 0..L : \E g : F(m, g)}
           rest == CHOOSE g : F(L, g)
<1>0. Filed = rest[L]
  BY DEF Filed
<1>00. L \in Nat /\ DOMAIN clients = 1..L /\ clients \in [1..L -> Clients]
  BY LenProperties
<1> HIDE DEF rest, L
<1>1. 0 \in G
  <2> DEFINE g == [n \in 0..0 |-> Empty]
  <2>1. F(0, g)
    OBVIOUS
  <2>2. 0 \in 0..L
    BY <1>00
  <2> HIDE DEF g, F
  <2> QED BY <2>1, <2>2
<1>2. ASSUME NEW m \in 0..L, m # L, m \in G PROVE m + 1 \in G
  <2>1. PICK g : F(m, g)
    BY <1>2
  <2> DEFINE new == add_to_client_hash_table(g[m], name[clients[m + 1]], clients[m + 1])
             h == [n \in 0..(m + 1) |-> IF n = m + 1 THEN new ELSE g[n]]
  <2>2. \A n \in 0..m : h[n] = g[n] /\ g[n] = IF n = 0 THEN Empty
                   ELSE add_to_client_hash_table(g[n - 1], name[clients[n]], clients[n])
    BY <2>1
  <2>3. ASSUME NEW n \in 0..(m + 1)
        PROVE  h[n] = IF n = 0 THEN Empty
                      ELSE add_to_client_hash_table(h[n - 1], name[clients[n]], clients[n])
    <3>1. CASE n = m + 1
      <4>1. h[n] = new /\ n # 0 /\ n - 1 = m /\ m \in 0..m
        BY <3>1
      <4>2. h[m] = g[m]
        BY <2>2, <4>1
      <4> HIDE DEF h
      <4> QED BY <3>1, <4>1, <4>2
    <3>2. CASE n # m + 1
      <4>1. n \in 0..m /\ (n # 0 => n - 1 \in 0..m)
        BY <3>2
      <4> HIDE DEF h
      <4> QED BY <2>2, <4>1
    <3> QED BY <3>1, <3>2
  <2>4. F(m + 1, h)
    BY <2>3
  <2>5. m + 1 \in 0..L
    BY <1>00, <1>2
  <2> HIDE DEF h, F
  <2> QED BY <2>4, <2>5
<1>3. 0..L \subseteq G
  <2> HIDE DEF G
  <2> QED BY <1>00, <1>1, <1>2, InductUpTo
<1>4. \E g : F(L, g)
  <2>1. L \in 0..L
    BY <1>00
  <2> HIDE DEF F
  <2> QED BY <1>3, <2>1
<1>5. F(L, rest)
  BY <1>4 DEF rest
<1>6. \A n \in 0..L : rest[n] = IF n = 0 THEN Empty
                   ELSE add_to_client_hash_table(rest[n - 1], name[clients[n]], clients[n])
  BY <1>5
<1> HIDE DEF F, G
<1> DEFINE D(n, b) == {c \in Clients : \E i \in 1..n : clients[i] = c /\ Slot[name[c]] = b}
           Q == {n \in 0..L : rest[n] \in Tables /\ \A b \in Bucket : Holds(rest[n], b, D(n, b))}
<1>7. 0 \in Q
  <2>1. rest[0] = Empty /\ 0 \in 0..L
    BY <1>00, <1>6
  <2>2. Empty \in Tables
    BY DEF Empty, Tables
  <2>3. ASSUME NEW b \in Bucket PROVE Holds(Empty, b, D(0, b))
    <3>1. <<>> \in Seq(Clients) /\ Len(<<>>) = 0 /\ 1..0 = {}
      OBVIOUS
    <3>2. Empty.head[b] = NoClient /\ Empty.links[b] = 0
      BY DEF Empty
    <3>3. IsChain(Empty, b, <<>>)
      BY <3>1, <3>2 DEF IsChain, At
    <3>4. D(0, b) = {<<>>[i] : i \in 1..Len(<<>>)}
      BY <3>1
    <3> HIDE DEF D
    <3> QED BY <3>1, <3>3, <3>4 DEF Holds
  <2> HIDE DEF D
  <2> QED BY <2>1, <2>2, <2>3
<1>8. ASSUME NEW m \in 0..L, m # L, m \in Q PROVE m + 1 \in Q
  <2> DEFINE c == clients[m + 1]
  <2>1. m + 1 \in 0..L /\ m + 1 \in 1..L /\ m + 1 # 0 /\ (m + 1) - 1 = m /\ c \in Clients
        /\ name[c] \in Nick \cup Host \cup {NoName}
    BY <1>00, <1>8
  <2>2. rest[m + 1] = add_to_client_hash_table(rest[m], name[c], c)
    BY <1>6, <2>1
  <2>3. rest[m] \in Tables /\ \A b \in Bucket : Holds(rest[m], b, D(m, b))
    BY <1>8
  <2>4. rest[m + 1] \in Tables
    <3> HIDE DEF c, D
    <3> QED BY <2>1, <2>2, <2>3, AddType
  <2>5. ASSUME NEW b \in Bucket PROVE Holds(rest[m + 1], b, D(m + 1, b))
    <3>1. c \notin D(m, b)
      <4>1. \A i \in 1..m : i \in 1..L /\ i # m + 1
        BY <1>00
      <4> QED BY <2>1, <4>1 DEF L
    <3>2. Holds(rest[m + 1], b, IF b = Slot[name[c]] THEN D(m, b) \cup {c} ELSE D(m, b))
      <4> DEFINE T == D(m, b)
      <4>1. Holds(rest[m], b, T) /\ c \notin T /\ rest[m] \in Tables
        BY <2>3, <3>1
      <4> HIDE DEF D, c, T
      <4>2. Holds(add_to_client_hash_table(rest[m], name[c], c), b,
                  IF b = Slot[name[c]] THEN T \cup {c} ELSE T)
        BY <2>1, <4>1, AddKeeps
      <4> QED BY <2>2, <4>2 DEF T
    <3>3. D(m + 1, b) = IF b = Slot[name[c]] THEN D(m, b) \cup {c} ELSE D(m, b)
      <4>1. \A i \in 1..m + 1 : i \in 1..m \/ i = m + 1
        OBVIOUS
      <4>2. \A i \in 1..m : i \in 1..m + 1
        OBVIOUS
      <4>3. m + 1 \in 1..m + 1
        OBVIOUS
      <4>4. ASSUME NEW d \in Clients
            PROVE  d \in D(m + 1, b) <=> (d \in D(m, b) \/ (d = c /\ b = Slot[name[c]]))
        BY <4>1, <4>2, <4>3
      <4>5. D(m + 1, b) \subseteq Clients /\ D(m, b) \subseteq Clients
        OBVIOUS
      <4> HIDE DEF D, c
      <4> QED BY <2>1, <4>4, <4>5
    <3> HIDE DEF D
    <3> QED BY <3>2, <3>3
  <2> HIDE DEF D
  <2> QED BY <2>1, <2>4, <2>5
<1>9. L \in Q
  <2> HIDE DEF Q
  <2>1. 0..L \subseteq Q
    BY <1>00, <1>7, <1>8, InductUpTo
  <2> QED BY <1>00, <2>1
<1>10. \A b \in Bucket : D(L, b) = {c \in Clients : Listed(c) /\ Slot[name[c]] = b}
  BY <1>00 DEF Listed
<1> HIDE DEF D
<1> QED BY <1>0, <1>9, <1>10

-----------------------------------------------------------------------------
(* Who is filed.                                                           *)

\* A client is filed under the name it has, unless it is being dialled.
Placed(k, nm, c) == k[c] # "dialing" /\ nm[c] # NoName
InBucket(k, nm, b) == {c \in Clients : Placed(k, nm, c) /\ Slot[nm[c]] = b}

Names == Nick \cup Host \cup {NoName}

\* One client more is filed.
LEMMA AddStep ==
  ASSUME NEW tab \in Tables, NEW k, NEW nm, NEW k2, NEW nm2, NEW c \in Clients,
         NEW n \in Names, n # NoName,
         \A b \in Bucket : Holds(tab, b, InBucket(k, nm, b)), ~Placed(k, nm, c),
         nm2[c] = n, k2[c] # "dialing",
         \A d \in Clients : d # c => k2[d] = k[d] /\ nm2[d] = nm[d]
  PROVE  \A b \in Bucket : Holds(add_to_client_hash_table(tab, n, c), b, InBucket(k2, nm2, b))
<1> TAKE b \in Bucket
<1> DEFINE S == InBucket(k, nm, b)
<1>1. Holds(tab, b, S) /\ c \notin S
  BY DEF InBucket
<1>2. InBucket(k2, nm2, b) = IF b = Slot[n] THEN S \cup {c} ELSE S
  BY DEF InBucket, Placed
<1> HIDE DEF S
<1>3. Holds(add_to_client_hash_table(tab, n, c), b, IF b = Slot[n] THEN S \cup {c} ELSE S)
  BY <1>1, AddKeeps DEF Names
<1> QED BY <1>2, <1>3

\* One client less.
LEMMA DelStep ==
  ASSUME NEW tab \in Tables, NEW k, NEW nm, NEW k2, NEW nm2, NEW c \in Clients,
         nm[c] \in Names,
         \A b \in Bucket : Holds(tab, b, InBucket(k, nm, b)), ~Placed(k2, nm2, c),
         \A d \in Clients : d # c => k2[d] = k[d] /\ nm2[d] = nm[d]
  PROVE  \A b \in Bucket :
           Holds(del_from_client_hash_table(tab, nm[c], c), b, InBucket(k2, nm2, b))
<1> DEFINE n == nm[c]
           S == InBucket(k, nm, Slot[n])
           new == del_from_client_hash_table(tab, n, c)
<1>1. Slot[n] \in Bucket
  BY HashAssumption DEF Names
<1>2. CASE Placed(k, nm, c)
  <2>1. c \in S
    BY <1>2 DEF InBucket
  <2>2. InBucket(k2, nm2, Slot[n]) = S \ {c}
    BY DEF InBucket, Placed
  <2>3. \A b \in Bucket : b # Slot[n] =>
          InBucket(k2, nm2, b) = InBucket(k, nm, b) /\ S \cap InBucket(k, nm, b) = {}
    BY DEF InBucket, Placed
  <2>4. /\ Holds(new, Slot[n], S \ {c})
        /\ \A T : \A b \in Bucket : b # Slot[n] /\ Holds(tab, b, T) /\ S \cap T = {} =>
             Holds(new, b, T)
    <3>1. Holds(tab, Slot[n], S)
      BY <1>1
    <3> HIDE DEF S, n
    <3>2. n \in Nick \cup Host \cup {NoName}
      BY DEF n, Names
    <3> QED BY <2>1, <3>1, <3>2, DelKeeps
  <2> HIDE DEF S, n, new
  <2>5. ASSUME NEW b \in Bucket PROVE Holds(new, b, InBucket(k2, nm2, b))
    <3>1. CASE b = Slot[n]
      BY <2>2, <2>4, <3>1
    <3>2. CASE b # Slot[n]
      BY <2>3, <2>4, <3>2
    <3> QED BY <3>1, <3>2
  <2> QED BY <2>5 DEF new, n
<1>3. CASE ~Placed(k, nm, c)
  <2>1. \A b \in Bucket : InBucket(k2, nm2, b) = InBucket(k, nm, b)
    BY <1>3 DEF InBucket, Placed
  <2>2. Holds(tab, Slot[n], S) /\ c \notin S
    BY <1>1, <1>3 DEF InBucket
  <2>3. new = tab
    <3> HIDE DEF S
    <3> QED BY <2>2, DelNone
  <2> QED BY <2>1, <2>3
<1> QED BY <1>2, <1>3

Distinct(l) == \A i, j \in 1..Len(l) : l[i] = l[j] => i = j
In(l, c) == \E i \in 1..Len(l) : l[i] = c

\* The list stays one of different clients when a new one comes in front.
LEMMA ListedFirst ==
  ASSUME NEW l \in Seq(Clients), Distinct(l), NEW c \in Clients, ~In(l, c)
  PROVE  /\ <<c>> \o l \in Seq(Clients) /\ Distinct(<<c>> \o l)
         /\ \A d \in Clients : In(<<c>> \o l, d) <=> (d = c \/ In(l, d))
<1> DEFINE r == <<c>> \o l
<1>1. Len(l) \in Nat /\ l \in [1..Len(l) -> Clients]
  BY LenProperties
<1>2. /\ r \in Seq(Clients) /\ Len(r) = 1 + Len(l)
      /\ \A i \in 1..1 + Len(l) : r[i] = IF i <= 1 THEN c ELSE l[i - 1]
  <2>1. <<c>> \in Seq(Clients) /\ Len(<<c>>) = 1 /\ <<c>>[1] = c
    OBVIOUS
  <2>2. /\ r \in Seq(Clients) /\ Len(r) = Len(<<c>>) + Len(l)
        /\ \A i \in 1..Len(<<c>>) + Len(l) :
             r[i] = IF i <= Len(<<c>>) THEN <<c>>[i] ELSE l[i - Len(<<c>>)]
    BY <2>1, ConcatProperties
  <2> HIDE DEF r
  <2>3. \A i \in 1..1 + Len(l) : i <= 1 => i = 1
    BY <1>1
  <2> QED BY <2>1, <2>2, <2>3
<1> HIDE DEF r
<1>3. /\ r[1] = c /\ 1 \in 1..Len(r)
      /\ \A i \in 1..Len(l) : r[i + 1] = l[i] /\ i + 1 \in 1..Len(r)
      /\ \A i \in 1..Len(r) : i # 1 => (r[i] = l[i - 1] /\ i - 1 \in 1..Len(l))
  <2>1. \A i \in 1..Len(l) : i + 1 \in 1..1 + Len(l) /\ ~(i + 1 <= 1) /\ (i + 1) - 1 = i
    BY <1>1
  <2>2. \A i \in 1..1 + Len(l) : i # 1 => (~(i <= 1) /\ i - 1 \in 1..Len(l))
    BY <1>1
  <2>3. 1 \in 1..1 + Len(l)
    BY <1>1
  <2> QED BY <1>2, <2>1, <2>2, <2>3
<1>4. Distinct(r)
  <2> SUFFICES ASSUME NEW i \in 1..Len(r), NEW j \in 1..Len(r), r[i] = r[j] PROVE i = j
    BY DEF Distinct
  <2>1. CASE i = 1 \/ j = 1
    <3>1. \A h \in 1..Len(r) : h # 1 => r[h] # c
      BY <1>3 DEF In
    <3>2. r[1] = c
      BY <1>3
    <3> QED BY <2>1, <3>1, <3>2
  <2>2. CASE i # 1 /\ j # 1
    <3>1. l[i - 1] = l[j - 1] /\ i - 1 \in 1..Len(l) /\ j - 1 \in 1..Len(l)
      BY <1>3, <2>2
    <3>2. i - 1 = j - 1
      BY <3>1 DEF Distinct
    <3> QED BY <3>2
  <2> QED BY <2>1, <2>2
<1>5. \A d \in Clients : In(r, d) <=> (d = c \/ In(l, d))
  BY <1>3 DEF In
<1> QED BY <1>2, <1>4, <1>5 DEF r

\* Off takes one client off the list and no other.
LEMMA OffIs ==
  ASSUME clients \in Seq(Clients), Distinct(clients), NEW c \in Clients, In(clients, c)
  PROVE  /\ Off(c) \in Seq(Clients) /\ Distinct(Off(c))
         /\ \A d \in Clients : In(Off(c), d) <=> (d # c /\ In(clients, d))
<1> DEFINE p == CHOOSE i \in DOMAIN clients : clients[i] = c
           r == Off(c)
<1>1. Len(clients) \in Nat /\ clients \in [1..Len(clients) -> Clients] /\ DOMAIN clients = 1..Len(clients)
  BY LenProperties
<1>2. p \in 1..Len(clients) /\ clients[p] = c
  BY <1>1 DEF In
<1> HIDE DEF p
<1>3. /\ r \in Seq(Clients) /\ Len(r) = Len(clients) - 1
      /\ \A i \in 1..Len(clients) - 1 : r[i] = IF i < p THEN clients[i] ELSE clients[i + 1]
  BY <1>2, RemoveAtIs DEF Off, p
<1> HIDE DEF r
<1> DEFINE Was(i) == IF i < p THEN i ELSE i + 1
<1>4. \A i \in 1..Len(r) : Was(i) \in 1..Len(clients) /\ Was(i) # p /\ r[i] = clients[Was(i)]
  BY <1>1, <1>2, <1>3
<1>5. \A i, j \in 1..Len(r) : Was(i) = Was(j) => i = j
  BY <1>1, <1>2, <1>3
<1>6. \A i \in 1..Len(clients) : i # p => \E j \in 1..Len(r) : Was(j) = i
  <2> TAKE i \in 1..Len(clients)
  <2> HAVE i # p
  <2>1. CASE i < p
    <3>1. i \in 1..Len(r) /\ Was(i) = i
      BY <1>1, <1>2, <1>3, <2>1
    <3> QED BY <3>1
  <2>2. CASE i > p
    <3>1. i - 1 \in 1..Len(r) /\ Was(i - 1) = i
      BY <1>1, <1>2, <1>3, <2>2
    <3> QED BY <3>1
  <2> QED BY <1>1, <1>2, <2>1, <2>2
<1> HIDE DEF Was
<1>7. Distinct(r)
  BY <1>4, <1>5 DEF Distinct
<1>8. ASSUME NEW d \in Clients PROVE In(r, d) <=> (d # c /\ In(clients, d))
  <2>1. ASSUME In(r, d) PROVE d # c /\ In(clients, d)
    <3>1. PICK i \in 1..Len(r) : r[i] = d
      BY <2>1 DEF In
    <3> QED BY <1>2, <1>4, <3>1 DEF In, Distinct
  <2>2. ASSUME d # c, In(clients, d) PROVE In(r, d)
    <3>1. PICK i \in 1..Len(clients) : clients[i] = d
      BY <2>2 DEF In
    <3>2. PICK j \in 1..Len(r) : Was(j) = i
      BY <1>2, <1>6, <2>2, <3>1
    <3> QED BY <1>4, <3>1, <3>2 DEF In
  <2> QED BY <2>1, <2>2
<1> QED BY <1>3, <1>7, <1>8 DEF r

-----------------------------------------------------------------------------
(* The inductive invariant.                                                *)

NamedFor(k, n) ==
  /\ k = "free" => n = NoName
  /\ k = "unknown" => n \in Nick \cup {NoName}
  /\ k = "person" => n \in Nick
  /\ k \in {"dialing", "server"} => n \in Host

HashTyped ==
  /\ kind \in [Clients -> {"free", "unknown", "dialing", "person", "server"}]
  /\ name \in [Clients -> Names] /\ table \in Tables /\ stray \in BOOLEAN
  /\ \A c \in Clients : NamedFor(kind[c], name[c])

ListRight ==
  /\ clients \in Seq(Clients) /\ Distinct(clients)
  /\ \A c \in Clients : In(clients, c) <=> kind[c] # "free"

\* A name is of one client only, among those who are filed.
OneEach ==
  \A c, d \in Clients :
    Placed(kind, name, c) /\ Placed(kind, name, d) /\ name[c] = name[d] => c = d

BucketsRight == \A b \in Bucket : Holds(table, b, InBucket(kind, name, b))

HashInv == HashTyped /\ ListRight /\ (~stray => OneEach /\ BucketsRight)

\* Listed is In, of the list of all clients.
LEMMA ListedIs ==
  ASSUME ListRight
  PROVE  \A c : Listed(c) <=> In(clients, c)
  BY LenProperties DEF ListRight, Listed, In

\* A client that is filed is found by its name, and a name nobody has is not found.
LEMMA FindClient ==
  ASSUME HashInv, ~stray, NEW n \in Names
  PROVE  /\ \A c \in Clients : Placed(kind, name, c) /\ name[c] = n => hash_find_client(n) = c
         /\ hash_find_client(n) = NoClient =>
              \A c \in Clients : Placed(kind, name, c) => name[c] # n
<1> DEFINE S == InBucket(kind, name, Slot[n])
           f == First(table, n, Clients)
<1>1. Slot[n] \in Bucket
  BY HashAssumption DEF Names
<1>2. Holds(table, Slot[n], S)
  BY <1>1 DEF HashInv, BucketsRight
<1>3. /\ f # NoClient => f \in S /\ f \in Clients /\ name[f] = n
      /\ f = NoClient => \A c \in S : c \in Clients => name[c] # n
  <2> HIDE DEF S
  <2> QED BY <1>2, FirstIs
<1>4. \A c \in Clients : Placed(kind, name, c) /\ name[c] = n => c \in S
  BY DEF InBucket
<1>5. \A c \in S : c \in Clients /\ Placed(kind, name, c)
  BY DEF InBucket
<1> HIDE DEF S, f
<1>6. hash_find_client(n) = f
  BY DEF hash_find_client, f
<1>7. ASSUME NEW c \in Clients, Placed(kind, name, c), name[c] = n PROVE f = c
  <2>1. c \in S /\ f # NoClient
    BY <1>3, <1>4, <1>7
  <2>2. f \in Clients /\ Placed(kind, name, f) /\ name[f] = n
    BY <1>3, <1>5, <2>1
  <2> QED BY <1>7, <2>2 DEF HashInv, OneEach
<1> QED BY <1>3, <1>4, <1>6, <1>7

\* The name of a server that is filed is a server's, and it is found by it.
LEMMA FindServer ==
  ASSUME HashInv, ~stray, NEW n \in Host
  PROVE  LET own == First(table, n, {c \in Clients : kind[c] = "server"}) IN
         /\ \A c \in Clients : kind[c] = "server" /\ name[c] = n => own = c
         /\ own = NoClient => \A c \in Clients : Placed(kind, name, c) => name[c] # n
         /\ own # NoClient => own \in Clients /\ kind[own] = "server" /\ name[own] = n
<1> DEFINE S == InBucket(kind, name, Slot[n])
           among == {c \in Clients : kind[c] = "server"}
           own == First(table, n, among)
<1>1. Slot[n] \in Bucket
  BY HashAssumption
<1>2. Holds(table, Slot[n], S)
  BY <1>1 DEF HashInv, BucketsRight
<1>3. /\ own # NoClient => own \in S /\ own \in among /\ name[own] = n
      /\ own = NoClient => \A c \in S : c \in among => name[c] # n
  <2> HIDE DEF S, among
  <2> QED BY <1>2, FirstIs
<1>4. \A c \in Clients : Placed(kind, name, c) /\ name[c] = n => (c \in S /\ kind[c] = "server")
  BY HashAssumption DEF InBucket, HashInv, HashTyped, NamedFor, Placed
<1>5. \A c \in Clients : kind[c] = "server" => Placed(kind, name, c)
  BY HashAssumption DEF HashInv, HashTyped, NamedFor, Placed
<1> HIDE DEF own
<1>6. ASSUME NEW c \in Clients, kind[c] = "server", name[c] = n PROVE own = c
  <2>1. c \in S /\ c \in among /\ own # NoClient
    BY <1>3, <1>4, <1>5, <1>6
  <2>2. own \in Clients /\ kind[own] = "server" /\ name[own] = n
    BY <1>3, <2>1
  <2>3. Placed(kind, name, own) /\ Placed(kind, name, c)
    BY <1>5, <1>6, <2>2
  <2> QED BY <1>6, <2>2, <2>3 DEF HashInv, OneEach
<1>7. ASSUME own = NoClient, NEW c \in Clients, Placed(kind, name, c) PROVE name[c] # n
  BY <1>3, <1>4, <1>7
<1>8. own # NoClient => own \in Clients /\ kind[own] = "server" /\ name[own] = n
  BY <1>3
<1> QED BY <1>6, <1>7, <1>8 DEF own

\* When hash_find_server finds none, nobody is filed under the name.
LEMMA NoServer ==
  ASSUME HashInv, ~stray, NEW n \in Host, hash_find_server(n) = NoClient
  PROVE  \A c \in Clients : Placed(kind, name, c) => name[c] # n
<1>1. First(table, n, {c \in Clients : kind[c] = "server"}) = NoClient
  BY DEF hash_find_server
<1> QED BY <1>1, FindServer

\* What HashInv is for.
LEMMA HashInvFiling == HashInv => Filing
<1> SUFFICES ASSUME HashInv, ~stray PROVE Filing
  BY DEF Filing
<1>1. ASSUME NEW b \in Bucket
      PROVE  /\ Walk(table, b)[Cardinality(Clients)] = NoClient
             /\ Chain(table, b) = {c \in Clients : Listed(c) /\ kind[c] # "dialing"
                                      /\ name[c] # NoName /\ Slot[name[c]] = b}
             /\ table.links[b] = Cardinality(Chain(table, b))
  <2>1. PICK q \in Seq(Clients) :
          IsChain(table, b, q) /\ InBucket(kind, name, b) = {q[i] : i \in 1..Len(q)}
    BY <1>1 DEF HashInv, BucketsRight, Holds
  <2>2. /\ Chain(table, b) = {q[i] : i \in 1..Len(q)}
        /\ Walk(table, b)[Cardinality(Clients)] = NoClient
    BY <2>1, ChainIs
  <2>3. Cardinality({q[i] : i \in 1..Len(q)}) = Len(q) /\ table.links[b] = Len(q)
    <3>1. IsChain(table, b, q)
      BY <2>1
    <3>2. Cardinality({q[i] : i \in 1..Len(q)}) = Len(q)
      BY <3>1, LenIs
    <3> QED BY <3>1, <3>2 DEF IsChain
  <2>4. \A c \in Clients : name[c] # NoName => Listed(c)
    BY ListedIs DEF HashInv, ListRight, HashTyped, NamedFor
  <2>5. InBucket(kind, name, b) = {c \in Clients : Listed(c) /\ kind[c] # "dialing"
                                     /\ name[c] # NoName /\ Slot[name[c]] = b}
    BY <2>4 DEF InBucket, Placed
  <2> QED BY <2>1, <2>2, <2>3, <2>5
<1>2. \A c \in Clients : name[c] \in Names /\ NamedFor(kind[c], name[c])
  BY DEF HashInv, HashTyped
<1>3. \A c \in Clients : kind[c] \in {"person", "server"} => Placed(kind, name, c)
  BY <1>2, HashAssumption DEF NamedFor, Placed
<1>4. \A c \in Clients : kind[c] = "person" => hash_find_client(name[c]) = c
  BY <1>2, <1>3, FindClient
<1>5. ASSUME NEW c \in Clients, kind[c] = "server"
      PROVE  hash_find_server(name[c]) = c
  <2>1. name[c] \in Host
    BY <1>2, <1>5 DEF NamedFor
  <2>2. First(table, name[c], {d \in Clients : kind[d] = "server"}) = c
    BY <1>5, <2>1, FindServer
  <2> QED BY <2>2, HashAssumption DEF hash_find_server
<1>6. ASSUME NEW c \in Clients, kind[c] = "server", NEW n \in Host, NEW i \in DOMAIN Masks[n],
             Masks[n][i] = name[c],
             \A j \in 1..i - 1 : \A d \in Clients : kind[d] = "server" => name[d] # Masks[n][j],
             \A d \in Clients : kind[d] = "server" => name[d] # n
      PROVE  hash_find_server(n) = c
  <2> DEFINE found == {j \in DOMAIN Masks[n] : hash_find_client(Masks[n][j]) # NoClient}
             m == CHOOSE j \in found : \A h \in found : j <= h
  <2>1. First(table, n, {d \in Clients : kind[d] = "server"}) = NoClient
    BY <1>6, FindServer
  <2>2. hash_find_server(n) = IF found = {} THEN NoClient ELSE hash_find_client(Masks[n][m])
    BY <2>1 DEF hash_find_server, hash_find_masked_server
  <2>3. Masks[n] \in Seq(Host) /\ DOMAIN Masks[n] = 1..Len(Masks[n]) /\ Len(Masks[n]) \in Nat
        /\ \A j \in DOMAIN Masks[n] : Masks[n][j] \in Host
    BY HashAssumption, LenProperties
  <2>4. hash_find_client(Masks[n][i]) = c
    BY <1>3, <1>6, <2>3, FindClient DEF Names
  <2>5. i \in found
    BY <2>4, HashAssumption
  <2>6. ASSUME NEW j \in found PROVE i <= j
    <3>1. j \in DOMAIN Masks[n] /\ Masks[n][j] \in Host /\ hash_find_client(Masks[n][j]) # NoClient
      BY <2>3
    <3>2. \E d \in Clients : kind[d] = "server" /\ name[d] = Masks[n][j]
      <4> DEFINE x == Masks[n][j]
                 f == First(table, x, Clients)
                 S == InBucket(kind, name, Slot[x])
      <4>1. Slot[x] \in Bucket
        BY <3>1, HashAssumption
      <4>2. Holds(table, Slot[x], S)
        BY <4>1 DEF HashInv, BucketsRight
      <4>3. f # NoClient => f \in S /\ f \in Clients /\ name[f] = x
        <5> HIDE DEF S, x
        <5> QED BY <4>2, FirstIs
      <4>4. f # NoClient
        BY <3>1 DEF hash_find_client
      <4>5. f \in Clients /\ Placed(kind, name, f) /\ name[f] = x /\ x \in Host
        BY <3>1, <4>3, <4>4 DEF InBucket
      <4> HIDE DEF f, x
      <4>6. kind[f] = "server"
        BY <1>2, <4>5, HashAssumption DEF NamedFor, Placed, HashInv, HashTyped
      <4> QED BY <4>5, <4>6 DEF x
    <3>3. ~(j < i)
      <4> SUFFICES ASSUME j < i PROVE FALSE
        OBVIOUS
      <4>1. j \in 1..i - 1
        BY <1>6, <2>3, <3>1
      <4> QED BY <1>6, <3>2, <4>1
    <3> QED BY <2>3, <3>1, <3>3
  <2>7. m = i
    <3>1. \A j \in found : j \in Nat
      BY <2>3
    <3> HIDE DEF found
    <3>2. \E j \in found : \A h \in found : j <= h
      BY <2>5, <2>6
    <3>3. m \in found /\ \A h \in found : m <= h
      BY <3>2
    <3> HIDE DEF m
    <3>4. m <= i /\ i <= m /\ m \in Nat /\ i \in Nat
      BY <2>5, <2>6, <3>1, <3>3
    <3> QED BY <3>4
  <2> HIDE DEF m
  <2>8. found # {}
    BY <2>5
  <2> QED BY <2>2, <2>4, <2>7, <2>8
<1> QED BY <1>1, <1>4, <1>5, <1>6 DEF Filing

-----------------------------------------------------------------------------
(* Every operation keeps it.                                               *)

\* It holds of the empty table.
LEMMA HashInitInv == HashInit => HashInv
<1> SUFFICES ASSUME HashInit PROVE HashInv
  OBVIOUS
<1>1. HashTyped
  BY HashAssumption DEF HashInit, HashTyped, Names, NamedFor, Tables, Empty
<1>2. ListRight
  <2>1. clients = <<>> /\ <<>> \in Seq(Clients) /\ Len(<<>>) = 0 /\ 1..0 = {}
    BY DEF HashInit
  <2>2. Distinct(clients) /\ \A c \in Clients : ~In(clients, c)
    BY <2>1 DEF Distinct, In
  <2> QED BY <2>1, <2>2 DEF ListRight, HashInit
<1>3. \A c \in Clients : ~Placed(kind, name, c)
  BY DEF HashInit, Placed
<1>4. OneEach
  BY <1>3 DEF OneEach
<1>5. BucketsRight
  <2> SUFFICES ASSUME NEW b \in Bucket PROVE Holds(table, b, InBucket(kind, name, b))
    BY DEF BucketsRight
  <2>1. <<>> \in Seq(Clients) /\ Len(<<>>) = 0 /\ 1..0 = {}
    OBVIOUS
  <2>2. table.head[b] = NoClient /\ table.links[b] = 0
    BY DEF HashInit, Empty
  <2>3. IsChain(table, b, <<>>)
    BY <2>1, <2>2 DEF IsChain, At
  <2>4. InBucket(kind, name, b) = {<<>>[i] : i \in 1..Len(<<>>)}
    BY <1>3, <2>1 DEF InBucket
  <2> QED BY <2>1, <2>3, <2>4 DEF Holds
<1> QED BY <1>1, <1>2, <1>4, <1>5 DEF HashInv

\* A client more on the list, of a kind and with a name.
LEMMA ListedMore ==
  ASSUME ListRight, HashTyped, NEW c \in Clients, kind[c] = "free", clients' = <<c>> \o clients,
         NEW k \in {"unknown", "dialing", "person", "server"}, kind' = [kind EXCEPT ![c] = k]
  PROVE  ListRight'
<1>1. ~In(clients, c)
  BY DEF ListRight
<1>2. /\ clients' \in Seq(Clients) /\ Distinct(clients')
      /\ \A d \in Clients : In(clients', d) <=> (d = c \/ In(clients, d))
  BY <1>1, ListedFirst DEF ListRight
<1>3. \A d \in Clients : kind'[d] = IF d = c THEN k ELSE kind[d]
  BY DEF HashTyped
<1> QED BY <1>2, <1>3 DEF ListRight

\* A client less.
LEMMA ListedLess ==
  ASSUME ListRight, HashTyped, NEW c \in Clients, kind[c] # "free", clients' = Off(c),
         kind' = [kind EXCEPT ![c] = "free"]
  PROVE  ListRight'
<1>1. In(clients, c)
  BY DEF ListRight
<1>2. /\ clients' \in Seq(Clients) /\ Distinct(clients')
      /\ \A d \in Clients : In(clients', d) <=> (d # c /\ In(clients, d))
  BY <1>1, OffIs DEF ListRight
<1>3. \A d \in Clients : kind'[d] = IF d = c THEN "free" ELSE kind[d]
  BY DEF HashTyped
<1> QED BY <1>2, <1>3 DEF ListRight

\* Someone is on the list who is not filed.
LEMMA NotFiled ==
  ASSUME HashInv, ~stray, NEW c \in Clients, ~Placed(kind, name, c), table' = table,
         kind' \in [Clients -> {"free", "unknown", "dialing", "person", "server"}],
         ~Placed(kind', name', c),
         \A d \in Clients : d # c => kind'[d] = kind[d] /\ name'[d] = name[d]
  PROVE  OneEach' /\ BucketsRight'
<1>1. \A b \in Bucket : InBucket(kind', name', b) = InBucket(kind, name, b)
  BY DEF InBucket, Placed
<1>2. BucketsRight'
  BY <1>1 DEF HashInv, BucketsRight
<1>3. OneEach'
  BY DEF HashInv, OneEach, Placed
<1> QED BY <1>2, <1>3

\* A connection without a name is filed nowhere.
LEMMA ReleaseKeeps ==
  ASSUME HashInv, ~stray, NEW c \in Clients, release_auth_client(c)
  PROVE  HashInv'
<1>1. /\ kind[c] = "free" /\ kind' = [kind EXCEPT ![c] = "unknown"]
      /\ name' = [name EXCEPT ![c] = NoName] /\ clients' = <<c>> \o clients
      /\ table' = table /\ stray' = stray
  BY DEF release_auth_client
<1>2. HashTyped'
  BY <1>1 DEF HashInv, HashTyped, NamedFor, Names
<1>3. ListRight'
  BY <1>1, ListedMore DEF HashInv
<1>4. OneEach' /\ BucketsRight'
  <2>1. ~Placed(kind, name, c) /\ ~Placed(kind', name', c)
    BY <1>1 DEF HashInv, HashTyped, NamedFor, Placed
  <2>2. \A d \in Clients : d # c => kind'[d] = kind[d] /\ name'[d] = name[d]
    BY <1>1 DEF HashInv, HashTyped
  <2> QED BY <1>1, <1>2, <2>1, <2>2, NotFiled DEF HashTyped
<1> QED BY <1>2, <1>3, <1>4 DEF HashInv

\* A server that is dialled is not filed either.
LEMMA ConnectKeeps ==
  ASSUME HashInv, ~stray, NEW c \in Clients, NEW n \in Host, connect_server(c, n)
  PROVE  HashInv'
<1>1. /\ kind[c] = "free" /\ kind' = [kind EXCEPT ![c] = "dialing"]
      /\ name' = [name EXCEPT ![c] = n] /\ clients' = <<c>> \o clients
      /\ table' = table /\ stray' = stray
  BY DEF connect_server
<1>2. HashTyped'
  BY <1>1 DEF HashInv, HashTyped, NamedFor, Names
<1>3. ListRight'
  BY <1>1, ListedMore DEF HashInv
<1>4. OneEach' /\ BucketsRight'
  <2>1. ~Placed(kind, name, c) /\ ~Placed(kind', name', c)
    BY <1>1 DEF HashInv, HashTyped, NamedFor, Placed
  <2>2. \A d \in Clients : d # c => kind'[d] = kind[d] /\ name'[d] = name[d]
    BY <1>1 DEF HashInv, HashTyped
  <2> QED BY <1>1, <1>2, <2>1, <2>2, NotFiled DEF HashTyped
<1> QED BY <1>2, <1>3, <1>4 DEF HashInv

\* A new client comes into the bucket of its name, which nobody has.
LEMMA IntroduceKeeps ==
  ASSUME HashInv, ~stray, NEW c \in Clients, NEW n \in Nick \cup Host, introduce(c, n)
  PROVE  HashInv'
<1> DEFINE k == IF n \in Nick THEN "person" ELSE "server"
<1>1. /\ kind[c] = "free" /\ kind' = [kind EXCEPT ![c] = k]
      /\ name' = [name EXCEPT ![c] = n] /\ clients' = <<c>> \o clients
      /\ table' = add_to_client_hash_table(table, n, c) /\ stray' = stray
  BY DEF introduce
<1>2. n \in Names /\ n # NoName /\ (n \in Nick <=> n \notin Host)
  BY HashAssumption DEF Names
<1>3. HashTyped'
  <2>1. table' \in Tables
    BY <1>1, <1>2, AddType DEF HashInv, HashTyped, Names
  <2> QED BY <1>1, <1>2, <2>1 DEF HashInv, HashTyped, NamedFor
<1>4. ListRight'
  BY <1>1, ListedMore DEF HashInv
<1>5. /\ ~Placed(kind, name, c) /\ kind'[c] # "dialing" /\ name'[c] = n
      /\ \A d \in Clients : d # c => kind'[d] = kind[d] /\ name'[d] = name[d]
  BY <1>1 DEF HashInv, HashTyped, NamedFor, Placed
<1>6. \A d \in Clients : Placed(kind, name, d) => name[d] # n
  <2>1. CASE n \in Nick
    <3>1. hash_find_client(n) = NoClient
      BY <2>1 DEF introduce
    <3> QED BY <1>2, <3>1, FindClient
  <2>2. CASE n \notin Nick
    <3>1. hash_find_server(n) = NoClient /\ n \in Host
      BY <1>2, <2>2 DEF introduce
    <3> QED BY <3>1, NoServer
  <2> QED BY <2>1, <2>2
<1>7. OneEach'
  BY <1>5, <1>6 DEF HashInv, OneEach, Placed
<1>8. BucketsRight'
  <2>1. \A b \in Bucket : Holds(table, b, InBucket(kind, name, b))
    BY DEF HashInv, BucketsRight
  <2>2. table \in Tables
    BY DEF HashInv, HashTyped
  <2>3. \A b \in Bucket :
          Holds(add_to_client_hash_table(table, n, c), b, InBucket(kind', name', b))
    BY <1>2, <1>5, <2>1, <2>2, AddStep
  <2> QED BY <1>1, <2>3 DEF BucketsRight
<1> QED BY <1>3, <1>4, <1>7, <1>8 DEF HashInv

\* A client goes from the bucket of its old nick to that of the new one.
LEMMA NickKeeps ==
  ASSUME HashInv, ~stray, NEW c \in Clients, NEW n \in Nick, nick(c, n)
  PROVE  HashInv'
<1> DEFINE mid == IF name[c] = NoName THEN table ELSE del_from_client_hash_table(table, name[c], c)
           none == [name EXCEPT ![c] = NoName]
<1>1. /\ kind[c] \in {"unknown", "person"}
      /\ hash_find_client(n) = NoClient
      /\ kind' = kind \/ kind' = [kind EXCEPT ![c] = "person"]
      /\ name' = [name EXCEPT ![c] = n] /\ clients' = clients
      /\ table' = add_to_client_hash_table(mid, n, c) /\ stray' = stray
  BY DEF nick
<1>2. n \in Names /\ n # NoName /\ name \in [Clients -> Names] /\ table \in Tables
  BY HashAssumption DEF Names, HashInv, HashTyped
<1>3. mid \in Tables
  BY <1>2, DelType DEF Names
<1>4. /\ kind'[c] \in {"unknown", "person"} /\ name'[c] = n
      /\ \A d \in Clients : d # c => kind'[d] = kind[d] /\ name'[d] = name[d]
      /\ kind' \in [Clients -> {"free", "unknown", "dialing", "person", "server"}]
  BY <1>1, <1>2 DEF HashInv, HashTyped
<1>5. HashTyped'
  <2>1. table' \in Tables
    <3> HIDE DEF mid
    <3> QED BY <1>1, <1>2, <1>3, AddType DEF Names
  <2>2. \A d \in Clients : NamedFor(kind'[d], name'[d])
    BY <1>4 DEF HashInv, HashTyped, NamedFor
  <2> QED BY <1>1, <1>2, <1>4, <2>1, <2>2 DEF HashInv, HashTyped
<1>6. ListRight'
  BY <1>1, <1>4 DEF HashInv, ListRight
<1>7. \A d \in Clients : Placed(kind, name, d) => name[d] # n
  BY <1>1, <1>2, FindClient
<1>8. OneEach'
  BY <1>4, <1>7 DEF HashInv, OneEach, Placed
<1>9. \A b \in Bucket : Holds(mid, b, InBucket(kind, none, b))
  <2>1. \A b \in Bucket : Holds(table, b, InBucket(kind, name, b))
    BY DEF HashInv, BucketsRight
  <2>2. CASE name[c] = NoName
    <3>1. none = name
      BY <1>2, <2>2
    <3> QED BY <2>1, <2>2, <3>1
  <2>3. CASE name[c] # NoName
    <3>1. ~Placed(kind, none, c) /\ \A d \in Clients : d # c => kind[d] = kind[d] /\ none[d] = name[d]
      BY <1>2 DEF Placed
    <3>2. name[c] \in Names
      BY <1>2
    <3> HIDE DEF none
    <3>3. \A b \in Bucket :
            Holds(del_from_client_hash_table(table, name[c], c), b, InBucket(kind, none, b))
      BY <1>2, <2>1, <3>1, <3>2, DelStep
    <3> QED BY <2>3, <3>3
  <2> QED BY <2>2, <2>3
<1>10. BucketsRight'
  <2>1. ~Placed(kind, none, c) /\ kind'[c] # "dialing"
        /\ \A d \in Clients : d # c => kind'[d] = kind[d] /\ name'[d] = none[d]
    BY <1>2, <1>4 DEF Placed
  <2> HIDE DEF mid, none
  <2>2. \A b \in Bucket : Holds(add_to_client_hash_table(mid, n, c), b, InBucket(kind', name', b))
    BY <1>2, <1>3, <1>4, <1>9, <2>1, AddStep
  <2> QED BY <1>1, <2>2 DEF BucketsRight
<1> QED BY <1>5, <1>6, <1>8, <1>10 DEF HashInv

\* A client that leaves is taken out of the one bucket that it is in.
LEMMA ExitKeeps ==
  ASSUME HashInv, ~stray, NEW c \in Clients, exit_one_client(c)
  PROVE  HashInv'
<1>1. /\ kind[c] # "free" /\ kind' = [kind EXCEPT ![c] = "free"]
      /\ clients' = Off(c) /\ name' = [name EXCEPT ![c] = NoName]
      /\ table' = del_from_client_hash_table(table, name[c], c) /\ stray' = stray
  BY ListedIs DEF exit_one_client, exited, HashInv, ListRight
<1>2. name \in [Clients -> Names] /\ table \in Tables /\ name[c] \in Names
  BY DEF HashInv, HashTyped
<1>3. HashTyped'
  <2>1. table' \in Tables
    BY <1>1, <1>2, DelType DEF Names
  <2> QED BY <1>1, <1>2, <2>1 DEF HashInv, HashTyped, NamedFor, Names
<1>4. ListRight'
  BY <1>1, ListedLess DEF HashInv
<1>5. /\ ~Placed(kind', name', c)
      /\ \A d \in Clients : d # c => kind'[d] = kind[d] /\ name'[d] = name[d]
  BY <1>1, <1>2 DEF HashInv, HashTyped, Placed
<1>6. OneEach'
  BY <1>5 DEF HashInv, OneEach, Placed
<1>7. BucketsRight'
  <2>1. \A b \in Bucket : Holds(table, b, InBucket(kind, name, b))
    BY DEF HashInv, BucketsRight
  <2>2. \A b \in Bucket :
          Holds(del_from_client_hash_table(table, name[c], c), b, InBucket(kind', name', b))
    BY <1>2, <1>5, <2>1, DelStep
  <2> QED BY <1>1, <2>2 DEF BucketsRight
<1> QED BY <1>3, <1>4, <1>6, <1>7 DEF HashInv

\* Who had no nick was filed nowhere: SERVER files it, or lets it go.
LEMMA ServerKeeps ==
  ASSUME HashInv, ~stray, NEW c \in Clients, NEW n \in Host, m_server(c, n)
  PROVE  HashInv'
<1>1. /\ kind[c] \in {"unknown", "dialing"}
      /\ stray' = (stray \/ name[c] \in Nick)
      /\ name \in [Clients -> Names] /\ table \in Tables /\ n \in Names /\ n # NoName
  BY HashAssumption DEF m_server, HashInv, HashTyped, Names
<1>2. stray' \in BOOLEAN /\ (~stray' => ~Placed(kind, name, c))
  BY <1>1, HashAssumption DEF HashInv, HashTyped, NamedFor, Placed
<1>3. CASE /\ hash_find_server(n) = NoClient
           /\ kind' = [kind EXCEPT ![c] = "server"]
           /\ name' = [name EXCEPT ![c] = n]
           /\ table' = add_to_client_hash_table(table, n, c)
           /\ UNCHANGED clients
  <2>1. HashTyped'
    <3>1. table' \in Tables
      BY <1>1, <1>3, AddType DEF Names
    <3> QED BY <1>1, <1>2, <1>3, <3>1 DEF HashInv, HashTyped, NamedFor
  <2>2. ListRight'
    BY <1>1, <1>3 DEF HashInv, ListRight, HashTyped
  <2>3. /\ kind'[c] # "dialing" /\ name'[c] = n
        /\ \A d \in Clients : d # c => kind'[d] = kind[d] /\ name'[d] = name[d]
    BY <1>1, <1>3 DEF HashInv, HashTyped
  <2>4. ASSUME ~stray' PROVE OneEach' /\ BucketsRight'
    <3>1. ~Placed(kind, name, c)
      BY <1>2, <2>4
    <3>2. \A d \in Clients : Placed(kind, name, d) => name[d] # n
      BY <1>3, NoServer
    <3>3. OneEach'
      BY <2>3, <3>1, <3>2 DEF HashInv, OneEach, Placed
    <3>4. \A b \in Bucket : Holds(table, b, InBucket(kind, name, b))
      BY DEF HashInv, BucketsRight
    <3>5. \A b \in Bucket :
            Holds(add_to_client_hash_table(table, n, c), b, InBucket(kind', name', b))
      BY <1>1, <2>3, <3>1, <3>4, AddStep
    <3> QED BY <1>3, <3>3, <3>5 DEF BucketsRight
  <2> QED BY <2>1, <2>2, <2>4 DEF HashInv
<1>4. CASE exited(c, n)
  <2>0. /\ kind' = [kind EXCEPT ![c] = "free"] /\ clients' = Off(c)
        /\ table' = del_from_client_hash_table(table, n, c)
        /\ name' = [name EXCEPT ![c] = NoName]
    BY <1>4 DEF exited
  <2>1. HashTyped'
    <3>1. table' \in Tables
      BY <1>1, <2>0, DelType DEF Names
    <3> QED BY <1>1, <1>2, <2>0, <3>1 DEF HashInv, HashTyped, NamedFor, Names
  <2>2. ListRight'
    <3>1. kind[c] # "free"
      BY <1>1
    <3> QED BY <2>0, <3>1, ListedLess DEF HashInv
  <2>3. /\ ~Placed(kind', name', c)
        /\ \A d \in Clients : d # c => kind'[d] = kind[d] /\ name'[d] = name[d]
    BY <1>1, <2>0 DEF HashInv, HashTyped, Placed
  <2>4. ASSUME ~stray' PROVE OneEach' /\ BucketsRight'
    <3>1. ~Placed(kind, name, c)
      BY <1>2, <2>4
    <3>2. Slot[n] \in Bucket
      BY <1>1, HashAssumption DEF Names
    <3>3. Holds(table, Slot[n], InBucket(kind, name, Slot[n]))
          /\ c \notin InBucket(kind, name, Slot[n])
      BY <3>1, <3>2 DEF HashInv, BucketsRight, InBucket
    <3>4. table' = table
      BY <2>0, <3>3, DelNone
    <3> QED BY <2>1, <2>3, <3>1, <3>4, NotFiled DEF HashTyped
  <2> QED BY <2>1, <2>2, <2>4 DEF HashInv
<1> QED BY <1>3, <1>4 DEF m_server

\* HASH r files the list: those who were filed, when all on it have a place.
LEMMA RefileKeeps ==
  ASSUME HashInv, ~stray, m_hash
  PROVE  HashInv'
<1>1. /\ table' = Filed /\ clients' = clients /\ kind' = kind /\ name' = name
      /\ stray' = (stray \/ \E c \in Clients :
                     kind[c] \in {"unknown", "dialing"} /\ name[c] \notin Nick)
  BY DEF m_hash
<1>2. /\ Filed \in Tables
      /\ \A b \in Bucket : Holds(Filed, b, {c \in Clients : Listed(c) /\ Slot[name[c]] = b})
  <2>1. clients \in Seq(Clients) /\ \A i, j \in 1..Len(clients) : clients[i] = clients[j] => i = j
    BY DEF HashInv, ListRight, Distinct
  <2>2. name \in [Clients -> Nick \cup Host \cup {NoName}]
    BY DEF HashInv, HashTyped, Names
  <2> QED BY <2>1, <2>2, FiledIs
<1>3. HashTyped' /\ ListRight'
  BY <1>1, <1>2 DEF HashInv, HashTyped, ListRight
<1>4. ASSUME ~stray' PROVE OneEach' /\ BucketsRight'
  <2>1. \A c \in Clients : Listed(c) <=> Placed(kind, name, c)
    <3>1. \A c \in Clients : Listed(c) <=> kind[c] # "free"
      BY ListedIs DEF HashInv, ListRight
    <3>2. \A c \in Clients : /\ NamedFor(kind[c], name[c])
                            /\ kind[c] \in {"free", "unknown", "dialing", "person", "server"}
      BY DEF HashInv, HashTyped
    <3>3. \A c \in Clients : kind[c] \in {"unknown", "dialing"} => name[c] \in Nick
      BY <1>1, <1>4
    <3>4. ASSUME NEW c \in Clients PROVE kind[c] # "free" <=> Placed(kind, name, c)
      BY <3>2, <3>3, HashAssumption DEF NamedFor, Placed
    <3> QED BY <3>1, <3>4
  <2>2. \A b \in Bucket : {c \in Clients : Listed(c) /\ Slot[name[c]] = b} = InBucket(kind, name, b)
    BY <2>1 DEF InBucket
  <2>3. BucketsRight'
    BY <1>1, <1>2, <2>2 DEF BucketsRight
  <2>4. OneEach'
    BY <1>1 DEF HashInv, OneEach
  <2> QED BY <2>3, <2>4
<1> QED BY <1>3, <1>4 DEF HashInv

\* Filing: every client with a place in the table is found by its name and no
\* other, a server also by a mask, and a chain holds who belongs there and no
\* one who is gone: for all clients, names, masks and hash functions, and all
\* orders in which they come, are renamed, filed anew and go.
THEOREM FilingHolds == HashSpec => []Filing
<1>1. HashInv /\ [HashNext]_hashVars => HashInv'
  <2> SUFFICES ASSUME HashInv, [HashNext]_hashVars PROVE HashInv'
    OBVIOUS
  <2>1. CASE UNCHANGED hashVars
    BY <2>1 DEF hashVars, HashInv, HashTyped, ListRight, OneEach, BucketsRight
  <2>2. ASSUME HashNext PROVE HashInv'
    <3>1. ~stray
      BY <2>2 DEF HashNext
    <3>2. ASSUME NEW c \in Clients, release_auth_client(c) PROVE HashInv'
      BY <3>1, <3>2, ReleaseKeeps
    <3>3. ASSUME NEW c \in Clients, exit_one_client(c) PROVE HashInv'
      BY <3>1, <3>3, ExitKeeps
    <3>4. ASSUME NEW c \in Clients, NEW n \in Host, connect_server(c, n) PROVE HashInv'
      BY <3>1, <3>4, ConnectKeeps
    <3>5. ASSUME NEW c \in Clients, NEW n \in Host, m_server(c, n) PROVE HashInv'
      BY <3>1, <3>5, ServerKeeps
    <3>6. ASSUME NEW c \in Clients, NEW n \in Nick, nick(c, n) PROVE HashInv'
      BY <3>1, <3>6, NickKeeps
    <3>7. ASSUME NEW c \in Clients, NEW n \in Nick \cup Host, introduce(c, n) PROVE HashInv'
      BY <3>1, <3>7, IntroduceKeeps
    <3>8. ASSUME m_hash PROVE HashInv'
      BY <3>1, <3>8, RefileKeeps
    <3> QED BY <2>2, <3>2, <3>3, <3>4, <3>5, <3>6, <3>7, <3>8 DEF HashNext
  <2> QED BY <2>1, <2>2
<1> QED BY <1>1, HashInitInv, HashInvFiling, PTL DEF HashSpec
=============================================================================
