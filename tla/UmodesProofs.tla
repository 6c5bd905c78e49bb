----------------------------- MODULE UmodesProofs -----------------------------
(***************************************************************************)
(* The counters, the list of operators, the configuration lines and what   *)
(* the uplink was told agree with the modes of the clients: for any number *)
(* of clients, of operators and of commands.                               *)
(***************************************************************************)
EXTENDS Umodes, FiniteSetTheorems, SequenceTheorems,
        WellFoundedInduction, TLAPS

-----------------------------------------------------------------------------
(* Numbers.                                                                *)

\* A nonempty set of numbers has a least one.
LEMMA LeastNat ==
  ASSUME NEW T \in SUBSET Nat, T # {}
  PROVE  \E x \in T : \A y \in T : x <= y
<1> DEFINE R == {ss \in Nat \X Nat : ss[1] < ss[2]}
<1>1. IsWellFoundedOn(R, Nat)
  BY NatLessThanWellFounded DEF OpToRel
<1>2. \A x, y \in Nat : <<y, x>> \in R <=> y < x
  OBVIOUS
<1> HIDE DEF R
<1>3. PICK x \in T : \A y \in T : ~(<<y, x>> \in R)
  BY <1>1, WFMin
<1>4. \A y \in T : x \in Nat /\ y \in Nat /\ ~(y < x)
  BY <1>2, <1>3
<1>5. \A y \in T : x <= y
  BY <1>4
<1> QED BY <1>5

\* Induction, over a set of numbers.
LEMMA SetInduction ==
  ASSUME NEW S, 0 \in S, \A n \in Nat : n \in S => n + 1 \in S
  PROVE  Nat \subseteq S
<1> DEFINE T == Nat \ S
<1> SUFFICES ASSUME T # {} PROVE FALSE
  OBVIOUS
<1>1. T \in SUBSET Nat
  OBVIOUS
<1>2. PICK x \in T : \A y \in T : x <= y
  BY <1>1, LeastNat
<1>3. x \in Nat /\ x # 0 /\ x \notin S
  BY <1>2
<1>4. x - 1 \in Nat /\ x - 1 \notin T
  BY <1>2, <1>3
<1>5. x - 1 \in S
  BY <1>4
<1> QED BY <1>3, <1>4, <1>5

\* A set that changes by the element c, and its size.
LEMMA CardChange ==
  ASSUME NEW S, IsFiniteSet(S), NEW T, NEW c,
         \A d : d # c => (d \in S <=> d \in T)
  PROVE  /\ IsFiniteSet(T) /\ Cardinality(S) \in Nat /\ Cardinality(T) \in Nat
         /\ Cardinality(T) = Cardinality(S) + IfIn(c, T) - IfIn(c, S)
<1>1. Cardinality(S) \in Nat
  BY FS_CardinalityType
<1>2. CASE c \in S /\ c \in T
  <2>1. S = T
    BY <1>2
  <2> QED BY <1>1, <1>2, <2>1 DEF IfIn
<1>3. CASE c \notin S /\ c \notin T
  <2>1. S = T
    BY <1>3
  <2> QED BY <1>1, <1>3, <2>1 DEF IfIn
<1>4. CASE c \in S /\ c \notin T
  <2>1. T = S \ {c}
    BY <1>4
  <2>2. IsFiniteSet(T) /\ Cardinality(T) = Cardinality(S) - 1
    BY <1>4, <2>1, FS_RemoveElement
  <2>3. Cardinality(T) \in Nat
    BY <2>2, FS_CardinalityType
  <2> QED BY <1>1, <1>4, <2>2, <2>3 DEF IfIn
<1>5. CASE c \notin S /\ c \in T
  <2>1. T = S \cup {c}
    BY <1>5
  <2>2. IsFiniteSet(T) /\ Cardinality(T) = Cardinality(S) + 1
    BY <1>5, <2>1, FS_AddElement
  <2>3. Cardinality(T) \in Nat
    BY <2>2, FS_CardinalityType
  <2> QED BY <1>1, <1>5, <2>2, <2>3 DEF IfIn
<1> QED BY <1>2, <1>3, <1>4, <1>5

-----------------------------------------------------------------------------
(* The list of operators is a sequence s of n different clients.           *)

Operators == {c \in Persons \cap Locals : Empowered(umodes[c])}
At(n, s, i) == IF i \in 1 .. n THEN s[i] ELSE NoClient
OnChain(n, s) == {s[i] : i \in 1 .. n}
IsChain(n, s) ==
  /\ \A i, j \in 1 .. n : s[i] = s[j] => i = j
  /\ oper_cptr_list = At(n, s, 1)
  /\ \A i \in 1 .. n : next_oper_client[s[i]] = At(n, s, i + 1)

LEMMA AppendAt ==
  ASSUME NEW T, NEW k \in Nat, NEW f \in [1 .. k + 1 -> T]
  PROVE  Append([i \in 1 .. k |-> f[i]], f[k + 1]) = f
<1> DEFINE g == [i \in 1 .. k |-> f[i]]
           h == Append(g, f[k + 1])
<1>1. f \in Seq(T) /\ Len(f) = k + 1
  BY SeqDef, LenProperties
<1>2. g \in Seq(T) /\ Len(g) = k
  BY SeqDef, LenProperties
<1>3. f[k + 1] \in T
  OBVIOUS
<1>4. g \in [1 .. k -> T] /\ \A i \in 1 .. k : g[i] = f[i]
  OBVIOUS
<1> HIDE DEF g
<1>5. /\ h \in Seq(T) /\ Len(h) = k + 1
      /\ \A i \in 1 .. k : h[i] = g[i]
      /\ h[k + 1] = f[k + 1]
  BY <1>2, <1>3, AppendProperties
<1> HIDE DEF h
<1>6. \A i \in 1 .. k + 1 : h[i] = f[i]
  BY <1>4, <1>5
<1>7. h = f
  BY <1>1, <1>5, <1>6, SeqEqual
<1> QED BY <1>7 DEF h, g

\* Walking along it, the handlers meet the clients of s and then the end.
LEMMA WalkAlong ==
  ASSUME NEW n \in Nat, NEW s \in [1 .. n -> Clients], NoClient \notin Clients,
         IsChain(n, s), NEW m \in Nat
  PROVE  FirstOpers[m] = [i \in 1 .. m + 1 |-> At(n, s, i)]
<1> DEFINE G == [k \in Nat |-> [i \in 1 .. k + 1 |-> At(n, s, i)]]
           Onward(l, k) ==
             IF l[k] = NoClient THEN Append(l, NoClient)
             ELSE Append(l, next_oper_client[l[k]])
           S == {k \in Nat : FirstOpers[k] = G[k]}
<1>1. \A i \in Nat : At(n, s, i) \in Clients \cup {NoClient}
  BY DEF At
<1>2. G[0] = <<oper_cptr_list>>
  <2>1. oper_cptr_list = At(n, s, 1)
    BY DEF IsChain
  <2>2. G[0] = [i \in 1 .. 0 + 1 |-> At(n, s, i)]
    OBVIOUS
  <2> QED BY <2>1, <2>2
<1>3. \A k \in Nat : G[k + 1] = Onward(G[k], k + 1)
  <2> TAKE k \in Nat
  <2> DEFINE f == [i \in 1 .. (k + 1) + 1 |-> At(n, s, i)]
  <2>1. f \in [1 .. (k + 1) + 1 -> Clients \cup {NoClient}]
    BY <1>1
  <2>2. f = G[k + 1]
    OBVIOUS
  <2>3. G[k] = [i \in 1 .. k + 1 |-> f[i]]
    OBVIOUS
  <2>4. G[k][k + 1] = At(n, s, k + 1) /\ f[(k + 1) + 1] = At(n, s, (k + 1) + 1)
    OBVIOUS
  <2> HIDE DEF f, G
  <2>5. Append(G[k], f[(k + 1) + 1]) = f
    BY <2>1, <2>3, AppendAt
  <2>6. IF G[k][k + 1] = NoClient THEN f[(k + 1) + 1] = NoClient
        ELSE f[(k + 1) + 1] = next_oper_client[G[k][k + 1]]
    BY <2>4 DEF At, IsChain
  <2> QED BY <2>2, <2>5, <2>6
<1> HIDE DEF G
<1>4. \E f : f = [k \in Nat |-> IF k = 0 THEN <<oper_cptr_list>>
                                ELSE LET l == f[k - 1] IN
                                     IF l[k] = NoClient THEN Append(l, NoClient)
                                     ELSE Append(l, next_oper_client[l[k]])]
  <2>1. \A k \in Nat : k # 0 => G[k] = Onward(G[k - 1], k)
    BY <1>3
  <2>2. G = [k \in Nat |-> G[k]]
    BY DEF G
  <2>3. G = [k \in Nat |-> IF k = 0 THEN <<oper_cptr_list>>
                           ELSE Onward(G[k - 1], k)]
    BY <1>2, <2>1, <2>2
  <2> QED BY <2>3
<1>5. FirstOpers = [k \in Nat |-> IF k = 0 THEN <<oper_cptr_list>>
                                  ELSE Onward(FirstOpers[k - 1], k)]
  BY <1>4 DEF FirstOpers
<1>6. /\ FirstOpers[0] = <<oper_cptr_list>>
      /\ \A k \in Nat : FirstOpers[k + 1] = Onward(FirstOpers[k], k + 1)
  <2> HIDE DEF Onward
  <2>1. \A k \in Nat : k + 1 \in Nat /\ k + 1 # 0 /\ (k + 1) - 1 = k
    OBVIOUS
  <2>2. \A k \in Nat : FirstOpers[k] = IF k = 0 THEN <<oper_cptr_list>>
                                       ELSE Onward(FirstOpers[k - 1], k)
    BY <1>5
  <2> QED BY <2>1, <2>2
<1>7. 0 \in S
  BY <1>2, <1>6
<1>8. \A k \in Nat : k \in S => k + 1 \in S
  <2> SUFFICES ASSUME NEW k \in Nat, FirstOpers[k] = G[k]
               PROVE  FirstOpers[k + 1] = G[k + 1]
    OBVIOUS
  <2> HIDE DEF Onward
  <2>1. Onward(FirstOpers[k], k + 1) = Onward(G[k], k + 1)
    OBVIOUS
  <2> QED BY <1>3, <1>6, <2>1
<1>9. Nat \subseteq S
  <2> HIDE DEF S
  <2> QED BY <1>7, <1>8, SetInduction
<1> QED BY <1>9 DEF G

\* A sequence of different clients is no longer than there are clients, so that
\* the walk comes to its end.
LEMMA ChainAgrees ==
  ASSUME UmodesAssumption, NEW n \in Nat, NEW s \in [1 .. n -> Clients],
         IsChain(n, s)
  PROVE  Listed = OnChain(n, s) /\ OperListEnds
<1> DEFINE C == Cardinality(Clients)
<1>1. C \in Nat
  BY FS_CardinalityType DEF UmodesAssumption
<1>2. n <= C
  <2>1. s \in Injection(1 .. n, Clients)
    BY DEF IsChain, Injection, IsInjective
  <2>2. Cardinality(1 .. n) <= C
    BY <2>1, FS_Injection DEF UmodesAssumption
  <2>3. Cardinality(1 .. n) = n
    BY FS_Interval
  <2> QED BY <2>2, <2>3
<1>3. FirstOpers[C] = [i \in 1 .. C + 1 |-> At(n, s, i)]
  BY <1>1, WalkAlong DEF UmodesAssumption
<1> HIDE DEF C
<1>4. FirstOpers[C][C + 1] = NoClient
  BY <1>1, <1>2, <1>3 DEF At
<1>5. {FirstOpers[C][i] : i \in 1 .. C} \ {NoClient} = OnChain(n, s)
  <2>1. \A i \in 1 .. C : FirstOpers[C][i] = At(n, s, i)
    BY <1>1, <1>3
  <2>2. \A i \in 1 .. C : i \in 1 .. n \/ At(n, s, i) = NoClient
    BY DEF At
  <2>3. \A i \in 1 .. n : i \in 1 .. C /\ At(n, s, i) = s[i] /\ s[i] # NoClient
    BY <1>1, <1>2 DEF At, UmodesAssumption
  <2> QED BY <2>1, <2>2, <2>3 DEF OnChain
<1> QED BY <1>4, <1>5 DEF C, Listed, OperListEnds

\* m_oper puts c at the head.
LEMMA LinkKeeps ==
  ASSUME UmodesAssumption, NEW n \in Nat, NEW s \in [1 .. n -> Clients],
         IsChain(n, s), next_oper_client \in [Clients -> Clients \cup {NoClient}],
         NEW c \in Clients, c \notin OnChain(n, s), LinkOper(c)
  PROVE  \E t \in [1 .. n + 1 -> Clients] :
           IsChain(n + 1, t)' /\ OnChain(n + 1, t) = OnChain(n, s) \cup {c}
<1> DEFINE t == [i \in 1 .. n + 1 |-> IF i = 1 THEN c ELSE s[i - 1]]
<1>1. t \in [1 .. n + 1 -> Clients]
  OBVIOUS
<1>2. /\ t[1] = c
      /\ \A i \in 2 .. n + 1 : t[i] = s[i - 1] /\ i - 1 \in 1 .. n
      /\ \A i \in 1 .. n + 1 : i = 1 \/ i \in 2 .. n + 1
      /\ \A i \in 1 .. n : i + 1 \in 2 .. n + 1 /\ s[i] = t[i + 1]
      /\ 1 \in 1 .. n + 1
  OBVIOUS
<1> HIDE DEF t
<1>3. OnChain(n + 1, t) = OnChain(n, s) \cup {c}
  <2>1. \A i \in 1 .. n + 1 : t[i] = c \/ t[i] \in OnChain(n, s)
    BY <1>2 DEF OnChain
  <2>2. \A i \in 1 .. n : i + 1 \in 1 .. n + 1 /\ s[i] = t[i + 1]
    BY <1>2
  <2>3. OnChain(n, s) \subseteq OnChain(n + 1, t)
    BY <2>2 DEF OnChain
  <2>4. c \in OnChain(n + 1, t)
    BY <1>2 DEF OnChain
  <2>5. OnChain(n + 1, t) \subseteq OnChain(n, s) \cup {c}
    BY <2>1 DEF OnChain
  <2> QED BY <2>3, <2>4, <2>5
<1>4. \A i, j \in 1 .. n + 1 : t[i] = t[j] => i = j
  <2>1. \A i \in 2 .. n + 1 : t[i] # c
    BY <1>2 DEF OnChain
  <2>2. \A i, j \in 2 .. n + 1 : t[i] = t[j] => i - 1 = j - 1
    BY <1>2 DEF IsChain
  <2> QED BY <1>2, <2>1, <2>2
<1>5. oper_cptr_list' = At(n + 1, t, 1)
  BY <1>2 DEF LinkOper, At
<1>6. \A i \in 1 .. n + 1 : next_oper_client'[t[i]] = At(n + 1, t, i + 1)
  <2> TAKE i \in 1 .. n + 1
  <2>1. CASE i = 1
    <3>1. next_oper_client'[t[i]] = At(n, s, 1)
      BY <1>2, <2>1 DEF LinkOper, IsChain
    <3>2. At(n + 1, t, 2) = At(n, s, 1)
      BY <1>2 DEF At
    <3> QED BY <2>1, <3>1, <3>2
  <2>2. CASE i \in 2 .. n + 1
    <3>1. s[i - 1] # c /\ i - 1 \in 1 .. n /\ t[i] = s[i - 1] /\ s[i - 1] \in Clients
      BY <1>2, <2>2 DEF OnChain
    <3>2. next_oper_client'[t[i]] = At(n, s, (i - 1) + 1)
      BY <3>1 DEF LinkOper, IsChain
    <3>3. At(n + 1, t, i + 1) = At(n, s, i)
      BY <1>2, <2>2 DEF At
    <3> QED BY <2>2, <3>2, <3>3
  <2> QED BY <1>2, <2>1, <2>2
<1> QED BY <1>1, <1>3, <1>4, <1>5, <1>6 DEF IsChain

\* exit_client and MODE -a or -O take c off, wherever it is.
LEMMA UnlinkKeeps ==
  ASSUME UmodesAssumption, NEW n \in Nat, NEW s \in [1 .. n -> Clients],
         IsChain(n, s), next_oper_client \in [Clients -> Clients \cup {NoClient}],
         NEW k \in 1 .. n, UnlinkOper(s[k])
  PROVE  /\ n - 1 \in Nat
         /\ \E t \in [1 .. n - 1 -> Clients] :
              IsChain(n - 1, t)' /\ OnChain(n - 1, t) = OnChain(n, s) \ {s[k]}
<1> DEFINE t == [i \in 1 .. n - 1 |-> IF i < k THEN s[i] ELSE s[i + 1]]
<1>1. n - 1 \in Nat /\ t \in [1 .. n - 1 -> Clients]
  OBVIOUS
<1>2. \A i \in 1 .. n - 1 :
        /\ i < k => i \in 1 .. n /\ t[i] = s[i]
        /\ ~(i < k) => i + 1 \in 1 .. n /\ t[i] = s[i + 1]
  OBVIOUS
<1> HIDE DEF t
<1>3. \A i, j \in 1 .. n : s[i] = s[j] => i = j
  BY DEF IsChain
<1>4. \A i \in 1 .. n - 1 : t[i] # s[k]
  BY <1>2, <1>3
<1>5. OnChain(n - 1, t) = OnChain(n, s) \ {s[k]}
  <2>1. \A i \in 1 .. n : i < k => i \in 1 .. n - 1 /\ s[i] = t[i]
    BY <1>2
  <2>2. \A i \in 1 .. n : i > k => i - 1 \in 1 .. n - 1 /\ s[i] = t[i - 1]
    BY <1>2
  <2>3. OnChain(n, s) \ {s[k]} \subseteq OnChain(n - 1, t)
    BY <2>1, <2>2 DEF OnChain
  <2>4. OnChain(n - 1, t) \subseteq OnChain(n, s) \ {s[k]}
    BY <1>2, <1>4 DEF OnChain
  <2> QED BY <2>3, <2>4
<1>6. \A i, j \in 1 .. n - 1 : t[i] = t[j] => i = j
  BY <1>2, <1>3
<1>7. /\ oper_cptr_list = At(n, s, 1)
      /\ \A i \in 1 .. n : next_oper_client[s[i]] = At(n, s, i + 1)
      /\ \A i \in 1 .. n : s[i] \in Clients /\ s[i] # NoClient
  BY DEF IsChain, UmodesAssumption
<1>8. CASE k = 1
  <2>1. oper_cptr_list = s[k]
    BY <1>7, <1>8 DEF At
  <2>2. /\ oper_cptr_list' = At(n, s, 2)
        /\ next_oper_client' = [next_oper_client EXCEPT ![s[k]] = NoClient]
    BY <1>7, <1>8, <2>1 DEF UnlinkOper
  <2>3. At(n - 1, t, 1) = At(n, s, 2)
    BY <1>2, <1>8 DEF At
  <2>4. ASSUME NEW i \in 1 .. n - 1
        PROVE  next_oper_client'[t[i]] = At(n - 1, t, i + 1)
    <3>1. t[i] = s[i + 1] /\ i + 1 \in 1 .. n /\ t[i] \in Clients
      BY <1>2, <1>7, <1>8
    <3>2. next_oper_client'[t[i]] = At(n, s, (i + 1) + 1)
      BY <1>4, <1>7, <2>2, <3>1
    <3>3. At(n - 1, t, i + 1) = At(n, s, (i + 1) + 1)
      BY <1>2, <1>8 DEF At
    <3> QED BY <3>2, <3>3
  <2> QED BY <1>1, <1>5, <1>6, <2>2, <2>3, <2>4 DEF IsChain
<1>9. CASE k # 1
  <2>1. oper_cptr_list = s[1] /\ s[1] # s[k] /\ k - 1 \in 1 .. n
    BY <1>3, <1>7, <1>9 DEF At
  <2>2. {p \in Listed : next_oper_client[p] = s[k]} = {s[k - 1]}
    <3>1. Listed = OnChain(n, s)
      BY ChainAgrees
    <3>2. \A i \in 1 .. n : next_oper_client[s[i]] = s[k] <=> i = k - 1
      <4> TAKE i \in 1 .. n
      <4>1. CASE i = n
        BY <1>7, <2>1, <4>1 DEF At
      <4>2. CASE i # n
        <5>1. i + 1 \in 1 .. n /\ next_oper_client[s[i]] = s[i + 1]
          BY <1>7, <4>2 DEF At
        <5>2. s[i + 1] = s[k] <=> i + 1 = k
          BY <1>3, <5>1
        <5> QED BY <5>1, <5>2
      <4> QED BY <4>1, <4>2
    <3> QED BY <2>1, <3>1, <3>2 DEF OnChain
  <2>3. /\ oper_cptr_list' = oper_cptr_list
        /\ next_oper_client' = [p \in Clients |->
             IF p = s[k] THEN NoClient
             ELSE IF p = s[k - 1] THEN next_oper_client[s[k]] ELSE next_oper_client[p]]
    BY <2>1, <2>2 DEF UnlinkOper
  <2>4. oper_cptr_list' = At(n - 1, t, 1)
    BY <1>2, <1>9, <2>1, <2>3 DEF At
  <2>5. ASSUME NEW i \in 1 .. n - 1
        PROVE  next_oper_client'[t[i]] = At(n - 1, t, i + 1)
    <3>1. CASE i = k - 1
      <4>1. t[i] = s[k - 1] /\ t[i] \in Clients
        BY <1>2, <1>7, <2>1, <3>1
      <4>2. next_oper_client'[t[i]] = At(n, s, k + 1)
        BY <1>4, <1>7, <2>3, <4>1
      <4>3. At(n - 1, t, i + 1) = At(n, s, k + 1)
        BY <1>2, <3>1 DEF At
      <4> QED BY <4>2, <4>3
    <3>2. CASE i < k - 1
      <4>1. t[i] = s[i] /\ t[i] \in Clients /\ i \in 1 .. n /\ s[i] # s[k - 1]
        BY <1>2, <1>3, <1>7, <2>1, <3>2
      <4>2. next_oper_client'[t[i]] = At(n, s, i + 1)
        BY <1>4, <1>7, <2>3, <4>1
      <4>3. At(n - 1, t, i + 1) = At(n, s, i + 1)
        BY <1>2, <3>2 DEF At
      <4> QED BY <4>2, <4>3
    <3>3. CASE i > k - 1
      <4>1. /\ t[i] = s[i + 1] /\ t[i] \in Clients /\ i + 1 \in 1 .. n
            /\ s[i + 1] # s[k - 1]
        BY <1>2, <1>3, <1>7, <2>1, <3>3
      <4>2. next_oper_client'[t[i]] = At(n, s, (i + 1) + 1)
        BY <1>4, <1>7, <2>3, <4>1
      <4>3. At(n - 1, t, i + 1) = At(n, s, (i + 1) + 1)
        BY <1>2, <3>3 DEF At
      <4> QED BY <4>2, <4>3
    <3> QED BY <3>1, <3>2, <3>3
  <2> QED BY <1>1, <1>5, <1>6, <2>3, <2>4, <2>5 DEF IsChain
<1> QED BY <1>8, <1>9

-----------------------------------------------------------------------------
(* The invariant.                                                          *)

Invisible == {c \in Persons : "i" \in umodes[c]}
Empow == {c \in Persons : Empowered(umodes[c])}

\* Whatever the letters and the uplink: also the order of the lines of a client,
\* of which MODE -a detaches the first.
Sound ==
  /\ TypeOK /\ LocalCounted /\ UplinkTold
  /\ \A c \in Clients : confs[c] \in {<<>>, <<"I">>, <<"O">>, <<"O", "I">>}

\* What upsets the rest: a client that takes -o off itself, MODE a, i or n from
\* the uplink itself, a user on an unknown server, and O lines that give the mode
\* i, which is not counted, or n without the flag N.
Calm ==
  /\ "o" \notin Letters /\ ServerLetters \subseteq {"w"} /\ ~Ghosts
  /\ \A c \in Clients : /\ "i" \notin Hold[c]
                        /\ "n" \in Hold[c] /\ OLine[c] = "oper" => c \in NFlag

Tallied ==
  /\ Count.total = Cardinality(Persons)
  /\ Count.invisi = Cardinality(Invisible)
  /\ Count.oper = Cardinality(Empow)

OnList == \E n \in Nat : \E s \in [1 .. n -> Clients] :
            IsChain(n, s) /\ OnChain(n, s) = Operators

\* The modes decide who is on the list and has an O line; +n, the flag for it and
\* the list need each other when a client steps down or exits.
Agreed ==
  /\ Tallied /\ LinesAgree /\ NeedsN /\ OnList /\ ~crashed
  /\ setN \subseteq Operators
  /\ \A c \in Clients \ Locals : umodes[c] \subseteq SEND_UMODES

IInv == Sound /\ (Calm => Agreed)

\* One client changes.
LEMMA Tally ==
  ASSUME UmodesAssumption, NEW c \in Clients,
         \A d \in Clients : d # c => status'[d] = status[d] /\ umodes'[d] = umodes[d]
  PROVE  /\ Cardinality(Persons) \in Nat /\ Cardinality(Persons') \in Nat
         /\ Cardinality(Persons \cap Locals) \in Nat
         /\ Cardinality(Persons' \cap Locals) \in Nat
         /\ Cardinality(Invisible) \in Nat /\ Cardinality(Invisible') \in Nat
         /\ Cardinality(Empow) \in Nat /\ Cardinality(Empow') \in Nat
         /\ Cardinality(Persons') =
              Cardinality(Persons) + IfIn(c, Persons') - IfIn(c, Persons)
         /\ Cardinality(Persons' \cap Locals) = Cardinality(Persons \cap Locals)
              + IfIn(c, Persons' \cap Locals) - IfIn(c, Persons \cap Locals)
         /\ Cardinality(Invisible') =
              Cardinality(Invisible) + IfIn(c, Invisible') - IfIn(c, Invisible)
         /\ Cardinality(Empow') =
              Cardinality(Empow) + IfIn(c, Empow') - IfIn(c, Empow)
<1>1. /\ Persons \subseteq Clients /\ Persons \cap Locals \subseteq Clients
      /\ Invisible \subseteq Clients /\ Empow \subseteq Clients
  BY DEF Persons, Invisible, Empow
<1>2. /\ IsFiniteSet(Persons) /\ IsFiniteSet(Persons \cap Locals)
      /\ IsFiniteSet(Invisible) /\ IsFiniteSet(Empow)
  BY <1>1, FS_Subset DEF UmodesAssumption
<1>3. \A d : d # c => /\ d \in Persons <=> d \in Persons'
                      /\ d \in Persons \cap Locals <=> d \in Persons' \cap Locals
                      /\ d \in Invisible <=> d \in Invisible'
                      /\ d \in Empow <=> d \in Empow'
  BY DEF Persons, Invisible, Empow
<1> QED BY <1>2, <1>3, CardChange

\* The modes of a client become m, and the uplink hears of it.
LEMMA SendKeeps ==
  ASSUME Sound, NEW c \in Persons, NEW m \in SUBSET Modes,
         umodes' = [umodes EXCEPT ![c] = m], SendUmodeOut(c, umodes[c], m),
         UNCHANGED <<status, linked>>
  PROVE  /\ umodes' \in [Clients -> SUBSET Modes]
         /\ told' \in [Clients -> SUBSET SEND_UMODES]
         /\ UplinkTold'
<1>1. /\ umodes \in [Clients -> SUBSET Modes] /\ told \in [Clients -> SUBSET SEND_UMODES]
      /\ c \in Clients /\ Persons' = Persons
  BY DEF Sound, TypeOK, Persons
<1>2. told' \in [Clients -> SUBSET SEND_UMODES]
  BY <1>1 DEF SendUmodeOut
<1>3. ASSUME linked, NEW d \in Persons \cap Locals
      PROVE  told'[d] = umodes'[d] \cap SEND_UMODES
  <2>1. told[d] = umodes[d] \cap SEND_UMODES /\ d \in Clients
    BY <1>3 DEF Sound, UplinkTold, Persons
  <2>2. CASE d = c
    <3>1. told'[d] = (told[d] \ (umodes[d] \ m)) \cup ((m \ umodes[d]) \cap SEND_UMODES)
      BY <1>1, <1>3, <2>2 DEF SendUmodeOut
    <3> QED BY <1>1, <2>1, <2>2, <3>1
  <2>3. CASE d # c
    BY <1>1, <2>1, <2>3 DEF SendUmodeOut
  <2> QED BY <2>2, <2>3
<1> QED BY <1>1, <1>2, <1>3 DEF UplinkTold

LEMMA NewModesKeep ==
  ASSUME UmodesAssumption, Sound, NEW c \in Persons, NEW new \in SUBSET Modes,
         NEW hasN \in BOOLEAN, NEW counted \in {-1, 0, 1},
         NewModes(c, new, hasN, counted), UNCHANGED <<status, linked>>
  PROVE  /\ umodes' = [umodes EXCEPT ![c] = DropN(new, hasN)]
         /\ umodes' \in [Clients -> SUBSET Modes]
         /\ told' \in [Clients -> SUBSET SEND_UMODES]
         /\ Count' \in [local : Nat, total : Int, invisi : Int, oper : Int]
         /\ LocalCounted' /\ UplinkTold'
         /\ Tallied /\ counted = (IF Empowered(DropN(new, hasN)) THEN 1 ELSE 0)
                                 - (IF Empowered(umodes[c]) THEN 1 ELSE 0)
            => Tallied'
<1> DEFINE m == DropN(new, hasN)
<1>1. m \in SUBSET Modes
  BY DEF DropN
<1>2. /\ umodes' = [umodes EXCEPT ![c] = m]
      /\ Count' = Counted(0, 0, IfIn("i", m) - IfIn("i", umodes[c]), counted)
      /\ SendUmodeOut(c, umodes[c], m)
  BY DEF NewModes
<1> HIDE DEF m
<1>3. /\ umodes' \in [Clients -> SUBSET Modes]
      /\ told' \in [Clients -> SUBSET SEND_UMODES]
      /\ UplinkTold'
  BY <1>1, <1>2, SendKeeps
<1>4. /\ umodes \in [Clients -> SUBSET Modes] /\ c \in Clients /\ Persons' = Persons
      /\ Count \in [local : Nat, total : Int, invisi : Int, oper : Int]
      /\ Count.local = Cardinality(Persons \cap Locals)
  BY DEF Sound, TypeOK, Persons, LocalCounted
<1>5. IfIn("i", m) \in Int /\ IfIn("i", umodes[c]) \in Int
  BY DEF IfIn
<1>6. /\ Count' \in [local : Nat, total : Int, invisi : Int, oper : Int]
      /\ Count'.local = Count.local /\ Count'.total = Count.total
      /\ Count'.oper = Count.oper + counted
      /\ Count'.invisi = Count.invisi + IfIn("i", m) - IfIn("i", umodes[c])
  BY <1>2, <1>4, <1>5 DEF Counted
<1>7. LocalCounted'
  BY <1>4, <1>6 DEF LocalCounted
<1>8. ASSUME Tallied,
             counted = (IF Empowered(m) THEN 1 ELSE 0)
                       - (IF Empowered(umodes[c]) THEN 1 ELSE 0)
      PROVE  Tallied'
  <2>1. \A d \in Clients : d # c => status'[d] = status[d] /\ umodes'[d] = umodes[d]
    BY <1>2, <1>4
  <2>2. /\ c \in Invisible <=> "i" \in umodes[c]
        /\ c \in Invisible' <=> "i" \in m
        /\ c \in Empow <=> Empowered(umodes[c])
        /\ c \in Empow' <=> Empowered(m)
    BY <1>2, <1>4 DEF Invisible, Empow
  <2>3. /\ Cardinality(Invisible) \in Nat /\ Cardinality(Empow) \in Nat
        /\ Cardinality(Invisible') =
             Cardinality(Invisible) + IfIn(c, Invisible') - IfIn(c, Invisible)
        /\ Cardinality(Empow') =
             Cardinality(Empow) + IfIn(c, Empow') - IfIn(c, Empow)
    BY <1>4, <2>1, Tally
  <2>4. /\ IfIn(c, Invisible') = IfIn("i", m)
        /\ IfIn(c, Invisible) = IfIn("i", umodes[c])
        /\ IfIn(c, Empow') - IfIn(c, Empow) = counted
    BY <1>8, <2>2 DEF IfIn
  <2>5. /\ Count.total = Cardinality(Persons) /\ Count.invisi = Cardinality(Invisible)
        /\ Count.oper = Cardinality(Empow)
    BY <1>8 DEF Tallied
  <2>6. IfIn(c, Empow') \in Int /\ IfIn(c, Empow) \in Int
    BY DEF IfIn
  <2> QED BY <1>4, <1>5, <1>6, <2>3, <2>4, <2>5, <2>6 DEF Tallied
<1> QED BY <1>2, <1>3, <1>6, <1>7, <1>8 DEF m

LEMMA ListStays ==
  ASSUME OnList, Operators' = Operators, UNCHANGED oper_cptr_list,
         \A d \in Operators : next_oper_client'[d] = next_oper_client[d]
  PROVE  OnList'
<1>1. PICK n \in Nat : \E s \in [1 .. n -> Clients] :
               IsChain(n, s) /\ OnChain(n, s) = Operators
  BY DEF OnList
<1>2. PICK s \in [1 .. n -> Clients] : IsChain(n, s) /\ OnChain(n, s) = Operators
  BY <1>1
<1>3. \A i \in 1 .. n : next_oper_client'[s[i]] = next_oper_client[s[i]]
  BY <1>2 DEF OnChain
<1>4. IsChain(n, s)'
  BY <1>2, <1>3 DEF IsChain
<1>5. OnChain(n, s) = Operators'
  BY <1>2
<1> QED BY <1>4, <1>5 DEF OnList

LEMMA ListGains ==
  ASSUME UmodesAssumption, TypeOK, OnList, NEW c \in Clients, c \notin Operators,
         LinkOper(c), Operators' = Operators \cup {c}
  PROVE  OnList'
<1>1. PICK n \in Nat : \E s \in [1 .. n -> Clients] :
               IsChain(n, s) /\ OnChain(n, s) = Operators
  BY DEF OnList
<1>2. PICK s \in [1 .. n -> Clients] : IsChain(n, s) /\ OnChain(n, s) = Operators
  BY <1>1
<1>3. PICK t \in [1 .. n + 1 -> Clients] :
        IsChain(n + 1, t)' /\ OnChain(n + 1, t) = OnChain(n, s) \cup {c}
  BY <1>2, LinkKeeps DEF TypeOK
<1>4. n + 1 \in Nat /\ OnChain(n + 1, t) = Operators'
  BY <1>2, <1>3
<1> QED BY <1>3, <1>4 DEF OnList

LEMMA ListLoses ==
  ASSUME UmodesAssumption, TypeOK, OnList, NEW c \in Operators,
         UnlinkOper(c), Operators' = Operators \ {c}
  PROVE  OnList'
<1>1. PICK n \in Nat : \E s \in [1 .. n -> Clients] :
               IsChain(n, s) /\ OnChain(n, s) = Operators
  BY DEF OnList
<1>2. PICK s \in [1 .. n -> Clients] : IsChain(n, s) /\ OnChain(n, s) = Operators
  BY <1>1
<1>3. PICK k \in 1 .. n : s[k] = c
  BY <1>2 DEF OnChain
<1>4. /\ n - 1 \in Nat
      /\ \E t \in [1 .. n - 1 -> Clients] :
           IsChain(n - 1, t)' /\ OnChain(n - 1, t) = OnChain(n, s) \ {s[k]}
  <2>1. UnlinkOper(s[k])
    BY <1>3
  <2>2. next_oper_client \in [Clients -> Clients \cup {NoClient}]
    BY DEF TypeOK
  <2> QED BY <1>2, <2>1, <2>2, UnlinkKeeps
<1>5. PICK t \in [1 .. n - 1 -> Clients] :
           IsChain(n - 1, t)' /\ OnChain(n - 1, t) = OnChain(n, s) \ {s[k]}
  BY <1>4
<1>6. OnChain(n - 1, t) = Operators'
  BY <1>2, <1>3, <1>5
<1> QED BY <1>4, <1>5, <1>6 DEF OnList

\* The lines of a client, and what the handlers do with them.
LEMMA TwoLines == <<"O">> \o <<"I">> = <<"O", "I">>
<1>1. <<"O">> \in Seq({"O", "I"}) /\ <<"I">> \in Seq({"O", "I"})
  OBVIOUS
<1>2. <<"O">> \o <<"I">> \in Seq({"O", "I"}) /\ Len(<<"O">> \o <<"I">>) = 2
  BY <1>1, ConcatProperties
<1>3. (<<"O">> \o <<"I">>)[1] = "O" /\ (<<"O">> \o <<"I">>)[2] = "I"
  BY <1>1, ConcatProperties
<1>4. /\ <<"O", "I">> \in Seq({"O", "I"}) /\ Len(<<"O", "I">>) = 2
      /\ <<"O", "I">>[1] = "O" /\ <<"O", "I">>[2] = "I"
  OBVIOUS
<1> DEFINE s == <<"O">> \o <<"I">>
           t == <<"O", "I">>
<1> HIDE DEF s, t
<1>5. s \in Seq({"O", "I"}) /\ t \in Seq({"O", "I"}) /\ Len(s) = 2 /\ Len(t) = 2
  BY <1>2, <1>4 DEF s, t
<1>6. s[1] = t[1] /\ s[2] = t[2]
  BY <1>3, <1>4 DEF s, t
<1>7. \A i \in 1 .. Len(s) : s[i] = t[i]
  <2>1. 1 .. Len(s) = {1, 2}
    BY <1>5
  <2> QED BY <1>6, <2>1
<1>8. s = t
  BY <1>5, <1>7, SeqEqual
<1> QED BY <1>8 DEF s, t

LEMMA LineTypes ==
  <<>> \in Lines /\ <<"I">> \in Lines /\ <<"O">> \in Lines /\ <<"O", "I">> \in Lines
<1>1. \A n \in 0 .. 2 : [1 .. n -> {"I", "O"}] \subseteq Lines
  BY DEF Lines
<1>2. <<>> \in [1 .. 0 -> {"I", "O"}]
  OBVIOUS
<1>3. <<"I">> \in [1 .. 1 -> {"I", "O"}] /\ <<"O">> \in [1 .. 1 -> {"I", "O"}]
  OBVIOUS
<1>4. <<"O", "I">> \in [1 .. 2 -> {"I", "O"}]
  OBVIOUS
<1>5. /\ [1 .. 0 -> {"I", "O"}] \subseteq Lines /\ [1 .. 1 -> {"I", "O"}] \subseteq Lines
      /\ [1 .. 2 -> {"I", "O"}] \subseteq Lines
  BY <1>1
<1> QED BY <1>2, <1>3, <1>4, <1>5

LEMMA InitHolds ==
  ASSUME UmodesAssumption, Init PROVE IInv
<1>1. Persons = {} /\ Invisible = {} /\ Empow = {} /\ Operators = {}
  BY DEF Init, Persons, Invisible, Empow, Operators
<1>2. Cardinality({}) = 0
  BY FS_EmptySet
<1>3. TypeOK
  <2>1. <<>> \in Lines
    BY DEF Lines
  <2>2. confs \in [Clients -> Lines]
    BY <2>1 DEF Init
  <2>3. Count \in [local : Nat, total : Int, invisi : Int, oper : Int]
    BY DEF Init
  <2>4. /\ status \in [Clients -> {"free", "client"}]
        /\ umodes \in [Clients -> SUBSET Modes] /\ setN \in SUBSET Clients
        /\ told \in [Clients -> SUBSET SEND_UMODES]
    BY DEF Init
  <2> QED BY <2>2, <2>3, <2>4 DEF Init, TypeOK
<1>4. LocalCounted /\ Tallied
  BY <1>1, <1>2 DEF LocalCounted, Tallied, Init
<1>5. OnList
  <2> DEFINE s == [i \in 1 .. 0 |-> NoClient]
  <2>1. s \in [1 .. 0 -> Clients] /\ OnChain(0, s) = {}
    BY DEF OnChain
  <2>2. IsChain(0, s)
    BY DEF IsChain, At, Init
  <2> QED BY <1>1, <2>1, <2>2 DEF OnList
<1>6. Sound
  BY <1>1, <1>3, <1>4 DEF Sound, UplinkTold, Init
<1>7. Agreed
  BY <1>1, <1>4, <1>5 DEF Agreed, LinesAgree, NeedsN, Init
<1> QED BY <1>6, <1>7 DEF IInv

LEMMA RegisterKeeps ==
  ASSUME UmodesAssumption, IInv, NEW c \in Clients, Register(c)
  PROVE  IInv'
<1>1. /\ TypeOK /\ LocalCounted /\ UplinkTold
      /\ c \in Locals /\ c \notin Persons
      /\ status' = [status EXCEPT ![c] = "client"]
      /\ umodes' = [umodes EXCEPT ![c] = {"i"}]
      /\ confs' = [confs EXCEPT ![c] = <<"I">>]
      /\ next_oper_client' = [next_oper_client EXCEPT ![c] = NoClient]
      /\ told' = IF linked THEN [told EXCEPT ![c] = {"i"}] ELSE told
      /\ UNCHANGED <<setN, oper_cptr_list, linked, serverAdmin, crashed>>
  BY DEF IInv, Sound, Register
<1>2. \A d \in Clients : d # c => status'[d] = status[d] /\ umodes'[d] = umodes[d]
  BY <1>1 DEF TypeOK
<1>3. /\ c \in Persons' /\ c \in Invisible' /\ c \notin Empow'
      /\ c \notin Invisible /\ c \notin Empow /\ c \notin Operators'
      /\ c \notin Operators
  BY <1>1 DEF TypeOK, Persons, Invisible, Empow, Operators, Empowered
<1>4. /\ IfIn(c, Persons') = 1 /\ IfIn(c, Persons) = 0
      /\ IfIn(c, Persons' \cap Locals) = 1 /\ IfIn(c, Persons \cap Locals) = 0
      /\ IfIn(c, Invisible') = 1 /\ IfIn(c, Invisible) = 0
      /\ IfIn(c, Empow') = 0 /\ IfIn(c, Empow) = 0
  BY <1>1, <1>3 DEF IfIn
<1>5. /\ Cardinality(Persons) \in Nat /\ Cardinality(Persons \cap Locals) \in Nat
      /\ Cardinality(Invisible) \in Nat /\ Cardinality(Empow) \in Nat
      /\ Cardinality(Persons') = Cardinality(Persons) + 1
      /\ Cardinality(Persons' \cap Locals) = Cardinality(Persons \cap Locals) + 1
      /\ Cardinality(Invisible') = Cardinality(Invisible) + 1
      /\ Cardinality(Empow') = Cardinality(Empow)
  <2>1. /\ Cardinality(Persons) \in Nat /\ Cardinality(Persons \cap Locals) \in Nat
        /\ Cardinality(Invisible) \in Nat /\ Cardinality(Empow) \in Nat
        /\ Cardinality(Persons') =
             Cardinality(Persons) + IfIn(c, Persons') - IfIn(c, Persons)
        /\ Cardinality(Persons' \cap Locals) = Cardinality(Persons \cap Locals)
             + IfIn(c, Persons' \cap Locals) - IfIn(c, Persons \cap Locals)
        /\ Cardinality(Invisible') =
             Cardinality(Invisible) + IfIn(c, Invisible') - IfIn(c, Invisible)
        /\ Cardinality(Empow') =
             Cardinality(Empow) + IfIn(c, Empow') - IfIn(c, Empow)
    BY <1>2, Tally
  <2> QED BY <1>4, <2>1
<1>6. /\ Count' \in [local : Nat, total : Int, invisi : Int, oper : Int]
      /\ LocalCounted'
      /\ Tallied => Tallied'
  <2>1. CASE Count' = Counted(1, 1, 1, 0)
    BY <1>1, <1>5, <2>1 DEF Counted, TypeOK, LocalCounted, Tallied
  <2>2. CASE Count' = Recount'
    BY <1>5, <2>2 DEF Recount, LocalCounted, Tallied, Invisible, Empow
  <2> QED BY <2>1, <2>2 DEF Register
<1>7. <<"I">> \in Lines
  BY DEF Lines
<1>8. TypeOK'
  BY <1>1, <1>6, <1>7 DEF TypeOK, Modes, SEND_UMODES
<1>9. UplinkTold'
  <2> SUFFICES ASSUME linked, NEW d \in Persons' \cap Locals
               PROVE  told'[d] = umodes'[d] \cap SEND_UMODES
    BY <1>1 DEF UplinkTold
  <2>1. CASE d = c
    BY <1>1, <2>1 DEF TypeOK, SEND_UMODES
  <2>2. CASE d # c
    BY <1>1, <2>2 DEF TypeOK, UplinkTold, Persons
  <2> QED BY <2>1, <2>2
<1>10. Sound'
  <2>1. \A d \in Clients : confs'[d] \in {<<>>, <<"I">>, <<"O">>, <<"O", "I">>}
    BY <1>1 DEF TypeOK, Sound, IInv
  <2> QED BY <1>6, <1>8, <1>9, <2>1 DEF Sound
<1>11. ASSUME Calm PROVE Agreed'
  <2>1. Agreed
    BY <1>11 DEF IInv
  <2>2. Operators' = Operators
    BY <1>1, <1>2, <1>3 DEF Operators, Persons, TypeOK
  <2>3. OnList'
    BY <1>1, <1>3, <2>1, <2>2, ListStays DEF Agreed, TypeOK, Operators, Persons
  <2>4. LinesAgree'
    BY <1>1, <1>3, <2>1 DEF Agreed, LinesAgree, TypeOK, Persons, Empowered
  <2>5. NeedsN'
    BY <1>1, <1>2, <2>1 DEF Agreed, NeedsN, TypeOK
  <2>6. \A d \in Clients \ Locals : umodes'[d] \subseteq SEND_UMODES
    BY <1>1, <1>2, <2>1 DEF Agreed
  <2>7. setN' \subseteq Operators' /\ ~crashed'
    BY <1>1, <2>1, <2>2 DEF Agreed
  <2> QED BY <1>6, <2>1, <2>3, <2>4, <2>5, <2>6, <2>7 DEF Agreed
<1> QED BY <1>10, <1>11 DEF IInv, Calm

LEMMA IntroduceKeeps ==
  ASSUME UmodesAssumption, IInv, NEW c \in Clients, NEW modes \in SUBSET SEND_UMODES,
         Introduce(c, modes)
  PROVE  IInv'
<1>1. /\ TypeOK /\ LocalCounted /\ UplinkTold
      /\ c \notin Locals /\ c \notin Persons
      /\ status' = [status EXCEPT ![c] = "client"]
      /\ umodes' = [umodes EXCEPT ![c] = modes]
      /\ Count' = Counted(0, 1, IfIn("i", modes), IfIn("a", modes))
      /\ UNCHANGED <<setN, confs, oper_cptr_list, next_oper_client, linked,
                     serverAdmin, told, crashed>>
  BY DEF IInv, Sound, Introduce
<1>2. \A d \in Clients : d # c => status'[d] = status[d] /\ umodes'[d] = umodes[d]
  BY <1>1 DEF TypeOK
<1>3. /\ c \in Persons'
      /\ c \in Invisible' <=> "i" \in modes
      /\ c \in Empow' <=> "a" \in modes
      /\ c \notin Invisible /\ c \notin Empow
      /\ Persons' \cap Locals = Persons \cap Locals
  BY <1>1 DEF TypeOK, Persons, Invisible, Empow, Empowered, SEND_UMODES
<1>4. /\ IfIn(c, Persons') = 1 /\ IfIn(c, Persons) = 0
      /\ IfIn(c, Invisible') = IfIn("i", modes) /\ IfIn(c, Invisible) = 0
      /\ IfIn(c, Empow') = IfIn("a", modes) /\ IfIn(c, Empow) = 0
      /\ IfIn("i", modes) \in Int /\ IfIn("a", modes) \in Int
  BY <1>1, <1>3 DEF IfIn
<1>5. /\ Cardinality(Persons) \in Nat /\ Cardinality(Invisible) \in Nat
      /\ Cardinality(Empow) \in Nat
      /\ Cardinality(Persons') = Cardinality(Persons) + 1
      /\ Cardinality(Invisible') = Cardinality(Invisible) + IfIn("i", modes)
      /\ Cardinality(Empow') = Cardinality(Empow) + IfIn("a", modes)
  <2>1. /\ Cardinality(Persons) \in Nat
        /\ Cardinality(Invisible) \in Nat /\ Cardinality(Empow) \in Nat
        /\ Cardinality(Persons') =
             Cardinality(Persons) + IfIn(c, Persons') - IfIn(c, Persons)
        /\ Cardinality(Invisible') =
             Cardinality(Invisible) + IfIn(c, Invisible') - IfIn(c, Invisible)
        /\ Cardinality(Empow') =
             Cardinality(Empow) + IfIn(c, Empow') - IfIn(c, Empow)
    BY <1>2, Tally
  <2> QED BY <1>4, <2>1
<1>6. /\ Count' \in [local : Nat, total : Int, invisi : Int, oper : Int]
      /\ LocalCounted'
      /\ Tallied => Tallied'
  <2>1. /\ Count'.local = Count.local /\ Count'.total = Count.total + 1
        /\ Count'.invisi = Count.invisi + IfIn("i", modes)
        /\ Count'.oper = Count.oper + IfIn("a", modes)
        /\ Count' \in [local : Nat, total : Int, invisi : Int, oper : Int]
    BY <1>1, <1>4 DEF Counted, TypeOK
  <2>2. LocalCounted'
    BY <1>1, <1>3, <2>1 DEF LocalCounted
  <2> QED BY <1>5, <2>1, <2>2 DEF Tallied
<1>7. TypeOK'
  BY <1>1, <1>6 DEF TypeOK, Modes, SEND_UMODES
<1>8. UplinkTold'
  BY <1>1, <1>2, <1>3 DEF UplinkTold
<1>9. Sound'
  BY <1>1, <1>6, <1>7, <1>8 DEF Sound, IInv
<1>10. ASSUME Calm PROVE Agreed'
  <2>1. Agreed
    BY <1>10 DEF IInv
  <2>2. Operators' = Operators
    BY <1>1, <1>2, <1>3 DEF Operators
  <2>3. OnList'
    BY <1>1, <2>1, <2>2, ListStays DEF Agreed
  <2>4. LinesAgree'
    BY <1>1, <1>2, <1>3, <2>1 DEF Agreed, LinesAgree
  <2>5. NeedsN'
    <3>1. "n" \notin umodes'[c]
      BY <1>1 DEF TypeOK, SEND_UMODES
    <3> QED BY <1>1, <1>2, <2>1, <3>1 DEF Agreed, NeedsN
  <2>6. \A d \in Clients \ Locals : umodes'[d] \subseteq SEND_UMODES
    BY <1>1, <1>2, <2>1 DEF Agreed, TypeOK
  <2>7. setN' \subseteq Operators' /\ ~crashed'
    BY <1>1, <2>1, <2>2 DEF Agreed
  <2> QED BY <1>6, <2>1, <2>3, <2>4, <2>5, <2>6, <2>7 DEF Agreed
<1> QED BY <1>9, <1>10 DEF IInv, Calm

LEMMA GhostKeeps ==
  ASSUME IInv, IntroduceGhost PROVE IInv'
<1>1. /\ Ghosts /\ Count' = Counted(0, -1, 0, 0)
      /\ UNCHANGED <<status, umodes, setN, confs, oper_cptr_list, next_oper_client,
                     linked, serverAdmin, told, crashed>>
  BY DEF IntroduceGhost
<1>2. TypeOK /\ LocalCounted /\ UplinkTold
  BY DEF IInv, Sound
<1>3. /\ Count' \in [local : Nat, total : Int, invisi : Int, oper : Int]
      /\ Count'.local = Count.local
  BY <1>1, <1>2 DEF Counted, TypeOK
<1>4. TypeOK'
  BY <1>1, <1>2, <1>3 DEF TypeOK
<1>5. LocalCounted' /\ UplinkTold'
  BY <1>1, <1>2, <1>3 DEF LocalCounted, UplinkTold, Persons
<1> QED BY <1>1, <1>4, <1>5 DEF IInv, Sound, Calm

\* An O line gives its modes and the flag N to a client that is no operator.
LEMMA OperKeeps ==
  ASSUME UmodesAssumption, IInv, NEW c \in Clients, Oper(c)
  PROVE  IInv'
<1> DEFINE new == umodes[c] \cup OperModes(c)
<1>1. /\ TypeOK /\ LocalCounted /\ UplinkTold
      /\ c \in Persons \cap Locals /\ ~Empowered(umodes[c])
      /\ \A i \in DOMAIN confs[c] : confs[c][i] # "O"
      /\ umodes' = [umodes EXCEPT ![c] = new]
      /\ SendUmodeOut(c, umodes[c], new)
      /\ confs' = [confs EXCEPT ![c] = <<"O">> \o @]
      /\ setN' = IF c \in NFlag THEN setN \cup {c} ELSE setN
      /\ Count' = Counted(0, 0, 0, 1)
      /\ LinkOper(c)
      /\ UNCHANGED <<status, linked, serverAdmin, crashed>>
  BY DEF IInv, Sound, Oper
<1>2. OperModes(c) \in SUBSET Modes /\ Empowered(OperModes(c))
  BY DEF OperModes, UmodesAssumption, Modes, Empowered
<1>3. new \in SUBSET Modes /\ Empowered(new)
  BY <1>1, <1>2 DEF TypeOK, Empowered
<1> HIDE DEF new
<1>4. /\ umodes' \in [Clients -> SUBSET Modes]
      /\ told' \in [Clients -> SUBSET SEND_UMODES]
      /\ UplinkTold'
  BY <1>1, <1>3, SendKeeps DEF IInv
<1>5. \A d \in Clients : d # c => status'[d] = status[d] /\ umodes'[d] = umodes[d]
  BY <1>1 DEF TypeOK
<1>6. confs'[c] \in {<<"O">>, <<"O", "I">>} /\ (confs[c] = <<"I">> => confs'[c] = <<"O", "I">>)
  <2>1. confs[c] \in {<<>>, <<"I">>}
    <3>1. confs[c] \in {<<>>, <<"I">>, <<"O">>, <<"O", "I">>}
      BY DEF IInv, Sound
    <3>2. ~(confs[c] = <<"O">>) /\ ~(confs[c] = <<"O", "I">>)
      BY <1>1
    <3> QED BY <3>1, <3>2
  <2>2. <<"O">> \o <<>> = <<"O">>
    OBVIOUS
  <2>3. <<"O">> \o <<"I">> = <<"O", "I">>
    BY TwoLines
  <2>4. confs'[c] = <<"O">> \o confs[c]
    BY <1>1 DEF TypeOK
  <2> QED BY <2>1, <2>2, <2>3, <2>4
<1>7. <<"O">> \in Lines /\ <<"O", "I">> \in Lines
  BY LineTypes
<1>8. confs' \in [Clients -> Lines] /\ \A d \in Clients : d # c => confs'[d] = confs[d]
  <2>1. confs' = [confs EXCEPT ![c] = confs'[c]]
    BY <1>1 DEF TypeOK
  <2> QED BY <1>1, <1>6, <1>7, <2>1 DEF TypeOK
<1>9. /\ Count' \in [local : Nat, total : Int, invisi : Int, oper : Int]
      /\ LocalCounted'
  BY <1>1 DEF Counted, TypeOK, LocalCounted, Persons
<1>10. TypeOK'
  BY <1>1, <1>4, <1>8, <1>9 DEF TypeOK, LinkOper
<1>11. Sound'
  BY <1>4, <1>6, <1>8, <1>9, <1>10 DEF Sound, IInv
<1>12. ASSUME Calm PROVE Agreed'
  <2>1. Agreed
    BY <1>12 DEF IInv
  <2>2. c \notin Operators /\ Operators' = Operators \cup {c} /\ Persons' = Persons
    BY <1>1, <1>3, <1>5 DEF Operators, Persons, TypeOK
  <2>3. OnList'
    BY <1>1, <2>1, <2>2, ListGains DEF Agreed
  <2>4. "i" \notin OperModes(c) /\ ("n" \in OperModes(c) => c \in NFlag)
    BY <1>12 DEF Calm, OperModes
  <2>5. LinesAgree'
    BY <1>1, <1>3, <1>5, <1>6, <1>8, <2>1, <2>2 DEF Agreed, LinesAgree, TypeOK
  <2>6. umodes'[c] = umodes[c] \cup OperModes(c)
    BY <1>1 DEF new, TypeOK
  <2>7. NeedsN'
    <3>1. "n" \notin umodes[c]
      BY <1>1, <2>1 DEF Agreed, NeedsN
    <3>2. "n" \in umodes'[c] => c \in setN'
      BY <1>1, <2>4, <2>6, <3>1
    <3>3. Empowered(umodes'[c])
      BY <1>1, <1>3 DEF TypeOK
    <3>4. setN \subseteq setN'
      BY <1>1
    <3> QED BY <1>5, <2>1, <3>2, <3>3, <3>4 DEF Agreed, NeedsN
  <2>8. \A d \in Clients \ Locals : umodes'[d] \subseteq SEND_UMODES
    BY <1>1, <1>5, <2>1 DEF Agreed
  <2>9. setN' \subseteq Operators' /\ ~crashed'
    BY <1>1, <2>1, <2>2 DEF Agreed
  <2>10. Tallied'
    <3>1. /\ c \in Invisible' <=> c \in Invisible
          /\ c \in Empow' /\ c \notin Empow
      BY <1>1, <1>3, <2>2, <2>4, <2>6 DEF Invisible, Empow, TypeOK
    <3>2. /\ Cardinality(Invisible) \in Nat /\ Cardinality(Empow) \in Nat
          /\ Cardinality(Invisible') =
               Cardinality(Invisible) + IfIn(c, Invisible') - IfIn(c, Invisible)
          /\ Cardinality(Empow') =
               Cardinality(Empow) + IfIn(c, Empow') - IfIn(c, Empow)
      BY <1>5, Tally
    <3>3. /\ Cardinality(Invisible') = Cardinality(Invisible)
          /\ Cardinality(Empow') = Cardinality(Empow) + 1
      BY <3>1, <3>2 DEF IfIn
    <3>4. /\ Count'.total = Count.total /\ Count'.invisi = Count.invisi
          /\ Count'.oper = Count.oper + 1
      BY <1>1 DEF Counted, TypeOK
    <3> QED BY <2>1, <2>2, <3>3, <3>4 DEF Agreed, Tallied
  <2> QED BY <2>3, <2>5, <2>7, <2>8, <2>9, <2>10 DEF Agreed
<1> QED BY <1>11, <1>12 DEF IInv, Calm

LEMMA DetachedLine ==
  /\ Detached(<<>>, "O") = <<>> /\ Detached(<<"I">>, "O") = <<"I">>
  /\ Detached(<<"O">>, "O") = <<>> /\ Detached(<<"O", "I">>, "O") = <<"I">>
<1>1. Detached(<<>>, "O") = <<>> /\ Detached(<<"I">>, "O") = <<"I">>
  BY DEF Detached
<1>2. Detached(<<"O">>, "O") = <<>>
  <2> DEFINE s == <<"O">>
             first == CHOOSE k \in DOMAIN s : s[k] = "O" /\ \A j \in 1 .. k - 1 : s[j] # "O"
  <2>1. DOMAIN s = {1} /\ s[1] = "O" /\ 1 .. 1 - 1 = {}
    OBVIOUS
  <2>2. first = 1
    BY <2>1
  <2>3. Detached(s, "O") = [i \in 1 .. Len(s) - 1 |-> IF i < first THEN s[i] ELSE s[i + 1]]
    BY <2>1 DEF Detached
  <2>4. Len(s) - 1 = 0
    OBVIOUS
  <2> QED BY <2>3, <2>4
<1>3. Detached(<<"O", "I">>, "O") = <<"I">>
  <2> DEFINE s == <<"O", "I">>
             first == CHOOSE k \in DOMAIN s : s[k] = "O" /\ \A j \in 1 .. k - 1 : s[j] # "O"
  <2>1. DOMAIN s = {1, 2} /\ s[1] = "O" /\ s[2] = "I" /\ 1 .. 1 - 1 = {}
    OBVIOUS
  <2>2. first = 1
    BY <2>1
  <2>3. Detached(s, "O") = [i \in 1 .. Len(s) - 1 |-> IF i < first THEN s[i] ELSE s[i + 1]]
    BY <2>1 DEF Detached
  <2>4. Len(s) - 1 = 1
    OBVIOUS
  <2>5. Detached(s, "O") = [i \in 1 .. 1 |-> IF i < 1 THEN s[i] ELSE s[i + 1]]
    BY <2>2, <2>3, <2>4
  <2>6. [i \in 1 .. 1 |-> IF i < 1 THEN s[i] ELSE s[i + 1]] = [i \in 1 .. 1 |-> "I"]
    BY <2>1
  <2> QED BY <2>5, <2>6
<1> QED BY <1>1, <1>2, <1>3

LEMMA OperRefusedKeeps ==
  ASSUME UmodesAssumption, IInv, NEW c \in Clients, OperRefused(c)
  PROVE  IInv'
<1>1. /\ TypeOK /\ LocalCounted /\ UplinkTold
      /\ c \in Persons \cap Locals /\ ~Empowered(umodes[c])
      /\ confs' = [confs EXCEPT ![c] = Detached(@, "O")]
      /\ UNCHANGED <<status, umodes, setN, Count, oper_cptr_list, next_oper_client,
                     linked, serverAdmin, told, crashed>>
  BY DEF IInv, Sound, OperRefused
<1>2. /\ confs'[c] \in {<<>>, <<"I">>}
      /\ confs[c] = <<"I">> => confs'[c] = <<"I">>
  <2>1. confs'[c] = Detached(confs[c], "O")
    BY <1>1 DEF TypeOK
  <2>2. confs[c] \in {<<>>, <<"I">>, <<"O">>, <<"O", "I">>}
    BY DEF IInv, Sound
  <2> QED BY <2>1, <2>2, DetachedLine
<1>3. confs' \in [Clients -> Lines] /\ \A d \in Clients : d # c => confs'[d] = confs[d]
  <2>1. confs' = [confs EXCEPT ![c] = confs'[c]]
    BY <1>1 DEF TypeOK
  <2> QED BY <1>1, <1>2, <2>1, LineTypes DEF TypeOK
<1>4. TypeOK'
  BY <1>1, <1>3 DEF TypeOK
<1>5. Persons' = Persons /\ Invisible' = Invisible /\ Empow' = Empow
      /\ Operators' = Operators
  BY <1>1 DEF Persons, Invisible, Empow, Operators
<1>6. Sound'
  BY <1>1, <1>2, <1>3, <1>4, <1>5 DEF Sound, IInv, LocalCounted, UplinkTold
<1>7. ASSUME Calm PROVE Agreed'
  <2>1. Agreed
    BY <1>7 DEF IInv
  <2>2. OnList'
    BY <1>1, <1>5, <2>1, ListStays DEF Agreed
  <2>3. LinesAgree'
    BY <1>1, <1>2, <1>3, <1>5, <2>1 DEF Agreed, LinesAgree
  <2> QED BY <1>1, <1>5, <2>1, <2>2, <2>3 DEF Agreed, Tallied, NeedsN
<1> QED BY <1>6, <1>7 DEF IInv, Calm

\* The modes of a client become m, by a command of its own that leaves the lines
\* and the list alone: Agreed stays if it is no other operator than before.
LEMMA ModesKeep ==
  ASSUME TypeOK, Agreed, NEW c \in Persons, NEW m \in SUBSET Modes,
         umodes' = [umodes EXCEPT ![c] = m],
         c \in Locals => (Empowered(m) <=> Empowered(umodes[c])),
         "n" \in m => c \in setN /\ Empowered(m),
         c \notin Locals => m \subseteq SEND_UMODES,
         UNCHANGED <<status, setN, confs, oper_cptr_list, next_oper_client, crashed>>,
         Tallied'
  PROVE  Agreed'
<1>1. /\ c \in Clients /\ Persons' = Persons /\ umodes'[c] = m
      /\ \A d \in Clients : d # c => umodes'[d] = umodes[d]
  BY DEF Persons, TypeOK
<1>2. Operators' = Operators
  BY <1>1 DEF Operators, Persons
<1>3. OnList'
  BY <1>2, ListStays DEF Agreed
<1>4. LinesAgree'
  BY <1>1 DEF Agreed, LinesAgree
<1>5. NeedsN'
  BY <1>1 DEF Agreed, NeedsN
<1>6. setN' \subseteq Operators' /\ ~crashed'
  BY <1>2 DEF Agreed
<1>7. \A d \in Clients \ Locals : umodes'[d] \subseteq SEND_UMODES
  BY <1>1 DEF Agreed
<1> QED BY <1>3, <1>4, <1>5, <1>6, <1>7 DEF Agreed

LEMMA ModeLetterKeeps ==
  ASSUME UmodesAssumption, IInv, NEW c \in Clients, NEW what \in {"+", "-"},
         NEW l \in Modes \cup {"O"}, ModeLetter(c, what, l)
  PROVE  IInv'
<1> DEFINE new == IF what = "+" THEN umodes[c] \cup {l} ELSE umodes[c] \ {l}
           m == DropN(new, c \in setN)
<1>1. /\ TypeOK /\ c \in Persons
      /\ l \in IF c \in Locals THEN Letters \ {"a", "O"} ELSE SEND_UMODES \ {"a"}
      /\ NewModes(c, new, c \in setN, 0)
      /\ UNCHANGED <<status, setN, confs, oper_cptr_list, next_oper_client, linked,
                     serverAdmin, crashed>>
  BY DEF IInv, Sound, ModeLetter
<1>2. l \in Modes \ {"a"} /\ new \in SUBSET Modes /\ (c \in setN) \in BOOLEAN
  BY <1>1 DEF TypeOK, SEND_UMODES, Modes
<1> HIDE DEF new
<1>3. /\ umodes' = [umodes EXCEPT ![c] = m]
      /\ umodes' \in [Clients -> SUBSET Modes]
      /\ told' \in [Clients -> SUBSET SEND_UMODES]
      /\ Count' \in [local : Nat, total : Int, invisi : Int, oper : Int]
      /\ LocalCounted' /\ UplinkTold'
      /\ Tallied /\ 0 = (IF Empowered(m) THEN 1 ELSE 0)
                        - (IF Empowered(umodes[c]) THEN 1 ELSE 0)
         => Tallied'
  BY <1>1, <1>2, NewModesKeep DEF IInv
<1>4. TypeOK'
  BY <1>1, <1>3 DEF TypeOK
<1>5. Sound'
  BY <1>1, <1>3, <1>4 DEF Sound, IInv
<1>6. ASSUME Calm PROVE Agreed'
  <2>1. Agreed
    BY <1>6 DEF IInv
  <2>2. l \notin {"a", "o"}
    BY <1>1, <1>2, <1>6 DEF Calm, SEND_UMODES
  <2>3. Empowered(m) <=> Empowered(umodes[c])
    BY <2>2 DEF Empowered, DropN, new
  <2>4. "n" \in m => c \in setN /\ Empowered(m)
    BY <2>1, <2>3 DEF DropN, Agreed, Operators
  <2>5. c \notin Locals => m \subseteq SEND_UMODES
    BY <1>1, <2>1 DEF Agreed, DropN, new, Persons
  <2>6. Tallied'
    BY <1>3, <2>1, <2>3 DEF Agreed
  <2>7. m \in SUBSET Modes
    BY <1>2 DEF DropN
  <2> QED BY <1>1, <1>3, <2>1, <2>3, <2>4, <2>5, <2>6, <2>7, ModesKeep
<1> QED BY <1>5, <1>6 DEF IInv, Calm

LEMMA ModePlusAdminKeeps ==
  ASSUME UmodesAssumption, IInv, NEW c \in Clients, ModePlusAdmin(c)
  PROVE  IInv'
<1> DEFINE new == umodes[c] \cup {"a"}
           m == DropN(new, FALSE)
<1>1. /\ TypeOK /\ c \in Persons /\ c \notin Locals /\ "a" \notin umodes[c]
      /\ NewModes(c, new, FALSE, 1)
      /\ UNCHANGED <<status, setN, confs, oper_cptr_list, next_oper_client, linked,
                     serverAdmin, crashed>>
  BY DEF IInv, Sound, ModePlusAdmin
<1>2. new \in SUBSET Modes
  BY <1>1 DEF TypeOK, Modes
<1> HIDE DEF new
<1>3. /\ umodes' = [umodes EXCEPT ![c] = m]
      /\ umodes' \in [Clients -> SUBSET Modes]
      /\ told' \in [Clients -> SUBSET SEND_UMODES]
      /\ Count' \in [local : Nat, total : Int, invisi : Int, oper : Int]
      /\ LocalCounted' /\ UplinkTold'
      /\ Tallied /\ 1 = (IF Empowered(m) THEN 1 ELSE 0)
                        - (IF Empowered(umodes[c]) THEN 1 ELSE 0)
         => Tallied'
  BY <1>1, <1>2, NewModesKeep DEF IInv
<1>4. TypeOK'
  BY <1>1, <1>3 DEF TypeOK
<1>5. Sound'
  BY <1>1, <1>3, <1>4 DEF Sound, IInv
<1>6. ASSUME Calm PROVE Agreed'
  <2>1. Agreed /\ c \in Clients \ Locals
    BY <1>1, <1>6 DEF IInv
  <2>2. umodes[c] \subseteq SEND_UMODES
    BY <2>1 DEF Agreed
  <2>3. Empowered(m) /\ ~Empowered(umodes[c])
    BY <1>1, <2>2 DEF Empowered, DropN, new, SEND_UMODES
  <2>4. "n" \notin m /\ m \subseteq SEND_UMODES
    BY <2>2 DEF DropN, new, SEND_UMODES
  <2>5. Tallied'
    BY <1>3, <2>1, <2>3 DEF Agreed
  <2>6. m \in SUBSET Modes
    BY <1>2 DEF DropN
  <2> QED BY <1>1, <1>3, <2>1, <2>3, <2>4, <2>5, <2>6, ModesKeep
<1> QED BY <1>5, <1>6 DEF IInv, Calm

LEMMA TailLine ==
  Tail(<<"I">>) = <<>> /\ Tail(<<"O">>) = <<>> /\ Tail(<<"O", "I">>) = <<"I">>
  OBVIOUS

\* A client that steps down leaves the list, its O line, its flag N and +n.
LEMMA ModeMinusAdminKeeps ==
  ASSUME UmodesAssumption, IInv, NEW c \in Clients, ModeMinusAdmin(c)
  PROVE  IInv'
<1> DEFINE new == umodes[c] \ {"a", "o"}
           hasN == c \in setN /\ ~(c \in Locals /\ Empowered(umodes[c]))
           m == DropN(new, hasN)
<1>1. /\ TypeOK /\ c \in Persons
      /\ NewModes(c, new, hasN, Decrease(c))
      /\ UNCHANGED <<status, linked, serverAdmin, crashed>>
  BY DEF IInv, Sound, ModeMinusAdmin, MinusAdmin
<1>2. new \in SUBSET Modes /\ hasN \in BOOLEAN /\ Decrease(c) \in {-1, 0, 1}
  BY <1>1 DEF TypeOK, Decrease
<1> HIDE DEF new, hasN
<1>3. /\ umodes' = [umodes EXCEPT ![c] = m]
      /\ umodes' \in [Clients -> SUBSET Modes]
      /\ told' \in [Clients -> SUBSET SEND_UMODES]
      /\ Count' \in [local : Nat, total : Int, invisi : Int, oper : Int]
      /\ LocalCounted' /\ UplinkTold'
      /\ Tallied /\ Decrease(c) = (IF Empowered(m) THEN 1 ELSE 0)
                                  - (IF Empowered(umodes[c]) THEN 1 ELSE 0)
         => Tallied'
  BY <1>1, <1>2, NewModesKeep DEF IInv
<1>4. ~Empowered(m) /\ m \in SUBSET Modes
  BY <1>2 DEF Empowered, DropN, new
<1>5. Tallied => Tallied'
  <2>1. Decrease(c) = (IF Empowered(m) THEN 1 ELSE 0)
                      - (IF Empowered(umodes[c]) THEN 1 ELSE 0)
    BY <1>4 DEF Decrease
  <2> QED BY <1>3, <2>1
<1>6. CASE c \in Locals /\ Empowered(umodes[c])
  <2>1. /\ confs[c] # <<>> /\ confs' = DetachFirst(c) /\ setN' = setN \ {c}
        /\ UnlinkOper(c)
    BY <1>6 DEF ModeMinusAdmin
  <2>2. confs'[c] = Tail(confs[c]) /\ \A d \in Clients : d # c => confs'[d] = confs[d]
    BY <1>1, <2>1 DEF DetachFirst, TypeOK
  <2>3. confs'[c] \in {<<>>, <<"I">>}
    <3>1. confs[c] \in {<<"I">>, <<"O">>, <<"O", "I">>}
      BY <2>1 DEF IInv, Sound
    <3> QED BY <2>2, <3>1, TailLine
  <2>4. confs' \in [Clients -> Lines]
    <3>1. confs' = [confs EXCEPT ![c] = confs'[c]]
      BY <1>1, <2>1 DEF DetachFirst, TypeOK
    <3> QED BY <1>1, <2>3, <3>1, LineTypes DEF TypeOK
  <2>5. /\ oper_cptr_list' \in Clients \cup {NoClient}
        /\ next_oper_client' \in [Clients -> Clients \cup {NoClient}]
    BY <1>1, <2>1 DEF UnlinkOper, TypeOK
  <2>6. TypeOK'
    BY <1>1, <1>3, <2>1, <2>4, <2>5 DEF TypeOK
  <2>7. Sound'
    BY <1>3, <2>2, <2>3, <2>6 DEF Sound, IInv
  <2>8. ASSUME Calm PROVE Agreed'
    <3>1. Agreed
      BY <2>8 DEF IInv
    <3>2. /\ Persons' = Persons /\ umodes'[c] = m
          /\ \A d \in Clients : d # c => umodes'[d] = umodes[d]
      BY <1>1, <1>3 DEF Persons, TypeOK
    <3>3. c \in Operators /\ Operators' = Operators \ {c}
      BY <1>1, <1>4, <1>6, <3>2 DEF Operators, Persons
    <3>4. OnList'
      BY <1>1, <2>1, <3>1, <3>3, ListLoses DEF Agreed
    <3>5. confs[c] = <<"O", "I">>
      BY <1>1, <1>6, <3>1 DEF Agreed, LinesAgree
    <3>6. confs'[c] = <<"I">>
      BY <2>2, <3>5, TailLine
    <3>7. LinesAgree'
      BY <1>1, <1>4, <1>6, <2>2, <3>1, <3>2, <3>6 DEF Agreed, LinesAgree
    <3>8. "n" \notin m
      BY <1>6 DEF DropN, hasN
    <3>9. NeedsN'
      BY <2>1, <3>1, <3>2, <3>8 DEF Agreed, NeedsN
    <3>10. setN' \subseteq Operators' /\ ~crashed'
      BY <1>1, <2>1, <3>1, <3>3 DEF Agreed
    <3>11. \A d \in Clients \ Locals : umodes'[d] \subseteq SEND_UMODES
      BY <1>6, <3>1, <3>2 DEF Agreed
    <3> QED BY <1>5, <3>1, <3>4, <3>7, <3>9, <3>10, <3>11 DEF Agreed
  <2> QED BY <2>7, <2>8 DEF IInv, Calm
<1>7. CASE ~(c \in Locals /\ Empowered(umodes[c]))
  <2>1. UNCHANGED <<confs, setN, oper_cptr_list, next_oper_client>>
    BY <1>7 DEF ModeMinusAdmin
  <2>2. TypeOK'
    BY <1>1, <1>3, <2>1 DEF TypeOK
  <2>3. Sound'
    BY <1>3, <2>1, <2>2 DEF Sound, IInv
  <2>4. ASSUME Calm PROVE Agreed'
    <3>1. Agreed
      BY <2>4 DEF IInv
    <3>2. c \notin setN
      BY <1>7, <3>1 DEF Agreed, Operators
    <3>3. "n" \notin m
      BY <3>2 DEF DropN, hasN
    <3>4. c \notin Locals => m \subseteq SEND_UMODES
      BY <1>1, <3>1 DEF Agreed, DropN, new, Persons
    <3> QED BY <1>1, <1>3, <1>4, <1>5, <1>7, <2>1, <3>1, <3>3, <3>4, ModesKeep DEF Agreed
  <2> QED BY <2>3, <2>4 DEF IInv, Calm
<1> QED BY <1>6, <1>7

LEMMA ModeMinusNoLineKeeps ==
  ASSUME IInv, NEW c \in Clients, ModeMinusNoLine(c)
  PROVE  IInv'
<1>1. /\ TypeOK /\ LocalCounted /\ UplinkTold /\ crashed' = TRUE
      /\ c \in Persons \cap Locals /\ Empowered(umodes[c]) /\ confs[c] = <<>>
      /\ UNCHANGED <<status, umodes, setN, confs, Count, oper_cptr_list,
                     next_oper_client, linked, serverAdmin, told>>
  BY DEF IInv, Sound, ModeMinusNoLine
<1>2. TypeOK' /\ LocalCounted' /\ UplinkTold'
  BY <1>1 DEF TypeOK, LocalCounted, UplinkTold, Persons
<1>3. ~Agreed
  <2> SUFFICES ASSUME LinesAgree PROVE FALSE
    BY DEF Agreed
  <2>1. confs[c] = <<"O", "I">>
    BY <1>1 DEF LinesAgree
  <2>2. confs[c] = <<>>
    BY <1>1
  <2>3. <<>> # <<"O", "I">>
    OBVIOUS
  <2> QED BY <2>1, <2>2, <2>3, Zenon
<1>4. ~Calm
  BY <1>3 DEF IInv
<1>5. Sound'
  BY <1>1, <1>2 DEF IInv, Sound
<1> QED BY <1>4, <1>5 DEF IInv, Calm

LEMMA ServerModeKeeps ==
  ASSUME UmodesAssumption, IInv, NEW c \in Clients, NEW what \in {"+", "-"},
         NEW l \in Modes \cup {"O"}, ServerMode(c, what, l)
  PROVE  IInv'
<1>1. /\ TypeOK /\ LocalCounted /\ UplinkTold /\ linked
      /\ c \in Persons /\ l \in ServerLetters
      /\ UNCHANGED <<status, setN, confs, oper_cptr_list, next_oper_client, linked,
                     crashed>>
  BY DEF IInv, Sound, ServerMode
<1>2. CASE l \in {"a", "O"}
  <2>1. /\ serverAdmin' \in BOOLEAN /\ UNCHANGED <<umodes, told>>
        /\ Count' = Counted(0, 0, 0, 1) \/ Count' = Counted(0, 0, 0, -1)
    BY <1>2 DEF ServerMode
  <2>2. /\ Count' \in [local : Nat, total : Int, invisi : Int, oper : Int]
        /\ Count'.local = Count.local
    BY <1>1, <2>1 DEF Counted, TypeOK
  <2>3. TypeOK'
    BY <1>1, <2>1, <2>2 DEF TypeOK
  <2>4. LocalCounted' /\ UplinkTold'
    BY <1>1, <2>1, <2>2 DEF LocalCounted, UplinkTold, Persons
  <2>5. ~Calm
    BY <1>1, <1>2 DEF Calm
  <2> QED BY <1>1, <2>3, <2>4, <2>5 DEF IInv, Sound, Calm
<1>3. CASE l \notin {"a", "O"}
  <2> DEFINE m == IF what = "+" THEN umodes[c] \cup {l} ELSE umodes[c] \ {l}
  <2>1. /\ umodes' = [umodes EXCEPT ![c] = m]
        /\ told' = IF c \in Locals /\ l \in SEND_UMODES
                   THEN [told EXCEPT ![c] = IF what = "+" THEN @ \cup {l} ELSE @ \ {l}]
                   ELSE told
        /\ UNCHANGED <<serverAdmin, Count>>
    BY <1>3 DEF ServerMode
  <2>2. m \in SUBSET Modes
    BY <1>1, <1>3 DEF TypeOK
  <2>3. /\ c \in Clients /\ Persons' = Persons
        /\ \A d \in Clients : d # c => umodes'[d] = umodes[d] /\ told'[d] = told[d]
    BY <1>1, <2>1 DEF TypeOK, Persons
  <2>4. TypeOK'
    BY <1>1, <2>1, <2>2 DEF TypeOK
  <2>5. LocalCounted'
    BY <1>1, <2>1, <2>3 DEF LocalCounted
  <2>6. UplinkTold'
    <3>1. c \in Locals => told'[c] = umodes'[c] \cap SEND_UMODES
      <4> SUFFICES ASSUME c \in Locals PROVE told'[c] = umodes'[c] \cap SEND_UMODES
        OBVIOUS
      <4>1. told[c] = umodes[c] \cap SEND_UMODES
        BY <1>1 DEF UplinkTold
      <4>2. umodes'[c] = m
        BY <1>1, <2>1 DEF TypeOK
      <4>3. CASE l \in SEND_UMODES
        BY <1>1, <2>1, <4>1, <4>2, <4>3 DEF TypeOK
      <4>4. CASE l \notin SEND_UMODES
        BY <1>1, <2>1, <4>1, <4>2, <4>4 DEF TypeOK
      <4> QED BY <4>3, <4>4
    <3> QED BY <1>1, <2>3, <3>1 DEF UplinkTold, Persons
  <2>7. Sound'
    BY <1>1, <2>4, <2>5, <2>6 DEF Sound, IInv
  <2>8. ASSUME Calm PROVE Agreed'
    <3>1. Agreed /\ l = "w"
      BY <1>1, <2>8 DEF IInv, Calm
    <3>2. /\ Empowered(m) <=> Empowered(umodes[c])
          /\ "i" \in m <=> "i" \in umodes[c]
          /\ "n" \in m <=> "n" \in umodes[c]
      BY <3>1 DEF Empowered
    <3>3. umodes'[c] = m
      BY <1>1, <2>1 DEF TypeOK
    <3>4. Invisible' = Invisible /\ Empow' = Empow
      BY <2>3, <3>2, <3>3 DEF Invisible, Empow, Persons
    <3>5. Tallied'
      BY <2>1, <2>3, <3>1, <3>4 DEF Agreed, Tallied
    <3>6. "n" \in m => c \in setN /\ Empowered(m)
      BY <3>1, <3>2, <2>3 DEF Agreed, NeedsN
    <3>7. c \notin Locals => m \subseteq SEND_UMODES
      BY <2>3, <3>1 DEF Agreed, SEND_UMODES
    <3> QED BY <1>1, <2>1, <2>2, <3>1, <3>2, <3>5, <3>6, <3>7, ModesKeep
  <2> QED BY <2>7, <2>8 DEF IInv, Calm
<1> QED BY <1>2, <1>3

-----------------------------------------------------------------------------
(* Exits, links and recounts.                                              *)

\* What is left when the clients of D exit.
LEMMA ForgetType ==
  ASSUME TypeOK, NEW D \in SUBSET Clients, Forget(D)
  PROVE  /\ status' \in [Clients -> {"free", "client"}]
         /\ umodes' \in [Clients -> SUBSET Modes]
         /\ confs' \in [Clients -> Lines] /\ setN' \in SUBSET Clients
         /\ Persons' = Persons \ D
         /\ Invisible' = Invisible \ D /\ Empow' = Empow \ D
         /\ Operators' = Operators \ D
         /\ \A d \in Clients :
              /\ umodes'[d] = IF d \in D THEN {} ELSE umodes[d]
              /\ confs'[d] = IF d \in D THEN <<>> ELSE confs[d]
<1>1. /\ status' = [c \in Clients |-> IF c \in D THEN "free" ELSE status[c]]
      /\ umodes' = [c \in Clients |-> IF c \in D THEN {} ELSE umodes[c]]
      /\ confs' = [c \in Clients |-> IF c \in D THEN <<>> ELSE confs[c]]
      /\ setN' = setN \ D
  BY DEF Forget
<1>2. /\ status' \in [Clients -> {"free", "client"}]
      /\ umodes' \in [Clients -> SUBSET Modes] /\ setN' \in SUBSET Clients
  BY <1>1 DEF TypeOK
<1>3. confs' \in [Clients -> Lines]
  BY <1>1, LineTypes DEF TypeOK
<1>4. Persons' = Persons \ D
  BY <1>1 DEF Persons, TypeOK
<1>5. \A d \in Clients :
        /\ umodes'[d] = IF d \in D THEN {} ELSE umodes[d]
        /\ confs'[d] = IF d \in D THEN <<>> ELSE confs[d]
  BY <1>1
<1>6. Invisible' = Invisible \ D
  BY <1>4, <1>5 DEF Invisible, Persons
<1>7. Empow' = Empow \ D
  BY <1>4, <1>5 DEF Empow, Persons
<1>8. Operators' = Operators \ D
  BY <1>4, <1>5 DEF Operators, Persons
<1> QED BY <1>2, <1>3, <1>4, <1>5, <1>6, <1>7, <1>8

Counts == [local : Int, total : Int, invisi : Int, oper : Int]

\* The counters are right about the clients that are left.
LEMMA ExitsCounted ==
  ASSUME UmodesAssumption, TypeOK, NEW D \in SUBSET Persons, Forget(D)
  PROVE  /\ CountExits(D) \in Counts
         /\ CountExits(D).local = Count.local
         /\ Tallied => /\ CountExits(D).total = Cardinality(Persons')
                       /\ CountExits(D).invisi = Cardinality(Invisible')
                       /\ CountExits(D).oper = Cardinality(Empow')
<1> DEFINE I == {d \in D : "i" \in umodes[d]}
           E == {d \in D : Empowered(umodes[d])}
<1>1. /\ D \subseteq Clients /\ Persons \subseteq Clients
      /\ Invisible \subseteq Clients /\ Empow \subseteq Clients
      /\ I \subseteq Clients /\ E \subseteq Clients
  BY DEF Persons, Invisible, Empow
<1>2. /\ IsFiniteSet(Persons) /\ IsFiniteSet(Invisible) /\ IsFiniteSet(Empow)
      /\ IsFiniteSet(D) /\ IsFiniteSet(I) /\ IsFiniteSet(E)
  BY <1>1, FS_Subset DEF UmodesAssumption
<1>3. /\ Cardinality(D) \in Nat /\ Cardinality(I) \in Nat /\ Cardinality(E) \in Nat
      /\ Cardinality(Persons) \in Nat /\ Cardinality(Invisible) \in Nat
      /\ Cardinality(Empow) \in Nat
  BY <1>2, FS_CardinalityType
<1>4. /\ Persons' = Persons \ D
      /\ Invisible' = Invisible \ D /\ Empow' = Empow \ D
  BY <1>1, ForgetType
<1>5. Persons \cap D = D /\ Invisible \cap D = I /\ Empow \cap D = E
  BY DEF Invisible, Empow
<1>6. /\ Cardinality(Persons') = Cardinality(Persons) - Cardinality(D)
      /\ Cardinality(Invisible') = Cardinality(Invisible) - Cardinality(I)
      /\ Cardinality(Empow') = Cardinality(Empow) - Cardinality(E)
  <2>1. /\ Cardinality(Persons \ D) = Cardinality(Persons) - Cardinality(Persons \cap D)
        /\ Cardinality(Invisible \ D) = Cardinality(Invisible) - Cardinality(Invisible \cap D)
        /\ Cardinality(Empow \ D) = Cardinality(Empow) - Cardinality(Empow \cap D)
    BY <1>2, FS_Difference
  <2> QED BY <1>4, <1>5, <2>1
<1>7. CountExits(D) = Counted(0, -Cardinality(D), -Cardinality(I), -Cardinality(E))
  BY DEF CountExits
<1> HIDE DEF I, E
<1>8. /\ CountExits(D) \in Counts /\ CountExits(D).local = Count.local
      /\ CountExits(D).total = Count.total - Cardinality(D)
      /\ CountExits(D).invisi = Count.invisi - Cardinality(I)
      /\ CountExits(D).oper = Count.oper - Cardinality(E)
  BY <1>3, <1>7 DEF Counted, Counts, TypeOK
<1> QED BY <1>3, <1>6, <1>8 DEF Tallied

\* The invariant of the modes, when clients that are on no list exit.
LEMMA AgreedExits ==
  ASSUME TypeOK, Agreed, NEW D \in SUBSET Persons, Forget(D), Tallied', OnList',
         UNCHANGED crashed
  PROVE  Agreed'
<1>1. /\ D \in SUBSET Clients
      /\ Persons' = Persons \ D /\ Operators' = Operators \ D /\ setN' = setN \ D
      /\ \A d \in Clients :
           /\ umodes'[d] = IF d \in D THEN {} ELSE umodes[d]
           /\ confs'[d] = IF d \in D THEN <<>> ELSE confs[d]
  <2>1. D \in SUBSET Clients
    BY DEF Persons
  <2> QED BY <2>1, ForgetType DEF Forget
<1>2. LinesAgree'
  BY <1>1 DEF Agreed, LinesAgree
<1>3. NeedsN'
  BY <1>1 DEF Agreed, NeedsN
<1>4. setN' \subseteq Operators' /\ ~crashed'
  BY <1>1 DEF Agreed
<1>5. \A d \in Clients \ Locals : umodes'[d] \subseteq SEND_UMODES
  BY <1>1 DEF Agreed
<1> QED BY <1>2, <1>3, <1>4, <1>5 DEF Agreed

LEMMA ExitLocalKeeps ==
  ASSUME UmodesAssumption, IInv, NEW c \in Clients, ExitLocal(c)
  PROVE  IInv'
<1>1. /\ TypeOK /\ LocalCounted /\ UplinkTold
      /\ c \in Persons \cap Locals
      /\ IF Empowered(umodes[c]) THEN UnlinkOper(c)
         ELSE UNCHANGED <<oper_cptr_list, next_oper_client>>
      /\ Count' = [CountExits({c}) EXCEPT !.local = @ - 1]
      /\ Forget({c})
      /\ told' = [told EXCEPT ![c] = {}]
      /\ UNCHANGED <<linked, serverAdmin, crashed>>
      /\ {c} \in SUBSET Persons /\ {c} \in SUBSET Clients
  BY DEF IInv, Sound, ExitLocal
<1>2. /\ status' \in [Clients -> {"free", "client"}]
      /\ umodes' \in [Clients -> SUBSET Modes]
      /\ confs' \in [Clients -> Lines] /\ setN' \in SUBSET Clients
      /\ Persons' = Persons \ {c} /\ Operators' = Operators \ {c}
      /\ \A d \in Clients :
           /\ umodes'[d] = IF d \in {c} THEN {} ELSE umodes[d]
           /\ confs'[d] = IF d \in {c} THEN <<>> ELSE confs[d]
  BY <1>1, ForgetType
<1>3. /\ CountExits({c}) \in Counts
      /\ CountExits({c}).local = Count.local
      /\ Tallied => /\ CountExits({c}).total = Cardinality(Persons')
                    /\ CountExits({c}).invisi = Cardinality(Invisible')
                    /\ CountExits({c}).oper = Cardinality(Empow')
  BY <1>1, ExitsCounted
<1>4. /\ Count'.local = Count.local - 1 /\ Count' \in Counts
      /\ Count'.total = CountExits({c}).total
      /\ Count'.invisi = CountExits({c}).invisi
      /\ Count'.oper = CountExits({c}).oper
  <2> DEFINE r == CountExits({c})
  <2>1. r \in Counts /\ Count' = [r EXCEPT !.local = r.local - 1] /\ r.local = Count.local
    BY <1>1, <1>3
  <2> HIDE DEF r
  <2>2. PICK i \in Int, j \in Int, k \in Int, l \in Int :
          r = [local |-> i, total |-> j, invisi |-> k, oper |-> l]
    BY <2>1 DEF Counts
  <2>3. /\ Count'.local = r.local - 1 /\ Count' \in Counts
        /\ Count'.total = r.total /\ Count'.invisi = r.invisi /\ Count'.oper = r.oper
    BY <2>1, <2>2 DEF Counts
  <2> QED BY <2>1, <2>3 DEF r
<1>5. /\ Count' \in [local : Nat, total : Int, invisi : Int, oper : Int]
      /\ LocalCounted'
  <2>1. IsFiniteSet(Persons \cap Locals)
    BY FS_Subset DEF UmodesAssumption, Persons
  <2>2. Persons' \cap Locals = (Persons \cap Locals) \ {c}
    BY <1>2
  <2>3. /\ IsFiniteSet(Persons' \cap Locals)
        /\ Cardinality(Persons' \cap Locals) = Cardinality(Persons \cap Locals) - 1
    <3> DEFINE S == Persons \cap Locals
    <3>1. IsFiniteSet(S \ {c}) /\ Cardinality(S \ {c}) = Cardinality(S) - 1
      BY <1>1, <2>1, FS_RemoveElement
    <3> QED BY <2>2, <3>1
  <2>4. Cardinality(Persons' \cap Locals) \in Nat
    BY <2>3, FS_CardinalityType
  <2>5. Count'.local = Cardinality(Persons' \cap Locals)
    BY <1>1, <1>4, <2>3 DEF LocalCounted
  <2>6. LocalCounted'
    BY <2>5 DEF LocalCounted
  <2> QED BY <1>4, <2>4, <2>5, <2>6 DEF Counts
<1>6. TypeOK'
  <2>1. /\ oper_cptr_list' \in Clients \cup {NoClient}
        /\ next_oper_client' \in [Clients -> Clients \cup {NoClient}]
    BY <1>1 DEF UnlinkOper, TypeOK
  <2> QED BY <1>1, <1>2, <1>5, <2>1 DEF TypeOK
<1>7. UplinkTold'
  BY <1>1, <1>2 DEF UplinkTold, TypeOK, Persons
<1>8. Sound'
  BY <1>2, <1>5, <1>6, <1>7 DEF Sound, IInv
<1>9. ASSUME Calm PROVE Agreed'
  <2>1. Agreed
    BY <1>9 DEF IInv
  <2>2. Tallied'
    BY <1>3, <1>4, <2>1 DEF Agreed, Tallied
  <2>3. CASE Empowered(umodes[c])
    <3>1. c \in Operators
      BY <1>1, <2>3 DEF Operators
    <3>2. OnList'
      BY <1>1, <1>2, <2>1, <2>3, <3>1, ListLoses DEF Agreed
    <3> QED BY <1>1, <2>1, <2>2, <3>2, AgreedExits
  <2>4. CASE ~Empowered(umodes[c])
    <3>1. Operators' = Operators
      BY <1>2, <2>4 DEF Operators
    <3>2. OnList'
      BY <1>1, <2>1, <2>4, <3>1, ListStays DEF Agreed
    <3> QED BY <1>1, <2>1, <2>2, <3>2, AgreedExits
  <2> QED BY <2>3, <2>4
<1> QED BY <1>8, <1>9 DEF IInv, Calm

\* Clients of the uplink exit, one or all.
LEMMA RemotesExit ==
  ASSUME UmodesAssumption, IInv, NEW D \in SUBSET (Persons \ Locals),
         Count' = CountExits(D), Forget(D), linked' => linked /\ UNCHANGED told,
         linked' \in BOOLEAN, serverAdmin' \in BOOLEAN,
         told' \in [Clients -> SUBSET SEND_UMODES],
         UNCHANGED <<oper_cptr_list, next_oper_client, crashed>>
  PROVE  IInv'
<1>1. /\ TypeOK /\ LocalCounted /\ UplinkTold
      /\ D \in SUBSET Persons /\ D \in SUBSET Clients
  BY DEF IInv, Sound, Persons
<1>2. /\ status' \in [Clients -> {"free", "client"}]
      /\ umodes' \in [Clients -> SUBSET Modes]
      /\ confs' \in [Clients -> Lines] /\ setN' \in SUBSET Clients
      /\ Persons' = Persons \ D /\ Operators' = Operators \ D
      /\ \A d \in Clients :
           /\ umodes'[d] = IF d \in D THEN {} ELSE umodes[d]
           /\ confs'[d] = IF d \in D THEN <<>> ELSE confs[d]
  BY <1>1, ForgetType
<1>3. /\ Count' \in Counts /\ Count'.local = Count.local
      /\ Tallied => Tallied'
  BY <1>1, ExitsCounted DEF Tallied
<1>4. /\ Count' \in [local : Nat, total : Int, invisi : Int, oper : Int]
      /\ LocalCounted'
  <2>1. Persons' \cap Locals = Persons \cap Locals
    BY <1>2
  <2> QED BY <1>1, <1>3, <2>1 DEF LocalCounted, Counts, TypeOK
<1>5. TypeOK'
  BY <1>1, <1>2, <1>4 DEF TypeOK
<1>6. UplinkTold'
  BY <1>1, <1>2 DEF UplinkTold, TypeOK, Persons
<1>7. Sound'
  BY <1>2, <1>4, <1>5, <1>6 DEF Sound, IInv
<1>8. ASSUME Calm PROVE Agreed'
  <2>1. Agreed
    BY <1>8 DEF IInv
  <2>2. Operators' = Operators
    BY <1>2 DEF Operators
  <2>3. OnList'
    BY <2>1, <2>2, ListStays DEF Agreed
  <2> QED BY <1>1, <1>3, <2>1, <2>3, AgreedExits DEF Agreed
<1> QED BY <1>7, <1>8 DEF IInv, Calm

LEMMA ExitRemoteKeeps ==
  ASSUME UmodesAssumption, IInv, NEW c \in Clients, ExitRemote(c)
  PROVE  IInv'
<1>1. /\ {c} \in SUBSET (Persons \ Locals) /\ Count' = CountExits({c}) /\ Forget({c})
      /\ UNCHANGED <<oper_cptr_list, next_oper_client, linked, serverAdmin, told,
                     crashed>>
  BY DEF ExitRemote
<1>2. /\ linked' \in BOOLEAN /\ serverAdmin' \in BOOLEAN
      /\ told' \in [Clients -> SUBSET SEND_UMODES]
  BY <1>1 DEF IInv, Sound, TypeOK
<1> QED BY <1>1, <1>2, RemotesExit

LEMMA SplitKeeps ==
  ASSUME UmodesAssumption, IInv, Split PROVE IInv'
<1>1. /\ Persons \ Locals \in SUBSET (Persons \ Locals)
      /\ Count' = CountExits(Persons \ Locals) /\ Forget(Persons \ Locals)
      /\ linked' = FALSE /\ serverAdmin' = FALSE
      /\ told' = [c \in Clients |-> {}]
      /\ UNCHANGED <<oper_cptr_list, next_oper_client, crashed>>
  BY DEF Split
<1>2. told' \in [Clients -> SUBSET SEND_UMODES]
  BY <1>1
<1> QED BY <1>1, <1>2, RemotesExit

\* Steps that leave the clients alone.
LEMMA OthersKeep ==
  ASSUME UmodesAssumption, IInv, TypeOK', LocalCounted', UplinkTold', Tallied => Tallied',
         UNCHANGED <<status, umodes, setN, confs, oper_cptr_list, next_oper_client,
                     crashed>>
  PROVE  IInv'
<1>1. Persons' = Persons /\ Operators' = Operators
  BY DEF Persons, Operators
<1>2. ASSUME Calm PROVE Agreed'
  <2>1. Agreed
    BY <1>2 DEF IInv
  <2>2. OnList'
    BY <1>1, <2>1, ListStays DEF Agreed
  <2>3. LinesAgree' /\ NeedsN'
    BY <1>1, <2>1 DEF Agreed, LinesAgree, NeedsN
  <2> QED BY <1>1, <2>1, <2>2, <2>3 DEF Agreed
<1>3. Sound'
  BY DEF IInv, Sound
<1> QED BY <1>2, <1>3 DEF IInv, Calm

LEMMA LinkedKeeps ==
  ASSUME UmodesAssumption, IInv, Link PROVE IInv'
<1>1. /\ TypeOK /\ LocalCounted
      /\ linked' = TRUE
      /\ told' = [c \in Clients |-> IF c \in Locals THEN umodes[c] \cap SEND_UMODES
                                    ELSE {}]
      /\ UNCHANGED <<status, umodes, setN, confs, Count, oper_cptr_list,
                     next_oper_client, serverAdmin, crashed>>
  BY DEF IInv, Sound, Link
<1>2. TypeOK'
  <2>1. told' \in [Clients -> SUBSET SEND_UMODES]
    BY <1>1
  <2> QED BY <1>1, <2>1 DEF TypeOK
<1>3. Persons' = Persons /\ Invisible' = Invisible /\ Empow' = Empow
  BY <1>1 DEF Persons, Invisible, Empow
<1>4. LocalCounted' /\ (Tallied => Tallied')
  BY <1>1, <1>3 DEF LocalCounted, Tallied
<1>5. UplinkTold'
  BY <1>1, <1>3 DEF UplinkTold, Persons
<1> QED BY <1>1, <1>2, <1>4, <1>5, OthersKeep

LEMMA LusersKeeps ==
  ASSUME UmodesAssumption, IInv, Lusers PROVE IInv'
<1>1. /\ TypeOK /\ LocalCounted /\ UplinkTold /\ Count' = Recount
      /\ UNCHANGED <<status, umodes, setN, confs, oper_cptr_list, next_oper_client,
                     linked, serverAdmin, told, crashed>>
  BY DEF IInv, Sound, Lusers
<1>2. Persons' = Persons /\ Invisible' = Invisible /\ Empow' = Empow
  BY <1>1 DEF Persons, Invisible, Empow
<1>3. Recount = [local |-> Cardinality(Persons \cap Locals), total |-> Cardinality(Persons),
                 invisi |-> Cardinality(Invisible), oper |-> Cardinality(Empow)]
  BY DEF Recount, Invisible, Empow
<1>4. /\ Cardinality(Persons \cap Locals) \in Nat /\ Cardinality(Persons) \in Nat
      /\ Cardinality(Invisible) \in Nat /\ Cardinality(Empow) \in Nat
  <2>1. /\ Persons \subseteq Clients /\ Persons \cap Locals \subseteq Clients
        /\ Invisible \subseteq Clients /\ Empow \subseteq Clients
    BY DEF Persons, Invisible, Empow
  <2>2. /\ IsFiniteSet(Persons) /\ IsFiniteSet(Persons \cap Locals)
        /\ IsFiniteSet(Invisible) /\ IsFiniteSet(Empow)
    BY <2>1, FS_Subset DEF UmodesAssumption
  <2> QED BY <2>2, FS_CardinalityType
<1>5. TypeOK'
  BY <1>1, <1>3, <1>4 DEF TypeOK
<1>6. LocalCounted' /\ Tallied'
  BY <1>1, <1>2, <1>3 DEF LocalCounted, Tallied
<1>7. UplinkTold'
  BY <1>1, <1>2 DEF UplinkTold
<1> QED BY <1>1, <1>5, <1>6, <1>7, OthersKeep

-----------------------------------------------------------------------------
(* The theorems.                                                           *)

LEMMA StepKeeps ==
  ASSUME UmodesAssumption, IInv, [Next]_vars PROVE IInv'
<1>1. CASE UNCHANGED vars
  <2>1. /\ Persons' = Persons /\ Invisible' = Invisible /\ Empow' = Empow
    BY <1>1 DEF vars, Persons, Invisible, Empow
  <2>2. TypeOK' /\ LocalCounted' /\ UplinkTold' /\ (Tallied => Tallied')
    BY <1>1, <2>1 DEF vars, IInv, Sound, TypeOK, LocalCounted, UplinkTold, Tallied
  <2> QED BY <1>1, <2>2, OthersKeep DEF vars
<1>2. CASE Next
  <2>1. ASSUME NEW c \in Clients,
               \/ Register(c) \/ Oper(c) \/ OperRefused(c) \/ ExitLocal(c)
               \/ ExitRemote(c) \/ ModePlusAdmin(c) \/ ModeMinusAdmin(c)
               \/ ModeMinusNoLine(c)
        PROVE  IInv'
    BY <2>1, RegisterKeeps, OperKeeps, OperRefusedKeeps, ExitLocalKeeps,
       ExitRemoteKeeps, ModePlusAdminKeeps, ModeMinusAdminKeeps, ModeMinusNoLineKeeps
  <2>2. ASSUME NEW c \in Clients, NEW modes \in SUBSET SEND_UMODES, Introduce(c, modes)
        PROVE  IInv'
    BY <2>2, IntroduceKeeps
  <2>3. ASSUME NEW c \in Clients, NEW what \in {"+", "-"}, NEW l \in Modes \cup {"O"},
               ModeLetter(c, what, l) \/ ServerMode(c, what, l)
        PROVE  IInv'
    BY <2>3, ModeLetterKeeps, ServerModeKeeps
  <2>4. ASSUME IntroduceGhost \/ Link \/ Split \/ Lusers
        PROVE  IInv'
    BY <2>4, GhostKeeps, LinkedKeeps, SplitKeeps, LusersKeeps
  <2> QED BY <1>2, <2>1, <2>2, <2>3, <2>4 DEF Next
<1> QED BY <1>1, <1>2

\* What the invariant says of the list, of the walk along it and of LUSERS.
LEMMA Consequences ==
  ASSUME UmodesAssumption, IInv
  PROVE  /\ TypeOK /\ LocalCounted /\ UplinkTold
         /\ Calm => /\ TotalCounted /\ InvisiblesCounted /\ OpersCounted
                    /\ OperListAgrees /\ OperListIsList /\ LinesAgree /\ NeedsN
                    /\ ~crashed
<1>1. TypeOK /\ LocalCounted /\ UplinkTold
  BY DEF IInv, Sound
<1>2. ASSUME Agreed
      PROVE  TotalCounted /\ InvisiblesCounted /\ OpersCounted
  BY <1>2 DEF Agreed, Tallied, TotalCounted, InvisiblesCounted, OpersCounted,
              Recount, Invisible, Empow
<1>3. ASSUME Agreed
      PROVE  OperListAgrees /\ OperListIsList
  <2>1. PICK n \in Nat : \E s \in [1 .. n -> Clients] :
               IsChain(n, s) /\ OnChain(n, s) = Operators
    BY <1>3 DEF Agreed, OnList
  <2>2. PICK s \in [1 .. n -> Clients] : IsChain(n, s) /\ OnChain(n, s) = Operators
    BY <2>1
  <2>3. Listed = Operators /\ OperListEnds
    BY <2>2, ChainAgrees
  <2> QED BY <2>3 DEF OperListAgrees, OperListIsList, Operators
<1> QED BY <1>1, <1>2, <1>3 DEF IInv, Agreed

\* The invariant of a behaviour.
LEMMA Invariant ==
  ASSUME UmodesAssumption PROVE Spec => []IInv
<1>1. Init => IInv
  BY InitHolds
<1>2. IInv /\ [Next]_vars => IInv'
  BY StepKeeps
<1> QED BY <1>1, <1>2, PTL DEF Spec

\* Whatever letters clients and the uplink send: LUSERS need not correct the
\* number of local clients (show_lusers), which decides whether the server is full
\* (register_user), and the uplink knows the modes of every local client
\* (send_umode_out, sendnick_TS).
THEOREM LocalAndTold ==
  ASSUME UmodesAssumption PROVE Spec => [](TypeOK /\ LocalCounted /\ UplinkTold)
<1>1. IInv => TypeOK /\ LocalCounted /\ UplinkTold
  BY Consequences
<1> QED BY <1>1, Invariant, PTL

\* Without the letter o from clients, a, i and n from the uplink and unknown servers,
\* LUSERS need not correct any counter: register_user, user_mode, m_oper and
\* exit_client count every client in and out once, by the same modes.
THEOREM AllCounted ==
  ASSUME UmodesAssumption, Calm
  PROVE  Spec => [](TotalCounted /\ InvisiblesCounted /\ OpersCounted)
<1>1. IInv => TotalCounted /\ InvisiblesCounted /\ OpersCounted
  BY Consequences
<1> QED BY <1>1, Invariant, PTL

\* Then, too, the list of operators holds the operators, each once, and ends; a
\* client has its O line exactly as long as it is one, so that stepping down
\* detaches that one and never follows a null pointer; and +n stays with operators
\* who may have it.
THEOREM OperatorsAgree ==
  ASSUME UmodesAssumption, Calm
  PROVE  Spec => [](/\ OperListAgrees /\ OperListIsList /\ LinesAgree /\ NeedsN
                    /\ ~crashed)
<1>1. IInv => /\ OperListAgrees /\ OperListIsList /\ LinesAgree /\ NeedsN
              /\ ~crashed
  BY Consequences
<1> QED BY <1>1, Invariant, PTL

=============================================================================
