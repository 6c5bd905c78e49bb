------------------------------ MODULE NicksProofs ------------------------------
(***************************************************************************)
(* The history of whowas.c, and the agreement of the hash table and the    *)
(* history with the clients, for all clients, nicks, sizes of the history  *)
(* and orders of commands.                                                 *)
(***************************************************************************)
EXTENDS Nicks, TLAPS, WellFoundedInduction

(***************************************************************************)
(* What the operations of src/whowas.c keep of a history, for every size   *)
(* of the ring and all clients and nicks.                                  *)
(***************************************************************************)
\* initwhowas gives a history in which nobody is.
LEMMA NoHistoryCorrect == NoHistory \in History /\ HistoryOf(NoHistory, {})
<1>1. 0 \in Ring
  BY WhowasAssumption, SMT DEF Ring
<1>2. NoHistory \in History
  BY <1>1, WhowasAssumption DEF NoHistory, History, Entry
<1>3. HistoryOf(NoHistory, {})
  BY WhowasAssumption DEF NoHistory, HistoryOf
<1> QED BY <1>2, <1>3

\* whowas_next stays inside the array.
LEMMA WrapInRing == ASSUME NEW i \in Ring PROVE Wrap(i) \in Ring
  BY WhowasAssumption, SMT DEF Ring, Wrap

LEMMA AddHistoryType ==
  ASSUME NEW h \in History, NEW c \in Clients, NEW n \in Nicks,
         NEW on \in BOOLEAN, NEW now \in Nat
  PROVE  AddHistory(h, c, n, on, now) \in History
<1> DEFINE g == AddHistory(h, c, n, on, now)
           e == [name |-> n, online |-> IF on THEN c ELSE NoClient, logoff |-> now]
<1>1. h.next \in Ring /\ h.entry \in [Ring -> Entry]
      /\ h.clist \in [Clients -> SUBSET Ring] /\ h.chain \in [Nicks -> SUBSET Ring]
  BY DEF History
<1>2. e \in Entry
  BY DEF Entry
<1>3. OffClist(h) \in [Clients -> SUBSET Ring]
  BY <1>1 DEF OffClist
<1>4. OffChain(h) \in [Nicks -> SUBSET Ring]
  BY <1>1 DEF OffChain
<1>5. Wrap(h.next) \in Ring
  BY <1>1, WrapInRing
<1>6. [h.entry EXCEPT ![h.next] = e] \in [Ring -> Entry]
  BY <1>1, <1>2
<1>7. [OffClist(h) EXCEPT ![c] = IF on THEN @ \cup {h.next} ELSE @]
        \in [Clients -> SUBSET Ring]
  BY <1>1, <1>3
<1>8. [OffChain(h) EXCEPT ![n] = @ \cup {h.next}] \in [Nicks -> SUBSET Ring]
  BY <1>1, <1>4
<1> QED BY <1>5, <1>6, <1>7, <1>8 DEF AddHistory, History

\* add_history keeps both kinds of list in agreement with the entries, in
\* spite of the entry that it writes over.
LEMMA AddHistoryCorrect ==
  ASSUME NEW h \in History, NEW S \in SUBSET Clients, HistoryOf(h, S),
         NEW c \in Clients, NEW n \in Nicks, NEW on \in BOOLEAN, on => c \in S,
         NEW now \in Nat
  PROVE  HistoryOf(AddHistory(h, c, n, on, now), S)
<1> DEFINE g == AddHistory(h, c, n, on, now)
           e == [name |-> n, online |-> IF on THEN c ELSE NoClient, logoff |-> now]
<1>1. h.next \in Ring /\ h.entry \in [Ring -> Entry]
      /\ h.clist \in [Clients -> SUBSET Ring] /\ h.chain \in [Nicks -> SUBSET Ring]
  BY DEF History
<1>2. g.entry = [h.entry EXCEPT ![h.next] = e]
      /\ g.clist = [OffClist(h) EXCEPT ![c] = IF on THEN @ \cup {h.next} ELSE @]
      /\ g.chain = [OffChain(h) EXCEPT ![n] = @ \cup {h.next}]
  BY DEF AddHistory
<1>3. \A i \in Ring : g.entry[i] = IF i = h.next THEN e ELSE h.entry[i]
  BY <1>1, <1>2
<1>4. ASSUME NEW m \in Nicks, NEW i \in Ring
      PROVE  i \in g.chain[m] <=> g.entry[i].name = m
  <2>1. g.chain[m] = IF m = n THEN OffChain(h)[m] \cup {h.next} ELSE OffChain(h)[m]
    BY <1>1, <1>2 DEF OffChain
  <2>2. OffChain(h)[m] = IF h.entry[h.next].name = m THEN h.chain[m] \ {h.next}
                         ELSE h.chain[m]
    BY DEF OffChain
  <2>3. i \in h.chain[m] <=> h.entry[i].name = m
    BY DEF HistoryOf
  <2>4. CASE i = h.next
    BY <2>1, <2>2, <2>3, <2>4, <1>3
  <2>5. CASE i # h.next
    BY <2>1, <2>2, <2>3, <2>5, <1>3
  <2> QED BY <2>4, <2>5
<1>5. ASSUME NEW d \in Clients, NEW i \in Ring
      PROVE  i \in g.clist[d] <=> g.entry[i].online = d
  <2>1. g.clist[d] = IF d = c /\ on THEN OffClist(h)[d] \cup {h.next}
                     ELSE OffClist(h)[d]
    BY <1>1, <1>2 DEF OffClist
  <2>2. OffClist(h)[d] = IF h.entry[h.next].online = d THEN h.clist[d] \ {h.next}
                         ELSE h.clist[d]
    BY DEF OffClist
  <2>3. i \in h.clist[d] <=> h.entry[i].online = d
    BY DEF HistoryOf
  <2>4. CASE i = h.next
    BY <2>1, <2>2, <2>3, <2>4, <1>3, WhowasAssumption
  <2>5. CASE i # h.next
    BY <2>1, <2>2, <2>3, <2>5, <1>3
  <2> QED BY <2>4, <2>5
<1>6. ASSUME NEW i \in Ring PROVE g.entry[i].online \in S \cup {NoClient}
  BY <1>3 DEF HistoryOf
<1>7. ASSUME NEW i \in Ring, g.entry[i].name = NoNick
      PROVE  g.entry[i].online = NoClient
  BY <1>3, <1>7, WhowasAssumption DEF HistoryOf
<1> QED BY <1>4, <1>5, <1>6, <1>7 DEF HistoryOf

\* off_history takes a client out of the history.
LEMMA OffHistoryCorrect ==
  ASSUME NEW h \in History, NEW S \in SUBSET Clients, HistoryOf(h, S),
         NEW c \in Clients
  PROVE  OffHistory(h, c) \in History /\ HistoryOf(OffHistory(h, c), S \ {c})
<1> DEFINE g == OffHistory(h, c)
<1>1. h.next \in Ring /\ h.entry \in [Ring -> Entry]
      /\ h.clist \in [Clients -> SUBSET Ring] /\ h.chain \in [Nicks -> SUBSET Ring]
  BY DEF History
<1>2. g.next = h.next /\ g.chain = h.chain
      /\ g.clist = [h.clist EXCEPT ![c] = {}]
      /\ g.entry = [i \in Ring |-> IF i \in h.clist[c]
                                   THEN [h.entry[i] EXCEPT !.online = NoClient]
                                   ELSE h.entry[i]]
  BY DEF OffHistory
<1>3. \A i \in Ring : /\ g.entry[i] \in Entry
                      /\ g.entry[i].name = h.entry[i].name
                      /\ g.entry[i].online = IF i \in h.clist[c] THEN NoClient
                                             ELSE h.entry[i].online
  BY <1>1, <1>2 DEF Entry
<1>4. g \in History
  <2>1. g.clist \in [Clients -> SUBSET Ring] /\ g.entry \in [Ring -> Entry]
    BY <1>1, <1>2, <1>3
  <2> QED BY <1>1, <2>1 DEF OffHistory, History
<1>5. ASSUME NEW d \in Clients, NEW i \in Ring
      PROVE  i \in g.clist[d] <=> g.entry[i].online = d
  <2>1. i \in h.clist[d] <=> h.entry[i].online = d
    BY DEF HistoryOf
  <2>2. i \in h.clist[c] <=> h.entry[i].online = c
    BY DEF HistoryOf
  <2> QED BY <2>1, <2>2, <1>1, <1>2, <1>3, WhowasAssumption
<1>6. ASSUME NEW i \in Ring PROVE g.entry[i].online \in (S \ {c}) \cup {NoClient}
  BY <1>3 DEF HistoryOf
<1>7. \A m \in Nicks, i \in Ring : i \in g.chain[m] <=> g.entry[i].name = m
  BY <1>2, <1>3 DEF HistoryOf
<1>8. \A i \in Ring : g.entry[i].name = NoNick => g.entry[i].online = NoClient
  BY <1>3 DEF HistoryOf
<1>9. HistoryOf(g, S \ {c})
  BY <1>5, <1>6, <1>7, <1>8 DEF HistoryOf
<1> QED BY <1>4, <1>9

\* A history of the clients of S is one of any more.
LEMMA HistoryOfMore ==
  ASSUME NEW h, NEW S, NEW T, S \subseteq T, HistoryOf(h, S)
  PROVE  HistoryOf(h, T)
  BY DEF HistoryOf

\* Of any entries one is the newest.
LEMMA NewestExists ==
  ASSUME NEW h \in History, NEW E \in SUBSET Ring, E # {}
  PROVE  NewestFirst(h, E) # {}
<1> DEFINE ages == {Age(h, i) : i \in E}
<1>1. \A i \in Ring : Age(h, i) \in Nat
  BY WhowasAssumption, SMT DEF Ring, Age, History
<1>2. ages \subseteq Nat /\ ages # {}
  BY <1>1
<1>3. PICK a \in ages : \A b \in ages : ~(<<b, a>> \in OpToRel(<, Nat))
  BY <1>2, WFMin, NatLessThanWellFounded, Zenon
<1>4. \A b \in ages : ~(b < a)
  BY <1>2, <1>3, Zenon DEF OpToRel
<1>5. PICK i \in E : a = Age(h, i)
  BY <1>3
<1>6. \A j \in E : Age(h, i) <= Age(h, j)
  <2> TAKE j \in E
  <2>1. ~(Age(h, j) < a) /\ Age(h, j) \in Nat /\ a \in Nat
    BY <1>1, <1>2, <1>3, <1>4
  <2> QED BY <2>1, <1>5, SMT
<1> QED BY <1>6 DEF NewestFirst

\* KILL chasing gives a client of S or nobody.
LEMMA GetHistoryFindsPerson ==
  ASSUME NEW h \in History, NEW S \in SUBSET Clients, HistoryOf(h, S),
         NEW n \in Nicks, NEW now \in Nat
  PROVE  GetHistory(h, n, now) \in S \cup {NoClient}
<1> DEFINE recent == {i \in h.chain[n] :
                        h.entry[i].logoff >= now - KILLCHASETIMELIMIT}
           first == CHOOSE i \in NewestFirst(h, recent) : TRUE
<1>1. CASE recent = {}
  BY <1>1 DEF GetHistory
<1>2. CASE recent # {}
  <2>1. recent \in SUBSET Ring
    BY DEF History
  <2>2. first \in NewestFirst(h, recent)
    BY <1>2, <2>1, NewestExists
  <2>3. first \in Ring
    BY <2>1, <2>2 DEF NewestFirst
  <2>4. GetHistory(h, n, now) = h.entry[first].online
    BY <1>2 DEF GetHistory
  <2> HIDE DEF first, recent
  <2> QED BY <2>3, <2>4 DEF HistoryOf
<1> QED BY <1>1, <1>2

-----------------------------------------------------------------------------
(* The order of the entries.                                               *)

\* How old an entry is: the one below whowas_next was written last, the one under
\* it will be written over next.
LEMMA AgeIs ==
  ASSUME NEW h, h.next \in Ring, NEW i \in Ring
  PROVE  Age(h, i) = IF i < h.next THEN h.next - 1 - i
                     ELSE h.next - 1 - i + NICKNAMEHISTORYLENGTH
<1> DEFINE L == NICKNAMEHISTORYLENGTH
           back == h.next - 1 - i
<1>1. L \in Nat \ {0} /\ back \in Int /\ h.next \in 0 .. L - 1 /\ i \in 0 .. L - 1
  BY WhowasAssumption DEF Ring
<1>2. CASE i < h.next
  <2>1. back \in 0 .. L - 1
    BY <1>1, <1>2
  <2>2. back % L = back
    BY <1>1, <2>1, SMTT(20)
  <2> QED BY <1>2, <2>2 DEF Age
<1>3. CASE ~(i < h.next)
  <2>1. back + L \in 0 .. L - 1
    BY <1>1, <1>3
  <2>2. back % L = back + L
    BY <1>1, <2>1, SMTT(20)
  <2> QED BY <1>3, <2>2 DEF Age
<1> QED BY <1>2, <1>3

\* The entry that is written becomes the newest, the others get older.
LEMMA AgeAfter ==
  ASSUME NEW h, NEW g, h.next \in Ring, g.next = Wrap(h.next), NEW i \in Ring
  PROVE  /\ Age(g, i) \in Nat /\ Age(h, i) \in Nat
         /\ Age(h, i) <= Age(h, h.next)
         /\ Age(g, i) = IF i = h.next THEN 0 ELSE Age(h, i) + 1
<1>1. g.next \in Ring
  BY WrapInRing
<1>2. /\ NICKNAMEHISTORYLENGTH \in Nat \ {0}
      /\ h.next \in 0 .. NICKNAMEHISTORYLENGTH - 1 /\ i \in 0 .. NICKNAMEHISTORYLENGTH - 1
      /\ g.next = IF h.next + 1 = NICKNAMEHISTORYLENGTH THEN 0 ELSE h.next + 1
  BY WhowasAssumption DEF Ring, Wrap
<1>3. /\ Age(g, i) = IF i < g.next THEN g.next - 1 - i
                     ELSE g.next - 1 - i + NICKNAMEHISTORYLENGTH
      /\ Age(h, i) = IF i < h.next THEN h.next - 1 - i
                     ELSE h.next - 1 - i + NICKNAMEHISTORYLENGTH
      /\ Age(h, h.next) = NICKNAMEHISTORYLENGTH - 1
  BY <1>1, <1>2, AgeIs
<1> QED BY <1>2, <1>3

\* The entries are in the order in which their nicks were given up.
Ordered(h, now) ==
  /\ \A i \in Ring : h.entry[i].logoff <= now
  /\ \A i, j \in Ring : Age(h, i) <= Age(h, j) => h.entry[j].logoff <= h.entry[i].logoff

\* What the newest entry of the chain of n points to.
Top(h, n) == {h.entry[i].online : i \in NewestFirst(h, h.chain[n])}

LEMMA AddHistoryOrdered ==
  ASSUME NEW h \in History, NEW c \in Clients, NEW n \in Nicks,
         NEW on \in BOOLEAN, NEW now \in Nat, Ordered(h, now)
  PROVE  Ordered(AddHistory(h, c, n, on, now), now)
<1> DEFINE g == AddHistory(h, c, n, on, now)
           e == [name |-> n, online |-> IF on THEN c ELSE NoClient, logoff |-> now]
<1>1. h.next \in Ring /\ h.entry \in [Ring -> Entry]
  BY DEF History
<1>2. g.next = Wrap(h.next) /\ g.entry = [h.entry EXCEPT ![h.next] = e]
  BY DEF AddHistory
<1>3. \A i \in Ring : g.entry[i].logoff = IF i = h.next THEN now ELSE h.entry[i].logoff
  BY <1>1, <1>2
<1>4. \A i \in Ring : h.entry[i].logoff \in Nat
  BY <1>1 DEF Entry
<1> HIDE DEF g
<1>5. \A i \in Ring : g.entry[i].logoff <= now
  BY <1>3 DEF Ordered
<1>6. ASSUME NEW i \in Ring, NEW j \in Ring, Age(g, i) <= Age(g, j)
      PROVE  g.entry[j].logoff <= g.entry[i].logoff
  <2>1. /\ Age(g, i) \in Nat /\ Age(h, i) \in Nat
        /\ Age(g, i) = IF i = h.next THEN 0 ELSE Age(h, i) + 1
    BY <1>1, <1>2, AgeAfter
  <2>2. /\ Age(g, j) \in Nat /\ Age(h, j) \in Nat
        /\ Age(g, j) = IF j = h.next THEN 0 ELSE Age(h, j) + 1
    BY <1>1, <1>2, AgeAfter
  <2>3. CASE i = h.next
    BY <1>3, <1>5, <2>3
  <2>4. CASE i # h.next
    <3>1. j # h.next /\ Age(h, i) <= Age(h, j)
      BY <1>6, <2>1, <2>2, <2>4
    <3> QED BY <1>3, <2>4, <3>1 DEF Ordered
  <2> QED BY <2>3, <2>4
<1>7. Ordered(g, now)
  BY <1>5, <1>6 DEF Ordered
<1> QED BY <1>7 DEF g

LEMMA OffHistoryOrdered ==
  ASSUME NEW h \in History, NEW c \in Clients, NEW now \in Nat, Ordered(h, now)
  PROVE  Ordered(OffHistory(h, c), now)
<1> DEFINE g == OffHistory(h, c)
<1>1. h.entry \in [Ring -> Entry]
  BY DEF History
<1>2. g.next = h.next
  BY DEF OffHistory
<1>3. \A i \in Ring : g.entry[i].logoff = h.entry[i].logoff
  BY <1>1 DEF OffHistory, Entry
<1> HIDE DEF g
<1>4. \A i \in Ring : Age(g, i) = Age(h, i)
  BY <1>2 DEF Age
<1>5. Ordered(g, now)
  BY <1>3, <1>4 DEF Ordered
<1> QED BY <1>5 DEF g

\* A new entry hides the older ones of its nick, and hides none of another.
LEMMA AddHistoryTop ==
  ASSUME NEW h \in History, NEW S, HistoryOf(h, S),
         NEW c \in Clients, NEW n \in Nicks, NEW on \in BOOLEAN, NEW now \in Nat,
         NEW m \in Nicks
  PROVE  Top(AddHistory(h, c, n, on, now), m)
           \subseteq IF m = n THEN {IF on THEN c ELSE NoClient} ELSE Top(h, m)
<1> DEFINE g == AddHistory(h, c, n, on, now)
           e == [name |-> n, online |-> IF on THEN c ELSE NoClient, logoff |-> now]
<1>1. h.next \in Ring /\ h.entry \in [Ring -> Entry] /\ h.chain \in [Nicks -> SUBSET Ring]
  BY DEF History
<1>2. /\ g.next = Wrap(h.next) /\ g.entry = [h.entry EXCEPT ![h.next] = e]
      /\ g.chain = [OffChain(h) EXCEPT ![n] = @ \cup {h.next}]
  BY DEF AddHistory
<1>3. \A i \in Ring : g.entry[i].online = IF i = h.next THEN IF on THEN c ELSE NoClient
                                          ELSE h.entry[i].online
  BY <1>1, <1>2
<1>4. g.chain[m] = IF m = n THEN OffChain(h)[m] \cup {h.next} ELSE OffChain(h)[m]
  BY <1>1, <1>2 DEF OffChain
<1>5. OffChain(h)[m] = h.chain[m] \ {h.next}
  BY <1>1 DEF OffChain, HistoryOf
<1>6. h.chain[m] \in SUBSET Ring
  BY <1>1
<1> HIDE DEF g
<1>7. ASSUME NEW i \in NewestFirst(g, g.chain[m])
      PROVE  g.entry[i].online \in IF m = n THEN {IF on THEN c ELSE NoClient} ELSE Top(h, m)
  <2>1. i \in g.chain[m] /\ \A j \in g.chain[m] : Age(g, i) <= Age(g, j)
    BY DEF NewestFirst
  <2>2. i \in Ring
    BY <1>1, <1>4, <1>5, <1>6, <2>1
  <2>3. CASE m = n
    <3>1. h.next \in g.chain[m]
      BY <1>4, <2>3
    <3>2. Age(g, i) <= Age(g, h.next)
      BY <2>1, <3>1
    <3>3. /\ Age(g, h.next) = 0 /\ Age(h, i) \in Nat
          /\ Age(g, i) = IF i = h.next THEN 0 ELSE Age(h, i) + 1
      BY <1>1, <1>2, <2>2, AgeAfter
    <3>4. i = h.next
      BY <3>2, <3>3
    <3> QED BY <1>3, <2>2, <2>3, <3>4
  <2>4. CASE m # n
    <3>1. i \in h.chain[m] /\ i # h.next
      BY <1>4, <1>5, <2>1, <2>4
    <3>2. ASSUME NEW j \in h.chain[m] PROVE Age(h, i) <= Age(h, j)
      <4>1. j \in Ring
        BY <1>6
      <4>2. CASE j = h.next
        BY <4>2, <1>1, <1>2, <2>2, AgeAfter
      <4>3. CASE j # h.next
        <5>1. Age(g, i) <= Age(g, j)
          BY <1>4, <1>5, <2>1, <2>4, <4>3
        <5>2. Age(g, i) = Age(h, i) + 1 /\ Age(h, i) \in Nat
          BY <1>1, <1>2, <2>2, <3>1, AgeAfter
        <5>3. Age(g, j) = Age(h, j) + 1 /\ Age(h, j) \in Nat
          BY <1>1, <1>2, <4>1, <4>3, AgeAfter
        <5> QED BY <5>1, <5>2, <5>3
      <4> QED BY <4>2, <4>3
    <3>3. i \in NewestFirst(h, h.chain[m])
      BY <3>1, <3>2 DEF NewestFirst
    <3> QED BY <1>3, <2>2, <2>4, <3>1, <3>3 DEF Top
  <2> QED BY <2>3, <2>4
<1>8. Top(g, m) \subseteq IF m = n THEN {IF on THEN c ELSE NoClient} ELSE Top(h, m)
  BY <1>7 DEF Top
<1> QED BY <1>8 DEF g

LEMMA OffHistoryTop ==
  ASSUME NEW h \in History, NEW c \in Clients, NEW m \in Nicks
  PROVE  Top(OffHistory(h, c), m) \subseteq Top(h, m) \cup {NoClient}
<1> DEFINE g == OffHistory(h, c)
<1>1. h.entry \in [Ring -> Entry] /\ h.chain \in [Nicks -> SUBSET Ring]
  BY DEF History
<1>2. g.next = h.next /\ g.chain = h.chain
  BY DEF OffHistory
<1>3. \A i \in Ring : g.entry[i].online \in {NoClient, h.entry[i].online}
  BY <1>1 DEF OffHistory, Entry
<1> HIDE DEF g
<1>4. NewestFirst(g, g.chain[m]) = NewestFirst(h, h.chain[m])
  BY <1>2 DEF NewestFirst, Age
<1>5. NewestFirst(h, h.chain[m]) \subseteq Ring
  BY <1>1 DEF NewestFirst
<1>6. Top(g, m) \subseteq Top(h, m) \cup {NoClient}
  BY <1>3, <1>4, <1>5 DEF Top
<1> QED BY <1>6 DEF g

\* The newest of the entries that are not too old is the newest of all, if there
\* is one.
LEMMA GetHistoryTop ==
  ASSUME NEW h \in History, NEW n \in Nicks, NEW now \in Nat, Ordered(h, now)
  PROVE  GetHistory(h, n, now) \in Top(h, n) \cup {NoClient}
<1> DEFINE recent == {i \in h.chain[n] :
                        h.entry[i].logoff >= now - KILLCHASETIMELIMIT}
           first == CHOOSE i \in NewestFirst(h, recent) : TRUE
<1>1. CASE recent = {}
  BY <1>1 DEF GetHistory
<1>2. CASE recent # {}
  <2>1. h.chain[n] \in SUBSET Ring /\ recent \in SUBSET Ring /\ h.next \in Ring
        /\ \A i \in Ring : h.entry[i].logoff \in Nat
    BY DEF History, Entry
  <2>2. first \in NewestFirst(h, recent)
    BY <1>2, <2>1, NewestExists
  <2>3. GetHistory(h, n, now) = h.entry[first].online
    BY <1>2 DEF GetHistory
  <2>4. PICK i \in Ring : i = first
    BY <2>1, <2>2 DEF NewestFirst
  <2>5. /\ i \in h.chain[n] /\ h.entry[i].logoff >= now - KILLCHASETIMELIMIT
        /\ \A j \in recent : Age(h, i) <= Age(h, j)
    BY <2>2, <2>4 DEF NewestFirst
  <2>6. ASSUME NEW j \in h.chain[n] PROVE Age(h, i) <= Age(h, j)
    <3>1. j \in Ring /\ Age(h, i) \in Nat /\ Age(h, j) \in Nat
      <4> DEFINE g == [next |-> Wrap(h.next)]
      <4>1. g.next = Wrap(h.next) /\ j \in Ring
        BY <2>1
      <4> HIDE DEF g
      <4> QED BY <2>1, <4>1, AgeAfter
    <3>2. CASE j \in recent
      BY <2>5, <3>2
    <3>3. CASE j \notin recent
      <4>1. h.entry[j].logoff < now - KILLCHASETIMELIMIT
        BY <2>1, <3>1, <3>3, WhowasAssumption
      <4>2. ~(h.entry[i].logoff <= h.entry[j].logoff)
        BY <2>1, <2>5, <3>1, <4>1, WhowasAssumption
      <4>3. ~(Age(h, j) <= Age(h, i))
        BY <3>1, <4>2 DEF Ordered
      <4> QED BY <3>1, <4>3
    <3> QED BY <3>2, <3>3
  <2>7. i \in NewestFirst(h, h.chain[n])
    BY <2>5, <2>6 DEF NewestFirst
  <2> HIDE DEF first, recent
  <2> QED BY <2>3, <2>4, <2>7 DEF Top
<1> QED BY <1>1, <1>2

LEMMA NoHistoryOrdered ==
  ASSUME NEW now \in Nat
  PROVE  Ordered(NoHistory, now) /\ \A n \in Nicks : Top(NoHistory, n) = {}
BY DEF NoHistory, Ordered, Top, NewestFirst

(***************************************************************************)
(* The nicks.                                                              *)
(***************************************************************************)

\* The history refers to persons only, persons have names, and a name is what
\* the table files its client under: a step needs all of them at once.
IInv == TypeOK /\ TableAgrees /\ NickUnique /\ HistoryAgrees

LEMMA DropType ==
  ASSUME NEW T, NEW f \in [Clients -> T], NEW D, NEW default \in T
  PROVE  /\ Drop(f, D, default) \in [Clients -> T]
         /\ \A x \in Clients : Drop(f, D, default)[x] = IF x \in D THEN default
                                                        ELSE f[x]
  BY DEF Drop

LEMMA NewTSType ==
  ASSUME TypeOK, NEW c \in Clients, NEW n \in Nicks, NEW ts \in Nat
  PROVE  NewTS(c, n, ts) \in Nat
  BY DEF TypeOK, NewTS

LEMMA ChangesType ==
  ASSUME TypeOK, NEW c \in Clients PROVE ChangesNow(c) \in Nat
  BY NicksAssumption, SMT DEF TypeOK, ChangesNow

\* What is in the chain of a nick, seen by its holders.
LEMMA FindHolders ==
  ASSUME TypeOK, TableAgrees, NEW n \in Nicks
  PROVE  Find(n) = {x \in Clients : name[x] = n}
  BY DEF TypeOK, TableAgrees, Find

\* At most one client stands in the way of a nick.
LEMMA OneHolder ==
  ASSUME IInv, NEW n \in Nicks, NEW x \in Find(n), NEW y \in Find(n)
  PROVE  x = y
  BY FindHolders, NicksAssumption, WhowasAssumption DEF IInv, NickUnique

-----------------------------------------------------------------------------
(* The table.                                                              *)

\* A client takes a nick whose holders exit.
LEMMA TakeKeeps ==
  ASSUME IInv, NEW c \in Clients, NEW n \in Nicks, NEW ts \in Nat,
         NEW D \in SUBSET Clients, c \notin D, Find(n) \subseteq D \cup {c},
         Take(c, n, ts, D)
  PROVE  /\ name' \in [Clients -> Nicks \cup {NoNick}]
         /\ tsinfo' \in [Clients -> Nat]
         /\ table' \in [Nicks -> SUBSET Clients]
         /\ \A x \in Clients, m \in Nicks : x \in table'[m] <=> name'[x] = m
         /\ NickUnique'
         /\ \A x \in Clients : name'[x] = IF x = c THEN n
                                 ELSE IF x \in D THEN NoNick ELSE name[x]
<1>1. name \in [Clients -> Nicks \cup {NoNick}] /\ tsinfo \in [Clients -> Nat]
      /\ table \in [Nicks -> SUBSET Clients]
  BY DEF IInv, TypeOK
<1>2. Drop(name, D, NoNick) \in [Clients -> Nicks \cup {NoNick}]
      /\ \A x \in Clients : Drop(name, D, NoNick)[x] = IF x \in D THEN NoNick
                                                       ELSE name[x]
  BY <1>1 DEF Drop
<1>3. name' \in [Clients -> Nicks \cup {NoNick}]
      /\ \A x \in Clients : name'[x] = IF x = c THEN n
                              ELSE IF x \in D THEN NoNick ELSE name[x]
  BY <1>2 DEF Take
<1>4. tsinfo' \in [Clients -> Nat]
  BY <1>1 DEF Take, Drop
<1>5. \A m \in Nicks : table'[m] =
        IF m = n THEN (table[m] \ {d \in D \cup {c} : name[d] = m}) \cup {c}
        ELSE table[m] \ {d \in D \cup {c} : name[d] = m}
  BY DEF Take, Rehash, Unfile
<1>6. table' \in [Nicks -> SUBSET Clients]
  BY <1>1, <1>5 DEF Take, Rehash, Unfile
<1>7. \A x \in Clients, m \in Nicks : x \in table[m] <=> name[x] = m
  BY DEF IInv, TableAgrees
<1>8. Find(n) = {x \in Clients : name[x] = n}
  BY FindHolders DEF IInv
<1>9. ASSUME NEW x \in Clients, NEW m \in Nicks
      PROVE  x \in table'[m] <=> name'[x] = m
  <2>1. x \in table[m] <=> name[x] = m
    BY <1>7
  <2>2. x \in table'[m] <=> \/ m = n /\ x = c
                            \/ x \in table[m] /\ ~(x \in D \cup {c} /\ name[x] = m)
    <3>1. CASE m = n
      <4>1. table'[m] = (table[m] \ {d \in D \cup {c} : name[d] = m}) \cup {c}
        BY <3>1, <1>5
      <4> QED BY <3>1, <4>1
    <3>2. CASE m # n
      <4>1. table'[m] = table[m] \ {d \in D \cup {c} : name[d] = m}
        BY <3>2, <1>5
      <4> QED BY <3>2, <4>1
    <3> QED BY <3>1, <3>2
  <2>3. CASE x = c
    BY <2>1, <2>2, <2>3, <1>3
  <2>4. CASE x \in D
    BY <2>1, <2>2, <2>4, <1>3, WhowasAssumption
  <2>5. CASE x # c /\ x \notin D
    BY <2>1, <2>2, <2>5, <1>3
  <2> QED BY <2>3, <2>4, <2>5
<1>10. NickUnique'
  <2> SUFFICES ASSUME NEW x \in Clients, NEW y \in Clients,
                      name'[x] = name'[y], name'[x] # NoNick
               PROVE  x = y
    BY DEF NickUnique
  <2>1. CASE x = c \/ y = c
    BY <2>1, <1>3, <1>8
  <2>2. CASE x # c /\ y # c
    BY <2>2, <1>3 DEF IInv, NickUnique
  <2> QED BY <2>1, <2>2
<1> QED BY <1>3, <1>4, <1>6, <1>9, <1>10

\* Clients exit and nobody takes their nicks.
LEMMA ExitOnlyKeeps ==
  ASSUME IInv, NEW D \in SUBSET Clients,
         name' = Drop(name, D, NoNick), table' = Unfile(D)
  PROVE  /\ name' \in [Clients -> Nicks \cup {NoNick}]
         /\ table' \in [Nicks -> SUBSET Clients]
         /\ \A x \in Clients, m \in Nicks : x \in table'[m] <=> name'[x] = m
         /\ NickUnique'
         /\ \A x \in Clients : name'[x] = IF x \in D THEN NoNick ELSE name[x]
<1>1. name \in [Clients -> Nicks \cup {NoNick}]
      /\ table \in [Nicks -> SUBSET Clients]
  BY DEF IInv, TypeOK
<1>2. name' \in [Clients -> Nicks \cup {NoNick}]
      /\ \A x \in Clients : name'[x] = IF x \in D THEN NoNick ELSE name[x]
  BY <1>1 DEF Drop
<1>3. table' \in [Nicks -> SUBSET Clients]
      /\ \A m \in Nicks : table'[m] = table[m] \ {d \in D : name[d] = m}
  BY <1>1 DEF Unfile
<1>4. \A x \in Clients, m \in Nicks : x \in table[m] <=> name[x] = m
  BY DEF IInv, TableAgrees
<1>5. \A x \in Clients, m \in Nicks : x \in table'[m] <=> name'[x] = m
  BY <1>2, <1>3, <1>4, WhowasAssumption
<1>6. NickUnique'
  BY <1>2 DEF IInv, NickUnique
<1> QED BY <1>2, <1>3, <1>5, <1>6

-----------------------------------------------------------------------------
(* The history.                                                            *)

LEMMA PersonHasNick ==
  ASSUME IInv, NEW c \in Persons PROVE name[c] \in Nicks
  BY DEF IInv, TypeOK, TableAgrees, Persons

\* The exit of one client takes it out of the history, whoever went before.
LEMMA ExitCorrect ==
  ASSUME IInv, NEW h \in History, NEW S \in SUBSET Clients, HistoryOf(h, S),
         NEW c \in Clients, c \in S => c \in Persons
  PROVE  Exit(h, c) \in History /\ HistoryOf(Exit(h, c), S \ {c})
<1>1. CASE c \in Persons
  <2> DEFINE g == AddHistory(h, c, name[c], FALSE, CurrentTime)
  <2>1. name[c] \in Nicks /\ CurrentTime \in Nat
    BY <1>1, PersonHasNick DEF IInv, TypeOK
  <2>2. g \in History /\ HistoryOf(g, S)
    BY <2>1, AddHistoryType, AddHistoryCorrect
  <2> HIDE DEF g
  <2>3. OffHistory(g, c) \in History /\ HistoryOf(OffHistory(g, c), S \ {c})
    BY <2>2, OffHistoryCorrect
  <2> QED BY <1>1, <2>3 DEF Exit, g
<1>2. CASE c \notin Persons
  <2>1. Exit(h, c) = h /\ S \ {c} = S
    BY <1>2 DEF Exit
  <2> QED BY <2>1
<1> QED BY <1>1, <1>2

LEMMA AfterCorrect ==
  ASSUME IInv, NEW D \in SUBSET Clients, \A x, y \in D : x = y
  PROVE  After(D) \in History /\ HistoryOf(After(D), Persons \ D)
<1>1. hist \in History /\ HistoryOf(hist, Persons) /\ Persons \in SUBSET Clients
  BY DEF IInv, TypeOK, HistoryAgrees, Persons
<1>2. CASE D = {}
  <2>1. After(D) = hist /\ Persons \ D = Persons
    BY <1>2 DEF After
  <2> QED BY <2>1, <1>1
<1>3. CASE D # {}
  <2> DEFINE d == CHOOSE d \in D : TRUE
  <2>1. d \in D
    BY <1>3
  <2>2. After(D) = Exit(hist, d)
    BY <1>3 DEF After
  <2> HIDE DEF d
  <2>3. D = {d}
    BY <2>1
  <2>4. Exit(hist, d) \in History /\ HistoryOf(Exit(hist, d), Persons \ {d})
    BY <1>1, <2>1, ExitCorrect
  <2> QED BY <2>2, <2>3, <2>4
<1> QED BY <1>2, <1>3

\* Whoever makes way for a nick is in no entry of the history.
LEMMA WayMade ==
  ASSUME IInv, NEW n \in Nicks, NEW c \in Clients, Free(n, c)
  PROVE  LET D == Find(n) \ {c} IN
         /\ D \in SUBSET Clients /\ D \cap Persons = {}
         /\ After(D) \in History /\ HistoryOf(After(D), Persons)
<1> DEFINE D == Find(n) \ {c}
<1>1. Find(n) \in SUBSET Clients
  BY FindHolders DEF IInv
<1>2. \A x, y \in D : x = y
  BY OneHolder
<1>3. D \cap Persons = {}
  BY <1>1 DEF Free, MakesWay, Persons, Unknowns
<1>4. Persons \ D = Persons
  BY <1>3
<1>5. After(D) \in History /\ HistoryOf(After(D), Persons \ D)
  BY <1>1, <1>2, AfterCorrect
<1> QED BY <1>1, <1>3, <1>4, <1>5

-----------------------------------------------------------------------------
(* What the steps have in common.                                          *)

\* The variables that only have a type.
PlainType ==
  /\ CurrentTime \in Nat
  /\ user \in [Clients -> BOOLEAN]
  /\ announced \in [Clients -> {None} \cup (Nicks \X Nat)]
  /\ nick_changes \in [Clients -> Nat]
  /\ last_nick_change \in [Clients -> Nat]
  /\ crashed \in BOOLEAN

LEMMA GoneType ==
  ASSUME TypeOK, NEW D, Gone(D), UNCHANGED <<CurrentTime, crashed>>
  PROVE  PlainType'
<1>1. user' \in [Clients -> BOOLEAN]
  BY DEF TypeOK, Gone, Drop
<1>2. announced' \in [Clients -> {None} \cup (Nicks \X Nat)]
  BY DEF TypeOK, Gone, Drop
<1>3. nick_changes' \in [Clients -> Nat] /\ last_nick_change' \in [Clients -> Nat]
  BY DEF TypeOK, Gone, Drop
<1> QED BY <1>1, <1>2, <1>3 DEF TypeOK, PlainType

\* The clients D exit; nobody else changes.
LEMMA ExitStep ==
  ASSUME IInv, NEW D \in SUBSET Clients, ExitOnly(D),
         UNCHANGED <<CurrentTime, crashed>>,
         hist' \in History, HistoryOf(hist', Persons \ D)
  PROVE  IInv'
<1>1. /\ name' \in [Clients -> Nicks \cup {NoNick}]
      /\ table' \in [Nicks -> SUBSET Clients]
      /\ \A x \in Clients, m \in Nicks : x \in table'[m] <=> name'[x] = m
      /\ NickUnique'
      /\ \A x \in Clients : name'[x] = IF x \in D THEN NoNick ELSE name[x]
  BY ExitOnlyKeeps DEF ExitOnly
<1>2. PlainType'
  BY GoneType DEF ExitOnly, IInv
<1>3. /\ status' \in [Clients -> {"free", "unknown", "client"}]
      /\ \A x \in Clients : status'[x] = IF x \in D THEN "free" ELSE status[x]
  BY DEF IInv, TypeOK, ExitOnly, Drop
<1>4. tsinfo' \in [Clients -> Nat]
  BY DEF IInv, TypeOK, ExitOnly, Drop
<1>5. TypeOK'
  BY <1>1, <1>2, <1>3, <1>4 DEF TypeOK, PlainType
<1>6. Persons' = Persons \ D
  BY <1>3 DEF Persons
<1>7. TableAgrees'
  BY <1>1, <1>3, <1>6 DEF IInv, TableAgrees, InUse, Persons
<1>8. HistoryAgrees'
  BY <1>6 DEF HistoryAgrees
<1> QED BY <1>1, <1>5, <1>7, <1>8 DEF IInv

\* The clients D exit and c, which is now s, has the nick n.
LEMMA TakeStep ==
  ASSUME IInv, NEW c \in Clients, NEW n \in Nicks, NEW ts \in Nat,
         NEW D \in SUBSET Clients, c \notin D, Find(n) \subseteq D \cup {c},
         Take(c, n, ts, D), NEW s \in {"unknown", "client"},
         status' \in [Clients -> {"free", "unknown", "client"}],
         \A x \in Clients : status'[x] = IF x = c THEN s
                            ELSE IF x \in D THEN "free" ELSE status[x],
         PlainType', hist' \in History, HistoryAgrees'
  PROVE  IInv'
<1>1. /\ name' \in [Clients -> Nicks \cup {NoNick}]
      /\ tsinfo' \in [Clients -> Nat]
      /\ table' \in [Nicks -> SUBSET Clients]
      /\ \A x \in Clients, m \in Nicks : x \in table'[m] <=> name'[x] = m
      /\ NickUnique'
      /\ \A x \in Clients : name'[x] = IF x = c THEN n
                              ELSE IF x \in D THEN NoNick ELSE name[x]
  BY TakeKeeps
<1>2. TypeOK'
  BY <1>1 DEF TypeOK, PlainType
<1>3. \A x \in Clients : name'[x] # NoNick => x \in InUse'
  BY <1>1 DEF IInv, TableAgrees, InUse
<1>4. \A x \in Persons' : name'[x] # NoNick
  BY <1>1, WhowasAssumption DEF IInv, TableAgrees, Persons
<1> QED BY <1>1, <1>2, <1>3, <1>4 DEF IInv, TableAgrees

\* A change of one client's other state.
LEMMA FramedStep ==
  ASSUME IInv, UNCHANGED <<name, tsinfo, table, hist>>, PlainType',
         status' \in [Clients -> {"free", "unknown", "client"}],
         \A x \in Clients : name[x] # NoNick => status'[x] # "free",
         \A x \in Clients : status'[x] = "client" => name[x] # NoNick,
         \A x \in Persons : status'[x] = "client"
  PROVE  IInv'
<1>1. TypeOK'
  BY DEF IInv, TypeOK, PlainType
<1>2. TableAgrees'
  BY DEF IInv, TableAgrees, InUse, Persons
<1>3. NickUnique'
  BY DEF IInv, NickUnique
<1>4. Persons \subseteq Persons'
  BY DEF Persons
<1>5. HistoryAgrees'
  BY <1>4, HistoryOfMore DEF IInv, HistoryAgrees
<1> QED BY <1>1, <1>2, <1>3, <1>5 DEF IInv

-----------------------------------------------------------------------------
(* The steps.                                                              *)

LEMMA InitIInv == Init => IInv
<1> SUFFICES ASSUME Init PROVE IInv
  OBVIOUS
<1>1. Persons = {}
  BY DEF Init, Persons
<1>2. hist \in History /\ HistoryOf(hist, {})
  BY NoHistoryCorrect DEF Init
<1>3. TypeOK
  BY <1>2 DEF Init, TypeOK, None
<1>4. TableAgrees
  BY <1>1, WhowasAssumption DEF Init, TableAgrees
<1>5. NickUnique
  BY DEF Init, NickUnique
<1> QED BY <1>1, <1>2, <1>3, <1>4, <1>5 DEF IInv, HistoryAgrees

LEMMA TickKeeps == ASSUME IInv, Tick PROVE IInv'
<1>1. PlainType'
  BY DEF IInv, TypeOK, PlainType, Tick, floodVars
<1> QED
  BY <1>1, FramedStep DEF IInv, TypeOK, TableAgrees, InUse, Persons, Tick, floodVars

LEMMA AcceptKeeps == ASSUME IInv, NEW c \in Clients, Accept(c) PROVE IInv'
<1>1. PlainType'
  BY DEF IInv, TypeOK, PlainType, Accept, floodVars
<1>2. /\ status' \in [Clients -> {"free", "unknown", "client"}]
      /\ \A x \in Clients : status'[x] = IF x = c THEN "unknown" ELSE status[x]
      /\ status[c] = "free"
  BY DEF IInv, TypeOK, Accept, InUse
<1> QED
  BY <1>1, <1>2, FramedStep
  DEF IInv, TableAgrees, InUse, Persons, Accept, floodVars

LEMMA UserFirstKeeps == ASSUME IInv, NEW c \in Clients, UserFirst(c) PROVE IInv'
<1>1. PlainType'
  BY DEF IInv, TypeOK, PlainType, UserFirst, floodVars
<1> QED
  BY <1>1, FramedStep
  DEF IInv, TypeOK, TableAgrees, InUse, Persons, UserFirst, floodVars

LEMMA RegisterKeeps == ASSUME IInv, NEW c \in Clients, Register(c) PROVE IInv'
<1>1. name[c] \in Nicks /\ tsinfo[c] \in Nat
  BY DEF IInv, TypeOK, Register
<1>2. PlainType'
  BY <1>1 DEF IInv, TypeOK, PlainType, Register, floodVars
<1>3. /\ status' \in [Clients -> {"free", "unknown", "client"}]
      /\ \A x \in Clients : status'[x] = IF x = c THEN "client" ELSE status[x]
      /\ name[c] # NoNick
  BY DEF IInv, TypeOK, Register
<1> QED
  BY <1>2, <1>3, FramedStep
  DEF IInv, TableAgrees, InUse, Persons, Register, floodVars

LEMMA UnregisteredNickKeeps ==
  ASSUME IInv, NEW c \in Clients, NEW n \in Nicks, UnregisteredNick(c, n)
  PROVE  IInv'
<1> DEFINE D == Find(n) \ {c}
           ts == NewTS(c, n, 0)
<1>1. /\ D \in SUBSET Clients /\ D \cap Persons = {}
      /\ After(D) \in History /\ HistoryOf(After(D), Persons)
  BY WayMade DEF UnregisteredNick
<1>2. ts \in Nat
  BY NewTSType DEF IInv
<1>3. Take(c, n, ts, D) /\ hist' = After(D)
  BY DEF UnregisteredNick
<1>4. PlainType'
  BY GoneType DEF UnregisteredNick, IInv
<1>5. /\ status' \in [Clients -> {"free", "unknown", "client"}]
      /\ \A x \in Clients : status'[x] = IF x = c THEN "unknown"
                             ELSE IF x \in D THEN "free" ELSE status[x]
  BY DEF IInv, TypeOK, UnregisteredNick, Drop, Unknowns
<1>6. Persons' = Persons
  BY <1>1, <1>5 DEF Persons, UnregisteredNick, Unknowns
<1>7. HistoryAgrees'
  BY <1>1, <1>3, <1>6 DEF HistoryAgrees
<1>8. c \notin D /\ Find(n) \subseteq D \cup {c} /\ hist' \in History
  BY <1>1, <1>3
<1> HIDE DEF D, ts
<1> QED BY <1>1, <1>2, <1>3, <1>4, <1>5, <1>7, <1>8, TakeStep

LEMMA NickRegistersKeeps ==
  ASSUME IInv, NEW c \in Clients, NEW n \in Nicks, NickRegisters(c, n)
  PROVE  IInv'
<1> DEFINE D == Find(n) \ {c}
<1>1. /\ D \in SUBSET Clients /\ D \cap Persons = {}
      /\ After(D) \in History /\ HistoryOf(After(D), Persons)
  BY WayMade DEF NickRegisters
<1>2. Take(c, n, CurrentTime, D) /\ hist' = After(D) /\ CurrentTime \in Nat
  BY DEF NickRegisters, IInv, TypeOK
<1>3. PlainType'
  <2>1. user' \in [Clients -> BOOLEAN]
    BY DEF IInv, TypeOK, NickRegisters, Drop
  <2>2. announced' \in [Clients -> {None} \cup (Nicks \X Nat)]
    BY DEF IInv, TypeOK, NickRegisters, Drop
  <2>3. nick_changes' \in [Clients -> Nat] /\ last_nick_change' \in [Clients -> Nat]
    BY DEF IInv, TypeOK, NickRegisters, Drop
  <2> QED BY <2>1, <2>2, <2>3 DEF IInv, TypeOK, PlainType, NickRegisters
<1>4. /\ status' \in [Clients -> {"free", "unknown", "client"}]
      /\ \A x \in Clients : status'[x] = IF x = c THEN "client"
                             ELSE IF x \in D THEN "free" ELSE status[x]
  BY DEF IInv, TypeOK, NickRegisters, Drop
<1>5. Persons \subseteq Persons'
  BY <1>1, <1>4 DEF Persons
<1>6. HistoryAgrees'
  BY <1>1, <1>2, <1>5, HistoryOfMore DEF HistoryAgrees
<1>7. c \notin D /\ Find(n) \subseteq D \cup {c} /\ hist' \in History
  BY <1>1, <1>2
<1> HIDE DEF D
<1> QED BY <1>1, <1>2, <1>3, <1>4, <1>6, <1>7, TakeStep

LEMMA NickRejectedKeeps ==
  ASSUME IInv, NEW c \in Clients, NEW n \in Nicks, NickRejected(c, n)
  PROVE  IInv'
<1> DEFINE D == (Find(n) \ {c}) \cup {c}
<1>1. D \in SUBSET Clients /\ D \cap Persons = {}
  BY WayMade DEF NickRejected, Unknowns, Persons
<1>2. ExitOnly(D) /\ hist' = hist /\ UNCHANGED <<CurrentTime, crashed>>
  BY DEF NickRejected
<1>3. Persons \ D = Persons
  BY <1>1
<1>4. hist' \in History /\ HistoryOf(hist', Persons \ D)
  BY <1>2, <1>3 DEF IInv, TypeOK, HistoryAgrees
<1> HIDE DEF D
<1> QED BY <1>1, <1>2, <1>4, ExitStep

\* What counting changes of nick leaves of the counters' type.
LEMMA CountType ==
  ASSUME IInv, NEW c \in Clients, NEW D, CountChange(c, D)
  PROVE  nick_changes' \in [Clients -> Nat] /\ last_nick_change' \in [Clients -> Nat]
<1>1. ChangesNow(c) \in Nat
  BY ChangesType DEF IInv
<1>2. /\ Drop(nick_changes, D, 0) \in [Clients -> Nat]
      /\ Drop(last_nick_change, D, 0) \in [Clients -> Nat]
  BY DEF IInv, TypeOK, Drop
<1>3. CurrentTime \in Nat
  BY DEF IInv, TypeOK
<1> QED BY <1>1, <1>2, <1>3 DEF CountChange

LEMMA NickTooFastKeeps ==
  ASSUME IInv, NEW c \in Clients, NEW n \in Nicks, NickTooFast(c, n)
  PROVE  IInv'
<1> DEFINE D == Find(n) \ {c}
<1>1. /\ D \in SUBSET Clients /\ D \cap Persons = {}
      /\ After(D) \in History /\ HistoryOf(After(D), Persons)
  BY WayMade DEF NickTooFast
<1>2. name' = Drop(name, D, NoNick) /\ table' = Unfile(D) /\ hist' = After(D)
  BY DEF NickTooFast
<1>3. /\ name' \in [Clients -> Nicks \cup {NoNick}]
      /\ table' \in [Nicks -> SUBSET Clients]
      /\ \A x \in Clients, m \in Nicks : x \in table'[m] <=> name'[x] = m
      /\ NickUnique'
      /\ \A x \in Clients : name'[x] = IF x \in D THEN NoNick ELSE name[x]
  BY <1>1, <1>2, ExitOnlyKeeps
<1>4. /\ status' \in [Clients -> {"free", "unknown", "client"}]
      /\ \A x \in Clients : status'[x] = IF x \in D THEN "free" ELSE status[x]
  BY DEF IInv, TypeOK, NickTooFast, Drop
<1>5. tsinfo' \in [Clients -> Nat]
  <2>1. NewTS(c, n, 0) \in Nat
    BY NewTSType DEF IInv
  <2> QED BY <2>1 DEF IInv, TypeOK, NickTooFast, Drop
<1>6. nick_changes' \in [Clients -> Nat] /\ last_nick_change' \in [Clients -> Nat]
  BY CountType DEF NickTooFast
<1>7. user' \in [Clients -> BOOLEAN]
      /\ announced' \in [Clients -> {None} \cup (Nicks \X Nat)]
  BY DEF IInv, TypeOK, NickTooFast, Drop
<1>8. TypeOK'
  BY <1>1, <1>2, <1>3, <1>4, <1>5, <1>6, <1>7 DEF IInv, TypeOK, NickTooFast
<1>9. Persons' = Persons
  BY <1>1, <1>4 DEF Persons
<1>10. TableAgrees'
  BY <1>1, <1>3, <1>4, <1>9 DEF IInv, TableAgrees, InUse, Persons
<1>11. HistoryAgrees'
  BY <1>1, <1>2, <1>9 DEF HistoryAgrees
<1> QED BY <1>3, <1>8, <1>10, <1>11 DEF IInv

LEMMA NickLocalKeeps ==
  ASSUME IInv, NEW c \in Clients, NEW n \in Nicks, NickLocal(c, n)
  PROVE  IInv'
<1> DEFINE D == Find(n) \ {c}
           ts == NewTS(c, n, 0)
<1>1. /\ D \in SUBSET Clients /\ D \cap Persons = {}
      /\ After(D) \in History /\ HistoryOf(After(D), Persons)
  BY WayMade DEF NickLocal
<1>2. ts \in Nat /\ CurrentTime \in Nat /\ name[c] \in Nicks /\ c \in Persons
  BY NewTSType, PersonHasNick DEF IInv, TypeOK, NickLocal
<1>3. Take(c, n, ts, D)
  BY DEF NickLocal
<1>4. hist' = AddHistory(After(D), c, name[c], TRUE, CurrentTime)
  BY DEF NickLocal
<1>5. PlainType'
  <2>1. user' \in [Clients -> BOOLEAN]
    BY DEF IInv, TypeOK, NickLocal, Drop
  <2>2. announced' \in [Clients -> {None} \cup (Nicks \X Nat)]
    BY <1>2 DEF IInv, TypeOK, NickLocal, Drop, Announce
  <2>3. nick_changes' \in [Clients -> Nat] /\ last_nick_change' \in [Clients -> Nat]
    BY CountType DEF NickLocal
  <2> QED BY <2>1, <2>2, <2>3 DEF IInv, TypeOK, PlainType, NickLocal
<1>6. /\ status' \in [Clients -> {"free", "unknown", "client"}]
      /\ \A x \in Clients : status'[x] = IF x = c THEN "client"
                             ELSE IF x \in D THEN "free" ELSE status[x]
  BY <1>2 DEF IInv, TypeOK, NickLocal, Drop, Persons
<1>7. Persons' = Persons
  BY <1>1, <1>2, <1>6 DEF Persons
<1>8. Persons \in SUBSET Clients
  BY DEF Persons
<1>9. hist' \in History /\ HistoryOf(hist', Persons)
  <2> DEFINE h == After(D)
  <2>1. h \in History /\ HistoryOf(h, Persons)
    BY <1>1
  <2>2. hist' = AddHistory(h, c, name[c], TRUE, CurrentTime)
    BY <1>4
  <2> HIDE DEF h, D, ts
  <2> QED BY <2>1, <2>2, <1>2, <1>8, AddHistoryType, AddHistoryCorrect
<1>10. HistoryAgrees'
  BY <1>7, <1>9 DEF HistoryAgrees
<1>11. c \notin D /\ Find(n) \subseteq D \cup {c}
  OBVIOUS
<1> HIDE DEF D, ts
<1> QED BY <1>1, <1>2, <1>3, <1>5, <1>6, <1>9, <1>10, <1>11, TakeStep

\* Whoever holds a nick is the only one, and its exit is like any other.
LEMMA CollidesAlone ==
  ASSUME IInv, NEW n \in Nicks, NEW d \in Find(n)
  PROVE  /\ d \in Clients /\ Find(n) = {d}
         /\ Exit(hist, d) \in History /\ HistoryOf(Exit(hist, d), Persons \ {d})
<1>1. d \in Clients
  BY FindHolders DEF IInv
<1>2. Find(n) = {d}
  BY OneHolder
<1>3. Persons \in SUBSET Clients /\ hist \in History /\ HistoryOf(hist, Persons)
  BY DEF IInv, TypeOK, HistoryAgrees, Persons
<1>4. /\ Exit(hist, d) \in History
      /\ HistoryOf(Exit(hist, d), Persons \ {d})
  BY <1>1, <1>3, ExitCorrect
<1> QED BY <1>1, <1>2, <1>4

\* The parts of a step that introduces a client or changes its nick, when the
\* clients D, of whom there is one at most, exit.
LEMMA IntroducedKeeps ==
  ASSUME IInv, NEW c \in Clients, NEW n \in Nicks, NEW ts \in Nat,
         NEW D \in SUBSET Clients, \A x, y \in D : x = y,
         c \notin D, Find(n) \subseteq D \cup {c}, Introduced(c, n, ts, D)
  PROVE  IInv'
<1>1. After(D) \in History /\ HistoryOf(After(D), Persons \ D)
  BY AfterCorrect
<1>2. NewTS(c, n, ts) \in Nat
  BY NewTSType DEF IInv
<1>3. Take(c, n, NewTS(c, n, ts), D) /\ hist' = After(D)
  BY DEF Introduced
<1>4. PlainType'
  BY GoneType DEF Introduced, IInv
<1>5. /\ status' \in [Clients -> {"free", "unknown", "client"}]
      /\ \A x \in Clients : status'[x] = IF x = c THEN "client"
                             ELSE IF x \in D THEN "free" ELSE status[x]
  BY DEF IInv, TypeOK, Introduced, Drop
<1>6. Persons \ D \subseteq Persons'
  BY <1>5 DEF Persons
<1>7. HistoryAgrees'
  BY <1>1, <1>3, <1>6, HistoryOfMore DEF HistoryAgrees
<1> QED BY <1>1, <1>2, <1>3, <1>4, <1>5, <1>7, TakeStep

LEMMA IntroduceKeeps ==
  ASSUME IInv, NEW c \in Clients, NEW n \in Nicks, NEW ts \in Nat,
         Introduce(c, n, ts)
  PROVE  IInv'
<1>1. c \notin Find(n)
  BY FindHolders, WhowasAssumption DEF IInv, Introduce, TableAgrees
<1>2. CASE Free(n, c) /\ Introduced(c, n, ts, Find(n))
  <2>1. Find(n) \in SUBSET Clients /\ \A x, y \in Find(n) : x = y
    BY FindHolders, OneHolder DEF IInv
  <2> QED BY <1>1, <1>2, <2>1, IntroducedKeeps
<1>3. ASSUME NEW d \in Find(n) \cap Persons, BothLose(ts, d), ExitOnly({d}),
             hist' = Exit(hist, d), UNCHANGED <<CurrentTime, crashed>>
      PROVE  IInv'
  <2>1. {d} \in SUBSET Clients /\ hist' \in History
        /\ HistoryOf(hist', Persons \ {d})
    BY <1>3, CollidesAlone
  <2> QED BY <1>3, <2>1, ExitStep
<1>4. ASSUME NEW d \in Find(n) \cap Persons, Introduced(c, n, ts, {d})
      PROVE  IInv'
  <2>1. d \in Clients /\ Find(n) = {d}
    BY CollidesAlone
  <2> QED BY <1>1, <1>4, <2>1, IntroducedKeeps
<1> QED BY <1>2, <1>3, <1>4 DEF Introduce

LEMMA IntroduceGhostKeeps ==
  ASSUME IInv, NEW c \in Clients, NEW n \in Nicks, IntroduceGhost(c, n)
  PROVE  IInv'
<1> DEFINE D == Find(n)
           h == After(D)
<1>1. D \in SUBSET Clients /\ \A x, y \in D : x = y
  BY FindHolders, OneHolder DEF IInv
<1>2. h \in History /\ HistoryOf(h, Persons \ D)
  BY <1>1, AfterCorrect
<1>3. /\ ExitOnly(D) /\ UNCHANGED <<CurrentTime, crashed>>
      /\ hist' = AddHistory(h, c, n, FALSE, CurrentTime)
  BY DEF IntroduceGhost
<1>4. CurrentTime \in Nat /\ Persons \ D \in SUBSET Clients
  BY DEF IInv, TypeOK, Persons
<1> HIDE DEF D, h
<1>5. hist' \in History /\ HistoryOf(hist', Persons \ D)
  BY <1>2, <1>3, <1>4, AddHistoryType, AddHistoryCorrect
<1> QED BY <1>1, <1>3, <1>5, ExitStep

LEMMA ChangedKeeps ==
  ASSUME IInv, NEW c \in Clients, c \in Persons, NEW n \in Nicks, NEW ts \in Nat,
         NEW D \in SUBSET Clients, \A x, y \in D : x = y,
         c \notin D, Find(n) \subseteq D \cup {c}, Changed(c, n, ts, D)
  PROVE  IInv'
<1> DEFINE h == After(D)
<1>1. h \in History /\ HistoryOf(h, Persons \ D)
  BY AfterCorrect
<1>2. /\ NewTS(c, n, ts) \in Nat /\ CurrentTime \in Nat /\ name[c] \in Nicks
      /\ c \in Clients /\ Persons \ D \in SUBSET Clients /\ c \in Persons \ D
  BY NewTSType, PersonHasNick DEF IInv, TypeOK, Persons
<1>3. /\ Take(c, n, NewTS(c, n, ts), D)
      /\ hist' = AddHistory(h, c, name[c], TRUE, CurrentTime)
  BY DEF Changed
<1>4. PlainType'
  BY GoneType DEF Changed, IInv
<1>5. /\ status' \in [Clients -> {"free", "unknown", "client"}]
      /\ \A x \in Clients : status'[x] = IF x = c THEN "client"
                             ELSE IF x \in D THEN "free" ELSE status[x]
  BY DEF IInv, TypeOK, Changed, Drop, Persons
<1>6. Persons' = Persons \ D
  BY <1>2, <1>5 DEF Persons
<1> HIDE DEF h
<1>7. hist' \in History /\ HistoryOf(hist', Persons \ D)
  BY <1>1, <1>2, <1>3, AddHistoryType, AddHistoryCorrect
<1>8. HistoryAgrees'
  BY <1>6, <1>7 DEF HistoryAgrees
<1>9. hist' \in History
  BY <1>7
<1>10. NewTS(c, n, ts) \in Nat /\ Take(c, n, NewTS(c, n, ts), D)
  BY <1>2, <1>3
<1> QED BY <1>4, <1>5, <1>8, <1>9, <1>10, TakeStep

LEMMA NickRemoteKeeps ==
  ASSUME IInv, NEW c \in Clients, NEW n \in Nicks, NEW ts \in Nat,
         NickRemote(c, n, ts)
  PROVE  IInv'
<1>1. c \in Persons /\ Persons \in SUBSET Clients /\ hist \in History
      /\ HistoryOf(hist, Persons)
  BY DEF NickRemote, Persons, IInv, TypeOK, HistoryAgrees
<1>2. CASE Free(n, c) /\ Changed(c, n, ts, Find(n) \ {c})
  <2> DEFINE D == Find(n) \ {c}
  <2>1. D \in SUBSET Clients /\ \A x, y \in D : x = y
    BY FindHolders, OneHolder DEF IInv
  <2>2. c \notin D /\ Find(n) \subseteq D \cup {c}
    OBVIOUS
  <2>3. Changed(c, n, ts, D)
    BY <1>2
  <2> HIDE DEF D
  <2> QED BY <1>1, <2>1, <2>2, <2>3, ChangedKeeps
<1>3. ASSUME NEW d \in (Find(n) \ {c}) \cap Persons, ExitOnly({c, d}),
             hist' = Exit(Exit(hist, d), c), UNCHANGED <<CurrentTime, crashed>>
      PROVE  IInv'
  <2> DEFINE h == Exit(hist, d)
  <2>1. d \in Clients /\ h \in History /\ HistoryOf(h, Persons \ {d})
    BY CollidesAlone
  <2>2. Persons \ {d} \in SUBSET Clients
    BY <1>1
  <2> HIDE DEF h
  <2>3. Exit(h, c) \in History /\ HistoryOf(Exit(h, c), (Persons \ {d}) \ {c})
    BY <1>1, <2>1, <2>2, ExitCorrect
  <2>4. (Persons \ {d}) \ {c} = Persons \ {c, d}
    OBVIOUS
  <2>5. hist' \in History /\ HistoryOf(hist', Persons \ {c, d})
    BY <1>3, <2>3, <2>4 DEF h
  <2>6. {c, d} \in SUBSET Clients
    BY <2>1
  <2> QED BY <1>3, <2>5, <2>6, ExitStep
<1>4. ASSUME ExitOnly({c}), hist' = Exit(hist, c),
             UNCHANGED <<CurrentTime, crashed>>
      PROVE  IInv'
  <2>1. hist' \in History /\ HistoryOf(hist', Persons \ {c})
    BY <1>1, <1>4, ExitCorrect
  <2> QED BY <1>4, <2>1, ExitStep
<1>5. ASSUME NEW d \in (Find(n) \ {c}) \cap Persons, Changed(c, n, ts, {d})
      PROVE  IInv'
  <2>1. d \in Clients /\ Find(n) = {d}
    BY CollidesAlone
  <2>2. c \notin {d} /\ Find(n) \subseteq {d} \cup {c} /\ {d} \in SUBSET Clients
        /\ \A x, y \in {d} : x = y
    BY <2>1
  <2>3. Changed(c, n, ts, {d})
    BY <1>5
  <2> QED BY <1>1, <2>2, <2>3, ChangedKeeps
<1> QED BY <1>2, <1>3, <1>4, <1>5 DEF NickRemote

LEMMA QuitKeeps == ASSUME IInv, NEW c \in Clients, Quit(c) PROVE IInv'
<1>1. Persons \in SUBSET Clients /\ hist \in History /\ HistoryOf(hist, Persons)
  BY DEF Persons, IInv, TypeOK, HistoryAgrees
<1>2. /\ Exit(hist, c) \in History
      /\ HistoryOf(Exit(hist, c), Persons \ {c})
  BY <1>1, ExitCorrect
<1> QED BY <1>2, ExitStep DEF Quit

LEMMA KillKeeps == ASSUME IInv, NEW n \in Nicks, Kill(n) PROVE IInv'
<1>1. Persons \in SUBSET Clients /\ hist \in History /\ HistoryOf(hist, Persons)
      /\ CurrentTime \in Nat
  BY DEF Persons, IInv, TypeOK, HistoryAgrees
<1>2. PICK c \in Chase(n) : ExitOnly({c}) /\ hist' = Exit(hist, c)
  BY DEF Kill
<1>3. c \in Clients
  <2>1. CASE Find(n) # {}
    BY <1>2, <2>1, FindHolders DEF Chase, IInv
  <2>2. CASE Find(n) = {}
    <3>1. GetHistory(hist, n, CurrentTime) \in Persons \cup {NoClient}
      BY <1>1, GetHistoryFindsPerson
    <3> QED BY <1>1, <1>2, <2>2, <3>1 DEF Chase
  <2> QED BY <2>1, <2>2
<1>4. /\ Exit(hist, c) \in History
      /\ HistoryOf(Exit(hist, c), Persons \ {c})
  BY <1>1, <1>3, ExitCorrect
<1>5. UNCHANGED <<CurrentTime, crashed>>
  BY DEF Kill
<1> QED BY <1>2, <1>3, <1>4, <1>5, ExitStep

LEMMA FNickKeeps == ASSUME IInv, NEW n \in Nicks, FNick(n) PROVE IInv'
<1>1. PlainType'
  BY DEF IInv, TypeOK, PlainType, FNick, floodVars
<1> QED
  BY <1>1, FramedStep
  DEF IInv, TypeOK, TableAgrees, InUse, Persons, FNick, floodVars

LEMMA NextKeeps == ASSUME IInv, [Next]_vars PROVE IInv'
<1>1. 0 .. MaxTS \subseteq Nat
  BY NicksAssumption
<1>2. CASE Tick
  BY <1>2, TickKeeps
<1>3. ASSUME NEW c \in Clients,
             Accept(c) \/ UserFirst(c) \/ Register(c) \/ Quit(c)
      PROVE  IInv'
  BY <1>3, AcceptKeeps, UserFirstKeeps, RegisterKeeps, QuitKeeps
<1>4. ASSUME NEW c \in Clients, NEW n \in Nicks,
             \/ UnregisteredNick(c, n) \/ NickRegisters(c, n) \/ NickRejected(c, n)
             \/ NickLocal(c, n) \/ NickTooFast(c, n) \/ IntroduceGhost(c, n)
      PROVE  IInv'
  BY <1>4, UnregisteredNickKeeps, NickRegistersKeeps, NickRejectedKeeps,
     NickLocalKeeps, NickTooFastKeeps, IntroduceGhostKeeps
<1>5. ASSUME NEW c \in Clients, NEW n \in Nicks, NEW ts \in 0 .. MaxTS,
             Introduce(c, n, ts) \/ NickRemote(c, n, ts)
      PROVE  IInv'
  BY <1>1, <1>5, IntroduceKeeps, NickRemoteKeeps
<1>6. ASSUME NEW n \in Nicks, Kill(n) \/ FNick(n)
      PROVE  IInv'
  BY <1>6, KillKeeps, FNickKeeps
<1>7. CASE UNCHANGED vars
  <2>1. UNCHANGED <<CurrentTime, status, user, name, tsinfo, table, hist, announced,
                    nick_changes, last_nick_change, crashed>>
    BY <1>7 DEF vars, floodVars
  <2> QED
    BY <2>1 DEF IInv, TypeOK, TableAgrees, NickUnique, HistoryAgrees, InUse, Persons
<1> QED BY <1>2, <1>3, <1>4, <1>5, <1>6, <1>7 DEF Next

-----------------------------------------------------------------------------
(* What the uplink knows, where no change of nick is held up.              *)

LEMMA ExitTells ==
  ASSUME TypeOK, UplinkKnows, NEW D, ExitOnly(D)
  PROVE  UplinkKnows'
<1> SUFFICES ASSUME NEW x \in Locals \cap Persons'
             PROVE  announced'[x] = <<name'[x], tsinfo'[x]>>
  BY DEF UplinkKnows
<1>1. x \in Clients /\ status'[x] = "client"
  BY DEF Persons
<1>2. x \notin D /\ x \in Persons
  BY <1>1 DEF ExitOnly, Drop, Persons
<1>3. name'[x] = name[x] /\ tsinfo'[x] = tsinfo[x] /\ announced'[x] = announced[x]
  BY <1>1, <1>2 DEF ExitOnly, Gone, Drop
<1> QED BY <1>2, <1>3 DEF UplinkKnows

LEMMA TakeTells ==
  ASSUME TypeOK, UplinkKnows, NEW c \in Clients, NEW n, NEW ts, NEW D, c \notin D,
         Take(c, n, ts, D),
         \A x \in Clients : x # c => status'[x] = IF x \in D THEN "free" ELSE status[x],
         \A x \in Clients : x \notin D \cup {c} => announced'[x] = announced[x],
         c \in Locals \cap Persons' => announced'[c] = <<n, ts>>
  PROVE  UplinkKnows'
<1> SUFFICES ASSUME NEW x \in Locals \cap Persons'
             PROVE  announced'[x] = <<name'[x], tsinfo'[x]>>
  BY DEF UplinkKnows
<1>1. x \in Clients /\ status'[x] = "client"
  BY DEF Persons
<1>2. CASE x = c
  BY <1>1, <1>2 DEF Take, Drop
<1>3. CASE x # c
  <2>1. x \notin D /\ x \in Persons
    BY <1>1, <1>3 DEF Persons
  <2>2. name'[x] = name[x] /\ tsinfo'[x] = tsinfo[x] /\ announced'[x] = announced[x]
    BY <1>1, <1>3, <2>1 DEF Take, Drop
  <2> QED BY <2>1, <2>2 DEF UplinkKnows
<1> QED BY <1>2, <1>3

LEMMA UplinkKnowsKeeps ==
  ASSUME IInv, ~ANTI_NICK_FLOOD, UplinkKnows, [Next]_vars
  PROVE  UplinkKnows'
<1>1. TypeOK
  BY DEF IInv
<1>2. ASSUME UNCHANGED <<status, name, tsinfo, announced>>
      PROVE  UplinkKnows'
  BY <1>2 DEF UplinkKnows, Persons
<1>3. CASE Tick \/ UNCHANGED vars
  BY <1>2, <1>3 DEF Tick, vars
<1>4. ASSUME NEW c \in Clients, Accept(c) \/ UserFirst(c)
      PROVE  UplinkKnows'
  BY <1>1, <1>4 DEF Accept, UserFirst, UplinkKnows, Persons, TypeOK
<1>5. ASSUME NEW c \in Clients, Register(c)
      PROVE  UplinkKnows'
  BY <1>1, <1>5 DEF Register, UplinkKnows, Persons, TypeOK
<1>6. ASSUME NEW c \in Clients, NEW n \in Nicks, UnregisteredNick(c, n)
      PROVE  UplinkKnows'
  <2> DEFINE D == Find(n) \ {c}
  <2>1. /\ Take(c, n, NewTS(c, n, 0), D) /\ c \notin D
        /\ status' = Drop(status, D, "free") /\ Gone(D) /\ c \in Unknowns
    BY <1>6 DEF UnregisteredNick
  <2> HIDE DEF D
  <2>2. /\ \A x \in Clients : status'[x] = IF x \in D THEN "free" ELSE status[x]
        /\ \A x \in Clients : x \notin D => announced'[x] = announced[x]
        /\ c \notin Persons'
    BY <2>1 DEF Drop, Gone, Unknowns, Persons
  <2> QED BY <1>1, <2>1, <2>2, TakeTells
<1>7. ASSUME NEW c \in Clients, NEW n \in Nicks, NickRegisters(c, n)
      PROVE  UplinkKnows'
  <2> DEFINE D == Find(n) \ {c}
  <2>1. /\ Take(c, n, CurrentTime, D) /\ c \notin D
        /\ status' = [Drop(status, D, "free") EXCEPT ![c] = "client"]
        /\ announced' = [Drop(announced, D, None) EXCEPT ![c] = <<n, CurrentTime>>]
    BY <1>7 DEF NickRegisters
  <2> HIDE DEF D
  <2>2. /\ \A x \in Clients : x # c => status'[x] = IF x \in D THEN "free" ELSE status[x]
        /\ \A x \in Clients : x \notin D \cup {c} => announced'[x] = announced[x]
        /\ announced'[c] = <<n, CurrentTime>>
    BY <2>1 DEF Drop
  <2> QED BY <1>1, <2>1, <2>2, TakeTells
<1>8. ASSUME NEW c \in Clients, NEW n \in Nicks, NickRejected(c, n)
      PROVE  UplinkKnows'
  BY <1>1, <1>8, ExitTells DEF NickRejected
<1>9. ASSUME NEW c \in Clients, NEW n \in Nicks, NickLocal(c, n)
      PROVE  UplinkKnows'
  <2> DEFINE D == Find(n) \ {c}
             ts == NewTS(c, n, 0)
  <2>1. /\ Take(c, n, ts, D) /\ c \notin D
        /\ status' = Drop(status, D, "free")
        /\ announced' = [Drop(announced, D, None) EXCEPT ![c] = <<n, ts>>]
    BY <1>9 DEF NickLocal, Announce
  <2> HIDE DEF D, ts
  <2>2. /\ \A x \in Clients : x # c => status'[x] = IF x \in D THEN "free" ELSE status[x]
        /\ \A x \in Clients : x \notin D \cup {c} => announced'[x] = announced[x]
        /\ announced'[c] = <<n, ts>>
    BY <2>1 DEF Drop
  <2> QED BY <1>1, <2>1, <2>2, TakeTells
<1>10. ASSUME NEW c \in Clients, NEW n \in Nicks, NickTooFast(c, n)
       PROVE  UplinkKnows'
  <2>1. ChangesNow(c) = 0 /\ ChangesNow(c) > MAX_NICK_CHANGES
    BY <1>10 DEF NickTooFast, ChangesNow
  <2> QED BY <2>1, NicksAssumption
<1>11. ASSUME NEW c \in Clients, NEW n \in Nicks, IntroduceGhost(c, n)
       PROVE  UplinkKnows'
  BY <1>1, <1>11, ExitTells DEF IntroduceGhost
<1>12. ASSUME NEW c \in Clients \ Locals, NEW n \in Nicks, NEW ts, NEW D, c \notin D,
              Introduced(c, n, ts, D) \/ Changed(c, n, ts, D)
       PROVE  UplinkKnows'
  <2>1. /\ Take(c, n, NewTS(c, n, ts), D) /\ Gone(D)
        /\ \A x \in Clients : x # c => status'[x] = IF x \in D THEN "free" ELSE status[x]
    BY <1>12 DEF Introduced, Changed, Drop
  <2>2. \A x \in Clients : x \notin D \cup {c} => announced'[x] = announced[x]
    BY <2>1 DEF Drop, Gone
  <2> QED BY <1>1, <1>12, <2>1, <2>2, TakeTells
<1>13. ASSUME NEW c \in Clients, NEW n \in Nicks, NEW ts \in 0 .. MaxTS,
              Introduce(c, n, ts)
       PROVE  UplinkKnows'
  <2>1. c \in Clients \ Locals
    BY <1>13 DEF Introduce
  <2>2. c \notin Find(n)
    BY <1>13, WhowasAssumption, FindHolders DEF Introduce, IInv, TableAgrees
  <2>3. CASE Introduced(c, n, ts, Find(n))
    BY <1>12, <2>1, <2>2, <2>3
  <2>4. CASE \E d \in Find(n) \cap Persons : ExitOnly({d})
    BY <1>1, <2>4, ExitTells
  <2>5. ASSUME NEW d \in Find(n) \cap Persons, Introduced(c, n, ts, {d})
        PROVE  UplinkKnows'
    BY <1>12, <2>1, <2>2, <2>5
  <2> QED BY <1>13, <2>3, <2>4, <2>5 DEF Introduce
<1>14. ASSUME NEW c \in Clients, NEW n \in Nicks, NEW ts \in 0 .. MaxTS,
              NickRemote(c, n, ts)
       PROVE  UplinkKnows'
  <2>1. c \in Clients \ Locals
    BY <1>14 DEF NickRemote
  <2>2. CASE Changed(c, n, ts, Find(n) \ {c})
    BY <1>12, <2>1, <2>2
  <2>3. ASSUME NEW d \in (Find(n) \ {c}) \cap Persons, Changed(c, n, ts, {d})
        PROVE  UplinkKnows'
    BY <1>12, <2>1, <2>3
  <2>4. CASE \E D : ExitOnly(D)
    BY <1>1, <2>4, ExitTells
  <2> QED BY <1>14, <2>2, <2>3, <2>4 DEF NickRemote
<1>15. ASSUME NEW c \in Clients, Quit(c)
       PROVE  UplinkKnows'
  BY <1>1, <1>15, ExitTells DEF Quit
<1>16. ASSUME NEW n \in Nicks, Kill(n) \/ FNick(n)
       PROVE  UplinkKnows'
  BY <1>1, <1>2, <1>16, ExitTells DEF Kill, FNick
<1> QED BY <1>3, <1>4, <1>5, <1>6, <1>7, <1>8, <1>9, <1>10, <1>11, <1>13, <1>14,
           <1>15, <1>16 DEF Next

-----------------------------------------------------------------------------
(* What the newest entry of a nick points to: whoever gave the nick up last, *)
(* if that one is still a person, or whoever has it.                       *)

\* A history h after the exit of the clients D.
Filed(h, D) ==
  /\ Ordered(h, CurrentTime)
  /\ \A m \in Nicks : Top(h, m) \subseteq
       {NoClient} \cup IF \E d \in D \cap Persons : name[d] = m THEN {} ELSE Top(hist, m)

\* The persons who give up the nick m in a step.
Leavers(m) == {c \in Persons : name[c] = m /\ (name'[c] # m \/ c \notin Persons')}

\* What a step makes of the newest entries.
TopStep ==
  /\ Ordered(hist', CurrentTime')
  /\ \A m \in Nicks : Top(hist', m) \subseteq
       {NoClient} \cup {c \in Persons' : c \in Persons /\ name[c] = m}
         \cup IF Leavers(m) # {} THEN {} ELSE Top(hist, m)

LEMMA ExitFiled ==
  ASSUME IInv, NEW h \in History, NEW S \in SUBSET Clients, HistoryOf(h, S),
         NEW D, NEW c \in Clients, Filed(h, D)
  PROVE  Filed(Exit(h, c), D \cup {c})
<1>1. CASE c \in Persons
  <2> DEFINE g == AddHistory(h, c, name[c], FALSE, CurrentTime)
  <2>1. name[c] \in Nicks /\ CurrentTime \in Nat
    BY <1>1, PersonHasNick DEF IInv, TypeOK
  <2>2. g \in History /\ Ordered(g, CurrentTime)
    BY <2>1, AddHistoryType, AddHistoryOrdered DEF Filed
  <2>3. ASSUME NEW m \in Nicks
        PROVE  Top(g, m) \subseteq IF m = name[c] THEN {NoClient} ELSE Top(h, m)
    <3>1. Top(g, m) \subseteq IF m = name[c] THEN {IF FALSE THEN c ELSE NoClient}
                             ELSE Top(h, m)
      <4> HIDE DEF g
      <4> QED BY <2>1, AddHistoryTop DEF g
    <3> QED BY <3>1
  <2> HIDE DEF g
  <2>4. Ordered(OffHistory(g, c), CurrentTime)
    BY <2>1, <2>2, OffHistoryOrdered
  <2>5. ASSUME NEW m \in Nicks
        PROVE  Top(OffHistory(g, c), m) \subseteq
                 {NoClient} \cup IF \E d \in (D \cup {c}) \cap Persons : name[d] = m THEN {}
                                 ELSE Top(hist, m)
    <3>1. Top(OffHistory(g, c), m) \subseteq Top(g, m) \cup {NoClient}
      BY <2>2, OffHistoryTop
    <3>2. CASE m = name[c]
      BY <2>3, <3>1, <3>2
    <3>3. CASE m # name[c]
      <4>1. (\E d \in (D \cup {c}) \cap Persons : name[d] = m)
              <=> \E d \in D \cap Persons : name[d] = m
        BY <3>3
      <4>2. Top(g, m) \subseteq Top(h, m)
        BY <2>3, <3>3
      <4> QED BY <3>1, <4>1, <4>2 DEF Filed
    <3> QED BY <3>2, <3>3
  <2>6. Exit(h, c) = OffHistory(g, c)
    BY <1>1 DEF Exit, g
  <2> QED BY <2>4, <2>5, <2>6 DEF Filed
<1>2. CASE c \notin Persons
  <2>1. Exit(h, c) = h /\ (D \cup {c}) \cap Persons = D \cap Persons
    BY <1>2 DEF Exit
  <2> QED BY <2>1 DEF Filed
<1> QED BY <1>1, <1>2

LEMMA AfterFiled ==
  ASSUME IInv, Ordered(hist, CurrentTime),
         NEW D \in SUBSET Clients, \A x, y \in D : x = y
  PROVE  Filed(After(D), D)
<1>1. hist \in History /\ HistoryOf(hist, Persons) /\ Persons \in SUBSET Clients
  BY DEF IInv, TypeOK, HistoryAgrees, Persons
<1>2. Filed(hist, {})
  BY DEF Filed
<1>3. CASE D = {}
  BY <1>2, <1>3 DEF After
<1>4. CASE D # {}
  <2> DEFINE d == CHOOSE d \in D : TRUE
  <2>1. d \in D
    BY <1>4
  <2>2. After(D) = Exit(hist, d)
    BY <1>4 DEF After
  <2> HIDE DEF d
  <2>3. D = {} \cup {d}
    BY <2>1
  <2>4. Filed(Exit(hist, d), {} \cup {d})
    BY <1>1, <1>2, <2>1, ExitFiled
  <2> QED BY <2>2, <2>3, <2>4
<1> QED BY <1>3, <1>4

\* The clients D exit and nobody else gives up a nick.
LEMMA TopExits ==
  ASSUME NEW D, Filed(hist', D), CurrentTime' = CurrentTime,
         \A x \in Persons : x \notin D => x \in Persons' /\ name'[x] = name[x]
  PROVE  TopStep
<1>1. ASSUME NEW m \in Nicks, Leavers(m) # {}
      PROVE  \E d \in D \cap Persons : name[d] = m
  BY <1>1 DEF Leavers
<1> QED BY <1>1 DEF TopStep, Filed

\* The client c gives up its nick and stays.
LEMMA TopChange ==
  ASSUME IInv, NEW h \in History, NEW S, HistoryOf(h, S), NEW D, Filed(h, D),
         NEW c \in Persons, c \in Persons',
         hist' = AddHistory(h, c, name[c], TRUE, CurrentTime), CurrentTime' = CurrentTime,
         \A x \in Persons : x \notin D /\ x # c => x \in Persons' /\ name'[x] = name[x]
  PROVE  TopStep
<1>1. c \in Clients /\ name[c] \in Nicks /\ CurrentTime \in Nat
  BY PersonHasNick DEF IInv, TypeOK, Persons
<1>2. Ordered(hist', CurrentTime)
  BY <1>1, AddHistoryOrdered DEF Filed
<1>3. ASSUME NEW m \in Nicks
      PROVE  Top(hist', m) \subseteq
               {NoClient} \cup {x \in Persons' : x \in Persons /\ name[x] = m}
                 \cup IF Leavers(m) # {} THEN {} ELSE Top(hist, m)
  <2>1. Top(hist', m) \subseteq IF m = name[c] THEN {c} ELSE Top(h, m)
    BY <1>1, AddHistoryTop
  <2>2. CASE m = name[c]
    BY <2>1, <2>2
  <2>3. CASE m # name[c]
    <3>1. Leavers(m) # {} => \E d \in D \cap Persons : name[d] = m
      BY <2>3 DEF Leavers
    <3> QED BY <2>1, <2>3, <3>1 DEF Filed
  <2> QED BY <2>2, <2>3
<1> QED BY <1>2, <1>3 DEF TopStep

\* What stays of the persons, and of their nicks, when the clients D exit.
LEMMA OthersStay ==
  ASSUME IInv, NEW D,
         \/ name' = Drop(name, D, NoNick) /\ status' = Drop(status, D, "free")
         \/ \E c \in Clients \ Persons : \E n, s :
              /\ name' = [Drop(name, D, NoNick) EXCEPT ![c] = n]
              /\ \/ status' = Drop(status, D, "free")
                 \/ status' = [Drop(status, D, "free") EXCEPT ![c] = s]
  PROVE  \A x \in Persons : x \notin D => x \in Persons' /\ name'[x] = name[x]
BY DEF Drop, Persons

LEMMA ChangerStays ==
  ASSUME IInv, NEW D, NEW c \in Persons \ D, NEW n,
         name' = [Drop(name, D, NoNick) EXCEPT ![c] = n], status' = Drop(status, D, "free")
  PROVE  /\ c \in Persons'
         /\ \A x \in Persons : x \notin D /\ x # c => x \in Persons' /\ name'[x] = name[x]
BY DEF Drop, Persons

LEMMA FreeFiled ==
  ASSUME IInv, Ordered(hist, CurrentTime), NEW n \in Nicks, NEW c \in Clients
  PROVE  /\ Filed(After(Find(n)), Find(n)) /\ Filed(After(Find(n) \ {c}), Find(n) \ {c})
         /\ After(Find(n)) \in History /\ After(Find(n) \ {c}) \in History
         /\ HistoryOf(After(Find(n)), Persons \ Find(n))
         /\ HistoryOf(After(Find(n) \ {c}), Persons \ (Find(n) \ {c}))
<1>1. Find(n) \in SUBSET Clients /\ \A x, y \in Find(n) : x = y
  BY FindHolders, OneHolder DEF IInv
<1>2. /\ Filed(After(Find(n)), Find(n))
      /\ After(Find(n)) \in History /\ HistoryOf(After(Find(n)), Persons \ Find(n))
  BY <1>1, AfterFiled, AfterCorrect
<1>3. Find(n) \ {c} \in SUBSET Clients /\ \A x, y \in Find(n) \ {c} : x = y
  BY <1>1
<1>4. /\ Filed(After(Find(n) \ {c}), Find(n) \ {c})
      /\ After(Find(n) \ {c}) \in History
      /\ HistoryOf(After(Find(n) \ {c}), Persons \ (Find(n) \ {c}))
  BY <1>3, AfterFiled, AfterCorrect
<1> QED BY <1>2, <1>4

\* A step that changes neither the persons, nor their nicks, nor the history.
LEMMA TopQuiet ==
  ASSUME Ordered(hist, CurrentTime), TypeOK, hist' = hist,
         CurrentTime' \in Nat, CurrentTime <= CurrentTime',
         \A x \in Persons : x \in Persons' /\ name'[x] = name[x]
  PROVE  TopStep
<1>1. \A i \in Ring : hist.entry[i].logoff \in Nat
  BY DEF TypeOK, History, Entry
<1>2. Ordered(hist', CurrentTime')
  BY <1>1 DEF Ordered, TypeOK
<1>3. \A m \in Nicks : Leavers(m) = {}
  BY DEF Leavers
<1> QED BY <1>2, <1>3 DEF TopStep

LEMMA TopLocal ==
  ASSUME IInv, Ordered(hist, CurrentTime), NEW c \in Clients, NEW n \in Nicks,
         \/ UnregisteredNick(c, n) \/ NickRegisters(c, n) \/ NickRejected(c, n)
         \/ NickLocal(c, n) \/ NickTooFast(c, n) \/ IntroduceGhost(c, n)
  PROVE  TopStep
<1> DEFINE D == Find(n) \ {c}
<1>1. /\ Filed(After(D), D) /\ After(D) \in History /\ HistoryOf(After(D), Persons \ D)
      /\ c \notin D
  BY FreeFiled
<1>2. CASE UnregisteredNick(c, n)
  <2>1. /\ c \in Clients \ Persons /\ name' = [Drop(name, D, NoNick) EXCEPT ![c] = n]
        /\ status' = Drop(status, D, "free")
        /\ hist' = After(D) /\ CurrentTime' = CurrentTime
    BY <1>2 DEF UnregisteredNick, Take, Unknowns, Persons
  <2> HIDE DEF D
  <2> QED BY <1>1, <2>1, OthersStay, TopExits
<1>3. CASE NickRegisters(c, n)
  <2>1. /\ c \in Clients \ Persons /\ name' = [Drop(name, D, NoNick) EXCEPT ![c] = n]
        /\ status' = [Drop(status, D, "free") EXCEPT ![c] = "client"]
        /\ hist' = After(D) /\ CurrentTime' = CurrentTime
    BY <1>3 DEF NickRegisters, Take, Unknowns, Persons
  <2> HIDE DEF D
  <2> QED BY <1>1, <2>1, OthersStay, TopExits
<1>4. CASE NickRejected(c, n)
  <2>1. /\ c \in Unknowns /\ D \cap Persons = {}
        /\ name' = Drop(name, D \cup {c}, NoNick)
        /\ status' = Drop(status, D \cup {c}, "free")
        /\ hist' = hist /\ CurrentTime' = CurrentTime
    BY <1>4, WayMade DEF NickRejected, ExitOnly
  <2>2. \A x \in Persons : x \notin D \cup {c}
    BY <2>1 DEF Unknowns, Persons
  <2> HIDE DEF D
  <2>3. \A x \in Persons : x \in Persons' /\ name'[x] = name[x]
    BY <2>1, <2>2, OthersStay
  <2>4. Filed(hist', {})
    BY <2>1 DEF Filed
  <2> QED BY <2>1, <2>3, <2>4, TopExits
<1>5. CASE NickLocal(c, n)
  <2>1. /\ c \in Persons \ D /\ name' = [Drop(name, D, NoNick) EXCEPT ![c] = n]
        /\ status' = Drop(status, D, "free")
        /\ hist' = AddHistory(After(D), c, name[c], TRUE, CurrentTime)
        /\ CurrentTime' = CurrentTime
    BY <1>5 DEF NickLocal, Take
  <2> HIDE DEF D
  <2>2. /\ c \in Persons'
        /\ \A x \in Persons : x \notin D /\ x # c => x \in Persons' /\ name'[x] = name[x]
    BY <2>1, ChangerStays
  <2> QED BY <1>1, <2>1, <2>2, TopChange
<1>6. CASE NickTooFast(c, n)
  <2>1. /\ name' = Drop(name, D, NoNick) /\ status' = Drop(status, D, "free")
        /\ hist' = After(D) /\ CurrentTime' = CurrentTime
    BY <1>6 DEF NickTooFast
  <2> HIDE DEF D
  <2> QED BY <1>1, <2>1, OthersStay, TopExits
<1>7. CASE IntroduceGhost(c, n)
  <2> DEFINE E == Find(n)
             h == After(E)
  <2>1. /\ name' = Drop(name, E, NoNick) /\ status' = Drop(status, E, "free")
        /\ hist' = AddHistory(h, c, n, FALSE, CurrentTime) /\ CurrentTime' = CurrentTime
    BY <1>7 DEF IntroduceGhost, ExitOnly
  <2>2. Filed(h, E) /\ h \in History /\ HistoryOf(h, Persons \ E) /\ CurrentTime \in Nat
    BY FreeFiled DEF IInv, TypeOK
  <2> HIDE DEF D, E, h
  <2>3. Ordered(hist', CurrentTime)
    BY <2>1, <2>2, AddHistoryOrdered DEF Filed
  <2>4. ASSUME NEW m \in Nicks
        PROVE  Top(hist', m) \subseteq IF m = n THEN {NoClient} ELSE Top(h, m)
    <3>1. Top(hist', m) \subseteq IF m = n THEN {IF FALSE THEN c ELSE NoClient}
                                  ELSE Top(h, m)
      BY <2>1, <2>2, AddHistoryTop
    <3> QED BY <3>1
  <2>5. Filed(hist', E)
    BY <2>2, <2>3, <2>4 DEF Filed
  <2> QED BY <2>1, <2>5, OthersStay, TopExits
<1> HIDE DEF D
<1> QED BY <1>2, <1>3, <1>4, <1>5, <1>6, <1>7

\* The parts of NICK from the uplink.
LEMMA TopIntroduced ==
  ASSUME IInv, Ordered(hist, CurrentTime), NEW c \in Clients \ Persons, NEW n, NEW ts,
         NEW D \in SUBSET Clients, \A x, y \in D : x = y, Introduced(c, n, ts, D)
  PROVE  TopStep
<1>1. /\ name' = [Drop(name, D, NoNick) EXCEPT ![c] = n]
      /\ status' = [Drop(status, D, "free") EXCEPT ![c] = "client"]
      /\ hist' = After(D) /\ CurrentTime' = CurrentTime
  BY DEF Introduced, Take
<1>2. Filed(After(D), D)
  BY AfterFiled
<1> QED BY <1>1, <1>2, OthersStay, TopExits

LEMMA TopChanged ==
  ASSUME IInv, Ordered(hist, CurrentTime), NEW c \in Persons, NEW n, NEW ts,
         NEW D \in SUBSET Clients, \A x, y \in D : x = y, c \notin D, Changed(c, n, ts, D)
  PROVE  TopStep
<1>1. /\ c \in Persons \ D /\ name' = [Drop(name, D, NoNick) EXCEPT ![c] = n]
      /\ status' = Drop(status, D, "free")
      /\ hist' = AddHistory(After(D), c, name[c], TRUE, CurrentTime)
      /\ CurrentTime' = CurrentTime
  BY DEF Changed, Take
<1>2. Filed(After(D), D) /\ After(D) \in History /\ HistoryOf(After(D), Persons \ D)
  BY AfterFiled, AfterCorrect
<1>3. /\ c \in Persons'
      /\ \A x \in Persons : x \notin D /\ x # c => x \in Persons' /\ name'[x] = name[x]
  BY <1>1, ChangerStays
<1> QED BY <1>1, <1>2, <1>3, TopChange

\* One client exits.
LEMMA TopExit ==
  ASSUME IInv, Ordered(hist, CurrentTime), NEW c \in Clients, ExitOnly({c}),
         hist' = Exit(hist, c), CurrentTime' = CurrentTime
  PROVE  TopStep
<1>1. hist \in History /\ HistoryOf(hist, Persons) /\ Persons \in SUBSET Clients
  BY DEF IInv, TypeOK, HistoryAgrees, Persons
<1>2. Filed(hist, {})
  BY DEF Filed
<1>3. Filed(hist', {} \cup {c}) /\ {} \cup {c} = {c}
  BY <1>1, <1>2, ExitFiled
<1>4. name' = Drop(name, {c}, NoNick) /\ status' = Drop(status, {c}, "free")
  BY DEF ExitOnly
<1> QED BY <1>3, <1>4, OthersStay, TopExits

LEMMA TopRemote ==
  ASSUME IInv, Ordered(hist, CurrentTime), NEW c \in Clients, NEW n \in Nicks,
         NEW ts \in Nat, Introduce(c, n, ts) \/ NickRemote(c, n, ts)
  PROVE  TopStep
<1>1. Find(n) \in SUBSET Clients /\ \A x, y \in Find(n) : x = y
  BY FindHolders, OneHolder DEF IInv
<1>2. CASE Introduce(c, n, ts)
  <2>1. c \in Clients \ Persons
    BY <1>2 DEF Introduce, InUse, Persons
  <2>2. CASE Introduced(c, n, ts, Find(n))
    BY <1>1, <2>1, <2>2, TopIntroduced
  <2>3. ASSUME NEW d \in Find(n), ExitOnly({d}), hist' = Exit(hist, d),
               UNCHANGED <<CurrentTime, crashed>>
        PROVE  TopStep
    BY <1>1, <2>3, TopExit
  <2>4. ASSUME NEW d \in Find(n), Introduced(c, n, ts, {d})
        PROVE  TopStep
    BY <1>1, <2>1, <2>4, TopIntroduced
  <2> QED BY <1>2, <2>2, <2>3, <2>4 DEF Introduce
<1>3. CASE NickRemote(c, n, ts)
  <2>1. c \in Persons
    BY <1>3 DEF NickRemote
  <2>2. CASE Changed(c, n, ts, Find(n) \ {c})
    <3> DEFINE D == Find(n) \ {c}
    <3>1. D \in SUBSET Clients /\ (\A x, y \in D : x = y) /\ c \notin D
          /\ Changed(c, n, ts, D)
      BY <1>1, <2>2
    <3> HIDE DEF D
    <3> QED BY <2>1, <3>1, TopChanged
  <2>3. ASSUME NEW d \in Find(n) \ {c}, ExitOnly({c, d}),
               hist' = Exit(Exit(hist, d), c), UNCHANGED <<CurrentTime, crashed>>
        PROVE  TopStep
    <3> DEFINE h == Exit(hist, d)
    <3>1. d \in Clients /\ h \in History /\ HistoryOf(h, Persons \ {d})
      BY CollidesAlone
    <3>2. Persons \ {d} \in SUBSET Clients
          /\ hist \in History /\ HistoryOf(hist, Persons) /\ Persons \in SUBSET Clients
      BY DEF Persons, IInv, TypeOK, HistoryAgrees
    <3>3. Filed(hist, {})
      BY DEF Filed
    <3>4. Filed(h, {} \cup {d})
      BY <3>1, <3>2, <3>3, ExitFiled
    <3> HIDE DEF h
    <3>5. Filed(Exit(h, c), ({} \cup {d}) \cup {c})
      BY <3>1, <3>2, <3>4, ExitFiled
    <3>6. ({} \cup {d}) \cup {c} = {c, d} /\ hist' = Exit(h, c)
      BY <2>3 DEF h
    <3>7. name' = Drop(name, {c, d}, NoNick) /\ status' = Drop(status, {c, d}, "free")
      BY <2>3 DEF ExitOnly
    <3> QED BY <2>3, <3>5, <3>6, <3>7, OthersStay, TopExits
  <2>4. CASE ExitOnly({c}) /\ hist' = Exit(hist, c) /\ UNCHANGED <<CurrentTime, crashed>>
    BY <2>4, TopExit
  <2>5. ASSUME NEW d \in Find(n) \ {c}, Changed(c, n, ts, {d})
        PROVE  TopStep
    BY <1>1, <2>1, <2>5, TopChanged
  <2> QED BY <1>3, <2>2, <2>3, <2>4, <2>5 DEF NickRemote
<1> QED BY <1>2, <1>3

LEMMA NextTop ==
  ASSUME IInv, Ordered(hist, CurrentTime), [Next]_vars PROVE TopStep
<1>1. 0 .. MaxTS \subseteq Nat /\ TypeOK
  BY NicksAssumption DEF IInv
<1>2. CASE Tick
  <2>1. hist' = hist /\ CurrentTime' = CurrentTime + 1 /\ CurrentTime \in Nat
        /\ name' = name /\ Persons' = Persons
    BY <1>1, <1>2 DEF Tick, TypeOK, Persons
  <2> QED BY <1>1, <2>1, TopQuiet
<1>3. ASSUME hist' = hist, CurrentTime' = CurrentTime, name' = name, Persons \subseteq Persons'
      PROVE  TopStep
  <2>1. CurrentTime' \in Nat /\ CurrentTime <= CurrentTime'
    BY <1>1, <1>3 DEF TypeOK
  <2> QED BY <1>1, <1>3, <2>1, TopQuiet
<1>4. CASE UNCHANGED vars
  BY <1>3, <1>4 DEF vars, Persons
<1>5. ASSUME NEW c \in Clients, Accept(c) \/ UserFirst(c) \/ Register(c)
      PROVE  TopStep
  <2>1. hist' = hist /\ CurrentTime' = CurrentTime /\ name' = name
    BY <1>5 DEF Accept, UserFirst, Register
  <2>2. Persons \subseteq Persons'
    BY <1>1, <1>5 DEF Accept, UserFirst, Register, Persons, InUse, Unknowns, TypeOK
  <2> QED BY <1>3, <2>1, <2>2
<1>6. ASSUME NEW c \in Clients, Quit(c) PROVE TopStep
  BY <1>6, TopExit DEF Quit
<1>7. ASSUME NEW n \in Nicks, Kill(n) PROVE TopStep
  <2>1. PICK c \in Chase(n) : ExitOnly({c}) /\ hist' = Exit(hist, c)
    BY <1>7 DEF Kill
  <2>2. c \in Clients
    <3>1. Persons \in SUBSET Clients /\ hist \in History /\ HistoryOf(hist, Persons)
          /\ CurrentTime \in Nat
      BY DEF Persons, IInv, TypeOK, HistoryAgrees
    <3>2. GetHistory(hist, n, CurrentTime) \in Persons \cup {NoClient}
      BY <3>1, GetHistoryFindsPerson
    <3> QED BY <2>1, <3>1, <3>2, FindHolders DEF Chase, IInv
  <2> QED BY <1>7, <2>1, <2>2, TopExit DEF Kill
<1>8. ASSUME NEW n \in Nicks, FNick(n) PROVE TopStep
  BY <1>3, <1>8 DEF FNick, Persons
<1> QED BY <1>1, <1>2, <1>4, <1>5, <1>6, <1>7, <1>8, TopLocal, TopRemote DEF Next

-----------------------------------------------------------------------------
(* The theorems.                                                           *)

LEMMA Invariance == Spec => []IInv
  BY InitIInv, NextKeeps, PTL DEF Spec

\* Clients have nicks and timestamps, and the ring of the history is written
\* inside its bounds.
THEOREM TypeCorrect == Spec => []TypeOK
<1>1. IInv => TypeOK
  BY DEF IInv
<1> QED BY <1>1, Invariance, PTL

\* Whatever is collided, killed, rejected or changed, a client is in clientTable
\* under its nick and nowhere else, and nobody registered has none.
THEOREM TableCorrect == Spec => []TableAgrees
<1>1. IInv => TableAgrees
  BY DEF IInv
<1> QED BY <1>1, Invariance, PTL

\* No two clients have one nick, on either side of the link.
THEOREM NickUniqueCorrect == Spec => []NickUnique
<1>1. IInv => NickUnique
  BY DEF IInv
<1> QED BY <1>1, Invariance, PTL

\* The history never points to the record of somebody who has gone: exit_client
\* takes it off after it has filed the last nick.
THEOREM HistoryCorrect == Spec => []HistoryAgrees
<1>1. IInv => HistoryAgrees
  BY DEF IInv
<1> QED BY <1>1, Invariance, PTL

\* Where changes of nick are not counted, the uplink has the nick and the timestamp
\* of every registered client of this server, however it came by them
\* (nickkilldone, register_user).
THEOREM UplinkCorrect ==
  ASSUME ~ANTI_NICK_FLOOD PROVE Spec => []UplinkKnows
<1>1. Init => UplinkKnows
  BY DEF Init, UplinkKnows, Persons
<1>2. IInv /\ UplinkKnows /\ [Next]_vars => UplinkKnows'
  BY UplinkKnowsKeeps
<1> QED BY <1>1, <1>2, Invariance, PTL DEF Spec
=============================================================================
