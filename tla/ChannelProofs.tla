---------------------------- MODULE ChannelProofs ----------------------------
(***************************************************************************)
(* The invariants of Channel, for any number of clients and channels.      *)
(***************************************************************************)
EXTENDS Channel, FiniteSetTheorems, TLAPS

\* The inductive invariant.  The counters are needed for the lists: a channel
\* is freed when its counter says so, and a freed channel must have no members.
IInv == TypeOK /\ LinksAgree /\ CountersAgree /\ InvitesAgree

-----------------------------------------------------------------------------
(* Cardinalities.                                                          *)

\* Adding elements that are not there and removing elements that are there
\* moves a counter by the number of elements.
LEMMA CardUnion ==
  ASSUME NEW S, NEW T, IsFiniteSet(S), IsFiniteSet(T), S \cap T = {}
  PROVE  /\ IsFiniteSet(S \cup T)
         /\ Cardinality(S \cup T) = Cardinality(S) + Cardinality(T)
         /\ Cardinality(S) \in Nat /\ Cardinality(T) \in Nat
BY FS_Union, FS_EmptySet, FS_CardinalityType

LEMMA CardMinus ==
  ASSUME NEW S, NEW T, IsFiniteSet(S), T \subseteq S
  PROVE  /\ IsFiniteSet(S \ T) /\ IsFiniteSet(T)
         /\ Cardinality(S \ T) = Cardinality(S) - Cardinality(T)
         /\ Cardinality(S) \in Nat /\ Cardinality(T) \in Nat
<1>1. IsFiniteSet(T)
  BY FS_Subset
<1>2. S \cap T = T
  OBVIOUS
<1>3. Cardinality(S \ T) = Cardinality(S) - Cardinality(S \cap T) /\ IsFiniteSet(S \ T)
  BY FS_Difference
<1> QED
  BY <1>1, <1>2, <1>3, FS_CardinalityType

\* The sets that the counters count are finite.
LEMMA Finite ==
  ASSUME TypeOK
  PROVE  /\ \A c \in Channels : IsFiniteSet(members[c])
         /\ \A u \in Users : IsFiniteSet(chans[u]) /\ chans[u] \subseteq Channels
         /\ \A c \in Channels : IsFiniteSet(banlist[c])
         /\ IsFiniteSet(exists)
         /\ \A C \in SUBSET Channels : IsFiniteSet(C) /\ Cardinality(C) \in Nat
         /\ \A U \in SUBSET Users : IsFiniteSet(U) /\ Cardinality(U) \in Nat
<1>1. \A C \in SUBSET Channels : IsFiniteSet(C) /\ Cardinality(C) \in Nat
  BY UsersAssumption, FS_Subset, FS_CardinalityType
<1>2. \A U \in SUBSET Users : IsFiniteSet(U) /\ Cardinality(U) \in Nat
  BY UsersAssumption, FS_Subset, FS_CardinalityType
<1>3. \A M \in SUBSET Masks : IsFiniteSet(M)
  BY MasksAssumption, FS_Subset
<1> QED
  BY <1>1, <1>2, <1>3 DEF TypeOK

-----------------------------------------------------------------------------
(* The shared operations.                                                  *)

\* What AddUsers does to the lists and to the counters.
LEMMA AddUsersKeeps ==
  ASSUME IInv, NEW c \in Channels, NEW U \in SUBSET Users,
         U \cap members[c] = {}, AddUsers(c, U)
  PROVE  /\ members' \in [Channels -> SUBSET Users]
         /\ users' \in [Channels -> Nat]
         /\ chans' \in [Users -> SUBSET Channels]
         /\ joined' \in [Users -> Int]
         /\ \A d \in Channels, u \in Users : u \in members'[d] <=> d \in chans'[u]
         /\ \A d \in Channels : users'[d] = Cardinality(members'[d])
         /\ \A u \in Users : joined'[u] = Cardinality(chans'[u])
         /\ \A d \in Channels : members[d] \subseteq members'[d]
         /\ \A d \in Channels : d # c => members'[d] = members[d]
         /\ members'[c] = members[c] \cup U
         /\ \A u \in Users : u \notin U => chans'[u] = chans[u]
<1>1. /\ members \in [Channels -> SUBSET Users] /\ users \in [Channels -> Nat]
      /\ chans \in [Users -> SUBSET Channels] /\ joined \in [Users -> Int]
      /\ \A d \in Channels, u \in Users : u \in members[d] <=> d \in chans[u]
      /\ \A d \in Channels : users[d] = Cardinality(members[d])
      /\ \A u \in Users : joined[u] = Cardinality(chans[u])
  BY DEF IInv, TypeOK, LinksAgree, CountersAgree
<1>2. /\ \A d \in Channels : IsFiniteSet(members[d])
      /\ \A u \in Users : IsFiniteSet(chans[u])
      /\ IsFiniteSet(U) /\ Cardinality(U) \in Nat
  BY Finite DEF IInv
<1>3. /\ members' = [members EXCEPT ![c] = @ \cup U]
      /\ users' = [users EXCEPT ![c] = @ + Cardinality(U)]
      /\ chans' = [u \in Users |-> IF u \in U THEN chans[u] \cup {c} ELSE chans[u]]
      /\ joined' = [u \in Users |-> IF u \in U THEN joined[u] + 1 ELSE joined[u]]
  BY DEF AddUsers
<1>4. Cardinality(members[c] \cup U) = Cardinality(members[c]) + Cardinality(U)
  BY <1>2, CardUnion
<1>5. \A u \in U : c \notin chans[u]
  BY <1>1
<1>6. \A u \in U : Cardinality(chans[u] \cup {c}) = Cardinality(chans[u]) + 1
  BY <1>2, <1>5, FS_AddElement
<1>7. /\ members' \in [Channels -> SUBSET Users] /\ users' \in [Channels -> Nat]
      /\ chans' \in [Users -> SUBSET Channels] /\ joined' \in [Users -> Int]
  BY <1>1, <1>2, <1>3
<1>8. \A d \in Channels, u \in Users : u \in members'[d] <=> d \in chans'[u]
  BY <1>1, <1>3
<1>9. \A d \in Channels : users'[d] = Cardinality(members'[d])
  BY <1>1, <1>3, <1>4
<1>10. \A u \in Users : joined'[u] = Cardinality(chans'[u])
  BY <1>1, <1>3, <1>6
<1>11. \A d \in Channels : (d # c => members'[d] = members[d]) /\ members[d] \subseteq members'[d]
  BY <1>1, <1>3
<1>12. members'[c] = members[c] \cup U /\ \A u \in Users : u \notin U => chans'[u] = chans[u]
  BY <1>1, <1>3
<1> QED
  BY <1>7, <1>8, <1>9, <1>10, <1>11, <1>12

\* What RemoveUser does, for channels that the client is on: the channels that
\* it empties are those of which it was the only member.
LEMMA RemoveUserKeeps ==
  ASSUME IInv, NEW u \in Users, NEW C \in SUBSET chans[u], RemoveUser(u, C)
  PROVE  /\ members' \in [Channels -> SUBSET Users]
         /\ users' \in [Channels -> Nat]
         /\ flags' \in [Channels -> [Users -> SUBSET Flags]]
         /\ chans' \in [Users -> SUBSET Channels]
         /\ joined' \in [Users -> Int]
         /\ \A d \in Channels, v \in Users : v \in members'[d] <=> d \in chans'[v]
         /\ \A d \in Channels : users'[d] = Cardinality(members'[d])
         /\ \A v \in Users : joined'[v] = Cardinality(chans'[v])
         /\ \A d \in Channels : d \notin C => members'[d] = members[d]
         /\ \A d \in C : members'[d] = members[d] \ {u}
         /\ \A d \in C : d \in Emptied(C) <=> members'[d] = {}
         /\ chans'[u] = chans[u] \ C
         /\ \A v \in Users : v # u => chans'[v] = chans[v]
<1>1. /\ members \in [Channels -> SUBSET Users] /\ users \in [Channels -> Nat]
      /\ chans \in [Users -> SUBSET Channels] /\ joined \in [Users -> Int]
      /\ \A d \in Channels, v \in Users : v \in members[d] <=> d \in chans[v]
      /\ \A d \in Channels : users[d] = Cardinality(members[d])
      /\ \A v \in Users : joined[v] = Cardinality(chans[v])
      /\ flags \in [Channels -> [Users -> SUBSET Flags]]
  BY DEF IInv, TypeOK, LinksAgree, CountersAgree
<1>2. /\ \A d \in Channels : IsFiniteSet(members[d])
      /\ \A v \in Users : IsFiniteSet(chans[v])
      /\ IsFiniteSet(C) /\ Cardinality(C) \in Nat
  <2>1. C \in SUBSET Channels
    BY <1>1
  <2> QED
    BY Finite, <2>1 DEF IInv
<1>3. \A d \in C : d \in Channels /\ u \in members[d]
  BY <1>1
<1>4. \A d \in C : /\ Cardinality(members[d] \ {u}) = users[d] - 1
                   /\ users[d] - 1 \in Nat
                   /\ (users[d] - 1 = 0 <=> members[d] \ {u} = {})
  <2> TAKE d \in C
  <2>1. Cardinality(members[d] \ {u}) = Cardinality(members[d]) - 1 /\ IsFiniteSet(members[d] \ {u})
    BY <1>2, <1>3, FS_RemoveElement
  <2>2. Cardinality(members[d] \ {u}) \in Nat /\ (Cardinality(members[d] \ {u}) = 0 <=> members[d] \ {u} = {})
    BY <2>1, FS_CardinalityType, FS_EmptySet
  <2>3. users[d] = Cardinality(members[d])
    BY <1>1, <1>3
  <2> QED
    BY <2>1, <2>2, <2>3
<1>5. Cardinality(chans[u] \ C) = joined[u] - Cardinality(C)
  <2>1. C \subseteq chans[u] /\ IsFiniteSet(chans[u])
    BY <1>2
  <2>2. Cardinality(chans[u] \ C) = Cardinality(chans[u]) - Cardinality(C)
    BY <2>1, CardMinus
  <2> QED
    BY <1>1, <2>2
<1>6. /\ members' = [d \in Channels |-> IF d \in C THEN members[d] \ {u} ELSE members[d]]
      /\ users' = [d \in Channels |-> IF d \in C THEN OneLess(users[d]) ELSE users[d]]
      /\ flags' = [d \in Channels |-> IF d \in C THEN [flags[d] EXCEPT ![u] = {}] ELSE flags[d]]
      /\ chans' = [chans EXCEPT ![u] = @ \ C]
      /\ joined' = [joined EXCEPT ![u] = @ - Cardinality(C)]
  BY DEF RemoveUser, Sub1
<1>7. \A d \in C : OneLess(users[d]) = users[d] - 1
  <2> TAKE d \in C
  <2>1. users[d] \in Nat /\ users[d] - 1 \in Nat
    BY <1>1, <1>3, <1>4
  <2>2. OneLess(users[d]) = IF users[d] - 1 <= 0 THEN 0 ELSE users[d] - 1
    BY DEF OneLess
  <2> QED
    BY <2>1, <2>2
<1>8. /\ members' \in [Channels -> SUBSET Users]
      /\ chans' \in [Users -> SUBSET Channels]
      /\ \A d \in Channels, v \in Users : v \in members'[d] <=> d \in chans'[v]
  BY <1>1, <1>3, <1>6
<1>9. /\ users' \in [Channels -> Nat]
      /\ \A d \in Channels : users'[d] = Cardinality(members'[d])
  <2>1. \A d \in C : OneLess(users[d]) \in Nat /\ OneLess(users[d]) = Cardinality(members[d] \ {u})
    BY <1>4, <1>7
  <2>2. \A d \in Channels : /\ users'[d] = IF d \in C THEN OneLess(users[d]) ELSE users[d]
                            /\ members'[d] = IF d \in C THEN members[d] \ {u} ELSE members[d]
    BY <1>6
  <2> QED
    BY <1>1, <1>6, <2>1, <2>2
<1>10. /\ joined' \in [Users -> Int]
       /\ \A v \in Users : joined'[v] = Cardinality(chans'[v])
  BY <1>1, <1>2, <1>5, <1>6
<1>11. flags' \in [Channels -> [Users -> SUBSET Flags]]
  BY <1>1, <1>6
<1>12. \A d \in C : d \in Emptied(C) <=> members'[d] = {}
  <2> TAKE d \in C
  <2>1. d \in Emptied(C) <=> users[d] - 1 <= 0
    BY DEF Emptied
  <2>2. users[d] \in Nat /\ users[d] - 1 \in Nat /\ (users[d] - 1 = 0 <=> members[d] \ {u} = {})
    BY <1>1, <1>3, <1>4
  <2>3. members'[d] = members[d] \ {u}
    BY <1>3, <1>6
  <2> QED
    BY <2>1, <2>2, <2>3
<1>13. /\ \A d \in Channels : d \notin C => members'[d] = members[d]
       /\ \A d \in C : members'[d] = members[d] \ {u}
       /\ chans'[u] = chans[u] \ C
       /\ \A v \in Users : v # u => chans'[v] = chans[v]
  BY <1>1, <1>3, <1>6
<1> QED
  BY <1>8, <1>9, <1>10, <1>11, <1>12, <1>13

\* What Free does, for channels in the table.
LEMMA FreeKeeps ==
  ASSUME IInv, NEW C \in SUBSET exists, Free(C)
  PROVE  /\ exists' = exists \ C
         /\ exists' \subseteq Channels /\ chanCount' \in Int
         /\ chanCount' = Cardinality(exists')
         /\ mode' \in [Channels -> SUBSET Letters]
         /\ limit' \in [Channels -> Nat] /\ key' \in [Channels -> Nat]
         /\ banlist' \in [Channels -> SUBSET Masks]
         /\ num_bed' \in [Channels -> Nat]
         /\ channelts' \in [Channels -> Nat]
         /\ \A c \in Channels : num_bed'[c] = Cardinality(banlist'[c])
<1>1. /\ exists \subseteq Channels /\ chanCount = Cardinality(exists)
      /\ mode \in [Channels -> SUBSET Letters]
      /\ limit \in [Channels -> Nat] /\ key \in [Channels -> Nat]
      /\ banlist \in [Channels -> SUBSET Masks] /\ num_bed \in [Channels -> Nat]
      /\ channelts \in [Channels -> Nat]
      /\ \A c \in Channels : num_bed[c] = Cardinality(banlist[c])
  BY DEF IInv, TypeOK, CountersAgree
<1>2. IsFiniteSet(exists)
  BY Finite DEF IInv
<1>3. Cardinality(exists \ C) = chanCount - Cardinality(C) /\ chanCount - Cardinality(C) \in Int
  <2>1. C \subseteq exists
    OBVIOUS
  <2>2. /\ Cardinality(exists \ C) = Cardinality(exists) - Cardinality(C)
        /\ Cardinality(exists) \in Nat /\ Cardinality(C) \in Nat
    BY <1>2, <2>1, CardMinus
  <2> QED
    BY <1>1, <2>2
<1>4. Cardinality({}) = 0
  BY FS_EmptySet
<1>5. /\ banlist' = [c \in Channels |-> IF c \in C THEN {} ELSE banlist[c]]
      /\ num_bed' = [c \in Channels |-> IF c \in C THEN 0 ELSE num_bed[c]]
  BY DEF Free
<1>6. \A c \in Channels : num_bed'[c] = Cardinality(banlist'[c])
  BY <1>1, <1>4, <1>5
<1>7. /\ mode' = [c \in Channels |-> IF c \in C THEN {} ELSE mode[c]]
      /\ limit' = [c \in Channels |-> IF c \in C THEN 0 ELSE limit[c]]
      /\ key' = [c \in Channels |-> IF c \in C THEN 0 ELSE key[c]]
      /\ channelts' = [c \in Channels |-> IF c \in C THEN 0 ELSE channelts[c]]
      /\ exists' = exists \ C /\ chanCount' = chanCount - Cardinality(C)
  BY DEF Free
<1> QED
  BY <1>1, <1>3, <1>5, <1>6, <1>7

\* What Create does.
LEMMA CreateKeeps ==
  ASSUME IInv, NEW c \in Channels, Create(c)
  PROVE  /\ exists' = exists \cup {c}
         /\ exists' \subseteq Channels /\ chanCount' \in Int
         /\ chanCount' = Cardinality(exists')
<1>1. exists \subseteq Channels /\ chanCount = Cardinality(exists) /\ chanCount \in Int
  BY DEF IInv, TypeOK, CountersAgree
<1>2. IsFiniteSet(exists)
  BY Finite DEF IInv
<1>3. CASE c \in exists
  <2>1. exists \cup {c} = exists
    BY <1>3
  <2> QED
    BY <1>1, <1>3, <2>1 DEF Create
<1>4. CASE c \notin exists
  <2>1. Cardinality(exists \cup {c}) = Cardinality(exists) + 1
    BY <1>2, <1>4, FS_AddElement
  <2> QED
    BY <1>1, <1>4, <2>1 DEF Create
<1> QED
  BY <1>3, <1>4

\* DelInvites keeps the two lists of an invitation in step.
LEMMA DelInvitesKeeps ==
  ASSUME IInv, NEW U \in SUBSET Users, NEW C \in SUBSET Channels, DelInvites(U, C)
  PROVE  /\ invites' \in [Channels -> SUBSET Users]
         /\ invited' \in [Users -> SUBSET Channels]
         /\ \A c \in Channels, u \in Users : u \in invites'[c] <=> c \in invited'[u]
         /\ \A c \in Channels : invites'[c] \subseteq invites[c]
         /\ \A u \in Users : invited'[u] \subseteq invited[u]
         /\ U = Users => \A c \in C : invites'[c] = {}
BY DEF IInv, TypeOK, InvitesAgree, DelInvites

-----------------------------------------------------------------------------
(* Every step keeps the invariant.                                         *)

LEMMA InitIInv == Init => IInv
<1> SUFFICES ASSUME Init PROVE IInv
  OBVIOUS
<1>1. Cardinality({}) = 0
  BY FS_EmptySet
<1>2. TypeOK
  BY DEF Init, TypeOK
<1>3. LinksAgree /\ InvitesAgree
  BY DEF Init, LinksAgree, InvitesAgree
<1>4. CountersAgree
  BY <1>1 DEF Init, CountersAgree
<1> QED
  BY <1>2, <1>3, <1>4 DEF IInv

\* A client leaves channels, and with each that it empties the invitations go.
LEMMA LeavingKeeps ==
  ASSUME IInv, NEW u \in Users, NEW C \in SUBSET chans[u], RemoveUser(u, C),
         CurrentTime' = CurrentTime,
         \/ online' = online
         \/ online' = online \ {u} /\ C = chans[u] /\ invited'[u] = {},
         invites' \in [Channels -> SUBSET Users],
         invited' \in [Users -> SUBSET Channels],
         \A c \in Channels, v \in Users : v \in invites'[c] <=> c \in invited'[v],
         \A c \in Channels : invites'[c] \subseteq invites[c],
         \A v \in Users : invited'[v] \subseteq invited[v],
         \A c \in Emptied(C) : invites'[c] = {}
  PROVE  IInv'
<1>1. /\ C \subseteq Channels
      /\ Freed(C) \subseteq exists
      /\ Free(Freed(C)) /\ juped' = juped
  <2>1. C \subseteq Channels
    BY DEF IInv, TypeOK
  <2>2. \A c \in C : c \in exists
    BY <2>1 DEF IInv, LinksAgree
  <2> QED
    BY <2>1, <2>2 DEF Freed, Emptied, RemoveUser, Sub1
<1>2. /\ members' \in [Channels -> SUBSET Users]
      /\ users' \in [Channels -> Nat]
      /\ flags' \in [Channels -> [Users -> SUBSET Flags]]
      /\ chans' \in [Users -> SUBSET Channels]
      /\ joined' \in [Users -> Int]
      /\ \A d \in Channels, v \in Users : v \in members'[d] <=> d \in chans'[v]
      /\ \A d \in Channels : users'[d] = Cardinality(members'[d])
      /\ \A v \in Users : joined'[v] = Cardinality(chans'[v])
      /\ \A d \in Channels : d \notin C => members'[d] = members[d]
      /\ \A d \in C : members'[d] = members[d] \ {u}
      /\ \A d \in C : d \in Emptied(C) <=> members'[d] = {}
      /\ chans'[u] = chans[u] \ C
      /\ \A v \in Users : v # u => chans'[v] = chans[v]
  BY RemoveUserKeeps
<1>3. /\ exists' = exists \ Freed(C)
      /\ exists' \subseteq Channels /\ chanCount' \in Int
      /\ chanCount' = Cardinality(exists')
      /\ mode' \in [Channels -> SUBSET Letters]
      /\ limit' \in [Channels -> Nat] /\ key' \in [Channels -> Nat]
      /\ banlist' \in [Channels -> SUBSET Masks]
      /\ num_bed' \in [Channels -> Nat]
      /\ channelts' \in [Channels -> Nat]
      /\ \A c \in Channels : num_bed'[c] = Cardinality(banlist'[c])
  BY <1>1, FreeKeeps
<1>4. TypeOK'
  <2>1. CurrentTime' \in Nat /\ online' \subseteq Users /\ juped' \in [Channels -> BOOLEAN]
    BY <1>1 DEF IInv, TypeOK
  <2> QED
    BY <1>2, <1>3, <2>1 DEF TypeOK
<1>5. LinksAgree'
  <2>1. ASSUME NEW c \in Channels, members'[c] # {} PROVE c \in exists'
    <3>1. members[c] # {}
      BY <1>2, <2>1
    <3>2. c \in exists
      BY <3>1 DEF IInv, LinksAgree
    <3>3. c \notin Freed(C)
      BY <1>2, <2>1 DEF Freed, Emptied
    <3> QED
      BY <1>3, <3>2, <3>3
  <2>2. ASSUME NEW v \in Users, chans'[v] # {} PROVE v \in online'
    <3>1. chans[v] # {}
      BY <1>2, <2>2
    <3>2. v \in online
      BY <3>1 DEF IInv, LinksAgree
    <3> QED
      BY <1>2, <2>2, <3>2
  <2> QED
    BY <1>2, <2>1, <2>2 DEF LinksAgree
<1>6. CountersAgree'
  BY <1>2, <1>3 DEF CountersAgree
<1>7. InvitesAgree'
  <2>1. ASSUME NEW c \in Channels, invites'[c] # {} PROVE members'[c] # {}
    <3>1. members[c] # {}
      BY <2>1 DEF IInv, InvitesAgree
    <3>2. c \notin Emptied(C)
      BY <2>1
    <3> QED
      BY <1>2, <3>1, <3>2
  <2>2. ASSUME NEW v \in Users, invited'[v] # {} PROVE v \in online' \cap Locals
    <3>1. v \in online \cap Locals
      BY <2>2 DEF IInv, InvitesAgree
    <3> QED
      BY <2>2, <3>1
  <2> QED
    BY <2>1, <2>2 DEF InvitesAgree
<1> QED
  BY <1>4, <1>5, <1>6, <1>7 DEF IInv

\* PART, JOIN 0 and KICK.
LEMMA LeaveKeeps ==
  ASSUME IInv, NEW u \in Users, NEW C \in SUBSET chans[u], Leave(u, C)
  PROVE  IInv'
<1>1. Emptied(C) \in SUBSET Channels
  BY DEF IInv, TypeOK, Emptied
<1>2. /\ RemoveUser(u, C) /\ DelInvites(Users, Emptied(C))
      /\ CurrentTime' = CurrentTime /\ online' = online
  BY DEF Leave, envVars
<1>3. /\ invites' \in [Channels -> SUBSET Users]
      /\ invited' \in [Users -> SUBSET Channels]
      /\ \A c \in Channels, v \in Users : v \in invites'[c] <=> c \in invited'[v]
      /\ \A c \in Channels : invites'[c] \subseteq invites[c]
      /\ \A v \in Users : invited'[v] \subseteq invited[v]
      /\ \A c \in Emptied(C) : invites'[c] = {}
  BY <1>1, <1>2, DelInvitesKeeps
<1> QED
  BY <1>2, <1>3, LeavingKeeps

LEMMA ExitClientKeeps ==
  ASSUME IInv, NEW u \in Users, ExitClient(u)
  PROVE  IInv'
<1> DEFINE E == Emptied(chans[u])
<1>1. E \in SUBSET Channels
  BY DEF IInv, TypeOK, Emptied
<1>2. /\ RemoveUser(u, chans[u]) /\ CurrentTime' = CurrentTime
      /\ online' = online \ {u}
      /\ invites' = [c \in Channels |-> IF c \in E THEN {} ELSE invites[c] \ {u}]
      /\ invited' = [v \in Users |-> IF v = u THEN {} ELSE invited[v] \ E]
  BY DEF ExitClient
<1> HIDE DEF E
<1>3. /\ invites \in [Channels -> SUBSET Users]
      /\ invited \in [Users -> SUBSET Channels]
      /\ \A c \in Channels, v \in Users : v \in invites[c] <=> c \in invited[v]
  BY DEF IInv, TypeOK, InvitesAgree
<1>4. /\ invites' \in [Channels -> SUBSET Users]
      /\ invited' \in [Users -> SUBSET Channels]
      /\ \A c \in Channels, v \in Users : v \in invites'[c] <=> c \in invited'[v]
      /\ \A c \in Channels : invites'[c] \subseteq invites[c]
      /\ \A v \in Users : invited'[v] \subseteq invited[v]
      /\ \A c \in E : invites'[c] = {}
      /\ invited'[u] = {}
  BY <1>1, <1>2, <1>3
<1>5. \A c \in Emptied(chans[u]) : invites'[c] = {}
  BY <1>4 DEF E
<1> QED
  BY <1>2, <1>4, <1>5, LeavingKeeps

\* What the steps that add members have in common: the newcomers were not
\* members and are connected, and no invitation is added.
LEMMA EnteringKeeps ==
  ASSUME IInv, NEW c \in Channels, NEW U \in SUBSET online, U \cap members[c] = {},
         Create(c), AddUsers(c, U),
         flags' \in [Channels -> [Users -> SUBSET Flags]],
         mode' \in [Channels -> SUBSET Letters],
         limit' \in [Channels -> Nat], key' \in [Channels -> Nat],
         channelts' \in [Channels -> Nat],
         invites' \in [Channels -> SUBSET Users],
         invited' \in [Users -> SUBSET Channels],
         \A d \in Channels, v \in Users : v \in invites'[d] <=> d \in invited'[v],
         \A d \in Channels : invites'[d] \subseteq invites[d],
         \A v \in Users : invited'[v] \subseteq invited[v],
         UNCHANGED <<envVars, banVars, juped>>
  PROVE  IInv'
<1>1. U \in SUBSET Users
  BY DEF IInv, TypeOK
<1>2. /\ members' \in [Channels -> SUBSET Users]
      /\ users' \in [Channels -> Nat]
      /\ chans' \in [Users -> SUBSET Channels]
      /\ joined' \in [Users -> Int]
      /\ \A d \in Channels, u \in Users : u \in members'[d] <=> d \in chans'[u]
      /\ \A d \in Channels : users'[d] = Cardinality(members'[d])
      /\ \A u \in Users : joined'[u] = Cardinality(chans'[u])
      /\ \A d \in Channels : members[d] \subseteq members'[d]
      /\ \A d \in Channels : d # c => members'[d] = members[d]
      /\ \A u \in Users : u \notin U => chans'[u] = chans[u]
  BY <1>1, AddUsersKeeps
<1>3. /\ exists' = exists \cup {c}
      /\ exists' \subseteq Channels /\ chanCount' \in Int
      /\ chanCount' = Cardinality(exists')
  BY CreateKeeps
<1>4. /\ online' = online /\ CurrentTime' = CurrentTime /\ juped' = juped
      /\ banlist' = banlist /\ num_bed' = num_bed
  BY DEF envVars, banVars
<1>5. TypeOK'
  BY <1>2, <1>3, <1>4 DEF IInv, TypeOK
<1>6. LinksAgree'
  <2>1. \A d \in Channels : members'[d] # {} => d \in exists'
    BY <1>2, <1>3 DEF IInv, LinksAgree
  <2>2. \A u \in Users : chans'[u] # {} => u \in online'
    BY <1>2, <1>4 DEF IInv, LinksAgree
  <2> QED
    BY <1>2, <2>1, <2>2 DEF LinksAgree
<1>7. CountersAgree'
  BY <1>2, <1>3, <1>4 DEF IInv, CountersAgree
<1>8. InvitesAgree'
  <2>1. \A d \in Channels : invites'[d] # {} => members'[d] # {}
    <3>1. \A d \in Channels : invites[d] # {} => members[d] # {}
      BY DEF IInv, InvitesAgree
    <3>2. SUFFICES ASSUME NEW d \in Channels, invites'[d] # {}
                   PROVE  members'[d] # {}
      OBVIOUS
    <3>3. invites[d] # {} /\ members[d] \subseteq members'[d]
      BY <3>2, <1>2
    <3> QED BY <3>1, <3>3
  <2>2. \A u \in Users : invited'[u] # {} => u \in online' \cap Locals
    BY <1>4 DEF IInv, InvitesAgree
  <2> QED
    BY <2>1, <2>2 DEF InvitesAgree
<1> QED
  BY <1>5, <1>6, <1>7, <1>8 DEF IInv

\* JOIN of a local client, JOIN of a remote one, FJOIN and SJOIN are of that kind.
LEMMA JoinLocalKeeps ==
  ASSUME IInv, NEW u \in Users, NEW c \in Channels, NEW k \in 0..MaxKey,
         JoinLocal(u, c, k)
  PROVE  IInv'
<1>1. /\ {u} \in SUBSET online /\ {u} \cap members[c] = {}
      /\ Create(c) /\ AddUsers(c, {u})
      /\ UNCHANGED <<envVars, limit, key, banVars, juped>>
      /\ DelInvites({u}, {c})
  BY DEF JoinLocal, IsMember, IInv, LinksAgree, TypeOK
<1>2. flags' \in [Channels -> [Users -> SUBSET Flags]]
  <2>1. PICK f \in SUBSET Flags : flags' = [flags EXCEPT ![c][u] = f]
    BY DEF JoinLocal, Flags
  <2> QED
    BY <2>1 DEF IInv, TypeOK
<1>3. mode' \in [Channels -> SUBSET Letters] /\ channelts' \in [Channels -> Nat]
  BY DEF JoinLocal, IInv, TypeOK
<1>4. limit' \in [Channels -> Nat] /\ key' \in [Channels -> Nat]
  BY <1>1 DEF IInv, TypeOK
<1>5. {u} \in SUBSET Users /\ {c} \in SUBSET Channels
  OBVIOUS
<1>6. /\ invites' \in [Channels -> SUBSET Users]
      /\ invited' \in [Users -> SUBSET Channels]
      /\ \A d \in Channels, v \in Users : v \in invites'[d] <=> d \in invited'[v]
      /\ \A d \in Channels : invites'[d] \subseteq invites[d]
      /\ \A v \in Users : invited'[v] \subseteq invited[v]
  BY <1>1, <1>5, DelInvitesKeeps
<1>7. UNCHANGED <<envVars, banVars, juped>>
  BY <1>1
<1> QED
  BY <1>1, <1>2, <1>3, <1>4, <1>6, <1>7, EnteringKeeps

LEMMA SameInvites ==
  ASSUME IInv, UNCHANGED inviteVars
  PROVE  /\ invites' \in [Channels -> SUBSET Users]
         /\ invited' \in [Users -> SUBSET Channels]
         /\ \A d \in Channels, v \in Users : v \in invites'[d] <=> d \in invited'[v]
         /\ \A d \in Channels : invites'[d] \subseteq invites[d]
         /\ \A v \in Users : invited'[v] \subseteq invited[v]
BY DEF IInv, TypeOK, InvitesAgree, inviteVars

LEMMA JoinRemoteKeeps ==
  ASSUME IInv, NEW u \in Users, NEW c \in Channels, JoinRemote(u, c)
  PROVE  IInv'
<1>1. /\ {u} \in SUBSET online /\ {u} \cap members[c] = {}
      /\ Create(c) /\ AddUsers(c, {u})
      /\ UNCHANGED <<envVars, inviteVars, modeVars, banVars, juped>>
  BY DEF JoinRemote, IsMember, IInv, LinksAgree, TypeOK
<1>2. flags' \in [Channels -> [Users -> SUBSET Flags]]
  <2>1. PICK f \in SUBSET Flags : flags' = [flags EXCEPT ![c][u] = f]
    BY DEF JoinRemote, Flags
  <2> QED
    BY <2>1 DEF IInv, TypeOK
<1>3. channelts' \in [Channels -> Nat]
  BY DEF JoinRemote, IInv, TypeOK
<1>4. /\ mode' \in [Channels -> SUBSET Letters]
      /\ limit' \in [Channels -> Nat] /\ key' \in [Channels -> Nat]
  BY <1>1 DEF IInv, TypeOK, modeVars
<1>5. UNCHANGED <<envVars, banVars, juped>>
  BY <1>1
<1> QED
  BY <1>1, <1>2, <1>3, <1>4, <1>5, SameInvites, EnteringKeeps

LEMMA FJoinKeeps ==
  ASSUME IInv, NEW a \in Users, NEW u \in Users, NEW c \in Channels, FJoin(a, u, c)
  PROVE  IInv'
<1>1. /\ {u} \in SUBSET online /\ {u} \cap members[c] = {}
      /\ Create(c) /\ AddUsers(c, {u})
      /\ UNCHANGED <<envVars, inviteVars, modeVars, banVars, juped>>
  BY DEF FJoin, IsMember, IInv, LinksAgree, TypeOK
<1>2. flags' \in [Channels -> [Users -> SUBSET Flags]] /\ channelts' \in [Channels -> Nat]
  BY DEF FJoin, IInv, TypeOK
<1>3. /\ mode' \in [Channels -> SUBSET Letters]
      /\ limit' \in [Channels -> Nat] /\ key' \in [Channels -> Nat]
  BY <1>1 DEF IInv, TypeOK, modeVars
<1>4. UNCHANGED <<envVars, banVars, juped>>
  BY <1>1
<1> QED
  BY <1>1, <1>2, <1>3, <1>4, SameInvites, EnteringKeeps

LEMMA SjoinKeeps ==
  ASSUME IInv, NEW c \in Channels, NEW N \in (SUBSET Users) \ {{}},
         NEW d \in Descriptions(N), Sjoin(c, d)
  PROVE  IInv'
<1>1. /\ d.ts \in Nat /\ d.mode \in SUBSET Letters /\ d.limit \in Nat /\ d.key \in Nat
      /\ d.nicks \in SUBSET Users
  BY BoundsAssumption DEF Descriptions
<1> DEFINE new == Newcomers(c, d)
<1>2. /\ new \in SUBSET online /\ new \cap members[c] = {}
      /\ Create(c) /\ AddUsers(c, new)
      /\ UNCHANGED <<envVars, inviteVars, banVars, juped>>
  BY DEF Sjoin, Newcomers, Accepted, IsMember, IInv, LinksAgree, TypeOK
<1>3. channelts' \in [Channels -> Nat]
  <2>1. MergedTS(c, d) \in Nat
    BY <1>1 DEF MergedTS, IInv, TypeOK
  <2>2. channelts' = [channelts EXCEPT ![c] = MergedTS(c, d)]
    BY DEF Sjoin
  <2> QED
    BY <2>1, <2>2 DEF IInv, TypeOK
<1>4. mode' \in [Channels -> SUBSET Letters]
  <2>1. PICK m \in SUBSET Letters : mode' = [mode EXCEPT ![c] = m]
    BY <1>1 DEF Sjoin, IInv, TypeOK
  <2> QED
    BY <2>1 DEF IInv, TypeOK
<1>5. limit' \in [Channels -> Nat]
  <2>1. PICK n \in Nat : limit' = [limit EXCEPT ![c] = n]
    BY <1>1 DEF Sjoin, IInv, TypeOK
  <2> QED
    BY <2>1 DEF IInv, TypeOK
<1>6. key' \in [Channels -> Nat]
  <2>1. PICK n \in Nat : key' = [key EXCEPT ![c] = n]
    BY <1>1 DEF Sjoin, IInv, TypeOK
  <2> QED
    BY <2>1 DEF IInv, TypeOK
<1>7. flags' \in [Channels -> [Users -> SUBSET Flags]]
  <2>1. flags' = [flags EXCEPT ![c] =
          [u \in Users |-> IF u \in new THEN JoinFlags(c, d, u)
                           ELSE IF KeepOurModes(c, d) THEN flags[c][u]
                           ELSE flags[c][u] \ {"op", "voice"}]]
    BY DEF Sjoin
  <2>2. \A u \in Users : JoinFlags(c, d, u) \in SUBSET Flags
    BY DEF JoinFlags, Flags
  <2> HIDE DEF new
  <2> QED
    BY <2>1, <2>2 DEF IInv, TypeOK
<1>8. UNCHANGED <<envVars, banVars, juped>>
  BY <1>2
<1> QED
  BY <1>2, <1>3, <1>4, <1>5, <1>6, <1>7, <1>8, SameInvites, EnteringKeeps

\* The steps that leave the lists of members, the table and their counters alone.
LEMMA FrameKeeps ==
  ASSUME IInv, UNCHANGED <<tableVars, members, users, chans, joined>>,
         CurrentTime' \in Nat, online' \subseteq Users, online \subseteq online',
         flags' \in [Channels -> [Users -> SUBSET Flags]],
         mode' \in [Channels -> SUBSET Letters],
         limit' \in [Channels -> Nat], key' \in [Channels -> Nat],
         channelts' \in [Channels -> Nat], juped' \in [Channels -> BOOLEAN],
         banlist' \in [Channels -> SUBSET Masks], num_bed' \in [Channels -> Nat],
         \A c \in Channels : num_bed'[c] = Cardinality(banlist'[c]),
         invites' \in [Channels -> SUBSET Users],
         invited' \in [Users -> SUBSET Channels],
         \A d \in Channels, v \in Users : v \in invites'[d] <=> d \in invited'[v],
         \A d \in Channels : invites'[d] \subseteq invites[d],
         \A v \in Users : invited'[v] \subseteq invited[v]
  PROVE  IInv'
<1>1. /\ exists' = exists /\ chanCount' = chanCount /\ members' = members
      /\ users' = users /\ chans' = chans /\ joined' = joined
  BY DEF tableVars
<1>2. TypeOK'
  BY <1>1 DEF IInv, TypeOK
<1>3. LinksAgree'
  BY <1>1 DEF IInv, LinksAgree
<1>4. CountersAgree'
  BY <1>1 DEF IInv, CountersAgree
<1>5. InvitesAgree'
  BY <1>1 DEF IInv, InvitesAgree
<1> QED
  BY <1>2, <1>3, <1>4, <1>5 DEF IInv

LEMMA TickKeeps == IInv /\ Tick => IInv'
<1> SUFFICES ASSUME IInv, Tick PROVE IInv'
  OBVIOUS
<1> QED
  BY SameInvites, FrameKeeps
  DEF Tick, IInv, TypeOK, CountersAgree, tableVars, linkVars, inviteVars, modeVars, banVars

LEMMA RegisterKeeps ==
  ASSUME IInv, NEW u \in Users, Register(u)
  PROVE  IInv'
BY SameInvites, FrameKeeps
DEF Register, IInv, TypeOK, CountersAgree, tableVars, linkVars, inviteVars, modeVars, banVars

LEMMA SetFlagsKeeps ==
  ASSUME IInv, NEW c \in Channels, NEW who \in Users, NEW fl \in SUBSET Flags,
         SetFlags(c, who, fl)
  PROVE  IInv'
<1>1. flags' \in [Channels -> [Users -> SUBSET Flags]]
  BY DEF SetFlags, IInv, TypeOK
<1>2. UNCHANGED <<envVars, tableVars, members, users, chans, joined, inviteVars,
                  modeVars, banVars, juped, channelts>>
  BY DEF SetFlags
<1> QED
  BY <1>1, <1>2, SameInvites, FrameKeeps
  DEF IInv, TypeOK, CountersAgree, envVars, tableVars, inviteVars, modeVars, banVars

\* +o, -o, +v and -v.
LEMMA ModeFlagKeeps ==
  ASSUME IInv, NEW s, NEW c \in Channels, NEW who \in Users,
         \/ ModeOp(s, who, c) \/ ModeDeop(s, who, c)
         \/ \E add \in BOOLEAN : ModeVoice(s, who, c, add)
  PROVE  IInv'
<1>1. flags[c][who] \in SUBSET Flags
  BY DEF IInv, TypeOK
<1>2. PICK fl \in SUBSET Flags : SetFlags(c, who, fl)
  BY <1>1 DEF ModeOp, ModeDeop, ModeVoice, Opped, Flags
<1> QED
  BY <1>2, SetFlagsKeeps

LEMMA ModeLetterKeeps ==
  ASSUME IInv, NEW s, NEW c \in Channels, NEW l \in Letters, NEW add \in BOOLEAN,
         ModeLetter(s, c, l, add)
  PROVE  IInv'
<1>1. mode' \in [Channels -> SUBSET Letters]
  BY DEF ModeLetter, IInv, TypeOK
<1>2. UNCHANGED <<envVars, tableVars, linkVars, limit, key, banVars, juped, channelts>>
  BY DEF ModeLetter
<1>3. DelInvites(Users, {c}) \/ UNCHANGED inviteVars
  BY DEF ModeLetter
<1>4. /\ invites' \in [Channels -> SUBSET Users]
      /\ invited' \in [Users -> SUBSET Channels]
      /\ \A d \in Channels, v \in Users : v \in invites'[d] <=> d \in invited'[v]
      /\ \A d \in Channels : invites'[d] \subseteq invites[d]
      /\ \A v \in Users : invited'[v] \subseteq invited[v]
  <2>1. Users \in SUBSET Users /\ {c} \in SUBSET Channels
    OBVIOUS
  <2>2. CASE DelInvites(Users, {c})
    BY <2>1, <2>2, DelInvitesKeeps
  <2>3. CASE UNCHANGED inviteVars
    BY <2>3, SameInvites
  <2> QED
    BY <1>3, <2>2, <2>3
<1> QED
  BY <1>1, <1>2, <1>4, FrameKeeps
  DEF IInv, TypeOK, CountersAgree, envVars, tableVars, linkVars, banVars

LEMMA ModeLimitKeyKeeps ==
  ASSUME IInv, NEW s, NEW c \in Channels,
         \/ \E n \in 0..MaxLimit : ModeLimit(s, c, n)
         \/ \E k \in 0..MaxKey : ModeKey(s, c, k)
  PROVE  IInv'
<1>1. limit' \in [Channels -> Nat] /\ key' \in [Channels -> Nat]
  <2>1. limit \in [Channels -> Nat] /\ key \in [Channels -> Nat]
    BY DEF IInv, TypeOK
  <2>2. 0..MaxLimit \subseteq Nat /\ 0..MaxKey \subseteq Nat
    BY BoundsAssumption
  <2>3. CASE \E n \in 0..MaxLimit : ModeLimit(s, c, n)
    BY <2>1, <2>2, <2>3 DEF ModeLimit
  <2>4. CASE \E k \in 0..MaxKey : ModeKey(s, c, k)
    BY <2>1, <2>2, <2>4 DEF ModeKey
  <2> QED
    BY <2>3, <2>4
<1>2. UNCHANGED <<envVars, tableVars, linkVars, inviteVars, mode, banVars, juped, channelts>>
  BY DEF ModeLimit, ModeKey
<1>3. /\ UNCHANGED <<tableVars, members, users, chans, joined, inviteVars>>
      /\ CurrentTime' = CurrentTime /\ online' = online /\ flags' = flags
      /\ mode' = mode /\ juped' = juped /\ channelts' = channelts
      /\ banlist' = banlist /\ num_bed' = num_bed
  BY <1>2 DEF envVars, linkVars, banVars
<1>4. /\ CurrentTime' \in Nat /\ online' \subseteq Users /\ online \subseteq online'
      /\ flags' \in [Channels -> [Users -> SUBSET Flags]]
      /\ mode' \in [Channels -> SUBSET Letters]
      /\ channelts' \in [Channels -> Nat] /\ juped' \in [Channels -> BOOLEAN]
      /\ banlist' \in [Channels -> SUBSET Masks] /\ num_bed' \in [Channels -> Nat]
      /\ \A d \in Channels : num_bed'[d] = Cardinality(banlist'[d])
  BY <1>3 DEF IInv, TypeOK, CountersAgree
<1>5. UNCHANGED <<tableVars, members, users, chans, joined>> /\ UNCHANGED inviteVars
  BY <1>3
<1> QED
  BY <1>1, <1>4, <1>5, SameInvites, FrameKeeps

\* A ban that is added is not on the list, since every mask covers itself; one
\* that is removed is, and the counter is above 0.
LEMMA ModeBanKeeps ==
  ASSUME IInv, NEW s, NEW c \in Channels, NEW m \in Masks,
         ModeBan(s, c, m) \/ ModeUnban(s, c, m)
  PROVE  IInv'
<1>1. /\ banlist \in [Channels -> SUBSET Masks] /\ num_bed \in [Channels -> Nat]
      /\ \A d \in Channels : num_bed[d] = Cardinality(banlist[d])
      /\ IsFiniteSet(banlist[c])
  BY Finite DEF IInv, TypeOK, CountersAgree
<1>2. UNCHANGED <<envVars, tableVars, linkVars, inviteVars, modeVars, juped, channelts>>
  BY DEF ModeBan, ModeUnban
<1>3. /\ banlist' \in [Channels -> SUBSET Masks] /\ num_bed' \in [Channels -> Nat]
      /\ \A d \in Channels : num_bed'[d] = Cardinality(banlist'[d])
  <2>1. CASE ModeBan(s, c, m)
    <3>1. m \notin banlist[c]
      BY <2>1, MasksAssumption DEF ModeBan, BanCovered
    <3>2. Cardinality(banlist[c] \cup {m}) = Cardinality(banlist[c]) + 1
      BY <1>1, <3>1, FS_AddElement
    <3>3. /\ banlist' = [banlist EXCEPT ![c] = @ \cup {m}]
          /\ num_bed' = [num_bed EXCEPT ![c] = @ + 1]
      BY <2>1 DEF ModeBan
    <3> QED
      BY <1>1, <3>2, <3>3
  <2>2. CASE ModeUnban(s, c, m)
    <3>1. Cardinality(banlist[c] \ {m}) = Cardinality(banlist[c]) - 1
      BY <1>1, <2>2, FS_RemoveElement DEF ModeUnban
    <3>2. Cardinality(banlist[c] \ {m}) \in Nat
      BY <1>1, FS_RemoveElement, FS_CardinalityType
    <3>3. num_bed[c] > 0 /\ num_bed[c] - 1 \in Nat
      BY <1>1, <3>1, <3>2
    <3>4. /\ banlist' = [banlist EXCEPT ![c] = @ \ {m}]
          /\ num_bed' = [num_bed EXCEPT ![c] = num_bed[c] - 1]
      BY <2>2, <3>3 DEF ModeUnban
    <3> QED
      BY <1>1, <3>1, <3>3, <3>4
  <2> QED
    BY <2>1, <2>2
<1> QED
  BY <1>2, <1>3, SameInvites, FrameKeeps
  DEF IInv, TypeOK, envVars, tableVars, linkVars, inviteVars, modeVars

LEMMA ModeJupeKeeps ==
  ASSUME IInv, NEW s, NEW c \in Channels, ModeJupe(s, c)
  PROVE  IInv'
BY SameInvites, FrameKeeps
DEF ModeJupe, IInv, TypeOK, CountersAgree, envVars, tableVars, linkVars, inviteVars,
    modeVars, banVars

\* The channel that -j frees has no members, so no client has a link to it.
LEMMA ModeUnjupeKeeps ==
  ASSUME IInv, NEW s, NEW c \in Channels, ModeUnjupe(s, c)
  PROVE  IInv'
<1> DEFINE gone == IF users[c] = 0 THEN {c} ELSE {}
<1>1. /\ c \in exists /\ juped' = [juped EXCEPT ![c] = FALSE]
      /\ Free(gone) /\ DelInvites(Users, gone)
      /\ users' = [d \in Channels |-> IF d \in gone THEN OneLess(users[d]) ELSE users[d]]
      /\ UNCHANGED <<envVars, members, flags, chans, joined>>
  BY DEF ModeUnjupe
<1>2. /\ gone \in SUBSET exists /\ gone \in SUBSET Channels
      /\ \A d \in gone : d \in Channels /\ users[d] = 0
  BY <1>1
<1> HIDE DEF gone
<1>3. \A d \in gone : OneLess(users[d]) = users[d]
  BY <1>2 DEF OneLess
<1>4. users' = users
  BY <1>1, <1>2, <1>3 DEF IInv, TypeOK
<1>5. \A d \in gone : members[d] = {}
  <2>1. \A d \in Channels : IsFiniteSet(members[d])
    BY Finite DEF IInv
  <2> QED
    BY <1>2, <2>1, FS_EmptySet DEF IInv, CountersAgree
<1>6. /\ exists' = exists \ gone
      /\ exists' \subseteq Channels /\ chanCount' \in Int
      /\ chanCount' = Cardinality(exists')
      /\ mode' \in [Channels -> SUBSET Letters]
      /\ limit' \in [Channels -> Nat] /\ key' \in [Channels -> Nat]
      /\ banlist' \in [Channels -> SUBSET Masks]
      /\ num_bed' \in [Channels -> Nat]
      /\ channelts' \in [Channels -> Nat]
      /\ \A d \in Channels : num_bed'[d] = Cardinality(banlist'[d])
  BY <1>1, <1>2, FreeKeeps
<1>7. /\ invites' \in [Channels -> SUBSET Users]
      /\ invited' \in [Users -> SUBSET Channels]
      /\ \A d \in Channels, v \in Users : v \in invites'[d] <=> d \in invited'[v]
      /\ \A d \in Channels : invites'[d] \subseteq invites[d]
      /\ \A v \in Users : invited'[v] \subseteq invited[v]
  <2>1. Users \in SUBSET Users
    OBVIOUS
  <2> QED
    BY <1>1, <1>2, <2>1, DelInvitesKeeps
<1>8. /\ members' = members /\ flags' = flags /\ chans' = chans /\ joined' = joined
      /\ online' = online /\ CurrentTime' = CurrentTime
  BY <1>1 DEF envVars
<1>9. TypeOK'
  <2>1. juped' \in [Channels -> BOOLEAN]
    BY <1>1 DEF IInv, TypeOK
  <2> QED
    BY <1>4, <1>6, <1>7, <1>8, <2>1 DEF IInv, TypeOK
<1>10. LinksAgree'
  BY <1>5, <1>6, <1>8 DEF IInv, LinksAgree
<1>11. CountersAgree'
  BY <1>4, <1>6, <1>8 DEF IInv, CountersAgree
<1>12. InvitesAgree'
  BY <1>7, <1>8 DEF IInv, InvitesAgree
<1> QED
  BY <1>9, <1>10, <1>11, <1>12 DEF IInv

LEMMA InviteKeeps ==
  ASSUME IInv, NEW s \in Users, NEW u \in Users, NEW c \in Channels, Invite(s, u, c)
  PROVE  IInv'
<1>1. /\ u \in online \cap Locals /\ members[c] # {}
      /\ AddInvite(u, c)
      /\ UNCHANGED <<envVars, tableVars, linkVars, modeVars, banVars, juped, channelts>>
  BY DEF Invite, MayInvite, IsMember, IInv, LinksAgree
<1>2. /\ invites \in [Channels -> SUBSET Users]
      /\ invited \in [Users -> SUBSET Channels]
      /\ \A d \in Channels, v \in Users : v \in invites[d] <=> d \in invited[v]
  BY DEF IInv, TypeOK, InvitesAgree
<1>3. PICK H \in SUBSET (invited[u] \ {c}) :
        /\ invited' = [invited EXCEPT ![u] = ((invited[u] \ {c}) \ H) \cup {c}]
        /\ invites' = [d \in Channels |->
                         IF d \in H THEN invites[d] \ {u}
                         ELSE IF d = c THEN invites[d] \cup {u} ELSE invites[d]]
  <2> DEFINE others == invited[u] \ {c}
  <2>1. CASE ~ListFull(others)
    <3>1. /\ invited' = [invited EXCEPT ![u] = others \cup {c}]
          /\ invites' = [invites EXCEPT ![c] = @ \cup {u}]
      BY <1>1, <2>1 DEF AddInvite
    <3>2. /\ invited' = [invited EXCEPT ![u] = (others \ {}) \cup {c}]
          /\ invites' = [d \in Channels |->
                           IF d \in {} THEN invites[d] \ {u}
                           ELSE IF d = c THEN invites[d] \cup {u} ELSE invites[d]]
      BY <1>2, <3>1
    <3>3. {} \in SUBSET others
      OBVIOUS
    <3> QED
      BY <3>2, <3>3, Zenon
  <2>2. CASE ListFull(others)
    <3>1. PICK head \in others :
            /\ invited' = [invited EXCEPT ![u] = (others \ {head}) \cup {c}]
            /\ invites' = [d \in Channels |->
                             CASE d = head -> invites[d] \ {u}
                               [] d = c    -> invites[d] \cup {u}
                               [] OTHER    -> invites[d]]
      BY <1>1, <2>2 DEF AddInvite
    <3>2. invites' = [d \in Channels |->
                        IF d \in {head} THEN invites[d] \ {u}
                        ELSE IF d = c THEN invites[d] \cup {u} ELSE invites[d]]
      BY <3>1
    <3> QED
      BY <3>1, <3>2
  <2> QED
    BY <2>1, <2>2
<1>4. /\ invites' \in [Channels -> SUBSET Users]
      /\ invited' \in [Users -> SUBSET Channels]
      /\ \A d \in Channels, v \in Users : v \in invites'[d] <=> d \in invited'[v]
  BY <1>2, <1>3
<1>5. \A d \in Channels : invites'[d] # {} => members[d] # {}
  BY <1>1, <1>2, <1>3 DEF IInv, InvitesAgree
<1>6. \A v \in Users : invited'[v] # {} => v \in online \cap Locals
  BY <1>1, <1>2, <1>3 DEF IInv, InvitesAgree
<1>7. TypeOK' /\ LinksAgree' /\ CountersAgree'
  BY <1>1, <1>4
  DEF IInv, TypeOK, LinksAgree, CountersAgree, envVars, tableVars, linkVars, modeVars, banVars
<1>8. InvitesAgree'
  BY <1>1, <1>4, <1>5, <1>6 DEF InvitesAgree, envVars, linkVars
<1> QED
  BY <1>7, <1>8 DEF IInv

LEMMA NextKeeps == IInv /\ [Next]_vars => IInv'
<1> SUFFICES ASSUME IInv, [Next]_vars PROVE IInv'
  OBVIOUS
<1>1. /\ exists \subseteq Channels
      /\ \A u \in Users : chans[u] \in SUBSET chans[u]
      /\ \A u \in Users, c \in Channels : IsMember(u, c) => {c} \in SUBSET chans[u]
  BY DEF IInv, TypeOK, LinksAgree, IsMember
<1>2. CASE Tick
  BY <1>2, TickKeeps
<1>3. ASSUME NEW u \in Users, Register(u) \/ ExitClient(u) \/ JoinZero(u)
      PROVE  IInv'
  <2>1. CASE Register(u)
    BY <2>1, RegisterKeeps
  <2>2. CASE ExitClient(u)
    BY <2>2, ExitClientKeeps
  <2>3. CASE JoinZero(u)
    BY <1>1, <2>3, LeaveKeeps DEF JoinZero
  <2> QED
    BY <1>3, <2>1, <2>2, <2>3
<1>4. ASSUME NEW u \in Users, NEW c \in Channels, NEW k \in 0..MaxKey, JoinLocal(u, c, k)
      PROVE  IInv'
  BY <1>4, JoinLocalKeeps
<1>5. ASSUME NEW u \in Users, NEW c \in Channels, JoinRemote(u, c) \/ Part(u, c)
      PROVE  IInv'
  <2>1. CASE JoinRemote(u, c)
    BY <2>1, JoinRemoteKeeps
  <2>2. CASE Part(u, c)
    BY <1>1, <2>2, LeaveKeeps DEF Part
  <2> QED
    BY <1>5, <2>1, <2>2
<1>6. ASSUME NEW a \in Users, NEW u \in Users, NEW c \in Channels,
             FJoin(a, u, c) \/ Invite(a, u, c)
      PROVE  IInv'
  BY <1>6, FJoinKeeps, InviteKeeps
<1>7. ASSUME NEW s \in Sources, NEW u \in Users, NEW c \in Channels, Kick(s, u, c)
      PROVE  IInv'
  BY <1>1, <1>7, LeaveKeeps DEF Kick
<1>8. CASE ModeNext
  <2>1. PICK s \in Sources, c \in exists :
          \/ \E who \in Users : ModeOp(s, who, c)
          \/ \E who \in Users : ModeDeop(s, who, c)
          \/ \E who \in Users, add \in BOOLEAN : ModeVoice(s, who, c, add)
          \/ \E l \in Letters, add \in BOOLEAN : ModeLetter(s, c, l, add)
          \/ \E n \in 0..MaxLimit : ModeLimit(s, c, n)
          \/ \E k \in 0..MaxKey : ModeKey(s, c, k)
          \/ \E m \in Masks : ModeBan(s, c, m)
          \/ \E m \in Masks : ModeUnban(s, c, m)
          \/ ModeJupe(s, c)
          \/ ModeUnjupe(s, c)
    BY <1>8 DEF ModeNext
  <2>2. c \in Channels
    BY <1>1
  <2>3. CASE \E who \in Users : ModeOp(s, who, c)
    BY <2>2, <2>3, ModeFlagKeeps
  <2>4. CASE \E who \in Users : ModeDeop(s, who, c)
    BY <2>2, <2>4, ModeFlagKeeps
  <2>5. CASE \E who \in Users, add \in BOOLEAN : ModeVoice(s, who, c, add)
    BY <2>2, <2>5, ModeFlagKeeps
  <2>6. CASE \E l \in Letters, add \in BOOLEAN : ModeLetter(s, c, l, add)
    BY <2>2, <2>6, ModeLetterKeeps
  <2>7. CASE \E n \in 0..MaxLimit : ModeLimit(s, c, n)
    BY <2>2, <2>7, ModeLimitKeyKeeps
  <2>8. CASE \E k \in 0..MaxKey : ModeKey(s, c, k)
    BY <2>2, <2>8, ModeLimitKeyKeeps
  <2>9. CASE \E m \in Masks : ModeBan(s, c, m)
    BY <2>2, <2>9, ModeBanKeeps
  <2>10. CASE \E m \in Masks : ModeUnban(s, c, m)
    BY <2>2, <2>10, ModeBanKeeps
  <2>11. CASE ModeJupe(s, c)
    BY <2>2, <2>11, ModeJupeKeeps
  <2>12. CASE ModeUnjupe(s, c)
    BY <2>2, <2>12, ModeUnjupeKeeps
  <2> QED
    BY <2>1, <2>3, <2>4, <2>5, <2>6, <2>7, <2>8, <2>9, <2>10, <2>11, <2>12
<1>9. ASSUME NEW c \in Channels, NEW N \in (SUBSET Users) \ {{}},
         NEW d \in Descriptions(N), Sjoin(c, d)
      PROVE  IInv'
  BY <1>9, SjoinKeeps
<1>10. CASE UNCHANGED vars
  BY <1>10 DEF vars, envVars, tableVars, linkVars, inviteVars, modeVars, banVars,
     IInv, TypeOK, LinksAgree, CountersAgree, InvitesAgree
<1> QED
  BY <1>2, <1>3, <1>4, <1>5, <1>6, <1>7, <1>8, <1>9, <1>10 DEF Next

-----------------------------------------------------------------------------
(* What a step may do, for the properties that look at one part of it.     *)

\* The steps that change no list of members.
Quiet ==
  /\ members' = members /\ flags' = flags /\ chans' = chans
  /\ \A u \in Users : invited'[u] \subseteq invited[u]
  /\ \A c \in Channels : channelts'[c] <= channelts[c]
  /\ \A c \in exists' : c \in exists /\ (juped[c] => juped'[c] \/ members[c] # {})
  /\ \A u \in online' : u \in online \/ u \in Locals \/ Linked

\* The steps that take a client off channels.
Leaving(u, C) ==
  /\ RemoveUser(u, C)
  /\ \A v \in Users : invited'[v] \subseteq invited[v]
  /\ online' \subseteq online

ModeOfMember(s, c) ==
  \E who \in Users : \/ ModeOp(s, who, c) \/ ModeDeop(s, who, c)
                     \/ \E add \in BOOLEAN : ModeVoice(s, who, c, add)

LEMMA QuietModes ==
  ASSUME IInv, NEW s \in Sources, NEW c \in exists,
         \/ \E l \in Letters, add \in BOOLEAN : ModeLetter(s, c, l, add)
         \/ \E n \in 0..MaxLimit : ModeLimit(s, c, n)
         \/ \E k \in 0..MaxKey : ModeKey(s, c, k)
         \/ \E m \in Masks : ModeBan(s, c, m)
         \/ \E m \in Masks : ModeUnban(s, c, m)
         \/ ModeJupe(s, c)
         \/ ModeUnjupe(s, c)
  PROVE  Quiet
<1>1. /\ channelts \in [Channels -> Nat] /\ juped \in [Channels -> BOOLEAN]
      /\ users \in [Channels -> Nat] /\ invited \in [Users -> SUBSET Channels]
      /\ exists \subseteq Channels /\ c \in Channels
      /\ \A d \in Channels : channelts[d] <= channelts[d] /\ 0 <= channelts[d]
      /\ \A d \in Channels : users[d] = Cardinality(members[d])
  BY DEF IInv, TypeOK, CountersAgree
<1>2. CASE \E l \in Letters, add \in BOOLEAN : ModeLetter(s, c, l, add)
  <2>1. PICK l \in Letters, add \in BOOLEAN : ModeLetter(s, c, l, add)
    BY <1>2
  <2>2. \A u \in Users : invited'[u] \subseteq invited[u]
    BY <1>1, <2>1 DEF ModeLetter, DelInvites, inviteVars
  <2> QED
    BY <1>1, <2>1, <2>2 DEF Quiet, ModeLetter, envVars, tableVars, linkVars, banVars
<1>3. CASE \/ \E n \in 0..MaxLimit : ModeLimit(s, c, n)
           \/ \E k \in 0..MaxKey : ModeKey(s, c, k)
  BY <1>1, <1>3 DEF Quiet, ModeLimit, ModeKey, envVars, tableVars, linkVars, inviteVars, banVars
<1>4. CASE \E m \in Masks : ModeBan(s, c, m) \/ ModeUnban(s, c, m)
  BY <1>1, <1>4 DEF Quiet, ModeBan, ModeUnban, envVars, tableVars, linkVars, inviteVars, modeVars
<1>5. CASE ModeJupe(s, c)
  BY <1>1, <1>5 DEF Quiet, ModeJupe, envVars, tableVars, linkVars, inviteVars, modeVars, banVars
<1>6. CASE ModeUnjupe(s, c)
  <2> DEFINE gone == IF users[c] = 0 THEN {c} ELSE {}
  <2>1. /\ juped' = [juped EXCEPT ![c] = FALSE]
        /\ Free(gone) /\ DelInvites(Users, gone)
        /\ members' = members /\ flags' = flags /\ chans' = chans
        /\ online' = online
    BY <1>6 DEF ModeUnjupe, envVars
  <2>2. \A u \in Users : invited'[u] \subseteq invited[u]
    BY <1>1, <2>1 DEF DelInvites
  <2>3. \A d \in Channels : channelts'[d] <= channelts[d]
    BY <1>1, <2>1 DEF Free
  <2>4. exists' = exists \ gone
    BY <2>1 DEF Free
  <2>5. members[c] = {} => Cardinality(members[c]) = 0
    BY FS_EmptySet
  <2>6. \A d \in exists' : d \in exists /\ (juped[d] => juped'[d] \/ members[d] # {})
    <3> TAKE d \in exists'
    <3>1. d \in exists /\ d \in Channels
      BY <1>1, <2>4
    <3>2. CASE d = c
      <4>1. users[c] # 0
        BY <2>4, <3>2
      <4> QED
        BY <1>1, <2>5, <3>1, <3>2, <4>1
    <3>3. CASE d # c
      BY <1>1, <2>1, <3>1, <3>3
    <3> QED
      BY <3>2, <3>3
  <2> QED
    BY <2>1, <2>2, <2>3, <2>6 DEF Quiet
<1> QED
  BY <1>2, <1>3, <1>4, <1>5, <1>6

\* Every step is one of eight kinds.
LEMMA Steps ==
  ASSUME IInv, [Next]_vars
  PROVE  \/ Quiet
         \/ \E u \in Users : \E C \in SUBSET chans[u] : Leaving(u, C)
         \/ \E u \in Users, c \in Channels, k \in 0..MaxKey : JoinLocal(u, c, k)
         \/ \E u \in Users, c \in Channels : JoinRemote(u, c)
         \/ \E a, u \in Users, c \in Channels : FJoin(a, u, c)
         \/ \E s, u \in Users, c \in Channels : Invite(s, u, c)
         \/ \E s \in Sources, c \in Channels : ModeOfMember(s, c)
         \/ \E c \in Channels, N \in (SUBSET Users) \ {{}} :
              \E d \in Descriptions(N) : Sjoin(c, d)
<1>1. /\ exists \subseteq Channels /\ channelts \in [Channels -> Nat]
      /\ \A d \in Channels : channelts[d] <= channelts[d]
      /\ invited \in [Users -> SUBSET Channels]
      /\ \A u \in Users : chans[u] \in SUBSET chans[u]
      /\ \A u \in Users, c \in Channels : IsMember(u, c) => {c} \in SUBSET chans[u]
  BY DEF IInv, TypeOK, IsMember
<1>2. ASSUME NEW u \in Users, NEW C \in SUBSET chans[u], Leave(u, C)
      PROVE  Leaving(u, C)
  <2>1. \A v \in Users : invited'[v] \subseteq invited[v]
    BY <1>1, <1>2 DEF Leave, DelInvites
  <2> QED
    BY <1>2, <2>1 DEF Leave, Leaving, envVars
<1>3. CASE Tick
  BY <1>1, <1>3 DEF Tick, Quiet, tableVars, linkVars, inviteVars
<1>4. ASSUME NEW u \in Users, Register(u) \/ ExitClient(u) \/ JoinZero(u)
      PROVE  Quiet \/ \E C \in SUBSET chans[u] : Leaving(u, C)
  <2>1. CASE Register(u)
    BY <1>1, <2>1 DEF Register, Quiet, tableVars, linkVars, inviteVars
  <2>2. CASE ExitClient(u)
    <3>1. \A v \in Users : invited'[v] \subseteq invited[v]
      BY <1>1, <2>2 DEF ExitClient
    <3>2. Leaving(u, chans[u])
      BY <2>2, <3>1 DEF ExitClient, Leaving
    <3> QED
      BY <1>1, <3>2
  <2>3. CASE JoinZero(u)
    BY <1>1, <1>2, <2>3 DEF JoinZero
  <2> QED
    BY <1>4, <2>1, <2>2, <2>3
<1>5. ASSUME NEW u \in Users, NEW c \in Channels, Part(u, c)
      PROVE  \E C \in SUBSET chans[u] : Leaving(u, C)
  BY <1>1, <1>2, <1>5 DEF Part
<1>6. ASSUME NEW s \in Sources, NEW u \in Users, NEW c \in Channels, Kick(s, u, c)
      PROVE  \E C \in SUBSET chans[u] : Leaving(u, C)
  BY <1>1, <1>2, <1>6 DEF Kick
<1>7. CASE ModeNext
  <2>1. PICK s \in Sources, c \in exists :
          \/ ModeOfMember(s, c)
          \/ \E l \in Letters, add \in BOOLEAN : ModeLetter(s, c, l, add)
          \/ \E n \in 0..MaxLimit : ModeLimit(s, c, n)
          \/ \E k \in 0..MaxKey : ModeKey(s, c, k)
          \/ \E m \in Masks : ModeBan(s, c, m)
          \/ \E m \in Masks : ModeUnban(s, c, m)
          \/ ModeJupe(s, c)
          \/ ModeUnjupe(s, c)
    BY <1>7 DEF ModeNext, ModeOfMember
  <2> QED
    BY <1>1, <2>1, QuietModes
<1>8. CASE UNCHANGED vars
  BY <1>1, <1>8 DEF vars, envVars, tableVars, linkVars, inviteVars, Quiet
<1> QED
  BY <1>3, <1>4, <1>5, <1>6, <1>7, <1>8 DEF Next

-----------------------------------------------------------------------------
(* Invitations.                                                            *)

LEMMA InviteBoundKeeps == IInv /\ InviteBound /\ [Next]_vars => InviteBound'
<1> SUFFICES ASSUME IInv, InviteBound, [Next]_vars PROVE InviteBound'
  OBVIOUS
<1>1. /\ invited \in [Users -> SUBSET Channels]
      /\ \A C \in SUBSET Channels : IsFiniteSet(C) /\ Cardinality(C) \in Nat
      /\ MAXCHANNELSPERUSER \in Nat
  BY Finite, BoundsAssumption DEF IInv, TypeOK
<1>2. CASE \A v \in Users : invited'[v] \subseteq invited[v]
  <2> SUFFICES ASSUME NEW v \in Users
               PROVE  Cardinality(invited'[v]) <= MAXCHANNELSPERUSER
    BY DEF InviteBound
  <2>1. /\ IsFiniteSet(invited[v]) /\ invited'[v] \subseteq invited[v]
        /\ Cardinality(invited[v]) \in Nat
        /\ Cardinality(invited[v]) <= MAXCHANNELSPERUSER
    BY <1>1, <1>2 DEF InviteBound
  <2>2. Cardinality(invited'[v]) \in Nat /\ Cardinality(invited'[v]) <= Cardinality(invited[v])
    BY <2>1, FS_Subset, FS_CardinalityType
  <2> QED
    BY <1>1, <2>1, <2>2
<1>3. ASSUME NEW s \in Users, NEW u \in Users, NEW c \in Channels, Invite(s, u, c)
      PROVE  InviteBound'
  <2> DEFINE others == invited[u] \ {c}
  <2>1. /\ others \subseteq invited[u] /\ IsFiniteSet(others)
        /\ Cardinality(others) \in Nat
        /\ Cardinality(others) <= MAXCHANNELSPERUSER
    <3>1. /\ IsFiniteSet(invited[u]) /\ Cardinality(invited[u]) \in Nat
          /\ Cardinality(invited[u]) <= MAXCHANNELSPERUSER
      BY <1>1 DEF InviteBound
    <3>2. others \subseteq invited[u]
      OBVIOUS
    <3>3. /\ IsFiniteSet(others) /\ Cardinality(others) \in Nat
          /\ Cardinality(others) <= Cardinality(invited[u])
      BY <3>1, <3>2, FS_Subset, FS_CardinalityType
    <3> QED
      BY <1>1, <3>1, <3>2, <3>3
  <2>2. c \notin others /\ AddInvite(u, c)
    BY <1>3 DEF Invite
  <2>3. /\ Cardinality(invited'[u]) <= MAXCHANNELSPERUSER
        /\ \A v \in Users : v # u => invited'[v] = invited[v]
    <3>1. CASE ~ListFull(others)
      <4>1. Cardinality(others \cup {c}) = Cardinality(others) + 1
        BY <2>1, <2>2, FS_AddElement
      <4>2. Cardinality(others) + 1 <= MAXCHANNELSPERUSER
        BY <1>1, <2>1, <3>1 DEF ListFull
      <4>3. invited' = [invited EXCEPT ![u] = others \cup {c}]
        BY <2>2, <3>1 DEF AddInvite
      <4> QED
        BY <1>1, <4>1, <4>2, <4>3
    <3>2. CASE ListFull(others)
      <4>1. PICK head \in others : invited' = [invited EXCEPT ![u] = (others \ {head}) \cup {c}]
        BY <2>2, <3>2 DEF AddInvite
      <4>2. /\ IsFiniteSet(others \ {head})
            /\ Cardinality(others \ {head}) = Cardinality(others) - 1
        BY <2>1, FS_RemoveElement
      <4>3. Cardinality((others \ {head}) \cup {c}) = Cardinality(others \ {head}) + 1
        BY <2>2, <4>2, FS_AddElement
      <4>4. Cardinality((others \ {head}) \cup {c}) <= MAXCHANNELSPERUSER
        BY <1>1, <2>1, <4>2, <4>3
      <4> QED
        BY <1>1, <4>1, <4>4
    <3> QED
      BY <3>1, <3>2
  <2> QED
    BY <2>3 DEF InviteBound
<1>4. ASSUME NEW c \in Channels, NEW U \in SUBSET Users, DelInvites(U, {c})
      PROVE  \A v \in Users : invited'[v] \subseteq invited[v]
  BY <1>1, <1>4 DEF DelInvites
<1>5. ASSUME NEW u \in Users, NEW c \in Channels, NEW k \in 0..MaxKey, JoinLocal(u, c, k)
      PROVE  \A v \in Users : invited'[v] \subseteq invited[v]
  BY <1>4, <1>5 DEF JoinLocal
<1>6. CASE UNCHANGED inviteVars
  BY <1>2, <1>6 DEF inviteVars
<1>7. \A s, c : ModeOfMember(s, c) => UNCHANGED inviteVars
  BY DEF ModeOfMember, ModeOp, ModeDeop, ModeVoice, SetFlags
<1> QED
  BY <1>2, <1>3, <1>5, <1>6, <1>7, Steps
  DEF Quiet, Leaving, JoinRemote, FJoin, Sjoin

\* FJOIN is not compiled in, or nobody is there to give it.
NoForce == FJOIN => Locals \cap Admins = {}

\* Without FJOIN: JOIN takes the invitation off the list, and what enters by a
\* remote JOIN or a SJOIN is not a client of this server, so it has none.
LEMMA InviteIsSpentKeeps ==
  NoForce /\ IInv /\ InviteIsSpent /\ [Next]_vars => InviteIsSpent'
<1> SUFFICES ASSUME NoForce, IInv, InviteIsSpent, [Next]_vars PROVE InviteIsSpent'
  OBVIOUS
<1>1. /\ invited \in [Users -> SUBSET Channels] /\ chans \in [Users -> SUBSET Channels]
      /\ \A v \in Users : invited[v] \cap chans[v] = {}
      /\ \A v \in Users : invited[v] # {} => v \in Locals
  BY DEF IInv, TypeOK, InviteIsSpent, InvitesAgree
<1>2. CASE Quiet
  BY <1>1, <1>2 DEF Quiet, InviteIsSpent
<1>3. ASSUME NEW u \in Users, NEW C \in SUBSET chans[u], Leaving(u, C)
      PROVE  InviteIsSpent'
  BY <1>1, <1>3 DEF Leaving, RemoveUser, InviteIsSpent
<1>4. ASSUME NEW u \in Users, NEW c \in Channels, NEW k \in 0..MaxKey, JoinLocal(u, c, k)
      PROVE  InviteIsSpent'
  <2>1. AddUsers(c, {u}) /\ DelInvites({u}, {c})
    BY <1>4 DEF JoinLocal
  <2> QED
    BY <1>1, <2>1 DEF AddUsers, DelInvites, InviteIsSpent
<1>5. ASSUME NEW U \in SUBSET (Users \ Locals), NEW c \in Channels, AddUsers(c, U),
             UNCHANGED inviteVars
      PROVE  InviteIsSpent'
  BY <1>1, <1>5 DEF AddUsers, inviteVars, InviteIsSpent
<1>6. ASSUME NEW u \in Users, NEW c \in Channels, JoinRemote(u, c)
      PROVE  InviteIsSpent'
  BY <1>5, <1>6 DEF JoinRemote
<1>7. ASSUME NEW s \in Users, NEW u \in Users, NEW c \in Channels, Invite(s, u, c)
      PROVE  InviteIsSpent'
  <2>1. /\ c \notin chans[u] /\ chans' = chans
        /\ AddInvite(u, c)
    BY <1>7 DEF Invite, MayInvite, IsMember, linkVars
  <2>2. PICK S \in SUBSET invited[u] : invited' = [invited EXCEPT ![u] = S \cup {c}]
    BY <2>1 DEF AddInvite
  <2> QED
    BY <1>1, <2>1, <2>2 DEF InviteIsSpent
<1>8. ASSUME NEW s \in Sources, NEW c \in Channels, ModeOfMember(s, c)
      PROVE  InviteIsSpent'
  BY <1>1, <1>8 DEF ModeOfMember, ModeOp, ModeDeop, ModeVoice, SetFlags, inviteVars,
     InviteIsSpent
<1>9. ASSUME NEW c \in Channels, NEW N \in (SUBSET Users) \ {{}},
         NEW d \in Descriptions(N), Sjoin(c, d)
      PROVE  InviteIsSpent'
  <2>1. Newcomers(c, d) \in SUBSET (Users \ Locals)
    BY DEF Newcomers, Accepted, IInv, TypeOK
  <2> QED
    BY <1>5, <1>9, <2>1 DEF Sjoin
<1> QED
  BY <1>2, <1>3, <1>4, <1>6, <1>7, <1>8, <1>9, Steps DEF FJoin, NoForce

-----------------------------------------------------------------------------
(* Channels that have lost their members, and the limit of channels.       *)

\* Without an uplink no SJOIN makes a channel that nobody enters.
LEMMA NoGhostChannelKeeps ==
  ~Linked /\ IInv /\ NoGhostChannel /\ [Next]_vars => NoGhostChannel'
<1> SUFFICES ASSUME ~Linked, IInv, NoGhostChannel, [Next]_vars PROVE NoGhostChannel'
  OBVIOUS
<1>1. /\ members \in [Channels -> SUBSET Users] /\ juped \in [Channels -> BOOLEAN]
      /\ exists \subseteq Channels
      /\ \A c \in exists : members[c] # {} \/ juped[c]
  BY DEF IInv, TypeOK, NoGhostChannel
<1>2. CASE Quiet
  BY <1>1, <1>2 DEF Quiet, NoGhostChannel
<1>3. ASSUME NEW u \in Users, NEW C \in SUBSET chans[u], Leaving(u, C)
      PROVE  NoGhostChannel'
  <2>1. /\ \A d \in Channels : d \notin C => members'[d] = members[d]
        /\ \A d \in C : d \in Emptied(C) <=> members'[d] = {}
    BY <1>3, RemoveUserKeeps DEF Leaving
  <2>2. juped' = juped /\ exists' = exists \ Freed(C)
    BY <1>3 DEF Leaving, RemoveUser, Sub1, Free
  <2> SUFFICES ASSUME NEW d \in exists \ Freed(C)
               PROVE  members'[d] # {} \/ juped[d]
    BY <2>2 DEF NoGhostChannel
  <2> QED
    BY <1>1, <2>1 DEF Freed
<1>4. ASSUME NEW u \in Users, NEW c \in Channels, Create(c), AddUsers(c, {u}), juped' = juped
      PROVE  NoGhostChannel'
  BY <1>1, <1>4 DEF Create, AddUsers, NoGhostChannel
<1>5. ASSUME NEW s, NEW c \in Channels, ModeOfMember(s, c)
      PROVE  NoGhostChannel'
  BY <1>1, <1>5 DEF ModeOfMember, ModeOp, ModeDeop, ModeVoice, SetFlags, tableVars,
     NoGhostChannel
<1>6. ASSUME NEW s \in Users, NEW u \in Users, NEW c \in Channels, Invite(s, u, c)
      PROVE  NoGhostChannel'
  BY <1>1, <1>6 DEF Invite, tableVars, linkVars, NoGhostChannel
<1>7. ASSUME NEW u \in Users, NEW c \in Channels, NEW k \in 0..MaxKey, JoinLocal(u, c, k)
      PROVE  NoGhostChannel'
  BY <1>4, <1>7 DEF JoinLocal
<1>8. ASSUME NEW u \in Users, NEW c \in Channels, JoinRemote(u, c)
      PROVE  NoGhostChannel'
  BY <1>4, <1>8 DEF JoinRemote
<1>9. ASSUME NEW a \in Users, NEW u \in Users, NEW c \in Channels, FJoin(a, u, c)
      PROVE  NoGhostChannel'
  BY <1>4, <1>9 DEF FJoin
<1> QED
  BY <1>2, <1>3, <1>5, <1>6, <1>7, <1>8, <1>9, Steps DEF Sjoin

\* Without FJOIN: can_join's limit is on user->joined, which is the length of
\* the list (CountersAgree).
LEMMA ChannelLimitKeeps ==
  NoForce /\ IInv /\ ChannelLimit /\ [Next]_vars => ChannelLimit'
<1> SUFFICES ASSUME NoForce, IInv, ChannelLimit, [Next]_vars PROVE ChannelLimit'
  OBVIOUS
<1> DEFINE Limit(u) == IF u \in Opers THEN 3 * MAXCHANNELSPERUSER ELSE MAXCHANNELSPERUSER
<1>1. /\ chans \in [Users -> SUBSET Channels] /\ Locals \subseteq Users
      /\ \A u \in Users : joined[u] = Cardinality(chans[u])
      /\ \A C \in SUBSET Channels : IsFiniteSet(C) /\ Cardinality(C) \in Nat
      /\ MAXCHANNELSPERUSER \in Nat
  BY Finite, BoundsAssumption, UsersAssumption DEF IInv, TypeOK, CountersAgree
<1>2. \A u \in Locals : Cardinality(chans[u]) <= Limit(u)
  BY DEF ChannelLimit
<1>3. CASE \A u \in Locals : chans'[u] \subseteq chans[u]
  <2> SUFFICES ASSUME NEW u \in Locals PROVE Cardinality(chans'[u]) <= Limit(u)
    BY DEF ChannelLimit
  <2>1. /\ IsFiniteSet(chans[u]) /\ Cardinality(chans[u]) \in Nat
        /\ chans'[u] \subseteq chans[u]
    BY <1>1, <1>3
  <2>2. Cardinality(chans'[u]) \in Nat /\ Cardinality(chans'[u]) <= Cardinality(chans[u])
    BY <2>1, FS_Subset, FS_CardinalityType
  <2> QED
    BY <1>1, <1>2, <2>1, <2>2
<1>4. ASSUME NEW u \in Users, NEW C \in SUBSET chans[u], Leaving(u, C)
      PROVE  \A v \in Locals : chans'[v] \subseteq chans[v]
  BY <1>1, <1>4 DEF Leaving, RemoveUser
<1>5. ASSUME NEW u \in Users, NEW c \in Channels, NEW k \in 0..MaxKey, JoinLocal(u, c, k)
      PROVE  ChannelLimit'
  <2>1. /\ u \in Locals /\ ~TooManyChannels(u) /\ AddUsers(c, {u})
    BY <1>5 DEF JoinLocal
  <2>2. chans' = [v \in Users |-> IF v = u THEN chans[v] \cup {c} ELSE chans[v]]
    BY <2>1 DEF AddUsers
  <2>3. Cardinality(chans[u]) + 1 <= Limit(u)
    <3>1. Cardinality(chans[u]) \in Nat /\ joined[u] = Cardinality(chans[u])
      BY <1>1
    <3> QED
      BY <1>1, <2>1, <3>1 DEF TooManyChannels
  <2>4. Cardinality(chans[u] \cup {c}) <= Limit(u)
    <3>1. c \notin chans[u] /\ IsFiniteSet(chans[u])
      BY <1>1, <1>5 DEF JoinLocal, IsMember
    <3>2. Cardinality(chans[u] \cup {c}) = Cardinality(chans[u]) + 1
      BY <3>1, FS_AddElement
    <3> QED
      BY <2>3, <3>2
  <2> QED
    BY <1>1, <1>2, <2>2, <2>4 DEF ChannelLimit
<1>6. ASSUME NEW U \in SUBSET (Users \ Locals), NEW c \in Channels, AddUsers(c, U)
      PROVE  \A v \in Locals : chans'[v] \subseteq chans[v]
  BY <1>1, <1>6 DEF AddUsers
<1>7. ASSUME NEW u \in Users, NEW c \in Channels, JoinRemote(u, c)
      PROVE  \A v \in Locals : chans'[v] \subseteq chans[v]
  BY <1>6, <1>7 DEF JoinRemote
<1>8. ASSUME NEW c \in Channels, NEW N \in (SUBSET Users) \ {{}},
         NEW d \in Descriptions(N), Sjoin(c, d)
      PROVE  \A v \in Locals : chans'[v] \subseteq chans[v]
  <2>1. Newcomers(c, d) \in SUBSET (Users \ Locals)
    BY DEF Newcomers, Accepted, IInv, TypeOK
  <2> QED
    BY <1>6, <1>8, <2>1 DEF Sjoin
<1>9. chans' = chans => \A v \in Locals : chans'[v] \subseteq chans[v]
  OBVIOUS
<1> HIDE DEF Limit
<1> QED
  BY <1>3, <1>4, <1>5, <1>7, <1>8, <1>9, Steps, ZenonT(60)
  DEF Quiet, Invite, linkVars, FJoin, NoForce, ModeOfMember, ModeOp, ModeDeop, ModeVoice, SetFlags

-----------------------------------------------------------------------------
(* The flags of a member and the timestamp of a channel.                   *)

\* change_chan_flag takes the mark off whom it makes an operator, and ModeOp
\* marks only who is none.
LEMMA DeoppedIsNotOpKeeps == IInv /\ DeoppedIsNotOp /\ [Next]_vars => DeoppedIsNotOp'
<1> SUFFICES ASSUME IInv, DeoppedIsNotOp, [Next]_vars PROVE DeoppedIsNotOp'
  OBVIOUS
<1> DEFINE Sound(fl) == ~({"op", "deopped"} \subseteq fl)
<1>1. /\ flags \in [Channels -> [Users -> SUBSET Flags]]
      /\ \A c \in Channels, u \in Users : Sound(flags[c][u])
  BY DEF IInv, TypeOK, DeoppedIsNotOp
<1>2. CASE flags' = flags
  BY <1>2 DEF DeoppedIsNotOp
<1>3. ASSUME NEW u \in Users, NEW C \in SUBSET chans[u], Leaving(u, C)
      PROVE  DeoppedIsNotOp'
  <2>1. flags' = [c \in Channels |-> IF c \in C THEN [flags[c] EXCEPT ![u] = {}] ELSE flags[c]]
    BY <1>3 DEF Leaving, RemoveUser
  <2> QED
    BY <1>1, <2>1 DEF DeoppedIsNotOp
<1>4. ASSUME NEW c \in Channels, NEW u \in Users, NEW fl, Sound(fl),
             flags' = [flags EXCEPT ![c][u] = fl]
      PROVE  DeoppedIsNotOp'
  BY <1>1, <1>4 DEF DeoppedIsNotOp
<1>5. ASSUME NEW s, NEW c \in Channels, ModeOfMember(s, c)
      PROVE  DeoppedIsNotOp'
  <2>1. PICK who \in Users : \/ ModeOp(s, who, c) \/ ModeDeop(s, who, c)
                             \/ \E add \in BOOLEAN : ModeVoice(s, who, c, add)
    BY <1>5 DEF ModeOfMember
  <2>2. Sound(flags[c][who])
    BY <1>1
  <2>3. PICK fl : Sound(fl) /\ SetFlags(c, who, fl)
    BY <2>1, <2>2 DEF ModeOp, ModeDeop, ModeVoice, Opped
  <2> QED
    BY <1>4, <2>3 DEF SetFlags
<1>6. ASSUME NEW c \in Channels, NEW N \in (SUBSET Users) \ {{}},
         NEW d \in Descriptions(N), Sjoin(c, d)
      PROVE  DeoppedIsNotOp'
  <2>1. flags' = [flags EXCEPT ![c] =
          [u \in Users |-> IF u \in Newcomers(c, d) THEN JoinFlags(c, d, u)
                           ELSE IF KeepOurModes(c, d) THEN flags[c][u]
                           ELSE flags[c][u] \ {"op", "voice"}]]
    BY <1>6 DEF Sjoin
  <2>2. \A u \in Users : Sound(JoinFlags(c, d, u)) /\ Sound(flags[c][u] \ {"op", "voice"})
    BY DEF JoinFlags
  <2> QED
    BY <1>1, <2>1, <2>2 DEF DeoppedIsNotOp
<1>7. Sound({}) /\ Sound({"op"})
  OBVIOUS
<1>8. ASSUME NEW u \in Users, NEW c \in Channels, NEW k \in 0..MaxKey, JoinLocal(u, c, k)
      PROVE  DeoppedIsNotOp'
  BY <1>4, <1>7, <1>8 DEF JoinLocal
<1>9. ASSUME NEW u \in Users, NEW c \in Channels, JoinRemote(u, c)
      PROVE  DeoppedIsNotOp'
  BY <1>4, <1>7, <1>9 DEF JoinRemote
<1>10. ASSUME NEW a \in Users, NEW u \in Users, NEW c \in Channels, FJoin(a, u, c)
       PROVE  DeoppedIsNotOp'
  BY <1>4, <1>7, <1>10 DEF FJoin
<1>11. ASSUME NEW s \in Users, NEW u \in Users, NEW c \in Channels, Invite(s, u, c)
       PROVE  flags' = flags
  BY <1>11 DEF Invite, linkVars
<1> HIDE DEF Sound
<1> QED
  BY <1>2, <1>3, <1>5, <1>6, <1>8, <1>9, <1>10, <1>11, Steps DEF Quiet

\* Without FJOIN the timestamp changes only when the channel is made, when it is
\* freed, and by a SJOIN, which takes the lower one.
LEMMA TSFallsStep == NoForce /\ IInv /\ [Next]_vars => TSFalls
<1> SUFFICES ASSUME NoForce, IInv, [Next]_vars,
                    NEW c \in Channels, members[c] # {}, members'[c] # {}
             PROVE  channelts'[c] <= channelts[c]
  BY DEF TSFalls
<1>1. /\ channelts \in [Channels -> Nat] /\ c \in exists
      /\ \A d \in Channels : channelts[d] <= channelts[d]
      /\ users[c] = Cardinality(members[c])
      /\ IsFiniteSet(members[c])
  BY Finite DEF IInv, TypeOK, LinksAgree, CountersAgree
<1>2. CASE Quiet
  BY <1>2 DEF Quiet
<1>3. ASSUME NEW u \in Users, NEW C \in SUBSET chans[u], Leaving(u, C)
      PROVE  channelts'[c] <= channelts[c]
  <2>1. c \notin Freed(C)
    BY <1>3, RemoveUserKeeps DEF Leaving, Freed, Emptied
  <2> QED
    BY <1>1, <1>3, <2>1 DEF Leaving, RemoveUser, Sub1, Free
<1>4. ASSUME NEW u \in Users, NEW e \in Channels,
             JoinRemote(u, e) \/ \E k \in 0..MaxKey : JoinLocal(u, e, k)
      PROVE  channelts'[c] <= channelts[c]
  BY <1>1, <1>4 DEF JoinLocal, JoinRemote
<1>5. ASSUME NEW s \in Users, NEW u \in Users, NEW e \in Channels, Invite(s, u, e)
      PROVE  channelts'[c] <= channelts[c]
  BY <1>1, <1>5 DEF Invite
<1>6. ASSUME NEW s, NEW e \in Channels, ModeOfMember(s, e)
      PROVE  channelts'[c] <= channelts[c]
  BY <1>1, <1>6 DEF ModeOfMember, ModeOp, ModeDeop, ModeVoice, SetFlags
<1>7. ASSUME NEW e \in Channels, NEW N \in (SUBSET Users) \ {{}},
            NEW d \in Descriptions(N), Sjoin(e, d)
      PROVE  channelts'[c] <= channelts[c]
  <2>1. d.ts \in Nat
    BY BoundsAssumption DEF Descriptions
  <2>2. users[c] # 0
    BY <1>1, FS_EmptySet
  <2>3. MergedTS(c, d) <= channelts[c]
    BY <1>1, <2>1, <2>2 DEF MergedTS, IsNew
  <2> QED
    BY <1>1, <1>7, <2>3 DEF Sjoin
<1> QED
  BY <1>2, <1>3, <1>4, <1>5, <1>6, <1>7, Steps DEF FJoin, NoForce

\* A server without an uplink knows its own clients only.
OwnClients == ~Linked => online \subseteq Locals

LEMMA OwnClientsKeeps == IInv /\ OwnClients /\ [Next]_vars => OwnClients'
<1> SUFFICES ASSUME IInv, OwnClients, [Next]_vars, ~Linked PROVE online' \subseteq Locals
  BY DEF OwnClients
<1>1. online \subseteq Locals
  BY DEF OwnClients
<1>2. online' = online => online' \subseteq Locals
  BY <1>1
<1>3. CASE Quiet
  BY <1>1, <1>3 DEF Quiet
<1>4. CASE \E u \in Users : \E C \in SUBSET chans[u] : Leaving(u, C)
  BY <1>1, <1>4 DEF Leaving
<1> QED
  BY <1>2, <1>3, <1>4, Steps, ZenonT(60)
  DEF envVars, JoinLocal, JoinRemote, FJoin, Invite, ModeOfMember, ModeOp, ModeDeop,
      ModeVoice, SetFlags, Sjoin

\* MODE +o passes only from an operator of the channel then, and JOIN gives it to
\* who makes the channel.
LEMMA OpFromOpStep ==
  ~Linked /\ Admins = {} /\ IInv /\ OwnClients /\ [Next]_vars => OpFromOp
<1> SUFFICES ASSUME ~Linked, Admins = {}, IInv, OwnClients, [Next]_vars,
                    NEW c \in Channels, NEW u \in Users, members[c] # {},
                    "op" \notin flags[c][u], "op" \in flags'[c][u]
             PROVE  \E s \in members[c] : "op" \in flags[c][s]
  BY DEF OpFromOp
<1>1. /\ flags \in [Channels -> [Users -> SUBSET Flags]] /\ c \in exists
      /\ flags' # flags
  BY DEF IInv, TypeOK, LinksAgree
<1>2. \A v \in Users : \A C \in SUBSET chans[v] : ~Leaving(v, C)
  BY <1>1 DEF Leaving, RemoveUser
<1>3. \A v \in Users, e \in Channels, k \in 0..MaxKey : ~JoinLocal(v, e, k)
  BY <1>1 DEF JoinLocal
<1>4. \A v \in Users, e \in Channels : ~JoinRemote(v, e)
  BY <1>1 DEF JoinRemote
<1>5. \A a, v \in Users, e \in Channels : ~FJoin(a, v, e) /\ ~Invite(a, v, e)
  BY <1>1 DEF FJoin, Invite, linkVars
<1>6. ASSUME NEW s \in Sources, NEW e \in Channels, ModeOfMember(s, e)
      PROVE  \E v \in members[c] : "op" \in flags[c][v]
  <2>1. s \in online /\ s \in Locals /\ s \in Users /\ s # Server
    BY UsersAssumption DEF Sources, OwnClients, IInv, TypeOK
  <2>2. PICK who \in Users : \/ ModeOp(s, who, e) \/ ModeDeop(s, who, e)
                             \/ \E add \in BOOLEAN : ModeVoice(s, who, e, add)
    BY <1>6 DEF ModeOfMember
  <2>3. PICK fl : SetFlags(e, who, fl) /\ MayTarget(s, who, e)
    BY <2>2 DEF ModeOp, ModeDeop, ModeVoice
  <2>4. flags' = [flags EXCEPT ![e][who] = fl]
    BY <2>3 DEF SetFlags
  <2>5. e = c /\ who = u /\ "op" \in fl
    BY <1>1, <2>4
  <2>6. IsOk(s, c)
    <3>1. ~IsOk(s, c) => SetFlags(c, u, flags[c][u] \cup {"deopped"})
      BY <2>2, <2>5 DEF ModeOp, ModeDeop, ModeVoice
    <3>2. ~SetFlags(c, u, flags[c][u] \cup {"deopped"})
      BY <1>1 DEF SetFlags
    <3> QED
      BY <3>1, <3>2
  <2>7. "op" \in flags[c][s]
    BY <2>1, <2>6 DEF IsOk, IsChop, IsChanOp, FromServer
  <2>8. s \in members[c]
    BY <2>1, <2>3, <2>5 DEF MayTarget, IsMember, IInv, LinksAgree
  <2> QED
    BY <2>7, <2>8
<1> QED
  BY <1>1, <1>2, <1>3, <1>4, <1>5, <1>6, Steps DEF Quiet, Sjoin

LEMMA InitRest ==
  Init => /\ InviteBound /\ InviteIsSpent /\ NoGhostChannel /\ ChannelLimit
          /\ DeoppedIsNotOp /\ OwnClients
<1>1. Cardinality({}) = 0
  BY FS_EmptySet
<1>2. Init => InviteBound /\ ChannelLimit
  BY <1>1, BoundsAssumption, UsersAssumption DEF Init, InviteBound, ChannelLimit
<1>3. Init => InviteIsSpent /\ NoGhostChannel /\ DeoppedIsNotOp /\ OwnClients
  BY DEF Init, InviteIsSpent, NoGhostChannel, DeoppedIsNotOp, OwnClients
<1> QED
  BY <1>2, <1>3

-----------------------------------------------------------------------------
(* The theorems.                                                           *)

LEMMA Invariance == Spec => []IInv
BY InitIInv, NextKeeps, PTL DEF Spec

\* Every list holds clients and channels only, and the counters of members and
\* bans never go below 0.
THEOREM TypeCorrect == Spec => []TypeOK
<1>1. IInv => TypeOK
  BY DEF IInv
<1> QED
  BY <1>1, Invariance, PTL

\* A channel has a client on its list of members exactly when the client has the
\* channel on its own list; a channel with members is in the table and a client
\* with channels is connected, whatever frees them.
THEOREM LinksCorrect == Spec => []LinksAgree
<1>1. IInv => LinksAgree
  BY DEF IInv
<1> QED
  BY <1>1, Invariance, PTL

\* chptr->users, user->joined, num_bed and Count.chan are always the lengths of
\* the lists they stand for.
THEOREM CountersCorrect == Spec => []CountersAgree
<1>1. IInv => CountersAgree
  BY DEF IInv
<1> QED
  BY <1>1, Invariance, PTL

\* The two lists of an invitation agree, and neither side outlives the other.
THEOREM InvitesCorrect == Spec => []InvitesAgree
<1>1. IInv => InvitesAgree
  BY DEF IInv
<1> QED
  BY <1>1, Invariance, PTL

\* Nobody holds more invitations than MAXCHANNELSPERUSER, whoever invites: the list
\* of a client cannot be grown from outside.
THEOREM InvitesBounded == Spec => []InviteBound
<1>1. Init => InviteBound
  BY InitRest
<1> QED
  BY <1>1, Invariance, InviteBoundKeeps, PTL DEF Spec

\* Unless an administrator may give FJOIN, no client holds an invitation to a
\* channel it is on: after a kick it needs a new one.
THEOREM InvitesSpent == ASSUME NoForce PROVE Spec => []InviteIsSpent
<1>1. Init => InviteIsSpent
  BY InitRest
<1>2. IInv /\ InviteIsSpent /\ [Next]_vars => InviteIsSpent'
  BY InviteIsSpentKeeps
<1> QED
  BY <1>1, <1>2, Invariance, PTL DEF Spec

\* On a server without an uplink a channel that is not juped goes with its last
\* member.
THEOREM NoGhosts == ASSUME ~Linked PROVE Spec => []NoGhostChannel
<1>1. Init => NoGhostChannel
  BY InitRest
<1>2. IInv /\ NoGhostChannel /\ [Next]_vars => NoGhostChannel'
  BY NoGhostChannelKeeps
<1> QED
  BY <1>1, <1>2, Invariance, PTL DEF Spec

\* Unless an administrator may give FJOIN, a client of this server is on no more
\* than MAXCHANNELSPERUSER channels, an operator on three times as many.
THEOREM ChannelsLimited == ASSUME NoForce PROVE Spec => []ChannelLimit
<1>1. Init => ChannelLimit
  BY InitRest
<1>2. IInv /\ ChannelLimit /\ [Next]_vars => ChannelLimit'
  BY ChannelLimitKeeps
<1> QED
  BY <1>1, <1>2, Invariance, PTL DEF Spec

\* No operator of a channel carries the mark of one whose status was refused.
THEOREM OpsUnmarked == Spec => []DeoppedIsNotOp
<1>1. Init => DeoppedIsNotOp
  BY InitRest
<1> QED
  BY <1>1, Invariance, DeoppedIsNotOpKeeps, PTL DEF Spec

\* Unless an administrator may give FJOIN, the timestamp of a channel that keeps
\* members only goes down.
THEOREM TimestampsFall == ASSUME NoForce PROVE Spec => [][TSFalls]_vars
<1>1. IInv /\ [Next]_vars => TSFalls
  BY TSFallsStep
<1> QED
  BY <1>1, Invariance, PTL DEF Spec

\* On a server without an uplink and without administrators, nobody becomes operator
\* of a channel that has members but has lost its operators.
THEOREM OpsFromOps == ASSUME ~Linked, Admins = {} PROVE Spec => [][OpFromOp]_vars
<1>1. Init => OwnClients
  BY InitRest
<1>2. IInv /\ OwnClients /\ [Next]_vars => OpFromOp
  BY OpFromOpStep
<1> QED
  BY <1>1, <1>2, Invariance, OwnClientsKeeps, PTL DEF Spec
=============================================================================
