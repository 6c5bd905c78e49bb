----------------------------- MODULE ClientsProofs -----------------------------
(***************************************************************************)
(* The properties of MCClients, for any constants that its parts allow:    *)
(* what NicksProofs and UmodesProofs show of the operations, brought to    *)
(* the parts.                                                              *)
(***************************************************************************)
EXTENDS MCClients, FiniteSetTheorems

-----------------------------------------------------------------------------
(* The constants of each instance are what its module assumes.             *)

LEMMA SmallSets ==
  \A a, b, c, d : IsFiniteSet({a, b}) /\ IsFiniteSet({a, b, c}) /\ IsFiniteSet({a, b, c, d})
<1> TAKE a, b, c, d
<1>1. IsFiniteSet({})
  BY FS_EmptySet
<1>2. IsFiniteSet({a})
  BY <1>1, FS_AddElement, {} \cup {a} = {a}
<1>3. IsFiniteSet({a, b})
  BY <1>2, FS_AddElement, {a} \cup {b} = {a, b}
<1>4. IsFiniteSet({a, b, c})
  BY <1>3, FS_AddElement, {a, b} \cup {c} = {a, b, c}
<1>5. IsFiniteSet({a, b, c, d})
  BY <1>4, FS_AddElement, {a, b, c} \cup {d} = {a, b, c, d}
<1> QED
  BY <1>3, <1>4, <1>5

LEMMA SameFinite ==
  \A D : IsFiniteSet(D) => U!IsFiniteSet(D) /\ S!IsFiniteSet(D) /\ A!IsFiniteSet(D)
BY DEF IsFiniteSet, U!IsFiniteSet, S!IsFiniteSet, A!IsFiniteSet

LEMMA AConstants ==
  /\ A!IsFiniteSet(Clients) /\ NoClient \notin Clients
  /\ NoNick \notin Nicks
  /\ NICKNAMEHISTORYLENGTH \in Nat \ {0}
  /\ KILLCHASETIMELIMIT \in Nat
  /\ Locals \subseteq Clients /\ {root} \subseteq {root} /\ {root} \subseteq Clients
  /\ Linked \in BOOLEAN /\ TRUE \in BOOLEAN /\ FALSE \in BOOLEAN
  /\ 2 \in Nat /\ MAX_NICK_TIME \in Nat /\ MAX_NICK_CHANGES \in Nat
  /\ DOMAIN [c \in Clients |-> c] = Clients
BY SameFinite, WhowasAssumption, NicksAssumption, PartsAssumption

LEMMA UConstants == U!UmodesAssumption /\ U!Calm
<1>1. U!UmodesAssumption
  BY SmallSets, SameFinite, PartsAssumption DEF U!UmodesAssumption, Default, U!Modes
<1>2. U!Calm
  BY DEF U!Calm, Default
<1> QED
  BY <1>1, <1>2

LEMMA SConstants == S!UmodesAssumption
BY SmallSets, SameFinite, PartsAssumption DEF S!UmodesAssumption, S!Modes

-----------------------------------------------------------------------------
(* The inductive invariant: of the part that the behaviour has, the one of *)
(* its proofs.                                                             *)

\* The newest entry of a nick points to the client that gave it up last, to one
\* that has it, or to none.
LastRight ==
  /\ Ordered(hist, CurrentTime)
  /\ \A n \in Nicks :
       Top(hist, n) \subseteq {NoClient, last[n]} \cup {c \in Persons : name[c] = n}

NicksInv == part = "nicks" => IInv /\ LastRight
UplinkInv == part = "uplink" => A!IInv /\ A!UplinkKnows
ModesInv == part = "modes" => U!IInv
ServerInv == part = "server" => S!IInv

LEMMA InitParts == MCInit => NicksInv /\ UplinkInv /\ ModesInv /\ ServerInv
<1>1. ASSUME Init PROVE IInv /\ LastRight
  <2>1. hist = NoHistory /\ CurrentTime \in Nat
    BY <1>1 DEF Init
  <2> QED
    BY <1>1, <2>1, InitIInv, NoHistoryOrdered DEF LastRight
<1>2. Init => A!Init
  BY DEF Init, A!Init, NoHistory, A!NoHistory, Ring, A!Ring, None, A!None
<1>3. A!Init => A!IInv
  BY AConstants, A!InitIInv
<1>4. A!Init => A!UplinkKnows
  BY DEF A!Init, A!UplinkKnows, A!Persons
<1>5. U!Init => U!IInv
  BY UConstants, U!InitHolds
<1>6. S!Init => S!IInv
  BY SConstants, S!InitHolds
<1> QED
  BY <1>1, <1>2, <1>3, <1>4, <1>5, <1>6
  DEF MCInit, NicksInv, UplinkInv, ModesInv, ServerInv

LEMMA NicksStep ==
  ASSUME part = "nicks", NicksInv, part' = part, Next, Remember
  PROVE  NicksInv'
<1>1. IInv /\ LastRight
  BY DEF NicksInv
<1>2. IInv' /\ TopStep
  BY <1>1, NextKeeps, NextTop DEF LastRight
<1>3. ASSUME NEW n \in Nicks
      PROVE  Top(hist', n) \subseteq
               {NoClient, last'[n]} \cup {c \in Persons' : name'[c] = n}
  <2>1. LeftBy(n) = Leavers(n)
    BY DEF LeftBy, Leavers
  <2>2. \A i \in Ring : hist'.entry[i].online \in Persons' \cup {NoClient}
    BY <1>2 DEF IInv, HistoryAgrees, HistoryOf
  <2>3. Top(hist', n) \subseteq Persons' \cup {NoClient}
    <3>1. NewestFirst(hist', hist'.chain[n]) \subseteq Ring
      BY <1>2 DEF NewestFirst, IInv, TypeOK, History
    <3> QED
      BY <2>2, <3>1 DEF Top
  <2>4. CASE LeftBy(n) # {}
    <3>1. Top(hist', n) \subseteq {NoClient} \cup {c \in Persons' : c \in Persons /\ name[c] = n}
      BY <1>2, <2>1, <2>4 DEF TopStep
    <3>2. PICK d \in LeftBy(n) : last'[n] = IF d \in Persons' THEN d ELSE NoClient
      BY <2>4 DEF Remember
    <3>3. ASSUME NEW c \in Persons, name[c] = n PROVE c = d
      BY <1>1, <3>2, <3>3, NicksAssumption, WhowasAssumption
      DEF LeftBy, IInv, NickUnique, Persons
    <3> QED
      BY <3>1, <3>2, <3>3
  <2>5. CASE LeftBy(n) = {}
    <3>1. Top(hist', n) \subseteq
            {NoClient} \cup {c \in Persons' : c \in Persons /\ name[c] = n} \cup Top(hist, n)
      BY <1>2, <2>1, <2>5 DEF TopStep
    <3>2. \A c \in Persons : name[c] = n => c \in Persons' /\ name'[c] = n
      BY <2>5 DEF LeftBy
    <3>3. last[n] = NoClient \/ last[n] \notin Persons' \/ last'[n] = last[n]
      BY <2>5 DEF Remember
    <3>4. Top(hist, n) \subseteq {NoClient, last[n]} \cup {c \in Persons : name[c] = n}
      BY <1>1 DEF LastRight
    <3> QED
      BY <2>3, <3>1, <3>2, <3>3, <3>4
  <2> QED
    BY <2>4, <2>5
<1>4. LastRight'
  BY <1>2, <1>3 DEF LastRight, TopStep
<1> QED
  BY <1>2, <1>4 DEF NicksInv

LEMMA UplinkStep ==
  ASSUME part = "uplink", UplinkInv, part' = part, [A!Next]_(A!vars)
  PROVE  UplinkInv'
<1>1. A!IInv'
  BY AConstants, A!NextKeeps DEF UplinkInv
<1>2. A!UplinkKnows'
  BY AConstants, A!UplinkKnowsKeeps DEF UplinkInv
<1> QED
  BY <1>1, <1>2 DEF UplinkInv

LEMMA ModesStep ==
  ASSUME part = "modes", ModesInv, part' = part, [U!Next]_(U!vars)
  PROVE  ModesInv'
BY UConstants, U!StepKeeps DEF ModesInv

LEMMA ServerStep ==
  ASSUME part = "server", ServerInv, part' = part, [S!Next]_(S!vars)
  PROVE  ServerInv'
BY SConstants, S!StepKeeps DEF ServerInv

LEMMA SameVars ==
  /\ UNCHANGED vars => UNCHANGED A!vars
  /\ UNCHANGED uvars => UNCHANGED <<U!vars, S!vars>>
BY DEF vars, A!vars, uvars, U!vars, S!vars, floodVars, A!floodVars

LEMMA NextParts ==
  NicksInv /\ UplinkInv /\ ModesInv /\ ServerInv /\ [MCNext]_<<part, vars, last, uvars>>
    => NicksInv' /\ UplinkInv' /\ ModesInv' /\ ServerInv'
<1> SUFFICES ASSUME NicksInv, UplinkInv, ModesInv, ServerInv,
                    [MCNext]_<<part, vars, last, uvars>>
             PROVE  NicksInv' /\ UplinkInv' /\ ModesInv' /\ ServerInv'
  OBVIOUS
<1>1. /\ part' = part
      /\ \/ part = "nicks" /\ Next /\ Remember
         \/ UNCHANGED <<vars, last>> /\ part # "uplink" /\ part # "modes" /\ part # "server"
         \/ part = "uplink" /\ [A!Next]_(A!vars)
         \/ part = "modes" /\ [U!Next]_(U!vars)
         \/ part = "server" /\ [S!Next]_(S!vars)
         \/ part \notin {"nicks", "uplink", "modes", "server"}
  <2>1. CASE UNCHANGED <<part, vars, last, uvars>>
    <3>1. part' = part /\ UNCHANGED vars /\ UNCHANGED uvars /\ last' = last
      BY <2>1
    <3> QED
      BY <3>1, SameVars
  <2>2. CASE MCNext
    BY <2>2 DEF MCNext
  <2> QED
    BY <2>1, <2>2
<1>2. CASE part = "nicks"
  <2>1. CASE Next /\ Remember
    BY <1>1, <1>2, <2>1, NicksStep DEF UplinkInv, ModesInv, ServerInv
  <2>2. CASE UNCHANGED <<vars, last>>
    <3>1. [Next]_vars /\ hist' = hist /\ CurrentTime' = CurrentTime /\ Persons' = Persons
          /\ name' = name /\ last' = last
      BY <2>2 DEF vars, Persons
    <3>2. IInv' /\ LastRight'
      BY <1>2, <3>1, NextKeeps DEF NicksInv, LastRight
    <3> QED
      BY <1>1, <1>2, <3>2 DEF NicksInv, UplinkInv, ModesInv, ServerInv
  <2> QED
    BY <1>1, <1>2, <2>1, <2>2
<1>3. CASE part = "uplink"
  BY <1>1, <1>3, UplinkStep DEF NicksInv, ModesInv, ServerInv
<1>4. CASE part = "modes"
  BY <1>1, <1>4, ModesStep DEF NicksInv, UplinkInv, ServerInv
<1>5. CASE part = "server"
  BY <1>1, <1>5, ServerStep DEF NicksInv, UplinkInv, ModesInv
<1>6. CASE part \notin {"nicks", "uplink", "modes", "server"}
  BY <1>1, <1>6 DEF NicksInv, UplinkInv, ModesInv, ServerInv
<1> QED
  BY <1>1, <1>2, <1>3, <1>4, <1>5, <1>6

LEMMA PartsInvariance ==
  MCSpec => [](NicksInv /\ UplinkInv /\ ModesInv /\ ServerInv)
BY InitParts, NextParts, PTL DEF MCSpec

-----------------------------------------------------------------------------
(* The theorems.                                                           *)

\* A KILL for a nick that nobody has follows the client that had it last, if that
\* one is still there, and never an earlier holder (get_history, m_kill), though the
\* ring is written over and clients exit in between.
THEOREM KillCorrect == MCSpec => []KillHitsLastHolder
<1>1. NicksInv => KillHitsLastHolder
  <2> SUFFICES ASSUME part = "nicks", IInv, LastRight, NEW n \in Nicks, Find(n) = {}
               PROVE  Chase(n) \subseteq {last[n]}
    BY DEF NicksInv, KillHitsLastHolder
  <2>1. Chase(n) = {GetHistory(hist, n, CurrentTime)} \ {NoClient}
    BY DEF Chase
  <2>2. GetHistory(hist, n, CurrentTime) \in Top(hist, n) \cup {NoClient}
    BY GetHistoryTop DEF IInv, TypeOK, LastRight
  <2>3. \A c \in Persons : name[c] # n
    BY FindHolders DEF IInv, Persons
  <2> QED
    BY <2>1, <2>2, <2>3 DEF LastRight
<1> QED
  BY <1>1, PartsInvariance, PTL

\* The uplink knows nick and timestamp of every local client, with collisions,
\* KILL and FNICK (sendnick_TS, m_nick, register_user).
THEOREM NicksKnownCorrect == MCSpec => []NicksKnown
<1>1. UplinkInv => NicksKnown
  BY DEF UplinkInv, NicksKnown, A!UplinkKnows, UplinkKnows, A!Persons, Persons
<1> QED
  BY <1>1, PartsInvariance, PTL

\* LUSERS need not correct a counter, whatever MODE, OPER, register_user and
\* exit_client did.
THEOREM CountersCorrect == MCSpec => []CountersRight
<1>1. ModesInv /\ ServerInv => CountersRight
  BY UConstants, SConstants, U!Consequences, S!Consequences
  DEF ModesInv, ServerInv, CountersRight
<1> QED
  BY <1>1, PartsInvariance, PTL

\* Operators are on the list, have their O line and may be +n, and nobody else.
THEOREM OpersCorrect == MCSpec => []OpersAgree
<1>1. ModesInv => OpersAgree
  BY UConstants, U!Consequences DEF ModesInv, OpersAgree
<1> QED
  BY <1>1, PartsInvariance, PTL

\* The uplink knows the modes of every local client, whoever changed them.
THEOREM ModesToldCorrect == MCSpec => []ModesTold
<1>1. ModesInv /\ ServerInv => ModesTold
  BY UConstants, SConstants, U!Consequences, S!Consequences
  DEF ModesInv, ServerInv, ModesTold
<1> QED
  BY <1>1, PartsInvariance, PTL
=============================================================================
