----------------------------- MODULE LinkedProofs -----------------------------
(***************************************************************************)
(* The properties of MCLinked, for any constants that its parts allow: what *)
(* ChannelProofs shows of the operations, brought to the five instances.   *)
(***************************************************************************)
EXTENDS MCLinked

-----------------------------------------------------------------------------
(* The assumptions of Channel hold of the constants of each instance.      *)

LEMMA SmallSets ==
  \A a, b, c, d : /\ IsFiniteSet({a, b}) /\ IsFiniteSet({a, b, c})
                  /\ IsFiniteSet({a, b, c, d})
<1> TAKE a, b, c, d
<1>1. IsFiniteSet({})
  BY FS_EmptySet
<1>2. IsFiniteSet({a})
  BY <1>1, FS_AddElement, {} \cup {a} = {a}
<1>3. IsFiniteSet({a, b})
  BY <1>2, FS_AddElement, {a} \cup {b} = {a, b}
<1>4. IsFiniteSet({a, b, c})
  BY <1>3, FS_AddElement, {a, b} \cup {c} = {a, b, c}
<1>5. IsFiniteSet({a, b, c, d})
  BY <1>4, FS_AddElement, {a, b, c} \cup {d} = {a, b, c, d}
<1> QED
  BY <1>3, <1>4, <1>5

LEMMA BConstants ==
  /\ B!IsFiniteSet(Users) /\ B!IsFiniteSet(Channels)
  /\ Locals \subseteq Users /\ Opers \subseteq Users /\ Admins \subseteq Opers
  /\ Server \notin Users
  /\ MaxLimit \in Nat /\ 1 \in Nat /\ 1 \in Nat
  /\ MAXCHANNELSPERUSER \in Nat \ {0} /\ 1 \in Nat
  /\ Linked \in BOOLEAN /\ FJOIN \in BOOLEAN
  /\ B!IsFiniteSet({wide, narrow})
  /\ TwoHits \in [{wide, narrow} -> SUBSET Users]
  /\ TwoCovers \in [{wide, narrow} -> SUBSET {wide, narrow}]
  /\ \A m \in {wide, narrow} : m \in TwoCovers[m]
<1>1. \A S : IsFiniteSet(S) => B!IsFiniteSet(S)
  BY DEF IsFiniteSet, B!IsFiniteSet
<1>2. IsFiniteSet(Users) /\ IsFiniteSet(Channels) /\ IsFiniteSet({wide, narrow})
  BY SmallSets, UsersAssumption, MasksAssumption
<1> QED
  BY <1>1, <1>2, UsersAssumption, BoundsAssumption, MasksAssumption, PartsAssumption
  DEF TwoHits, TwoCovers

LEMMA TConstants ==
  /\ T!IsFiniteSet({alice, root}) /\ T!IsFiniteSet({c1, c2, c3, c4})
  /\ Locals \subseteq {alice, root} /\ Opers \subseteq {alice, root} /\ {} \subseteq Opers
  /\ Server \notin {alice, root}
  /\ MaxLimit \in Nat /\ MaxKey \in Nat /\ 1 \in Nat
  /\ MAXCHANNELSPERUSER \in Nat \ {0} /\ MAXBANS \in Nat
  /\ FALSE \in BOOLEAN /\ TRUE \in BOOLEAN
  /\ T!IsFiniteSet(Masks)
  /\ Hits \in [Masks -> SUBSET {alice, root}]
  /\ Covers \in [Masks -> SUBSET Masks]
  /\ \A m \in Masks : m \in Covers[m]
<1>1. \A S : IsFiniteSet(S) => T!IsFiniteSet(S)
  BY DEF IsFiniteSet, T!IsFiniteSet
<1>2. IsFiniteSet({alice, root}) /\ IsFiniteSet({c1, c2, c3, c4}) /\ IsFiniteSet(Masks)
  BY SmallSets, UsersAssumption, MasksAssumption
<1> QED
  BY <1>1, <1>2, UsersAssumption, BoundsAssumption, MasksAssumption, PartsAssumption
  DEF TwoHits, TwoCovers

LEMMA AConstants ==
  /\ A!IsFiniteSet({alice, bob, root}) /\ A!IsFiniteSet({c1, c2})
  /\ {alice, bob, root} \subseteq {alice, bob, root} /\ Opers \subseteq {alice, bob, root} /\ {} \subseteq Opers
  /\ Server \notin {alice, bob, root}
  /\ MaxLimit \in Nat /\ MaxKey \in Nat /\ 1 \in Nat
  /\ MAXCHANNELSPERUSER \in Nat \ {0} /\ MAXBANS \in Nat
  /\ FALSE \in BOOLEAN /\ FJOIN \in BOOLEAN
  /\ A!IsFiniteSet(Masks)
  /\ Hits \in [Masks -> SUBSET {alice, bob, root}]
  /\ Covers \in [Masks -> SUBSET Masks]
  /\ \A m \in Masks : m \in Covers[m]
<1>1. \A S : IsFiniteSet(S) => A!IsFiniteSet(S)
  BY DEF IsFiniteSet, A!IsFiniteSet
<1>2. IsFiniteSet({alice, bob, root}) /\ IsFiniteSet({c1, c2}) /\ IsFiniteSet(Masks)
  BY SmallSets, UsersAssumption, MasksAssumption
<1> QED
  BY <1>1, <1>2, UsersAssumption, BoundsAssumption, MasksAssumption, PartsAssumption
  DEF TwoHits, TwoCovers

LEMMA FConstants ==
  /\ F!IsFiniteSet({alice, root}) /\ F!IsFiniteSet({c1, c2})
  /\ Locals \subseteq {alice, root} /\ Opers \subseteq {alice, root} /\ Admins \subseteq Opers
  /\ Server \notin {alice, root}
  /\ 1 \in Nat /\ MaxKey \in Nat /\ 1 \in Nat
  /\ MAXCHANNELSPERUSER \in Nat \ {0} /\ MAXBANS \in Nat
  /\ FALSE \in BOOLEAN /\ TRUE \in BOOLEAN
  /\ F!IsFiniteSet(Masks)
  /\ Hits \in [Masks -> SUBSET {alice, root}]
  /\ Covers \in [Masks -> SUBSET Masks]
  /\ \A m \in Masks : m \in Covers[m]
<1>1. \A S : IsFiniteSet(S) => F!IsFiniteSet(S)
  BY DEF IsFiniteSet, F!IsFiniteSet
<1>2. IsFiniteSet({alice, root}) /\ IsFiniteSet({c1, c2}) /\ IsFiniteSet(Masks)
  BY SmallSets, UsersAssumption, MasksAssumption
<1> QED
  BY <1>1, <1>2, UsersAssumption, BoundsAssumption, MasksAssumption, PartsAssumption
  DEF TwoHits, TwoCovers

-----------------------------------------------------------------------------
(* The inductive invariant: of the part that the behaviour has, the one of *)
(* ChannelProofs and what is stated of the part.                           *)

LinkedInv ==
  part = "linked" => IInv /\ InviteIsSpent /\ InviteBound /\ DeoppedIsNotOp
BansInv ==
  part = "bans" => B!IInv /\ B!InviteIsSpent /\ B!InviteBound /\ B!DeoppedIsNotOp
LimitInv ==
  part = "limit" => T!IInv /\ T!ChannelLimit /\ T!OwnClients
AloneInv ==
  part = "alone" => A!IInv /\ A!NoGhostChannel
ForcedInv ==
  part = "forced" => F!IInv /\ F!NoGhostChannel

LEMMA LinkedKeeps ==
  ASSUME part = "linked", LinkedInv, part' = part, [Next]_vars
  PROVE  LinkedInv' /\ TSFalls
<1>1. NoForce
  BY PartsAssumption DEF NoForce
<1> QED
  BY <1>1, NextKeeps, InviteIsSpentKeeps, InviteBoundKeeps, DeoppedIsNotOpKeeps, TSFallsStep
  DEF LinkedInv

LEMMA BansKeeps ==
  ASSUME part = "bans", BansInv, part' = part, [B!Next]_(B!vars)
  PROVE  BansInv' /\ B!TSFalls
<1>1. B!NoForce
  BY PartsAssumption DEF B!NoForce
<1>2. B!IInv'
  BY BConstants, B!NextKeeps DEF BansInv
<1>3. B!InviteIsSpent' /\ B!InviteBound' /\ B!DeoppedIsNotOp'
  BY <1>1, BConstants, B!InviteIsSpentKeeps, B!InviteBoundKeeps, B!DeoppedIsNotOpKeeps
  DEF BansInv
<1>4. B!TSFalls
  BY <1>1, BConstants, B!TSFallsStep DEF BansInv
<1> QED
  BY <1>2, <1>3, <1>4 DEF BansInv

LEMMA LimitKeeps ==
  ASSUME part = "limit", LimitInv, part' = part, [T!Next]_(T!vars)
  PROVE  LimitInv' /\ T!OpFromOp
<1>1. T!NoForce
  BY DEF T!NoForce
<1>2. T!IInv'
  BY TConstants, T!NextKeeps DEF LimitInv
<1>3. T!ChannelLimit' /\ T!OwnClients'
  BY <1>1, TConstants, T!ChannelLimitKeeps, T!OwnClientsKeeps DEF LimitInv
<1>4. T!OpFromOp
  BY TConstants, T!OpFromOpStep DEF LimitInv
<1> QED
  BY <1>2, <1>3, <1>4 DEF LimitInv

LEMMA AloneKeeps ==
  ASSUME part = "alone", AloneInv, part' = part, [A!Next]_(A!vars)
  PROVE  AloneInv'
<1>1. A!IInv'
  BY AConstants, A!NextKeeps DEF AloneInv
<1>2. A!NoGhostChannel'
  BY AConstants, A!NoGhostChannelKeeps DEF AloneInv
<1> QED
  BY <1>1, <1>2 DEF AloneInv

LEMMA ForcedKeeps ==
  ASSUME part = "forced", ForcedInv, part' = part, [F!Next]_(F!vars)
  PROVE  ForcedInv'
<1>1. F!IInv'
  BY FConstants, F!NextKeeps DEF ForcedInv
<1>2. F!NoGhostChannel'
  BY FConstants, F!NoGhostChannelKeeps DEF ForcedInv
<1> QED
  BY <1>1, <1>2 DEF ForcedInv

LEMMA InitParts == MCInit => LinkedInv /\ BansInv /\ LimitInv /\ AloneInv /\ ForcedInv
<1>1. Init => IInv /\ InviteIsSpent /\ InviteBound /\ DeoppedIsNotOp
  BY InitIInv, InitRest
<1>2. Init => B!IInv /\ B!InviteIsSpent /\ B!InviteBound /\ B!DeoppedIsNotOp
  <2>1. Init => B!Init
    BY DEF Init, B!Init
  <2> QED
    BY <2>1, BConstants, B!InitIInv, B!InitRest
<1>3. T!Init => T!IInv /\ T!ChannelLimit /\ T!OwnClients
  BY TConstants, T!InitIInv, T!InitRest
<1>4. A!Init => A!IInv /\ A!NoGhostChannel
  BY AConstants, A!InitIInv, A!InitRest
<1>5. F!Init => F!IInv /\ F!NoGhostChannel
  BY FConstants, F!InitIInv, F!InitRest
<1> QED
  BY <1>1, <1>2, <1>3, <1>4, <1>5 DEF MCInit, LinkedInv, BansInv, LimitInv, AloneInv, ForcedInv

LEMMA SameVars ==
  UNCHANGED vars => UNCHANGED <<B!vars, T!vars, A!vars, F!vars>>
BY DEF vars, B!vars, T!vars, A!vars, F!vars, envVars, tableVars, linkVars, inviteVars, modeVars,
  banVars, B!envVars, B!tableVars, B!linkVars, B!inviteVars, B!modeVars, B!banVars,
  T!envVars, T!tableVars, T!linkVars, T!inviteVars, T!modeVars, T!banVars,
  A!envVars, A!tableVars, A!linkVars, A!inviteVars, A!modeVars, A!banVars,
  F!envVars, F!tableVars, F!linkVars, F!inviteVars, F!modeVars, F!banVars

\* The bounds of B do not enter TSFalls.
LEMMA SameFalls == B!TSFalls => TSFalls
BY DEF B!TSFalls, TSFalls

LEMMA NextParts ==
  LinkedInv /\ BansInv /\ LimitInv /\ AloneInv /\ ForcedInv /\ [MCNext]_<<part, vars>>
    => /\ LinkedInv' /\ BansInv' /\ LimitInv' /\ AloneInv' /\ ForcedInv'
       /\ IF part = "limit" THEN T!OpFromOp
          ELSE part \in {"linked", "bans"} => TSFalls
<1> SUFFICES ASSUME LinkedInv, BansInv, LimitInv, AloneInv, ForcedInv, [MCNext]_<<part, vars>>
             PROVE  /\ LinkedInv' /\ BansInv' /\ LimitInv' /\ AloneInv' /\ ForcedInv'
                    /\ IF part = "limit" THEN T!OpFromOp
                       ELSE part \in {"linked", "bans"} => TSFalls
  OBVIOUS
<1>1. /\ part' = part
      /\ \/ part = "linked" /\ [Next]_vars
         \/ part = "bans" /\ [B!Next]_(B!vars)
         \/ part = "limit" /\ [T!Next]_(T!vars)
         \/ part = "alone" /\ [A!Next]_(A!vars)
         \/ part = "forced" /\ [F!Next]_(F!vars)
         \/ part \notin {"linked", "bans", "limit", "alone", "forced"}
  BY SameVars DEF MCNext
<1>2. CASE part = "linked"
  BY <1>1, <1>2, LinkedKeeps DEF BansInv, LimitInv, AloneInv, ForcedInv
<1>3. CASE part = "bans"
  BY <1>1, <1>3, BansKeeps, SameFalls DEF LinkedInv, LimitInv, AloneInv, ForcedInv
<1>4. CASE part = "limit"
  BY <1>1, <1>4, LimitKeeps DEF LinkedInv, BansInv, AloneInv, ForcedInv
<1>5. CASE part = "alone"
  BY <1>1, <1>5, AloneKeeps DEF LinkedInv, BansInv, LimitInv, ForcedInv
<1>6. CASE part = "forced"
  BY <1>1, <1>6, ForcedKeeps DEF LinkedInv, BansInv, LimitInv, AloneInv
<1>7. CASE part \notin {"linked", "bans", "limit", "alone", "forced"}
  BY <1>1, <1>7 DEF LinkedInv, BansInv, LimitInv, AloneInv, ForcedInv
<1> QED
  BY <1>2, <1>3, <1>4, <1>5, <1>6, <1>7

LEMMA PartsInvariance == MCSpec => [](LinkedInv /\ BansInv /\ LimitInv /\ AloneInv /\ ForcedInv)
BY InitParts, NextParts, PTL DEF MCSpec

-----------------------------------------------------------------------------
(* The theorems.                                                           *)

\* On a leaf and its uplink the two sides of every list agree, invitations are
\* bounded and spent, and no operator is marked, with and without bans.
THEOREM LinkedCorrect == MCSpec => []LinkedAgrees
<1>1. LinkedInv /\ BansInv => LinkedAgrees
  <2>1. B!IInv => LinksAgree /\ CountersAgree /\ InvitesAgree
    <3>1. \A S : B!Cardinality(S) = Cardinality(S)
      BY DEF B!Cardinality, Cardinality
    <3> QED
      BY <3>1 DEF B!IInv, B!LinksAgree, B!CountersAgree, B!InvitesAgree,
         LinksAgree, CountersAgree, InvitesAgree
  <2>2. /\ B!InviteIsSpent => InviteIsSpent
        /\ B!DeoppedIsNotOp => DeoppedIsNotOp
    BY DEF B!InviteIsSpent, B!DeoppedIsNotOp, InviteIsSpent, DeoppedIsNotOp
  <2>3. B!InviteBound => InviteBound
    <3>1. \A S : B!Cardinality(S) = Cardinality(S)
      BY DEF B!Cardinality, Cardinality
    <3> QED
      BY <3>1 DEF B!InviteBound, InviteBound
  <2> QED
    BY <2>1, <2>2, <2>3 DEF LinkedInv, BansInv, IInv, LinkedAgrees
<1> QED
  BY <1>1, PartsInvariance, PTL

\* No client is on more channels than it may join, in the instance with more
\* channels than that.
THEOREM LimitCorrect == MCSpec => []LimitKept
<1>1. LimitInv => LimitKept
  BY DEF LimitInv, LimitKept
<1> QED
  BY <1>1, PartsInvariance, PTL

\* On a server of its own no channel outlives its members, FJOIN or not.
THEOREM AloneCorrect == MCSpec => []AloneAgrees
<1>1. AloneInv /\ ForcedInv => AloneAgrees
  BY DEF AloneInv, ForcedInv, AloneAgrees, A!IInv, F!IInv
<1> QED
  BY <1>1, PartsInvariance, PTL

\* Timestamps only fall, and operators come from operators.
THEOREM StatusCorrect == MCSpec => StatusRightly
<1>1. MCSpec => [][LinkedInv /\ BansInv /\ LimitInv /\ AloneInv /\ ForcedInv /\ MCNext]_<<part, vars>>
  BY PartsInvariance, PTL DEF MCSpec
<1>2. [LinkedInv /\ BansInv /\ LimitInv /\ AloneInv /\ ForcedInv /\ MCNext]_<<part, vars>>
        => [IF part = "limit" THEN T!OpFromOp
            ELSE part \in {"linked", "bans"} => TSFalls]_<<part, vars>>
  BY NextParts
<1> QED
  BY <1>1, <1>2, PTL DEF StatusRightly
=============================================================================
