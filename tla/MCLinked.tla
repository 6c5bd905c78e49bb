------------------------------- MODULE MCLinked -------------------------------
(* More instances of Channel for TLC.  A behaviour has one part for good:   *)
(*   "linked"  a leaf and its uplink, invitations, no FJOIN: the constants  *)
(*             of the configuration;                                        *)
(*   "bans"    the same with keys and bans;                                 *)
(*   "limit"   no uplink, and more channels than the clients may join;      *)
(*   "alone"   no uplink, three clients, two channels;                      *)
(*   "forced"  no uplink, an administrator, a client and FJOIN.             *)
EXTENDS ChannelProofs, TLC

CONSTANTS alice, bob, root, rem, c1, c2, c3, c4, wide, narrow

VARIABLE part

\* What the constants of the configuration have to be for the parts below.
ASSUME PartsAssumption ==
  /\ Users = {alice, root, rem} /\ Locals = {alice, root} /\ Opers \subseteq Locals
  /\ Server # bob
  /\ ~FJOIN
  /\ \A m \in Masks : Hits[m] \subseteq {alice, root}
  /\ wide # narrow

NoMasks == {}
NoHits == [m \in {} |-> {}]
MCSymmetry == Permutations({alice, bob}) \cup Permutations({c1, c2, c3, c4})

\* Of the two masks the first matches the second and every user.
TwoHits == [m \in {wide, narrow} |-> IF m = wide THEN {alice, root, rem} ELSE {alice}]
TwoCovers == [m \in {wide, narrow} |-> IF m = wide THEN {wide, narrow} ELSE {narrow}]
B == INSTANCE ChannelProofs WITH
  Letters <- {}, MaxKey <- 1, MaxTS <- 1, MAXBANS <- 1,
  Masks <- {wide, narrow}, Hits <- TwoHits, Covers <- TwoCovers

T == INSTANCE ChannelProofs WITH
  Users <- {alice, root}, Admins <- {}, Linked <- FALSE,
  Channels <- {c1, c2, c3, c4}, Letters <- {}, MaxTS <- 1,
  FJOIN <- TRUE

A == INSTANCE ChannelProofs WITH
  Users <- {alice, bob, root}, Locals <- {alice, bob, root}, Admins <- {},
  Linked <- FALSE, Channels <- {c1, c2}, MaxTS <- 1

F == INSTANCE ChannelProofs WITH
  Users <- {alice, root}, Linked <- FALSE, Channels <- {c1, c2}, MaxLimit <- 1,
  MaxTS <- 1, FJOIN <- TRUE

MCInit ==
  \/ part \in {"linked", "bans"} /\ Init
  \/ part = "limit" /\ T!Init
  \/ part = "alone" /\ A!Init
  \/ part = "forced" /\ F!Init

MCNext ==
  /\ UNCHANGED part
  /\ \/ part = "linked" /\ Next
     \/ part = "bans" /\ B!Next
     \/ part = "limit" /\ T!Next
     \/ part = "alone" /\ A!Next
     \/ part = "forced" /\ F!Next

MCSpec == MCInit /\ [][MCNext]_<<part, vars>>

\* On a leaf with its uplink the lists and counters agree as they do on a
\* server of its own (LinksAgree, CountersAgree, InvitesAgree), whatever
\* SJOIN, JOIN, KICK and MODE come over the link; an invitation is spent by
\* joining (InviteIsSpent) and they are bounded (InviteBound); and the mark that
\* m_sjoin leaves on a client whose status it refused is gone once the client is
\* operator (DeoppedIsNotOp).
LinkedAgrees ==
  part \in {"linked", "bans"} =>
    /\ LinksAgree /\ CountersAgree /\ InvitesAgree
    /\ InviteIsSpent /\ InviteBound /\ DeoppedIsNotOp

\* ChannelLimit, of the instance with more channels than anyone may join.
LimitKept == part = "limit" => T!ChannelLimit

\* "The channel ceases to exist when the last client leaves it"
\* (docs/RFC1459:255): NoGhostChannel, of a server of its own, on which LinksAgree,
\* CountersAgree and InvitesAgree hold too when FJOIN forces its way in.
AloneAgrees ==
  /\ part = "alone" =>
       A!LinksAgree /\ A!CountersAgree /\ A!InvitesAgree /\ A!NoGhostChannel
  /\ part = "forced" =>
       F!LinksAgree /\ F!CountersAgree /\ F!InvitesAgree /\ F!NoGhostChannel

\* The timestamp of a channel with members only ever goes down (TSFalls), and
\* on a server of its own operators come from operators (OpFromOp).
StatusRightly ==
  [][IF part = "limit" THEN T!OpFromOp
    ELSE part \in {"linked", "bans"} => TSFalls]_<<part, vars>>
=============================================================================
