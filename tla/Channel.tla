------------------------------- MODULE Channel -------------------------------
(***************************************************************************)
(* The channel records of one server: src/channel.c, with the handler of   *)
(* the MODE command (src/m_mode.c) and the part of exit_one_client         *)
(* (src/client.c) that takes a departing client off its channels.          *)
(*                                                                         *)
(* A channel and a user each keep their own list of the other (members and *)
(* user->channel, invites and user->invited) and their own counter, and    *)
(* every handler has to change both sides.  The lists are variables of     *)
(* their own here, so that a handler that forgets one side is visible.     *)
(*                                                                         *)
(* Abstractions.  Names, masks and keys are members of small sets, a MODE  *)
(* command carries one change, links in a list have no order (the head of  *)
(* a list is any element), user privileges do not change.                  *)
(***************************************************************************)
EXTENDS Integers, FiniteSets

CONSTANTS
  Users,              \* clients with a struct User
  Locals,             \* those connected to this server: MyClient
  Opers,              \* IsEmpowered: local and global operators, administrators
  Admins,             \* IsAdmin: umode +a
  Server,             \* a server as the source of a command
  Linked,             \* whether the uplink is there: a leaf has at most one
  Channels,           \* channel names
  Letters,            \* the modes without a parameter that are modelled
  MaxLimit,           \* largest argument of MODE +l
  MaxKey,             \* channel keys are 1..MaxKey in the order of strcmp;
                      \* 0 is the empty string
  Masks,              \* ban masks
  Hits,               \* Hits[m]: the users that mask m matches
  Covers,             \* Covers[m]: the masks that m matches, read as strings
  MaxTS,              \* bound on the clock and on received timestamps
  FJOIN,              \* config.h: whether FJOIN is compiled in
  MAXCHANNELSPERUSER, \* config.h
  MAXBANS             \* ircd_defs.h

Flags == {"op", "voice", "deopped"}

ASSUME UsersAssumption ==
  /\ IsFiniteSet(Users) /\ IsFiniteSet(Channels)
  /\ Locals \subseteq Users /\ Opers \subseteq Users /\ Admins \subseteq Opers
  /\ Server \notin Users

ASSUME BoundsAssumption ==
  /\ MaxLimit \in Nat /\ MaxKey \in Nat /\ MaxTS \in Nat
  /\ MAXCHANNELSPERUSER \in Nat \ {0} /\ MAXBANS \in Nat
  /\ Linked \in BOOLEAN /\ FJOIN \in BOOLEAN

ASSUME MasksAssumption ==
  /\ IsFiniteSet(Masks)
  /\ Hits \in [Masks -> SUBSET Users]
  /\ Covers \in [Masks -> SUBSET Masks]
  /\ \A m \in Masks : m \in Covers[m]

VARIABLES
  CurrentTime,
  online,      \* registered clients, in the client hash table
  exists,      \* the channel hash table and the global channel list
  chanCount,   \* Count.chan
  members,     \* members[c]: clients on the list chptr->members
  users,       \* chptr->users
  flags,       \* flags[c][u]: the flags of u's link in chptr->members
  chans,       \* chans[u]: channels on the list sptr->user->channel
  joined,      \* sptr->user->joined
  invites,     \* invites[c]: clients on chptr->invites
  invited,     \* invited[u]: channels on sptr->user->invited
  mode,        \* chptr->mode.mode: the letters that are set
  limit,       \* chptr->mode.limit, 0 for none
  key,         \* chptr->mode.key
  banlist,     \* chptr->banlist
  num_bed,     \* chptr->num_bed
  juped,       \* chptr->juped
  channelts    \* chptr->channelts

linkVars   == <<members, flags, chans, joined, users>>
tableVars  == <<exists, chanCount>>
inviteVars == <<invites, invited>>
modeVars   == <<mode, limit, key>>
banVars    == <<banlist, num_bed>>
envVars    == <<CurrentTime, online>>
vars == <<envVars, tableVars, linkVars, inviteVars, modeVars, banVars,
          juped, channelts>>

-----------------------------------------------------------------------------
(* Who may do what.  A definition marked "faulty" is the next one with a   *)
(* plausible slip; no action uses it, and the properties tell them apart.  *)

Sources == online \cup (IF Linked THEN {Server} ELSE {})
FromServer(s) == s = Server \/ s \notin Locals     \* IsServer(cptr)

IsMember(u, c) == c \in chans[u]
IsChanOp(s, c) == s # Server /\ "op" \in flags[c][s]

\* ischop, isdeop and isok of set_channel_mode.
IsChop(s, c) == s = Server \/ IsChanOp(s, c) \/ s \in Admins
IsDeop(s, c) == ~IsChop(s, c) /\ "deopped" \in flags[c][s]
IsOk(s, c) == \/ IsChop(s, c)
              \/ ~IsDeop(s, c) /\ FromServer(s) /\ channelts[c] # 0

IsBanned(u, c) == \E m \in banlist[c] : u \in Hits[m]

\* can_join = 0 for a client that gives the key k.
CanJoin(u, c, k) ==
  /\ ~juped[c]
  /\ \/ u \in Admins
     \/ /\ ~IsBanned(u, c)
        /\ "i" \in mode[c] => c \in invited[u]
        /\ key[c] # 0 => k = key[c]
        /\ limit[c] # 0 => users[c] < limit[c]

TooManyOffByOne(u) ==                                         \* faulty
  joined[u] > MAXCHANNELSPERUSER
TooManyChannels(u) ==
  /\ joined[u] >= MAXCHANNELSPERUSER
  /\ u \notin Opers \/ joined[u] >= 3 * MAXCHANNELSPERUSER

-----------------------------------------------------------------------------
(* The list operations that the handlers share.                            *)

\* get_channel with CREATE: the record is zeroed and put in the table.
CreateCountsTwice(c) ==                                       \* faulty
  /\ exists' = exists \cup {c}
  /\ chanCount' = chanCount + 1
Create(c) ==
  /\ exists' = exists \cup {c}
  /\ chanCount' = IF c \in exists THEN chanCount ELSE chanCount + 1

\* add_user_to_channel for each user of U; the caller sets the flags.
AddUsers(c, U) ==
  /\ members' = [members EXCEPT ![c] = @ \cup U]
  /\ users' = [users EXCEPT ![c] = @ + Cardinality(U)]
  /\ chans' = [u \in Users |-> IF u \in U THEN chans[u] \cup {c} ELSE chans[u]]
  /\ joined' = [u \in Users |-> IF u \in U THEN joined[u] + 1 ELSE joined[u]]

\* del_invite on both lists, for every user of U and channel of C.
DelInvites(U, C) ==
  /\ invites' = [c \in Channels |->
                   IF c \in C THEN invites[c] \ U ELSE invites[c]]
  /\ invited' = [u \in Users |->
                   IF u \in U THEN invited[u] \ C ELSE invited[u]]

\* add_invite, after its call of del_invite: at MAXCHANNELSPERUSER invitations
\* the one at the head of the client's list goes.
ListFull(S) == Cardinality(S) >= MAXCHANNELSPERUSER
AddInvite(u, c) ==
  LET others == invited[u] \ {c} IN
  \/ /\ ~ListFull(others)
     /\ invited' = [invited EXCEPT ![u] = others \cup {c}]
     /\ invites' = [invites EXCEPT ![c] = @ \cup {u}]
  \/ /\ ListFull(others)
     /\ \E head \in others :
          /\ invited' = [invited EXCEPT ![u] = (others \ {head}) \cup {c}]
          /\ invites' = [d \in Channels |->
                           CASE d = head -> invites[d] \ {u}
                             [] d = c    -> invites[d] \cup {u}
                             [] OTHER    -> invites[d]]

\* MyFree of a channel record: what a later CREATE of the name starts from.
Free(C) ==
  /\ exists' = exists \ C
  /\ chanCount' = chanCount - Cardinality(C)
  /\ mode' = [c \in Channels |-> IF c \in C THEN {} ELSE mode[c]]
  /\ limit' = [c \in Channels |-> IF c \in C THEN 0 ELSE limit[c]]
  /\ key' = [c \in Channels |-> IF c \in C THEN 0 ELSE key[c]]
  /\ banlist' = [c \in Channels |-> IF c \in C THEN {} ELSE banlist[c]]
  /\ num_bed' = [c \in Channels |-> IF c \in C THEN 0 ELSE num_bed[c]]
  /\ channelts' = [c \in Channels |-> IF c \in C THEN 0 ELSE channelts[c]]

\* sub1_from_channel: the channels of C whose last member is going.
EmptiedTooLate(C) == {c \in C : users[c] - 1 < 0}             \* faulty
Emptied(C) == {c \in C : users[c] - 1 <= 0}
FreedWithMembers(C) == {c \in C : ~juped[c]}                  \* faulty
Freed(C) == {c \in Emptied(C) : ~juped[c]}
BelowZero(n) == n - 1                                         \* faulty
OneLess(n) == IF n - 1 <= 0 THEN 0 ELSE n - 1
Sub1(C) ==
  /\ users' = [c \in Channels |-> IF c \in C THEN OneLess(users[c]) ELSE users[c]]
  /\ Free(Freed(C))
  /\ UNCHANGED juped

\* remove_user_from_channel for each channel of C.
RemoveUser(u, C) ==
  /\ members' = [c \in Channels |->
                   IF c \in C THEN members[c] \ {u} ELSE members[c]]
  /\ flags' = [c \in Channels |->
                 IF c \in C THEN [flags[c] EXCEPT ![u] = {}] ELSE flags[c]]
  /\ chans' = [chans EXCEPT ![u] = @ \ C]
  /\ joined' = [joined EXCEPT ![u] = @ - Cardinality(C)]
  /\ Sub1(C)

-----------------------------------------------------------------------------
Init ==
  /\ CurrentTime = 1 /\ online = {}
  /\ exists = {} /\ chanCount = 0
  /\ members = [c \in Channels |-> {}]
  /\ users = [c \in Channels |-> 0]
  /\ flags = [c \in Channels |-> [u \in Users |-> {}]]
  /\ chans = [u \in Users |-> {}]
  /\ joined = [u \in Users |-> 0]
  /\ invites = [c \in Channels |-> {}]
  /\ invited = [u \in Users |-> {}]
  /\ mode = [c \in Channels |-> {}]
  /\ limit = [c \in Channels |-> 0]
  /\ key = [c \in Channels |-> 0]
  /\ banlist = [c \in Channels |-> {}]
  /\ num_bed = [c \in Channels |-> 0]
  /\ juped = [c \in Channels |-> FALSE]
  /\ channelts = [c \in Channels |-> 0]

Tick ==
  /\ CurrentTime < MaxTS
  /\ CurrentTime' = CurrentTime + 1
  /\ UNCHANGED <<online, tableVars, linkVars, inviteVars, modeVars, banVars,
                 juped, channelts>>

\* register_user: a client of this server, or one that a server introduces.
Register(u) ==
  /\ u \notin online
  /\ u \in Locals \/ Linked
  /\ online' = online \cup {u}
  /\ UNCHANGED <<CurrentTime, tableVars, linkVars, inviteVars, modeVars,
                 banVars, juped, channelts>>

\* exit_one_client: off every channel, then off every invitation list.
ExitClient(u) ==
  /\ u \in online
  /\ online' = online \ {u}
  /\ RemoveUser(u, chans[u])
  /\ LET emptied == Emptied(chans[u]) IN
     /\ invites' = [c \in Channels |->
                      IF c \in emptied THEN {} ELSE invites[c] \ {u}]
     /\ invited' = [v \in Users |->
                      IF v = u THEN {} ELSE invited[v] \ emptied]
  /\ UNCHANGED CurrentTime

\* JOIN by a client of this server.  The first to enter a channel that does
\* not exist becomes its operator and gives it +nt and its timestamp; an
\* administrator is an operator of whatever it enters.
JoinLocal(u, c, k) ==
  LET create == c \notin exists
      isop   == create \/ u \in Admins
      first  == create /\ u \notin Admins
  IN
  /\ u \in online \cap Locals
  /\ ~TooManyChannels(u)
  /\ ~IsMember(u, c)
  /\ create \/ CanJoin(u, c, k)
  /\ Create(c)
  /\ AddUsers(c, {u})
  /\ flags' = [flags EXCEPT ![c][u] = IF isop THEN {"op"} ELSE {}]
  /\ channelts' = [channelts EXCEPT ![c] = IF create THEN CurrentTime ELSE @]
  /\ mode' = [mode EXCEPT ![c] =
                IF first THEN {"n", "t"} \cap Letters ELSE @]
  /\ DelInvites({u}, {c})
  /\ UNCHANGED <<envVars, limit, key, banVars, juped>>

\* JOIN of a remote client, passed on by its server: no conditions apply.
JoinRemote(u, c) ==
  LET create == c \notin exists IN
  /\ u \in online \ Locals
  /\ ~IsMember(u, c)
  /\ Create(c)
  /\ AddUsers(c, {u})
  /\ flags' = [flags EXCEPT ![c][u] = IF u \in Admins THEN {"op"} ELSE {}]
  /\ channelts' = [channelts EXCEPT ![c] = IF create THEN CurrentTime ELSE @]
  /\ UNCHANGED <<envVars, inviteVars, modeVars, banVars, juped>>

\* FJOIN: a local administrator puts a local client on a channel, past every
\* condition of can_join, and restarts the channel's timestamp.
FJoin(a, u, c) ==
  /\ FJOIN
  /\ a \in online \cap Locals \cap Admins
  /\ u \in (online \cap Locals) \ Admins
  /\ ~IsMember(u, c)
  /\ Create(c)
  /\ AddUsers(c, {u})
  /\ flags' = [flags EXCEPT ![c][u] = {}]
  /\ channelts' = [channelts EXCEPT ![c] = CurrentTime]
  /\ UNCHANGED <<envVars, inviteVars, modeVars, banVars, juped>>

\* What PART, JOIN 0 and KICK have in common.
LeaveKeepsJupedInvites(u, C) ==                               \* faulty
  /\ RemoveUser(u, C)
  /\ DelInvites(Users, Freed(C))
  /\ UNCHANGED envVars
Leave(u, C) ==
  /\ RemoveUser(u, C)
  /\ DelInvites(Users, Emptied(C))
  /\ UNCHANGED envVars

Part(u, c) ==
  /\ u \in online
  /\ IsMember(u, c)
  /\ Leave(u, {c})

JoinZero(u) ==
  /\ u \in online
  /\ chans[u] # {}
  /\ Leave(u, chans[u])

\* A remote client that is no operator here may still be one at its own
\* server, so its KICK passes on a channel with a timestamp.
Kick(s, who, c) ==
  /\ s \in Sources
  /\ c \in exists
  /\ \/ IsChop(s, c)
     \/ FromServer(s) /\ channelts[c] # 0
  /\ IsMember(who, c) /\ who \notin Admins
  /\ Leave(who, {c})

\* INVITE leaves a link only on an invite-only channel, for a local client.
MayInvite(s, u, c) == IsMember(s, c) /\ ~IsMember(u, c)
NeedInvite(c) == "i" \in mode[c]
Invite(s, u, c) ==
  /\ s \in online /\ u \in online
  /\ c \in exists
  /\ MayInvite(s, u, c)
  /\ NeedInvite(c) /\ IsChanOp(s, c)
  /\ u \in Locals
  /\ AddInvite(u, c)
  /\ UNCHANGED <<envVars, tableVars, linkVars, modeVars, banVars, juped,
                 channelts>>

-----------------------------------------------------------------------------
(* set_channel_mode, one change to a command.                              *)

MayTarget(s, who, c) ==
  /\ s \in Sources /\ c \in exists
  /\ s \in Locals => IsMember(s, c)
  /\ IsMember(who, c)

SetFlags(c, who, fl) ==
  /\ flags' = [flags EXCEPT ![c][who] = fl]
  /\ UNCHANGED <<envVars, tableVars, members, users, chans, joined, inviteVars,
                 modeVars, banVars, juped, channelts>>

\* +o.  From a client that a SJOIN has deopped it only marks the target.
OppedStillMarked(fl) == fl \cup {"op"}                        \* faulty
Opped(fl) == (fl \cup {"op"}) \ {"deopped"}
ModeOp(s, who, c) ==
  /\ MayTarget(s, who, c)
  /\ \/ /\ IsDeop(s, c)
        /\ "op" \notin flags[c][who]
        /\ SetFlags(c, who, flags[c][who] \cup {"deopped"})
     \/ /\ IsOk(s, c)
        /\ SetFlags(c, who, Opped(flags[c][who]))

\* -o never touches an administrator, its own command included.
ModeDeop(s, who, c) ==
  /\ MayTarget(s, who, c)
  /\ who \notin Admins
  /\ IsOk(s, c)
  /\ SetFlags(c, who, flags[c][who] \ {"op"})

ModeVoice(s, who, c, add) ==
  /\ MayTarget(s, who, c)
  /\ IsOk(s, c)
  /\ SetFlags(c, who, IF add THEN flags[c][who] \cup {"voice"}
                             ELSE flags[c][who] \ {"voice"})

\* The modes without a parameter; -i drops every invitation to the channel,
\* +r and -r are for servers and their clients only.
ModeLetter(s, c, l, add) ==
  /\ s \in Sources /\ c \in exists
  /\ IF l = "r" THEN FromServer(s) ELSE IsOk(s, c)
  /\ mode' = [mode EXCEPT ![c] = IF add THEN @ \cup {l} ELSE @ \ {l}]
  /\ IF l = "i" /\ ~add THEN DelInvites(Users, {c}) ELSE UNCHANGED inviteVars
  /\ UNCHANGED <<envVars, tableVars, linkVars, limit, key, banVars, juped,
                 channelts>>

ModeLimit(s, c, n) ==
  /\ s \in Sources /\ c \in exists
  /\ IsOk(s, c)
  /\ limit' = [limit EXCEPT ![c] = n]
  /\ UNCHANGED <<envVars, tableVars, linkVars, inviteVars, mode, key, banVars,
                 juped, channelts>>

\* +k replaces a key; -k wants the key, or '*'.
ModeKey(s, c, k) ==
  /\ s \in Sources /\ c \in exists
  /\ IsOk(s, c)
  /\ key' = [key EXCEPT ![c] = k]
  /\ UNCHANGED <<envVars, tableVars, linkVars, inviteVars, mode, limit,
                 banVars, juped, channelts>>

\* add_banid: the length of the list is looked at only for a local client
\* with operator privileges, and a mask already covered is not added.
BanCovered(c, m) == \E b \in banlist[c] : m \in Covers[b]
BanListFull(s, c) == s \in Locals \cap Opers /\ num_bed[c] >= MAXBANS
ModeBan(s, c, m) ==
  /\ s \in Sources /\ c \in exists
  /\ IsOk(s, c)
  /\ ~BanListFull(s, c)
  /\ ~BanCovered(c, m)
  /\ banlist' = [banlist EXCEPT ![c] = @ \cup {m}]
  /\ num_bed' = [num_bed EXCEPT ![c] = @ + 1]
  /\ UNCHANGED <<envVars, tableVars, linkVars, inviteVars, modeVars, juped,
                 channelts>>

ModeUnban(s, c, m) ==
  /\ s \in Sources /\ c \in exists
  /\ IsOk(s, c)
  /\ m \in banlist[c]
  /\ banlist' = [banlist EXCEPT ![c] = @ \ {m}]
  /\ num_bed' = [num_bed EXCEPT ![c] = IF @ > 0 THEN @ - 1 ELSE 0]
  /\ UNCHANGED <<envVars, tableVars, linkVars, inviteVars, modeVars, juped,
                 channelts>>

ModeJupe(s, c) ==
  /\ s \in online \cap Locals \cap Opers /\ c \in exists
  /\ juped' = [juped EXCEPT ![c] = TRUE]
  /\ UNCHANGED <<envVars, tableVars, linkVars, inviteVars, modeVars, banVars,
                 channelts>>

\* -j on an empty channel calls sub1_from_channel, which now frees it.
ModeUnjupe(s, c) ==
  /\ s \in online \cap Locals \cap Opers /\ c \in exists
  /\ juped' = [juped EXCEPT ![c] = FALSE]
  /\ LET gone == IF users[c] = 0 THEN {c} ELSE {} IN
     /\ Free(gone)
     /\ DelInvites(Users, gone)
     /\ users' = [d \in Channels |->
                    IF d \in gone THEN OneLess(users[d]) ELSE users[d]]
  /\ UNCHANGED <<envVars, members, flags, chans, joined>>

-----------------------------------------------------------------------------
(* m_sjoin (TS5): the description of a channel that the uplink holds.      *)

\* A description: timestamp, modes, and the nicks N with their status.  Clients
\* of this server may be on the list too; their status is never looked at.
Descriptions(N) ==
  [ts : 0..MaxTS, mode : SUBSET Letters, limit : 0..MaxLimit, key : 0..MaxKey,
   nicks : {N}, ops : SUBSET (N \ Locals), voices : SUBSET (N \ Locals)]

IsNew(c) == c \notin exists
KeepOurModes(c, d) ==
  \/ IsNew(c) \/ d.ts = 0 \/ channelts[c] = 0
  \/ d.ts >= channelts[c]
KeepNewModes(c, d) ==
  \/ IsNew(c) \/ d.ts = 0 \/ channelts[c] = 0
  \/ d.ts <= channelts[c]
  \/ juped[c] /\ users[c] = 0

OplessTakesTheirs(c, d) ==                                    \* faulty
  IF IsNew(c) \/ \A u \in members[c] : ~IsChanOp(u, c) THEN d.ts
  ELSE IF d.ts = 0 \/ channelts[c] = 0 THEN 0
  ELSE IF d.ts < channelts[c] THEN d.ts
  ELSE channelts[c]
MergedTS(c, d) ==
  IF IsNew(c) THEN d.ts
  ELSE IF d.ts = 0 \/ channelts[c] = 0 THEN 0
  ELSE IF d.ts < channelts[c] \/ (juped[c] /\ users[c] = 0) THEN d.ts
  ELSE channelts[c]

\* The users of the list that are known, and are reached through the uplink.
Accepted(d) == (d.nicks \cap online) \ Locals

Newcomers(c, d) == {u \in Accepted(d) : ~IsMember(u, c)}

JoinFlags(c, d, u) ==
  IF KeepNewModes(c, d)
  THEN (IF u \in d.ops THEN {"op"} ELSE {}) \cup
       (IF u \in d.voices THEN {"voice"} ELSE {})
  ELSE IF u \in d.ops THEN {"deopped"} ELSE {}

Sjoin(c, d) ==
  LET new  == Newcomers(c, d)
      ours == KeepOurModes(c, d)
      take == KeepNewModes(c, d)
  IN
  /\ Linked
  /\ Create(c)
  /\ channelts' = [channelts EXCEPT ![c] = MergedTS(c, d)]
  /\ mode' = [mode EXCEPT ![c] =
                IF ~take THEN @ ELSE IF ours THEN d.mode \cup @ ELSE d.mode]
  /\ limit' = [limit EXCEPT ![c] =
                 IF ~take \/ (ours /\ @ > d.limit) THEN @ ELSE d.limit]
  /\ key' = [key EXCEPT ![c] =
               IF ~take \/ (ours /\ @ > d.key) THEN @ ELSE d.key]
  /\ AddUsers(c, new)
  /\ flags' = [flags EXCEPT ![c] =
       [u \in Users |-> IF u \in new THEN JoinFlags(c, d, u)
                        ELSE IF ours THEN @[u] ELSE @[u] \ {"op", "voice"}]]
  /\ UNCHANGED <<envVars, inviteVars, banVars, juped>>

-----------------------------------------------------------------------------
ModeNext ==
  \E s \in Sources, c \in exists :
    \/ \E who \in Users : ModeOp(s, who, c)
    \/ \E who \in Users : ModeDeop(s, who, c)
    \/ \E who \in Users, add \in BOOLEAN : ModeVoice(s, who, c, add)
    \/ \E l \in Letters, add \in BOOLEAN : ModeLetter(s, c, l, add)
    \/ \E n \in 0..MaxLimit : ModeLimit(s, c, n)
    \/ \E k \in 0..MaxKey : ModeKey(s, c, k)
    \/ \E m \in Masks : ModeBan(s, c, m)
    \/ \E m \in Masks : ModeUnban(s, c, m)
    \/ ModeJupe(s, c)
    \/ ModeUnjupe(s, c)

Next ==
  \/ Tick
  \/ \E u \in Users : Register(u) \/ ExitClient(u) \/ JoinZero(u)
  \/ \E u \in Users, c \in Channels, k \in 0..MaxKey : JoinLocal(u, c, k)
  \/ \E u \in Users, c \in Channels : JoinRemote(u, c) \/ Part(u, c)
  \/ \E a, u \in Users, c \in Channels : FJoin(a, u, c) \/ Invite(a, u, c)
  \/ \E s \in Sources, u \in Users, c \in Channels : Kick(s, u, c)
  \/ ModeNext
  \/ \E c \in Channels, N \in (SUBSET Users) \ {{}} :
       \E d \in Descriptions(N) : Sjoin(c, d)

Spec == Init /\ [][Next]_vars

-----------------------------------------------------------------------------
(* Properties.                                                             *)

TypeOK ==
  /\ CurrentTime \in Nat /\ online \subseteq Users
  /\ exists \subseteq Channels /\ chanCount \in Int
  /\ members \in [Channels -> SUBSET Users]
  /\ users \in [Channels -> Nat]
  /\ flags \in [Channels -> [Users -> SUBSET Flags]]
  /\ chans \in [Users -> SUBSET Channels]
  /\ joined \in [Users -> Int]
  /\ invites \in [Channels -> SUBSET Users]
  /\ invited \in [Users -> SUBSET Channels]
  /\ mode \in [Channels -> SUBSET Letters]
  /\ limit \in [Channels -> Nat]
  /\ key \in [Channels -> Nat]
  /\ banlist \in [Channels -> SUBSET Masks]
  /\ num_bed \in [Channels -> Nat]
  /\ juped \in [Channels -> BOOLEAN]
  /\ channelts \in [Channels -> Nat]

\* The two lists of a membership agree, and neither holds a channel that was
\* freed or a client that is gone: no handler of channel.c can be left with a
\* pointer into a freed record.
LinksAgree ==
  /\ \A c \in Channels, u \in Users : u \in members[c] <=> c \in chans[u]
  /\ \A c \in Channels : members[c] # {} => c \in exists
  /\ \A u \in Users : chans[u] # {} => u \in online

\* chptr->users, user->joined, num_bed and Count.chan are the lengths of the
\* lists they count.  sub1_from_channel frees a channel by its counter.
CountersAgree ==
  /\ \A c \in Channels : users[c] = Cardinality(members[c])
  /\ \A u \in Users : joined[u] = Cardinality(chans[u])
  /\ \A c \in Channels : num_bed[c] = Cardinality(banlist[c])
  /\ chanCount = Cardinality(exists)

\* The two lists of an invitation agree, and it is from a channel that has
\* members to a client of this server that is still connected.
InvitesAgree ==
  /\ \A c \in Channels, u \in Users : u \in invites[c] <=> c \in invited[u]
  /\ \A c \in Channels : invites[c] # {} => members[c] # {}
  /\ \A u \in Users : invited[u] # {} => u \in online \cap Locals

\* "The channel ceases to exist when the last client leaves it"
\* (docs/RFC1459:255); a channel juped by an operator stays.
NoGhostChannel == \A c \in exists : members[c] # {} \/ juped[c]

\* A client never holds more invitations than it may join channels: the list
\* cannot be grown from outside.
InviteBound ==
  \A u \in Users : Cardinality(invited[u]) <= MAXCHANNELSPERUSER

\* An invitation is spent by joining: a client that is kicked from an
\* invite-only channel needs a new one.  (FJOIN leaves the old one behind.)
InviteIsSpent == \A u \in Users : invited[u] \cap chans[u] = {}

\* The mark that m_sjoin leaves on a client whose operator status it refused
\* is gone once the client is an operator: change_chan_flag clears it, or the
\* server would go on ignoring the mode changes of a legitimate operator.
DeoppedIsNotOp ==
  \A c \in Channels, u \in Users : ~({"op", "deopped"} \subseteq flags[c][u])

\* A client is on at most MAXCHANNELSPERUSER channels, an operator on three
\* times as many.  (FJOIN does not look at the limit.)
ChannelLimit ==
  \A u \in Locals : Cardinality(chans[u]) <=
     IF u \in Opers THEN 3 * MAXCHANNELSPERUSER ELSE MAXCHANNELSPERUSER

\* A step does not raise the timestamp of a channel that has members: it goes
\* down, to that of an older description, or to 0.  (FJOIN sets it to the
\* current time.)
TSFalls ==
  \A c \in Channels : members[c] # {} /\ members'[c] # {}
                        => channelts'[c] <= channelts[c]

\* On a server of its own and without administrators, someone becomes operator
\* of a channel that has members only while the channel has an operator.
OpFromOp ==
  \A c \in Channels, u \in Users :
    members[c] # {} /\ "op" \notin flags[c][u] /\ "op" \in flags'[c][u]
      => \E s \in members[c] : "op" \in flags[c][s]
=============================================================================
