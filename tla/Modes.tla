-------------------------------- MODULE Modes --------------------------------
(***************************************************************************)
(* One channel on two servers that have just linked: its modes, key, limit, *)
(* operators and bans while their bursts cross with MODE commands.  From    *)
(* src/channel.c: send_channel_modes, m_sjoin, set_channel_mode, add_banid. *)
(*                                                                         *)
(* A MODE line carries one change.  A mask is the set of persons it hits,   *)
(* and matches the masks that hit no one else.                              *)
(***************************************************************************)
EXTENDS Integers, FiniteSets, SequencesExt

CONSTANTS
  Server,      \* the two servers
  User, Home,  \* the members, [User -> Server]
  Oper,        \* those of them who are IRC operators (IsEmpowered, not IsAdmin)
  Letter,      \* modes without a parameter
  Param,       \* modes with one: k and l
  Mask,        \* ban masks, sets of users
  MAXBANS,
  MaxChanges,  \* bound: MODE commands of persons
  Started      \* bound: the channel of a server before, [Server -> records]

VARIABLES
  chan,        \* [Server -> the record of the channel]
  line,        \* line[s]: what s has sent and its peer has not read
  told,        \* told[s]: the modes as the members at s have been shown them
  changes,     \* MODE commands given
  wild         \* what they may have put out of step: "modes", "bans"

modesVars == <<chan, line, told, changes, wild>>
Peer(s) == CHOOSE t \in Server : t # s

-----------------------------------------------------------------------------
(* What is sent when the link comes up.                                    *)

\* The operator first; what does not fit goes into a second SJOIN without modes.
Sjoins(s, c) ==
  LET q == SetToSeq(c.ops) \o SetToSeq(c.mem \ c.ops) IN
  [j \in 1..Len(q) |-> [k |-> "sjoin", ts |-> c.ts, modes |-> j = 1, flags |-> c.flags,
                        par |-> c.par, nick |-> q[j], op |-> q[j] \in c.ops]]

Mode(by, add, what, arg) == [k |-> "mode", by |-> by, add |-> add, what |-> what, arg |-> arg]

send_mode_list(s, c) ==
  LET q == SetToSeq(c.bans) IN [j \in 1..Len(q) |-> Mode(s, TRUE, "b", q[j])]

send_channel_modes(s, c) == Sjoins(s, c) \o send_mode_list(s, c)

-----------------------------------------------------------------------------
(* m_sjoin.                                                                *)

\* Equal timestamps: the modes of both, the larger limit and the larger key.
Greater(x, y) == IF x >= y THEN x ELSE y
Merged(c, m) ==
  [flags |-> c.flags \cup (IF m.modes THEN m.flags ELSE {}),
   par |-> [p \in Param |-> Greater(c.par[p], IF m.modes THEN m.par[p] ELSE 0)]]

m_sjoin(c, m) ==
  LET ours   == m.ts >= c.ts
      theirs == m.ts <= c.ts
      new    == IF ~theirs THEN [flags |-> c.flags, par |-> c.par]
                ELSE IF ours THEN Merged(c, m)
                ELSE [flags |-> m.flags, par |-> m.par]
  IN [c EXCEPT !.ts = IF theirs THEN m.ts ELSE @,
               !.flags = new.flags, !.par = new.par,
               !.mem = @ \cup {m.nick},
               !.ops = (IF ours THEN @ ELSE {}) \cup (IF m.op /\ theirs THEN {m.nick} ELSE {}),
               !.deop = @ \cup (IF m.op /\ ~theirs THEN {m.nick} ELSE {}),
               !.met = TRUE]

\* The local members are shown what differs, then who lost and who got the
\* operator.
Shown(v, c, new, m) ==
  [v EXCEPT !.flags = (@ \cup (new.flags \ c.flags)) \ (c.flags \ new.flags),
            !.par = [p \in Param |-> IF c.par[p] = new.par[p] THEN @[p] ELSE new.par[p]],
            !.ops = (IF m.ts < c.ts THEN @ \ c.ops ELSE @)
                      \cup (IF m.op /\ m.ts <= c.ts THEN {m.nick} ELSE {})]

-----------------------------------------------------------------------------
(* set_channel_mode, for a change by a person or by the other server.      *)

ischop(c, by) == by \in Server \/ by \in c.ops
isdeop(c, by) == ~ischop(c, by) /\ by \in c.deop

\* A remote person is believed unless this server has refused him the operator.
Faulty_isok(c, s, by) == ischop(c, by) \/ Home[by] # s
isok(c, s, by) == ischop(c, by) \/ (~isdeop(c, by) /\ Home[by] # s /\ c.ts # 0)

Local(s, by) == by \in User /\ Home[by] = s
MyOper(s, by) == Local(s, by) /\ by \in Oper

Covered(c, mask) == \E b \in c.bans : mask \subseteq b

\* The list is full for operators of the network only.
add_banid(c, s, by, mask) ==
  IF (MyOper(s, by) /\ Cardinality(c.bans) >= MAXBANS) \/ Covered(c, mask) THEN c
  ELSE [c EXCEPT !.bans = @ \cup {mask}]

del_banid(c, mask) == [c EXCEPT !.bans = @ \ {mask}]

change_chan_flag(c, who, add) ==
  IF add THEN [c EXCEPT !.ops = @ \cup {who}, !.deop = @ \ {who}]
  ELSE [c EXCEPT !.ops = @ \ {who}]

\* +o by someone who is refused himself: whom he names is refused as well.
set_deopped(c, by, m) ==
  IF m.what = "o" /\ m.add /\ isdeop(c, by) /\ m.arg \in c.mem \ c.ops
  THEN [c EXCEPT !.deop = @ \cup {m.arg}] ELSE c

Applied(c, s, m) ==
  CASE m.what = "o" -> IF m.arg \in c.mem THEN change_chan_flag(c, m.arg, m.add) ELSE c
    [] m.what = "b" -> IF m.add THEN add_banid(c, s, m.by, m.arg) ELSE del_banid(c, m.arg)
    [] m.what = "k" -> IF m.add THEN [c EXCEPT !.par["k"] = m.arg]
                       ELSE IF c.par["k"] = m.arg THEN [c EXCEPT !.par["k"] = 0] ELSE c
    [] m.what = "l" -> [c EXCEPT !.par["l"] = IF m.add THEN m.arg ELSE 0]
    [] OTHER        -> [c EXCEPT !.flags = IF m.add THEN @ \cup {m.what} ELSE @ \ {m.what}]

set_channel_mode(c, s, m) ==
  IF isok(c, s, m.by) THEN Applied(c, s, m) ELSE set_deopped(c, m.by, m)

\* What is passed on: the change, and before a new key that the old one goes.
Passed(c, s, m) ==
  IF \/ ~isok(c, s, m.by)
     \/ m.what = "o" /\ m.arg \notin c.mem
     \/ m.what = "b" /\ m.add /\ Applied(c, s, m) = c
     \/ m.what = "k" /\ (m.arg = c.par["k"]) = m.add THEN <<>>
  ELSE (IF m.what = "k" /\ m.add /\ c.par["k"] # 0
        THEN <<Mode(m.by, FALSE, "k", c.par["k"])>> ELSE <<>>) \o <<m>>

\* A member who reads a MODE line takes it as it is.
Applying(v, m) ==
  CASE m.what = "o" -> [v EXCEPT !.ops = IF m.add THEN @ \cup {m.arg} ELSE @ \ {m.arg}]
    [] m.what = "b" -> [v EXCEPT !.bans = IF m.add THEN @ \cup {m.arg} ELSE @ \ {m.arg}]
    [] m.what \in Param -> [v EXCEPT !.par[m.what] = IF m.add THEN m.arg ELSE 0]
    [] OTHER -> [v EXCEPT !.flags = IF m.add THEN @ \cup {m.what} ELSE @ \ {m.what}]
Picture(c) == [flags |-> c.flags, par |-> c.par, ops |-> c.ops, bans |-> c.bans]

-----------------------------------------------------------------------------
ModesInit ==
  /\ \E f \in Started :
       /\ chan = [s \in Server |->
            [ts |-> f[s].ts, flags |-> f[s].flags, par |-> f[s].par, bans |-> f[s].bans,
             mem |-> {u \in User : Home[u] = s}, ops |-> f[s].ops, deop |-> {}, met |-> FALSE]]
       /\ line = [s \in Server |-> send_channel_modes(s, chan[s])]
       /\ told = [s \in Server |-> Picture(chan[s])]
  /\ changes = 0 /\ wild = {}

Read(s) ==
  /\ line[Peer(s)] # <<>>
  /\ LET m == Head(line[Peer(s)]) IN
       /\ chan' = [chan EXCEPT ![s] = IF m.k = "sjoin" THEN m_sjoin(@, m)
                                   ELSE set_channel_mode(@, s, m)]
       /\ told' = [told EXCEPT ![s] = IF m.k = "sjoin" THEN Shown(@, chan[s], chan'[s], m)
                                   ELSE FoldLeft(Applying, @, Passed(chan[s], s, m))]
  /\ line' = [line EXCEPT ![Peer(s)] = Tail(@)]
  /\ UNCHANGED <<changes, wild>>

(* A MODE of a local member.  While the bursts cross, only a change by a    *)
(* server that has yet to see the other's channel, of another age, is sure  *)
(* to have the same end on both; a ban is not, nor is one taken back.       *)
Command(s, m) ==
  /\ Passed(chan[s], s, m) # <<>>
  /\ chan' = [chan EXCEPT ![s] = set_channel_mode(@, s, m)]
  /\ line' = [line EXCEPT ![s] = @ \o Passed(chan[s], s, m)]
  /\ told' = [told EXCEPT ![s] = FoldLeft(Applying, @, Passed(chan[s], s, m))]
  /\ changes' = changes + 1
  /\ LET crossing == \E t \in Server : line[t] # <<>> IN
     wild' = wild
       \cup (IF crossing /\ m.what # "b" /\ (chan[s].met \/ chan[s].ts = chan[Peer(s)].ts)
             THEN {"modes"} ELSE {})
       \cup (IF m.what = "b" /\ (crossing \/ ~m.add) THEN {"bans"} ELSE {})

(* A person gives it, who is on the channel and at this server.             *)
LocalMembers(s) == {u \in chan[s].mem : Local(s, u)}
Commands(s) ==
  \E u \in LocalMembers(s), add \in BOOLEAN :
    \/ \E l \in Letter : Command(s, Mode(u, add, l, 0))
    \/ \E p \in Param, x \in 1..2 : Command(s, Mode(u, add, p, x))
    \/ \E v \in User : Command(s, Mode(u, add, "o", v))
    \/ \E x \in Mask : Command(s, Mode(u, add, "b", x))

ModesNext == \E s \in Server : Read(s) \/ (changes < MaxChanges /\ Commands(s))

ModesSpec == ModesInit /\ [][ModesNext]_modesVars

-----------------------------------------------------------------------------
Settled == \A s \in Server : line[s] = <<>>
Banned(s) == UNION chan[s].bans

\* When both bursts have been read, and every MODE after them, the servers have
\* the same modes, key, limit and operators: whatever a server whose channel is
\* the younger changed before it knew, the other one has refused.
ModesMeet ==
  Settled /\ "modes" \notin wild => \A s, t \in Server :
    /\ chan[s].ts = chan[t].ts /\ chan[s].flags = chan[t].flags
    /\ chan[s].par = chan[t].par /\ chan[s].ops = chan[t].ops

\* The lists of bans may differ then, but the same persons are banned.
SameBanned ==
  Settled /\ "bans" \notin wild => \A s, t \in Server : Banned(s) = Banned(t)

\* What the local members have been shown adds up to what their server keeps.
MembersTold == \A s \in Server : told[s] = Picture(chan[s])
=============================================================================
