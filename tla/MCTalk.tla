------------------------------- MODULE MCTalk -------------------------------
(***************************************************************************)
(* The modules of commands and what they tell, checked side by side: a      *)
(* behaviour is one of the module that part names, and the others keep      *)
(* their first state.                                                       *)
(***************************************************************************)
EXTENDS KLines, Queries, Drone, Hash, Talk, Graphs, TLC

CONSTANTS
  a, b, c, u1, u2, u3, u4,                 \* servers and persons
  MAXBANS, MaxChanges,
  c1, c2,
  p1, p2, kw, ki, d1,                      \* people and lines of KLines
  n1, n2, h1, h2                           \* h2 is a mask for h1

VARIABLES
  part,
  chan, line, told, changes, wild

(* Modes: members u1 and u2 at a, u3 at b, who is an IRC operator; bans come *)
(* with channels that have no other mode.                                   *)
ModesHome == (u1 :> a) @@ (u2 :> a) @@ (u3 :> b)
Mode(p, x) == [q \in {"k", "l"} |-> IF q = p THEN x ELSE 0]
ChannelAt(s) ==
  {[ts |-> ts, flags |-> x.flags, par |-> x.par, bans |-> x.bans,
    ops |-> {u \in {u1, u3} : ModesHome[u] = s}] :
     ts \in 1..2,
     x \in [flags : {{}}, bans : {{}},
            par : {Mode("k", 0), Mode("k", 1), Mode("k", 2), Mode("l", 2)}]
             \cup [flags : {{"n"}}, bans : {{}}, par : {Mode("k", 0)}]
             \cup [flags : {{}}, bans : {{{u1}}, {{u1, u2}}},
                   par : {Mode("k", 0)}]}
Plainly(x) == x.flags = {} /\ x.par = Mode("k", 0)
Starts ==
  {f \in {(a :> x) @@ (b :> y) : x \in ChannelAt(a), y \in ChannelAt(b)} :
     /\ \E s \in {a, b} : f[s].ts = 1
     /\ f[a].bans \cup f[b].bans # {} => Plainly(f[a]) /\ Plainly(f[b])}
Pair == {a, b}
Members == {u1, u2, u3}
IrcOpers == {u3}
FlagLetters == {"n"}
ParamLetters == {"k", "l"}
BanMasks == {{u1}, {u1, u2}}
M == INSTANCE Modes WITH
  Server <- Pair, User <- Members, Home <- ModesHome, Oper <- IrcOpers,
  Letter <- FlagLetters, Param <- ParamLetters, Mask <- BanMasks, Started <- Starts

(* KLines: K-lines kw and ki, the second by address, and a D-line d1.       *)
MCHits == (kw :> {p1, p2}) @@ (ki :> {p1}) @@ (d1 :> {p1})
MCMatchers == [m \in {kw, ki, d1} |-> {m}]
MCWithin == ki :> {ki}

(* Talk: servers in a row, two persons at the first of them; worlds that     *)
(* differ about the channel, and such that differ about operators.  The two  *)
(* persons at the first server may change places on the channel.            *)
Persons == {u1, u2, u3, u4}
Bare == [mem |-> {}, op |-> {}, voice |-> {}, modes |-> {}, juped |-> {},
         oper |-> {}, w |-> {}, z |-> {}, s |-> {}, hit |-> {}]
With(st, x) == {u \in DOMAIN st : st[u] = x}
Servers == {a, b, c}
Edges == {{a, b}, {b, c}}
HomeTable == (u1 :> a) @@ (u2 :> a) @@ (u3 :> b) @@ (u4 :> c)
Without(t) == [node |-> Servers \ {t}, edge |-> {e \in Servers \X Servers :
                 {e[1], e[2]} \in Edges /\ t \notin {e[1], e[2]}}]
HopTable == [t \in Servers |-> [x \in Servers \ {t} |->
          CHOOSE p \in Servers : {t, p} \in Edges /\ ConnectionsIn(Without(t))[p, x]]]

\* TLC computes a table once, but what a constant stands for at each use.
Hops == HopTable
Homes == HomeTable

Worlds ==
  {[Bare EXCEPT !.mem = Persons \ With(st, 0), !.op = With(st, 3), !.voice = With(st, 2),
                !.modes = x[1], !.juped = x[2]] :
     st \in {f \in [Persons -> 0..3] : f[u1] <= f[u2]},
     x \in {<<{}, {}>>, <<{"n"}, {}>>, <<{"m", "t"}, {}>>, <<{}, {b}>>}}
  \cup {[Bare EXCEPT !.oper = oper, !.w = f, !.z = f, !.s = f, !.hit = hit] :
     oper \in SUBSET Persons, f \in {{u1, u3, u4}, Persons},
     hit \in {{u1}, {u1, u2}, {u3}, {u2, u4}, Persons}}

(* Queries: the first of three persons is invisible, or the first two are.   *)
Askers == {u1, u2, u3}
LocalAskers == {u1, u2}
AskedOf == {c1, c2}
Scenes ==
  [mem : [AskedOf -> SUBSET Askers], private : SUBSET AskedOf, secret : SUBSET AskedOf,
   invis : {{u1}, {u1, u2}}, oper : {{}, {u1}, {u3}}]
Plain == [mem |-> [x \in AskedOf |-> {}], private |-> {}, secret |-> {}, invis |-> {u1}, oper |-> {}]

(* Hash: a mask and its server, and a nick, in one chain.                   *)
Nicks == {n1, n2}
Hosts == {h1, h2}
Buckets == {1, 2}
MaskList == (h1 :> <<h2>>) @@ (h2 :> <<>>)
Slots == (n1 :> 1) @@ (n2 :> 2) @@ (h1 :> 1) @@ (h2 :> 1) @@ (NoName :> 1)

MCInit ==
  /\ part \in {"modes", "klines", "talk", "queries", "hash", "drone"}
  /\ M!ModesInit /\ KLinesInit
  /\ part # "modes" => \A s \in {a, b} : chan[s].ts = 1 /\ Plainly(chan[s]) /\ chan[s].bans = {{u1}}
  /\ IF part = "talk" THEN TalkInit
     ELSE world = Bare /\ said = Silence /\ talk = <<>> /\ got = <<>>
  /\ (part # "queries" => scene = Plain) /\ QueryInit
  /\ IF part = "hash" THEN HashInit
     ELSE clients = <<>> /\ kind = <<>> /\ name = <<>> /\ table = <<>> /\ stray = TRUE
  /\ DroneInit /\ (part # "drone" => queue = 0)

mVars == <<chan, line, told, changes, wild>>

MCNext ==
  /\ UNCHANGED part
  /\ \/ part = "modes" /\ M!ModesNext /\ UNCHANGED <<klVars, talkVars, queryVars, hashVars, droneVars>>
     \/ part = "klines" /\ KLinesNext /\ UNCHANGED <<mVars, talkVars, queryVars, hashVars, droneVars>>
     \/ part = "talk" /\ TalkNext /\ UNCHANGED <<mVars, klVars, queryVars, hashVars, droneVars>>
     \/ part = "queries" /\ QueryNext /\ UNCHANGED <<mVars, klVars, talkVars, hashVars, droneVars>>
     \/ part = "hash" /\ HashNext /\ UNCHANGED <<mVars, klVars, talkVars, queryVars, droneVars>>
     \/ part = "drone" /\ DroneNext /\ UNCHANGED <<mVars, klVars, talkVars, queryVars, hashVars>>

mcVars == <<part, mVars, klVars, talkVars, queryVars, hashVars, droneVars>>
MCSpec == MCInit /\ [][MCNext]_mcVars

\* When the link is quiet two servers have the same modes and operators
\* (ModesMeet), keep the same people out (SameBanned), and everyone on the
\* channel was told of them (MembersTold).  The properties of the modules that
\* are extended are checked under their own names.
ModesAgree == part = "modes" => M!ModesMeet /\ M!SameBanned /\ M!MembersTold
=============================================================================
