-------------------------------- MODULE Talk --------------------------------
(***************************************************************************)
(* One message or question of each kind, from where it is given to          *)
(* everyone it is meant for: who reads it at a server, and over which links *)
(* it goes on.  The servers form a tree and agree about channels and        *)
(* operators (Links says when they do).  From src/m_message.c, src/send.c,  *)
(* src/m_wallops.c, src/m_operwall.c, src/m_locops.c, src/m_trace.c,        *)
(* src/s_serv.c (hunt_server), src/parse.c (do_numeric), src/channel.c.     *)
(***************************************************************************)
EXTENDS Integers, FiniteSets, Sequences

CONSTANTS
  Server, Edge,   \* Edge: the links, pairs of servers, which make a tree
  Hop,            \* Hop[t][x]: the server over whose link t reaches x (from)
  User, Home,     \* [User -> Server]
  Nobody,
  World           \* bound: what there is, a set of records
                  \*   mem, op, voice: of the channel; modes: its +n and +m;
                  \*   juped: servers where it is juped;
                  \*   oper: IsEmpowered; w, z, s: who has these user modes;
                  \*   hit: who matches a mask of hosts

Near(t) == {p \in Server : {t, p} \in Edge}

\* A link divides the other servers into those beyond one of its ends and those
\* beyond the other, and who is beyond it reaches all who are not by one way.
ASSUME TalkAssumption ==
  /\ \A t \in Server : t \notin Near(t) /\ Hop[t] \in [Server \ {t} -> Near(t)]
  /\ \A t \in Server : \A p \in Near(t) :
       /\ Hop[t][p] = p
       /\ \A x \in Server \ {t, p} : Hop[t][x] = p <=> Hop[p][x] # t
       /\ \A x, y \in Server \ {t} : Hop[t][x] = p /\ Hop[t][y] # p => Hop[x][y] = Hop[x][t]
  /\ Home \in [User -> Server] /\ User \cap Server = {}
  /\ \A w \in World : w.oper \cup w.op \cup w.voice \cup w.mem \cup w.hit \subseteq User

VARIABLES
  world,
  said,           \* the message, a record [k |-> kind, by, to]
  talk,           \* talk[<<s, t>>]: sent from s to t and not read
  got             \* got[<<u, x>>]: copies shown to u, of a message or an answer by x

talkVars == <<world, said, talk, got>>

-----------------------------------------------------------------------------
(* The tree.                                                               *)
At(x) == IF x \in User THEN Home[x] ELSE x
Toward(t, x) == Hop[t][At(x)]
Behind(t, p) == {u \in User : Home[u] # t /\ Toward(t, u) = p}

\* What a handler does: whom it shows the message, what it puts on each link.
Nothing(t) == [here |-> {}, on |-> [p \in Near(t) |-> <<>>]]
Also(x, y) == [here |-> x.here \cup y.here,
               on |-> [p \in DOMAIN x.on |-> x.on[p] \o y.on[p]]]

-----------------------------------------------------------------------------
(* send.c.  from: the link a message came by, the server itself when its    *)
(* sender is local.                                                        *)

\* Faulty: a link gets a copy for each person behind it.
Faulty_Spread(t, from, m, who) ==
  [here |-> {u \in who : Home[u] = t},
   on |-> [p \in Near(t) |-> IF p = from THEN <<>>
             ELSE [j \in 1..Cardinality(who \cap Behind(t, p)) |-> m]]]

\* Local members one by one, the others by one copy for each link (sentalong).
Spread(t, from, m, who) ==
  [here |-> {u \in who : Home[u] = t},
   on |-> [p \in Near(t) |->
             IF p = from \/ who \cap Behind(t, p) = {} THEN <<>> ELSE <<m>>]]

sendto_serv_butone(t, from, m) ==
  [here |-> {}, on |-> [p \in Near(t) |-> IF p = from THEN <<>> ELSE <<m>>]]

sendto_channel_butone(t, from, m) == Spread(t, from, m, world.mem \ {m.by})

\* To the other servers every such message goes as one to the operators.
sendto_channel_type(t, from, m) ==
  Spread(t, from, [m EXCEPT !.k = "ops"],
         (IF m.k = "ops" THEN world.op ELSE world.op \cup world.voice) \ {m.by})

sendto_match_butone(t, from, m) ==
  Also([Nothing(t) EXCEPT !.here = {u \in world.hit : Home[u] = t}],
       sendto_serv_butone(t, from, m))

\* Local operators who have the user mode.
Opers(t, mode) == {u \in world.oper : Home[u] = t /\ u \in mode}
send_operwall(t) == [Nothing(t) EXCEPT !.here = Opers(t, world.z)]
sendto_realops(t) == [Nothing(t) EXCEPT !.here = Opers(t, world.s)]

\* Of this server, and of another one: to every connection with such an
\* operator behind it.
sendto_ops_butone(t, m) == Spread(t, t, m, world.oper \cap world.w)
sendto_wallops_butone(t, from, m) == Spread(t, from, m, world.oper \cap world.w)

\* Nothing is sent back over the link it came by.
sendto_prefix_one(t, from, m, to) ==
  IF Home[to] = t THEN [Nothing(t) EXCEPT !.here = {to}]
  ELSE IF Toward(t, to) = from THEN Nothing(t)
  ELSE [Nothing(t) EXCEPT !.on[Toward(t, to)] = <<m>>]

-----------------------------------------------------------------------------
(* The handlers.                                                           *)

MyClient(t, by) == by \in User /\ Home[by] = t

\* A juped channel refuses the clients of its server, whatever they are.
can_send(t, by) ==
  /\ ~(MyClient(t, by) /\ t \in world.juped)
  /\ "m" \in world.modes => by \in world.op \cup world.voice
  /\ "n" \in world.modes => by \in world.mem

to_channel(t, from, m) ==
  IF can_send(t, m.by) THEN sendto_channel_butone(t, from, m) ELSE Nothing(t)

\* @#channel and +#channel.
to_type(t, from, m) ==
  IF m.by \in world.op \cup world.voice THEN sendto_channel_type(t, from, m)
  ELSE Nothing(t)

\* $$servers and $#hosts.
send_oper_special(t, from, m) ==
  IF m.by \in world.oper THEN sendto_match_butone(t, from, m) ELSE Nothing(t)

\* opers@server and user@server: the server named decides.
find_userhost(t) == {u \in world.hit : Home[u] = t}
user_at_server(t, from, m) ==
  IF m.to # t THEN [Nothing(t) EXCEPT !.on[Toward(t, m.to)] = <<m>>]
  ELSE IF m.k = "opers@"
  THEN IF m.by \in world.oper THEN sendto_realops(t) ELSE Nothing(t)
  ELSE [Nothing(t) EXCEPT
         !.here = IF Cardinality(find_userhost(t)) = 1 THEN find_userhost(t) ELSE {}]

m_message(t, from, m) ==
  CASE m.k = "chan" -> to_channel(t, from, m)
    [] m.k \in {"ops", "voiced"} -> to_type(t, from, m)
    [] m.k = "nick" -> sendto_prefix_one(t, from, m, m.to)
    [] m.k = "mask" -> send_oper_special(t, from, m)
    [] m.k \in {"opers@", "user@"} -> user_at_server(t, from, m)

m_wallops(t, from, m) ==
  IF m.by = t THEN sendto_ops_butone(t, m)
  ELSE IF m.by \in Server THEN sendto_wallops_butone(t, from, m)
  ELSE IF MyClient(t, m.by) /\ m.by \notin world.oper THEN Nothing(t)
  ELSE Also(send_operwall(t), sendto_serv_butone(t, from, m))

m_operwall(t, from, m) ==
  IF m.by \notin world.oper THEN Nothing(t)
  ELSE Also(send_operwall(t), sendto_serv_butone(t, from, m))

m_locops(t, m) ==
  IF MyClient(t, m.by) /\ m.by \in world.oper THEN send_operwall(t) ELSE Nothing(t)

\* The one who sets it is shown it too.
m_topic(t, from, m) ==
  IF m.by \in world.mem /\ ("t" \notin world.modes \/ m.by \in world.op \cup world.oper)
  THEN Also([Nothing(t) EXCEPT !.here = {u \in world.mem : Home[u] = t}],
            sendto_serv_butone(t, from, m))
  ELSE Nothing(t)

Numeric(t, to) == [k |-> "numeric", by |-> t, to |-> to]

\* A numeric goes to the person it is for, or is dropped.
do_numeric(t, from, m) == sendto_prefix_one(t, from, m, m.to)
Reply(t, to) == do_numeric(t, t, Numeric(t, to))

\* A question for a server, or for the server of a person.
hunt_server(t, from, m) ==
  IF At(m.to) = t THEN Reply(t, m.by)
  ELSE IF Toward(t, m.to) = from THEN Nothing(t)
  ELSE Also([Nothing(t) EXCEPT !.on[Toward(t, m.to)] = <<m>>],
            IF m.k = "trace" THEN Reply(t, m.by) ELSE Nothing(t))

Handle(t, from, m) ==
  CASE m.k \in {"chan", "ops", "voiced", "nick", "mask", "opers@", "user@"} ->
         m_message(t, from, m)
    [] m.k = "wallops" -> m_wallops(t, from, m)
    [] m.k = "operwall" -> m_operwall(t, from, m)
    [] m.k = "locops" -> m_locops(t, m)
    [] m.k = "topic" -> m_topic(t, from, m)
    [] m.k \in {"query", "trace"} -> hunt_server(t, from, m)
    [] m.k = "numeric" -> do_numeric(t, from, m)

-----------------------------------------------------------------------------
Messages ==
  [k : {"chan", "ops", "voiced", "mask", "operwall", "locops", "topic"}, by : User, to : {Nobody}]
    \cup [k : {"wallops"}, by : User \cup Server, to : {Nobody}]
    \cup [k : {"nick"}, by : User, to : User]
    \cup [k : {"opers@", "user@"}, by : User, to : Server]
    \cup [k : {"query", "trace"}, by : User, to : User \cup Server]
Silence == [k |-> "silence", by |-> Nobody, to |-> Nobody]

TalkInit ==
  /\ world \in World
  /\ said = Silence
  /\ talk = [l \in {e \in Server \X Server : {e[1], e[2]} \in Edge} |-> <<>>]
  /\ got = [e \in User \X (User \cup Server) |-> 0]

\* A question is answered by the server that handles it.
Voice(t, m) == IF m.k \in {"query", "trace"} THEN t ELSE m.by

Done(t, from, m, lines) ==
  LET h == Handle(t, from, m) IN
  /\ got' = [e \in DOMAIN got |-> IF e[1] \in h.here /\ e[2] = Voice(t, m) THEN got[e] + 1
                                  ELSE got[e]]
  /\ talk' = [l \in DOMAIN talk |-> IF l[1] = t THEN lines[l] \o h.on[l[2]] ELSE lines[l]]

Say ==
  /\ said = Silence
  /\ \E m \in Messages : said' = m /\ Done(At(m.by), At(m.by), m, talk)
  /\ UNCHANGED world

Hear(s, t) ==
  /\ {s, t} \in Edge
  /\ talk[<<s, t>>] # <<>>
  /\ Done(t, s, Head(talk[<<s, t>>]), [talk EXCEPT ![<<s, t>>] = Tail(@)])
  /\ UNCHANGED <<world, said>>

TalkNext == Say \/ (\E s, t \in Server : Hear(s, t))
TalkSpec == TalkInit /\ [][TalkNext]_talkVars

-----------------------------------------------------------------------------
(* What the messages are for, without servers.                             *)
Allowed(m) == Home[m.by] \notin world.juped
              /\ ("m" \in world.modes => m.by \in world.op \cup world.voice)
              /\ ("n" \in world.modes => m.by \in world.mem)
Speaks(m) == m.by \in world.op \cup world.voice
Rules(m) == m.by \in world.oper \cup Server
OnTopic(m) == m.by \in world.mem /\ ("t" \in world.modes => m.by \in world.op \cup world.oper)

Audience(m) ==
  CASE m.k = "chan"     -> IF Allowed(m) THEN world.mem \ {m.by} ELSE {}
    [] m.k = "ops"      -> IF Speaks(m) THEN world.op \ {m.by} ELSE {}
    [] m.k = "voiced"   -> IF Speaks(m) THEN (world.op \cup world.voice) \ {m.by} ELSE {}
    [] m.k = "nick"     -> {m.to}
    [] m.k = "mask"     -> IF Rules(m) THEN world.hit ELSE {}
    [] m.k = "opers@"   -> IF Rules(m) THEN Opers(m.to, world.s) ELSE {}
    [] m.k = "user@"    -> LET here == {u \in world.hit : Home[u] = m.to} IN
                           IF Cardinality(here) = 1 THEN here ELSE {}
    [] m.k = "wallops"  -> IF m.by \in Server THEN world.oper \cap world.w
                           ELSE IF Rules(m) THEN world.oper \cap world.z ELSE {}
    [] m.k = "operwall" -> IF Rules(m) THEN world.oper \cap world.z ELSE {}
    [] m.k = "locops"   -> IF Rules(m) THEN Opers(At(m.by), world.z) ELSE {}
    [] m.k = "topic"    -> IF OnTopic(m) THEN world.mem ELSE {}
    [] OTHER            -> {}

\* A trace is answered by every server on the way, a question by the last one.
Way(s, t) == {x \in Server \ {t} : x = s \/ (s # t /\ x # s /\ Hop[x][s] # Hop[x][t])}
Answering(m) == {At(m.to)} \cup (IF m.k = "trace" THEN Way(At(m.by), At(m.to)) ELSE {})

Meant(m) == IF m.k \in {"query", "trace"} THEN {m.by} \X Answering(m)
            ELSE Audience(m) \X {m.by}

Heard == \A l \in DOMAIN talk : talk[l] = <<>>

\* A message ends up with everyone it is meant for, once, and with no one else,
\* wherever they are, though every server decides alone whom to show it and
\* which links to use; and a question is answered once, by its last server, or
\* for a trace by each one on the way.  (What is said to +#channel is left out of
\* the second part: send.c:598 sends it on to the operators only.)
EveryoneOnce ==
  LET meant == Meant(said) IN
  /\ \A e \in DOMAIN got : got[e] <= (IF e \in meant THEN 1 ELSE 0)
  /\ Heard /\ said.k # "voiced" => \A e \in meant : got[e] = 1
=============================================================================
