-------------------------------- MODULE Links --------------------------------
(***************************************************************************)
(* A network of servers that all run this code: src/m_server.c,             *)
(* server_estab of src/s_serv.c, src/m_svinfo.c, src/m_squit.c, the exit of *)
(* servers and their dependents in src/client.c, the prefix of a line in    *)
(* src/parse.c, and NICK, SJOIN, PART, QUIT, KILL and the messages to one   *)
(* channel as far as they are passed on.                                    *)
(*                                                                          *)
(* A connection is a pair of byte streams in order; what one end writes     *)
(* waits in out until the other end reads it.  One step is one handler.     *)
(* Nicks are unique (module Nicks has the collisions), every server can QS  *)
(* (send_capabilities tells all), no name is masked (N-lines with port 0),  *)
(* and the channel's modes are those that m_join gives it, +nt.             *)
(***************************************************************************)
EXTENDS Integers, FiniteSets, SequencesExt

CONSTANTS
  Server,          \* the servers
  User,            \* the nicks
  Home,            \* [User -> Server]: where the person connects
  Build,           \* records: hub, the servers compiled with HUB, and skewed, the
                   \* pairs whose clocks differ by more than TS_MAX_DELTA
  Bound,           \* how many connections are made and events happen, together: a
                   \* link breaks, a person comes, leaves or speaks, an operator's
                   \* SQUIT; by whether a read finds all that was written, or a line
  NoOne

VARIABLE net

-----------------------------------------------------------------------------
(* Connections and what is known about the network.                        *)

Ends(n, i) == {n.end[i][1], n.end[i][2]}
Peer(n, i, s) == IF n.end[i][1] = s THEN n.end[i][2] ELSE n.end[i][1]
MyLinks(n, s) == {i \in DOMAIN n.end : s \in Ends(n, i) /\ n.st[i][s] = "server"}

\* known[s]: the servers that s has a client structure for, oldest first.
Names(n, s) == {n.known[s][k].name : k \in DOMAIN n.known[s]}
find_server(n, s, t) == CHOOSE k \in Range(n.known[s]) : k.name = t
Persons(n, s) == DOMAIN n.users[s]
From(n, s, u) == find_server(n, s, n.users[s][u]).via

With(v, Op(_)) == CHOOSE r \in {Op(x) : x \in {v}} : TRUE

\* send_message: what an end that is closed would have read is lost.
Put(n, s, i, lines) ==
  IF n.st[i][s] # "none" /\ n.st[i][Peer(n, i, s)] # "none"
  THEN [n EXCEPT !.out[i][s] = @ \o lines] ELSE n

\* sendto_serv_butone, sendto_match_servs: to the links of s that are not in X.
sendto_servs(n, s, X, line) ==
  [n EXCEPT !.out = [i \in DOMAIN n.out |->
     IF i \in MyLinks(n, s) \ X /\ n.st[i][Peer(n, i, s)] # "none"
     THEN [n.out[i] EXCEPT ![s] = Append(@, line)] ELSE n.out[i]]]

MyUsers(n, s) == {u \in n.alive : Home[u] = s}

\* Faulty: nobody is shown who left.
Faulty_Seen(n, s, joined, left) ==
  [u \in User |-> IF u \notin MyUsers(n, s) \cap n.mem[s] THEN n.pic[u]
                  ELSE n.pic[u] \cup joined]

\* sendto_common_channels, sendto_channel_butserv: the local members see it.
Seen(n, s, joined, left) ==
  [u \in User |-> IF u \in left \/ u \notin MyUsers(n, s) \cap n.mem[s] THEN
                    IF Home[u] = s THEN {} ELSE n.pic[u]
                  ELSE (n.pic[u] \cup joined) \ left]

\* Persons leave the channel; a channel without members is freed.
FromChannel(n, s, U) ==
  IF U \cap n.mem[s] = {} THEN n
  ELSE [n EXCEPT !.pic = Seen(n, s, {}, U),
                 !.mem[s] = @ \ U,
                 !.ops[s] = @ \ U,
                 !.ts[s] = IF n.mem[s] \subseteq U THEN 0 ELSE @,
                 !.due = IF n.said \in U THEN {} ELSE @ \ U]

\* exit_one_client for persons.
exit_persons(n, s, U) ==
  [FromChannel(n, s, U) EXCEPT
     !.users[s] = [u \in DOMAIN @ \ U |-> @[u]],
     !.alive = @ \ {u \in U : Home[u] = s}]

-----------------------------------------------------------------------------
(* The exit of a server: everything that depends on it goes with it.       *)

RECURSIVE dependents(_, _, _)
dependents(n, s, T) ==
  With({k.name : k \in {x \in Range(n.known[s]) : x.up \in T}} \cup T,
       LAMBDA more : IF more = T THEN T ELSE dependents(n, s, more))

\* close_connection: the peer finds the end of the stream behind what is left.
close_connection(n, s, i) ==
  With(Peer(n, i, s), LAMBDA p :
    [n EXCEPT !.st[i][s] = "none",
              !.calm = @ /\ n.st[i][s] # "server",
              !.out[i][p] = <<>>,
              !.out[i][s] = IF n.st[i][p] = "none" THEN <<>> ELSE Append(@, [k |-> "eof"])])

recurse_remove_clients(n, s, T) ==
  With(exit_persons(n, s, {u \in Persons(n, s) : n.users[s][u] \in T}), LAMBDA x :
    [x EXCEPT !.known[s] = SelectSeq(@, LAMBDA k : k.name \notin T)])

\* Faulty: nobody is told.
Faulty_send_squits(n, s, one, t, by) == n

\* Who is told: every link but one and t's own, which gets it when t is behind it.
send_squits(n, s, one, t, by) ==
  With(find_server(n, s, t), LAMBDA k :
  With(sendto_servs(n, s, {one, k.via}, [k |-> "squit", s |-> t, by |-> NoOne]), LAMBDA x :
    IF k.up = s \/ k.via = one THEN x
    ELSE Put(x, s, k.via, <<[k |-> "squit", s |-> t, by |-> by]>>)))

\* exit_client of the server t; one is the link that says so.
exit_server(n, s, one, t, by) ==
  With(find_server(n, s, t), LAMBDA k :
  With(IF k.up = s THEN close_connection(n, s, k.via) ELSE n, LAMBDA c :
  With(send_squits(c, s, one, t, by), LAMBDA x :
    recurse_remove_clients(x, s, dependents(x, s, {t})))))

\* exit_client of whatever is at the other end of the connection i.
exit_link(n, s, i) ==
  IF n.st[i][s] = "server"
  THEN exit_server(n, s, i, Peer(n, i, s), s)
  ELSE close_connection(n, s, i)

-----------------------------------------------------------------------------
(* A server is introduced.                                                 *)

NickLine(n, s, u) == [k |-> "nick", u |-> u, at |-> n.users[s][u], by |-> NoOne]
NickLines(n, s, U) == LET q == SetToSeq(U) IN [j \in 1..Len(q) |-> NickLine(n, s, q[j])]
Sjoin(at, t, nicks, ops) ==
  [k |-> "sjoin", by |-> at, ts |-> t, nicks |-> nicks, ops |-> ops]

\* The connect burst: the servers, then the members and the channel, then the rest.
Burst(n, s) ==
  [j \in 1..Len(n.known[s]) |->
     [k |-> "server", s |-> n.known[s][j].name, by |-> n.known[s][j].up]]
  \o NickLines(n, s, n.mem[s])
  \o (IF n.mem[s] = {} THEN <<>> ELSE <<Sjoin(s, n.ts[s], n.mem[s], n.ops[s])>>)
  \o NickLines(n, s, Persons(n, s) \ n.mem[s])

Hello(s) == [k |-> "hello", s |-> s, by |-> NoOne]

server_estab(n, s, i, t) ==
  IF s \notin n.build.hub /\ MyLinks(n, s) # {} THEN close_connection(n, s, i)
  ELSE
  With(Put(n, s, i, (IF n.st[i][s] = "unknown" THEN <<Hello(s)>> ELSE <<>>)
                    \o <<[k |-> "svinfo", by |-> NoOne]>> \o Burst(n, s)), LAMBDA x :
  With(sendto_servs(x, s, {i}, [k |-> "server", s |-> t, by |-> s]), LAMBDA y :
    [y EXCEPT !.st[i][s] = "server",
              !.known[s] = Append(@, [name |-> t, via |-> i, up |-> s])]))

(* Two ways to one server: the younger of the two links goes.  The other    *)
(* way is removed first when it is that one, and the handler goes on.       *)
Younger(i, j) == IF i >= j THEN i ELSE j

server_exists(n, s, i, t) ==
  IF t = s THEN exit_link(n, s, i)
  ELSE IF t \notin Names(n, s) THEN n
  ELSE exit_link(n, s, Younger(i, find_server(n, s, t).via))

add_server(n, s, i, t, up) ==
  [sendto_servs(n, s, {i}, [k |-> "server", s |-> t, by |-> up]) EXCEPT
     !.known[s] = Append(@, [name |-> t, via |-> i, up |-> up])]

m_server(n, s, i, t, up) ==
  With(server_exists(n, s, i, t), LAMBDA x :
    IF x.st[i][s] = "none" THEN x
    ELSE IF x.st[i][s] = "server" THEN add_server(x, s, i, t, up)
    ELSE server_estab(x, s, i, t))

m_svinfo(n, s, i) ==
  IF {s, Peer(n, i, s)} \in n.build.skewed THEN exit_link(n, s, i) ELSE n

\* A SQUIT of this server itself means the link it came by.
m_squit(n, s, i, t, by) ==
  IF t = s THEN exit_link(n, s, i)
  ELSE IF t \notin Names(n, s) THEN n
  ELSE exit_server(n, s, i, t, IF by = NoOne THEN Peer(n, i, s) ELSE by)

-----------------------------------------------------------------------------
(* Persons, the channel and messages.                                      *)

Line(kind, u) == [k |-> kind, u |-> u, by |-> u]
KillLine(s, u, why) == [k |-> "kill", u |-> u, by |-> s, why |-> why]

(* register_user for a NICK of a server: a person of a server that is not   *)
(* known, or is reached another way, is sent back a KILL; a nick that is    *)
(* known already never comes in here.                                       *)
m_nick(n, s, i, u, t) ==
  IF t \in Names(n, s) /\ find_server(n, s, t).via = i
  THEN With(u :> t @@ n.users[s], LAMBDA f :
         [sendto_servs(n, s, {i}, [k |-> "nick", u |-> u, at |-> t, by |-> NoOne]) EXCEPT
            !.users[s] = f])
  ELSE Put(n, s, i, <<KillLine(s, u, "ghost")>>)

m_quit(n, s, i, u) == exit_persons(sendto_servs(n, s, {i}, Line("quit", u)), s, {u})
m_part(n, s, i, u) ==
  IF u \notin n.mem[s] THEN n
  ELSE FromChannel(sendto_servs(n, s, {i}, Line("part", u)), s, {u})

\* A KILL of a server is passed on and nobody hears a QUIT; dead are those it hit.
m_kill(n, s, i, m) ==
  IF m.u \notin Persons(n, s) THEN n
  ELSE [exit_persons(sendto_servs(n, s, {i}, m), s, {m.u}) EXCEPT
          !.wronged = IF Home[m.u] = s /\ m.why = "ghost" THEN @ \cup {m.u} ELSE @]

KeepOurs(n, s, t) == n.ts[s] = 0 \/ t >= n.ts[s]
KeepTheirs(n, s, t) == n.ts[s] = 0 \/ t <= n.ts[s]

\* Faulty: the channel keeps the operators it had, as before TS5.
Faulty_m_sjoin(n, s, i, m) ==
  LET nicks == {u \in m.nicks \cap Persons(n, s) : From(n, s, u) = i}
      new   == nicks \ n.mem[s]
      ops   == IF KeepTheirs(n, s, m.ts) THEN m.ops \cap nicks ELSE {}
      t     == IF KeepTheirs(n, s, m.ts) THEN m.ts ELSE n.ts[s]
  IN With([n EXCEPT !.mem[s] = @ \cup new, !.ts[s] = t,
                    !.ops[s] = @ \cup (ops \cap new)], LAMBDA x :
     With([x EXCEPT !.pic = Seen(x, s, new, {})], LAMBDA y :
       IF nicks = {} THEN y ELSE sendto_servs(y, s, {i}, Sjoin(m.by, t, nicks, ops))))

(* m_sjoin (TS5): the older timestamp wins, and its operators with it.      *)
m_sjoin(n, s, i, m) ==
  LET nicks == {u \in m.nicks \cap Persons(n, s) : From(n, s, u) = i}
      new   == nicks \ n.mem[s]
      ops   == IF KeepTheirs(n, s, m.ts) THEN m.ops \cap nicks ELSE {}
      t     == IF KeepTheirs(n, s, m.ts) THEN m.ts ELSE n.ts[s]
  IN With([n EXCEPT !.mem[s] = @ \cup new, !.ts[s] = t,
                    !.ops[s] = (IF KeepOurs(n, s, m.ts) THEN @ ELSE {})
                               \cup (ops \cap new)], LAMBDA x :
     With([x EXCEPT !.pic = Seen(x, s, new, {})], LAMBDA y :
       IF nicks = {} THEN y ELSE sendto_servs(y, s, {i}, Sjoin(m.by, t, nicks, ops))))

(* sendto_channel_butone: every local member, and every link with a member  *)
(* behind it once, but not what is behind one (the link or the sender).     *)
Behind(n, s) == {From(n, s, u) : u \in {v \in n.mem[s] : Home[v] # s}}
sendto_channel_butone(n, s, i, u) ==
  [n EXCEPT
     !.got = [v \in User |->
        IF v \in (MyUsers(n, s) \cap n.mem[s]) \ {u} THEN @[v] + 1 ELSE @[v]],
     !.out = [j \in DOMAIN n.out |->
        IF j \in (MyLinks(n, s) \cap Behind(n, s)) \ {i} /\ n.st[j][Peer(n, j, s)] # "none"
        THEN [n.out[j] EXCEPT ![s] = Append(@, Line("say", u))] ELSE n.out[j]]]

\* m_message to the channel: can_send refuses who is not on it (+n), here too.
m_message(n, s, i, u) ==
  IF u \in n.mem[s] THEN sendto_channel_butone(n, s, i, u) ELSE n

-----------------------------------------------------------------------------
(* A line of a link.                                                       *)

\* parse(): whether the prefix is known here, and is reached the way the line came.
Known(n, s, x) == x \in Persons(n, s) \cup Names(n, s) \cup {s}
Direction(n, s, x) ==
  IF x = s THEN 0
  ELSE IF x \in Names(n, s) THEN find_server(n, s, x).via
  ELSE IF Home[x] = s THEN 0 ELSE From(n, s, x)

\* From the wrong side: it is dropped, as every server here has timestamps.
cancel_clients(n) == n

remove_unknown(n, s, i, x) ==
  Put(n, s, i, <<IF x \in User THEN KillLine(s, x, "ghost")
                 ELSE [k |-> "squit", s |-> x, by |-> s]>>)

Handle(n, s, i, m) ==
  CASE m.k = "hello"  -> m_server(n, s, i, m.s, s)
    [] m.k = "server" -> m_server(n, s, i, m.s, m.by)
    [] m.k = "svinfo" -> m_svinfo(n, s, i)
    [] m.k = "squit"  -> m_squit(n, s, i, m.s, m.by)
    [] m.k = "eof"    -> exit_link(n, s, i)
    [] m.k = "nick"   -> m_nick(n, s, i, m.u, m.at)
    [] m.k = "quit"   -> m_quit(n, s, i, m.u)
    [] m.k = "part"   -> m_part(n, s, i, m.u)
    [] m.k = "kill"   -> m_kill(n, s, i, m)
    [] m.k = "sjoin"  -> m_sjoin(n, s, i, m)
    [] m.k = "say"    -> m_message(n, s, i, m.u)

parse(n, s, i, m) ==
  IF m.k = "eof" \/ m.by = NoOne THEN Handle(n, s, i, m)
  ELSE IF n.st[i][s] # "server" THEN n
  ELSE IF ~Known(n, s, m.by) THEN remove_unknown(n, s, i, m.by)
  ELSE IF Direction(n, s, m.by) # i THEN cancel_clients(n)
  ELSE Handle(n, s, i, m)

-----------------------------------------------------------------------------
(* The network.                                                            *)

(* Before any link: on each server the persons of its own; some are on the  *)
(* channel, whoever came first as its operator.  said: who sent the message *)
(* that got counts; due: who has to get it.                                 *)
LinksInit ==
  \E on \in SUBSET User, t \in [Server -> 1..2], op \in [Server -> User],
     whole \in BOOLEAN, build \in Build :
    LET on_(s) == {u \in on : Home[u] = s} IN
    /\ \A s \in Server : IF on_(s) = {} THEN t[s] = 1 /\ op[s] = CHOOSE u \in User : TRUE
                        ELSE op[s] \in on_(s)
    /\ net = [end |-> <<>>, st |-> <<>>, out |-> <<>>,
              known |-> [s \in Server |-> <<>>],
              users |-> [s \in Server |-> [u \in {v \in User : Home[v] = s} |-> s]],
              alive |-> User,
              mem |-> [s \in Server |-> on_(s)],
              ops |-> [s \in Server |-> {op[s]} \cap on_(s)],
              ts |-> [s \in Server |-> IF on_(s) = {} THEN 0 ELSE t[s]],
              pic |-> [u \in User |-> IF u \in on THEN on_(Home[u]) ELSE {}],
              said |-> NoOne, due |-> {}, got |-> [u \in User |-> 0],
              calm |-> TRUE, events |-> 0, wronged |-> {},
              whole |-> whole, build |-> build]

MayHappen == Len(net.end) + net.events < Bound[net.whole]

\* connect_server, the accept of t and completed_connection: PASS, CAPAB, SERVER.
Connect(s, t) ==
  /\ MayHappen
  /\ s # t /\ t \notin Names(net, s)
  /\ net' = [net EXCEPT !.end = Append(@, <<s, t>>),
                        !.st = Append(@, [x \in {s, t} |-> IF x = s THEN "handshake" ELSE "unknown"]),
                        !.out = Append(@, [x \in {s, t} |-> IF x = s THEN <<Hello(s)>> ELSE <<>>])]

RECURSIVE dopacket(_, _, _)
dopacket(n, s, i) ==
  With(Peer(n, i, s), LAMBDA p :
    IF n.st[i][s] = "none" \/ n.out[i][p] = <<>> THEN n
    ELSE With(parse([n EXCEPT !.out[i][p] = Tail(@)], s, i, Head(n.out[i][p])), LAMBDA x :
           IF n.whole THEN dopacket(x, s, i) ELSE x))

\* read_packet: what has come of one connection.
Read(s, i) ==
  /\ s \in Ends(net, i) /\ net.st[i][s] # "none"
  /\ net.out[i][Peer(net, i, s)] # <<>>
  /\ net' = dopacket(net, s, i)

\* The network loses what is under way; each end finds an error when it reads.
Drop(i) ==
  /\ MayHappen
  /\ \A s \in Ends(net, i) : net.st[i][s] # "none"
  /\ net' = [net EXCEPT !.events = @ + 1, !.calm = FALSE,
                        !.out[i] = [s \in Ends(net, i) |-> <<[k |-> "eof"]>>]]

JoinLocal(u) ==
  /\ MayHappen /\ u \in net.alive \ net.mem[Home[u]]
  /\ \E s \in {Home[u]}, new \in {net.ts[Home[u]] = 0} :
     \E x \in {[net EXCEPT !.events = @ + 1, !.calm = FALSE, !.mem[s] = @ \cup {u},
                           !.ops[s] = IF new THEN {u} ELSE @,
                           !.ts[s] = IF new THEN 3 ELSE @]} :
     \E y \in {[x EXCEPT !.pic = [Seen(x, s, {u}, {}) EXCEPT ![u] = x.mem[s]]]} :
       net' = sendto_servs(y, s, {}, Sjoin(s, y.ts[s], {u}, IF new THEN {u} ELSE {}))

PartLocal(u) ==
  /\ MayHappen /\ u \in net.alive \cap net.mem[Home[u]]
  /\ net' = m_part([net EXCEPT !.events = @ + 1, !.calm = FALSE], Home[u], 0, u)

QuitLocal(u) ==
  /\ MayHappen /\ u \in net.alive
  /\ net' = m_quit([net EXCEPT !.events = @ + 1, !.calm = FALSE], Home[u], 0, u)

(* Due to get it: the members where every server that its own one knows of  *)
(* agrees on both being on the channel.  Who leaves anywhere is not.        *)
Say(u) ==
  /\ MayHappen /\ net.said = NoOne /\ u \in net.alive \cap net.mem[Home[u]]
  /\ \E all \in {Names(net, Home[u]) \cup {Home[u]}} :
       net' = m_message(
         [net EXCEPT !.said = u, !.events = @ + 1,
                     !.due = {v \in net.mem[Home[u]] \ {u} :
                                \A t \in all : {u, v} \subseteq net.mem[t]}],
         Home[u], 0, u)

\* SQUIT by an operator of the server s, or of one behind a link.
SquitLocal(u, t) ==
  /\ MayHappen /\ u \in net.alive /\ t \in Names(net, Home[u])
  /\ net' = exit_server([net EXCEPT !.events = @ + 1, !.calm = FALSE], Home[u], 0, t, u)

LinksNext ==
  \/ \E s, t \in Server : Connect(s, t)
  \/ \E i \in DOMAIN net.end, s \in Server : Read(s, i)
  \/ \E i \in DOMAIN net.end : Drop(i)
  \/ \E u \in User : JoinLocal(u) \/ PartLocal(u) \/ QuitLocal(u) \/ Say(u)
  \/ \E u \in User, t \in Server : SquitLocal(u, t)

LinksSpec == LinksInit /\ [][LinksNext]_net

-----------------------------------------------------------------------------
Quiet ==
  \A i \in DOMAIN net.end, s \in Server : s \in Ends(net, i) =>
    net.out[i][s] = <<>> /\ net.st[i][s] \in {"none", "server"}

\* The lists of a server are sound: each server it knows is listed once, every
\* person is on a server it knows, members are persons and operators members.
ListsSound ==
  /\ \A s \in Server : /\ Names(net, s) \subseteq Server \ {s}
                       /\ Len(net.known[s]) = Cardinality(Names(net, s))
                       /\ Range(net.users[s]) \subseteq Names(net, s) \cup {s}
                       /\ net.mem[s] \subseteq Persons(net, s)
                       /\ net.ops[s] \subseteq net.mem[s]
  /\ net.alive \subseteq User

Joined(s, t) == \E i \in DOMAIN net.end : Ends(net, i) = {s, t} /\ net.st[i][s] = "server"

\* When nothing is under way, the two ends of a link know the same servers, the
\* same persons and the same members: whatever links were made, broken or refused
\* as a second way to a server, and whoever came and went meanwhile.
EndsAgree ==
  Quiet => \A i \in DOMAIN net.end : LET s == net.end[i][1] t == net.end[i][2] IN
    /\ net.st[i][s] = net.st[i][t]
    /\ net.st[i][s] = "server" =>
         /\ Names(net, s) \cup {s} = Names(net, t) \cup {t}
         /\ net.users[s] = net.users[t] /\ net.mem[s] = net.mem[t]

\* Their SJOINs leave them with one timestamp and the same operators, as long as
\* nobody joins or leaves and no link ends while they meet.
OpsAgree ==
  Quiet /\ net.calm =>
    \A s, t \in Server : Joined(s, t) => net.ops[s] = net.ops[t] /\ net.ts[s] = net.ts[t]

\* What a client was shown of the channel (NAMES, JOIN, PART, QUIT) is who is on
\* it at its server.
PictureRight ==
  \A u \in net.alive : net.pic[u] = IF u \in net.mem[Home[u]] THEN net.mem[Home[u]] ELSE {}

\* A message is shown to nobody twice, and when nothing is under way it has come
\* to everybody who was on the channel all the while.
SaidOnce ==
  /\ \A u \in User : net.got[u] <= 1
  /\ Quiet => \A u \in net.due : net.got[u] = 1

\* Nobody is killed as a ghost while he is there.
OnlyGhostsKilled == net.wronged = {}

\* Every server is sound by itself, and agrees with its neighbours when nothing
\* is under way.
NetAgrees == ListsSound /\ EndsAgree

\* What persons get to see is true: the picture of their channel (PictureRight),
\* what is said there, once (SaidOnce), and no KILL by mistake.
PersonsServed == PictureRight /\ SaidOnce /\ OnlyGhostsKilled
=============================================================================
