------------------------------- MODULE Autoconn -------------------------------
(***************************************************************************)
(* How this server seeks its links: try_connections of src/s_serv.c and the *)
(* turn of io_loop that calls it, connect_server and close_connection of    *)
(* src/s_bsd.c, the host names of C-lines that have to be looked up,        *)
(* CONNECT and SET AUTOCONN, SERVER as far as it makes or ends links, and a *)
(* REHASH under all of that.                                                *)
(*                                                                          *)
(* Times are kept as what is left of them: a hold or nextconnect of 0 is    *)
(* due.  Every C-line has an N-line of its host and class, or none; hosts   *)
(* of lines with one name are the same, and every H-line is there.          *)
(***************************************************************************)
EXTENDS Integers, SequencesExt, FiniteSetsExt

CONSTANTS
  Names,             \* of the other servers
  Class,             \* Class[k]: freq, the seconds between attempts, and max
  ConfFiles,         \* contents of ircd.conf: lines, in the order of the file, and
                     \* nlines, the names that have an N-line
  Hub,               \* compiled with HUB
  MIN_CONN_FREQ, HANGONGOODLINK, HANGONRETRYDELAY,
  HandshakeTime,     \* by this age check_pings has closed an unregistered connection
  MaxConns,          \* bound: descriptors
  MaxLineIds,        \* bound: C-lines in memory
  MaxOrders,         \* bound: what operators do
  RehashInLookup,    \* a REHASH may come while a host is looked up
  Never, NoName

LineId == 1 .. MaxLineIds

VARIABLES
  lk,        \* line, list: C-lines by identity and ConfigItemList; nlines; conns,
             \* oldest first; remote[n]: the link that introduced n; next: nextconnect
  autoconn,  \* GlobalSetOptions.autoconn
  tried,     \* the server that the last second's try_connections picked
  orders     \* how many commands operators have given

acVars == <<lk, autoconn, tried, orders>>

\* Lines have a kind of use: listed, illegal (off the list, in use) or freed.
NoLine == [name |-> NoName, class |-> 1, port |-> FALSE, known |-> FALSE,
           query |-> "none", hold |-> 0, auto |-> FALSE, use |-> "freed"]

-----------------------------------------------------------------------------
(* Lines, links and servers.                                                *)

FirstOr0(seq, Test(_)) ==
  LET s == SelectSeq(seq, Test) IN IF s = <<>> THEN 0 ELSE s[1]

\* find_conf_by_name, find_conf_exact
find_conf(t, n) == FirstOr0(t.list, LAMBDA i : t.line[i].name = n)

Clients(t, i) == {k \in DOMAIN t.conns : t.conns[k].line = i}

\* The links of a class: each connection is attached to a C-line and an N-line.
Links(t, c) ==
  2 * Cardinality({k \in DOMAIN t.conns :
                     t.conns[k].line # 0 /\ t.line[t.conns[k].line].class = c})

\* The link over which server n is reached, or 0.
LinkTo(t, n) ==
  FirstOr0([k \in DOMAIN t.conns |-> k],
           LAMBDA k : t.conns[k].server /\ t.conns[k].name \in {n, t.remote[n]})

find_server(t, n) == LinkTo(t, n) # 0

\* There is no query to cancel: dns_query of a line is never set.
free_conf(l) == [NoLine EXCEPT !.query = l.query]

\* An illegal line is freed with its last client (detach_conf).
Freed(t) ==
  [t EXCEPT !.line = [i \in LineId |->
     IF t.line[i].use = "illegal" /\ Clients(t, i) = {} THEN free_conf(t.line[i])
     ELSE t.line[i]]]

\* Faulty: the next round of attempts stays when it was.
Faulty_close_connection(t, k) ==
  LET c == t.conns[k]
      i == find_conf(t, c.name)
  IN Freed([t EXCEPT
       !.conns = RemoveAt(@, k),
       !.remote = [n \in Names |-> IF c.server /\ @[n] = c.name THEN NoName ELSE @[n]],
       !.line = IF ~c.server \/ i = 0 THEN @
                ELSE [@ EXCEPT ![i].hold = IF c.age > HANGONGOODLINK THEN HANGONRETRYDELAY
                                           ELSE Class[t.line[i].class].freq]])

\* Where a link was lost its line is due again: soon, if the link was good.
close_connection(t, k) ==
  LET c == t.conns[k]
      i == find_conf(t, c.name)
      hold == IF c.age > HANGONGOODLINK THEN HANGONRETRYDELAY
              ELSE Class[t.line[i].class].freq
      lost == c.server /\ i # 0
  IN Freed([t EXCEPT
       !.conns = RemoveAt(@, k),
       !.remote = [n \in Names |-> IF c.server /\ @[n] = c.name THEN NoName ELSE @[n]],
       !.line = IF lost THEN [@ EXCEPT ![i].hold = hold] ELSE @,
       !.next = IF lost /\ @ # Never /\ @ > hold THEN hold ELSE @])

-----------------------------------------------------------------------------
(* Connecting.                                                              *)

\* connect_inet fails for want of descriptors, or as the network has it.
connect_server(t, i, works) ==
  LET n == t.line[i].name
      j == find_conf(t, n)
  IN IF t.line[i].query # "none" \/ find_server(t, n) THEN t
     ELSE IF ~t.line[i].known THEN [t EXCEPT !.line[i].query = "connect"]
     ELSE IF ~works \/ Len(t.conns) = MaxConns \/ j = 0 \/ n \notin t.nlines THEN t
     ELSE [t EXCEPT !.conns = Append(@, [name |-> n, line |-> j, server |-> FALSE, age |-> 0])]

\* What try_connections looks at: lines with a port whose time has come.
Due(t) == SelectSeq(t.list, LAMBDA i : t.line[i].port /\ t.line[i].hold = 0)
Wanted(t, i) ==
  ~find_server(t, t.line[i].name) /\ Links(t, t.line[i].class) < Class[t.line[i].class].max

\* Of those it picks the first of the highest class.
Pick(t) ==
  LET wanted == SelectSeq(Due(t), LAMBDA i : Wanted(t, i))
  IN FirstOr0(wanted, LAMBDA i : \A j \in Range(wanted) : t.line[j].class <= t.line[i].class)

Held(t) ==
  [t EXCEPT !.line = [i \in LineId |->
     IF i \notin Range(Due(t)) THEN t.line[i]
     ELSE [t.line[i] EXCEPT !.hold = Max({MIN_CONN_FREQ, Class[t.line[i].class].freq})]]]

\* Faulty: the line that was picked stays where it is in the list.
Faulty_Rotated(t, i) == t

\* put the current one at the end and make sure we try all connections
Rotated(t, i) == [t EXCEPT !.list = Append(Remove(@, i), i)]

NextDue(t) ==
  LET holds == {t.line[i].hold : i \in {j \in Range(t.list) : t.line[j].port}}
  IN IF holds = {} THEN Never ELSE Min(holds)

try_connections(works) ==
  /\ lk.next = 0
  /\ UNCHANGED <<autoconn, orders>>
  /\ LET i == Pick(lk)
         t == Held(lk)
         next(r) == [r EXCEPT !.next = NextDue(t)]
     IN /\ tried' = IF i = 0 THEN NoName ELSE lk.line[i].name
        /\ lk' = IF ~autoconn \/ i = 0 THEN next(t)
                 ELSE IF ~lk.line[i].auto THEN next(Rotated(t, i))
                 ELSE next(connect_server(Rotated(t, i), i, works))

Ordered == orders < MaxOrders /\ orders' = orders + 1

\* CONNECT
m_connect(n, works) ==
  /\ ~find_server(lk, n) /\ find_conf(lk, n) # 0
  /\ Ordered
  /\ lk' = connect_server(lk, find_conf(lk, n), works)
  /\ UNCHANGED <<autoconn, tried>>

\* conf_dns_callback, connect_dns_callback
Looked(i, found, works) ==
  /\ lk.line[i].query # "none" /\ lk.line[i].use # "freed"
  /\ LET t == [lk EXCEPT !.line[i].query = "none", !.line[i].known = @ \/ found]
     IN lk' = IF found /\ lk.line[i].query = "connect" THEN connect_server(t, i, works) ELSE t
  /\ UNCHANGED <<autoconn, tried, orders>>

-----------------------------------------------------------------------------
(* SERVER.                                                                  *)

\* A server that connects to us.
Accept(n) ==
  /\ Len(lk.conns) < MaxConns
  /\ lk' = [lk EXCEPT !.conns = Append(@, [name |-> n, line |-> 0, server |-> FALSE, age |-> 0])]
  /\ UNCHANGED <<autoconn, tried, orders>>

\* check_server attaches the lines that are in force now, server_estab refuses
\* a second link to a leaf.
Establish(t, k) ==
  LET n == t.conns[k].name
      j == find_conf(t, n)
      attached == Freed([t EXCEPT !.conns[k].line = j, !.line[j].known = TRUE])
  IN IF j = 0 \/ n \notin t.nlines THEN close_connection(t, k)
     ELSE IF ~Hub /\ \E l \in DOMAIN t.conns : t.conns[l].server THEN close_connection(attached, k)
     ELSE [attached EXCEPT !.conns[k].server = TRUE]

\* Two ways to one server: the younger link goes, which may be the other one.
\* then(t, k) says what happens when k stays.
OneWayTo(t, k, n, then(_, _)) ==
  LET l == LinkTo(t, n)
  IN IF l = 0 THEN then(t, k)
     ELSE IF l = k \/ t.conns[k].age < t.conns[l].age THEN close_connection(t, k)
     ELSE then(close_connection(t, l), IF l < k THEN k - 1 ELSE k)

m_server(k) ==
  /\ ~lk.conns[k].server
  /\ LET n == lk.conns[k].name
     IN lk' = IF n \notin lk.nlines \/ ~autoconn THEN close_connection(lk, k)
              ELSE OneWayTo(lk, k, n, Establish)
  /\ UNCHANGED <<autoconn, tried, orders>>

\* SERVER from a link: n is behind it.
Introduced(k, n) ==
  /\ lk.conns[k].server /\ lk.conns[k].name # n
  /\ lk' = IF ~autoconn THEN close_connection(lk, k)
           ELSE OneWayTo(lk, k, n,
                  LAMBDA t, l : [t EXCEPT !.remote[n] = t.conns[l].name])
  /\ UNCHANGED <<autoconn, tried, orders>>

\* SQUIT for a server behind a link.
Split(n) ==
  /\ lk.remote[n] # NoName
  /\ lk' = [lk EXCEPT !.remote[n] = NoName]
  /\ UNCHANGED <<autoconn, tried, orders>>

\* A connection is lost or refused, or ends.
Exit(k) ==
  /\ UNCHANGED <<autoconn, tried, orders>>
  /\ lk' = close_connection(lk, k)

-----------------------------------------------------------------------------
(* Settings, the configuration, and the clock.                              *)

SetAutoconn(n, on) ==
  /\ find_conf(lk, n) # 0
  /\ Ordered
  /\ lk' = [lk EXCEPT !.line[find_conf(lk, n)].auto = on]
  /\ UNCHANGED <<autoconn, tried>>

SetAutoconnAll(on) == Ordered /\ autoconn' = on /\ UNCHANGED <<lk, tried>>

\* initconf: a line goes to the front of the list; its host is looked up at
\* once unless it is an address.
AddLine(t, l) ==
  LET i == Min({j \in LineId : t.line[j].use = "freed" /\ t.line[j].query = "none"})
  IN [t EXCEPT !.list = <<i>> \o @,
       !.line[i] = [name |-> l.name, class |-> l.class, port |-> l.port, known |-> l.known,
                    query |-> IF l.known THEN "none" ELSE "conf",
                    hold |-> 0, auto |-> TRUE, use |-> "listed"]]

initconf(t, f) ==
  [FoldLeft(AddLine, t, f.lines) EXCEPT !.nlines = f.nlines, !.next = 0]

\* A line in use stays until its last client goes.
clear_out_old_conf(t) ==
  [t EXCEPT !.list = <<>>,
     !.line = [i \in LineId |-> IF Clients(t, i) # {} THEN [@[i] EXCEPT !.use = "illegal"]
                                ELSE free_conf(@[i])]]

Rehash(f) ==
  /\ Ordered
  /\ RehashInLookup \/ \A i \in LineId : lk.line[i].query = "none"
  /\ Len(f.lines) <= Cardinality({i \in LineId : Clients(lk, i) = {} /\ lk.line[i].query = "none"})
  /\ lk' = initconf(clear_out_old_conf(lk), f)
  /\ UNCHANGED <<autoconn, tried>>

\* A second passes; check_pings has closed what did not register in time.
Less(x) == IF x = 0 THEN 0 ELSE x - 1
Overdue(k) == ~lk.conns[k].server /\ lk.conns[k].age >= HandshakeTime
Tick ==
  /\ \A k \in DOMAIN lk.conns : ~Overdue(k)
  /\ tried' = NoName /\ UNCHANGED <<autoconn, orders>>
  /\ lk' = [lk EXCEPT
       !.next = IF @ = Never THEN @ ELSE Less(@),
       !.line = [i \in LineId |-> [@[i] EXCEPT !.hold = Less(@)]],
       !.conns = [k \in DOMAIN @ |-> [@[k] EXCEPT !.age = Min({@ + 1, HANGONGOODLINK + 1})]]]

AutoconnInit ==
  /\ \E f \in ConfFiles :
       lk = initconf([line |-> [i \in LineId |-> NoLine], list |-> <<>>, nlines |-> {},
                      conns |-> <<>>, remote |-> [n \in Names |-> NoName], next |-> 0], f)
  /\ autoconn = TRUE /\ tried = NoName /\ orders = 0

AutoconnNext ==
  \/ \E works \in BOOLEAN : try_connections(works)
  \/ \E n \in Names, works \in BOOLEAN : m_connect(n, works)
  \/ \E i \in LineId, found, works \in BOOLEAN : Looked(i, found, works)
  \/ \E n \in Names : Accept(n) \/ Split(n)
  \/ \E k \in DOMAIN lk.conns : m_server(k) \/ Exit(k)
  \/ \E k \in DOMAIN lk.conns, n \in Names : Introduced(k, n)
  \/ \E n \in Names, on \in BOOLEAN : SetAutoconn(n, on)
  \/ \E on \in BOOLEAN : SetAutoconnAll(on)
  \/ \E f \in ConfFiles : Rehash(f)
  \/ Tick

\* io_loop goes round at least every few seconds, and check_pings with it.
AutoconnFairness ==
  /\ WF_acVars(\E works \in BOOLEAN : try_connections(works))
  /\ WF_acVars(\E k \in DOMAIN lk.conns : Overdue(k) /\ Exit(k))
  /\ WF_acVars(Tick)
AutoconnSpec == AutoconnInit /\ [][AutoconnNext]_acVars /\ AutoconnFairness

-----------------------------------------------------------------------------
(* Properties.                                                              *)

\* The next round of attempts is never later than the hold of any line: not
\* after a link is lost in between, after a REHASH, or after rounds that put
\* lines off.
DueInTime ==
  \A i \in Range(lk.list) :
    lk.line[i].port => lk.next # Never /\ lk.next <= lk.line[i].hold

\* However connections cross, attempts are doubled and links are dropped for
\* others, there is one way to a server at a time, and what it hangs on is
\* there: the link that introduced a server, and the C-line of a connection.
OneWay ==
  /\ \A k, l \in DOMAIN lk.conns :
       k # l /\ lk.conns[k].server /\ lk.conns[l].server =>
         Hub /\ lk.conns[k].name # lk.conns[l].name
  /\ \A n \in Names : lk.remote[n] # NoName =>
       /\ \E k \in DOMAIN lk.conns : lk.conns[k].server /\ lk.conns[k].name = lk.remote[n]
       /\ ~\E k \in DOMAIN lk.conns : lk.conns[k].server /\ lk.conns[k].name = n
  /\ \A k \in DOMAIN lk.conns : lk.conns[k].line # 0 => lk.line[lk.conns[k].line].use # "freed"

\* A line that try_connections may pick over all others that it wants, time
\* after time, is picked again and again: none of its class is passed over for
\* ever.  (One of a lower class is, as long as a higher one is down.)
OnTop(n) ==
  LET i == find_conf(lk, n)
  IN autoconn /\ i # 0 /\ lk.line[i].port /\ Wanted(lk, i)
     /\ \A j \in Range(lk.list) : lk.line[j].port /\ Wanted(lk, j)
          => lk.line[j].class <= lk.line[i].class
AllTried == \A n \in Names : []<>(~OnTop(n) \/ tried = n)

\* connect_server: "aconf must point to a valid C:line", also when it is the
\* answer of the resolver that calls it.
LookupValid == \A i \in LineId : lk.line[i].query # "none" => lk.line[i].use # "freed"
=============================================================================
