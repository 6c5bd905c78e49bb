-------------------------------- MODULE Adns --------------------------------
(***************************************************************************)
(* The resolver: src/adns.c and the adns library.  A request of the ircd is *)
(* the address of a host, or the name of an address, which is believed only *)
(* when the addresses of the name, asked for by child queries, say so too.  *)
(* Datagrams are lost, late and repeated.  adns__query_send never chooses    *)
(* TCP (its test is compiled out), and the state of TCP is left out.        *)
(***************************************************************************)
EXTENDS Integers, FiniteSets, SequencesExt, FiniteSetsExt

CONSTANTS
  Req,             \* the DNSQuery records of the ircd
  Ptr,             \* those that ask for the name of an address
  Slot,            \* the places for queries in memory
  MaxServers, UDPMAXRETRIES,
  MaxRestart,      \* bound: restarts after a truncated reply or a referral
  MaxSubmit        \* bound: requests

AdnsSizes ==
  /\ Ptr \subseteq Req /\ Slot \subseteq Nat \ {0}
  /\ MaxServers \in Nat \ {0} /\ UDPMAXRETRIES \in Nat \ {0}

VARIABLES
  ads,          \* the queries, their queues and the number of servers
  open,         \* open[r]: DNSQuery.query: the slot of its query, or 0
  told,         \* told[r]: what its callback was told last
  submits, restarts

adnsVars == <<ads, open, told, submits, restarts>>

Server == 0..(MaxServers - 1)
Free == [state |-> "free"]

AdnsInit ==
  /\ \E n \in 1..MaxServers :
       ads = [q |-> [i \in Slot |-> Free], udpw |-> <<>>, childw |-> <<>>, output |-> <<>>,
              nservers |-> n]
  /\ open = [r \in Req |-> 0] /\ told = [r \in Req |-> "none"]
  /\ submits = 0 /\ restarts = 0

(* names, right: the names of the answer, and those an address confirmed.  *)
(* asked: the servers the present question was sent to; udpsent holds those *)
(* of the questions before too, which do not answer this one.              *)
query_alloc(kind, parent) ==
  [state |-> "tosend", kind |-> kind, parent |-> parent, children |-> {}, retries |-> 0,
   next |-> 0, asked |-> {}, cname |-> FALSE, status |-> "ok",
   names |-> 0, right |-> 0]

\* Op of v, where v is evaluated once.
With(v, Op(_)) == CHOOSE r \in {Op(x) : x \in {v}} : TRUE

Without(queue, i) == SelectSeq(queue, LAMBDA j : j # i)
Live(s) == {i \in Slot : s.q[i].state # "free"}
Spare(s) == Min(Slot \ Live(s))

RECURSIVE query_done(_, _), query_fail(_, _, _), icb_ptr(_, _, _)

\* Faulty: a query that fails leaves its children where they are.
KeepChildren(s, i) == [s EXCEPT !.q[i].names = 0]

\* adns_cancel of the children of i, which wait for a datagram; i keeps none.
cancel_children(s, i) ==
  LET gone == s.q[i].children IN
  [s EXCEPT !.q = [j \in Slot |-> IF j \in gone THEN Free
                                  ELSE IF j = i THEN [s.q[i] EXCEPT !.children = {}]
                                  ELSE s.q[j]],
            !.udpw = SelectSeq(@, LAMBDA j : j \notin gone)]

adns__reset_preserved(s, i) == [cancel_children(s, i) EXCEPT !.q[i].names = 0]

query_fail(s, i, st) ==
  With([adns__reset_preserved(s, i) EXCEPT !.q[i].status = st], LAMBDA t : query_done(t, i))

(* A child tells its parent, which is in no queue just now, and is freed.   *)
query_done(s0, i) ==
  LET parent == s0.q[i].parent
      Tell(s) == [icb_ptr(s, parent, i) EXCEPT !.q[i] = Free] IN
  IF parent = 0
  THEN [cancel_children(s0, i) EXCEPT !.q[i].state = "done", !.output = Append(@, i)]
  ELSE With([cancel_children(s0, i) EXCEPT !.q[parent].children = @ \ {i},
                                           !.childw = Without(@, parent)], Tell)

(* "other": addresses came, and none of them is the one that was asked for. *)
icb_ptr(s, p, i) ==
  LET st == s.q[i].status
      t == [s EXCEPT !.q[p].right = @ + 1] IN
  CASE st \in {"nxdomain", "nodata", "other"} -> query_fail(s, p, "inconsistent")
    [] st \notin {"ok", "nxdomain", "nodata", "other"} -> query_fail(s, p, st)
    [] st = "ok" /\ t.q[p].children # {} -> [t EXCEPT !.childw = Append(@, p)]
    [] OTHER -> query_done(t, p)

adns__query_send(s, i) ==
  IF s.q[i].retries >= UDPMAXRETRIES THEN query_fail(s, i, "timeout")
  ELSE LET serv == s.q[i].next IN
       [s EXCEPT !.udpw = Append(@, i),
                 !.q[i] = [@ EXCEPT !.asked = @ \cup {serv},
                                    !.next = (serv + 1) % s.nservers,
                                    !.retries = @ + 1]]

\* query_submit of a new query of that kind.
submit(s, kind, parent) ==
  With([s EXCEPT !.q[Spare(s)] = query_alloc(kind, parent)],
       LAMBDA t : adns__query_send(t, Spare(s)))

(* The time of the first n datagrams is up: the queue is in the order of   *)
(* the times.  One that fails may take its siblings out of the queue, and  *)
(* the walk starts at the head of what is left.                            *)
RECURSIVE timeouts_queue(_, _)
timeouts_queue(s, due) ==
  LET late == SelectSeq(s.udpw, LAMBDA i : i \in due) IN
  IF late = <<>> THEN s
  ELSE With(adns__query_send([s EXCEPT !.udpw = Without(@, Head(late))], Head(late)),
            LAMBDA t : timeouts_queue(t, due \ {Head(late)}))

\* The children of i for the n names of the answer; without a name it is done.
RECURSIVE Ask(_, _, _)
Ask(s, i, n) ==
  IF n = 0 THEN [s EXCEPT !.q[i].state = "childw", !.childw = Append(@, i)]
  ELSE LET new == Spare(s) IN
       With([submit(s, "child", i) EXCEPT !.q[i].children = @ \cup {new}],
            LAMBDA t : Ask(t, i, n - 1))

(* What a datagram may hold.                                               *)
Restarts == {"truncated", "truncated_cname", "referral_cname"}
Answers(kind) ==
  CASE kind = "ptr" -> {"name", "names"}
    [] kind = "addr" -> {"address"}
    [] kind = "child" -> {"address", "other"}
Held(kind) == {"rcode", "nxdomain", "nodata", "prohibitedcname"} \cup Restarts \cup Answers(kind)

(* A server's reply to query i, which was sent to it.  A cname that         *)
(* follows another may be refused: cname_count is never set to zero.       *)
adns__procdgram(s0, i, what) ==
  LET s == [s0 EXCEPT !.udpw = Without(@, i)]
      q == s0.q[i]
      again(cname) ==
        With([adns__reset_preserved(s, i) EXCEPT !.q[i] =
                [@ EXCEPT !.retries = 0, !.cname = cname, !.asked = IF cname THEN {} ELSE @]],
             LAMBDA t : adns__query_send(t, i)) IN
  CASE what \in {"rcode", "nxdomain", "nodata", "prohibitedcname"} -> query_fail(s, i, what)
    [] what = "truncated" -> again(q.cname)
    [] what \in Restarts \ {"truncated"} -> again(TRUE)
    [] what = "address" -> query_done([s EXCEPT !.q[i].status = "ok"], i)
    [] what = "other" -> query_done([s EXCEPT !.q[i].status = "other"], i)
    [] what = "name" -> Ask([s EXCEPT !.q[i].names = 1], i, 1)
    [] what = "names" -> Ask([s EXCEPT !.q[i].names = 2], i, 2)

(* dns_do_callbacks: the requests that are done are told.                  *)
Told(s, r) == IF s.q[open[r]].status = "ok" THEN "name" ELSE "nothing"
dns_do_callbacks(s) ==
  [s EXCEPT !.q = [i \in Slot |-> IF s.q[i].state = "done" THEN Free ELSE s.q[i]],
            !.output = <<>>]

Answered(s) ==
  LET finished == {r \in Req : open[r] # 0 /\ s.q[open[r]].state = "done"} IN
  /\ ads' = dns_do_callbacks(s)
  /\ open' = [r \in Req |-> IF r \in finished THEN 0 ELSE open[r]]
  /\ told' = [r \in Req |-> IF r \in finished THEN Told(s, r) ELSE told[r]]

\* do_adns_io: the first n datagrams are late and nothing has arrived.
Late(n) ==
  /\ n <= Len(ads.udpw)
  /\ \E s \in {timeouts_queue(ads, {ads.udpw[k] : k \in 1..n})} : Answered(s)
  /\ UNCHANGED <<submits, restarts>>

\* do_adns_io: a reply arrives; what is late at the same time is a step before.
Reply ==
  /\ \E i \in ToSet(ads.udpw) :
       \E serv \in ads.q[i].asked \cap 0..(ads.nservers - 1), what \in Held(ads.q[i].kind) :
         /\ what = "prohibitedcname" => ads.q[i].cname
         /\ restarts' = IF what \in Restarts THEN restarts + 1 ELSE restarts
         /\ restarts' <= MaxRestart
         /\ \E s \in {adns__procdgram(ads, i, what)} : Answered(s)
  /\ UNCHANGED submits

\* adns_getaddr, adns_gethost.
Submit(r) ==
  /\ open[r] = 0 /\ submits < MaxSubmit /\ submits' = submits + 1
  /\ ads' = submit(ads, IF r \in Ptr THEN "ptr" ELSE "addr", 0)
  /\ open' = [open EXCEPT ![r] = Spare(ads)]
  /\ told' = [told EXCEPT ![r] = "none"]
  /\ UNCHANGED restarts

\* delete_adns_queries: the client or the conf line of the request goes.
delete_adns_queries(r) ==
  /\ open[r] # 0
  /\ LET s == cancel_children(ads, open[r]) IN
     ads' = [s EXCEPT !.q[open[r]] = Free, !.udpw = Without(@, open[r]),
                      !.childw = Without(@, open[r])]
  /\ open' = [open EXCEPT ![r] = 0]
  /\ UNCHANGED <<told, submits, restarts>>

\* REHASH DNS finds fewer servers (bound): the queries keep the numbers of before.
restart_resolver(n) ==
  /\ n < ads.nservers
  /\ ads' = [ads EXCEPT !.nservers = n]
  /\ UNCHANGED <<open, told, submits, restarts>>

AdnsNext ==
  \/ \E r \in Req : Submit(r) \/ delete_adns_queries(r)
  \/ Reply
  \/ \E n \in 1..Cardinality(Slot) : Late(n)
  \/ \E n \in 1..MaxServers : restart_resolver(n)

\* Time passes until the head of the queue is late.
AdnsFairness == WF_adnsVars(\E n \in 1..Cardinality(Slot) : Late(n))

\* Every query is in the queue of its state, once, and in no other; a parent waits
\* for children, which name it as theirs and wait for a datagram; and the query of
\* a request of the ircd is its own (the asserts of check.c).
QueuesAgree ==
  /\ \A i \in Slot :
       LET times(queue) == Cardinality({k \in DOMAIN queue : queue[k] = i}) IN
       /\ times(ads.udpw) = IF ads.q[i].state = "tosend" THEN 1 ELSE 0
       /\ times(ads.childw) = IF ads.q[i].state = "childw" THEN 1 ELSE 0
       /\ i \in Live(ads) =>
            /\ (ads.q[i].children # {}) = (ads.q[i].state = "childw")
            /\ \A j \in ads.q[i].children :
                 j \in Live(ads) /\ ads.q[j].state = "tosend" /\ ads.q[j].parent = i
            /\ ads.q[i].parent # 0 =>
                 ads.q[i].parent \in Live(ads) /\ i \in ads.q[ads.q[i].parent].children
            /\ ads.q[i].parent = 0 => \E r \in Req : open[r] = i
  /\ ads.output = <<>>
  /\ \A r \in Req : open[r] # 0 => open[r] \in Live(ads) /\ ads.q[open[r]].parent = 0

\* The name of an address is believed only when each of the names that came was
\* found to have that address: no order of the answers, failures and timeouts of
\* the child queries brings a name through otherwise.
NameConfirmed ==
  [][\A r \in Ptr : open[r] # 0 /\ open'[r] = 0 /\ told'[r] = "name" =>
       LET q == ads.q[open[r]] IN q.state = "childw" /\ q.names = q.right + 1]_adnsVars

\* A request ends, told or withdrawn, if servers do not cut their replies for ever:
\* each time a datagram is late another server is tried, and not for ever.
QueriesEnd == \A r \in Req : open[r] # 0 ~> open[r] = 0
=============================================================================
