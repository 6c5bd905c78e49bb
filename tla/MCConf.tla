------------------------------- MODULE MCConf -------------------------------
(***************************************************************************)
(* The modules of the configuration, checked side by side: a behaviour is   *)
(* one of the module that part names, and the others keep their first state.*)
(***************************************************************************)
EXTENDS Confs, TLC

CONSTANTS
  MaxILines, MaxLines,
  Size, Blocks, Exceptions, MaxDlines, MaxIpKlines,
  MATCH_MAX_CALLS,
  n1, n2, Hub, MIN_CONN_FREQ, HANGONGOODLINK, HANGONRETRYDELAY, HandshakeTime,
  MaxConns, MaxLineIds, MaxOrders, RehashInLookup, Never, NoName

VARIABLES
  part,
  level, odd, star, lines,
  dtree, oracle, leftover, ktree, ike_oracle, given,
  mask, name, source, at, result,
  lk, autoconn, tried, orders

\* Class 5 is in ircd.conf of the first configuration and in an included file
\* of the second, which also names no port.
ConfLine(kind, num, max) == [kind |-> kind, num |-> num, max |-> max, near |-> TRUE]
MCAddress == [x \in Users |-> "a"]
MCFiles ==
  {[main |-> <<ConfLine("Y", 5, 1), ConfLine("I", 5, 0), ConfLine("C", 5, 0),
               ConfLine("N", 5, 0)>>, include |-> <<>>, ports |-> Ports],
   [main |-> <<ConfLine("I", 5, 0)>>,
    include |-> <<ConfLine("Y", 5, 2), ConfLine("O", 5, 0)>>, ports |-> {}]}

\* Two hosts of a domain c and one below the first.
M == INSTANCE Mtrie WITH
  Hosts <- {<<"c", "a">>, <<"c", "b">>, <<"c", "a", "b">>},
  Stacks <- {<<"c">>, <<"c", "a">>, <<"c", "*">>, <<"c", "a", "*">>},
  Oddities <- {<<"?", {<<"c", "a">>, <<"c", "a", "b">>}>>},
  Names <- {"u", "v"}, Wild <- LAMBDA p : p = "*", Fits <- LAMBDA p, l : p \in {"*", l},
  Bucket <- LAMBDA p : p

DL == INSTANCE IpLines WITH IpUsers <- {"u", "v"}, MaxIpKlines <- 0
KL == INSTANCE IpLines WITH IpUsers <- {"u", "v"}, MaxDlines <- 0

Words(chars, length) == UNION {[1 .. k -> chars] : k \in 0 .. length}
X == INSTANCE Masks WITH
  Masks0 <- Words({"a", "*", "?"}, 4), Strings <- Words({"a", "1"}, 3),
  MaskHosts <- {h \in Words({"a", "1", "."}, 5) \cup Words({"1", "."}, 7) :
                  h # <<>> /\ h[Len(h)] # "."}

\* Two servers of one class, one with a host to look up; of two classes; and
\* one without a port and one without an N-line.
CLine(n, c, p, k) == [name |-> n, class |-> c, port |-> p, known |-> k]
OtherServers == {n1, n2}
ConnClasses == <<[freq |-> 1, max |-> 4], [freq |-> 3, max |-> 1]>>
ConnFiles ==
  {[nlines |-> {n1, n2},
    lines |-> <<CLine(n1, 1, TRUE, TRUE), CLine(n2, 1, TRUE, FALSE)>>],
   [nlines |-> {n1, n2},
    lines |-> <<CLine(n1, 2, TRUE, TRUE), CLine(n2, 1, TRUE, TRUE)>>],
   [nlines |-> {n1},
    lines |-> <<CLine(n1, 1, FALSE, TRUE), CLine(n2, 2, TRUE, TRUE)>>]}
A == INSTANCE Autoconn WITH
  Names <- OtherServers, Class <- ConnClasses, ConfFiles <- ConnFiles

MCInit ==
  /\ part \in {"confs", "mtrie", "dlines", "iplines", "masks", "autoconn"}
  /\ M!MtInit /\ DL!IpInit
  /\ ConfsInit /\ (part # "confs" => \A p \in Ports : listener[p].open)
  /\ A!AutoconnInit /\ (part # "autoconn" => lk.nlines = {n1})
  /\ IF part = "masks" THEN X!MatchInit ELSE X!Start(<<>>, <<>>, "collapse", <<>>)

mVars == <<level, odd, star, lines>>
iVars == <<dtree, oracle, leftover, ktree, ike_oracle, given>>
xVars == <<mask, name, source, at, result>>
aVars == <<lk, autoconn, tried, orders>>

MCNext ==
  /\ UNCHANGED part
  /\ \/ part = "confs" /\ ConfsNext /\ UNCHANGED <<mVars, iVars, xVars, aVars>>
     \/ part = "mtrie" /\ M!MtNext /\ UNCHANGED <<cfVars, iVars, xVars, aVars>>
     \/ part = "dlines" /\ DL!IpNext /\ UNCHANGED <<cfVars, mVars, xVars, aVars>>
     \/ part = "iplines" /\ KL!IpNext /\ UNCHANGED <<cfVars, mVars, xVars, aVars>>
     \/ part = "masks" /\ X!MatchNext /\ UNCHANGED <<cfVars, mVars, iVars, aVars>>
     \/ part = "autoconn" /\ A!AutoconnNext /\ UNCHANGED <<cfVars, mVars, iVars, xVars>>

mcVars == <<part, cfVars, mVars, iVars, xVars, aVars>>
MCSpec ==
  /\ MCInit /\ [][MCNext]_mcVars
  /\ WF_aVars(part = "autoconn" /\ \E works \in BOOLEAN : A!try_connections(works))
  /\ WF_aVars(part = "autoconn" /\ \E k \in DOMAIN lk.conns : A!Overdue(k) /\ A!Exit(k))
  /\ WF_aVars(part = "autoconn" /\ A!Tick)

(* The properties, put together from those of the modules; ConfsAgree is    *)
(* that of Confs itself.                                                    *)

\* The tries and trees decide as the lines that were put in: by a line of the
\* name itself, K-lines of a domain hold, exceptions and D-lines by address as
\* the list of them would, K-lines by address only where one applies; match agrees
\* with what the mask means (MatchRight), and a mask made or shortened for an
\* operator means what it did (MasksKeepMeaning).
LinesDecide ==
  /\ part = "mtrie" => M!DecidedByOwnLine /\ M!DomainKLinesHold
  /\ part = "dlines" => DL!DlinesDecide
  /\ part = "iplines" => KL!KlinesSound
  /\ part = "masks" => X!MatchRight /\ X!MasksKeepMeaning

\* The next round of attempts is never later than the hold of a C-line
\* (DueInTime), and there is one way to a server at a time (OneWay).
LinksSought == A!DueInTime /\ A!OneWay

\* No server of the highest class that is down is passed over for ever.
AllTried == part = "autoconn" => A!AllTried

\* connect_server: "aconf must point to a valid C:line", also when the answer to
\* a lookup brings it; RehashInLookup lets a REHASH come while there is one.
LookupValid == A!LookupValid
=============================================================================
