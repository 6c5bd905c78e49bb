-------------------------------- MODULE Confs --------------------------------
(***************************************************************************)
(* Configuration lines, connection classes, the table of addresses and the  *)
(* listeners, as clients and servers come and go while the configuration    *)
(* is read again: s_conf.c, class.c, listener.c and the ends of m_oper.c,   *)
(* s_serv.c and s_bsd.c that attach and detach.  A line in use survives a   *)
(* REHASH, marked illegal, until its last client leaves; a class no longer  *)
(* in the file survives, out of the list, until its last link leaves.       *)
(***************************************************************************)
EXTENDS Integers, Sequences, SequencesExt, FiniteSets, FiniteSetsExt

CONSTANTS
  Users, Peers,      \* local clients, and servers to connect to
  AddressOf,         \* AddressOf[u]: the address of a user
  Ports, NoPort,
  Files,             \* contents of ircd.conf: [main, include, ports]
  IpLimit,           \* connections of one address a class allows, 0 for any
  MaxConf, MaxClass  \* bounds: records in use at once

\* A line of a file: a class (Y) with its number and maximum, or a line of another
\* kind with the number of its class; near: does it fit the host of the servers?
Line == [kind : {"Y", "I", "C", "N", "O"}, num : Nat, max : Nat, near : BOOLEAN]

ASSUME ConfsAssumption ==
  /\ IsFiniteSet(Users) /\ IsFiniteSet(Peers) /\ Users \cap Peers = {}
  /\ NoPort \notin Ports /\ DOMAIN AddressOf = Users
  /\ Files \subseteq [main : Seq(Line), include : Seq(Line), ports : SUBSET Ports]
  /\ IpLimit \in Nat /\ MaxConf \in Nat /\ MaxClass \in Nat

Clients == Users \cup Peers
ConfId == 1 .. MaxConf
ClassId == 0 .. MaxClass

VARIABLES
  cf,        \* conf, class: records by identity; at: the confs of each client
  status,    \* "none", "unknown", "client", "connecting" or "server"
  opers,     \* users that are operators
  ips,       \* ip_hash_table: count for each address
  iphash,    \* users that FLAGS_IPHASH marks
  listener,  \* listener[p]: open, active, ref_count
  port       \* port[c]: the listener of a connection, or NoPort

cfVars == <<cf, status, opers, ips, iphash, listener, port>>

FreeConf == [kind |-> "free", class |-> 0, clients |-> 0, legal |-> FALSE, near |-> TRUE]
FreeClass == [num |-> 0, max |-> 0, links |-> 0, use |-> "freed"]
Used(t, c) == {t.at[c][k] : k \in DOMAIN t.at[c]}

----------------------------------------------------------------------------
(* Classes.                                                                 *)

find_class(t, num) ==
  LET found == {k \in ClassId : t.class[k].use = "listed" /\ t.class[k].num = num}
  IN IF found = {} THEN 0 ELSE Min(found)

add_class(t, num, max) ==
  LET k == find_class(t, num)
      new == Min({j \in ClassId : t.class[j].use = "freed"})
  IN IF k = 0 /\ num # 0
     THEN [t EXCEPT !.class[new] = [num |-> num, max |-> max, links |-> 0, use |-> "listed"]]
     ELSE [t EXCEPT !.class[k].max = max]

check_class(t) ==
  [t EXCEPT !.class = [k \in ClassId |->
     IF @[k].use # "listed" \/ @[k].max >= 0 THEN @[k]
     ELSE IF @[k].links <= 0 THEN FreeClass ELSE [@[k] EXCEPT !.use = "unlinked"]]]

----------------------------------------------------------------------------
(* Attaching.                                                               *)

is_attached(t, c, i) == i \in Used(t, c)

\* -1: an illegal line; -3: the class is full; 1: it was attached already.
attach_result(t, c, i) ==
  LET k == t.class[t.conf[i].class]
  IN IF is_attached(t, c, i) THEN 1
     ELSE IF ~t.conf[i].legal THEN -1
     ELSE IF t.conf[i].kind = "I" /\ k.max > 0 /\ k.links >= k.max THEN -3
     ELSE 0

attach_conf(t, c, i) ==
  IF attach_result(t, c, i) # 0 THEN t
  ELSE [t EXCEPT !.at[c] = <<i>> \o @, !.conf[i].clients = @ + 1,
                 !.class[t.conf[i].class].links = @ + 1]

detach_conf(t, c, i) ==
  LET k == t.conf[i].class
      links == IF t.class[k].links > 0 THEN t.class[k].links - 1 ELSE 0
      place == CHOOSE p \in DOMAIN t.at[c] : t.at[c][p] = i
  IN IF ~is_attached(t, c, i) THEN t
     ELSE [t EXCEPT
       !.at[c] = RemoveAt(t.at[c], place),
       !.class[k] = IF t.class[k].max = -1 /\ links = 0 THEN FreeClass
                    ELSE [t.class[k] EXCEPT !.links = links],
       !.conf[i] = IF t.conf[i].clients = 1 /\ ~t.conf[i].legal THEN FreeConf
                   ELSE [t.conf[i] EXCEPT !.clients = @ - 1]]

det_confs(t, c) ==
  LET rest[n \in 0 .. Len(t.at[c])] ==
        IF n = 0 THEN t ELSE detach_conf(rest[n - 1], c, t.at[c][n])
  IN rest[Len(t.at[c])]

----------------------------------------------------------------------------
(* Reading the configuration.                                               *)

\* Faulty: a line in use is freed with the others.
Faulty_clear_out_old_conf(t) ==
  [t EXCEPT !.conf = [i \in ConfId |-> IF @[i].legal THEN FreeConf ELSE @[i]],
            !.class = [k \in ClassId |-> IF k # 0 /\ @[k].use = "listed"
                                         THEN [@[k] EXCEPT !.max = -1] ELSE @[k]]]
clear_out_old_conf(t) ==
  [t EXCEPT !.conf = [i \in ConfId |-> IF @[i].clients = 0 THEN FreeConf
                                       ELSE [@[i] EXCEPT !.legal = FALSE]],
            !.class = [k \in ClassId |-> IF k # 0 /\ @[k].use = "listed"
                                         THEN [@[k] EXCEPT !.max = -1] ELSE @[k]]]

\* A line of a class that is not in the file yet goes to class 0.
AddLine(t, line) ==
  IF line.kind = "Y" THEN add_class(t, line.num, line.max)
  ELSE LET i == Min({j \in ConfId : t.conf[j].kind = "free"})
           k == find_class(t, line.num)
       IN [t EXCEPT !.conf[i] = [kind |-> line.kind, clients |-> 0, legal |-> TRUE,
              near |-> line.near, class |-> IF t.class[k].max < 0 THEN 0 ELSE k]]

initconf(t, lines) ==
  LET read[n \in 0 .. Len(lines)] ==
        IF n = 0 THEN t ELSE AddLine(read[n - 1], lines[n])
  IN check_class(read[Len(lines)])

\* ircd.conf, then the files it includes; each reading ends with check_class.
read_conf_files(t, f) == initconf(initconf(t, f.main), f.include)

\* bound: there are records for the lines of a file
Free(t) == {i \in ConfId : t.conf[i].kind = "free"}
Freed(t) == {k \in ClassId : t.class[k].use = "freed"}
Room(t, f) ==
  LET lines == Len(f.main) + Len(f.include)
  IN lines <= Cardinality(Free(t)) /\ lines <= Cardinality(Freed(t))

NoConfs == [conf |-> [i \in ConfId |-> FreeConf],
            class |-> [k \in ClassId |->
                         IF k = 0 THEN [num |-> 0, max |-> 1, links |-> 0, use |-> "listed"]
                         ELSE FreeClass],
            at |-> [c \in Clients |-> <<>>]]

ConfsInit ==
  /\ \E f \in Files :
       /\ Room(NoConfs, f) /\ cf = read_conf_files(NoConfs, f)
       /\ listener = [p \in Ports |-> [open |-> p \in f.ports, active |-> p \in f.ports,
                                       refs |-> 0]]
  /\ status = [c \in Clients |-> "none"] /\ opers = {}
  /\ ips = [a \in {AddressOf[u] : u \in Users} |-> 0] /\ iphash = {}
  /\ port = [c \in Clients |-> NoPort]

\* REHASH: add_listener makes a listed port active and opens it if it can;
\* close_listeners closes those that no line names and nobody came through.
rehash ==
  \E f \in Files : \E fails \in SUBSET f.ports :
    /\ Room(clear_out_old_conf(cf), f)
    /\ cf' = read_conf_files(clear_out_old_conf(cf), f)
    /\ \A p \in fails : ~listener[p].open
    /\ listener' = [p \in Ports |->
         IF p \in f.ports \ fails THEN [listener[p] EXCEPT !.open = TRUE, !.active = TRUE]
         ELSE [listener[p] EXCEPT !.open = @ /\ listener[p].refs > 0, !.active = FALSE]]
    /\ UNCHANGED <<status, opers, ips, iphash, port>>

----------------------------------------------------------------------------
(* Users.                                                                   *)

accept_connection(u, p) ==
  /\ status[u] = "none"
  /\ listener[p].open /\ listener[p].active
  /\ listener' = [listener EXCEPT ![p].refs = @ + 1]
  /\ port' = [port EXCEPT ![u] = p] /\ status' = [status EXCEPT ![u] = "unknown"]
  /\ UNCHANGED <<cf, opers, ips, iphash>>

Released(c) ==
  IF port[c] = NoPort THEN listener
  ELSE LET p == port[c]
       IN [listener EXCEPT ![p] = [listener[p] EXCEPT !.refs = @ - 1,
             !.open = listener[p].active \/ listener[p].refs > 1]]

\* close_connection, and remove_one_ip for a client of the table of addresses
CloseConnection(c, table, marked) ==
  /\ cf' = det_confs(cf, c)
  /\ listener' = Released(c) /\ port' = [port EXCEPT ![c] = NoPort]
  /\ status' = [status EXCEPT ![c] = "none"] /\ opers' = opers \ {c}
  /\ ips' = IF c \in marked THEN [table EXCEPT ![AddressOf[c]] = @ - 1] ELSE table
  /\ iphash' = marked \ {c}

\* Faulty: the flag is not set.
Faulty_Hashed(u) == iphash
Hashed(u) == iphash \cup {u}

\* attach_iline counts the address before it looks at the limits; a client it
\* refuses is closed.
attach_iline(u) ==
  LET table == [ips EXCEPT ![AddressOf[u]] = @ + 1]
  IN \E i \in {j \in ConfId : cf.conf[j].kind = "I" /\ cf.conf[j].legal} :
       \/ /\ attach_result(cf, u, i) = 0
          /\ IpLimit = 0 \/ table[AddressOf[u]] <= IpLimit
          /\ cf' = attach_conf(cf, u, i)
          /\ ips' = table /\ iphash' = Hashed(u)
          /\ status' = [status EXCEPT ![u] = "client"]
          /\ UNCHANGED <<opers, listener, port>>
       \/ /\ attach_result(cf, u, i) # 0 \/ (IpLimit > 0 /\ table[AddressOf[u]] > IpLimit)
          /\ CloseConnection(u, table, Hashed(u))

check_client(u) == status[u] = "unknown" /\ attach_iline(u)

\* A full O-line is not found; the class of an O-line counts operators too.
m_oper(u) ==
  /\ status[u] = "client" /\ u \notin opers
  /\ \E i \in {j \in ConfId : cf.conf[j].kind = "O" /\ cf.conf[j].legal} :
       /\ cf.conf[i].clients < cf.class[cf.conf[i].class].max
       /\ attach_result(cf, u, i) = 0
       /\ cf' = attach_conf(cf, u, i)
  /\ opers' = opers \cup {u}
  /\ UNCHANGED <<status, ips, iphash, listener, port>>

\* MODE -o detaches the line attached last.
Deoper(u) ==
  /\ u \in opers
  /\ cf' = detach_conf(cf, u, cf.at[u][1])
  /\ opers' = opers \ {u}
  /\ UNCHANGED <<status, ips, iphash, listener, port>>

Exit(c) == status[c] # "none" /\ CloseConnection(c, ips, iphash)

----------------------------------------------------------------------------
(* Servers.                                                                 *)

LegalLines(t, kind) == {i \in ConfId : t.conf[i].kind = kind /\ t.conf[i].legal}

\* The C and N line of a server are attached when the connection is started;
\* without both the attempt ends.
connect_server(c) ==
  /\ status[c] = "none"
  /\ \E i \in LegalLines(cf, "C"), j \in LegalLines(cf, "N") :
       cf' = attach_conf(attach_conf(cf, c, i), c, j)
  /\ status' = [status EXCEPT ![c] = "connecting"]
  /\ UNCHANGED <<opers, ips, iphash, listener, port>>

\* When the peer names itself, every line of its name is attached, two at least, in
\* the order of ConfigItemList, which is left open; the first of each kind that fit
\* its host are picked, all are detached and the picked ones attached again: an
\* illegal one has been freed by then.
attach_confs(t, c, list) ==
  LET more[n \in 0 .. Len(list)] ==
        IF n = 0 THEN t ELSE attach_conf(more[n - 1], c, list[n])
  IN more[Len(list)]

Fitting(t, c, kind) ==
  {k \in DOMAIN t.at[c] : t.conf[t.at[c][k]].kind = kind /\ t.conf[t.at[c][k]].near}
find_conf_host(t, c, kind) == t.at[c][Min(Fitting(t, c, kind))]

Reattach(t, c, i) ==
  IF t.conf[i].kind = "free" THEN [t EXCEPT !.at[c] = <<i>> \o @] ELSE attach_conf(t, c, i)

check_server(c) ==
  /\ status[c] = "connecting"
  /\ \E list \in SetToSeqs(LegalLines(cf, "C") \cup LegalLines(cf, "N")) :
       LET t == attach_confs(cf, c, list)
       IN IF Len(list) < 2 \/ \E kind \in {"C", "N"} : Fitting(t, c, kind) = {}
          THEN /\ cf' = det_confs(t, c)
               /\ status' = [status EXCEPT ![c] = "none"]
          ELSE /\ cf' = Reattach(Reattach(det_confs(t, c), c, find_conf_host(t, c, "N")),
                                  c, find_conf_host(t, c, "C"))
               /\ status' = [status EXCEPT ![c] = "server"]
  /\ UNCHANGED <<opers, ips, iphash, listener, port>>

ConfsNext ==
  \/ rehash
  \/ \E u \in Users : check_client(u) \/ m_oper(u) \/ Deoper(u)
  \/ \E u \in Users, p \in Ports : accept_connection(u, p)
  \/ \E c \in Peers : connect_server(c) \/ check_server(c)
  \/ \E c \in Clients : Exit(c)

ConfsSpec == ConfsInit /\ [][ConfsNext]_cfVars

----------------------------------------------------------------------------
(* Properties.                                                              *)

LinksOf(t, k) == {x \in Clients \X ConfId : x[2] \in Used(t, x[1]) /\ t.conf[x[2]].class = k}
ClientsOf(t, i) == {c \in Clients : i \in Used(t, c)}

\* The counters that decide who is let in and what is freed are those of the
\* links that exist, through any number of rehashes: the links of each class,
\* the clients of each line, the connections of each address and listener.
ClassLinks == \A k \in ClassId : cf.class[k].use # "freed" =>
  cf.class[k].links = Cardinality(LinksOf(cf, k))
ConfClients == \A i \in ConfId : cf.conf[i].kind # "free" =>
  cf.conf[i].clients = Cardinality(ClientsOf(cf, i))
AddressCount == \A a \in DOMAIN ips :
  ips[a] = Cardinality({u \in iphash : AddressOf[u] = a})
ListenerRefs == \A p \in Ports :
  listener[p].refs = Cardinality({c \in Clients : port[c] = p})
CountersAgree == ClassLinks /\ ConfClients /\ AddressCount /\ ListenerRefs

\* Nothing that a client, a line or a connection points to is freed ...
NothingDangles ==
  /\ \A c \in Clients : \A i \in Used(cf, c) : cf.conf[i].kind # "free"
  /\ \A i \in ConfId : cf.conf[i].kind # "free" => cf.class[cf.conf[i].class].use # "freed"
  /\ \A c \in Clients : port[c] # NoPort => listener[port[c]].open
\* ... and what nothing points to is: an illegal line, an unlisted class and
\* a closing port go with the last one that uses them.
NothingLeaks ==
  /\ \A i \in ConfId : cf.conf[i].kind # "free" => cf.conf[i].legal \/ cf.conf[i].clients > 0
  /\ \A k \in ClassId : cf.class[k].use = "unlinked" => cf.class[k].links > 0
  /\ \A p \in Ports : listener[p].open => listener[p].active \/ listener[p].refs > 0
FreedInTime == NothingDangles /\ NothingLeaks

\* The counters agree with who is attached, whatever was reread in the meantime,
\* and a line, class or port is freed when the last that uses it goes and not
\* before (s_conf.c:951, class.c:169, listener.c:276).
ConfsAgree == CountersAgree /\ FreedInTime
=============================================================================
