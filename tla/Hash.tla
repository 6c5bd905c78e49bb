-------------------------------- MODULE Hash --------------------------------
(***************************************************************************)
(* The table that finds clients and servers by name: chains through the     *)
(* clients themselves, which the handlers that give, change and drop names  *)
(* must keep in step with the list of all clients; m_hash builds it anew.   *)
(* From src/hash.c, with its callers in src/s_user.c, src/s_serv.c,         *)
(* src/m_server.c, src/s_bsd.c, src/s_auth.c, src/client.c.                 *)
(***************************************************************************)
EXTENDS Integers, FiniteSets, SequencesExt

CONSTANTS
  Clients, NoClient,
  Nick, Host,      \* names of persons and of servers; a mask is a Host too
  NoName,
  Masks,           \* [Host -> Seq(Host)]: *.b.c and *.c for a.b.c
  Bucket, Slot     \* [Nick \cup Host \cup {NoName} -> Bucket]: hash_nick_name

\* The name of a server has a dot, a nick has none.
ASSUME HashAssumption ==
  /\ IsFiniteSet(Clients) /\ NoClient \notin Clients
  /\ Nick \cap Host = {} /\ NoName \notin Nick \cup Host
  /\ Masks \in [Host -> Seq(Host)]
  /\ Slot \in [Nick \cup Host \cup {NoName} -> Bucket]

VARIABLES
  clients,         \* GlobalClientList, the newest first
  kind,            \* [Clients -> "free", "unknown", "dialing", "person", "server"]
  name,
  table,           \* [head, hnext, links]
  stray            \* a client was renamed, or filed, behind the table's back

hashVars == <<clients, kind, name, table, stray>>

-----------------------------------------------------------------------------
(* hash.c                                                                  *)

Walk(tab, b) ==
  LET step[k \in 0..Cardinality(Clients)] ==
        IF k = 0 THEN tab.head[b]
        ELSE IF step[k - 1] = NoClient THEN NoClient ELSE tab.hnext[step[k - 1]]
  IN step
Places(tab, b) == {k \in DOMAIN Walk(tab, b) : Walk(tab, b)[k] # NoClient}
Chain(tab, b) == {Walk(tab, b)[k] : k \in Places(tab, b)}

Empty == [head |-> [b \in Bucket |-> NoClient], hnext |-> [c \in Clients |-> NoClient],
          links |-> [b \in Bucket |-> 0]]

add_to_client_hash_table(tab, n, c) ==
  [head |-> [tab.head EXCEPT ![Slot[n]] = c],
   hnext |-> [tab.hnext EXCEPT ![c] = tab.head[Slot[n]]],
   links |-> [tab.links EXCEPT ![Slot[n]] = @ + 1]]

Previous(tab, n, c) == Walk(tab, Slot[n])[
  (CHOOSE k \in Places(tab, Slot[n]) :
     Walk(tab, Slot[n])[k] = c /\ \A j \in 0..k - 1 : Walk(tab, Slot[n])[j] # c) - 1]

\* Faulty: the first of a chain takes the rest of it away.
Faulty_del_from_client_hash_table(tab, n, c) ==
  IF c \notin Chain(tab, Slot[n]) THEN tab
  ELSE [tab EXCEPT
         !.head[Slot[n]] = IF @ = c THEN NoClient ELSE @,
         !.hnext = IF tab.head[Slot[n]] = c THEN [@ EXCEPT ![c] = NoClient]
                   ELSE [@ EXCEPT ![Previous(tab, n, c)] = tab.hnext[c], ![c] = NoClient],
         !.links[Slot[n]] = @ - 1]

\* Looks in the chain of the name given only.
del_from_client_hash_table(tab, n, c) ==
  IF c \notin Chain(tab, Slot[n]) THEN tab
  ELSE [tab EXCEPT
         !.head[Slot[n]] = IF @ = c THEN tab.hnext[c] ELSE @,
         !.hnext = IF tab.head[Slot[n]] = c THEN [@ EXCEPT ![c] = NoClient]
                   ELSE [@ EXCEPT ![Previous(tab, n, c)] = tab.hnext[c], ![c] = NoClient],
         !.links[Slot[n]] = IF @ > 0 THEN @ - 1 ELSE @]

First(tab, n, among) ==
  LET fits == {k \in Places(tab, Slot[n]) :
                 Walk(tab, Slot[n])[k] \in among /\ name[Walk(tab, Slot[n])[k]] = n}
  IN IF fits = {} THEN NoClient
     ELSE Walk(tab, Slot[n])[CHOOSE k \in fits : \A j \in fits : k <= j]

hash_find_client(n) == First(table, n, Clients)

hash_find_masked_server(n) ==
  LET found == {i \in DOMAIN Masks[n] : hash_find_client(Masks[n][i]) # NoClient} IN
  IF found = {} THEN NoClient
  ELSE hash_find_client(Masks[n][CHOOSE i \in found : \A j \in found : i <= j])

hash_find_server(n) ==
  LET own == First(table, n, {c \in Clients : kind[c] = "server"}) IN
  IF own # NoClient THEN own ELSE hash_find_masked_server(n)

\* HASH r, in the order of the list.
Filed ==
  LET upto[i \in 0..Len(clients)] ==
        IF i = 0 THEN Empty
        ELSE add_to_client_hash_table(upto[i - 1], name[clients[i]], clients[i])
  IN upto[Len(clients)]

-----------------------------------------------------------------------------
(* The callers.                                                            *)

Listed(c) == \E i \in DOMAIN clients : clients[i] = c
Off(c) == RemoveAt(clients, CHOOSE i \in DOMAIN clients : clients[i] = c)

HashInit ==
  /\ clients = <<>>
  /\ kind = [c \in Clients |-> "free"]
  /\ name = [c \in Clients |-> NoName]
  /\ table = Empty
  /\ stray = FALSE

\* A connection is through with identification, without a name.
release_auth_client(c) ==
  /\ kind[c] = "free" /\ c \notin UNION {Chain(table, b) : b \in Bucket}
  /\ kind' = [kind EXCEPT ![c] = "unknown"]
  /\ name' = [name EXCEPT ![c] = NoName]
  /\ clients' = <<c>> \o clients
  /\ UNCHANGED <<table, stray>>

\* A connection to another server has its name, but is not yet in the table.
connect_server(c, n) ==
  /\ kind[c] = "free" /\ c \notin UNION {Chain(table, b) : b \in Bucket}
  /\ hash_find_server(n) = NoClient
  /\ kind' = [kind EXCEPT ![c] = "dialing"]
  /\ name' = [name EXCEPT ![c] = n]
  /\ clients' = <<c>> \o clients
  /\ UNCHANGED <<table, stray>>

\* Someone, or a server, that another server introduces.
introduce(c, n) ==
  /\ kind[c] = "free" /\ c \notin UNION {Chain(table, b) : b \in Bucket}
  /\ IF n \in Nick THEN hash_find_client(n) = NoClient ELSE hash_find_server(n) = NoClient
  /\ kind' = [kind EXCEPT ![c] = IF n \in Nick THEN "person" ELSE "server"]
  /\ name' = [name EXCEPT ![c] = n]
  /\ clients' = <<c>> \o clients
  /\ table' = add_to_client_hash_table(table, n, c)
  /\ UNCHANGED stray

\* NICK and FNICK; a first NICK may make it a person, when USER came before.
nick(c, n) ==
  /\ kind[c] \in {"unknown", "person"}
  /\ hash_find_client(n) = NoClient
  /\ kind' \in {kind, [kind EXCEPT ![c] = "person"]}
  /\ name' = [name EXCEPT ![c] = n]
  /\ table' = add_to_client_hash_table(
                IF name[c] = NoName THEN table
                ELSE del_from_client_hash_table(table, name[c], c), n, c)
  /\ UNCHANGED <<clients, stray>>

\* exit_one_client, of a client with the name it has by then.
exited(c, called) ==
  /\ kind' = [kind EXCEPT ![c] = "free"]
  /\ clients' = Off(c)
  /\ table' = del_from_client_hash_table(table, called, c)
  /\ name' = [name EXCEPT ![c] = NoName]

exit_one_client(c) == Listed(c) /\ exited(c, name[c]) /\ UNCHANGED stray

\* SERVER, from a connection with or without a nick, or from the server dialled;
\* the name is written over before the connection is let in or refused.
m_server(c, n) ==
  /\ kind[c] \in {"unknown", "dialing"}
  /\ kind[c] = "dialing" => n = name[c]
  /\ stray' = (stray \/ name[c] \in Nick)
  /\ \/ /\ hash_find_server(n) = NoClient
        /\ kind' = [kind EXCEPT ![c] = "server"]
        /\ name' = [name EXCEPT ![c] = n]
        /\ table' = add_to_client_hash_table(table, n, c)
        /\ UNCHANGED clients
     \/ exited(c, n)

\* It takes every client on the list, those without a name and those that are
\* not yet in the table too.
m_hash ==
  /\ table' = Filed
  /\ stray' = (stray \/ \E c \in Clients : kind[c] \in {"unknown", "dialing"} /\ name[c] \notin Nick)
  /\ UNCHANGED <<clients, kind, name>>

HashNext ==
  /\ ~stray
  /\ \/ \E c \in Clients :
          \/ release_auth_client(c)
          \/ exit_one_client(c)
          \/ \E n \in Host : connect_server(c, n) \/ m_server(c, n)
          \/ \E n \in Nick : nick(c, n)
          \/ \E n \in Nick \cup Host : introduce(c, n)
     \/ m_hash

HashSpec == HashInit /\ [][HashNext]_hashVars

-----------------------------------------------------------------------------
\* Unless a connection asked to be a server after it had given a nick, or HASH r
\* met one that is not registered: every client with a place in the table is
\* found by its name and no other, a server also by a name that its own is the
\* nearest mask for; a chain holds the clients of the list that belong there,
\* and no one who is gone, and its count is right.
Filing ==
  ~stray =>
    /\ \A b \in Bucket :
         /\ Walk(table, b)[Cardinality(Clients)] = NoClient
         /\ Chain(table, b) = {c \in Clients : Listed(c) /\ kind[c] # "dialing"
                                 /\ name[c] # NoName /\ Slot[name[c]] = b}
         /\ table.links[b] = Cardinality(Chain(table, b))
    /\ \A c \in Clients : kind[c] = "person" => hash_find_client(name[c]) = c
    /\ \A c \in Clients : kind[c] = "server" =>
         /\ hash_find_server(name[c]) = c
         /\ \A n \in Host : \A i \in DOMAIN Masks[n] :
              /\ Masks[n][i] = name[c]
              /\ \A j \in 1..i - 1 : \A d \in Clients : kind[d] = "server" => name[d] # Masks[n][j]
              /\ \A d \in Clients : kind[d] = "server" => name[d] # n
              => hash_find_server(n) = c
=============================================================================
