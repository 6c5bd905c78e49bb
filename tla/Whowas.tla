-------------------------------- MODULE Whowas --------------------------------
(***************************************************************************)
(* The nick history of src/whowas.c: a ring of entries, each on the hash   *)
(* list of its nick and, while the client that gave the nick up is still   *)
(* connected, on a list of that client.                                    *)
(*                                                                         *)
(* A handler may write several entries, so the history is a value that the *)
(* operators map to the next one; module Nicks keeps it in a variable.     *)
(***************************************************************************)
EXTENDS Integers, FiniteSets

CONSTANTS
  Clients,               \* client records, in use or not
  NoClient,              \* a null pointer
  Nicks,                 \* nicknames, equal letters of either case being one
  NoNick,                \* the empty name; of an entry: hashv = -1
  NICKNAMEHISTORYLENGTH, \* config.h
  KILLCHASETIMELIMIT     \* config.h: how far back KILL follows a change

ASSUME WhowasAssumption ==
  /\ IsFiniteSet(Clients) /\ NoClient \notin Clients
  /\ NoNick \notin Nicks
  /\ NICKNAMEHISTORYLENGTH \in Nat \ {0}
  /\ KILLCHASETIMELIMIT \in Nat

Ring == 0 .. NICKNAMEHISTORYLENGTH - 1

Entry == [name : Nicks \cup {NoNick}, online : Clients \cup {NoClient},
          logoff : Nat]

\* next: whowas_next; entry: the array WHOWAS; clist: cptr->whowas of each
\* client; chain: WHOWASHASH.
History == [next : Ring, entry : [Ring -> Entry],
            clist : [Clients -> SUBSET Ring], chain : [Nicks -> SUBSET Ring]]

\* initwhowas
NoHistory ==
  [next  |-> 0,
   entry |-> [i \in Ring |-> [name |-> NoNick, online |-> NoClient, logoff |-> 0]],
   clist |-> [c \in Clients |-> {}],
   chain |-> [n \in Nicks |-> {}]]

\* add_history takes the entry under whowas_next off both of its lists ...
KeepOnClist(h) == h.clist                                     \* faulty
OffClist(h) ==
  [c \in Clients |-> IF h.entry[h.next].online = c THEN h.clist[c] \ {h.next}
                     ELSE h.clist[c]]
OffChain(h) ==
  [n \in Nicks |-> IF h.entry[h.next].name = n THEN h.chain[n] \ {h.next}
                   ELSE h.chain[n]]

\* ... and files the name n of client c there; on: c stays connected.
WrapLate(i) == IF i = NICKNAMEHISTORYLENGTH THEN 0 ELSE i + 1  \* faulty
Wrap(i) == IF i + 1 = NICKNAMEHISTORYLENGTH THEN 0 ELSE i + 1
AddHistory(h, c, n, on, now) ==
  [next  |-> Wrap(h.next),
   entry |-> [h.entry EXCEPT ![h.next] =
                [name |-> n, online |-> IF on THEN c ELSE NoClient,
                 logoff |-> now]],
   clist |-> [OffClist(h) EXCEPT ![c] = IF on THEN @ \cup {h.next} ELSE @],
   chain |-> [OffChain(h) EXCEPT ![n] = @ \cup {h.next}]]

\* off_history: c is going, and no entry may go on pointing to it.
OffHistory(h, c) ==
  [next  |-> h.next,
   entry |-> [i \in Ring |-> IF i \in h.clist[c]
                            THEN [h.entry[i] EXCEPT !.online = NoClient]
                            ELSE h.entry[i]],
   clist |-> [h.clist EXCEPT ![c] = {}],
   chain |-> h.chain]

\* get_history takes the first entry of the chain that is not too old, whether
\* or not it has a client.  An entry goes to the head of its chain when it is
\* written, and the ring is written in order: first is the one of least age.
Age(h, i) == (h.next - 1 - i) % NICKNAMEHISTORYLENGTH
OldestFirst(h, S) == {i \in S : \A j \in S : Age(h, i) >= Age(h, j)}  \* faulty
NewestFirst(h, S) == {i \in S : \A j \in S : Age(h, i) <= Age(h, j)}
GetHistory(h, n, now) ==
  LET recent == {i \in h.chain[n] : h.entry[i].logoff >= now - KILLCHASETIMELIMIT}
  IN IF recent = {} THEN NoClient
     ELSE h.entry[CHOOSE i \in NewestFirst(h, recent) : TRUE].online

-----------------------------------------------------------------------------
\* What has to hold of a history when exactly the clients of S are persons:
\* every entry is on the chain of its nick only, and on the list of the client
\* it points to, which is connected.
HistoryOf(h, S) ==
  /\ \A n \in Nicks, i \in Ring : i \in h.chain[n] <=> h.entry[i].name = n
  /\ \A c \in Clients, i \in Ring : i \in h.clist[c] <=> h.entry[i].online = c
  /\ \A i \in Ring : h.entry[i].online \in S \cup {NoClient}
  /\ \A i \in Ring : h.entry[i].name = NoNick => h.entry[i].online = NoClient
=============================================================================
