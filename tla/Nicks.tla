-------------------------------- MODULE Nicks --------------------------------
(***************************************************************************)
(* Clients and their nicks on one server: m_nick, nickkilldone and         *)
(* register_user (src/s_user.c), the client hash table (src/hash.c),       *)
(* m_kill, m_fnick and exit_client (src/client.c), with the history of     *)
(* module Whowas.                                                          *)
(*                                                                         *)
(* A client is found by its nick through the hash table, and by a nick it  *)
(* had through the history; the name in its record, the chain it is filed  *)
(* on and the history are changed by every handler that gives or takes a   *)
(* nick.                                                                   *)
(*                                                                         *)
(* Abstractions.  A hash chain holds one nick; nicks are valid (what       *)
(* clean_nick_name or a Q-line refuses changes nothing) and no nick is     *)
(* the name of a server; user and host of a client are one value and do    *)
(* not change; what a rejected registration depends on is a free choice.   *)
(***************************************************************************)
EXTENDS Whowas

CONSTANTS
  Locals,            \* client records of connections to this server
  Linked,            \* whether there is an uplink, which serves the others
  Admins,            \* IsAdmin
  Opers,             \* IsEmpowered, with the flag to kill
  UserHost,          \* UserHost[c]: the user and host of c
  MaxTS,             \* bound on the clock and on received timestamps
  ANTI_NICK_FLOOD,   \* config.h: whether changes of nick are counted
  MAX_NICK_TIME,     \* config.h
  MAX_NICK_CHANGES,  \* config.h
  FNICK              \* config.h: whether FNICK is compiled in

ASSUME NicksAssumption ==
  /\ Locals \subseteq Clients /\ Admins \subseteq Opers /\ Opers \subseteq Clients
  /\ Linked \in BOOLEAN /\ FNICK \in BOOLEAN /\ ANTI_NICK_FLOOD \in BOOLEAN
  /\ MaxTS \in Nat /\ MAX_NICK_TIME \in Nat /\ MAX_NICK_CHANGES \in Nat
  /\ DOMAIN UserHost = Clients

VARIABLES
  CurrentTime,
  status,      \* "free", or of a record in use: STAT_UNKNOWN, STAT_CLIENT
  user,        \* of an unknown client: USER has been received
  name,        \* cptr->name
  tsinfo,      \* cptr->tsinfo
  table,       \* table[n]: the chain of clientTable that n hashes to
  hist,        \* the history
  announced,   \* the nick and timestamp of a local client last sent uplink
  nick_changes,     \* number_of_nick_changes, up to MAX_NICK_CHANGES + 1
  last_nick_change,
  crashed      \* a handler followed a null pointer

floodVars == <<nick_changes, last_nick_change>>
vars == <<CurrentTime, status, user, name, tsinfo, table, hist, announced,
          floodVars, crashed>>

None == <<>>

InUse == {c \in Clients : status[c] # "free"}
Persons == {c \in Clients : status[c] = "client"}
Unknowns == {c \in Clients : status[c] = "unknown"}

-----------------------------------------------------------------------------
(* Lookup.                                                                 *)

\* find_client
FindPerson(n) == {c \in table[n] : name[c] = n /\ c \in Persons}  \* faulty
Find(n) == {c \in table[n] : name[c] = n}

\* The client that KILL finds, by its nick or by one that it had.
Chase(n) ==
  IF Find(n) # {} THEN Find(n) ELSE {GetHistory(hist, n, CurrentTime)} \ {NoClient}

-----------------------------------------------------------------------------
(* The parts that handlers share.  D are the clients that exit first.      *)

\* release_client_state: what the exit of c leaves of the history.
Exit(h, c) ==
  IF c \in Persons
  THEN OffHistory(AddHistory(h, c, name[c], FALSE, CurrentTime), c) ELSE h

\* The history after the exit of the client of D, if there is one.
After(D) == IF D = {} THEN hist ELSE Exit(hist, CHOOSE d \in D : TRUE)

\* exit_client of every client of D, but for the history.
Drop(f, D, default) == [c \in Clients |-> IF c \in D THEN default ELSE f[c]]
Gone(D) ==
  /\ user' = Drop(user, D, FALSE)
  /\ announced' = Drop(announced, D, None)
  /\ nick_changes' = Drop(nick_changes, D, 0)
  /\ last_nick_change' = Drop(last_nick_change, D, 0)

Unfile(D) == [n \in Nicks |-> table[n] \ {d \in D : name[d] = n}]

ExitOnly(D) ==
  /\ status' = Drop(status, D, "free")
  /\ name' = Drop(name, D, NoNick)
  /\ tsinfo' = Drop(tsinfo, D, 0)
  /\ table' = Unfile(D)
  /\ Gone(D)

\* The end of nickkilldone: c leaves the chain of its old nick for that of n.
NoRehash(c, n, D) == [Unfile(D) EXCEPT ![n] = @ \cup {c}]     \* faulty
Rehash(c, n, D) == [Unfile(D \cup {c}) EXCEPT ![n] = @ \cup {c}]
Take(c, n, ts, D) ==
  /\ name' = [Drop(name, D, NoNick) EXCEPT ![c] = n]
  /\ tsinfo' = [Drop(tsinfo, D, 0) EXCEPT ![c] = ts]
  /\ table' = Rehash(c, n, D)

\* A nick that is the same but for its case keeps its timestamp.
NewTS(c, n, ts) ==
  IF n = name[c] THEN tsinfo[c] ELSE IF ts # 0 THEN ts ELSE CurrentTime

\* A client that has not registered makes way for whoever wants its nick.
MakesWay(d) == d \in Unknowns
Free(n, c) == \A d \in Find(n) \ {c} : MakesWay(d)

-----------------------------------------------------------------------------
Init ==
  /\ CurrentTime = 1
  /\ status = [c \in Clients |-> "free"]
  /\ user = [c \in Clients |-> FALSE]
  /\ name = [c \in Clients |-> NoNick]
  /\ tsinfo = [c \in Clients |-> 0]
  /\ table = [n \in Nicks |-> {}]
  /\ hist = NoHistory
  /\ announced = [c \in Clients |-> None]
  /\ nick_changes = [c \in Clients |-> 0]
  /\ last_nick_change = [c \in Clients |-> 0]
  /\ crashed = FALSE

Tick ==
  /\ CurrentTime < MaxTS
  /\ CurrentTime' = CurrentTime + 1
  /\ UNCHANGED <<status, user, name, tsinfo, table, hist, announced, floodVars,
                 crashed>>

Accept(c) ==
  /\ c \in Locals /\ c \notin InUse
  /\ status' = [status EXCEPT ![c] = "unknown"]
  /\ UNCHANGED <<CurrentTime, user, name, tsinfo, table, hist, announced,
                 floodVars, crashed>>

\* USER before NICK.
UserFirst(c) ==
  /\ c \in Locals \cap Unknowns /\ name[c] = NoNick
  /\ user' = [user EXCEPT ![c] = TRUE]
  /\ UNCHANGED <<CurrentTime, status, name, tsinfo, table, hist, announced,
                 floodVars, crashed>>

\* USER after NICK: register_user lets the client in.
Register(c) ==
  /\ c \in Locals \cap Unknowns /\ name[c] # NoNick
  /\ status' = [status EXCEPT ![c] = "client"]
  /\ user' = [user EXCEPT ![c] = FALSE]
  /\ announced' = [announced EXCEPT ![c] = <<name[c], tsinfo[c]>>]
  /\ UNCHANGED <<CurrentTime, name, tsinfo, table, hist, floodVars, crashed>>

\* NICK of a client that has sent no USER, its first or another one.
UnregisteredNick(c, n) ==
  LET D == Find(n) \ {c} IN
  /\ c \in Locals \cap Unknowns /\ ~user[c]
  /\ Free(n, c)
  /\ status' = Drop(status, D, "free")
  /\ Take(c, n, NewTS(c, n, 0), D)
  /\ Gone(D)
  /\ hist' = After(D)
  /\ UNCHANGED <<CurrentTime, crashed>>

\* NICK after USER: register_user lets the client in, with its new name, and
\* only then is it filed.
NickRegisters(c, n) ==
  LET D == Find(n) \ {c} IN
  /\ c \in Locals \cap Unknowns /\ user[c] /\ name[c] = NoNick
  /\ Free(n, c)
  /\ status' = [Drop(status, D, "free") EXCEPT ![c] = "client"]
  /\ Take(c, n, CurrentTime, D)
  /\ user' = Drop(user, D \cup {c}, FALSE)
  /\ announced' = [Drop(announced, D, None) EXCEPT ![c] = <<n, CurrentTime>>]
  /\ nick_changes' = Drop(nick_changes, D, 0)
  /\ last_nick_change' = Drop(last_nick_change, D, 0)
  /\ hist' = After(D)
  /\ UNCHANGED <<CurrentTime, crashed>>

\* NICK after USER, but register_user rejects the client: it exits before it
\* is filed, and so did the client that made way.
NickRejected(c, n) ==
  LET D == (Find(n) \ {c}) \cup {c} IN
  /\ c \in Locals \cap Unknowns /\ user[c] /\ name[c] = NoNick
  /\ Free(n, c)
  /\ ExitOnly(D)
  /\ UNCHANGED <<CurrentTime, hist, crashed>>

\* NICK of a registered client of this server.
ChangesNow(c) ==
  IF ~ANTI_NICK_FLOOD THEN 0
  ELSE IF last_nick_change[c] + MAX_NICK_TIME < CurrentTime
  THEN 1
  ELSE IF nick_changes[c] > MAX_NICK_CHANGES
  THEN MAX_NICK_CHANGES + 1
  ELSE nick_changes[c] + 1
CountChange(c, D) ==
  /\ nick_changes' = [Drop(nick_changes, D, 0) EXCEPT ![c] = ChangesNow(c)]
  /\ last_nick_change' = [Drop(last_nick_change, D, 0) EXCEPT
                            ![c] = IF ANTI_NICK_FLOOD THEN CurrentTime ELSE @]

\* Too many changes: the nick stays, after the timestamp was set anew.
NickTooFast(c, n) ==
  LET D == Find(n) \ {c} IN
  /\ c \in Locals \cap Persons
  /\ Free(n, c)
  /\ ChangesNow(c) > MAX_NICK_CHANGES
  /\ status' = Drop(status, D, "free")
  /\ name' = Drop(name, D, NoNick)
  /\ tsinfo' = [Drop(tsinfo, D, 0) EXCEPT ![c] = NewTS(c, n, 0)]
  /\ table' = Unfile(D)
  /\ user' = Drop(user, D, FALSE)
  /\ announced' = Drop(announced, D, None)
  /\ CountChange(c, D)
  /\ hist' = After(D)
  /\ UNCHANGED <<CurrentTime, crashed>>

AnnounceOldTS(c, n) == <<n, tsinfo[c]>>                       \* faulty
Announce(c, n) == <<n, NewTS(c, n, 0)>>
NickLocal(c, n) ==
  LET D == Find(n) \ {c} IN
  /\ c \in Locals \cap Persons
  /\ Free(n, c)
  /\ ChangesNow(c) <= MAX_NICK_CHANGES
  /\ status' = Drop(status, D, "free")
  /\ Take(c, n, NewTS(c, n, 0), D)
  /\ user' = Drop(user, D, FALSE)
  /\ announced' = [Drop(announced, D, None) EXCEPT ![c] = Announce(c, n)]
  /\ CountChange(c, D)
  /\ hist' = AddHistory(After(D), c, name[c], TRUE, CurrentTime)
  /\ UNCHANGED <<CurrentTime, crashed>>

-----------------------------------------------------------------------------
(* NICK from the uplink.  Of two clients with one nick, the older one wins *)
(* if they are different users, the newer one if they are the same.        *)

SameUser(c, d) == UserHost[c] = UserHost[d]
BothLose(ts, d) == ts = 0 \/ tsinfo[d] = 0 \/ ts = tsinfo[d]
NewLoses(c, ts, d) ==
  IF SameUser(c, d) THEN ts < tsinfo[d] ELSE ts > tsinfo[d]

\* A new client c with nick n, whose place is taken by the clients D, all of
\* whom exit.
Introduced(c, n, ts, D) ==
  /\ status' = [Drop(status, D, "free") EXCEPT ![c] = "client"]
  /\ Take(c, n, NewTS(c, n, ts), D)
  /\ Gone(D)
  /\ hist' = After(D)
  /\ UNCHANGED <<CurrentTime, crashed>>

Introduce(c, n, ts) ==
  /\ Linked /\ c \notin Locals /\ c \notin InUse
  /\ \/ Free(n, c) /\ Introduced(c, n, ts, Find(n))
     \/ \E d \in Find(n) \cap Persons :
          \/ /\ BothLose(ts, d)
             /\ ExitOnly({d})
             /\ hist' = Exit(hist, d)
             /\ UNCHANGED <<CurrentTime, crashed>>
          \/ /\ ~BothLose(ts, d) /\ ~NewLoses(c, ts, d)
             /\ Introduced(c, n, ts, {d})

\* The same on a server that is not known: register_user drops the client
\* again, and all that is left is an entry of the history.
IntroduceGhost(c, n) ==
  /\ Linked /\ c \notin Locals /\ c \notin InUse
  /\ Free(n, c)
  /\ ExitOnly(Find(n))
  /\ hist' = AddHistory(After(Find(n)), c, n, FALSE, CurrentTime)
  /\ UNCHANGED <<CurrentTime, crashed>>

\* A change of nick.
Changed(c, n, ts, D) ==
  /\ status' = Drop(status, D, "free")
  /\ Take(c, n, NewTS(c, n, ts), D)
  /\ Gone(D)
  /\ hist' = AddHistory(After(D), c, name[c], TRUE, CurrentTime)
  /\ UNCHANGED <<CurrentTime, crashed>>

NickRemote(c, n, ts) ==
  /\ c \in Persons \ Locals
  /\ \/ Free(n, c) /\ Changed(c, n, ts, Find(n) \ {c})
     \/ \E d \in (Find(n) \ {c}) \cap Persons :
          \/ /\ BothLose(ts, d)
             /\ ExitOnly({c, d})
             /\ hist' = Exit(Exit(hist, d), c)
             /\ UNCHANGED <<CurrentTime, crashed>>
          \/ /\ ~BothLose(ts, d) /\ NewLoses(c, ts, d)
             /\ ExitOnly({c})
             /\ hist' = Exit(hist, c)
             /\ UNCHANGED <<CurrentTime, crashed>>
          \/ /\ ~BothLose(ts, d) /\ ~NewLoses(c, ts, d)
             /\ Changed(c, n, ts, {d})

-----------------------------------------------------------------------------
\* QUIT, a lost connection, or a rejected USER.
Quit(c) ==
  /\ c \in InUse
  /\ ExitOnly({c})
  /\ hist' = Exit(hist, c)
  /\ UNCHANGED <<CurrentTime, crashed>>

\* KILL for nick n, from the uplink or by the operator o.
MayKill(o, c) == /\ c \in Locals \/ o \in Admins
                 /\ c \notin Admins
Kill(n) ==
  /\ \E c \in Chase(n) :
       /\ \/ Linked /\ c \notin Admins
          \/ \E o \in Persons \cap Locals \cap Opers : MayKill(o, c)
       /\ ExitOnly({c})
       /\ hist' = Exit(hist, c)
  /\ UNCHANGED <<CurrentTime, crashed>>

\* FNICK for the nick n: the client that was found is replaced by what
\* find_server(parv[1]) gives, NULL, and looked at.
FNick(n) ==
  /\ FNICK
  /\ Persons \cap Locals \cap Admins # {}
  /\ Find(n) \cap Persons # {}
  /\ crashed' = TRUE
  /\ UNCHANGED <<CurrentTime, status, user, name, tsinfo, table, hist,
                 announced, floodVars>>

-----------------------------------------------------------------------------
Next ==
  /\ ~crashed
  /\ \/ Tick
     \/ \E c \in Clients : \/ Accept(c) \/ UserFirst(c) \/ Register(c) \/ Quit(c)
     \/ \E c \in Clients, n \in Nicks :
          \/ UnregisteredNick(c, n) \/ NickRegisters(c, n) \/ NickRejected(c, n)
          \/ NickLocal(c, n) \/ NickTooFast(c, n)
          \/ IntroduceGhost(c, n)
     \/ \E c \in Clients, n \in Nicks, ts \in 0..MaxTS :
          \/ Introduce(c, n, ts) \/ NickRemote(c, n, ts)
     \/ \E n \in Nicks : Kill(n) \/ FNick(n)

Spec == Init /\ [][Next]_vars

-----------------------------------------------------------------------------
(* Properties.                                                             *)

TypeOK ==
  /\ CurrentTime \in Nat
  /\ status \in [Clients -> {"free", "unknown", "client"}]
  /\ user \in [Clients -> BOOLEAN]
  /\ name \in [Clients -> Nicks \cup {NoNick}]
  /\ tsinfo \in [Clients -> Nat]
  /\ table \in [Nicks -> SUBSET Clients]
  /\ hist \in History
  /\ announced \in [Clients -> {None} \cup (Nicks \X Nat)]
  /\ nick_changes \in [Clients -> Nat]
  /\ last_nick_change \in [Clients -> Nat]
  /\ crashed \in BOOLEAN

\* The chain of a nick holds the clients with that name and no record that is
\* not in use: nothing is left behind when a client changes its nick, exits or
\* is rejected halfway, and nobody registered is without a nick.
TableAgrees ==
  /\ \A c \in Clients, n \in Nicks : c \in table[n] <=> name[c] = n
  /\ \A c \in Clients : name[c] # NoNick => c \in InUse
  /\ \A c \in Persons : name[c] # NoNick

\* A nick names one client, registered or not, whatever collides.
NickUnique == \A c, d \in Clients : name[c] = name[d] /\ name[c] # NoNick => c = d

\* No entry of the history points to a record that is not a person's: KILL
\* chasing cannot reach a freed record or the next client in it.
HistoryAgrees == HistoryOf(hist, Persons)

\* The uplink knows the nick and the timestamp of every registered client of
\* this server: "it is much more important that the TS for a channel or nick
\* stays the same across all servers" (docs/TSora:84).
UplinkKnows ==
  \A c \in Locals \cap Persons : announced[c] = <<name[c], tsinfo[c]>>
=============================================================================
