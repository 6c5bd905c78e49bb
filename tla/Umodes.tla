-------------------------------- MODULE Umodes --------------------------------
(***************************************************************************)
(* User modes, operators and the counters of clients: user_mode,           *)
(* register_user and nickkilldone (src/s_user.c), m_oper, exit_client      *)
(* (src/client.c), and the recount of LUSERS.                              *)
(*                                                                         *)
(* The same fact, that a client is an operator or invisible, is kept in    *)
(* its modes, in a counter, in the list of operators, in its configuration *)
(* lines and with the uplink; each handler updates these one by one.       *)
(*                                                                         *)
(* Abstractions.  A MODE carries one letter; the letters that only choose  *)
(* which notices a client sees are left out but for w.  A client has one   *)
(* I line and may have one O line.                                         *)
(***************************************************************************)
EXTENDS Integers, FiniteSets, Sequences

CONSTANTS
  Clients, NoClient,
  Locals,         \* client records of connections to this server
  Letters,        \* letters of MODE from users of this server
  ServerLetters,  \* letters of MODE from the uplink itself
  Ghosts,         \* whether the uplink introduces users on unknown servers
  OLine,          \* OLine[c]: "none", "oper" or "admin"
  NFlag,          \* clients whose O line has the flag N
  Hold,           \* Hold[c]: the modes that the O line gives, {}: the default
  Flined,         \* clients whose I line lets them in when the server is full
  MAXCLIENTS, MAX_BUFFER,   \* config.h
  Spare,          \* 5 in register_user: room kept for F-lined clients
  MaxOff          \* bound on how far the counters go below 0 or above |Clients|

Modes == {"a", "i", "n", "o", "w"}
SEND_UMODES == {"a", "i", "w"}

\* What the values of the constants are, for the instances that assume it.
UmodesAssumption ==
  /\ IsFiniteSet(Clients) /\ NoClient \notin Clients /\ Locals \subseteq Clients
  /\ Hold \in [Clients -> SUBSET Modes]

VARIABLES
  status,       \* "free" or "client"
  umodes,       \* umodes[c]
  setN,         \* clients with FLAGS2_OPER_N
  confs,        \* confs[c]: the lines attached to a local client, last first
  Count,        \* the counters local, total, invisi and oper
  oper_cptr_list, next_oper_client,   \* the list of local operators
  linked,       \* whether there is an uplink
  serverAdmin,  \* FLAGS_ADMIN in the record of the uplink
  told,         \* told[c]: the modes of a local client that the uplink knows
  crashed       \* a handler followed a null pointer

vars == <<status, umodes, setN, confs, Count, oper_cptr_list, next_oper_client,
          linked, serverAdmin, told, crashed>>

Persons == {c \in Clients : status[c] = "client"}
Empowered(modes) == modes \cap {"a", "o"} # {}
IfIn(x, S) == IF x \in S THEN 1 ELSE 0

-----------------------------------------------------------------------------
(* The list of operators: next_oper_client from oper_cptr_list on.         *)

\* The first n clients of the list.
FirstOpers[n \in Nat] ==
  IF n = 0 THEN <<oper_cptr_list>>
  ELSE LET l == FirstOpers[n - 1] IN
       IF l[n] = NoClient THEN Append(l, NoClient)
       ELSE Append(l, next_oper_client[l[n]])

Listed == {FirstOpers[Cardinality(Clients)][i] :
             i \in 1 .. Cardinality(Clients)} \ {NoClient}

\* No handler gets to the end of a list that is a ring.
OperListEnds == FirstOpers[Cardinality(Clients)][Cardinality(Clients) + 1] = NoClient

\* c goes to the head.
LinkOper(c) ==
  /\ oper_cptr_list' = c
  /\ next_oper_client' = [next_oper_client EXCEPT ![c] = oper_cptr_list]

\* c leaves the list, if it is there.
OnlyAtHead(c) ==                                              \* faulty
  /\ oper_cptr_list' = IF oper_cptr_list = c THEN next_oper_client[c]
                       ELSE oper_cptr_list
  /\ next_oper_client' = [next_oper_client EXCEPT ![c] = NoClient]
UnlinkOper(c) ==
  \/ /\ oper_cptr_list = c
     /\ oper_cptr_list' = next_oper_client[c]
     /\ next_oper_client' = [next_oper_client EXCEPT ![c] = NoClient]
  \/ /\ oper_cptr_list # c
     /\ LET before == {p \in Listed : next_oper_client[p] = c} IN
        next_oper_client' = [p \in Clients |->
          IF p = c /\ before # {} THEN NoClient
          ELSE IF p \in before THEN next_oper_client[c] ELSE next_oper_client[p]]
     /\ UNCHANGED oper_cptr_list

-----------------------------------------------------------------------------
(* The parts that handlers share.                                          *)

\* send_umode_out: the uplink hears what changed, from old to new.
SendOnlyNew(c, old, new) ==                                   \* faulty
  told' = IF c \in Locals /\ linked
          THEN [told EXCEPT ![c] = @ \cup ((new \ old) \cap SEND_UMODES)] ELSE told
SendUmodeOut(c, old, new) ==
  told' = IF c \in Locals /\ linked
          THEN [told EXCEPT ![c] = (@ \ (old \ new)) \cup ((new \ old) \cap SEND_UMODES)]
          ELSE told

\* The counters, when so much is added to each.
Counted(local, total, invisi, oper) ==
  [local  |-> Count.local + local,   total |-> Count.total + total,
   invisi |-> Count.invisi + invisi, oper  |-> Count.oper + oper]

\* update_client_exit_stats, for all the clients of D.
CountVisible(D) ==                                            \* faulty
  Counted(0, -Cardinality(D), 0, -Cardinality({d \in D : Empowered(umodes[d])}))
CountExits(D) ==
  Counted(0, -Cardinality(D), -Cardinality({d \in D : "i" \in umodes[d]}),
          -Cardinality({d \in D : Empowered(umodes[d])}))

\* What is left of the records of the clients of D.
Forget(D) ==
  /\ status' = [c \in Clients |-> IF c \in D THEN "free" ELSE status[c]]
  /\ umodes' = [c \in Clients |-> IF c \in D THEN {} ELSE umodes[c]]
  /\ confs' = [c \in Clients |-> IF c \in D THEN <<>> ELSE confs[c]]
  /\ setN' = setN \ D

\* show_lusers counts anew when the last time was LUSERS_CACHE_TIME ago.
Recount ==
  [local  |-> Cardinality(Persons \cap Locals),
   total  |-> Cardinality(Persons),
   invisi |-> Cardinality({c \in Persons : "i" \in umodes[c]}),
   oper   |-> Cardinality({c \in Persons : Empowered(umodes[c])})]

-----------------------------------------------------------------------------
Init ==
  /\ status = [c \in Clients |-> "free"]
  /\ umodes = [c \in Clients |-> {}]
  /\ setN = {}
  /\ confs = [c \in Clients |-> <<>>]
  /\ Count = [local |-> 0, total |-> 0, invisi |-> 0, oper |-> 0]
  /\ oper_cptr_list = NoClient
  /\ next_oper_client = [c \in Clients |-> NoClient]
  /\ linked = FALSE /\ serverAdmin = FALSE
  /\ told = [c \in Clients |-> {}]
  /\ crashed = FALSE

\* register_user of a local client, which ends with a LUSERS.
HasRoom(c) ==
  /\ Count.local + 1 < MAXCLIENTS + MAX_BUFFER
  /\ Count.local + 1 < MAXCLIENTS - Spare \/ c \in Flined
Register(c) ==
  /\ c \in Locals \ Persons
  /\ HasRoom(c)
  /\ status' = [status EXCEPT ![c] = "client"]
  /\ umodes' = [umodes EXCEPT ![c] = {"i"}]
  /\ confs' = [confs EXCEPT ![c] = <<"I">>]
  /\ next_oper_client' = [next_oper_client EXCEPT ![c] = NoClient]
  /\ \/ Count' = Counted(1, 1, 1, 0)
     \/ Count' = Recount'
  /\ told' = IF linked THEN [told EXCEPT ![c] = {"i"}] ELSE told
  /\ UNCHANGED <<setN, oper_cptr_list, linked, serverAdmin, crashed>>

\* NICK from the uplink for a new client, with its modes.
Introduce(c, modes) ==
  /\ linked /\ c \notin Locals \cup Persons
  /\ status' = [status EXCEPT ![c] = "client"]
  /\ umodes' = [umodes EXCEPT ![c] = modes]
  /\ Count' = Counted(0, 1, IfIn("i", modes), IfIn("a", modes))
  /\ UNCHANGED <<setN, confs, oper_cptr_list, next_oper_client, linked,
                 serverAdmin, told, crashed>>

\* The same on a server that is not known: the client exits before it was
\* added to the total.
IntroduceGhost ==
  /\ Ghosts /\ linked
  /\ Count' = Counted(0, -1, 0, 0)
  /\ UNCHANGED <<status, umodes, setN, confs, oper_cptr_list, next_oper_client,
                 linked, serverAdmin, told, crashed>>

\* OPER of a local client; good: the password.
OperModes(c) ==
  IF OLine[c] = "oper"
  THEN {"o"} \cup (IF Hold[c] = {} THEN {"w"} ELSE Hold[c])
  ELSE {"a"} \cup (IF Hold[c] = {} THEN {"w"}
                   ELSE Hold[c] \ (IF c \in NFlag THEN {} ELSE {"n"}))
Oper(c) ==
  /\ c \in Persons \cap Locals /\ OLine[c] # "none" /\ ~Empowered(umodes[c])
  /\ \A i \in DOMAIN confs[c] : confs[c][i] # "O"
  /\ LET new == umodes[c] \cup OperModes(c) IN
     /\ umodes' = [umodes EXCEPT ![c] = new]
     /\ SendUmodeOut(c, umodes[c], new)
  /\ confs' = [confs EXCEPT ![c] = <<"O">> \o @]
  /\ setN' = IF c \in NFlag THEN setN \cup {c} ELSE setN
  /\ Count' = Counted(0, 0, 0, 1)
  /\ LinkOper(c)
  /\ UNCHANGED <<status, linked, serverAdmin, crashed>>

\* detach_conf: the line l leaves the lines s of a client.
Detached(s, l) ==
  IF \A k \in DOMAIN s : s[k] # l THEN s
  ELSE LET first == CHOOSE k \in DOMAIN s :
                      s[k] = l /\ \A j \in 1 .. k - 1 : s[j] # l IN
       [i \in 1 .. Len(s) - 1 |-> IF i < first THEN s[i] ELSE s[i + 1]]

\* The O line is attached to the client already, or the password is wrong: the
\* line is detached.
OperRefused(c) ==
  /\ c \in Persons \cap Locals /\ OLine[c] # "none" /\ ~Empowered(umodes[c])
  /\ confs' = [confs EXCEPT ![c] = Detached(@, "O")]
  /\ UNCHANGED <<status, umodes, setN, Count, oper_cptr_list, next_oper_client,
                 linked, serverAdmin, told, crashed>>

-----------------------------------------------------------------------------
(* MODE for a user.                                                        *)

\* The check at the end of user_mode: +n is for operators with the flag N.
DropN(modes, hasN) == IF hasN THEN modes ELSE modes \ {"n"}

\* The modes of c become new, by its own command; counted: what the letter did
\* to Count.oper.
NewModes(c, new, hasN, counted) ==
  LET m == DropN(new, hasN) IN
  /\ umodes' = [umodes EXCEPT ![c] = m]
  /\ Count' = Counted(0, 0, IfIn("i", m) - IfIn("i", umodes[c]), counted)
  /\ SendUmodeOut(c, umodes[c], m)

\* A letter other than a and O, by a user of this server or, of those that
\* are sent between servers, by one of the uplink.
ModeLetter(c, what, l) ==
  /\ c \in Persons
  /\ l \in IF c \in Locals THEN Letters \ {"a", "O"} ELSE SEND_UMODES \ {"a"}
  /\ NewModes(c, IF what = "+" THEN umodes[c] \cup {l} ELSE umodes[c] \ {l},
              c \in setN, 0)
  /\ UNCHANGED <<status, setN, confs, oper_cptr_list, next_oper_client, linked,
                 serverAdmin, crashed>>

\* +a of a user of the uplink; of a user of this server it does nothing.
ModePlusAdmin(c) ==
  /\ c \in Persons \ Locals /\ "a" \notin umodes[c]
  /\ NewModes(c, umodes[c] \cup {"a"}, FALSE, 1)
  /\ UNCHANGED <<status, setN, confs, oper_cptr_list, next_oper_client, linked,
                 serverAdmin, crashed>>

\* -a or -O: a local client leaves the list of operators and its first line is
\* detached, whichever it is.
Decrease(c) == IF Empowered(umodes[c]) THEN -1 ELSE 0
DetachFirst(c) == [confs EXCEPT ![c] = Tail(@)]
MinusAdmin(c) ==
  NewModes(c, umodes[c] \ {"a", "o"},
           c \in setN /\ ~(c \in Locals /\ Empowered(umodes[c])), Decrease(c))
ModeMinusAdmin(c) ==
  /\ c \in Persons
  /\ \/ /\ c \in Locals /\ Empowered(umodes[c]) /\ confs[c] # <<>>
        /\ confs' = DetachFirst(c) /\ setN' = setN \ {c} /\ UnlinkOper(c)
     \/ /\ c \notin Locals \/ ~Empowered(umodes[c])
        /\ UNCHANGED <<confs, setN, oper_cptr_list, next_oper_client>>
  /\ MinusAdmin(c)
  /\ UNCHANGED <<status, linked, serverAdmin, crashed>>

\* The same, when it has no line any more: sptr->confs is null.
ModeMinusNoLine(c) ==
  /\ c \in Persons \cap Locals /\ Empowered(umodes[c]) /\ confs[c] = <<>>
  /\ crashed' = TRUE
  /\ UNCHANGED <<status, umodes, setN, confs, Count, oper_cptr_list,
                 next_oper_client, linked, serverAdmin, told>>

\* MODE for the user c by the uplink itself: a and O are about the server that
\* sent it, any other letter about the user.
ServerMode(c, what, l) ==
  /\ linked /\ c \in Persons /\ l \in ServerLetters
  /\ \/ l \in {"a", "O"} /\ what = "+" /\ ~serverAdmin
        /\ serverAdmin' = TRUE /\ Count' = Counted(0, 0, 0, 1)
        /\ UNCHANGED <<umodes, told>>
     \/ l \in {"a", "O"} /\ what = "-" /\ serverAdmin
        /\ serverAdmin' = FALSE /\ Count' = Counted(0, 0, 0, -1)
        /\ UNCHANGED <<umodes, told>>
     \/ /\ l \notin {"a", "O"}
        /\ umodes' = [umodes EXCEPT ![c] = IF what = "+" THEN @ \cup {l} ELSE @ \ {l}]
        /\ told' = IF c \in Locals /\ l \in SEND_UMODES
                   THEN [told EXCEPT ![c] = IF what = "+" THEN @ \cup {l} ELSE @ \ {l}]
                   ELSE told
        /\ UNCHANGED <<serverAdmin, Count>>
  /\ UNCHANGED <<status, setN, confs, oper_cptr_list, next_oper_client, linked,
                 crashed>>

-----------------------------------------------------------------------------
\* exit_client of a local client.
ExitLocal(c) ==
  /\ c \in Persons \cap Locals
  /\ IF Empowered(umodes[c]) THEN UnlinkOper(c)
     ELSE UNCHANGED <<oper_cptr_list, next_oper_client>>
  /\ Count' = [CountExits({c}) EXCEPT !.local = @ - 1]
  /\ Forget({c})
  /\ told' = [told EXCEPT ![c] = {}]
  /\ UNCHANGED <<linked, serverAdmin, crashed>>

ExitRemote(c) ==
  /\ c \in Persons \ Locals
  /\ Count' = CountExits({c})
  /\ Forget({c})
  /\ UNCHANGED <<oper_cptr_list, next_oper_client, linked, serverAdmin, told,
                 crashed>>

\* server_estab: the uplink is told of every client.
Link ==
  /\ ~linked
  /\ linked' = TRUE
  /\ told' = [c \in Clients |-> IF c \in Locals THEN umodes[c] \cap SEND_UMODES ELSE {}]
  /\ UNCHANGED <<status, umodes, setN, confs, Count, oper_cptr_list,
                 next_oper_client, serverAdmin, crashed>>

\* The uplink is lost: the clients behind it exit.
Split ==
  /\ linked
  /\ linked' = FALSE /\ serverAdmin' = FALSE
  /\ Count' = CountExits(Persons \ Locals)
  /\ Forget(Persons \ Locals)
  /\ told' = [c \in Clients |-> {}]
  /\ UNCHANGED <<oper_cptr_list, next_oper_client, crashed>>

Lusers ==
  /\ Persons # {}
  /\ Count' = Recount
  /\ UNCHANGED <<status, umodes, setN, confs, oper_cptr_list, next_oper_client,
                 linked, serverAdmin, told, crashed>>

-----------------------------------------------------------------------------
Bounded == \A f \in {"total", "invisi", "oper"} :
             Count'[f] \in -MaxOff .. Cardinality(Clients) + MaxOff

Next ==
  /\ ~crashed /\ OperListEnds
  /\ \/ \E c \in Clients :
          \/ Register(c) \/ Oper(c) \/ OperRefused(c) \/ ExitLocal(c)
          \/ ExitRemote(c) \/ ModePlusAdmin(c) \/ ModeMinusAdmin(c)
          \/ ModeMinusNoLine(c)
          \/ \E modes \in SUBSET SEND_UMODES : Introduce(c, modes)
          \/ \E what \in {"+", "-"}, l \in Modes \cup {"O"} :
               ModeLetter(c, what, l) \/ ServerMode(c, what, l)
     \/ IntroduceGhost \/ Link \/ Split \/ Lusers
  /\ Bounded

Spec == Init /\ [][Next]_vars

-----------------------------------------------------------------------------
(* Properties.                                                             *)

Lines == UNION {[1 .. n -> {"I", "O"}] : n \in 0 .. 2}
TypeOK ==
  /\ status \in [Clients -> {"free", "client"}]
  /\ umodes \in [Clients -> SUBSET Modes]
  /\ setN \in SUBSET Clients
  /\ confs \in [Clients -> Lines]
  /\ Count \in [local : Nat, total : Int, invisi : Int, oper : Int]
  /\ oper_cptr_list \in Clients \cup {NoClient}
  /\ next_oper_client \in [Clients -> Clients \cup {NoClient}]
  /\ linked \in BOOLEAN /\ serverAdmin \in BOOLEAN /\ crashed \in BOOLEAN
  /\ told \in [Clients -> SUBSET SEND_UMODES]

\* LUSERS need not correct anything: "Local client count off by",
\* "Total client count off by" (src/s_user.c:332, 325).
LocalCounted == Count.local = Cardinality(Persons \cap Locals)
TotalCounted == Count.total = Cardinality(Persons)

\* The same for "Invisible client count off by" (src/s_user.c:319): MODE, the
\* default of register_user and exits agree on who is invisible.
InvisiblesCounted == Count.invisi = Recount.invisi

\* The same for "Oper count off by" (src/s_user.c:339).
OpersCounted == Count.oper = Recount.oper

\* The list of operators, which every notice to operators goes along, ends.
OperListIsList == OperListEnds

\* Who is on the list is a connected operator of this server, "has to be oper if
\* in this linklist" (src/send.c:1254), and all of those are on it.
OperListAgrees == Listed = {c \in Persons \cap Locals : Empowered(umodes[c])}

\* A local client keeps its I line, which limits and reports look at, and has
\* its O line for as long as it is an operator.
LinesAgree ==
  \A c \in Clients :
    confs[c] = IF c \notin Persons \cap Locals THEN <<>>
               ELSE IF Empowered(umodes[c]) THEN <<"O", "I">> ELSE <<"I">>

\* "You need oper and N flag for +n" (src/s_user.c:2131), also after the
\* operator has stepped down.
NeedsN == \A c \in Clients :
            "n" \in umodes[c] => c \in setN /\ Empowered(umodes[c])

\* The uplink knows the modes of a local client that are sent to servers.
UplinkTold ==
  linked => \A c \in Persons \cap Locals : told[c] = umodes[c] \cap SEND_UMODES
=============================================================================
