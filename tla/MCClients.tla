------------------------------ MODULE MCClients ------------------------------
(* Instances of Nicks and Umodes for TLC.  A behaviour has one part for     *)
(* good:                                                                    *)
(*   "nicks"    without root: two clients with the same user and host, and  *)
(*              flood control, the constants of the configuration;          *)
(*   "uplink"   three strangers, one an administrator, and FNICK;           *)
(*   "modes"    user modes, three local clients, the limit of clients;      *)
(*   "server"   user modes, MODE from the uplink and -o of clients, users   *)
(*              on servers that are not known.                              *)
EXTENDS NicksProofs, TLC

CONSTANTS alice, root, oper, bob, rem, x, y, z

\* last: a history variable of "nicks"; the rest are those of Umodes.
VARIABLES part, last,
          ustatus, umodes, setN, confs, Count, oper_cptr_list,
          next_oper_client, linked, serverAdmin, told, ucrashed
uvars == <<ustatus, umodes, setN, confs, Count, oper_cptr_list,
           next_oper_client, linked, serverAdmin, told, ucrashed>>

\* What the constants of the configuration have to be for the other parts.
ASSUME PartsAssumption ==
  root \in Clients /\ NoClient \notin {root, oper, bob, rem}

Twins == [c \in Clients |-> "same user and host"]
NickSymmetry == Permutations(Nicks)

A == INSTANCE NicksProofs WITH
  Admins <- {root}, Opers <- {root}, UserHost <- [c \in Clients |-> c],
  MaxTS <- 2, ANTI_NICK_FLOOD <- FALSE, FNICK <- TRUE

OLines == [c \in {root, oper, bob, rem} |->
             IF c = root THEN "admin" ELSE IF c = rem THEN "none" ELSE "oper"]
Default == [c \in {root, oper, bob, rem} |-> {}]
U == INSTANCE UmodesProofs WITH
  Clients <- {root, oper, bob, rem}, Locals <- {root, oper, bob},
  Letters <- {"O", "i", "n", "w"}, ServerLetters <- {}, Ghosts <- FALSE,
  OLine <- OLines, NFlag <- {root}, Hold <- Default, Flined <- {oper},
  MAXCLIENTS <- 4, MAX_BUFFER <- 0, Spare <- 1, MaxOff <- 2,
  status <- ustatus, crashed <- ucrashed

OneLine == [c \in {root, bob} |-> IF c = root THEN "admin" ELSE "none"]
S == INSTANCE UmodesProofs WITH
  Clients <- {root, bob}, Locals <- {root, bob},
  Letters <- {"O", "i", "o"}, ServerLetters <- {"a", "i"}, Ghosts <- TRUE,
  OLine <- OneLine, NFlag <- {root}, Hold <- [c \in {root, bob} |-> {}],
  Flined <- {root}, MAXCLIENTS <- 9, MAX_BUFFER <- 1, Spare <- 1, MaxOff <- 0,
  status <- ustatus, crashed <- ucrashed

MCInit ==
  /\ part \in {"nicks", "uplink", "modes", "server"}
  /\ Init /\ last = [n \in Nicks |-> NoClient]
  /\ IF part = "server" THEN S!Init ELSE U!Init

\* Who last gave up a nick, if that client is still there.
LeftBy(n) == {c \in Persons : name[c] = n /\ (name'[c] # n \/ c \notin Persons')}
Remember ==
  last' = [n \in Nicks |->
    IF LeftBy(n) # {}
    THEN LET c == CHOOSE c \in LeftBy(n) : TRUE
         IN IF c \in Persons' THEN c ELSE NoClient
    ELSE IF last[n] # NoClient /\ last[n] \notin Persons' THEN NoClient
    ELSE last[n]]

MCNext ==
  /\ UNCHANGED part
  /\ \/ part = "nicks" /\ Next /\ root \notin InUse'
        /\ Remember /\ UNCHANGED uvars
     \/ part = "uplink" /\ A!Next /\ UNCHANGED <<last, uvars>>
     \/ part = "modes" /\ U!Next /\ UNCHANGED <<vars, last>>
     \/ part = "server" /\ S!Next /\ UNCHANGED <<vars, last>>

MCSpec == MCInit /\ [][MCNext]_<<part, vars, last, uvars>>

\* A KILL for a nick that nobody has reaches the client that had it last, if
\* that one is still there, or nobody: never an earlier holder.
KillHitsLastHolder ==
  part = "nicks" =>
    \A n \in Nicks : Find(n) = {} => Chase(n) \subseteq {last[n]}

\* UplinkKnows, where flood control does not hold up the changes of nick.
NicksKnown == part = "uplink" => UplinkKnows

\* Whatever MODE, OPER, register_user and exit_client did in between, LUSERS
\* need not correct a counter ("count off by", src/s_user.c:319-339).  A client
\* that takes -o off itself, MODE a from the uplink and a user on an unknown
\* server make all but that of the local clients wrong.
CountersRight ==
  /\ part = "modes" => /\ U!TypeOK /\ U!LocalCounted /\ U!TotalCounted
                       /\ U!InvisiblesCounted /\ U!OpersCounted
  /\ part = "server" => S!TypeOK /\ S!LocalCounted

\* Operators are on the list of operators, have their O line and may be +n, and
\* nobody else (OperListAgrees, LinesAgree, NeedsN); not after MODE -o, which
\* leaves the client on the list.
OpersAgree == part = "modes" => U!OperListAgrees /\ U!LinesAgree /\ U!NeedsN

\* UplinkTold, whoever changed the modes.
ModesTold ==
  /\ part = "modes" => U!UplinkTold
  /\ part = "server" => S!UplinkTold
=============================================================================
