-------------------------------- MODULE Flud --------------------------------
(***************************************************************************)
(* The CTCP flood protection of src/flud.c.  A target, a local client or a  *)
(* channel, keeps a list of those who sent it a CTCP (fluders), and each of *)
(* them a list of the targets it is listed with (fludees); the two point at *)
(* each other and must be taken apart by whichever side goes first.         *)
(***************************************************************************)
EXTENDS Lists, SequencesExt, FiniteSetsExt

CONSTANTS
  Local, Remote,     \* the clients
  Chan,              \* the channels
  FLUDNUM, FLUDTIME, FLUDBLOCK

Client == Local \cup Remote
Target == Local \cup Chan

ASSUME FludSettings ==
  /\ FLUDNUM \in Nat \ {0} /\ FLUDTIME \in Nat \ {0} /\ FLUDBLOCK \in Nat
  /\ FLUDBLOCK > FLUDTIME
  /\ IsFiniteSet(Client) /\ Client \cap Chan = {}

VARIABLES
  fluders,     \* fluders[t]: the list of target t, newest first
  fludees,     \* fludees[c]: the targets that client c is listed with
  blocked,     \* blocked[t]: seconds since the last CTCP that was blocked
  here,        \* the clients that are on the network
  juped,       \* the channels that outlive their members
  stale,       \* targets whose list was freed and is still pointed at
  heard        \* heard[t][c]: seconds since t was last sent a CTCP by c

fludVars == <<fluders, fludees, blocked, here, juped, stale, heard>>

(* Ages and counts matter up to a limit, and stop there.                   *)
Old == FLUDTIME + 1
Many == FLUDNUM + 1
Older(age, most) == Min({age + 1, most})

FludInit ==
  /\ fluders = [t \in Target |-> <<>>]
  /\ fludees = [c \in Client |-> <<>>]
  /\ blocked = [t \in Target |-> FLUDBLOCK]
  /\ here = Client /\ stale = {}
  /\ juped \in SUBSET Chan
  /\ heard = [t \in Target |-> [c \in Client |-> Old]]

remove_fluder_reference(list, c) == Kept(list, {i \in DOMAIN list : list[i].fluder # c})
remove_fludee_reference(list, t) == Kept(list, {i \in DOMAIN list : list[i] # t})

Blocking(t) == blocked[t] < FLUDBLOCK

(* The garbage: those who have been quiet, unless t is blocking.           *)
Quiet(t) ==
  IF Blocking(t) THEN {}
  ELSE {fluders[t][i].fluder : i \in {j \in DOMAIN fluders[t] : fluders[t][j].last > FLUDTIME}}

\* Faulty: the fluders that t has dropped still list t.
Faulty_Unlisted(t) == fludees

\* The lists of the fluders without t, where t has dropped them.
Unlisted(t) ==
  [c \in Client |-> IF c \in Quiet(t) THEN remove_fludee_reference(fludees[c], t) ELSE fludees[c]]

(* What the messages in the list e count: all of a fluder's when the first *)
(* is recent, one otherwise.                                               *)
Weight(e) == IF e.first > FLUDTIME THEN 1 ELSE e.count

\* Faulty: a fluder counts from the second message on.
Faulty_Counted(list) == SumFunction([i \in {j \in DOMAIN list : list[j].count > 1} |-> Weight(list[i])])

Counted(list) == SumFunction([i \in DOMAIN list |-> Weight(list[i])])

\* The list of t after a CTCP of c.
Noted(list, c) ==
  IF \E i \in DOMAIN list : list[i].fluder = c
  THEN [i \in DOMAIN list |->
          IF list[i].fluder = c
          THEN [list[i] EXCEPT !.last = 0, !.count = Min({@ + 1, Many})]
          ELSE list[i]]
  ELSE <<[fluder |-> c, count |-> 1, first |-> 0, last |-> 0]>> \o list

\* A CTCP of c reaches t; it is dropped when t is blocking and a client.
check_for_flud(c, t) ==
  LET kept == Kept(fluders[t], {i \in DOMAIN fluders[t] : fluders[t][i].fluder \notin Quiet(t)})
      list == Noted(kept, c) IN
  /\ c \in here /\ (t \in Client => t \in here) /\ t \notin stale
  /\ fluders' = [fluders EXCEPT ![t] = list]
  /\ fludees' = IF \E i \in DOMAIN kept : kept[i].fluder = c
                THEN Unlisted(t) ELSE [Unlisted(t) EXCEPT ![c] = <<t>> \o @]
  /\ blocked' = [blocked EXCEPT ![t] =
                   IF Blocking(t) \/ Counted(list) > FLUDNUM THEN 0 ELSE @]
  /\ heard' = [heard EXCEPT ![t][c] = 0]
  /\ UNCHANGED <<here, juped, stale>>

\* Every fluder of t forgets t.
free_fluders(t, lists) ==
  [c \in Client |-> IF \E i \in DOMAIN fluders[t] : fluders[t][i].fluder = c
                    THEN remove_fludee_reference(lists[c], t) ELSE lists[c]]

\* Every target that c is listed with forgets c.
free_fludees(c) ==
  [t \in Target |-> IF \E i \in DOMAIN fludees[c] : fludees[c][i] = t
                    THEN remove_fluder_reference(fluders[t], c) ELSE fluders[t]]

\* release_client_state of a client that leaves.
Leaves(c) ==
  /\ c \in here
  /\ here' = here \ {c}
  /\ fludees' = [(IF c \in Local THEN free_fluders(c, fludees) ELSE fludees) EXCEPT ![c] = <<>>]
  /\ fluders' = [t \in Target |-> IF t = c THEN <<>> ELSE free_fludees(c)[t]]
  /\ blocked' = [t \in Target |-> IF t = c THEN FLUDBLOCK ELSE blocked[t]]
  /\ heard' = [t \in Target |->
       [x \in Client |-> IF t = c \/ x = c THEN Old ELSE heard[t][x]]]
  /\ UNCHANGED <<juped, stale>>

\* A client of that name comes back, with empty lists.
Returns(c) ==
  /\ c \notin here
  /\ here' = here \cup {c}
  /\ UNCHANGED <<fluders, fludees, blocked, juped, stale, heard>>

\* sub1_from_channel of the last member: a juped channel is not freed, and still
\* points at the list that was.
Emptied(t) ==
  /\ t \in Chan \ stale
  /\ fludees' = free_fluders(t, fludees)
  /\ IF t \in juped
     THEN /\ stale' = IF fluders[t] = <<>> THEN stale ELSE stale \cup {t}
          /\ UNCHANGED <<fluders, blocked, heard>>
     ELSE /\ fluders' = [fluders EXCEPT ![t] = <<>>]
          /\ blocked' = [blocked EXCEPT ![t] = FLUDBLOCK]
          /\ heard' = [heard EXCEPT ![t] = [c \in Client |-> Old]]
          /\ UNCHANGED stale
  /\ UNCHANGED <<here, juped>>

Second ==
  /\ fluders' = [t \in Target |-> [i \in DOMAIN fluders[t] |->
       [fluders[t][i] EXCEPT !.first = Older(@, Old), !.last = Older(@, Old)]]]
  /\ blocked' = [t \in Target |-> Older(blocked[t], FLUDBLOCK)]
  /\ heard' = [t \in Target |-> [c \in Client |-> Older(heard[t][c], Old)]]
  /\ UNCHANGED <<fludees, here, juped, stale>>

FludNext ==
  \/ Second
  \/ \E c \in Client : Leaves(c) \/ Returns(c) \/ \E t \in Target : check_for_flud(c, t)
  \/ \E t \in Chan : Emptied(t)

FludSpec == FludInit /\ [][FludNext]_fludVars

Times(list, x) == Cardinality({i \in DOMAIN list : list[i] = x})

\* A target lists a client exactly when the client lists the target, and once:
\* when either goes, the other is left with no pointer to it.  A juped channel
\* whose members have left is the exception.
FludListsAgree ==
  \A t \in Target \ stale, c \in Client :
    LET listed == Cardinality({i \in DOMAIN fluders[t] : fluders[t][i].fluder = c}) IN
    /\ listed = Times(fludees[c], t) /\ listed <= 1
    /\ listed = 1 => c \in here /\ (t \in Client => t \in here)

\* When more than FLUDNUM clients have sent t a CTCP within FLUDTIME seconds, the
\* next ones are blocked, however the lists were shortened in the meantime.
FludnetBlocked ==
  \A t \in Target \ stale :
    Cardinality({c \in here : heard[t][c] <= FLUDTIME}) > FLUDNUM => blocked[t] <= FLUDTIME
=============================================================================
