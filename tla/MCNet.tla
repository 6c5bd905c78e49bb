-------------------------------- MODULE MCNet --------------------------------
(***************************************************************************)
(* A channel on one server, a network of servers, and the way of a command  *)
(* to its handler, checked side by side: a behaviour is one of the module   *)
(* that part names, and the others keep their first state.                  *)
(***************************************************************************)
EXTENDS MCChannel

CONSTANTS
  a, b, c, u1, u2,                         \* servers and persons of Links
  NoOne, NoCommand

VARIABLES
  part,
  net,
  commands, tree, lookup

(* Links: persons at a and c; a hub in the middle, a triangle.              *)
Servers == {a, b, c}
Persons == {u1, u2}
Homes == (u1 :> a) @@ (u2 :> c)
Bounds == (TRUE :> 3) @@ (FALSE :> 2)
Builds == {[hub |-> {a, b, c}, skewed |-> {}], [hub |-> {b}, skewed |-> {{a, b}}]}
L == INSTANCE Links WITH
  Server <- Servers, User <- Persons, Home <- Homes, Bound <- Bounds, Build <- Builds

(* Timestamps matter in their order only: the lowest is 1.  Where all three *)
(* are hubs, a with u1 and c with u2 may change places: c is not older.     *)
LowestIs1(ts) == 2 \in ts => 1 \in ts
InOrder == net.build.hub = {a, b, c} => net.ts[a] = 1 \/ net.ts[c] = 0

(* Tree: up to four commands of these words.                                *)
Spelled == (UNION {[1..k -> 1..2] : k \in 1..3}) \cup {<<3>>, <<3, 1>>, <<1, 3>>}
X == INSTANCE Tree WITH
  Letters <- 3, Words <- Spelled \cup {<<1, 1, 1, 1>>, <<2, 1, 3>>},
  Tables <- {t \in SUBSET Spelled : Cardinality(t) \in 2..4}

MCInit ==
  /\ part \in {"channel", "links", "tree"}
  /\ Init
  /\ IF part = "links" THEN L!LinksInit /\ LowestIs1({net.ts[s] : s \in {a, b, c}}) /\ InOrder
     ELSE net = <<>>
  /\ IF part = "tree" THEN X!TreeInit ELSE commands = {} /\ tree = <<>> /\ lookup = <<>>

xVars == <<commands, tree, lookup>>

MCNext ==
  /\ UNCHANGED part
  /\ \/ part = "channel" /\ Next /\ UNCHANGED <<net, xVars>>
     \/ part = "links" /\ L!LinksNext /\ UNCHANGED <<vars, xVars>>
     \/ part = "tree" /\ X!TreeNext /\ UNCHANGED <<vars, net>>

MCSpec == MCInit /\ [][MCNext]_<<part, vars, net, xVars>>

(* The properties of Channel, which is extended, are checked under their own *)
(* names.                                                                   *)

\* The lists of every server are sound (ListsSound), and when nothing is under
\* way the two ends of a link know the same servers, persons and members
\* (EndsAgree), whatever was linked, split or refused before; and unless somebody
\* came, left or lost a link meanwhile, who is an operator of the channel (OpsAgree).
NetAgrees == part = "links" => L!NetAgrees /\ L!OpsAgree

\* Over links that come and go, what persons were shown of their channel is true
\* (PictureRight), what is said reaches them once (SaidOnce), and nobody is killed
\* as a ghost who is there (OnlyGhostsKilled); and what they give a server reaches
\* the handler of that command and no other (CommandFound).
PersonsServed ==
  /\ part = "links" => L!PersonsServed
  /\ part = "tree" => X!CommandFound
=============================================================================
