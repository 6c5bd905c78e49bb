------------------------------- MODULE IpLines -------------------------------
(***************************************************************************)
(* D-lines, their exceptions and K-lines of addresses, in the search trees  *)
(* of dline_conf.c: one tree for each first octet, of which one is modelled *)
(* with the few addresses 0 .. Size-1.  A line covers a block of 2^k        *)
(* addresses; a wider mask is a bigger block.                               *)
(***************************************************************************)
EXTENDS Integers, Sequences, SequencesExt, FiniteSets, FiniteSetsExt, Functions

CONSTANTS Size,       \* addresses of the octet modelled, a power of two up to 16
          Blocks,     \* sizes of the blocks that lines cover
          IpUsers,    \* names in front of the address
          Exceptions, \* addresses that a d-line may exempt
          MaxDlines, MaxIpKlines  \* bounds: lines given

VARIABLES
  dtree, oracle, leftover,  \* Dline[], oracle[], the d-lines without a D-line
  ktree, ike_oracle,        \* ip_Kline[] and its oracle
  given                     \* the lines of the configuration so far

ipVars == <<dtree, oracle, leftover, ktree, ike_oracle, given>>

Ips == 0 .. Size - 1
Anyone == "*"
Masked(ip, block) == ip - (ip % block)
Bits(n) == {k \in 0 .. 3 : (n \div 2^k) % 2 = 1}
Covers(line, ip) == line.ip = Masked(ip, line.block)
IpLine(kind, ip, block, user) == [kind |-> kind, ip |-> ip, block |-> block, user |-> user]

Nil == [ip |-> -1]
Node(line, clist) == [ip |-> line.ip, block |-> line.block, conf |-> clist,
                      left |-> Nil, right |-> Nil]

----------------------------------------------------------------------------
(* The tree.                                                                *)

RECURSIVE insert_ip_subtree(_, _), find_ip_subtree(_, _), Deepest(_, _), Updated(_, _, _)

insert_ip_subtree(head, node) ==
  IF head = Nil THEN node
  ELSE IF head.ip > node.ip THEN [head EXCEPT !.left = insert_ip_subtree(@, node)]
  ELSE [head EXCEPT !.right = insert_ip_subtree(@, node)]

find_ip_subtree(head, ip) ==
  IF head = Nil THEN Nil
  ELSE IF head.ip = Masked(ip, head.block) THEN head
  ELSE find_ip_subtree(IF head.ip > Masked(ip, head.block) THEN head.left ELSE head.right, ip)

\* the conf list of the node that find_ip_subtree finds becomes clist
Updated(head, ip, clist) ==
  IF head.ip = Masked(ip, head.block) THEN [head EXCEPT !.conf = clist]
  ELSE IF head.ip > Masked(ip, head.block) THEN [head EXCEPT !.left = Updated(@, ip, clist)]
  ELSE [head EXCEPT !.right = Updated(@, ip, clist)]

\* The inorder predecessor (side "left") or successor replaces the head; when it
\* lies deeper than the child, the child and what is below it are lost.
Other(side) == IF side = "left" THEN "right" ELSE "left"
Deepest(t, side) == IF t[side] = Nil THEN t ELSE Deepest(t[side], side)
Replaced(head, side) ==
  LET back == Other(side)
  IN [Deepest(head[side], back) EXCEPT ![back] = head[back]]

\* The tree without the nodes inside the new block, and their lines.
RECURSIVE delete_ip_subtree(_, _, _, _)
delete_ip_subtree(head, ip, block, side) ==
  IF head = Nil THEN [tree |-> Nil, clist |-> <<>>]
  ELSE LET l == delete_ip_subtree(head.left, ip, block, side)
           r == delete_ip_subtree(head.right, ip, block, side)
           kept == [head EXCEPT !.left = l.tree, !.right = r.tree]
       IN IF Masked(head.ip, block) # ip \/ head.block > block
          THEN [tree |-> kept, clist |-> r.clist \o l.clist]
          ELSE [tree |-> IF l.tree = Nil THEN r.tree
                         ELSE IF r.tree = Nil THEN l.tree ELSE Replaced(kept, side),
                clist |-> head.conf \o r.clist \o l.clist]

----------------------------------------------------------------------------
(* D-lines.                                                                 *)

find_exception(ip) == \E d \in Range(leftover) : Covers(d, ip)

\* After the D of the node, or to the leftovers.
add_dline(d) ==
  LET node == find_ip_subtree(dtree, d.ip)
  IN IF node = Nil
     THEN leftover' = <<d>> \o leftover /\ UNCHANGED dtree
     ELSE /\ dtree' = Updated(dtree, d.ip, <<node.conf[1], d>> \o Tail(node.conf))
          /\ UNCHANGED leftover

\* rescan_dlines goes from the last leftover to the first.
Placed(t, d) ==
  LET node == find_ip_subtree(t, d.ip)
  IN Updated(t, d.ip, <<node.conf[1], d>> \o Tail(node.conf))
RECURSIVE rescan_dlines(_, _)
rescan_dlines(t, rest) ==
  IF rest = <<>> THEN [tree |-> t, left |-> <<>>]
  ELSE LET r == rescan_dlines(t, Tail(rest))
       IN IF find_ip_subtree(r.tree, Head(rest).ip) # Nil
          THEN [r EXCEPT !.tree = Placed(@, Head(rest))]
          ELSE [r EXCEPT !.left = <<Head(rest)>> \o @]

trim_Dlines(clist) == SelectSeq(clist, LAMBDA l : l.kind = "d")

IgnoredD(d) ==
  LET node == find_ip_subtree(dtree, d.ip)
  IN (node # Nil /\ node.block >= d.block) \/ find_exception(d.ip)
add_Dline(d) ==
  IF IgnoredD(d) THEN UNCHANGED <<dtree, oracle, leftover>>
  ELSE \E side \in {"left", "right"} :
         LET cut == delete_ip_subtree(dtree, d.ip, d.block, side)
             tree == insert_ip_subtree(cut.tree, Node(d, <<d>> \o trim_Dlines(cut.clist)))
             placed == rescan_dlines(tree, leftover)
         IN /\ dtree' = placed.tree /\ leftover' = placed.left
            /\ oracle' = oracle \cup Bits(d.ip + d.block - 1)

\* the line that decides for an address: an exception, the D-line or none
match_Dline(ip) ==
  LET node == find_ip_subtree(dtree, ip)
  IN IF ~(Bits(ip) \subseteq oracle) \/ node = Nil THEN "none"
     ELSE IF \E k \in DOMAIN node.conf : node.conf[k].kind = "d" /\ Covers(node.conf[k], ip)
     THEN "d"
     ELSE IF Covers(node.conf[1], ip) THEN "D" ELSE "none"

----------------------------------------------------------------------------
(* K-lines of addresses.                                                    *)

\* trim_ip_Klines drops the lines at least as narrow as the new one; where a
\* long has 64 bits its comparison with an int never holds.
trim_ip_Klines(clist, block) == SelectSeq(clist, LAMBDA l : l.block > block)

add_ip_Kline(l) ==
  LET node == find_ip_subtree(ktree, l.ip)
      wider == \E k \in DOMAIN node.conf : node.conf[k].user = Anyone /\ node.conf[k].block > l.block
  IN IF node = Nil
     THEN \E side \in {"left", "right"} :
            LET cut == delete_ip_subtree(ktree, l.ip, l.block, side)
                rest == IF l.user = Anyone THEN <<>> ELSE cut.clist
            IN /\ ktree' = insert_ip_subtree(cut.tree, Node(l, <<l>> \o rest))
               /\ ike_oracle' = ike_oracle \cup Bits(l.ip + l.block - 1)
     ELSE IF wider THEN UNCHANGED <<ktree, ike_oracle>>
     ELSE /\ \E rest \in {node.conf}
                \cup (IF l.user = Anyone THEN {trim_ip_Klines(node.conf, l.block)} ELSE {}) :
               ktree' = Updated(ktree, l.ip, <<l>> \o rest)
          /\ ike_oracle' = ike_oracle \cup Bits(l.ip + l.block - 1)

match_ip_Kline(ip, user) ==
  LET node == find_ip_subtree(ktree, ip)
  IN /\ Bits(ip) \subseteq ike_oracle /\ node # Nil
     /\ \E l \in Range(node.conf) : Covers(l, ip) /\ l.user \in {Anyone, user}

----------------------------------------------------------------------------

IpInit ==
  /\ dtree = Nil /\ ktree = Nil /\ oracle = {} /\ ike_oracle = {}
  /\ leftover = <<>> /\ given = {}

Count(kinds) == Cardinality({l \in given : l.kind \in kinds})

GiveD ==
  /\ Count({"D", "d"}) < MaxDlines
  /\ \E ip \in Ips, b \in Blocks :
       LET d == IpLine("D", Masked(ip, b), b, Anyone)
       IN d \notin given /\ add_Dline(d) /\ given' = given \cup {d}
  /\ UNCHANGED <<ktree, ike_oracle>>

Gived ==
  /\ Count({"D", "d"}) < MaxDlines
  /\ \E ip \in Exceptions :
       LET d == IpLine("d", ip, 1, Anyone)
       IN d \notin given /\ add_dline(d) /\ given' = given \cup {d}
  /\ UNCHANGED <<oracle, ktree, ike_oracle>>

GiveK ==
  /\ Count({"K"}) < MaxIpKlines
  /\ \E ip \in Ips, b \in Blocks, u \in IpUsers \cup {Anyone} :
       LET l == IpLine("K", Masked(ip, b), b, u)
       IN l \notin given /\ add_ip_Kline(l) /\ given' = given \cup {l}
  /\ UNCHANGED <<dtree, oracle, leftover>>

\* zap_Dlines, before the configuration is read again
Zap == given # {} /\ dtree' = Nil /\ ktree' = Nil /\ oracle' = {} /\ ike_oracle' = {}
       /\ leftover' = <<>> /\ given' = {}

IpNext == GiveD \/ Gived \/ GiveK \/ Zap
IpSpec == IpInit /\ [][IpNext]_ipVars

----------------------------------------------------------------------------
(* Properties.                                                              *)

Excepted == {d.ip : d \in {l \in given : l.kind = "d"}}
GivenFor(kind, ip) == {l \in given : l.kind = kind /\ Covers(l, ip)}

\* In whatever order lines that overlap are given, an address is refused only
\* because of a D-line that covers it, never when a d-line exempts it, and
\* always when a D-line covers it whose own address is not exempted.
DlinesDecide == \A ip \in Ips :
  /\ match_Dline(ip) = "D" => GivenFor("D", ip) # {} /\ ip \notin Excepted
  /\ (\E l \in GivenFor("D", ip) : l.ip \notin Excepted) /\ ip \notin Excepted
       => match_Dline(ip) = "D"

\* Lines of many widths share the list of one node, and are dropped from it by
\* their width alone; still nobody is refused but for a line that is in the
\* configuration and has his name and his address.
KlinesSound == \A ip \in Ips, u \in IpUsers :
  match_ip_Kline(ip, u) => \E l \in GivenFor("K", ip) : l.user \in {Anyone, u}
=============================================================================
