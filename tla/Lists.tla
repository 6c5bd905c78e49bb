-------------------------------- MODULE Lists --------------------------------
(***************************************************************************)
(* Lists from which entries are taken out.  SelectSeq says the same; the    *)
(* places are named here so that what stays can be reasoned about.         *)
(***************************************************************************)
EXTENDS Integers, FiniteSets, Sequences

\* The entries of list at the places in K, in their order.
Kept(list, K) ==
  [j \in 1..Cardinality(K) |->
     list[CHOOSE i \in K : Cardinality({k \in K : k <= i}) = j]]
=============================================================================
