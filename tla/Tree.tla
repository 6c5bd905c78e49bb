-------------------------------- MODULE Tree --------------------------------
(***************************************************************************)
(* The tree of letters in which the command of a message is looked up,      *)
(* built once from the sorted table of commands.  From src/parse.c.         *)
(***************************************************************************)
EXTENDS Integers, FiniteSets, Sequences, TLC
LOCAL INSTANCE SequencesExt

CONSTANTS
  Letters,         \* A..Z are 1..Letters
  Words,           \* what a message may begin with: sequences of letters
  Tables,          \* bound: sets of commands
  NoCommand

VARIABLES
  commands,        \* msgtab
  tree,            \* [prefix -> node], of the prefixes that have one
  lookup           \* the word looked up, and what was found

treeVars == <<commands, tree, lookup>>

-----------------------------------------------------------------------------
\* strcmp(x, y) < 0
mcmp(x, y) ==
  \/ x # y /\ IsPrefix(x, y)
  \/ \E i \in DOMAIN x \cap DOMAIN y :
       x[i] < y[i] /\ \A j \in 1..i - 1 : x[j] = y[j]

Begins(t, i, prefix) == i <= Len(t) /\ IsPrefix(prefix, t[i])
Next_is(t, i, prefix, c) == Len(t[i]) > Len(prefix) /\ t[i][Len(prefix) + 1] = c

Past(t, i, prefix) == IF t[i] = prefix THEN i + 1 ELSE i

\* The nodes from a prefix on, and the first command that has another one: a
\* command alone leaves the rest of it to be compared; of several, the one that
\* is the prefix itself goes to the node (final = 1), and each letter gets a
\* tree of its own.
RECURSIVE do_msg_tree(_, _, _), Branches(_, _, _, _, _)
do_msg_tree(t, prefix, i) ==
  IF i = Len(t) \/ (prefix # <<>> /\ ~Begins(t, i + 1, prefix))
  THEN [nodes |-> prefix :> [final |-> "rest", msg |-> t[i]], next |-> i + 1]
  ELSE Branches(t, prefix, 1, Past(t, i, prefix),
                prefix :> [final |-> IF t[i] = prefix THEN "here" ELSE "none", msg |-> t[i]])
Branches(t, prefix, c, i, nodes) ==
  IF c > Letters THEN [nodes |-> nodes, next |-> i]
  ELSE IF ~Next_is(t, i, prefix, c) THEN Branches(t, prefix, c + 1, i, nodes)
  ELSE LET sub == do_msg_tree(t, Append(prefix, c), i) IN
       IF Begins(t, sub.next, prefix)
       THEN Branches(t, prefix, c + 1, sub.next, nodes @@ sub.nodes)
       ELSE [nodes |-> nodes @@ sub.nodes, next |-> sub.next]

init_tree_parse(table) == do_msg_tree(SetToSortSeq(table, mcmp), <<>>, 1).nodes

\* The first node on the way down that settles it.
tree_parse(cmd) ==
  LET Upto(k) == SubSeq(cmd, 1, k)
      hits == {k \in DOMAIN cmd :
                 /\ \A j \in 1..k : Upto(j) \in DOMAIN tree
                 /\ \/ tree[Upto(k)].final = "here" /\ k = Len(cmd)
                    \/ tree[Upto(k)].final = "rest" /\ tree[Upto(k)].msg = cmd}
  IN IF hits = {} THEN NoCommand
     ELSE tree[Upto(CHOOSE k \in hits : \A j \in hits : k <= j)].msg

-----------------------------------------------------------------------------
TreeInit ==
  /\ commands \in Tables
  /\ tree = init_tree_parse(commands)
  /\ lookup = [cmd |-> <<>>, msg |-> NoCommand]

\* One word.
Look(w) ==
  /\ lookup.cmd = <<>>
  /\ lookup' = [cmd |-> w, msg |-> tree_parse(w)]
  /\ UNCHANGED <<commands, tree>>
TreeNext == \E w \in Words : Look(w)
TreeSpec == TreeInit /\ [][TreeNext]_treeVars

-----------------------------------------------------------------------------
\* Whatever commands there are, be one the beginning of another or not: a word
\* is taken for the command that it is, and for none when it is only the
\* beginning of one, or begins with one.
CommandFound ==
  lookup.msg = IF lookup.cmd \in commands THEN lookup.cmd ELSE NoCommand
=============================================================================
