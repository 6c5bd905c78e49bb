----------------------------- MODULE Structures -----------------------------
(***************************************************************************)
(* What the handling of input stands on: the chains of dbufs (Dbuf), the    *)
(* heaps that hand out records (Blalloc), the lists of the CTCP flood       *)
(* control (Flud) and the array that poll is given (Poll).  They share no   *)
(* state, so together they behave as each does.                            *)
(***************************************************************************)
EXTENDS Dbuf, Flud, Blalloc, Poll

StructuresSpec == Spec /\ HeapSpec /\ FludSpec /\ PollSpec

\* However buffers, blocks, lists and connections come and go: the bytes of a
\* chain and the buffers in use are those that are counted (ChainSound,
\* PoolAgrees), no element is handed out twice or in a freed block (HeapSound),
\* target and sender of a CTCP list each other (FludListsAgree) and a target
\* that is flooded blocks (FludnetBlocked), and a round of poll that asks about
\* anybody passes over no connection with an event (NoneMissed).
StructuresSound ==
  /\ ChainSound /\ PoolAgrees /\ HeapSound
  /\ FludListsAgree /\ FludnetBlocked /\ NoneMissed
=============================================================================
