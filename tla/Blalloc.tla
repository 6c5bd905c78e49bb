------------------------------- MODULE Blalloc -------------------------------
(***************************************************************************)
(* The heap of equal elements from which clients, users, links and fluders  *)
(* are taken: blocks with a map of what is in use, new ones when all is, and *)
(* a collection of those that are free.  From src/blalloc.c.                *)
(***************************************************************************)
EXTENDS Lists

CONSTANTS
  Address,         \* where a block may be; the number is the bound
  ElemsPerBlock,
  BitsPerLong

ASSUME HeapSizes == ElemsPerBlock \in Nat \ {0} /\ BitsPerLong \in Nat \ {0}

VARIABLES
  blocks,          \* the list from bh->base: [at, map, freeElems]
  freeElems,       \* bh->freeElems
  taken,           \* elements handed out and not given back
  out,             \* how many times
  refused          \* an element was refused although there was memory

heapVars == <<blocks, freeElems, taken, out, refused>>

-----------------------------------------------------------------------------
numlongs == (ElemsPerBlock + BitsPerLong - 1) \div BitsPerLong
Used == {blocks[i].at : i \in DOMAIN blocks}

\* The first bit that is clear, in all of the longs.
Clear(b) == {e \in 0..numlongs * BitsPerLong - 1 : e \notin b.map}
Lowest(S) == CHOOSE e \in S : \A f \in S : e <= f
Roomy == {i \in DOMAIN blocks : blocks[i].freeElems > 0 /\ Clear(blocks[i]) # {}}

Hand(p) == taken' = taken \cup {p} /\ out' = out + 1 /\ UNCHANGED refused

\* A new first block, when the system gives the memory.
newblock(at) == [at |-> at, map |-> {0}, freeElems |-> ElemsPerBlock - 1]

BlockHeapAlloc ==
  \/ /\ freeElems = 0
     /\ \E at \in Address \ Used :
          /\ blocks' = <<newblock(at)>> \o blocks
          /\ freeElems' = freeElems + ElemsPerBlock - 1
          /\ Hand(<<at, 0>>)
  \/ /\ freeElems # 0 /\ Roomy # {}
     /\ LET i == Lowest(Roomy)
            e == Lowest(Clear(blocks[i])) IN
          /\ blocks' = [blocks EXCEPT ![i].map = @ \cup {e}, ![i].freeElems = @ - 1]
          /\ freeElems' = freeElems - 1
          /\ Hand(<<blocks[i].at, e>>)
  \/ /\ freeElems # 0 /\ Roomy = {}
     /\ refused' = TRUE
     /\ UNCHANGED <<blocks, freeElems, taken, out>>

\* Faulty: one that is free already is counted again.
Faulty_BlockHeapFree(i, e) ==
  /\ e \in 0..ElemsPerBlock - 1
  /\ blocks' = [blocks EXCEPT ![i].map = @ \ {e}, ![i].freeElems = @ + 1]
  /\ freeElems' = freeElems + 1
  /\ taken' = taken \ {<<blocks[i].at, e>>}
  /\ out' = out - 1
  /\ UNCHANGED refused

\* An element of a block; one that is free already is left so.
BlockHeapFree(i, e) ==
  /\ e \in 0..ElemsPerBlock - 1
  /\ IF e \in blocks[i].map
     THEN /\ blocks' = [blocks EXCEPT ![i].map = @ \ {e}, ![i].freeElems = @ + 1]
          /\ freeElems' = freeElems + 1
          /\ taken' = taken \ {<<blocks[i].at, e>>}
          /\ out' = out - 1
     ELSE UNCHANGED <<blocks, freeElems, taken, out>>
  /\ UNCHANGED refused

Left(gone) == freeElems - gone * ElemsPerBlock

\* The first block may go too.
BlockHeapGarbageCollect ==
  /\ freeElems >= ElemsPerBlock
  /\ blocks' = Kept(blocks, {i \in DOMAIN blocks : blocks[i].map # {}})
  /\ freeElems' = Left(Len(blocks) - Len(blocks'))
  /\ UNCHANGED <<taken, out, refused>>

BlockHeapCreate ==
  /\ \E at \in Address : blocks = <<[at |-> at, map |-> {}, freeElems |-> ElemsPerBlock]>>
  /\ freeElems = ElemsPerBlock
  /\ taken = {} /\ out = 0 /\ refused = FALSE

HeapNext ==
  \/ BlockHeapAlloc
  \/ \E i \in DOMAIN blocks : \E e \in 0..ElemsPerBlock - 1 : BlockHeapFree(i, e)
  \/ BlockHeapGarbageCollect

HeapSpec == BlockHeapCreate /\ [][HeapNext]_heapVars

-----------------------------------------------------------------------------
\* No element is handed out twice, none of them lies outside its block or in one
\* that was collected, the counts of free elements are right, and none is
\* refused while a block has one, after any allocations, collections and
\* (even repeated) returns.
HeapSound ==
  /\ Cardinality(taken) = out /\ ~refused
  /\ taken = UNION {{<<blocks[i].at, e>> : e \in blocks[i].map} : i \in DOMAIN blocks}
  /\ \A i \in DOMAIN blocks :
       /\ blocks[i].map \subseteq 0..ElemsPerBlock - 1
       /\ blocks[i].freeElems = ElemsPerBlock - Cardinality(blocks[i].map)
  /\ freeElems = Len(blocks) * ElemsPerBlock - out
=============================================================================
