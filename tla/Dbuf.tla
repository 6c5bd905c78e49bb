-------------------------------- MODULE Dbuf --------------------------------
(***************************************************************************)
(* The dynamic buffers of src/dbuf.c: every queue is a chain of buffers of  *)
(* DBUF_SIZE bytes, taken from a pool that is filled when the server starts *)
(* and that grows and shrinks with what the queues hold.                    *)
(***************************************************************************)
EXTENDS Integers, FiniteSets, SequencesExt

CONSTANTS
  Owner,         \* the sendQ and recvQ of the connections
  Byte, Eol,     \* the bytes, and those that end a line
  DBUF_SIZE,
  INITIAL_DBUFS,
  USUAL_MAX,     \* DBUF_USUAL_MAX_COUNT
  MaxLength,     \* bound: the most bytes that the queues hold together
  MaxPut,        \* bound: the most bytes that are put at once
  MaxCount       \* bound: DBufCount, which never falls, stops the run here

ASSUME DbufSizes ==
  /\ IsFiniteSet(Owner)
  /\ Eol \subseteq Byte
  /\ DBUF_SIZE \in Nat \ {0} /\ INITIAL_DBUFS \in Nat /\ USUAL_MAX \in Nat
  /\ MaxLength \in Nat /\ MaxPut \in Nat

VARIABLES
  chain,         \* chain[o]: the buffers of queue o, head first
  length,        \* length[o]: the number of bytes that o is said to hold
  free,          \* the number of buffers on dbufFreeList
  used, count,   \* DBufUsedCount and DBufCount
  got            \* the bytes that the last operation copied out

vars == <<chain, length, free, used, count, got>>

(* A buffer is the place where what is left of its bytes starts, and them.  *)
End(b) == b.start + Len(b.rest)
Bytes(c) == FlattenSeq([i \in DOMAIN c |-> c[i].rest])

dbuf_init ==
  /\ chain = [o \in Owner |-> <<>>]
  /\ length = [o \in Owner |-> 0]
  /\ free = INITIAL_DBUFS + 1
  /\ used = 0
  /\ count = INITIAL_DBUFS
  /\ got = <<>>

\* k buffers leave the free list, or malloc when it is empty.
dbuf_alloc(k) ==
  LET reused == Min({k, free}) IN
  /\ free' = free - reused
  /\ count' = count + k - reused
  /\ used' = used + k

\* Faulty: all of them go to the free list.
Faulty_dbuf_free(k) == free' = free + k /\ used' = used - k /\ UNCHANGED count

\* k buffers come back, one by one: those above the usual number go to free().
dbuf_free(k) ==
  LET surplus == Min({k, Max({0, used - USUAL_MAX})}) IN
  /\ free' = free + k - surplus
  /\ used' = used - k
  /\ UNCHANGED count

(* The chain c with the bytes s appended: first to the room of the tail,   *)
(* then in new buffers.                                                     *)
Appended(c, s) ==
  LET room == IF c = <<>> THEN 0 ELSE DBUF_SIZE - End(Last(c))
      fill == Min({room, Len(s)})
      left == SubSeq(s, fill + 1, Len(s))
      more == (Len(left) + DBUF_SIZE - 1) \div DBUF_SIZE
      Cut(i) == SubSeq(left, (i - 1) * DBUF_SIZE + 1, Min({i * DBUF_SIZE, Len(left)})) IN
  (IF fill = 0 THEN c
   ELSE [c EXCEPT ![Len(c)].rest = @ \o SubSeq(s, 1, fill)])
  \o [i \in 1..more |-> [start |-> 0, rest |-> Cut(i)]]

\* The bytes in the first i buffers.
Before(c, i) == Len(Bytes(SubSeq(c, 1, i)))

\* Faulty: a buffer that is just emptied stays.
Faulty_Dropped(c, n) ==
  LET gone == Cardinality({i \in DOMAIN c : Before(c, i) < n})
      part == n - Before(c, gone)
      kept == SubSeq(c, gone + 1, Len(c)) IN
  IF kept = <<>> THEN <<>> ELSE [kept EXCEPT ![1] = [start |-> @.start + part,
                                                  rest |-> SubSeq(@.rest, part + 1, Len(@.rest))]]

(* The chain c without its first n bytes: a buffer goes when it is empty.  *)
Dropped(c, n) ==
  LET gone == Cardinality({i \in DOMAIN c : Before(c, i) <= n})
      part == n - Before(c, gone)
      kept == SubSeq(c, gone + 1, Len(c)) IN
  IF kept = <<>> THEN <<>> ELSE [kept EXCEPT ![1] = [start |-> @.start + part,
                                                  rest |-> SubSeq(@.rest, part + 1, Len(@.rest))]]

\* Queue o loses its first n bytes, wherever they are.
Shrink(o, n) ==
  LET kept == Dropped(chain[o], n) IN
  /\ chain' = [chain EXCEPT ![o] = kept]
  /\ length' = [length EXCEPT ![o] = IF kept = <<>> THEN 0 ELSE @ - n]
  /\ dbuf_free(Len(chain[o]) - Len(kept))

dbuf_put(o, bytes) ==
  LET after == Appended(IF length[o] = 0 THEN <<>> ELSE chain[o], bytes) IN
  /\ chain' = [chain EXCEPT ![o] = after]
  /\ length' = [length EXCEPT ![o] = @ + Len(bytes)]
  /\ dbuf_alloc(Len(after) - Len(chain[o]))
  /\ got' = <<>>

dbuf_delete(o, n) ==
  /\ Shrink(o, Min({n, length[o]}))
  /\ got' = <<>>

\* What dbuf_map shows: the rest of the first buffer.
dbuf_map(o) == IF length[o] = 0 THEN <<>> ELSE Head(chain[o]).rest

\* send_queued: the socket takes some of what dbuf_map shows.
Deliver(o, n) ==
  /\ n \in 1..Len(dbuf_map(o))
  /\ Shrink(o, n)
  /\ got' = SubSeq(dbuf_map(o), 1, n)

dbuf_get(o, n) ==
  LET moved == Min({n, length[o]}) IN
  /\ Shrink(o, moved)
  /\ got' = SubSeq(Bytes(chain[o]), 1, moved)

(* The number of bytes that dbuf_flush drops: the ends of line in front.   *)
dbuf_flush(s) ==
  Max({k \in 0..Len(s) : \A i \in 1..k : s[i] \in Eol})

\* Faulty: the ends of line before a line are not taken off with it.
KeepEols(o, n) ==
  LET all == Bytes(chain[o])
      lead == dbuf_flush(all)
      line == SubSeq(all, lead + 1, Len(all))
      ends == {i \in 1..Min({n, Len(line)}) : line[i] \in Eol} IN
  IF ends = {}
  THEN Shrink(o, lead) /\ got' = <<>>
  ELSE /\ got' = SubSeq(line, 1, Min(ends) - 1)
       /\ Shrink(o, Min(ends) - 1)

(* The line is looked for in the first n bytes after the flush.            *)
dbuf_getmsg(o, n) ==
  LET all == Bytes(chain[o])
      lead == dbuf_flush(all)
      line == SubSeq(all, lead + 1, Len(all))
      ends == {i \in 1..Min({n, Len(line)}) : line[i] \in Eol} IN
  IF ends = {}
  THEN Shrink(o, lead) /\ got' = <<>>
  ELSE LET copied == Min(ends) - 1
           after == SubSeq(line, copied + 1, Len(line)) IN
       /\ got' = SubSeq(line, 1, copied)
       /\ Shrink(o, lead + copied + dbuf_flush(after))

Next ==
  \E o \in Owner :
    \/ \E bytes \in SeqOf(Byte, MaxPut) \ {<<>>} :
         SumFunction(length) + Len(bytes) <= MaxLength /\ dbuf_put(o, bytes)
         /\ count' <= MaxCount
    \/ \E n \in 1..(MaxLength + 1) : dbuf_delete(o, n)
    \/ \E n \in 1..MaxLength : Deliver(o, n)
    \/ \E n \in 1..MaxLength : dbuf_get(o, n)
    \/ \E n \in 1..MaxLength : dbuf_getmsg(o, n)

Spec == dbuf_init /\ [][Next]_vars

\* The length that the code keeps with a queue is the number of bytes in its
\* chain, no buffer of a chain is empty, and only the last has room: what
\* dbuf_put, dbuf_map and dbuf_getmsg rely on without looking.
ChainSound ==
  \A o \in Owner : LET c == chain[o] IN
    /\ length[o] = Len(Bytes(c))
    /\ \A i \in DOMAIN c : c[i].rest # <<>>
    /\ \A i \in DOMAIN c : i < Len(c) => End(c[i]) = DBUF_SIZE
    /\ \A i \in DOMAIN c : i > 1 => c[i].start = 0

\* Every buffer in a chain is counted as used, the free list never keeps more
\* than the usual number (or what dbuf_init made), and DBufCount, which STATS
\* reports as allocated, covers every buffer there is but the extra first one.
PoolAgrees ==
  /\ used = SumFunction([o \in Owner |-> Len(chain[o])])
  /\ free > 0 => used + free <= Max({INITIAL_DBUFS + 1, USUAL_MAX})
  /\ used + free <= count + 1

\* A chain of buffers is a queue of bytes: bytes come out once, in order, and a
\* message is cut at the next end of line however it lies across the buffers.
Queue == INSTANCE ByteQueue WITH queue <- [o \in Owner |-> Bytes(chain[o])]
QueueSpec == Queue!Spec
=============================================================================
