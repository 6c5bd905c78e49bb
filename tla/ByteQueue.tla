------------------------------ MODULE ByteQueue ------------------------------
(***************************************************************************)
(* What the dynamic buffers of dbuf.c promise to the code that reads and    *)
(* writes connections: every owner has a first-in first-out queue of bytes, *)
(* and a message is what stands before the next end of line.                *)
(***************************************************************************)
EXTENDS Naturals, Sequences

CONSTANTS
  Owner,       \* the queues
  Byte,        \* what they hold
  Eol          \* the bytes that end a line

EolAreBytes == Eol \subseteq Byte

VARIABLES
  queue,       \* queue[o]: the bytes of o that have not been taken yet
  got          \* the bytes that the last operation took out

vars == <<queue, got>>

\* s without the ends of line it begins with.
Stripped(s) ==
  CHOOSE t \in {SubSeq(s, k + 1, Len(s)) : k \in 0..Len(s)} :
    /\ t # <<>> => Head(t) \notin Eol
    /\ \A k \in 1..(Len(s) - Len(t)) : s[k] \in Eol

Init ==
  /\ queue = [o \in Owner |-> <<>>]
  /\ got = <<>>

Put(o, bytes) ==
  /\ queue' = [queue EXCEPT ![o] = @ \o bytes]
  /\ got' = <<>>

\* Some bytes leave from the front; they are handed over, or thrown away.
Take(o) ==
  \E k \in 0..Len(queue[o]) :
    /\ queue' = [queue EXCEPT ![o] = SubSeq(@, k + 1, Len(@))]
    /\ got' \in {<<>>, SubSeq(queue[o], 1, k)}

\* A whole line leaves, with the ends of line around it.
Line(o) ==
  LET s == Stripped(queue[o]) IN
  \E k \in 1..Len(s) :
    /\ k > 1 /\ s[k] \in Eol /\ \A i \in 1..(k - 1) : s[i] \notin Eol
    /\ got' = SubSeq(s, 1, k - 1)
    /\ queue' = [queue EXCEPT ![o] = Stripped(SubSeq(s, k, Len(s)))]

\* There is no line yet: only the ends of line in front are dropped.
NoLine(o) ==
  /\ queue' = [queue EXCEPT ![o] = Stripped(@)]
  /\ got' = <<>>

Next ==
  \E o \in Owner :
    \/ \E n \in 1..Len(queue'[o]) :
         Put(o, SubSeq(queue'[o], Len(queue'[o]) - n + 1, Len(queue'[o])))
    \/ Take(o)
    \/ Line(o)
    \/ NoLine(o)

Spec == Init /\ [][Next]_vars
=============================================================================
