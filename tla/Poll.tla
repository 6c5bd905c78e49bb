-------------------------------- MODULE Poll --------------------------------
(***************************************************************************)
(* One read_message() of src/s_bsd.c: the array that is given to poll(2)    *)
(* holds the ident requests, then the listeners, then the connections, and  *)
(* the place of the first connection is what the loops before it left in i. *)
(***************************************************************************)
EXTENDS Integers, FiniteSets, FiniteSetsExt

CONSTANTS
  Fd,           \* descriptors of connections: a set of numbers
  Served,       \* those that the rounds for servers and busy clients look at
  Doors,        \* the number of listeners
  MaxRequests,  \* bound: ident requests under way at a time
  MaxAccept,    \* bound: connections that come in
  MaxFill       \* bound: how often a send queue is filled, or is not emptied

ASSUME PollSizes ==
  /\ Fd \subseteq Nat /\ IsFiniteSet(Fd) /\ Served \subseteq Fd
  /\ Doors \in Nat \ {0} /\ MaxRequests \in Nat

VARIABLES
  sock,       \* local[]: the connection on a descriptor
  ages,       \* per listener: CurrentTime - last_accept, at most 3
  requests,   \* the length of AuthPollList
  round,      \* who had an event in the last round and was not looked at, and
              \* how many requests and listeners were in the array
  spare       \* what is left of the two bounds

plVars == <<sock, ages, requests, round, spare>>

Full == 2     \* 4088 bytes or more in recvQ
None == [status |-> "none", queue |-> 0, out |-> FALSE, input |-> FALSE]

PollInit ==
  /\ sock = [fd \in Fd |-> None]
  /\ ages = [d \in 1..Doors |-> 3]
  /\ requests = 0
  /\ round = [missed |-> {}, before |-> 0]
  /\ spare = [accept |-> MaxAccept, fill |-> MaxFill]

Polled == {d \in 1..Doors : ages[d] > 2}

\* What i is when the loops over requests and listeners are done; entries count
\* from 1 here.  A loop ends early at the entry with the last event of all, a loop
\* without entries leaves i as it was, and the loop that filled the array left
\* highest_fd + 1, which is behind every entry.
LastIndex(n, ready, events) ==
  LET stop == IF events = {} /\ ready # {} THEN Max(ready) ELSE 0
      all == n + Cardinality(Polled)
  IN
  CASE Polled # {} -> IF stop > n THEN stop ELSE all
    [] Polled = {} /\ n > 0 -> IF stop > 0 THEN stop ELSE n
    [] OTHER -> Max(Fd) + 1

\* The turn of connection c: it can be written to, or is read, or its queue goes on.
\* o says whether it exits, or more is left than was taken.
Handled(c, w, r, o) ==
  IF c = None \/ o = "exits" THEN None
  ELSE IF w THEN [c EXCEPT !.status = "here", !.out = o = "more"]
  ELSE IF r THEN [c EXCEPT !.input = FALSE, !.queue = IF o = "more" THEN Min({@ + 1, Full}) ELSE 0]
  ELSE [c EXCEPT !.queue = Max({@ - 1, 0})]

\* Before the array is filled a connection whose queue is full is not read, and its
\* queue goes on; those in gone are ended by that.
Squished(mask) == {fd \in mask : sock[fd].queue = Full}
Squeezed(mask, gone) ==
  [fd \in Fd |-> IF fd \in gone THEN None
                 ELSE IF fd \in Squished(mask) THEN [sock[fd] EXCEPT !.queue = @ - 1]
                 ELSE sock[fd]]

\* What the array is filled with: entries ahead of the connections, those that are
\* read, and those that are polled for writing.  What is left of the record of one
\* that is gone decides whether it is (ghosts).
Ahead == requests + Cardinality(Polled)
Reads(mask) == {fd \in mask \ Squished(mask) : sock[fd] # None}
Writes(mask, gone, ghosts) ==
  LET at == Squeezed(mask, gone) IN
  {fd \in mask : at[fd].out \/ at[fd].status = "connecting"} \cup ghosts

Events(mask, writable) == {fd \in Reads(mask) : sock[fd].input} \cup writable

\* The connections that the last loop comes to when it begins at start.
Visited(clients, start) == {fd \in clients : Cardinality({g \in clients : g <= fd}) >= start}
Faulty_Start(ready, events) == Max({1, LastIndex(requests, ready, events) + 2 - Ahead})  \* faulty
Start(ready, events) == Max({1, LastIndex(requests, ready, events) + 1 - Ahead})

\* The loops of read_message when poll(2) says that the entries in ready have an
\* event and those in writable can be written to.
Round(mask, gone, ghosts, ready, writable, o) ==
  LET at == Squeezed(mask, gone)
      events == Events(mask, writable)
      visited == Visited(Reads(mask) \cup Writes(mask, gone, ghosts), Start(ready, events))
      accepting == {k \in ready : k > requests}
      filled == {fd \in visited \cap writable : at[fd] # None /\ o[fd] = "more"}
  IN
  /\ Cardinality(accepting) <= spare.accept /\ Cardinality(filled) <= spare.fill
  /\ sock' = [fd \in Fd |-> IF fd \in visited
                            THEN Handled(at[fd], fd \in writable, sock[fd].input, o[fd])
                            ELSE at[fd]]
  /\ ages' = [d \in 1..Doors |-> IF d \in Polled /\ requests + Cardinality({e \in Polled : e <= d}) \in ready THEN 0 ELSE ages[d]]
  /\ requests' \in {k \in 0..MaxRequests : /\ k >= requests - Cardinality(ready \ accepting)
                                           /\ k <= requests + Cardinality(accepting)}
  /\ round' = [missed |-> {fd \in events \ visited : at[fd] # None}, before |-> Ahead]
  /\ spare' = [accept |-> spare.accept - Cardinality(accepting), fill |-> spare.fill - Cardinality(filled)]

\* read_message for the descriptors of mask.
read_message(mask) ==
  \E gone \in SUBSET Squished(mask) : \E ghosts \in SUBSET gone :
  \E ready \in SUBSET (1..Ahead), writable \in SUBSET Writes(mask, gone, ghosts) :
  \E o \in [mask -> {"exits", "done", "more"}] :
    Round(mask, gone, ghosts, ready, writable, o)

\* A request ends and its client is let in, or a link is begun: local[] has the
\* descriptor from now on.
Appears ==
  \E fd \in Fd, s \in {"connecting", "here"} :
    /\ sock[fd] = None
    /\ sock' = [sock EXCEPT ![fd].status = s]
    /\ UNCHANGED <<ages, requests, round, spare>>

PeerSends ==
  \E fd \in Fd :
    /\ sock[fd] # None
    /\ sock' = [sock EXCEPT ![fd].input = TRUE]
    /\ UNCHANGED <<ages, requests, round, spare>>

\* Something is put into the send queue of the connection.
Filled ==
  \E fd \in Fd :
    /\ sock[fd] # None /\ spare.fill > 0
    /\ sock' = [sock EXCEPT ![fd].out = TRUE]
    /\ spare' = [spare EXCEPT !.fill = @ - 1]
    /\ UNCHANGED <<ages, requests, round>>

Tick ==
  /\ \E d \in 1..Doors : ages[d] < 3
  /\ ages' = [d \in 1..Doors |-> Min({ages[d] + 1, 3})]
  /\ UNCHANGED <<sock, requests, round, spare>>

PollNext ==
  \/ read_message(Served) \/ read_message(Fd)
  \/ Appears \/ PeerSends \/ Filled \/ Tick

PollSpec == PollInit /\ [][PollNext]_plVars

\* In a round in which a request or a listener was polled, nobody with an event is
\* passed over, wherever the loops before ended; when none was, i points behind
\* every entry and all connections are passed over.
NoneMissed == round.missed # {} => round.before = 0

\* What a peer sent is read, or the peer leaves, once connections no longer come in
\* and its send queue is no longer filled.  Rounds for all descriptors and seconds
\* are fair.
HeardAtLast ==
  \A fd \in Fd : (sock[fd] # None /\ sock[fd].input) ~> (sock[fd] = None \/ ~sock[fd].input)
=============================================================================
