-------------------------------- MODULE MCIo --------------------------------
(***************************************************************************)
(* The modules of input and output, checked side by side: a behaviour is    *)
(* one of the module that part names, and the others keep their first state.*)
(* Those whose properties are proved (IoProofs) are extended, so that they  *)
(* are checked under their own names; the other modules are instances.      *)
(***************************************************************************)
EXTENDS Structures

CONSTANTS
  a, n, h, Hidden, Limit, Slack, MaxSay, MaxList, MaxMade,
  FirstByte, CLIENT_FLOOD, MAX_CLIENT, LongLine, READBUF_SIZE, BUFSIZE, Burst, Cost, MaxRead,
  Req, Ptr, Slot, MaxServers, UDPMAXRETRIES, MaxRestart, MaxSubmit

VARIABLES
  part,
  conn, table, told, steady, shrunk, said, asked, made,
  in, stream,
  ads, open, answer, submits, restarts

Listed == {a, n, h}

S == INSTANCE Sendq WITH Chan <- Listed, Table <- << <<a>>, <<h>> >>,
                         BucketOf <- [x \in Listed |-> IF x = h THEN 2 ELSE 1]
R == INSTANCE Recvq
A == INSTANCE Adns WITH told <- answer

MCInit ==
  /\ part \in {"dbuf", "sendq", "recvq", "flud", "adns", "heap", "poll"}
  /\ dbuf_init /\ S!SendqInit /\ R!RecvqInit /\ FludInit /\ A!AdnsInit /\ BlockHeapCreate /\ PollInit
  /\ part # "sendq" => ~conn.server
  /\ part # "flud" => juped = {}
  /\ part # "heap" => blocks[1].at = CHOOSE x \in Address : TRUE
  /\ part # "adns" => ads.nservers = 1

sVars == <<conn, table, told, steady, shrunk, said, asked, made>>
rVars == <<in, stream>>
aVars == <<ads, open, answer, submits, restarts>>

MCNext ==
  /\ UNCHANGED part
  /\ \/ part = "dbuf" /\ Next
        /\ UNCHANGED <<sVars, rVars, fludVars, aVars, heapVars, plVars>>
     \/ part = "sendq" /\ S!SendqNext
        /\ UNCHANGED <<vars, rVars, fludVars, aVars, heapVars, plVars>>
     \/ part = "recvq" /\ R!RecvqNext
        /\ UNCHANGED <<vars, sVars, fludVars, aVars, heapVars, plVars>>
     \/ part = "flud" /\ FludNext
        /\ UNCHANGED <<vars, sVars, rVars, aVars, heapVars, plVars>>
     \/ part = "adns" /\ A!AdnsNext
        /\ UNCHANGED <<vars, sVars, rVars, fludVars, heapVars, plVars>>
     \/ part = "heap" /\ HeapNext
        /\ UNCHANGED <<vars, sVars, rVars, fludVars, aVars, plVars>>
     \/ part = "poll" /\ PollNext
        /\ UNCHANGED <<vars, sVars, rVars, fludVars, aVars, heapVars>>

mcVars == <<part, vars, sVars, rVars, fludVars, aVars, heapVars, plVars>>

MCSpec ==
  /\ MCInit /\ [][MCNext]_mcVars
  /\ S!SendqFairness /\ R!RecvqFairness /\ A!AdnsFairness
  /\ WF_plVars(part = "poll" /\ read_message(Fd)) /\ WF_plVars(part = "poll" /\ Tick)

\* What the instances assume of their constants.
ASSUME Sizes ==
  S!SendqSizes /\ R!RecvqSizes /\ A!AdnsSizes /\ Queue!EolAreBytes

(* The properties of the instances.  Those of the modules that are extended *)
(* are checked under their own names.                                       *)

\* No queue is left half changed: a send queue and the LIST that waits for it
\* (SendqSound), the queues of queries and their children (QueuesAgree).  The lines
\* of a connection are handled whole and in order, however they were cut and
\* whoever reads them (LinesInOrder).
QueuesSound == S!SendqSound /\ A!QueuesAgree /\ R!LinesInOrder

\* An answer given over many turns is right: a LIST that was stopped names every
\* channel that stayed (ListComplete), and a name is believed only when all the
\* child queries confirm it (NameConfirmed).
AnswersRight == S!ListComplete /\ A!NameConfirmed

\* What was begun ends: a LIST (ListEnds), a line in the queue (LinesHandled), a
\* query to the name servers (QueriesEnd), what waits in a socket (HeardAtLast).
AnswersEnd == S!ListEnds /\ R!LinesHandled /\ A!QueriesEnd /\ HeardAtLast
=============================================================================
