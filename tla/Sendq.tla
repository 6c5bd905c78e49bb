-------------------------------- MODULE Sendq --------------------------------
(***************************************************************************)
(* The output of one local connection: send_message, send_queued and        *)
(* dead_link of src/send.c, and the LIST of src/m_list.c, which stops when  *)
(* the queue is full and goes on, out of send_queued, when it is empty.     *)
(* A message fills one buffer of the queue and counts for one kilobyte.     *)
(***************************************************************************)
EXTENDS Integers, FiniteSets, SequencesExt

CONSTANTS
  Chan, Hidden,      \* the channels, and those this client may not see
  Table,             \* the hash table of channels when the run starts
  BucketOf,          \* the bucket of the name of a channel
  Limit,             \* get_sendq: the most the class lets wait
  Slack,             \* what a client may gather before a write is tried
  MaxSay, MaxList, MaxMade   \* bounds: messages, LISTs and new channels

SendqSizes ==
  /\ Hidden \subseteq Chan /\ Table \in Seq(Seq(Chan))
  /\ Limit \in Nat /\ Slack \in Nat

VARIABLES
  conn,       \* the connection: its flags, its queue and the state of a LIST
  table,      \* table[i]: the channels of bucket i, in order
  told,       \* the channels whose line was queued for the LIST under way
  steady,     \* the channels that were there since that LIST began
  shrunk,     \* a channel went away since
  said, asked, made

sqVars == <<conn, table, told, steady, shrunk, said, asked, made>>

Closed == [server |-> FALSE, dead |-> FALSE, sendqex |-> FALSE, gone |-> FALSE, queue |-> <<>>,
           lastsq |-> 0, doing |-> FALSE, popped |-> FALSE, at |-> 1, at2 |-> 0,
           room |-> 0, error |-> FALSE, lines |-> {}]

SendqInit ==
  /\ conn \in {[Closed EXCEPT !.server = b] : b \in BOOLEAN}
  /\ table = Table
  /\ told = {} /\ steady = {} /\ shrunk = FALSE
  /\ said = 0 /\ asked = 0 /\ made = 0

Channels == UNION {ToSet(table[i]) : i \in DOMAIN table}

dead_link(c) == [c EXCEPT !.dead = TRUE, !.queue = <<>>]

RECURSIVE send_message(_, _), send_queued(_), Walk(_, _, _)

(* lines: what m_list has queued in the present call.                       *)
send_message(c, m) ==
  IF c.gone \/ c.dead THEN c
  ELSE IF Len(c.queue) > Limit
  THEN IF c.doing THEN [c EXCEPT !.popped = TRUE]
       ELSE dead_link([c EXCEPT !.sendqex = ~c.server])
  ELSE LET put == [c EXCEPT !.queue = Append(@, m), !.lines = @ \cup {m}] IN
       IF Len(put.queue) > put.lastsq + (IF c.server THEN 0 ELSE Slack)
       THEN send_queued(put) ELSE put

ListEnd(c) ==
  LET ended == send_message(c, "end") IN
  IF ended.popped THEN [ended EXCEPT !.at = -1] ELSE [ended EXCEPT !.doing = FALSE]

\* Faulty: a LIST that was stopped goes on behind the channel it stopped at.
WalkPast(c, i, j) ==
  IF i > Len(table) THEN ListEnd(c)
  ELSE IF j >= Len(table[i]) THEN Walk([c EXCEPT !.at2 = 0], i + 1, 0)
  ELSE IF table[i][j + 1] \in Hidden THEN Walk(c, i, j + 1)
  ELSE LET sent == send_message(c, table[i][j + 1]) IN
       IF sent.popped THEN [sent EXCEPT !.at = i, !.at2 = j + 1]
       ELSE Walk(sent, i, j + 1)

(* The walk through the buckets from place j of bucket i on.               *)
Walk(c, i, j) ==
  IF i > Len(table) THEN ListEnd(c)
  ELSE IF j >= Len(table[i]) THEN Walk([c EXCEPT !.at2 = 0], i + 1, 0)
  ELSE IF table[i][j + 1] \in Hidden THEN Walk(c, i, j + 1)
  ELSE LET sent == send_message(c, table[i][j + 1]) IN
       IF sent.popped THEN [sent EXCEPT !.at = i, !.at2 = j]
       ELSE Walk(sent, i, j + 1)

\* m_list of a client whose LIST was stopped.
GoOn(c) == IF c.at = -1 THEN ListEnd(c) ELSE Walk(c, c.at, c.at2)

\* m_list that begins a LIST of all channels.
StartList(c) ==
  Walk([send_message(c, "start") EXCEPT !.doing = TRUE, !.popped = FALSE], 1, 0)

(* The socket takes what there is room for; then it blocks or fails.       *)
send_queued(c) ==
  IF c.dead \/ c.queue = <<>> THEN c
  ELSE IF c.room = 0
  THEN IF c.error THEN dead_link(c) ELSE [c EXCEPT !.lastsq = Len(c.queue)]
  ELSE LET sent == [c EXCEPT !.room = @ - 1, !.queue = Tail(@), !.lastsq = Len(c.queue) - 1] IN
       send_queued(IF sent.popped /\ sent.queue = <<>>
                   THEN GoOn([sent EXCEPT !.popped = FALSE]) ELSE sent)

\* What the socket will do in this step: take room messages, and then block or
\* report an error.
Socket == {[conn EXCEPT !.room = n, !.error = e, !.lines = {}] :
             n \in 0..(Limit + 2), e \in BOOLEAN}
Settled(c) == [c EXCEPT !.room = 0, !.error = FALSE, !.lines = {}]

Became(c) ==
  /\ conn' = Settled(c)
  /\ told' = told \cup (c.lines \cap Chan)

\* Another client, or the server, has a message for this one.
Say ==
  /\ said < MaxSay /\ said' = said + 1 /\ ~conn.gone
  /\ \E s \in Socket : Became(send_message(s, "other"))
  /\ UNCHANGED <<table, steady, shrunk, asked, made>>

\* LIST without a channel, from a client that may use it now.
List ==
  /\ asked < MaxList /\ asked' = asked + 1
  /\ ~conn.gone /\ ~conn.dead /\ ~conn.server
  /\ \E s \in Socket :
       IF conn.doing
       THEN Became(GoOn(s)) /\ UNCHANGED <<steady, shrunk>>
       ELSE LET c == StartList(s) IN
            /\ conn' = Settled(c) /\ told' = c.lines \cap Chan
            /\ steady' = Channels \ Hidden /\ shrunk' = FALSE
  /\ UNCHANGED <<table, said, made>>

\* LIST #channel: while a LIST is stopped it only takes that one up again.
ListOne(ch) ==
  /\ asked < MaxList /\ asked' = asked + 1
  /\ ~conn.gone /\ ~conn.dead /\ ~conn.server
  /\ \E s \in Socket :
       IF conn.doing THEN Became(GoOn(s))
       ELSE LET begun == send_message(s, "start")
                line == IF ch \in Channels \ Hidden THEN send_message(begun, ch) ELSE begun IN
            Became(send_message(line, "end"))
  /\ UNCHANGED <<table, steady, shrunk, said, made>>

\* read_message: poll says that the socket of a queue can be written.
Writable ==
  /\ conn.queue # <<>> /\ ~conn.gone
  /\ \E s \in Socket :
       LET c == send_queued(s) IN
       /\ s.room > 0 \/ s.error
       /\ Became([c EXCEPT !.gone = c.dead])
  /\ UNCHANGED <<table, steady, shrunk, said, asked, made>>

\* flush_connections at the end of a turn: nobody looks at the result.
Flush ==
  /\ conn.queue # <<>> /\ ~conn.gone
  /\ \E s \in Socket : Became(send_queued(s))
  /\ UNCHANGED <<table, steady, shrunk, said, asked, made>>

\* check_pings closes what is dead.
Reap ==
  /\ conn.dead /\ ~conn.gone
  /\ conn' = [conn EXCEPT !.gone = TRUE]
  /\ UNCHANGED <<table, told, steady, shrunk, said, asked, made>>

\* add_to_channel_hash_table: a new channel goes to the head of its bucket.
Create(ch) ==
  /\ made < MaxMade /\ made' = made + 1 /\ ch \notin Channels
  /\ table' = [table EXCEPT ![BucketOf[ch]] = <<ch>> \o @]
  /\ UNCHANGED <<conn, told, steady, shrunk, said, asked>>

\* del_from_channel_hash_table: those behind it move up.
Destroy(ch) ==
  /\ ch \in Channels
  /\ table' = [table EXCEPT ![BucketOf[ch]] = SelectSeq(@, LAMBDA x : x # ch)]
  /\ steady' = steady \ {ch} /\ shrunk' = TRUE
  /\ UNCHANGED <<conn, told, said, asked, made>>

SendqNext ==
  \/ Say \/ List \/ Writable \/ Flush \/ Reap
  \/ \E ch \in Chan : ListOne(ch) \/ Create(ch) \/ Destroy(ch)

\* The peer goes on reading, and check_pings comes round.
SendqFairness == WF_sqVars(Writable) /\ WF_sqVars(Reap)

\* The queue outgrows the limit of the class by one message at most, a link
\* that is marked dead keeps nothing to send, and a LIST that was stopped has
\* something in the queue, for the write that empties it is what resumes it.
SendqSound ==
  /\ Len(conn.queue) <= Limit + 1
  /\ conn.dead => conn.queue = <<>>
  /\ conn.popped => conn.doing /\ (conn.dead \/ conn.queue # <<>>)

\* A LIST that ended named every channel that was there all the time and that
\* the client may see, however often it was stopped, if no channel went away
\* meanwhile: the places in the buckets that m_list remembers are still right.
ListComplete ==
  [][conn.doing /\ ~conn'.doing /\ ~conn'.dead /\ ~shrunk => steady \subseteq told']_sqVars

\* A LIST comes to its end however slow the client reads, or the link is closed.
ListEnds == conn.doing ~> (~conn.doing \/ conn.gone)
=============================================================================
