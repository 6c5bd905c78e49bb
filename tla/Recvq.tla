-------------------------------- MODULE Recvq --------------------------------
(***************************************************************************)
(* The input of one local connection: read_packet and parse_client_queued   *)
(* of src/s_bsd.c, dopacket and client_dopacket of src/packet.c and what    *)
(* parse() charges for a command.  A byte of a line says what the line does *)
(* when it is its first: register a person, register a server, quit, or     *)
(* anything else; "n" ends a line.                                          *)
(***************************************************************************)
EXTENDS Integers, FiniteSets, SequencesExt, FiniteSetsExt

CONSTANTS
  FirstByte,      \* what a line may begin with
  CLIENT_FLOOD,   \* what a person may have in the queue after a read
  MAX_CLIENT,     \* SBSD_MAX_CLIENT: above it a person is not read at all
  LongLine,       \* 510: a queue this long without a line is thrown away
  READBUF_SIZE,   \* the most that is read or handed to dopacket at once
  BUFSIZE,        \* the longest line: what is behind is cut off
  Burst, Cost,    \* 10 and 2: how far ahead of the clock since may be, and
                  \* what a command adds to it
  MaxRead         \* bound: the bytes the peer sends

RecvqSizes ==
  /\ FirstByte \subseteq {"x", "p", "s", "q"}
  /\ 0 < LongLine /\ LongLine <= CLIENT_FLOOD /\ CLIENT_FLOOD <= MAX_CLIENT

VARIABLES
  in,        \* the connection: status, queue, partial line, flags, debt
  stream     \* every byte read since it was accepted

rqVars == <<in, stream>>

(* debt: since - CurrentTime.  lines: the lines given to parse().          *)
RecvqInit ==
  /\ in = [status |-> "unknown", queue |-> <<>>, part |-> <<>>, nonl |-> FALSE,
           debt |-> 0, lines |-> <<>>, lost |-> FALSE, gone |-> FALSE]
  /\ stream = <<>>

LineEnd == {"n"}
Stripped(s) == SubSeq(s, 1 + Max({k \in 0..Len(s) : \A i \in 1..k : s[i] \in LineEnd}), Len(s))
Ends(s) == {i \in 1..Len(s) : s[i] \in LineEnd}

\* The line l goes through parse(): a registered server is not charged, and some
\* lines change what the connection is.
parse(c, l) ==
  [c EXCEPT
     !.lines = Append(@, l),
     !.debt = IF c.status = "server" THEN @ ELSE @ + Cost,
     !.status = IF c.status # "unknown" THEN @
                ELSE CASE l[1] = "p" -> "person" [] l[1] = "s" -> "server" [] OTHER -> @,
     !.gone = l[1] = "q"]

RECURSIVE dopacket(_, _), parse_client_queued(_)

(* Bytes of a server are put together to lines at once, whatever since is. *)
dopacket(c, bytes) ==
  IF bytes = <<>> \/ c.gone THEN c
  ELSE IF Head(bytes) \in LineEnd
  THEN dopacket(IF c.part = <<>> THEN c ELSE parse([c EXCEPT !.part = <<>>], c.part), Tail(bytes))
  ELSE dopacket(IF Len(c.part) < BUFSIZE THEN [c EXCEPT !.part = Append(@, Head(bytes))] ELSE c,
                Tail(bytes))

\* client_dopacket: one line of a client, as much of it as there is room for.
client_dopacket(c, l) ==
  LET kept == SubSeq(l, 1, Min({Len(l), BUFSIZE})) IN
  parse([c EXCEPT !.part = <<>>], kept)

\* Faulty: a partial line waits with its flag clear, and is taken for a long one.
DropPartial(c) ==
  IF c.gone \/ c.queue = <<>> \/ c.nonl \/ c.debt >= Burst THEN c
  ELSE IF c.status = "server"
  THEN dopacket([c EXCEPT !.queue = <<>>], c.queue)
  ELSE LET s == Stripped(c.queue) IN
       IF Ends(s) = {} THEN [c EXCEPT !.queue = <<>>]
       ELSE LET e == Min(Ends(s)) IN
            parse_client_queued(client_dopacket(
              [c EXCEPT !.queue = Stripped(SubSeq(s, e, Len(s)))], SubSeq(s, 1, e - 1)))

(* The lines in the queue, one after the other, as long as since allows.   *)
parse_client_queued(c) ==
  IF c.gone \/ c.queue = <<>> \/ c.nonl \/ c.debt >= Burst THEN c
  ELSE IF c.status = "server"
  THEN LET size == Min({READBUF_SIZE, Len(c.queue)}) IN
       dopacket([c EXCEPT !.queue = SubSeq(@, size + 1, Len(@))], SubSeq(c.queue, 1, size))
  ELSE LET s == Stripped(c.queue) IN
       IF Ends(s) = {}
       THEN IF Len(s) < LongLine THEN [c EXCEPT !.queue = s, !.nonl = TRUE]
            ELSE [c EXCEPT !.queue = <<>>, !.lost = TRUE]
       ELSE LET e == Min(Ends(s)) IN
            parse_client_queued(client_dopacket(
              [c EXCEPT !.queue = Stripped(SubSeq(s, e, Len(s)))], SubSeq(s, 1, e - 1)))

Exited(c) == [c EXCEPT !.gone = TRUE]

\* Faulty: what was read does not clear the flag that says there is no line.
KeepNonl(c) == [c EXCEPT !.debt = Max({@, 0})]

\* What any read does to the client, before the bytes are looked at.
Heard(c) == [c EXCEPT !.debt = Max({@, 0}), !.nonl = FALSE]

\* read_packet: the peer has sent some bytes.
read_packet(bytes) ==
  /\ ~in.gone
  /\ in.status = "person" => Len(in.queue) <= MAX_CLIENT
  /\ stream' = stream \o bytes
  /\ LET c == Heard(in) IN
     in' = IF c.status = "server" THEN dopacket(c, bytes)
           ELSE LET put == [c EXCEPT !.queue = @ \o bytes] IN
                IF put.status = "person" /\ Len(put.queue) > CLIENT_FLOOD
                THEN Exited(put)                               \* Excess Flood
                ELSE parse_client_queued(put)

\* The peer closed, or the connection is over the limit and is taken for closed.
Closes ==
  /\ ~in.gone
  /\ in' = Exited(in)
  /\ UNCHANGED stream

\* read_message without news from the peer: what is in the queue goes on.
Turn ==
  /\ ~in.gone /\ in.status \in {"unknown", "person"} /\ ~in.nonl
  /\ in' = parse_client_queued(in)
  /\ UNCHANGED stream

\* A second goes by; those with something to do are looked at in between.
Second ==
  /\ in.debt > 0 /\ ~in.gone
  /\ in' = [in EXCEPT !.debt = @ - 1]
  /\ UNCHANGED stream

RecvqNext ==
  \/ \E bytes \in SeqOf(FirstByte \cup LineEnd, READBUF_SIZE) \ {<<>>} :
       Len(stream) + Len(bytes) <= MaxRead /\ read_packet(bytes)
  \/ Closes \/ Turn \/ Second

RecvqFairness == WF_rqVars(Turn) /\ WF_rqVars(Second)

(* The lines of the stream s.                                              *)
RECURSIVE Lines(_)
Lines(s) ==
  LET t == Stripped(s) IN
  IF Ends(t) = {} THEN <<>>
  ELSE LET e == Min(Ends(t)) IN
       <<SubSeq(t, 1, Min({e - 1, BUFSIZE}))>> \o Lines(SubSeq(t, e, Len(t)))

\* The queue of a connection that became a server while since forbade to go on:
\* parse_client_queued is not called for it any more.
Stranded == in.status = "server" /\ in.queue # <<>>

\* Lines reach parse() once, whole and in the order in which they were sent, cut
\* where the peer's bytes were cut or not, and however a connection that becomes
\* a server changes from one way of reading to the other; a queue that was
\* stranded or thrown away for its length is the exception.
LinesInOrder ==
  ~in.lost /\ ~Stranded =>
    IF in.gone THEN IsPrefix(in.lines, Lines(stream))
    ELSE Lines(stream) = in.lines \o Lines(in.queue)

\* A whole line in the queue of a client is handled, or the client leaves: the
\* flag that says that there is none is never left behind.
LinesHandled ==
  (in.status # "server" /\ Ends(Stripped(in.queue)) # {})
     ~> (Ends(Stripped(in.queue)) = {} \/ in.gone \/ in.status = "server")
=============================================================================
