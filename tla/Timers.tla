-------------------------------- MODULE Timers --------------------------------
(***************************************************************************)
(* Connections under the clock: the requests of s_auth.c (DNS and ident)    *)
(* that a connection goes through first, check_pings (src/client.c), the   *)
(* hunt for banned clients that is part of it, and io_loop (src/ircd.c),    *)
(* which decides when both run.                                            *)
(*                                                                         *)
(* Times are kept relative to CurrentTime: idle is CurrentTime - lasttime   *)
(* and age is CurrentTime - firsttime, both 0 for a client that is not      *)
(* there (the timeout of a request is firsttime + CONNECTTIMEOUT), and      *)
(* untilPing is nextping - CurrentTime.                                    *)
(*                                                                         *)
(* Abstractions.  What a client says is not looked at: its input makes it   *)
(* register, leave or neither.  Ping[c] is what get_client_ping finds in    *)
(* the lines of c once it is registered.                                   *)
(***************************************************************************)
EXTENDS Integers, FiniteSets, FiniteSetsExt

CONSTANTS
  Clients,
  Peers,           \* clients that are servers
  Ping,            \* Ping[c]: ping frequency of the class of c
  LongestPing,     \* the longest of the classes
  Exempt,          \* clients that are excepted from D-lines
  CONNECTTIMEOUT, PINGFREQUENCY,   \* config.h
  UNKNOWN_TIME,    \* client.h
  MaxStep,         \* bound on the seconds that one turn of io_loop takes
  MaxAge,          \* bound on idle and age, which stay there
  MaxBans          \* bound on the number of KLINE and DLINE

ASSUME TimersAssumption ==
  /\ Peers \subseteq Clients /\ Exempt \subseteq Clients
  /\ LongestPing \in Nat /\ Ping \in [Clients -> 1 .. LongestPing]
  /\ CONNECTTIMEOUT \in Nat \ {0} /\ PINGFREQUENCY \in Nat \ {0}
  /\ UNKNOWN_TIME \in 0 .. CONNECTTIMEOUT 
  /\ MaxStep \in Nat \ {0} /\ MaxAge \in Nat /\ MaxBans \in Nat

VARIABLES
  status,      \* "free", "auth" (not in local[]), "unknown", "outgoing" (a
               \* server that we connect to), "registered"
  idle, age,   \* seconds since lasttime and since firsttime
  pingsent,    \* clients with FLAGS_PINGSENT
  dead,        \* clients with FLAGS_DEADSOCKET
  queued,      \* unregistered clients with input left in recvQ
  requests,    \* clients with an AuthRequest that is not freed
  AuthPollList, AuthIncompleteList,
  ident,       \* ident[c]: "no", "connecting" or "pending"
  dnsPending,  \* requests with AM_DNS_PENDING
  query,       \* clients of which adns has a query that it will call back
  untilPing,   \* seconds until nextping
  elapsed,     \* seconds that this turn of io_loop took until now
  rehashed,    \* "no", "kline" or "dline" (dline_in_progress)
  klined, dlined,   \* clients that match a line set since they are there
  bans         \* how many lines were set

authVars == <<requests, AuthPollList, AuthIncompleteList, ident, dnsPending, query>>
banVars == <<rehashed, klined, dlined, bans>>
vars == <<status, idle, age, pingsent, dead, queued, authVars, untilPing, elapsed,
          banVars>>

\* The clients in local[], and those of them that are past registration.
Local == {c \in Clients : status[c] \in {"unknown", "outgoing", "registered"}}
Registered == {c \in Clients : status[c] = "registered"}

PingOf(c) == IF c \in Registered THEN Ping[c] ELSE CONNECTTIMEOUT

-----------------------------------------------------------------------------
Init ==
  /\ status = [c \in Clients |-> "free"]
  /\ idle = [c \in Clients |-> 0] /\ age = [c \in Clients |-> 0]
  /\ pingsent = {} /\ dead = {} /\ queued = {}
  /\ requests = {} /\ AuthPollList = {} /\ AuthIncompleteList = {}
  /\ ident = [c \in Clients |-> "no"]
  /\ dnsPending = {} /\ query = {}
  /\ untilPing = 0 /\ elapsed = 0
  /\ rehashed = "kline" /\ klined = {} /\ dlined = {} /\ bans = 0

-----------------------------------------------------------------------------
(* The requests of s_auth.c.                                               *)

\* accept_connection and start_auth; asked: whether start_auth_query got as far
\* as a connection to the ident server.
Accept(c, asked) ==
  /\ status[c] = "free"
  /\ status' = [status EXCEPT ![c] = "auth"]
  /\ requests' = requests \cup {c}
  /\ query' = query \cup {c} /\ dnsPending' = dnsPending \cup {c}
  /\ IF asked
     THEN /\ AuthPollList' = AuthPollList \cup {c}
          /\ ident' = [ident EXCEPT ![c] = "connecting"]
          /\ UNCHANGED AuthIncompleteList
     ELSE /\ AuthIncompleteList' = AuthIncompleteList \cup {c}
          /\ UNCHANGED <<AuthPollList, ident>>
  /\ untilPing' = 0
  /\ UNCHANGED <<idle, age, pingsent, dead, queued, elapsed, banVars>>

\* release_auth_client and free_auth_request, for all of D.
Release(D) ==
  /\ status' = [c \in Clients |-> IF c \in D THEN "unknown" ELSE status[c]]
  /\ requests' = requests \ D

\* auth_dns_callback, with an answer or without.
DnsAnswer(c) ==
  /\ c \in query /\ c \in requests
  /\ query' = query \ {c}
  /\ dnsPending' = dnsPending \ {c}
  /\ IF ident[c] = "no"
     THEN /\ Release({c})
          /\ AuthIncompleteList' = AuthIncompleteList \ {c}
     ELSE UNCHANGED <<status, requests, AuthIncompleteList>>
  /\ UNCHANGED <<idle, age, pingsent, dead, queued, AuthPollList, ident, untilPing,
                 elapsed, banVars>>

\* send_auth_query, when the query goes out.
IdentSent(c) ==
  /\ c \in AuthPollList /\ ident[c] = "connecting"
  /\ ident' = [ident EXCEPT ![c] = "pending"]
  /\ UNCHANGED <<status, idle, age, pingsent, dead, queued, requests, AuthPollList,
                 AuthIncompleteList, dnsPending, query, untilPing, elapsed, banVars>>

\* read_auth_reply with any answer, or auth_error.
ForgetDns(c) ==                                               \* faulty
  Release({c}) /\ UNCHANGED AuthIncompleteList
WaitForDns(c) ==
  IF c \in dnsPending
  THEN /\ AuthIncompleteList' = AuthIncompleteList \cup {c}
       /\ UNCHANGED <<status, requests>>
  ELSE Release({c}) /\ UNCHANGED AuthIncompleteList
IdentDone(c) ==
  /\ c \in AuthPollList
  /\ ident' = [ident EXCEPT ![c] = "no"]
  /\ AuthPollList' = AuthPollList \ {c}
  /\ WaitForDns(c)
  /\ UNCHANGED <<idle, age, pingsent, dead, queued, dnsPending, query, untilPing,
                 elapsed, banVars>>

-----------------------------------------------------------------------------
(* What happens to a connection in local[].                                *)

\* connect_server, to an address that is known.
Connect(c) ==
  /\ c \in Peers /\ status[c] = "free"
  /\ status' = [status EXCEPT ![c] = "outgoing"]
  /\ untilPing' = 0
  /\ UNCHANGED <<idle, age, pingsent, dead, queued, authVars, elapsed, banVars>>

\* A registration is complete: server_estab looks at the pings at once.
Registers(c) ==
  /\ c \in Local \ Registered
  /\ status' = [status EXCEPT ![c] = "registered"]
  /\ age' = [age EXCEPT ![c] = 0]     \* of no interest from here on
  /\ queued' = queued \ {c}
  /\ untilPing' = IF c \in Peers THEN 0 ELSE untilPing

\* read_packet with data, that registers the client or not; more: whether it
\* leaves some of it in recvQ, as a client that sends too fast does.
Read(c, more) ==
  /\ c \in Local
  /\ idle' = [idle EXCEPT ![c] = 0]
  /\ pingsent' = pingsent \ {c}
  /\ \/ Registers(c)
     \/ /\ queued' = IF more /\ status[c] = "unknown" THEN queued \cup {c}
                     ELSE queued \ {c}
        /\ UNCHANGED <<status, age, untilPing>>
  /\ UNCHANGED <<dead, authVars, elapsed, banVars>>

\* parse_client_queued on what was left.
ReadQueued(c) ==
  /\ c \in queued
  /\ \/ Registers(c)
     \/ queued' = queued \ {c} /\ UNCHANGED <<status, age, untilPing>>
  /\ UNCHANGED <<idle, pingsent, dead, authVars, elapsed, banVars>>

\* The flags of a record are cleared when it is used again.
FlagsStay(c) == pingsent                                      \* faulty
FlagsOf(c) == pingsent \ {c}

\* exit_client, because of what the client or its connection did.
Leave(c) ==
  /\ c \in Local
  /\ status' = [status EXCEPT ![c] = "free"]
  /\ idle' = [idle EXCEPT ![c] = 0] /\ age' = [age EXCEPT ![c] = 0]
  /\ pingsent' = FlagsOf(c) /\ dead' = dead \ {c} /\ queued' = queued \ {c}
  /\ klined' = klined \ {c} /\ dlined' = dlined \ {c}
  /\ UNCHANGED <<authVars, untilPing, elapsed, rehashed, bans>>

\* dead_link.
DeadLink(c) ==
  /\ c \in Local \ dead
  /\ dead' = dead \cup {c} /\ queued' = queued \ {c}
  /\ UNCHANGED <<status, idle, age, pingsent, authVars, untilPing, elapsed, banVars>>

\* KLINE and DLINE, of lines that match the clients of S.
KLine(S) ==
  /\ Registered # {} /\ bans < MaxBans /\ S \subseteq Registered \ Peers
  /\ klined' = klined \cup S
  /\ rehashed' = "kline" /\ untilPing' = 0 /\ bans' = bans + 1
  /\ UNCHANGED <<status, idle, age, pingsent, dead, queued, authVars, elapsed, dlined>>
DLine(S) ==
  /\ Registered # {} /\ bans < MaxBans /\ S \subseteq Local
  /\ dlined' = dlined \cup S
  /\ rehashed' = "dline" /\ untilPing' = 0 /\ bans' = bans + 1
  /\ UNCHANGED <<status, idle, age, pingsent, dead, queued, authVars, elapsed, klined>>

-----------------------------------------------------------------------------
(* check_pings and timeout_auth_queries.                                   *)

\* The hunt after KLINE or DLINE goes for the last of the two commands.
Swept(c) == \/ rehashed = "dline" /\ c \in dlined \ Exempt
            \/ rehashed = "kline" /\ c \in klined
Skipped(c) == rehashed = "dline" /\ c \in dlined \cap Exempt
Looked == {c \in Local \ dead : ~Swept(c) /\ ~Skipped(c)}

TimedOut(c) ==
  c \in pingsent /\ idle[c] > PingOf(c) /\ idle[c] >= 2 * PingOf(c)
ToPing == {c \in Looked : c \notin pingsent /\ idle[c] > PingOf(c)}

IdleTooLong(c) == status[c] = "unknown" /\ idle[c] > UNKNOWN_TIME   \* faulty
UnknownTooLong(c) == status[c] = "unknown" /\ age[c] > UNKNOWN_TIME

NotDead == {c \in Looked : TimedOut(c) \/ UnknownTooLong(c)}  \* faulty
Dying == {c \in Local : \/ c \in dead
                        \/ Swept(c)
                        \/ c \in Looked /\ (TimedOut(c) \/ UnknownTooLong(c))}

\* lasttime is set back, so that the client has PingOf(c) seconds to answer.
StillIdle == idle                                             \* faulty
IdleAfter == [c \in Clients |-> IF c \in ToPing THEN PingOf(c) ELSE idle[c]]

\* The first of the times at which some client is due.
Deadlines == {PingOf(c) - (IdleAfter[c] % PingOf(c)) :
                c \in {x \in Looked : ~TimedOut(x)}}
NextPing == IF Deadlines = {} THEN PINGFREQUENCY ELSE Min(Deadlines)

LateIdents == {c \in AuthPollList : age[c] > CONNECTTIMEOUT}  \* faulty
Expired == {c \in requests : age[c] > CONNECTTIMEOUT}
Cancel == query \ Expired

CheckPings ==
  /\ untilPing <= 0
  /\ status' = [c \in Clients |-> IF c \in Dying THEN "free"
                                  ELSE IF c \in Expired THEN "unknown" ELSE status[c]]
  /\ idle' = [c \in Clients |-> IF c \in Dying THEN 0 ELSE IdleAfter[c]]
  /\ pingsent' = (pingsent \cup ToPing) \ Dying
  /\ dead' = dead \ Dying /\ queued' = queued \ Dying
  /\ klined' = klined \ Dying /\ dlined' = dlined \ Dying
  /\ untilPing' = NextPing
  /\ rehashed' = "no"
  /\ requests' = requests \ Expired
  /\ AuthPollList' = AuthPollList \ Expired
  /\ AuthIncompleteList' = AuthIncompleteList \ Expired
  /\ ident' = [c \in Clients |-> IF c \in Expired THEN "no" ELSE ident[c]]
  /\ dnsPending' = dnsPending \ Expired
  /\ query' = Cancel
  /\ age' = [c \in Clients |-> IF c \in Dying THEN 0 ELSE age[c]]
  /\ UNCHANGED bans

\* The end of a turn of io_loop.
TurnEnds ==
  /\ elapsed' = 0
  /\ \/ CheckPings
     \/ untilPing > 0
        /\ UNCHANGED <<status, idle, age, pingsent, dead, queued, authVars, untilPing,
                       banVars>>

\* CurrentTime moves on by d: read_message looks at the clock in each of the calls
\* that a turn makes.
Older(t, d) == IF t + d < MaxAge THEN t + d ELSE MaxAge
Pass(d) ==
  /\ elapsed + d <= MaxStep
  /\ elapsed' = elapsed + d
  /\ idle' = [c \in Clients |-> IF status[c] = "free" THEN 0 ELSE Older(idle[c], d)]
  /\ age' = [c \in Clients |-> IF status[c] \in {"auth", "unknown"} THEN Older(age[c], d)
                               ELSE age[c]]
  /\ untilPing' = untilPing - d
  /\ UNCHANGED <<status, pingsent, dead, queued, authVars, banVars>>
TimePasses == \E d \in 1 .. MaxStep : Pass(d)

-----------------------------------------------------------------------------
Next ==
  \/ \E c \in Clients :
       \/ \E asked \in BOOLEAN : Accept(c, asked)
       \/ DnsAnswer(c) \/ IdentSent(c) \/ IdentDone(c)
       \/ Connect(c)
       \/ \E more \in BOOLEAN : Read(c, more)
       \/ ReadQueued(c) \/ Leave(c) \/ DeadLink(c)
  \/ \E S \in SUBSET Clients : KLine(S) \/ DLine(S)
  \/ TurnEnds \/ TimePasses

\* The server loops and the clock goes on for ever; nobody else need do anything.
Fairness == WF_vars(TurnEnds) /\ WF_vars(TimePasses)

Spec == Init /\ [][Next]_vars /\ Fairness

-----------------------------------------------------------------------------
(* Properties.                                                             *)

TypeOK ==
  /\ status \in [Clients -> {"free", "auth", "unknown", "outgoing", "registered"}]
  /\ idle \in [Clients -> Nat] /\ age \in [Clients -> Nat]
  /\ pingsent \subseteq Local /\ dead \subseteq Local
  /\ queued \subseteq {c \in Clients : status[c] = "unknown"}
  /\ ident \in [Clients -> {"no", "connecting", "pending"}]
  /\ elapsed \in 0 .. MaxStep /\ untilPing \in Int /\ untilPing >= -elapsed
  /\ rehashed \in {"no", "kline", "dline"}
  /\ klined \subseteq Registered /\ dlined \subseteq Local
  /\ bans \in 0 .. MaxBans

\* Whoever answers first, a request is on the list that its flags say, it is
\* there exactly as long as its client is kept back, and adns never calls back
\* for a request that was freed.
RequestsAgree ==
  /\ requests = {c \in Clients : status[c] = "auth"}
  /\ AuthPollList = {c \in Clients : ident[c] # "no"} /\ AuthPollList \subseteq requests
  /\ AuthIncompleteList = requests \ AuthPollList
  /\ AuthIncompleteList \subseteq dnsPending
  /\ query = dnsPending /\ dnsPending \subseteq requests

\* The longest time between two calls of check_pings.
Longest == Max({CONNECTTIMEOUT, PINGFREQUENCY, LongestPing})

\* The longest that one turn may find check_pings overdue.
Late == MaxStep - 1

\* No connection waits for DNS and ident for ever. The timeout of a request is
\* looked at when the next ping is due, so it is not CONNECTTIMEOUT that bounds it.
AuthLimit == CONNECTTIMEOUT + Longest + Late
AuthEnds == \A c \in requests : age[c] <= AuthLimit

\* A connection that does not register is dropped, also one that goes on talking.
\* (Each DLINE puts off what an excepted client is due for.)
UnknownEnds ==
  \A c \in Clients \ Exempt :
    status[c] = "unknown" => age[c] <= AuthLimit + Longest + Late

\* Every connection registers or goes, and a link that is marked dead is closed.
Settles ==
  \A c \in Clients :
    /\ (status[c] \in {"auth", "unknown"}) ~> (status[c] \in {"registered", "free"})
    /\ []<>(c \notin dead)

\* "we still want the server to hunt for 'targetted' clients"
\* (src/m_kline.c:1334): a client that matched a DLINE is gone after the next
\* check_pings.
HuntDue == dlined \subseteq Exempt \/ untilPing <= 0
=============================================================================
