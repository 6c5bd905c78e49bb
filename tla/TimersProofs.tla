----------------------------- MODULE TimersProofs -----------------------------
(***************************************************************************)
(* Every request is on the list that its flags say, nobody waits for DNS    *)
(* and ident, or stays unregistered, beyond a bound, and the silent are     *)
(* dropped in time and not before: for all clients, ping frequencies,       *)
(* timeouts and lengths of a turn.                                         *)
(***************************************************************************)
EXTENDS MCTimers, TLAPS, WellFoundedInduction

-----------------------------------------------------------------------------
(* The time of the next check_pings.                                       *)

LEMMA LongestType ==
  /\ Longest \in Nat \ {0}
  /\ CONNECTTIMEOUT <= Longest /\ PINGFREQUENCY <= Longest /\ LongestPing <= Longest
<1> DEFINE S == {CONNECTTIMEOUT, PINGFREQUENCY, LongestPing}
<1>1. /\ CONNECTTIMEOUT \in Nat \ {0} /\ PINGFREQUENCY \in Nat \ {0}
      /\ LongestPing \in Nat
  BY TimersAssumption
<1>2. \E x \in S : \A y \in S : x >= y
  <2>1. CASE CONNECTTIMEOUT >= PINGFREQUENCY /\ CONNECTTIMEOUT >= LongestPing
    BY <1>1, <2>1
  <2>2. CASE PINGFREQUENCY >= CONNECTTIMEOUT /\ PINGFREQUENCY >= LongestPing
    BY <1>1, <2>2
  <2>3. CASE LongestPing >= CONNECTTIMEOUT /\ LongestPing >= PINGFREQUENCY
    BY <1>1, <2>3
  <2> QED BY <1>1, <2>1, <2>2, <2>3
<1>3. Longest \in S /\ \A y \in S : Longest >= y
  BY <1>2 DEF Longest, Max
<1> QED BY <1>1, <1>3

\* A nonempty set of numbers has a least one.
LEMMA MinExists ==
  ASSUME NEW S \in SUBSET Nat, S # {}
  PROVE  Min(S) \in S /\ \A b \in S : Min(S) <= b
<1>1. PICK a \in S : \A b \in S : ~(<<b, a>> \in OpToRel(<, Nat))
  BY WFMin, NatLessThanWellFounded, Zenon
<1>2. \A b \in S : ~(b < a)
  BY <1>1, Zenon DEF OpToRel
<1>3. \A b \in S : a <= b
  BY <1>2
<1> QED BY <1>3 DEF Min

LEMMA PingOfType ==
  ASSUME NEW c \in Clients PROVE PingOf(c) \in 1 .. Longest
  BY TimersAssumption, LongestType DEF PingOf

LEMMA NextPingType == TypeOK => NextPing \in 1 .. Longest
<1> SUFFICES ASSUME TypeOK PROVE NextPing \in 1 .. Longest
  OBVIOUS
<1>1. \A c \in Clients : IdleAfter[c] \in Nat
  <2> TAKE c \in Clients
  <2> QED BY PingOfType, LongestType DEF IdleAfter, TypeOK
<1>2. Deadlines \subseteq 1 .. Longest
  <2> SUFFICES ASSUME NEW c \in Clients
               PROVE  PingOf(c) - (IdleAfter[c] % PingOf(c)) \in 1 .. Longest
    BY DEF Deadlines, Looked, Local
  <2>1. IdleAfter[c] % PingOf(c) \in 0 .. PingOf(c) - 1
    BY <1>1, PingOfType, LongestType
  <2> QED BY <2>1, PingOfType, LongestType
<1>3. CASE Deadlines = {}
  BY <1>3, LongestType, TimersAssumption DEF NextPing
<1>4. CASE Deadlines # {}
  <2>1. Deadlines \in SUBSET Nat
    BY <1>2, LongestType
  <2>2. NextPing = Min(Deadlines)
    BY <1>4 DEF NextPing
  <2>3. NextPing \in Deadlines
    BY <1>4, <2>1, <2>2, MinExists
  <2> QED BY <1>2, <2>3
<1> QED BY <1>3, <1>4

LEMMA OlderType ==
  ASSUME NEW t \in Nat, NEW d \in Nat
  PROVE  Older(t, d) \in Nat /\ Older(t, d) <= t + d
  BY TimersAssumption DEF Older

-----------------------------------------------------------------------------
(* The invariant.                                                          *)

\* What is left of a bound is never less than what is left until check_pings; once
\* that is overdue, the seconds of this turn are all that can be added.
Within(t, limit) ==
  /\ t < limit + Longest + elapsed
  /\ untilPing > 0 => t + untilPing <= limit + Longest

OnTime ==
  /\ untilPing <= Longest
  /\ \A c \in Clients : status[c] = "free" => age[c] = 0
  /\ \A c \in requests : Within(age[c], CONNECTTIMEOUT)
  /\ \A c \in Clients \ Exempt : status[c] = "unknown" => Within(age[c], AuthLimit)

\* Types need the requests (a client that is let in must not be in local[] yet), and
\* the bound for the unregistered needs the one for requests.
IInv == TypeOK /\ RequestsAgree /\ OnTime

LEMMA Limits ==
  /\ CONNECTTIMEOUT \in Nat \ {0} /\ UNKNOWN_TIME \in 0 .. CONNECTTIMEOUT
  /\ MaxStep \in Nat \ {0} /\ Longest \in Nat \ {0}
  /\ AuthLimit = CONNECTTIMEOUT + Longest + MaxStep - 1
  BY TimersAssumption, LongestType DEF AuthLimit, Late

\* A client that is let in now has the bound of a request behind it.
LEMMA LetIn ==
  ASSUME IInv, NEW c \in requests
  PROVE  age[c] \in Nat /\ Within(age[c], AuthLimit)
<1>1. age[c] \in Nat /\ elapsed \in 0 .. MaxStep /\ untilPing \in Int
  BY DEF IInv, TypeOK, RequestsAgree
<1>2. age[c] < CONNECTTIMEOUT + Longest + elapsed /\ untilPing <= Longest
  BY DEF IInv, OnTime, Within
<1> QED BY <1>1, <1>2, Limits DEF Within

LEMMA AgeOfRequest ==
  ASSUME IInv, NEW c \in requests PROVE age[c] <= AuthLimit
<1>1. age[c] \in Nat /\ elapsed \in 0 .. MaxStep
  BY DEF IInv, TypeOK, RequestsAgree
<1>2. age[c] < CONNECTTIMEOUT + Longest + elapsed
  BY DEF IInv, OnTime, Within
<1> QED BY <1>1, <1>2, Limits

LEMMA InitIInv == Init => IInv
<1> SUFFICES ASSUME Init PROVE IInv
  OBVIOUS
<1>1. TypeOK
  BY Limits, TimersAssumption DEF Init, TypeOK, Local, Registered
<1>2. RequestsAgree
  BY DEF Init, RequestsAgree
<1>3. OnTime
  BY LongestType DEF Init, OnTime
<1> QED BY <1>1, <1>2, <1>3 DEF IInv

-----------------------------------------------------------------------------
(* One lemma for each action.                                              *)

LEMMA AcceptKeeps ==
  ASSUME IInv, NEW c \in Clients, NEW asked \in BOOLEAN, Accept(c, asked)
  PROVE  IInv'
<1> USE DEF IInv
<1>1. TypeOK'
  BY DEF TypeOK, Accept, banVars, Local, Registered
<1>2. RequestsAgree'
  BY DEF TypeOK, RequestsAgree, Accept
<1>3. OnTime'
  BY Limits DEF TypeOK, OnTime, Within, Accept
<1> QED BY <1>1, <1>2, <1>3

LEMMA DnsAnswerKeeps ==
  ASSUME IInv, NEW c \in Clients, DnsAnswer(c)
  PROVE  IInv'
<1> USE DEF IInv
<1>1. TypeOK'
  BY DEF TypeOK, RequestsAgree, DnsAnswer, Release, banVars, Local, Registered
<1>2. RequestsAgree'
  BY DEF TypeOK, RequestsAgree, DnsAnswer, Release
<1>3. OnTime'
  BY LetIn DEF TypeOK, OnTime, Within, DnsAnswer, Release
<1> QED BY <1>1, <1>2, <1>3

LEMMA IdentSentKeeps ==
  ASSUME IInv, NEW c \in Clients, IdentSent(c)
  PROVE  IInv'
<1> USE DEF IInv
<1>1. TypeOK'
  BY DEF TypeOK, IdentSent, banVars, Local, Registered
<1>2. RequestsAgree'
  BY DEF TypeOK, RequestsAgree, IdentSent
<1>3. OnTime'
  BY DEF OnTime, Within, IdentSent
<1> QED BY <1>1, <1>2, <1>3

LEMMA IdentDoneKeeps ==
  ASSUME IInv, NEW c \in Clients, IdentDone(c)
  PROVE  IInv'
<1> USE DEF IInv
<1>1. c \in requests
  BY DEF RequestsAgree, IdentDone
<1>2. TypeOK'
  BY DEF TypeOK, RequestsAgree, IdentDone, WaitForDns, Release, banVars, Local, Registered
<1>3. RequestsAgree'
  BY DEF TypeOK, RequestsAgree, IdentDone, WaitForDns, Release
<1>4. OnTime'
  BY <1>1, LetIn DEF TypeOK, OnTime, Within, IdentDone, WaitForDns, Release
<1> QED BY <1>2, <1>3, <1>4

LEMMA ConnectKeeps ==
  ASSUME IInv, NEW c \in Clients, Connect(c)
  PROVE  IInv'
<1> USE DEF IInv
<1>1. TypeOK'
  BY DEF TypeOK, Connect, banVars, authVars, Local, Registered
<1>2. RequestsAgree'
  BY DEF TypeOK, RequestsAgree, Connect, authVars
<1>3. OnTime'
  BY Limits DEF TypeOK, OnTime, Within, Connect, authVars
<1> QED BY <1>1, <1>2, <1>3

\* Registering is the same on new input and on input that was left in recvQ.
LEMMA RegistersKeeps ==
  ASSUME IInv, NEW c \in Clients, Registers(c), idle' \in [Clients -> Nat],
         pingsent' \subseteq pingsent, UNCHANGED <<dead, authVars, elapsed, banVars>>
  PROVE  IInv'
<1> USE DEF IInv
<1>1. TypeOK'
  <2>1. /\ status' \in [Clients -> {"free", "auth", "unknown", "outgoing", "registered"}]
        /\ age' \in [Clients -> Nat] /\ untilPing' \in Int /\ untilPing' >= -elapsed
    BY Limits DEF TypeOK, Registers
  <2>2. /\ Local' = Local /\ Registered' = Registered \cup {c}
        /\ queued' \subseteq {x \in Clients : status'[x] = "unknown"}
    BY DEF TypeOK, Registers, Local, Registered
  <2> QED BY <2>1, <2>2 DEF TypeOK, banVars, authVars
<1>2. RequestsAgree'
  BY DEF TypeOK, RequestsAgree, Registers, authVars, Local
<1>3. OnTime'
  BY Limits DEF TypeOK, RequestsAgree, OnTime, Within, Registers, authVars, Local
<1> QED BY <1>1, <1>2, <1>3

LEMMA ReadKeeps ==
  ASSUME IInv, NEW c \in Clients, NEW more \in BOOLEAN, Read(c, more)
  PROVE  IInv'
<1>1. idle' \in [Clients -> Nat] /\ pingsent' \subseteq pingsent
  BY DEF IInv, TypeOK, Read
<1>2. CASE Registers(c)
  BY <1>1, <1>2, RegistersKeeps DEF Read
<1>3. CASE ~Registers(c)
  <2> USE DEF IInv
  <2>1. UNCHANGED <<status, age, untilPing, dead, authVars, elapsed, banVars>>
    BY <1>3 DEF Read
  <2>2. queued' \subseteq {x \in Clients : status[x] = "unknown"}
    BY <1>3 DEF Read, TypeOK
  <2>3. TypeOK'
    BY <1>1, <2>1, <2>2 DEF TypeOK, banVars, authVars, Local, Registered
  <2>4. RequestsAgree' /\ OnTime'
    BY <2>1 DEF RequestsAgree, OnTime, Within, authVars
  <2> QED BY <2>3, <2>4
<1> QED BY <1>2, <1>3

LEMMA ReadQueuedKeeps ==
  ASSUME IInv, NEW c \in Clients, ReadQueued(c)
  PROVE  IInv'
<1>1. idle' \in [Clients -> Nat] /\ pingsent' \subseteq pingsent
  BY DEF IInv, TypeOK, ReadQueued
<1>2. CASE Registers(c)
  BY <1>1, <1>2, RegistersKeeps DEF ReadQueued
<1>3. CASE ~Registers(c)
  <2> USE DEF IInv
  <2>1. /\ UNCHANGED <<status, age, untilPing, dead, authVars, elapsed, banVars>>
        /\ queued' \subseteq queued
    BY <1>3 DEF ReadQueued
  <2>2. TypeOK'
    BY <1>1, <2>1 DEF TypeOK, banVars, authVars, Local, Registered
  <2>3. RequestsAgree' /\ OnTime'
    BY <2>1 DEF RequestsAgree, OnTime, Within, authVars
  <2> QED BY <2>2, <2>3
<1> QED BY <1>2, <1>3

LEMMA LeaveKeeps ==
  ASSUME IInv, NEW c \in Clients, Leave(c)
  PROVE  IInv'
<1> USE DEF IInv
<1>1. TypeOK'
  BY DEF TypeOK, Leave, FlagsOf, authVars, Local, Registered
<1>2. RequestsAgree'
  BY DEF TypeOK, RequestsAgree, Leave, authVars, Local
<1>3. OnTime'
  BY DEF TypeOK, RequestsAgree, OnTime, Within, Leave, authVars, Local
<1> QED BY <1>1, <1>2, <1>3

LEMMA DeadLinkKeeps ==
  ASSUME IInv, NEW c \in Clients, DeadLink(c)
  PROVE  IInv'
<1> USE DEF IInv
<1>1. TypeOK'
  BY DEF TypeOK, DeadLink, authVars, banVars, Local, Registered
<1>2. RequestsAgree' /\ OnTime'
  BY DEF RequestsAgree, OnTime, Within, DeadLink, authVars
<1> QED BY <1>1, <1>2

LEMMA BansKeep ==
  ASSUME IInv, NEW S \in SUBSET Clients, KLine(S) \/ DLine(S)
  PROVE  IInv'
<1> USE DEF IInv
<1>1. TypeOK'
  BY TimersAssumption DEF TypeOK, KLine, DLine, authVars, Local, Registered
<1>2. RequestsAgree'
  BY DEF RequestsAgree, KLine, DLine, authVars
<1>3. OnTime'
  BY Limits DEF TypeOK, OnTime, Within, KLine, DLine, authVars
<1> QED BY <1>1, <1>2, <1>3

LEMMA CheckPingsKeeps ==
  ASSUME IInv, elapsed' = 0, CheckPings
  PROVE  IInv'
<1> USE DEF IInv
<1>1. /\ untilPing' \in 1 .. Longest
      /\ Expired \subseteq requests /\ Dying \subseteq Local
      /\ requests \cap Local = {}
  BY NextPingType DEF CheckPings, Expired, Dying, RequestsAgree, Local
<1>2. ToPing \subseteq Local /\ \A c \in Clients : IdleAfter[c] \in Nat
  BY PingOfType, LongestType DEF ToPing, Looked, IdleAfter, TypeOK
<1>3. TypeOK'
  BY <1>1, <1>2, Limits DEF TypeOK, RequestsAgree, CheckPings, Local, Registered
<1>4. RequestsAgree'
  BY <1>1 DEF TypeOK, RequestsAgree, CheckPings, Cancel, Local
<1>5. OnTime'
  <2>1. \A c \in Clients : status'[c] = "free" => age'[c] = 0
    BY DEF OnTime, CheckPings, TypeOK
  <2>2. \A c \in requests' : Within(age[c], CONNECTTIMEOUT)'
    BY <1>1, Limits DEF CheckPings, Expired, RequestsAgree, TypeOK, Within
  <2>3. \A c \in Clients \ Exempt : status'[c] = "unknown" => Within(age[c], AuthLimit)'
    <3> SUFFICES ASSUME NEW c \in Clients \ Exempt, status'[c] = "unknown"
                 PROVE  Within(age[c], AuthLimit)'
      OBVIOUS
    <3>1. age'[c] = age[c] /\ age[c] \in Nat /\ c \notin Dying
      BY DEF CheckPings, TypeOK
    <3>2. age[c] <= AuthLimit
      <4>1. CASE c \in Expired
        BY <1>1, <3>1, <4>1, LetIn, AgeOfRequest
      <4>2. CASE c \notin Expired
        <5>1. status[c] = "unknown" /\ c \in Local
          BY <3>1, <4>2 DEF CheckPings, TypeOK, Local
        <5>2. ~UnknownTooLong(c)
          BY <3>1, <5>1 DEF Dying, Looked, Skipped
        <5> QED BY <3>1, <5>1, <5>2, Limits DEF UnknownTooLong
      <4> QED BY <4>1, <4>2
    <3> QED BY <1>1, <3>1, <3>2, Limits DEF Within, CheckPings
  <2> QED BY <1>1, <2>1, <2>2, <2>3, LongestType DEF OnTime
<1> QED BY <1>3, <1>4, <1>5

LEMMA TurnEndsKeeps == IInv /\ TurnEnds => IInv'
<1> SUFFICES ASSUME IInv, TurnEnds PROVE IInv'
  OBVIOUS
<1>1. CASE CheckPings
  BY <1>1, CheckPingsKeeps DEF TurnEnds
<1>2. CASE ~CheckPings
  <2> USE DEF IInv
  <2>1. /\ elapsed' = 0 /\ untilPing > 0
        /\ UNCHANGED <<status, idle, age, pingsent, dead, queued, authVars, untilPing,
                       banVars>>
    BY <1>2 DEF TurnEnds
  <2>2. TypeOK'
    BY <2>1, Limits DEF TypeOK, authVars, banVars, Local, Registered
  <2>3. RequestsAgree'
    BY <2>1 DEF RequestsAgree, authVars
  <2>4. OnTime'
    BY <2>1, Limits DEF TypeOK, RequestsAgree, OnTime, Within, authVars
  <2> QED BY <2>2, <2>3, <2>4
<1> QED BY <1>1, <1>2

LEMMA TimePassesKeeps == IInv /\ TimePasses => IInv'
<1> SUFFICES ASSUME IInv, NEW d \in 1 .. MaxStep, Pass(d) PROVE IInv'
  BY DEF TimePasses
<1> USE DEF IInv
<1>1. /\ d \in Nat \ {0} /\ elapsed' = elapsed + d /\ untilPing' = untilPing - d
      /\ UNCHANGED <<status, pingsent, dead, queued, authVars, banVars>>
  BY Limits DEF Pass
<1>2. \A c \in Clients : /\ age'[c] \in Nat /\ age'[c] <= age[c] + d
                         /\ status[c] = "free" => age'[c] = age[c]
  <2> TAKE c \in Clients
  <2>1. age[c] \in Nat
    BY DEF TypeOK
  <2>2. age'[c] = IF status[c] \in {"auth", "unknown"} THEN Older(age[c], d) ELSE age[c]
    BY DEF Pass
  <2>3. Older(age[c], d) \in Nat /\ Older(age[c], d) <= age[c] + d
    BY <1>1, <2>1, OlderType
  <2> QED BY <1>1, <2>1, <2>2, <2>3
<1>3. TypeOK'
  <2>1. idle' \in [Clients -> Nat] /\ age' \in [Clients -> Nat]
    BY <1>1, OlderType DEF Pass, TypeOK
  <2>2. elapsed' \in 0 .. MaxStep /\ untilPing' \in Int /\ untilPing' >= -elapsed'
    BY <1>1, Limits DEF Pass, TypeOK
  <2> QED BY <1>1, <2>1, <2>2 DEF TypeOK, authVars, banVars, Local, Registered
<1>4. RequestsAgree'
  BY <1>1 DEF RequestsAgree, authVars
<1>5. OnTime'
  <2>1. ASSUME NEW c \in Clients, NEW limit \in Nat, Within(age[c], limit)
        PROVE  Within(age[c], limit)'
    BY <1>1, <1>2, <2>1, Limits DEF Within, TypeOK
  <2>2. untilPing' <= Longest
    BY <1>1, Limits DEF OnTime, TypeOK
  <2>3. \A c \in requests' : Within(age[c], CONNECTTIMEOUT)'
    BY <1>1, <2>1, Limits DEF OnTime, RequestsAgree, authVars
  <2>4. \A c \in Clients \ Exempt : status'[c] = "unknown" => Within(age[c], AuthLimit)'
    <3>1. AuthLimit \in Nat
      BY Limits
    <3> QED BY <1>1, <2>1, <3>1 DEF OnTime
  <2>5. \A c \in Clients : status'[c] = "free" => age'[c] = 0
    BY <1>1, <1>2 DEF OnTime
  <2> QED BY <2>2, <2>3, <2>4, <2>5 DEF OnTime
<1> QED BY <1>3, <1>4, <1>5

LEMMA NextKeeps == IInv /\ [Next]_vars => IInv'
<1> SUFFICES ASSUME IInv, [Next]_vars PROVE IInv'
  OBVIOUS
<1>1. ASSUME NEW c \in Clients, NEW b \in BOOLEAN, Accept(c, b) \/ Read(c, b)
      PROVE  IInv'
  BY <1>1, AcceptKeeps, ReadKeeps
<1>2. ASSUME NEW c \in Clients,
             \/ DnsAnswer(c) \/ IdentSent(c) \/ IdentDone(c) \/ Connect(c)
             \/ ReadQueued(c) \/ Leave(c) \/ DeadLink(c)
      PROVE  IInv'
  BY <1>2, DnsAnswerKeeps, IdentSentKeeps, IdentDoneKeeps, ConnectKeeps, ReadQueuedKeeps,
     LeaveKeeps, DeadLinkKeeps
<1>3. ASSUME NEW S \in SUBSET Clients, KLine(S) \/ DLine(S) PROVE IInv'
  BY <1>3, BansKeep
<1>4. CASE TurnEnds \/ TimePasses
  BY <1>4, TurnEndsKeeps, TimePassesKeeps
<1>5. CASE UNCHANGED vars
  BY <1>5 DEF vars, authVars, banVars, IInv, TypeOK, RequestsAgree, OnTime, Within, Local,
              Registered
<1> QED BY <1>1, <1>2, <1>3, <1>4, <1>5 DEF Next

-----------------------------------------------------------------------------
(* The theorems.                                                           *)

LEMMA Invariance == Spec => []IInv
  BY InitIInv, NextKeeps, PTL DEF Spec

\* Flags are only set in records that are in use, and a turn of io_loop never ends
\* with check_pings overdue.
THEOREM TypeCorrect == Spec => []TypeOK
<1>1. IInv => TypeOK
  BY DEF IInv
<1> QED BY <1>1, Invariance, PTL

\* Whatever comes first, the answer of DNS, that of ident, an error or the timeout, a
\* request ends once, and adns has no query of a request that was freed.
THEOREM RequestsCorrect == Spec => []RequestsAgree
<1>1. IInv => RequestsAgree
  BY DEF IInv
<1> QED BY <1>1, Invariance, PTL

\* Nobody waits for DNS and ident longer than CONNECTTIMEOUT, the longest ping
\* frequency and a turn of io_loop together.
THEOREM AuthCorrect == Spec => []AuthEnds
<1>1. IInv => AuthEnds
  BY AgeOfRequest DEF AuthEnds
<1> QED BY <1>1, Invariance, PTL

\* Nobody stays unregistered longer than that and another round of check_pings.
THEOREM UnknownCorrect == Spec => []UnknownEnds
<1>1. IInv => UnknownEnds
  <2> SUFFICES ASSUME IInv, NEW c \in Clients \ Exempt, status[c] = "unknown"
               PROVE  age[c] <= AuthLimit + Longest + Late
    BY DEF UnknownEnds
  <2>1. age[c] < AuthLimit + Longest + elapsed
    BY DEF IInv, OnTime, Within
  <2>2. age[c] \in Nat /\ elapsed \in 0 .. MaxStep
    BY DEF IInv, TypeOK
  <2> QED BY <2>1, <2>2, Limits DEF Late
<1> QED BY <1>1, Invariance, PTL

-----------------------------------------------------------------------------
(* The silent are dropped in time and not before their time.               *)

\* The longest that a client goes without being asked.
Quiet(c) == Max({Longest, 2 * Ping[c]})

\* t reaches b no later than the next check_pings, but for the seconds of this turn.
Due(t, b) ==
  /\ t < b + elapsed
  /\ untilPing > 0 => t + untilPing <= b

\* idle tells how long a client has been silent until it is sent a PING, and how long
\* it has had to answer then; nobody unregistered waits for an answer.
SilenceOf(c) ==
  /\ idle[c] <= MaxAge
  /\ status[c] = "free" => idle[c] = 0 /\ silent[c] = 0
  /\ status[c] \in {"auth", "unknown"} => idle[c] <= age[c]
  /\ status[c] = "unknown" => c \notin pingsent
  /\ c \notin pingsent => silent[c] = idle[c] /\ waited[c] = 0
  /\ c \in pingsent => idle[c] > 0
  /\ c \in Registered \cap pingsent => idle[c] <= Ping[c] + waited[c]

\* The next check_pings comes before the silence of a client is too long to be asked,
\* and then before twice its frequency; who may register with old input counts, too.
PunctualOf(c) ==
  /\ c \in queued => Due(idle[c], Longest)
  /\ c \in Registered \ pingsent => Due(idle[c], Quiet(c))
  /\ c \in Registered \cap pingsent =>
       /\ Due(idle[c], 2 * Ping[c])
       /\ silent[c] + Ping[c] <= Quiet(c) + Late + idle[c]

HeardOf(c) == SilenceOf(c) /\ (c \notin Exempt => PunctualOf(c))

HistoryOK == silent \in [Clients -> Nat] /\ waited \in [Clients -> Nat]

MCInv == HistoryOK /\ \A c \in Clients : HeardOf(c)

LEMMA QuietType ==
  ASSUME NEW c \in Clients
  PROVE  /\ Ping[c] \in Nat \ {0} /\ Ping[c] <= Longest
         /\ Quiet(c) \in Nat /\ Longest <= Quiet(c) /\ 2 * Ping[c] <= Quiet(c)
<1> DEFINE S == {Longest, 2 * Ping[c]}
<1>1. Ping[c] \in Nat \ {0} /\ Ping[c] <= Longest /\ Longest \in Nat
  BY LongestType, TimersAssumption
<1>2. \E x \in S : \A y \in S : x >= y
  <2>1. CASE Longest >= 2 * Ping[c]
    BY <1>1, <2>1
  <2>2. CASE 2 * Ping[c] >= Longest
    BY <1>1, <2>2
  <2> QED BY <1>1, <2>1, <2>2
<1>3. Quiet(c) \in S /\ \A y \in S : Quiet(c) >= y
  BY <1>2 DEF Quiet, Max
<1> QED BY <1>1, <1>3

\* Where a client is in its round.
LEMMA RoundOf ==
  ASSUME NEW t \in Nat, NEW p \in Nat \ {0}, t < 2 * p
  PROVE  /\ t < p => t + (p - (t % p)) = p
         /\ t >= p => t + (p - (t % p)) = 2 * p
<1>1. t < p => t % p = t
  BY SMTT(20)
<1>2. t >= p => t % p = t - p
  BY SMTT(20)
<1> QED BY <1>1, <1>2

\* Only a step of the clock makes anybody older.
LEMMA NoTime ==
  ASSUME IInv, elapsed' <= elapsed
  PROVE  ~TimePasses
<1> SUFFICES ASSUME NEW d \in 1 .. MaxStep, Pass(d) PROVE FALSE
  BY DEF TimePasses
<1> QED BY Limits DEF Pass, IInv, TypeOK

LEMMA HistoryOf ==
  ASSUME MCNext, ~TimePasses, NEW c \in Clients
  PROVE  /\ silent'[c] = IF status'[c] = "free" \/ status[c] = "free" \/
                            (idle'[c] = 0 /\ idle[c] > 0) THEN 0 ELSE silent[c]
         /\ waited'[c] = IF c \notin pingsent' THEN 0 ELSE waited[c]
  BY DEF MCNext

LEMMA HistoryTyped == IInv /\ HistoryOK /\ MCNext => HistoryOK'
<1> SUFFICES ASSUME IInv, HistoryOK, MCNext PROVE HistoryOK'
  OBVIOUS
<1>1. CASE ~TimePasses
  BY <1>1 DEF HistoryOK, MCNext
<1>2. CASE TimePasses
  <2>1. PICK d \in 1 .. MaxStep : Pass(d)
    BY <1>2 DEF TimePasses
  <2>2. Elapsed = d /\ d \in Nat
    BY <2>1, Limits DEF Elapsed, Pass, IInv, TypeOK
  <2>3. \A c \in Clients : Older(silent[c], Elapsed) \in Nat /\ Older(waited[c], Elapsed) \in Nat
    BY <2>2, OlderType DEF HistoryOK
  <2> QED BY <2>3 DEF HistoryOK, MCNext
<1> QED BY <1>1, <1>2

-----------------------------------------------------------------------------
(* What each action does to one client.                                    *)

\* A client that an action leaves alone, or takes on, or lets in.
LEMMA Untouched ==
  ASSUME IInv, MCInv, MCNext, NEW c \in Clients,
         elapsed' = elapsed, untilPing' \in {untilPing, 0},
         \/ status'[c] = status[c]
         \/ status[c] \in {"free", "auth"} /\ status'[c] \in {"auth", "unknown", "outgoing"},
         idle'[c] = idle[c], age'[c] = age[c],
         c \in pingsent' <=> c \in pingsent, c \in queued' => c \in queued
  PROVE  HeardOf(c)'
<1>1. ~TimePasses
  BY NoTime DEF IInv, TypeOK
<1>2. HeardOf(c) /\ silent[c] \in Nat /\ waited[c] \in Nat /\ idle[c] \in Nat
  BY DEF MCInv, HistoryOK, IInv, TypeOK
<1>3. status[c] \in {"free", "auth"} => c \notin pingsent
  BY DEF IInv, TypeOK, Local
<1>4. waited'[c] = waited[c]
  BY <1>1, <1>2, HistoryOf DEF HeardOf, SilenceOf
<1>5. silent'[c] = silent[c]
  BY <1>1, <1>2, <1>3, HistoryOf DEF HeardOf, SilenceOf
<1>6. status[c] = "free" => idle[c] = 0 /\ age[c] = 0
  BY <1>2 DEF HeardOf, SilenceOf, IInv, OnTime
<1>7. SilenceOf(c)'
  BY <1>2, <1>3, <1>4, <1>5, <1>6 DEF HeardOf, SilenceOf, Registered
<1>8. c \notin Exempt => PunctualOf(c)'
  BY <1>2, <1>3, <1>5 DEF HeardOf, PunctualOf, Registered, Due
<1> QED BY <1>7, <1>8 DEF HeardOf

\* A client that goes.
LEMMA Gone ==
  ASSUME IInv, MCInv, MCNext, NEW c \in Clients, elapsed' <= elapsed,
         status'[c] = "free", idle'[c] = 0, c \notin pingsent', c \notin queued'
  PROVE  HeardOf(c)'
<1>1. ~TimePasses
  BY NoTime
<1>2. silent'[c] = 0 /\ waited'[c] = 0
  BY <1>1, HistoryOf
<1>3. MaxAge \in Nat
  BY TimersAssumption
<1> QED BY <1>2, <1>3 DEF HeardOf, SilenceOf, PunctualOf, Registered

\* A client that is heard of.
LEMMA Heard ==
  ASSUME IInv, MCInv, MCNext, NEW c \in Clients,
         elapsed' = elapsed, untilPing' \in {untilPing, 0},
         status[c] \in {"unknown", "outgoing", "registered"},
         status'[c] \in {status[c], "registered"}, idle'[c] = 0, age'[c] \in Nat,
         c \notin pingsent'
  PROVE  HeardOf(c)'
<1>1. ~TimePasses
  BY NoTime DEF IInv, TypeOK
<1>2. HeardOf(c) /\ silent[c] \in Nat /\ idle[c] \in Nat
  BY DEF MCInv, HistoryOK, IInv, TypeOK
<1>3. silent'[c] = 0 /\ waited'[c] = 0
  BY <1>1, <1>2, HistoryOf DEF HeardOf, SilenceOf
<1>4. SilenceOf(c)'
  BY <1>3, TimersAssumption DEF SilenceOf, Registered
<1>5. Due(0, Longest)' /\ Due(0, Quiet(c))'
  <2>1. elapsed' \in Nat /\ untilPing' \in Int /\ untilPing' <= Longest
    BY Limits DEF IInv, TypeOK, OnTime
  <2>2. Quiet(c) \in Nat /\ Longest <= Quiet(c) /\ Longest \in Nat \ {0}
    BY Limits, QuietType
  <2>3. ASSUME NEW b \in Nat \ {0}, Longest <= b PROVE Due(0, b)'
    <3>1. 0 < b + elapsed' /\ untilPing' <= b
      BY <2>1, <2>2, <2>3
    <3>2. \A n \in Int : 0 + n = n
      OBVIOUS
    <3>3. 0 + untilPing' = untilPing'
      BY <2>1, <3>2, Zenon
    <3> QED BY <3>1, <3>3 DEF Due
  <2>4. Due(0, Longest)'
    BY <2>2, <2>3
  <2>5. Due(0, Quiet(c))'
    BY <2>2, <2>3 DEF Quiet
  <2> QED BY <2>4, <2>5
<1>6. PunctualOf(c)'
  BY <1>5 DEF PunctualOf, Quiet
<1> QED BY <1>4, <1>6 DEF HeardOf

\* A client that registers with input that was left.
LEMMA HeardBefore ==
  ASSUME IInv, MCInv, MCNext, NEW c \in Clients,
         elapsed' = elapsed, untilPing' \in {untilPing, 0},
         c \in queued, c \notin queued', status'[c] = "registered", idle'[c] = idle[c],
         pingsent' = pingsent
  PROVE  HeardOf(c)'
<1>1. ~TimePasses
  BY NoTime DEF IInv, TypeOK
<1>2. HeardOf(c) /\ silent[c] \in Nat /\ idle[c] \in Nat /\ status[c] = "unknown"
  BY DEF MCInv, HistoryOK, IInv, TypeOK
<1>3. silent'[c] = silent[c] /\ waited'[c] = 0 /\ c \notin pingsent
  BY <1>1, <1>2, HistoryOf DEF HeardOf, SilenceOf
<1>4. SilenceOf(c)'
  BY <1>2, <1>3 DEF HeardOf, SilenceOf, Registered
<1>5. c \notin Exempt => Due(idle[c], Quiet(c))'
  BY <1>2, Limits, QuietType DEF HeardOf, PunctualOf, Due, IInv, TypeOK, Quiet
<1>6. c \notin Exempt => PunctualOf(c)'
  BY <1>3, <1>5 DEF PunctualOf, Quiet
<1> QED BY <1>4, <1>6 DEF HeardOf

\* Whoever an action is not about is left alone by it.
LEMMA OthersHeard ==
  ASSUME IInv, MCInv, MCNext, NEW c \in Clients,
         elapsed' = elapsed, untilPing' \in {untilPing, 0},
         \A x \in Clients \ {c} :
           /\ status'[x] = status[x] /\ idle'[x] = idle[x] /\ age'[x] = age[x]
           /\ x \in pingsent' <=> x \in pingsent
           /\ x \in queued' => x \in queued,
         HeardOf(c)'
  PROVE  \A x \in Clients : HeardOf(x)'
<1> SUFFICES ASSUME NEW x \in Clients PROVE HeardOf(x)'
  OBVIOUS
<1>1. CASE x = c
  BY <1>1
<1>2. CASE x # c
  BY <1>2, Untouched
<1> QED BY <1>1, <1>2

\* s_auth.c and connect_server are about nobody who has to answer a PING, and dead links
\* and lines wait for check_pings.
LEMMA ArrivalsHeard ==
  ASSUME IInv, MCInv, MCNext, NEW c \in Clients, NEW asked \in BOOLEAN,
         \/ Accept(c, asked) \/ DnsAnswer(c) \/ IdentSent(c) \/ IdentDone(c) \/ Connect(c)
         \/ DeadLink(c)
  PROVE  \A x \in Clients : HeardOf(x)'
<1>1. elapsed' = elapsed /\ untilPing' \in {untilPing, 0} /\ UNCHANGED <<idle, age, pingsent>>
  BY DEF Accept, DnsAnswer, IdentSent, IdentDone, Connect, DeadLink
<1>2. queued' \subseteq queued
  BY DEF Accept, DnsAnswer, IdentSent, IdentDone, Connect, DeadLink
<1>3. \A x \in Clients :
        \/ status'[x] = status[x]
        \/ status[x] \in {"free", "auth"} /\ status'[x] \in {"auth", "unknown", "outgoing"}
  <2>1. CASE Accept(c, asked) \/ Connect(c) \/ DeadLink(c) \/ IdentSent(c)
    BY <2>1 DEF Accept, Connect, DeadLink, IdentSent, IInv, TypeOK
  <2>2. CASE DnsAnswer(c) \/ IdentDone(c)
    <3>1. status[c] = "auth"
      BY <2>2 DEF DnsAnswer, IdentDone, IInv, RequestsAgree
    <3> QED BY <2>2, <3>1 DEF DnsAnswer, IdentDone, WaitForDns, Release, IInv, TypeOK
  <2> QED BY <2>1, <2>2
<1> QED BY <1>1, <1>2, <1>3, Untouched

LEMMA BansHeard ==
  ASSUME IInv, MCInv, MCNext, NEW S \in SUBSET Clients, KLine(S) \/ DLine(S)
  PROVE  \A x \in Clients : HeardOf(x)'
<1>1. /\ elapsed' = elapsed /\ untilPing' \in {untilPing, 0}
      /\ UNCHANGED <<status, idle, age, pingsent, queued>>
  BY DEF KLine, DLine
<1> QED BY <1>1, Untouched

LEMMA ReadHeard ==
  ASSUME IInv, MCInv, MCNext, NEW c \in Clients, NEW more \in BOOLEAN, Read(c, more)
  PROVE  \A x \in Clients : HeardOf(x)'
<1>1. elapsed' = elapsed /\ untilPing' \in {untilPing, 0}
  BY DEF Read, Registers
<1>2. \A x \in Clients \ {c} :
        /\ status'[x] = status[x] /\ idle'[x] = idle[x] /\ age'[x] = age[x]
        /\ x \in pingsent' <=> x \in pingsent
        /\ x \in queued' => x \in queued
  BY DEF Read, Registers, IInv, TypeOK
<1>3. /\ status[c] \in {"unknown", "outgoing", "registered"} /\ idle'[c] = 0
      /\ c \notin pingsent'
  BY DEF Read, IInv, TypeOK, Local
<1>4. status'[c] \in {status[c], "registered"} /\ age'[c] \in Nat
  BY DEF Read, Registers, IInv, TypeOK
<1>5. HeardOf(c)'
  BY <1>1, <1>3, <1>4, Heard
<1> QED BY <1>1, <1>2, <1>5, OthersHeard

LEMMA ReadQueuedHeard ==
  ASSUME IInv, MCInv, MCNext, NEW c \in Clients, ReadQueued(c)
  PROVE  \A x \in Clients : HeardOf(x)'
<1>1. /\ elapsed' = elapsed /\ untilPing' \in {untilPing, 0} /\ c \in queued
      /\ c \notin queued' /\ UNCHANGED <<idle, pingsent>>
  BY DEF ReadQueued, Registers
<1>2. \A x \in Clients \ {c} :
        /\ status'[x] = status[x] /\ idle'[x] = idle[x] /\ age'[x] = age[x]
        /\ x \in pingsent' <=> x \in pingsent
        /\ x \in queued' => x \in queued
  BY DEF ReadQueued, Registers, IInv, TypeOK
<1>3. HeardOf(c)'
  <2>1. CASE Registers(c)
    <3>1. status'[c] = "registered"
      BY <2>1 DEF Registers, IInv, TypeOK
    <3> QED BY <1>1, <3>1, HeardBefore
  <2>2. CASE ~Registers(c)
    <3>1. UNCHANGED <<status, age>>
      BY <2>2 DEF ReadQueued
    <3> QED BY <1>1, <3>1, Untouched
  <2> QED BY <2>1, <2>2
<1> QED BY <1>1, <1>2, <1>3, OthersHeard

LEMMA LeaveHeard ==
  ASSUME IInv, MCInv, MCNext, NEW c \in Clients, Leave(c)
  PROVE  \A x \in Clients : HeardOf(x)'
<1>1. elapsed' = elapsed /\ untilPing' \in {untilPing, 0} /\ elapsed \in Nat
  BY Limits DEF Leave, IInv, TypeOK
<1>2. \A x \in Clients \ {c} :
        /\ status'[x] = status[x] /\ idle'[x] = idle[x] /\ age'[x] = age[x]
        /\ x \in pingsent' <=> x \in pingsent
        /\ x \in queued' => x \in queued
  BY DEF Leave, FlagsOf, IInv, TypeOK
<1>3. status'[c] = "free" /\ idle'[c] = 0 /\ c \notin pingsent' /\ c \notin queued'
  BY DEF Leave, FlagsOf, IInv, TypeOK
<1>4. HeardOf(c)'
  BY <1>1, <1>3, Gone
<1> QED BY <1>1, <1>2, <1>4, OthersHeard

\* Time makes the silent, the idle and those who have to answer older alike.
LEMMA TimeHeard ==
  ASSUME IInv, MCInv, MCNext, TimePasses
  PROVE  \A x \in Clients : HeardOf(x)'
<1>1. PICK d \in 1 .. MaxStep : Pass(d)
  BY DEF TimePasses
<1>2. /\ Elapsed = d /\ d \in Nat \ {0} /\ elapsed' = elapsed + d
      /\ untilPing' = untilPing - d /\ elapsed' <= MaxStep
      /\ UNCHANGED <<status, pingsent, queued>>
  BY <1>1, Limits DEF Elapsed, Pass, IInv, TypeOK
<1> SUFFICES ASSUME NEW c \in Clients PROVE HeardOf(c)'
  OBVIOUS
<1>3. /\ HeardOf(c) /\ silent[c] \in Nat /\ waited[c] \in Nat /\ idle[c] \in Nat
      /\ age[c] \in Nat /\ untilPing \in Int /\ elapsed \in Nat /\ MaxAge \in Nat
  BY TimersAssumption DEF MCInv, HistoryOK, IInv, TypeOK
<1>4. CASE status[c] = "free"
  <2>1. c \notin pingsent /\ c \notin queued
    BY <1>4 DEF IInv, TypeOK, Local
  <2>2. idle'[c] = 0 /\ silent'[c] = 0 /\ waited'[c] = 0
    BY <1>1, <1>2, <1>4, <2>1 DEF Pass, MCNext
  <2> QED BY <1>2, <1>3, <1>4, <2>1, <2>2 DEF HeardOf, SilenceOf, PunctualOf, Registered
<1>5. CASE status[c] # "free"
  <2>1. /\ idle'[c] = Older(idle[c], d)
        /\ age'[c] = IF status[c] \in {"auth", "unknown"} THEN Older(age[c], d) ELSE age[c]
    BY <1>1, <1>5 DEF Pass
  <2>2. idle'[c] = 0 /\ idle[c] > 0 => FALSE
    BY <1>2, <1>3, <2>1 DEF Older, HeardOf, SilenceOf
  <2>3. silent'[c] = Older(silent[c], d)
    BY <1>2, <1>5, <2>2 DEF MCNext
  <2>4. waited'[c] = IF c \notin pingsent THEN 0 ELSE Older(waited[c], d)
    BY <1>2 DEF MCNext
  <2>5. /\ idle'[c] \in Nat /\ idle'[c] <= MaxAge /\ idle'[c] <= idle[c] + d
    BY <1>2, <1>3, <2>1 DEF Older
  <2>6. SilenceOf(c)'
    <3>1. c \in Registered \cap pingsent => idle'[c] <= Ping[c] + waited'[c]
      <4>1. Ping[c] \in Nat
        BY QuietType
      <4> QED BY <1>2, <1>3, <2>1, <2>4, <2>5, <4>1 DEF HeardOf, SilenceOf, Older
    <3>2. status[c] \in {"auth", "unknown"} => idle'[c] <= age'[c]
      BY <1>2, <1>3, <2>1 DEF HeardOf, SilenceOf, Older
    <3>3. c \in pingsent => idle'[c] > 0
      BY <1>3, <2>2, <2>5 DEF HeardOf, SilenceOf
    <3>4. c \notin pingsent => silent'[c] = idle'[c] /\ waited'[c] = 0
      BY <1>3, <2>1, <2>3, <2>4 DEF HeardOf, SilenceOf
    <3>5. status[c] = "unknown" => c \notin pingsent
      BY <1>3 DEF HeardOf, SilenceOf
    <3> QED BY <1>2, <1>5, <2>5, <3>1, <3>2, <3>3, <3>4, <3>5 DEF SilenceOf, Registered
  <2>7. ASSUME NEW b \in Nat, Due(idle[c], b) PROVE Due(idle[c], b)'
    BY <1>2, <1>3, <2>5, <2>7 DEF Due
  <2>8. ASSUME c \notin Exempt PROVE PunctualOf(c)'
    <3>1. PunctualOf(c)
      BY <1>3, <2>8 DEF HeardOf
    <3>2. Longest \in Nat /\ Quiet(c) \in Nat /\ 2 * Ping[c] \in Nat /\ Ping[c] \in Nat
      BY Limits, QuietType
    <3>3. c \in queued => Due(idle[c], Longest)'
      BY <2>7, <3>1, <3>2 DEF PunctualOf
    <3>4. c \in Registered \ pingsent => Due(idle[c], Quiet(c))'
      BY <2>7, <3>1, <3>2 DEF PunctualOf, Quiet
    <3>5. c \in Registered \cap pingsent => Due(idle[c], 2 * Ping[c])'
      BY <2>7, <3>1, <3>2 DEF PunctualOf
    <3>6. c \in Registered \cap pingsent =>
            silent'[c] + Ping[c] <= Quiet(c) + Late + idle'[c]
      <4>1. Late \in Nat /\ Ping[c] <= Quiet(c)
        BY Limits, QuietType DEF Late
      <4>2. c \in Registered \cap pingsent => silent[c] + Ping[c] <= Quiet(c) + Late + idle[c]
        BY <3>1 DEF PunctualOf
      <4>3. CASE idle[c] + d < MaxAge
        BY <1>2, <1>3, <2>1, <2>3, <3>2, <4>1, <4>2, <4>3 DEF Older
      <4>4. CASE ~(idle[c] + d < MaxAge)
        BY <1>2, <1>3, <2>1, <2>3, <3>2, <4>1, <4>4 DEF Older
      <4> QED BY <4>3, <4>4
    <3> QED BY <1>2, <3>3, <3>4, <3>5, <3>6 DEF PunctualOf, Registered, Quiet, Late
  <2> QED BY <2>6, <2>8 DEF HeardOf
<1> QED BY <1>4, <1>5

\* The next round is no later than any client that was looked at is due.
LEMMA NextPingFirst ==
  ASSUME TypeOK, NEW c \in Looked, ~TimedOut(c)
  PROVE  NextPing <= PingOf(c) - (IdleAfter[c] % PingOf(c))
<1> DEFINE d(x) == PingOf(x) - (IdleAfter[x] % PingOf(x))
<1>1. \A x \in Looked : d(x) \in Nat
  <2> TAKE x \in Looked
  <2>1. x \in Clients
    BY DEF Looked, Local
  <2>2. IdleAfter[x] \in Nat /\ PingOf(x) \in Nat \ {0}
    BY <2>1, PingOfType, LongestType DEF IdleAfter, TypeOK
  <2>3. IdleAfter[x] % PingOf(x) \in 0 .. PingOf(x) - 1
    BY <2>2
  <2> QED BY <2>2, <2>3
<1>2. d(c) \in Deadlines /\ Deadlines \in SUBSET Nat
  BY <1>1 DEF Deadlines
<1>3. NextPing = Min(Deadlines)
  BY <1>2 DEF NextPing
<1> QED BY <1>2, <1>3, MinExists

\* Nobody who has not registered is asked: UNKNOWN_TIME is over first.
LEMMA UnknownUnasked ==
  ASSUME IInv, MCInv, NEW c \in Clients, status[c] = "unknown", c \notin Dying
  PROVE  c \notin ToPing
<1> SUFFICES ASSUME c \in ToPing PROVE FALSE
  OBVIOUS
<1>1. c \in Looked /\ idle[c] > CONNECTTIMEOUT
  BY DEF ToPing, PingOf, Registered
<1>2. idle[c] <= age[c] /\ idle[c] \in Nat /\ age[c] \in Nat
  BY DEF MCInv, HeardOf, SilenceOf, IInv, TypeOK
<1>3. UnknownTooLong(c)
  BY <1>1, <1>2, Limits DEF UnknownTooLong
<1> QED BY <1>1, <1>3 DEF Dying, Looked

\* A client of this server that a round spares was looked at, but for those that are
\* excepted from the hunt.
LEMMA SparedLooked ==
  ASSUME NEW c \in Local \ Exempt, c \notin Dying
  PROVE  c \in Looked /\ ~TimedOut(c) /\ ~UnknownTooLong(c)
  BY DEF Dying, Looked, Skipped

LEMMA RoundHeard ==
  ASSUME UNKNOWN_TIME < CONNECTTIMEOUT, IInv, MCInv, MCNext, elapsed' = 0, CheckPings
  PROVE  \A x \in Clients : HeardOf(x)'
<1> SUFFICES ASSUME NEW c \in Clients PROVE HeardOf(c)'
  OBVIOUS
<1>1. /\ HeardOf(c) /\ silent[c] \in Nat /\ waited[c] \in Nat /\ idle[c] \in Nat
      /\ age[c] \in Nat /\ untilPing \in Int /\ untilPing <= 0 /\ elapsed \in 0 .. MaxStep
      /\ MaxAge \in Nat
  BY TimersAssumption DEF MCInv, HistoryOK, IInv, TypeOK, CheckPings
<1>2. elapsed' <= elapsed /\ ~TimePasses
  BY <1>1, NoTime, Limits
<1>3. CASE c \in Dying
  <2>1. status'[c] = "free" /\ idle'[c] = 0 /\ c \notin pingsent' /\ c \notin queued'
    BY <1>3 DEF CheckPings
  <2> QED BY <1>2, <2>1, Gone
<1>4. CASE c \notin Dying
  <2>1. /\ status'[c] = IF c \in Expired THEN "unknown" ELSE status[c]
        /\ idle'[c] = IF c \in ToPing THEN PingOf(c) ELSE idle[c]
        /\ age'[c] = age[c]
        /\ c \in pingsent' <=> c \in pingsent \/ c \in ToPing
        /\ c \in queued' <=> c \in queued
        /\ untilPing' = NextPing
    BY <1>4 DEF CheckPings, IdleAfter
  <2>2. c \in Expired => status[c] = "auth"
    BY DEF Expired, IInv, RequestsAgree
  <2>3. c \in ToPing => /\ c \in Looked /\ c \notin pingsent /\ idle[c] > PingOf(c)
                        /\ status[c] \in {"outgoing", "registered"}
    BY <1>4, UnknownUnasked DEF ToPing, Looked, Local
  <2>4. PingOf(c) \in Nat \ {0}
    BY PingOfType, LongestType
  <2>5. waited'[c] = waited[c]
    BY <1>1, <1>2, <2>1, HistoryOf DEF HeardOf, SilenceOf
  <2>6. silent'[c] = silent[c]
    BY <1>1, <1>2, <2>1, <2>2, <2>3, <2>4, HistoryOf DEF HeardOf, SilenceOf
  <2>7. status[c] = "auth" => c \notin pingsent /\ c \notin queued
    BY DEF IInv, TypeOK, Local
  <2>8. SilenceOf(c)'
    <3>1. CASE c \in ToPing
      <4>1. status'[c] = status[c] /\ idle'[c] = PingOf(c) /\ c \in pingsent' /\ waited'[c] = 0
        BY <1>1, <2>1, <2>2, <2>3, <2>5, <3>1 DEF HeardOf, SilenceOf
      <4>2. c \in Registered' => PingOf(c) = Ping[c]
        BY <4>1 DEF PingOf, Registered
      <4> QED BY <1>1, <2>3, <2>4, <3>1, <4>1, <4>2 DEF HeardOf, SilenceOf, Registered
    <3>2. CASE c \notin ToPing
      BY <1>1, <2>1, <2>2, <2>5, <2>6, <2>7, <3>2 DEF HeardOf, SilenceOf, Registered
    <3> QED BY <3>1, <3>2
  <2>9. ASSUME c \notin Exempt PROVE PunctualOf(c)'
    <3>1. PunctualOf(c) /\ NextPing \in Int
      BY <1>1, <2>9, NextPingType, Limits DEF HeardOf, IInv
    <3>2. /\ Longest \in Nat \ {0} /\ Quiet(c) \in Nat /\ Ping[c] \in Nat \ {0}
          /\ Longest <= Quiet(c) /\ 2 * Ping[c] <= Quiet(c) /\ CONNECTTIMEOUT <= Longest
      BY Limits, LongestType, QuietType
    <3>3. CASE c \in queued'
      <4>1. status[c] = "unknown" /\ c \in Local /\ status'[c] = "unknown"
        BY <2>1, <3>3 DEF IInv, TypeOK, Local
      <4>2. c \in Looked /\ ~TimedOut(c) /\ ~UnknownTooLong(c) /\ c \notin ToPing
        BY <1>4, <2>9, <4>1, SparedLooked, UnknownUnasked
      <4>3. idle[c] < CONNECTTIMEOUT
        BY <1>1, <4>1, <4>2, Limits DEF UnknownTooLong, HeardOf, SilenceOf
      <4>4. NextPing <= CONNECTTIMEOUT - (idle[c] % CONNECTTIMEOUT)
        BY <4>1, <4>2, NextPingFirst DEF IInv, PingOf, Registered, IdleAfter
      <4>5. idle[c] + (CONNECTTIMEOUT - (idle[c] % CONNECTTIMEOUT)) = CONNECTTIMEOUT
        <5>1. idle[c] < 2 * CONNECTTIMEOUT /\ CONNECTTIMEOUT \in Nat \ {0}
          BY <1>1, <4>3, Limits
        <5> QED BY <1>1, <4>3, <5>1, RoundOf, Zenon
      <4>6. idle[c] % CONNECTTIMEOUT \in Int
        BY <1>1, Limits
      <4>7. idle[c] + NextPing <= Longest /\ idle[c] < Longest
        BY <1>1, <3>1, <3>2, <4>3, <4>4, <4>5, <4>6, Limits
      <4>8. Due(idle[c], Longest)'
        BY <2>1, <4>2, <4>7, <3>2, <1>1 DEF Due
      <4> QED BY <4>1, <4>8 DEF PunctualOf, Registered
    <3>4. CASE c \in Registered'
      <4>1. c \in Registered /\ c \in Local /\ PingOf(c) = Ping[c] /\ c \notin queued
        BY <2>1, <3>4 DEF Registered, Local, PingOf, IInv, TypeOK
      <4>2. c \in Looked /\ ~TimedOut(c)
        BY <1>4, <2>9, <4>1, SparedLooked
      <4>3. NextPing <= Ping[c] - (IdleAfter[c] % Ping[c])
        BY <4>1, <4>2, NextPingFirst DEF IInv
      <4>4. IdleAfter[c] = idle'[c] /\ idle'[c] \in Nat /\ idle'[c] < 2 * Ping[c]
        <5>1. CASE c \in ToPing
          BY <2>1, <3>2, <4>1, <5>1 DEF IdleAfter
        <5>2. CASE c \notin ToPing
          <6>1. idle[c] < 2 * Ping[c]
            BY <1>1, <3>2, <4>1, <4>2, <5>2 DEF ToPing, TimedOut
          <6> QED BY <1>1, <2>1, <5>2, <6>1 DEF IdleAfter
        <5> QED BY <5>1, <5>2
      <4>5. idle'[c] + (Ping[c] - (idle'[c] % Ping[c])) <= 2 * Ping[c]
        BY <3>2, <4>4, RoundOf
      <4>6. idle'[c] % Ping[c] \in Int
        BY <3>2, <4>4
      <4>7. idle'[c] + NextPing <= 2 * Ping[c]
        BY <3>1, <3>2, <4>3, <4>4, <4>5, <4>6
      <4>8. Due(idle[c], 2 * Ping[c])' /\ Due(idle[c], Quiet(c))'
        <5>1. ASSUME NEW b \in Nat, 2 * Ping[c] <= b PROVE Due(idle[c], b)'
          BY <2>1, <3>1, <3>2, <4>4, <4>7, <5>1 DEF Due
        <5> QED BY <3>2, <5>1 DEF Quiet
      <4>9. c \in pingsent' => silent'[c] + Ping[c] <= Quiet(c) + Late + idle'[c]
        <5>1. CASE c \in ToPing
          <6>1. Due(idle[c], Quiet(c)) /\ silent[c] = idle[c] /\ idle'[c] = Ping[c]
            BY <1>1, <2>1, <2>3, <3>1, <4>1, <5>1 DEF PunctualOf, HeardOf, SilenceOf
          <6> QED BY <1>1, <2>6, <3>2, <6>1, Limits DEF Due, Late
        <5>2. CASE c \notin ToPing
          BY <2>1, <2>6, <3>1, <4>1, <5>2 DEF PunctualOf
        <5> QED BY <5>1, <5>2
      <4>10. c \notin queued'
        BY <2>1, <4>1
      <4> QED BY <4>8, <4>9, <4>10 DEF PunctualOf, Quiet, Late
    <3>5. CASE c \notin queued' /\ c \notin Registered'
      BY <3>5 DEF PunctualOf
    <3> QED BY <3>3, <3>4, <3>5
  <2> QED BY <2>8, <2>9 DEF HeardOf
<1> QED BY <1>3, <1>4

LEMMA TurnHeard ==
  ASSUME UNKNOWN_TIME < CONNECTTIMEOUT, IInv, MCInv, MCNext, TurnEnds
  PROVE  \A x \in Clients : HeardOf(x)'
<1>1. CASE CheckPings
  BY <1>1, RoundHeard DEF TurnEnds
<1>2. CASE ~CheckPings
  <2> SUFFICES ASSUME NEW c \in Clients PROVE HeardOf(c)'
    OBVIOUS
  <2>1. /\ elapsed' = 0 /\ untilPing > 0 /\ untilPing' = untilPing
        /\ UNCHANGED <<status, idle, age, pingsent, queued>>
    BY <1>2 DEF TurnEnds
  <2>2. /\ HeardOf(c) /\ silent[c] \in Nat /\ waited[c] \in Nat /\ idle[c] \in Nat
        /\ untilPing \in Int /\ elapsed \in Nat
    BY Limits DEF MCInv, HistoryOK, IInv, TypeOK
  <2>3. ~TimePasses
    BY <2>1, <2>2, NoTime
  <2>4. silent'[c] = silent[c] /\ waited'[c] = waited[c]
    BY <2>1, <2>2, <2>3, HistoryOf DEF HeardOf, SilenceOf
  <2>5. SilenceOf(c)'
    BY <2>1, <2>2, <2>4 DEF HeardOf, SilenceOf, Registered
  <2>6. ASSUME NEW b \in Nat, Due(idle[c], b) PROVE Due(idle[c], b)'
    BY <2>1, <2>2, <2>6 DEF Due
  <2>7. Longest \in Nat /\ Quiet(c) \in Nat /\ 2 * Ping[c] \in Nat
    BY Limits, QuietType
  <2>8. c \notin Exempt => PunctualOf(c)'
    <3> SUFFICES ASSUME PunctualOf(c) PROVE PunctualOf(c)'
      BY <2>2 DEF HeardOf
    <3>1. c \in queued => Due(idle[c], Longest)'
      BY <2>6, <2>7 DEF PunctualOf
    <3>2. c \in Registered \ pingsent => Due(idle[c], Quiet(c))'
      BY <2>6, <2>7 DEF PunctualOf, Quiet
    <3>3. c \in Registered \cap pingsent => Due(idle[c], 2 * Ping[c])'
      BY <2>6, <2>7 DEF PunctualOf
    <3> QED BY <2>1, <2>4, <3>1, <3>2, <3>3 DEF PunctualOf, Registered, Quiet
  <2> QED BY <2>5, <2>8 DEF HeardOf
<1> QED BY <1>1, <1>2

LEMMA MCNextKeeps ==
  ASSUME UNKNOWN_TIME < CONNECTTIMEOUT
  PROVE  IInv /\ MCInv /\ [MCNext]_MCvars => MCInv'
<1> SUFFICES ASSUME IInv, MCInv, [MCNext]_MCvars PROVE MCInv'
  OBVIOUS
<1>1. CASE UNCHANGED MCvars
  BY <1>1 DEF MCvars, vars, MCInv, HistoryOK, HeardOf, SilenceOf, PunctualOf, Due, Registered,
              Quiet
<1>2. CASE MCNext
  <2>1. Next
    BY <1>2 DEF MCNext
  <2>2. ASSUME NEW c \in Clients, NEW b \in BOOLEAN, Accept(c, b) \/ Read(c, b)
        PROVE  \A x \in Clients : HeardOf(x)'
    BY <1>2, <2>2, ArrivalsHeard, ReadHeard
  <2>3. ASSUME NEW c \in Clients,
               DnsAnswer(c) \/ IdentSent(c) \/ IdentDone(c) \/ Connect(c) \/ DeadLink(c)
        PROVE  \A x \in Clients : HeardOf(x)'
    <3>1. TRUE \in BOOLEAN
      OBVIOUS
    <3> QED BY <1>2, <2>3, <3>1, ArrivalsHeard
  <2>4. ASSUME NEW c \in Clients, ReadQueued(c) \/ Leave(c)
        PROVE  \A x \in Clients : HeardOf(x)'
    BY <1>2, <2>4, ReadQueuedHeard, LeaveHeard
  <2>5. ASSUME NEW S \in SUBSET Clients, KLine(S) \/ DLine(S)
        PROVE  \A x \in Clients : HeardOf(x)'
    BY <1>2, <2>5, BansHeard
  <2>6. ASSUME TurnEnds PROVE \A x \in Clients : HeardOf(x)'
    BY <1>2, <2>6, TurnHeard
  <2>7. ASSUME TimePasses PROVE \A x \in Clients : HeardOf(x)'
    BY <1>2, <2>7, TimeHeard
  <2>8. \A x \in Clients : HeardOf(x)'
    BY <2>1, <2>2, <2>3, <2>4, <2>5, <2>6, <2>7, Zenon DEF Next
  <2>9. HistoryOK'
    BY <1>2, HistoryTyped DEF MCInv
  <2> QED BY <2>8, <2>9 DEF MCInv
<1> QED BY <1>1, <1>2

LEMMA MCInitInv == MCInit => MCInv
<1> SUFFICES ASSUME MCInit PROVE MCInv
  OBVIOUS
<1>1. HistoryOK
  BY DEF MCInit, HistoryOK
<1>2. \A c \in Clients : HeardOf(c)
  BY TimersAssumption DEF MCInit, Init, HeardOf, SilenceOf, PunctualOf, Registered
<1> QED BY <1>1, <1>2 DEF MCInv

\* The two bounds, from what is known of each client.
LEMMA InTime ==
  ASSUME IInv, MCInv PROVE SilentGoes
<1> SUFFICES ASSUME NEW c \in Registered \ Exempt
             PROVE  silent[c] <= Quiet(c) + Ping[c] + 2 * Late
  BY DEF SilentGoes, Quiet
<1>1. /\ c \in Clients /\ SilenceOf(c) /\ PunctualOf(c) /\ silent[c] \in Nat
      /\ idle[c] \in Nat /\ elapsed \in 0 .. MaxStep
  BY DEF MCInv, HistoryOK, HeardOf, IInv, TypeOK, Registered
<1>2. /\ Quiet(c) \in Nat /\ Ping[c] \in Nat \ {0} /\ 2 * Ping[c] <= Quiet(c)
      /\ MaxStep \in Nat \ {0} /\ Late = MaxStep - 1
  BY <1>1, QuietType, Limits DEF Late
<1>3. CASE c \in pingsent
  <2>1. idle[c] < 2 * Ping[c] + elapsed /\ silent[c] + Ping[c] <= Quiet(c) + Late + idle[c]
    BY <1>1, <1>3 DEF PunctualOf, Due
  <2> QED BY <1>1, <1>2, <2>1
<1>4. CASE c \notin pingsent
  <2>1. silent[c] = idle[c] /\ idle[c] < Quiet(c) + elapsed
    BY <1>1, <1>4 DEF SilenceOf, PunctualOf, Due
  <2> QED BY <1>1, <1>2, <2>1
<1> QED BY <1>3, <1>4

LEMMA NotBefore ==
  ASSUME IInv, MCInv PROVE PingBeforeDrop
<1> SUFFICES ASSUME NEW c \in Registered \ dead, CheckPings, status'[c] = "free", ~Swept(c)
             PROVE  waited[c] >= Ping[c]
  BY DEF PingBeforeDrop
<1>1. /\ c \in Clients /\ SilenceOf(c) /\ waited[c] \in Nat /\ idle[c] \in Nat
      /\ Ping[c] \in Nat \ {0} /\ PingOf(c) = Ping[c] /\ status[c] = "registered"
  BY QuietType DEF MCInv, HistoryOK, HeardOf, IInv, TypeOK, Registered, PingOf
<1>2. c \in Dying
  BY <1>1 DEF CheckPings, Expired, IInv, RequestsAgree
<1>3. TimedOut(c)
  BY <1>1, <1>2 DEF Dying, UnknownTooLong
<1> QED BY <1>1, <1>3 DEF TimedOut, SilenceOf

\* Provided that UNKNOWN_TIME is less than CONNECTTIMEOUT (20 and 30 seconds), check_pings
\* drops whoever is silent within the longest frequency, its own and two turns of io_loop,
\* and nobody before it had its own frequency to answer the PING.
THEOREM DropsCorrect == ASSUME UNKNOWN_TIME < CONNECTTIMEOUT PROVE MCSpec => DropsInTime
<1>1. MCSpec => []IInv
  <2>1. MCInit => Init
    BY DEF MCInit
  <2>2. [MCNext]_MCvars => [Next]_vars
    BY DEF MCNext, MCvars
  <2>3. MCSpec => Spec
    BY <2>1, <2>2, PTL DEF MCSpec, Spec
  <2> QED BY <2>3, Invariance, PTL
<1>2. MCSpec => []MCInv
  BY <1>1, MCInitInv, MCNextKeeps, PTL DEF MCSpec
<1>3. IInv /\ MCInv /\ IInv' /\ MCInv' /\ [MCNext]_MCvars =>
        [SilentGoes' /\ PingBeforeDrop]_MCvars
  <2>1. (IInv /\ MCInv => SilentGoes)'
    BY InTime, PTL
  <2> QED BY <2>1, NotBefore
<1> QED BY <1>1, <1>2, <1>3, PTL DEF MCSpec, DropsInTime
=============================================================================
