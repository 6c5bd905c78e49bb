------------------------------- MODULE KLines -------------------------------
(***************************************************************************)
(* K-lines and D-lines: m_kline.c, m_unkline.c, the K-line half of s_conf.c *)
(* and the hunt of check_pings.  A mask is a model value; Hits says whom it *)
(* matches.  A permanent line lives in memory (the mtrie or the D-line tree)*)
(* and in kline.conf, which config.h makes the file of both kinds; while an *)
(* editor holds the lock it waits in PendingLines instead.  A temporary     *)
(* line lives in one of two lists and carries the seconds it has left.      *)
(***************************************************************************)
EXTENDS Integers, Sequences, SequencesExt

CONSTANTS
  People,     \* local connections, by user, host and address
  KMasks,     \* masks of K-lines
  IpMasks,    \* those whose host is an address
  DMasks,     \* masks of D-lines
  Hits,       \* Hits[m]: the people that m matches
  Matchers,   \* Matchers[m]: the masks that match the text of m
  Within,     \* Within[m]: the address masks that contain the address of m
  Ilined,     \* people an I-line lets in
  Elined,     \* those whose I-line has the E flag
  Exempt,     \* people under an exception to D-lines
  KFlag,      \* does the O-line of the operator carry the K flag?
  MaxHold,    \* 24 hours, the longest temporary line
  MaxTemp, MaxPending, MaxFaults   \* bounds

ASSUME KLinesAssumption ==
  /\ IpMasks \subseteq KMasks /\ Elined \subseteq Ilined /\ Ilined \subseteq People
  /\ KMasks \cap DMasks = {} /\ MaxHold \in Nat \ {0}
  /\ Hits \in [KMasks \cup DMasks -> SUBSET People]

VARIABLES
  trie,       \* permanent lines in memory, of both kinds
  temps,      \* temporary_klines and temporary_ip_klines
  pending,    \* PendingLines, newest first
  file,       \* the lines of kline.conf
  lock,       \* kline.conf.lock: "none", "held" by an editor, or "stale"
  rehashed, dline_in_progress,
  conn,       \* "no", "unknown" (connected, not registered) or "client"
  kflag,      \* the operator's K flag
  owed,       \* history: permanent lines an operator was promised
  settled,    \* history: lines of memory that a hunt of their kind has seen
  faults      \* open() and write() errors so far

klVars == <<trie, temps, pending, file, lock, rehashed, dline_in_progress,
            conn, kflag, owed, settled, faults>>

Lists == {"host", "ip"}
ListOf(m) == IF m \in IpMasks THEN "ip" ELSE "host"
Live(list) == SelectSeq(list, LAMBDA t : t.left > 0)
AnyIn(list, masks) == \E i \in DOMAIN list : list[i].mask \in masks
MasksOn(c) == {m \in KMasks : c \in Hits[m]}

KLinesInit ==
  /\ trie = {} /\ temps = [l \in Lists |-> <<>>] /\ pending = <<>> /\ file = {}
  /\ lock = "none" /\ rehashed = FALSE /\ dline_in_progress = FALSE
  /\ conn = [c \in People |-> "no"] /\ kflag = KFlag
  /\ owed = {} /\ settled = {} /\ faults = 0

----------------------------------------------------------------------------
(* Looking up.  find_tkline expires a list before it reads it, and reads    *)
(* the list of addresses only when the other has no match.                  *)

expire_temp_klines(list) == Live(list)

Looked(masks) ==
  LET hosts == expire_temp_klines(temps["host"])
  IN IF AnyIn(hosts, masks)
     THEN [temps EXCEPT !["host"] = hosts]
     ELSE [host |-> hosts, ip |-> expire_temp_klines(temps["ip"])]

find_tkline(masks) ==
  \E l \in Lists : AnyIn(expire_temp_klines(temps[l]), masks)

is_klined(m) == find_tkline(Matchers[m]) \/ trie \cap Matchers[m] # {}
find_is_klined(c) == find_tkline(MasksOn(c)) \/ trie \cap MasksOn(c) # {}
find_kill(c) == c \notin Elined /\ find_is_klined(c)
match_Dline(c) == c \notin Exempt /\ \E d \in trie \cap DMasks : c \in Hits[d]

----------------------------------------------------------------------------
(* Adding lines.                                                            *)

add_temp_kline(list, m, seconds) == <<[mask |-> m, left |-> seconds]>> \o list

Hunted(kindD) ==
  /\ rehashed' = TRUE /\ dline_in_progress' = kindD

\* KLINE <minutes> <mask>
TempKline(m, seconds) ==
  /\ kflag /\ ~is_klined(m)
  /\ Len(temps[ListOf(m)]) < MaxTemp
  /\ temps' = [Looked(Matchers[m]) EXCEPT ![ListOf(m)] = add_temp_kline(@, m, seconds)]
  /\ Hunted(FALSE)
  /\ UNCHANGED <<trie, pending, file, lock, conn, kflag, owed, settled, faults>>

AddPending(m) == <<m>> \o pending

\* Every line is written with an open and two writes of its own; one that
\* fails is reported to the operators and forgotten.
WriteLines(lines) ==
  \E written \in SUBSET lines :
    /\ written = lines \/ faults < MaxFaults
    /\ faults' = IF written = lines THEN faults ELSE faults + 1
    /\ file' = file \cup written
    /\ owed' = (owed \cup lines) \ (lines \ written)

LockedFile == lock = "held"

Store(m, kindD) ==
  /\ trie' = trie \cup {m} /\ settled' = settled \ {m}
  /\ \/ /\ LockedFile
        /\ Len(pending) < MaxPending
        /\ pending' = AddPending(m) /\ owed' = owed \cup {m}
        /\ UNCHANGED <<file, lock, rehashed, dline_in_progress, faults>>
     \/ /\ ~LockedFile
        /\ lock' = "none" /\ pending' = <<>>
        /\ WriteLines({m} \cup ToSet(pending))
        /\ Hunted(kindD)

\* KLINE <mask>
Kline(m) ==
  /\ kflag /\ ~is_klined(m)
  /\ temps' = Looked(Matchers[m])
  /\ Store(m, FALSE)
  /\ UNCHANGED <<conn, kflag>>

\* A K-line that an older one covers is refused, after the lists expired.
KlineRefused(m) ==
  /\ kflag /\ is_klined(m)
  /\ temps' = Looked(Matchers[m])
  /\ UNCHANGED <<trie, pending, file, lock, rehashed, dline_in_progress, conn,
                 kflag, owed, settled, faults>>

\* DLINE <mask>; a D-line inside another is refused.
Dline(d) ==
  /\ kflag /\ trie \cap Matchers[d] = {}
  /\ Store(d, TRUE)
  /\ UNCHANGED <<temps, conn, kflag>>

----------------------------------------------------------------------------
(* Reading the file again, and taking lines back.                           *)

\* Memory becomes what the file holds; a file that cannot be opened leaves no line.
Reread(lines) ==
  /\ trie' = lines /\ settled' = settled \cap lines
  /\ rehashed' = TRUE

\* REHASH, SIGHUP (onlyD = FALSE) and REHASH DLINES
Rehash(onlyD) ==
  /\ \/ Reread(file) /\ UNCHANGED faults
     \/ faults < MaxFaults /\ Reread({}) /\ faults' = faults + 1
  /\ dline_in_progress' = (dline_in_progress \/ onlyD)
  /\ UNCHANGED <<temps, pending, file, lock, conn, kflag, owed>>

\* REHASH TKLINES sets the K flag where it means to test it.
RehashTklines ==
  /\ kflag' = TRUE
  /\ temps' = [l \in Lists |-> <<>>]
  /\ UNCHANGED <<trie, pending, file, lock, rehashed, dline_in_progress, conn,
                 owed, settled, faults>>

TkMatch(m) == IF m \in IpMasks THEN Within[m] ELSE {m}

remove_tkline_match(m) ==
  LET l == ListOf(m)
      first == SelectInSeq(temps[l], LAMBDA t : t.mask \in TkMatch(m))
  IN /\ first # 0
     /\ temps' = [temps EXCEPT ![l] = RemoveAt(@, first)]

\* UNKLINE of a mask that has a temporary line takes only that one back.
UnklineTemp(m) ==
  /\ remove_tkline_match(m)
  /\ UNCHANGED <<trie, pending, file, lock, rehashed, dline_in_progress, conn,
                 kflag, owed, settled, faults>>

\* The file is copied without the line and read again.  PendingLines stays.
Unwrite(m) ==
  /\ file' = file \ {m}
  /\ owed' = IF m \in file THEN owed \ {m} ELSE owed
  /\ Reread(file')

Unkline(m) ==
  /\ ~AnyIn(temps[ListOf(m)], TkMatch(m))
  /\ Unwrite(m)
  /\ UNCHANGED <<temps, pending, lock, dline_in_progress, conn, kflag, faults>>

Undline(d) ==
  /\ Unwrite(d)
  /\ UNCHANGED <<temps, pending, lock, dline_in_progress, conn, kflag, faults>>

\* An editor takes the lock, leaves, or dies with the lock file in place.
Editor ==
  /\ \/ lock = "none" /\ lock' = "held"
     \/ lock = "held" /\ lock' \in {"none", "stale"}
  /\ UNCHANGED <<trie, temps, pending, file, rehashed, dline_in_progress, conn,
                 kflag, owed, settled, faults>>

----------------------------------------------------------------------------
(* The people.                                                              *)

\* A D-line is looked for when the socket is accepted ...
conf_connect_allowed(c) == ~match_Dline(c)

Accept(c) ==
  /\ conn[c] = "no"
  /\ conf_connect_allowed(c)
  /\ conn' = [conn EXCEPT ![c] = "unknown"]
  /\ UNCHANGED <<trie, temps, pending, file, lock, rehashed, dline_in_progress,
                 kflag, owed, settled, faults>>

\* ... and a K-line when it registers.  An E-line spares it both searches.
Faulty_verify_access(c) == c \in Ilined /\ (c \in Elined \/ ~find_tkline(MasksOn(c)))
verify_access(c) == c \in Ilined /\ (c \in Elined \/ ~find_is_klined(c))

Register(c) ==
  /\ conn[c] = "unknown"
  /\ conn' = [conn EXCEPT ![c] = IF verify_access(c) THEN "client" ELSE "no"]
  /\ temps' = IF c \in Ilined \ Elined THEN Looked(MasksOn(c)) ELSE temps
  /\ UNCHANGED <<trie, pending, file, lock, rehashed, dline_in_progress, kflag,
                 owed, settled, faults>>

Leave(c) ==
  /\ conn[c] # "no"
  /\ conn' = [conn EXCEPT ![c] = "no"]
  /\ UNCHANGED <<trie, temps, pending, file, lock, rehashed, dline_in_progress,
                 kflag, owed, settled, faults>>

\* check_pings after a new line: D-lines are looked for on every connection,
\* or K-lines on every client, never both.
Asked == {c \in People : conn[c] = "client" /\ c \notin Elined}
Caught(c) == IF dline_in_progress THEN match_Dline(c)
             ELSE conn[c] = "client" /\ find_kill(c)

Hunt(kindD) ==
  /\ conn' = [c \in People |-> IF Caught(c) THEN "no" ELSE conn[c]]
  /\ settled' = settled \cup (trie \cap IF kindD THEN DMasks ELSE KMasks)

CheckPings ==
  /\ rehashed
  /\ Hunt(dline_in_progress)
  /\ temps' = IF dline_in_progress \/ Asked = {} THEN temps
              ELSE IF \A c \in Asked : AnyIn(Live(temps["host"]), MasksOn(c))
                   THEN [temps EXCEPT !["host"] = expire_temp_klines(@)]
                   ELSE [l \in Lists |-> expire_temp_klines(temps[l])]
  /\ rehashed' = FALSE /\ dline_in_progress' = FALSE
  /\ UNCHANGED <<trie, pending, file, lock, kflag, owed, faults>>

Tick ==
  /\ \E l \in Lists : Live(temps[l]) # <<>>
  /\ temps' = [l \in Lists |-> [i \in DOMAIN temps[l] |->
                 [temps[l][i] EXCEPT !.left = IF @ = 0 THEN 0 ELSE @ - 1]]]
  /\ UNCHANGED <<trie, pending, file, lock, rehashed, dline_in_progress, conn,
                 kflag, owed, settled, faults>>

KLinesNext ==
  \/ \E m \in KMasks : Kline(m) \/ KlineRefused(m) \/ Unkline(m) \/ UnklineTemp(m)
  \/ \E m \in KMasks, s \in 1 .. MaxHold : TempKline(m, s)
  \/ \E d \in DMasks : Dline(d) \/ Undline(d)
  \/ \E onlyD \in BOOLEAN : Rehash(onlyD)
  \/ RehashTklines \/ Editor \/ CheckPings \/ Tick
  \/ \E c \in People : Accept(c) \/ Register(c) \/ Leave(c)

KLinesSpec == KLinesInit /\ [][KLinesNext]_klVars

----------------------------------------------------------------------------
(* Properties.                                                              *)

\* A permanent line that an operator was told is added, and whose write was
\* not reported as failed, is in the file or waits for the editor to leave,
\* whatever was added, removed, locked and reread since.
LinesKept == owed \subseteq file \cup ToSet(pending)

\* Once a hunt has looked for a line, nobody that it matches is on the server
\* as long as it stays in memory: not a client that was connected and not yet
\* registered during the hunt, nor one that came later.
HuntedStayOut ==
  \A m \in settled : \A c \in Hits[m] :
    IF m \in KMasks THEN c \in Elined \/ conn[c] # "client"
    ELSE c \in Exempt \/ conn[c] = "no"

\* A client with an I-line is refused or hunted only for a line that is
\* permanent in memory or has time left: an expired line turns nobody away.
LiveLines == {m \in KMasks : \E l \in Lists : AnyIn(Live(temps[l]), {m})}
TurnedAway ==
  \A c \in Ilined : Register(c) /\ conn'[c] = "no" =>
    MasksOn(c) \cap (trie \cup LiveLines) # {}

\* A line that was added is kept (LinesKept), whoever it matches stays out once it
\* was hunted for (HuntedStayOut), and nobody is turned away without a line that is
\* in force (TurnedAway).
KLinesHold == [][LinesKept' /\ HuntedStayOut' /\ TurnedAway]_klVars
=============================================================================
