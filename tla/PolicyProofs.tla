---------------------------- MODULE PolicyProofs ----------------------------
(***************************************************************************)
(* Who is kept out, and who learns of whom.                                *)
(*                                                                         *)
(* Lines (KLines): a line that was added is kept, whoever it matches stays  *)
(* out once it was hunted for, and nobody is turned away for a line that    *)
(* has expired: for all people, masks and limits.                           *)
(*                                                                         *)
(* Queries (Queries): an answer shows what may be seen, and of WHO and      *)
(* NAMES of all, all of it: for all persons, channels and scenes.           *)
(*                                                                         *)
(* Private messages (Drone): one is thrown away only from somebody who sent *)
(* more than DRONECOUNT of them within DRONETIME seconds, and the target    *)
(* has been told: for all such limits.                                      *)
(*                                                                         *)
(* Configuration (Confs): the counters of classes, lines, addresses and     *)
(* listeners agree with the clients, and what is freed is what nobody uses, *)
(* through any number of rehashes: for all users, files and limits.         *)
(*                                                                         *)
(* Messages over the tree of servers (Talk): everyone a message is meant    *)
(* for is shown it once, and nobody else: for all trees, users and channels.*)
(***************************************************************************)
EXTENDS KLines, Queries, Drone, Confs, Talk, TLAPS, FiniteSetTheorems, SequenceTheorems,
  WellFoundedInduction

-----------------------------------------------------------------------------
AllMasks == KMasks \cup DMasks

\* What the file and PendingLines hold becomes memory again, so both must be lines;
\* a hunt looks at people who may be connected in three ways.
TypeOK ==
  /\ trie \subseteq AllMasks /\ file \subseteq AllMasks /\ pending \in Seq(AllMasks)
  /\ conn \in [People -> {"no", "unknown", "client"}]

\* A hunt is for lines in memory, and a line that leaves memory is no longer hunted for.
IInv == TypeOK /\ settled \subseteq trie /\ LinesKept /\ HuntedStayOut

\* Nobody is let in whom a line keeps out, and nobody hunted for is let further in.
StaysOut(c, m) ==
  IF m \in KMasks THEN c \in Elined \/ conn[c] # "client" ELSE c \in Exempt \/ conn[c] = "no"

LEMMA HitsPeople ==
  ASSUME NEW m \in AllMasks, NEW c \in Hits[m]
  PROVE  c \in People /\ (m \notin KMasks => m \in DMasks) /\ (m \in DMasks => m \notin KMasks)
  BY KLinesAssumption DEF AllMasks

LEMMA InitIInv == KLinesInit => IInv
  BY DEF KLinesInit, IInv, TypeOK, LinesKept, HuntedStayOut, AllMasks

-----------------------------------------------------------------------------
(* Lists of lines.                                                         *)

LEMMA PendingLines ==
  ASSUME NEW S, NEW m \in S, NEW list \in Seq(S)
  PROVE  /\ <<m>> \o list \in Seq(S) /\ ToSet(list) \subseteq S
         /\ ToSet(<<m>> \o list) = {m} \cup ToSet(list)
<1> DEFINE new == <<m>> \o list
<1>1. /\ new \in Seq(S) /\ Len(new) = Len(list) + 1
      /\ \A i \in 1 .. Len(new) : new[i] = IF i = 1 THEN m ELSE list[i - 1]
  OBVIOUS
<1>2. DOMAIN new = 1 .. Len(new) /\ DOMAIN list = 1 .. Len(list) /\ Len(list) \in Nat
  BY <1>1
<1>3. ToSet(list) \subseteq S
  BY DEF ToSet
<1>4. ToSet(new) \subseteq {m} \cup ToSet(list)
  <2> SUFFICES ASSUME NEW i \in 1 .. Len(new) PROVE new[i] \in {m} \cup ToSet(list)
    BY <1>2 DEF ToSet
  <2>1. CASE i = 1
    BY <1>1, <2>1
  <2>2. CASE i # 1
    <3>1. i - 1 \in DOMAIN list /\ new[i] = list[i - 1]
      BY <1>1, <1>2, <2>2
    <3> QED BY <3>1 DEF ToSet
  <2> QED BY <2>1, <2>2
<1>5. m \in ToSet(new)
  <2>1. 1 \in DOMAIN new /\ new[1] = m
    BY <1>1, <1>2
  <2> QED BY <2>1 DEF ToSet
<1>6. ToSet(list) \subseteq ToSet(new)
  <2> SUFFICES ASSUME NEW i \in 1 .. Len(list) PROVE list[i] \in ToSet(new)
    BY <1>2 DEF ToSet
  <2>1. i + 1 \in DOMAIN new /\ new[i + 1] = list[i]
    BY <1>1, <1>2
  <2> QED BY <2>1 DEF ToSet
<1> QED BY <1>1, <1>3, <1>4, <1>5, <1>6

LEMMA NoPending == ToSet(<<>>) = {}
  BY DEF ToSet

-----------------------------------------------------------------------------
(* One lemma for each kind of action.                                      *)

\* An action that leaves the lines and the connections alone.
LEMMA Apart ==
  ASSUME IInv, UNCHANGED <<trie, pending, file, conn, owed, settled>>
  PROVE  IInv'
  BY DEF IInv, TypeOK, LinesKept, HuntedStayOut

\* A new line is in memory, unhunted, and in the file or pending, unless the operator
\* was told that it could not be written.
LEMMA StoreKeeps ==
  ASSUME IInv, NEW m \in AllMasks, NEW kindD \in BOOLEAN, Store(m, kindD), UNCHANGED conn
  PROVE  IInv'
<1>1. /\ trie' = trie \cup {m} /\ settled' = settled \ {m}
  BY DEF Store
<1>2. pending \in Seq(AllMasks) /\ ToSet(pending) \subseteq AllMasks
  BY PendingLines DEF IInv, TypeOK
<1>3. TypeOK' /\ LinesKept'
  <2>1. CASE LockedFile
    <3>1. pending' = <<m>> \o pending /\ owed' = owed \cup {m} /\ file' = file
      BY <2>1 DEF Store, AddPending
    <3>2. pending' \in Seq(AllMasks) /\ ToSet(pending') = {m} \cup ToSet(pending)
      BY <1>2, <3>1, PendingLines
    <3> QED BY <1>1, <3>1, <3>2 DEF IInv, TypeOK, LinesKept
  <2>2. CASE ~LockedFile
    <3>1. pending' = <<>> /\ WriteLines({m} \cup ToSet(pending))
      BY <2>2 DEF Store
    <3>2. PICK written \in SUBSET ({m} \cup ToSet(pending)) :
            /\ file' = file \cup written
            /\ owed' = (owed \cup ({m} \cup ToSet(pending)))
                         \ (({m} \cup ToSet(pending)) \ written)
      BY <3>1 DEF WriteLines
    <3>3. pending' \in Seq(AllMasks) /\ file' \subseteq AllMasks
      BY <1>2, <3>1, <3>2 DEF IInv, TypeOK
    <3>4. owed' \subseteq file'
      BY <3>2 DEF IInv, LinesKept
    <3> QED BY <1>1, <3>3, <3>4 DEF IInv, TypeOK, LinesKept
  <2> QED BY <2>1, <2>2
<1>4. HuntedStayOut'
  BY <1>1 DEF IInv, HuntedStayOut
<1> QED BY <1>1, <1>3, <1>4 DEF IInv

\* Memory becomes what the file says, or nothing.
LEMMA RereadKeeps ==
  ASSUME IInv, NEW kept \in SUBSET AllMasks, Reread(kept), file' \in SUBSET file,
         owed' \subseteq file' \cup ToSet(pending), UNCHANGED <<pending, conn>>
  PROVE  IInv'
  BY DEF IInv, TypeOK, LinesKept, HuntedStayOut, Reread

LEMMA RehashKeeps ==
  ASSUME IInv, NEW onlyD \in BOOLEAN, Rehash(onlyD)
  PROVE  IInv'
<1>1. PICK kept \in SUBSET AllMasks : Reread(kept)
  BY DEF Rehash, IInv, TypeOK
<1>2. file' \in SUBSET file /\ owed' \subseteq file' \cup ToSet(pending)
  BY DEF Rehash, IInv, LinesKept
<1> QED BY <1>1, <1>2, RereadKeeps DEF Rehash

LEMMA UnwriteKeeps ==
  ASSUME IInv, NEW m \in AllMasks, Unwrite(m), UNCHANGED <<pending, conn>>
  PROVE  IInv'
<1>1. file' \in SUBSET file /\ file' \in SUBSET AllMasks /\ Reread(file')
  BY DEF Unwrite, IInv, TypeOK
<1>2. owed' \subseteq file' \cup ToSet(pending)
  BY DEF Unwrite, IInv, LinesKept
<1> QED BY <1>1, <1>2, RereadKeeps

\* Whoever connects is not under a D-line in memory, whoever registers not under a
\* K-line; an action about one person moves nobody else.
LEMMA PersonKeeps ==
  ASSUME IInv, NEW c \in People, Accept(c) \/ Register(c) \/ Leave(c)
  PROVE  IInv'
<1>1. UNCHANGED <<trie, pending, file, owed, settled>>
  BY DEF Accept, Register, Leave
<1>2. conn' \in [People -> {"no", "unknown", "client"}]
  BY DEF Accept, Register, Leave, IInv, TypeOK
<1>3. TypeOK' /\ LinesKept' /\ settled' \subseteq trie'
  BY <1>1, <1>2 DEF IInv, TypeOK, LinesKept
<1>4. ASSUME NEW m \in settled, NEW x \in Hits[m] PROVE StaysOut(x, m)'
  <2>1. /\ m \in trie /\ m \in AllMasks /\ x \in People /\ StaysOut(x, m)
        /\ m \notin KMasks => m \in DMasks
    BY <1>4, HitsPeople DEF IInv, TypeOK, HuntedStayOut, StaysOut
  <2>2. CASE x # c
    <3>1. conn'[x] = conn[x]
      BY <2>1, <2>2 DEF Accept, Register, Leave, IInv, TypeOK
    <3> QED BY <2>1, <3>1 DEF StaysOut
  <2>3. CASE x = c /\ Accept(c)
    <3>1. conn'[c] = "unknown" /\ ~match_Dline(c)
      BY <2>3 DEF Accept, conf_connect_allowed, IInv, TypeOK
    <3> QED BY <1>4, <2>1, <2>3, <3>1 DEF StaysOut, match_Dline
  <2>4. CASE x = c /\ Register(c)
    <3>1. conn[c] = "unknown" /\ conn'[c] = IF verify_access(c) THEN "client" ELSE "no"
      BY <2>4 DEF Register, IInv, TypeOK
    <3>2. m \in KMasks => m \in MasksOn(c)
      BY <1>4, <2>4 DEF MasksOn
    <3> QED BY <2>1, <2>4, <3>1, <3>2 DEF StaysOut, verify_access, find_is_klined
  <2>5. CASE x = c /\ Leave(c)
    BY <2>1, <2>5 DEF Leave, StaysOut, IInv, TypeOK
  <2> QED BY <2>2, <2>3, <2>4, <2>5
<1>5. HuntedStayOut'
  BY <1>1, <1>4 DEF HuntedStayOut, StaysOut
<1> QED BY <1>3, <1>5 DEF IInv

\* The hunt takes everybody that the lines of its kind match.
LEMMA CheckPingsKeeps == IInv /\ CheckPings => IInv'
<1> SUFFICES ASSUME IInv, CheckPings PROVE IInv'
  OBVIOUS
<1>1. /\ UNCHANGED <<trie, pending, file, owed>>
      /\ conn' = [c \in People |-> IF Caught(c) THEN "no" ELSE conn[c]]
      /\ settled' = settled \cup (trie \cap IF dline_in_progress THEN DMasks ELSE KMasks)
  BY DEF CheckPings, Hunt
<1>2. TypeOK' /\ LinesKept' /\ settled' \subseteq trie'
  BY <1>1 DEF IInv, TypeOK, LinesKept
<1>3. ASSUME NEW m \in settled', NEW x \in Hits[m] PROVE StaysOut(x, m)'
  <2>1. /\ m \in trie /\ m \in AllMasks
    BY <1>1, <1>3 DEF IInv, TypeOK
  <2>2. /\ x \in People /\ (m \notin KMasks => m \in DMasks)
        /\ (m \in DMasks => m \notin KMasks)
    BY <1>3, <2>1, HitsPeople
  <2>3. conn'[x] = IF Caught(x) THEN "no" ELSE conn[x]
    BY <1>1, <2>2
  <2>4. CASE m \in settled
    <3>1. StaysOut(x, m)
      BY <1>3, <2>4 DEF IInv, HuntedStayOut, StaysOut
    <3> QED BY <2>3, <3>1 DEF StaysOut
  <2>5. CASE m \in DMasks /\ dline_in_progress
    BY <1>3, <2>1, <2>2, <2>3, <2>5 DEF StaysOut, Caught, match_Dline
  <2>6. CASE m \in KMasks /\ ~dline_in_progress
    <3>1. m \in MasksOn(x)
      BY <1>3, <2>6 DEF MasksOn
    <3>2. find_is_klined(x)
      BY <2>1, <3>1 DEF find_is_klined
    <3> QED BY <2>3, <2>6, <3>2 DEF StaysOut, Caught, find_kill
  <2> QED BY <1>1, <1>3, <2>4, <2>5, <2>6
<1>4. HuntedStayOut'
  BY <1>3 DEF HuntedStayOut, StaysOut
<1> QED BY <1>2, <1>4 DEF IInv

LEMMA NextKeeps == IInv /\ [KLinesNext]_klVars => IInv'
<1> SUFFICES ASSUME IInv, [KLinesNext]_klVars PROVE IInv'
  OBVIOUS
<1>1. ASSUME NEW m \in KMasks,
             Kline(m) \/ KlineRefused(m) \/ Unkline(m) \/ UnklineTemp(m)
      PROVE  IInv'
  <2>1. m \in AllMasks
    BY DEF AllMasks
  <2>2. CASE Kline(m)
    BY <2>1, <2>2, StoreKeeps DEF Kline
  <2>3. CASE Unkline(m)
    BY <2>1, <2>3, UnwriteKeeps DEF Unkline
  <2>4. CASE KlineRefused(m) \/ UnklineTemp(m)
    BY <2>4, Apart DEF KlineRefused, UnklineTemp
  <2> QED BY <1>1, <2>2, <2>3, <2>4
<1>2. ASSUME NEW d \in DMasks, Dline(d) \/ Undline(d) PROVE IInv'
  <2>1. d \in AllMasks
    BY DEF AllMasks
  <2>2. CASE Dline(d)
    BY <2>1, <2>2, StoreKeeps DEF Dline
  <2>3. CASE Undline(d)
    BY <2>1, <2>3, UnwriteKeeps DEF Undline
  <2> QED BY <1>2, <2>2, <2>3
<1>3. ASSUME NEW m \in KMasks, NEW seconds \in 1 .. MaxHold, TempKline(m, seconds)
      PROVE  IInv'
  BY <1>3, Apart DEF TempKline
<1>4. ASSUME NEW c \in People, Accept(c) \/ Register(c) \/ Leave(c) PROVE IInv'
  BY <1>4, PersonKeeps
<1>5. ASSUME NEW onlyD \in BOOLEAN, Rehash(onlyD) PROVE IInv'
  BY <1>5, RehashKeeps
<1>6. CASE CheckPings
  BY <1>6, CheckPingsKeeps
<1>7. CASE RehashTklines \/ Editor \/ Tick \/ UNCHANGED klVars
  BY <1>7, Apart DEF RehashTklines, Editor, Tick, klVars
<1> QED BY <1>1, <1>2, <1>3, <1>4, <1>5, <1>6, <1>7 DEF KLinesNext

-----------------------------------------------------------------------------
(* The theorem.                                                            *)

LEMMA Invariance == KLinesSpec => []IInv
  BY InitIInv, NextKeeps, PTL DEF KLinesSpec

\* verify_access refuses a client with an I-line only for a line in memory or one
\* that find_tkline has found, which has time left.
LEMMA ForALine ==
  ASSUME IInv, NEW c \in Ilined, Register(c), conn'[c] = "no"
  PROVE  MasksOn(c) \cap (trie \cup LiveLines) # {}
<1>1. c \in People
  BY KLinesAssumption
<1>2. find_is_klined(c)
  BY <1>1 DEF Register, verify_access, IInv, TypeOK
<1>3. CASE trie \cap MasksOn(c) # {}
  BY <1>3
<1>4. CASE find_tkline(MasksOn(c))
  <2>1. PICK l \in Lists : AnyIn(Live(temps[l]), MasksOn(c))
    BY <1>4 DEF find_tkline, expire_temp_klines
  <2>2. PICK i \in DOMAIN Live(temps[l]) : Live(temps[l])[i].mask \in MasksOn(c)
    BY <2>1 DEF AnyIn
  <2> DEFINE m == Live(temps[l])[i].mask
  <2>3. m \in KMasks /\ AnyIn(Live(temps[l]), {m})
    BY <2>2 DEF MasksOn, AnyIn
  <2>4. m \in LiveLines
    BY <2>3 DEF LiveLines
  <2> QED BY <2>2, <2>4
<1> QED BY <1>2, <1>3, <1>4 DEF find_is_klined

\* Whatever is added, taken back, locked, reread and hunted for: a permanent line that
\* was promised is in the file or waits for the editor, whoever a line that was hunted
\* for matches stays out (check_pings, verify_access, conf_connect_allowed), and nobody
\* is turned away for a line that has expired (find_tkline).
THEOREM KLinesCorrect == KLinesSpec => KLinesHold
<1>1. IInv => LinesKept /\ HuntedStayOut
  BY DEF IInv
<1>2. IInv => TurnedAway
  BY ForALine DEF TurnedAway
<1> QED BY <1>1, <1>2, Invariance, PTL DEF KLinesSpec, KLinesHold

-----------------------------------------------------------------------------
\* What the type of a scene says of its parts.
SceneType ==
  /\ scene.mem \in [Channel -> SUBSET Person]
  /\ scene.private \subseteq Channel /\ scene.secret \subseteq Channel
  /\ scene.invis \subseteq Person /\ scene.oper \subseteq Person

\* What an answer to v may have in it.
Seen(v, q, x) ==
  /\ x[2] # NoChannel => \/ ShowChannel(v, x[2])
                         \/ q = "who channel" /\ ~SecretChannel(x[2])
  /\ x[1] \in scene.invis \ {v} =>
       \/ \E c \in Channel : IsMember(v, c) /\ IsMember(x[1], c)
       \/ q \in {"who nick", "whois", "nick"}
       \/ q = "trace" /\ (v \in LocalPerson \/ x[1] \in scene.oper)

\* Who has to be in the answer to v.
Complete(v, q, pairs) ==
  \A p \in Person \ scene.invis :
    /\ q = "names all" =>
         IF Ways(v, p) # {} THEN \A c \in Ways(v, p) : <<p, c>> \in pairs
         ELSE (<<p, NoChannel>> \in pairs) = (On(p) \cap scene.secret = {})
    /\ q = "who" =>
         ((\E c \in Channel \cup {NoChannel} : <<p, c>> \in pairs)
            = (On(p) = {} \/ ~(On(p) \subseteq scene.secret) \/ Ways(v, p) # {}))

\* An answer to v shows what may be seen, and one of all is the answer to that.
Answered(v, t) ==
  /\ t.who = v
  /\ \A x \in t.pairs : Seen(v, t.q, x)
  /\ t.q = "names all" => t.pairs = m_names_all(v)
  /\ t.q = "who" => t.pairs = m_who_mask(v)

\* What do_who gives of a person.
LEMMA WhoIs ==
  ASSUME SceneType, NEW v \in Person, NEW p \in Person, NEW x \in do_who(v, p)
  PROVE  /\ x[1] = p
         /\ x[2] # NoChannel => x[2] \in WhoOn(v, p)
         /\ WhoOn(v, p) # {} => x[2] \in WhoOn(v, p)
<1>1. CASE WhoOn(v, p) = {}
  BY <1>1 DEF do_who
<1>2. CASE WhoOn(v, p) # {}
  BY <1>2 DEF do_who
<1> QED BY <1>1, <1>2

\* WHO with a nick may tell of him; a mask, of who is asked about then.
LEMMA WhoSeen ==
  ASSUME SceneType, NEW v \in Person, NEW p \in Person, NEW x \in do_who(v, p)
  PROVE  /\ Seen(v, "who nick", x)
         /\ p \notin scene.invis \/ WhoOn(v, p) # {} => Seen(v, "who", x)
<1>1. /\ x[1] = p
      /\ x[2] # NoChannel => x[2] \in WhoOn(v, p)
      /\ WhoOn(v, p) # {} => x[2] \in WhoOn(v, p)
  BY WhoIs
<1>2. x[2] \in WhoOn(v, p) => ShowChannel(v, x[2])
  BY DEF WhoOn, ShowChannel
<1>3. \A c \in WhoOn(v, p) : c \in Channel /\ IsMember(p, c) /\ (p \in scene.invis => IsMember(v, c))
  BY DEF WhoOn, On
<1>4. x[2] # NoChannel => ShowChannel(v, x[2])
  BY <1>1, <1>2
<1>5. Seen(v, "who nick", x)
  BY <1>4 DEF Seen
<1>6. ASSUME p \notin scene.invis \/ WhoOn(v, p) # {}, x[1] \in scene.invis
      PROVE  \E c \in Channel : IsMember(v, c) /\ IsMember(x[1], c)
  <2>1. p \in scene.invis /\ x[2] \in WhoOn(v, p)
    BY <1>1, <1>6
  <2>2. x[2] \in Channel /\ IsMember(v, x[2]) /\ IsMember(p, x[2])
    BY <2>1, <1>3
  <2> QED BY <2>2, <1>1
<1>7. p \notin scene.invis \/ WhoOn(v, p) # {} => Seen(v, "who", x)
  BY <1>4, <1>6 DEF Seen
<1> QED BY <1>5, <1>7

\* NAMES shows who may be seen, of one channel and of all.
LEMMA NamesSeen ==
  ASSUME SceneType, NEW v \in Person, NEW c \in Channel, NEW x \in m_names_channel(v, c)
  PROVE  Seen(v, "names", x) /\ Seen(v, "names all", x)
<1>1. ShowChannel(v, c)
  BY DEF m_names_channel
<1>2. PICK p \in scene.mem[c] : x = <<p, c>> /\ (p \notin scene.invis \/ IsMember(v, c))
  BY <1>1 DEF m_names_channel
<1>3. IsMember(p, c) /\ x[1] = p /\ x[2] = c
  BY <1>2 DEF IsMember
<1> QED BY <1>1, <1>2, <1>3 DEF Seen

\* Each answer shows what may be seen.
LEMMA AnswerSeen ==
  ASSUME SceneType, QueriesAssumption, NEW v \in Person, NEW t \in Answers(v)
  PROVE  Answered(v, t)
<1>1. ASSUME NEW c \in Channel, t = Told(v, "who channel", m_who_channel(v, c))
      PROVE  Answered(v, t)
  <2>1. t.who = v /\ t.q = "who channel" /\ t.pairs = m_who_channel(v, c)
    BY <1>1 DEF Told
  <2>2. ASSUME NEW x \in m_who_channel(v, c) PROVE Seen(v, "who channel", x)
    <3>1. ~SecretChannel(c) \/ IsMember(v, c)
      BY DEF m_who_channel
    <3>2. PICK p \in scene.mem[c] : x = <<p, c>> /\ (p \notin scene.invis \/ IsMember(v, c))
      BY <3>1 DEF m_who_channel
    <3>3. IsMember(p, c) /\ x[1] = p /\ x[2] = c
      BY <3>2 DEF IsMember
    <3> QED BY <3>1, <3>2, <3>3 DEF Seen, ShowChannel
  <2> QED BY <2>1, <2>2 DEF Answered
<1>2. ASSUME NEW p \in Person, t = Told(v, "who nick", m_who_nick(v, p))
      PROVE  Answered(v, t)
  <2>1. t.who = v /\ t.q = "who nick" /\ t.pairs = do_who(v, p)
    BY <1>2 DEF Told, m_who_nick
  <2>2. \A x \in do_who(v, p) : Seen(v, "who nick", x)
    BY WhoSeen
  <2> QED BY <2>1, <2>2 DEF Answered
<1>3. ASSUME NEW c \in Channel, t = Told(v, "names", m_names_channel(v, c))
      PROVE  Answered(v, t)
  <2>1. t.who = v /\ t.q = "names" /\ t.pairs = m_names_channel(v, c)
    BY <1>3 DEF Told
  <2>2. \A x \in m_names_channel(v, c) : Seen(v, "names", x)
    BY NamesSeen
  <2> QED BY <2>1, <2>2 DEF Answered
<1>4. ASSUME NEW p \in Person, t = Told(v, "whois", m_whois(v, p))
      PROVE  Answered(v, t)
  <2>1. t.who = v /\ t.q = "whois" /\ t.pairs = m_whois(v, p)
    BY <1>4 DEF Told
  <2>2. ASSUME NEW x \in m_whois(v, p) PROVE Seen(v, "whois", x)
    <3>1. x[2] = NoChannel \/ ShowChannel(v, x[2])
      BY DEF m_whois
    <3> QED BY <3>1 DEF Seen
  <2> QED BY <2>1, <2>2 DEF Answered
<1>5. ASSUME NEW p \in Person, NEW pairs, t = Told(v, "nick", pairs),
             pairs \in {m_trace_nick(v, p), m_ltrace_nick(v, p), m_ison(v, p), m_userhost(v, p)}
      PROVE  Answered(v, t)
  <2>1. t.who = v /\ t.q = "nick" /\ t.pairs = pairs
    BY <1>5 DEF Told
  <2>2. \A x \in pairs : x[2] = NoChannel
    BY <1>5 DEF m_trace_nick, m_ltrace_nick, m_ison, m_userhost
  <2> QED BY <2>1, <2>2 DEF Answered, Seen
<1>6. ASSUME t = Told(v, "who", m_who_mask(v))
      PROVE  Answered(v, t)
  <2>1. t.who = v /\ t.q = "who" /\ t.pairs = m_who_mask(v)
    BY <1>6 DEF Told
  <2>2. ASSUME NEW x \in m_who_mask(v) PROVE Seen(v, "who", x)
    <3>1. PICK p \in Person : x \in do_who(v, p) /\ (p \notin scene.invis \/ WhoOn(v, p) # {})
      BY DEF m_who_mask
    <3> QED BY <3>1, WhoSeen
  <2> QED BY <2>1, <2>2 DEF Answered
<1>7. ASSUME t = Told(v, "names all", m_names_all(v))
      PROVE  Answered(v, t)
  <2>1. t.who = v /\ t.q = "names all" /\ t.pairs = m_names_all(v)
    BY <1>7 DEF Told
  <2>2. ASSUME NEW x \in m_names_all(v) PROVE Seen(v, "names all", x)
    <3>1. CASE \E c \in Channel : x \in m_names_channel(v, c)
      BY <3>1, NamesSeen
    <3>2. CASE x[2] = NoChannel /\ x[1] \notin scene.invis
      BY <3>2 DEF Seen
    <3>3. \/ \E c \in Channel : x \in m_names_channel(v, c)
          \/ \E q \in Person \ scene.invis : x = <<q, NoChannel>>
      BY DEF m_names_all
    <3>4. ASSUME NEW q \in Person \ scene.invis, x = <<q, NoChannel>>
          PROVE  x[2] = NoChannel /\ x[1] \notin scene.invis
      BY <3>4
    <3> QED BY <3>1, <3>2, <3>3, <3>4
  <2> QED BY <2>1, <2>2 DEF Answered
<1>8. ASSUME NEW pairs \in {m_trace(v), m_ltrace(v)}, t = Told(v, "trace", pairs)
      PROVE  Answered(v, t)
  <2>1. t.who = v /\ t.q = "trace" /\ t.pairs = pairs
    BY <1>8 DEF Told
  <2>2. pairs \subseteq m_trace(v)
    BY <1>8 DEF m_ltrace
  <2>3. ASSUME NEW x \in m_trace(v) PROVE Seen(v, "trace", x)
    <3>1. x[2] = NoChannel /\ (x[1] \in scene.invis => v \in LocalPerson \/ x[1] \in scene.oper \/ x[1] = v)
      BY DEF m_trace
    <3> QED BY <3>1 DEF Seen
  <2> QED BY <2>1, <2>2, <2>3 DEF Answered
<1>9. ASSUME t = Told(v, "list", {<<NoOne, c>> : c \in m_list_named(v)})
      PROVE  Answered(v, t)
  <2>1. t.who = v /\ t.q = "list" /\ t.pairs = {<<NoOne, c>> : c \in m_list_named(v)}
    BY <1>9 DEF Told
  <2>2. ASSUME NEW c \in m_list_named(v) PROVE Seen(v, "list", <<NoOne, c>>)
    BY QueriesAssumption DEF m_list_named, Seen, SceneType
  <2> QED BY <2>1, <2>2 DEF Answered
<1> QED BY <1>1, <1>2, <1>3, <1>4, <1>5, <1>6, <1>7, <1>8, <1>9 DEF Answers

\* WHO and NAMES of all pass over nobody who may be seen.
LEMMA AnswerComplete ==
  ASSUME SceneType, QueriesAssumption, NEW v \in Person, NEW t, Answered(v, t)
  PROVE  Complete(v, t.q, t.pairs)
<1>1. CASE t.q = "names all"
  <2>1. t.q = "names all" /\ t.pairs = m_names_all(v)
    BY <1>1 DEF Answered
  <2>2. ASSUME NEW p \in Person \ scene.invis, NEW c \in Ways(v, p)
        PROVE  <<p, c>> \in m_names_all(v)
    <3>1. c \in Channel /\ <<p, c>> \in m_names_channel(v, c)
      BY DEF Ways, m_names_channel, IsMember
    <3> QED BY <3>1 DEF m_names_all
  <2>3. ASSUME NEW p \in Person \ scene.invis, Ways(v, p) = {}
        PROVE  (<<p, NoChannel>> \in m_names_all(v)) = (On(p) \cap scene.secret = {})
    <3>1. ASSUME NEW c \in Channel PROVE <<p, NoChannel>> \notin m_names_channel(v, c)
      BY QueriesAssumption DEF m_names_channel
    <3>2. \A c \in On(p) : ~ShowChannel(v, c)
      BY <2>3 DEF Ways, On
    <3> DEFINE rest == {q \in Person \ scene.invis :
                          \A c \in On(q) : ~ShowChannel(v, c) /\ ~SecretChannel(c)}
    <3>3. <<p, NoChannel>> \in m_names_all(v) <=> <<p, NoChannel>> \in {<<q, NoChannel>> : q \in rest}
      BY <3>1, Zenon DEF m_names_all
    <3>4. <<p, NoChannel>> \in {<<q, NoChannel>> : q \in rest} <=> p \in rest
      <4> HIDE DEF rest
      <4> QED OBVIOUS
    <3>5. <<p, NoChannel>> \in m_names_all(v) <=> \A c \in On(p) : ~ShowChannel(v, c) /\ ~SecretChannel(c)
      BY <3>3, <3>4
    <3> QED BY <3>2, <3>5 DEF SecretChannel
  <2>4. ASSUME NEW p \in Person \ scene.invis
        PROVE  IF Ways(v, p) # {} THEN \A c \in Ways(v, p) : <<p, c>> \in t.pairs
               ELSE (<<p, NoChannel>> \in t.pairs) = (On(p) \cap scene.secret = {})
    <3>1. CASE Ways(v, p) # {}
      BY <2>1, <2>2, <3>1
    <3>2. CASE Ways(v, p) = {}
      BY <2>1, <2>3, <3>2
    <3> QED BY <3>1, <3>2
  <2> QED BY <2>1, <2>4 DEF Complete
<1>2. CASE t.q = "who"
  <2>1. t.q = "who" /\ t.pairs = m_who_mask(v)
    BY <1>2 DEF Answered
  <2>2. ASSUME NEW p \in Person \ scene.invis
        PROVE  (\E c \in Channel \cup {NoChannel} : <<p, c>> \in m_who_mask(v))
                 <=> (On(p) = {} \/ ~(On(p) \subseteq scene.secret) \/ Ways(v, p) # {})
    <3>1. WhoOn(v, p) = Ways(v, p)
      BY DEF WhoOn, Ways, On, ShowChannel
    <3> DEFINE asked == WhoOn(v, p) # {} \/ On(p) = {} \/ \E c \in On(p) : HiddenChannel(c) /\ ~SecretChannel(c)
    <3>2. asked <=> (On(p) = {} \/ ~(On(p) \subseteq scene.secret) \/ Ways(v, p) # {})
      BY <3>1 DEF WhoOn, On, HiddenChannel, SecretChannel, PubChannel
    <3>3. ASSUME asked PROVE \E c \in Channel \cup {NoChannel} : <<p, c>> \in m_who_mask(v)
      <4>1. do_who(v, p) \subseteq m_who_mask(v)
        BY <3>3 DEF m_who_mask
      <4>2. \E c \in Channel \cup {NoChannel} : <<p, c>> \in do_who(v, p)
        BY DEF do_who, WhoOn, On
      <4> QED BY <4>1, <4>2
    <3>4. ASSUME NEW c \in Channel \cup {NoChannel}, <<p, c>> \in m_who_mask(v) PROVE asked
      <4>1. PICK q \in Person : /\ <<p, c>> \in do_who(v, q)
                                /\ \/ WhoOn(v, q) # {}
                                   \/ On(q) = {}
                                   \/ \E d \in On(q) : HiddenChannel(d) /\ ~SecretChannel(d)
        BY <3>4 DEF m_who_mask
      <4>2. q = p
        BY <4>1, WhoIs
      <4> QED BY <4>1, <4>2
    <3> QED BY <3>2, <3>3, <3>4
  <2> QED BY <2>1, <2>2 DEF Complete
<1>3. CASE t.q \notin {"who", "names all"}
  BY <1>3 DEF Complete
<1> QED BY <1>1, <1>2, <1>3

\* What has to be in an answer depends on the scene, and not on the answer.
LEMMA CompleteStays ==
  ASSUME scene' = scene
  PROVE  /\ \A w, q, pairs : Complete(w, q, pairs)' <=> Complete(w, q, pairs)
         /\ NothingLost <=> Complete(answer.who, answer.q, answer.pairs)
         /\ NothingLost' <=> Complete(answer'.who, answer'.q, answer'.pairs)
<1>1. \A w, q, pairs : Complete(w, q, pairs)' <=> Complete(w, q, pairs)
  BY DEF Complete, Ways, On, ShowChannel, IsMember, PubChannel
<1>2. NothingLost <=> Complete(answer.who, answer.q, answer.pairs)
  BY Zenon DEF NothingLost, Complete
<1>3. NothingLost' <=> Complete(answer.who, answer.q, answer.pairs)'
  BY Zenon DEF NothingLost, Complete
<1> QED BY <1>1, <1>2, <1>3

\* A question is answered so.
LEMMA AskKeeps ==
  ASSUME SceneType, NEW v \in Person, Ask(v) PROVE SceneType' /\ Discreet'
<1>1. answer' \in Answers(v) /\ scene' = scene
  BY DEF Ask
<1>2. Answered(v, answer') /\ Complete(v, answer'.q, answer'.pairs)
  BY <1>1, AnswerSeen, AnswerComplete, QueriesAssumption
<1>3. Sparing'
  BY <1>1, <1>2 DEF Sparing, Answered, Seen, ShowChannel, SecretChannel, IsMember, PubChannel
<1>4. NothingLost'
  <2>1. Complete(answer'.who, answer'.q, answer'.pairs)
    BY <1>2 DEF Answered
  <2> QED BY <1>1, <2>1, CompleteStays
<1>5. SceneType'
  BY <1>1 DEF SceneType
<1> QED BY <1>3, <1>4, <1>5 DEF Discreet

\* No answer tells of a secret or private channel, or of somebody invisible, whom
\* the code does not mean to tell, and WHO and NAMES of all pass over nobody else.
THEOREM DiscreetCorrect == QuerySpec => []Discreet
<1>1. QueryInit => SceneType /\ Discreet
  BY QueriesAssumption DEF QueryInit, SceneType, Discreet, Sparing, NothingLost, Told
<1>2. SceneType /\ Discreet /\ [QueryNext]_queryVars => SceneType' /\ Discreet'
  <2>1. ASSUME SceneType, Discreet, UNCHANGED queryVars PROVE SceneType' /\ Discreet'
    <3>1. scene' = scene /\ answer' = answer
      BY <2>1 DEF queryVars
    <3>2. SceneType' /\ Sparing'
      BY <2>1, <3>1 DEF SceneType, Discreet, Sparing, ShowChannel, SecretChannel, IsMember, PubChannel
    <3>3. NothingLost'
      BY <2>1, <3>1, CompleteStays DEF Discreet
    <3> QED BY <3>2, <3>3 DEF Discreet
  <2> QED BY <2>1, AskKeeps DEF QueryNext
<1> QED BY <1>1, <1>2, PTL DEF QuerySpec

-----------------------------------------------------------------------------
(* Floods of private messages.                                             *)

DroneType ==
  /\ now \in DRONETIME..MaxTime
  /\ drone \in [first : 0..MaxTime, number : 0..Flood, noticed : 0..2]
  /\ drone.first <= now
  /\ queue \in 0..Sendq /\ notice \in {"off", "on"} /\ dropped \in BOOLEAN
  /\ sent \in [0..MaxTime -> 0..Flood]

\* The messages from second f on, up to Flood in each.
SentSince(f, s) == {p \in (f..now) \X (1..Flood) : p[2] <= s[p[1]]}

\* drone.number counts no more messages than there were since drone.first, and a
\* client whose messages are thrown away was told.
DroneInv ==
  /\ DroneType /\ LostInFloodOnly
  /\ drone.number <= Cardinality(SentSince(drone.first, sent))
  /\ drone.noticed = 2 => notice = "on"

LEMMA FloodIs == Flood \in Nat \ {0} /\ Flood = DRONECOUNT + 1 /\ \A n \in Nat : n > DRONECOUNT <=> n >= Flood
BY DroneSettings DEF Flood

LEMMA SentFinite ==
  ASSUME NEW f \in Int, NEW s, now \in Int
  PROVE  IsFiniteSet(SentSince(f, s)) /\ Cardinality(SentSince(f, s)) \in Nat
<1>1. IsFiniteSet(f..now) /\ IsFiniteSet(1..Flood)
  BY FloodIs, FS_Interval
<1>2. IsFiniteSet((f..now) \X (1..Flood))
  BY <1>1, FS_Product
<1>3. SentSince(f, s) \in SUBSET ((f..now) \X (1..Flood))
  BY DEF SentSince
<1> QED BY <1>2, <1>3, FS_Subset, FS_CardinalityType

LEMMA RecentIs == Recent = SentSince(now - DRONETIME, sent)
BY DEF Recent, SentSince

LEMMA SentMore ==
  ASSUME DroneType, NEW f \in 0..now,
         NEW s, s = [sent EXCEPT ![now] = IF @ < Flood THEN @ + 1 ELSE @]
  PROVE  /\ s \in [0..MaxTime -> 0..Flood]
         /\ Cardinality(SentSince(f, sent)) <= Cardinality(SentSince(f, s))
         /\ Cardinality(SentSince(f, s)) >= Flood \/ Cardinality(SentSince(f, s)) >= Cardinality(SentSince(f, sent)) + 1
<1>1. now \in 0..MaxTime /\ now \in Int /\ f \in Int /\ sent[now] \in 0..Flood /\ Flood \in Nat
  BY DroneSettings, FloodIs DEF DroneType
<1>2. s \in [0..MaxTime -> 0..Flood] /\ (\A t \in 0..MaxTime : s[t] = IF t = now THEN (IF sent[t] < Flood THEN sent[t] + 1 ELSE sent[t]) ELSE sent[t])
  BY <1>1 DEF DroneType
<1>3. SentSince(f, sent) \in SUBSET SentSince(f, s)
  <2> SUFFICES ASSUME NEW t \in f..now, NEW n \in 1..Flood, n <= sent[t] PROVE n <= s[t]
    BY DEF SentSince
  <2>1. t \in 0..MaxTime
    <3>1. now \in Nat /\ now <= MaxTime /\ MaxTime \in Nat /\ f \in Nat
      BY <1>1, DroneSettings
    <3> QED BY <3>1
  <2>2. sent[t] \in 0..Flood
    BY <2>1 DEF DroneType
  <2> QED BY <1>2, <2>1, <2>2
<1>4. /\ IsFiniteSet(SentSince(f, s)) /\ Cardinality(SentSince(f, s)) \in Nat
      /\ IsFiniteSet(SentSince(f, sent)) /\ Cardinality(SentSince(f, sent)) \in Nat
  BY <1>1, SentFinite
<1>5. Cardinality(SentSince(f, sent)) <= Cardinality(SentSince(f, s))
  BY <1>3, <1>4, FS_Subset
<1>6. CASE sent[now] < Flood
  <2> DEFINE p == <<now, sent[now] + 1>>
  <2>1. p \in SentSince(f, s) /\ p \notin SentSince(f, sent)
    <3>1. now \in f..now /\ sent[now] + 1 \in 1..Flood
      BY <1>1, <1>6
    <3>2. s[now] = sent[now] + 1
      BY <1>1, <1>2, <1>6
    <3>3. ~(sent[now] + 1 <= sent[now])
      BY <1>1
    <3>4. p \in (f..now) \X (1..Flood) /\ p[1] = now /\ p[2] = sent[now] + 1
      BY <3>1
    <3>5. p[2] <= s[p[1]]
      BY <1>1, <3>2, <3>4
    <3> HIDE DEF p
    <3>6. p \in SentSince(f, s)
      BY <3>4, <3>5 DEF SentSince
    <3>7. p \notin SentSince(f, sent)
      BY <3>3, <3>4 DEF SentSince
    <3> QED BY <3>6, <3>7
  <2>2. Cardinality(SentSince(f, s)) # Cardinality(SentSince(f, sent))
    BY <1>3, <1>4, <2>1, FS_Subset
  <2> QED BY <1>2, <1>4, <1>5, <2>2
<1>7. CASE ~(sent[now] < Flood)
  <2>1. s[now] = Flood
    BY <1>1, <1>2, <1>7
  <2> DEFINE P == {now} \X (1..Flood)
  <2>2. P \in SUBSET SentSince(f, s)
    <3>1. now \in f..now
      BY <1>1
    <3>2. \A p \in P : p \in (f..now) \X (1..Flood) /\ p[1] = now /\ p[2] \in 1..Flood
      BY <3>1
    <3>3. \A p \in P : p[2] <= s[p[1]]
      BY <1>1, <2>1, <3>2
    <3> HIDE DEF P
    <3> QED BY <3>2, <3>3 DEF SentSince
  <2>3. Cardinality(P) = Flood
    <3>1. \A n \in Nat : IsFiniteSet(1..n) /\ Cardinality(1..n) = n
      BY FS_Interval
    <3>2. IsFiniteSet({now}) /\ Cardinality({now}) = 1
      BY FS_Singleton
    <3>3. IsFiniteSet(1..Flood) /\ Cardinality(1..Flood) = Flood
      BY <1>1, <3>1
    <3> DEFINE I == {now}
               J == 1..Flood
    <3>4. IsFiniteSet(I) /\ IsFiniteSet(J) /\ Cardinality(I) = 1 /\ Cardinality(J) = Flood
      BY <3>2, <3>3
    <3> HIDE DEF I, J
    <3>5. Cardinality(I \X J) = Cardinality(I) * Cardinality(J)
      BY <3>4, FS_Product
    <3>6. Cardinality(I \X J) = Flood
      BY <1>1, <3>4, <3>5
    <3> QED BY <3>6 DEF I, J
  <2>4. Cardinality(P) <= Cardinality(SentSince(f, s))
    <3> HIDE DEF P
    <3> QED BY <1>4, <2>2, FS_Subset
  <2> HIDE DEF P
  <2> QED BY <1>1, <1>2, <1>4, <1>5, <2>3, <2>4
<1> QED BY <1>6, <1>7

\* A record of the protection: its fields.
LEMMA DroneIs ==
  LET R == [first : 0..MaxTime, number : 0..Flood, noticed : 0..2] IN
  /\ \A r \in R : r.first \in 0..MaxTime /\ r.number \in 0..Flood /\ r.noticed \in 0..2
  /\ \A f \in 0..MaxTime, n \in 0..Flood, x \in 0..2 : [first |-> f, number |-> n, noticed |-> x] \in R
  /\ \A r \in R : \A n \in 0..Flood : [r EXCEPT !.number = n] = [first |-> r.first, number |-> n, noticed |-> r.noticed]
  /\ \A r \in R : \A x \in 0..2 : [r EXCEPT !.noticed = x] = [first |-> r.first, number |-> r.number, noticed |-> x]
OBVIOUS

LEMMA PrivmsgStep ==
  ASSUME DroneInv, Privmsg PROVE DroneInv'
<1> DEFINE R == [first : 0..MaxTime, number : 0..Flood, noticed : 0..2]
<1>1. /\ now \in DRONETIME..MaxTime /\ now \in Nat /\ MaxTime \in Nat /\ now <= MaxTime /\ DRONETIME \in Nat
      /\ drone \in R /\ drone.first \in 0..now /\ drone.number \in 0..Flood /\ drone.noticed \in 0..2
      /\ queue \in 0..Sendq /\ Sendq \in Nat /\ notice \in {"off", "on"} /\ DroneType
      /\ drone.number <= Cardinality(SentSince(drone.first, sent))
      /\ (drone.noticed = 2 => notice = "on")
  BY DroneSettings, DroneIs DEF DroneInv, DroneType
<1>2. now' = now /\ sent' = [sent EXCEPT ![now] = IF @ < Flood THEN @ + 1 ELSE @]
  BY DEF Privmsg
<1> DEFINE s == sent'
<1>3. s \in [0..MaxTime -> 0..Flood]
      /\ \A f \in 0..now : /\ Cardinality(SentSince(f, sent)) <= Cardinality(SentSince(f, s))
                           /\ \/ Cardinality(SentSince(f, s)) >= Flood
                              \/ Cardinality(SentSince(f, s)) >= Cardinality(SentSince(f, sent)) + 1
  BY <1>1, <1>2, SentMore
<1>4. \A f \in 0..now : Cardinality(SentSince(f, s)) \in Nat /\ Cardinality(SentSince(f, sent)) \in Nat
  BY <1>1, SentFinite
<1> HIDE DEF s
<1>5. Flood \in Nat \ {0} /\ Flood = DRONECOUNT + 1 /\ DRONECOUNT \in Nat
  BY FloodIs, DroneSettings
<1>6. \A f, x : SentSince(f, x)' = SentSince(f', x')
  BY <1>2 DEF SentSince
<1>7. \/ Passes
      \/ dropped' = TRUE /\ UNCHANGED queue
  BY DEF Privmsg
<1>8. queue' \in 0..Sendq /\ dropped' \in BOOLEAN
  <2>1. queue' = queue \/ (queue < Sendq /\ queue' = queue + 1)
    BY <1>7 DEF Passes
  <2>2. dropped' = TRUE \/ dropped' = FALSE
    BY <1>7 DEF Passes
  <2>3. queue' \in 0..Sendq
    BY <1>1, <2>1
  <2> QED BY <2>2, <2>3
<1> DEFINE Safe(d, n) == /\ d \in R /\ d.first \in 0..now /\ d.number <= Cardinality(SentSince(d.first, s))
                         /\ n \in {"off", "on"} /\ (d.noticed = 2 => n = "on")
<1>9. ASSUME Safe(drone', notice'),
             dropped' => /\ notice' = "on" /\ queue' > Sendq \div 4
                         /\ Cardinality(SentSince(now - DRONETIME, s)) > DRONECOUNT
      PROVE  DroneInv'
  <2>1. DroneType'
    BY <1>1, <1>2, <1>3, <1>8, <1>9 DEF DroneType, s
  <2>2. (Cardinality(SentSince(drone.first, sent)))' = Cardinality(SentSince(drone'.first, s))
    BY <1>2 DEF SentSince, s
  <2>3. Recent' = SentSince(now - DRONETIME, s)
    BY <1>2 DEF Recent, SentSince, s
  <2>4. LostInFloodOnly'
    BY <1>9, <2>3 DEF LostInFloodOnly
  <2> QED BY <1>9, <2>1, <2>2, <2>4 DEF DroneInv
<1>10. CASE drone.first + DRONETIME < now /\ drone' = [first |-> now, number |-> 1, noticed |-> 0]
            /\ notice' = notice /\ Passes
  <2>1. drone' \in R /\ drone'.first = now /\ drone'.number = 1 /\ drone'.noticed = 0
    <3>1. now \in 0..MaxTime /\ 1 \in 0..Flood /\ 0 \in 0..2
      BY <1>1, <1>5
    <3> QED BY <1>10, <3>1, DroneIs
  <2>2. now \in 0..now
    BY <1>1
  <2>3. 1 <= Cardinality(SentSince(now, s))
    BY <1>3, <1>4, <1>5, <2>2
  <2>4. ~dropped'
    BY <1>10 DEF Passes
  <2>5. Safe(drone', notice')
    BY <1>1, <1>10, <2>1, <2>2, <2>3
  <2> QED BY <1>9, <2>4, <2>5
<1>11. CASE drone.number <= DRONECOUNT /\ drone' = [drone EXCEPT !.number = @ + 1]
            /\ notice' = notice /\ Passes
  <2>1. drone.number + 1 \in 0..Flood
    BY <1>1, <1>5, <1>11
  <2>2. /\ drone' \in R /\ drone'.first = drone.first /\ drone'.number = drone.number + 1
        /\ drone'.noticed = drone.noticed
    <3>1. drone' = [first |-> drone.first, number |-> drone.number + 1, noticed |-> drone.noticed]
      BY <1>1, <1>11, <2>1, DroneIs
    <3>2. drone.first \in 0..MaxTime
      BY <1>1
    <3> QED BY <1>1, <2>1, <3>1, <3>2, DroneIs
  <2>3. drone.number + 1 <= Cardinality(SentSince(drone.first, s))
    <3> DEFINE x == Cardinality(SentSince(drone.first, s))
               y == Cardinality(SentSince(drone.first, sent))
    <3>1. x \in Nat /\ y \in Nat /\ (x >= Flood \/ x >= y + 1) /\ drone.number <= y
      BY <1>1, <1>3, <1>4
    <3> HIDE DEF x, y
    <3>2. drone.number + 1 <= x
      BY <1>1, <2>1, <3>1, <1>5
    <3> QED BY <3>2 DEF x
  <2>4. ~dropped'
    BY <1>11 DEF Passes
  <2>5. Safe(drone', notice')
    BY <1>1, <1>11, <2>2, <2>3
  <2> QED BY <1>9, <2>4, <2>5
<1>12. CASE /\ drone.first + DRONETIME >= now /\ drone.number > DRONECOUNT
            /\ drone' = [drone EXCEPT !.noticed = Protect(IF @ = 0 THEN 1 ELSE @)]
            /\ notice' = LastNotice(drone.noticed, drone'.noticed)
            /\ IF drone'.noticed > 1 THEN dropped' = TRUE /\ UNCHANGED queue ELSE Passes
  <2> DEFINE m == IF drone.noticed = 0 THEN 1 ELSE drone.noticed
  <2>1. m \in 0..2 /\ Protect(m) \in 0..2 /\ (Protect(m) = 2 => queue > Sendq \div 4)
    <3>1. m \in 0..2 /\ Protect(m) \in 0..2
      BY <1>1 DEF Protect
    <3>2. queue > Sendq \div 2 => queue > Sendq \div 4
      BY <1>1
    <3>3. Protect(m) = 2 => (m = 1 /\ queue > Sendq \div 2) \/ (m = 2 /\ ~(queue <= Sendq \div 4))
      BY <1>1 DEF Protect
    <3>4. ~(queue <= Sendq \div 4) => queue > Sendq \div 4
      BY <1>1
    <3> HIDE DEF m
    <3> QED BY <3>1, <3>2, <3>3, <3>4
  <2> HIDE DEF m
  <2>2. /\ drone' \in R /\ drone'.first = drone.first /\ drone'.number = drone.number
        /\ drone'.noticed = Protect(m)
    <3>1. drone' = [first |-> drone.first, number |-> drone.number, noticed |-> Protect(m)]
      BY <1>1, <1>12, <2>1, DroneIs DEF m
    <3>2. drone.first \in 0..MaxTime
      BY <1>1
    <3> QED BY <1>1, <2>1, <3>1, <3>2, DroneIs
  <2>3. /\ notice' \in {"off", "on"}
        /\ drone'.noticed = 2 => notice' = "on"
    BY <1>1, <1>12 DEF LastNotice
  <2>4. drone.number <= Cardinality(SentSince(drone.first, s))
    <3> DEFINE x == Cardinality(SentSince(drone.first, s))
               y == Cardinality(SentSince(drone.first, sent))
    <3>1. x \in Nat /\ y \in Nat /\ y <= x /\ drone.number <= y
      BY <1>1, <1>3, <1>4
    <3> HIDE DEF x, y
    <3>2. drone.number <= x
      BY <1>1, <3>1
    <3> QED BY <3>2 DEF x
  <2>5. Safe(drone', notice')
    BY <1>1, <2>2, <2>3, <2>4
  <2>6. dropped' => drone'.noticed = 2 /\ queue' = queue
    <3>1. drone'.noticed > 1 => drone'.noticed = 2
      BY <2>1, <2>2
    <3> QED BY <1>12, <3>1 DEF Passes
  <2>7. Cardinality(SentSince(now - DRONETIME, s)) > DRONECOUNT
    <3> DEFINE A == SentSince(drone.first, s)
               B == SentSince(now - DRONETIME, s)
    <3>1. A \in SUBSET B
      <4>1. \A t \in drone.first..now : t \in (now - DRONETIME)..now
        BY <1>1, <1>12
      <4> QED BY <4>1 DEF SentSince
    <3>2. IsFiniteSet(B) /\ Cardinality(B) \in Nat /\ Cardinality(A) \in Nat
      BY <1>1, SentFinite
    <3> HIDE DEF A, B
    <3>3. Cardinality(A) <= Cardinality(B)
      BY <3>1, <3>2, FS_Subset
    <3>4. drone.number <= Cardinality(A)
      BY <2>4 DEF A
    <3>5. Cardinality(B) > DRONECOUNT
      BY <1>1, <1>5, <1>12, <3>2, <3>3, <3>4
    <3> QED BY <3>5 DEF B
  <2> QED BY <1>9, <2>1, <2>2, <2>3, <2>5, <2>6, <2>7
<1> HIDE DEF s, Safe
<1> QED BY <1>10, <1>11, <1>12 DEF Privmsg

LEMMA DroneKeeps == DroneInv /\ [DroneNext]_droneVars => DroneInv'
<1> SUFFICES ASSUME DroneInv, [DroneNext]_droneVars PROVE DroneInv'
  OBVIOUS
<1>1. CASE Privmsg
  BY <1>1, PrivmsgStep
<1>2. /\ now \in DRONETIME..MaxTime /\ now \in Nat /\ MaxTime \in Nat /\ now <= MaxTime /\ DRONETIME \in Nat
      /\ drone.first <= now /\ drone.first \in 0..MaxTime /\ drone.number \in 0..Flood
      /\ queue \in 0..Sendq /\ Sendq \in Nat
  BY DroneSettings, DroneIs DEF DroneInv, DroneType
<1>3. CASE Fill \/ Drain
  <2>1. queue' \in 0..Sendq /\ dropped' = FALSE /\ UNCHANGED <<now, drone, notice, sent>>
    BY <1>2, <1>3 DEF Fill, Drain
  <2>2. DroneType'
    BY <2>1 DEF DroneInv, DroneType
  <2>3. (Cardinality(SentSince(drone.first, sent)))' = Cardinality(SentSince(drone.first, sent))
    BY <2>1 DEF SentSince
  <2> QED BY <2>1, <2>2, <2>3 DEF DroneInv, LostInFloodOnly
<1>4. CASE Pass
  <2>1. now' = now + 1 /\ now' \in DRONETIME..MaxTime /\ dropped' = FALSE /\ UNCHANGED <<drone, queue, notice, sent>>
    BY <1>2, <1>4 DEF Pass
  <2>2. DroneType'
    <3>1. drone'.first <= now'
      BY <1>2, <2>1
    <3>2. dropped' \in BOOLEAN
      BY <2>1
    <3> QED BY <2>1, <3>1, <3>2 DEF DroneInv, DroneType
  <2> DEFINE A == SentSince(drone.first, sent)
             B == {p \in (drone.first..now') \X (1..Flood) : p[2] <= sent[p[1]]}
  <2>3. (SentSince(drone.first, sent))' = B
    BY <2>1 DEF SentSince
  <2>4. A \in SUBSET B
    <3>1. \A t \in drone.first..now : t \in drone.first..now'
      BY <1>2, <2>1
    <3> QED BY <3>1 DEF SentSince
  <2>5. IsFiniteSet(B) /\ Cardinality(B) \in Nat
    <3>1. IsFiniteSet(drone.first..now') /\ IsFiniteSet(1..Flood)
      <4>1. \A x, y \in Int : IsFiniteSet(x..y)
        BY FS_Interval
      <4>2. drone.first \in Int /\ now' \in Int /\ 1 \in Int /\ Flood \in Int
        BY <1>2, <2>1, FloodIs
      <4> QED BY <4>1, <4>2
    <3>2. IsFiniteSet((drone.first..now') \X (1..Flood))
      BY <3>1, FS_Product
    <3> QED BY <3>2, FS_Subset, FS_CardinalityType
  <2> HIDE DEF B
  <2>6. Cardinality(A) <= Cardinality(B) /\ Cardinality(A) \in Nat
    BY <2>4, <2>5, FS_Subset, FS_CardinalityType
  <2>7. drone.number <= Cardinality(A)
    BY DEF DroneInv
  <2>8. drone'.number <= Cardinality(B)
    BY <1>2, <2>1, <2>5, <2>6, <2>7
  <2> QED BY <2>1, <2>2, <2>3, <2>8 DEF DroneInv, LostInFloodOnly
<1>5. CASE UNCHANGED droneVars
  <2>1. UNCHANGED <<now, drone, queue, notice, dropped, sent>>
    BY <1>5 DEF droneVars
  <2>2. DroneType' /\ LostInFloodOnly'
    BY <2>1 DEF DroneInv, DroneType, LostInFloodOnly, Recent
  <2>3. (Cardinality(SentSince(drone.first, sent)))' = Cardinality(SentSince(drone.first, sent))
    BY <2>1 DEF SentSince
  <2> QED BY <2>1, <2>2, <2>3 DEF DroneInv
<1> QED BY <1>1, <1>3, <1>4, <1>5 DEF DroneNext

LEMMA DroneStarts == DroneInit => DroneInv
<1> SUFFICES ASSUME DroneInit PROVE DroneInv
  OBVIOUS
<1>1. /\ now = DRONETIME /\ drone = [first |-> 0, number |-> 0, noticed |-> 0]
      /\ queue \in 0..Sendq /\ notice = "off" /\ dropped = FALSE
      /\ sent = [t \in 0..MaxTime |-> 0]
  BY DEF DroneInit
<1>2. DroneType
  <2>1. 0 \in 0..MaxTime /\ 0 \in 0..Flood /\ 0 \in 0..2 /\ now \in DRONETIME..MaxTime /\ 0 <= now
    BY <1>1, DroneSettings, FloodIs
  <2> QED BY <1>1, <2>1 DEF DroneType
<1>3. Cardinality(SentSince(0, sent)) \in Nat
  <2>1. now \in Int
    BY <1>1, DroneSettings
  <2> QED BY <2>1, SentFinite
<1>4. drone.number <= Cardinality(SentSince(drone.first, sent))
  BY <1>1, <1>3
<1> QED BY <1>1, <1>2, <1>4 DEF DroneInv, LostInFloodOnly

\* A message for a client is thrown away only when more than DRONECOUNT came within
\* DRONETIME seconds, its queue is more than a quarter full, and it was told: however
\* the windows of the count lie and whatever else fills or drains the queue.
THEOREM DronesAloneAreLost == DroneSpec => []LostInFloodOnly
<1>1. DroneInv => LostInFloodOnly
  BY DEF DroneInv
<1> QED BY DroneStarts, DroneKeeps, <1>1, PTL DEF DroneSpec

-----------------------------------------------------------------------------
(* Lines and classes (Confs).                                              *)

ConfRec == [kind : {"free", "I", "C", "N", "O"}, class : ClassId, clients : Nat,
            legal : BOOLEAN, near : BOOLEAN]
ClassRec == [num : Nat, max : Nat \cup {-1}, links : Nat,
             use : {"freed", "listed", "unlinked"}]
Tables == [conf : [ConfId -> ConfRec], class : [ClassId -> ClassRec],
           at : [Clients -> Seq(ConfId)]]
AnyLine == UNION {{f.main[n] : n \in DOMAIN f.main} \cup {f.include[n] : n \in DOMAIN f.include} :
                    f \in Files}

\* The lines of one kind for a server fit its host, or none does.
HostsStay ==
  \A x, y \in AnyLine : x.kind = y.kind /\ x.kind \in {"C", "N"} => x.near = y.near

\* "C: and N: lines are specified in pairs" (docs/ignite.conf.sample:71).
KindsOf(l) == {l[n].kind : n \in DOMAIN l}
InPairs ==
  \A f \in Files :
    "C" \in KindsOf(f.main) \cup KindsOf(f.include)
      <=> "N" \in KindsOf(f.main) \cup KindsOf(f.include)
\* The legal lines come in pairs, and of which kinds the lines are that were added.
Paired(t) == LegalLines(t, "C") = {} <=> LegalLines(t, "N") = {}
Adds(t, u, K) ==
  \A kind \in {"C", "N"} : LegalLines(u, kind) # {} <=> LegalLines(t, kind) # {} \/ kind \in K

NoneTwice(t) ==
  \A c \in Clients : \A j, k \in DOMAIN t.at[c] : t.at[c][j] = t.at[c][k] => j = k
Blank(t) ==
  /\ \A i \in ConfId : t.conf[i].kind = "free" => t.conf[i] = FreeConf
  /\ \A k \in ClassId : t.class[k].use = "freed" => t.class[k] = FreeClass
UsedLive(t) == \A c \in Clients : \A i \in Used(t, c) : t.conf[i].kind # "free"
Counted(t) ==
  /\ \A i \in ConfId : t.conf[i].clients = Cardinality(ClientsOf(t, i))
  /\ \A k \in ClassId : t.class[k].links = Cardinality(LinksOf(t, k))
LineSound(t, i) ==
  /\ t.class[t.conf[i].class].use # "freed"
  /\ t.conf[i].legal \/ t.conf[i].clients > 0
  /\ \E x \in AnyLine : x.kind = t.conf[i].kind /\ x.near = t.conf[i].near
LinesSound(t) ==
  /\ \A i \in ConfId : t.conf[i].kind # "free" => LineSound(t, i)
  /\ \A i \in ConfId : t.conf[i].legal =>
       t.class[t.conf[i].class].use = "listed" /\ t.class[t.conf[i].class].max >= 0
ClassesSound(t) ==
  /\ \A k \in ClassId : t.class[k].use = "unlinked" => t.class[k].links > 0 /\ t.class[k].max = -1
  /\ t.class[0].use = "listed" /\ t.class[0].max >= 0
\* What holds while the files are read ...
Sound(t) ==
  /\ t \in Tables /\ NoneTwice(t) /\ Blank(t) /\ UsedLive(t) /\ Counted(t)
  /\ LinesSound(t) /\ ClassesSound(t)
\* ... and after it.
Settled(t) == Sound(t) /\ \A k \in ClassId : t.class[k].use = "listed" => t.class[k].max >= 0

-----------------------------------------------------------------------------
(* The records.                                                            *)

\* What a conf, a class and the tables consist of.
LEMMA ConfIs ==
  /\ \A r \in ConfRec : /\ r.kind \in {"free", "I", "C", "N", "O"} /\ r.class \in ClassId
                        /\ r.clients \in Nat /\ r.legal \in BOOLEAN /\ r.near \in BOOLEAN
                        /\ \A n \in Nat : [r EXCEPT !.clients = n] \in ConfRec
                        /\ [r EXCEPT !.legal = FALSE] \in ConfRec
  /\ FreeConf \in ConfRec
<1>1. ASSUME NEW r \in ConfRec
      PROVE  /\ r.kind \in {"free", "I", "C", "N", "O"} /\ r.class \in ClassId
             /\ r.clients \in Nat /\ r.legal \in BOOLEAN /\ r.near \in BOOLEAN
             /\ \A n \in Nat : [r EXCEPT !.clients = n] \in ConfRec
             /\ [r EXCEPT !.legal = FALSE] \in ConfRec
  BY DEF ConfRec
<1>2. 0 \in ClassId
  BY ConfsAssumption DEF ClassId
<1>3. FreeConf \in ConfRec
  BY <1>2 DEF ConfRec, FreeConf
<1> QED BY <1>1, <1>3

LEMMA ClassIs ==
  /\ \A r \in ClassRec : /\ r.num \in Nat /\ r.max \in Nat \cup {-1} /\ r.links \in Nat
                         /\ r.use \in {"freed", "listed", "unlinked"}
                         /\ \A n \in Nat : [r EXCEPT !.links = n] \in ClassRec
                         /\ \A m \in Nat \cup {-1} : [r EXCEPT !.max = m] \in ClassRec
                         /\ [r EXCEPT !.use = "unlinked"] \in ClassRec
  /\ FreeClass \in ClassRec
<1>1. ASSUME NEW r \in ClassRec
      PROVE  /\ r.num \in Nat /\ r.max \in Nat \cup {-1} /\ r.links \in Nat
             /\ r.use \in {"freed", "listed", "unlinked"}
             /\ \A n \in Nat : [r EXCEPT !.links = n] \in ClassRec
             /\ \A m \in Nat \cup {-1} : [r EXCEPT !.max = m] \in ClassRec
             /\ [r EXCEPT !.use = "unlinked"] \in ClassRec
  BY DEF ClassRec
<1>2. FreeClass \in ClassRec
  BY DEF ClassRec, FreeClass
<1> QED BY <1>1, <1>2

LEMMA TablesAre ==
  ASSUME NEW t \in Tables
  PROVE  /\ t.conf \in [ConfId -> ConfRec] /\ t.class \in [ClassId -> ClassRec]
         /\ t.at \in [Clients -> Seq(ConfId)]
BY DEF Tables

\* The tables with another list of a client, another line and another class.
Put(t, c, list, i, y, k, z) ==
  [conf |-> [t.conf EXCEPT ![i] = y], class |-> [t.class EXCEPT ![k] = z],
   at |-> [t.at EXCEPT ![c] = list]]

\* Put is what it says.
LEMMA PutIs ==
  ASSUME NEW t \in Tables, NEW c \in Clients, NEW list \in Seq(ConfId), NEW i \in ConfId,
         NEW y \in ConfRec, NEW k \in ClassId, NEW z \in ClassRec
  PROVE  /\ Put(t, c, list, i, y, k, z) \in Tables
         /\ \A j \in ConfId : Put(t, c, list, i, y, k, z).conf[j] = IF j = i THEN y ELSE t.conf[j]
         /\ \A j \in ClassId : Put(t, c, list, i, y, k, z).class[j] = IF j = k THEN z ELSE t.class[j]
         /\ \A d \in Clients : Put(t, c, list, i, y, k, z).at[d] = IF d = c THEN list ELSE t.at[d]
<1>1. /\ t.conf \in [ConfId -> ConfRec] /\ t.class \in [ClassId -> ClassRec]
      /\ t.at \in [Clients -> Seq(ConfId)]
  BY TablesAre
<1>2. /\ Put(t, c, list, i, y, k, z).conf = [t.conf EXCEPT ![i] = y]
      /\ Put(t, c, list, i, y, k, z).class = [t.class EXCEPT ![k] = z]
      /\ Put(t, c, list, i, y, k, z).at = [t.at EXCEPT ![c] = list]
  BY DEF Put
<1>3. [t.conf EXCEPT ![i] = y] \in [ConfId -> ConfRec]
  BY <1>1
<1>4. [t.class EXCEPT ![k] = z] \in [ClassId -> ClassRec]
  BY <1>1
<1>5. [t.at EXCEPT ![c] = list] \in [Clients -> Seq(ConfId)]
  BY <1>1
<1>6. Put(t, c, list, i, y, k, z) \in Tables
  BY <1>3, <1>4, <1>5 DEF Put, Tables
<1> QED BY <1>1, <1>2, <1>6

-----------------------------------------------------------------------------
(* Counting.                                                               *)

LinkSet(used, cl, k) == {x \in Clients \X ConfId : x[2] \in used[x[1]] /\ cl[x[2]] = k}
HolderSet(used, i) == {c \in Clients : i \in used[c]}
UsedBy(t) == [c \in Clients |-> Used(t, c)]
ClassesOf(t) == [i \in ConfId |-> t.conf[i].class]

\* What is counted is finite.
LEMMA SetsFinite ==
  /\ IsFiniteSet(Clients) /\ IsFiniteSet(ConfId) /\ IsFiniteSet(ClassId)
  /\ \A used, cl, k : IsFiniteSet(LinkSet(used, cl, k)) /\ Cardinality(LinkSet(used, cl, k)) \in Nat
  /\ \A used, i : IsFiniteSet(HolderSet(used, i)) /\ Cardinality(HolderSet(used, i)) \in Nat
<1>1. IsFiniteSet(Users) /\ IsFiniteSet(Peers) /\ MaxConf \in Nat /\ MaxClass \in Nat
  BY ConfsAssumption
<1>2. IsFiniteSet(Clients)
  BY <1>1, FS_Union DEF Clients
<1>3. IsFiniteSet(ConfId) /\ IsFiniteSet(ClassId)
  BY <1>1, FS_Interval DEF ConfId, ClassId
<1>4. IsFiniteSet(Clients \X ConfId)
  BY <1>2, <1>3, FS_Product
<1>5. ASSUME NEW used, NEW cl, NEW k
      PROVE  IsFiniteSet(LinkSet(used, cl, k)) /\ Cardinality(LinkSet(used, cl, k)) \in Nat
  <2>1. LinkSet(used, cl, k) \in SUBSET (Clients \X ConfId)
    BY DEF LinkSet
  <2> QED BY <2>1, <1>4, FS_Subset, FS_CardinalityType
<1>6. ASSUME NEW used, NEW i
      PROVE  IsFiniteSet(HolderSet(used, i)) /\ Cardinality(HolderSet(used, i)) \in Nat
  <2>1. HolderSet(used, i) \in SUBSET Clients
    BY DEF HolderSet
  <2> QED BY <2>1, <1>2, FS_Subset, FS_CardinalityType
<1> QED BY <1>2, <1>3, <1>5, <1>6

\* One more line at a client is one more link of its class and one more client of it.
LEMMA CountUp ==
  ASSUME NEW used \in [Clients -> SUBSET ConfId], NEW more \in [Clients -> SUBSET ConfId],
         NEW cl \in [ConfId -> ClassId], NEW c \in Clients, NEW i \in ConfId,
         i \notin used[c], more[c] = used[c] \cup {i},
         \A d \in Clients : d # c => more[d] = used[d]
  PROVE  /\ \A k \in ClassId :
              Cardinality(LinkSet(more, cl, k))
                = Cardinality(LinkSet(used, cl, k)) + (IF k = cl[i] THEN 1 ELSE 0)
         /\ \A j \in ConfId :
              Cardinality(HolderSet(more, j))
                = Cardinality(HolderSet(used, j)) + (IF j = i THEN 1 ELSE 0)
<1>1. ASSUME NEW k \in ClassId
      PROVE  Cardinality(LinkSet(more, cl, k))
               = Cardinality(LinkSet(used, cl, k)) + (IF k = cl[i] THEN 1 ELSE 0)
  <2>1. IsFiniteSet(LinkSet(used, cl, k)) /\ Cardinality(LinkSet(used, cl, k)) \in Nat
    BY SetsFinite
  <2>2. CASE k = cl[i]
    <3>1. LinkSet(more, cl, k) = LinkSet(used, cl, k) \cup {<<c, i>>}
      BY <2>2 DEF LinkSet
    <3>2. <<c, i>> \notin LinkSet(used, cl, k)
      BY DEF LinkSet
    <3> QED BY <2>1, <2>2, <3>1, <3>2, FS_AddElement
  <2>3. CASE k # cl[i]
    <3>1. LinkSet(more, cl, k) = LinkSet(used, cl, k)
      BY <2>3 DEF LinkSet
    <3> QED BY <2>1, <2>3, <3>1
  <2> QED BY <2>2, <2>3
<1>2. ASSUME NEW j \in ConfId
      PROVE  Cardinality(HolderSet(more, j))
               = Cardinality(HolderSet(used, j)) + (IF j = i THEN 1 ELSE 0)
  <2>1. IsFiniteSet(HolderSet(used, j)) /\ Cardinality(HolderSet(used, j)) \in Nat
    BY SetsFinite
  <2>2. CASE j = i
    <3>1. HolderSet(more, j) = HolderSet(used, j) \cup {c} /\ c \notin HolderSet(used, j)
      BY <2>2 DEF HolderSet
    <3> QED BY <2>1, <2>2, <3>1, FS_AddElement
  <2>3. CASE j # i
    <3>1. HolderSet(more, j) = HolderSet(used, j)
      BY <2>3 DEF HolderSet
    <3> QED BY <2>1, <2>3, <3>1
  <2> QED BY <2>2, <2>3
<1> QED BY <1>1, <1>2

\* The counts of the tables are those of these sets.
LEMMA CountsAre ==
  ASSUME NEW t \in Tables
  PROVE  /\ UsedBy(t) \in [Clients -> SUBSET ConfId] /\ ClassesOf(t) \in [ConfId -> ClassId]
         /\ \A c \in Clients : UsedBy(t)[c] = Used(t, c)
         /\ \A i \in ConfId : ClientsOf(t, i) = HolderSet(UsedBy(t), i)
         /\ \A k \in ClassId : LinksOf(t, k) = LinkSet(UsedBy(t), ClassesOf(t), k)
         /\ \A i \in ConfId : IsFiniteSet(ClientsOf(t, i)) /\ Cardinality(ClientsOf(t, i)) \in Nat
         /\ \A k \in ClassId : IsFiniteSet(LinksOf(t, k)) /\ Cardinality(LinksOf(t, k)) \in Nat
<1>1. /\ t.conf \in [ConfId -> ConfRec] /\ t.at \in [Clients -> Seq(ConfId)]
  BY TablesAre
<1>2. \A c \in Clients : Used(t, c) \in SUBSET ConfId
  BY <1>1 DEF Used
<1>3. ClassesOf(t) \in [ConfId -> ClassId]
  BY <1>1, ConfIs DEF ClassesOf
<1>4. \A i \in ConfId : ClientsOf(t, i) = HolderSet(UsedBy(t), i)
  BY DEF ClientsOf, HolderSet, UsedBy
<1>5. \A k \in ClassId : LinksOf(t, k) = LinkSet(UsedBy(t), ClassesOf(t), k)
  BY DEF LinksOf, LinkSet, UsedBy, ClassesOf
<1>6. UsedBy(t) \in [Clients -> SUBSET ConfId] /\ \A c \in Clients : UsedBy(t)[c] = Used(t, c)
  BY <1>2 DEF UsedBy
<1>7. \A i \in ConfId : IsFiniteSet(ClientsOf(t, i)) /\ Cardinality(ClientsOf(t, i)) \in Nat
  BY <1>4, SetsFinite
<1>8. \A k \in ClassId : IsFiniteSet(LinksOf(t, k)) /\ Cardinality(LinksOf(t, k)) \in Nat
  BY <1>5, SetsFinite
<1> QED BY ONLY <1>3, <1>4, <1>5, <1>6, <1>7, <1>8

\* A line that somebody uses has a client and its class a link; and the other way
\* round, a count that is not 0 is of somebody.
LEMMA UsedCounts ==
  ASSUME NEW t \in Tables, Counted(t)
  PROVE  /\ \A c \in Clients : \A i \in Used(t, c) :
              i \in ConfId /\ t.conf[i].clients > 0 /\ t.class[t.conf[i].class].links > 0
         /\ \A i \in ConfId : t.conf[i].clients > 0 => \E c \in Clients : i \in Used(t, c)
         /\ \A i \in ConfId : t.conf[i].clients > 0 => t.class[t.conf[i].class].links > 0
<1>1. /\ t.conf \in [ConfId -> ConfRec] /\ t.at \in [Clients -> Seq(ConfId)]
  BY TablesAre
<1>2. ASSUME NEW c \in Clients, NEW i \in Used(t, c)
      PROVE  i \in ConfId /\ t.conf[i].clients > 0 /\ t.class[t.conf[i].class].links > 0
  <2>1. i \in ConfId
    BY <1>1 DEF Used
  <2>2. t.conf[i].class \in ClassId
    BY <1>1, <2>1, ConfIs
  <2>3. c \in ClientsOf(t, i) /\ <<c, i>> \in LinksOf(t, t.conf[i].class)
    BY <2>1 DEF ClientsOf, LinksOf
  <2>4. Cardinality(ClientsOf(t, i)) # 0 /\ Cardinality(LinksOf(t, t.conf[i].class)) # 0
    BY <2>1, <2>2, <2>3, CountsAre, FS_EmptySet
  <2> QED BY <2>1, <2>2, <2>4, CountsAre DEF Counted
<1>3. ASSUME NEW i \in ConfId, t.conf[i].clients > 0
      PROVE  \E c \in Clients : i \in Used(t, c)
  <2>1. ClientsOf(t, i) # {}
    BY <1>3, FS_EmptySet DEF Counted
  <2> QED BY <2>1 DEF ClientsOf
<1> QED BY <1>2, <1>3

-----------------------------------------------------------------------------
(* Attaching and detaching.                                                *)

\* The list more is i and then list.
IsFront(more, i, list) ==
  /\ Len(more) = Len(list) + 1 /\ more[1] = i
  /\ \A k \in DOMAIN list : k + 1 \in DOMAIN more /\ more[k + 1] = list[k]
  /\ \A k \in DOMAIN more : k # 1 => k - 1 \in DOMAIN list /\ more[k] = list[k - 1]
  /\ {more[k] : k \in DOMAIN more} = {list[k] : k \in DOMAIN list} \cup {i}

\* A line in front of a list.
LEMMA InFront ==
  ASSUME NEW S, NEW list \in Seq(S), NEW i \in S
  PROVE  <<i>> \o list \in Seq(S) /\ IsFront(<<i>> \o list, i, list)
<1> DEFINE more == <<i>> \o list
<1>1. more \in Seq(S) /\ Len(more) = Len(list) + 1 /\ Len(list) \in Nat /\ more[1] = i
  OBVIOUS
<1>2. DOMAIN more = 1..(Len(list) + 1) /\ DOMAIN list = 1..Len(list)
  BY <1>1
<1>3. \A k \in 1..Len(list) : more[k + 1] = list[k]
  OBVIOUS
<1>4. \A k \in DOMAIN more : k # 1 => k - 1 \in DOMAIN list /\ more[k] = list[k - 1]
  BY <1>1, <1>2
<1>5. {more[k] : k \in DOMAIN more} = {list[k] : k \in DOMAIN list} \cup {i}
  <2>1. ASSUME NEW k \in DOMAIN list PROVE \E j \in DOMAIN more : more[j] = list[k]
    <3>1. k + 1 \in DOMAIN more /\ more[k + 1] = list[k]
      BY <1>1, <1>2, <1>3
    <3> QED BY <3>1
  <2>2. 1 \in DOMAIN more
    BY <1>1, <1>2
  <2> HIDE DEF more
  <2> QED BY <1>1, <1>4, <2>1, <2>2
<1>6. \A k \in DOMAIN list : k + 1 \in DOMAIN more
  BY <1>1, <1>2
<1> HIDE DEF more
<1>7. more \in Seq(S) /\ IsFront(more, i, list)
  BY <1>1, <1>2, <1>3, <1>4, <1>5, <1>6 DEF IsFront
<1> QED BY <1>7 DEF more

\* The list less is list without the entry i.
IsWithout(less, i, list) ==
  /\ Len(less) = Len(list) - 1
  /\ \A j, k \in DOMAIN less : less[j] = less[k] => j = k
  /\ {less[k] : k \in DOMAIN less} = {list[k] : k \in DOMAIN list} \ {i}

\* A list without one of its entries.
LEMMA TakenOut ==
  ASSUME NEW S, NEW list \in Seq(S), NEW p \in DOMAIN list,
         \A j, k \in DOMAIN list : list[j] = list[k] => j = k
  PROVE  RemoveAt(list, p) \in Seq(S) /\ IsWithout(RemoveAt(list, p), list[p], list)
<1> DEFINE less == RemoveAt(list, p)
           from(k) == IF k < p THEN k ELSE k + 1
<1>1. Len(list) \in Nat /\ p \in 1..Len(list) /\ DOMAIN list = 1..Len(list)
  OBVIOUS
<1>2. /\ SubSeq(list, 1, p - 1) \in Seq(S) /\ Len(SubSeq(list, 1, p - 1)) = p - 1
      /\ \A k \in 1..(p - 1) : SubSeq(list, 1, p - 1)[k] = list[k]
  BY <1>1
<1>3. /\ SubSeq(list, p + 1, Len(list)) \in Seq(S) /\ Len(SubSeq(list, p + 1, Len(list))) = Len(list) - p
      /\ \A k \in 1..(Len(list) - p) : SubSeq(list, p + 1, Len(list))[k] = list[p + k]
  <2>1. /\ \A k \in (p + 1)..Len(list) : list[k] \in S
        /\ p + 1 \in Int /\ Len(list) \in Int
    BY <1>1
  <2>2. /\ SubSeq(list, p + 1, Len(list)) \in Seq(S)
        /\ Len(SubSeq(list, p + 1, Len(list)))
             = IF p + 1 <= Len(list) THEN Len(list) - (p + 1) + 1 ELSE 0
        /\ \A k \in 1 .. Len(list) - (p + 1) + 1 :
             SubSeq(list, p + 1, Len(list))[k] = list[(p + 1) + k - 1]
    BY <2>1, SubSeqProperties
  <2> QED BY <1>1, <2>2
<1>4. PICK front \in Seq(S), back \in Seq(S) :
        /\ less = front \o back /\ Len(front) = p - 1 /\ Len(back) = Len(list) - p
        /\ \A k \in 1..(p - 1) : front[k] = list[k]
        /\ \A k \in 1..(Len(list) - p) : back[k] = list[p + k]
  BY <1>2, <1>3 DEF RemoveAt
<1> HIDE DEF less
<1>5. /\ less \in Seq(S) /\ Len(less) = Len(list) - 1 /\ DOMAIN less = 1..(Len(list) - 1)
      /\ \A k \in DOMAIN less : from(k) \in DOMAIN list /\ from(k) # p /\ less[k] = list[from(k)]
  <2>1. less \in Seq(S) /\ Len(less) = Len(front) + Len(back)
    BY <1>4, ConcatProperties
  <2> DEFINE l == Len(list)
  <2> HIDE DEF l
  <2>a. l \in Nat /\ p \in 1..l /\ DOMAIN list = 1..l
    BY <1>1 DEF l
  <2>b. Len(front) = p - 1 /\ Len(back) = l - p
    BY <1>4 DEF l
  <2>c. Len(less) = l - 1
    BY <2>a, <2>b, <2>1
  <2>2. Len(less) = Len(list) - 1 /\ DOMAIN less = 1..(Len(list) - 1)
    BY <2>c, <2>1 DEF l
  <2>3. ASSUME NEW k \in DOMAIN less PROVE less[k] = list[from(k)]
    <3>1. k \in 1..(Len(front) + Len(back))
      BY <2>1, <2>2
    <3>2. less[k] = IF k <= Len(front) THEN front[k] ELSE back[k - Len(front)]
      BY <1>4, <3>1, ConcatProperties
    <3>3. k \in 1..(l - 1) /\ \A m \in 1..(l - p) : back[m] = list[p + m]
      BY <2>2, <1>4 DEF l
    <3>4. CASE k < p
      <4>1. k \in 1..(p - 1)
        BY <2>a, <3>3, <3>4
      <4>2. front[k] = list[k]
        BY <1>4, <4>1
      <4> QED BY <2>a, <2>b, <3>2, <3>3, <3>4, <4>2
    <3>5. CASE k >= p
      <4>1. less[k] = back[k - (p - 1)] /\ k - (p - 1) \in 1..(l - p)
        BY <2>a, <2>b, <3>2, <3>3, <3>5
      <4>2. back[k - (p - 1)] = list[p + (k - (p - 1))] /\ p + (k - (p - 1)) = k + 1
        BY <2>a, <3>3, <4>1
      <4> QED BY <2>a, <3>3, <3>5, <4>1, <4>2
    <3> QED BY <2>a, <3>3, <3>4, <3>5
  <2>4. \A k \in DOMAIN less : from(k) \in DOMAIN list /\ from(k) # p
    BY <1>1, <2>2
  <2> QED BY <2>1, <2>2, <2>3, <2>4
<1>6. \A j, k \in DOMAIN less : from(j) = from(k) => j = k
  BY <1>1, <1>5
<1>7. \A m \in DOMAIN list : m # p => \E k \in DOMAIN less : from(k) = m
  <2>1. ASSUME NEW m \in DOMAIN list, m # p PROVE \E k \in DOMAIN less : from(k) = m
    <3>1. CASE m < p
      <4>1. m \in DOMAIN less /\ from(m) = m
        BY <1>1, <1>5, <3>1
      <4> QED BY <4>1
    <3>2. CASE m > p
      <4>1. m - 1 \in DOMAIN less /\ from(m - 1) = m
        BY <1>1, <1>5, <3>2
      <4> QED BY <4>1
    <3> QED BY <1>1, <2>1, <3>1, <3>2
  <2> QED BY <2>1
<1> HIDE DEF from
<1>8. \A j, k \in DOMAIN less : less[j] = less[k] => j = k
  BY <1>5, <1>6
<1>9. {less[k] : k \in DOMAIN less} = {list[k] : k \in DOMAIN list} \ {list[p]}
  <2>1. ASSUME NEW k \in DOMAIN less
        PROVE  \E m \in DOMAIN list : m # p /\ less[k] = list[m]
    BY <1>5
  <2>2. ASSUME NEW m \in DOMAIN list, m # p
        PROVE  \E k \in DOMAIN less : list[m] = less[k]
    <3>1. PICK k \in DOMAIN less : from(k) = m
      BY <1>7, <2>2
    <3>2. less[k] = list[m]
      BY <1>5, <3>1
    <3> QED BY <3>2
  <2>3. \A m \in DOMAIN list : m # p => list[m] # list[p]
    OBVIOUS
  <2> HIDE DEF less
  <2>4. {less[k] : k \in DOMAIN less} \subseteq {list[k] : k \in DOMAIN list} \ {list[p]}
    BY <2>1, <2>3
  <2>5. {list[k] : k \in DOMAIN list} \ {list[p]} \subseteq {less[k] : k \in DOMAIN less}
    BY <2>2, <2>3
  <2> QED BY <2>4, <2>5
<1> QED BY <1>5, <1>8, <1>9 DEF less, IsWithout

\* attach_conf, where it attaches.
LEMMA AttachIs ==
  ASSUME NEW t \in Tables, NEW c \in Clients, NEW i \in ConfId, attach_result(t, c, i) = 0
  PROVE  LET k == t.conf[i].class
         IN attach_conf(t, c, i) = Put(t, c, <<i>> \o t.at[c],
              i, [t.conf[i] EXCEPT !.clients = @ + 1], k, [t.class[k] EXCEPT !.links = @ + 1])
BY DEF attach_conf, Put, Tables

LEMMA AttachResult ==
  ASSUME NEW t, NEW c, NEW i, t.conf[i].legal \in BOOLEAN
  PROVE  /\ attach_result(t, c, i) = 0 => t.conf[i].legal /\ i \notin Used(t, c)
         /\ attach_result(t, c, i) # 0 => attach_conf(t, c, i) = t
         /\ t.conf[i].legal /\ t.conf[i].kind # "I" /\ i \notin Used(t, c) => attach_result(t, c, i) = 0
BY DEF attach_result, is_attached, attach_conf

\* The lines of u are those of t, but for who uses them.
SameLines(t, u) ==
  \A i \in ConfId : /\ u.conf[i].kind = t.conf[i].kind /\ u.conf[i].class = t.conf[i].class
                    /\ u.conf[i].legal = t.conf[i].legal /\ u.conf[i].near = t.conf[i].near

\* Attaching a line that is not attached keeps all counts right.
LEMMA AttachKeeps ==
  ASSUME NEW t, Settled(t), NEW c \in Clients, NEW i \in ConfId, attach_result(t, c, i) = 0
  PROVE  LET u == attach_conf(t, c, i)
         IN /\ Settled(u) /\ SameLines(t, u)
            /\ u.at[c] = <<i>> \o t.at[c] /\ Used(u, c) = Used(t, c) \cup {i}
            /\ \A d \in Clients : d # c => u.at[d] = t.at[d] /\ Used(u, d) = Used(t, d)
<1> DEFINE u == attach_conf(t, c, i)
           k == t.conf[i].class
           list == <<i>> \o t.at[c]
           y == [t.conf[i] EXCEPT !.clients = @ + 1]
           z == [t.class[k] EXCEPT !.links = @ + 1]
<1>1. /\ t \in Tables /\ NoneTwice(t) /\ Blank(t) /\ UsedLive(t) /\ Counted(t) /\ LinesSound(t)
      /\ ClassesSound(t) /\ \A j \in ClassId : t.class[j].use = "listed" => t.class[j].max >= 0
  BY DEF Settled, Sound
<1>2. /\ t.conf \in [ConfId -> ConfRec] /\ t.class \in [ClassId -> ClassRec]
      /\ t.at \in [Clients -> Seq(ConfId)]
  BY <1>1, TablesAre
<1>3. k \in ClassId /\ t.conf[i] \in ConfRec /\ t.class[k] \in ClassRec /\ t.at[c] \in Seq(ConfId)
  BY <1>2, ConfIs
<1>4. t.conf[i].legal /\ i \notin Used(t, c) /\ t.conf[i].kind # "free"
  <2>1. t.conf[i].legal /\ i \notin Used(t, c)
    <3>1. t.conf[i].legal \in BOOLEAN
      BY <1>3, ConfIs
    <3> QED BY <3>1, AttachResult
  <2> QED BY <2>1, <1>1 DEF Blank, FreeConf
<1>5. /\ y \in ConfRec /\ y.kind = t.conf[i].kind /\ y.class = k /\ y.legal = t.conf[i].legal
      /\ y.near = t.conf[i].near /\ y.clients = t.conf[i].clients + 1
  BY <1>3, ConfIs DEF ConfRec
<1>6. /\ z \in ClassRec /\ z.use = t.class[k].use /\ z.max = t.class[k].max
      /\ z.num = t.class[k].num /\ z.links = t.class[k].links + 1
  <2> HIDE DEF k
  <2>0. t.class[k].links \in Nat
    BY ONLY <1>3, ClassIs
  <2>1. t.class[k].links + 1 \in Nat
    BY ONLY <2>0
  <2>2. z \in ClassRec
    BY <1>3, <2>1, ClassIs
  <2>3. z = [t.class[k] EXCEPT !.links = t.class[k].links + 1]
    OBVIOUS
  <2> HIDE DEF z
  <2> QED BY <1>3, <2>1, <2>2, <2>3 DEF ClassRec
<1>7. /\ list \in Seq(ConfId)
      /\ {list[n] : n \in DOMAIN list} = {t.at[c][n] : n \in DOMAIN t.at[c]} \cup {i}
      /\ list[1] = i
      /\ \A n \in DOMAIN list : n # 1 => n - 1 \in DOMAIN t.at[c] /\ list[n] = t.at[c][n - 1]
  <2>1. list \in Seq(ConfId) /\ IsFront(list, i, t.at[c])
    BY <1>3, InFront
  <2> HIDE DEF list
  <2> QED BY <2>1 DEF IsFront
<1>8. u = Put(t, c, list, i, y, k, z)
  BY <1>1, AttachIs
<1> HIDE DEF u, y, z, list
<1>9. /\ u \in Tables
      /\ \A j \in ConfId : u.conf[j] = IF j = i THEN y ELSE t.conf[j]
      /\ \A j \in ClassId : u.class[j] = IF j = k THEN z ELSE t.class[j]
      /\ \A d \in Clients : u.at[d] = IF d = c THEN list ELSE t.at[d]
  BY <1>1, <1>3, <1>5, <1>6, <1>7, <1>8, PutIs
<1> HIDE DEF k
<1>10. /\ Used(u, c) = Used(t, c) \cup {i}
       /\ \A d \in Clients : d # c => u.at[d] = t.at[d] /\ Used(u, d) = Used(t, d)
  <2>1. u.at[c] = list /\ \A d \in Clients : d # c => u.at[d] = t.at[d]
    BY <1>9
  <2>2. Used(u, c) = {list[n] : n \in DOMAIN list}
    BY <2>1 DEF Used
  <2>3. Used(t, c) = {t.at[c][n] : n \in DOMAIN t.at[c]}
    BY DEF Used
  <2>4. \A d \in Clients : d # c => Used(u, d) = Used(t, d)
    BY <2>1 DEF Used
  <2> QED BY <1>7, <2>1, <2>2, <2>3, <2>4
<1>11. SameLines(t, u)
  BY <1>5, <1>9 DEF SameLines, k
<1>12. NoneTwice(u)
  <2>1. ASSUME NEW m \in DOMAIN list, NEW n \in DOMAIN list, list[m] = list[n] PROVE m = n
    <3>1. \A p \in DOMAIN list : p # 1 => list[p] # i
      BY <1>4, <1>7 DEF Used
    <3>2. CASE m = 1 \/ n = 1
      BY <1>7, <2>1, <3>1, <3>2
    <3>3. CASE m # 1 /\ n # 1
      <4>1. m - 1 = n - 1
        BY <1>1, <1>7, <2>1, <3>3 DEF NoneTwice
      <4>2. m \in Int /\ n \in Int
        BY <1>7
      <4> QED BY <4>1, <4>2
    <3> QED BY <3>2, <3>3
  <2> QED BY <1>1, <1>9, <2>1 DEF NoneTwice
<1>13. Blank(u) /\ UsedLive(u)
  <2>1. Blank(u)
    BY <1>1, <1>3, <1>4, <1>5, <1>6, <1>9 DEF Blank, LinesSound, k
  <2>2. UsedLive(u)
    <3>1. \A d \in Clients : Used(t, d) \subseteq ConfId
      BY <1>2 DEF Used
    <3> QED BY <1>1, <1>4, <1>10, <1>11, <3>1 DEF UsedLive, SameLines
  <2> QED BY <2>1, <2>2
<1>14. Counted(u)
  <2>1. /\ \A j \in ClassId : Cardinality(LinksOf(u, j))
             = Cardinality(LinksOf(t, j)) + (IF j = k THEN 1 ELSE 0)
        /\ \A j \in ConfId : Cardinality(ClientsOf(u, j))
             = Cardinality(ClientsOf(t, j)) + (IF j = i THEN 1 ELSE 0)
    <3>1. ClassesOf(u) = ClassesOf(t) /\ ClassesOf(t)[i] = k
      BY <1>11 DEF SameLines, ClassesOf, k
    <3>2. /\ UsedBy(t) \in [Clients -> SUBSET ConfId] /\ UsedBy(u) \in [Clients -> SUBSET ConfId]
          /\ ClassesOf(t) \in [ConfId -> ClassId]
          /\ i \notin UsedBy(t)[c] /\ UsedBy(u)[c] = UsedBy(t)[c] \cup {i}
          /\ \A d \in Clients : d # c => UsedBy(u)[d] = UsedBy(t)[d]
      BY <1>1, <1>4, <1>9, <1>10, CountsAre
    <3>3. /\ \A j \in ClassId :
               Cardinality(LinkSet(UsedBy(u), ClassesOf(t), j))
                 = Cardinality(LinkSet(UsedBy(t), ClassesOf(t), j))
                     + (IF j = ClassesOf(t)[i] THEN 1 ELSE 0)
          /\ \A j \in ConfId :
               Cardinality(HolderSet(UsedBy(u), j))
                 = Cardinality(HolderSet(UsedBy(t), j)) + (IF j = i THEN 1 ELSE 0)
      BY <3>2, CountUp
    <3> QED BY <1>1, <1>9, <3>1, <3>3, CountsAre
  <2>2. \A j \in ConfId : u.conf[j].clients = Cardinality(ClientsOf(u, j))
    <3>1. \A j \in ConfId : t.conf[j].clients = Cardinality(ClientsOf(t, j)) /\ t.conf[j].clients \in Nat
      BY <1>1, <1>2, ConfIs DEF Counted
    <3> QED BY <1>5, <1>9, <2>1, <3>1
  <2>3. \A j \in ClassId : u.class[j].links = Cardinality(LinksOf(u, j))
    <3>1. \A j \in ClassId : t.class[j].links = Cardinality(LinksOf(t, j)) /\ t.class[j].links \in Nat
      BY <1>1, <1>2, ClassIs DEF Counted
    <3> QED BY <1>6, <1>9, <2>1, <3>1
  <2> QED BY <2>2, <2>3 DEF Counted
<1>15. LinesSound(u)
  <2>1. \A j \in ClassId : u.class[j].use = t.class[j].use /\ u.class[j].max = t.class[j].max
    BY <1>6, <1>9
  <2>2. \A j \in ConfId : t.conf[j].class \in ClassId /\ (t.conf[j].clients > 0 => u.conf[j].clients > 0)
    <3>1. \A j \in ConfId : t.conf[j].class \in ClassId /\ t.conf[j].clients \in Nat
      BY <1>2, ConfIs
    <3>2. \A j \in ConfId : u.conf[j].clients = t.conf[j].clients
                             \/ u.conf[j].clients = t.conf[j].clients + 1
      BY <1>5, <1>9
    <3> QED BY <3>1, <3>2
  <2> QED BY <1>1, <1>11, <2>1, <2>2 DEF LinesSound, LineSound, SameLines
<1>16. ClassesSound(u) /\ \A j \in ClassId : u.class[j].use = "listed" => u.class[j].max >= 0
  <2>1. \A j \in ClassId : u.class[j].use = t.class[j].use /\ u.class[j].max = t.class[j].max
    BY <1>6, <1>9
  <2>2. \A j \in ClassId : t.class[j].links > 0 => u.class[j].links > 0
    <3>1. \A j \in ClassId : t.class[j].links \in Nat
      BY <1>2, ClassIs
    <3>2. \A j \in ClassId : u.class[j].links = t.class[j].links
                              \/ u.class[j].links = t.class[j].links + 1
      BY <1>6, <1>9
    <3> QED BY <3>1, <3>2
  <2>3. 0 \in ClassId
    BY ConfsAssumption DEF ClassId
  <2> QED BY <1>1, <2>1, <2>2, <2>3 DEF ClassesSound
<1> QED BY <1>9, <1>10, <1>11, <1>12, <1>13, <1>14, <1>15, <1>16 DEF Settled, Sound, list, u

\* detach_conf, where there is something to detach.
LEMMA DetachIs ==
  ASSUME NEW t \in Tables, NEW c \in Clients, NEW i \in Used(t, c)
  PROVE  LET k == t.conf[i].class
             links == IF t.class[k].links > 0 THEN t.class[k].links - 1 ELSE 0
             place == CHOOSE p \in DOMAIN t.at[c] : t.at[c][p] = i
         IN detach_conf(t, c, i) = Put(t, c, RemoveAt(t.at[c], place),
              i, IF t.conf[i].clients = 1 /\ ~t.conf[i].legal THEN FreeConf
                 ELSE [t.conf[i] EXCEPT !.clients = @ - 1],
              k, IF t.class[k].max = -1 /\ links = 0 THEN FreeClass
                 ELSE [t.class[k] EXCEPT !.links = links])
<1> DEFINE k == t.conf[i].class
           links == IF t.class[k].links > 0 THEN t.class[k].links - 1 ELSE 0
           place == CHOOSE p \in DOMAIN t.at[c] : t.at[c][p] = i
           list == RemoveAt(t.at[c], place)
           y == IF t.conf[i].clients = 1 /\ ~t.conf[i].legal THEN FreeConf
                ELSE [t.conf[i] EXCEPT !.clients = @ - 1]
           z == IF t.class[k].max = -1 /\ links = 0 THEN FreeClass
                ELSE [t.class[k] EXCEPT !.links = links]
<1>1. t = [conf |-> t.conf, class |-> t.class, at |-> t.at]
  BY DEF Tables
<1>2. t.conf \in [ConfId -> ConfRec] /\ t.class \in [ClassId -> ClassRec] /\ t.at \in [Clients -> Seq(ConfId)]
  BY TablesAre
<1>3. i \in ConfId
  BY <1>2 DEF Used
<1>4. k \in ClassId
  BY <1>2, <1>3, ConfIs
<1>5. detach_conf(t, c, i) = [t EXCEPT !.at[c] = list, !.class[k] = z, !.conf[i] = y]
  BY DEF detach_conf, is_attached
<1> HIDE DEF list, z, y, k
<1>6. [t EXCEPT !.at[c] = list, !.class[k] = z, !.conf[i] = y] = Put(t, c, list, i, y, k, z)
  <2> DEFINE conf == t.conf
             class == t.class
             at == t.at
  <2>1. Put(t, c, list, i, y, k, z)
          = [conf |-> [conf EXCEPT ![i] = y], class |-> [class EXCEPT ![k] = z],
             at |-> [at EXCEPT ![c] = list]]
    BY DEF Put
  <2>2. t = [conf |-> conf, class |-> class, at |-> at]
    BY <1>1
  <2> HIDE DEF conf, class, at
  <2>3. [t EXCEPT !.at[c] = list, !.class[k] = z, !.conf[i] = y]
          = [conf |-> [conf EXCEPT ![i] = y], class |-> [class EXCEPT ![k] = z],
             at |-> [at EXCEPT ![c] = list]]
    <3> DEFINE one == [t EXCEPT !.at[c] = list]
               two == [one EXCEPT !.class[k] = z]
    <3>1. [t EXCEPT !.at[c] = list, !.class[k] = z, !.conf[i] = y] = [two EXCEPT !.conf[i] = y]
      OBVIOUS
    <3>2. one = [conf |-> conf, class |-> class, at |-> [at EXCEPT ![c] = list]]
      BY <2>2
    <3> HIDE DEF one
    <3>3. two = [conf |-> conf, class |-> [class EXCEPT ![k] = z], at |-> [at EXCEPT ![c] = list]]
      BY <3>2
    <3> HIDE DEF two
    <3>4. [two EXCEPT !.conf[i] = y]
            = [conf |-> [conf EXCEPT ![i] = y], class |-> [class EXCEPT ![k] = z],
               at |-> [at EXCEPT ![c] = list]]
      BY <3>3
    <3> QED BY <3>1, <3>4
  <2> QED BY <2>1, <2>3
<1> QED BY <1>5, <1>6 DEF list, z, y, k

\* The lines of u are those of t, but for illegal ones that are freed.
LinesStay(t, u) ==
  \A j \in ConfId :
    /\ u.conf[j].legal = t.conf[j].legal
    /\ u.conf[j].kind = "free" \/
       /\ u.conf[j].kind = t.conf[j].kind /\ u.conf[j].class = t.conf[j].class
       /\ u.conf[j].near = t.conf[j].near

\* Detaching a line keeps all counts right; what nobody uses any more is freed.
LEMMA DetachKeeps ==
  ASSUME NEW t, Settled(t), NEW c \in Clients, NEW i \in Used(t, c)
  PROVE  LET u == detach_conf(t, c, i)
         IN /\ Settled(u) /\ LinesStay(t, u)
            /\ Used(u, c) = Used(t, c) \ {i}
            /\ \A d \in Clients : d # c => u.at[d] = t.at[d] /\ Used(u, d) = Used(t, d)
<1> DEFINE u == detach_conf(t, c, i)
           k == t.conf[i].class
           links == IF t.class[k].links > 0 THEN t.class[k].links - 1 ELSE 0
           place == CHOOSE p \in DOMAIN t.at[c] : t.at[c][p] = i
           list == RemoveAt(t.at[c], place)
           y == IF t.conf[i].clients = 1 /\ ~t.conf[i].legal THEN FreeConf
                ELSE [t.conf[i] EXCEPT !.clients = @ - 1]
           z == IF t.class[k].max = -1 /\ links = 0 THEN FreeClass
                ELSE [t.class[k] EXCEPT !.links = links]
<1>1. /\ t \in Tables /\ NoneTwice(t) /\ Blank(t) /\ UsedLive(t) /\ Counted(t) /\ LinesSound(t)
      /\ ClassesSound(t) /\ \A j \in ClassId : t.class[j].use = "listed" => t.class[j].max >= 0
  BY DEF Settled, Sound
<1>2. /\ t.conf \in [ConfId -> ConfRec] /\ t.class \in [ClassId -> ClassRec]
      /\ t.at \in [Clients -> Seq(ConfId)]
  BY <1>1, TablesAre
<1>3. i \in ConfId /\ t.conf[i].clients > 0 /\ t.class[k].links > 0 /\ t.conf[i].kind # "free"
  BY <1>1, UsedCounts DEF UsedLive
<1>4. /\ k \in ClassId /\ t.conf[i] \in ConfRec /\ t.class[k] \in ClassRec /\ t.at[c] \in Seq(ConfId)
      /\ t.conf[i].clients \in Nat /\ t.class[k].links \in Nat /\ links = t.class[k].links - 1
      /\ links \in Nat /\ t.conf[i].legal \in BOOLEAN
  <2>1. k \in ClassId /\ t.conf[i] \in ConfRec /\ t.at[c] \in Seq(ConfId)
        /\ t.conf[i].clients \in Nat /\ t.conf[i].legal \in BOOLEAN
    BY <1>2, <1>3, ConfIs
  <2> HIDE DEF k
  <2>2. t.class[k] \in ClassRec /\ t.class[k].links \in Nat
    BY <1>2, <2>1, ClassIs
  <2> QED BY <1>3, <2>1, <2>2
<1>5. place \in DOMAIN t.at[c] /\ t.at[c][place] = i
  BY DEF Used
<1>6. /\ list \in Seq(ConfId)
      /\ \A m, n \in DOMAIN list : list[m] = list[n] => m = n
      /\ {list[n] : n \in DOMAIN list} = {t.at[c][n] : n \in DOMAIN t.at[c]} \ {i}
  <2>1. \A m, n \in DOMAIN t.at[c] : t.at[c][m] = t.at[c][n] => m = n
    BY <1>1 DEF NoneTwice
  <2> HIDE DEF place
  <2>2. list \in Seq(ConfId) /\ IsWithout(list, i, t.at[c])
    BY <1>4, <1>5, <2>1, TakenOut
  <2> HIDE DEF list
  <2> QED BY <2>2 DEF IsWithout
<1>7. /\ y \in ConfRec
      /\ y.clients = t.conf[i].clients - 1
      /\ \/ y = FreeConf /\ ~t.conf[i].legal /\ y.clients = 0
         \/ /\ y.kind = t.conf[i].kind /\ y.class = k /\ y.legal = t.conf[i].legal
            /\ y.near = t.conf[i].near /\ (t.conf[i].legal \/ y.clients > 0)
  <2>1. CASE t.conf[i].clients = 1 /\ ~t.conf[i].legal
    <3>1. y = FreeConf /\ FreeConf.clients = 0 /\ FreeConf \in ConfRec
      BY <2>1, ConfIs DEF FreeConf
    <3> HIDE DEF y
    <3> QED BY <2>1, <3>1
  <2>2. CASE ~(t.conf[i].clients = 1 /\ ~t.conf[i].legal)
    <3>1. t.conf[i].clients - 1 \in Nat /\ (t.conf[i].legal \/ t.conf[i].clients - 1 > 0)
      BY <1>3, <1>4, <2>2
    <3>2. y = [t.conf[i] EXCEPT !.clients = t.conf[i].clients - 1]
      BY <2>2
    <3> HIDE DEF y
    <3>3. y \in ConfRec
      BY <1>4, <3>1, <3>2, ConfIs
    <3> QED BY <1>4, <3>1, <3>2, <3>3 DEF ConfRec
  <2> QED BY <2>1, <2>2
<1>8. /\ z \in ClassRec /\ z.links = t.class[k].links - 1
      /\ \/ z = FreeClass /\ t.class[k].max = -1 /\ z.links = 0
         \/ z.use = t.class[k].use /\ z.max = t.class[k].max /\ (z.max = -1 => z.links > 0)
  <2>a. links = t.class[k].links - 1 /\ links \in Nat
    BY <1>4, ClassIs
  <2>1. CASE t.class[k].max = -1 /\ links = 0
    <3>1. z = FreeClass /\ FreeClass \in ClassRec /\ FreeClass.links = 0
      BY <2>1, ClassIs DEF FreeClass
    <3> HIDE DEF z, links
    <3> QED BY <2>1, <2>a, <3>1
  <2>2. CASE ~(t.class[k].max = -1 /\ links = 0)
    <3>1. z = [t.class[k] EXCEPT !.links = links]
      BY <2>2
    <3> HIDE DEF z, links
    <3>2. z \in ClassRec
      BY <1>4, <3>1, ClassIs
    <3>3. z.links = links /\ z.use = t.class[k].use /\ z.max = t.class[k].max
      BY <1>4, <3>1 DEF ClassRec
    <3>4. z.max = -1 => links > 0
      <4>0. \A n \in Nat : n = 0 \/ n > 0
        BY ONLY SMT
      <4>1. links = 0 \/ links > 0
        BY ONLY <2>a, <4>0, Zenon
      <4> HIDE DEF k
      <4> QED BY ONLY <2>2, <3>3, <4>1
    <3> HIDE DEF k
    <3> QED BY ONLY <2>a, <3>2, <3>3, <3>4
  <2> HIDE DEF z, links, k
  <2> QED BY <2>1, <2>2
<1>9. u = Put(t, c, list, i, y, k, z)
  BY <1>1, DetachIs
<1> HIDE DEF u, y, z, list, links, place
<1>a. k \in ClassId
  BY <1>4
<1>10. /\ u \in Tables
       /\ \A j \in ConfId : u.conf[j] = IF j = i THEN y ELSE t.conf[j]
       /\ \A j \in ClassId : u.class[j] = IF j = k THEN z ELSE t.class[j]
       /\ \A d \in Clients : u.at[d] = IF d = c THEN list ELSE t.at[d]
  <2>1. /\ t \in Tables /\ c \in Clients /\ i \in ConfId /\ list \in Seq(ConfId) /\ y \in ConfRec
        /\ z \in ClassRec
    BY <1>1, <1>3, <1>6, <1>7, <1>8
  <2> HIDE DEF k
  <2> QED BY ONLY <1>9, <1>a, <2>1, PutIs
<1> HIDE DEF k
<1>11. /\ Used(u, c) = Used(t, c) \ {i}
       /\ \A d \in Clients : d # c => u.at[d] = t.at[d] /\ Used(u, d) = Used(t, d)
  <2>1. u.at[c] = list /\ \A d \in Clients : d # c => u.at[d] = t.at[d]
    BY <1>10
  <2>2. Used(u, c) = {list[n] : n \in DOMAIN list}
    BY <2>1 DEF Used
  <2>3. Used(t, c) = {t.at[c][n] : n \in DOMAIN t.at[c]}
    BY DEF Used
  <2>4. \A d \in Clients : d # c => Used(u, d) = Used(t, d)
    BY <2>1 DEF Used
  <2> QED BY <1>6, <2>1, <2>2, <2>3, <2>4
<1>12. LinesStay(t, u)
  <2>1. ASSUME NEW j \in ConfId, j # i
        PROVE  u.conf[j] = t.conf[j]
    BY <1>10, <2>1
  <2>2. u.conf[i] = y /\ FreeConf.legal = FALSE /\ FreeConf.kind = "free"
    BY <1>3, <1>10 DEF FreeConf
  <2>3. \/ y.kind = "free" /\ y.legal = FALSE /\ t.conf[i].legal = FALSE
        \/ /\ y.kind = t.conf[i].kind /\ y.class = t.conf[i].class /\ y.legal = t.conf[i].legal
           /\ y.near = t.conf[i].near
    BY <1>4, <1>7, <2>2 DEF k
  <2> QED BY <2>1, <2>2, <2>3 DEF LinesStay
<1>13. NoneTwice(u)
  BY <1>1, <1>6, <1>10 DEF NoneTwice
<1>14. Counted(u)
  <2> DEFINE cl == ClassesOf(t)
  <2>1. /\ UsedBy(t) \in [Clients -> SUBSET ConfId] /\ UsedBy(u) \in [Clients -> SUBSET ConfId]
        /\ cl \in [ConfId -> ClassId] /\ cl[i] = k
        /\ i \notin UsedBy(u)[c] /\ UsedBy(t)[c] = UsedBy(u)[c] \cup {i}
        /\ \A d \in Clients : d # c => UsedBy(t)[d] = UsedBy(u)[d]
    BY <1>1, <1>3, <1>10, <1>11, CountsAre DEF ClassesOf, k
  <2>2. /\ \A j \in ClassId : Cardinality(LinkSet(UsedBy(t), cl, j))
             = Cardinality(LinkSet(UsedBy(u), cl, j)) + (IF j = k THEN 1 ELSE 0)
        /\ \A j \in ConfId : Cardinality(HolderSet(UsedBy(t), j))
             = Cardinality(HolderSet(UsedBy(u), j)) + (IF j = i THEN 1 ELSE 0)
    BY <1>3, <2>1, CountUp
  <2>3. \A j \in ConfId : u.conf[j].clients = Cardinality(ClientsOf(u, j))
    <3>1. \A j \in ConfId : /\ t.conf[j].clients = Cardinality(ClientsOf(t, j))
                            /\ Cardinality(ClientsOf(t, j)) = Cardinality(HolderSet(UsedBy(t), j))
                            /\ Cardinality(ClientsOf(u, j)) = Cardinality(HolderSet(UsedBy(u), j))
                            /\ Cardinality(HolderSet(UsedBy(u), j)) \in Nat
      BY <1>1, <1>10, CountsAre DEF Counted
    <3> QED BY <1>7, <1>10, <2>2, <3>1
  <2>4. \A j \in ClassId : LinksOf(u, j) = LinkSet(UsedBy(u), cl, j)
    <3>1. ASSUME NEW d \in Clients, NEW j \in ConfId, j \in UsedBy(u)[d]
          PROVE  ClassesOf(u)[j] = cl[j]
      <4>1. u.conf[j].class = t.conf[j].class \/ (j = i /\ u.conf[j].clients = 0)
        BY <1>7, <1>10 DEF k
      <4>2. d \in ClientsOf(u, j)
        BY <1>10, <3>1, CountsAre DEF ClientsOf
      <4>3. Cardinality(ClientsOf(u, j)) # 0
        BY <1>10, <4>2, CountsAre, FS_EmptySet
      <4> QED BY <2>3, <4>1, <4>3 DEF ClassesOf
    <3> QED BY <1>10, <3>1, CountsAre DEF LinkSet
  <2>5. \A j \in ClassId : u.class[j].links = Cardinality(LinksOf(u, j))
    <3>1. \A j \in ClassId : /\ t.class[j].links = Cardinality(LinksOf(t, j))
                             /\ Cardinality(LinksOf(t, j)) = Cardinality(LinkSet(UsedBy(t), cl, j))
                             /\ Cardinality(LinkSet(UsedBy(u), cl, j)) \in Nat
      BY <1>1, CountsAre, SetsFinite DEF Counted
    <3> QED BY <1>8, <1>10, <2>2, <2>4, <3>1
  <2> QED BY <2>3, <2>5 DEF Counted
<1>15. Blank(u)
  <2>1. t.class[k].use # "freed"
    BY <1>1, <1>3 DEF LinesSound, LineSound, k
  <2> QED BY <1>1, <1>3, <1>4, <1>7, <1>8, <1>10, <2>1 DEF Blank
<1>16. UsedLive(u)
  <2>1. ASSUME NEW d \in Clients, NEW j \in Used(u, d) PROVE u.conf[j].kind # "free"
    <3>1. j \in ConfId /\ u.conf[j].clients > 0 /\ j \in Used(t, d)
      BY <1>10, <1>11, <1>14, UsedCounts
    <3>2. t.conf[j].kind # "free"
      BY <1>1, <3>1 DEF UsedLive
    <3> QED BY <1>3, <1>7, <1>10, <3>1, <3>2
  <2> QED BY <2>1 DEF UsedLive
<1>17. LinesSound(u)
  <2>1. ASSUME NEW j \in ConfId, u.conf[j].kind # "free"
        PROVE  /\ t.conf[j].kind # "free" /\ u.conf[j].class = t.conf[j].class
               /\ u.conf[j].legal = t.conf[j].legal /\ u.conf[j].near = t.conf[j].near
               /\ u.conf[j].kind = t.conf[j].kind
    BY <1>12, <2>1 DEF LinesStay
  <2>2. ASSUME NEW j \in ConfId, u.conf[j].kind # "free"
        PROVE  u.conf[j].legal \/ u.conf[j].clients > 0
    <3>1. CASE j = i
      BY <1>7, <1>10, <2>2, <3>1 DEF FreeConf
    <3>2. CASE j # i
      BY <1>1, <1>10, <2>1, <2>2, <3>2 DEF LinesSound, LineSound
    <3> QED BY <3>1, <3>2
  <2>3. ASSUME NEW j \in ConfId, u.conf[j].legal
        PROVE  /\ u.class[u.conf[j].class].use = "listed" /\ u.class[u.conf[j].class].max >= 0
               /\ t.conf[j].legal
    <3>1. t.conf[j].legal /\ u.conf[j].kind # "free"
      BY <1>12, <2>3, <1>15 DEF LinesStay, Blank, FreeConf
    <3>2. /\ u.conf[j].class = t.conf[j].class /\ t.conf[j].class \in ClassId
          /\ t.class[t.conf[j].class].use = "listed" /\ t.class[t.conf[j].class].max >= 0
      BY <1>1, <1>2, <2>1, <3>1, ConfIs DEF LinesSound
    <3>3. t.class[t.conf[j].class].max # -1
      BY <3>2
    <3> QED BY <1>8, <1>10, <3>1, <3>2, <3>3
  <2>4. ASSUME NEW j \in ConfId, u.conf[j].kind # "free"
        PROVE  u.class[u.conf[j].class].use # "freed"
    <3>1. CASE u.conf[j].legal
      BY <2>3, <3>1
    <3>2. CASE ~u.conf[j].legal
      <4>1. u.class[u.conf[j].class].links > 0 /\ u.conf[j].class \in ClassId
        BY <1>10, <1>14, <2>2, <2>4, <3>2, UsedCounts, TablesAre, ConfIs
      <4> QED BY <1>15, <4>1 DEF Blank, FreeClass
    <3> QED BY <3>1, <3>2
  <2>5. ASSUME NEW j \in ConfId, u.conf[j].kind # "free"
        PROVE  \E x \in AnyLine : x.kind = u.conf[j].kind /\ x.near = u.conf[j].near
    BY <1>1, <2>1, <2>5 DEF LinesSound, LineSound
  <2> QED BY <2>2, <2>3, <2>4, <2>5 DEF LinesSound, LineSound
<1>18. ClassesSound(u) /\ \A j \in ClassId : u.class[j].use = "listed" => u.class[j].max >= 0
  <2>1. 0 \in ClassId
    BY ConfsAssumption DEF ClassId
  <2>2. t.class[0].max # -1
    BY <1>1 DEF ClassesSound
  <2>3. \A j \in ClassId : u.class[j].use # "freed" =>
          u.class[j].use = t.class[j].use /\ u.class[j].max = t.class[j].max
    BY <1>8, <1>10 DEF FreeClass
  <2>4. \A j \in ClassId : u.class[j].use = "unlinked" => u.class[j].links > 0
    <3>1. u.class[k].use = "unlinked" => u.class[k].links > 0
      BY <1>1, <1>4, <1>8, <1>10 DEF ClassesSound, FreeClass
    <3> QED BY <1>1, <1>10, <3>1 DEF ClassesSound
  <2>5. u.class[0].use # "freed"
    BY <1>1, <1>8, <1>10, <2>1, <2>2 DEF ClassesSound
  <2> QED BY <1>1, <2>1, <2>3, <2>4, <2>5 DEF ClassesSound
<1> QED BY <1>10, <1>11, <1>12, <1>13, <1>14, <1>15, <1>16, <1>17, <1>18 DEF Settled, Sound, u

-----------------------------------------------------------------------------
(* Lists of lines, one after the other.                                    *)

\* A set of natural numbers that is not empty has a least element.
LEMMA LeastNat ==
  ASSUME NEW T \in SUBSET Nat, T # {}
  PROVE  \E x \in T : \A y \in T : x <= y
<1> DEFINE R == {ss \in Nat \X Nat : ss[1] < ss[2]}
<1>1. IsWellFoundedOn(R, Nat)
  BY NatLessThanWellFounded DEF OpToRel
<1>2. \A x, y \in Nat : <<y, x>> \in R <=> y < x
  OBVIOUS
<1> HIDE DEF R
<1>3. PICK x \in T : \A y \in T : ~(<<y, x>> \in R)
  BY <1>1, WFMin
<1>4. \A y \in T : x \in Nat /\ y \in Nat /\ ~(y < x)
  BY <1>2, <1>3
<1>5. \A y \in T : x <= y
  BY <1>4
<1> QED BY <1>5

\* A set that holds 0 and the successors of its members up to n holds 0..n.
LEMMA UpTo ==
  ASSUME NEW n \in Nat, NEW G, 0 \in G, \A k \in 0..n : k # n /\ k \in G => k + 1 \in G
  PROVE  0..n \subseteq G
<1> DEFINE T == (0..n) \ G
<1> SUFFICES ASSUME T # {} PROVE FALSE
  OBVIOUS
<1>1. T \in SUBSET Nat
  OBVIOUS
<1>2. PICK x \in T : \A y \in T : x <= y
  BY <1>1, LeastNat
<1>3. x \in 0..n /\ x # 0 /\ x \notin G
  OBVIOUS
<1>4. x - 1 \in 0..n /\ x - 1 # n /\ ~(x <= x - 1)
  BY <1>3
<1>5. x - 1 \in G
  BY <1>2, <1>4
<1>6. (x - 1) + 1 \in G
  BY <1>4, <1>5
<1> QED BY <1>3, <1>6

\* The least element of a set of natural numbers.
LEMMA MinIs ==
  ASSUME NEW T \in SUBSET Nat, T # {}
  PROVE  Min(T) \in T /\ \A y \in T : Min(T) <= y
<1>1. \E x \in T : \A y \in T : x <= y
  BY LeastNat
<1> QED BY <1>1 DEF Min

\* det_confs takes the lines of the client one after the other.
LEMMA DetIs ==
  ASSUME NEW t, NEW c, NEW l, l = t.at[c], Len(l) \in Nat
  PROVE  \E g : /\ g[0] = t /\ det_confs(t, c) = g[Len(l)]
                /\ \A n \in 1..Len(l) : g[n] = detach_conf(g[n - 1], c, l[n])
<1> DEFINE L == Len(l)
           F(m, g) == g = [n \in 0..m |-> IF n = 0 THEN t ELSE detach_conf(g[n - 1], c, l[n])]
           G == {m \in 0..L : \E g : F(m, g)}
           rest == CHOOSE g : F(L, g)
<1>0. det_confs(t, c) = rest[L]
  BY DEF det_confs
<1> HIDE DEF rest
<1>1. 0 \in G
  <2> DEFINE g == [n \in 0..0 |-> t]
  <2>1. F(0, g)
    OBVIOUS
  <2>2. 0 \in 0..L
    OBVIOUS
  <2> HIDE DEF g, F
  <2> QED BY <2>1, <2>2
<1>2. ASSUME NEW m \in 0..L, m # L, m \in G PROVE m + 1 \in G
  <2>1. PICK g : F(m, g)
    BY <1>2
  <2> DEFINE h == [n \in 0..(m + 1) |-> IF n = m + 1 THEN detach_conf(g[m], c, l[m + 1]) ELSE g[n]]
  <2>2. \A n \in 0..m : h[n] = g[n] /\ g[n] = IF n = 0 THEN t ELSE detach_conf(g[n - 1], c, l[n])
    BY <2>1
  <2>3. \A n \in 0..(m + 1) : h[n] = IF n = 0 THEN t ELSE detach_conf(h[n - 1], c, l[n])
    <3>1. ASSUME NEW n \in 0..(m + 1) PROVE h[n] = IF n = 0 THEN t ELSE detach_conf(h[n - 1], c, l[n])
      <4>1. CASE n = m + 1
        <5>1. h[n] = detach_conf(g[m], c, l[m + 1]) /\ n # 0 /\ n - 1 = m /\ m \in 0..m
          BY <4>1
        <5>2. h[m] = g[m]
          BY <2>2, <5>1
        <5> QED BY <4>1, <5>1, <5>2
      <4>2. CASE n # m + 1
        <5>1. n \in 0..m /\ (n # 0 => n - 1 \in 0..m)
          BY <4>2
        <5> HIDE DEF h
        <5> QED BY <2>2, <5>1
      <4> QED BY <4>1, <4>2
    <3> QED BY <3>1
  <2>4. F(m + 1, h)
    BY <2>3
  <2>5. m + 1 \in 0..L
    BY <1>2
  <2> HIDE DEF h, F
  <2> QED BY <2>4, <2>5
<1>3. 0..L \subseteq G
  <2> HIDE DEF G
  <2> QED BY <1>1, <1>2, UpTo
<1>4. \E g : F(L, g)
  <2>1. L \in 0..L
    OBVIOUS
  <2> HIDE DEF F
  <2> QED BY <1>3, <2>1
<1>5. F(L, rest)
  BY <1>4 DEF rest
<1>6. \A n \in 0..L : rest[n] = IF n = 0 THEN t ELSE detach_conf(rest[n - 1], c, l[n])
  BY <1>5
<1>7. rest[0] = t /\ \A n \in 1..L : rest[n] = detach_conf(rest[n - 1], c, l[n])
  BY <1>6
<1> QED BY <1>0, <1>7

\* attach_confs too takes the lines of its list one after the other.
LEMMA AttachListIs ==
  ASSUME NEW t, NEW c, NEW l, Len(l) \in Nat
  PROVE  \E g : /\ g[0] = t /\ attach_confs(t, c, l) = g[Len(l)]
                /\ \A n \in 1..Len(l) : g[n] = attach_conf(g[n - 1], c, l[n])
<1> DEFINE L == Len(l)
           F(m, g) == g = [n \in 0..m |-> IF n = 0 THEN t ELSE attach_conf(g[n - 1], c, l[n])]
           G == {m \in 0..L : \E g : F(m, g)}
           rest == CHOOSE g : F(L, g)
<1>0. attach_confs(t, c, l) = rest[L]
  BY DEF attach_confs
<1> HIDE DEF rest
<1>1. 0 \in G
  <2> DEFINE g == [n \in 0..0 |-> t]
  <2>1. F(0, g)
    OBVIOUS
  <2>2. 0 \in 0..L
    OBVIOUS
  <2> HIDE DEF g, F
  <2> QED BY <2>1, <2>2
<1>2. ASSUME NEW m \in 0..L, m # L, m \in G PROVE m + 1 \in G
  <2>1. PICK g : F(m, g)
    BY <1>2
  <2> DEFINE h == [n \in 0..(m + 1) |-> IF n = m + 1 THEN attach_conf(g[m], c, l[m + 1]) ELSE g[n]]
  <2>2. \A n \in 0..m : h[n] = g[n] /\ g[n] = IF n = 0 THEN t ELSE attach_conf(g[n - 1], c, l[n])
    BY <2>1
  <2>3. \A n \in 0..(m + 1) : h[n] = IF n = 0 THEN t ELSE attach_conf(h[n - 1], c, l[n])
    <3>1. ASSUME NEW n \in 0..(m + 1) PROVE h[n] = IF n = 0 THEN t ELSE attach_conf(h[n - 1], c, l[n])
      <4>1. CASE n = m + 1
        <5>1. h[n] = attach_conf(g[m], c, l[m + 1]) /\ n # 0 /\ n - 1 = m /\ m \in 0..m
          BY <4>1
        <5>2. h[m] = g[m]
          BY <2>2, <5>1
        <5> QED BY <4>1, <5>1, <5>2
      <4>2. CASE n # m + 1
        <5>1. n \in 0..m /\ (n # 0 => n - 1 \in 0..m)
          BY <4>2
        <5> HIDE DEF h
        <5> QED BY <2>2, <5>1
      <4> QED BY <4>1, <4>2
    <3> QED BY <3>1
  <2>4. F(m + 1, h)
    BY <2>3
  <2>5. m + 1 \in 0..L
    BY <1>2
  <2> HIDE DEF h, F
  <2> QED BY <2>4, <2>5
<1>3. 0..L \subseteq G
  <2> HIDE DEF G
  <2> QED BY <1>1, <1>2, UpTo
<1>4. \E g : F(L, g)
  <2>1. L \in 0..L
    OBVIOUS
  <2> HIDE DEF F
  <2> QED BY <1>3, <2>1
<1>5. F(L, rest)
  BY <1>4 DEF rest
<1>6. \A n \in 0..L : rest[n] = IF n = 0 THEN t ELSE attach_conf(rest[n - 1], c, l[n])
  BY <1>5
<1>7. rest[0] = t /\ \A n \in 1..L : rest[n] = attach_conf(rest[n - 1], c, l[n])
  BY <1>6
<1> QED BY <1>0, <1>7

\* initconf adds the lines of a file one after the other, and looks at the classes then.
LEMMA InitconfIs ==
  ASSUME NEW t, NEW l, Len(l) \in Nat
  PROVE  \E g : /\ g[0] = t /\ initconf(t, l) = check_class(g[Len(l)])
                /\ \A n \in 1..Len(l) : g[n] = AddLine(g[n - 1], l[n])
<1> DEFINE L == Len(l)
           F(m, g) == g = [n \in 0..m |-> IF n = 0 THEN t ELSE AddLine(g[n - 1], l[n])]
           G == {m \in 0..L : \E g : F(m, g)}
           rest == CHOOSE g : F(L, g)
<1>0. initconf(t, l) = check_class(rest[L])
  BY DEF initconf
<1> HIDE DEF rest
<1>1. 0 \in G
  <2> DEFINE g == [n \in 0..0 |-> t]
  <2>1. F(0, g)
    OBVIOUS
  <2>2. 0 \in 0..L
    OBVIOUS
  <2> HIDE DEF g, F
  <2> QED BY <2>1, <2>2
<1>2. ASSUME NEW m \in 0..L, m # L, m \in G PROVE m + 1 \in G
  <2>1. PICK g : F(m, g)
    BY <1>2
  <2> DEFINE h == [n \in 0..(m + 1) |-> IF n = m + 1 THEN AddLine(g[m], l[m + 1]) ELSE g[n]]
  <2>2. \A n \in 0..m : h[n] = g[n] /\ g[n] = IF n = 0 THEN t ELSE AddLine(g[n - 1], l[n])
    BY <2>1
  <2>3. \A n \in 0..(m + 1) : h[n] = IF n = 0 THEN t ELSE AddLine(h[n - 1], l[n])
    <3>1. ASSUME NEW n \in 0..(m + 1) PROVE h[n] = IF n = 0 THEN t ELSE AddLine(h[n - 1], l[n])
      <4>1. CASE n = m + 1
        <5>1. h[n] = AddLine(g[m], l[m + 1]) /\ n # 0 /\ n - 1 = m /\ m \in 0..m
          BY <4>1
        <5>2. h[m] = g[m]
          BY <2>2, <5>1
        <5> QED BY <4>1, <5>1, <5>2
      <4>2. CASE n # m + 1
        <5>1. n \in 0..m /\ (n # 0 => n - 1 \in 0..m)
          BY <4>2
        <5> HIDE DEF h
        <5> QED BY <2>2, <5>1
      <4> QED BY <4>1, <4>2
    <3> QED BY <3>1
  <2>4. F(m + 1, h)
    BY <2>3
  <2>5. m + 1 \in 0..L
    BY <1>2
  <2> HIDE DEF h, F
  <2> QED BY <2>4, <2>5
<1>3. 0..L \subseteq G
  <2> HIDE DEF G
  <2> QED BY <1>1, <1>2, UpTo
<1>4. \E g : F(L, g)
  <2>1. L \in 0..L
    OBVIOUS
  <2> HIDE DEF F
  <2> QED BY <1>3, <2>1
<1>5. F(L, rest)
  BY <1>4 DEF rest
<1>6. \A n \in 0..L : rest[n] = IF n = 0 THEN t ELSE AddLine(rest[n - 1], l[n])
  BY <1>5
<1>7. rest[0] = t /\ \A n \in 1..L : rest[n] = AddLine(rest[n - 1], l[n])
  BY <1>6
<1> QED BY <1>0, <1>7

\* One line after another stays or is freed.
LEMMA StayOn ==
  ASSUME NEW t, NEW u, NEW v, LinesStay(t, u), LinesStay(u, v)
  PROVE  LinesStay(t, v)
<1>1. ASSUME NEW j \in ConfId
      PROVE  /\ v.conf[j].legal = t.conf[j].legal
             /\ v.conf[j].kind = "free" \/
                /\ v.conf[j].kind = t.conf[j].kind /\ v.conf[j].class = t.conf[j].class
                /\ v.conf[j].near = t.conf[j].near
  <2>1. /\ u.conf[j].legal = t.conf[j].legal
        /\ u.conf[j].kind = "free" \/
           /\ u.conf[j].kind = t.conf[j].kind /\ u.conf[j].class = t.conf[j].class
           /\ u.conf[j].near = t.conf[j].near
    BY DEF LinesStay
  <2>2. /\ v.conf[j].legal = u.conf[j].legal
        /\ v.conf[j].kind = "free" \/
           /\ v.conf[j].kind = u.conf[j].kind /\ v.conf[j].class = u.conf[j].class
           /\ v.conf[j].near = u.conf[j].near
    BY DEF LinesStay
  <2> QED BY <2>1, <2>2
<1> QED BY <1>1 DEF LinesStay

\* After det_confs the client has no line, and all else is as it was.
LEMMA DetDone ==
  ASSUME NEW t, Settled(t), NEW c \in Clients
  PROVE  LET u == det_confs(t, c)
         IN /\ Settled(u) /\ LinesStay(t, u) /\ u.at[c] = <<>>
            /\ \A d \in Clients : d # c => u.at[d] = t.at[d] /\ Used(u, d) = Used(t, d)
<1> DEFINE l == t.at[c]
           L == Len(l)
<1>1. l \in Seq(ConfId) /\ \A j, k \in DOMAIN l : l[j] = l[k] => j = k
  BY TablesAre DEF Settled, Sound, NoneTwice
<1>2. Used(t, c) = {l[j] : j \in DOMAIN l}
  BY DEF Used
<1>3. L \in Nat /\ DOMAIN l = 1..L
  BY <1>1
<1>4. PICK g : /\ g[0] = t /\ det_confs(t, c) = g[L]
               /\ \A n \in 1..L : g[n] = detach_conf(g[n - 1], c, l[n])
  <2> HIDE DEF l
  <2>1. l = t.at[c]
    BY DEF l
  <2> QED BY <1>3, <2>1, DetIs
<1> HIDE DEF l
<1> DEFINE P(u, n) == /\ Settled(u) /\ LinesStay(t, u) /\ Used(u, c) = {l[j] : j \in (n + 1)..L}
                      /\ \A d \in Clients : d # c => u.at[d] = t.at[d] /\ Used(u, d) = Used(t, d)
           G == {n \in 0..L : P(g[n], n)}
<1>5. 0 \in G
  <2>1. (0 + 1)..L = 1..L /\ 0 \in 0..L
    BY <1>3
  <2>2. LinesStay(t, t)
    BY DEF LinesStay
  <2> HIDE DEF L
  <2> QED BY <1>2, <1>3, <1>4, <2>1, <2>2
<1>6. ASSUME NEW n \in 0..L, n # L, n \in G PROVE n + 1 \in G
  <2>1. P(g[n], n)
    BY <1>6
  <2>2. n + 1 \in 0..L /\ n + 1 \in 1..L /\ (n + 1) - 1 = n /\ n + 1 \in (n + 1)..L
    <3> HIDE DEF L, G
    <3> QED BY <1>3, <1>6
  <2>3. g[n + 1] = detach_conf(g[n], c, l[n + 1])
    BY <1>4, <2>2
  <2> DEFINE u == g[n]
             v == g[n + 1]
  <2>4. Settled(u) /\ l[n + 1] \in Used(u, c) /\ LinesStay(t, u)
    BY <2>1, <2>2
  <2> HIDE DEF u, v
  <2>5. v = detach_conf(u, c, l[n + 1])
    BY <2>3 DEF u, v
  <2>6. /\ Settled(v) /\ LinesStay(u, v) /\ Used(v, c) = Used(u, c) \ {l[n + 1]}
        /\ \A d \in Clients : d # c => v.at[d] = u.at[d] /\ Used(v, d) = Used(u, d)
    BY <2>4, <2>5, DetachKeeps
  <2>7. {l[j] : j \in (n + 1)..L} \ {l[n + 1]} = {l[j] : j \in ((n + 1) + 1)..L}
    <3>1. \A j \in (n + 1)..L : j \in DOMAIN l /\ (j # n + 1 <=> j \in ((n + 1) + 1)..L)
      BY <1>3, <2>2
    <3>2. ((n + 1) + 1)..L \subseteq (n + 1)..L /\ n + 1 \in DOMAIN l
      BY <1>3, <2>2
    <3> HIDE DEF L
    <3> QED BY <1>1, <3>1, <3>2
  <2>8. LinesStay(t, v)
    BY <2>4, <2>6, StayOn
  <2>9. P(v, n + 1)
    <3>1. Used(u, c) = {l[j] : j \in (n + 1)..L}
      BY <2>1 DEF u
    <3>2. \A d \in Clients : d # c => u.at[d] = t.at[d] /\ Used(u, d) = Used(t, d)
      BY <2>1 DEF u
    <3>3. Used(v, c) = {l[j] : j \in ((n + 1) + 1)..L}
      BY <2>6, <2>7, <3>1
    <3> QED BY <2>6, <2>8, <3>2, <3>3
  <2> HIDE DEF P
  <2> QED BY <2>2, <2>9 DEF v
<1>7. L \in G
  <2>1. 0..L \subseteq G
    <3> HIDE DEF G
    <3> QED BY <1>3, <1>5, <1>6, UpTo
  <2>2. L \in 0..L
    BY <1>3
  <2> HIDE DEF G, L
  <2> QED BY <2>1, <2>2
<1> DEFINE u == g[L]
<1>8. P(u, L)
  BY <1>7
<1> HIDE DEF u
<1>9. Used(u, c) = {}
  <2>1. (L + 1)..L = {}
    BY <1>3
  <2> QED BY <1>8, <2>1
<1>10. u.at[c] = <<>>
  <2>1. u.at[c] \in Seq(ConfId)
    BY <1>8, TablesAre DEF Settled, Sound
  <2>2. Len(u.at[c]) \in Nat /\ DOMAIN u.at[c] = 1..Len(u.at[c])
    BY <2>1
  <2>3. DOMAIN u.at[c] = {}
    BY <1>9 DEF Used
  <2>4. Len(u.at[c]) = 0
    <3>1. 1 \notin 1..Len(u.at[c])
      BY <2>2, <2>3
    <3> QED BY <2>2, <3>1
  <2> QED BY <2>1, <2>4, EmptySeq
<1>11. det_confs(t, c) = u
  BY <1>4 DEF u
<1> QED BY <1>8, <1>10, <1>11

\* The list more is list with lines of S in front.
OnTop(more, list, S) ==
  \E d \in Nat : /\ Len(more) = Len(list) + d /\ \A k \in 1..d : more[k] \in S
                 /\ \A k \in DOMAIN list : more[k + d] = list[k]

\* A line of S more in front.
LEMMA OneOnTop ==
  ASSUME NEW more \in Seq(ConfId), NEW list \in Seq(ConfId), NEW S, NEW i \in ConfId, i \in S,
         OnTop(more, list, S)
  PROVE  OnTop(<<i>> \o more, list, S)
<1> DEFINE last == <<i>> \o more
<1>1. last \in Seq(ConfId) /\ IsFront(last, i, more)
  BY InFront
<1> HIDE DEF last
<1>2. PICK d \in Nat : /\ Len(more) = Len(list) + d /\ \A k \in 1..d : more[k] \in S
                       /\ \A k \in DOMAIN list : more[k + d] = list[k]
  BY DEF OnTop
<1> DEFINE m == Len(more)
           l == Len(list)
<1>3. m \in Nat /\ l \in Nat /\ DOMAIN more = 1..m /\ DOMAIN list = 1..l
  OBVIOUS
<1>4. Len(last) = m + 1 /\ last[1] = i /\ \A k \in 1..m : last[k + 1] = more[k]
  BY <1>1, <1>3 DEF IsFront
<1>5. m = l + d
  BY <1>2
<1> HIDE DEF m, l
<1>6. Len(last) = l + (d + 1) /\ d + 1 \in Nat
  BY <1>3, <1>4, <1>5
<1>7. ASSUME NEW k \in 1..(d + 1) PROVE last[k] \in S
  <2>1. CASE k = 1
    BY <1>4, <2>1
  <2>2. CASE k # 1
    <3>1. k - 1 \in 1..d /\ k - 1 \in 1..m /\ (k - 1) + 1 = k
      BY <1>3, <1>5, <2>2
    <3>2. last[(k - 1) + 1] = more[k - 1] /\ more[k - 1] \in S
      BY <1>2, <1>4, <3>1
    <3> QED BY <3>1, <3>2
  <2> QED BY <2>1, <2>2
<1>8. ASSUME NEW k \in DOMAIN list PROVE last[k + (d + 1)] = list[k]
  <2>1. k + d \in 1..m /\ (k + d) + 1 = k + (d + 1)
    BY <1>3, <1>5
  <2>2. last[(k + d) + 1] = more[k + d] /\ more[k + d] = list[k]
    BY <1>2, <1>4, <2>1
  <2> QED BY <2>1, <2>2
<1>9. OnTop(last, list, S)
  BY <1>6, <1>7, <1>8 DEF OnTop, l
<1> QED BY <1>9 DEF last

\* The list l holds the lines of S, which are legal and not I-lines.
HoldsLegal(t, l, S) ==
  /\ l \in Seq(ConfId) /\ {l[n] : n \in DOMAIN l} = S
  /\ \A n \in DOMAIN l : t.conf[l[n]].legal /\ t.conf[l[n]].kind # "I"
\* The tables u are those of t, but c has the lines of S too.
HasAll(t, u, c, S) ==
  /\ Settled(u) /\ SameLines(t, u) /\ Used(u, c) = Used(t, c) \cup S
  /\ OnTop(u.at[c], t.at[c], S)
  /\ \A d \in Clients : d # c => u.at[d] = t.at[d] /\ Used(u, d) = Used(t, d)

\* After attach_confs every line of the list is attached.
LEMMA AttachDone ==
  ASSUME NEW t, Settled(t), NEW c \in Clients, NEW l \in Seq(ConfId), NEW new,
         HoldsLegal(t, l, new)
  PROVE  HasAll(t, attach_confs(t, c, l), c, new)
<1> DEFINE L == Len(l)
<1>0. /\ l \in Seq(ConfId) /\ {l[n] : n \in DOMAIN l} = new
      /\ \A n \in DOMAIN l : t.conf[l[n]].legal /\ t.conf[l[n]].kind # "I"
  BY DEF HoldsLegal
<1>1. L \in Nat /\ DOMAIN l = 1..L
  BY <1>0
<1>2. PICK g : /\ g[0] = t /\ attach_confs(t, c, l) = g[L]
               /\ \A n \in 1..L : g[n] = attach_conf(g[n - 1], c, l[n])
  <2>1. Len(l) \in Nat
    BY <1>0
  <2>2. \E g : /\ g[0] = t /\ attach_confs(t, c, l) = g[Len(l)]
                /\ \A n \in 1..Len(l) : g[n] = attach_conf(g[n - 1], c, l[n])
    BY ONLY <2>1, AttachListIs
  <2> QED BY <2>2
<1> HIDE DEF L
<1>3. t.at[c] \in Seq(ConfId)
  BY TablesAre DEF Settled, Sound
<1> DEFINE P(u, n) == /\ Settled(u) /\ SameLines(t, u) /\ OnTop(u.at[c], t.at[c], new)
                      /\ Used(u, c) = Used(t, c) \cup {l[j] : j \in 1..n}
                      /\ \A d \in Clients : d # c => u.at[d] = t.at[d] /\ Used(u, d) = Used(t, d)
           G == {n \in 0..L : P(g[n], n)}
<1>4. 0 \in G
  <2>1. 1..0 = {} /\ 0 \in 0..L
    BY <1>1
  <2>2. SameLines(t, t)
    BY DEF SameLines
  <2>3. OnTop(t.at[c], t.at[c], new)
    <3> DEFINE list == t.at[c]
    <3>1. Len(list) = Len(list) + 0 /\ \A k \in DOMAIN list : k + 0 = k
      BY <1>3
    <3>2. 1..0 = {} /\ 0 \in Nat
      OBVIOUS
    <3> HIDE DEF list
    <3>3. OnTop(list, list, new)
      BY <3>1, <3>2 DEF OnTop
    <3> QED BY <3>3 DEF list
  <2>4. {l[j] : j \in 1..0} = {}
    BY <2>1
  <2>5. P(t, 0)
    BY <2>2, <2>3, <2>4
  <2> HIDE DEF P
  <2> QED BY <1>2, <2>1, <2>5
<1>5. ASSUME NEW n \in 0..L, n # L, n \in G PROVE n + 1 \in G
  <2> DEFINE u == g[n]
             v == g[n + 1]
             i == l[n + 1]
  <2>1. P(u, n)
    BY <1>5
  <2>2. n + 1 \in 0..L /\ n + 1 \in 1..L /\ (n + 1) - 1 = n
    <3> HIDE DEF G
    <3> QED BY <1>1, <1>5
  <2>3. v = attach_conf(u, c, i)
    BY <1>2, <2>2
  <2> HIDE DEF u, v
  <2>4. i \in ConfId /\ i \in new /\ t.conf[i].legal /\ t.conf[i].kind # "I"
    BY <1>0, <1>1, <2>2
  <2> HIDE DEF i
  <2>5. Settled(u) /\ SameLines(t, u) /\ OnTop(u.at[c], t.at[c], new)
        /\ Used(u, c) = Used(t, c) \cup {l[j] : j \in 1..n}
        /\ \A d \in Clients : d # c => u.at[d] = t.at[d] /\ Used(u, d) = Used(t, d)
    BY <2>1
  <2>6. {l[j] : j \in 1..(n + 1)} = {l[j] : j \in 1..n} \cup {i}
    <3>1. 1..(n + 1) = (1..n) \cup {n + 1}
      BY <2>2
    <3> QED BY <3>1 DEF i
  <2>7. u.conf[i].legal /\ u.conf[i].kind # "I" /\ u.conf[i].legal \in BOOLEAN
    <3>1. u.conf[i].legal \in BOOLEAN
      BY <2>4, <2>5, TablesAre, ConfIs DEF Settled, Sound
    <3> QED BY <2>4, <2>5, <3>1 DEF SameLines
  <2> HIDE DEF P
  <2>8. CASE i \in Used(u, c)
    <3>1. attach_result(u, c, i) # 0
      BY <2>8 DEF attach_result, is_attached
    <3>2. v = u
      BY <2>3, <3>1 DEF attach_conf
    <3>3. Used(u, c) = Used(t, c) \cup {l[j] : j \in 1..(n + 1)}
      BY <2>5, <2>6, <2>8
    <3>4. P(u, n + 1)
      BY <2>5, <3>3 DEF P
    <3> QED BY <2>2, <3>2, <3>4 DEF v
  <2>9. CASE i \notin Used(u, c)
    <3>1. attach_result(u, c, i) = 0
      BY <2>7, <2>9 DEF attach_result, is_attached
    <3>2. /\ Settled(v) /\ SameLines(u, v)
          /\ v.at[c] = <<i>> \o u.at[c] /\ Used(v, c) = Used(u, c) \cup {i}
          /\ \A d \in Clients : d # c => v.at[d] = u.at[d] /\ Used(v, d) = Used(u, d)
      BY <2>3, <2>4, <2>5, <3>1, AttachKeeps
    <3>3. Used(v, c) = Used(t, c) \cup {l[j] : j \in 1..(n + 1)}
      BY <2>5, <2>6, <3>2
    <3>4. OnTop(v.at[c], t.at[c], new)
      <4>1. u.at[c] \in Seq(ConfId)
        BY <2>5, TablesAre DEF Settled, Sound
      <4> QED BY <1>3, <2>4, <2>5, <3>2, <4>1, OneOnTop
    <3>5. SameLines(t, v)
      BY <2>5, <3>2 DEF SameLines
    <3>6. \A d \in Clients : d # c => v.at[d] = t.at[d] /\ Used(v, d) = Used(t, d)
      BY <2>5, <3>2
    <3>7. P(v, n + 1)
      BY <3>2, <3>3, <3>4, <3>5, <3>6 DEF P
    <3> QED BY <2>2, <3>7 DEF v
  <2> QED BY <2>8, <2>9
<1>6. L \in G
  <2>1. 0..L \subseteq G
    <3> HIDE DEF G
    <3> QED BY <1>1, <1>4, <1>5, UpTo
  <2>2. L \in 0..L
    BY <1>1
  <2> HIDE DEF G
  <2> QED BY <2>1, <2>2
<1>7. P(g[L], L)
  BY <1>6
<1>8. {l[j] : j \in 1..L} = new
  BY <1>0, <1>1
<1> QED BY <1>2, <1>7, <1>8 DEF HasAll

\* The lists that SetToSeqs gives hold every element.
LEMMA OrdersHoldAll ==
  ASSUME NEW S, IsFiniteSet(S), NEW l \in SetToSeqs(S)
  PROVE  l \in Seq(S) /\ {l[n] : n \in DOMAIN l} = S
<1> DEFINE D == 1..Cardinality(S)
<1>1. l \in [D -> S] /\ \A i, j \in D : i # j => l[i] # l[j]
  BY DEF SetToSeqs
<1>2. Cardinality(S) \in Nat
  BY FS_CardinalityType
<1>3. l \in Injection(D, S)
  BY <1>1 DEF Injection, IsInjective
<1>4. Cardinality(D) = Cardinality(S)
  BY <1>2, FS_Interval
<1>5. l \in Surjection(D, S)
  BY <1>3, <1>4, FS_Injection
<1>6. l \in Seq(S)
  BY <1>1, <1>2
<1>7. \A s \in S : \E n \in D : l[n] = s
  BY <1>5 DEF Surjection
<1> HIDE DEF D
<1>8. DOMAIN l = D
  BY <1>1
<1> QED BY <1>1, <1>6, <1>7, <1>8

-----------------------------------------------------------------------------
(* Reading the files.                                                      *)

\* Who has a line keeps it, and its kind.
Kept(t, u) ==
  u.at = t.at /\ \A c \in Clients : \A i \in Used(t, c) : u.conf[i].kind = t.conf[i].kind

\* What nobody is asked about does not count.
LEMMA SameUsers ==
  ASSUME NEW t, NEW u, u.at = t.at,
         \A c \in Clients : \A i \in Used(t, c) : u.conf[i].class = t.conf[i].class
  PROVE  /\ \A c \in Clients : Used(u, c) = Used(t, c)
         /\ \A i \in ConfId : ClientsOf(u, i) = ClientsOf(t, i)
         /\ \A k \in ClassId : LinksOf(u, k) = LinksOf(t, k)
<1>1. \A c \in Clients : Used(u, c) = Used(t, c)
  BY DEF Used
<1>2. \A i \in ConfId : ClientsOf(u, i) = ClientsOf(t, i)
  BY <1>1 DEF ClientsOf
<1>3. \A k \in ClassId : LinksOf(u, k) = LinksOf(t, k)
  BY <1>1 DEF LinksOf
<1> QED BY <1>1, <1>2, <1>3

\* What the tables say of themselves, in one place.
LEMMA SoundSays ==
  ASSUME NEW t, Sound(t)
  PROVE  /\ t \in Tables /\ NoneTwice(t) /\ Blank(t) /\ UsedLive(t) /\ Counted(t)
         /\ LinesSound(t) /\ ClassesSound(t)
         /\ t.conf \in [ConfId -> ConfRec] /\ t.class \in [ClassId -> ClassRec]
         /\ t.at \in [Clients -> Seq(ConfId)]
         /\ \A c \in Clients : Used(t, c) \subseteq ConfId
         /\ 0 \in ClassId
<1>1. t \in Tables
  BY DEF Sound
<1>2. /\ t.conf \in [ConfId -> ConfRec] /\ t.class \in [ClassId -> ClassRec]
      /\ t.at \in [Clients -> Seq(ConfId)]
  BY <1>1, TablesAre
<1>3. \A c \in Clients : Used(t, c) \subseteq ConfId
  BY <1>2 DEF Used
<1>4. 0 \in ClassId
  BY ConfsAssumption DEF ClassId
<1> QED BY <1>2, <1>3, <1>4 DEF Sound

\* A free record becomes a line of the file.
LEMMA NewLine ==
  ASSUME NEW t, Sound(t), NEW i \in ConfId, t.conf[i].kind = "free",
         NEW line \in Line, line \in AnyLine, line.kind # "Y",
         NEW k \in ClassId, t.class[k].use = "listed", t.class[k].max >= 0,
         NEW y, y = [kind |-> line.kind, clients |-> 0, legal |-> TRUE, near |-> line.near,
                     class |-> k],
         NEW u, u = [conf |-> [t.conf EXCEPT ![i] = y], class |-> t.class, at |-> t.at]
  PROVE  Sound(u) /\ Kept(t, u) /\ Free(t) \ {i} \subseteq Free(u) /\ Freed(u) = Freed(t)
<1>1. /\ t \in Tables /\ NoneTwice(t) /\ Blank(t) /\ UsedLive(t) /\ Counted(t)
      /\ LinesSound(t) /\ ClassesSound(t)
      /\ t.conf \in [ConfId -> ConfRec] /\ t.class \in [ClassId -> ClassRec]
      /\ t.at \in [Clients -> Seq(ConfId)]
      /\ \A c \in Clients : Used(t, c) \subseteq ConfId
  BY SoundSays
<1>2. line.kind \in {"I", "C", "N", "O"} /\ line.near \in BOOLEAN
  BY DEF Line
<1>3. y \in ConfRec /\ y.kind = line.kind /\ y.kind # "free" /\ y.class = k /\ y.clients = 0
      /\ y.legal = TRUE /\ y.near = line.near
  <2>1. y \in ConfRec
    BY <1>2 DEF ConfRec
  <2> QED BY <1>2, <2>1
<1>4. u.conf = [t.conf EXCEPT ![i] = y] /\ u.class = t.class /\ u.at = t.at
  OBVIOUS
<1>5. u \in Tables
  <2>1. [t.conf EXCEPT ![i] = y] \in [ConfId -> ConfRec]
    BY <1>1, <1>3
  <2> QED BY <1>1, <2>1 DEF Tables
<1>6. \A j \in ConfId : u.conf[j] = IF j = i THEN y ELSE t.conf[j]
  BY <1>1, <1>4
<1>7. \A c \in Clients : i \notin Used(t, c)
  BY <1>1 DEF UsedLive
<1>8. \A c \in Clients : \A j \in Used(t, c) : u.conf[j] = t.conf[j]
  BY <1>1, <1>6, <1>7
<1>9. /\ \A c \in Clients : Used(u, c) = Used(t, c)
      /\ \A j \in ConfId : ClientsOf(u, j) = ClientsOf(t, j)
      /\ \A j \in ClassId : LinksOf(u, j) = LinksOf(t, j)
  <2>1. \A c \in Clients : \A j \in Used(t, c) : u.conf[j].class = t.conf[j].class
    BY <1>8
  <2>2. u.at = t.at
    BY <1>4
  <2> QED BY ONLY <2>1, <2>2, SameUsers
<1>10. Kept(t, u)
  BY <1>4, <1>8 DEF Kept
<1>11. Free(t) \ {i} \subseteq Free(u) /\ Freed(u) = Freed(t)
  BY <1>4, <1>6 DEF Free, Freed
<1>12. NoneTwice(u) /\ Blank(u) /\ UsedLive(u)
  <2>1. NoneTwice(u)
    BY <1>1, <1>4 DEF NoneTwice
  <2>2. Blank(u)
    BY <1>1, <1>3, <1>4, <1>6 DEF Blank
  <2>3. UsedLive(u)
    BY <1>1, <1>8, <1>9 DEF UsedLive
  <2> QED BY <2>1, <2>2, <2>3
<1>13. Counted(u)
  <2>1. t.conf[i].clients = 0
    BY <1>1 DEF Blank, FreeConf
  <2>2. \A j \in ConfId : u.conf[j].clients = t.conf[j].clients
    BY <1>3, <1>6, <2>1
  <2>3. \A j \in ConfId : t.conf[j].clients = Cardinality(ClientsOf(t, j))
    BY <1>1 DEF Counted
  <2>4. \A j \in ClassId : u.class[j].links = Cardinality(LinksOf(t, j))
    BY <1>1, <1>4 DEF Counted
  <2> QED BY <1>9, <2>2, <2>3, <2>4 DEF Counted
<1>14. LinesSound(u)
  <2>1. ASSUME NEW j \in ConfId, u.conf[j].kind # "free" PROVE LineSound(u, j)
    <3>1. CASE j = i
      BY <1>3, <1>4, <1>6, <3>1 DEF LineSound
    <3>2. CASE j # i
      BY <1>1, <1>4, <1>6, <2>1, <3>2 DEF LinesSound, LineSound
    <3> QED BY <3>1, <3>2
  <2>2. ASSUME NEW j \in ConfId, u.conf[j].legal
        PROVE  u.class[u.conf[j].class].use = "listed" /\ u.class[u.conf[j].class].max >= 0
    <3>1. CASE j = i
      BY <1>3, <1>4, <1>6, <3>1
    <3>2. CASE j # i
      BY <1>1, <1>4, <1>6, <2>2, <3>2 DEF LinesSound
    <3> QED BY <3>1, <3>2
  <2> QED BY <2>1, <2>2 DEF LinesSound
<1>15. ClassesSound(u)
  BY <1>1, <1>4 DEF ClassesSound
<1> QED BY <1>5, <1>10, <1>11, <1>12, <1>13, <1>14, <1>15 DEF Sound

\* A listed class, or a free record that is listed now, gets a maximum.
LEMMA NewClass ==
  ASSUME NEW t, Sound(t), NEW k \in ClassId, t.class[k].use # "unlinked", NEW z \in ClassRec,
         z.use = "listed", z.max >= 0, z.links = t.class[k].links,
         NEW u, u = [conf |-> t.conf, class |-> [t.class EXCEPT ![k] = z], at |-> t.at]
  PROVE  Sound(u) /\ Kept(t, u) /\ Free(u) = Free(t) /\ Freed(t) \ {k} \subseteq Freed(u)
<1>1. /\ t \in Tables /\ NoneTwice(t) /\ Blank(t) /\ UsedLive(t) /\ Counted(t)
      /\ LinesSound(t) /\ ClassesSound(t)
      /\ t.conf \in [ConfId -> ConfRec] /\ t.class \in [ClassId -> ClassRec]
      /\ t.at \in [Clients -> Seq(ConfId)]
      /\ \A c \in Clients : Used(t, c) \subseteq ConfId
      /\ 0 \in ClassId
  BY SoundSays
<1>2. u.conf = t.conf /\ u.class = [t.class EXCEPT ![k] = z] /\ u.at = t.at
  OBVIOUS
<1>3. u \in Tables
  <2>1. [t.class EXCEPT ![k] = z] \in [ClassId -> ClassRec]
    BY <1>1
  <2> QED BY <1>1, <2>1 DEF Tables
<1>4. \A j \in ClassId : u.class[j] = IF j = k THEN z ELSE t.class[j]
  BY <1>1, <1>2
<1>5. /\ \A c \in Clients : Used(u, c) = Used(t, c)
      /\ \A j \in ConfId : ClientsOf(u, j) = ClientsOf(t, j)
      /\ \A j \in ClassId : LinksOf(u, j) = LinksOf(t, j)
  BY <1>2, SameUsers
<1>6. Kept(t, u)
  BY <1>2 DEF Kept
<1>7. Free(u) = Free(t) /\ Freed(t) \ {k} \subseteq Freed(u)
  BY <1>2, <1>4 DEF Free, Freed
<1>8. NoneTwice(u) /\ Blank(u) /\ UsedLive(u)
  <2>1. NoneTwice(u)
    BY <1>1, <1>2 DEF NoneTwice
  <2>2. Blank(u)
    BY <1>1, <1>2, <1>4 DEF Blank
  <2>3. UsedLive(u)
    BY <1>1, <1>2, <1>5 DEF UsedLive
  <2> QED BY <2>1, <2>2, <2>3
<1>9. Counted(u)
  BY <1>1, <1>2, <1>4, <1>5 DEF Counted
<1>10. LinesSound(u)
  <2>1. \A j \in ConfId : u.conf[j].class \in ClassId
    BY <1>1, <1>2, ConfIs
  <2> QED BY <1>1, <1>2, <1>4, <2>1 DEF LinesSound, LineSound
<1>11. ClassesSound(u)
  BY <1>1, <1>4 DEF ClassesSound
<1> QED BY <1>3, <1>6, <1>7, <1>8, <1>9, <1>10, <1>11 DEF Sound

\* find_class gives a listed class.
LEMMA FoundListed ==
  ASSUME NEW t, Sound(t), NEW num
  PROVE  find_class(t, num) \in ClassId /\ t.class[find_class(t, num)].use = "listed"
<1> DEFINE found == {k \in ClassId : t.class[k].use = "listed" /\ t.class[k].num = num}
<1>1. 0 \in ClassId /\ t.class[0].use = "listed" /\ ClassId \subseteq Nat
  BY SoundSays DEF ClassesSound, ClassId
<1>2. CASE found = {}
  BY <1>1, <1>2 DEF find_class
<1>3. CASE found # {}
  <2>1. found \in SUBSET Nat
    BY <1>1
  <2> HIDE DEF found
  <2>2. Min(found) \in found
    BY <1>3, <2>1, MinIs
  <2> USE DEF found
  <2>3. find_class(t, num) = Min(found)
    BY <1>3 DEF find_class
  <2> QED BY <2>2, <2>3
<1> QED BY <1>2, <1>3

\* One update of the tables.
LEMMA OneUpdate ==
  ASSUME NEW t \in Tables, NEW i, NEW y
  PROVE  /\ [t EXCEPT !.conf[i] = y]
              = [conf |-> [t.conf EXCEPT ![i] = y], class |-> t.class, at |-> t.at]
         /\ [t EXCEPT !.class[i] = y]
              = [conf |-> t.conf, class |-> [t.class EXCEPT ![i] = y], at |-> t.at]
<1> DEFINE conf == t.conf
           class == t.class
           at == t.at
<1>1. t = [conf |-> conf, class |-> class, at |-> at]
  BY DEF Tables
<1> HIDE DEF conf, class, at
<1>2. [t EXCEPT !.conf[i] = y] = [conf |-> [conf EXCEPT ![i] = y], class |-> class, at |-> at]
  BY <1>1
<1>3. [t EXCEPT !.class[i] = y] = [conf |-> conf, class |-> [class EXCEPT ![i] = y], at |-> at]
  BY <1>1
<1> QED BY <1>2, <1>3 DEF conf, class, at

\* add_class keeps the tables sound, and takes one record at most.
LEMMA AddClassKeeps ==
  ASSUME NEW t, Sound(t), NEW num \in Nat, NEW max \in Nat, Freed(t) # {}
  PROVE  LET u == add_class(t, num, max)
         IN /\ Sound(u) /\ Kept(t, u) /\ Free(u) = Free(t) /\ u.conf = t.conf
            /\ \E k \in ClassId : Freed(t) \ {k} \subseteq Freed(u)
<1> DEFINE u == add_class(t, num, max)
           k == find_class(t, num)
           new == Min(Freed(t))
           z == [num |-> num, max |-> max, links |-> 0, use |-> "listed"]
           y == [t.class[k] EXCEPT !.max = max]
<1>1. /\ t \in Tables /\ t.class \in [ClassId -> ClassRec] /\ Blank(t)
  BY SoundSays
<1>2. k \in ClassId /\ t.class[k].use = "listed"
  BY FoundListed
<1>3. new \in ClassId /\ t.class[new].use = "freed"
  <2>1. Freed(t) \in SUBSET Nat
    BY DEF Freed, ClassId
  <2>2. new \in Freed(t)
    BY <2>1, MinIs
  <2> QED BY <2>2 DEF Freed
<1>4. CASE k = 0 /\ num # 0
  <2>1. u = [t EXCEPT !.class[new] = z]
    BY <1>4 DEF add_class, Freed
  <2>2. z \in ClassRec /\ z.use = "listed" /\ z.max >= 0 /\ z.links = 0
    BY DEF ClassRec
  <2>3. t.class[new].links = 0
    BY <1>1, <1>3 DEF Blank, FreeClass
  <2> HIDE DEF u, new, z
  <2>4. u = [conf |-> t.conf, class |-> [t.class EXCEPT ![new] = z], at |-> t.at]
    BY <1>1, <2>1, OneUpdate
  <2>5. Sound(u) /\ Kept(t, u) /\ Free(u) = Free(t) /\ Freed(t) \ {new} \subseteq Freed(u)
    BY <1>3, <2>2, <2>3, <2>4, NewClass
  <2>6. u.conf = t.conf
    BY <2>4
  <2> QED BY <1>3, <2>5, <2>6 DEF u
<1>5. CASE ~(k = 0 /\ num # 0)
  <2>1. u = [t EXCEPT !.class[k].max = max]
    BY <1>5 DEF add_class
  <2>2. t.class[k] \in ClassRec
    BY <1>1, <1>2
  <2>3. y \in ClassRec /\ y.use = "listed" /\ y.max >= 0 /\ y.links = t.class[k].links
    BY <1>2, <2>2 DEF ClassRec
  <2>4. [t EXCEPT !.class[k].max = max] = [t EXCEPT !.class[k] = y]
    OBVIOUS
  <2> HIDE DEF u, k, y
  <2>5. u = [conf |-> t.conf, class |-> [t.class EXCEPT ![k] = y], at |-> t.at]
    BY <1>1, <2>1, <2>4, OneUpdate
  <2>6. Sound(u) /\ Kept(t, u) /\ Free(u) = Free(t) /\ Freed(t) \ {k} \subseteq Freed(u)
    BY <1>2, <2>3, <2>5, NewClass
  <2>7. u.conf = t.conf
    BY <2>5
  <2> QED BY <1>2, <2>6, <2>7 DEF u
<1> QED BY <1>4, <1>5

\* Which kinds of legal lines there are, after one more and after none.
LEMMA OneAdded ==
  ASSUME NEW t, Sound(t), NEW i \in ConfId, t.conf[i].kind = "free",
         NEW y, y.legal = TRUE, NEW u, u.conf = [t.conf EXCEPT ![i] = y]
  PROVE  Adds(t, u, {y.kind})
<1>1. t.conf \in [ConfId -> ConfRec] /\ t.conf[i].legal = FALSE
  BY SoundSays DEF Blank, FreeConf
<1>2. u.conf[i] = y /\ \A j \in ConfId : j # i => u.conf[j] = t.conf[j]
  BY <1>1
<1>3. ASSUME NEW kind \in {"C", "N"}
      PROVE  LegalLines(u, kind) = LegalLines(t, kind) \cup (IF y.kind = kind THEN {i} ELSE {})
  BY <1>1, <1>2 DEF LegalLines
<1> QED BY <1>3 DEF Adds

LEMMA NoneAdded ==
  ASSUME NEW t, NEW u, u.conf = t.conf, NEW K, "C" \notin K, "N" \notin K
  PROVE  Adds(t, u, K)
BY DEF Adds, LegalLines

LEMMA AddsOn ==
  ASSUME NEW t, NEW u, NEW v, NEW K, NEW L, Adds(t, u, K), Adds(u, v, L)
  PROVE  Adds(t, v, K \cup L)
BY DEF Adds

\* A line of a file keeps the tables sound, and takes one record of each at most.
LEMMA AddLineKeeps ==
  ASSUME NEW t, Sound(t), NEW line \in Line, line \in AnyLine, Free(t) # {}, Freed(t) # {}
  PROVE  LET u == AddLine(t, line)
         IN /\ Sound(u) /\ Kept(t, u) /\ Adds(t, u, {line.kind})
            /\ \E i : Free(t) \ {i} \subseteq Free(u)
            /\ \E k : Freed(t) \ {k} \subseteq Freed(u)
<1> DEFINE u == AddLine(t, line)
<1>1. line.num \in Nat /\ line.max \in Nat
  BY DEF Line
<1>2. CASE line.kind = "Y"
  <2>1. u = add_class(t, line.num, line.max)
    BY <1>2 DEF AddLine
  <2> HIDE DEF u
  <2>2. /\ Sound(u) /\ Kept(t, u) /\ Free(u) = Free(t) /\ u.conf = t.conf
        /\ \E k \in ClassId : Freed(t) \ {k} \subseteq Freed(u)
    BY <1>1, <2>1, AddClassKeeps
  <2>3. Adds(t, u, {line.kind})
    BY <1>2, <2>2, NoneAdded
  <2> QED BY <2>2, <2>3 DEF u
<1>3. CASE line.kind # "Y"
  <2> DEFINE i == Min(Free(t))
             k == find_class(t, line.num)
             class == IF t.class[k].max < 0 THEN 0 ELSE k
             y == [kind |-> line.kind, clients |-> 0, legal |-> TRUE, near |-> line.near,
                   class |-> class]
  <2>1. u = [t EXCEPT !.conf[i] = y]
    BY <1>3 DEF AddLine, Free
  <2>2. i \in ConfId /\ t.conf[i].kind = "free"
    <3>1. Free(t) \in SUBSET Nat
      BY DEF Free, ConfId
    <3>2. i \in Free(t)
      BY <3>1, MinIs
    <3> QED BY <3>2 DEF Free
  <2>3. k \in ClassId /\ t.class[k].use = "listed"
    BY FoundListed
  <2>4. class \in ClassId /\ t.class[class].use = "listed" /\ t.class[class].max >= 0
    <3> HIDE DEF k
    <3>1. t.class[k].max \in Int
      <4>1. t.class[k] \in ClassRec
        BY <2>3, SoundSays
      <4>2. t.class[k].max \in Nat \cup {-1}
        BY <4>1, ClassIs
      <4> QED BY <4>2
    <3>2. 0 \in ClassId /\ t.class[0].use = "listed" /\ t.class[0].max >= 0
      BY SoundSays DEF ClassesSound
    <3> QED BY <2>3, <3>1, <3>2
  <2> HIDE DEF u, i, k, class
  <2>5. u = [conf |-> [t.conf EXCEPT ![i] = y], class |-> t.class, at |-> t.at]
    <3>1. t \in Tables
      BY SoundSays
    <3> HIDE DEF y
    <3> QED BY <2>1, <3>1, OneUpdate
  <2>6. Sound(u) /\ Kept(t, u) /\ Free(t) \ {i} \subseteq Free(u) /\ Freed(u) = Freed(t)
    <3>1. y = [kind |-> line.kind, clients |-> 0, legal |-> TRUE, near |-> line.near,
               class |-> class]
      OBVIOUS
    <3> HIDE DEF y
    <3> QED BY <1>3, <2>2, <2>4, <2>5, <3>1, NewLine
  <2>7. Adds(t, u, {line.kind})
    <3>1. y.legal = TRUE /\ y.kind = line.kind
      OBVIOUS
    <3> HIDE DEF y
    <3>2. u.conf = [t.conf EXCEPT ![i] = y]
      BY <2>5
    <3>3. Adds(t, u, {y.kind})
      BY <2>2, <3>1, <3>2, OneAdded
    <3> QED BY <3>1, <3>3
  <2> QED BY <2>6, <2>7 DEF u
<1> QED BY <1>2, <1>3

\* check_class leaves no class without a maximum in the list.
LEMMA CheckClassSettles ==
  ASSUME NEW t, Sound(t)
  PROVE  LET u == check_class(t)
         IN /\ Settled(u) /\ Kept(t, u) /\ Free(u) = Free(t) /\ Freed(t) \subseteq Freed(u)
            /\ u.conf = t.conf
<1> DEFINE u == check_class(t)
           z(k) == IF t.class[k].use # "listed" \/ t.class[k].max >= 0 THEN t.class[k]
                   ELSE IF t.class[k].links <= 0 THEN FreeClass
                   ELSE [t.class[k] EXCEPT !.use = "unlinked"]
<1>1. /\ t \in Tables /\ NoneTwice(t) /\ Blank(t) /\ UsedLive(t) /\ Counted(t)
      /\ LinesSound(t) /\ ClassesSound(t)
      /\ t.conf \in [ConfId -> ConfRec] /\ t.class \in [ClassId -> ClassRec]
      /\ t.at \in [Clients -> Seq(ConfId)]
      /\ 0 \in ClassId
  BY SoundSays
<1>3. u = [conf |-> t.conf, class |-> [k \in ClassId |-> z(k)], at |-> t.at]
  <2> DEFINE class == [k \in ClassId |-> z(k)]
  <2>1. u = [t EXCEPT !.class = class]
    BY DEF check_class
  <2>2. t = [conf |-> t.conf, class |-> t.class, at |-> t.at]
    BY <1>1 DEF Tables
  <2> HIDE DEF u, class
  <2>3. u = [conf |-> t.conf, class |-> class, at |-> t.at]
    BY <2>1, <2>2
  <2> QED BY <2>3 DEF class
<1>2. u.conf = t.conf /\ u.at = t.at /\ u.class = [k \in ClassId |-> z(k)]
  <2> HIDE DEF u, z
  <2> QED BY <1>3
<1>4. ASSUME NEW k \in ClassId
      PROVE  /\ z(k) \in ClassRec
             /\ \/ z(k) = t.class[k] /\ (t.class[k].use # "listed" \/ t.class[k].max >= 0)
                \/ /\ t.class[k].use = "listed" /\ t.class[k].max = -1 /\ t.class[k].links = 0
                   /\ z(k) = FreeClass
                \/ /\ t.class[k].use = "listed" /\ t.class[k].max = -1 /\ t.class[k].links > 0
                   /\ z(k).use = "unlinked" /\ z(k).max = -1 /\ z(k).links = t.class[k].links
  <2>1. /\ t.class[k] \in ClassRec /\ t.class[k].max \in Nat \cup {-1} /\ t.class[k].links \in Nat
        /\ [t.class[k] EXCEPT !.use = "unlinked"] \in ClassRec /\ FreeClass \in ClassRec
    BY <1>1, ClassIs
  <2>2. CASE t.class[k].use # "listed" \/ t.class[k].max >= 0
    BY <2>1, <2>2
  <2>3. CASE ~(t.class[k].use # "listed" \/ t.class[k].max >= 0) /\ t.class[k].links <= 0
    <3>1. z(k) = FreeClass
      BY <2>3
    <3> HIDE DEF z
    <3> QED BY <2>1, <2>3, <3>1
  <2>4. CASE ~(t.class[k].use # "listed" \/ t.class[k].max >= 0) /\ ~(t.class[k].links <= 0)
    <3>1. z(k) = [t.class[k] EXCEPT !.use = "unlinked"]
      BY <2>4
    <3> HIDE DEF z
    <3>2. z(k).use = "unlinked" /\ z(k).max = t.class[k].max /\ z(k).links = t.class[k].links
      BY <2>1, <3>1 DEF ClassRec
    <3> QED BY <2>1, <2>4, <3>1, <3>2
  <2> QED BY <2>2, <2>3, <2>4
<1> HIDE DEF z, u
<1>5. \A k \in ClassId : u.class[k] = z(k)
  BY <1>2
<1>6. u \in Tables
  <2>1. [k \in ClassId |-> z(k)] \in [ClassId -> ClassRec]
    BY <1>4
  <2> QED BY <1>1, <1>3, <2>1 DEF Tables
<1>7. /\ \A c \in Clients : Used(u, c) = Used(t, c)
      /\ \A j \in ConfId : ClientsOf(u, j) = ClientsOf(t, j)
      /\ \A j \in ClassId : LinksOf(u, j) = LinksOf(t, j)
  BY <1>2, SameUsers
<1>8. Kept(t, u) /\ Free(u) = Free(t)
  BY <1>2 DEF Kept, Free
<1>9. Freed(t) \subseteq Freed(u)
  BY <1>4, <1>5 DEF Freed
<1>10. NoneTwice(u) /\ Blank(u) /\ UsedLive(u)
  <2>1. NoneTwice(u)
    BY <1>1, <1>2 DEF NoneTwice
  <2>2. Blank(u)
    BY <1>1, <1>2, <1>4, <1>5 DEF Blank
  <2>3. UsedLive(u)
    BY <1>1, <1>2, <1>7 DEF UsedLive
  <2> QED BY <2>1, <2>2, <2>3
<1>11. Counted(u)
  <2>1. \A j \in ConfId : u.conf[j].clients = Cardinality(ClientsOf(t, j))
    BY <1>1, <1>2 DEF Counted
  <2>2. \A k \in ClassId : u.class[k].links = t.class[k].links
    BY <1>4, <1>5 DEF FreeClass
  <2>3. \A k \in ClassId : t.class[k].links = Cardinality(LinksOf(t, k))
    BY <1>1 DEF Counted
  <2> QED BY <1>7, <2>1, <2>2, <2>3 DEF Counted
<1>12. LinesSound(u)
  <2>1. ASSUME NEW j \in ConfId, u.conf[j].kind # "free" PROVE LineSound(u, j)
    <3>1. t.conf[j].class \in ClassId /\ LineSound(t, j) /\ t.conf[j].legal \in BOOLEAN
      BY <1>1, <1>2, <2>1, ConfIs DEF LinesSound
    <3>2. u.class[t.conf[j].class].use # "freed"
      <4>1. CASE t.conf[j].legal
        <5>1. t.class[t.conf[j].class].use = "listed" /\ t.class[t.conf[j].class].max >= 0
          BY <1>1, <4>1 DEF LinesSound
        <5>2. t.class[t.conf[j].class].max # -1
          BY <5>1
        <5> QED BY <1>4, <1>5, <3>1, <5>1, <5>2
      <4>2. CASE ~t.conf[j].legal
        <5>1. t.class[t.conf[j].class].links > 0
          BY <1>1, <3>1, <4>2, UsedCounts DEF LineSound
        <5>2. t.class[t.conf[j].class].links # 0
          BY <5>1
        <5> QED BY <1>4, <1>5, <3>1, <5>2 DEF LineSound
      <4> QED BY <4>1, <4>2
    <3> QED BY <1>2, <3>1, <3>2 DEF LineSound
  <2>2. ASSUME NEW j \in ConfId, u.conf[j].legal
        PROVE  u.class[u.conf[j].class].use = "listed" /\ u.class[u.conf[j].class].max >= 0
    <3>1. /\ t.class[t.conf[j].class].use = "listed" /\ t.class[t.conf[j].class].max >= 0
          /\ t.conf[j].class \in ClassId
      BY <1>1, <1>2, <2>2, ConfIs DEF LinesSound
    <3>2. t.class[t.conf[j].class].max # -1
      BY <3>1
    <3> QED BY <1>2, <1>4, <1>5, <3>1, <3>2
  <2> QED BY <2>1, <2>2 DEF LinesSound
<1>13. ClassesSound(u)
  <2>1. \A k \in ClassId : u.class[k].use = "unlinked" => u.class[k].links > 0 /\ u.class[k].max = -1
    BY <1>1, <1>4, <1>5 DEF ClassesSound, FreeClass
  <2>2. t.class[0].use = "listed" /\ t.class[0].max >= 0
    BY <1>1 DEF ClassesSound
  <2>3. t.class[0].max # -1
    BY <2>2
  <2>4. u.class[0] = t.class[0]
    BY <1>1, <1>4, <1>5, <2>3
  <2> QED BY <2>1, <2>2, <2>4 DEF ClassesSound
<1>14. \A k \in ClassId : u.class[k].use = "listed" => u.class[k].max >= 0
  BY <1>4, <1>5 DEF FreeClass
<1> QED BY <1>2, <1>6, <1>8, <1>9, <1>10, <1>11, <1>12, <1>13, <1>14 DEF Settled, Sound, u

\* clear_out_old_conf keeps the lines and classes that somebody uses.
LEMMA ClearOutKeeps ==
  ASSUME NEW t, Settled(t)
  PROVE  LET u == clear_out_old_conf(t)
         IN Sound(u) /\ Kept(t, u) /\ \A kind : LegalLines(u, kind) = {}
<1> DEFINE u == clear_out_old_conf(t)
           y(i) == IF t.conf[i].clients = 0 THEN FreeConf ELSE [t.conf[i] EXCEPT !.legal = FALSE]
           z(k) == IF k # 0 /\ t.class[k].use = "listed" THEN [t.class[k] EXCEPT !.max = -1]
                   ELSE t.class[k]
<1>1. /\ t \in Tables /\ NoneTwice(t) /\ Blank(t) /\ UsedLive(t) /\ Counted(t)
      /\ LinesSound(t) /\ ClassesSound(t)
      /\ t.conf \in [ConfId -> ConfRec] /\ t.class \in [ClassId -> ClassRec]
      /\ t.at \in [Clients -> Seq(ConfId)]
      /\ \A c \in Clients : Used(t, c) \subseteq ConfId
      /\ 0 \in ClassId
  BY SoundSays DEF Settled
<1>2. u = [conf |-> [i \in ConfId |-> y(i)], class |-> [k \in ClassId |-> z(k)], at |-> t.at]
  <2> DEFINE conf == [i \in ConfId |-> y(i)]
             class == [k \in ClassId |-> z(k)]
  <2>1. u = [t EXCEPT !.conf = conf, !.class = class]
    BY DEF clear_out_old_conf
  <2>2. t = [conf |-> t.conf, class |-> t.class, at |-> t.at]
    BY <1>1 DEF Tables
  <2> HIDE DEF u, conf, class
  <2>3. u = [conf |-> conf, class |-> class, at |-> t.at]
    BY <2>1, <2>2
  <2> QED BY <2>3 DEF conf, class
<1>3. ASSUME NEW i \in ConfId
      PROVE  /\ y(i) \in ConfRec /\ y(i).legal = FALSE /\ y(i).clients = t.conf[i].clients
             /\ t.conf[i].clients \in Nat
             /\ \/ t.conf[i].clients = 0 /\ y(i) = FreeConf
                \/ /\ t.conf[i].clients # 0 /\ y(i).kind = t.conf[i].kind
                   /\ y(i).class = t.conf[i].class /\ y(i).near = t.conf[i].near
  <2>1. /\ t.conf[i] \in ConfRec /\ FreeConf \in ConfRec /\ t.conf[i].clients \in Nat
        /\ [t.conf[i] EXCEPT !.legal = FALSE] \in ConfRec
    BY <1>1, ConfIs
  <2>2. CASE t.conf[i].clients = 0
    <3>1. y(i) = FreeConf
      BY <2>2
    <3> HIDE DEF y
    <3> QED BY <2>1, <2>2, <3>1 DEF FreeConf
  <2>3. CASE t.conf[i].clients # 0
    <3>1. y(i) = [t.conf[i] EXCEPT !.legal = FALSE]
      BY <2>3
    <3> HIDE DEF y
    <3>2. /\ y(i).kind = t.conf[i].kind /\ y(i).class = t.conf[i].class /\ y(i).near = t.conf[i].near
          /\ y(i).legal = FALSE /\ y(i).clients = t.conf[i].clients
      BY <2>1, <3>1 DEF ConfRec
    <3> QED BY <2>1, <2>3, <3>1, <3>2
  <2> QED BY <2>2, <2>3
<1>4. ASSUME NEW k \in ClassId
      PROVE  /\ z(k) \in ClassRec /\ z(k).use = t.class[k].use /\ z(k).links = t.class[k].links
             /\ t.class[k].use # "listed" \/ k = 0 => z(k) = t.class[k]
  <2>1. t.class[k] \in ClassRec /\ [t.class[k] EXCEPT !.max = -1] \in ClassRec
    BY <1>1, ClassIs
  <2>2. CASE k # 0 /\ t.class[k].use = "listed"
    BY <2>1, <2>2 DEF ClassRec
  <2>3. CASE ~(k # 0 /\ t.class[k].use = "listed")
    BY <2>1, <2>3
  <2> QED BY <2>2, <2>3
<1> HIDE DEF y, z, u
<1>5. /\ \A i \in ConfId : u.conf[i] = y(i)
      /\ \A k \in ClassId : u.class[k] = z(k)
      /\ u.at = t.at
  BY <1>2
<1>6. u \in Tables
  <2>1. [k \in ClassId |-> z(k)] \in [ClassId -> ClassRec]
    BY <1>4
  <2>2. [i \in ConfId |-> y(i)] \in [ConfId -> ConfRec]
    BY <1>3
  <2> QED BY <1>1, <1>2, <2>1, <2>2 DEF Tables
<1>7. \A c \in Clients : \A i \in Used(t, c) :
        i \in ConfId /\ u.conf[i].kind = t.conf[i].kind /\ u.conf[i].class = t.conf[i].class
  <2>1. \A c \in Clients : \A i \in Used(t, c) : i \in ConfId /\ t.conf[i].clients > 0
    BY <1>1, UsedCounts
  <2>2. \A c \in Clients : \A i \in Used(t, c) : i \in ConfId /\ t.conf[i].clients # 0
    BY <2>1
  <2> QED BY <1>3, <1>5, <2>2
<1>8. /\ \A c \in Clients : Used(u, c) = Used(t, c)
      /\ \A j \in ConfId : ClientsOf(u, j) = ClientsOf(t, j)
      /\ \A j \in ClassId : LinksOf(u, j) = LinksOf(t, j)
  <2>1. \A c \in Clients : \A j \in Used(t, c) : u.conf[j].class = t.conf[j].class
    BY <1>7
  <2>2. u.at = t.at
    BY <1>5
  <2> QED BY ONLY <2>1, <2>2, SameUsers
<1>9. Kept(t, u)
  BY <1>5, <1>7 DEF Kept
<1>10. NoneTwice(u) /\ Blank(u) /\ UsedLive(u)
  <2>1. NoneTwice(u)
    BY <1>1, <1>5 DEF NoneTwice
  <2>2. \A i \in ConfId : u.conf[i].kind = "free" => u.conf[i] = FreeConf
    <3>1. ASSUME NEW i \in ConfId, t.conf[i].clients # 0 PROVE t.conf[i].kind # "free"
      BY <1>1, <3>1 DEF Blank, FreeConf
    <3> QED BY <1>3, <1>5, <3>1
  <2>3. \A k \in ClassId : u.class[k].use = "freed" => u.class[k] = FreeClass
    BY <1>1, <1>4, <1>5 DEF Blank
  <2>4. UsedLive(u)
    BY <1>1, <1>7, <1>8 DEF UsedLive
  <2> QED BY <2>1, <2>2, <2>3, <2>4 DEF Blank
<1>11. Counted(u)
  <2>1. \A j \in ConfId : t.conf[j].clients = Cardinality(ClientsOf(t, j))
    BY <1>1 DEF Counted
  <2>2. \A k \in ClassId : t.class[k].links = Cardinality(LinksOf(t, k))
    BY <1>1 DEF Counted
  <2>3. \A k \in ClassId : u.class[k].links = t.class[k].links
    BY <1>4, <1>5
  <2>4. \A j \in ConfId : u.conf[j].clients = t.conf[j].clients
    BY <1>3, <1>5
  <2> QED BY <1>8, <2>1, <2>2, <2>3, <2>4 DEF Counted
<1>12. LinesSound(u)
  <2>1. \A i \in ConfId : ~u.conf[i].legal
    BY <1>3, <1>5
  <2>2. ASSUME NEW i \in ConfId, u.conf[i].kind # "free" PROVE LineSound(u, i)
    <3>1. /\ t.conf[i].clients # 0 /\ u.conf[i].kind = t.conf[i].kind
          /\ u.conf[i].class = t.conf[i].class /\ u.conf[i].near = t.conf[i].near
          /\ u.conf[i].clients = t.conf[i].clients /\ t.conf[i].clients \in Nat
      <4>1. y(i) # FreeConf
        BY <1>5, <2>2 DEF FreeConf
      <4> QED BY <1>3, <1>5, <4>1
    <3>2. u.conf[i].clients > 0
      BY <3>1
    <3>3. t.conf[i].class \in ClassId
      BY <1>1, ConfIs
    <3>4. u.class[t.conf[i].class].use # "freed" /\ LineSound(t, i)
      BY <1>1, <1>4, <1>5, <2>2, <3>1, <3>3 DEF LinesSound, LineSound
    <3> QED BY <3>1, <3>2, <3>4 DEF LineSound
  <2> QED BY <2>1, <2>2 DEF LinesSound
<1>13. ClassesSound(u)
  BY <1>1, <1>4, <1>5 DEF ClassesSound
<1>14. \A kind : LegalLines(u, kind) = {}
  BY <1>3, <1>5 DEF LegalLines
<1> QED BY <1>6, <1>9, <1>10, <1>11, <1>12, <1>13, <1>14 DEF Sound, u

\* Records: they are finite in number.
LEMMA RoomIs ==
  ASSUME NEW t
  PROVE  /\ IsFiniteSet(Free(t)) /\ Cardinality(Free(t)) \in Nat
         /\ IsFiniteSet(Freed(t)) /\ Cardinality(Freed(t)) \in Nat
<1>1. Free(t) \in SUBSET ConfId /\ Freed(t) \in SUBSET ClassId
  BY DEF Free, Freed
<1>2. IsFiniteSet(ConfId) /\ IsFiniteSet(ClassId)
  BY SetsFinite
<1>3. IsFiniteSet(Free(t)) /\ IsFiniteSet(Freed(t))
  BY <1>1, <1>2, FS_Subset
<1> QED BY <1>3, FS_CardinalityType

\* A set that has lost one element at most.
LEMMA OneLess ==
  ASSUME NEW S, NEW T, IsFiniteSet(S), IsFiniteSet(T), NEW x, S \ {x} \subseteq T
  PROVE  Cardinality(S) - 1 <= Cardinality(T)
<1>1. IsFiniteSet(S \ {x}) /\ Cardinality(S) \in Nat /\ Cardinality(T) \in Nat
      /\ Cardinality(S \ {x}) \in Nat
  BY FS_RemoveElement, FS_CardinalityType
<1>2. Cardinality(S \ {x}) <= Cardinality(T)
  BY <1>1, FS_Subset
<1>3. Cardinality(S \ {x}) = IF x \in S THEN Cardinality(S) - 1 ELSE Cardinality(S)
  BY FS_RemoveElement
<1> QED BY <1>1, <1>2, <1>3

LEMMA KeptOn ==
  ASSUME NEW t, NEW u, NEW v, Kept(t, u), Kept(u, v)
  PROVE  Kept(t, v)
<1>1. u.at = t.at /\ v.at = t.at
  BY DEF Kept
<1>2. \A c \in Clients : Used(u, c) = Used(t, c)
  BY <1>1 DEF Used
<1> QED BY <1>1, <1>2 DEF Kept

\* Reading a file for which there is room.
LEMMA InitconfKeeps ==
  ASSUME NEW t, Sound(t), NEW l \in Seq(Line), \A n \in DOMAIN l : l[n] \in AnyLine,
         Len(l) <= Cardinality(Free(t)), Len(l) <= Cardinality(Freed(t))
  PROVE  LET u == initconf(t, l)
         IN /\ Settled(u) /\ Kept(t, u) /\ Adds(t, u, KindsOf(l))
            /\ Cardinality(Free(t)) - Len(l) <= Cardinality(Free(u))
            /\ Cardinality(Freed(t)) - Len(l) <= Cardinality(Freed(u))
<1> DEFINE L == Len(l)
<1>1. L \in Nat /\ DOMAIN l = 1..L
  OBVIOUS
<1>2. PICK g : /\ g[0] = t /\ initconf(t, l) = check_class(g[L])
               /\ \A n \in 1..L : g[n] = AddLine(g[n - 1], l[n])
  <2>1. Len(l) \in Nat
    OBVIOUS
  <2>2. \E g : /\ g[0] = t /\ initconf(t, l) = check_class(g[Len(l)])
                /\ \A n \in 1..Len(l) : g[n] = AddLine(g[n - 1], l[n])
    BY ONLY <2>1, InitconfIs
  <2> QED BY <2>2
<1>3. L <= Cardinality(Free(t)) /\ L <= Cardinality(Freed(t))
  OBVIOUS
<1> HIDE DEF L
<1> DEFINE free(n) == Cardinality(Free(g[n]))
           freed(n) == Cardinality(Freed(g[n]))
           kinds(n) == {l[m].kind : m \in 1..n}
           P(n) == /\ Sound(g[n]) /\ Kept(t, g[n]) /\ Adds(t, g[n], kinds(n))
                   /\ free(0) - n <= free(n) /\ freed(0) - n <= freed(n)
           G == {n \in 0..L : P(n)}
<1>4. \A n : free(n) \in Nat /\ freed(n) \in Nat
  BY RoomIs
<1>5. 0 \in G
  <2>1. Kept(t, t)
    BY DEF Kept
  <2>2. free(0) \in Nat /\ freed(0) \in Nat
    BY <1>4
  <2>3. Adds(t, g[0], kinds(0))
    <3>1. kinds(0) = {}
      OBVIOUS
    <3> QED BY <1>2, <3>1, NoneAdded
  <2> HIDE DEF free, freed, kinds
  <2> QED BY <1>1, <1>2, <2>1, <2>2, <2>3
<1>6. ASSUME NEW n \in 0..L, n # L, n \in G PROVE n + 1 \in G
  <2> DEFINE u == g[n]
             v == g[n + 1]
  <2>1. P(n)
    BY <1>6
  <2>2. n + 1 \in 0..L /\ n + 1 \in 1..L /\ (n + 1) - 1 = n /\ n \in Nat
    <3> HIDE DEF G
    <3> QED BY <1>1, <1>6
  <2>3. v = AddLine(u, l[n + 1]) /\ l[n + 1] \in Line /\ l[n + 1] \in AnyLine
    BY <1>1, <1>2, <2>2
  <2>4. Free(u) # {} /\ Freed(u) # {}
    <3>1. /\ free(n) \in Nat /\ freed(n) \in Nat /\ free(0) \in Nat /\ freed(0) \in Nat
          /\ L <= free(0) /\ L <= freed(0) /\ free(0) - n <= free(n) /\ freed(0) - n <= freed(n)
      BY <1>2, <1>3, <1>4, <2>1
    <3> HIDE DEF free, freed
    <3>2. free(n) # 0 /\ freed(n) # 0
      <4> HIDE DEF G, P
      <4> QED BY <1>1, <1>6, <2>2, <3>1
    <3> QED BY <3>2, FS_EmptySet DEF free, freed
  <2>5. Sound(u) /\ Kept(t, u) /\ Adds(t, u, kinds(n))
    BY <2>1
  <2> HIDE DEF u, v
  <2>6. /\ Sound(v) /\ Kept(u, v) /\ Adds(u, v, {l[n + 1].kind})
        /\ \E i : Free(u) \ {i} \subseteq Free(v) /\ \E k : Freed(u) \ {k} \subseteq Freed(v)
    BY <2>3, <2>4, <2>5, AddLineKeeps
  <2>7. Kept(t, v)
    BY <2>5, <2>6, KeptOn
  <2>8. Cardinality(Free(u)) - 1 <= Cardinality(Free(v))
    BY <2>6, RoomIs, OneLess
  <2>9. Cardinality(Freed(u)) - 1 <= Cardinality(Freed(v))
    BY <2>6, RoomIs, OneLess
  <2>10. free(0) - (n + 1) <= free(n + 1) /\ freed(0) - (n + 1) <= freed(n + 1)
    <3>1. /\ free(n) \in Nat /\ freed(n) \in Nat /\ free(0) \in Nat /\ freed(0) \in Nat
          /\ free(n + 1) \in Nat /\ freed(n + 1) \in Nat
          /\ free(n) - 1 <= free(n + 1) /\ freed(n) - 1 <= freed(n + 1)
          /\ free(0) - n <= free(n) /\ freed(0) - n <= freed(n)
      BY <1>4, <2>1, <2>8, <2>9 DEF u, v
    <3> HIDE DEF free, freed, G, P
    <3> QED BY <2>2, <3>1
  <2>12. Adds(t, v, kinds(n + 1))
    <3>1. kinds(n + 1) = kinds(n) \cup {l[n + 1].kind}
      <4>1. 1..(n + 1) = (1..n) \cup {n + 1}
        BY <2>2
      <4> QED BY <4>1
    <3> HIDE DEF kinds
    <3>2. Adds(t, v, kinds(n) \cup {l[n + 1].kind})
      BY <2>5, <2>6, AddsOn
    <3> QED BY <3>1, <3>2
  <2>11. P(n + 1)
    <3> HIDE DEF kinds
    <3> QED BY <2>6, <2>7, <2>10, <2>12 DEF v
  <2> HIDE DEF P
  <2> QED BY <2>2, <2>11
<1>7. P(L)
  <2>1. 0..L \subseteq G
    <3> HIDE DEF G
    <3> QED BY <1>1, <1>5, <1>6, UpTo
  <2>2. L \in 0..L
    BY <1>1
  <2> HIDE DEF P
  <2> QED BY <2>1, <2>2
<1> DEFINE last == g[L]
           u == check_class(last)
<1>8. Sound(last) /\ Kept(t, last) /\ initconf(t, l) = u
  BY <1>2, <1>7
<1>a. Adds(t, last, KindsOf(l))
  <2>1. kinds(L) = KindsOf(l)
    BY <1>1 DEF KindsOf
  <2> QED BY <1>7, <2>1
<1>9. /\ Cardinality(Free(t)) - L <= Cardinality(Free(last))
      /\ Cardinality(Freed(t)) - L <= Cardinality(Freed(last))
  BY <1>2, <1>7
<1> HIDE DEF last, P, G, free, freed, kinds
<1>10. /\ Settled(u) /\ Kept(last, u) /\ Free(u) = Free(last) /\ Freed(last) \subseteq Freed(u)
       /\ u.conf = last.conf
  BY <1>8, CheckClassSettles
<1> HIDE DEF u
<1>11. Kept(t, u)
  BY <1>8, <1>10, KeptOn
<1>12. Cardinality(Freed(last)) <= Cardinality(Freed(u))
  BY <1>10, RoomIs, FS_Subset
<1>13. /\ Cardinality(Free(t)) - L <= Cardinality(Free(u))
       /\ Cardinality(Freed(t)) - L <= Cardinality(Freed(u))
  <2>1. /\ Cardinality(Freed(t)) \in Nat /\ Cardinality(Freed(u)) \in Nat
        /\ Cardinality(Freed(last)) \in Nat
    BY RoomIs
  <2> QED BY <1>1, <1>9, <1>10, <1>12, <2>1
<1>14. Adds(t, u, KindsOf(l))
  BY <1>a, <1>10 DEF Adds, LegalLines
<1> QED BY <1>8, <1>10, <1>11, <1>13, <1>14 DEF L

\* Reading all files, where there is room for their lines.
LEMMA ReadKeeps ==
  ASSUME NEW t, Sound(t), NEW f \in Files, Room(t, f)
  PROVE  /\ Settled(read_conf_files(t, f)) /\ Kept(t, read_conf_files(t, f))
         /\ Adds(t, read_conf_files(t, f), KindsOf(f.main) \cup KindsOf(f.include))
<1> DEFINE m == f.main
           n == f.include
           u == initconf(t, m)
           v == initconf(u, n)
<1>1. m \in Seq(Line) /\ n \in Seq(Line)
  BY ConfsAssumption
<1>2. (\A j \in DOMAIN m : m[j] \in AnyLine) /\ (\A j \in DOMAIN n : n[j] \in AnyLine)
  BY DEF AnyLine
<1>3. Len(m) + Len(n) <= Cardinality(Free(t)) /\ Len(m) + Len(n) <= Cardinality(Freed(t))
  BY DEF Room
<1>4. read_conf_files(t, f) = v
  BY DEF read_conf_files
<1> HIDE DEF m, n
<1>5. /\ Len(m) \in Nat /\ Len(n) \in Nat
      /\ Cardinality(Free(t)) \in Nat /\ Cardinality(Freed(t)) \in Nat
      /\ Cardinality(Free(u)) \in Nat /\ Cardinality(Freed(u)) \in Nat
  BY <1>1, RoomIs
<1>6. Len(m) <= Cardinality(Free(t)) /\ Len(m) <= Cardinality(Freed(t))
  BY <1>3, <1>5
<1>7. /\ Settled(u) /\ Kept(t, u) /\ Adds(t, u, KindsOf(m))
      /\ Cardinality(Free(t)) - Len(m) <= Cardinality(Free(u))
      /\ Cardinality(Freed(t)) - Len(m) <= Cardinality(Freed(u))
  BY <1>1, <1>2, <1>6, InitconfKeeps
<1> HIDE DEF u
<1>8. Len(n) <= Cardinality(Free(u)) /\ Len(n) <= Cardinality(Freed(u))
  BY <1>3, <1>5, <1>7
<1>9. Settled(v) /\ Kept(u, v) /\ Adds(u, v, KindsOf(n))
  <2>1. Sound(u)
    BY <1>7 DEF Settled
  <2> QED BY <1>1, <1>2, <1>8, <2>1, InitconfKeeps
<1> HIDE DEF v
<1>10. Kept(t, v) /\ Adds(t, v, KindsOf(m) \cup KindsOf(n))
  BY <1>7, <1>9, KeptOn, AddsOn
<1> QED BY <1>4, <1>9, <1>10 DEF m, n

\* The tables at the start.
LEMMA NoConfsSound == Sound(NoConfs)
<1> DEFINE t == NoConfs
           z(k) == IF k = 0 THEN [num |-> 0, max |-> 1, links |-> 0, use |-> "listed"] ELSE FreeClass
<1>1. /\ \A i \in ConfId : t.conf[i] = FreeConf
      /\ \A k \in ClassId : t.class[k] = z(k)
      /\ \A c \in Clients : t.at[c] = <<>>
  BY DEF NoConfs
<1>2. FreeConf \in ConfRec /\ FreeClass \in ClassRec /\ z(0) \in ClassRec
  BY ConfIs, ClassIs DEF ClassRec
<1>3. t \in Tables
  <2>1. [i \in ConfId |-> FreeConf] \in [ConfId -> ConfRec]
    BY <1>2
  <2>2. [k \in ClassId |-> z(k)] \in [ClassId -> ClassRec]
    BY <1>2
  <2>3. [c \in Clients |-> <<>>] \in [Clients -> Seq(ConfId)]
    OBVIOUS
  <2> HIDE DEF z
  <2>4. t = [conf |-> [i \in ConfId |-> FreeConf], class |-> [k \in ClassId |-> z(k)],
             at |-> [c \in Clients |-> <<>>]]
    BY DEF NoConfs, z
  <2> QED BY <2>1, <2>2, <2>3, <2>4 DEF Tables
<1>4. 0 \in ClassId
  BY ConfsAssumption DEF ClassId
<1>5. \A c \in Clients : Used(t, c) = {}
  <2>1. DOMAIN <<>> = {}
    OBVIOUS
  <2> QED BY <1>1, <2>1 DEF Used
<1>6. /\ \A i \in ConfId : ClientsOf(t, i) = {}
      /\ \A k \in ClassId : LinksOf(t, k) = {}
  BY <1>5 DEF ClientsOf, LinksOf
<1>7. Cardinality({}) = 0
  BY FS_EmptySet
<1> HIDE DEF t
<1>8. NoneTwice(t)
  <2>1. DOMAIN <<>> = {}
    OBVIOUS
  <2> QED BY <1>1, <2>1 DEF NoneTwice
<1>9. Blank(t)
  BY <1>1 DEF Blank
<1>10. UsedLive(t)
  BY <1>5 DEF UsedLive
<1>11. Counted(t)
  <2>1. \A i \in ConfId : t.conf[i].clients = 0
    BY <1>1 DEF FreeConf
  <2>2. \A k \in ClassId : t.class[k].links = 0
    BY <1>1 DEF FreeClass
  <2> QED BY <1>6, <1>7, <2>1, <2>2 DEF Counted
<1>12. LinesSound(t)
  <2>1. \A i \in ConfId : t.conf[i].kind = "free" /\ ~t.conf[i].legal
    BY <1>1 DEF FreeConf
  <2> QED BY <2>1 DEF LinesSound
<1>13. ClassesSound(t)
  BY <1>1, <1>4 DEF ClassesSound, FreeClass
<1>14. Sound(t)
  BY <1>3, <1>8, <1>9, <1>10, <1>11, <1>12, <1>13 DEF Sound
<1> QED BY <1>14 DEF t

-----------------------------------------------------------------------------
(* Servers.                                                                *)

OneOfKind(t, c) == \A i, j \in Used(t, c) : t.conf[i].kind = t.conf[j].kind => i = j
\* What another client has, and what is legal, is not touched.
OthersStay(t, u, c) ==
  /\ \A d \in Clients : d # c => /\ u.at[d] = t.at[d] /\ Used(u, d) = Used(t, d)
                                 /\ \A i \in Used(t, d) : u.conf[i].kind = t.conf[i].kind
  /\ \A kind \in {"C", "N"} : LegalLines(u, kind) = LegalLines(t, kind)

\* A line that somebody uses keeps its kind.
LEMMA OthersDo ==
  ASSUME NEW t, Settled(t), NEW u, Settled(u), LinesStay(t, u), NEW c \in Clients,
         \A d \in Clients : d # c => u.at[d] = t.at[d] /\ Used(u, d) = Used(t, d)
  PROVE  OthersStay(t, u, c)
<1>1. ASSUME NEW d \in Clients, d # c, NEW i \in Used(t, d) PROVE u.conf[i].kind = t.conf[i].kind
  <2>1. i \in ConfId /\ u.conf[i].kind # "free"
    BY <1>1, SoundSays DEF Settled, UsedLive
  <2> QED BY <2>1 DEF LinesStay
<1>2. ASSUME NEW kind \in {"C", "N"} PROVE LegalLines(u, kind) = LegalLines(t, kind)
  <2>1. ASSUME NEW i \in ConfId, u.conf[i].kind = "free" PROVE ~u.conf[i].legal
    BY <2>1, SoundSays DEF Settled, Blank, FreeConf
  <2>2. ASSUME NEW i \in ConfId
        PROVE  u.conf[i].kind = kind /\ u.conf[i].legal <=> t.conf[i].kind = kind /\ t.conf[i].legal
    BY <2>1 DEF LinesStay
  <2> QED BY <2>2 DEF LegalLines
<1> QED BY <1>1, <1>2 DEF OthersStay

LEMMA OthersOn ==
  ASSUME NEW t, NEW u, NEW v, NEW c, OthersStay(t, u, c), OthersStay(u, v, c)
  PROVE  OthersStay(t, v, c)
BY DEF OthersStay

LEMMA SameStay ==
  ASSUME NEW t, NEW u, SameLines(t, u) PROVE LinesStay(t, u)
BY DEF SameLines, LinesStay

\* A legal line other than an I-line is attached unless it is already.
LEMMA AttachNew ==
  ASSUME NEW t, Settled(t), NEW c \in Clients, NEW i \in ConfId, t.conf[i].legal,
         t.conf[i].kind # "I", i \notin Used(t, c)
  PROVE  LET u == attach_conf(t, c, i)
         IN /\ Settled(u) /\ SameLines(t, u) /\ Used(u, c) = Used(t, c) \cup {i}
            /\ OthersStay(t, u, c)
<1> DEFINE u == attach_conf(t, c, i)
<1>1. attach_result(t, c, i) = 0
  BY DEF attach_result, is_attached
<1>u. u = attach_conf(t, c, i)
  OBVIOUS
<1> HIDE DEF u
<1>2. /\ Settled(u) /\ SameLines(t, u)
      /\ u.at[c] = <<i>> \o t.at[c] /\ Used(u, c) = Used(t, c) \cup {i}
      /\ \A d \in Clients : d # c => u.at[d] = t.at[d] /\ Used(u, d) = Used(t, d)
  <2>1. Settled(t) /\ i \in ConfId /\ c \in Clients
    OBVIOUS
  <2> QED BY ONLY <1>1, <1>u, <2>1, AttachKeeps
<1>3. OthersStay(t, u, c)
  BY <1>2, SameStay, OthersDo
<1> QED BY <1>2, <1>3 DEF u

\* The C and N line of a server that is connected.
LEMMA ConnectKeeps ==
  ASSUME NEW t, Settled(t), NEW c \in Clients, t.at[c] = <<>>,
         NEW i \in LegalLines(t, "C"), NEW j \in LegalLines(t, "N")
  PROVE  LET u == attach_conf(attach_conf(t, c, i), c, j)
         IN Settled(u) /\ OthersStay(t, u, c) /\ OneOfKind(u, c)
<1> DEFINE v == attach_conf(t, c, i)
           u == attach_conf(v, c, j)
<1>1. /\ i \in ConfId /\ t.conf[i].kind = "C" /\ t.conf[i].legal
      /\ j \in ConfId /\ t.conf[j].kind = "N" /\ t.conf[j].legal
  BY DEF LegalLines
<1>2. Used(t, c) = {}
  <2>1. DOMAIN <<>> = {}
    OBVIOUS
  <2> QED BY <2>1 DEF Used
<1>3. Settled(v) /\ SameLines(t, v) /\ Used(v, c) = {i} /\ OthersStay(t, v, c)
  BY <1>1, <1>2, AttachNew
<1> HIDE DEF v
<1>4. v.conf[j].legal /\ v.conf[j].kind = "N" /\ v.conf[i].kind = "C" /\ j \notin Used(v, c)
  BY <1>1, <1>3 DEF SameLines
<1>5. Settled(u) /\ SameLines(v, u) /\ Used(u, c) = {i} \cup {j} /\ OthersStay(v, u, c)
  BY <1>1, <1>3, <1>4, AttachNew
<1> HIDE DEF u
<1>6. u.conf[i].kind = "C" /\ u.conf[j].kind = "N"
  BY <1>1, <1>4, <1>5 DEF SameLines
<1>7. OneOfKind(u, c)
  BY <1>5, <1>6 DEF OneOfKind
<1>8. OthersStay(t, u, c)
  BY <1>3, <1>5, OthersOn
<1> QED BY <1>5, <1>7, <1>8 DEF u, v

\* What find_conf_host picks is legal: an illegal line that fits the host was
\* attached when the server was connected, and a legal one of its kind, which fits
\* the host too, stands in front of it now.
LEMMA PickLegal ==
  ASSUME HostsStay, NEW t, Settled(t), NEW c \in Clients, OneOfKind(t, c),
         NEW v, Settled(v), SameLines(t, v), NEW kind \in {"C", "N"},
         NEW j \in LegalLines(t, kind), j \in Used(v, c),
         NEW S, \A i \in S : i \in ConfId /\ t.conf[i].legal, OnTop(v.at[c], t.at[c], S),
         Fitting(v, c, kind) # {}
  PROVE  LET i == find_conf_host(v, c, kind)
         IN i \in ConfId /\ v.conf[i].kind = kind /\ v.conf[i].legal
<1> DEFINE more == v.at[c]
           list == t.at[c]
           m == Min(Fitting(v, c, kind))
           i == find_conf_host(v, c, kind)
<1>1. more \in Seq(ConfId) /\ list \in Seq(ConfId)
  BY SoundSays DEF Settled
<1>2. m \in Fitting(v, c, kind) /\ \A k \in Fitting(v, c, kind) : m <= k
  <2>1. Fitting(v, c, kind) \in SUBSET Nat
    BY <1>1 DEF Fitting
  <2> QED BY <2>1, MinIs
<1>3. i = more[m]
  BY DEF find_conf_host
<1>4. PICK d \in Nat : /\ Len(more) = Len(list) + d /\ \A k \in 1..d : more[k] \in S
                       /\ \A k \in DOMAIN list : more[k + d] = list[k]
  BY DEF OnTop
<1>5. /\ Used(v, c) = {more[k] : k \in DOMAIN more} /\ Used(t, c) = {list[k] : k \in DOMAIN list}
      /\ Fitting(v, c, kind) = {k \in DOMAIN more : v.conf[more[k]].kind = kind /\ v.conf[more[k]].near}
  BY DEF Used, Fitting
<1>6. Len(list) \in Nat /\ DOMAIN list = 1..Len(list) /\ DOMAIN more = 1..Len(more)
  BY <1>1
<1> DEFINE l == Len(list)
<1> HIDE DEF m, i, more, list
<1>7. m \in DOMAIN more /\ i \in ConfId /\ v.conf[i].kind = kind /\ v.conf[i].near
  BY <1>1, <1>2, <1>3, <1>5
<1>8. t.conf[i].kind = kind /\ t.conf[i].near /\ t.conf[i].legal = v.conf[i].legal
  BY <1>7 DEF SameLines
<1>9. ASSUME NEW k \in DOMAIN more, d < k PROVE more[k] \in Used(t, c)
  <2> HIDE DEF l
  <2>1. k \in 1..(l + d) /\ l \in Nat /\ DOMAIN list = 1..l
    BY <1>4, <1>6 DEF l
  <2>2. k - d \in DOMAIN list /\ (k - d) + d = k
    BY <1>9, <2>1
  <2>3. more[(k - d) + d] = list[k - d]
    BY <1>4, <2>2
  <2> QED BY <1>5, <2>2, <2>3
<1>10. CASE m <= d
  <2>1. m \in 1..d
    BY <1>6, <1>7, <1>10
  <2>2. more[m] \in S
    BY <1>4, <2>1
  <2> QED BY <1>3, <1>7, <1>8, <2>2 DEF i
<1>11. CASE ~(m <= d)
  <2>1. m \in Nat /\ d < m
    BY <1>4, <1>6, <1>7, <1>11
  <2>2. i \in Used(t, c)
    BY <1>3, <1>7, <1>9, <2>1
  <2>3. PICK k \in DOMAIN more : more[k] = j
    BY <1>5
  <2>4. j \in ConfId /\ t.conf[j].kind = kind /\ t.conf[j].legal
    BY DEF LegalLines
  <2>5. t.conf[j].near
    <3>1. LineSound(t, i) /\ LineSound(t, j)
      BY <1>7, <1>8, <2>4, SoundSays DEF Settled, LinesSound
    <3>2. PICK x \in AnyLine : x.kind = kind /\ x.near = t.conf[i].near
      BY <1>8, <3>1 DEF LineSound
    <3>3. PICK y \in AnyLine : y.kind = kind /\ y.near = t.conf[j].near
      BY <2>4, <3>1 DEF LineSound
    <3>4. x.near = y.near
      BY <3>2, <3>3 DEF HostsStay
    <3> QED BY <1>8, <3>2, <3>3, <3>4
  <2>6. k \in Fitting(v, c, kind)
    BY <1>5, <2>3, <2>4, <2>5 DEF SameLines
  <2>7. m <= k /\ k \in Nat
    BY <1>2, <1>6, <2>6
  <2>8. d < k
    BY <2>1, <2>7
  <2>9. j \in Used(t, c)
    BY <1>9, <2>3, <2>8
  <2>10. i = j
    BY <1>8, <2>2, <2>4, <2>9 DEF OneOfKind
  <2> QED BY <1>7, <1>8, <2>4, <2>10 DEF i
<1> QED BY <1>10, <1>11

\* A legal line that det_confs took is attached again.
LEMMA ReattachDoes ==
  ASSUME NEW t, Settled(t), NEW c \in Clients, NEW i \in ConfId, t.conf[i].legal,
         t.conf[i].kind # "I", i \notin Used(t, c)
  PROVE  LET u == Reattach(t, c, i)
         IN /\ Settled(u) /\ SameLines(t, u) /\ Used(u, c) = Used(t, c) \cup {i}
            /\ OthersStay(t, u, c)
<1>1. t.conf[i].kind # "free"
  BY SoundSays DEF Settled, Blank, FreeConf
<1>2. Reattach(t, c, i) = attach_conf(t, c, i)
  BY <1>1 DEF Reattach
<1> QED BY <1>2, AttachNew

\* The lines of a server that names itself.
LEMMA ServerKeeps ==
  ASSUME HostsStay, NEW t, Settled(t), Paired(t), NEW c \in Clients, OneOfKind(t, c),
         NEW list \in SetToSeqs(LegalLines(t, "C") \cup LegalLines(t, "N")),
         NEW v, v = attach_confs(t, c, list), NEW r, r = det_confs(v, c),
         NEW w, w = Reattach(Reattach(r, c, find_conf_host(v, c, "N")), c, find_conf_host(v, c, "C"))
  PROVE  /\ Settled(r) /\ OthersStay(t, r, c) /\ r.at[c] = <<>>
         /\ \/ Len(list) < 2 \/ \E kind \in {"C", "N"} : Fitting(v, c, kind) = {}
            \/ Settled(w) /\ OthersStay(t, w, c) /\ OneOfKind(w, c)
<1> DEFINE S == LegalLines(t, "C") \cup LegalLines(t, "N")
<1>1. \A i \in S : i \in ConfId /\ t.conf[i].legal /\ t.conf[i].kind \in {"C", "N"}
  BY DEF LegalLines
<1>2. IsFiniteSet(S)
  <2>1. S \in SUBSET ConfId
    BY <1>1
  <2> QED BY <2>1, SetsFinite, FS_Subset
<1>3. list \in Seq(S) /\ {list[n] : n \in DOMAIN list} = S
  BY <1>2, OrdersHoldAll
<1> HIDE DEF S
<1>4. /\ list \in Seq(ConfId)
      /\ \A n \in DOMAIN list : t.conf[list[n]].legal /\ t.conf[list[n]].kind # "I"
  <2>1. \A n \in DOMAIN list : list[n] \in S
    BY <1>3
  <2>2. list \in Seq(ConfId)
    BY <1>1, <1>3
  <2> QED BY <1>1, <2>1, <2>2
<1>5. /\ Settled(v) /\ SameLines(t, v) /\ Used(v, c) = Used(t, c) \cup S
      /\ OnTop(v.at[c], t.at[c], S)
      /\ \A d \in Clients : d # c => v.at[d] = t.at[d] /\ Used(v, d) = Used(t, d)
  <2>1. HoldsLegal(t, list, S)
    BY <1>3, <1>4 DEF HoldsLegal
  <2> QED BY <1>4, <2>1, AttachDone DEF HasAll
<1>6. OthersStay(t, v, c)
  BY <1>5, SameStay, OthersDo
<1>7. /\ Settled(r) /\ LinesStay(v, r) /\ r.at[c] = <<>>
      /\ \A d \in Clients : d # c => r.at[d] = v.at[d] /\ Used(r, d) = Used(v, d)
  BY <1>5, DetDone
<1>8. OthersStay(v, r, c)
  BY <1>5, <1>7, OthersDo
<1>9. OthersStay(t, r, c)
  BY <1>6, <1>8, OthersOn
<1>10. Used(r, c) = {}
  <2>1. DOMAIN <<>> = {}
    OBVIOUS
  <2> QED BY <1>7, <2>1 DEF Used
<1>11. ASSUME ~(Len(list) < 2), \A kind \in {"C", "N"} : Fitting(v, c, kind) # {}
       PROVE  Settled(w) /\ OthersStay(t, w, c) /\ OneOfKind(w, c)
  <2> DEFINE i == find_conf_host(v, c, "N")
             j == find_conf_host(v, c, "C")
             u == Reattach(r, c, i)
  <2>0. \A kind \in {"C", "N"} : LegalLines(t, kind) # {}
    <3>1. 1 \in DOMAIN list
      BY <1>4, <1>11
    <3>2. list[1] \in S
      BY <1>3, <3>1
    <3> QED BY <3>2 DEF S, Paired
  <2>1. ASSUME NEW kind \in {"C", "N"}
        PROVE  LET p == find_conf_host(v, c, kind)
               IN p \in ConfId /\ v.conf[p].kind = kind /\ v.conf[p].legal
    <3>1. PICK q \in LegalLines(t, kind) : TRUE
      BY <2>0
    <3>2. q \in Used(v, c)
      BY <1>5 DEF S
    <3>3. Fitting(v, c, kind) # {}
      BY <1>11
    <3>4. \A p \in S : p \in ConfId /\ t.conf[p].legal
      BY <1>1
    <3>5. HostsStay /\ Settled(t) /\ c \in Clients /\ OneOfKind(t, c)
      OBVIOUS
    <3>6. Settled(v) /\ SameLines(t, v) /\ OnTop(v.at[c], t.at[c], S)
      BY <1>5
    <3> QED BY ONLY <3>2, <3>3, <3>4, <3>5, <3>6, PickLegal
  <2>2. /\ i \in ConfId /\ v.conf[i].kind = "N" /\ v.conf[i].legal
        /\ j \in ConfId /\ v.conf[j].kind = "C" /\ v.conf[j].legal
    BY <2>1
  <2> HIDE DEF i, j
  <2>3. ASSUME NEW p \in ConfId, v.conf[p].legal
        PROVE  r.conf[p].legal /\ r.conf[p].kind = v.conf[p].kind
    <3>1. r.conf[p].legal
      BY <1>7, <2>3 DEF LinesStay
    <3>2. r.conf[p].kind # "free"
      BY <1>7, <3>1, SoundSays DEF Settled, Blank, FreeConf
    <3> QED BY <1>7, <3>1, <3>2 DEF LinesStay
  <2>4. /\ r.conf[i].legal /\ r.conf[i].kind = "N" /\ r.conf[j].legal /\ r.conf[j].kind = "C"
    BY <2>2, <2>3
  <2>5. Settled(u) /\ SameLines(r, u) /\ Used(u, c) = {i} /\ OthersStay(r, u, c)
    <3>1. Settled(u) /\ SameLines(r, u) /\ Used(u, c) = Used(r, c) \cup {i} /\ OthersStay(r, u, c)
      BY <1>7, <1>10, <2>2, <2>4, ReattachDoes
    <3> QED BY <1>10, <3>1
  <2>6. w = Reattach(u, c, j)
    BY DEF i, j
  <2> HIDE DEF u
  <2>7. u.conf[i].kind = "N" /\ u.conf[j].kind = "C" /\ u.conf[j].legal /\ j \notin Used(u, c)
    BY <2>2, <2>4, <2>5 DEF SameLines
  <2>8. Settled(w) /\ SameLines(u, w) /\ Used(w, c) = {i} \cup {j} /\ OthersStay(u, w, c)
    <3>1. Settled(w) /\ SameLines(u, w) /\ Used(w, c) = Used(u, c) \cup {j} /\ OthersStay(u, w, c)
      BY <2>2, <2>5, <2>6, <2>7, ReattachDoes
    <3> QED BY <2>5, <3>1
  <2>9. OneOfKind(w, c)
    BY <2>2, <2>7, <2>8 DEF OneOfKind, SameLines
  <2>10. OthersStay(t, w, c)
    BY <1>9, <2>5, <2>8, OthersOn
  <2> QED BY <2>8, <2>9, <2>10
<1> QED BY <1>7, <1>9, <1>11

-----------------------------------------------------------------------------
(* Addresses and listeners.                                                *)

Addresses == {AddressOf[u] : u \in Users}
\* The table counts the marked users of each address.
AddressesSound(table, marked) ==
  /\ table \in [Addresses -> Int] /\ marked \subseteq Users
  /\ \A a \in Addresses : table[a] = Cardinality({u \in marked : AddressOf[u] = a})

LEMMA AddressIn ==
  ASSUME NEW table, NEW marked, AddressesSound(table, marked), NEW u \in Users, u \notin marked
  PROVE  AddressesSound([table EXCEPT ![AddressOf[u]] = @ + 1], marked \cup {u})
<1> DEFINE more == [table EXCEPT ![AddressOf[u]] = @ + 1]
<1>1. table \in [Addresses -> Int] /\ AddressOf[u] \in Addresses /\ IsFiniteSet(marked)
      /\ marked \subseteq Users
  BY ConfsAssumption, FS_Subset DEF AddressesSound, Addresses
<1>2. more \in [Addresses -> Int]
  BY <1>1
<1>3. \A a \in Addresses : more[a] = table[a] + (IF a = AddressOf[u] THEN 1 ELSE 0)
  BY <1>1
<1>4. ASSUME NEW a \in Addresses
      PROVE  more[a] = Cardinality({v \in marked \cup {u} : AddressOf[v] = a})
  <2> DEFINE S == {v \in marked : AddressOf[v] = a}
             T == {v \in marked \cup {u} : AddressOf[v] = a}
  <2>1. IsFiniteSet(S) /\ table[a] = Cardinality(S)
    BY <1>1, FS_Subset DEF AddressesSound
  <2>2. CASE a = AddressOf[u]
    <3>1. T = S \cup {u} /\ u \notin S
      BY <2>2
    <3> HIDE DEF S, T
    <3>2. Cardinality(T) = Cardinality(S) + 1
      BY <2>1, <3>1, FS_AddElement
    <3> QED BY <1>3, <2>1, <2>2, <3>2 DEF T
  <2>3. CASE a # AddressOf[u]
    <3>1. T = S
      BY <2>3
    <3>2. table[a] \in Int
      BY <1>1
    <3>3. more[a] = table[a]
      BY <1>3, <2>3, <3>2
    <3> QED BY <2>1, <3>1, <3>3
  <2> QED BY <2>2, <2>3
<1> HIDE DEF more
<1>5. AddressesSound(more, marked \cup {u})
  BY <1>1, <1>2, <1>4 DEF AddressesSound
<1> QED BY <1>5 DEF more

LEMMA AddressOut ==
  ASSUME NEW table, NEW marked, AddressesSound(table, marked), NEW u \in marked
  PROVE  AddressesSound([table EXCEPT ![AddressOf[u]] = @ - 1], marked \ {u})
<1> DEFINE less == [table EXCEPT ![AddressOf[u]] = @ - 1]
<1>1. table \in [Addresses -> Int] /\ AddressOf[u] \in Addresses /\ IsFiniteSet(marked)
      /\ marked \subseteq Users
  BY ConfsAssumption, FS_Subset DEF AddressesSound, Addresses
<1>2. less \in [Addresses -> Int]
  BY <1>1
<1>3. \A a \in Addresses : less[a] = table[a] - (IF a = AddressOf[u] THEN 1 ELSE 0)
  BY <1>1
<1>4. ASSUME NEW a \in Addresses
      PROVE  less[a] = Cardinality({v \in marked \ {u} : AddressOf[v] = a})
  <2> DEFINE S == {v \in marked : AddressOf[v] = a}
             T == {v \in marked \ {u} : AddressOf[v] = a}
  <2>1. IsFiniteSet(S) /\ table[a] = Cardinality(S)
    BY <1>1, FS_Subset DEF AddressesSound
  <2>2. CASE a = AddressOf[u]
    <3>1. T = S \ {u} /\ u \in S
      BY <2>2
    <3> HIDE DEF S, T
    <3>2. Cardinality(T) = Cardinality(S) - 1
      BY <2>1, <3>1, FS_RemoveElement
    <3> QED BY <1>3, <2>1, <2>2, <3>2 DEF T
  <2>3. CASE a # AddressOf[u]
    <3>1. T = S
      BY <2>3
    <3>2. table[a] \in Int
      BY <1>1
    <3>3. less[a] = table[a]
      BY <1>3, <2>3, <3>2
    <3> QED BY <2>1, <3>1, <3>3
  <2> QED BY <2>2, <2>3
<1> HIDE DEF less
<1>5. AddressesSound(less, marked \ {u})
  BY <1>1, <1>2, <1>4 DEF AddressesSound
<1> QED BY <1>5 DEF less

Listeners == [open : BOOLEAN, active : BOOLEAN, refs : Int]
\* The listeners count their connections, and one that is closed has none.
ListenSound(table, of) ==
  /\ table \in [Ports -> Listeners]
  /\ of \in [Clients -> Ports \cup {NoPort}]
  /\ \A p \in Ports : /\ table[p].refs = Cardinality({c \in Clients : of[c] = p})
                      /\ table[p].active => table[p].open
                      /\ table[p].open => table[p].active \/ table[p].refs > 0
  /\ \A c \in Clients : of[c] # NoPort => table[of[c]].open

\* A count that is not 0.
LEMMA NotNone == \A n \in Nat : n # 0 => n > 0
OBVIOUS

\* A connection that is accepted.
LEMMA ListenIn ==
  ASSUME NEW table, NEW of, ListenSound(table, of), NEW c \in Clients, of[c] = NoPort,
         NEW p \in Ports, table[p].open
  PROVE  ListenSound([table EXCEPT ![p].refs = @ + 1], [of EXCEPT ![c] = p])
<1> DEFINE more == [table EXCEPT ![p].refs = @ + 1]
           on == [of EXCEPT ![c] = p]
<1>1. /\ table \in [Ports -> Listeners]
      /\ of \in [Clients -> Ports \cup {NoPort}]
      /\ \A q \in Ports : /\ table[q].refs = Cardinality({d \in Clients : of[d] = q})
                          /\ table[q].active => table[q].open
                          /\ table[q].open => table[q].active \/ table[q].refs > 0
      /\ \A d \in Clients : of[d] # NoPort => table[of[d]].open
      /\ NoPort \notin Ports /\ IsFiniteSet(Clients)
  BY ConfsAssumption, SetsFinite DEF ListenSound
<1>2. /\ more \in [Ports -> Listeners]
      /\ \A q \in Ports : /\ more[q].open = table[q].open /\ more[q].active = table[q].active
                          /\ more[q].refs = table[q].refs + (IF q = p THEN 1 ELSE 0)
  <2>1. \A q \in Ports : table[q] \in Listeners /\ table[q].refs \in Int
    BY <1>1 DEF Listeners
  <2>2. more = [table EXCEPT ![p] = [table[p] EXCEPT !.refs = table[p].refs + 1]]
    OBVIOUS
  <2> DEFINE r == [table[p] EXCEPT !.refs = table[p].refs + 1]
  <2>3. /\ r \in Listeners
        /\ r.open = table[p].open /\ r.active = table[p].active /\ r.refs = table[p].refs + 1
    <3>1. table[p] \in Listeners /\ table[p].refs + 1 \in Int
      BY <2>1
    <3> DEFINE x == table[p]
               n == table[p].refs + 1
    <3>2. r = [x EXCEPT !.refs = n]
      OBVIOUS
    <3> HIDE DEF r, x, n
    <3>3. r \in Listeners /\ r.open = x.open /\ r.active = x.active /\ r.refs = n
      <4>1. x \in Listeners /\ n \in Int
        BY <3>1 DEF x, n
      <4> QED BY ONLY <3>2, <4>1 DEF Listeners
    <3> QED BY <3>3 DEF x, n
  <2> HIDE DEF r, more
  <2>4. \A q \in Ports : more[q] = IF q = p THEN r ELSE table[q]
    BY <1>1, <2>2 DEF r
  <2>5. more \in [Ports -> Listeners]
    BY <1>1, <2>2, <2>3 DEF r
  <2>6. ASSUME NEW q \in Ports
        PROVE  /\ more[q].open = table[q].open /\ more[q].active = table[q].active
               /\ more[q].refs = table[q].refs + (IF q = p THEN 1 ELSE 0)
    <3>1. CASE q = p
      <4>1. more[q] = r
        BY <2>4, <3>1
      <4> QED BY <2>3, <3>1, <4>1
    <3>2. CASE q # p
      <4>1. more[q] = table[q]
        BY <2>4, <3>2
      <4>2. table[q].refs = table[q].refs + 0
        BY <2>1
      <4> QED BY <3>2, <4>1, <4>2
    <3> QED BY <3>1, <3>2
  <2> QED BY <2>5, <2>6
<1>3. on \in [Clients -> Ports \cup {NoPort}] /\ \A d \in Clients : on[d] = IF d = c THEN p ELSE of[d]
  BY <1>1
<1> HIDE DEF more, on
<1>4. ASSUME NEW q \in Ports
      PROVE  /\ more[q].refs = Cardinality({d \in Clients : on[d] = q}) /\ table[q].refs \in Nat
  <2> DEFINE S == {d \in Clients : of[d] = q}
             T == {d \in Clients : on[d] = q}
  <2>1. IsFiniteSet(S) /\ table[q].refs = Cardinality(S) /\ Cardinality(S) \in Nat
    BY <1>1, FS_Subset, FS_CardinalityType
  <2>2. CASE q = p
    <3>1. T = S \cup {c} /\ c \notin S
      BY <1>1, <1>3, <2>2
    <3> HIDE DEF S, T
    <3>2. Cardinality(T) = Cardinality(S) + 1
      BY <2>1, <3>1, FS_AddElement
    <3> QED BY <1>2, <2>1, <2>2, <3>2 DEF T
  <2>3. CASE q # p
    <3>1. T = S
      BY <1>1, <1>3, <2>3
    <3>2. more[q].refs = table[q].refs
      BY <1>2, <2>1, <2>3
    <3> QED BY <2>1, <3>1, <3>2
  <2> QED BY <2>2, <2>3
<1>5. ASSUME NEW q \in Ports
      PROVE  /\ more[q].active => more[q].open
             /\ more[q].open => more[q].active \/ more[q].refs > 0
  <2>0. table[q].refs \in Nat
    BY <1>4
  <2>1. table[q].refs > 0 => more[q].refs > 0
    BY <1>2, <2>0
  <2> QED BY <1>1, <1>2, <2>1
<1>6. \A d \in Clients : on[d] # NoPort => more[on[d]].open
  BY <1>1, <1>2, <1>3
<1>7. ListenSound(more, on)
  BY <1>2, <1>3, <1>4, <1>5, <1>6 DEF ListenSound
<1> QED BY <1>7 DEF more, on

\* A connection that is closed.
LEMMA ListenOut ==
  ASSUME ListenSound(listener, port), NEW c \in Clients
  PROVE  ListenSound(Released(c), [port EXCEPT ![c] = NoPort])
<1> DEFINE less == Released(c)
           off == [port EXCEPT ![c] = NoPort]
<1>1. /\ listener \in [Ports -> Listeners]
      /\ port \in [Clients -> Ports \cup {NoPort}]
      /\ \A q \in Ports : /\ listener[q].refs = Cardinality({d \in Clients : port[d] = q})
                          /\ listener[q].active => listener[q].open
                          /\ listener[q].open => listener[q].active \/ listener[q].refs > 0
      /\ \A d \in Clients : port[d] # NoPort => listener[port[d]].open
      /\ NoPort \notin Ports /\ IsFiniteSet(Clients)
  BY ConfsAssumption, SetsFinite DEF ListenSound
<1>2. off \in [Clients -> Ports \cup {NoPort}]
      /\ \A d \in Clients : off[d] = IF d = c THEN NoPort ELSE port[d]
  BY <1>1
<1>3. CASE port[c] = NoPort
  <2>1. less = listener
    BY <1>3 DEF Released
  <2>2. off = port
    BY <1>1, <1>3
  <2> QED BY <2>1, <2>2
<1>4. CASE port[c] # NoPort
  <2> DEFINE p == port[c]
             r == [listener[p] EXCEPT !.refs = @ - 1, !.open = listener[p].active \/ listener[p].refs > 1]
  <2>1. p \in Ports /\ listener[p].refs \in Int /\ listener[p].active \in BOOLEAN
    BY <1>1, <1>4 DEF Listeners
  <2>2. less = [listener EXCEPT ![p] = r]
    BY <1>4 DEF Released
  <2>3. /\ r \in Listeners
        /\ r.open = (listener[p].active \/ listener[p].refs > 1) /\ r.active = listener[p].active
        /\ r.refs = listener[p].refs - 1
    <3>1. listener[p] \in Listeners
      BY <1>1, <2>1
    <3>2. (listener[p].active \/ listener[p].refs > 1) \in BOOLEAN
      BY <2>1
    <3>3. listener[p].refs - 1 \in Int
      BY <2>1
    <3>4. r = [listener[p] EXCEPT !.refs = listener[p].refs - 1,
                                 !.open = listener[p].active \/ listener[p].refs > 1]
      OBVIOUS
    <3> DEFINE x == listener[p]
               n == listener[p].refs - 1
               o == listener[p].active \/ listener[p].refs > 1
    <3>5. x \in Listeners /\ n \in Int /\ o \in BOOLEAN /\ r = [x EXCEPT !.refs = n, !.open = o]
      BY <3>1, <3>2, <3>3, <3>4
    <3> HIDE DEF p, r, x, n, o
    <3>6. r \in Listeners /\ r.open = o /\ r.active = x.active /\ r.refs = n
      BY ONLY <3>5 DEF Listeners
    <3> QED BY <3>6 DEF x, n, o
  <2>c. port[c] = p
    OBVIOUS
  <2> HIDE DEF r, less, off, p
  <2>4. \A q \in Ports : less[q] = IF q = p THEN r ELSE listener[q]
    BY <1>1, <2>1, <2>2
  <2>5. less \in [Ports -> Listeners]
    BY <1>1, <2>1, <2>2, <2>3
  <2>6. ASSUME NEW q \in Ports
        PROVE  /\ less[q].refs = Cardinality({d \in Clients : off[d] = q})
               /\ listener[q].refs \in Nat /\ less[q].refs \in Nat
               /\ less[q].refs = listener[q].refs - (IF q = p THEN 1 ELSE 0)
    <3> DEFINE S == {d \in Clients : port[d] = q}
               T == {d \in Clients : off[d] = q}
    <3>1. IsFiniteSet(S) /\ listener[q].refs = Cardinality(S) /\ Cardinality(S) \in Nat
          /\ IsFiniteSet(T) /\ Cardinality(T) \in Nat
      BY <1>1, FS_Subset, FS_CardinalityType
    <3>2. CASE q = p
      <4>1. T = S \ {c} /\ c \in S
        BY <1>1, <1>2, <2>1, <2>c, <3>2
      <4> HIDE DEF S, T
      <4>2. Cardinality(T) = Cardinality(S) - 1
        BY <3>1, <4>1, FS_RemoveElement
      <4>3. less[q].refs = listener[q].refs - 1
        BY <2>3, <2>4, <3>2
      <4> QED BY <3>1, <3>2, <4>2, <4>3 DEF T
    <3>3. CASE q # p
      <4>1. T = S
        BY <1>1, <1>2, <2>c, <3>3
      <4>2. less[q].refs = listener[q].refs
        BY <2>4, <3>3
      <4> HIDE DEF S
      <4>3. listener[q].refs = listener[q].refs - 0
        BY <3>1
      <4> QED BY <3>1, <3>3, <4>1, <4>2, <4>3
    <3> QED BY <3>2, <3>3
  <2>7. ASSUME NEW q \in Ports
        PROVE  /\ less[q].active => less[q].open
               /\ less[q].open => less[q].active \/ less[q].refs > 0
    <3>1. CASE q = p
      <4>1. listener[p].refs > 1 => r.refs > 0
        BY <2>1, <2>3
      <4> QED BY <2>3, <2>4, <3>1, <4>1
    <3>2. CASE q # p
      BY <1>1, <2>4, <3>2
    <3> QED BY <3>1, <3>2
  <2>8. ASSUME NEW d \in Clients, off[d] # NoPort PROVE less[off[d]].open
    <3> DEFINE q == off[d]
    <3>1. d # c /\ q = port[d] /\ q \in Ports /\ listener[q].open
      BY <1>1, <1>2, <2>8
    <3>2. CASE q = p
      <4>1. d \in {e \in Clients : off[e] = q}
        OBVIOUS
      <4>2. Cardinality({e \in Clients : off[e] = q}) # 0
        <5>1. IsFiniteSet({e \in Clients : off[e] = q})
          BY <1>1, FS_Subset
        <5> QED BY <4>1, <5>1, FS_EmptySet
      <4>3. less[q].refs # 0
        BY <2>6, <3>1, <4>2
      <4>4. listener[p].refs - 1 # 0 /\ listener[p].refs - 1 \in Nat
        BY <2>1, <2>6, <3>1, <3>2, <4>3
      <4>5. listener[p].refs > 1
        BY <2>1, <4>4
      <4> QED BY <2>3, <2>4, <3>1, <3>2, <4>5
    <3>3. CASE q # p
      BY <2>4, <3>1, <3>3
    <3> QED BY <3>2, <3>3
  <2>9. ListenSound(less, off)
    BY <1>2, <2>5, <2>6, <2>7, <2>8 DEF ListenSound
  <2> QED BY <2>9 DEF less, off
<1> QED BY <1>3, <1>4

\* A REHASH.
LEMMA ListenAgain ==
  ASSUME NEW table, NEW of, ListenSound(table, of), NEW on, NEW again,
         again = [p \in Ports |->
           IF p \in on THEN [table[p] EXCEPT !.open = TRUE, !.active = TRUE]
           ELSE [table[p] EXCEPT !.open = @ /\ table[p].refs > 0, !.active = FALSE]]
  PROVE  ListenSound(again, of)
<1>1. /\ table \in [Ports -> Listeners]
      /\ of \in [Clients -> Ports \cup {NoPort}]
      /\ \A q \in Ports : /\ table[q].refs = Cardinality({d \in Clients : of[d] = q})
                          /\ table[q].active => table[q].open
                          /\ table[q].open => table[q].active \/ table[q].refs > 0
      /\ \A d \in Clients : of[d] # NoPort => table[of[d]].open
      /\ NoPort \notin Ports /\ IsFiniteSet(Clients)
  BY ConfsAssumption, SetsFinite DEF ListenSound
<1>2. ASSUME NEW p \in Ports
      PROVE  /\ again[p] \in Listeners /\ again[p].refs = table[p].refs
             /\ p \in on => again[p].open /\ again[p].active
             /\ p \notin on => ~again[p].active /\ (again[p].open <=> table[p].open /\ table[p].refs > 0)
  <2> DEFINE o == table[p].open /\ table[p].refs > 0
             more == [table[p] EXCEPT !.open = TRUE, !.active = TRUE]
             less == [table[p] EXCEPT !.open = o, !.active = FALSE]
  <2>1. table[p] \in Listeners /\ o \in BOOLEAN
    BY <1>1 DEF Listeners
  <2>2. again[p] = IF p \in on THEN more ELSE less
    OBVIOUS
  <2> HIDE DEF o
  <2>3. more \in Listeners /\ more.open = TRUE /\ more.active = TRUE /\ more.refs = table[p].refs
    BY <2>1 DEF Listeners
  <2>4. less \in Listeners /\ less.open = o /\ less.active = FALSE /\ less.refs = table[p].refs
    BY <2>1 DEF Listeners
  <2> HIDE DEF more, less
  <2>5. CASE p \in on
    BY <2>2, <2>3, <2>5
  <2>6. CASE p \notin on
    <3>1. again[p] = less
      BY <2>2, <2>6
    <3>2. again[p].open <=> o
      BY <2>4, <3>1
    <3> QED BY <2>4, <2>6, <3>1, <3>2 DEF o
  <2> QED BY <2>5, <2>6
<1>3. again \in [Ports -> Listeners]
  <2>1. again = [p \in Ports |-> again[p]]
    OBVIOUS
  <2> QED BY <1>2, <2>1
<1>4. ASSUME NEW d \in Clients, of[d] # NoPort PROVE again[of[d]].open
  <2> DEFINE p == of[d]
             S == {e \in Clients : of[e] = p}
  <2>1. p \in Ports /\ table[p].open /\ d \in S /\ table[p].refs = Cardinality(S)
    BY <1>1, <1>4
  <2>2. IsFiniteSet(S) /\ Cardinality(S) \in Nat
    BY <1>1, FS_Subset, FS_CardinalityType
  <2> HIDE DEF S
  <2>3. Cardinality(S) # 0
    BY <2>1, <2>2, FS_EmptySet
  <2>4. Cardinality(S) > 0
    BY <2>2, <2>3, NotNone
  <2> HIDE DEF p
  <2>5. table[p].refs > 0
    BY <2>1, <2>4
  <2> QED BY <1>2, <2>1, <2>5 DEF p
<1>5. ASSUME NEW p \in Ports
      PROVE  /\ again[p].refs = Cardinality({e \in Clients : of[e] = p})
             /\ again[p].active => again[p].open
             /\ again[p].open => again[p].active \/ again[p].refs > 0
  <2>1. again[p].refs = table[p].refs /\ table[p].refs = Cardinality({e \in Clients : of[e] = p})
    BY <1>1, <1>2
  <2>2. CASE p \in on
    BY <1>2, <2>1, <2>2
  <2>3. CASE p \notin on
    <3>1. ~again[p].active /\ (again[p].open => table[p].refs > 0)
      BY <1>2, <2>3
    <3> QED BY <2>1, <3>1
  <2> QED BY <2>2, <2>3
<1> QED BY <1>1, <1>3, <1>4, <1>5 DEF ListenSound

-----------------------------------------------------------------------------
(* The steps.                                                              *)

\* What the state of a client says of its lines and its port.
Held(t, st, of, op, marked) ==
  /\ \A c \in Clients : st[c] = "none" => t.at[c] = <<>> /\ of[c] = NoPort
  /\ \A c \in Peers : OneOfKind(t, c) /\ of[c] = NoPort
  /\ \A u \in op : t.at[u] # <<>>
  /\ \A u \in marked : st[u] = "client"

\* The inductive invariant.
ConfsInv ==
  /\ Settled(cf) /\ Paired(cf) /\ ListenSound(listener, port) /\ AddressesSound(ips, iphash)
  /\ status \in [Clients -> {"none", "unknown", "client", "connecting", "server"}]
  /\ opers \subseteq Users /\ Held(cf, status, port, opers, iphash)

LEMMA OneStays ==
  ASSUME NEW t, NEW u, NEW c, OthersStay(t, u, c), NEW d \in Clients, d # c, OneOfKind(t, d)
  PROVE  OneOfKind(u, d)
BY DEF OthersStay, OneOfKind

\* The invariant holds all that ConfsAgree says.
LEMMA ConfsAgreeIs ==
  ConfsInv => ConfsAgree
<1> SUFFICES ASSUME ConfsInv PROVE ConfsAgree
  OBVIOUS
<1>1. /\ Counted(cf) /\ UsedLive(cf) /\ LinesSound(cf) /\ ClassesSound(cf)
      /\ ListenSound(listener, port) /\ AddressesSound(ips, iphash)
  BY SoundSays DEF ConfsInv, Settled
<1>2. ClassLinks /\ ConfClients
  BY <1>1 DEF Counted, ClassLinks, ConfClients
<1>3. AddressCount
  <2>1. DOMAIN ips = Addresses
    BY <1>1 DEF AddressesSound
  <2> QED BY <1>1, <2>1 DEF AddressesSound, AddressCount
<1>4. ListenerRefs
  BY <1>1 DEF ListenSound, ListenerRefs
<1>5. NothingDangles
  BY <1>1 DEF UsedLive, LinesSound, LineSound, ListenSound, NothingDangles
<1>6. NothingLeaks
  BY <1>1 DEF LinesSound, LineSound, ClassesSound, ListenSound, NothingLeaks
<1> QED BY <1>2, <1>3, <1>4, <1>5, <1>6 DEF ConfsAgree, CountersAgree, FreedInTime

\* The connection of a client ends, whichever tables it stands in.
LEMMA CloseKeeps ==
  ASSUME ConfsInv, NEW c \in Clients, NEW table, NEW marked, AddressesSound(table, marked),
         \A u \in marked : u # c => status[u] = "client", CloseConnection(c, table, marked)
  PROVE  ConfsInv'
<1>1. /\ cf' = det_confs(cf, c) /\ listener' = Released(c) /\ port' = [port EXCEPT ![c] = NoPort]
      /\ status' = [status EXCEPT ![c] = "none"] /\ opers' = opers \ {c}
      /\ ips' = (IF c \in marked THEN [table EXCEPT ![AddressOf[c]] = @ - 1] ELSE table)
      /\ iphash' = marked \ {c}
  BY DEF CloseConnection
<1>2. /\ Settled(cf) /\ ListenSound(listener, port)
      /\ status \in [Clients -> {"none", "unknown", "client", "connecting", "server"}]
      /\ opers \subseteq Users /\ Held(cf, status, port, opers, iphash)
  BY DEF ConfsInv
<1>3. /\ Settled(cf') /\ LinesStay(cf, cf') /\ cf'.at[c] = <<>>
      /\ \A d \in Clients : d # c => cf'.at[d] = cf.at[d] /\ Used(cf', d) = Used(cf, d)
  BY <1>1, <1>2, DetDone
<1>4. OthersStay(cf, cf', c)
  BY <1>2, <1>3, OthersDo
<1>5. ListenSound(listener', port')
  BY <1>1, <1>2, ListenOut
<1>6. AddressesSound(ips', iphash')
  <2>1. CASE c \in marked
    BY <1>1, <2>1, AddressOut
  <2>2. CASE c \notin marked
    <3>1. ips' = table /\ iphash' = marked
      BY <1>1, <2>2
    <3> QED BY <3>1
  <2> QED BY <2>1, <2>2
<1>7. /\ status' \in [Clients -> {"none", "unknown", "client", "connecting", "server"}]
      /\ \A d \in Clients : status'[d] = IF d = c THEN "none" ELSE status[d]
  BY <1>1, <1>2
<1>8. \A d \in Clients : port'[d] = IF d = c THEN NoPort ELSE port[d]
  BY <1>1, <1>2 DEF ListenSound
<1>9. opers' \subseteq Users /\ Users \subseteq Clients /\ Peers \subseteq Clients
      /\ marked \subseteq Users
  BY <1>1, <1>2 DEF Clients, AddressesSound
<1>10. Held(cf', status', port', opers', iphash')
  <2>1. ASSUME NEW d \in Clients, status'[d] = "none" PROVE cf'.at[d] = <<>> /\ port'[d] = NoPort
    BY <1>2, <1>3, <1>7, <1>8, <2>1 DEF Held
  <2>2. ASSUME NEW d \in Peers PROVE OneOfKind(cf', d) /\ port'[d] = NoPort
    <3>1. CASE d = c
      <4>1. Used(cf', c) = {}
        <5>1. DOMAIN <<>> = {}
          OBVIOUS
        <5> QED BY <1>3, <5>1 DEF Used
      <4> QED BY <1>8, <1>9, <3>1, <4>1 DEF OneOfKind
    <3>2. CASE d # c
      BY <1>2, <1>4, <1>8, <1>9, <3>2, OneStays DEF Held
    <3> QED BY <3>1, <3>2
  <2>3. \A u \in opers' : cf'.at[u] # <<>>
    BY <1>1, <1>2, <1>3, <1>9 DEF Held
  <2>4. \A u \in iphash' : status'[u] = "client"
    BY <1>1, <1>7, <1>9
  <2> QED BY <2>1, <2>2, <2>3, <2>4 DEF Held
<1>11. Paired(cf')
  BY <1>4 DEF OthersStay, Paired, ConfsInv
<1> QED BY <1>3, <1>5, <1>6, <1>7, <1>9, <1>10, <1>11 DEF ConfsInv

\* A client gets or gives up lines: the rest of the invariant, unless an operator
\* loses its last line, or a client that is gone keeps one.
LEMMA LinesChange ==
  ASSUME ConfsInv, NEW c \in Clients, Settled(cf'), OthersStay(cf, cf', c),
         NEW st \in {"none", "unknown", "client", "connecting", "server"},
         st = "none" => cf'.at[c] = <<>> /\ port'[c] = NoPort,
         status' = [status EXCEPT ![c] = st], c \in iphash' => st = "client",
         iphash' \subseteq iphash \cup {c}, AddressesSound(ips', iphash'),
         c \in opers' => cf'.at[c] # <<>>, opers' \subseteq opers \cup {c}, opers' \subseteq Users,
         c \in Peers => OneOfKind(cf', c), ListenSound(listener', port'),
         \A d \in Clients : d # c => port'[d] = port[d], c \in Peers => port'[c] = NoPort
  PROVE  ConfsInv'
<1>1. /\ status \in [Clients -> {"none", "unknown", "client", "connecting", "server"}]
      /\ Held(cf, status, port, opers, iphash)
      /\ Users \subseteq Clients /\ Peers \subseteq Clients
  BY DEF ConfsInv, Clients
<1>2. /\ status' \in [Clients -> {"none", "unknown", "client", "connecting", "server"}]
      /\ \A d \in Clients : status'[d] = IF d = c THEN st ELSE status[d]
  BY <1>1
<1>3. \A d \in Clients : d # c => cf'.at[d] = cf.at[d]
  BY DEF OthersStay
<1>4. iphash' \subseteq Users
  BY DEF AddressesSound
<1>5. Held(cf', status', port', opers', iphash')
  <2>1. ASSUME NEW d \in Clients, status'[d] = "none" PROVE cf'.at[d] = <<>> /\ port'[d] = NoPort
    <3>1. CASE d = c
      BY <1>2, <2>1, <3>1
    <3>2. CASE d # c
      BY <1>1, <1>2, <1>3, <2>1, <3>2 DEF Held
    <3> QED BY <3>1, <3>2
  <2>2. ASSUME NEW d \in Peers PROVE OneOfKind(cf', d) /\ port'[d] = NoPort
    <3>1. CASE d = c
      BY <3>1
    <3>2. CASE d # c
      <4>1. OneOfKind(cf, d) /\ port[d] = NoPort /\ d \in Clients
        BY <1>1 DEF Held
      <4>2. OneOfKind(cf', d)
        BY <3>2, <4>1, OneStays
      <4> QED BY <3>2, <4>1, <4>2
    <3> QED BY <3>1, <3>2
  <2>3. \A u \in opers' : cf'.at[u] # <<>>
    BY <1>1, <1>3 DEF Held
  <2>4. \A u \in iphash' : status'[u] = "client"
    BY <1>1, <1>2, <1>4 DEF Held
  <2> QED BY <2>1, <2>2, <2>3, <2>4 DEF Held
<1>6. Paired(cf')
  BY DEF OthersStay, Paired, ConfsInv
<1> QED BY <1>2, <1>5, <1>6 DEF ConfsInv

\* A list with a line in it.
LEMMA NotEmpty ==
  ASSUME NEW t, NEW c, NEW i \in Used(t, c) PROVE t.at[c] # <<>>
<1>1. DOMAIN <<>> = {}
  OBVIOUS
<1> QED BY <1>1 DEF Used

\* Where the invariant starts.
LEMMA ConfsStart ==
  InPairs /\ ConfsInit => ConfsInv
<1> SUFFICES ASSUME InPairs, ConfsInit PROVE ConfsInv
  OBVIOUS
<1>1. PICK f \in Files :
        /\ Room(NoConfs, f) /\ cf = read_conf_files(NoConfs, f)
        /\ listener = [p \in Ports |-> [open |-> p \in f.ports, active |-> p \in f.ports,
                                        refs |-> 0]]
  BY DEF ConfsInit
<1>2. /\ status = [c \in Clients |-> "none"] /\ opers = {} /\ iphash = {}
      /\ ips = [a \in Addresses |-> 0] /\ port = [c \in Clients |-> NoPort]
  BY DEF ConfsInit, Addresses
<1>3. /\ Settled(cf) /\ Kept(NoConfs, cf)
      /\ Adds(NoConfs, cf, KindsOf(f.main) \cup KindsOf(f.include))
  BY <1>1, NoConfsSound, ReadKeeps
<1>a. Paired(cf)
  <2>1. \A kind : LegalLines(NoConfs, kind) = {}
    BY DEF LegalLines, NoConfs, FreeConf
  <2> QED BY <1>3, <2>1 DEF Adds, InPairs, Paired
<1>4. \A c \in Clients : cf.at[c] = <<>> /\ Used(cf, c) = {}
  <2>1. \A c \in Clients : cf.at[c] = <<>>
    BY <1>3 DEF Kept, NoConfs
  <2>2. DOMAIN <<>> = {}
    OBVIOUS
  <2> QED BY <2>1, <2>2 DEF Used
<1>5. Cardinality({}) = 0
  BY FS_EmptySet
<1>6. ListenSound(listener, port)
  <2>1. \A p \in Ports : {c \in Clients : port[c] = p} = {}
    BY <1>2, ConfsAssumption
  <2>2. listener \in [Ports -> Listeners]
    BY <1>1 DEF Listeners
  <2>3. \A p \in Ports : listener[p].refs = 0 /\ listener[p].active = listener[p].open
    BY <1>1
  <2>4. \A c \in Clients : port[c] = NoPort
    BY <1>2
  <2>5. port \in [Clients -> Ports \cup {NoPort}]
    BY <1>2
  <2>6. ASSUME NEW p \in Ports
        PROVE  /\ listener[p].refs = Cardinality({c \in Clients : port[c] = p})
               /\ listener[p].active => listener[p].open
               /\ listener[p].open => listener[p].active \/ listener[p].refs > 0
    BY <1>5, <2>1, <2>3
  <2> QED BY <2>2, <2>4, <2>5, <2>6 DEF ListenSound
<1>7. AddressesSound(ips, iphash)
  <2>1. \A a \in Addresses : {u \in iphash : AddressOf[u] = a} = {} /\ ips[a] = 0
    BY <1>2
  <2> QED BY <1>2, <1>5, <2>1 DEF AddressesSound
<1>8. Held(cf, status, port, opers, iphash)
  BY <1>2, <1>4 DEF Held, OneOfKind, Clients
<1> QED BY <1>2, <1>3, <1>6, <1>7, <1>8, <1>a DEF ConfsInv

\* REHASH: who has a line keeps it.
LEMMA ConfsRehashKeeps ==
  InPairs /\ ConfsInv /\ rehash => ConfsInv'
<1> SUFFICES ASSUME InPairs, ConfsInv, rehash PROVE ConfsInv'
  OBVIOUS
<1>1. PICK f \in Files : \E fails \in SUBSET f.ports :
        /\ Room(clear_out_old_conf(cf), f)
        /\ cf' = read_conf_files(clear_out_old_conf(cf), f)
        /\ listener' = [p \in Ports |->
             IF p \in f.ports \ fails THEN [listener[p] EXCEPT !.open = TRUE, !.active = TRUE]
             ELSE [listener[p] EXCEPT !.open = @ /\ listener[p].refs > 0, !.active = FALSE]]
        /\ UNCHANGED <<status, opers, ips, iphash, port>>
  BY DEF rehash
<1>2. PICK fails \in SUBSET f.ports :
        /\ Room(clear_out_old_conf(cf), f)
        /\ cf' = read_conf_files(clear_out_old_conf(cf), f)
        /\ listener' = [p \in Ports |->
             IF p \in f.ports \ fails THEN [listener[p] EXCEPT !.open = TRUE, !.active = TRUE]
             ELSE [listener[p] EXCEPT !.open = @ /\ listener[p].refs > 0, !.active = FALSE]]
        /\ UNCHANGED <<status, opers, ips, iphash, port>>
  BY <1>1
<1>3. /\ Settled(cf) /\ ListenSound(listener, port) /\ AddressesSound(ips, iphash)
      /\ status \in [Clients -> {"none", "unknown", "client", "connecting", "server"}]
      /\ opers \subseteq Users /\ Held(cf, status, port, opers, iphash)
  BY DEF ConfsInv
<1>4. Settled(cf') /\ Kept(cf, cf') /\ Paired(cf')
  <2> DEFINE u == clear_out_old_conf(cf)
  <2>1. Sound(u) /\ Kept(cf, u) /\ \A kind : LegalLines(u, kind) = {}
    BY <1>3, ClearOutKeeps
  <2>2. cf' = read_conf_files(u, f) /\ Room(u, f)
    BY <1>2
  <2> HIDE DEF u
  <2>3. Settled(cf') /\ Kept(u, cf') /\ Adds(u, cf', KindsOf(f.main) \cup KindsOf(f.include))
    BY <2>1, <2>2, ReadKeeps
  <2>4. Paired(cf')
    BY <2>1, <2>3 DEF Adds, InPairs, Paired
  <2> QED BY <2>1, <2>3, <2>4, KeptOn
<1>5. ListenSound(listener', port')
  <2> DEFINE on == f.ports \ fails
  <2>1. listener' = [p \in Ports |->
           IF p \in on THEN [listener[p] EXCEPT !.open = TRUE, !.active = TRUE]
           ELSE [listener[p] EXCEPT !.open = @ /\ listener[p].refs > 0, !.active = FALSE]]
    BY <1>2
  <2> HIDE DEF on
  <2>2. ListenSound(listener', port)
    BY <1>3, <2>1, ListenAgain
  <2> QED BY <1>2, <2>2
<1>6. cf'.at = cf.at /\ \A c \in Clients : Used(cf', c) = Used(cf, c)
  BY <1>4 DEF Kept, Used
<1>7. \A c \in Peers : OneOfKind(cf, c) => OneOfKind(cf', c)
  BY <1>4, <1>6 DEF OneOfKind, Kept, Clients
<1>8. Held(cf', status, port, opers, iphash)
  BY <1>3, <1>6, <1>7 DEF Held
<1> QED BY <1>2, <1>3, <1>4, <1>5, <1>8 DEF ConfsInv

\* What the state says of a client that is not gone.
LEMMA InvSays ==
  ASSUME ConfsInv
  PROVE  /\ Settled(cf) /\ Paired(cf) /\ ListenSound(listener, port) /\ AddressesSound(ips, iphash)
         /\ status \in [Clients -> {"none", "unknown", "client", "connecting", "server"}]
         /\ opers \subseteq Users /\ iphash \subseteq Users
         /\ Held(cf, status, port, opers, iphash)
         /\ \A u \in Users : u \in Clients /\ u \notin Peers
         /\ \A c \in Peers : c \in Clients /\ c \notin Users
         /\ \A c \in Clients : OthersStay(cf, cf, c)
BY ConfsAssumption DEF ConfsInv, AddressesSound, Clients, OthersStay

\* A connection is accepted.
LEMMA AcceptKeeps ==
  ASSUME NEW u \in Users, NEW p \in Ports, ConfsInv, accept_connection(u, p)
  PROVE  ConfsInv'
<1>1. /\ status[u] = "none" /\ listener[p].open
      /\ listener' = [listener EXCEPT ![p].refs = @ + 1]
      /\ port' = [port EXCEPT ![u] = p] /\ status' = [status EXCEPT ![u] = "unknown"]
      /\ cf' = cf /\ opers' = opers /\ ips' = ips /\ iphash' = iphash
  BY DEF accept_connection
<1>2. u \in Clients /\ u \notin Peers /\ port[u] = NoPort /\ u \notin iphash
  BY <1>1, InvSays DEF Held
<1>3. ListenSound(listener', port')
  BY <1>1, <1>2, InvSays, ListenIn
<1>4. \A d \in Clients : d # u => port'[d] = port[d]
  BY <1>1, InvSays DEF ListenSound
<1>5. u \in opers => cf'.at[u] # <<>>
  BY <1>1, InvSays DEF Held
<1>6. "unknown" \in {"none", "unknown", "client", "connecting", "server"}
  OBVIOUS
<1> QED BY <1>1, <1>2, <1>3, <1>4, <1>5, <1>6, InvSays, LinesChange

\* A client gets an I-line, or is closed.
LEMMA ClientKeeps ==
  ASSUME NEW u \in Users, ConfsInv, check_client(u)
  PROVE  ConfsInv'
<1> DEFINE table == [ips EXCEPT ![AddressOf[u]] = @ + 1]
<1>1. status[u] = "unknown" /\ u \in Clients /\ u \notin Peers /\ u \notin iphash
  BY InvSays DEF Held, check_client
<1>2. AddressesSound(table, Hashed(u))
  BY <1>1, InvSays, AddressIn DEF Hashed
<1>3. PICK i \in {j \in ConfId : cf.conf[j].kind = "I" /\ cf.conf[j].legal} :
       \/ /\ attach_result(cf, u, i) = 0
          /\ cf' = attach_conf(cf, u, i)
          /\ ips' = table /\ iphash' = Hashed(u)
          /\ status' = [status EXCEPT ![u] = "client"]
          /\ UNCHANGED <<opers, listener, port>>
       \/ CloseConnection(u, table, Hashed(u))
  BY DEF check_client, attach_iline
<1> HIDE DEF table
<1>4. CASE CloseConnection(u, table, Hashed(u))
  <2>1. \A v \in Hashed(u) : v # u => status[v] = "client"
    BY InvSays DEF Held, Hashed
  <2> QED BY <1>1, <1>2, <1>4, <2>1, CloseKeeps
<1>5. CASE /\ attach_result(cf, u, i) = 0
           /\ cf' = attach_conf(cf, u, i)
           /\ ips' = table /\ iphash' = Hashed(u)
           /\ status' = [status EXCEPT ![u] = "client"]
           /\ UNCHANGED <<opers, listener, port>>
  <2>1. i \in ConfId /\ Settled(cf)
    BY InvSays
  <2>2. /\ Settled(cf') /\ SameLines(cf, cf')
        /\ cf'.at[u] = <<i>> \o cf.at[u] /\ Used(cf', u) = Used(cf, u) \cup {i}
        /\ \A d \in Clients : d # u => cf'.at[d] = cf.at[d] /\ Used(cf', d) = Used(cf, d)
    BY <1>1, <1>5, <2>1, AttachKeeps
  <2>3. OthersStay(cf, cf', u)
    BY <1>1, <2>1, <2>2, SameStay, OthersDo
  <2>4. cf'.at[u] # <<>>
    BY <2>2, NotEmpty
  <2>5. AddressesSound(ips', iphash') /\ ListenSound(listener', port') /\ port' = port
        /\ iphash' \subseteq iphash \cup {u} /\ opers' = opers
    BY <1>2, <1>5, InvSays DEF Hashed
  <2>6. "client" \in {"none", "unknown", "client", "connecting", "server"} /\ "client" # "none"
    OBVIOUS
  <2> QED BY <1>1, <1>5, <2>2, <2>3, <2>4, <2>5, <2>6, InvSays, LinesChange
<1> QED BY <1>3, <1>4, <1>5

\* A client becomes an operator.
LEMMA OperKeeps ==
  ASSUME NEW u \in Users, ConfsInv, m_oper(u)
  PROVE  ConfsInv'
<1>1. PICK i \in ConfId : attach_result(cf, u, i) = 0 /\ cf' = attach_conf(cf, u, i)
  BY DEF m_oper
<1>2. /\ status[u] = "client" /\ opers' = opers \cup {u}
      /\ status' = status /\ ips' = ips /\ iphash' = iphash /\ listener' = listener /\ port' = port
  BY DEF m_oper
<1>3. u \in Clients /\ u \notin Peers /\ Settled(cf)
  BY InvSays
<1>4. /\ Settled(cf') /\ SameLines(cf, cf')
      /\ cf'.at[u] = <<i>> \o cf.at[u] /\ Used(cf', u) = Used(cf, u) \cup {i}
      /\ \A d \in Clients : d # u => cf'.at[d] = cf.at[d] /\ Used(cf', d) = Used(cf, d)
  BY <1>1, <1>3, AttachKeeps
<1>5. OthersStay(cf, cf', u)
  BY <1>3, <1>4, SameStay, OthersDo
<1>6. cf'.at[u] # <<>>
  BY <1>4, NotEmpty
<1>7. status' = [status EXCEPT ![u] = "client"]
  BY <1>2, <1>3, InvSays
<1>8. "client" \in {"none", "unknown", "client", "connecting", "server"} /\ "client" # "none"
  OBVIOUS
<1>9. AddressesSound(ips', iphash') /\ ListenSound(listener', port') /\ opers' \subseteq Users
  BY <1>2, InvSays
<1> QED BY <1>2, <1>3, <1>4, <1>5, <1>6, <1>7, <1>8, <1>9, LinesChange

\* An operator gives up the line attached last.
LEMMA DeoperKeeps ==
  ASSUME NEW u \in Users, ConfsInv, Deoper(u)
  PROVE  ConfsInv'
<1> DEFINE i == cf.at[u][1]
<1>1. /\ u \in opers /\ cf' = detach_conf(cf, u, i) /\ opers' = opers \ {u}
      /\ status' = status /\ ips' = ips /\ iphash' = iphash /\ listener' = listener /\ port' = port
  BY DEF Deoper
<1>2. u \in Clients /\ u \notin Peers /\ Settled(cf) /\ cf.at[u] # <<>>
  BY <1>1, InvSays DEF Held
<1>3. i \in Used(cf, u)
  <2>1. cf.at[u] \in Seq(ConfId)
    BY <1>2, SoundSays DEF Settled
  <2>2. 1 \in DOMAIN cf.at[u]
    BY <1>2, <2>1
  <2> QED BY <2>2 DEF Used
<1> HIDE DEF i
<1>4. /\ Settled(cf') /\ LinesStay(cf, cf') /\ Used(cf', u) = Used(cf, u) \ {i}
      /\ \A d \in Clients : d # u => cf'.at[d] = cf.at[d] /\ Used(cf', d) = Used(cf, d)
  BY <1>1, <1>2, <1>3, DetachKeeps
<1>5. OthersStay(cf, cf', u)
  BY <1>2, <1>4, OthersDo
<1>6. /\ status[u] \in {"none", "unknown", "client", "connecting", "server"} /\ status[u] # "none"
      /\ u \in iphash => status[u] = "client"
      /\ status' = [status EXCEPT ![u] = status[u]]
  BY <1>1, <1>2, InvSays DEF Held
<1>7. /\ AddressesSound(ips', iphash') /\ ListenSound(listener', port')
      /\ opers' \subseteq Users /\ u \notin opers'
  BY <1>1, InvSays
<1> QED BY <1>1, <1>2, <1>4, <1>5, <1>6, <1>7, LinesChange

\* A server is connected.
LEMMA ConnectedKeeps ==
  ASSUME NEW c \in Peers, ConfsInv, connect_server(c)
  PROVE  ConfsInv'
<1>1. PICK i \in LegalLines(cf, "C"), j \in LegalLines(cf, "N") :
        cf' = attach_conf(attach_conf(cf, c, i), c, j)
  BY DEF connect_server
<1>2. /\ status[c] = "none" /\ status' = [status EXCEPT ![c] = "connecting"]
      /\ opers' = opers /\ ips' = ips /\ iphash' = iphash /\ listener' = listener /\ port' = port
  BY DEF connect_server
<1>3. /\ c \in Clients /\ c \notin iphash /\ c \notin opers /\ Settled(cf)
      /\ cf.at[c] = <<>> /\ port[c] = NoPort
  BY <1>2, InvSays DEF Held
<1>4. Settled(cf') /\ OthersStay(cf, cf', c) /\ OneOfKind(cf', c)
  BY <1>1, <1>3, ConnectKeeps
<1>5. /\ AddressesSound(ips', iphash') /\ ListenSound(listener', port')
      /\ opers' \subseteq Users
  BY <1>2, InvSays
<1>6. "connecting" \in {"none", "unknown", "client", "connecting", "server"} /\ "connecting" # "none"
  OBVIOUS
<1> QED BY <1>2, <1>3, <1>4, <1>5, <1>6, LinesChange

\* A server names itself.
LEMMA ServerNamed ==
  ASSUME HostsStay, NEW c \in Peers, ConfsInv, check_server(c)
  PROVE  ConfsInv'
<1>1. /\ status[c] = "connecting"
      /\ opers' = opers /\ ips' = ips /\ iphash' = iphash /\ listener' = listener /\ port' = port
  BY DEF check_server
<1>2. c \in Clients /\ c \notin iphash /\ c \notin opers /\ Settled(cf) /\ OneOfKind(cf, c)
      /\ port[c] = NoPort
  BY <1>1, InvSays DEF Held
<1>3. /\ AddressesSound(ips', iphash') /\ ListenSound(listener', port')
      /\ opers' \subseteq Users
  BY <1>1, InvSays
<1>4. PICK list \in SetToSeqs(LegalLines(cf, "C") \cup LegalLines(cf, "N")) :
        LET t == attach_confs(cf, c, list)
        IN IF Len(list) < 2 \/ \E kind \in {"C", "N"} : Fitting(t, c, kind) = {}
           THEN cf' = det_confs(t, c) /\ status' = [status EXCEPT ![c] = "none"]
           ELSE /\ cf' = Reattach(Reattach(det_confs(t, c), c, find_conf_host(t, c, "N")),
                                   c, find_conf_host(t, c, "C"))
                /\ status' = [status EXCEPT ![c] = "server"]
  BY DEF check_server
<1> DEFINE t == attach_confs(cf, c, list)
           r == det_confs(t, c)
           w == Reattach(Reattach(r, c, find_conf_host(t, c, "N")), c, find_conf_host(t, c, "C"))
           Ends == Len(list) < 2 \/ \E kind \in {"C", "N"} : Fitting(t, c, kind) = {}
<1>5. /\ Settled(r) /\ OthersStay(cf, r, c) /\ r.at[c] = <<>>
      /\ Ends \/ (Settled(w) /\ OthersStay(cf, w, c) /\ OneOfKind(w, c))
  <2>1. \A v : v = t => \A q : q = det_confs(v, c) => \A x :
          x = Reattach(Reattach(q, c, find_conf_host(v, c, "N")), c, find_conf_host(v, c, "C")) =>
          /\ Settled(q) /\ OthersStay(cf, q, c) /\ q.at[c] = <<>>
          /\ \/ Len(list) < 2 \/ \E kind \in {"C", "N"} : Fitting(v, c, kind) = {}
             \/ Settled(x) /\ OthersStay(cf, x, c) /\ OneOfKind(x, c)
    BY <1>2, InvSays, ServerKeeps
  <2> QED BY <2>1
<1>6. /\ "none" \in {"none", "unknown", "client", "connecting", "server"}
      /\ "server" \in {"none", "unknown", "client", "connecting", "server"} /\ "server" # "none"
  OBVIOUS
<1>7. CASE Ends
  <2>1. cf' = r /\ status' = [status EXCEPT ![c] = "none"]
    BY <1>4, <1>7
  <2> HIDE DEF r
  <2>2. Used(r, c) = {}
    <3>1. DOMAIN <<>> = {}
      OBVIOUS
    <3> QED BY <1>5, <3>1 DEF Used
  <2>3. OneOfKind(r, c)
    BY <2>2 DEF OneOfKind
  <2> HIDE DEF w, Ends
  <2> QED BY <1>1, <1>2, <1>3, <1>5, <1>6, <2>1, <2>3, LinesChange
<1>8. CASE ~Ends
  <2>1. cf' = w /\ status' = [status EXCEPT ![c] = "server"]
    BY <1>4, <1>8
  <2> HIDE DEF r, w, Ends
  <2> QED BY <1>1, <1>2, <1>3, <1>5, <1>6, <1>8, <2>1, LinesChange
<1> QED BY <1>7, <1>8

\* Every step keeps the invariant.
LEMMA ConfsStep ==
  HostsStay /\ InPairs /\ ConfsInv /\ [ConfsNext]_cfVars => ConfsInv'
<1> SUFFICES ASSUME HostsStay, InPairs, ConfsInv, [ConfsNext]_cfVars PROVE ConfsInv'
  OBVIOUS
<1>1. CASE rehash
  BY <1>1, ConfsRehashKeeps
<1>2. ASSUME NEW u \in Users, check_client(u) PROVE ConfsInv'
  BY <1>2, ClientKeeps
<1>3. ASSUME NEW u \in Users, m_oper(u) PROVE ConfsInv'
  BY <1>3, OperKeeps
<1>4. ASSUME NEW u \in Users, Deoper(u) PROVE ConfsInv'
  BY <1>4, DeoperKeeps
<1>5. ASSUME NEW u \in Users, NEW p \in Ports, accept_connection(u, p) PROVE ConfsInv'
  BY <1>5, AcceptKeeps
<1>6. ASSUME NEW c \in Peers, connect_server(c) PROVE ConfsInv'
  BY <1>6, ConnectedKeeps
<1>7. ASSUME NEW c \in Peers, check_server(c) PROVE ConfsInv'
  BY <1>7, ServerNamed
<1>8. ASSUME NEW c \in Clients, Exit(c) PROVE ConfsInv'
  <2>1. CloseConnection(c, ips, iphash)
    BY <1>8 DEF Exit
  <2>2. AddressesSound(ips, iphash) /\ \A u \in iphash : u # c => status[u] = "client"
    BY InvSays DEF Held
  <2> QED BY <2>1, <2>2, CloseKeeps
<1>9. CASE UNCHANGED cfVars
  <2>1. /\ cf' = cf /\ status' = status /\ opers' = opers /\ ips' = ips /\ iphash' = iphash
        /\ listener' = listener /\ port' = port
    BY <1>9 DEF cfVars
  <2> QED BY <2>1 DEF ConfsInv
<1> QED BY <1>1, <1>2, <1>3, <1>4, <1>5, <1>6, <1>7, <1>8, <1>9 DEF ConfsNext

\* Where the C- and N-lines of the servers come in pairs and keep their hosts, the counters
\* of classes, lines, addresses and ports agree with who is attached, through any number
\* of rehashes, and what is used no more, and nothing else, is freed (s_conf.c:951, class.c:169, listener.c:276).
THEOREM ConfsCorrect ==
  ASSUME HostsStay, InPairs
  PROVE  ConfsSpec => []ConfsAgree
<1>1. ConfsInit => ConfsInv
  BY ConfsStart
<1>2. ConfsInv /\ [ConfsNext]_cfVars => ConfsInv'
  BY ConfsStep
<1>3. ConfsInv => ConfsAgree
  BY ConfsAgreeIs
<1> QED BY <1>1, <1>2, <1>3, PTL DEF ConfsSpec

-----------------------------------------------------------------------------
(* Messages over the tree of servers.                                      *)

\* x is reached over the link from s to t.
Beyond(s, t, x) == x # s /\ Hop[s][x] = t

\* Where a line that came to t over the link from `from' may yet have to go.
Ahead(t, from, x) == x = t \/ Hop[t][x] # from

\* The two ends of a link divide the servers.
LEMMA Sides ==
  ASSUME NEW t \in Server, NEW s \in Near(t), NEW x \in Server
  PROVE  /\ s \in Server /\ s # t /\ t \in Near(s)
         /\ Beyond(s, t, x) <=> ~Beyond(t, s, x)
         /\ Beyond(s, t, x) <=> Ahead(t, s, x)
<1>1. s \in Server /\ s # t /\ t \in Near(s)
  <2>1. t \notin Near(t)
    BY TalkAssumption
  <2>2. s \in Server /\ {t, s} \in Edge /\ {s, t} = {t, s}
    BY DEF Near
  <2> QED BY <2>1, <2>2 DEF Near
<1>2. Hop[t][s] = s /\ Hop[s][t] = t
  BY <1>1, TalkAssumption
<1>3. x # s /\ x # t => (Hop[t][x] = s <=> Hop[s][x] # t)
  BY <1>1, TalkAssumption
<1>4. Beyond(s, t, x) <=> ~Beyond(t, s, x)
  BY <1>1, <1>2, <1>3 DEF Beyond
<1>5. Beyond(s, t, x) <=> Ahead(t, s, x)
  BY <1>4 DEF Beyond, Ahead
<1> QED BY <1>1, <1>4, <1>5

\* Who is ahead is at t or beyond one other link of t.
LEMMA Onward ==
  ASSUME NEW t \in Server, NEW from \in Near(t) \cup {t}, NEW x \in Server
  PROVE  /\ from = t => Ahead(t, from, x)
         /\ \A p \in Near(t) : Beyond(t, p, x) => (Ahead(t, from, x) <=> p # from)
         /\ x # t => Hop[t][x] \in Near(t) /\ Beyond(t, Hop[t][x], x)
         /\ \A p \in Near(t) : ~Beyond(t, p, t)
         /\ t \notin Near(t) /\ Ahead(t, from, t)
<1>1. t \notin Near(t) /\ Hop[t] \in [Server \ {t} -> Near(t)]
  BY TalkAssumption
<1> QED BY <1>1 DEF Beyond, Ahead

-----------------------------------------------------------------------------
(* What is owed.                                                           *)

Pairs == User \X (User \cup Server)
Links == {l \in Server \X Server : {l[1], l[2]} \in Edge}
Numerics == [k : {"numeric"}, by : Server, to : User]
Routed == {"nick", "opers@", "user@", "query", "trace"}

\* The server where a pair is served: of the person, or of the one who answers.
Place(m, e) == IF m.k \in {"query", "trace"} THEN e[2] ELSE Home[e[1]]

\* A server passes m on only when its sender may send it.
Permitted(m) ==
  /\ m.k = "chan" => Allowed(m)
  /\ m.k = "ops" => Speaks(m)
  /\ m.k \in {"mask", "wallops", "operwall"} => Rules(m)
  /\ m.k = "topic" => OnTopic(m)

\* A line between s and t goes away from its sender and, if it is for one
\* server, towards that.
Fits(s, t, m) ==
  \/ m \in Numerics /\ Beyond(s, t, Home[m.to])
  \/ /\ m \in Messages /\ m.k \notin {"locops", "voiced"}
     /\ ~Beyond(s, t, At(m.by)) /\ Permitted(m)
     /\ m.k \in Routed => Beyond(s, t, At(m.to))

\* Whom it has yet to reach.
Owes(s, t, m) ==
  IF m.k = "numeric" THEN {<<m.to, m.by>>}
  ELSE {e \in Meant(m) : Beyond(s, t, Place(m, e))}

\* When t has it.
Debt(t, from, m) == {e \in Meant(m) : Ahead(t, from, Place(m, e))}

\* What a server has that was not passed on by it: its own, or off a link.
Comes(t, from, m) ==
  /\ m \in Messages
  /\ \/ from = t /\ At(m.by) = t
     \/ from \in Near(t) /\ Fits(from, t, m)

\* All that is shown in the end: what is said to +#channel only to the voiced
\* persons at the server where it is said.
Sent(m) ==
  IF m.k = "voiced" THEN {e \in Meant(m) : e[1] \in world.op \/ Home[e[1]] = At(m.by)}
  ELSE Meant(m)

\* Whom the first line of q has yet to reach.
Owed(t, p, q) == IF q = <<>> THEN {} ELSE Owes(t, p, q[1])

\* A handler serves the debt D, or passes it on, each part of it once.
Conserves(t, h, v, D) ==
  /\ \A p \in Near(t) : h.on[p] = <<>> \/ \E x : h.on[p] = <<x>> /\ Fits(t, p, x)
  /\ \A e : e \in D <=> \/ e \in h.here \X {v}
                        \/ \E p \in Near(t) : e \in Owed(t, p, h.on[p])
  /\ \A p, r \in Near(t) : \A e : e \in Owed(t, p, h.on[p]) =>
       /\ e \notin h.here \X {v}
       /\ e \in Owed(t, r, h.on[r]) => p = r

\* The kinds of messages.
LEMMA MessageIs ==
  ASSUME NEW m \in Messages
  PROVE  /\ m.by \in User \cup Server /\ At(m.by) \in Server
         /\ m.k \in {"chan", "ops", "voiced", "mask", "operwall", "locops", "topic", "wallops",
                     "nick", "opers@", "user@", "query", "trace"}
         /\ m.k # "wallops" => m.by \in User
         /\ m.k = "nick" => m.to \in User
         /\ m.k \in {"opers@", "user@"} => m.to \in Server /\ At(m.to) = m.to
         /\ m.k \in Routed => m.to \in User \cup Server /\ At(m.to) \in Server
         /\ m \notin Numerics /\ m.k # "numeric"
<1>1. /\ m.by \in User \cup Server
      /\ m.k \in {"chan", "ops", "voiced", "mask", "operwall", "locops", "topic", "wallops",
                  "nick", "opers@", "user@", "query", "trace"}
      /\ m.k # "wallops" => m.by \in User
      /\ m.k = "nick" => m.to \in User
      /\ m.k \in {"opers@", "user@"} => m.to \in Server
      /\ m.k \in Routed => m.to \in User \cup Server
  BY DEF Messages, Routed
<1>2. Home \in [User -> Server] /\ User \cap Server = {}
  BY TalkAssumption
<1>3. m \notin Numerics
  BY <1>1 DEF Numerics
<1> QED BY <1>1, <1>2, <1>3 DEF At

\* Whom a message is meant for.
LEMMA MeantIs ==
  ASSUME world \in World, NEW m \in Messages
  PROVE  /\ Meant(m) \subseteq Pairs
         /\ \A e \in Meant(m) : Place(m, e) \in Server
         /\ m.k \notin {"query", "trace"} => Audience(m) \subseteq User
<1>1. Home \in [User -> Server]
      /\ world.oper \cup world.op \cup world.voice \cup world.mem \cup world.hit \subseteq User
  BY TalkAssumption
<1>2. m.k \notin {"query", "trace"} => Audience(m) \subseteq User
  <2> HAVE m.k \notin {"query", "trace"}
  <2>1. \A t, f : Opers(t, f) \subseteq User
    BY <1>1 DEF Opers
  <2>2. CASE m.k \in {"chan", "ops", "voiced", "mask"}
    BY <1>1, <2>2 DEF Audience
  <2>3. CASE m.k \in {"nick", "wallops", "operwall", "topic"}
    BY <1>1, <2>3, MessageIs DEF Audience
  <2>4. CASE m.k \in {"opers@", "user@", "locops"}
    BY <1>1, <2>1, <2>4 DEF Audience
  <2> QED BY <2>2, <2>3, <2>4, MessageIs
<1>3. m.k \in {"query", "trace"} => Answering(m) \subseteq Server
  BY MessageIs DEF Answering, Way, Routed
<1>4. ASSUME NEW e \in Meant(m)
      PROVE  e \in Pairs /\ Place(m, e) \in Server
  <2>1. CASE m.k \in {"query", "trace"}
    BY <1>3, <2>1, MessageIs DEF Meant, Pairs, Place
  <2>2. CASE m.k \notin {"query", "trace"}
    <3>1. e \in Audience(m) \X {m.by}
      BY <2>2 DEF Meant
    <3> QED BY <1>1, <1>2, <2>2, <3>1, MessageIs DEF Pairs, Place
  <2> QED BY <2>1, <2>2
<1> QED BY <1>2, <1>4

\* What t may pass on, and what it knows of a line off a link.
LEMMA ComesIs ==
  ASSUME NEW t \in Server, NEW from, NEW m, Comes(t, from, m)
  PROVE  /\ m \in Messages /\ from \in Near(t) \cup {t}
         /\ from = t => At(m.by) = t
         /\ from # t => /\ Permitted(m) /\ m.k \notin {"locops", "voiced"}
                        /\ At(m.by) # t /\ Beyond(t, from, At(m.by))
         /\ m.k \in Routed => Ahead(t, from, At(m.to))
         /\ \A p \in Near(t) :
              /\ p # from /\ Permitted(m) /\ m.k \notin {"locops", "voiced"}
              /\ m.k \in Routed => Beyond(t, p, At(m.to))
              => Fits(t, p, m)
<1>1. m \in Messages /\ m \notin Numerics /\ At(m.by) \in Server
      /\ (m.k \in Routed => At(m.to) \in Server)
  BY MessageIs DEF Comes
<1>2. t \notin Near(t)
  BY TalkAssumption
<1>3. CASE from = t /\ At(m.by) = t
  <2>1. \A p \in Near(t) : ~Beyond(t, p, At(m.by))
    BY <1>3 DEF Beyond
  <2> QED BY <1>1, <1>2, <1>3, <2>1, Onward DEF Fits
<1>4. CASE from \in Near(t) /\ Fits(from, t, m)
  <2>1. /\ m.k \notin {"locops", "voiced"} /\ ~Beyond(from, t, At(m.by)) /\ Permitted(m)
        /\ m.k \in Routed => Beyond(from, t, At(m.to))
    BY <1>1, <1>4 DEF Fits
  <2>2. Beyond(t, from, At(m.by)) /\ ~Ahead(t, from, At(m.by))
    BY <1>1, <1>4, <2>1, Sides
  <2>3. m.k \in Routed => Ahead(t, from, At(m.to))
    BY <1>1, <1>4, <2>1, Sides
  <2>4. At(m.by) # t
    BY <2>2 DEF Ahead
  <2>5. \A p \in Near(t) : p # from => ~Beyond(t, p, At(m.by))
    BY <2>2 DEF Beyond
  <2> QED BY <1>1, <1>2, <1>4, <2>1, <2>2, <2>3, <2>4, <2>5 DEF Fits
<1> QED BY <1>3, <1>4 DEF Comes

\* Nobody is owed anything, and nothing is done.
LEMMA NothingOwed ==
  ASSUME NEW t \in Server, NEW v, NEW D, D = {}
  PROVE  Conserves(t, Nothing(t), v, D)
<1> DEFINE n == Nothing(t)
<1>1. n.here = {} /\ \A p \in Near(t) : n.on[p] = <<>>
  BY DEF Nothing
<1> HIDE DEF n
<1>2. Conserves(t, n, v, D)
  BY <1>1 DEF Conserves, Owed
<1> QED BY <1>2 DEF n

\* Whom a line owes is ahead of the server that put it there.
LEMMA OwedAhead ==
  ASSUME world \in World, NEW t \in Server, NEW from \in Near(t) \cup {t}, NEW m \in Messages,
         NEW p \in Near(t), NEW q, q = <<m>>
  PROVE  /\ Owed(t, p, q) = {e \in Meant(m) : Beyond(t, p, Place(m, e))}
         /\ p # from => Owed(t, p, q) \subseteq Debt(t, from, m)
<1>1. q # <<>> /\ q[1] = m
  OBVIOUS
<1>2. Owed(t, p, q) = {e \in Meant(m) : Beyond(t, p, Place(m, e))}
  BY <1>1, MessageIs DEF Owed, Owes
<1>3. ASSUME p # from, NEW e \in Meant(m), Beyond(t, p, Place(m, e))
      PROVE  Ahead(t, from, Place(m, e))
  BY <1>3, MeantIs, Onward
<1> QED BY <1>2, <1>3 DEF Debt

\* A message to many: shown to those here, and passed on over every other link
\* with one of them behind it.
LEMMA FloodOn ==
  ASSUME world \in World, NEW t \in Server, NEW from, NEW m, Comes(t, from, m), Permitted(m),
         m.k \in {"chan", "ops", "mask", "wallops", "operwall", "topic"},
         NEW h, h.here = {u \in Audience(m) : Home[u] = t},
         \A p \in Near(t) : h.on[p] = <<>> \/ h.on[p] = <<m>>,
         from \in Near(t) => h.on[from] = <<>>,
         \A p \in Near(t) : p # from /\ h.on[p] = <<>> =>
           \A u \in Audience(m) : Home[u] = t \/ Hop[t][Home[u]] # p
  PROVE  Conserves(t, h, m.by, Debt(t, from, m))
<1>1. m \in Messages /\ from \in Near(t) \cup {t} /\ <<m>> # <<>> /\ m.k \notin {"query", "trace"}
  BY ComesIs
<1>2. Meant(m) = Audience(m) \X {m.by} /\ \A e : Place(m, e) = Home[e[1]]
  BY <1>1 DEF Meant, Place
<1>3. \A u \in Audience(m) : Home[u] \in Server
  BY <1>1, MeantIs, TalkAssumption
<1>4. \A p \in Near(t) : h.on[p] # <<>> => p # from /\ h.on[p] = <<m>> /\ Fits(t, p, m)
  BY <1>1, ComesIs DEF Routed
<1>5. \A p \in Near(t) : \A e : e \in Owed(t, p, h.on[p]) =>
        e \in Debt(t, from, m) /\ Beyond(t, p, Home[e[1]]) /\ Home[e[1]] # t
  <2> TAKE p \in Near(t)
  <2> TAKE e
  <2> HAVE e \in Owed(t, p, h.on[p])
  <2>1. h.on[p] # <<>>
    BY DEF Owed
  <2>2. p # from /\ h.on[p] = <<m>>
    BY <1>4, <2>1
  <2>3. e \in Debt(t, from, m) /\ Beyond(t, p, Place(m, e))
    BY <1>1, <2>2, OwedAhead
  <2> QED BY <1>2, <2>3 DEF Beyond
<1>6. \A e \in h.here \X {m.by} : e \in Debt(t, from, m) /\ Home[e[1]] = t
  BY <1>1, <1>2, Onward DEF Debt
<1>7. ASSUME NEW e \in Debt(t, from, m), e \notin h.here \X {m.by}
      PROVE  \E p \in Near(t) : e \in Owed(t, p, h.on[p])
  <2>1. e \in Audience(m) \X {m.by} /\ Ahead(t, from, Home[e[1]]) /\ e \in Meant(m)
    BY <1>2, <1>7 DEF Debt
  <2>2. Home[e[1]] # t
    BY <1>7, <2>1
  <2> DEFINE p == Hop[t][Home[e[1]]]
  <2>3. p \in Near(t) /\ p # from /\ Beyond(t, p, Home[e[1]])
    BY <1>1, <1>3, <2>1, <2>2, Onward
  <2>4. h.on[p] = <<m>>
    BY <2>1, <2>2, <2>3
  <2>5. e \in Owed(t, p, h.on[p])
    BY <1>1, <1>2, <2>1, <2>3, <2>4, OwedAhead
  <2> QED BY <2>3, <2>5
<1>8. \A p, r \in Near(t) : \A x : Beyond(t, p, x) /\ Beyond(t, r, x) => p = r
  BY DEF Beyond
<1> QED
  <2>1. \A p \in Near(t) : h.on[p] = <<>> \/ \E x : h.on[p] = <<x>> /\ Fits(t, p, x)
    BY <1>4
  <2>2. \A e : e \in Debt(t, from, m) <=>
          \/ e \in h.here \X {m.by}
          \/ \E p \in Near(t) : e \in Owed(t, p, h.on[p])
    BY <1>5, <1>6, <1>7
  <2>3. \A p, r \in Near(t) : \A e : e \in Owed(t, p, h.on[p]) =>
          /\ e \notin h.here \X {m.by}
          /\ e \in Owed(t, r, h.on[r]) => p = r
    BY <1>5, <1>6, <1>8
  <2> QED BY <2>1, <2>2, <2>3 DEF Conserves

\* Everything owed is shown here.
LEMMA Served ==
  ASSUME NEW t \in Server, NEW h, \A p \in Near(t) : h.on[p] = <<>>, NEW v,
         NEW D, D = h.here \X {v}
  PROVE  Conserves(t, h, v, D)
BY DEF Conserves, Owed

\* Everything owed is passed on over one link.
LEMMA Handed ==
  ASSUME NEW t \in Server, NEW h, h.here = {}, NEW q \in Near(t), NEW x, NEW v,
         h.on[q] = <<x>>, \A p \in Near(t) \ {q} : h.on[p] = <<>>,
         Fits(t, q, x), NEW D, D = Owes(t, q, x)
  PROVE  Conserves(t, h, v, D)
<1>1. <<x>> # <<>> /\ <<x>>[1] = x
  OBVIOUS
<1>2. Owed(t, q, h.on[q]) = D /\ \A p \in Near(t) \ {q} : Owed(t, p, h.on[p]) = {}
  BY <1>1 DEF Owed
<1>3. \A p \in Near(t) : h.on[p] = <<>> \/ \E y : h.on[p] = <<y>> /\ Fits(t, p, y)
  OBVIOUS
<1>4. h.here \X {v} = {}
  OBVIOUS
<1> QED BY <1>2, <1>3, <1>4 DEF Conserves

\* sendto_prefix_one shows a line to its person or hands it on.
LEMMA PrefixOne ==
  ASSUME world \in World, NEW t \in Server, NEW from \in Near(t) \cup {t}, NEW m,
         NEW to \in User, Ahead(t, from, Home[to]),
         NEW v, NEW D, D = {<<to, v>>},
         \A p \in Near(t) : Beyond(t, p, Home[to]) => Fits(t, p, m) /\ Owes(t, p, m) = D
  PROVE  Conserves(t, sendto_prefix_one(t, from, m, to), v, D)
<1> DEFINE h == sendto_prefix_one(t, from, m, to)
           n == Nothing(t)
           q == Toward(t, to)
<1>1. Home[to] \in Server /\ q = Hop[t][Home[to]]
  BY TalkAssumption DEF Toward, At
<1>2. n = [here |-> {}, on |-> [p \in Near(t) |-> <<>>]]
  BY DEF Nothing
<1>3. CASE Home[to] = t
  <2>1. h = [n EXCEPT !.here = {to}]
    BY <1>3 DEF sendto_prefix_one
  <2>2. h.here = {to} /\ h.on = n.on
    BY <1>2, <2>1
  <2>3. \A p \in Near(t) : h.on[p] = <<>>
    BY <1>2, <2>2
  <2> HIDE DEF h
  <2>4. Conserves(t, h, v, D)
    BY <2>2, <2>3, Served
  <2> QED BY <2>4 DEF h
<1>4. CASE Home[to] # t
  <2>1. q \in Near(t) /\ q # from /\ Beyond(t, q, Home[to])
    BY <1>1, <1>4, Onward
  <2>2. h = [n EXCEPT !.on[q] = <<m>>]
    BY <1>4, <2>1 DEF sendto_prefix_one
  <2>3. h.here = {} /\ h.on = [n.on EXCEPT ![q] = <<m>>]
    BY <1>2, <2>2
  <2>4. h.on[q] = <<m>> /\ \A p \in Near(t) \ {q} : h.on[p] = <<>>
    BY <1>2, <2>1, <2>3
  <2>5. Fits(t, q, m) /\ D = Owes(t, q, m)
    BY <2>1
  <2> HIDE DEF h, q
  <2>6. Conserves(t, h, v, D)
    BY <2>1, <2>3, <2>4, <2>5, Handed
  <2> QED BY <2>6 DEF h
<1> QED BY <1>3, <1>4

\* A message that is for one server only: it is shown there, or handed on.
LEMMA ForOne ==
  ASSUME world \in World, NEW t \in Server, NEW from, NEW m, Comes(t, from, m),
         m.k \in {"nick", "opers@", "user@"}
  PROVE  /\ m.k # "wallops" /\ Permitted(m)
         /\ \A u \in Audience(m) : Home[u] = At(m.to)
         /\ Debt(t, from, m) = Audience(m) \X {m.by}
         /\ \A p \in Near(t) : Beyond(t, p, At(m.to)) =>
              Fits(t, p, m) /\ Owes(t, p, m) = Debt(t, from, m)
<1>1. /\ m \in Messages /\ from \in Near(t) \cup {t} /\ m.k \in Routed
      /\ Permitted(m) /\ m.k \notin {"query", "trace", "locops", "voiced", "numeric", "wallops"}
      /\ Ahead(t, from, At(m.to))
  BY ComesIs DEF Permitted, Routed
<1>2. \A u \in Audience(m) : Home[u] = At(m.to)
  <2>1. CASE m.k = "nick"
    BY <1>1, <2>1, MessageIs DEF Audience, At
  <2>2. CASE m.k = "opers@"
    BY <1>1, <2>2, MessageIs DEF Audience, Opers
  <2>3. CASE m.k = "user@"
    BY <1>1, <2>3, MessageIs DEF Audience
  <2> QED BY <2>1, <2>2, <2>3
<1>3. Meant(m) = Audience(m) \X {m.by} /\ \A e \in Meant(m) : Place(m, e) = At(m.to)
  BY <1>1, <1>2 DEF Meant, Place
<1>4. Debt(t, from, m) = Meant(m)
  BY <1>1, <1>3 DEF Debt
<1>5. ASSUME NEW p \in Near(t), Beyond(t, p, At(m.to))
      PROVE  Fits(t, p, m) /\ Owes(t, p, m) = Debt(t, from, m)
  <2>1. p # from
    BY <1>1, <1>5, MessageIs, Onward
  <2>2. Fits(t, p, m)
    BY <1>1, <1>5, <2>1, ComesIs
  <2>3. Owes(t, p, m) = Meant(m)
    BY <1>1, <1>3, <1>5 DEF Owes
  <2> QED BY <1>4, <2>2, <2>3
<1> QED BY <1>1, <1>2, <1>3, <1>4, <1>5

\* @#channel and +#channel, said here: to the other servers it goes as one to
\* the operators.
LEMMA Voiced ==
  ASSUME world \in World, NEW m \in Messages, m.k = "voiced", NEW t, At(m.by) = t
  PROVE  Conserves(t, Handle(t, t, m), m.by, Sent(m))
<1> DEFINE x == [m EXCEPT !.k = "ops"]
           who == (world.op \cup world.voice) \ {m.by}
           h == Spread(t, t, x, who)
<1>1. /\ t \in Server /\ m.by \in User /\ x \in Messages /\ x.k = "ops" /\ x.by = m.by
      /\ x = [k |-> "ops", by |-> m.by, to |-> m.to] /\ t \notin Near(t)
  <2>1. t \in Server /\ m.by \in User
    BY MessageIs
  <2>2. m \in [k : {"voiced"}, by : User, to : {Nobody}]
    BY DEF Messages
  <2>3. x = [k |-> "ops", by |-> m.by, to |-> m.to] /\ m.to = Nobody
    BY <2>2
  <2>4. x \in Messages
    BY <2>1, <2>3 DEF Messages
  <2>5. t \notin Near(t)
    BY <2>1, TalkAssumption
  <2> HIDE DEF x
  <2>6. x.k = "ops" /\ x.by = m.by
    BY <2>3
  <2> QED BY <2>1, <2>3, <2>4, <2>5, <2>6
<1>2. /\ Handle(t, t, m) = IF Speaks(m) THEN h ELSE Nothing(t)
      /\ Audience(m) = (IF Speaks(m) THEN who ELSE {})
  BY DEF Handle, m_message, to_type, sendto_channel_type, Speaks, Audience
<1>3. Meant(m) = Audience(m) \X {m.by} /\ Sent(m) = {e \in Meant(m) : e[1] \in world.op \/ Home[e[1]] = t}
  BY DEF Meant, Sent
<1>4. CASE ~Speaks(m)
  BY <1>1, <1>2, <1>3, <1>4, NothingOwed
<1>5. CASE Speaks(m)
  <2>1. Sent(m) = {e \in who \X {m.by} : e[1] \in world.op \/ Home[e[1]] = t}
    BY <1>2, <1>3, <1>5
  <2>2. /\ Comes(t, t, x) /\ Permitted(x)
        /\ Meant(x) = (world.op \ {m.by}) \X {m.by} /\ \A e : Place(x, e) = Home[e[1]]
    <3>1. Speaks(x) /\ At(x.by) = t
      BY <1>1, <1>5 DEF Speaks
    <3>2. Comes(t, t, x) /\ Permitted(x)
      BY <1>1, <3>1 DEF Comes, Permitted
    <3>3. Audience(x) = world.op \ {m.by}
      BY <1>1, <3>1 DEF Audience
    <3>4. x.k \notin {"query", "trace"}
      BY <1>1
    <3> HIDE DEF x
    <3> QED BY <1>1, <3>2, <3>3, <3>4 DEF Meant, Place
  <2>3. /\ h.here = {u \in who : Home[u] = t}
        /\ \A p \in Near(t) : h.on[p] = IF who \cap Behind(t, p) = {} THEN <<>> ELSE <<x>>
    BY <1>1 DEF Spread
  <2>4. \A u \in who : u \in User /\ Home[u] \in Server
    BY TalkAssumption
  <2>5. \A u \in User, p \in Near(t) : u \in Behind(t, p) <=> Beyond(t, p, Home[u])
    BY DEF Behind, Beyond, Toward, At
  <2> HIDE DEF h, x
  <2>6. \A p \in Near(t) : \A e : e \in Owed(t, p, h.on[p]) =>
          e \in Sent(m) /\ Beyond(t, p, Home[e[1]]) /\ Home[e[1]] # t
    <3> TAKE p \in Near(t)
    <3> TAKE e
    <3> HAVE e \in Owed(t, p, h.on[p])
    <3>1. h.on[p] = <<x>>
      BY <2>3 DEF Owed
    <3>2. e \in Meant(x) /\ Beyond(t, p, Place(x, e))
      BY <1>1, <3>1, OwedAhead
    <3> QED BY <2>1, <2>2, <3>2 DEF Beyond
  <2>7. \A e \in h.here \X {m.by} : e \in Sent(m) /\ Home[e[1]] = t
    BY <2>1, <2>3
  <2>8. ASSUME NEW e \in Sent(m), e \notin h.here \X {m.by}
        PROVE  \E p \in Near(t) : e \in Owed(t, p, h.on[p])
    <3>1. e \in who \X {m.by} /\ e[1] \in world.op /\ Home[e[1]] # t
      BY <2>1, <2>3, <2>8
    <3> DEFINE p == Hop[t][Home[e[1]]]
    <3>2. p \in Near(t) /\ Beyond(t, p, Home[e[1]])
      BY <1>1, <2>4, <3>1, Onward
    <3>3. h.on[p] = <<x>>
      BY <2>3, <2>4, <2>5, <3>1, <3>2
    <3>4. e \in Meant(x) /\ Beyond(t, p, Place(x, e))
      BY <2>2, <3>1, <3>2
    <3>5. e \in Owed(t, p, h.on[p])
      BY <1>1, <3>2, <3>3, <3>4, OwedAhead
    <3> QED BY <3>2, <3>5
  <2>9. \A p \in Near(t) : h.on[p] = <<>> \/ \E y : h.on[p] = <<y>> /\ Fits(t, p, y)
    BY <1>1, <2>2, <2>3, ComesIs DEF Routed
  <2>10. \A p, r \in Near(t) : \A y : Beyond(t, p, y) /\ Beyond(t, r, y) => p = r
    BY DEF Beyond
  <2>11. \A p, r \in Near(t) : \A e : e \in Owed(t, p, h.on[p]) =>
           /\ e \notin h.here \X {m.by}
           /\ e \in Owed(t, r, h.on[r]) => p = r
    BY <2>6, <2>7, <2>10
  <2>12. \A e : e \in Sent(m) <=> \/ e \in h.here \X {m.by}
                                  \/ \E p \in Near(t) : e \in Owed(t, p, h.on[p])
    BY <2>6, <2>7, <2>8
  <2>13. Conserves(t, h, m.by, Sent(m))
    BY <2>9, <2>11, <2>12 DEF Conserves
  <2> QED BY <1>2, <1>5, <2>13 DEF h
<1> QED BY <1>4, <1>5

\* A numeric goes to its person.
LEMMA NumericGoes ==
  ASSUME world \in World, NEW t \in Server, NEW from \in Near(t), NEW m \in Numerics,
         Beyond(from, t, Home[m.to])
  PROVE  Conserves(t, Handle(t, from, m), m.by, Owes(from, t, m))
<1>1. m.k = "numeric" /\ m.to \in User /\ m.by \in Server /\ Home[m.to] \in Server
  BY TalkAssumption DEF Numerics
<1>2. Handle(t, from, m) = sendto_prefix_one(t, from, m, m.to)
  BY <1>1 DEF Handle, do_numeric
<1>3. Ahead(t, from, Home[m.to])
  BY <1>1, Sides
<1>4. \A p \in Near(t) : Owes(t, p, m) = {<<m.to, m.by>>}
  BY <1>1 DEF Owes
<1>5. Owes(from, t, m) = {<<m.to, m.by>>}
  BY <1>1 DEF Owes
<1>6. \A p \in Near(t) : Beyond(t, p, Home[m.to]) => Fits(t, p, m)
  BY DEF Fits
<1>7. Conserves(t, sendto_prefix_one(t, from, m, m.to), m.by, Owes(from, t, m))
  BY <1>1, <1>3, <1>4, <1>5, <1>6, PrefixOne
<1> QED BY <1>2, <1>7

\* The servers on the way of a trace are t itself and servers further on.
LEMMA OnTheWay ==
  ASSUME world \in World, NEW t \in Server, NEW from, NEW m, Comes(t, from, m),
         m.k \in {"query", "trace"}
  PROVE  /\ At(m.to) = t => Debt(t, from, m) = {<<m.by, t>>}
         /\ At(m.to) # t =>
              /\ m.k = "query" =>
                   Debt(t, from, m) = Owes(t, Hop[t][At(m.to)], m)
              /\ m.k = "trace" =>
                   Debt(t, from, m) = Owes(t, Hop[t][At(m.to)], m) \cup {<<m.by, t>>}
<1> DEFINE d == At(m.to)
           o == At(m.by)
           q == Hop[t][d]
<1>1. /\ m \in Messages /\ from \in Near(t) \cup {t} /\ m.k \in Routed /\ m.k # "numeric"
      /\ d \in Server /\ o \in Server /\ m.by \in User
      /\ from = t => o = t
      /\ from # t => o # t /\ Beyond(t, from, o) /\ ~Ahead(t, from, o)
      /\ Ahead(t, from, d)
  BY ComesIs, MessageIs, Onward DEF Routed
<1>2. /\ Meant(m) = {m.by} \X Answering(m) /\ \A e : Place(m, e) = e[2]
      /\ d \in Answering(m) /\ Answering(m) \subseteq Server
  BY <1>1 DEF Meant, Place, Answering, Way
<1>3. d # t => q \in Near(t) /\ Beyond(t, q, d) /\ q # from
  BY <1>1, Onward
<1>4. m.k = "query" => Answering(m) = {d}
  BY DEF Answering
<1> HIDE DEF d, o
<1>5. m.k = "trace" => Answering(m) = {d} \cup Way(o, d)
  BY DEF Answering, d, o
<1>6. ASSUME d # t PROVE t \in Way(o, d)
  <2>1. CASE from = t
    BY <1>1, <1>6, <2>1 DEF Way
  <2>2. CASE from # t
    <3>1. o # d /\ Hop[t][o] = from /\ Hop[t][d] # from
      <4>1. o # d /\ Hop[t][o] = from
        BY <1>1, <2>2 DEF Beyond
      <4> QED BY <1>3, <1>6, <4>1
    <3> QED BY <1>1, <1>6, <2>2, <3>1 DEF Way
  <2> QED BY <2>1, <2>2
\* Who is not beyond the way on has both ends in one direction.
<1>7. ASSUME NEW x \in Way(o, d), Ahead(t, from, x), x # t
      PROVE  d # t /\ Hop[t][x] = q
  <2> DEFINE r == Hop[t][x]
  <2>1. x \in Server /\ x # d /\ r \in Near(t) /\ r # from
    BY <1>1, <1>7, Onward DEF Way, Ahead
  <2>2. x # o
    BY <1>1, <1>7
  <2>3. Hop[x][o] # Hop[x][d] /\ o # d
    BY <1>7, <2>2 DEF Way
  <2>4. o # t => Hop[t][o] # r
    BY <1>1, <2>1 DEF Beyond
  <2>5. Hop[x][o] = Hop[x][t]
    <3>1. o # t => Hop[x][o] = Hop[x][t]
      BY <1>1, <1>7, <2>1, <2>4, TalkAssumption
    <3> QED BY <3>1
  <2>6. d # t /\ (Hop[t][d] # r => Hop[x][d] = Hop[x][t])
    <3>1. d # t
      BY <2>3, <2>5
    <3> QED BY <1>1, <1>7, <2>1, <3>1, TalkAssumption
  <2> QED BY <2>3, <2>5, <2>6
<1>8. ASSUME d = t PROVE Debt(t, from, m) = {<<m.by, t>>}
  <2>1. \A x \in Answering(m) : Ahead(t, from, x) <=> x = t
    BY <1>1, <1>4, <1>5, <1>7, <1>8, Onward
  <2> QED BY <1>2, <1>8, <2>1 DEF Debt
<1>9. ASSUME d # t, m.k = "query" PROVE Debt(t, from, m) = Owes(t, q, m)
  BY <1>1, <1>2, <1>3, <1>4, <1>9 DEF Debt, Owes
<1>10. ASSUME d # t, m.k = "trace" PROVE Debt(t, from, m) = Owes(t, q, m) \cup {<<m.by, t>>}
  <2>1. t \in Answering(m) /\ Ahead(t, from, t)
    BY <1>1, <1>5, <1>6, <1>10, Onward
  <2>2. \A x \in Answering(m) : Ahead(t, from, x) /\ x # t <=> Beyond(t, q, x)
    <3> TAKE x \in Answering(m)
    <3>1. x \in Server
      BY <1>2
    <3>2. ASSUME Ahead(t, from, x), x # t PROVE Beyond(t, q, x)
      BY <1>3, <1>5, <1>7, <1>10, <3>2 DEF Beyond
    <3>3. ASSUME Beyond(t, q, x) PROVE Ahead(t, from, x) /\ x # t
      BY <1>1, <1>3, <1>10, <3>1, <3>3, Onward DEF Beyond
    <3> QED BY <3>2, <3>3
  <2> QED BY <1>1, <1>2, <2>1, <2>2 DEF Debt, Owes
<1> QED BY <1>8, <1>9, <1>10 DEF d

\* Spread is a flood,
LEMMA SpreadFloods ==
  ASSUME world \in World, NEW t \in Server, NEW from, NEW m, Comes(t, from, m), Permitted(m),
         m.k \in {"chan", "ops", "mask", "wallops", "operwall", "topic"}
  PROVE  Conserves(t, Spread(t, from, m, Audience(m)), m.by, Debt(t, from, m))
<1> DEFINE W == Audience(m)
           h == Spread(t, from, m, W)
<1>1. \A u \in W : u \in User /\ At(u) = Home[u]
  BY ComesIs, MeantIs DEF At
<1>2. /\ h.here = {u \in W : Home[u] = t}
      /\ \A p \in Near(t) :
           h.on[p] = IF p = from \/ W \cap Behind(t, p) = {} THEN <<>> ELSE <<m>>
  BY DEF Spread
<1>3. <<m>> # <<>>
  OBVIOUS
<1>4. ASSUME NEW p \in Near(t), p # from, h.on[p] = <<>>, NEW u \in W
      PROVE  Home[u] = t \/ Hop[t][Home[u]] # p
  <2>1. u \notin Behind(t, p)
    BY <1>2, <1>3, <1>4
  <2> QED BY <1>1, <2>1 DEF Behind, Toward
<1> HIDE DEF h
<1>5. Conserves(t, h, m.by, Debt(t, from, m))
  BY <1>2, <1>4, FloodOn
<1> QED BY <1>5 DEF h

\* and so is what goes to all servers.
LEMMA AllFloods ==
  ASSUME world \in World, NEW t \in Server, NEW from, NEW m, Comes(t, from, m), Permitted(m),
         m.k \in {"chan", "ops", "mask", "wallops", "operwall", "topic"},
         NEW x, x = [here |-> {u \in Audience(m) : Home[u] = t}, on |-> [p \in Near(t) |-> <<>>]]
  PROVE  Conserves(t, Also(x, sendto_serv_butone(t, from, m)), m.by, Debt(t, from, m))
<1> DEFINE y == sendto_serv_butone(t, from, m)
           h == Also(x, y)
<1>1. y = [here |-> {}, on |-> [p \in Near(t) |-> IF p = from THEN <<>> ELSE <<m>>]]
  BY DEF sendto_serv_butone
<1>2. h = [here |-> x.here \cup y.here, on |-> [p \in DOMAIN x.on |-> x.on[p] \o y.on[p]]]
  BY DEF Also
<1>3. <<>> \o <<m>> = <<m>> /\ <<>> \o <<>> = <<>> /\ <<m>> # <<>>
  OBVIOUS
<1>4. h.here = {u \in Audience(m) : Home[u] = t}
  <2>1. y.here = {}
    BY <1>1
  <2> HIDE DEF h, y
  <2>2. h.here = x.here \cup y.here
    BY <1>2
  <2>3. x.here = {u \in Audience(m) : Home[u] = t}
    OBVIOUS
  <2> QED BY <2>1, <2>2, <2>3
<1>5. \A p \in Near(t) : h.on[p] = IF p = from THEN <<>> ELSE <<m>>
  BY <1>1, <1>2, <1>3
<1> HIDE DEF h
<1>6. Conserves(t, h, m.by, Debt(t, from, m))
  BY <1>3, <1>4, <1>5, FloodOn
<1> QED BY <1>6 DEF h

\* Of what is not permitted nobody is meant to hear.
LEMMA NotPermitted ==
  ASSUME world \in World, NEW t \in Server, NEW from, NEW m, Comes(t, from, m), ~Permitted(m)
  PROVE  from = t /\ Debt(t, from, m) = {}
<1>1. from = t /\ m \in Messages
  BY ComesIs
<1>2. Audience(m) = {} /\ m.k \notin {"query", "trace"}
  <2>1. CASE m.k = "chan"
    BY <2>1 DEF Permitted, Audience
  <2>2. CASE m.k = "ops"
    BY <2>2 DEF Permitted, Audience
  <2>3. CASE m.k = "mask"
    BY <2>3 DEF Permitted, Audience
  <2>4. CASE m.k = "wallops"
    BY <2>4 DEF Permitted, Audience, Rules
  <2>5. CASE m.k = "operwall"
    BY <2>5 DEF Permitted, Audience
  <2>6. CASE m.k = "topic"
    BY <2>6 DEF Permitted, Audience
  <2> QED BY <2>1, <2>2, <2>3, <2>4, <2>5, <2>6 DEF Permitted
<1> QED BY <1>1, <1>2 DEF Debt, Meant

\* A message to many serves or passes on what it owes.
LEMMA ManyGo ==
  ASSUME world \in World, NEW t \in Server, NEW from, NEW m, Comes(t, from, m),
         m.k \in {"chan", "ops", "mask", "wallops", "operwall", "topic"}
  PROVE  Conserves(t, Handle(t, from, m), m.by, Debt(t, from, m))
<1> DEFINE h == Handle(t, from, m)
           n == Nothing(t)
           Here(W) == [here |-> {u \in W : Home[u] = t}, on |-> [p \in Near(t) |-> <<>>]]
<1>1. /\ m \in Messages /\ m.by \in User \cup Server /\ (m.k # "wallops" => m.by \in User)
      /\ User \cap Server = {}
  BY ComesIs, MessageIs, TalkAssumption
<1>0. \A W : [n EXCEPT !.here = W] = [here |-> W, on |-> [p \in Near(t) |-> <<>>]]
  BY DEF Nothing
<1>2. from # t => At(m.by) # t /\ Permitted(m)
  BY ComesIs
<1>3. from = t => At(m.by) = t
  BY ComesIs
<1>4. ~Permitted(m) => Debt(t, from, m) = {}
  BY NotPermitted
<1>5. CASE m.k = "chan"
  <2>1. h = to_channel(t, from, m) /\ (Permitted(m) <=> Allowed(m))
    BY <1>5 DEF Handle, m_message, Permitted
  <2>2. can_send(t, m.by) <=> Allowed(m)
    BY <1>1, <1>2, <1>3, <1>5, <2>1 DEF can_send, Allowed, MyClient, At
  <2>3. CASE Allowed(m)
    <3>1. Audience(m) = world.mem \ {m.by}
      BY <1>5, <2>3 DEF Audience
    <3>2. h = Spread(t, from, m, Audience(m))
      BY <2>1, <2>2, <2>3, <3>1 DEF to_channel, sendto_channel_butone
    <3> HIDE DEF h
    <3>3. Conserves(t, h, m.by, Debt(t, from, m))
      BY <1>5, <2>1, <2>3, <3>2, SpreadFloods
    <3> QED BY <3>3 DEF h
  <2>4. CASE ~Allowed(m)
    BY <1>4, <2>1, <2>2, <2>4, NothingOwed DEF to_channel
  <2> QED BY <2>3, <2>4
<1>6. CASE m.k = "ops"
  <2>1. h = to_type(t, from, m) /\ (Permitted(m) <=> Speaks(m))
    BY <1>6 DEF Handle, m_message, Permitted
  <2>2. CASE Speaks(m)
    <3>1. Audience(m) = world.op \ {m.by}
      BY <1>6, <2>2 DEF Audience
    <3>2. [m EXCEPT !.k = "ops"] = m
      BY <1>1, <1>6 DEF Messages
    <3>3. h = Spread(t, from, m, Audience(m))
      BY <1>6, <2>1, <2>2, <3>1, <3>2 DEF to_type, sendto_channel_type, Speaks
    <3> HIDE DEF h
    <3>4. Conserves(t, h, m.by, Debt(t, from, m))
      BY <1>6, <2>1, <2>2, <3>3, SpreadFloods
    <3> QED BY <3>4 DEF h
  <2>3. CASE ~Speaks(m)
    BY <1>4, <2>1, <2>3, NothingOwed DEF to_type, Speaks
  <2> QED BY <2>2, <2>3
<1>7. CASE m.k = "mask"
  <2>1. h = send_oper_special(t, from, m) /\ (Permitted(m) <=> m.by \in world.oper)
    BY <1>1, <1>7 DEF Handle, m_message, Permitted, Rules
  <2>2. CASE m.by \in world.oper
    <3>1. Audience(m) = world.hit
      BY <1>7, <2>2 DEF Audience, Rules
    <3>2. [n EXCEPT !.here = {u \in world.hit : Home[u] = t}] = Here(world.hit)
      BY <1>0
    <3>3. h = Also(Here(Audience(m)), sendto_serv_butone(t, from, m))
      BY <2>1, <2>2, <3>1, <3>2 DEF send_oper_special, sendto_match_butone
    <3> HIDE DEF h
    <3>4. Conserves(t, h, m.by, Debt(t, from, m))
      BY <1>7, <2>1, <2>2, <3>3, AllFloods
    <3> QED BY <3>4 DEF h
  <2>3. CASE m.by \notin world.oper
    BY <1>4, <2>1, <2>3, NothingOwed DEF send_oper_special
  <2> QED BY <2>2, <2>3
<1>8. send_operwall(t) = Here(world.oper \cap world.z)
  <2>1. send_operwall(t) = [n EXCEPT !.here = Opers(t, world.z)]
    BY DEF send_operwall
  <2>2. Opers(t, world.z) = {u \in world.oper \cap world.z : Home[u] = t}
    BY DEF Opers
  <2> HIDE DEF n
  <2> QED BY <1>0, <2>1, <2>2
<1>9. CASE m.k = "wallops"
  <2>1. h = m_wallops(t, from, m) /\ (Permitted(m) <=> Rules(m))
    BY <1>9 DEF Handle, Permitted
  <2>2. CASE m.by \in Server
    <3>1. Rules(m) /\ Audience(m) = world.oper \cap world.w
      BY <1>9, <2>2 DEF Audience, Rules
    <3>2. At(m.by) = m.by
      BY <1>1, <2>2 DEF At
    <3>3. h = Spread(t, from, m, Audience(m))
      BY <1>2, <1>3, <2>1, <2>2, <3>1, <3>2 DEF m_wallops, sendto_ops_butone, sendto_wallops_butone
    <3> HIDE DEF h
    <3>4. Conserves(t, h, m.by, Debt(t, from, m))
      BY <1>9, <2>1, <3>1, <3>3, SpreadFloods
    <3> QED BY <3>4 DEF h
  <2>3. CASE m.by \in world.oper
    <3>1. m.by \notin Server /\ m.by # t
      BY <1>1, <2>3, TalkAssumption
    <3>2. Rules(m) /\ Audience(m) = world.oper \cap world.z
      BY <1>9, <2>3, <3>1 DEF Audience, Rules
    <3>3. h = Also(Here(Audience(m)), sendto_serv_butone(t, from, m))
      BY <1>8, <2>1, <2>3, <3>1, <3>2 DEF m_wallops
    <3> HIDE DEF h
    <3>4. Conserves(t, h, m.by, Debt(t, from, m))
      BY <1>9, <2>1, <3>2, <3>3, AllFloods
    <3> QED BY <3>4 DEF h
  <2>4. CASE m.by \notin Server /\ m.by \notin world.oper
    <3>1. ~Permitted(m) /\ m.by \in User /\ m.by # t
      BY <1>1, <2>1, <2>4 DEF Rules
    <3>2. MyClient(t, m.by)
      BY <1>2, <1>3, <3>1 DEF MyClient, At
    <3> QED BY <1>4, <2>1, <2>4, <3>1, <3>2, NothingOwed DEF m_wallops
  <2> QED BY <2>2, <2>3, <2>4
<1>10. CASE m.k = "operwall"
  <2>1. h = m_operwall(t, from, m) /\ (Permitted(m) <=> m.by \in world.oper)
    BY <1>1, <1>10 DEF Handle, Permitted, Rules
  <2>2. CASE m.by \in world.oper
    <3>1. Audience(m) = world.oper \cap world.z
      BY <1>10, <2>2 DEF Audience, Rules
    <3>2. h = Also(Here(Audience(m)), sendto_serv_butone(t, from, m))
      BY <1>8, <2>1, <2>2, <3>1 DEF m_operwall
    <3> HIDE DEF h
    <3>3. Conserves(t, h, m.by, Debt(t, from, m))
      BY <1>10, <2>1, <2>2, <3>2, AllFloods
    <3> QED BY <3>3 DEF h
  <2>3. CASE m.by \notin world.oper
    BY <1>4, <2>1, <2>3, NothingOwed DEF m_operwall
  <2> QED BY <2>2, <2>3
<1>11. CASE m.k = "topic"
  <2>1. h = m_topic(t, from, m) /\ (Permitted(m) <=> OnTopic(m))
    BY <1>11 DEF Handle, Permitted
  <2>2. CASE OnTopic(m)
    <3>1. Audience(m) = world.mem
      BY <1>11, <2>2 DEF Audience
    <3>2. [n EXCEPT !.here = {u \in world.mem : Home[u] = t}] = Here(world.mem)
      BY <1>0
    <3>3. h = Also(Here(Audience(m)), sendto_serv_butone(t, from, m))
      BY <2>1, <2>2, <3>1, <3>2 DEF m_topic, OnTopic
    <3> HIDE DEF h
    <3>4. Conserves(t, h, m.by, Debt(t, from, m))
      BY <1>11, <2>1, <2>2, <3>3, AllFloods
    <3> QED BY <3>4 DEF h
  <2>3. CASE ~OnTopic(m)
    BY <1>4, <2>1, <2>3, NothingOwed DEF m_topic, OnTopic
  <2> QED BY <2>2, <2>3
<1> QED BY <1>5, <1>6, <1>7, <1>9, <1>10, <1>11

\* A question is answered here, or goes on, or for a trace both.
LEMMA HuntGoes ==
  ASSUME world \in World, NEW t \in Server, NEW from, NEW m, Comes(t, from, m),
         m.k \in {"query", "trace"}
  PROVE  Conserves(t, Handle(t, from, m), t, Debt(t, from, m))
<1> DEFINE h == Handle(t, from, m)
           n == Nothing(t)
           q == Toward(t, m.to)
           D == Debt(t, from, m)
           r == Reply(t, m.by)
           g == [n EXCEPT !.on[q] = <<m>>]
<1>1. /\ m \in Messages /\ m.by \in User /\ m.k \in Routed /\ At(m.to) \in Server
      /\ from \in Near(t) \cup {t} /\ Home[m.by] \in Server /\ At(m.by) = Home[m.by]
      /\ Ahead(t, from, At(m.to)) /\ Permitted(m) /\ m.k \notin {"locops", "voiced", "numeric"}
  BY ComesIs, MessageIs, TalkAssumption DEF Routed, At, Permitted
<1>2. h = hunt_server(t, from, m) /\ q = Hop[t][At(m.to)]
  BY DEF Handle, Toward
<1>3. Conserves(t, r, t, {<<m.by, t>>})
  <2> DEFINE x == Numeric(t, m.by)
  <2>1. x = [k |-> "numeric", by |-> t, to |-> m.by] /\ x \in Numerics
    BY <1>1 DEF Numeric, Numerics
  <2>2. r = sendto_prefix_one(t, t, x, m.by)
    BY <2>1 DEF Reply, do_numeric
  <2>3. Ahead(t, t, Home[m.by])
    BY <1>1, Onward
  <2>4. \A p \in Near(t) : Owes(t, p, x) = {<<m.by, t>>}
    BY <2>1 DEF Owes
  <2>5. \A p \in Near(t) : Beyond(t, p, Home[m.by]) => Fits(t, p, x)
    BY <2>1 DEF Fits
  <2> HIDE DEF x, r
  <2>6. Conserves(t, sendto_prefix_one(t, t, x, m.by), t, {<<m.by, t>>})
    BY <1>1, <2>3, <2>4, <2>5, PrefixOne
  <2> QED BY <2>2, <2>6
<1>4. CASE At(m.to) = t
  BY <1>2, <1>3, <1>4, OnTheWay DEF hunt_server
<1>5. CASE At(m.to) # t
  <2>1. q \in Near(t) /\ q # from /\ Beyond(t, q, At(m.to))
    BY <1>1, <1>2, <1>5, Onward
  <2>2. Fits(t, q, m)
    BY <1>1, <2>1, ComesIs
  <2>3. n = [here |-> {}, on |-> [p \in Near(t) |-> <<>>]]
    BY DEF Nothing
  <2>4. g.here = {} /\ g.on = [[p \in Near(t) |-> <<>>] EXCEPT ![q] = <<m>>]
    BY <2>3
  <2>5. g.on[q] = <<m>> /\ \A p \in Near(t) \ {q} : g.on[p] = <<>>
    BY <2>1, <2>4
  <2>6. CASE m.k = "query"
    <3>1. h = Also(g, n)
      BY <1>2, <1>5, <2>1, <2>6 DEF hunt_server
    <3>2. h = [here |-> g.here \cup n.here, on |-> [p \in Near(t) |-> g.on[p] \o n.on[p]]]
      BY <2>4, <3>1 DEF Also
    <3>3. <<>> \o <<>> = <<>> /\ <<m>> \o <<>> = <<m>>
      OBVIOUS
    <3>4. n.here = {} /\ \A p \in Near(t) : n.on[p] = <<>>
      BY <2>3
    <3>5. D = Owes(t, q, m)
      BY <1>2, <1>5, <2>6, OnTheWay
    <3> HIDE DEF h, g, n, q, D
    <3>6. h.here = {} /\ h.on[q] = <<m>> /\ \A p \in Near(t) \ {q} : h.on[p] = <<>>
      BY <2>1, <2>4, <2>5, <3>2, <3>3, <3>4
    <3>7. Conserves(t, h, t, D)
      BY <2>1, <2>2, <3>5, <3>6, Handed
    <3> QED BY <3>7 DEF h, D
  <2>7. CASE m.k = "trace"
    <3>1. h = Also(g, r)
      BY <1>2, <1>5, <2>1, <2>7 DEF hunt_server
    <3>2. h = [here |-> g.here \cup r.here, on |-> [p \in Near(t) |-> g.on[p] \o r.on[p]]]
      BY <2>4, <3>1 DEF Also
    <3>3. D = Owes(t, q, m) \cup {<<m.by, t>>}
      BY <1>2, <1>5, <2>7, OnTheWay
\* The answer does not take the link of the question.
    <3>4. r.on[q] = <<>>
      <4>1. from = t => Home[m.by] = t
        BY <1>1, ComesIs
      <4>2. from # t => Toward(t, m.by) = from /\ Home[m.by] # t
        BY <1>1, ComesIs DEF Beyond, Toward
      <4>3. r = IF Home[m.by] = t THEN [n EXCEPT !.here = {m.by}]
                ELSE IF Toward(t, m.by) = t THEN n
                ELSE [n EXCEPT !.on[Toward(t, m.by)] = <<Numeric(t, m.by)>>]
        BY DEF Reply, do_numeric, sendto_prefix_one, Numeric
      <4> HIDE DEF r
      <4>4. CASE from = t
        BY <2>1, <2>3, <4>1, <4>3, <4>4
      <4>5. CASE from # t
        <5>1. r = n \/ r = [n EXCEPT !.on[from] = <<Numeric(t, m.by)>>]
          BY <4>2, <4>3, <4>5
        <5> QED BY <2>1, <2>3, <5>1
      <4> QED BY <4>4, <4>5
    <3> HIDE DEF h, g, n, q, D, r
    <3>5. h.here = r.here /\ \A p \in Near(t) : h.on[p] = g.on[p] \o r.on[p]
      BY <2>4, <3>2
    <3>6. \A p \in Near(t) : r.on[p] = <<>> \/ \E x : r.on[p] = <<x>> /\ Fits(t, p, x)
      BY <1>3 DEF Conserves
    <3>7. h.on[q] = <<m>> /\ \A p \in Near(t) \ {q} : h.on[p] = r.on[p]
      <4>1. <<m>> \o <<>> = <<m>> /\ \A x : <<>> \o <<x>> = <<x>> /\ <<>> \o <<>> = <<>>
        OBVIOUS
      <4> QED BY <2>1, <2>5, <3>4, <3>5, <3>6, <4>1
    <3>8. /\ Owed(t, q, h.on[q]) = Owes(t, q, m) /\ Owed(t, q, r.on[q]) = {}
          /\ \A p \in Near(t) \ {q} : Owed(t, p, h.on[p]) = Owed(t, p, r.on[p])
      <4>1. <<m>> # <<>> /\ <<m>>[1] = m
        OBVIOUS
      <4> QED BY <3>4, <3>7, <4>1 DEF Owed
    <3>9. <<m.by, t>> \notin Owes(t, q, m)
      BY <1>1 DEF Owes, Place, Beyond
    <3>10. /\ \A e : e = <<m.by, t>> <=> \/ e \in r.here \X {t}
                                        \/ \E p \in Near(t) : e \in Owed(t, p, r.on[p])
           /\ \A p, s \in Near(t) : \A e : e \in Owed(t, p, r.on[p]) =>
                /\ e \notin r.here \X {t}
                /\ e \in Owed(t, s, r.on[s]) => p = s
      BY <1>3 DEF Conserves
    <3>11. \A p \in Near(t) : h.on[p] = <<>> \/ \E x : h.on[p] = <<x>> /\ Fits(t, p, x)
      BY <2>2, <3>6, <3>7
    <3>12. \A e : e \in D <=> \/ e \in h.here \X {t}
                             \/ \E p \in Near(t) : e \in Owed(t, p, h.on[p])
      BY <2>1, <3>3, <3>5, <3>8, <3>10
    <3>13. \A p, s \in Near(t) : \A e : e \in Owed(t, p, h.on[p]) =>
             /\ e \notin h.here \X {t}
             /\ e \in Owed(t, s, h.on[s]) => p = s
      BY <3>5, <3>8, <3>9, <3>10
    <3>14. Conserves(t, h, t, D)
      BY <3>11, <3>12, <3>13 DEF Conserves
    <3> QED BY <3>14 DEF h, D
  <2> QED BY <2>6, <2>7
<1> QED BY <1>4, <1>5

\* Every handler serves or passes on what it owes, each part once.
LEMMA Handled ==
  ASSUME world \in World, NEW t \in Server, NEW from, NEW m, Comes(t, from, m), m.k # "voiced"
  PROVE  Conserves(t, Handle(t, from, m), Voice(t, m), Debt(t, from, m))
<1> DEFINE h == Handle(t, from, m)
           n == Nothing(t)
<1>1. m \in Messages /\ from \in Near(t) \cup {t} /\ m.by \in User \cup Server
      /\ (m.k # "wallops" => m.by \in User) /\ User \cap Server = {}
  BY ComesIs, MessageIs, TalkAssumption
<1>2. CASE m.k \in {"chan", "ops", "mask", "wallops", "operwall", "topic"}
  BY <1>2, ManyGo DEF Voice
<1>3. CASE m.k \in {"query", "trace"}
  BY <1>3, HuntGoes DEF Voice
<1>4. n = [here |-> {}, on |-> [p \in Near(t) |-> <<>>]]
  BY DEF Nothing
<1>5. CASE m.k = "locops"
  <2>1. h = m_locops(t, m)
    BY <1>5 DEF Handle
  <2>2. from = t /\ At(m.by) = t /\ m.by \in User /\ m.by \notin Server
    BY <1>1, <1>5, ComesIs
  <2>3. MyClient(t, m.by) /\ (Rules(m) <=> m.by \in world.oper)
    BY <2>2 DEF MyClient, Rules, At
  <2>4. Debt(t, from, m) = Audience(m) \X {m.by}
    <3>1. Meant(m) = Audience(m) \X {m.by}
      BY <1>5 DEF Meant
    <3> QED BY <1>1, <2>2, <3>1, MeantIs, Onward DEF Debt
  <2>5. CASE m.by \in world.oper
    <3>1. h = [n EXCEPT !.here = Audience(m)]
      BY <1>5, <2>1, <2>2, <2>3, <2>5 DEF m_locops, send_operwall, Audience
    <3> HIDE DEF h, n
    <3>2. h.here = Audience(m) /\ \A p \in Near(t) : h.on[p] = <<>>
      BY <1>4, <3>1
    <3>3. Conserves(t, h, m.by, Debt(t, from, m))
      BY <2>4, <3>2, Served
    <3> QED BY <1>5, <3>3 DEF Voice, h
  <2>6. CASE m.by \notin world.oper
    <3>1. Debt(t, from, m) = {}
      BY <1>5, <2>3, <2>4, <2>6 DEF Audience
    <3> QED BY <2>1, <2>6, <3>1, NothingOwed DEF m_locops
  <2> QED BY <2>5, <2>6
<1>6. CASE m.k = "nick"
  <2>1. m.to \in User /\ At(m.to) = Home[m.to] /\ Audience(m) = {m.to} /\ Ahead(t, from, Home[m.to])
    BY <1>1, <1>6, MessageIs, ComesIs DEF Audience, At, Routed
  <2>2. h = sendto_prefix_one(t, from, m, m.to)
    BY <1>6 DEF Handle, m_message
  <2>3. Debt(t, from, m) = {<<m.to, m.by>>}
    BY <1>6, <2>1, ForOne
  <2>4. \A p \in Near(t) : Beyond(t, p, Home[m.to]) => Fits(t, p, m) /\ Owes(t, p, m) = Debt(t, from, m)
    BY <1>6, <2>1, ForOne
  <2> HIDE DEF h
  <2>5. Conserves(t, h, m.by, Debt(t, from, m))
    BY <1>1, <2>1, <2>2, <2>3, <2>4, PrefixOne
  <2> QED BY <1>6, <2>5 DEF Voice, h
<1>7. CASE m.k \in {"opers@", "user@"}
  <2>1. /\ m.to \in Server /\ At(m.to) = m.to /\ Ahead(t, from, m.to)
        /\ Debt(t, from, m) = Audience(m) \X {m.by}
        /\ \A p \in Near(t) : Beyond(t, p, m.to) =>
             Fits(t, p, m) /\ Owes(t, p, m) = Debt(t, from, m)
    BY <1>1, <1>7, MessageIs, ComesIs, ForOne DEF Routed
  <2>2. h = user_at_server(t, from, m)
    BY <1>7 DEF Handle, m_message
  <2>3. CASE m.to # t
    <3> DEFINE q == Toward(t, m.to)
    <3>1. q = Hop[t][m.to] /\ h = [n EXCEPT !.on[q] = <<m>>]
      BY <2>1, <2>2, <2>3 DEF Toward, user_at_server
    <3>2. q \in Near(t) /\ Beyond(t, q, m.to)
      BY <1>1, <2>1, <2>3, <3>1, Onward
    <3> HIDE DEF h, n, q
    <3>3. h.here = {} /\ h.on = [n.on EXCEPT ![q] = <<m>>]
      BY <1>4, <3>1
    <3>4. h.on[q] = <<m>> /\ \A p \in Near(t) \ {q} : h.on[p] = <<>>
      BY <1>4, <3>2, <3>3
    <3>5. Conserves(t, h, m.by, Debt(t, from, m))
      BY <2>1, <3>2, <3>3, <3>4, Handed
    <3> QED BY <1>7, <3>5 DEF Voice, h
  <2>4. CASE m.to = t
    <3>1. h = [n EXCEPT !.here = Audience(m)] \/ (h = n /\ Audience(m) = {})
      <4>1. CASE m.k = "opers@" /\ m.by \in world.oper
        BY <2>2, <2>4, <4>1 DEF user_at_server, sendto_realops, Audience, Rules
      <4>2. CASE m.k = "opers@" /\ m.by \notin world.oper
        BY <1>1, <2>2, <2>4, <4>2 DEF user_at_server, Audience, Rules
      <4>3. CASE m.k = "user@"
        BY <2>2, <2>4, <4>3 DEF user_at_server, find_userhost, Audience
      <4> QED BY <1>7, <4>1, <4>2, <4>3
    <3> HIDE DEF h, n
    <3>2. h.here = Audience(m) /\ \A p \in Near(t) : h.on[p] = <<>>
      <4>1. CASE h = [n EXCEPT !.here = Audience(m)]
        BY <1>4, <4>1
      <4>2. CASE h = n /\ Audience(m) = {}
        <5>1. n.here = {} /\ \A p \in Near(t) : n.on[p] = <<>>
          BY <1>4
        <5> QED BY <4>2, <5>1
      <4> QED BY <3>1, <4>1, <4>2
    <3>3. Conserves(t, h, m.by, Debt(t, from, m))
      BY <2>1, <3>2, Served
    <3> QED BY <1>7, <3>3 DEF Voice, h
  <2> QED BY <2>3, <2>4
<1> QED BY <1>1, <1>2, <1>3, <1>5, <1>6, <1>7, MessageIs

-----------------------------------------------------------------------------
(* What is under way.                                                      *)

Lines == Messages \cup Numerics

\* The i-th line from l[1] to l[2] owes e.
Token(q, l, i, e) == l \in Links /\ i \in 1..Len(q[l]) /\ e \in Owes(l[1], l[2], q[l][i])

\* q: the lines under way.
Underway(q) ==
  /\ q \in [Links -> Seq(Lines)]
  /\ \A l \in Links : \A i \in 1..Len(q[l]) : Fits(l[1], l[2], q[l][i])

\* All of A is shown once, but for D, and what a line under way owes, once.
Accounted(q, g, D, A) ==
  /\ \A l, i, e : Token(q, l, i, e) => e \in A /\ e \notin D
  /\ \A l, r, i, j, e : Token(q, l, i, e) /\ Token(q, r, j, e) => l = r /\ i = j
  /\ D \subseteq A /\ A \subseteq Pairs
  /\ g = [e \in Pairs |-> IF e \in A /\ e \notin D /\ ~(\E l, i : Token(q, l, i, e))
                          THEN 1 ELSE 0]

\* The inductive invariant.
TalkInv ==
  /\ world \in World
  /\ said \in Messages \cup {Silence}
  /\ Underway(talk)
  /\ said = Silence => talk = [l \in Links |-> <<>>]
  /\ Accounted(talk, got, {}, IF said = Silence THEN {} ELSE Sent(said))

\* A line that is read owes what it owed, to the one who read it.
LEMMA ReadIs ==
  ASSUME NEW q, Underway(q), NEW g, NEW A, Accounted(q, g, {}, A),
         NEW k \in Links, q[k] # <<>>, NEW r, r = [q EXCEPT ![k] = Tail(@)]
  PROVE  /\ Fits(k[1], k[2], Head(q[k])) /\ Head(q[k]) \in Lines
         /\ Underway(r)
         /\ Accounted(r, g, Owes(k[1], k[2], Head(q[k])), A)
<1> DEFINE m == Head(q[k])
           D == Owes(k[1], k[2], m)
<1>1. q \in [Links -> Seq(Lines)] /\ q[k] \in Seq(Lines)
  BY DEF Underway
<1>2. /\ Len(q[k]) \in Nat /\ Len(q[k]) > 0 /\ m = q[k][1] /\ m \in Lines
      /\ Tail(q[k]) \in Seq(Lines) /\ Len(Tail(q[k])) = Len(q[k]) - 1
      /\ \A i \in 1..Len(q[k]) - 1 : Tail(q[k])[i] = q[k][i + 1]
  BY <1>1, HeadTailProperties, EmptySeq, LenProperties
<1>3. r \in [Links -> Seq(Lines)] /\ r[k] = Tail(q[k]) /\ \A l \in Links \ {k} : r[l] = q[l]
  BY <1>1, <1>2
<1>4. Fits(k[1], k[2], m)
  BY <1>2 DEF Underway
<1>5. \A l, i, e : Token(r, l, i, e) <=>
        \/ l # k /\ Token(q, l, i, e)
        \/ l = k /\ i \in Nat \ {0} /\ Token(q, l, i + 1, e)
  <2> TAKE l, i, e
  <2>1. CASE l = k
    BY <1>2, <1>3, <2>1 DEF Token
  <2>2. CASE l # k
    BY <1>3, <2>2 DEF Token
  <2> QED BY <2>1, <2>2
<1>6. \A e : e \in D <=> Token(q, k, 1, e)
  BY <1>2 DEF Token
<1>7. Underway(r)
  <2>1. ASSUME NEW l \in Links, NEW i \in 1..Len(r[l])
        PROVE  Fits(l[1], l[2], r[l][i])
    <3>1. CASE l = k
      <4>1. i + 1 \in 1..Len(q[k]) /\ r[l][i] = q[k][i + 1]
        BY <1>2, <1>3, <2>1, <3>1
      <4> QED BY <3>1, <4>1 DEF Underway
    <3>2. CASE l # k
      BY <1>3, <2>1, <3>2 DEF Underway
    <3> QED BY <3>1, <3>2
  <2> QED BY <1>3, <2>1 DEF Underway
<1>8. \A l, i, j, e : Token(q, l, i, e) => i \in Nat
  BY DEF Token
<1> HIDE DEF m, D
<1>9. \A l, i, e : Token(q, l, i, e) => e \in A
  BY DEF Accounted
<1>10. \A l, o, i, j, e : Token(q, l, i, e) /\ Token(q, o, j, e) => l = o /\ i = j
  BY DEF Accounted
<1>11. \A l, i, e : Token(r, l, i, e) => e \in A /\ e \notin D
  <2> TAKE l, i, e
  <2> HAVE Token(r, l, i, e)
  <2>1. CASE l # k
    BY <1>5, <1>6, <1>9, <1>10, <2>1
  <2>2. CASE l = k
    <3>1. i \in Nat \ {0} /\ Token(q, l, i + 1, e)
      BY ONLY <1>5, <2>2, Token(r, l, i, e)
    <3>2. i + 1 # 1
      BY <3>1
    <3> QED BY <1>6, <1>9, <1>10, <2>2, <3>1, <3>2
  <2> QED BY <2>1, <2>2
<1>12. \A l, o, i, j, e : Token(r, l, i, e) /\ Token(r, o, j, e) => l = o /\ i = j
  <2> TAKE l, o, i, j, e
  <2> HAVE Token(r, l, i, e) /\ Token(r, o, j, e)
  <2>0. \E a : Token(q, l, a, e)
    BY ONLY <1>5, Token(r, l, i, e)
  <2>4. \E a : Token(q, o, a, e)
    BY ONLY <1>5, Token(r, o, j, e)
  <2>1. l = o
    BY ONLY <1>10, <2>0, <2>4
  <2>2. CASE l # k
    BY <1>5, <1>10, <2>1, <2>2
  <2>3. CASE l = k
    <3>1. i \in Nat /\ Token(q, l, i + 1, e)
      BY ONLY <1>5, <2>3, Token(r, l, i, e)
    <3>2. j \in Nat /\ Token(q, o, j + 1, e)
      BY ONLY <1>5, <2>1, <2>3, Token(r, o, j, e)
    <3>3. i + 1 = j + 1
      BY ONLY <1>10, <3>1, <3>2
    <3> QED BY ONLY <2>1, <3>1, <3>2, <3>3
  <2> QED BY <2>2, <2>3
<1>13. \A e : (\E l, i : Token(q, l, i, e)) <=> (e \in D \/ \E l, i : Token(r, l, i, e))
  <2> TAKE e
  <2>1. ASSUME NEW l, NEW i, Token(q, l, i, e)
        PROVE  e \in D \/ \E o, j : Token(r, o, j, e)
    <3>1. CASE l # k
      BY <1>5, <2>1, <3>1
    <3>2. CASE l = k /\ i = 1
      BY <1>6, <2>1, <3>2
    <3>3. CASE l = k /\ i # 1
      <4>1. i - 1 \in Nat \ {0} /\ (i - 1) + 1 = i
        BY <2>1, <3>3 DEF Token
      <4>2. Token(r, l, i - 1, e)
        BY <1>5, <2>1, <3>3, <4>1
      <4> QED BY <4>2
    <3> QED BY <3>1, <3>2, <3>3
  <2>2. (e \in D \/ \E l, i : Token(r, l, i, e)) => \E l, i : Token(q, l, i, e)
    BY <1>5, <1>6
  <2> QED BY <2>1, <2>2
<1>14. A \subseteq Pairs /\ D \subseteq A
  BY <1>6, <1>9 DEF Accounted
<1>15. g = [e \in Pairs |-> IF e \in A /\ e \notin D /\ ~(\E l, i : Token(r, l, i, e))
                            THEN 1 ELSE 0]
  <2>1. g = [e \in Pairs |-> IF e \in A /\ e \notin {} /\ ~(\E l, i : Token(q, l, i, e))
                             THEN 1 ELSE 0]
    BY DEF Accounted
  <2> QED BY <1>13, <2>1
<1>16. Accounted(r, g, D, A)
  BY <1>11, <1>12, <1>14, <1>15 DEF Accounted
<1> QED BY <1>2, <1>4, <1>7, <1>16 DEF m, D

\* What a handler at t does to the lines under way and the copies.
PassedOn(q, t, h) == [l \in DOMAIN q |-> IF l[1] = t THEN q[l] \o h.on[l[2]] ELSE q[l]]
Shown(g, h, v) == [e \in DOMAIN g |-> IF e[1] \in h.here /\ e[2] = v THEN g[e] + 1 ELSE g[e]]

\* What a handler shows and passes on was owed, and is not any more.
LEMMA Delivered ==
  ASSUME world \in World, NEW t \in Server, NEW h, NEW v, NEW D, Conserves(t, h, v, D),
         NEW q, Underway(q), NEW g, NEW A, Accounted(q, g, D, A)
  PROVE  Underway(PassedOn(q, t, h)) /\ Accounted(PassedOn(q, t, h), Shown(g, h, v), {}, A)
<1> DEFINE r == PassedOn(q, t, h)
           f == Shown(g, h, v)
<1>1. q \in [Links -> Seq(Lines)] /\ \A l \in Links : q[l] \in Seq(Lines) /\ Len(q[l]) \in Nat
  BY LenProperties DEF Underway
<1>2. \A l \in Links : l = <<l[1], l[2]>> /\ (l[1] = t => l[2] \in Near(t))
  <2> TAKE l \in Links
  <2>1. l = <<l[1], l[2]>> /\ l[2] \in Server /\ {l[1], l[2]} \in Edge
    BY DEF Links
  <2> QED BY <2>1 DEF Near
<1>3. /\ \A p \in Near(t) : h.on[p] = <<>> \/ \E x : h.on[p] = <<x>> /\ Fits(t, p, x)
      /\ \A e : e \in D <=> \/ e \in h.here \X {v}
                            \/ \E p \in Near(t) : e \in Owed(t, p, h.on[p])
      /\ \A p, s \in Near(t) : \A e : e \in Owed(t, p, h.on[p]) =>
           /\ e \notin h.here \X {v}
           /\ e \in Owed(t, s, h.on[s]) => p = s
  BY DEF Conserves
<1>4. /\ r = [l \in DOMAIN q |-> IF l[1] = t THEN q[l] \o h.on[l[2]] ELSE q[l]]
      /\ f = [e \in DOMAIN g |-> IF e[1] \in h.here /\ e[2] = v THEN g[e] + 1 ELSE g[e]]
      /\ \A l \in Links : r[l] = IF l[1] = t THEN q[l] \o h.on[l[2]] ELSE q[l]
  BY <1>1 DEF PassedOn, Shown
<1> HIDE DEF r, f
<1>5. \A p \in Near(t) : \A x : Fits(t, p, x) => x \in Lines
  BY DEF Fits, Lines
\* A queue is as it was, or has one line more.
<1>6. ASSUME NEW l \in Links
      PROVE  \/ r[l] = q[l] /\ ~(l[1] = t /\ h.on[l[2]] # <<>>)
             \/ /\ l[1] = t /\ h.on[l[2]] # <<>>
                /\ \E x \in Lines : /\ h.on[l[2]] = <<x>> /\ Fits(t, l[2], x)
                                    /\ r[l] = Append(q[l], x)
  <2>1. CASE l[1] # t
    BY <1>4, <2>1
  <2>2. CASE l[1] = t /\ h.on[l[2]] = <<>>
    <3>1. q[l] \o <<>> = q[l]
      BY <1>1, ConcatEmptySeq
    <3> QED BY <1>4, <2>2, <3>1
  <2>3. CASE l[1] = t /\ h.on[l[2]] # <<>>
    <3>1. PICK x : h.on[l[2]] = <<x>> /\ Fits(t, l[2], x)
      BY <1>2, <1>3, <2>3
    <3>2. x \in Lines
      BY <1>2, <1>5, <2>3, <3>1
    <3>3. q[l] \o <<x>> = Append(q[l], x)
      BY <1>1, <3>2, AppendIsConcat
    <3> QED BY <1>4, <2>3, <3>1, <3>2, <3>3
  <2> QED BY <2>1, <2>2, <2>3
<1>7. ASSUME NEW l \in Links
      PROVE  /\ r[l] \in Seq(Lines)
             /\ \A i \in 1..Len(r[l]) : Fits(l[1], l[2], r[l][i])
             /\ \A i, e : Token(r, l, i, e) <=>
                  \/ Token(q, l, i, e)
                  \/ l[1] = t /\ i = Len(q[l]) + 1 /\ e \in Owed(t, l[2], h.on[l[2]])
  <2>1. CASE r[l] = q[l] /\ ~(l[1] = t /\ h.on[l[2]] # <<>>)
    BY <1>1, <2>1 DEF Underway, Token, Owed
  <2>2. CASE l[1] = t /\ h.on[l[2]] # <<>> /\ \E x \in Lines :
               /\ h.on[l[2]] = <<x>> /\ Fits(t, l[2], x) /\ r[l] = Append(q[l], x)
    <3>1. PICK x \in Lines : h.on[l[2]] = <<x>> /\ Fits(t, l[2], x) /\ r[l] = Append(q[l], x)
      BY <2>2
    <3>2. /\ r[l] \in Seq(Lines) /\ Len(r[l]) = Len(q[l]) + 1
          /\ \A i \in 1..Len(q[l]) : r[l][i] = q[l][i]
          /\ r[l][Len(q[l]) + 1] = x
      BY <1>1, <3>1, AppendProperties
    <3>3. \A i \in 1..Len(r[l]) : i \in 1..Len(q[l]) \/ i = Len(q[l]) + 1
      BY <1>1, <3>2
    <3>4. \A i \in 1..Len(r[l]) : Fits(l[1], l[2], r[l][i])
      BY <2>2, <3>1, <3>2, <3>3 DEF Underway
    <3>5. Owed(t, l[2], h.on[l[2]]) = Owes(t, l[2], x)
      <4>1. <<x>>[1] = x
        OBVIOUS
      <4> QED BY <2>2, <3>1, <4>1 DEF Owed
    <3>6. ASSUME NEW i, NEW e
          PROVE  Token(r, l, i, e) <=>
                   \/ Token(q, l, i, e)
                   \/ i = Len(q[l]) + 1 /\ e \in Owes(t, l[2], x)
      <4>1. CASE i \in 1..Len(q[l])
        <5>1. i \in 1..Len(r[l]) /\ r[l][i] = q[l][i] /\ i # Len(q[l]) + 1
          BY <1>1, <3>2, <4>1
        <5> QED BY <4>1, <5>1 DEF Token
      <4>2. CASE i = Len(q[l]) + 1
        <5>1. i \in 1..Len(r[l]) /\ i \notin 1..Len(q[l]) /\ r[l][i] = x
          BY <1>1, <3>2, <4>2
        <5> QED BY <2>2, <4>2, <5>1 DEF Token
      <4>3. CASE i \notin 1..Len(r[l])
        <5>1. i \notin 1..Len(q[l]) /\ i # Len(q[l]) + 1
          BY <1>1, <3>2, <4>3
        <5> QED BY <4>3, <5>1 DEF Token
      <4> QED BY <3>3, <4>1, <4>2, <4>3
    <3> QED BY <2>2, <3>2, <3>4, <3>5, <3>6
  <2> QED BY <1>6, <2>1, <2>2
<1>8. Underway(r)
  <2>1. DOMAIN q = Links
    BY <1>1
  <2> QED BY <1>4, <1>7, <2>1 DEF Underway
<1> DEFINE New(l, i, e) == /\ l \in Links /\ l[1] = t /\ i = Len(q[l]) + 1
                           /\ e \in Owed(t, l[2], h.on[l[2]])
<1>9. \A l, i, e : Token(r, l, i, e) <=> Token(q, l, i, e) \/ New(l, i, e)
  BY <1>7 DEF Token
<1>10. /\ \A l, i, e : Token(q, l, i, e) => e \in A /\ e \notin D
       /\ \A l, s, i, j, e : Token(q, l, i, e) /\ Token(q, s, j, e) => l = s /\ i = j
       /\ D \subseteq A /\ A \subseteq Pairs
       /\ g = [e \in Pairs |-> IF e \in A /\ e \notin D /\ ~(\E l, i : Token(q, l, i, e))
                               THEN 1 ELSE 0]
  BY DEF Accounted
<1>11. \A l, i, e : New(l, i, e) => e \in D /\ e \notin h.here \X {v}
  BY <1>2, <1>3
<1>12. \A l, s, i, j, e : New(l, i, e) /\ New(s, j, e) => l = s /\ i = j
  BY <1>2, <1>3
<1>13. \A e : e \in D <=> e \in h.here \X {v} \/ \E l, i : New(l, i, e)
  <2> TAKE e
  <2>1. ASSUME NEW p \in Near(t), e \in Owed(t, p, h.on[p])
        PROVE  \E l, i : New(l, i, e)
    <3>1. <<t, p>> \in Links
      BY DEF Near, Links
    <3>2. New(<<t, p>>, Len(q[<<t, p>>]) + 1, e)
      BY <2>1, <3>1
    <3> HIDE DEF New
    <3> QED BY <3>2
  <2> HIDE DEF New
  <2> QED BY <1>3, <1>11, <2>1
<1> HIDE DEF New
<1>14. \A l, i, e : Token(r, l, i, e) => e \in A
  BY <1>9, <1>10, <1>11
<1>15. \A l, s, i, j, e : Token(r, l, i, e) /\ Token(r, s, j, e) => l = s /\ i = j
  BY <1>9, <1>10, <1>11, <1>12
<1>16. f = [e \in Pairs |-> IF e \in A /\ e \notin {} /\ ~(\E l, i : Token(r, l, i, e))
                            THEN 1 ELSE 0]
  <2>1. DOMAIN g = Pairs
    BY <1>10
  <2>2. \A e \in Pairs : e \in h.here \X {v} <=> e[1] \in h.here /\ e[2] = v
    BY DEF Pairs
  <2>3. ASSUME NEW e \in Pairs
        PROVE  (IF e[1] \in h.here /\ e[2] = v THEN g[e] + 1 ELSE g[e])
                 = IF e \in A /\ ~(\E l, i : Token(r, l, i, e)) THEN 1 ELSE 0
    <3>1. (\E l, i : Token(r, l, i, e)) <=>
            (\E l, i : Token(q, l, i, e)) \/ (e \in D /\ e \notin h.here \X {v})
      BY <1>9, <1>11, <1>13
    <3>2. g[e] = IF e \in A /\ e \notin D /\ ~(\E l, i : Token(q, l, i, e)) THEN 1 ELSE 0
      BY <1>10
    <3>3. (\E l, i : Token(q, l, i, e)) => e \notin D
      BY <1>10
    <3>4. CASE e \in h.here \X {v}
      <4>1. e \in D /\ e \in A
        BY <1>10, <1>13, <3>4
      <4>2. ~(\E l, i : Token(q, l, i, e)) /\ ~(\E l, i : Token(r, l, i, e))
        BY <3>1, <3>3, <3>4, <4>1
      <4>3. g[e] = 0
        BY <3>2, <4>1
      <4> QED BY <2>2, <3>4, <4>1, <4>2, <4>3
    <3>5. CASE e \notin h.here \X {v}
      BY <2>2, <3>1, <3>2, <3>5
    <3> QED BY <3>4, <3>5
  <2> QED BY <1>4, <2>1, <2>3
<1>17. Accounted(r, f, {}, A)
  <2>1. {} \subseteq A /\ A \subseteq Pairs /\ \A e : e \notin {}
    BY <1>10
  <2> QED BY <1>14, <1>15, <1>16, <2>1 DEF Accounted
<1> QED BY <1>8, <1>17 DEF r, f

-----------------------------------------------------------------------------
(* The steps.                                                              *)

LEMMA SilenceIs == Silence \notin Messages /\ Silence.k = "silence"
<1>1. Silence.k = "silence"
  BY DEF Silence
<1> QED BY <1>1, MessageIs

\* All that is sent is meant, and all of it but for +#channel.
LEMMA SentIs ==
  ASSUME world \in World, NEW m \in Messages
  PROVE  /\ Sent(m) \subseteq Meant(m) /\ Sent(m) \subseteq Pairs
         /\ m.k # "voiced" => Sent(m) = Meant(m)
  BY MeantIs DEF Sent

LEMMA TalkInitInv == TalkInit => TalkInv
<1> SUFFICES ASSUME TalkInit PROVE TalkInv
  OBVIOUS
<1>1. /\ world \in World /\ said = Silence /\ talk = [l \in Links |-> <<>>]
      /\ got = [e \in Pairs |-> 0]
  BY DEF TalkInit, Links, Pairs
<1>2. Underway(talk) /\ \A l, i, e : ~Token(talk, l, i, e)
  <2>1. \A l \in Links : talk[l] = <<>> /\ talk[l] \in Seq(Lines) /\ 1..Len(talk[l]) = {}
    BY <1>1
  <2>2. talk \in [Links -> Seq(Lines)]
    BY <1>1, <2>1
  <2> QED BY <2>1, <2>2 DEF Underway, Token
<1>3. Accounted(talk, got, {}, {})
  BY <1>1, <1>2 DEF Accounted
<1> QED BY <1>1, <1>2, <1>3 DEF TalkInv

\* What there is does not change.
LEMMA SameWorld ==
  ASSUME world' = world
  PROVE  /\ \A s, t, m : Fits(s, t, m)' <=> Fits(s, t, m)
         /\ \A s, t, m : Owes(s, t, m)' = Owes(s, t, m)
         /\ \A m : Sent(m)' = Sent(m)
<1>1. \A m : /\ Allowed(m)' <=> Allowed(m)
             /\ Speaks(m)' <=> Speaks(m)
             /\ Rules(m)' <=> Rules(m)
             /\ OnTopic(m)' <=> OnTopic(m)
  BY DEF Allowed, Speaks, Rules, OnTopic
<1>2. \A t, mode : Opers(t, mode)' = Opers(t, mode)
  BY DEF Opers
<1>3. \A m : Audience(m)' = Audience(m)
  BY <1>1, <1>2 DEF Audience
<1>4. \A m : Meant(m)' = Meant(m)
  BY <1>3 DEF Meant
<1>5. \A s, t, m : Owes(s, t, m)' = Owes(s, t, m)
  BY <1>4 DEF Owes
<1>6. \A m : Sent(m)' = Sent(m)
  BY <1>4 DEF Sent
<1>7. \A m : Permitted(m)' <=> Permitted(m)
  BY <1>1 DEF Permitted
<1>8. \A s, t, m : Fits(s, t, m)' <=> Fits(s, t, m)
  BY <1>7 DEF Fits
<1> QED BY <1>5, <1>6, <1>8

LEMMA StaysSo ==
  ASSUME world' = world, Underway(talk')
  PROVE  /\ Underway(talk)'
         /\ \A m : Accounted(talk', got', {}, Sent(m)) => Accounted(talk, got, {}, Sent(m))'
         /\ Accounted(talk', got', {}, {}) => Accounted(talk, got, {}, {})'
<1>1. Underway(talk)'
  BY SameWorld DEF Underway
<1>2. \A l, i, e : Token(talk, l, i, e)' <=> Token(talk', l, i, e)
  BY SameWorld DEF Token
<1>3. \A m : Sent(m)' = Sent(m)
  BY SameWorld
<1> QED BY <1>1, <1>2, <1>3 DEF Accounted

\* Someone says something.
LEMMA SayKeeps ==
  ASSUME TalkInv, Say
  PROVE  TalkInv'
<1>0. PICK m \in Messages : said' = m /\ Done(At(m.by), At(m.by), m, talk)
  BY DEF Say
<1> DEFINE t == At(m.by)
           h == Handle(t, t, m)
           v == Voice(t, m)
<1>1. /\ world \in World /\ said = Silence /\ said' = m /\ world' = world
      /\ Underway(talk) /\ talk = [l \in Links |-> <<>>] /\ Accounted(talk, got, {}, {})
      /\ Done(t, t, m, talk)
  BY <1>0 DEF TalkInv, Say
<1>2. m # Silence /\ t \in Server
  BY SilenceIs, MessageIs
<1>3. \A l, i, e : ~Token(talk, l, i, e)
  BY <1>1 DEF Token
<1>4. Accounted(talk, got, Sent(m), Sent(m))
  <2>1. got = [e \in Pairs |-> IF e \in {} /\ e \notin {} /\ ~(\E l, i : Token(talk, l, i, e))
                               THEN 1 ELSE 0]
    BY <1>1 DEF Accounted
  <2>2. got = [e \in Pairs |-> IF e \in Sent(m) /\ e \notin Sent(m)
                                  /\ ~(\E l, i : Token(talk, l, i, e)) THEN 1 ELSE 0]
    BY <2>1
  <2> QED BY <1>1, <1>3, <2>2, SentIs DEF Accounted
<1>5. Conserves(t, h, v, Sent(m))
  <2>1. Comes(t, t, m)
    BY DEF Comes
  <2>2. CASE m.k = "voiced"
    BY <1>1, <2>2, Voiced DEF Voice
  <2>3. CASE m.k # "voiced"
    <3>1. Sent(m) = Debt(t, t, m)
      BY <1>1, <1>2, <2>3, SentIs, MeantIs, Onward DEF Debt
    <3> QED BY <1>1, <1>2, <2>1, <2>3, <3>1, Handled
  <2> QED BY <2>2, <2>3
<1>6. talk' = PassedOn(talk, t, h) /\ got' = Shown(got, h, v)
  BY <1>1 DEF Done, PassedOn, Shown
<1> HIDE DEF t, h, v
<1>7. Underway(talk') /\ Accounted(talk', got', {}, Sent(m))
  BY <1>1, <1>2, <1>4, <1>5, <1>6, Delivered
<1>8. Underway(talk)' /\ Accounted(talk, got, {}, Sent(m))'
  BY <1>1, <1>7, StaysSo
<1> QED BY <1>1, <1>2, <1>8 DEF TalkInv

\* A server reads a line.
LEMMA HearKeeps ==
  ASSUME TalkInv, NEW s \in Server, NEW t \in Server, Hear(s, t)
  PROVE  TalkInv'
<1> DEFINE k == <<s, t>>
           m == Head(talk[k])
           lines == [talk EXCEPT ![k] = Tail(@)]
           h == Handle(t, s, m)
           v == Voice(t, m)
           D == Owes(s, t, m)
<1>1. /\ world \in World /\ world' = world /\ said' = said
      /\ Underway(talk) /\ k \in Links /\ talk[k] # <<>> /\ k[1] = s /\ k[2] = t
      /\ Done(t, s, m, lines)
  BY DEF TalkInv, Hear, Links
<1>2. said \in Messages /\ said # Silence /\ Accounted(talk, got, {}, Sent(said))
  BY <1>1, SilenceIs DEF TalkInv
<1>3. PICK w : w = said
  OBVIOUS
<1>4. /\ Fits(s, t, m) /\ m \in Lines
      /\ Underway(lines)
      /\ Accounted(lines, got, D, Sent(said))
  BY <1>1, <1>2, ReadIs
<1>5. s \in Near(t)
  <2>1. {s, t} \in Edge
    BY DEF Hear
  <2>2. {s, t} = {t, s}
    OBVIOUS
  <2> QED BY <2>1, <2>2 DEF Near
<1>6. Conserves(t, h, v, D)
  <2> HIDE DEF m
  <2>1. CASE m \in Numerics
    <3>1. v = m.by
      BY <2>1 DEF Voice, Numerics
    <3>2. Beyond(s, t, Home[m.to])
      BY <1>4, <2>1, MessageIs DEF Fits
    <3> HIDE DEF v
    <3>3. Conserves(t, h, m.by, D)
      BY <1>1, <1>5, <2>1, <3>2, NumericGoes
    <3> QED BY <3>1, <3>3
  <2>2. CASE m \in Messages /\ m \notin Numerics
    <3>1. Comes(t, s, m) /\ m.k # "voiced" /\ m.k # "numeric"
      BY <1>4, <1>5, <2>2, MessageIs DEF Comes, Fits
    <3>2. D = Debt(t, s, m)
      BY <1>1, <1>5, <2>2, <3>1, MeantIs, Sides DEF Owes, Debt
    <3> QED BY <1>1, <3>1, <3>2, Handled
  <2> QED BY <1>4, <2>1, <2>2 DEF Lines
<1>7. talk' = PassedOn(lines, t, h) /\ got' = Shown(got, h, v)
  BY <1>1 DEF Done, PassedOn, Shown
<1> HIDE DEF m, lines, h, v, D
<1>8. Underway(talk') /\ Accounted(talk', got', {}, Sent(said))
  BY <1>1, <1>4, <1>6, <1>7, Delivered
<1>9. Underway(talk)' /\ Accounted(talk, got, {}, Sent(w))'
  BY <1>1, <1>3, <1>8, StaysSo
<1> QED BY <1>1, <1>2, <1>3, <1>9 DEF TalkInv

\* A copy for each pair that is meant, and when no line is under way, of all.
LEMMA TalkInvOnce == TalkInv => EveryoneOnce
<1> SUFFICES ASSUME TalkInv PROVE EveryoneOnce
  OBVIOUS
<1> DEFINE meant == Meant(said)
<1>1. CASE said = Silence
  <2>1. got = [e \in Pairs |-> 0] /\ meant = {}
    BY <1>1 DEF TalkInv, Accounted, Meant, Audience, Silence
  <2> QED BY <2>1 DEF EveryoneOnce
<1>2. CASE said # Silence
  <2>1. /\ world \in World /\ said \in Messages /\ Underway(talk)
        /\ Accounted(talk, got, {}, Sent(said))
    BY <1>2 DEF TalkInv
  <2>2. Sent(said) \subseteq meant /\ meant \subseteq Pairs
        /\ (said.k # "voiced" => Sent(said) = meant)
    BY <2>1, SentIs, MeantIs
  <2>3. got = [e \in Pairs |-> IF e \in Sent(said) /\ e \notin {}
                                  /\ ~(\E l, i : Token(talk, l, i, e)) THEN 1 ELSE 0]
    BY <2>1 DEF Accounted
  <2>4. \A e \in DOMAIN got : got[e] <= (IF e \in meant THEN 1 ELSE 0)
    BY <2>2, <2>3
  <2>5. Heard => \A l, i, e : ~Token(talk, l, i, e)
    <3>1. Heard => \A l \in Links : talk[l] = <<>> /\ 1..Len(talk[l]) = {}
      BY <2>1 DEF Heard, Underway
    <3> QED BY <3>1 DEF Token
  <2>6. Heard /\ said.k # "voiced" => \A e \in meant : got[e] = 1
    BY <2>2, <2>3, <2>5
  <2> QED BY <2>4, <2>6 DEF EveryoneOnce
<1> QED BY <1>1, <1>2

\* Nothing happens.
LEMMA TalkStops == TalkInv /\ UNCHANGED talkVars => TalkInv'
<1> SUFFICES ASSUME TalkInv, UNCHANGED talkVars PROVE TalkInv'
  OBVIOUS
<1>1. /\ world' = world /\ said' = said /\ talk' = talk /\ got' = got
  BY DEF talkVars
<1>2. PICK w : w = said
  OBVIOUS
<1>3. CASE said = Silence
  <2>1. Underway(talk') /\ Accounted(talk', got', {}, {})
    BY <1>1, <1>3 DEF TalkInv
  <2>2. talk' = [l \in Links |-> <<>>]
    BY <1>1, <1>3 DEF TalkInv
  <2>3. Underway(talk)' /\ Accounted(talk, got, {}, {})'
    BY <1>1, <2>1, StaysSo
  <2> QED BY <1>1, <1>3, <2>2, <2>3 DEF TalkInv
<1>4. CASE said # Silence
  <2>1. Underway(talk') /\ Accounted(talk', got', {}, Sent(w))
    BY <1>1, <1>2, <1>4 DEF TalkInv
  <2>2. Underway(talk)' /\ Accounted(talk, got, {}, Sent(w))'
    BY <1>1, <2>1, StaysSo
  <2> QED BY <1>1, <1>2, <1>4, <2>2 DEF TalkInv
<1> QED BY <1>3, <1>4

\* Everyone a message is meant for is shown it once and nobody else is, over every
\* tree of servers: m_message.c, send.c, m_wallops.c, m_operwall.c, m_locops.c,
\* m_trace.c, hunt_server, do_numeric and the TOPIC of channel.c.
THEOREM SaidOnce == TalkSpec => []EveryoneOnce
<1>1. TalkInv /\ [TalkNext]_talkVars => TalkInv'
  BY SayKeeps, HearKeeps, TalkStops DEF TalkNext
<1> QED BY <1>1, TalkInitInv, TalkInvOnce, PTL DEF TalkSpec
=============================================================================
