------------------------------- MODULE Queries -------------------------------
(***************************************************************************)
(* What a client gets to know of the others by asking: WHO, NAMES, WHOIS,   *)
(* LIST, TRACE, ISON and USERHOST, in every arrangement of persons on       *)
(* channels.  From src/m_who.c, src/m_whois.c, src/m_list.c, src/m_trace.c, *)
(* src/m_ltrace.c, src/m_ison.c, src/m_userhost.c, m_names of src/channel.c. *)
(*                                                                         *)
(* A reply is a set of pairs: a person, and the channel he is shown on or   *)
(* NoChannel.                                                               *)
(***************************************************************************)
EXTENDS Integers, FiniteSets

CONSTANTS
  Person, Channel, NoChannel, NoOne,
  LocalPerson,     \* the persons of this server
  Scene            \* bound: what there is, a set of records

ASSUME QueriesAssumption ==
  /\ NoChannel \notin Channel /\ NoOne \notin Person
  /\ Scene \subseteq [mem : [Channel -> SUBSET Person], private : SUBSET Channel,
                     secret : SUBSET Channel, invis : SUBSET Person, oper : SUBSET Person]

VARIABLES
  scene,           \* [mem: [Channel -> SUBSET Person], private, secret: channels,
                   \*  invis, oper: persons]
  answer           \* who asked what, and the pairs shown

queryVars == <<scene, answer>>

-----------------------------------------------------------------------------
IsMember(v, c) == v \in scene.mem[c]
SecretChannel(c) == c \in scene.secret
HiddenChannel(c) == c \in scene.private
PubChannel(c) == c \notin scene.private \cup scene.secret
ShowChannel(v, c) == PubChannel(c) \/ IsMember(v, c)
On(p) == {c \in Channel : IsMember(p, c)}

\* WHO with the name of a channel.
m_who_channel(v, c) ==
  IF SecretChannel(c) /\ ~IsMember(v, c) THEN {}
  ELSE {<<p, c>> : p \in {q \in scene.mem[c] : q \notin scene.invis \/ IsMember(v, c)}}

\* Faulty: a private channel is named too, only a secret one is not.
Faulty_WhoOn(v, p) ==
  {c \in On(p) : IsMember(v, c) \/ (p \notin scene.invis /\ ~SecretChannel(c))}

\* The channels WHO may name a person on; it takes the first it meets.
WhoOn(v, p) == {c \in On(p) : IsMember(v, c) \/ (p \notin scene.invis /\ PubChannel(c))}
do_who(v, p) == IF WhoOn(v, p) = {} THEN {<<p, NoChannel>>} ELSE {<<p, c>> : c \in WhoOn(v, p)}

\* WHO with a nick, and with a mask that everyone matches.
m_who_nick(v, p) == do_who(v, p)
m_who_mask(v) ==
  UNION {do_who(v, p) : p \in {q \in Person :
    \/ WhoOn(v, q) # {}
    \/ /\ q \notin scene.invis
       /\ On(q) = {} \/ \E c \in On(q) : HiddenChannel(c) /\ ~SecretChannel(c)}}

\* NAMES of one channel; of all, and then who is on none of those shown.
m_names_channel(v, c) ==
  IF ShowChannel(v, c)
  THEN {<<p, c>> : p \in {q \in scene.mem[c] : q \notin scene.invis \/ IsMember(v, c)}}
  ELSE {}
m_names_all(v) ==
  (UNION {m_names_channel(v, c) : c \in Channel})
    \cup {<<p, NoChannel>> : p \in {q \in Person \ scene.invis :
            \A c \in On(q) : ~ShowChannel(v, c) /\ ~SecretChannel(c)}}

m_whois(v, p) == {<<p, NoChannel>>} \cup {<<p, c>> : c \in {d \in On(p) : ShowChannel(v, d)}}

\* TRACE of the whole server: operators only, and those of other servers do
\* not see who is invisible.
m_trace(v) ==
  IF v \notin scene.oper THEN {}
  ELSE {<<p, NoChannel>> : p \in {q \in LocalPerson :
          q \in scene.invis => v \in LocalPerson \/ q \in scene.oper \/ q = v}}

\* With a nick anyone may ask; LTRACE leaves out who is no operator.
m_trace_nick(v, p) == {<<p, NoChannel>>}
m_ltrace(v) == {x \in m_trace(v) : x[1] \in scene.oper}
m_ltrace_nick(v, p) == {x \in m_trace_nick(v, p) : p \in scene.oper}

\* ISON and USERHOST: whether someone has the nick, and from where.
m_ison(v, p) == {<<p, NoChannel>>}
m_userhost(v, p) == {<<p, NoChannel>>}

\* LIST: the channels, and those of them that are named.
m_list(v) == {c \in Channel : ~SecretChannel(c) \/ IsMember(v, c)}
m_list_named(v) == {c \in m_list(v) : ShowChannel(v, c)}

Told(v, q, pairs) == [who |-> v, q |-> q, pairs |-> pairs]
Answers(v) ==
  {Told(v, "who channel", m_who_channel(v, c)) : c \in Channel}
    \cup {Told(v, "who nick", m_who_nick(v, p)) : p \in Person}
    \cup {Told(v, "names", m_names_channel(v, c)) : c \in Channel}
    \cup {Told(v, "whois", m_whois(v, p)) : p \in Person}
    \cup {Told(v, "nick", pairs) : pairs \in
            UNION {{m_trace_nick(v, p), m_ltrace_nick(v, p), m_ison(v, p), m_userhost(v, p)} :
                     p \in Person}}
    \cup {Told(v, "who", m_who_mask(v)), Told(v, "names all", m_names_all(v)),
          Told(v, "trace", m_trace(v)), Told(v, "trace", m_ltrace(v)),
          Told(v, "list", {<<NoOne, c>> : c \in m_list_named(v)})}

-----------------------------------------------------------------------------
QueryInit ==
  /\ scene \in Scene
  /\ answer = Told(NoOne, "none", {})

\* One question.
Ask(v) == answer.q = "none" /\ answer' \in Answers(v) /\ UNCHANGED scene

QueryNext == \E p \in Person : Ask(p)
QuerySpec == QueryInit /\ [][QueryNext]_queryVars

-----------------------------------------------------------------------------
\* No answer names a secret channel, or someone on it, to a client outside; nor
\* a private one, but for a WHO that gives its name; and someone invisible is
\* shown only to those he shares a channel with, to who gives his nick, and to
\* the operators of his server.
Sparing ==
  \A x \in answer.pairs :
    /\ x[2] # NoChannel => \/ ShowChannel(answer.who, x[2])
                           \/ answer.q = "who channel" /\ ~SecretChannel(x[2])
    /\ x[1] \in scene.invis \ {answer.who} =>
         \/ \E c \in Channel : IsMember(answer.who, c) /\ IsMember(x[1], c)
         \/ answer.q \in {"who nick", "whois", "nick"}
         \/ answer.q = "trace" /\ (answer.who \in LocalPerson \/ x[1] \in scene.oper)

Ways(v, p) == {c \in Channel : ShowChannel(v, c) /\ IsMember(p, c)}

\* Nothing more is hidden: who is not invisible, and on no secret channel alone,
\* is in the answer to a WHO or NAMES of all, on each channel that may be named.
NothingLost ==
  \A p \in Person \ scene.invis :
    /\ answer.q = "names all" =>
         IF Ways(answer.who, p) # {} THEN \A c \in Ways(answer.who, p) : <<p, c>> \in answer.pairs
         ELSE (<<p, NoChannel>> \in answer.pairs) = (On(p) \cap scene.secret = {})
    /\ answer.q = "who" =>
         ((\E c \in Channel \cup {NoChannel} : <<p, c>> \in answer.pairs)
            = (On(p) = {} \/ ~(On(p) \subseteq scene.secret) \/ Ways(answer.who, p) # {}))

\* An answer shows what may be seen, and of WHO and NAMES of all, all of it.
Discreet == Sparing /\ NothingLost
=============================================================================
