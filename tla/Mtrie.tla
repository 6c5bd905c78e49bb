-------------------------------- MODULE Mtrie --------------------------------
(***************************************************************************)
(* I-lines and K-lines by host name: the trie of mtrie_conf.c, one level    *)
(* for each piece of the name from the top domain down, with the lists of   *)
(* lines that do not sort into it.  The configuration gives the I-lines     *)
(* first, K-lines come after them and while the server runs, and each       *)
(* client that registers is looked up.                                      *)
(***************************************************************************)
EXTENDS Integers, Sequences, SequencesExt, FiniteSets, FiniteSetsExt, Functions

CONSTANTS
  Hosts,       \* names of clients: sequences of pieces, the top domain first
  Stacks,      \* patterns that sort: such sequences, the last piece may be wild
  Oddities,    \* patterns that do not: <<"?", the hosts they match>>
  Names,       \* user names of clients
  Wild(_),     \* whether a piece starts with '*'
  Fits(_, _),  \* whether a piece of a pattern matches a piece of a name
  Bucket(_),   \* the first character of a piece, modulo 32
  MaxILines, MaxLines  \* bounds: lines given

VARIABLES
  level,       \* level[prefix]: the pieces of a level, in the order they came
  odd,         \* unsortable_list_ilines and _klines, the newest first
  star,        \* wild_card_ilines
  lines        \* the lines of the configuration, in the order they were given

mtVars == <<level, odd, star, lines>>

Everyone == "*"
NoLine == [kind |-> "none"]
Named == Names \cup {Everyone}
UserFits(line, user) == line.user \in {Everyone, user}
Levels == UNION {{SubSeq(p, 1, n) : n \in 0 .. Len(p)} : p \in Stacks}
Star == <<"*">>
StarBucket == Bucket("*")

\* A pattern with a wild last piece also covers longer names.
HostFits(pattern, host) ==
  LET n == Len(pattern)
  IN IF Wild(pattern[n])
     THEN Len(host) >= n /\ SubSeq(host, 1, n - 1) = SubSeq(pattern, 1, n - 1)
          /\ Fits(pattern[n], host[n])
     ELSE host = pattern
Covers(line, host, user) ==
  UserFits(line, user) /\
  (IF line.form = "odd" THEN host \in line.host[2] ELSE line.host = Star \/ HostFits(line.host, host))

----------------------------------------------------------------------------
(* Lines into the trie.  A piece has the flags of the lines below it, a line *)
(* for one user and a line for *@.                                          *)

Piece(label, flags, conf) == [label |-> label, flags |-> flags, conf |-> conf, wild |-> NoLine]

find_or_add_host_piece(ps, label, kind) ==
  LET at == {k \in DOMAIN ps : ps[k].label = label}
  IN IF at = {} THEN Append(ps, Piece(label, {kind}, NoLine))
     ELSE [ps EXCEPT ![Min(at)].flags = @ \cup {kind}]

\* The pieces of a bucket form a chain; the walk starts at the piece of the host
\* and takes whatever piece has room.
Chain(ps, k) == {j \in DOMAIN ps : j >= k /\ Bucket(ps[j].label) = Bucket(ps[k].label)}

\* Faulty: a K-line gives way to an I-line of the same user and host.
Faulty_Merged(old, new) == IF old.kind = "I" THEN old ELSE new
\* Of two lines for the same user and host an exempt line stays, a K-line
\* replaces an I-line and otherwise the older one stays.
Merged(old, new) == IF old.kind = "I" /\ ~old.exempt /\ new.kind = "K" THEN new ELSE old

\* An exempt line that is met takes the K-line flag off the piece.
find_or_add_user_piece(ps, label, line) ==
  LET k == Min({j \in DOMAIN ps : ps[j].label = label})
      stop == {j \in Chain(ps, k) :
                 ps[j].conf = NoLine \/ (Fits(ps[j].label, label) /\ ps[j].conf.user = line.user)}
      Unflagged(old) == IF old # NoLine /\ old.exempt
                        THEN [ps EXCEPT ![k].flags = @ \ {"K"}] ELSE ps
  IN IF line.user = Everyone /\ ~Wild(label)
     THEN [Unflagged(ps[k].wild) EXCEPT ![k].wild =
             IF @ = NoLine \/ (line.kind = "K" /\ ~@.exempt) THEN line ELSE @]
     ELSE IF stop = {} THEN Append(ps, Piece(label, {}, line))
     ELSE [Unflagged(ps[Min(stop)].conf) EXCEPT ![Min(stop)].conf =
             IF @ = NoLine THEN line ELSE Merged(@, line)]

create_sub_mtrie(line) ==
  LET n == Len(line.host)
      With1(p) == find_or_add_host_piece(level[p], line.host[Len(p) + 1], line.kind)
  IN level' = [p \in DOMAIN level |->
       IF Len(p) >= n \/ p # SubSeq(line.host, 1, Len(p)) THEN level[p]
       ELSE IF Len(p) < n - 1 THEN With1(p)
       ELSE find_or_add_user_piece(With1(p), line.host[n], line)]

\* A '*' alone sorts only for I-lines.
add_mtrie_conf_entry(line) ==
  IF line.form = "odd" \/ (line.form = "star" /\ line.kind = "K")
  THEN odd' = <<line>> \o odd /\ UNCHANGED <<level, star>>
  ELSE IF line.form = "star" THEN star' = <<line>> \o star /\ UNCHANGED <<level, odd>>
  ELSE create_sub_mtrie(line) /\ UNCHANGED <<odd, star>>

----------------------------------------------------------------------------
(* Looking a client up.                                                     *)

FirstOf(seq, at) == IF at = {} THEN NoLine ELSE seq[Min(at)]
LastOf(ps, at, field) == IF at = {} THEN NoLine ELSE ps[Max(at)][field]

\* The line for *@ wins over the line of the user, whatever its kind.
find_user_piece(ps, k, kind, label, user) ==
  LET at == {j \in Chain(ps, k) : /\ ps[j].conf.kind = kind
                                  /\ Fits(ps[j].label, label) /\ UserFits(ps[j].conf, user)}
  IN IF ps[k].wild # NoLine THEN ps[k].wild ELSE LastOf(ps, at, "conf")

\* Only what follows the last piece that fits counts.
find_wild_host_piece(ps, kind, label, user) ==
  LET chain == {j \in DOMAIN ps : Bucket(ps[j].label) = StarBucket /\ Fits(ps[j].label, label)}
      from == {j \in chain : kind \in ps[j].flags}
      at == {j \in chain : j >= Max(from)}
      mine == {j \in at : ps[j].conf.kind = kind /\ UserFits(ps[j].conf, user)}
      all == {j \in at : ps[j].wild.kind = kind}
  IN IF from = {} THEN NoLine
     ELSE IF all # {} THEN LastOf(ps, all, "wild")
     ELSE LastOf(ps, mine, "conf")

find_host_piece(ps, kind, label) ==
  {j \in DOMAIN ps : ps[j].label = label /\ kind \in ps[j].flags}

\* A line found before the end of the name is compared with the whole of it.
WholeName(line, host) == Covers(line, host, Everyone)

\* last: last_found_iline_aconf, which the search for a K-line inherits
RECURSIVE find_sub_mtrie(_, _, _, _, _)
find_sub_mtrie(depth, host, user, kind, last) ==
  LET prefix == SubSeq(host, 1, depth - 1)
      ps == IF prefix \in DOMAIN level THEN level[prefix] ELSE <<>>
      wild == find_wild_host_piece(ps, kind, host[depth], user)
      seen == IF kind = "I" /\ wild # NoLine THEN wild ELSE last
      at == find_host_piece(ps, kind, host[depth])
      mine == find_user_piece(ps, Min(at), kind, host[depth], user)
      below == SubSeq(host, 1, depth)
      Result(found) == [line |-> found, last |-> seen]
  IN IF kind = "K" /\ wild.kind = "K" THEN Result(wild)
     ELSE IF at = {} THEN Result(IF kind = "K" THEN NoLine ELSE seen)
     ELSE IF depth = Len(host) THEN Result(IF mine # NoLine THEN mine ELSE seen)
     ELSE IF below \in DOMAIN level /\ level[below] # <<>>
     THEN find_sub_mtrie(depth + 1, host, user, kind, seen)
     ELSE Result(IF mine # NoLine /\ WholeName(mine, host) THEN mine
                 ELSE IF wild # NoLine THEN wild ELSE seen)

look_in_unsortable(kind, host, user) ==
  FirstOf(odd, {k \in DOMAIN odd : odd[k].kind = kind /\ Covers(odd[k], host, user)})

\* The I-line: from the trie, but one that does not sort goes before it, and
\* the lines for every host come last.  Without one no K-line is looked for,
\* and an exempt one ends the search.
find_matching_mtrie_conf(host, user) ==
  LET early == look_in_unsortable("I", host, user)
      trie == find_sub_mtrie(1, host, user, "I", NoLine)
      iline == IF early # NoLine THEN early
               ELSE IF trie.line # NoLine THEN trie.line
               ELSE FirstOf(star, {k \in DOMAIN star : UserFits(star[k], user)})
      found == find_sub_mtrie(1, host, user, "K", trie.last).line
      kline == IF found # NoLine THEN found ELSE look_in_unsortable("K", host, user)
  IN IF early # NoLine /\ early.exempt THEN early
     ELSE IF trie.line # NoLine /\ trie.line.exempt THEN trie.line
     ELSE IF iline = NoLine \/ iline.exempt \/ kline = NoLine THEN iline ELSE kline

----------------------------------------------------------------------------

MtInit == level = [p \in Levels |-> <<>>] /\ odd = <<>> /\ star = <<>> /\ lines = <<>>

Give(line) ==
  /\ ~Contains(lines, line)
  /\ add_mtrie_conf_entry(line)
  /\ lines' = Append(lines, line)

Patterns == [form : {"sorts"}, host : Stacks] \cup [form : {"odd"}, host : Oddities]
              \cup [form : {"star"}, host : {Star}]
Line(kind, p, user, exempt) ==
  [kind |-> kind, form |-> p.form, host |-> p.host, user |-> user, exempt |-> exempt]

GiveI ==
  /\ Len(lines) < MaxILines /\ \A k \in DOMAIN lines : lines[k].kind = "I"
  /\ \E p \in Patterns, u \in Named, e \in BOOLEAN : Give(Line("I", p, u, e))

GiveK ==
  /\ Len(lines) < MaxLines
  /\ \E p \in Patterns, u \in Named : Give(Line("K", p, u, FALSE))

clear_mtrie_conf_links ==
  /\ lines # <<>> /\ lines' = <<>>
  /\ level' = [p \in Levels |-> <<>>] /\ odd' = <<>> /\ star' = <<>>

MtNext == GiveI \/ GiveK \/ clear_mtrie_conf_links
MtSpec == MtInit /\ [][MtNext]_mtVars

----------------------------------------------------------------------------
(* Properties.                                                              *)

Of(kind, host, user) == {l \in Range(lines) : l.kind = kind /\ Covers(l, host, user)}

\* However the lines are merged and moved between pieces, the line that decides
\* about a client is one that is in the configuration and fits the client, and
\* one that only I-lines cover is not turned away for want of one.
DecidedByOwnLine == \A host \in Hosts, user \in Names :
  LET found == find_matching_mtrie_conf(host, user)
  IN IF found = NoLine THEN Of("I", host, user) = {} \/ Of("K", host, user) # {}
     ELSE found \in Of(found.kind, host, user)

\* A K-line for a whole domain refuses everyone it names below that domain,
\* whatever other lines share his way down the trie, unless he is exempt.
DomainKLinesHold == \A host \in Hosts, user \in Names :
  LET found == find_matching_mtrie_conf(host, user)
  IN /\ \E l \in Of("K", host, user) : l.form = "sorts" /\ Wild(Last(l.host))
     /\ \A l \in Of("I", host, user) : ~l.exempt
     => found = NoLine \/ found.kind = "K"
=============================================================================
