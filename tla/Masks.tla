-------------------------------- MODULE Masks --------------------------------
(***************************************************************************)
(* Masks of names and hosts: match and collapse of match.c, with the places *)
(* in both strings and the place to come back to that match keeps, and the  *)
(* mask that m_kline makes from a host (cluster).  A string is a sequence   *)
(* of characters: "a" a letter, "1" a digit, ".", "*" and "?".              *)
(***************************************************************************)
EXTENDS Integers, Sequences, SequencesExt, FiniteSets, FiniteSetsExt

CONSTANTS Masks0, Strings,  \* masks and names to compare
          MaskHosts,        \* hosts to cluster, none ending in a dot
          MATCH_MAX_CALLS

VARIABLES mask, name,       \* the arguments of match
          source,           \* what the mask was made from: [by, str]
          at,               \* m, n, ma, na, wild and calls of match
          result            \* "running", "yes" or "no"

mkVars == <<mask, name, source, at, result>>

\* The terminator is "".
Char(str, k) == IF k <= Len(str) THEN str[k] ELSE ""
SkipStars(str, k) == Min({j \in k .. Len(str) + 1 : Char(str, j) # "*"})
SkipBack(str, k) == Max({1} \cup {j \in 1 .. k : Char(str, j) # "?"})

----------------------------------------------------------------------------
(* Making masks.                                                            *)

collapse(p) ==
  FoldLeft(LAMBDA out, c : IF c = "*" /\ out # <<>> /\ out[Len(out)] = "*"
                           THEN out ELSE Append(out, c), <<>>, p)

\* The character after a dot is not looked at.
Scan(h) ==
  FoldLeftDomain(LAMBDA s, k :
    IF ~s.ip \/ k < s.next THEN s
    ELSE IF h[k] = "." THEN [s EXCEPT !.dots = Append(@, k), !.next = k + 2]
    ELSE [s EXCEPT !.ip = h[k] = "1"],
    [ip |-> TRUE, dots |-> <<>>, next |-> 1], h)

\* A host loses its last number, or all but its last two labels, or three when
\* the last is short.
cluster(h) ==
  LET s == Scan(h)
      dots == {k \in DOMAIN h : h[k] = "."}
      tld == Max(dots)
      labels == IF Len(h) - tld >= 3 THEN 1 ELSE 2
      cut == {k \in dots : k > 1 /\ k < tld /\ Cardinality({d \in dots : k <= d /\ d < tld}) = labels}
  IN IF s.ip /\ Len(s.dots) = 3 THEN SubSeq(h, 1, s.dots[3]) \o <<"*">>
     ELSE IF dots = {} THEN h
     ELSE <<"*">> \o (IF cut = {} THEN h ELSE SubSeq(h, Max(cut), Len(h)))

----------------------------------------------------------------------------
(* match: one turn of its loop a step.                                      *)

Start(p, str, by, from) ==
  /\ mask = p /\ name = str /\ source = [by |-> by, str |-> from]
  /\ at = [m |-> 1, n |-> 1, ma |-> 1, na |-> 1, wild |-> FALSE, calls |-> 0]
  /\ result = "running"

MatchInit ==
  \/ \E p \in Masks0, str \in Strings : Start(collapse(p), str, "collapse", p)
  \/ \E h \in MaskHosts : Start(cluster(h), h, "cluster", h)

\* "if (*m == '*')": skip the stars and remember the place.
AtStar(s) ==
  IF Char(mask, s.m) # "*" THEN s
  ELSE LET k == SkipStars(mask, s.m)
       IN [s EXCEPT !.m = k, !.ma = k, !.na = s.n, !.wild = TRUE]

\* Faulty: it goes on from where the comparison failed.
Faulty_Back(s) == [s EXCEPT !.m = s.ma, !.n = s.n + 1]
Back(s) == [s EXCEPT !.m = s.ma, !.na = @ + 1, !.n = s.na + 1]

\* The comparison at the end of the turn.
Compare(s) ==
  IF Char(mask, s.m) # Char(name, s.n) /\ Char(mask, s.m) # "?"
  THEN IF ~s.wild THEN result' = "no" /\ at' = s
       ELSE at' = Back(s) /\ UNCHANGED result
  ELSE /\ at' = [s EXCEPT !.m = IF Char(mask, s.m) = "" THEN @ ELSE @ + 1,
                          !.n = IF Char(name, s.n) = "" THEN @ ELSE @ + 1]
       /\ UNCHANGED result

Answer(s, yes) == result' = (IF yes THEN "yes" ELSE "no") /\ at' = s

Turn ==
  /\ result = "running" /\ at.calls < MATCH_MAX_CALLS
  /\ LET s == AtStar([at EXCEPT !.calls = @ + 1])
         last == SkipBack(mask, s.m - 1)
     IN IF Char(mask, s.m) = ""
        THEN IF Char(name, s.n) = "" THEN Answer(s, TRUE)
             ELSE IF last > 1 /\ Char(mask, last) = "*" THEN Answer(s, TRUE)
             ELSE IF ~s.wild THEN Answer(s, FALSE)
             ELSE Compare(Back(s))
        ELSE IF Char(name, s.n) = ""
        THEN Answer(s, Char(mask, SkipStars(mask, s.m)) = "")
        ELSE Compare(s)
  /\ UNCHANGED <<mask, name, source>>

GiveUp == result = "running" /\ at.calls = MATCH_MAX_CALLS /\ result' = "no"
          /\ UNCHANGED <<mask, name, source, at>>

MatchNext == Turn \/ GiveUp
MatchSpec == MatchInit /\ [][MatchNext]_mkVars

----------------------------------------------------------------------------
(* Properties.                                                              *)

RECURSIVE Agrees(_, _)
Agrees(p, str) ==
  IF p = <<>> THEN str = <<>>
  ELSE IF p[1] = "*" THEN \E k \in 0 .. Len(str) : Agrees(Tail(p), SubSeq(str, k + 1, Len(str)))
  ELSE str # <<>> /\ p[1] \in {"?", str[1]} /\ Agrees(Tail(p), Tail(str))

\* match goes back to the last star only, jumps over runs of '?' and never
\* reads past the end of either string; its answer, unless it
\* gives up, is still that of the mask: "'*' - match any number of chars, '?' - match any single character".
MatchRight ==
  /\ at.m <= Len(mask) + 1 /\ at.n <= Len(name) + 1 /\ at.na <= Len(name) + 1
  /\ result = "yes" => Agrees(mask, name)
  /\ result = "no" /\ at.calls < MATCH_MAX_CALLS => ~Agrees(mask, name)

\* Collapsing a mask does not change what it matches, and the mask made from a
\* host to be K-lined matches that host.
MasksKeepMeaning ==
  IF source.by = "collapse" THEN Agrees(source.str, name) <=> Agrees(mask, name)
  ELSE result = "no" => at.calls = MATCH_MAX_CALLS
=============================================================================
