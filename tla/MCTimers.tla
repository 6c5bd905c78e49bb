------------------------------- MODULE MCTimers -------------------------------
(* Instances of Timers for TLC, with two history variables.                 *)
EXTENDS Timers

CONSTANTS alice, bob, hub

VARIABLES
  silent,      \* silent[c]: seconds since c was last heard of
  waited       \* waited[c]: seconds since c was last sent a PING

MCvars == <<vars, silent, waited>>

MCPing == [c \in Clients |-> IF c = hub THEN 2 ELSE 1]

MCInit ==
  /\ Init
  /\ silent = [c \in Clients |-> 0] /\ waited = [c \in Clients |-> 0]

Elapsed == untilPing - untilPing'
MCNext ==
  /\ Next
  /\ silent' = [c \in Clients |->
       IF status'[c] = "free" \/ status[c] = "free" \/ (idle'[c] = 0 /\ idle[c] > 0) THEN 0
       ELSE IF TimePasses THEN Older(silent[c], Elapsed) ELSE silent[c]]
  /\ waited' = [c \in Clients |->
       IF c \notin pingsent' THEN 0
       ELSE IF TimePasses THEN Older(waited[c], Elapsed) ELSE waited[c]]

MCSpec == MCInit /\ [][MCNext]_MCvars /\ Fairness

\* A client that is silent for long enough is dropped.
SilentGoes ==
  \A c \in Registered \ Exempt : silent[c] <=
    Max({Longest, 2 * Ping[c]}) + Ping[c] + 2 * Late

\* A registered client that check_pings drops for its silence had at least its
\* ping frequency to answer.
PingBeforeDrop ==
  \A c \in Registered \ dead :
    CheckPings /\ status'[c] = "free" /\ ~Swept(c) => waited[c] >= Ping[c]

\* The silent are dropped in time (SilentGoes) and not before their time
\* (PingBeforeDrop).
DropsInTime == [][SilentGoes' /\ PingBeforeDrop]_MCvars
=============================================================================
