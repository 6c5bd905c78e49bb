-------------------------------- MODULE Drone --------------------------------
(***************************************************************************)
(* The protection of a client from many messages at once: too many in a     *)
(* short time are reported to the operators, and thrown away while they     *)
(* would fill the client's queue.  From src/m_message.c (ANTI_DRONE_FLOOD). *)
(***************************************************************************)
EXTENDS Integers, FiniteSets

CONSTANTS
  DRONETIME, DRONECOUNT,
  Sendq,           \* get_sendq of the client, in messages
  MaxTime          \* bound

ASSUME DroneSettings ==
  /\ DRONETIME \in Nat /\ DRONECOUNT \in Nat /\ Sendq \in Nat
  /\ MaxTime \in Nat /\ DRONETIME <= MaxTime

VARIABLES
  now,
  drone,           \* [first, number, noticed] of the client
  queue,           \* its sendQ, in messages
  notice,          \* what the client was told last: "off", "on"
  dropped,         \* a message was just thrown away
  sent             \* sent[t]: messages for the client in second t, Flood for more

Flood == DRONECOUNT + 1

droneVars == <<now, drone, queue, notice, dropped, sent>>

-----------------------------------------------------------------------------
\* Faulty: on whatever the client's queue holds.
Faulty_Protect(noticed) ==
  IF noticed = 1 THEN 2
  ELSE IF noticed = 2 /\ queue <= Sendq \div 4 THEN 1
  ELSE noticed

\* On above half the queue, off at a quarter.
Protect(noticed) ==
  IF noticed = 1 /\ queue > Sendq \div 2 THEN 2
  ELSE IF noticed = 2 /\ queue <= Sendq \div 4 THEN 1
  ELSE noticed

LastNotice(before, after) ==
  IF before # 2 /\ after = 2 THEN "on" ELSE IF before = 2 /\ after = 1 THEN "off" ELSE notice

Passes == dropped' = FALSE /\ queue' = IF queue < Sendq THEN queue + 1 ELSE queue

\* A message of someone who is no operator.
Privmsg ==
  /\ sent' = [sent EXCEPT ![now] = IF @ < Flood THEN @ + 1 ELSE @]
  /\ UNCHANGED now
  /\ \/ /\ drone.first + DRONETIME < now
        /\ drone' = [first |-> now, number |-> 1, noticed |-> 0]
        /\ UNCHANGED notice
        /\ Passes
     \/ /\ drone.first + DRONETIME >= now /\ drone.number <= DRONECOUNT
        /\ drone' = [drone EXCEPT !.number = @ + 1]
        /\ UNCHANGED notice
        /\ Passes
     \/ /\ drone.first + DRONETIME >= now /\ drone.number > DRONECOUNT
        /\ drone' = [drone EXCEPT !.noticed = Protect(IF @ = 0 THEN 1 ELSE @)]
        /\ notice' = LastNotice(drone.noticed, drone'.noticed)
        /\ IF drone'.noticed > 1 THEN dropped' = TRUE /\ UNCHANGED queue ELSE Passes

\* Other lines for the client, and what its connection takes.
Fill ==
  /\ queue < Sendq
  /\ queue' = queue + 1 /\ dropped' = FALSE
  /\ UNCHANGED <<now, drone, notice, sent>>
Drain ==
  /\ queue > 0
  /\ queue' = queue - 1 /\ dropped' = FALSE
  /\ UNCHANGED <<now, drone, notice, sent>>
Pass ==
  /\ now < MaxTime
  /\ now' = now + 1 /\ dropped' = FALSE
  /\ UNCHANGED <<drone, queue, notice, sent>>

DroneInit ==
  /\ now = DRONETIME
  /\ drone = [first |-> 0, number |-> 0, noticed |-> 0]
  /\ queue \in 0..Sendq /\ notice = "off" /\ dropped = FALSE
  /\ sent = [t \in 0..MaxTime |-> 0]

DroneNext == Privmsg \/ Fill \/ Drain \/ Pass
DroneSpec == DroneInit /\ [][DroneNext]_droneVars

-----------------------------------------------------------------------------
Recent == {p \in ((now - DRONETIME)..now) \X (1..Flood) : p[2] <= sent[p[1]]}

\* A message is thrown away only of a real flood, when the client's queue is not
\* nearly empty, and after it was told of the protection.
LostInFloodOnly ==
  dropped => /\ notice = "on"
             /\ queue > Sendq \div 4
             /\ Cardinality(Recent) > DRONECOUNT
=============================================================================
