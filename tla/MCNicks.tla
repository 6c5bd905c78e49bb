------------------------------- MODULE MCNicks -------------------------------
(* The instance of Nicks for NicksFlood: two clients, flood control.        *)
EXTENDS Nicks

CONSTANTS alice, rem, x, y

Twins == [c \in Clients |-> "same user and host"]
=============================================================================
