------------------------------- MODULE MCUmodes -------------------------------
(* The instance of Umodes for UmodesRing: two operators and a remote client. *)
EXTENDS Umodes

CONSTANTS root, oper, rem

OLines == [c \in Clients |-> IF c = root THEN "admin"
                             ELSE IF c = rem THEN "none" ELSE "oper"]
Default == [c \in Clients |-> {}]
=============================================================================
