------------------------------ MODULE MCChannel ------------------------------
(* Channel for TLC, with one channel: a leaf with an uplink, an             *)
(* administrator and FJOIN (MCNet), and the smallest leaf with an uplink    *)
(* (ChannelGhost).                                                          *)
EXTENDS Channel, TLC

CONSTANTS alice, root, rem, c1

NoMasks == {}
NoHits == [m \in {} |-> {}]
=============================================================================
