------------------------- MODULE MCSubscribeServer -------------------------
(* Instances of SubscribeServer for TLC.                                   *)
EXTENDS SubscribeServer

CONSTANTS s1, s2, s3

=============================================================================
