-------------------------- MODULE MCDriverStartup --------------------------
(* Instances of DriverStartup for TLC.                                     *)
EXTENDS DriverStartup

CONSTANTS srl, sros, s1, s2

\* The first model is matched by a type without a driver as well.
MCModelMatch == <<{}, {srl, sros}, {srl}>>

=============================================================================
