---------------------------- MODULE MCEndpoint -----------------------------
(* Instances of Endpoint for TLC.                                          *)
EXTENDS Endpoint, TLC

CONSTANTS s1, s2

TwoSockets == {s1, s2}
OnlyS2 == {s2}
None == {}

=============================================================================
