----------------------------- MODULE MCReactor -----------------------------
(* Instances of Reactor for TLC.                                           *)
EXTENDS Reactor

CONSTANTS t1, u1

OneTcp == {t1}
OneUdp == {u1}
============================================================================
