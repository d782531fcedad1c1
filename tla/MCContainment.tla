---------------------------- MODULE MCContainment ----------------------------
(* Containment for TLC.                                                     *)
EXTENDS Containment, TLC

CONSTANTS alpha, beta, o1, sweep

MCHost == {alpha, beta}
MCTarget == <<alpha, beta>>
MCOperator == {o1}
MCUnreachable == {alpha}
=============================================================================
