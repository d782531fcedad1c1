---------------------------- MODULE MCHeldActions ----------------------------
(* HeldActions for TLC: two decide calls race for one hold, one intent      *)
(* granting and one refusing.                                               *)
EXTENDS HeldActions, TLC

CONSTANTS h1, d1, t1, t2, i1, i2

MCHold == {h1}
MCDispatchId == {d1}
MCIdentity == [h \in MCHold |-> d1]
MCHandler == {t1, t2}
MCIntent == {i1, i2}
MCGrants == {i1}
=============================================================================
