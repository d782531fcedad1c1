--------------------------- MODULE MCAlarmDrainer ---------------------------
(* A hold that is announced, is ended by the sweep and completed late, and a   *)
(* promotion of the same hunt.                                                 *)
EXTENDS AlarmDrainer, TLC

CONSTANTS h1, c1, hunt

TheWork == {h1, c1}
TheSubject == <<h1, h1, h1, c1>>
TheKind == <<"created", "ended", "ended", "promoted">>
OneHunt == [w \in TheWork |-> hunt]
ThePromotion == {4}

=============================================================================
