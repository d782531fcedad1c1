----------------------------- MODULE MCAcpHarness -----------------------------
(* AcpHarness for TLC: one or two channels, a pool of one or two agents.        *)
EXTENDS AcpHarness, TLC

CONSTANTS c1, c2, a1, a2

OneChannel == {c1}
TwoChannels == {c1, c2}
OneAgent == {a1}
TwoAgents == {a1, a2}

Steering == [dedup |-> "queue", handling |-> "steer", lazy |-> FALSE]
Interrupting == [dedup |-> "queue", handling |-> "owner", lazy |-> FALSE]
Dropping == [dedup |-> "drop", handling |-> "queue", lazy |-> FALSE]

SteerOrDrop == {Steering, Dropping}
JustInterrupting == {Interrupting}
LazySteering == {[Steering EXCEPT !.lazy = TRUE]}

\* Channels, and slots, are interchangeable.
Swapped == Permutations({c1, c2}) \cup Permutations({a1, a2})
==============================================================================
