---------------------------- MODULE MCGovernance ----------------------------
(* Governance for TLC: one governor under one key, one kind of action.          *)
EXTENDS Governance, TLC

CONSTANTS a, b, block

OneKind == {block}
TwoRequests == {a, b}
OneRequest == {a}
NoRequests == {}
AllBlock == [r \in Request |-> block]
\* Actions of one kind, each with a scope of its own, are interchangeable.
Swapped == Permutations({a, b})
OwnScope == [r \in Request |-> r]
=============================================================================
