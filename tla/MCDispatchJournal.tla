------------------------- MODULE MCDispatchJournal -------------------------
(* DispatchJournal for TLC: two daemons on one directory, two concurrent   *)
(* calls, two identities.                                                  *)
EXTENDS DispatchJournal, TLC

CONSTANTS p1, p2, t1, t2, d1, d2

MCProcess == {p1, p2}
MCTask == {t1, t2}
MCDispatchId == {d1, d2}

\* The members of each set are interchangeable.
MCSymmetry == Permutations(MCProcess) \cup Permutations(MCTask)
                 \cup Permutations(MCDispatchId)
=============================================================================
