----------------------------- MODULE MCConsensus -----------------------------
(* Consensus for TLC: committees of three, four and five governors, one of     *)
(* them faulty.                                                                *)
EXTENDS Consensus, TLC

CONSTANTS a, b, c, d, z, p, q, x, y

FaultyOne == {z}
TwoIds == {p, q}
OnePayload == {x}
TwoPayloads == {x, y}
With(id, payload) == [id |-> id, payload |-> payload]
Of(id) == With(id, x)

ThreeMember == {a, b, z}
FourMember == {a, b, c, z}
FiveMember == {a, b, c, d, z}

AllOthers == [n \in Honest |-> {msg \in Message : msg.from # n}]

QueuedPQ == [n \in Honest |-> Of(IF n = a THEN p ELSE q)]
AllQueuedP == [n \in Honest |-> Of(p)]

ZThenA == {[r \in Round |-> IF r = 0 THEN z ELSE a]}
OnlyZ == {[r \in Round |-> z]}
Anyone == [Round -> Member]

\* Honest governors are interchangeable where anyone may lead.
Followers == Permutations(Honest)

\* z equivocates as the leader of round 0, on the payload of one id, and votes for p in
\* round 1; in the name of b there is an envelope b did not sign, and in that of a a
\* proposal of another decision.
TwoRounds ==
    {Says(z, "proposal", 0, v) : v \in {Of(p), With(p, y)}}
        \cup {Says(z, kind, 1, p) : kind \in {"prevote", "precommit"}}
        \cup {Says(b, "prevote", 0, Garbled), Says(a, "proposal", 1, Stale)}
OthersAndImposters == [n \in Honest |-> {msg \in Message : msg.from # n \/ msg.value = Garbled}]
OnlyA == {a}
Nobody == {}

\* z proposes both ids, p with another payload than the honest governors would propose
\* it with, and votes for one of the two.
Equivocation ==
    {Says(z, "proposal", 0, v) : v \in {With(p, y), Of(q)}}
        \cup {Says(z, kind, 0, p) : kind \in {"prevote", "precommit"}}

\* z leads, and gives one id two payloads.
TwoPayloadsOfP ==
    {Says(z, "proposal", 0, v) : v \in {Of(p), With(p, y)}}
        \cup {Says(z, kind, 0, p) : kind \in {"prevote", "precommit"}}

\* z leads two rounds, and votes for p in the first and for q in the second.  Of round 0
\* a hears everything b says and b only the prevotes; b and c meet in round 1.
Speech(r, id) == {Says(z, "proposal", r, Of(id))}
                    \cup {Says(z, kind, r, id) : kind \in {"prevote", "precommit"}}
TwoMinds == Speech(0, p) \cup Speech(1, q)
MeetingLate ==
    [n \in Honest |->
        {msg \in Message :
            \/ n = a /\ msg.round = 0 /\ msg.from \in {b, z}
            \/ n = b /\ msg.round = 0 /\ msg.from \in {a, z} /\ msg.kind # "precommit"
            \/ n = b /\ msg.round = 1 /\ msg.from \in {c, z}
            \/ n = c /\ msg.round = 1 /\ msg.from \in {b, z} /\ msg.kind # "precommit"}]

\* z proposes p to a and b and q to c and d, and votes with both; the halves do not
\* hear each other.
BothWays == Speech(0, p) \cup Speech(0, q)
Halves ==
    [n \in Honest |->
        {msg \in Message : IF n \in {a, b}
                           THEN msg.from \in {a, b, z} \ {n} /\ msg.value \in {p, Of(p)}
                           ELSE msg.from \in {c, d, z} \ {n} /\ msg.value \in {q, Of(q)}}]
=============================================================================
