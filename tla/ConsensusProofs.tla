-------------------------- MODULE ConsensusProofs --------------------------
EXTENDS Consensus, FiniteSetTheorems, TLAPS

\* What an envelope is made of.
LEMMA SaysFields ==
    ASSUME NEW m, NEW kind, NEW r, NEW v
    PROVE  /\ Says(m, kind, r, v).kind = kind /\ Says(m, kind, r, v).round = r
           /\ Says(m, kind, r, v).from = m /\ Says(m, kind, r, v).value = v
BY DEF Says

\* What a node says for itself is a message.
LEMMA SaysType ==
    ASSUME NEW m \in Member, NEW r \in Round
    PROVE  /\ \A v \in Proposal : Says(m, "proposal", r, v) \in Message
           /\ \A v \in Vote : /\ Says(m, "prevote", r, v) \in Message
                              /\ Says(m, "precommit", r, v) \in Message
BY DEF Says, Message, Value, Carries, Kind

\* Every message is something its sender says, of the kind it says it is.
LEMMA MessageIsSaid ==
    ASSUME NEW msg \in Message
    PROVE  /\ msg = Says(msg.from, msg.kind, msg.round, msg.value)
           /\ msg.kind \in Kind /\ msg.round \in Round /\ msg.from \in Member
           /\ msg.value \notin {Garbled, Stale} => msg.value \in Carries(msg.kind)
BY DEF Message, Says

\* Votes, proposals and what is none of the two are told apart.
LEMMA ValuesDiffer ==
    /\ None \notin Proposal /\ None \notin Vote /\ None # Garbled /\ None # Stale
    /\ Garbled \notin Proposal /\ Garbled \notin Vote
    /\ Stale \notin Proposal /\ Stale \notin Vote /\ Garbled # Stale
    /\ \A v \in Proposal : v.id \in ProposalId /\ v.id \in Vote /\ v.id # Nil /\ v.id # None
<1>1. \A v \in Proposal : v.id \in ProposalId
  BY DEF Proposal
<1> QED BY <1>1, ValueAssumption DEF Value, Vote

\* Rounds are natural numbers.
LEMMA RoundsAreNat ==
    ASSUME NEW s \in NodeState
    PROVE  s.round \in Nat /\ s.round <= s.round /\ \A msg \in s.emitted : msg.round \in Nat
<1>1. Round \subseteq Nat
  BY CommitteeAssumption DEF Round
<1>2. s.round \in Round /\ s.emitted \subseteq Message
  BY DEF NodeState
<1>3. s.round \in Nat /\ \A msg \in s.emitted : msg.round \in Nat
  BY <1>1, <1>2, MessageIsSaid
<1> HIDE DEF NodeState
<1>4. s.round <= s.round
  BY <1>3
<1> QED BY <1>3, <1>4

\* A node that has started, in a sound state.
Active(n, s) == Sound(n, s) /\ s.status # "idle"

\* A commit adds a certificate to a sound state.
LEMMA CommitSound ==
    ASSUME NEW n \in Honest, NEW s, Active(n, s), NEW r \in Round, NEW v \in Vote
    PROVE  Active(n, Commit(s, r, v))
<1> DEFINE d == [round |-> r, value |-> s.proposal[r]]
           w == IF s.pending # None /\ s.pending.id = v THEN None ELSE s.pending
           t == [s EXCEPT !.status = "decided", !.decided = d, !.pending = w]
<1> SUFFICES ASSUME s.proposal[r] # None, s.proposal[r].id = v, Quorum(s.precommit[r], v)
             PROVE  Active(n, t)
  BY DEF Commit
<1>1. s \in NodeState /\ Sound(n, s)
  BY DEF Active, Sound
<1>2. /\ d \in [round : Round, value : Proposal] /\ w \in Proposal \cup {None}
      /\ d.round = r /\ d.value = s.proposal[r] /\ d.value.id = v
  BY <1>1 DEF NodeState
<1>3. Certified(s, d)
  <2>1. /\ Votes(s.precommit[r], v) \in SUBSET Member
        /\ Cardinality(Votes(s.precommit[r], v)) >= Threshold
        /\ \A m \in Votes(s.precommit[r], v) : s.precommit[r][m] = v
    BY DEF Quorum, Votes
  <2> HIDE DEF d
  <2> QED BY <1>2, <2>1 DEF Certified
<1> HIDE DEF d, w
<1>4. t \in NodeState
  BY <1>1, <1>2 DEF NodeState
<1>5. /\ t.proposal = s.proposal /\ t.prevote = s.prevote /\ t.precommit = s.precommit
      /\ t.emitted = s.emitted /\ t.seen = s.seen /\ t.excluded = s.excluded
      /\ t.out = s.out /\ t.outbox = s.outbox /\ t.round = s.round
      /\ t.status = "decided" /\ t.decided = d
  BY <1>1 DEF NodeState
<1> HIDE DEF t
<1>6. Certified(t, t.decided) /\ t.proposal[t.decided.round] = t.decided.value
  BY <1>2, <1>3, <1>5 DEF Certified
<1>7. OneWord(n, t) /\ Stands(n, t)
  BY <1>1, <1>5 DEF Sound, OneWord, Stands
<1>8. Learned(t) /\ Seen(n, t) /\ Excludes(n, t) /\ Commits(t)
  BY <1>1, <1>5, <1>6 DEF Sound, Learned, Seen, Excludes, Commits
<1> QED BY <1>4, <1>5, <1>7, <1>8 DEF Sound, Active

\* A node may record a prevote a peer has published, and the one it has cast.
LEMMA RecordPrevoteSound ==
    ASSUME NEW n \in Honest, NEW s, Active(n, s), NEW r \in Round, NEW m \in Member,
           NEW v \in Vote, m \in Honest => Says(m, "prevote", r, v) \in sent \cup s.emitted
    PROVE  Active(n, RecordPrevote(s, r, m, v))
<1> DEFINE t == RecordPrevote(s, r, m, v)
<1>1. s \in NodeState /\ Sound(n, s)
  BY DEF Active, Sound
<1>2. t \in NodeState
  BY <1>1 DEF NodeState, RecordPrevote, Choice
<1>3. /\ t.proposal = s.proposal /\ t.precommit = s.precommit /\ t.status = s.status
      /\ t.emitted = s.emitted /\ t.seen = s.seen /\ t.excluded = s.excluded
      /\ t.out = s.out /\ t.outbox = s.outbox /\ t.round = s.round /\ t.decided = s.decided
  BY <1>1 DEF NodeState, RecordPrevote
<1>4. /\ t.prevote[r][m] = v
      /\ \A x \in Round, k \in Member : <<x, k>> # <<r, m>> => t.prevote[x][k] = s.prevote[x][k]
  BY <1>1 DEF NodeState, RecordPrevote
<1> HIDE DEF t
<1>5. OneWord(n, t) /\ Stands(n, t)
  BY <1>1, <1>3 DEF Sound, OneWord, Stands
<1>6. Learned(t)
  BY <1>1, <1>3, <1>4 DEF Sound, Learned, Honest
<1>7. Seen(n, t) /\ Excludes(n, t) /\ Commits(t)
  BY <1>1, <1>3 DEF Sound, Seen, Excludes, Commits, Certified
<1> QED BY <1>2, <1>3, <1>5, <1>6, <1>7 DEF Sound, Active, t

\* A node may record a precommit a peer has published, and the one it has cast.
LEMMA RecordPrecommitSound ==
    ASSUME NEW n \in Honest, NEW s, Active(n, s), NEW r \in Round, NEW m \in Member,
           NEW v \in Vote, s.precommit[r][m] \in {None, v},
           m \in Honest => Says(m, "precommit", r, v) \in sent \cup s.emitted
    PROVE  Active(n, RecordPrecommit(s, r, m, v))
<1> DEFINE t == RecordPrecommit(s, r, m, v)
<1>1. s \in NodeState /\ Sound(n, s)
  BY DEF Active, Sound
<1>2. t \in NodeState
  BY <1>1 DEF NodeState, RecordPrecommit, Choice
<1>3. /\ t.proposal = s.proposal /\ t.prevote = s.prevote /\ t.status = s.status
      /\ t.emitted = s.emitted /\ t.seen = s.seen /\ t.excluded = s.excluded
      /\ t.out = s.out /\ t.outbox = s.outbox /\ t.round = s.round /\ t.decided = s.decided
  BY <1>1 DEF NodeState, RecordPrecommit
<1>4. /\ t.precommit[r][m] = v
      /\ \A x \in Round, k \in Member : <<x, k>> # <<r, m>> => t.precommit[x][k] = s.precommit[x][k]
  BY <1>1 DEF NodeState, RecordPrecommit
<1> HIDE DEF t
<1>5. OneWord(n, t) /\ Stands(n, t)
  BY <1>1, <1>3 DEF Sound, OneWord, Stands
<1>6. Learned(t)
  BY <1>1, <1>3, <1>4 DEF Sound, Learned, Honest
<1>7. Commits(t)
  <2> SUFFICES ASSUME s.decided # None
               PROVE  Certified(t, s.decided)
    BY <1>1, <1>3 DEF Sound, Commits
  <2>1. s.decided.round \in Round /\ s.decided.value \in Proposal
    BY <1>1 DEF NodeState
  <2>2. PICK Q \in SUBSET Member :
            /\ Cardinality(Q) >= Threshold
            /\ \A k \in Q : s.precommit[s.decided.round][k] = s.decided.value.id
    BY <1>1 DEF Sound, Commits, Certified
  <2>3. s.decided.value.id # None
    BY <2>1, ValuesDiffer
  <2>4. \A k \in Q : t.precommit[s.decided.round][k] = s.decided.value.id
    BY <1>4, <2>1, <2>2, <2>3
  <2> QED BY <2>2, <2>4 DEF Certified
<1>8. Seen(n, t) /\ Excludes(n, t)
  BY <1>1, <1>3 DEF Sound, Seen, Excludes
<1> QED BY <1>2, <1>3, <1>5, <1>6, <1>7, <1>8 DEF Sound, Active, t

\* The same for the proposal of a round.
LEMMA RecordProposalSound ==
    ASSUME NEW n \in Honest, NEW s, Active(n, s), NEW r \in Round, NEW v \in Proposal,
           s.proposal[r] \in {None, v},
           proposer[r] \in Honest => Says(proposer[r], "proposal", r, v) \in sent \cup s.emitted
    PROVE  Active(n, RecordProposal(s, r, v))
<1> DEFINE t == RecordProposal(s, r, v)
<1>1. s \in NodeState /\ Sound(n, s)
  BY DEF Active, Sound
<1>2. t \in NodeState
  BY <1>1 DEF NodeState, RecordProposal
<1>3. /\ t.prevote = s.prevote /\ t.precommit = s.precommit /\ t.status = s.status
      /\ t.emitted = s.emitted /\ t.seen = s.seen /\ t.excluded = s.excluded
      /\ t.out = s.out /\ t.outbox = s.outbox /\ t.round = s.round /\ t.decided = s.decided
  BY <1>1 DEF NodeState, RecordProposal
<1>4. t.proposal[r] = v /\ \A x \in Round \ {r} : t.proposal[x] = s.proposal[x]
  BY <1>1 DEF NodeState, RecordProposal
<1> HIDE DEF t
<1>5. OneWord(n, t) /\ Stands(n, t)
  BY <1>1, <1>3 DEF Sound, OneWord, Stands
<1>6. Learned(t)
  BY <1>1, <1>3, <1>4 DEF Sound, Learned
<1>7. Commits(t)
  <2> SUFFICES ASSUME s.decided # None
               PROVE  Certified(t, s.decided) /\ t.proposal[s.decided.round] = s.decided.value
    BY <1>1, <1>3 DEF Sound, Commits
  <2>1. s.decided.round \in Round /\ s.decided.value \in Proposal
    BY <1>1 DEF NodeState
  <2>2. Certified(s, s.decided) /\ s.proposal[s.decided.round] = s.decided.value
    BY <1>1 DEF Sound, Commits
  <2>3. Certified(t, s.decided)
    BY <1>3, <2>2 DEF Certified
  <2> QED BY <1>4, <2>1, <2>2, <2>3, ValuesDiffer
<1>8. Seen(n, t) /\ Excludes(n, t)
  BY <1>1, <1>3 DEF Sound, Seen, Excludes
<1> QED BY <1>2, <1>3, <1>5, <1>6, <1>7, <1>8 DEF Sound, Active, t

\* A node may say what it has not said before.
LEMMA SendSound ==
    ASSUME NEW n \in Honest, NEW s, Active(n, s), NEW msg \in Message,
           msg.from = n, msg.value \notin {Garbled, Stale}, ~Emitted(s, msg.kind, msg.round),
           msg.kind = "proposal" => proposer[msg.round] = n /\ msg.round <= s.round
    PROVE  Active(n, Send(s, msg)) /\ msg \in Send(s, msg).emitted
<1> DEFINE t == Send(s, msg)
<1>1. s \in NodeState /\ Sound(n, s)
  BY DEF Active, Sound
<1>2. t \in NodeState
  BY <1>1 DEF NodeState, Send
<1>3. /\ t.prevote = s.prevote /\ t.precommit = s.precommit /\ t.status = s.status
      /\ t.emitted = s.emitted \cup {msg} /\ t.seen = s.seen /\ t.excluded = s.excluded
      /\ t.out = s.out \cup {msg} /\ t.outbox = s.outbox /\ t.decided = s.decided
      /\ t.proposal = s.proposal /\ t.round = s.round
  BY <1>1 DEF NodeState, Send
<1> HIDE DEF t
<1>4. \A old \in s.emitted : ~SameKey(old, msg) /\ ~SameKey(msg, old)
  BY DEF Emitted, SameKey
<1>5. OneWord(n, t)
  BY <1>1, <1>3, <1>4 DEF Sound, Active, OneWord
<1>6. Stands(n, t) /\ Learned(t)
  BY <1>1, <1>3 DEF Sound, Stands, Learned
<1>7. Seen(n, t) /\ Excludes(n, t) /\ Commits(t)
  BY <1>1, <1>3 DEF Sound, Seen, Excludes, Commits, Certified
<1> QED BY <1>2, <1>3, <1>5, <1>6, <1>7 DEF Sound, Active, t

\* A node's own votes keep its state sound.
LEMMA EmitPrecommitSound ==
    ASSUME NEW n \in Honest, NEW s, Active(n, s), NEW r \in Round, NEW v \in Vote
    PROVE  Active(n, EmitPrecommit(n, s, r, v))
<1> DEFINE msg == Says(n, "precommit", r, v)
           u == Send(s, msg)
           t == RecordPrecommit(u, r, n, v)
<1> SUFFICES ASSUME ~Emitted(s, "precommit", r)
             PROVE  Active(n, t)
  BY CommitSound DEF EmitPrecommit
<1>1. n \in Member /\ v # Garbled /\ v # Stale /\ v # None
  BY CommitteeAssumption, ValuesDiffer DEF Honest
<1>2. /\ msg \in Message /\ msg.kind = "precommit" /\ msg.round = r
      /\ msg.from = n /\ msg.value = v
  BY <1>1, SaysType, SaysFields
<1> HIDE DEF msg
<1>3. Active(n, u) /\ msg \in u.emitted
  BY <1>1, <1>2, SendSound
<1>4. u.precommit[r][n] \in {None, v}
  <2>1. u.precommit = s.precommit
    BY DEF Active, Sound, NodeState, Send
  <2>2. s.precommit[r][n] # None => Says(n, "precommit", r, s.precommit[r][n]) \in sent \cup s.emitted
    BY DEF Active, Sound, Learned
  <2>3. \A old \in sent \cup s.emitted : old.from = n => old \in s.emitted
    BY DEF Active, Sound, Stands
  <2> QED BY <2>1, <2>2, <2>3, SaysFields DEF Emitted
<1> HIDE DEF u
<1> QED BY <1>1, <1>3, <1>4, RecordPrecommitSound DEF msg

\* emit_prevote keeps a sound state sound.
LEMMA EmitPrevoteSound ==
    ASSUME NEW n \in Honest, NEW s, Active(n, s), NEW r \in Round, NEW v \in Vote
    PROVE  Active(n, EmitPrevote(n, s, r, v))
<1> DEFINE msg == Says(n, "prevote", r, v)
           u == Send(s, msg)
           t == RecordPrevote(u, r, n, v)
<1> SUFFICES ASSUME ~Emitted(s, "prevote", r)
             PROVE  Active(n, t)
  BY EmitPrecommitSound DEF EmitPrevote
<1>1. n \in Member /\ v # Garbled /\ v # Stale /\ v # None
  BY CommitteeAssumption, ValuesDiffer DEF Honest
<1>2. /\ msg \in Message /\ msg.kind = "prevote" /\ msg.round = r
      /\ msg.from = n /\ msg.value = v
  BY <1>1, SaysType, SaysFields
<1> HIDE DEF msg
<1>3. Active(n, u) /\ msg \in u.emitted
  BY <1>1, <1>2, SendSound
<1> HIDE DEF u
<1> QED BY <1>1, <1>3, RecordPrevoteSound DEF msg

\* emit_proposal_if_leader, with the leader's own prevote, keeps a sound state sound.
LEMMA EmitProposalSound ==
    ASSUME NEW n \in Honest, NEW s, Active(n, s), ~Emitted(s, "proposal", s.round)
    PROVE  Active(n, EmitProposalIfLeader(n, s))
<1> DEFINE r == s.round
           v == s.pending
           msg == Says(n, "proposal", r, v)
           u == Send(s, msg)
           t == RecordProposal(u, r, v)
<1>1. r \in Round /\ r \in Nat /\ v \in Proposal \cup {None}
  BY CommitteeAssumption DEF Active, Sound, NodeState, Round
<1> SUFFICES ASSUME proposer[r] = n, s.proposal[r] = None, v # None
             PROVE  Active(n, EmitPrevote(n, t, r, v.id))
  BY DEF EmitProposalIfLeader
<1>2. n \in Member /\ v \in Proposal /\ v # Garbled /\ v # Stale /\ v.id \in Vote
  BY <1>1, CommitteeAssumption, ValuesDiffer DEF Honest
<1>3. u.proposal = s.proposal
  BY DEF Active, Sound, NodeState, Send
<1> HIDE DEF v
<1>4. /\ msg \in Message /\ msg.kind = "proposal" /\ msg.round = r
      /\ msg.from = n /\ msg.value = v
  BY <1>1, <1>2, SaysType, SaysFields
<1> HIDE DEF msg
<1>5. Active(n, u) /\ msg \in u.emitted
  BY <1>1, <1>2, <1>4, SendSound
<1> HIDE DEF u, r
<1>6. Active(n, t)
  BY <1>1, <1>2, <1>3, <1>5, RecordProposalSound DEF msg
<1> HIDE DEF t
<1> QED BY <1>1, <1>2, <1>6, EmitPrevoteSound

\* Steps that touch neither the votes nor the messages of a node.
LEMMA QuietSound ==
    ASSUME NEW n \in Honest, NEW s, Sound(n, s), NEW t \in NodeState,
           t.proposal = s.proposal, t.prevote = s.prevote, t.precommit = s.precommit,
           t.emitted = s.emitted, t.seen = s.seen, t.excluded = s.excluded,
           t.decided = s.decided, s.round <= t.round,
           t.status \in {s.status, "failed"} \/ (t.status = "running" /\ s.decided = None),
           t.out \subseteq s.out, t.outbox \subseteq s.out \cup s.outbox
    PROVE  Sound(n, t)
<1>1. s.round \in Nat /\ t.round \in Nat /\ \A msg \in s.emitted : msg.round \in Nat
  BY RoundsAreNat DEF Sound
<1>2. OneWord(n, t)
  BY <1>1 DEF Sound, OneWord
<1>3. Stands(n, t) /\ Learned(t)
  BY DEF Sound, Stands, Learned
<1>4. Seen(n, t) /\ Excludes(n, t)
  BY DEF Sound, Seen, Excludes
<1>5. Commits(t)
  BY DEF Sound, Commits, Certified
<1> QED BY <1>2, <1>3, <1>4, <1>5 DEF Sound

\* advance_round goes to a later round, where the node has not proposed, and proposes.
LEMMA AdvanceRoundSound ==
    ASSUME NEW n \in Honest, NEW s, Active(n, s), NEW r \in Round, r > s.round
    PROVE  Active(n, AdvanceRound(n, s, r))
<1> DEFINE t == [s EXCEPT !.round = r]
<1>1. /\ t \in NodeState /\ Sound(n, s)
      /\ t.proposal = s.proposal /\ t.prevote = s.prevote /\ t.precommit = s.precommit
      /\ t.emitted = s.emitted /\ t.seen = s.seen /\ t.excluded = s.excluded
      /\ t.decided = s.decided /\ t.round = r
      /\ t.status = s.status /\ t.out = s.out /\ t.outbox = s.outbox
  BY DEF Active, Sound, NodeState
<1>2. /\ s.round \in Nat /\ r \in Nat /\ s.round <= r
      /\ \A msg \in s.emitted : msg.round \in Nat
  BY CommitteeAssumption, RoundsAreNat DEF Active, Sound, Round
<1> HIDE DEF t
<1>3. Active(n, t)
  BY <1>1, <1>2, QuietSound DEF Active
<1>4. ~Emitted(t, "proposal", t.round)
  BY <1>1, <1>2 DEF Emitted, Sound, OneWord
<1> QED BY <1>3, <1>4, EmitProposalSound DEF AdvanceRound, t

\* A governor that gave up its round keeps what it said.
LEMMA FailedSound ==
    ASSUME NEW n \in Honest, NEW s, Sound(n, s)
    PROVE  Active(n, Failed(s))
<1> DEFINE t == Failed(s)
<1>1. /\ t \in NodeState
      /\ t.proposal = s.proposal /\ t.prevote = s.prevote /\ t.precommit = s.precommit
      /\ t.emitted = s.emitted /\ t.seen = s.seen /\ t.excluded = s.excluded
      /\ t.decided = s.decided /\ t.round = s.round
      /\ t.status = "failed" /\ t.out = s.out /\ t.outbox = s.outbox
  BY DEF Sound, NodeState, Failed
<1> HIDE DEF t
<1> QED BY <1>1, RoundsAreNat, QuietSound DEF t, Active

\* An authentic message: one an honest member has published, or any that a faulty
\* one may send, with a signature that verifies and of this decision.
Authentic(msg) ==
    /\ msg \in Message /\ msg.value \notin {Garbled, Stale}
    /\ msg.from \in Honest => msg \in sent

\* observe_proposal, observe_prevote and observe_precommit keep the state sound when
\* what they observe of an honest peer is what that peer published.
LEMMA ObserveMessageSound ==
    ASSUME NEW n \in Honest, NEW s, Active(n, s), NEW msg, Authentic(msg)
    PROVE  Active(n, ObserveMessage(n, s, msg))
<1> DEFINE r == msg.round
           m == msg.from
           v == msg.value
           w == AdvanceRound(n, s, r)
           e == [w EXCEPT !.out = {}]
           t == IF r > s.round THEN e ELSE s
<1>1. /\ r \in Round /\ m \in Member /\ v \in Carries(msg.kind)
      /\ msg.kind \in Kind /\ msg = Says(m, msg.kind, r, v)
  BY MessageIsSaid DEF Authentic
<1>2. Active(n, t)
  <2> SUFFICES ASSUME r > s.round PROVE Active(n, e)
    OBVIOUS
  <2>1. Active(n, w)
    BY <1>1, AdvanceRoundSound
  <2> HIDE DEF w
  <2>2. /\ e \in NodeState
        /\ e.proposal = w.proposal /\ e.prevote = w.prevote /\ e.precommit = w.precommit
        /\ e.emitted = w.emitted /\ e.seen = w.seen /\ e.excluded = w.excluded
        /\ e.decided = w.decided /\ e.round = w.round
        /\ e.status = w.status /\ e.out = {} /\ e.outbox = w.outbox
    BY <2>1 DEF Active, Sound, NodeState
  <2> HIDE DEF e
  <2> QED BY <2>1, <2>2, RoundsAreNat, QuietSound DEF Active
<1> HIDE DEF t
<1>3. Sound(n, t) /\ t \in NodeState
  BY <1>2 DEF Active, Sound
<1>4. ASSUME msg.kind = "proposal"
      PROVE  Active(n, ObserveProposal(n, t, m, r, v))
  <2>1. v \in Proposal /\ v.id \in Vote
    BY <1>1, <1>4, ValuesDiffer DEF Carries
  <2>2. m \in Honest => Says(m, "proposal", r, v) \in sent
    BY <1>1, <1>4 DEF Authentic
  <2> HIDE DEF r, m, v
  <2> SUFFICES ASSUME t.proposal[r] \in {None, v}, m = proposer[r]
               PROVE  Active(n, EmitPrevote(n, RecordProposal(t, r, v), r, v.id))
    BY <1>3, FailedSound DEF ObserveProposal
  <2>3. Active(n, RecordProposal(t, r, v))
    BY <1>1, <1>2, <2>1, <2>2, RecordProposalSound
  <2> QED BY <1>1, <2>1, <2>3, EmitPrevoteSound
<1>5. ASSUME msg.kind = "prevote"
      PROVE  Active(n, ObservePrevote(n, t, m, r, v))
  <2>1. (m \in Honest => Says(m, "prevote", r, v) \in sent) /\ v \in Vote
    BY <1>1, <1>5 DEF Authentic, Carries
  <2> HIDE DEF r, m, v
  <2>2. Active(n, RecordPrevote(t, r, m, v))
    BY <1>1, <1>2, <2>1, RecordPrevoteSound
  <2>3. Active(n, EmitPrecommit(n, RecordPrevote(t, r, m, v), r, v))
    BY <1>1, <2>1, <2>2, EmitPrecommitSound
  <2> QED BY <1>3, <2>2, <2>3, FailedSound DEF ObservePrevote
<1>6. ASSUME msg.kind = "precommit"
      PROVE  Active(n, ObservePrecommit(n, t, m, r, v))
  <2>1. (m \in Honest => Says(m, "precommit", r, v) \in sent) /\ v \in Vote
    BY <1>1, <1>6 DEF Authentic, Carries
  <2> HIDE DEF r, m, v
  <2> SUFFICES ASSUME t.precommit[r][m] \in {None, v}
               PROVE  /\ Active(n, RecordPrecommit(t, r, m, v))
                      /\ Active(n, Commit(RecordPrecommit(t, r, m, v), r, v))
    BY <1>3, FailedSound DEF ObservePrecommit
  <2>2. Active(n, RecordPrecommit(t, r, m, v))
    BY <1>1, <1>2, <2>1, RecordPrecommitSound
  <2> QED BY <1>1, <2>1, <2>2, CommitSound
<1> QED BY <1>1, <1>4, <1>5, <1>6 DEF ObserveMessage, Kind, t

\* A node still in its round may drop what a member told it, when it has a cause.
LEMMA ExcludeSenderSound ==
    ASSUME NEW n \in Honest, NEW s, Active(n, s), s.decided = None,
           NEW r \in Round, NEW m \in Member, m \in Faulty \/ Maligned(n, r, m)
    PROVE  Active(n, ExcludeSender(s, r, m))
<1> DEFINE t == ExcludeSender(s, r, m)
           x == [s.excluded EXCEPT ![r] = @ \cup {m}]
           y == [s.proposal EXCEPT ![r] = IF proposer[r] = m THEN None ELSE @]
           a == [s.prevote EXCEPT ![r][m] = None]
           b == [s.precommit EXCEPT ![r][m] = None]
           z == {old \in s.seen : ~(old.round = r /\ old.from = m)}
<1>1. s \in NodeState /\ Sound(n, s)
  BY DEF Active, Sound
<1>2. /\ x \in [Round -> SUBSET Member] /\ y \in [Round -> Proposal \cup {None}]
      /\ a \in [Round -> [Member -> Choice]] /\ b \in [Round -> [Member -> Choice]]
      /\ z \subseteq Message
  BY <1>1 DEF NodeState, Choice
<1>3. t = [s EXCEPT !.excluded = x, !.proposal = y, !.prevote = a, !.precommit = b, !.seen = z]
  BY <1>1 DEF ExcludeSender, NodeState
<1>4. /\ t \in NodeState
      /\ t.excluded = x /\ t.proposal = y /\ t.prevote = a /\ t.precommit = b /\ t.seen = z
      /\ t.emitted = s.emitted /\ t.status = s.status /\ t.round = s.round
      /\ t.out = s.out /\ t.outbox = s.outbox /\ t.decided = None
  <2> HIDE DEF x, y, a, b, z, t
  <2> QED BY <1>1, <1>2, <1>3 DEF NodeState
<1>5. /\ \A q \in Round : y[q] \in {None, s.proposal[q]}
      /\ \A q \in Round, k \in Honest : /\ a[q][k] \in {None, s.prevote[q][k]}
                                        /\ b[q][k] \in {None, s.precommit[q][k]}
      /\ \A q \in Round \ {r} : x[q] = s.excluded[q]
      /\ x[r] = s.excluded[r] \cup {m}
      /\ z \subseteq s.seen
  BY <1>1, CommitteeAssumption DEF NodeState, Honest
<1> HIDE DEF x, y, a, b, z, t
<1>6. OneWord(n, t) /\ Stands(n, t)
  BY <1>1, <1>4 DEF Sound, OneWord, Stands
<1>7. Learned(t)
  BY <1>1, <1>4, <1>5 DEF Sound, Learned
<1>8. Seen(n, t) /\ Commits(t)
  BY <1>1, <1>4, <1>5 DEF Sound, Seen, Commits
<1>9. Excludes(n, t)
  <2> SUFFICES ASSUME NEW q \in Round, NEW k \in x[q]
               PROVE  k \in Faulty \/ Maligned(n, q, k)
    BY <1>4 DEF Excludes
  <2>1. Excludes(n, s)
    BY <1>1 DEF Sound
  <2> QED BY <1>5, <2>1 DEF Excludes
<1> QED BY <1>4, <1>6, <1>7, <1>8, <1>9 DEF Sound, Active, t

\* An honest governor never equivocates, and what it publishes verifies.
LEMMA HonestSpeech ==
    ASSUME ConsensusInv, NEW msg \in sent
    PROVE  /\ msg.from \in Honest /\ msg \in Message /\ msg.value \notin {Garbled, Stale}
           /\ msg \in node[msg.from].emitted
           /\ \A old \in sent : SameKey(old, msg) => old = msg
<1>1. msg \in Message /\ msg.from \in Honest
  BY DEF ConsensusInv, TypeOK
<1> DEFINE k == msg.from
<1>2. OneWord(k, node[k]) /\ Stands(k, node[k])
  BY <1>1 DEF ConsensusInv, Sound
<1>3. \A old \in sent : old.from = k => old \in node[k].emitted
  BY <1>2 DEF Stands
<1>4. msg.value \notin {Garbled, Stale} /\ \A old \in sent : SameKey(old, msg) => old = msg
  BY <1>2, <1>3 DEF OneWord, SameKey
<1> QED BY <1>1, <1>3, <1>4

\* What arrives with a valid signature, of this decision, is authentic.
LEMMA VerifiedIsAuthentic ==
    ASSUME ConsensusInv, NEW msg \in sent \cup Forged, msg.value \notin {Garbled, Stale}
    PROVE  Authentic(msg)
BY HonestSpeech, ForgedAssumption DEF Authentic, Honest

\* seen_signed_messages takes one envelope more.
LEMMA NoteSound ==
    ASSUME NEW n \in Honest, NEW s, Active(n, s),
           NEW msg \in (sent \cup Forged) \cap Heard[n], msg \in Message, msg.value # Garbled,
           NEW t, t = [s EXCEPT !.seen = @ \cup {msg}]
    PROVE  /\ Active(n, t) /\ t \in NodeState
           /\ t.proposal = s.proposal /\ t.prevote = s.prevote /\ t.precommit = s.precommit
           /\ t.emitted = s.emitted /\ t.seen = s.seen \cup {msg} /\ t.excluded = s.excluded
           /\ t.decided = s.decided /\ t.round = s.round /\ t.status = s.status
           /\ t.out = s.out /\ t.outbox = s.outbox
<1>1. s \in NodeState /\ Sound(n, s)
  BY DEF Active, Sound
<1>2. /\ t \in NodeState
      /\ t.proposal = s.proposal /\ t.prevote = s.prevote /\ t.precommit = s.precommit
      /\ t.emitted = s.emitted /\ t.seen = s.seen \cup {msg} /\ t.excluded = s.excluded
      /\ t.decided = s.decided /\ t.round = s.round /\ t.status = s.status
      /\ t.out = s.out /\ t.outbox = s.outbox
  BY <1>1 DEF NodeState
<1>3. OneWord(n, t) /\ Stands(n, t) /\ Learned(t)
  BY <1>1, <1>2 DEF Sound, OneWord, Stands, Learned
<1>4. Seen(n, t) /\ Excludes(n, t) /\ Commits(t)
  BY <1>1, <1>2 DEF Sound, Seen, Excludes, Commits, Certified
<1> QED BY <1>2, <1>3, <1>4 DEF Sound, Active

\* handle_signed_envelope: a duplicate, an equivocation, an envelope that does not
\* verify and a message for the round.
LEMMA HandleSound ==
    ASSUME ConsensusInv, NEW n \in Honest, node[n].status = "running",
           NEW msg \in (sent \cup Forged) \cap Heard[n]
    PROVE  Active(n, HandleSignedEnvelope(n, node[n], msg))
<1> DEFINE s == node[n]
           t == [s EXCEPT !.seen = @ \cup {msg}]
<1>1. Active(n, s) /\ Sound(n, s)
  BY DEF ConsensusInv, Active
<1>2. s.decided = None
  BY <1>1 DEF Sound, Commits
<1>3. msg \in Message /\ msg.round \in Round /\ msg.from \in Member
  BY ForgedAssumption, MessageIsSaid DEF ConsensusInv, TypeOK
<1>4. ASSUME Conflicts(s.seen, msg) \/ msg.value = Garbled
      PROVE  Active(n, ExcludeSender(s, msg.round, msg.from))
  <2>1. msg.from \in Faulty \/ Maligned(n, msg.round, msg.from)
    <3> SUFFICES ASSUME msg.from \in Honest
                 PROVE  Maligned(n, msg.round, msg.from)
      BY <1>3 DEF Honest
    <3>1. CASE msg.value \in {Garbled, Stale}
      <4>1. msg \in Forged
        BY <3>1, HonestSpeech
      <4> QED BY <3>1, <4>1 DEF Maligned
    <3>2. CASE msg.value \notin {Garbled, Stale}
      <4>1. msg \in sent
        BY <3>2, ForgedAssumption DEF Honest
      <4>2. PICK old \in s.seen : SameKey(old, msg) /\ old # msg
        BY <1>4, <3>2 DEF Conflicts
      <4>3. old \in sent \cup (Forged \cap Heard[n]) /\ old.from = msg.from /\ old.round = msg.round
        BY <1>1, <4>2 DEF Sound, Seen, SameKey
      <4>4. old \notin sent
        BY <4>1, <4>2, HonestSpeech
      <4>5. old.value \in {Garbled, Stale}
        BY <4>3, <4>4, ForgedAssumption DEF Honest
      <4> QED BY <4>3, <4>4, <4>5 DEF Maligned
    <3> QED BY <3>1, <3>2
  <2> QED BY <1>1, <1>2, <1>3, <2>1, ExcludeSenderSound
<1>5. ASSUME msg.value # Garbled PROVE Active(n, t)
  BY <1>1, <1>3, <1>5, NoteSound
<1>6. ASSUME msg.value \notin {Garbled, Stale}
      PROVE  Active(n, ObserveMessage(n, t, msg))
  <2>1. Authentic(msg)
    BY <1>6, VerifiedIsAuthentic
  <2>2. Active(n, t)
    BY <1>5, <1>6
  <2> QED BY <2>1, <2>2, ObserveMessageSound
<1> QED BY <1>1, <1>4, <1>5, <1>6 DEF HandleSignedEnvelope

\* A governor may publish any of what a sound state would send, and what the others
\* know stays true.
LEMMA PublishSound ==
    ASSUME ConsensusInv, NEW n \in Honest, NEW t, Sound(n, t), NEW u \in NodeState,
           u.proposal = t.proposal, u.prevote = t.prevote, u.precommit = t.precommit,
           u.emitted = t.emitted, u.seen = t.seen, u.excluded = t.excluded,
           u.decided = t.decided, u.status = t.status, u.round = t.round,
           u.out \cup u.outbox \subseteq t.out \cup t.outbox,
           NEW P \in SUBSET (t.out \cup t.outbox),
           node' = [node EXCEPT ![n] = u], sent' = sent \cup P, UNCHANGED proposer
    PROVE  ConsensusInv'
<1>1. TypeOK /\ \A k \in Honest : Sound(k, node[k])
  BY DEF ConsensusInv
<1>2. \A msg \in P : msg \in Message /\ msg.from = n /\ msg \in t.emitted
  BY DEF Sound, Stands, OneWord, NodeState
<1>3. TypeOK'
  BY <1>1, <1>2 DEF TypeOK
<1>4. Sound(n, u)'
  <2>1. OneWord(n, u)' /\ Stands(n, u)'
    BY <1>2 DEF Sound, OneWord, Stands
  <2>2. Learned(u)' /\ Seen(n, u)'
    BY DEF Sound, Learned, Seen
  <2>3. Excludes(n, u)' /\ Commits(u)'
    BY DEF Sound, Excludes, Commits, Certified
  <2> QED BY <2>1, <2>2, <2>3 DEF Sound
<1>5. ASSUME NEW k \in Honest, k # n
      PROVE  Sound(k, node[k])'
  <2>1. node'[k] = node[k] /\ node[k] \in NodeState
    BY <1>1, <1>5 DEF TypeOK
  <2>2. OneWord(k, node[k])' /\ Stands(k, node[k])'
    BY <1>1, <1>2, <1>5, <2>1 DEF Sound, OneWord, Stands
  <2>3. Learned(node[k])' /\ Seen(k, node[k])'
    BY <1>1, <2>1 DEF Sound, Learned, Seen
  <2>4. Excludes(k, node[k])' /\ Commits(node[k])'
    BY <1>1, <2>1 DEF Sound, Excludes, Commits, Certified
  <2> QED BY <2>1, <2>2, <2>3, <2>4 DEF Sound
<1>6. node'[n] = u
  BY <1>1 DEF TypeOK
<1> QED BY <1>3, <1>4, <1>5, <1>6 DEF ConsensusInv

\* The driver keeps the invariant, whichever call it drives.
LEMMA DriveSound ==
    ASSUME ConsensusInv, NEW n \in Honest, NEW t, Sound(n, t), Drive(n, t), UNCHANGED proposer
    PROVE  ConsensusInv'
<1>1. t \in NodeState
  BY DEF Sound
<1>2. CASE t.status = "decided"
  <2> DEFINE u == [t EXCEPT !.out = {}, !.outbox = {}]
  <2>1. /\ u \in NodeState
        /\ u.proposal = t.proposal /\ u.prevote = t.prevote /\ u.precommit = t.precommit
        /\ u.emitted = t.emitted /\ u.seen = t.seen /\ u.excluded = t.excluded
        /\ u.decided = t.decided /\ u.round = t.round
        /\ u.status = t.status /\ u.out = {} /\ u.outbox = {}
    BY <1>1 DEF NodeState
  <2>2. node' = [node EXCEPT ![n] = u] /\ sent' = sent \cup t.out
    BY <1>2 DEF Drive
  <2> HIDE DEF u
  <2>3. t.out \in SUBSET (t.out \cup t.outbox) /\ u.out \cup u.outbox \subseteq t.out \cup t.outbox
    BY <2>1
  <2> QED BY <2>1, <2>2, <2>3, PublishSound
<1>3. CASE t.status # "decided"
  <2> DEFINE u == [t EXCEPT !.out = {}, !.outbox = @ \cup t.out]
  <2>1. /\ u \in NodeState
        /\ u.proposal = t.proposal /\ u.prevote = t.prevote /\ u.precommit = t.precommit
        /\ u.emitted = t.emitted /\ u.seen = t.seen /\ u.excluded = t.excluded
        /\ u.decided = t.decided /\ u.round = t.round
        /\ u.status = t.status /\ u.out = {} /\ u.outbox = t.outbox \cup t.out
    BY <1>1 DEF NodeState
  <2>2. node' = [node EXCEPT ![n] = u] /\ sent' = sent \cup {}
    BY <1>3 DEF Drive
  <2> HIDE DEF u
  <2>3. {} \in SUBSET (t.out \cup t.outbox) /\ u.out \cup u.outbox \subseteq t.out \cup t.outbox
    BY <2>1
  <2> QED BY <2>1, <2>2, <2>3, PublishSound
<1> QED BY <1>2, <1>3

\* The invariant holds when no governor has started.
LEMMA InitSound == Init => ConsensusInv
<1> SUFFICES ASSUME Init PROVE ConsensusInv
  OBVIOUS
<1>1. NoVotes \in [Member -> Choice] /\ \A m \in Member : NoVotes[m] = None
  BY DEF NoVotes, Choice
<1>2. 0 \in Round
  BY CommitteeAssumption DEF Round
<1>3. /\ NewNode \in NodeState
      /\ NewNode.out = {} /\ NewNode.outbox = {} /\ NewNode.seen = {} /\ NewNode.decided = None
      /\ NewNode.emitted = {}
      /\ \A r \in Round : /\ NewNode.excluded[r] = {} /\ NewNode.proposal[r] = None
                          /\ \A m \in Member : NewNode.prevote[r][m] = None
                                            /\ NewNode.precommit[r][m] = None
  <2> HIDE DEF NoVotes
  <2> QED BY <1>1, <1>2 DEF NewNode, NodeState
<1>4. sent = {} /\ node = [n \in Honest |-> NewNode]
  BY DEF Init
<1> HIDE DEF NewNode
<1>5. ASSUME NEW n \in Honest PROVE Sound(n, NewNode)
  BY <1>3, <1>4 DEF Sound, OneWord, Stands, Learned, Seen, Excludes, Commits, Honest
<1>6. TypeOK
  BY <1>3, <1>4, CommitteeAssumption DEF Init, TypeOK
<1> QED BY <1>4, <1>5, <1>6 DEF ConsensusInv

\* Every step keeps the invariant, one case per action.
LEMMA NextSound == ConsensusInv /\ [Next]_vars => ConsensusInv'
<1> SUFFICES ASSUME ConsensusInv, [Next]_vars PROVE ConsensusInv'
  OBVIOUS
<1> USE DEF ConsensusInv
<1>1. ASSUME NEW n \in Honest, Start(n), UNCHANGED proposer PROVE ConsensusInv'
  <2> DEFINE s == node[n]
             t == [s EXCEPT !.status = "running", !.pending = Queued[n]]
  <2>1. /\ t \in NodeState /\ Sound(n, s)
        /\ t.proposal = s.proposal /\ t.prevote = s.prevote /\ t.precommit = s.precommit
        /\ t.emitted = s.emitted /\ t.seen = s.seen /\ t.excluded = s.excluded
        /\ t.decided = s.decided /\ t.round = s.round /\ t.status = "running"
        /\ t.out = s.out /\ t.outbox = s.outbox
    BY CommitteeAssumption DEF Sound, NodeState
  <2>2. s.decided = None /\ s.emitted = {}
    BY <1>1 DEF Start, Sound, Commits, OneWord
  <2>3. Drive(n, EmitProposalIfLeader(n, t))
    BY <1>1 DEF Start
  <2> HIDE DEF t, s, ConsensusInv
  <2>4. Active(n, t)
    BY <2>1, <2>2, RoundsAreNat, QuietSound DEF Active
  <2>5. ~Emitted(t, "proposal", t.round)
    BY <2>1, <2>2 DEF Emitted
  <2>6. Sound(n, EmitProposalIfLeader(n, t))
    BY <2>4, <2>5, EmitProposalSound DEF Active
  <2> QED BY <1>1, <2>3, <2>6, DriveSound
<1>2. ASSUME NEW n \in Honest, Publish(n), UNCHANGED proposer PROVE ConsensusInv'
  <2> DEFINE s == node[n]
             u == [s EXCEPT !.outbox = {}]
  <2>1. /\ u \in NodeState
        /\ u.proposal = s.proposal /\ u.prevote = s.prevote /\ u.precommit = s.precommit
        /\ u.emitted = s.emitted /\ u.seen = s.seen /\ u.excluded = s.excluded
        /\ u.decided = s.decided /\ u.round = s.round
        /\ u.status = s.status /\ u.out = s.out /\ u.outbox = {}
    BY DEF Sound, NodeState
  <2>2. node' = [node EXCEPT ![n] = u] /\ sent' = sent \cup s.outbox
    BY <1>2 DEF Publish
  <2>3. Sound(n, s)
    OBVIOUS
  <2> HIDE DEF u, s
  <2>4. s.outbox \in SUBSET (s.out \cup s.outbox) /\ u.out \cup u.outbox \subseteq s.out \cup s.outbox
    BY <2>1
  <2> QED BY <1>2, <2>1, <2>2, <2>3, <2>4, PublishSound
<1>3. ASSUME NEW n \in Honest, Receive(n), UNCHANGED proposer PROVE ConsensusInv'
  <2>1. PICK msg \in (sent \cup Forged) \cap Heard[n] :
            Drive(n, HandleSignedEnvelope(n, node[n], msg))
    BY <1>3 DEF Receive
  <2>2. Sound(n, HandleSignedEnvelope(n, node[n], msg))
    BY <1>3, HandleSound DEF Receive, Active
  <2> QED BY <1>3, <2>1, <2>2, DriveSound
<1>4. ASSUME NEW n \in Honest, Timeout(n), UNCHANGED proposer PROVE ConsensusInv'
  <2>1. node[n].round + 1 \in Round /\ node[n].round + 1 > node[n].round
    BY <1>4, CommitteeAssumption DEF Timeout, Sound, NodeState, Round
  <2>2. Active(n, node[n])
    BY <1>4 DEF Timeout, Active
  <2>3. Sound(n, AdvanceRound(n, node[n], node[n].round + 1))
    BY <2>1, <2>2, AdvanceRoundSound DEF Active
  <2>4. Drive(n, AdvanceRound(n, node[n], node[n].round + 1))
    BY <1>4 DEF Timeout
  <2> QED BY <1>4, <2>3, <2>4, DriveSound
<1>5. ASSUME NEW n \in Honest, GiveUp(n) \/ Refuse(n), UNCHANGED proposer PROVE ConsensusInv'
  <2> DEFINE u == Failed(node[n])
  <2>1. Sound(n, u)
    BY FailedSound DEF Active
  <2>2. node' = [node EXCEPT ![n] = u] /\ sent' = sent \cup {}
    BY <1>5 DEF GiveUp, Refuse, TypeOK
  <2>3. u \in NodeState
    BY <2>1 DEF Sound
  <2> HIDE DEF u
  <2>4. u.out \cup u.outbox \subseteq u.out \cup u.outbox /\ {} \in SUBSET (u.out \cup u.outbox)
    OBVIOUS
  <2> QED BY <1>5, <2>1, <2>2, <2>3, <2>4, PublishSound
<1>6. CASE UNCHANGED vars
  <2>1. node' = node /\ sent' = sent /\ proposer' = proposer
    BY <1>6 DEF vars
  <2>2. TypeOK'
    BY <2>1 DEF TypeOK
  <2>3. ASSUME NEW n \in Honest PROVE Sound(n, node[n])'
    <3>1. Sound(n, node[n])
      OBVIOUS
    <3>2. OneWord(n, node[n])' /\ Stands(n, node[n])' /\ Learned(node[n])'
      BY <2>1, <3>1 DEF Sound, OneWord, Stands, Learned
    <3>3. Seen(n, node[n])' /\ Excludes(n, node[n])' /\ Commits(node[n])'
      BY <2>1, <3>1 DEF Sound, Seen, Excludes, Commits, Certified
    <3> QED BY <2>1, <3>1, <3>2, <3>3 DEF Sound
  <2> QED BY <2>2, <2>3
<1> QED BY <1>1, <1>2, <1>3, <1>4, <1>5, <1>6 DEF Next, Step

\* ConsensusNode and drive_round keep every governor's state sound: it says one thing of
\* a kind in a round, knows of honest members only what they said, excludes one of them
\* only over an envelope that is not its word in this decision and commits on 2f+1
\* precommits only.
THEOREM ConsensusInvariant == Spec => []ConsensusInv
<1> QED BY InitSound, NextSound, PTL DEF Spec

\* exclude_sender: whatever is lost, repeated or reordered and whatever the faulty send,
\* a governor excludes an honest one only where an envelope in that one's name came to it
\* that does not verify, or that is of another decision.
THEOREM ExclusionsAreCaused == Spec => []ExclusionsHaveCause
<1>1. ConsensusInv => ExclusionsHaveCause
  BY DEF ConsensusInv, Sound, Excludes, ExclusionsHaveCause, Honest
<1> QED BY <1>1, ConsensusInvariant, PTL

\* VoteLedger: what a governor's ledgers hold of an honest one is what that one said.
THEOREM LedgersAgree == Spec => []LedgersAreHonest
<1>1. ASSUME ConsensusInv, NEW n \in Honest, NEW m \in Honest, NEW kind, NEW r, NEW v,
             Says(m, kind, r, v) \in sent \cup node[n].emitted
      PROVE  Says(m, kind, r, v) \in node[m].emitted
  <2>1. Says(m, kind, r, v).from = m
    BY SaysFields
  <2>2. OneWord(n, node[n]) /\ Stands(m, node[m])
    BY <1>1 DEF ConsensusInv, Sound
  <2> QED BY <1>1, <2>1, <2>2 DEF OneWord, Stands
<1>2. ASSUME ConsensusInv, NEW n \in Honest PROVE Learned(node[n])
  BY <1>2 DEF ConsensusInv, Sound
<1>3. ConsensusInv => LedgersAreHonest
  BY <1>1, <1>2 DEF LedgersAreHonest, Learned
<1> QED BY <1>3, ConsensusInvariant, PTL

\* The committee is no larger than 3f + 1, and no more than f of it are faulty.
Tolerable == Cardinality(Member) <= 3 * MaxFaulty + 1 /\ Cardinality(Faulty) <= MaxFaulty

\* Two sets of 2f + 1 members of such a committee share an honest one.
LEMMA QuorumsMeet ==
    ASSUME Tolerable, NEW P \in SUBSET Member, NEW Q \in SUBSET Member,
           Cardinality(P) >= Threshold, Cardinality(Q) >= Threshold
    PROVE  \E m \in Honest : m \in P /\ m \in Q
<1>1. /\ IsFiniteSet(Member) /\ IsFiniteSet(P) /\ IsFiniteSet(Q) /\ IsFiniteSet(Faulty)
      /\ P \cup Q \in SUBSET Member /\ P \cap Q \in SUBSET Member /\ MaxFaulty \in Nat
  BY CommitteeAssumption, FS_Subset
<1>2. /\ Cardinality(P \cup Q) = Cardinality(P) + Cardinality(Q) - Cardinality(P \cap Q)
      /\ Cardinality(P \cup Q) <= Cardinality(Member)
  BY <1>1, FS_Union, FS_Subset
<1>3. /\ IsFiniteSet(P \cup Q) /\ IsFiniteSet(P \cap Q)
  BY <1>1, FS_Subset
<1>4. /\ Cardinality(P) \in Nat /\ Cardinality(Q) \in Nat /\ Cardinality(Member) \in Nat
      /\ Cardinality(P \cup Q) \in Nat /\ Cardinality(P \cap Q) \in Nat
      /\ Cardinality(Faulty) \in Nat
  BY <1>1, <1>3, FS_CardinalityType
<1>5. Cardinality(P \cap Q) > Cardinality(Faulty)
  BY <1>1, <1>2, <1>4 DEF Tolerable, Threshold
<1>6. ~(P \cap Q \subseteq Faulty)
  BY <1>1, <1>4, <1>5, FS_Subset
<1> QED BY <1>6 DEF Honest

\* Two things an honest governor has said of one kind in one round are the same.
LEMMA OneVoteEach ==
    ASSUME ConsensusInv, NEW m \in Honest, NEW kind, NEW r, NEW v, NEW w,
           Says(m, kind, r, v) \in node[m].emitted, Says(m, kind, r, w) \in node[m].emitted
    PROVE  v = w
<1>1. SameKey(Says(m, kind, r, v), Says(m, kind, r, w))
  BY SaysFields DEF SameKey
<1>2. OneWord(m, node[m])
  BY DEF ConsensusInv, Sound
<1>3. Says(m, kind, r, v) = Says(m, kind, r, w)
  BY <1>1, <1>2 DEF OneWord
<1> QED BY <1>3, SaysFields

\* commit: in a committee of at most 3f + 1 governors of which at most f are faulty,
\* two governors that commit in the same round commit the same proposal id, and the same
\* payload when the round's proposer is honest.
THEOREM RoundsAgree == Tolerable => (Spec => []RoundAgreement)
<1> SUFFICES ASSUME Tolerable PROVE Spec => []RoundAgreement
  OBVIOUS
<1>1. ASSUME ConsensusInv, LedgersAreHonest, NEW n \in Honest, NEW k \in Honest,
             Decided(n), Decided(k), node[n].decided.round = node[k].decided.round
      PROVE  /\ node[n].decided.value.id = node[k].decided.value.id
             /\ proposer[node[n].decided.round] \in Honest =>
                    node[n].decided.value = node[k].decided.value
  <2> DEFINE c == node[n].decided
             e == node[k].decided
             r == c.round
  <2>1. /\ c \in [round : Round, value : Proposal] /\ e \in [round : Round, value : Proposal]
        /\ Certified(node[n], c) /\ Certified(node[k], e)
        /\ node[n].proposal[r] = c.value /\ node[k].proposal[r] = e.value
        /\ Learned(node[n]) /\ Learned(node[k])
    BY <1>1 DEF ConsensusInv, Sound, Commits, Decided, NodeState
  <2>2. PICK P \in SUBSET Member : /\ Cardinality(P) >= Threshold
                                   /\ \A m \in P : node[n].precommit[r][m] = c.value.id
    BY <2>1 DEF Certified
  <2>3. PICK Q \in SUBSET Member : /\ Cardinality(Q) >= Threshold
                                   /\ \A m \in Q : node[k].precommit[r][m] = e.value.id
    BY <1>1, <2>1 DEF Certified
  <2>4. PICK m \in Honest : m \in P /\ m \in Q
    BY <2>2, <2>3, QuorumsMeet
  <2>5. /\ c.value.id # None /\ e.value.id # None /\ c.value # None /\ e.value # None
        /\ r \in Round
    BY <2>1, ValuesDiffer
  <2> HIDE DEF c, e, r
  <2>6. c.value.id = e.value.id
    <3>1. /\ Says(m, "precommit", r, c.value.id) \in node[m].emitted
          /\ Says(m, "precommit", r, e.value.id) \in node[m].emitted
      BY <1>1, <2>2, <2>3, <2>4, <2>5 DEF LedgersAreHonest
    <3> QED BY <1>1, <3>1, OneVoteEach
  <2>7. ASSUME proposer[r] \in Honest PROVE c.value = e.value
    <3> DEFINE q == proposer[r]
    <3>1. /\ Says(q, "proposal", r, c.value) \in sent \cup node[n].emitted
          /\ Says(q, "proposal", r, e.value) \in sent \cup node[k].emitted
      BY <2>1, <2>5, <2>7 DEF Learned
    <3>2. ASSUME NEW j \in Honest, NEW v, Says(q, "proposal", r, v) \in sent \cup node[j].emitted
          PROVE  Says(q, "proposal", r, v) \in node[q].emitted
      <4>1. OneWord(j, node[j]) /\ Stands(q, node[q])
        BY <1>1, <2>7 DEF ConsensusInv, Sound
      <4> QED BY <3>2, <4>1, SaysFields DEF OneWord, Stands
    <3> HIDE DEF q
    <3>3. /\ Says(q, "proposal", r, c.value) \in node[q].emitted
          /\ Says(q, "proposal", r, e.value) \in node[q].emitted
      BY <3>1, <3>2
    <3> QED BY <1>1, <2>7, <3>3, OneVoteEach DEF q
  <2> QED BY <2>6, <2>7 DEF c, e, r
<1>2. ConsensusInv /\ LedgersAreHonest => RoundAgreement
  BY <1>1 DEF RoundAgreement
<1> QED BY <1>2, ConsensusInvariant, LedgersAgree, PTL
-----------------------------------------------------------------------------
(* The first round commits when its leader is honest and nothing is lost *)

\* The first round, seen by a governor still in it that nothing reached but what the
\* honest ones said.
FirstRound(s) ==
    /\ s.status = "running" /\ s.round = 0
    /\ \A msg \in s.seen : msg.from \in Honest /\ msg.value # Stale
    /\ \A r \in Round : s.excluded[r] = {}

\* What a governor has published or is about to.
Said(s) == sent \cup s.out \cup s.outbox

\* It says what it votes, and the leader has proposed.
Speaks(n, s) ==
    /\ s.emitted \subseteq Said(s)
    /\ s.prevote[0][n] # None => Says(n, "prevote", 0, s.prevote[0][n]) \in s.emitted
    /\ s.precommit[0][n] # None => Says(n, "precommit", 0, s.precommit[0][n]) \in s.emitted
    /\ proposer[0] = n =>
          s.proposal[0] # None /\ Says(n, "proposal", 0, s.proposal[0]) \in s.emitted

\* Of the messages M it has recorded every one of the first round.
Noted(s, msg) ==
    /\ msg.kind = "proposal" => s.proposal[0] = msg.value
    /\ msg.kind = "prevote" => s.prevote[0][msg.from] = msg.value
    /\ msg.kind = "precommit" => s.precommit[0][msg.from] = msg.value

Records(s, M) == \A msg \in M : msg.round = 0 => Noted(s, msg)

\* Only honest members have voted, and it has prevoted what the leader proposed.
HonestVotes(s) == \A m \in Member : s.prevote[0][m] # None => m \in Honest
Follows(n, s) ==
    s.prevote[0][n] = IF s.proposal[0] = None THEN None ELSE s.proposal[0].id

\* It precommits as soon as 2f+1 prevotes agree, and only then.
Answers(n, s) ==
    \A v \in Vote : Quorum(s.prevote[0], v) => s.precommit[0][n] # None
Backs(n, s) == s.precommit[0][n] # None => Quorum(s.prevote[0], s.precommit[0][n])

\* A leader that has precommitted its proposal and not committed it misses precommits.
\* (Of the others this is false: one that has the precommits before the proposal stays.)
Waits(n, s) ==
    proposer[0] = n /\ s.precommit[0][n] # None /\ s.proposal[0] # None =>
        (s.precommit[0][n] = s.proposal[0].id => ~Quorum(s.precommit[0], s.precommit[0][n]))

Prompt(n, s, M) ==
    /\ Speaks(n, s) /\ Records(s, M) /\ Records(s, s.emitted)
    /\ HonestVotes(s) /\ Follows(n, s)
    /\ Answers(n, s) /\ Backs(n, s) /\ Waits(n, s)

\* The inductive invariant of the first round.
FirstRoundInv ==
    \A n \in Honest :
        /\ node[n].out = {}
        /\ node[n].status = "idle" => node[n] = NewNode
        /\ FirstRound(node[n]) => Prompt(n, node[n], node[n].seen)

\* record_vote of one vote not cast before: nobody's vote is lost, and only the tally
\* of that value grows.
LEMMA VoteCounts ==
    ASSUME NEW f \in [Member -> Choice], NEW g \in [Member -> Choice], NEW m \in Member,
           NEW v \in Vote, f[m] \in {None, v}, g = [f EXCEPT ![m] = v]
    PROVE  /\ \A w \in Vote : Quorum(f, w) => Quorum(g, w)
           /\ \A w \in Vote : w # v => (Quorum(g, w) <=> Quorum(f, w))
<1>1. \A k \in Member : g[k] = IF k = m THEN v ELSE f[k]
  OBVIOUS
<1>2. \A w \in Vote : Votes(f, w) \subseteq Votes(g, w)
  BY <1>1, ValuesDiffer DEF Votes
<1>3. \A w \in Vote : w # v => Votes(g, w) = Votes(f, w)
  BY <1>1, ValuesDiffer DEF Votes
<1>4. ASSUME NEW w \in Vote, Quorum(f, w) PROVE Quorum(g, w)
  <2>1. IsFiniteSet(Votes(g, w)) /\ IsFiniteSet(Votes(f, w))
    BY CommitteeAssumption, FS_Subset DEF Votes
  <2>2. Cardinality(Votes(f, w)) <= Cardinality(Votes(g, w))
    BY <1>2, <2>1, FS_Subset
  <2>3. Cardinality(Votes(f, w)) \in Nat /\ Cardinality(Votes(g, w)) \in Nat
    BY <2>1, FS_CardinalityType
  <2> QED BY <1>4, <2>2, <2>3, CommitteeAssumption DEF Quorum, Threshold
<1> QED BY <1>3, <1>4 DEF Quorum

\* A committee that has not voted has no quorum.
LEMMA NobodyVoted ==
    ASSUME NEW f \in [Member -> Choice], \A m \in Member : f[m] = None,
           NEW v \in Vote
    PROVE  ~Quorum(f, v)
<1>1. Votes(f, v) = {}
  BY ValuesDiffer DEF Votes
<1> QED BY <1>1, FS_EmptySet, CommitteeAssumption DEF Quorum, Threshold

\* What an operation of the node leaves alone, and how it may end the round.
SameRound(s, t) ==
    /\ t.round = s.round /\ t.seen = s.seen /\ t.excluded = s.excluded
    /\ t.status \in {s.status, "decided", "failed"}

\* emit_precommit stays in the round.
LEMMA EmitPrecommitRound ==
    ASSUME NEW n, NEW s \in NodeState, NEW r, NEW v
    PROVE  SameRound(s, EmitPrecommit(n, s, r, v))
BY DEF SameRound, EmitPrecommit, Commit, Send, RecordPrecommit, NodeState

\* emit_prevote stays in the round.
LEMMA EmitPrevoteRound ==
    ASSUME NEW n \in Honest, NEW s \in NodeState, NEW r \in Round, NEW v \in Vote
    PROVE  SameRound(s, EmitPrevote(n, s, r, v))
<1> DEFINE t == RecordPrevote(Send(s, Says(n, "prevote", r, v)), r, n, v)
<1>1. Says(n, "prevote", r, v) \in Message
  BY SaysType, CommitteeAssumption DEF Honest
<1>2. t \in NodeState /\ SameRound(s, t)
  BY <1>1 DEF NodeState, Send, RecordPrevote, SameRound, Choice
<1> HIDE DEF t
<1>3. SameRound(t, EmitPrecommit(n, t, r, v))
  BY <1>2, EmitPrecommitRound
<1>4. EmitPrevote(n, s, r, v) \in {s, t, EmitPrecommit(n, t, r, v)}
  BY DEF EmitPrevote, t
<1> QED BY <1>2, <1>3, <1>4 DEF SameRound

\* emit_proposal_if_leader stays in the round.
LEMMA EmitProposalRound ==
    ASSUME NEW n \in Honest, NEW s \in NodeState
    PROVE  SameRound(s, EmitProposalIfLeader(n, s))
<1> DEFINE r == s.round
           v == s.pending
           t == RecordProposal(Send(s, Says(n, "proposal", r, v)), r, v)
<1> SUFFICES ASSUME v # None PROVE SameRound(s, EmitPrevote(n, t, r, v.id))
  BY DEF EmitProposalIfLeader, SameRound
<1>1. r \in Round /\ v \in Proposal /\ v.id \in Vote
  BY ValuesDiffer DEF NodeState
<1> HIDE DEF r, v
<1>2. Says(n, "proposal", r, v) \in Message
  BY <1>1, SaysType, CommitteeAssumption DEF Honest
<1>3. t \in NodeState /\ SameRound(s, t)
  BY <1>1, <1>2 DEF NodeState, Send, RecordProposal, SameRound
<1> HIDE DEF t
<1> QED BY <1>1, <1>3, EmitPrevoteRound DEF SameRound

\* A governor that has voted has said so, and one that has not has not.
LEMMA SaidIsVoted ==
    ASSUME NEW n \in Honest, NEW s \in NodeState, Speaks(n, s), Records(s, s.emitted),
           \A msg \in s.emitted : msg.from = n
    PROVE  /\ Emitted(s, "prevote", 0) <=> s.prevote[0][n] # None
           /\ Emitted(s, "precommit", 0) <=> s.precommit[0][n] # None
<1>1. /\ s.prevote[0][n] # None => Emitted(s, "prevote", 0)
      /\ s.precommit[0][n] # None => Emitted(s, "precommit", 0)
  BY SaysFields DEF Speaks, Emitted
<1>2. \A msg \in s.emitted : msg.value # None
  <2>1. \A msg \in s.emitted : msg.value \in Value
    BY DEF NodeState, Message
  <2> QED BY <2>1, ValueAssumption
<1>3. /\ Emitted(s, "prevote", 0) => s.prevote[0][n] # None
      /\ Emitted(s, "precommit", 0) => s.precommit[0][n] # None
  BY <1>2 DEF Emitted, Records, Noted
<1> QED BY <1>1, <1>3

\* emit_precommit, called with a value 2f+1 have prevoted: the node now answers, and a
\* leader that finds the precommits for its proposal complete commits.
LEMMA EmitPrecommitPrompt ==
    ASSUME NEW n \in Honest, NEW s \in NodeState, NEW v \in Vote,
           NEW M \in SUBSET Message, Quorum(s.prevote[0], v),
           \A msg \in s.emitted : msg.from = n,
           Speaks(n, s), Records(s, M), Records(s, s.emitted), HonestVotes(s), Follows(n, s),
           Backs(n, s), Waits(n, s), EmitPrecommit(n, s, 0, v).status = "running"
    PROVE  Prompt(n, EmitPrecommit(n, s, 0, v), M)
<1> DEFINE msg == Says(n, "precommit", 0, v)
           t == RecordPrecommit(Send(s, msg), 0, n, v)
           c == [t EXCEPT !.status = "decided",
                          !.decided = [round |-> 0, value |-> t.proposal[0]],
                          !.pending = IF @ # None /\ @.id = v THEN None ELSE @]
<1>1. n \in Member /\ 0 \in Round /\ v # None
  BY CommitteeAssumption, ValuesDiffer DEF Honest, Round
<1>2. CASE s.precommit[0][n] # None
  <2>1. EmitPrecommit(n, s, 0, v) = s
    BY <1>2, SaidIsVoted DEF EmitPrecommit
  <2> QED BY <1>2, <2>1 DEF Prompt, Answers
<1>3. CASE s.precommit[0][n] = None
  <2>1. /\ t.proposal = s.proposal /\ t.prevote = s.prevote /\ t.status = s.status
        /\ t.emitted = s.emitted \cup {msg}
        /\ t.out = s.out \cup {msg} /\ t.outbox = s.outbox
    BY DEF NodeState, Send, RecordPrecommit
  <2>2. /\ t.precommit[0][n] = v
        /\ \A k \in Member : k # n => t.precommit[0][k] = s.precommit[0][k]
    BY <1>1 DEF NodeState, Send, RecordPrecommit
  <2>3. s.proposal[0] \in Proposal \cup {None}
    BY <1>1 DEF NodeState
  <2>4. EmitPrecommit(n, s, 0, v) = IF Quorum(t.precommit[0], v) THEN Commit(t, 0, v) ELSE t
    BY <1>3, SaidIsVoted DEF EmitPrecommit
  <2>5. c.status = "decided"
    BY DEF Send, RecordPrecommit, NodeState
  <2>6. Commit(t, 0, v) \in {t, c}
    BY DEF Commit
  <2> HIDE DEF t
  <2>7. EmitPrecommit(n, s, 0, v) = t
    BY <2>4, <2>5, <2>6
  <2>8. Waits(n, t)
    <3> SUFFICES ASSUME t.proposal[0] # None, v = t.proposal[0].id, Quorum(t.precommit[0], v)
                 PROVE  FALSE
      BY <2>2 DEF Waits
    <3>1. v # Nil
      BY <2>1, <2>3, ValuesDiffer
    <3>2. Commit(t, 0, v) = c
      BY <2>1, <3>1 DEF Commit
    <3> QED BY <2>4, <2>5, <3>2
  <2>9. Speaks(n, t)
    BY <2>1, <2>2 DEF Speaks, Said
  <2>10. s.emitted \in SUBSET Message
    BY DEF NodeState
  <2>11. /\ \A old \in Message : Noted(s, old) => Noted(t, old)
         /\ Noted(t, msg)
    <3>1. \A old \in Message : Noted(s, old) => Noted(t, old)
      <4> SUFFICES ASSUME NEW old \in Message, Noted(s, old) PROVE Noted(t, old)
        OBVIOUS
      <4>1. old.value # None /\ old.from \in Member
        BY ValueAssumption DEF Message
      <4> QED BY <1>3, <2>1, <2>2, <4>1 DEF Noted
    <3>2. Noted(t, msg)
      BY <2>2, SaysFields DEF Noted
    <3> QED BY <3>1, <3>2
  <2>12. Records(t, M) /\ Records(t, t.emitted)
    BY <2>1, <2>10, <2>11 DEF Records
  <2>13. HonestVotes(t) /\ Follows(n, t) /\ Answers(n, t) /\ Backs(n, t)
    BY <1>1, <2>1, <2>2 DEF HonestVotes, Follows, Answers, Backs
  <2> QED BY <2>7, <2>8, <2>9, <2>12, <2>13 DEF Prompt
<1> QED BY <1>2, <1>3

\* A prevote is recorded: if it completes a quorum the node precommits.
LEMMA PrevotePrompt ==
    ASSUME NEW n \in Honest, NEW s \in NodeState, NEW t \in NodeState,
           NEW m \in Honest, NEW v \in Vote, s.prevote[0][m] \in {None, v},
           t.prevote = [s.prevote EXCEPT ![0][m] = v],
           t.proposal = s.proposal, t.precommit = s.precommit,
           NEW M \in SUBSET Message, NEW N \in SUBSET Message,
           \A msg \in t.emitted : msg.from = n,
           Speaks(n, t), Records(s, M), Records(s, s.emitted), HonestVotes(s), Follows(n, t),
           Answers(n, s), Backs(n, s), Waits(n, s),
           \A msg \in (N \ M) \cup (t.emitted \ s.emitted) : msg.round = 0 => Noted(t, msg),
           NEW u, u = IF Quorum(t.prevote[0], v) THEN EmitPrecommit(n, t, 0, v) ELSE t,
           u.status = "running"
    PROVE  Prompt(n, u, N)
<1>1. n \in Member /\ m \in Member /\ 0 \in Round /\ None \notin Value
  BY CommitteeAssumption, ValueAssumption DEF Honest, Round
<1>2. /\ s.prevote[0] \in [Member -> Choice] /\ t.prevote[0] \in [Member -> Choice]
      /\ t.prevote[0] = [s.prevote[0] EXCEPT ![m] = v] /\ s.precommit[0][n] \in Choice
  BY <1>1 DEF NodeState
<1>3. /\ \A w \in Vote : Quorum(s.prevote[0], w) => Quorum(t.prevote[0], w)
      /\ \A w \in Vote : w # v => (Quorum(t.prevote[0], w) <=> Quorum(s.prevote[0], w))
  BY <1>1, <1>2, VoteCounts
<1>4. t.prevote[0][m] = v /\ \A k \in Member : k # m => t.prevote[0][k] = s.prevote[0][k]
  BY <1>1, <1>2
<1>5. \A old \in Message : Noted(s, old) => Noted(t, old)
  <2> SUFFICES ASSUME NEW old \in Message, Noted(s, old) PROVE Noted(t, old)
    OBVIOUS
  <2>1. old.value # None /\ old.from \in Member
    BY <1>1 DEF Message
  <2> QED BY <1>4, <2>1 DEF Noted
<1>6. Records(t, N) /\ Records(t, t.emitted)
  <2>1. t.emitted \in SUBSET Message
    BY DEF NodeState
  <2> QED BY <1>5, <2>1 DEF Records
<1>7. HonestVotes(t)
  BY <1>4 DEF HonestVotes
<1>8. Backs(n, t) /\ Waits(n, t)
  BY <1>2, <1>3 DEF Backs, Waits, Choice
<1>9. CASE Quorum(t.prevote[0], v)
  BY <1>6, <1>7, <1>8, <1>9, EmitPrecommitPrompt
<1>10. CASE ~Quorum(t.prevote[0], v)
  <2>1. Answers(n, t)
    BY <1>3, <1>10 DEF Answers
  <2> QED BY <1>6, <1>7, <1>8, <1>10, <2>1 DEF Prompt
<1> QED BY <1>9, <1>10

\* emit_prevote for the proposal just recorded.
LEMMA EmitPrevotePrompt ==
    ASSUME NEW n \in Honest, NEW s \in NodeState, NEW p \in Proposal, NEW M \in SUBSET Message,
           s.proposal[0] = p, s.prevote[0][n] = None, \A msg \in s.emitted : msg.from = n,
           Speaks(n, s), Records(s, M), Records(s, s.emitted), HonestVotes(s),
           Answers(n, s), Backs(n, s), Waits(n, s),
           EmitPrevote(n, s, 0, p.id).status = "running"
    PROVE  Prompt(n, EmitPrevote(n, s, 0, p.id), M)
<1> DEFINE v == p.id
           msg == Says(n, "prevote", 0, v)
           t == RecordPrevote(Send(s, msg), 0, n, v)
           u == EmitPrevote(n, s, 0, v)
<1>1. n \in Member /\ 0 \in Round /\ v \in Vote /\ v # None /\ p # None
  BY CommitteeAssumption, ValuesDiffer DEF Honest, Round
<1>2. /\ msg \in Message /\ msg.from = n /\ msg.kind = "prevote"
      /\ msg.round = 0 /\ msg.value = v
  BY <1>1, SaysType, SaysFields
<1> HIDE DEF v
<1>3. /\ t \in NodeState /\ t.prevote = [s.prevote EXCEPT ![0][n] = v]
      /\ t.proposal = s.proposal /\ t.precommit = s.precommit
      /\ t.emitted = s.emitted \cup {msg}
      /\ t.out = s.out \cup {msg} /\ t.outbox = s.outbox
  BY <1>1, <1>2 DEF NodeState, Send, RecordPrevote, Choice
<1>4. u = IF Quorum(t.prevote[0], v) THEN EmitPrecommit(n, t, 0, v) ELSE t
  BY SaidIsVoted DEF EmitPrevote
<1>5. u.status = "running"
  BY DEF v
<1> HIDE DEF t, u
<1>6. t.prevote[0][n] = v
  BY <1>1, <1>3 DEF NodeState
<1>7. Speaks(n, t) /\ Follows(n, t)
  BY <1>1, <1>3, <1>6 DEF Speaks, Said, Follows, v
<1>8. Noted(t, msg)
  BY <1>2, <1>6 DEF Noted
<1> HIDE DEF msg
<1>9. /\ \A old \in (M \ M) \cup (t.emitted \ s.emitted) : old.round = 0 => Noted(t, old)
      /\ \A old \in t.emitted : old.from = n
  BY <1>2, <1>3, <1>8
<1>10. Prompt(n, u, M)
  BY <1>1, <1>3, <1>4, <1>5, <1>7, <1>9, PrevotePrompt
<1> QED BY <1>10 DEF u, v

\* observe_proposal of the first round's leader.
LEMMA ObserveProposalPrompt ==
    ASSUME NEW n \in Honest, NEW s \in NodeState, NEW M \in SUBSET Message, Prompt(n, s, M),
           \A old \in s.emitted : old.from = n,
           NEW msg \in Message, msg.kind = "proposal", msg.round = 0, msg.value \in Proposal,
           NEW u, u = ObserveProposal(n, s, msg.from, 0, msg.value), u.status = "running"
    PROVE  Prompt(n, u, M \cup {msg})
<1> DEFINE v == msg.value
           t == RecordProposal(s, 0, v)
<1>1. n \in Member /\ 0 \in Round /\ v # None /\ v.id # None
  BY CommitteeAssumption, ValuesDiffer DEF Honest, Round
<1>2. Failed(s).status = "failed"
  BY DEF Failed, NodeState
<1>3. s.proposal[0] \in {None, v} /\ u = EmitPrevote(n, t, 0, v.id) /\ msg.from = proposer[0]
  BY <1>2 DEF ObserveProposal
<1>4. /\ t \in NodeState /\ t.proposal[0] = v
      /\ t.prevote = s.prevote /\ t.precommit = s.precommit
      /\ t.emitted = s.emitted /\ t.out = s.out /\ t.outbox = s.outbox
  BY <1>1 DEF NodeState, RecordProposal
<1>5. CASE s.proposal[0] = v
  <2>1. t = s
    BY <1>1, <1>5 DEF NodeState, RecordProposal
  <2>2. Emitted(s, "prevote", 0)
    BY <1>1, <1>5, SaidIsVoted DEF Prompt, Follows
  <2>3. u = s
    BY <1>3, <2>1, <2>2 DEF EmitPrevote
  <2>4. Noted(s, msg)
    BY <1>5 DEF Noted
  <2> QED BY <2>3, <2>4 DEF Prompt, Records
<1>6. CASE s.proposal[0] = None
  <2> HIDE DEF t
  <2>1. proposer[0] # n /\ t.prevote[0][n] = None
    BY <1>4, <1>6 DEF Prompt, Speaks, Follows
  <2>2. Speaks(n, t) /\ HonestVotes(t) /\ Answers(n, t) /\ Backs(n, t) /\ Waits(n, t)
    BY <1>4, <2>1 DEF Prompt, Speaks, Said, HonestVotes, Answers, Backs, Waits
  <2>3. \A old \in Message : Noted(s, old) => Noted(t, old)
    <3> SUFFICES ASSUME NEW old \in Message, Noted(s, old) PROVE Noted(t, old)
      OBVIOUS
    <3>1. old.value # None
      BY ValueAssumption DEF Message
    <3> QED BY <1>4, <1>6, <3>1 DEF Noted
  <2>4. Records(t, M \cup {msg}) /\ Records(t, t.emitted)
    <3>1. s.emitted \in SUBSET Message
      BY DEF NodeState
    <3>2. Noted(t, msg)
      BY <1>4 DEF Noted
    <3> QED BY <1>4, <2>3, <3>1, <3>2 DEF Prompt, Records
  <2>5. \A old \in t.emitted : old.from = n
    BY <1>4
  <2> HIDE DEF v
  <2>6. v \in Proposal /\ M \cup {msg} \in SUBSET Message
    BY DEF v
  <2> QED BY <1>3, <1>4, <2>1, <2>2, <2>4, <2>5, <2>6, EmitPrevotePrompt
<1> QED BY <1>3, <1>5, <1>6

\* observe_prevote of an honest peer, or of the node itself.
LEMMA ObservePrevotePrompt ==
    ASSUME NEW n \in Honest, NEW s \in NodeState, NEW M \in SUBSET Message, Prompt(n, s, M),
           \A old \in s.emitted : old.from = n,
           NEW msg \in Message, msg.kind = "prevote", msg.round = 0,
           msg.value \in Vote, msg.from \in Honest,
           msg.from = n => s.prevote[0][n] = msg.value,
           NEW u, u = ObservePrevote(n, s, msg.from, 0, msg.value), u.status = "running"
    PROVE  Prompt(n, u, M \cup {msg})
<1> DEFINE v == msg.value
           m == msg.from
           t == RecordPrevote(s, 0, m, v)
<1>1. n \in Member /\ m \in Member /\ 0 \in Round
  BY CommitteeAssumption DEF Honest, Round
<1>2. Failed(s).status = "failed"
  BY DEF Failed, NodeState
<1>3. /\ s.prevote[0][m] \in {None, v}
      /\ u = IF Quorum(t.prevote[0], v) THEN EmitPrecommit(n, t, 0, v) ELSE t
  BY <1>2 DEF ObservePrevote
<1>4. /\ t \in NodeState /\ t.prevote = [s.prevote EXCEPT ![0][m] = v]
      /\ t.proposal = s.proposal /\ t.precommit = s.precommit
      /\ t.emitted = s.emitted /\ t.out = s.out /\ t.outbox = s.outbox
  BY <1>1 DEF NodeState, RecordPrevote, Choice
<1> HIDE DEF t
<1>5. t.prevote[0][m] = v /\ t.prevote[0][n] = s.prevote[0][n]
  BY <1>1, <1>4 DEF NodeState
<1>6. Speaks(n, t) /\ Follows(n, t)
  BY <1>4, <1>5 DEF Prompt, Speaks, Said, Follows
<1>7. Noted(t, msg)
  BY <1>5 DEF Noted
<1>8. /\ \A old \in ((M \cup {msg}) \ M) \cup (t.emitted \ s.emitted) :
            old.round = 0 => Noted(t, old)
      /\ \A old \in t.emitted : old.from = n
  BY <1>4, <1>7
<1>9. /\ Records(s, M) /\ Records(s, s.emitted) /\ HonestVotes(s)
      /\ Answers(n, s) /\ Backs(n, s) /\ Waits(n, s)
      /\ M \cup {msg} \in SUBSET Message
  BY DEF Prompt
<1> HIDE DEF m, v
<1> QED BY <1>3, <1>4, <1>6, <1>8, <1>9, PrevotePrompt DEF m, v

\* observe_precommit of an honest peer, or of the node itself: the leader commits on
\* the precommit that completes its quorum.
LEMMA ObservePrecommitPrompt ==
    ASSUME NEW n \in Honest, NEW s \in NodeState, NEW M \in SUBSET Message, Prompt(n, s, M),
           NEW msg \in Message, msg.kind = "precommit", msg.round = 0, msg.value \in Vote,
           msg.from = n => s.precommit[0][n] = msg.value,
           NEW u, u = ObservePrecommit(n, s, msg.from, 0, msg.value), u.status = "running"
    PROVE  Prompt(n, u, M \cup {msg})
<1> DEFINE v == msg.value
           m == msg.from
           t == RecordPrecommit(s, 0, m, v)
           c == [t EXCEPT !.status = "decided",
                          !.decided = [round |-> 0, value |-> t.proposal[0]],
                          !.pending = IF @ # None /\ @.id = v THEN None ELSE @]
<1>1. n \in Member /\ m \in Member /\ 0 \in Round /\ v # None
  BY CommitteeAssumption, ValuesDiffer, MessageIsSaid DEF Honest, Round
<1>2. Failed(s).status = "failed"
  BY DEF Failed, NodeState
<1>3. /\ s.precommit[0][m] \in {None, v}
      /\ u = IF Quorum(t.precommit[0], v) THEN Commit(t, 0, v) ELSE t
  BY <1>2 DEF ObservePrecommit
<1>4. /\ t \in NodeState /\ t.precommit = [s.precommit EXCEPT ![0][m] = v]
      /\ t.proposal = s.proposal /\ t.prevote = s.prevote
      /\ t.emitted = s.emitted /\ t.out = s.out /\ t.outbox = s.outbox
  BY <1>1 DEF NodeState, RecordPrecommit, Choice
<1> HIDE DEF t
<1>5. c.status = "decided"
  BY <1>4 DEF NodeState
<1>6. u = t /\ ~(/\ v # Nil /\ t.proposal[0] # None /\ t.proposal[0].id = v
                 /\ Quorum(t.prevote[0], v) /\ Quorum(t.precommit[0], v))
  BY <1>3, <1>5 DEF Commit
<1>7. /\ t.precommit[0][m] = v /\ t.precommit[0][n] = s.precommit[0][n]
      /\ \A k \in Member : k # m => t.precommit[0][k] = s.precommit[0][k]
  BY <1>1, <1>4 DEF NodeState
<1>8. Speaks(n, t) /\ HonestVotes(t) /\ Follows(n, t) /\ Answers(n, t) /\ Backs(n, t)
  BY <1>4, <1>7 DEF Prompt, Speaks, Said, HonestVotes, Follows, Answers, Backs
<1>9. Records(t, M \cup {msg}) /\ Records(t, t.emitted)
  <2>1. \A old \in Message : Noted(s, old) => Noted(t, old)
    <3> SUFFICES ASSUME NEW old \in Message, Noted(s, old) PROVE Noted(t, old)
      OBVIOUS
    <3>1. old.value # None /\ old.from \in Member
      BY ValueAssumption DEF Message
    <3> QED BY <1>3, <1>4, <1>7, <3>1 DEF Noted
  <2>2. Noted(t, msg)
    BY <1>7 DEF Noted
  <2>3. s.emitted \in SUBSET Message
    BY DEF NodeState
  <2> QED BY <1>4, <2>1, <2>2, <2>3 DEF Prompt, Records
<1>10. Waits(n, t)
  <2> SUFFICES ASSUME proposer[0] = n, s.precommit[0][n] # None, s.proposal[0] # None,
                      s.precommit[0][n] = s.proposal[0].id,
                      Quorum(t.precommit[0], s.precommit[0][n])
               PROVE  FALSE
    BY <1>4, <1>7 DEF Waits
  <2> DEFINE w == s.precommit[0][n]
  <2>1. w \in Vote /\ w # Nil /\ Quorum(s.prevote[0], w) /\ ~Quorum(s.precommit[0], w)
    <3>1. s.proposal[0] \in Proposal \cup {None}
      BY <1>1 DEF NodeState
    <3> QED BY <3>1, ValuesDiffer DEF Prompt, Backs, Waits
  <2>2. CASE w = v
    BY <1>4, <1>6, <2>1, <2>2
  <2>3. CASE w # v
    <3>1. /\ s.precommit[0] \in [Member -> Choice] /\ t.precommit[0] \in [Member -> Choice]
          /\ t.precommit[0] = [s.precommit[0] EXCEPT ![m] = v]
      BY <1>1, <1>4 DEF NodeState
    <3>2. Quorum(t.precommit[0], w) <=> Quorum(s.precommit[0], w)
      BY <1>1, <1>3, <2>1, <2>3, <3>1, VoteCounts
    <3> QED BY <2>1, <3>2
  <2> QED BY <2>2, <2>3
<1> QED BY <1>6, <1>8, <1>9, <1>10 DEF Prompt

\* What observe_proposal, observe_prevote and observe_precommit leave alone.
LEMMA ObserveRound ==
    ASSUME NEW n \in Honest, NEW s \in NodeState, NEW m \in Member, NEW r \in Round
    PROVE  /\ \A p \in Proposal : SameRound(s, ObserveProposal(n, s, m, r, p))
           /\ \A v \in Vote : /\ SameRound(s, ObservePrevote(n, s, m, r, v))
                              /\ SameRound(s, ObservePrecommit(n, s, m, r, v))
<1>1. SameRound(s, Failed(s))
  BY DEF SameRound, Failed, NodeState
<1>2. ASSUME NEW p \in Proposal PROVE SameRound(s, ObserveProposal(n, s, m, r, p))
  <2> DEFINE t == RecordProposal(s, r, p)
  <2>1. t \in NodeState /\ SameRound(s, t) /\ p.id \in Vote
    BY ValuesDiffer DEF NodeState, RecordProposal, SameRound
  <2> HIDE DEF t
  <2>2. SameRound(t, EmitPrevote(n, t, r, p.id))
    BY <2>1, EmitPrevoteRound
  <2>3. ObserveProposal(n, s, m, r, p) \in {Failed(s), EmitPrevote(n, t, r, p.id)}
    BY DEF ObserveProposal, t
  <2> QED BY <1>1, <2>1, <2>2, <2>3 DEF SameRound
<1>3. ASSUME NEW v \in Vote PROVE SameRound(s, ObservePrevote(n, s, m, r, v))
  <2> DEFINE t == RecordPrevote(s, r, m, v)
  <2>1. t \in NodeState /\ SameRound(s, t)
    BY DEF NodeState, RecordPrevote, SameRound, Choice
  <2> HIDE DEF t
  <2>2. SameRound(t, EmitPrecommit(n, t, r, v))
    BY <2>1, EmitPrecommitRound
  <2>3. ObservePrevote(n, s, m, r, v) \in {Failed(s), t, EmitPrecommit(n, t, r, v)}
    BY DEF ObservePrevote, t
  <2> QED BY <1>1, <2>1, <2>2, <2>3 DEF SameRound
<1>4. ASSUME NEW v \in Vote PROVE SameRound(s, ObservePrecommit(n, s, m, r, v))
  <2> DEFINE t == RecordPrecommit(s, r, m, v)
  <2>1. t \in NodeState /\ SameRound(s, t)
    BY DEF NodeState, RecordPrecommit, SameRound, Choice
  <2> HIDE DEF t
  <2>2. SameRound(t, Commit(t, r, v))
    BY <2>1 DEF Commit, SameRound, NodeState
  <2>3. ObservePrecommit(n, s, m, r, v) \in {Failed(s), t, Commit(t, r, v)}
    BY DEF ObservePrecommit, t
  <2> QED BY <1>1, <2>1, <2>2, <2>3 DEF SameRound
<1> QED BY <1>2, <1>3, <1>4

\* A message leaves the node in its own round or takes it to the message's.
LEMMA ObserveMessageRound ==
    ASSUME NEW n \in Honest, NEW s, Active(n, s), NEW msg, Authentic(msg),
           NEW u, u = ObserveMessage(n, s, msg)
    PROVE  /\ u.round = IF msg.round > s.round THEN msg.round ELSE s.round
           /\ u.seen = s.seen /\ u.excluded = s.excluded
           /\ u.status \in {s.status, "decided", "failed"}
<1> DEFINE a == AdvanceRound(n, s, msg.round)
           t == IF msg.round > s.round THEN [a EXCEPT !.out = {}] ELSE s
<1>1. /\ s \in NodeState /\ msg.round \in Round /\ msg.from \in Member /\ msg.kind \in Kind
      /\ msg.value \in Carries(msg.kind)
  BY MessageIsSaid DEF Active, Sound, Authentic
<1>2. ASSUME msg.round > s.round
      PROVE  /\ a \in NodeState /\ a.round = msg.round /\ a.seen = s.seen
             /\ a.excluded = s.excluded /\ a.status \in {s.status, "decided", "failed"}
  <2> DEFINE e == [s EXCEPT !.round = msg.round]
  <2>1. /\ e \in NodeState /\ e.round = msg.round /\ e.seen = s.seen
        /\ e.excluded = s.excluded /\ e.status = s.status
    BY <1>1 DEF NodeState
  <2>2. a \in NodeState
    BY <1>1, <1>2, AdvanceRoundSound DEF Active, Sound
  <2> HIDE DEF e
  <2>3. SameRound(e, EmitProposalIfLeader(n, e))
    BY <2>1, EmitProposalRound
  <2> QED BY <2>1, <2>2, <2>3 DEF SameRound, AdvanceRound, e
<1> HIDE DEF a
<1>3. /\ t \in NodeState /\ t.seen = s.seen /\ t.excluded = s.excluded
      /\ t.round = IF msg.round > s.round THEN msg.round ELSE s.round
      /\ t.status \in {s.status, "decided", "failed"}
  <2>1. CASE msg.round > s.round
    BY <1>1, <1>2, <2>1 DEF NodeState
  <2> QED BY <1>1, <2>1
<1> HIDE DEF t
<1>4. CASE msg.round < s.round
  <2>1. u = s
    BY <1>4 DEF ObserveMessage
  <2>2. msg.round \in Nat /\ s.round \in Nat
    BY <1>1, CommitteeAssumption DEF Round, NodeState
  <2> QED BY <1>4, <2>1, <2>2
<1>5. CASE ~(msg.round < s.round)
  <2>1. SameRound(t, u)
    <3>1. u = IF msg.kind = "proposal" THEN ObserveProposal(n, t, msg.from, msg.round, msg.value)
              ELSE IF msg.kind = "prevote" THEN ObservePrevote(n, t, msg.from, msg.round, msg.value)
              ELSE ObservePrecommit(n, t, msg.from, msg.round, msg.value)
      BY <1>5 DEF ObserveMessage, t, a
    <3> QED BY <1>1, <1>3, <3>1, ObserveRound DEF Carries
  <2> QED BY <1>3, <2>1 DEF SameRound
<1> QED BY <1>4, <1>5

\* handle_signed_envelope keeps the first round's invariant: a message of a later round
\* and an exclusion end the round, and any other is recorded and answered.
LEMMA HandlePrompt ==
    ASSUME ConsensusInv, NEW n \in Honest, node[n].status = "running",
           FirstRound(node[n]) => Prompt(n, node[n], node[n].seen),
           NEW msg \in (sent \cup Forged) \cap Heard[n],
           NEW u, u = HandleSignedEnvelope(n, node[n], msg), FirstRound(u)
    PROVE  Prompt(n, u, u.seen)
<1> DEFINE s == node[n]
           t == [s EXCEPT !.seen = @ \cup {msg}]
<1>1. Active(n, s) /\ Sound(n, s) /\ sent \subseteq Message /\ s \in NodeState
  BY DEF ConsensusInv, TypeOK, Sound, Active
<1>2. msg \in Message /\ msg.round \in Round /\ msg.from \in Member /\ msg.kind \in Kind
  BY <1>1, ForgedAssumption, MessageIsSaid
<1>3. CASE u = s
  BY <1>3
<1>4. CASE u = ExcludeSender(s, msg.round, msg.from)
  <2>1. msg.from \in u.excluded[msg.round]
    BY <1>1, <1>2, <1>4 DEF ExcludeSender, NodeState
  <2> QED BY <1>2, <2>1 DEF FirstRound
<1>5. CASE u = t /\ msg.value = Stale
  <2>1. msg \in u.seen
    BY <1>1, <1>5 DEF NodeState
  <2> QED BY <1>5, <2>1 DEF FirstRound
<1>6. CASE u = ObserveMessage(n, t, msg) /\ msg.value \notin {Garbled, Stale}
  <2>1. Authentic(msg)
    BY <1>6, VerifiedIsAuthentic
  <2>2. /\ Active(n, t) /\ t \in NodeState
        /\ t.proposal = s.proposal /\ t.prevote = s.prevote /\ t.precommit = s.precommit
        /\ t.emitted = s.emitted /\ t.seen = s.seen \cup {msg} /\ t.excluded = s.excluded
        /\ t.status = s.status /\ t.out = s.out /\ t.outbox = s.outbox /\ t.round = s.round
    BY <1>1, <1>2, <1>6, NoteSound
  <2> HIDE DEF t
  <2>4. /\ u.round = IF msg.round > t.round THEN msg.round ELSE t.round
        /\ u.seen = t.seen /\ u.excluded = t.excluded
    BY <1>6, <2>1, <2>2, ObserveMessageRound
  <2>5. t.round = 0 /\ msg.round = 0
    <3>1. t.round \in Nat /\ msg.round \in Nat
      BY <1>2, <2>2, CommitteeAssumption DEF NodeState, Round
    <3>2. u.round = 0
      BY DEF FirstRound
    <3> QED BY <2>4, <3>1, <3>2
  <2>6. FirstRound(s) /\ msg.from \in Honest
    BY <2>2, <2>4, <2>5 DEF FirstRound
  <2>7. Prompt(n, t, s.seen)
    <3>1. Prompt(n, s, s.seen)
      BY <2>6
    <3>2. Speaks(n, t) /\ Records(t, s.seen) /\ Records(t, t.emitted)
      BY <2>2, <3>1 DEF Prompt, Speaks, Said, Records, Noted
    <3>3. HonestVotes(t) /\ Follows(n, t) /\ Answers(n, t) /\ Backs(n, t) /\ Waits(n, t)
      BY <2>2, <3>1 DEF Prompt, HonestVotes, Follows, Answers, Backs, Waits
    <3> QED BY <3>2, <3>3 DEF Prompt
  <2>8. u = IF msg.kind = "proposal" THEN ObserveProposal(n, t, msg.from, 0, msg.value)
            ELSE IF msg.kind = "prevote" THEN ObservePrevote(n, t, msg.from, 0, msg.value)
            ELSE ObservePrecommit(n, t, msg.from, 0, msg.value)
    BY <1>6, <2>5 DEF ObserveMessage
  <2>9. /\ u.status = "running" /\ u.seen = s.seen \cup {msg}
        /\ s.seen \in SUBSET Message
        /\ msg.value \in Carries(msg.kind)
    BY <1>1, <1>2, <1>6, <2>2, <2>4, MessageIsSaid DEF FirstRound, NodeState
  <2>10. msg.from = n => Noted(t, msg)
    <3>1. msg.from = n => msg \in t.emitted
      BY <2>1, <2>2, <2>6 DEF Authentic, Active, Sound, Stands
    <3> QED BY <2>5, <2>7, <3>1 DEF Prompt, Records
  <2>11. \A old \in t.emitted : old.from = n
    BY <2>2 DEF Active, Sound, OneWord
  <2> HIDE DEF s
  <2>12. CASE msg.kind = "proposal"
    <3>1. msg.value \in Proposal /\ u = ObserveProposal(n, t, msg.from, 0, msg.value)
      BY <2>8, <2>9, <2>12 DEF Carries
    <3> QED BY <1>2, <2>2, <2>5, <2>7, <2>9, <2>11, <2>12, <3>1, ObserveProposalPrompt
  <2>13. CASE msg.kind = "prevote"
    <3>1. msg.value \in Vote /\ u = ObservePrevote(n, t, msg.from, 0, msg.value)
      BY <2>8, <2>9, <2>13 DEF Carries
    <3>2. msg.from = n => t.prevote[0][n] = msg.value
      BY <2>10, <2>13 DEF Noted
    <3> QED BY <1>2, <2>2, <2>5, <2>6, <2>7, <2>9, <2>11, <2>13, <3>1, <3>2, ObservePrevotePrompt
  <2>14. CASE msg.kind = "precommit"
    <3>1. msg.value \in Vote /\ u = ObservePrecommit(n, t, msg.from, 0, msg.value)
      BY <2>8, <2>9, <2>14 DEF Carries
    <3>2. msg.from = n => t.precommit[0][n] = msg.value
      BY <2>10, <2>14 DEF Noted
    <3> QED BY <1>2, <2>2, <2>5, <2>7, <2>9, <2>14, <3>1, <3>2, ObservePrecommitPrompt
  <2> QED BY <1>2, <2>12, <2>13, <2>14 DEF Kind
<1> QED BY <1>3, <1>4, <1>5, <1>6 DEF HandleSignedEnvelope

\* drive_round loses nothing a node still in the round has to say, and what one
\* governor publishes does not disturb the others.
LEMMA DeliverPrompt ==
    ASSUME ConsensusInv, FirstRoundInv, NEW n \in Honest, NEW t, NEW u,
           u.proposal = t.proposal, u.prevote = t.prevote, u.precommit = t.precommit,
           u.emitted = t.emitted, u.seen = t.seen, u.excluded = t.excluded, u.status = t.status, u.round = t.round,
           u.out = {}, u.status # "idle", FirstRound(t) => Prompt(n, t, t.seen), NEW P,
           t.status = "running" => t.out \cup t.outbox \subseteq P \cup u.outbox,
           node' = [node EXCEPT ![n] = u], sent' = sent \cup P, UNCHANGED proposer
    PROVE  FirstRoundInv'
<1>1. node \in [Honest -> NodeState]
  BY DEF ConsensusInv, TypeOK
<1>2. node'[n] = u /\ \A k \in Honest : k # n => node'[k] = node[k]
  BY <1>1
<1>3. ASSUME FirstRound(u) PROVE Prompt(n, u, u.seen)'
  <2>1. Prompt(n, t, t.seen) /\ t.status = "running"
    BY <1>3 DEF FirstRound
  <2>2. Said(t) \subseteq Said(u)'
    BY <2>1 DEF Said
  <2>3. Speaks(n, u)'
    BY <2>1, <2>2 DEF Prompt, Speaks
  <2>4. Records(u, u.seen)' /\ Records(u, u.emitted)'
    BY <2>1 DEF Prompt, Records, Noted
  <2>5. HonestVotes(u)' /\ Follows(n, u)'
    BY <2>1 DEF Prompt, HonestVotes, Follows
  <2>6. Answers(n, u)' /\ Backs(n, u)' /\ Waits(n, u)'
    BY <2>1 DEF Prompt, Answers, Backs, Waits, Quorum, Votes
  <2> QED BY <2>3, <2>4, <2>5, <2>6 DEF Prompt
<1>4. ASSUME NEW k \in Honest, k # n, FirstRound(node[k])
      PROVE  Prompt(k, node[k], node[k].seen)'
  <2>1. node'[k] = node[k] /\ Prompt(k, node[k], node[k].seen)
    BY <1>2, <1>4 DEF FirstRoundInv
  <2>2. Said(node[k]) \subseteq Said(node[k])'
    BY <2>1 DEF Said
  <2>3. Speaks(k, node[k])'
    BY <2>1, <2>2 DEF Prompt, Speaks
  <2>4. Records(node[k], node[k].seen)' /\ Records(node[k], node[k].emitted)'
    BY <2>1 DEF Prompt, Records, Noted
  <2>5. HonestVotes(node[k])' /\ Follows(k, node[k])'
    BY <2>1 DEF Prompt, HonestVotes, Follows
  <2>6. Answers(k, node[k])' /\ Backs(k, node[k])' /\ Waits(k, node[k])'
    BY <2>1 DEF Prompt, Answers, Backs, Waits, Quorum, Votes
  <2> QED BY <2>3, <2>4, <2>5, <2>6 DEF Prompt
<1>5. ASSUME NEW k \in Honest
      PROVE  /\ node'[k].out = {}
             /\ node'[k].status = "idle" => node'[k] = NewNode
             /\ FirstRound(node[k])' => Prompt(k, node[k], node[k].seen)'
  <2>1. CASE k = n
    BY <1>2, <1>3, <2>1 DEF FirstRound
  <2>2. CASE k # n
    BY <1>2, <1>4, <2>2 DEF FirstRoundInv, FirstRound
  <2> QED BY <2>1, <2>2
<1> QED BY <1>5 DEF FirstRoundInv

\* The driver, whichever call it drives.
LEMMA DrivePrompt ==
    ASSUME ConsensusInv, FirstRoundInv, NEW n \in Honest, NEW t \in NodeState, t.status # "idle",
           FirstRound(t) => Prompt(n, t, t.seen), Drive(n, t), UNCHANGED proposer
    PROVE  FirstRoundInv'
<1>1. CASE t.status = "decided"
  <2> DEFINE u == [t EXCEPT !.out = {}, !.outbox = {}]
  <2>1. /\ u.proposal = t.proposal /\ u.prevote = t.prevote /\ u.precommit = t.precommit
        /\ u.emitted = t.emitted /\ u.seen = t.seen /\ u.excluded = t.excluded /\ u.round = t.round
        /\ u.status = t.status /\ u.out = {} /\ u.outbox = {}
    BY DEF NodeState
  <2>2. node' = [node EXCEPT ![n] = u] /\ sent' = sent \cup t.out
    BY <1>1 DEF Drive
  <2> HIDE DEF u
  <2> QED BY <1>1, <2>1, <2>2, DeliverPrompt
<1>2. CASE t.status # "decided"
  <2> DEFINE u == [t EXCEPT !.out = {}, !.outbox = @ \cup t.out]
  <2>1. /\ u.proposal = t.proposal /\ u.prevote = t.prevote /\ u.precommit = t.precommit
        /\ u.emitted = t.emitted /\ u.seen = t.seen /\ u.excluded = t.excluded /\ u.round = t.round
        /\ u.status = t.status /\ u.out = {} /\ u.outbox = t.outbox \cup t.out
    BY DEF NodeState
  <2>2. node' = [node EXCEPT ![n] = u] /\ sent' = sent \cup {}
    BY <1>2 DEF Drive
  <2> HIDE DEF u
  <2>3. t.out \cup t.outbox \subseteq {} \cup u.outbox
    BY <2>1
  <2> QED BY <2>1, <2>2, <2>3, DeliverPrompt
<1> QED BY <1>1, <1>2

\* A fresh node.
LEMMA NewNodeFields ==
    /\ NewNode \in NodeState /\ NewNode.status = "idle" /\ NewNode.round = 0
    /\ NewNode.out = {} /\ NewNode.outbox = {} /\ NewNode.seen = {} /\ NewNode.emitted = {}
    /\ NewNode.decided = None
    /\ \A r \in Round : /\ NewNode.excluded[r] = {} /\ NewNode.proposal[r] = None
                        /\ \A m \in Member : NewNode.prevote[r][m] = None
                                          /\ NewNode.precommit[r][m] = None
<1>1. NoVotes \in [Member -> Choice] /\ \A m \in Member : NoVotes[m] = None
  BY DEF NoVotes, Choice
<1>2. 0 \in Round
  BY CommitteeAssumption DEF Round
<1> HIDE DEF NoVotes
<1> QED BY <1>1, <1>2 DEF NewNode, NodeState

\* queue_proposal: the leader of the first round proposes at once.
LEMMA StartPrompt ==
    ASSUME NEW n \in Honest, NEW t \in NodeState,
           t = [NewNode EXCEPT !.status = "running", !.pending = Queued[n]],
           NEW u, u = EmitProposalIfLeader(n, t), u.status = "running"
    PROVE  Prompt(n, u, u.seen)
<1> USE NewNodeFields
<1>1. n \in Member /\ 0 \in Round /\ Queued[n] \in Proposal /\ Queued[n].id \in Vote
  BY CommitteeAssumption, ValuesDiffer DEF Honest, Round
<1>2. /\ t.pending = Queued[n] /\ t.proposal = NewNode.proposal /\ t.prevote = NewNode.prevote
      /\ t.precommit = NewNode.precommit /\ t.seen = {} /\ t.round = 0
      /\ t.emitted = {} /\ t.out = {} /\ t.outbox = {}
  BY DEF NodeState
<1>3. /\ \A m \in Member : t.prevote[0][m] = None /\ t.precommit[0][m] = None
      /\ t.proposal[0] = None
      /\ t.prevote[0] \in [Member -> Choice] /\ t.precommit[0] \in [Member -> Choice]
  BY <1>1, <1>2 DEF NodeState
<1>4. u.seen = {}
  BY <1>2, EmitProposalRound DEF SameRound
<1>5. Answers(n, t) /\ Backs(n, t) /\ HonestVotes(t) /\ Waits(n, t) /\ Follows(n, t)
  BY <1>1, <1>3, NobodyVoted DEF Answers, Backs, HonestVotes, Waits, Follows
<1>6. CASE proposer[0] # n
  <2>1. u = t
    BY <1>2, <1>6 DEF EmitProposalIfLeader
  <2>2. Speaks(n, t) /\ Records(t, {}) /\ Records(t, t.emitted)
    BY <1>1, <1>2, <1>3, <1>6 DEF Speaks, Records, Said
  <2> QED BY <1>4, <1>5, <2>1, <2>2 DEF Prompt
<1>7. CASE proposer[0] = n
  <2> DEFINE v == Queued[n]
             msg == Says(n, "proposal", 0, v)
             e == RecordProposal(Send(t, msg), 0, v)
  <2>1. u = EmitPrevote(n, e, 0, v.id)
    BY <1>1, <1>2, <1>3, <1>7, ValuesDiffer DEF EmitProposalIfLeader
  <2>2. /\ msg \in Message /\ msg.from = n /\ msg.kind = "proposal" /\ msg.value = v
        /\ msg.round = 0
    BY <1>1, SaysType, SaysFields
  <2>3. /\ e \in NodeState /\ e.proposal[0] = v /\ e.prevote = t.prevote
        /\ e.precommit = t.precommit /\ e.out = {msg} /\ e.emitted = {msg}
    <3> DEFINE x == Send(t, msg)
    <3> HIDE DEF msg, v
    <3>1. /\ x \in NodeState /\ x.proposal = t.proposal /\ x.prevote = t.prevote
          /\ x.precommit = t.precommit /\ x.out = {msg} /\ x.emitted = {msg}
      <4>1. t \in NodeState /\ t.out = {} /\ t.emitted = {} /\ msg \in Message
        BY <1>2, <2>2
      <4> QED BY ONLY <4>1 DEF NodeState, Send
    <3>2. v \in Proposal
      BY <1>1 DEF v
    <3> HIDE DEF x
    <3>3. /\ RecordProposal(x, 0, v) \in NodeState /\ RecordProposal(x, 0, v).proposal[0] = v
          /\ RecordProposal(x, 0, v).prevote = x.prevote
          /\ RecordProposal(x, 0, v).precommit = x.precommit
          /\ RecordProposal(x, 0, v).out = x.out /\ RecordProposal(x, 0, v).emitted = x.emitted
      BY <1>1, <3>1, <3>2 DEF NodeState, RecordProposal
    <3> QED BY <3>1, <3>3 DEF x
  <2> HIDE DEF e, msg
  <2>4. Speaks(n, e)
    BY <1>1, <1>3, <2>3, ValuesDiffer DEF Speaks, Said, msg
  <2>5. Records(e, {}) /\ Records(e, e.emitted) /\ \A old \in e.emitted : old.from = n
    BY <2>2, <2>3 DEF Records, Noted
  <2>6. Answers(n, e) /\ Backs(n, e) /\ HonestVotes(e) /\ Waits(n, e)
    BY <1>1, <1>3, <1>5, <2>3 DEF Answers, Backs, HonestVotes, Waits
  <2>7. e.prevote[0][n] = None
    BY <1>1, <1>3, <2>3
  <2> HIDE DEF v
  <2>8. Prompt(n, u, {})
    <3>1. v \in Proposal /\ {} \in SUBSET Message
      BY <1>1 DEF v
    <3>2. EmitPrevote(n, e, 0, v.id).status = "running"
      BY <2>1
    <3>3. Prompt(n, EmitPrevote(n, e, 0, v.id), {})
      BY <2>3, <2>4, <2>5, <2>6, <2>7, <3>1, <3>2, EmitPrevotePrompt
    <3> QED BY <2>1, <3>3
  <2> QED BY <1>4, <2>8
<1> QED BY <1>6, <1>7

\* The first round's invariant holds when no governor has started.
LEMMA FirstRoundInit == Init => FirstRoundInv
<1> SUFFICES ASSUME Init, NEW n \in Honest
             PROVE  /\ node[n].out = {}
                    /\ node[n].status = "idle" => node[n] = NewNode
                    /\ FirstRound(node[n]) => Prompt(n, node[n], node[n].seen)
  BY DEF FirstRoundInv
<1>1. node[n] = NewNode
  BY DEF Init
<1> QED BY <1>1, NewNodeFields DEF FirstRound

\* Every step keeps the first round's invariant, one case per action.
LEMMA FirstRoundStep == ConsensusInv /\ FirstRoundInv /\ [Next]_vars => FirstRoundInv'
<1> SUFFICES ASSUME ConsensusInv, FirstRoundInv, [Next]_vars PROVE FirstRoundInv'
  OBVIOUS
<1>1. /\ \A n \in Honest : Sound(n, node[n]) /\ node[n] \in NodeState
      /\ sent \subseteq Message
  BY DEF ConsensusInv, TypeOK, Sound
<1>2. ASSUME NEW n \in Honest, Start(n), UNCHANGED proposer PROVE FirstRoundInv'
  <2> DEFINE t == [NewNode EXCEPT !.status = "running", !.pending = Queued[n]]
             u == EmitProposalIfLeader(n, t)
  <2>1. node[n] = NewNode /\ Drive(n, u)
    BY <1>2 DEF Start, FirstRoundInv
  <2>2. /\ t \in NodeState
        /\ t.proposal = NewNode.proposal /\ t.prevote = NewNode.prevote
        /\ t.precommit = NewNode.precommit /\ t.seen = NewNode.seen
        /\ t.excluded = NewNode.excluded /\ t.decided = NewNode.decided
        /\ t.emitted = NewNode.emitted /\ t.round = NewNode.round
        /\ t.out = NewNode.out /\ t.outbox = NewNode.outbox /\ t.status = "running"
    BY NewNodeFields, CommitteeAssumption DEF NodeState
  <2> HIDE DEF t
  <2>4. Active(n, t) /\ ~Emitted(t, "proposal", t.round)
    BY <1>1, <2>1, <2>2, NewNodeFields, RoundsAreNat, QuietSound DEF Active, Emitted
  <2>5. u \in NodeState
    BY <2>4, EmitProposalSound DEF Active, Sound
  <2>6. u.status # "idle"
    BY <2>2, EmitProposalRound DEF SameRound
  <2>7. FirstRound(u) => Prompt(n, u, u.seen)
    BY <2>2, StartPrompt DEF FirstRound, t
  <2> HIDE DEF u
  <2> QED BY <1>2, <2>1, <2>5, <2>6, <2>7, DrivePrompt
<1>3. ASSUME NEW n \in Honest, Publish(n), UNCHANGED proposer PROVE FirstRoundInv'
  <2> DEFINE s == node[n]
             u == [s EXCEPT !.outbox = {}]
  <2>1. /\ u.proposal = s.proposal /\ u.prevote = s.prevote /\ u.precommit = s.precommit
        /\ u.emitted = s.emitted /\ u.seen = s.seen /\ u.excluded = s.excluded /\ u.round = s.round
        /\ u.status = s.status /\ u.out = s.out /\ u.outbox = {}
    BY <1>1 DEF NodeState
  <2>2. node' = [node EXCEPT ![n] = u] /\ sent' = sent \cup s.outbox
    BY <1>3 DEF Publish
  <2>3. s.out = {} /\ (FirstRound(s) => Prompt(n, s, s.seen)) /\ s.status # "idle"
    BY <1>3 DEF FirstRoundInv, Publish
  <2> HIDE DEF u, s
  <2>4. s.out \cup s.outbox \subseteq s.outbox \cup u.outbox
    BY <2>1, <2>3
  <2> QED BY <1>3, <2>1, <2>2, <2>3, <2>4, DeliverPrompt
<1>4. ASSUME NEW n \in Honest, Receive(n), UNCHANGED proposer PROVE FirstRoundInv'
  <2>1. PICK msg \in (sent \cup Forged) \cap Heard[n] : Drive(n, HandleSignedEnvelope(n, node[n], msg))
    BY <1>4 DEF Receive
  <2> DEFINE u == HandleSignedEnvelope(n, node[n], msg)
  <2>2. node[n].status = "running"
    BY <1>4 DEF Receive
  <2>3. u \in NodeState /\ u.status # "idle"
    BY <2>2, HandleSound DEF Active, Sound
  <2>4. FirstRound(u) => Prompt(n, u, u.seen)
    BY <2>2, HandlePrompt DEF FirstRoundInv
  <2> HIDE DEF u
  <2> QED BY <1>4, <2>1, <2>3, <2>4, DrivePrompt DEF u
<1>5. ASSUME NEW n \in Honest, Timeout(n), UNCHANGED proposer PROVE FirstRoundInv'
  <2> DEFINE r == node[n].round + 1
             e == [node[n] EXCEPT !.round = r]
             u == AdvanceRound(n, node[n], r)
  <2>1. r \in Round /\ r # 0 /\ r > node[n].round /\ node[n].status = "running" /\ Drive(n, u)
    BY <1>1, <1>5, CommitteeAssumption DEF Timeout, NodeState, Round
  <2> HIDE DEF r
  <2>2. e \in NodeState /\ e.round = r /\ e.status = "running"
    BY <1>1, <2>1 DEF NodeState
  <2>3. u = EmitProposalIfLeader(n, e)
    BY DEF AdvanceRound
  <2>4. u \in NodeState
    BY <1>1, <2>1, AdvanceRoundSound DEF Active, Sound
  <2> HIDE DEF e, u
  <2>5. u.round = r /\ u.status # "idle"
    BY <2>2, <2>3, EmitProposalRound DEF SameRound
  <2>6. ~FirstRound(u)
    BY <2>1, <2>5 DEF FirstRound
  <2> QED BY <1>5, <2>1, <2>4, <2>5, <2>6, DrivePrompt
<1>6. ASSUME NEW n \in Honest, GiveUp(n) \/ Refuse(n), UNCHANGED proposer PROVE FirstRoundInv'
  <2> DEFINE u == Failed(node[n])
  <2>1. u.status = "failed" /\ u.out = {}
    BY <1>1 DEF Failed, NodeState, FirstRoundInv
  <2>2. node' = [node EXCEPT ![n] = u] /\ sent' = sent \cup {}
    BY <1>6 DEF GiveUp, Refuse, ConsensusInv, TypeOK
  <2> HIDE DEF u
  <2>3. ~FirstRound(u)
    BY <2>1 DEF FirstRound
  <2> QED BY <1>6, <2>1, <2>2, <2>3, DeliverPrompt
<1>7. CASE UNCHANGED vars
  <2>1. node' = node /\ sent' = sent /\ proposer' = proposer
    BY <1>7 DEF vars
  <2>2. ASSUME NEW n \in Honest
        PROVE  FirstRound(node[n])' => Prompt(n, node[n], node[n].seen)'
    <3> SUFFICES ASSUME FirstRound(node[n]), Prompt(n, node[n], node[n].seen)
                 PROVE  Prompt(n, node[n], node[n].seen)'
      BY <2>1 DEF FirstRoundInv, FirstRound
    <3>1. Speaks(n, node[n])' /\ Records(node[n], node[n].seen)' /\ Records(node[n], node[n].emitted)'
      BY <2>1 DEF Prompt, Speaks, Said, Records, Noted
    <3>2. HonestVotes(node[n])' /\ Follows(n, node[n])'
      BY <2>1 DEF Prompt, HonestVotes, Follows
    <3>3. Answers(n, node[n])' /\ Backs(n, node[n])' /\ Waits(n, node[n])'
      BY <2>1 DEF Prompt, Answers, Backs, Waits, Quorum, Votes
    <3> QED BY <3>1, <3>2, <3>3 DEF Prompt
  <2> QED BY <2>1, <2>2 DEF FirstRoundInv
<1> QED BY <1>2, <1>3, <1>4, <1>5, <1>6, <1>7 DEF Next, Step

\* A governor in its first round records every message, prevotes what the leader
\* proposed, precommits as soon as the prevotes agree and says each of these; a leader
\* commits as soon as it can (emit_prevote, emit_precommit, commit, drive_round).
THEOREM FirstRoundInvariant == Spec => []FirstRoundInv
<1> QED BY FirstRoundInit, FirstRoundStep, ConsensusInvariant, PTL DEF Spec

\* 2f+1 honest members that cast the same vote are a quorum.
LEMMA HonestQuorum ==
    ASSUME NEW f, NEW v, Cardinality(Honest) >= Threshold, \A m \in Honest : f[m] = v
    PROVE  Quorum(f, v)
<1>1. Honest \subseteq Votes(f, v) /\ Votes(f, v) \subseteq Member
  BY DEF Votes, Honest
<1>2. IsFiniteSet(Votes(f, v)) /\ IsFiniteSet(Honest)
  BY <1>1, CommitteeAssumption, FS_Subset DEF Honest
<1>3. Cardinality(Honest) <= Cardinality(Votes(f, v))
  BY <1>1, <1>2, FS_Subset
<1>4. Cardinality(Honest) \in Nat /\ Cardinality(Votes(f, v)) \in Nat
  BY <1>2, FS_CardinalityType
<1> QED BY <1>3, <1>4, CommitteeAssumption DEF Quorum, Threshold

\* Someone stands behind a quorum.
LEMMA QuorumHasVoter ==
    ASSUME NEW f, NEW v, Quorum(f, v)
    PROVE  \E m \in Member : f[m] = v
<1>1. Votes(f, v) # {}
  BY FS_EmptySet, CommitteeAssumption DEF Quorum, Threshold
<1> QED BY <1>1 DEF Votes

\* drive_round and commit: with an honest leader, silent faulty governors and nothing
\* lost, the first round ends with a commit, in whatever order the messages came.
THEOREM FirstRoundCommits == Spec => []RoundZeroCommits
<1>1. ASSUME ConsensusInv, LedgersAreHonest, FirstRoundInv, Settled, Quiet,
             proposer[0] \in Honest, Cardinality(Honest) >= Threshold,
             \A n \in Honest : ~Decided(n)
      PROVE  FALSE
  <2> DEFINE L == proposer[0]
             p == node[L].proposal[0]
             v == p.id
  <2>1. ASSUME NEW n \in Honest
        PROVE  /\ node[n].status = "running" /\ node[n].round = 0 /\ node[n].outbox = {}
               /\ node[n].out = {} /\ Prompt(n, node[n], node[n].seen) /\ Sound(n, node[n])
               /\ \A msg \in sent : msg.from = n \/ msg \in node[n].seen
    <3>1. /\ node[n].status = "running" /\ node[n].round = 0 /\ node[n].outbox = {}
          /\ \A msg \in sent : msg.from = n \/ msg \in node[n].seen
      BY <1>1 DEF Settled
    <3>2. FirstRound(node[n])
      BY <1>1, <3>1, HonestSpeech DEF Quiet, FirstRound
    <3> QED BY <1>1, <3>1, <3>2 DEF FirstRoundInv, ConsensusInv
  <2>2. Honest \subseteq Member /\ 0 \in Round
    BY CommitteeAssumption DEF Honest, Round
  <2>3. ASSUME NEW n \in Honest, NEW msg \in sent, msg.round = 0
        PROVE  Noted(node[n], msg)
    <3>1. msg \in node[n].emitted \/ msg \in node[n].seen
      BY <2>1 DEF Sound, Stands
    <3>2. Records(node[n], node[n].seen) /\ Records(node[n], node[n].emitted)
      BY <2>1 DEF Prompt
    <3> QED BY <2>3, <3>1, <3>2 DEF Records
  <2>4. \A n \in Honest : node[n].emitted \subseteq sent
    BY <2>1 DEF Prompt, Speaks, Said
  <2>5. \A n \in Honest : node[n] \in NodeState /\ Speaks(n, node[n])
    BY <2>1 DEF Prompt, Sound
  <2>6. p \in Proposal /\ p # None /\ Says(L, "proposal", 0, p) \in sent
    <3>1. p # None /\ Says(L, "proposal", 0, p) \in sent
      BY <1>1, <2>4, <2>5 DEF Speaks
    <3>2. p \in Proposal \cup {None}
      BY <1>1, <2>2, <2>5 DEF NodeState
    <3> QED BY <3>1, <3>2
  <2>7. v \in Vote /\ v # None /\ L \in Member
    BY <1>1, <2>2, <2>6, ValuesDiffer
  <2> HIDE DEF p
  <2>8. ASSUME NEW n \in Honest
        PROVE  node[n].prevote[0][n] = v /\ Says(n, "prevote", 0, v) \in sent
    <3>1. Noted(node[n], Says(L, "proposal", 0, p))
      BY <2>3, <2>6, SaysFields
    <3>2. node[n].proposal[0] = p
      BY <3>1, SaysFields DEF Noted
    <3>3. node[n].prevote[0][n] = v
      BY <2>1, <2>6, <3>2 DEF Prompt, Follows
    <3> QED BY <2>4, <2>5, <2>7, <3>3 DEF Speaks
  <2> HIDE DEF v
  <2>9. ASSUME NEW n \in Honest PROVE Quorum(node[n].prevote[0], v)
    <3>1. ASSUME NEW m \in Honest PROVE node[n].prevote[0][m] = v
      <4>1. Noted(node[n], Says(m, "prevote", 0, v))
        BY <2>3, <2>8, SaysFields
      <4> QED BY <4>1, SaysFields DEF Noted
    <3> QED BY <1>1, <3>1, HonestQuorum
  <2>10. ASSUME NEW n \in Honest
         PROVE  node[n].precommit[0][n] = v /\ Says(n, "precommit", 0, v) \in sent
    <3> DEFINE w == node[n].precommit[0][n]
    <3>1. w # None
      BY <2>1, <2>7, <2>9 DEF Prompt, Answers
    <3>2. Quorum(node[n].prevote[0], w)
      BY <2>1, <3>1 DEF Prompt, Backs
    <3> HIDE DEF w
    <3>3. PICK m \in Member : node[n].prevote[0][m] = w
      BY <3>2, QuorumHasVoter
    <3>4. m \in Honest
      BY <2>1, <3>1, <3>3 DEF Prompt, HonestVotes
    <3>5. Says(m, "prevote", 0, w) \in node[m].emitted
      BY <1>1, <2>2, <3>1, <3>3, <3>4 DEF LedgersAreHonest
    <3>6. Says(m, "prevote", 0, w) \in sent
      BY <2>4, <3>4, <3>5
    <3>7. node[m].prevote[0][m] = w
      BY <2>3, <3>4, <3>6, SaysFields DEF Noted
    <3>8. w = v
      BY <2>8, <3>4, <3>7
    <3> QED BY <2>4, <2>5, <2>7, <3>8 DEF Speaks, w
  <2>11. Quorum(node[L].precommit[0], v)
    <3>1. ASSUME NEW m \in Honest PROVE node[L].precommit[0][m] = v
      <4>1. Noted(node[L], Says(m, "precommit", 0, v))
        BY <1>1, <2>3, <2>10, SaysFields
      <4> QED BY <4>1, SaysFields DEF Noted
    <3> QED BY <1>1, <3>1, HonestQuorum
  <2>12. Waits(L, node[L]) /\ node[L].precommit[0][L] = v
    BY <1>1, <2>1, <2>10 DEF Prompt
  <2> QED BY <2>6, <2>7, <2>11, <2>12 DEF Waits, v, p
<1>2. ConsensusInv /\ LedgersAreHonest /\ FirstRoundInv => RoundZeroCommits
  BY <1>1 DEF RoundZeroCommits
<1> QED BY <1>2, ConsensusInvariant, LedgersAgree, FirstRoundInvariant, PTL

-----------------------------------------------------------------------------
(* A governor keeps its word *)

\* It never goes back a round, and never takes back what it has said.
KeepsWord(s, t) == s.round <= t.round /\ s.emitted \subseteq t.emitted

\* Across every step: it says nothing that differs from what it has said, and what was
\* decided stays decided.
WordsStay ==
    \A n \in Honest :
        /\ node[n].round <= node'[n].round
        /\ \A old \in node[n].emitted :
              /\ old \in node'[n].emitted
              /\ \A msg \in node'[n].emitted : SameKey(old, msg) => old = msg
        /\ Decided(n) => node'[n].decided = node[n].decided

\* No two envelopes an honest governor published are for the same vote or proposal.
NoEquivocation == \A msg, old \in sent : SameKey(old, msg) => old = msg

\* Keeping one's word twice is keeping it.
LEMMA KeepsWordTwice ==
    ASSUME NEW s \in NodeState, NEW t \in NodeState, NEW u \in NodeState,
           KeepsWord(s, t), KeepsWord(t, u)
    PROVE  KeepsWord(s, u)
<1>1. s.round \in Nat /\ t.round \in Nat /\ u.round \in Nat
  BY RoundsAreNat
<1> QED BY <1>1 DEF KeepsWord

\* Steps that leave the round and what was said alone.
LEMMA KeepsWordQuietly ==
    ASSUME NEW s \in NodeState, NEW t, t.round = s.round, t.emitted = s.emitted
    PROVE  KeepsWord(s, t)
BY RoundsAreNat DEF KeepsWord

\* emit_precommit adds the node's precommit to what it has said.
LEMMA EmitPrecommitKeeps ==
    ASSUME NEW n \in Honest, NEW s \in NodeState, NEW r \in Round, NEW v \in Vote
    PROVE  s.emitted \subseteq EmitPrecommit(n, s, r, v).emitted
BY DEF EmitPrecommit, Commit, Send, RecordPrecommit, NodeState

\* emit_prevote adds the node's prevote.
LEMMA EmitPrevoteKeeps ==
    ASSUME NEW n \in Honest, NEW s \in NodeState, NEW r \in Round, NEW v \in Vote
    PROVE  s.emitted \subseteq EmitPrevote(n, s, r, v).emitted
<1> DEFINE t == RecordPrevote(Send(s, Says(n, "prevote", r, v)), r, n, v)
<1>1. Says(n, "prevote", r, v) \in Message
  BY SaysType, CommitteeAssumption DEF Honest
<1>2. t \in NodeState /\ s.emitted \subseteq t.emitted
  BY <1>1 DEF NodeState, Send, RecordPrevote, Choice
<1> HIDE DEF t
<1>3. t.emitted \subseteq EmitPrecommit(n, t, r, v).emitted
  BY <1>2, EmitPrecommitKeeps
<1>4. EmitPrevote(n, s, r, v) \in {s, t, EmitPrecommit(n, t, r, v)}
  BY DEF EmitPrevote, t
<1> QED BY <1>2, <1>3, <1>4

\* emit_proposal_if_leader adds its proposal and the prevote for it.
LEMMA EmitProposalKeeps ==
    ASSUME NEW n \in Honest, NEW s \in NodeState
    PROVE  KeepsWord(s, EmitProposalIfLeader(n, s))
<1> DEFINE r == s.round
           v == s.pending
           t == RecordProposal(Send(s, Says(n, "proposal", r, v)), r, v)
<1>1. EmitProposalIfLeader(n, s).round = s.round
  BY EmitProposalRound DEF SameRound
<1> SUFFICES ASSUME v # None PROVE s.emitted \subseteq EmitPrevote(n, t, r, v.id).emitted
  BY <1>1, RoundsAreNat DEF EmitProposalIfLeader, KeepsWord
<1>2. r \in Round /\ v \in Proposal /\ v.id \in Vote
  BY ValuesDiffer DEF NodeState
<1> HIDE DEF r, v
<1>3. Says(n, "proposal", r, v) \in Message
  BY <1>2, SaysType, CommitteeAssumption DEF Honest
<1>4. t \in NodeState /\ s.emitted \subseteq t.emitted
  BY <1>2, <1>3 DEF NodeState, Send, RecordProposal
<1> HIDE DEF t
<1> QED BY <1>2, <1>4, EmitPrevoteKeeps

\* observe_proposal, observe_prevote and observe_precommit take nothing back.
LEMMA ObserveKeeps ==
    ASSUME NEW n \in Honest, NEW s \in NodeState, NEW m \in Member, NEW r \in Round
    PROVE  /\ \A p \in Proposal : s.emitted \subseteq ObserveProposal(n, s, m, r, p).emitted
           /\ \A v \in Vote : /\ s.emitted \subseteq ObservePrevote(n, s, m, r, v).emitted
                              /\ s.emitted \subseteq ObservePrecommit(n, s, m, r, v).emitted
<1>1. Failed(s).emitted = s.emitted
  BY DEF Failed, NodeState
<1>2. ASSUME NEW p \in Proposal
      PROVE  s.emitted \subseteq ObserveProposal(n, s, m, r, p).emitted
  <2> DEFINE t == RecordProposal(s, r, p)
  <2>1. t \in NodeState /\ t.emitted = s.emitted /\ p.id \in Vote
    BY ValuesDiffer DEF NodeState, RecordProposal
  <2>2. ObserveProposal(n, s, m, r, p) \in {Failed(s), EmitPrevote(n, t, r, p.id)}
    BY DEF ObserveProposal
  <2> HIDE DEF t
  <2> QED BY <1>1, <2>1, <2>2, EmitPrevoteKeeps
<1>3. ASSUME NEW v \in Vote
      PROVE  s.emitted \subseteq ObservePrevote(n, s, m, r, v).emitted
  <2> DEFINE t == RecordPrevote(s, r, m, v)
  <2>1. t \in NodeState /\ t.emitted = s.emitted
    BY DEF NodeState, RecordPrevote, Choice
  <2>2. ObservePrevote(n, s, m, r, v) \in {Failed(s), t, EmitPrecommit(n, t, r, v)}
    BY DEF ObservePrevote
  <2> HIDE DEF t
  <2> QED BY <1>1, <2>1, <2>2, EmitPrecommitKeeps
<1>4. ASSUME NEW v \in Vote
      PROVE  s.emitted \subseteq ObservePrecommit(n, s, m, r, v).emitted
  <2> DEFINE t == RecordPrecommit(s, r, m, v)
  <2>1. t \in NodeState /\ t.emitted = s.emitted
    BY DEF NodeState, RecordPrecommit, Choice
  <2>2. ObservePrecommit(n, s, m, r, v) \in {Failed(s), t, Commit(t, r, v)}
    BY DEF ObservePrecommit
  <2> HIDE DEF t
  <2>3. Commit(t, r, v).emitted = t.emitted
    BY <2>1 DEF Commit, NodeState
  <2> QED BY <1>1, <2>1, <2>2, <2>3
<1> QED BY <1>2, <1>3, <1>4

\* advance_round: the node goes forward and may propose.
LEMMA AdvanceRoundKeeps ==
    ASSUME NEW n \in Honest, NEW s \in NodeState, NEW r \in Round, r > s.round,
           AdvanceRound(n, s, r) \in NodeState
    PROVE  KeepsWord(s, AdvanceRound(n, s, r))
<1> DEFINE e == [s EXCEPT !.round = r]
<1>1. s.round \in Nat /\ r \in Nat
  BY CommitteeAssumption DEF NodeState, Round
<1>2. e \in NodeState /\ e.round = r /\ e.emitted = s.emitted
  BY DEF NodeState
<1>3. AdvanceRound(n, s, r) = EmitProposalIfLeader(n, e)
  BY DEF AdvanceRound
<1> HIDE DEF e
<1>4. KeepsWord(s, e)
  BY <1>1, <1>2 DEF KeepsWord
<1>5. KeepsWord(e, AdvanceRound(n, s, r))
  BY <1>2, <1>3, EmitProposalKeeps
<1> QED BY <1>2, <1>4, <1>5, KeepsWordTwice

\* A message for a later round takes the node forward, and what it said stays.
LEMMA ObserveMessageKeeps ==
    ASSUME NEW n \in Honest, NEW s, Active(n, s), NEW msg, Authentic(msg)
    PROVE  KeepsWord(s, ObserveMessage(n, s, msg))
<1> DEFINE u == ObserveMessage(n, s, msg)
           a == AdvanceRound(n, s, msg.round)
           b == [a EXCEPT !.out = {}]
           t == IF msg.round > s.round THEN b ELSE s
<1>1. /\ s \in NodeState /\ msg.round \in Round /\ msg.from \in Member /\ msg.kind \in Kind
      /\ msg.value \in Carries(msg.kind)
  BY MessageIsSaid DEF Active, Sound, Authentic
<1>2. s.round \in Nat /\ msg.round \in Nat
  BY <1>1, CommitteeAssumption DEF NodeState, Round
<1>3. s.round <= u.round
  BY <1>2, ObserveMessageRound
<1>4. t \in NodeState /\ s.emitted \subseteq t.emitted
  <2>1. CASE msg.round > s.round
    <3>1. a \in NodeState
      BY <1>1, <2>1, AdvanceRoundSound DEF Active, Sound
    <3>2. s.emitted \subseteq a.emitted
      BY <1>1, <2>1, <3>1, AdvanceRoundKeeps DEF KeepsWord
    <3> HIDE DEF a
    <3>3. b \in NodeState /\ b.emitted = a.emitted
      BY <3>1 DEF NodeState
    <3> QED BY <2>1, <3>2, <3>3
  <2> QED BY <1>1, <2>1
<1>5. s.emitted \subseteq u.emitted
  <2>1. CASE msg.round < s.round
    BY <2>1 DEF ObserveMessage
  <2>2. CASE ~(msg.round < s.round)
    <3>1. u = IF msg.kind = "proposal" THEN ObserveProposal(n, t, msg.from, msg.round, msg.value)
              ELSE IF msg.kind = "prevote" THEN ObservePrevote(n, t, msg.from, msg.round, msg.value)
              ELSE ObservePrecommit(n, t, msg.from, msg.round, msg.value)
      BY <2>2 DEF ObserveMessage
    <3> HIDE DEF t, u
    <3>2. t.emitted \subseteq u.emitted
      BY <1>1, <1>4, <3>1, ObserveKeeps DEF Carries
    <3> QED BY <1>4, <3>2
  <2> QED BY <2>1, <2>2
<1> QED BY <1>3, <1>5 DEF KeepsWord

\* handle_signed_envelope: an exclusion, the node's own included, drops what was counted
\* and not what was said.
LEMMA HandleKeeps ==
    ASSUME ConsensusInv, NEW n \in Honest, node[n].status = "running",
           NEW msg \in (sent \cup Forged) \cap Heard[n]
    PROVE  KeepsWord(node[n], HandleSignedEnvelope(n, node[n], msg))
<1> DEFINE s == node[n]
           t == [s EXCEPT !.seen = @ \cup {msg}]
           x == ExcludeSender(s, msg.round, msg.from)
<1>1. Active(n, s) /\ s \in NodeState
  BY DEF ConsensusInv, Sound, Active
<1>2. KeepsWord(s, s)
  BY <1>1, KeepsWordQuietly
<1>3. KeepsWord(s, x)
  <2>1. x.round = s.round /\ x.emitted = s.emitted
    BY <1>1 DEF ExcludeSender, NodeState
  <2> HIDE DEF x, s
  <2> QED BY <1>1, <2>1, KeepsWordQuietly
<1>4. ASSUME msg.value # Garbled
      PROVE  Active(n, t) /\ t.emitted = s.emitted /\ t.round = s.round
  <2>1. msg \in Message
    BY ForgedAssumption DEF ConsensusInv, TypeOK
  <2> QED BY <1>1, <1>4, <2>1, NoteSound
<1>5. ASSUME msg.value = Stale PROVE KeepsWord(s, t)
  <2>1. t.emitted = s.emitted /\ t.round = s.round
    BY <1>4, <1>5, ValuesDiffer
  <2> HIDE DEF t, s
  <2> QED BY <1>1, <2>1, KeepsWordQuietly
<1>6. ASSUME msg.value \notin {Garbled, Stale} PROVE KeepsWord(s, ObserveMessage(n, t, msg))
  <2>1. Authentic(msg)
    BY <1>6, VerifiedIsAuthentic
  <2>2. Active(n, t) /\ t.emitted = s.emitted /\ t.round = s.round
    BY <1>4, <1>6
  <2> HIDE DEF t
  <2> QED BY <2>1, <2>2, ObserveMessageKeeps DEF KeepsWord
<1> QED BY <1>2, <1>3, <1>5, <1>6 DEF HandleSignedEnvelope

\* A step of one governor that keeps its word, and its commit if it has one.
LEMMA OneKeeps ==
    ASSUME ConsensusInv, ConsensusInv', NEW n \in Honest, NEW u, node' = [node EXCEPT ![n] = u],
           KeepsWord(node[n], u), Decided(n) => u.decided = node[n].decided
    PROVE  WordsStay
<1>1. node \in [Honest -> NodeState]
  BY DEF ConsensusInv, TypeOK
<1>2. node'[n] = u /\ \A k \in Honest : k # n => node'[k] = node[k]
  BY <1>1
<1>3. ASSUME NEW k \in Honest
      PROVE  /\ KeepsWord(node[k], node'[k])
             /\ Decided(k) => node'[k].decided = node[k].decided
  <2>1. CASE k = n
    BY <1>2, <2>1
  <2>2. CASE k # n
    BY <1>1, <1>2, <2>2, KeepsWordQuietly
  <2> QED BY <2>1, <2>2
<1>4. ASSUME NEW k \in Honest, NEW msg \in node'[k].emitted, NEW old \in node'[k].emitted,
             SameKey(old, msg)
      PROVE  old = msg
  <2>1. OneWord(k, node[k])'
    BY DEF ConsensusInv, Sound
  <2> QED BY <1>4, <2>1 DEF OneWord, SameKey
<1> QED BY <1>3, <1>4 DEF KeepsWord, WordsStay

\* The driver writes back what the call made of the node.
LEMMA DriveKeeps ==
    ASSUME ConsensusInv, ConsensusInv', NEW n \in Honest, NEW t \in NodeState,
           KeepsWord(node[n], t), node[n].decided = None, Drive(n, t)
    PROVE  WordsStay
<1>1. PICK u : node' = [node EXCEPT ![n] = u] /\ u.round = t.round /\ u.emitted = t.emitted
  <2>1. CASE t.status = "decided"
    <3> DEFINE e == [t EXCEPT !.out = {}, !.outbox = {}]
    <3>1. node' = [node EXCEPT ![n] = e] /\ e.round = t.round /\ e.emitted = t.emitted
      BY <2>1 DEF Drive, NodeState
    <3> HIDE DEF e
    <3> QED BY <3>1
  <2>2. CASE t.status # "decided"
    <3> DEFINE e == [t EXCEPT !.out = {}, !.outbox = @ \cup t.out]
    <3>1. node' = [node EXCEPT ![n] = e] /\ e.round = t.round /\ e.emitted = t.emitted
      BY <2>2 DEF Drive, NodeState
    <3> HIDE DEF e
    <3> QED BY <3>1
  <2> QED BY <2>1, <2>2
<1>2. KeepsWord(node[n], u) /\ ~Decided(n)
  BY <1>1 DEF KeepsWord, Decided
<1> QED BY <1>1, <1>2, OneKeeps

\* A governor keeps its word: no step of it or of another, no message however late, no
\* timeout and no exclusion, its own included, makes it go back a round, vote or propose
\* differently from what it has said in a round, or take back a commit (emit_prevote,
\* emit_precommit, emit_proposal_if_leader, advance_round, exclude_sender).
THEOREM WordsAreKept == Spec => [][WordsStay]_vars
<1>1. ConsensusInv /\ ConsensusInv' /\ [Next]_vars => [WordsStay]_vars
  <2> SUFFICES ASSUME ConsensusInv, ConsensusInv', Next PROVE WordsStay
    OBVIOUS
  <2>1. \A n \in Honest : Sound(n, node[n]) /\ node[n] \in NodeState /\ node[n].round \in Nat
    BY RoundsAreNat DEF ConsensusInv, Sound
  <2>2. \A n \in Honest : node[n].status \in {"idle", "running"} => node[n].decided = None
    BY <2>1 DEF Sound, Commits
  <2>3. ASSUME NEW n \in Honest, Start(n) PROVE WordsStay
    <3> DEFINE s == node[n]
               t == [s EXCEPT !.status = "running", !.pending = Queued[n]]
               u == EmitProposalIfLeader(n, t)
    <3>1. /\ t \in NodeState /\ t.round = s.round /\ t.emitted = s.emitted
          /\ t.status = "running" /\ s.status = "idle" /\ Drive(n, u) /\ s.decided = None
      <4>1. Queued[n] \in Proposal
        BY CommitteeAssumption
      <4>2. s.status = "idle" /\ Drive(n, u) /\ s.decided = None
        BY <2>2, <2>3 DEF Start
      <4>3. s \in NodeState
        BY <2>1
      <4> HIDE DEF s, u
      <4> QED BY <4>1, <4>2, <4>3 DEF NodeState
    <3>2. s.emitted = {}
      BY <2>1, <3>1 DEF Sound, OneWord
    <3> HIDE DEF t
    <3>3. KeepsWord(t, u)
      BY <3>1, EmitProposalKeeps
    <3>4. u \in NodeState
      <4>1. Sound(n, t)
        <5>1. /\ t.proposal = s.proposal /\ t.prevote = s.prevote /\ t.precommit = s.precommit
              /\ t.seen = s.seen /\ t.excluded = s.excluded /\ t.decided = s.decided
              /\ t.out = s.out /\ t.outbox = s.outbox /\ s.round <= t.round
          BY <2>1, <3>1 DEF NodeState, t
        <5> QED BY <2>1, <3>1, <5>1, QuietSound
      <4>2. Active(n, t) /\ ~Emitted(t, "proposal", t.round)
        BY <3>1, <3>2, <4>1 DEF Active, Emitted
      <4> QED BY <4>2, EmitProposalSound DEF Active, Sound
    <3> HIDE DEF u
    <3>5. KeepsWord(s, u)
      BY <3>1, <3>3 DEF KeepsWord
    <3> QED BY <3>1, <3>4, <3>5, DriveKeeps
  <2>4. ASSUME NEW n \in Honest, Receive(n) PROVE WordsStay
    <3>1. PICK msg \in (sent \cup Forged) \cap Heard[n] :
             Drive(n, HandleSignedEnvelope(n, node[n], msg))
      BY <2>4 DEF Receive
    <3> DEFINE u == HandleSignedEnvelope(n, node[n], msg)
    <3>2. node[n].status = "running" /\ node[n].decided = None
      BY <2>2, <2>4 DEF Receive
    <3>3. u \in NodeState /\ KeepsWord(node[n], u)
      BY <3>2, HandleSound, HandleKeeps DEF Active, Sound
    <3> HIDE DEF u
    <3> QED BY <3>1, <3>2, <3>3, DriveKeeps DEF u
  <2>5. ASSUME NEW n \in Honest, Timeout(n) PROVE WordsStay
    <3> DEFINE s == node[n]
               r == s.round + 1
               u == AdvanceRound(n, s, r)
    <3>1. /\ r \in Round /\ r > s.round /\ s.decided = None /\ Drive(n, u)
          /\ Active(n, s) /\ s \in NodeState
      <4>1. s.round < LastRound /\ s.round \in Nat /\ s.status = "running" /\ Drive(n, u)
        BY <2>1, <2>5 DEF Timeout
      <4>2. s.decided = None /\ Active(n, s) /\ s \in NodeState
        BY <2>1, <2>2, <4>1 DEF Active
      <4> HIDE DEF u
      <4> QED BY <4>1, <4>2, CommitteeAssumption DEF Round
    <3> HIDE DEF r
    <3>2. u \in NodeState
      BY <3>1, AdvanceRoundSound DEF Active, Sound
    <3>3. KeepsWord(s, u)
      BY <3>1, <3>2, AdvanceRoundKeeps
    <3> HIDE DEF u
    <3> QED BY <3>1, <3>2, <3>3, DriveKeeps
  <2>6. ASSUME NEW n \in Honest, Publish(n) \/ GiveUp(n) \/ Refuse(n) PROVE WordsStay
    <3>1. PICK u : /\ node' = [node EXCEPT ![n] = u] /\ u.round = node[n].round
                   /\ u.emitted = node[n].emitted /\ u.decided = node[n].decided
      <4>1. CASE Publish(n)
        <5> DEFINE e == [node[n] EXCEPT !.outbox = {}]
        <5>1. /\ node' = [node EXCEPT ![n] = e] /\ e.round = node[n].round
              /\ e.emitted = node[n].emitted /\ e.decided = node[n].decided
          BY <2>1, <4>1 DEF Publish, NodeState
        <5> HIDE DEF e
        <5> QED BY <5>1
      <4>2. CASE GiveUp(n) \/ Refuse(n)
        <5> DEFINE e == Failed(node[n])
        <5>1. /\ node' = [node EXCEPT ![n] = e] /\ e.round = node[n].round
              /\ e.emitted = node[n].emitted /\ e.decided = node[n].decided
          BY <2>1, <4>2 DEF GiveUp, Refuse, Failed, NodeState
        <5> HIDE DEF e
        <5> QED BY <5>1
      <4> QED BY <2>6, <4>1, <4>2
    <3>2. KeepsWord(node[n], u)
      BY <2>1, <3>1, KeepsWordQuietly
    <3> QED BY <3>1, <3>2, OneKeeps
  <2> QED BY <2>3, <2>4, <2>5, <2>6 DEF Next, Step
<1> QED BY <1>1, ConsensusInvariant, PTL DEF Spec

\* No two published envelopes of one honest governor conflict, so a peer that gets both
\* in any order never takes them for equivocation (handle_signed_envelope).
THEOREM GovernorsDoNotEquivocate == Spec => []NoEquivocation
<1>1. ConsensusInv => NoEquivocation
  BY HonestSpeech DEF NoEquivocation
<1> QED BY <1>1, ConsensusInvariant, PTL
=============================================================================
