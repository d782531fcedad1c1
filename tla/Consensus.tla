------------------------------ MODULE Consensus ------------------------------
(***************************************************************************)
(* One governance round among the governors of a committee:                *)
(* swarm-consensus/src/lib.rs (ConsensusCommittee, VoteLedger,             *)
(* ConsensusNode) driven by drive_round of swarm-consensus/src/transport.rs*)
(*                                                                         *)
(* Every governor runs its own ConsensusNode for one height: it proposes   *)
(* when it leads the round, prevotes the leader's proposal, precommits     *)
(* what 2f+1 prevoted and commits what 2f+1 precommitted.  The driver      *)
(* gives a node the rounds 0..f and stops at the first commit or error.    *)
(* Messages are signed, and may be lost, repeated and reordered; faulty    *)
(* governors say anything, to each node something else, and anyone may     *)
(* send an envelope in a governor's name that does not verify, or one it   *)
(* signed in another decision.                                             *)
(*                                                                         *)
(* Abstractions.  A proposal is its id and its payload, which nothing in   *)
(* the code binds to each other; a vote is for an id.  An envelope that    *)
(* does not verify carries the value Garbled.  The driver builds a fresh   *)
(* node for every governance decision, so a node never leaves its first    *)
(* height, and what it kept of the height when it committed is kept here.  *)
(* Decisions then share the height, and differ in previous_commit_hash: an *)
(* envelope of another decision carries the value Stale.                   *)
(* Subjects, hashes, tallies and exclusion receipts are left out; what     *)
(* the driver counts of the envelopes is action Refuse.                    *)
(***************************************************************************)
EXTENDS Naturals, FiniteSets

CONSTANTS
    Member,      \* the committee
    Faulty,      \* its members that may do anything
    MaxFaulty,   \* max_faulty, the f the committee was built with
    Proposers,   \* the leaders proposer_for may give to the rounds
    ProposalId,  \* proposal ids
    Payload,     \* and what a proposal proposes
    Queued,      \* Queued[n]: the proposal the driver of n is called with
    LastRound,   \* bound on the rounds of the model
    Forged,      \* what the faulty members send, or others in a member's name
    Heard,       \* Heard[n]: what the network does not lose on its way to n
    Exposed,     \* governors whose transport may bring what ends the round
    Nil,         \* a vote for no proposal
    Garbled,     \* the value of a message that does not verify
    Stale,       \* and of one with another previous_commit_hash
    None

Honest == Member \ Faulty
Round == 0..LastRound
Threshold == 2 * MaxFaulty + 1

Kind == {"proposal", "prevote", "precommit"}
Proposal == [id : ProposalId, payload : Payload]
Vote == ProposalId \cup {Nil}
Value == Proposal \cup Vote \cup {Garbled, Stale}
Carries(kind) == IF kind = "proposal" THEN Proposal ELSE Vote
Message ==
    {msg \in [kind : Kind, round : Round, from : Member, value : Value] :
        msg.value \in Carries(msg.kind) \cup {Garbled, Stale}}

\* ConsensusCommittee::new
ASSUME CommitteeAssumption ==
    /\ MaxFaulty \in Nat
    /\ LastRound \in Nat /\ (MaxFaulty = 0 => LastRound = 0)
    /\ IsFiniteSet(Member) /\ Cardinality(Member) >= Threshold
    /\ Faulty \subseteq Member
    /\ Proposers \subseteq [Round -> Member]
    /\ Queued \in [Honest -> Proposal]
    /\ Heard \in [Honest -> SUBSET Message]
    /\ Exposed \subseteq Honest

ASSUME ValueAssumption ==
    /\ None \notin Value
    /\ Nil \notin ProposalId
    /\ Garbled # Stale
    /\ Garbled \notin Proposal \cup Vote /\ Stale \notin Proposal \cup Vote

\* A faulty member signs any proposal and any vote.  Nobody signs for an honest one
\* (ConsensusSignedEnvelope::verify), but the sender an envelope names is only its
\* word: whoever reaches the transport can send what does not verify in any name, and
\* send again what an honest member signed in another decision.
ASSUME ForgedAssumption ==
    \A msg \in Forged : /\ msg \in Message
                        /\ msg.from \in Faulty \/ msg.value \in {Garbled, Stale}

VARIABLES
    proposer,  \* proposer[r]: proposer_for(previous_commit_hash, r)
    node,      \* node[n]: the ConsensusNode and driver of an honest governor
    sent       \* what honest governors have published

vars == <<proposer, node, sent>>

NoVotes == [m \in Member |-> None]

\* ConsensusNode::new.  `emitted` is what the node has said: emitted_prevotes and
\* emitted_precommits are the rounds of its votes, and the rest is history.  `out` is
\* the progress of the current call; `outbox` is what the driver has not published yet.
NewNode ==
    [status |-> "idle", round |-> 0, pending |-> None,
     proposal |-> [r \in Round |-> None],
     prevote |-> [r \in Round |-> NoVotes], precommit |-> [r \in Round |-> NoVotes],
     emitted |-> {}, seen |-> {}, excluded |-> [r \in Round |-> {}],
     decided |-> None, out |-> {}, outbox |-> {}]

Init ==
    /\ proposer \in Proposers
    /\ node = [n \in Honest |-> NewNode]
    /\ sent = {}

-----------------------------------------------------------------------------
(* ConsensusNode *)

Votes(ledger, v) == {m \in Member : ledger[m] = v}

\* Fault: two thirds of the committee is taken for enough.
QuorumOfTwoF(ledger, v) == Cardinality(Votes(ledger, v)) >= Threshold - 1

Quorum(ledger, v) == Cardinality(Votes(ledger, v)) >= Threshold

Says(n, kind, r, v) == [kind |-> kind, round |-> r, from |-> n, value |-> v]

Emitted(s, kind, r) == \E msg \in s.emitted : msg.kind = kind /\ msg.round = r

\* record_proposal, record_vote and push_outbound
RecordProposal(s, r, v) == [s EXCEPT !.proposal[r] = v]
RecordPrevote(s, r, m, v) == [s EXCEPT !.prevote[r][m] = v]
RecordPrecommit(s, r, m, v) == [s EXCEPT !.precommit[r][m] = v]
Send(s, msg) == [s EXCEPT !.emitted = @ \cup {msg}, !.out = @ \cup {msg}]

\* The proposal must be known by the id voted for, and both ledgers must hold a quorum
\* for that id; what is committed is the whole proposal.
Commit(s, r, v) ==
    IF /\ v # Nil /\ s.proposal[r] # None /\ s.proposal[r].id = v
       /\ Quorum(s.prevote[r], v) /\ Quorum(s.precommit[r], v)
    THEN [s EXCEPT !.status = "decided", !.decided = [round |-> r, value |-> s.proposal[r]],
                   !.pending = IF @ # None /\ @.id = v THEN None ELSE @]
    ELSE s

EmitPrecommit(n, s, r, v) ==
    LET t == RecordPrecommit(Send(s, Says(n, "precommit", r, v)), r, n, v)
    IN  IF Emitted(s, "precommit", r) THEN s
        ELSE IF Quorum(t.precommit[r], v) THEN Commit(t, r, v) ELSE t

EmitPrevote(n, s, r, v) ==
    LET t == RecordPrevote(Send(s, Says(n, "prevote", r, v)), r, n, v)
    IN  IF Emitted(s, "prevote", r) THEN s
        ELSE IF Quorum(t.prevote[r], v) THEN EmitPrecommit(n, t, r, v) ELSE t

\* Fault: the leader proposes and waits for the others' votes without its own.
EmitProposalUnvoted(n, s) ==
    LET r == s.round
        v == s.pending
    IN  IF proposer[r] = n /\ s.proposal[r] = None /\ v # None
        THEN RecordProposal(Send(s, Says(n, "proposal", r, v)), r, v) ELSE s

\* A node that leads its round and has a proposal queued proposes and prevotes it.
EmitProposalIfLeader(n, s) ==
    LET r == s.round
        v == s.pending
    IN  IF proposer[r] = n /\ s.proposal[r] = None /\ v # None
        THEN EmitPrevote(n, RecordProposal(Send(s, Says(n, "proposal", r, v)), r, v), r, v.id)
        ELSE s

\* Fault: a node forgets that it has voted when it leaves the round.
AdvanceRoundForgetting(n, s, r) ==
    EmitProposalIfLeader(n, [s EXCEPT !.round = r, !.emitted = {}])

AdvanceRound(n, s, r) == EmitProposalIfLeader(n, [s EXCEPT !.round = r])

Failed(s) == [s EXCEPT !.status = "failed"]

\* A proposal from anyone but the round's proposer, or another proposal than the
\* recorded one, is an error.
ObserveProposal(n, s, m, r, v) ==
    IF m # proposer[r] \/ s.proposal[r] \notin {None, v} THEN Failed(s)
    ELSE EmitPrevote(n, RecordProposal(s, r, v), r, v.id)

\* Conflicting votes of one member are an error.
ObservePrevote(n, s, m, r, v) ==
    LET t == RecordPrevote(s, r, m, v)
    IN  IF s.prevote[r][m] \notin {None, v} THEN Failed(s)
        ELSE IF Quorum(t.prevote[r], v) THEN EmitPrecommit(n, t, r, v) ELSE t

ObservePrecommit(n, s, m, r, v) ==
    LET t == RecordPrecommit(s, r, m, v)
    IN  IF s.precommit[r][m] \notin {None, v} THEN Failed(s)
        ELSE IF Quorum(t.precommit[r], v) THEN Commit(t, r, v) ELSE t

\* A message for a later round takes the node there first; what it would send on
\* entering is dropped.
ObserveMessage(n, s, msg) ==
    LET t == IF msg.round > s.round
             THEN [AdvanceRound(n, s, msg.round) EXCEPT !.out = {}] ELSE s
    IN  IF msg.round < s.round THEN s
        ELSE IF msg.kind = "proposal" THEN ObserveProposal(n, t, msg.from, msg.round, msg.value)
        ELSE IF msg.kind = "prevote" THEN ObservePrevote(n, t, msg.from, msg.round, msg.value)
        ELSE ObservePrecommit(n, t, msg.from, msg.round, msg.value)

\* SignedMessageKey
SameKey(old, msg) == old.kind = msg.kind /\ old.round = msg.round /\ old.from = msg.from

\* Fault: a repeated envelope is taken for a second, conflicting one.
ConflictsWithAny(seen, msg) == \E old \in seen : SameKey(old, msg)

\* seen_signed_messages has another envelope under the same key.
Conflicts(seen, msg) == \E old \in seen : SameKey(old, msg) /\ old # msg

\* exclude_sender, drop_sender_round_contributions.  The sender is the one the envelope
\* names, the node itself included: what it has emitted it does not emit again.
ExcludeSender(s, r, m) ==
    [s EXCEPT !.excluded[r] = @ \cup {m},
              !.proposal[r] = IF proposer[r] = m THEN None ELSE @,
              !.prevote[r][m] = None, !.precommit[r][m] = None,
              !.seen = {old \in @ : ~(old.round = r /\ old.from = m)}]

\* handle_signed_envelope.  An envelope of another decision is remembered, like any that
\* verifies, before observe_message finds that it has nothing to do with this one.
HandleSignedEnvelope(n, s, msg) ==
    IF msg.from \in s.excluded[msg.round] THEN s
    ELSE IF Conflicts(s.seen, msg) THEN ExcludeSender(s, msg.round, msg.from)
    ELSE IF msg \in s.seen THEN s
    ELSE IF msg.value = Garbled THEN ExcludeSender(s, msg.round, msg.from)
    ELSE LET t == [s EXCEPT !.seen = @ \cup {msg}]
         IN  IF msg.value = Stale THEN t ELSE ObserveMessage(n, t, msg)

-----------------------------------------------------------------------------
(* drive_round *)

\* A call's progress goes to the outbox, except that a commit ends the round: its
\* own messages are published and what the outbox still holds is not.
Drive(n, s) ==
    IF s.status = "decided"
    THEN /\ sent' = sent \cup s.out
         /\ node' = [node EXCEPT ![n] = [s EXCEPT !.out = {}, !.outbox = {}]]
    ELSE /\ node' = [node EXCEPT ![n] = [s EXCEPT !.out = {}, !.outbox = @ \cup s.out]]
         /\ UNCHANGED sent

\* queue_proposal
Start(n) ==
    /\ node[n].status = "idle"
    /\ Drive(n, EmitProposalIfLeader(n, [node[n] EXCEPT !.status = "running",
                                                       !.pending = Queued[n]]))

Publish(n) ==
    /\ node[n].status = "running" /\ node[n].outbox # {}
    /\ sent' = sent \cup node[n].outbox
    /\ node' = [node EXCEPT ![n].outbox = {}]

\* An envelope the transport delivers, in any order and any number of times.
Receive(n) ==
    /\ node[n].status = "running"
    /\ \E msg \in (sent \cup Forged) \cap Heard[n] :
          Drive(n, HandleSignedEnvelope(n, node[n], msg))

\* Nothing has arrived and everything is published: the round clock advances.
Timeout(n) ==
    /\ node[n].status = "running" /\ node[n].outbox = {}
    /\ node[n].round < MaxFaulty /\ node[n].round < LastRound
    /\ Drive(n, AdvanceRound(n, node[n], node[n].round + 1))

\* The last round's time is over.
GiveUp(n) ==
    /\ node[n].status = "running" /\ node[n].outbox = {}
    /\ node[n].round >= MaxFaulty
    /\ node' = [node EXCEPT ![n] = Failed(@)]
    /\ UNCHANGED sent

\* More than max_inbound envelopes were delivered, or one that handle_envelope refuses:
\* with another subject, from outside the committee, of a later height.
Refuse(n) ==
    /\ n \in Exposed /\ node[n].status = "running"
    /\ node' = [node EXCEPT ![n] = Failed(@)]
    /\ UNCHANGED sent

Step(n) == Start(n) \/ Publish(n) \/ Receive(n) \/ Timeout(n) \/ GiveUp(n) \/ Refuse(n)

Next == UNCHANGED proposer /\ \E n \in Honest : Step(n)

Spec == Init /\ [][Next]_vars

-----------------------------------------------------------------------------
(* Properties *)

Choice == Vote \cup {None}

NodeState ==
    [status : {"idle", "running", "decided", "failed"}, round : Round,
     pending : Proposal \cup {None}, proposal : [Round -> Proposal \cup {None}],
     prevote : [Round -> [Member -> Choice]], precommit : [Round -> [Member -> Choice]],
     emitted : SUBSET Message, seen : SUBSET Message, excluded : [Round -> SUBSET Member],
     decided : [round : Round, value : Proposal] \cup {None},
     out : SUBSET Message, outbox : SUBSET Message]

TypeOK ==
    /\ proposer \in [Round -> Member]
    /\ node \in [Honest -> NodeState]
    /\ sent \subseteq {msg \in Message : msg.from \in Honest}

\* It has said one thing of every kind in a round, and proposed where it leads.
OneWord(n, s) ==
    /\ s.status = "idle" => s.emitted = {}
    /\ \A msg \in s.emitted :
          /\ msg.from = n /\ msg.value \notin {Garbled, Stale}
          /\ msg.kind = "proposal" => proposer[msg.round] = n /\ msg.round <= s.round
          /\ \A old \in s.emitted : SameKey(old, msg) => old = msg

\* What it has published or is about to publish it has said.
Stands(n, s) ==
    /\ s.out \cup s.outbox \subseteq s.emitted
    /\ \A msg \in sent : msg.from = n => msg \in s.emitted

\* It has an honest member's vote or proposal only from that member.
Learned(s) ==
    \A r \in Round :
        /\ \A m \in Honest :
              /\ s.prevote[r][m] # None =>
                    Says(m, "prevote", r, s.prevote[r][m]) \in sent \cup s.emitted
              /\ s.precommit[r][m] # None =>
                    Says(m, "precommit", r, s.precommit[r][m]) \in sent \cup s.emitted
        /\ s.proposal[r] # None /\ proposer[r] \in Honest =>
              Says(proposer[r], "proposal", r, s.proposal[r]) \in sent \cup s.emitted

Seen(n, s) ==
    \A msg \in s.seen : msg \in sent \cup (Forged \cap Heard[n]) /\ msg.value # Garbled

\* Someone sent n an envelope in m's name that m did not sign, or not in this decision.
Maligned(n, r, m) ==
    \E msg \in Forged \cap Heard[n] :
        msg.from = m /\ msg.round = r /\ msg.value \in {Garbled, Stale}

Excludes(n, s) == \A r \in Round : \A m \in s.excluded[r] : m \in Faulty \/ Maligned(n, r, m)

\* A commit rests on 2f+1 recorded precommits.
Certified(s, c) ==
    \E Q \in SUBSET Member : /\ Cardinality(Q) >= Threshold
                             /\ \A m \in Q : s.precommit[c.round][m] = c.value.id

Commits(s) ==
    s.decided # None =>
        /\ s.status \in {"decided", "failed"} /\ Certified(s, s.decided)
        /\ s.proposal[s.decided.round] = s.decided.value

\* What is true of a governor's state before and after every operation.
Sound(n, s) ==
    /\ s \in NodeState /\ OneWord(n, s) /\ Stands(n, s) /\ Learned(s)
    /\ Seen(n, s) /\ Excludes(n, s) /\ Commits(s)

\* The inductive invariant: whatever a governor believes of an honest one, that one
\* has said, and it has said one thing only.
ConsensusInv ==
    /\ TypeOK
    /\ \A n \in Honest : Sound(n, node[n])

Decided(n) == node[n].decided # None

\* Two governors that commit in the same round commit the same proposal id, whatever
\* the faulty ones told each of them and whoever was excluded on the way; the payloads
\* are the same too when the round's proposer is honest.  (A faulty one may send one id
\* with two payloads, and both are committed: section 4 of the README.)
RoundAgreement ==
    \A n, k \in Honest :
        LET mine == node[n].decided
            other == node[k].decided
        IN  Decided(n) /\ Decided(k) /\ mine.round = other.round =>
                /\ mine.value.id = other.value.id
                /\ proposer[mine.round] \in Honest => mine.value = other.value

\* A governor excludes an honest one, itself included, only where an envelope in that
\* one's name came to it that does not verify, or that is of another decision: nothing the
\* honest one sends in this one, repeated, delayed or reordered, is ever taken for
\* equivocation (handle_signed_envelope).
ExclusionsHaveCause ==
    \A n, m \in Honest, r \in Round : m \in node[n].excluded[r] => Maligned(n, r, m)

\* What a node's ledgers say an honest member voted is what that member voted.
LedgersAreHonest ==
    \A n, m \in Honest, r \in Round :
        /\ node[n].prevote[r][m] # None =>
              Says(m, "prevote", r, node[n].prevote[r][m]) \in node[m].emitted
        /\ node[n].precommit[r][m] # None =>
              Says(m, "precommit", r, node[n].precommit[r][m]) \in node[m].emitted

\* Nobody has given up or gone on to a later round, and every envelope published has
\* been handled by every governor still in the first one.
Settled ==
    \A n \in Honest :
        \/ Decided(n)
        \/ /\ node[n].status = "running" /\ node[n].round = 0 /\ node[n].outbox = {}
           /\ \A msg \in sent : msg.from = n \/ msg \in node[n].seen

\* Nothing has arrived but what the honest governors sent.
Quiet ==
    \A n \in Honest :
        /\ node[n].seen \subseteq sent
        /\ \A r \in Round : node[n].excluded[r] = {}

\* When the first round's proposer is honest, the faulty governors are silent and no
\* message is lost or forged, the round does not end without a commit, in whatever order the
\* messages came.
RoundZeroCommits ==
    Settled /\ Quiet /\ proposer[0] \in Honest /\ Cardinality(Honest) >= Threshold
        => \E n \in Honest : Decided(n)

\* All governors that commit at a height commit the same proposal, as the crate's
\* header says.  The code does not keep it: section 4 of the README.
Agreement ==
    \A n, k \in Honest : Decided(n) /\ Decided(k) =>
        node[n].decided.value = node[k].decided.value
=============================================================================
