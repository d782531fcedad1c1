-------------------------- MODULE GovernanceProofs --------------------------
(***************************************************************************)
(* Proofs about Governance, for any number of requests, kinds, scopes,     *)
(* governors and restarts.  GovernanceInv has five parts.  Types and the   *)
(* flow of requests are shown action by action; leases, documents and      *)
(* records only see five shapes of step, and are shown shape by shape.     *)
(***************************************************************************)
EXTENDS Governance, FiniteSetTheorems, WellFoundedInduction, TLAPS

-----------------------------------------------------------------------------
(* Operations on the state *)

\* The partition state machine: healing comes only after a partition, and always.
LEMMA NextStateFacts ==
    ASSUME NEW from \in PartitionState, NEW m, NEW down, NEW others
    PROVE  LET next == NextState(from, BaseState(m, down, others))
           IN  /\ next \in PartitionState
               /\ next = "Healing" => from = "Partitioned"
               /\ from = "Partitioned" => next \in {"Partitioned", "Healing"}
  BY DEF NextState, BaseState, PartitionState

\* Reconciling empties the activity and changes nothing but it and the reports.
LEMMA ReconcileFacts ==
    ASSUME NEW m \in State
    PROVE  /\ Reconcile(m) \in State /\ Reconcile(m).activity = {}
           /\ Reconcile(m).peers = m.peers /\ Reconcile(m).keyed = m.keyed
           /\ Reconcile(m).display = m.display /\ Reconcile(m).unhealthy = m.unhealthy
           /\ Reconcile(m).leases = m.leases /\ Reconcile(m).round = m.round
           /\ Reconcile(m).partition = m.partition
           /\ Reconcile(m).reports =
                LET all == Append(m.reports, m.activity)
                IN  IF Len(all) > MaxReports THEN Tail(all) ELSE all
  <1> DEFINE all == Append(m.reports, m.activity)
  <1>1. all \in Seq(SUBSET Attempt) /\ Len(all) = Len(m.reports) + 1 /\ all # <<>>
    BY DEF State
  <1>2. Tail(all) \in Seq(SUBSET Attempt)
    BY <1>1
  <1> QED
    BY <1>1, <1>2 DEF Reconcile, State

\* What a look at the swarm's health leaves of the state, before leases are staged.
LEMMA SettledFacts ==
    ASSUME NEW m \in State, NEW down, NEW others, clock \in Nat
    PROVE  LET s == Settled(m, down, others)
           IN  /\ s \in State /\ s.peers = m.peers /\ s.keyed = m.keyed /\ s.display = m.display
               /\ s.round = m.round /\ s.leases = {l \in m.leases : Live(l)}
               /\ s.partition = "Healing" =>
                    /\ m.partition = "Partitioned" /\ s.activity = {}
                    /\ s.reports = LET all == Append(m.reports, m.activity)
                                   IN  IF Len(all) > MaxReports THEN Tail(all) ELSE all
               /\ s.partition # "Healing" => s.activity = m.activity /\ s.reports = m.reports
               /\ m.partition = "Partitioned" => s.partition \in {"Partitioned", "Healing"}
  <1> DEFINE next == NextState(m.partition, BaseState(m, down, others))
             known == [m EXCEPT !.unhealthy = down # {} \/ others, !.partition = next,
                                !.leases = {l \in @ : Live(l)}]
  <1>0. m.partition \in PartitionState
    BY DEF State
  <1>1. /\ next \in PartitionState
        /\ next = "Healing" => m.partition = "Partitioned"
        /\ m.partition = "Partitioned" => next \in {"Partitioned", "Healing"}
    BY <1>0, NextStateFacts
  <1> HIDE DEF next
  <1>2. known \in State
    BY <1>1 DEF State
  <1>3. /\ known.partition = next /\ known.leases = {l \in m.leases : Live(l)}
        /\ known.peers = m.peers /\ known.keyed = m.keyed /\ known.display = m.display
        /\ known.round = m.round /\ known.activity = m.activity /\ known.reports = m.reports
    BY DEF State
  <1>4. Settled(m, down, others) = IF next = "Healing" THEN Reconcile(known) ELSE known
    BY DEF Settled, next
  <1> HIDE DEF known
  <1>5. CASE next = "Healing"
    <2>1. Settled(m, down, others) = Reconcile(known)
      BY <1>4, <1>5
    <2> QED
      BY <1>1, <1>2, <1>3, <1>5, <2>1, ReconcileFacts
  <1>6. CASE next # "Healing"
    <2>1. Settled(m, down, others) = known
      BY <1>4, <1>6
    <2> QED
      BY <1>1, <1>2, <1>3, <1>6, <2>1
  <1> QED
    BY <1>5, <1>6

\* Staging adds fresh leases under a round later than any before, or changes nothing.
LEMMA StagedFacts ==
    ASSUME NEW m \in State, rounds \in Nat, clock \in Nat, m.round <= rounds
    PROVE  LET s == Staged(m)
               new == s.leases \ m.leases
           IN  \/ s = m
               \/ /\ s \in State /\ s.round > rounds /\ RoundCommits(m) /\ Cap > 0
                  /\ m.leases \subseteq s.leases
                  /\ \A l \in new : l.redeemed = {} /\ l.round = s.round
                  /\ \A l, o \in new : Id(l) = Id(o) => l = o
                  /\ s.peers = m.peers /\ s.keyed = m.keyed /\ s.display = m.display
                  /\ s.partition = m.partition /\ s.activity = m.activity
                  /\ s.reports = m.reports
  <1> DEFINE kinds == Wanting(m.leases)
             last == rounds + Cardinality(kinds)
             fresh == {[kind |-> k, at |-> clock, round |-> last, redeemed |-> {}] : k \in kinds}
             grown == [m EXCEPT !.round = last, !.leases = @ \cup fresh]
  <1>1. CASE ~(m.partition = "Healthy" /\ RoundCommits(m) /\ Cap > 0 /\ TTL > 0 /\ kinds # {})
    BY <1>1 DEF Staged
  <1>2. CASE m.partition = "Healthy" /\ RoundCommits(m) /\ Cap > 0 /\ TTL > 0 /\ kinds # {}
    <2>1. kinds \subseteq Kind /\ IsFiniteSet(kinds)
      BY KindAssumption, FS_Subset DEF Wanting
    <2>2. Cardinality(kinds) \in Nat /\ Cardinality(kinds) # 0
      BY <1>2, <2>1, FS_CardinalityType, FS_EmptySet
    <2>3. last \in Nat /\ last > rounds
      BY <2>2
    <2>4. Staged(m) = grown
      BY <1>2 DEF Staged
    <2> HIDE DEF kinds, last
    <2>5. fresh \subseteq Lease
      BY <2>1, <2>3 DEF Lease
    <2>6. \A l \in fresh : l.redeemed = {} /\ l.round = last /\ l.at = clock
      OBVIOUS
    <2>7. \A l, o \in fresh : l.kind = o.kind => l = o
      OBVIOUS
    <2>8. \A l, o \in fresh : Id(l) = Id(o) => l = o
      BY <2>7 DEF Id
    <2> HIDE DEF fresh
    <2>9. /\ grown \in State /\ grown.round = last /\ grown.leases = m.leases \cup fresh
          /\ grown.peers = m.peers /\ grown.keyed = m.keyed /\ grown.display = m.display
          /\ grown.partition = m.partition /\ grown.activity = m.activity
          /\ grown.reports = m.reports
      BY <2>3, <2>5 DEF State
    <2> HIDE DEF grown
    <2> QED
      BY <1>2, <2>3, <2>4, <2>6, <2>8, <2>9
  <1> QED
    BY <1>1, <1>2

\* What TomTick does to the state: live leases stay, new ones are empty and later than
\* all before, and a partition's end turns the activity into a report.
LEMMA ObservedFacts ==
    ASSUME NEW m \in State, NEW down, NEW others,
           rounds \in Nat, clock \in Nat, m.round <= rounds
    PROVE  LET s == Observed(m, down, others)
           IN  /\ s \in State /\ s.peers = m.peers /\ s.keyed = m.keyed /\ s.display = m.display
               /\ s.round = m.round \/ (s.round > rounds /\ RoundCommits(m))
               /\ \A l \in m.leases : Live(l) => l \in s.leases
               /\ \A l \in s.leases :
                    l \in m.leases \/ (l.redeemed = {} /\ l.round = s.round /\ s.round > rounds)
               /\ \A l, o \in s.leases :
                    l \notin m.leases /\ o \notin m.leases /\ Id(l) = Id(o) => l = o
               /\ s.partition = "Healing" =>
                    /\ m.partition = "Partitioned" /\ s.activity = {}
                    /\ s.reports = LET all == Append(m.reports, m.activity)
                                   IN  IF Len(all) > MaxReports THEN Tail(all) ELSE all
               /\ s.partition # "Healing" => s.activity = m.activity /\ s.reports = m.reports
               /\ m.partition = "Partitioned" => s.partition \in {"Partitioned", "Healing"}
  <1> DEFINE c == Settled(m, down, others)
             s == Staged(c)
  <1>1. /\ c \in State /\ c.peers = m.peers /\ c.keyed = m.keyed /\ c.display = m.display
        /\ c.round = m.round /\ c.leases = {l \in m.leases : Live(l)}
        /\ c.partition = "Healing" =>
             /\ m.partition = "Partitioned" /\ c.activity = {}
             /\ c.reports = LET all == Append(m.reports, m.activity)
                            IN  IF Len(all) > MaxReports THEN Tail(all) ELSE all
        /\ c.partition # "Healing" => c.activity = m.activity /\ c.reports = m.reports
        /\ m.partition = "Partitioned" => c.partition \in {"Partitioned", "Healing"}
    BY SettledFacts
  <1>2. Observed(m, down, others) = s
    BY DEF Observed
  <1> HIDE DEF c
  <1>3. \/ s = c
        \/ /\ s \in State /\ s.round > rounds /\ RoundCommits(c) /\ Cap > 0
           /\ c.leases \subseteq s.leases
           /\ \A l \in s.leases \ c.leases : l.redeemed = {} /\ l.round = s.round
           /\ \A l, o \in s.leases \ c.leases : Id(l) = Id(o) => l = o
           /\ s.peers = c.peers /\ s.keyed = c.keyed /\ s.display = c.display
           /\ s.partition = c.partition /\ s.activity = c.activity
           /\ s.reports = c.reports
    BY <1>1, StagedFacts
  <1> HIDE DEF s
  <1>4. CASE s = c
    BY <1>1, <1>2, <1>4
  <1>5. CASE s # c
    <2>1. RoundCommits(m)
      BY <1>1, <1>3, <1>5 DEF RoundCommits
    <2>2. \A l \in m.leases : Live(l) => l \in s.leases
      BY <1>1, <1>3, <1>5
    <2>3. \A l \in s.leases : l \in m.leases \/ (l.redeemed = {} /\ l.round = s.round /\ s.round > rounds)
      BY <1>1, <1>3, <1>5
    <2>4. \A l, o \in s.leases : l \notin m.leases /\ o \notin m.leases /\ Id(l) = Id(o) => l = o
      BY <1>1, <1>3, <1>5
    <2> QED
      BY <1>1, <1>2, <1>3, <1>5, <2>1, <2>2, <2>3, <2>4
  <1> QED
    BY <1>4, <1>5

\* A save leaves the document as it was, or makes it the state saved.
LEMMA PersistFacts ==
    ASSUME NEW m \in State, disk \in Document, Persist(m)
    PROVE  /\ saved' \in BOOLEAN /\ disk' \in Document
           /\ \/ ~saved' /\ disk' = disk
              \/ /\ disk'.peers = m.peers /\ disk'.partition = m.partition
                 /\ disk'.leases = m.leases /\ disk'.activity = m.activity
                 /\ disk'.reports = m.reports /\ disk'.round = m.round
  <1>1. Persisted(m) \in Document
    BY DEF Persisted, State, Document
  <1>2. CASE saved' = TRUE
    BY <1>1, <1>2 DEF Persist, Persisted
  <1>3. CASE saved' = FALSE
    BY <1>3 DEF Persist
  <1> QED
    BY <1>2, <1>3 DEF Persist

\* Charging a lease replaces it by one that has the scope, and touches nothing else.
LEMMA ChargeFacts ==
    ASSUME NEW m \in State, NEW l \in m.leases, NEW r \in Request
    PROVE  LET n == [l EXCEPT !.redeemed = @ \cup {ScopeOf[r]}]
               c == Charge(m, l, r)
           IN  /\ c \in State /\ n \in Lease /\ Id(n) = Id(l) /\ n.round = l.round
               /\ n.redeemed = l.redeemed \cup {ScopeOf[r]}
               /\ c.leases = (m.leases \ {l}) \cup {n}
               /\ c.peers = m.peers /\ c.partition = m.partition /\ c.activity = m.activity
               /\ c.reports = m.reports /\ c.round = m.round /\ c.keyed = m.keyed
               /\ c.display = m.display /\ c.unhealthy = m.unhealthy
  <1> DEFINE n == [l EXCEPT !.redeemed = @ \cup {ScopeOf[r]}]
  <1>1. l \in Lease /\ ScopeOf[r] \in Scope
    BY RequestAssumption DEF State
  <1>2. n \in Lease /\ n.redeemed = l.redeemed \cup {ScopeOf[r]} /\ n.round = l.round /\ Id(n) = Id(l)
    BY <1>1 DEF Lease, Id
  <1> HIDE DEF n
  <1>3. Charge(m, l, r) = [m EXCEPT !.leases = (@ \ {l}) \cup {n}]
    BY DEF Charge, n
  <1>4. /\ Charge(m, l, r) \in State
        /\ Charge(m, l, r).leases = (m.leases \ {l}) \cup {n}
    BY <1>2, <1>3 DEF State
  <1>5. LET c == Charge(m, l, r)
        IN  /\ c.peers = m.peers /\ c.partition = m.partition /\ c.activity = m.activity
            /\ c.reports = m.reports /\ c.round = m.round /\ c.keyed = m.keyed
            /\ c.display = m.display /\ c.unhealthy = m.unhealthy
    BY <1>3 DEF State
  <1> QED
    BY <1>2, <1>4, <1>5 DEF n

\* Recording an attempt adds one, under the next number.
LEMMA RecordFacts ==
    ASSUME NEW m \in State, NEW authorized \in BOOLEAN, noted \in Nat
    PROVE  LET c == Record(m, authorized)
           IN  /\ c \in State
               /\ c.activity = m.activity \cup {[number |-> noted + 1, authorized |-> authorized]}
               /\ c.peers = m.peers /\ c.partition = m.partition /\ c.leases = m.leases
               /\ c.reports = m.reports /\ c.round = m.round /\ c.keyed = m.keyed
               /\ c.display = m.display /\ c.unhealthy = m.unhealthy
  <1>1. [number |-> noted + 1, authorized |-> authorized] \in Attempt
    BY DEF Attempt
  <1> QED
    BY <1>1 DEF Record, State

\* What authorize_partition_request does in a partition.
LEMMA AuthorizeFacts ==
    ASSUME TypeOK, NEW r \in Request, AuthorizePartition(r)
    PROVE  /\ mem' \in State /\ disk' \in Document /\ saved' \in BOOLEAN
           /\ mem'.peers = mem.peers /\ mem'.partition = mem.partition
           /\ mem'.reports = mem.reports /\ mem'.round = mem.round /\ mem'.keyed = mem.keyed
           /\ mem'.display = mem.display
           /\ \E ok \in BOOLEAN :
                mem'.activity = mem.activity \cup {[number |-> noted + 1, authorized |-> ok]}
           /\ noted' = noted + 1
           /\ \/ ~saved' /\ disk' = disk
              \/ /\ disk'.peers = mem'.peers /\ disk'.partition = mem'.partition
                 /\ disk'.leases = mem'.leases /\ disk'.activity = mem'.activity
                 /\ disk'.reports = mem'.reports /\ disk'.round = mem'.round
           /\ \/ mem'.leases = mem.leases /\ charged' = charged
              \/ LET l == req[r].lease
                     n == [l EXCEPT !.redeemed = @ \cup {ScopeOf[r]}]
                 IN  /\ l \in mem.leases /\ IsStored(mem, l) /\ CanRedeem(l, r)
                     /\ n \in Lease /\ Id(n) = Id(l) /\ n.round = l.round
                     /\ n.redeemed = l.redeemed \cup {ScopeOf[r]}
                     /\ mem'.leases = (mem.leases \ {l}) \cup {n}
                     /\ charged' = charged \cup {<<Id(l), ScopeOf[r]>>}
  <1> DEFINE l == req[r].lease
             n == [l EXCEPT !.redeemed = @ \cup {ScopeOf[r]}]
             ok == Redeemable(r)
             base == IF ok THEN Charge(mem, l, r) ELSE mem
  <1>1. mem \in State /\ disk \in Document /\ noted \in Nat
    BY DEF TypeOK
  <1>2. ok \in BOOLEAN
    BY DEF Redeemable, IsStored, CanRedeem, Live
  <1>3. mem' = Record(base, ok) /\ Persist(mem') /\ noted' = noted + 1
        /\ charged' = IF ok THEN charged \cup {<<Id(l), ScopeOf[r]>>} ELSE charged
    BY DEF AuthorizePartition
  <1>4. ok => l \in mem.leases /\ IsStored(mem, l) /\ CanRedeem(l, r)
    BY DEF Redeemable, IsStored
  <1> HIDE DEF l, ok
  <1>5. /\ base \in State
        /\ base.peers = mem.peers /\ base.partition = mem.partition /\ base.activity = mem.activity
        /\ base.reports = mem.reports /\ base.round = mem.round /\ base.keyed = mem.keyed
        /\ base.display = mem.display
        /\ ~ok => base.leases = mem.leases
        /\ ok => /\ n \in Lease /\ Id(n) = Id(l) /\ n.round = l.round
                 /\ n.redeemed = l.redeemed \cup {ScopeOf[r]}
                 /\ base.leases = (mem.leases \ {l}) \cup {n}
    BY <1>1, <1>4, ChargeFacts
  <1> HIDE DEF base, n
  <1>6. /\ mem' \in State
        /\ mem'.activity = mem.activity \cup {[number |-> noted + 1, authorized |-> ok]}
        /\ mem'.peers = mem.peers /\ mem'.partition = mem.partition /\ mem'.leases = base.leases
        /\ mem'.reports = mem.reports /\ mem'.round = mem.round /\ mem'.keyed = mem.keyed
        /\ mem'.display = mem.display
    BY <1>1, <1>2, <1>3, <1>5, RecordFacts
  <1>7. /\ saved' \in BOOLEAN /\ disk' \in Document
        /\ \/ ~saved' /\ disk' = disk
           \/ /\ disk'.peers = mem'.peers /\ disk'.partition = mem'.partition
              /\ disk'.leases = mem'.leases /\ disk'.activity = mem'.activity
              /\ disk'.reports = mem'.reports /\ disk'.round = mem'.round
    BY <1>1, <1>3, <1>6, PersistFacts
  <1>8. \E a \in BOOLEAN : mem'.activity = mem.activity \cup {[number |-> noted + 1, authorized |-> a]}
    BY <1>2, <1>6
  <1>9. CASE ok
    BY <1>3, <1>4, <1>5, <1>6, <1>7, <1>8, <1>9 DEF l, n
  <1>10. CASE ~ok
    BY <1>3, <1>5, <1>6, <1>7, <1>8, <1>10
  <1> QED
    BY <1>9, <1>10

-----------------------------------------------------------------------------
(* Types *)

\* First finds a lease in every set that has one.
LEMMA FirstFacts ==
    ASSUME NEW leases \in SUBSET Lease, leases # {}
    PROVE  First(leases) \in leases /\ \A o \in leases : First(leases).round <= o.round
  <1> DEFINE rs == {l.round : l \in leases}
  <1>1. rs \subseteq Nat /\ rs # {}
    BY DEF Lease
  <1>2. PICK n \in rs : \A k \in rs : ~(<<k, n>> \in {p \in Nat \X Nat : p[1] < p[2]})
    <2>1. IsWellFoundedOn({p \in Nat \X Nat : p[1] < p[2]}, Nat)
      BY NatLessThanWellFounded, Zenon DEF OpToRel
    <2> HIDE DEF rs
    <2> QED
      BY <1>1, <2>1, WFMin
  <1>3. \A k \in rs : n <= k
    <2> TAKE k \in rs
    <2>1. k \in Nat /\ n \in Nat /\ ~(<<k, n>> \in {p \in Nat \X Nat : p[1] < p[2]})
      BY <1>1, <1>2
    <2> HIDE DEF rs
    <2>2. ~(k < n)
      BY <2>1
    <2> QED
      BY <2>1, <2>2
  <1>4. PICK l \in leases : l.round = n
    BY <1>2
  <1>5. \A o \in leases : l.round <= o.round
    BY <1>3, <1>4
  <1> QED
    BY <1>5 DEF First

\* A decision is a typed answer, and an approval when it allows.
LEMMA DecisionFacts ==
    ASSUME TypeOK, NEW r \in Request
    PROVE  /\ Decision(r) \in Asked /\ Decision(r).at \in {"vetoed", "allowed"}
           /\ Decision(r).at = "allowed" =>
                Decision(r).receipt # None /\ Decision(r).receipt.decision = "approve"
  <1>1. mem.leases \subseteq Lease /\ clock \in Nat
    BY DEF TypeOK, State
  <1>2. \A l \in Lease : Id(l) \in Kind \X Nat /\ l.at \in Nat
    BY DEF Lease, Id
  <1>3. \A id \in (Kind \X Nat) \cup {None}, at \in Nat :
          Approval(id, at) \in Receipt /\ Approval(id, at).decision = "approve"
    BY DEF Approval, Receipt
  <1>4. Veto(None) \in Asked /\ Veto(None).at = "vetoed"
    BY DEF Veto, Idle, Asked
  <1>5. \A c \in Receipt : Veto(c) \in Asked /\ Veto(c).at = "vetoed"
    BY DEF Veto, Idle, Asked
  <1>6. \A c \in Receipt, l \in Lease \cup {None} :
          Allow(c, l) \in Asked /\ Allow(c, l).at = "allowed" /\ Allow(c, l).receipt = c
    BY DEF Allow, Idle, Asked
  <1>7. \A c \in Receipt : c # None
    BY NoneAssumption
  <1>8. CASE ~mem.keyed
    BY <1>4, <1>8 DEF Decision
  <1>9. CASE mem.keyed /\ mem.partition = "Partitioned"
    <2>1. CASE Matching(r) = {}
      BY <1>4, <1>9, <2>1 DEF Decision
    <2>2. CASE Matching(r) # {}
      <3> DEFINE l == First(Matching(r))
      <3>1. Matching(r) \in SUBSET Lease
        BY <1>1 DEF Matching
      <3>2. l \in Lease
        BY <2>2, <3>1, FirstFacts
      <3>3. Decision(r) = Allow(Approval(Id(l), l.at), l)
        BY <1>9, <2>2 DEF Decision
      <3> HIDE DEF l
      <3> QED
        BY <1>2, <1>3, <1>6, <1>7, <3>2, <3>3
    <2> QED
      BY <2>1, <2>2
  <1>10. CASE mem.keyed /\ mem.partition # "Partitioned"
    <2>1. [Approval(None, clock) EXCEPT !.decision = "veto"] \in Receipt
      BY <1>1 DEF Approval, Receipt
    <2>2. \/ Decision(r) = Veto(None)
          \/ Decision(r) = Veto([Approval(None, clock) EXCEPT !.decision = "veto"])
          \/ Decision(r) = Allow(Approval(None, clock), None)
      BY <1>10 DEF Decision
    <2> QED
      BY <1>1, <1>3, <1>4, <1>5, <1>6, <1>7, <2>1, <2>2
  <1> QED
    BY <1>8, <1>9, <1>10

\* What an adapter is asked to do on good evidence.
LEMMA ActFacts ==
    ASSUME TypeOK, EvidenceSound, NEW r \in Request, req[r].at \in {"routed", "granted"}
    PROVE  /\ \A act \in Act(r) : act \in acts \/ act.decision = "approve"
           /\ Act(r) \subseteq Acts
  <1>1. req[r] \in Asked /\ req[r].receipt # None /\ req[r].receipt.decision = "approve"
    BY DEF TypeOK, EvidenceSound
  <1>2. req[r].receipt \in Receipt
    BY <1>1 DEF Asked
  <1>3. req[r].receipt.lease \in (Kind \X Nat) \cup {None}
    BY <1>2 DEF Receipt
  <1>4. ScopeOf[r] \in Scope
    BY RequestAssumption
  <1>5. acts \subseteq Acts
    BY DEF TypeOK
  <1> QED
    BY <1>1, <1>3, <1>4, <1>5 DEF Act, Acts

\* Requests stay requests.
LEMMA AskedFacts ==
    /\ Idle \in Asked /\ Idle.at = "new"
    /\ Done \in Asked /\ Done.at = "done"
    /\ \A q \in Asked, b \in BOOLEAN :
         LET n == [q EXCEPT !.at = "routed", !.redeemed = b]
         IN  n \in Asked /\ n.at = "routed" /\ n.receipt = q.receipt /\ n.redeemed = b
    /\ \A q \in Asked : LET n == [q EXCEPT !.at = "granted"]
                        IN  n \in Asked /\ n.at = "granted" /\ n.receipt = q.receipt
    /\ \A q \in Asked : LET n == [q EXCEPT !.at = "held"]
                        IN  n \in Asked /\ n.at = "held" /\ n.receipt = q.receipt
    /\ \A q \in Asked, h \in Nat : LET n == [[q EXCEPT !.at = "held"] EXCEPT !.held = h]
                        IN  n \in Asked /\ n.at = "held" /\ n.receipt = q.receipt
  BY DEF Idle, Done, Asked

\* A look at the swarm's health keeps the types.
LEMMA TomTickTypes ==
    ASSUME TypeOK, LeasesSound(mem), NEW down, NEW others, TomTick(down, others)
    PROVE  TypeOK'
  <1> USE DEF TypeOK
  <1>1. mem \in State /\ disk \in Document /\ rounds \in Nat /\ clock \in Nat /\ mem.round <= rounds
    BY DEF LeasesSound
  <1>2. mem' = Observed(mem, down, others) /\ Persist(mem')
        /\ rounds' = IF mem'.round = mem.round THEN rounds ELSE mem'.round
    BY DEF TomTick, ObserveHealth
  <1>3. mem' \in State /\ (mem'.round = mem.round \/ mem'.round > rounds)
    BY <1>1, <1>2, ObservedFacts
  <1>4. disk' \in Document /\ saved' \in BOOLEAN
    BY <1>1, <1>2, <1>3, PersistFacts
  <1>5. rounds' \in Nat
    BY <1>1, <1>2, <1>3 DEF State
  <1>6. cycle' \in Cycles
    BY DEF TomTick, Cycles
  <1>7. expunged' \subseteq Nat
    <2>1. CASE Len(mem.reports) = MaxReports
      <3>1. mem.reports \in Seq(SUBSET Attempt) /\ mem.reports # <<>>
        BY <2>1, LimitAssumption DEF State
      <3>2. Head(mem.reports) \in SUBSET Attempt
        BY <3>1
      <3>3. \A a \in Attempt : a.number \in Nat
        BY DEF Attempt
      <3>4. {a.number : a \in Head(mem.reports)} \subseteq Nat
        BY <3>2, <3>3
      <3> QED
        BY <3>4 DEF TomTick, ObserveHealth
    <2>2. CASE Len(mem.reports) # MaxReports
      BY <2>2 DEF TomTick, ObserveHealth
    <2> QED
      BY <2>1, <2>2
  <1> QED
    BY <1>3, <1>4, <1>5, <1>6, <1>7 DEF TomTick, ObserveHealth, Cycles, effort

\* Redeeming a lease or refusing a request keeps the types of what it touches.
LEMMA AuthorizeTypes ==
    ASSUME TypeOK, NEW r \in Request, AuthorizePartition(r)
    PROVE  /\ mem' \in State /\ disk' \in Document /\ saved' \in BOOLEAN /\ noted' \in Nat
           /\ charged' \subseteq (Kind \X Nat) \X Scope
  <1>1. /\ mem' \in State /\ disk' \in Document /\ saved' \in BOOLEAN /\ noted' = noted + 1
        /\ \/ charged' = charged
           \/ /\ req[r].lease \in mem.leases
              /\ charged' = charged \cup {<<Id(req[r].lease), ScopeOf[r]>>}
    BY AuthorizeFacts
  <1>2. req[r].lease \in mem.leases => <<Id(req[r].lease), ScopeOf[r]>> \in (Kind \X Nat) \X Scope
    BY RequestAssumption DEF TypeOK, State, Lease, Id
  <1> QED
    BY <1>1, <1>2 DEF TypeOK

\* Every step keeps the types.
LEMMA StepTypes ==
    ASSUME TypeOK, LeasesSound(mem), RoutingSound, EvidenceSound, [Next]_vars
    PROVE  TypeOK'
  <1> USE DEF effort, history
  <1>0. mem \in State /\ disk \in Document /\ cycle \in Cycles /\ req \in [Request -> Asked]
        /\ clock \in Nat /\ rounds \in Nat /\ noted \in Nat /\ grants \in Nat /\ restarts \in Nat
        /\ releases \in Nat
    BY DEF TypeOK
  <1>a. \A n \in Nat : [mem EXCEPT !.round = n] \in State
    BY <1>0 DEF State
  <1>1. ASSUME NEW g \in Governor, RegisterGovernor(g) PROVE TypeOK'
    <2>1. mem' \in State /\ Persist(mem')
      BY <1>0, <1>1 DEF RegisterGovernor, State
    <2>2. disk' \in Document /\ saved' \in BOOLEAN
      BY <1>0, <2>1, PersistFacts
    <2> QED
      BY <1>1, <2>1, <2>2 DEF TypeOK, RegisterGovernor
  <1>2. ASSUME NEW p \in Peer, RegisterPeerGovernor(p) PROVE TypeOK'
    <2>1. mem' \in State /\ Persist(mem')
      BY <1>0, <1>2 DEF RegisterPeerGovernor, State
    <2>2. disk' \in Document /\ saved' \in BOOLEAN
      BY <1>0, <2>1, PersistFacts
    <2> QED
      BY <1>2, <2>1, <2>2 DEF TypeOK, RegisterPeerGovernor
  <1>3. ASSUME NEW down, NEW others, TomTick(down, others) PROVE TypeOK'
    BY <1>3, TomTickTypes
  <1>4. CASE AttestRelease
    <2>1. mem' \in State
      BY <1>0, <1>a, <1>4 DEF AttestRelease
    <2> QED
      BY <1>4, <2>1 DEF TypeOK, AttestRelease
  <1>5. ASSUME NEW r \in Request, Ask(r) PROVE TypeOK'
    <2>1. req' \in [Request -> Asked]
      BY <1>0, <1>5, DecisionFacts DEF Ask
    <2>2. cycle' \in Cycles
      <3>1. Append(cycle.queue, r) \in Seq(Request)
        BY <1>0 DEF Cycles
      <3> QED
        BY <1>0, <1>5, <3>1 DEF Ask, Cycles
    <2>3. mem' \in State /\ rounds' \in Nat
      BY <1>0, <1>a, <1>5 DEF Ask
    <2> QED
      BY <1>5, <2>1, <2>2, <2>3 DEF TypeOK, Ask
  <1>6. ASSUME NEW r \in Request, Reauthorize(r) PROVE TypeOK'
    <2>1. req' \in [Request -> Asked]
      BY <1>0, <1>6, AskedFacts DEF Reauthorize
    <2>2. /\ mem' \in State /\ disk' \in Document /\ saved' \in BOOLEAN /\ noted' \in Nat
          /\ charged' \subseteq (Kind \X Nat) \X Scope
      <3>1. CASE mem.partition = "Partitioned"
        BY <1>6, <3>1, AuthorizeTypes DEF Reauthorize
      <3>2. CASE mem.partition # "Partitioned"
        BY <1>6, <3>2 DEF Reauthorize, Unpartitioned, TypeOK
      <3> QED
        BY <3>1, <3>2
    <2> QED
      BY <1>6, <2>1, <2>2 DEF TypeOK, Reauthorize
  <1>7. ASSUME NEW r \in Request, GrantReturns(r) PROVE TypeOK'
    <2>1. req' \in [Request -> Asked]
      <3>1. CASE req' = [req EXCEPT ![r] = Done]
        BY <1>0, <3>1, AskedFacts
      <3>2. CASE req' = [req EXCEPT ![r].at = "held"]
        <4>1. req' = [req EXCEPT ![r] = [req[r] EXCEPT !.at = "held"]]
          BY <1>0, <3>2
        <4> QED
          BY <1>0, <4>1, AskedFacts
      <3> QED
        BY <1>7, <3>1, <3>2 DEF GrantReturns
    <2>2. acts' \subseteq Acts
      BY <1>7, ActFacts DEF GrantReturns, TypeOK
    <2> QED
      BY <1>7, <2>1, <2>2 DEF TypeOK, GrantReturns
  <1>8. CASE EndTicks
    BY <1>8 DEF TypeOK, EndTicks, Cycles
  <1>9. CASE RouteRequest
    <2> DEFINE r == Head(cycle.queue)
    <2>1. r \in Request /\ Tail(cycle.queue) \in Seq(Request)
      BY <1>0, <1>9 DEF RouteRequest, Cycles
    <2>2. req' \in [Request -> Asked]
      BY <1>0, <1>9, <2>1, AskedFacts DEF RouteRequest
    <2>3. cycle' \in Cycles
      BY <1>0, <1>9, <2>1 DEF RouteRequest, Cycles
    <2>4. /\ mem' \in State /\ disk' \in Document /\ saved' \in BOOLEAN /\ noted' \in Nat
          /\ charged' \subseteq (Kind \X Nat) \X Scope
      <3>1. CASE mem.partition = "Partitioned"
        <4>1. AuthorizePartition(r)
          BY <1>9, <3>1 DEF RouteRequest
        <4> QED
          BY <2>1, <4>1, AuthorizeTypes
      <3>2. CASE mem.partition # "Partitioned"
        BY <1>9, <3>2 DEF RouteRequest, Unpartitioned, TypeOK
      <3> QED
        BY <3>1, <3>2
    <2> QED
      BY <1>9, <2>2, <2>3, <2>4 DEF TypeOK, RouteRequest
  <1>10. CASE RouteVeto
    <2>1. Head(cycle.queue) \in Request /\ Tail(cycle.queue) \in Seq(Request)
      BY <1>0, <1>10 DEF RouteVeto, Cycles
    <2>2. req' \in [Request -> Asked] /\ cycle' \in Cycles
      BY <1>0, <1>10, <2>1, AskedFacts DEF RouteVeto, Cycles
    <2>3. mem' \in State /\ disk' \in Document /\ saved' \in BOOLEAN /\ noted' \in Nat
      <3>1. CASE mem.partition = "Partitioned"
        <4>1. mem' = Record(mem, FALSE) /\ Persist(mem') /\ noted' = noted + 1
          BY <1>10, <3>1 DEF RouteVeto
        <4>2. mem' \in State
          BY <1>0, <4>1, RecordFacts
        <4>3. disk' \in Document /\ saved' \in BOOLEAN
          BY <1>0, <4>1, <4>2, PersistFacts
        <4>4. noted' \in Nat
          BY <1>0, <4>1
        <4> QED
          BY <4>2, <4>3, <4>4
      <3>2. CASE mem.partition # "Partitioned"
        BY <1>10, <3>2 DEF RouteVeto, TypeOK
      <3> QED
        BY <3>1, <3>2
    <2> QED
      BY <1>10, <2>2, <2>3 DEF TypeOK, RouteVeto
  <1>11. CASE RouteReturns
    <2> DEFINE r == cycle.routing
    <2>1. r \in Request /\ req[r].at = "routed"
      BY <1>0, <1>11 DEF RouteReturns, RoutingSound, Cycles
    <2>2. req' \in [Request -> Asked]
      <3>1. CASE req' = [req EXCEPT ![r] = Done]
        BY <1>0, <3>1, AskedFacts
      <3>2. CASE req' = [req EXCEPT ![r].at = "held", ![r].held = clock]
        <4>1. req' = [req EXCEPT ![r] = [[req[r] EXCEPT !.at = "held"] EXCEPT !.held = clock]]
          BY <1>0, <2>1, <3>2
        <4> QED
          BY <1>0, <2>1, <4>1, AskedFacts
      <3> QED
        BY <1>11, <3>1, <3>2 DEF RouteReturns
    <2>3. acts' \subseteq Acts
      BY <1>11, <2>1, ActFacts DEF RouteReturns, TypeOK
    <2>4. cycle' \in Cycles
      BY <1>0, <1>11 DEF RouteReturns, Cycles
    <2> QED
      BY <1>11, <2>2, <2>3, <2>4 DEF TypeOK, RouteReturns
  <1>12. CASE EndCycle
    BY <1>12 DEF TypeOK, EndCycle, Cycles
  <1>13. CASE Restart
    <2>1. mem' \in State
      BY <1>0, <1>13 DEF Restart, Loaded, State, Document
    <2>2. cycle' \in Cycles
      BY <1>13 DEF Restart, NewCycle, Cycles
    <2>3. req' \in [Request -> Asked]
      BY <1>0, <1>13, AskedFacts DEF Restart
    <2>4. forgot' \in BOOLEAN /\ saved' \in BOOLEAN
      BY <1>13 DEF Restart
    <2> QED
      BY <1>13, <2>1, <2>2, <2>3, <2>4 DEF TypeOK, Restart
  <1>14. CASE Tick
    BY <1>14 DEF TypeOK, Tick
  <1>15. CASE UNCHANGED vars
    BY <1>15 DEF TypeOK, vars
  <1> QED
    BY <1>1, <1>2, <1>3, <1>4, <1>5, <1>6, <1>7, <1>8, <1>9, <1>10, <1>11, <1>12, <1>13,
       <1>14, <1>15 DEF Next

-----------------------------------------------------------------------------
(* The flow of requests *)

\* A step that leaves the requests and what is routed alone, and keeps the partition
\* state while something is, keeps the flow.
LEMMA FlowSame ==
    ASSUME Flow, UNCHANGED <<req, acts>>, cycle'.routing = cycle.routing,
           cycle.routing # None => cycle'.phase = cycle.phase /\ mem'.partition = mem.partition
    PROVE  Flow'
  BY DEF Flow, RoutingSound, RoutedInPartition, EvidenceSound, ActsAreApproved

\* A step that moves one request, which is not the one being routed.
LEMMA FlowMoves ==
    ASSUME TypeOK, Flow, NEW r \in Request, NEW q \in Asked, req' = [req EXCEPT ![r] = q],
           cycle.routing # r, cycle'.routing = cycle.routing, cycle'.phase = cycle.phase,
           mem'.partition = mem.partition,
           q.at \in {"allowed", "routed", "held", "granted"} =>
                q.receipt # None /\ q.receipt.decision = "approve",
           \A act \in acts' : act \in acts \/ act.decision = "approve"
    PROVE  Flow'
  <1>0. req \in [Request -> Asked]
    BY DEF TypeOK
  <1>1. \A s \in Request : req'[s] = IF s = r THEN q ELSE req[s]
    BY <1>0
  <1>2. cycle.routing # None => cycle.routing \in Request /\ req'[cycle.routing] = req[cycle.routing]
    BY <1>0 DEF TypeOK, Cycles
  <1>3. RoutingSound' /\ RoutedInPartition'
    BY <1>2 DEF Flow, RoutingSound, RoutedInPartition
  <1>4. EvidenceSound'
    BY <1>1 DEF Flow, EvidenceSound
  <1>5. ActsAreApproved'
    BY DEF Flow, ActsAreApproved
  <1> QED
    BY <1>3, <1>4, <1>5 DEF Flow

\* Every step keeps the flow.
LEMMA StepFlow ==
    ASSUME TypeOK, Flow, [Next]_vars
    PROVE  Flow'
  <1> USE DEF effort, history
  <1>0. mem \in State /\ cycle \in Cycles /\ req \in [Request -> Asked] /\ noted \in Nat
        /\ RoutingSound /\ EvidenceSound /\ ActsAreApproved /\ RoutedInPartition
        /\ clock \in Nat /\ None \notin Request
    BY NoneAssumption DEF TypeOK, Flow
  <1>a. Done \in Asked /\ Done.at = "done" /\ Idle \in Asked /\ Idle.at = "new"
    BY AskedFacts
  <1>b. \A r \in Request, q \in Asked : req' = [req EXCEPT ![r] = q] =>
          \A s \in Request : req'[s] = IF s = r THEN q ELSE req[s]
    BY <1>0
  <1>1. ASSUME NEW g \in Governor, RegisterGovernor(g) PROVE Flow'
    <2>1. mem'.partition = mem.partition
      BY <1>0, <1>1 DEF RegisterGovernor, State
    <2> QED
      BY <1>1, <2>1, FlowSame DEF RegisterGovernor
  <1>2. ASSUME NEW p \in Peer, RegisterPeerGovernor(p) PROVE Flow'
    <2>1. mem'.partition = mem.partition
      BY <1>0, <1>2 DEF RegisterPeerGovernor, State
    <2> QED
      BY <1>2, <2>1, FlowSame DEF RegisterPeerGovernor
  <1>3. ASSUME NEW down, NEW others, TomTick(down, others) PROVE Flow'
    <2>1. cycle.routing = None /\ cycle'.routing = cycle.routing
      BY <1>0, <1>3 DEF TomTick, RoutingSound, Cycles
    <2> QED
      BY <1>3, <2>1, FlowSame DEF TomTick, ObserveHealth
  <1>4. CASE AttestRelease
    <2>1. mem'.partition = mem.partition
      BY <1>0, <1>4 DEF AttestRelease, State
    <2> QED
      BY <1>4, <2>1, FlowSame DEF AttestRelease
  <1>5. ASSUME NEW r \in Request, Ask(r) PROVE Flow'
    <2>1. mem'.partition = mem.partition
      BY <1>0, <1>5 DEF Ask, State
    <2>2. cycle.routing # r /\ cycle'.routing = cycle.routing /\ cycle'.phase = cycle.phase
      BY <1>0, <1>5 DEF Ask, RoutingSound, Cycles
    <2>3. req' = [req EXCEPT ![r] = Decision(r)] /\ acts' = acts
      BY <1>5 DEF Ask
    <2> QED
      BY <2>1, <2>2, <2>3, DecisionFacts, FlowMoves
  <1>6. ASSUME NEW r \in Request, Reauthorize(r) PROVE Flow'
    <2>1. mem'.partition = mem.partition
      <3>1. CASE mem.partition = "Partitioned"
        BY <1>6, <3>1, AuthorizeFacts DEF Reauthorize
      <3>2. CASE mem.partition # "Partitioned"
        BY <1>6, <3>2 DEF Reauthorize, Unpartitioned
      <3> QED
        BY <3>1, <3>2
    <2>2. cycle.routing # r /\ cycle' = cycle /\ acts' = acts
      BY <1>0, <1>6 DEF Reauthorize, RoutingSound
    <2>3. req[r] \in Asked /\ req[r].receipt # None /\ req[r].receipt.decision = "approve"
      BY <1>0, <1>6 DEF Reauthorize, EvidenceSound
    <2>4. \/ req' = [req EXCEPT ![r] = Done]
          \/ req' = [req EXCEPT ![r] = [req[r] EXCEPT !.at = "granted"]]
      BY <1>0, <1>6 DEF Reauthorize
    <2>5. CASE req' = [req EXCEPT ![r] = Done]
      BY <1>a, <2>1, <2>2, <2>5, FlowMoves
    <2>6. CASE req' = [req EXCEPT ![r] = [req[r] EXCEPT !.at = "granted"]]
      <3> DEFINE q == [req[r] EXCEPT !.at = "granted"]
      <3>1. q \in Asked /\ q.receipt = req[r].receipt
        BY <2>3 DEF Asked
      <3> HIDE DEF q
      <3>2. req' = [req EXCEPT ![r] = q]
        BY <2>6 DEF q
      <3> QED
        BY <2>1, <2>2, <2>3, <3>1, <3>2, FlowMoves
    <2> QED
      BY <2>4, <2>5, <2>6
  <1>7. ASSUME NEW r \in Request, GrantReturns(r) PROVE Flow'
    <2>1. cycle.routing # r /\ cycle' = cycle /\ mem' = mem
      BY <1>0, <1>7 DEF GrantReturns, RoutingSound
    <2>2. req[r] \in Asked /\ req[r].receipt # None /\ req[r].receipt.decision = "approve"
      BY <1>0, <1>7 DEF GrantReturns, EvidenceSound
    <2>3. \/ req' = [req EXCEPT ![r] = Done]
          \/ req' = [req EXCEPT ![r] = [req[r] EXCEPT !.at = "held"]]
      BY <1>0, <1>7 DEF GrantReturns
    <2>4. \A act \in acts' : act \in acts \/ act.decision = "approve"
      BY <1>0, <1>7, ActFacts DEF GrantReturns
    <2>5. CASE req' = [req EXCEPT ![r] = Done]
      BY <1>a, <2>1, <2>4, <2>5, FlowMoves
    <2>6. CASE req' = [req EXCEPT ![r] = [req[r] EXCEPT !.at = "held"]]
      <3> DEFINE q == [req[r] EXCEPT !.at = "held"]
      <3>1. q \in Asked /\ q.receipt = req[r].receipt
        BY <2>2 DEF Asked
      <3> HIDE DEF q
      <3>2. req' = [req EXCEPT ![r] = q]
        BY <2>6 DEF q
      <3> QED
        BY <2>1, <2>2, <2>4, <3>1, <3>2, FlowMoves
    <2> QED
      BY <2>3, <2>5, <2>6
  <1>8. CASE EndTicks
    <2>1. cycle.routing = None /\ cycle'.routing = cycle.routing
      BY <1>0, <1>8 DEF EndTicks, RoutingSound, Cycles
    <2> QED
      BY <1>8, <2>1, FlowSame DEF EndTicks
  <1>9. CASE RouteRequest
    <2> DEFINE r == Head(cycle.queue)
               part == mem.partition = "Partitioned"
    <2>1. r \in Request /\ req[r].at = "allowed" /\ acts' = acts /\ cycle.routing = None
      BY <1>0, <1>9 DEF RouteRequest, Cycles
    <2>2. req[r] \in Asked /\ req[r].receipt # None /\ req[r].receipt.decision = "approve"
      BY <1>0, <2>1 DEF EvidenceSound
    <2>3. mem'.partition = mem.partition
      <3>1. CASE part
        <4>1. AuthorizePartition(r)
          BY <1>9, <3>1 DEF RouteRequest
        <4> QED
          BY <2>1, <4>1, AuthorizeFacts
      <3>2. CASE ~part
        BY <1>9, <3>2 DEF RouteRequest, Unpartitioned
      <3> QED
        BY <3>1, <3>2
    <2>4. cycle'.phase = "apply" /\ cycle.phase = "apply"
      BY <1>0, <1>9 DEF RouteRequest, Cycles
    <2>5. \/ req' = [req EXCEPT ![r] = Done] /\ cycle'.routing = None
          \/ /\ req' = [req EXCEPT ![r] = [[req[r] EXCEPT !.at = "routed"] EXCEPT !.redeemed = part]]
             /\ cycle'.routing = r
      BY <1>0, <1>9, <2>1 DEF RouteRequest, Cycles
    <2> HIDE DEF r
    <2>6. CASE req' = [req EXCEPT ![r] = Done] /\ cycle'.routing = None
      BY <1>0, <1>a, <2>1, <2>3, <2>4, <2>6, FlowMoves
    <2>7. CASE /\ req' = [req EXCEPT ![r] = [[req[r] EXCEPT !.at = "routed"] EXCEPT !.redeemed = part]]
               /\ cycle'.routing = r
      <3> DEFINE q == [[req[r] EXCEPT !.at = "routed"] EXCEPT !.redeemed = part]
      <3>1. q \in Asked /\ q.at = "routed" /\ q.receipt = req[r].receipt /\ (part => q.redeemed)
        BY <2>2 DEF Asked
      <3> HIDE DEF q
      <3>2. \A s \in Request : req'[s] = IF s = r THEN q ELSE req[s]
        BY <1>0, <2>7 DEF q
      <3>3. RoutingSound' /\ RoutedInPartition'
        BY <2>1, <2>3, <2>4, <2>7, <3>1, <3>2 DEF RoutingSound, RoutedInPartition
      <3>4. EvidenceSound'
        BY <1>0, <2>2, <3>1, <3>2 DEF EvidenceSound
      <3> QED
        BY <1>0, <2>1, <3>3, <3>4 DEF Flow, ActsAreApproved
    <2> QED
      BY <2>5, <2>6, <2>7
  <1>10. CASE RouteVeto
    <2> DEFINE r == Head(cycle.queue)
    <2>1. r \in Request /\ acts' = acts /\ cycle.routing = None /\ cycle'.routing = None
          /\ cycle'.phase = cycle.phase
      BY <1>0, <1>10 DEF RouteVeto, Cycles
    <2>2. mem'.partition = mem.partition
      BY <1>0, <1>10, RecordFacts DEF RouteVeto
    <2>3. req' = [req EXCEPT ![r] = Done]
      BY <1>10 DEF RouteVeto
    <2> QED
      BY <1>0, <1>a, <2>1, <2>2, <2>3, FlowMoves
  <1>11. CASE RouteReturns
    <2> DEFINE r == cycle.routing
    <2>1. r \in Request /\ req[r].at = "routed" /\ cycle'.routing = None /\ mem' = mem
      BY <1>0, <1>11 DEF RouteReturns, RoutingSound, Cycles
    <2>2. req[r] \in Asked /\ req[r].receipt # None /\ req[r].receipt.decision = "approve"
      BY <1>0, <2>1 DEF EvidenceSound
    <2>3. \/ req' = [req EXCEPT ![r] = Done]
          \/ req' = [req EXCEPT ![r] = [[req[r] EXCEPT !.at = "held"] EXCEPT !.held = clock]]
      BY <1>0, <1>11, <2>1 DEF RouteReturns
    <2>4. ActsAreApproved'
      BY <1>0, <1>11, <2>1, ActFacts DEF RouteReturns, ActsAreApproved
    <2>5. EvidenceSound'
      <3>1. CASE req' = [req EXCEPT ![r] = Done]
        BY <1>0, <1>a, <1>b, <2>1, <3>1 DEF EvidenceSound
      <3>2. CASE req' = [req EXCEPT ![r] = [[req[r] EXCEPT !.at = "held"] EXCEPT !.held = clock]]
        <4> DEFINE q == [[req[r] EXCEPT !.at = "held"] EXCEPT !.held = clock]
        <4>1. q \in Asked /\ q.receipt = req[r].receipt
          BY <1>0, <2>2 DEF Asked
        <4> HIDE DEF q
        <4>2. req' = [req EXCEPT ![r] = q]
          BY <3>2 DEF q
        <4>3. \A s \in Request : req'[s] = IF s = r THEN q ELSE req[s]
          BY <1>b, <2>1, <4>1, <4>2
        <4> QED
          BY <1>0, <2>2, <4>1, <4>3 DEF EvidenceSound
      <3> QED
        BY <2>3, <3>1, <3>2
    <2> QED
      BY <2>1, <2>4, <2>5 DEF Flow, RoutingSound, RoutedInPartition
  <1>12. CASE EndCycle
    <2>1. cycle.routing = None /\ cycle'.routing = cycle.routing
      BY <1>0, <1>12 DEF EndCycle, RoutingSound, Cycles
    <2> QED
      BY <1>12, <2>1, FlowSame DEF EndCycle
  <1>13. CASE Restart
    <2>1. cycle'.routing = None /\ acts' = acts
      BY <1>13 DEF Restart, NewCycle
    <2>2. \A r \in Request : req'[r] = IF req[r].at = "held" THEN req[r] ELSE Idle
      BY <1>13 DEF Restart
    <2>3. EvidenceSound'
      BY <1>0, <1>a, <2>2 DEF EvidenceSound
    <2> QED
      BY <1>0, <2>1, <2>3 DEF Flow, RoutingSound, RoutedInPartition, ActsAreApproved
  <1>14. CASE Tick
    BY <1>14, FlowSame DEF Tick
  <1>15. CASE UNCHANGED vars
    BY <1>15, FlowSame DEF vars
  <1> QED
    BY <1>1, <1>2, <1>3, <1>4, <1>5, <1>6, <1>7, <1>8, <1>9, <1>10, <1>11, <1>12, <1>13,
       <1>14, <1>15 DEF Next

-----------------------------------------------------------------------------
(* The shapes of a step, as leases, documents and records see it *)

\* The document is as it was, and known to be behind, or it is the state.
Wrote ==
    \/ ~saved' /\ disk' = disk
    \/ /\ disk'.peers = mem'.peers /\ disk'.partition = mem'.partition
       /\ disk'.leases = mem'.leases /\ disk'.activity = mem'.activity
       /\ disk'.reports = mem'.reports /\ disk'.round = mem'.round

\* Nothing of what is kept changes; a round may commit and time may pass.
Keeps ==
    /\ mem'.leases = mem.leases /\ mem'.activity = mem.activity /\ mem'.reports = mem.reports
    /\ mem'.peers = mem.peers /\ mem'.partition = mem.partition
    /\ UNCHANGED <<disk, saved, forgot, admitted, charged, noted, expunged>>
    /\ mem'.round = mem.round \/ mem'.round = rounds'
    /\ rounds' >= rounds /\ clock' >= clock
    /\ rounds' # rounds => mem.peers = {}

\* A governor joins.
Registers ==
    /\ mem'.leases = mem.leases /\ mem'.activity = mem.activity /\ mem'.reports = mem.reports
    /\ mem'.partition = mem.partition /\ mem'.round = mem.round
    /\ \/ mem'.peers = mem.peers \ {LocalId} /\ admitted' = admitted \ {LocalId}
       \/ \E p \in Peer : mem'.peers = mem.peers \cup {p} /\ admitted' = admitted \cup {p}
    /\ Wrote
    /\ UNCHANGED <<clock, rounds, forgot, charged, noted, expunged>>

\* Tom looks at the swarm's health.
Looks ==
    /\ mem'.peers = mem.peers
    /\ \/ mem'.round = mem.round /\ rounds' = rounds
       \/ mem'.round > rounds /\ rounds' = mem'.round /\ mem.peers = {}
    /\ \A l \in mem.leases : Live(l) => l \in mem'.leases
    /\ \A l \in mem'.leases :
         l \in mem.leases \/ (l.redeemed = {} /\ l.round = rounds' /\ rounds' > rounds)
    /\ \A l, o \in mem'.leases :
         l \notin mem.leases /\ o \notin mem.leases /\ Id(l) = Id(o) => l = o
    /\ mem'.partition = "Healing" =>
         /\ mem.partition = "Partitioned" /\ mem'.activity = {}
         /\ mem'.reports = LET all == Append(mem.reports, mem.activity)
                           IN  IF Len(all) > MaxReports THEN Tail(all) ELSE all
         /\ expunged' = IF Len(mem.reports) = MaxReports
                        THEN expunged \cup Numbers(Head(mem.reports)) ELSE expunged
    /\ mem'.partition # "Healing" =>
         mem'.activity = mem.activity /\ mem'.reports = mem.reports /\ expunged' = expunged
    /\ mem.partition = "Partitioned" => mem'.partition \in {"Partitioned", "Healing"}
    /\ Wrote
    /\ UNCHANGED <<clock, forgot, admitted, charged, noted>>

\* A scope is charged to a stored lease.
Charges(r) ==
    \E l \in mem.leases, n \in Lease :
        /\ IsStored(mem, l) /\ CanRedeem(l, r)
        /\ Id(n) = Id(l) /\ n.round = l.round /\ n.redeemed = l.redeemed \cup {ScopeOf[r]}
        /\ mem'.leases = (mem.leases \ {l}) \cup {n}
        /\ charged' = charged \cup {<<Id(l), ScopeOf[r]>>}

\* An attempt is recorded in a partition, which may have redeemed a lease.
Notes ==
    /\ mem.partition = "Partitioned" /\ mem'.partition = mem.partition
    /\ mem'.peers = mem.peers /\ mem'.reports = mem.reports /\ mem'.round = mem.round
    /\ \E ok \in BOOLEAN :
         mem'.activity = mem.activity \cup {[number |-> noted + 1, authorized |-> ok]}
    /\ noted' = noted + 1
    /\ \/ mem'.leases = mem.leases /\ charged' = charged
       \/ \E r \in Request : Charges(r)
    /\ Wrote
    /\ UNCHANGED <<clock, rounds, forgot, admitted, expunged>>

\* The process is started again.
Restarts ==
    /\ mem'.peers = disk.peers /\ mem'.partition = disk.partition
    /\ mem'.leases = disk.leases /\ mem'.activity = disk.activity
    /\ mem'.reports = disk.reports /\ mem'.round = disk.round
    /\ forgot' = (forgot \/ ~saved)
    /\ UNCHANGED <<clock, disk, rounds, admitted, charged, noted, expunged>>

\* What recording an attempt on a request looks like.
LEMMA AuthorizeNotes ==
    ASSUME TypeOK, NEW r \in Request, AuthorizePartition(r), mem.partition = "Partitioned",
           UNCHANGED <<clock, rounds, forgot, admitted, expunged>>
    PROVE  Notes
  <1> DEFINE l == req[r].lease
             n == [l EXCEPT !.redeemed = @ \cup {ScopeOf[r]}]
  <1>1. /\ mem'.peers = mem.peers /\ mem'.partition = mem.partition
        /\ mem'.reports = mem.reports /\ mem'.round = mem.round
        /\ \E ok \in BOOLEAN :
             mem'.activity = mem.activity \cup {[number |-> noted + 1, authorized |-> ok]}
        /\ noted' = noted + 1
        /\ Wrote
    BY AuthorizeFacts DEF Wrote
  <1>2. \/ mem'.leases = mem.leases /\ charged' = charged
        \/ /\ l \in mem.leases /\ IsStored(mem, l) /\ CanRedeem(l, r)
           /\ n \in Lease /\ Id(n) = Id(l) /\ n.round = l.round
           /\ n.redeemed = l.redeemed \cup {ScopeOf[r]}
           /\ mem'.leases = (mem.leases \ {l}) \cup {n}
           /\ charged' = charged \cup {<<Id(l), ScopeOf[r]>>}
    BY AuthorizeFacts
  <1> HIDE DEF l, n
  <1>3. (mem'.leases = mem.leases /\ charged' = charged) \/ Charges(r)
    BY <1>2 DEF Charges
  <1> QED
    BY <1>1, <1>3 DEF Notes

\* A step has one of the shapes.
LEMMA StepShapes ==
    ASSUME TypeOK, LeasesSound(mem), [Next]_vars
    PROVE  Keeps \/ Registers \/ Looks \/ Notes \/ Restarts
  <1> USE DEF effort, history
  <1>0. mem \in State /\ disk \in Document /\ cycle \in Cycles /\ clock \in Nat /\ rounds \in Nat
        /\ noted \in Nat /\ mem.round <= rounds
    BY DEF TypeOK, LeasesSound
  <1>a. \A n \in Nat : LET m == [mem EXCEPT !.round = n]
          IN  /\ m.round = n /\ m.leases = mem.leases /\ m.activity = mem.activity
              /\ m.reports = mem.reports /\ m.peers = mem.peers /\ m.partition = mem.partition
    BY <1>0 DEF State
  <1>1. ASSUME NEW g \in Governor, RegisterGovernor(g) PROVE Registers
    <2>1. mem' \in State /\ Persist(mem')
          /\ mem'.leases = mem.leases /\ mem'.activity = mem.activity /\ mem'.reports = mem.reports
          /\ mem'.partition = mem.partition /\ mem'.round = mem.round /\ mem'.peers = mem.peers \ {LocalId}
      BY <1>0, <1>1 DEF RegisterGovernor, State
    <2>2. Wrote
      BY <1>0, <2>1, PersistFacts DEF Wrote
    <2> QED
      BY <1>1, <2>1, <2>2 DEF RegisterGovernor, Registers
  <1>2. ASSUME NEW p \in Peer, RegisterPeerGovernor(p) PROVE Registers
    <2>1. mem' \in State /\ Persist(mem')
          /\ mem'.leases = mem.leases /\ mem'.activity = mem.activity /\ mem'.reports = mem.reports
          /\ mem'.partition = mem.partition /\ mem'.round = mem.round
          /\ mem'.peers = mem.peers \cup {p}
      BY <1>0, <1>2 DEF RegisterPeerGovernor, State
    <2>2. Wrote
      BY <1>0, <2>1, PersistFacts DEF Wrote
    <2> QED
      BY <1>2, <2>1, <2>2 DEF RegisterPeerGovernor, Registers
  <1>3. ASSUME NEW down, NEW others, TomTick(down, others) PROVE Looks
    <2>1. /\ mem' = Observed(mem, down, others) /\ Persist(mem')
          /\ rounds' = IF mem'.round = mem.round THEN rounds ELSE mem'.round
          /\ UNCHANGED <<clock, forgot, admitted, charged, noted>>
      BY <1>3 DEF TomTick, ObserveHealth
    <2>2. /\ mem' \in State /\ mem'.peers = mem.peers
          /\ mem'.round = mem.round \/ (mem'.round > rounds /\ RoundCommits(mem))
          /\ \A l \in mem.leases : Live(l) => l \in mem'.leases
          /\ \A l \in mem'.leases :
               l \in mem.leases \/ (l.redeemed = {} /\ l.round = mem'.round /\ mem'.round > rounds)
          /\ \A l, o \in mem'.leases :
               l \notin mem.leases /\ o \notin mem.leases /\ Id(l) = Id(o) => l = o
      BY <1>0, <2>1, ObservedFacts
    <2>3. /\ mem'.partition = "Healing" =>
               /\ mem.partition = "Partitioned" /\ mem'.activity = {}
               /\ mem'.reports = LET all == Append(mem.reports, mem.activity)
                                 IN  IF Len(all) > MaxReports THEN Tail(all) ELSE all
          /\ mem'.partition # "Healing" => mem'.activity = mem.activity /\ mem'.reports = mem.reports
          /\ mem.partition = "Partitioned" => mem'.partition \in {"Partitioned", "Healing"}
      BY <1>0, <2>1, ObservedFacts
    <2>4. Wrote
      BY <1>0, <2>1, <2>2, PersistFacts DEF Wrote
    <2>5. expunged' = IF Len(mem.reports) = MaxReports /\ mem'.partition = "Healing"
                      THEN expunged \cup Numbers(Head(mem.reports)) ELSE expunged
      BY <1>3 DEF TomTick, ObserveHealth, Numbers
    <2>6. \/ mem'.round = mem.round /\ rounds' = rounds
          \/ mem'.round > rounds /\ rounds' = mem'.round /\ mem.peers = {}
      <3>1. CASE mem'.round = mem.round
        BY <2>1, <3>1
      <3>2. CASE mem'.round # mem.round
        BY <2>1, <2>2, <3>2 DEF RoundCommits
      <3> QED
        BY <3>1, <3>2
    <2>7. \A l \in mem'.leases :
            l \in mem.leases \/ (l.redeemed = {} /\ l.round = rounds' /\ rounds' > rounds)
      BY <1>0, <2>1, <2>2 DEF State
    <2> QED
      BY <2>1, <2>2, <2>3, <2>4, <2>5, <2>6, <2>7 DEF Looks
  <1>4. CASE AttestRelease
    BY <1>0, <1>a, <1>4 DEF AttestRelease, Keeps, RoundCommits
  <1>5. ASSUME NEW r \in Request, Ask(r) PROVE Keeps
    <2>1. CASE mem' = [mem EXCEPT !.round = rounds + 1] /\ rounds' = rounds + 1 /\ RoundCommits(mem)
      <3>1. rounds + 1 \in Nat
        BY <1>0
      <3>2. /\ mem'.round = rounds + 1 /\ mem'.leases = mem.leases /\ mem'.activity = mem.activity
            /\ mem'.reports = mem.reports /\ mem'.peers = mem.peers
            /\ mem'.partition = mem.partition
        BY <1>a, <2>1, <3>1
      <3>3. UNCHANGED <<disk, saved, forgot, admitted, charged, noted, expunged, clock>>
        BY <1>5 DEF Ask
      <3> QED
        BY <1>0, <2>1, <3>2, <3>3 DEF Keeps, RoundCommits
    <2>2. CASE UNCHANGED <<rounds, mem>>
      BY <1>0, <1>5, <2>2 DEF Ask, Keeps
    <2> QED
      BY <1>5, <2>1, <2>2 DEF Ask
  <1>6. ASSUME NEW r \in Request, Reauthorize(r) PROVE Keeps \/ Notes
    <2>1. CASE mem.partition = "Partitioned"
      BY <1>6, <2>1, AuthorizeNotes DEF Reauthorize
    <2>2. CASE mem.partition # "Partitioned"
      BY <1>0, <1>6, <2>2 DEF Reauthorize, Unpartitioned, Keeps
    <2> QED
      BY <2>1, <2>2
  <1>7. ASSUME NEW r \in Request, GrantReturns(r) PROVE Keeps
    BY <1>0, <1>7 DEF GrantReturns, Keeps
  <1>8. CASE EndTicks
    BY <1>0, <1>8 DEF EndTicks, Keeps
  <1>9. CASE RouteRequest
    <2> DEFINE r == Head(cycle.queue)
    <2>1. r \in Request
      BY <1>0, <1>9 DEF RouteRequest, Cycles
    <2>2. CASE mem.partition = "Partitioned"
      <3>1. AuthorizePartition(r) /\ UNCHANGED <<clock, rounds, forgot, admitted, expunged>>
        BY <1>9, <2>2 DEF RouteRequest
      <3> QED
        BY <2>1, <2>2, <3>1, AuthorizeNotes
    <2>3. CASE mem.partition # "Partitioned"
      BY <1>0, <1>9, <2>3 DEF RouteRequest, Unpartitioned, Keeps
    <2> QED
      BY <2>2, <2>3
  <1>10. CASE RouteVeto
    <2>1. CASE mem.partition = "Partitioned"
      <3>1. mem' = Record(mem, FALSE) /\ Persist(mem') /\ noted' = noted + 1
        BY <1>10, <2>1 DEF RouteVeto
      <3>2. /\ mem' \in State /\ mem'.peers = mem.peers /\ mem'.partition = mem.partition
            /\ mem'.reports = mem.reports /\ mem'.round = mem.round /\ mem'.leases = mem.leases
            /\ mem'.activity = mem.activity \cup {[number |-> noted + 1, authorized |-> FALSE]}
        BY <1>0, <3>1, RecordFacts
      <3>3. Wrote
        BY <1>0, <3>1, <3>2, PersistFacts DEF Wrote
      <3>4. UNCHANGED <<clock, rounds, forgot, admitted, expunged, charged>>
        BY <1>10 DEF RouteVeto
      <3> QED
        BY <2>1, <3>1, <3>2, <3>3, <3>4 DEF Notes
    <2>2. CASE mem.partition # "Partitioned"
      BY <1>0, <1>10, <2>2 DEF RouteVeto, Keeps
    <2> QED
      BY <2>1, <2>2
  <1>11. CASE RouteReturns
    BY <1>0, <1>11 DEF RouteReturns, Keeps
  <1>12. CASE EndCycle
    BY <1>0, <1>12 DEF EndCycle, Keeps
  <1>13. CASE Restart
    BY <1>13 DEF Restart, Restarts, Loaded
  <1>14. CASE Tick
    BY <1>0, <1>14 DEF Tick, Keeps
  <1>15. CASE UNCHANGED vars
    BY <1>0, <1>15 DEF vars, Keeps
  <1> QED
    BY <1>1, <1>2, <1>3, <1>4, <1>5, <1>6, <1>7, <1>8, <1>9, <1>10, <1>11, <1>12, <1>13,
       <1>14, <1>15 DEF Next

-----------------------------------------------------------------------------
(* Documents *)

\* Every step keeps the document in step with the state, and the peers admitted.
LEMMA StepDocuments ==
    ASSUME TypeOK, Documents, Keeps \/ Registers \/ Looks \/ Notes \/ Restarts
    PROVE  Documents'
  <1>0. InStep /\ PeersKept
    BY DEF Documents
  <1>1. CASE Keeps
    BY <1>0, <1>1 DEF Keeps, Documents, InStep, PeersKept
  <1>2. CASE Registers
    BY <1>0, <1>2 DEF Registers, Wrote, Documents, InStep, PeersKept
  <1>3. CASE Looks
    BY <1>0, <1>3 DEF Looks, Wrote, Documents, InStep, PeersKept
  <1>4. CASE Notes
    BY <1>0, <1>4 DEF Notes, Wrote, Documents, InStep, PeersKept
  <1>5. CASE Restarts
    BY <1>0, <1>5 DEF Restarts, Documents, InStep, PeersKept
  <1> QED
    BY <1>1, <1>2, <1>3, <1>4, <1>5

-----------------------------------------------------------------------------
(* Leases and charges *)

\* The document's leases are sound when the state's are.
LEMMA WroteSound ==
    ASSUME LeasesSound(disk), rounds \in Nat, rounds' \in Nat, rounds' >= rounds, Wrote,
           LeasesSound(mem)', disk \in Document
    PROVE  LeasesSound(disk)'
  <1>1. CASE disk' = disk
    <2>1. disk.round <= rounds' /\ \A l \in disk.leases : l.round <= rounds'
      BY DEF LeasesSound, Document, Lease
    <2> QED
      BY <1>1, <2>1 DEF LeasesSound
  <1>2. CASE disk'.leases = mem'.leases /\ disk'.round = mem'.round
    BY <1>2 DEF LeasesSound
  <1> QED
    BY <1>1, <1>2 DEF Wrote

\* What was charged stays bounded when nothing more is.
LEMMA RadiusSame ==
    ASSUME BlastRadius, charged' = charged, forgot' = FALSE => forgot = FALSE,
           forgot \in BOOLEAN, forgot' \in BOOLEAN
    PROVE  BlastRadius'
  BY DEF BlastRadius, ChargedTo

\* A step that leaves leases and charges alone.
LEMMA LedgerSame ==
    ASSUME TypeOK, Ledger, mem'.leases = mem.leases, mem'.round \in Nat, mem'.round <= rounds',
           rounds' \in Nat, rounds' >= rounds, clock' \in Nat, clock' >= clock,
           UNCHANGED <<forgot, charged>>, disk' = disk \/ Wrote
    PROVE  Ledger'
  <1>0. mem.leases \subseteq Lease /\ disk \in Document /\ rounds \in Nat /\ clock \in Nat
        /\ forgot \in BOOLEAN /\ charged \subseteq (Kind \X Nat) \X Scope
    BY DEF TypeOK, State
  <1>1. LeasesSound(mem)'
    <2>1. \A l \in mem.leases : l.round <= rounds'
      BY <1>0 DEF Ledger, LeasesSound, Lease
    <2> QED
      BY <2>1 DEF Ledger, LeasesSound
  <1>2. LeasesSound(disk)'
    <2>1. CASE disk' = disk
      <3>1. disk.round <= rounds' /\ \A l \in disk.leases : l.round <= rounds'
        BY <1>0 DEF Ledger, LeasesSound, Document, Lease
      <3> QED
        BY <2>1, <3>1 DEF Ledger, LeasesSound
    <2>2. CASE Wrote
      BY <1>0, <1>1, <2>2, WroteSound DEF Ledger
    <2> QED
      BY <2>1, <2>2
  <1>3. ChargesKept'
    <2> SUFFICES ASSUME ~forgot, NEW c \in charged, c[1][2] + TTL > clock'
                 PROVE  Remembered(c)'
      BY DEF ChargesKept
    <2>1. c[1][2] \in Nat
      BY <1>0
    <2>2. c[1][2] + TTL > clock
      BY <1>0, <2>1, LimitAssumption
    <2>3. Remembered(c)
      BY <2>2 DEF Ledger, ChargesKept
    <2> QED
      BY <2>3 DEF Remembered, IsStored
  <1>4. BlastRadius'
    BY <1>0, RadiusSame DEF Ledger
  <1> QED
    BY <1>1, <1>2, <1>3, <1>4 DEF Ledger

\* Tom's look prunes only dead leases and stages only later ones, so that what an id
\* finds, and what is charged to it, is what it was.
LEMMA LedgerLooks ==
    ASSUME TypeOK, TypeOK', Ledger, Looks
    PROVE  Ledger'
  <1>0. /\ mem.leases \subseteq Lease /\ mem'.leases \subseteq Lease /\ disk \in Document
        /\ rounds \in Nat /\ rounds' \in Nat /\ clock \in Nat /\ mem.round \in Nat
        /\ forgot \in BOOLEAN /\ charged \subseteq (Kind \X Nat) \X Scope
    BY DEF TypeOK, State
  <1>1. /\ \A l \in mem.leases : Live(l) => l \in mem'.leases
        /\ \A l \in mem'.leases :
             l \in mem.leases \/ (l.redeemed = {} /\ l.round = rounds' /\ rounds' > rounds)
        /\ \A l, o \in mem'.leases :
             l \notin mem.leases /\ o \notin mem.leases /\ Id(l) = Id(o) => l = o
        /\ UNCHANGED <<clock, forgot, charged>> /\ Wrote
    BY DEF Looks
  <1>2. /\ mem.round <= rounds
        /\ \A l \in mem.leases :
             IsFiniteSet(l.redeemed) /\ Cardinality(l.redeemed) <= Cap /\ l.round <= rounds
        /\ \A l, o \in mem.leases : Id(l) = Id(o) /\ l.round = o.round => l = o
    BY DEF Ledger, LeasesSound
  <1>3. rounds' >= rounds /\ mem'.round <= rounds'
    BY <1>0, <1>2 DEF Looks
  <1>4. LeasesSound(mem)'
    <2>1. ASSUME NEW l \in mem'.leases
          PROVE  IsFiniteSet(l.redeemed) /\ Cardinality(l.redeemed) <= Cap /\ l.round <= rounds'
      <3>1. CASE l \in mem.leases
        BY <1>0, <1>2, <1>3, <3>1 DEF Lease
      <3>2. CASE l.redeemed = {} /\ l.round = rounds'
        BY <1>0, <3>2, FS_EmptySet, LimitAssumption
      <3> QED
        BY <1>1, <3>1, <3>2
    <2>2. ASSUME NEW l \in mem'.leases, NEW o \in mem'.leases, Id(l) = Id(o), l.round = o.round
          PROVE  l = o
      <3>1. CASE l \in mem.leases /\ o \in mem.leases
        BY <1>2, <2>2, <3>1
      <3>2. CASE l \notin mem.leases /\ o \notin mem.leases
        BY <1>1, <2>2, <3>2
      <3>3. CASE l \in mem.leases /\ o \notin mem.leases
        BY <1>0, <1>1, <1>2, <2>2, <3>3 DEF Lease
      <3>4. CASE l \notin mem.leases /\ o \in mem.leases
        BY <1>0, <1>1, <1>2, <2>2, <3>4 DEF Lease
      <3> QED
        BY <3>1, <3>2, <3>3, <3>4
    <2> QED
      BY <1>3, <2>1, <2>2 DEF LeasesSound
  <1>5. LeasesSound(disk)'
    BY <1>0, <1>1, <1>3, <1>4, WroteSound DEF Ledger
  <1>6. ChargesKept'
    <2> SUFFICES ASSUME ~forgot, NEW c \in charged, c[1][2] + TTL > clock
                 PROVE  Remembered(c)'
      BY <1>1 DEF ChargesKept
    <2>1. PICK l \in mem.leases : IsStored(mem, l) /\ Id(l) = c[1] /\ c[2] \in l.redeemed
      BY DEF Ledger, ChargesKept, Remembered
    <2>2. l.at = c[1][2]
      BY <2>1 DEF Id
    <2>3. l \in mem'.leases
      BY <1>1, <2>2 DEF Live
    <2>4. ASSUME NEW o \in mem'.leases, Id(o) = Id(l) PROVE l.round <= o.round
      <3>1. CASE o \in mem.leases
        BY <2>1, <2>4, <3>1 DEF IsStored
      <3>2. CASE o \notin mem.leases
        BY <1>0, <1>1, <1>2, <3>2 DEF Lease
      <3> QED
        BY <3>1, <3>2
    <2>5. IsStored(mem', l)
      BY <2>3, <2>4 DEF IsStored
    <2> QED
      BY <2>1, <2>3, <2>5 DEF Remembered
  <1>7. BlastRadius'
    BY <1>0, <1>1, RadiusSame DEF Ledger
  <1> QED
    BY <1>4, <1>5, <1>6, <1>7 DEF Ledger

\* A charge goes to the lease its id finds, which remembers the earlier ones: together
\* they are no more than the cap.
LEMMA LedgerCharges ==
    ASSUME TypeOK, TypeOK', Ledger, NEW r \in Request, Charges(r), Wrote,
           mem'.round = mem.round, UNCHANGED <<clock, rounds, forgot>>
    PROVE  Ledger'
  <1>0. /\ mem.leases \subseteq Lease /\ mem'.leases \subseteq Lease /\ disk \in Document
        /\ rounds \in Nat /\ clock \in Nat /\ mem.round \in Nat /\ ScopeOf[r] \in Scope
        /\ forgot \in BOOLEAN /\ charged \subseteq (Kind \X Nat) \X Scope
    BY RequestAssumption DEF TypeOK, State
  <1>1. PICK l \in mem.leases, n \in Lease :
          /\ IsStored(mem, l) /\ CanRedeem(l, r)
          /\ Id(n) = Id(l) /\ n.round = l.round /\ n.redeemed = l.redeemed \cup {ScopeOf[r]}
          /\ mem'.leases = (mem.leases \ {l}) \cup {n}
          /\ charged' = charged \cup {<<Id(l), ScopeOf[r]>>}
    BY DEF Charges
  <1>2. /\ mem.round <= rounds
        /\ \A x \in mem.leases :
             IsFiniteSet(x.redeemed) /\ Cardinality(x.redeemed) <= Cap /\ x.round <= rounds
        /\ \A x, o \in mem.leases : Id(x) = Id(o) /\ x.round = o.round => x = o
    BY DEF Ledger, LeasesSound
  <1>3. \A o \in mem.leases : Id(o) = Id(l) => l.round <= o.round
    BY <1>1 DEF IsStored
  <1>4. IsFiniteSet(n.redeemed) /\ Cardinality(n.redeemed) <= Cap
    <2>1. IsFiniteSet(l.redeemed) /\ Cardinality(l.redeemed) \in Nat
      BY <1>2, FS_CardinalityType
    <2>2. CASE ScopeOf[r] \in l.redeemed
      <3>1. n.redeemed = l.redeemed
        BY <1>1, <2>2
      <3> QED
        BY <1>2, <3>1
    <2>3. CASE ScopeOf[r] \notin l.redeemed
      <3>1. Cardinality(l.redeemed) < Cap
        BY <1>1, <2>3 DEF CanRedeem
      <3>2. IsFiniteSet(n.redeemed) /\ Cardinality(n.redeemed) = Cardinality(l.redeemed) + 1
        BY <1>1, <2>1, <2>3, FS_AddElement
      <3> QED
        BY <2>1, <3>1, <3>2, LimitAssumption
    <2> QED
      BY <2>2, <2>3
  <1>5. LeasesSound(mem)'
    <2>1. \A x \in mem'.leases :
            IsFiniteSet(x.redeemed) /\ Cardinality(x.redeemed) <= Cap /\ x.round <= rounds
      BY <1>1, <1>2, <1>4
    <2>2. \A x, o \in mem'.leases : Id(x) = Id(o) /\ x.round = o.round => x = o
      BY <1>1, <1>2
    <2> QED
      BY <1>2, <2>1, <2>2 DEF LeasesSound
  <1>6. LeasesSound(disk)'
    BY <1>0, <1>5, WroteSound DEF Ledger
  <1>7. ASSUME NEW c \in charged, ~forgot, c[1][2] + TTL > clock
        PROVE  \E x \in mem.leases : /\ IsStored(mem, x) /\ Id(x) = c[1] /\ c[2] \in x.redeemed
                                     /\ c[1] = Id(l) => x = l
    <2>1. PICK x \in mem.leases : IsStored(mem, x) /\ Id(x) = c[1] /\ c[2] \in x.redeemed
      BY <1>7 DEF Ledger, ChargesKept, Remembered
    <2>2. c[1] = Id(l) => x.round = l.round
      BY <1>0, <1>3, <2>1 DEF IsStored, Lease
    <2> QED
      BY <1>2, <2>1, <2>2
  <1>8. IsStored(mem', n)
    BY <1>1, <1>3 DEF IsStored
  <1>9. ChargesKept'
    <2> SUFFICES ASSUME ~forgot, NEW c \in charged', c[1][2] + TTL > clock
                 PROVE  Remembered(c)'
      BY DEF ChargesKept
    <2>1. CASE c = <<Id(l), ScopeOf[r]>>
      BY <1>1, <1>8, <2>1 DEF Remembered
    <2>2. CASE c \in charged
      <3>1. PICK x \in mem.leases : /\ IsStored(mem, x) /\ Id(x) = c[1] /\ c[2] \in x.redeemed
                                    /\ c[1] = Id(l) => x = l
        BY <1>7, <2>2
      <3>2. CASE x = l
        BY <1>1, <1>8, <3>1, <3>2 DEF Remembered
      <3>3. CASE x # l
        <4>1. x \in mem'.leases /\ Id(x) # Id(l)
          BY <1>1, <3>1, <3>3
        <4>2. IsStored(mem', x)
          BY <1>1, <3>1, <4>1 DEF IsStored
        <4> QED
          BY <3>1, <4>1, <4>2 DEF Remembered
      <3> QED
        BY <3>2, <3>3
    <2> QED
      BY <1>1, <2>1, <2>2
  <1>10. BlastRadius'
    <2> SUFFICES ASSUME ~forgot, NEW c \in charged'
                 PROVE  Cardinality(ChargedTo(c[1])') <= Cap
      BY DEF BlastRadius, ChargedTo
    <2>1. CASE c[1] = Id(l)
      <3>1. Id(l)[2] + TTL > clock
        BY <1>1 DEF CanRedeem, Live, Id
      <3>2. ASSUME NEW d \in charged', d[1] = Id(l) PROVE d[2] \in n.redeemed
        <4>1. CASE d = <<Id(l), ScopeOf[r]>>
          BY <1>1, <4>1
        <4>2. CASE d \in charged
          BY <1>1, <1>7, <3>1, <3>2, <4>2
        <4> QED
          BY <1>1, <4>1, <4>2
      <3>3. ChargedTo(c[1])' \subseteq n.redeemed
        BY <2>1, <3>2 DEF ChargedTo
      <3>4. IsFiniteSet(ChargedTo(c[1])') /\ Cardinality(ChargedTo(c[1])') <= Cardinality(n.redeemed)
        BY <1>4, <3>3, FS_Subset
      <3> QED
        BY <1>4, <3>4, FS_CardinalityType, LimitAssumption
    <2>2. CASE c[1] # Id(l)
      <3>1. c \in charged
        BY <1>1, <2>2
      <3>2. ChargedTo(c[1])' = ChargedTo(c[1])
        BY <1>1, <2>2 DEF ChargedTo
      <3> QED
        BY <3>1, <3>2 DEF Ledger, BlastRadius
    <2> QED
      BY <2>1, <2>2
  <1> QED
    BY <1>5, <1>6, <1>9, <1>10 DEF Ledger

\* Every step keeps the leases and what is charged to them.
LEMMA StepLedger ==
    ASSUME TypeOK, TypeOK', Ledger, Documents, Keeps \/ Registers \/ Looks \/ Notes \/ Restarts
    PROVE  Ledger'
  <1>0. /\ rounds \in Nat /\ rounds' \in Nat /\ clock \in Nat /\ clock' \in Nat
        /\ mem.round \in Nat /\ mem'.round \in Nat /\ forgot \in BOOLEAN /\ saved \in BOOLEAN
        /\ mem.round <= rounds /\ forgot' \in BOOLEAN
    BY DEF TypeOK, State, Ledger, LeasesSound
  <1>1. CASE Keeps
    BY <1>0, <1>1, LedgerSame DEF Keeps
  <1>2. CASE Registers
    BY <1>0, <1>2, LedgerSame DEF Registers
  <1>3. CASE Looks
    BY <1>3, LedgerLooks
  <1>4. CASE Notes
    <2>1. CASE mem'.leases = mem.leases /\ charged' = charged
      BY <1>0, <1>4, <2>1, LedgerSame DEF Notes
    <2>2. CASE \E r \in Request : Charges(r)
      BY <1>4, <2>2, LedgerCharges DEF Notes
    <2> QED
      BY <1>4, <2>1, <2>2 DEF Notes
  <1>5. CASE Restarts
    <2>1. LeasesSound(mem)' /\ LeasesSound(disk)'
      BY <1>5 DEF Restarts, Ledger, LeasesSound
    <2>2. BlastRadius'
      BY <1>0, <1>5, RadiusSame DEF Restarts, Ledger
    <2>3. ChargesKept'
      <3> SUFFICES ASSUME ~forgot', NEW c \in charged, c[1][2] + TTL > clock
                   PROVE  Remembered(c)'
        BY <1>5 DEF ChargesKept, Restarts
      <3>1. ~forgot /\ saved
        BY <1>0, <1>5 DEF Restarts
      <3>2. mem'.leases = mem.leases
        BY <1>5, <3>1 DEF Restarts, Documents, InStep
      <3>3. Remembered(c)
        BY <3>1 DEF Ledger, ChargesKept
      <3> QED
        BY <3>2, <3>3 DEF Remembered, IsStored
    <2> QED
      BY <2>1, <2>2, <2>3 DEF Ledger
  <1> QED
    BY <1>1, <1>2, <1>3, <1>4, <1>5

-----------------------------------------------------------------------------
(* Records *)

\* The reports after a reconciliation, one by one.
LEMMA ReportsAfter ==
    ASSUME NEW old \in Seq(SUBSET Attempt), NEW last \in SUBSET Attempt, Len(old) <= MaxReports,
           NEW new, new = LET all == Append(old, last)
                          IN  IF Len(all) > MaxReports THEN Tail(all) ELSE all
    PROVE  /\ Len(old) < MaxReports =>
                /\ DOMAIN new = 1 .. Len(old) + 1 /\ Len(new) = Len(old) + 1
                /\ \A i \in 1 .. Len(old) : new[i] = old[i]
                /\ new[Len(old) + 1] = last
           /\ Len(old) = MaxReports =>
                /\ DOMAIN new = 1 .. Len(old) /\ Len(new) = Len(old) /\ old # <<>>
                /\ \A i \in 1 .. Len(old) - 1 : new[i] = old[i + 1]
                /\ new[Len(old)] = last
  <1> DEFINE all == Append(old, last)
  <1>0. MaxReports \in Nat /\ MaxReports > 0 /\ Len(old) \in Nat
    BY LimitAssumption
  <1>1. /\ all \in Seq(SUBSET Attempt) /\ Len(all) = Len(old) + 1 /\ DOMAIN all = 1 .. Len(old) + 1
        /\ \A i \in 1 .. Len(old) : all[i] = old[i]
        /\ all[Len(old) + 1] = last
    OBVIOUS
  <1>2. new = IF Len(all) > MaxReports THEN Tail(all) ELSE all
    OBVIOUS
  <1> HIDE DEF all
  <1>3. CASE Len(old) < MaxReports
    BY <1>0, <1>1, <1>2, <1>3
  <1>4. CASE Len(old) = MaxReports
    <2>1. new = Tail(all)
      BY <1>0, <1>1, <1>2, <1>4
    <2>2. /\ Len(Tail(all)) = Len(old) /\ DOMAIN Tail(all) = 1 .. Len(old)
          /\ \A i \in 1 .. Len(old) : Tail(all)[i] = all[i + 1]
      BY <1>0, <1>1, <1>4
    <2>3. \A i \in 1 .. Len(old) - 1 : new[i] = old[i + 1]
      <3> TAKE i \in 1 .. Len(old) - 1
      <3>1. i \in 1 .. Len(old) /\ i + 1 \in 1 .. Len(old)
        BY <1>0
      <3> QED
        BY <1>1, <2>1, <2>2, <3>1
    <2>4. new[Len(old)] = last
      BY <1>0, <1>1, <1>4, <2>1, <2>2
    <2>5. old # <<>>
      BY <1>0, <1>4
    <2> QED
      BY <1>0, <1>4, <2>1, <2>2, <2>3, <2>4, <2>5
  <1> QED
    BY <1>0, <1>3, <1>4

\* Reconciling moves the activity to a report and drops at most the oldest report.
LEMMA ReconciledRecords ==
    ASSUME NEW s \in State, NEW t, s.partition = "Partitioned", Once(s), Len(s.reports) <= MaxReports,
           t.activity = {}, t.reports = LET all == Append(s.reports, s.activity)
                                        IN  IF Len(all) > MaxReports THEN Tail(all) ELSE all
    PROVE  /\ Once(t) /\ Len(t.reports) <= MaxReports
           /\ Reported(t) \subseteq Numbers(s.activity) \cup Reported(s)
           /\ Numbers(s.activity) \cup Reported(s) \subseteq
                Reported(t) \cup (IF Len(s.reports) = MaxReports THEN Numbers(Head(s.reports)) ELSE {})
  <1> DEFINE old == s.reports
             new == t.reports
             k == Len(old)
  <1>0. /\ old \in Seq(SUBSET Attempt) /\ k \in Nat /\ DOMAIN old = 1 .. k /\ s.activity \in SUBSET Attempt
        /\ MaxReports \in Nat /\ MaxReports > 0
    BY LimitAssumption DEF State
  <1>1. /\ k < MaxReports =>
             /\ DOMAIN new = 1 .. k + 1 /\ Len(new) = k + 1
             /\ \A i \in 1 .. k : new[i] = old[i]
             /\ new[k + 1] = s.activity
        /\ k = MaxReports =>
             /\ DOMAIN new = 1 .. k /\ Len(new) = k /\ old # <<>>
             /\ \A i \in 1 .. k - 1 : new[i] = old[i + 1]
             /\ new[k] = s.activity
    BY <1>0, ReportsAfter
  <1>2. /\ \A i \in 1 .. k : Numbers(s.activity) \cap Numbers(old[i]) = {}
        /\ \A i, j \in 1 .. k : i # j => Numbers(old[i]) \cap Numbers(old[j]) = {}
    <2>1. Numbers(s.activity) \cap Reported(s) = {}
      BY DEF Once
    <2>2. \A i \in DOMAIN old : Numbers(old[i]) \subseteq Reported(s)
      BY DEF Reported
    <2>3. \A i, j \in DOMAIN old : i # j => Numbers(old[i]) \cap Numbers(old[j]) = {}
      BY DEF Once
    <2> HIDE DEF old, k
    <2> QED
      BY <1>0, <2>1, <2>2, <2>3
  <1>3. Numbers(t.activity) = {}
    BY DEF Numbers
  <1>4. k < MaxReports \/ k = MaxReports
    BY <1>0
  <1> HIDE DEF old, new, k
  <1>5. CASE k < MaxReports
    <2>1. \A i \in DOMAIN new : i \in 1 .. k \/ i = k + 1
      BY <1>0, <1>1, <1>5
    <2>2. \A i, j \in DOMAIN new : i # j => Numbers(new[i]) \cap Numbers(new[j]) = {}
      BY <1>1, <1>2, <1>5, <2>1
    <2>3. \A i \in DOMAIN new : new[i] = s.activity \/ \E j \in DOMAIN old : new[i] = old[j]
      BY <1>0, <1>1, <1>5, <2>1
    <2>4. \A j \in DOMAIN old : \E i \in DOMAIN new : new[i] = old[j]
      BY <1>0, <1>1, <1>5
    <2>5. \E i \in DOMAIN new : new[i] = s.activity
      BY <1>0, <1>1, <1>5
    <2>6. Once(t)
      BY <1>3, <2>2 DEF Once, new
    <2>7. Reported(t) \subseteq Numbers(s.activity) \cup Reported(s)
      BY <2>3 DEF Reported, old, new
    <2>8. Numbers(s.activity) \cup Reported(s) \subseteq Reported(t)
      BY <2>4, <2>5 DEF Reported, old, new
    <2> QED
      BY <1>0, <1>1, <1>5, <2>6, <2>7, <2>8 DEF old, new, k
  <1>6. CASE k = MaxReports
    <2>1. \A i \in DOMAIN new : i \in 1 .. k - 1 \/ i = k
      BY <1>0, <1>1, <1>6
    <2>2. \A i, j \in DOMAIN new : i # j => Numbers(new[i]) \cap Numbers(new[j]) = {}
      <3> SUFFICES ASSUME NEW i \in DOMAIN new, NEW j \in DOMAIN new, i # j
                   PROVE  Numbers(new[i]) \cap Numbers(new[j]) = {}
        OBVIOUS
      <3>1. \A x \in 1 .. k - 1 : x + 1 \in 1 .. k
        BY <1>0
      <3>2. CASE i \in 1 .. k - 1 /\ j \in 1 .. k - 1
        <4>1. i + 1 # j + 1
          BY <1>0, <3>2
        <4> QED
          BY <1>1, <1>2, <1>6, <3>1, <3>2, <4>1
      <3>3. CASE i = k /\ j \in 1 .. k - 1
        BY <1>1, <1>2, <1>6, <3>1, <3>3
      <3>4. CASE j = k /\ i \in 1 .. k - 1
        BY <1>1, <1>2, <1>6, <3>1, <3>4
      <3> QED
        BY <2>1, <3>2, <3>3, <3>4
    <2>3. \A i \in DOMAIN new : new[i] = s.activity \/ \E j \in DOMAIN old : new[i] = old[j]
      <3> TAKE i \in DOMAIN new
      <3>1. i \in 1 .. k - 1 => i + 1 \in DOMAIN old /\ new[i] = old[i + 1]
        BY <1>0, <1>1, <1>6
      <3> QED
        BY <1>1, <1>6, <2>1, <3>1
    <2>4. \A j \in DOMAIN old : j = 1 \/ \E i \in DOMAIN new : new[i] = old[j]
      <3> TAKE j \in DOMAIN old
      <3>1. j # 1 => /\ j - 1 \in 1 .. k - 1 /\ j - 1 \in DOMAIN new /\ (j - 1) + 1 = j
        BY <1>0, <1>1, <1>6
      <3>2. j # 1 => new[j - 1] = old[j]
        BY <1>1, <1>6, <3>1
      <3> QED
        BY <3>1, <3>2
    <2>5. \E i \in DOMAIN new : new[i] = s.activity
      BY <1>0, <1>1, <1>6
    <2>6. Once(t)
      BY <1>3, <2>2 DEF Once, new
    <2>7. Reported(t) \subseteq Numbers(s.activity) \cup Reported(s)
      BY <2>3 DEF Reported, old, new
    <2>8. old[1] = Head(old)
      BY <1>0, <1>1, <1>6
    <2>9. Numbers(s.activity) \cup Reported(s) \subseteq Reported(t) \cup Numbers(Head(old))
      BY <2>4, <2>5, <2>8 DEF Reported, old, new
    <2> QED
      BY <1>0, <1>1, <1>6, <2>6, <2>7, <2>9 DEF old, new, k
  <1> QED
    BY <1>4, <1>5, <1>6

\* The document's records are in order when the state's are.
LEMMA WroteRecords ==
    ASSUME Numbered(disk), Once(disk), noted \in Nat, noted' \in Nat, noted' >= noted, Wrote,
           Numbered(mem)', Once(mem')
    PROVE  Numbered(disk)' /\ Once(disk')
  <1>1. CASE disk' = disk
    <2>1. 1 .. noted \subseteq 1 .. noted'
      OBVIOUS
    <2> QED
      BY <1>1, <2>1 DEF Numbered, Reported
  <1>2. CASE /\ disk'.activity = mem'.activity /\ disk'.reports = mem'.reports
             /\ disk'.partition = mem'.partition
    BY <1>2 DEF Numbered, Once, Reported
  <1> QED
    BY <1>1, <1>2 DEF Wrote

\* A step that leaves activity and reports alone.
LEMMA RecordsSame ==
    ASSUME TypeOK, Records, mem'.activity = mem.activity, mem'.reports = mem.reports,
           UNCHANGED <<noted, expunged, forgot>>, mem'.partition = mem.partition,
           disk' = disk \/ Wrote
    PROVE  Records'
  <1>1. Numbered(mem)' /\ Once(mem')
    BY DEF Records, ReportedOnce, Numbered, Once, Reported
  <1>2. Numbered(disk)' /\ Once(disk')
    <2>1. CASE disk' = disk
      <3>1. Numbered(disk) /\ Once(disk)
        BY DEF Records, ReportedOnce
      <3> QED
        BY <2>1, <3>1 DEF Numbered
    <2>2. CASE Wrote
      BY <1>1, <2>2, WroteRecords DEF Records, ReportedOnce, TypeOK
    <2> QED
      BY <2>1, <2>2
  <1>3. AttemptsKept'
    BY DEF Records, AttemptsKept, Reported
  <1> QED
    BY <1>1, <1>2, <1>3 DEF Records, ReportedOnce

\* Tom's look moves what was attempted to a report once the partition is over.
LEMMA RecordsLooks ==
    ASSUME TypeOK, Records, Looks
    PROVE  Records'
  <1>0. /\ mem \in State /\ noted \in Nat /\ noted' = noted /\ forgot' = forgot /\ Wrote
        /\ Numbered(mem) /\ Once(mem) /\ Numbered(disk) /\ Once(disk) /\ AttemptsKept
    BY DEF TypeOK, Records, ReportedOnce, Looks
  <1>1. CASE mem'.partition = "Healing"
    <2>1. /\ mem.partition = "Partitioned" /\ mem'.activity = {}
          /\ mem'.reports = LET all == Append(mem.reports, mem.activity)
                            IN  IF Len(all) > MaxReports THEN Tail(all) ELSE all
          /\ expunged' = IF Len(mem.reports) = MaxReports
                         THEN expunged \cup Numbers(Head(mem.reports)) ELSE expunged
      BY <1>1 DEF Looks
    <2>2. Len(mem.reports) <= MaxReports /\ Numbers(mem.activity) \cup Reported(mem) \subseteq 1 .. noted
      BY <1>0 DEF Numbered
    <2>3. /\ Once(mem') /\ Len(mem'.reports) <= MaxReports
          /\ Reported(mem') \subseteq Numbers(mem.activity) \cup Reported(mem)
          /\ Numbers(mem.activity) \cup Reported(mem) \subseteq
               Reported(mem') \cup
                 (IF Len(mem.reports) = MaxReports THEN Numbers(Head(mem.reports)) ELSE {})
      BY <1>0, <2>1, <2>2, ReconciledRecords
    <2>4. Numbers(mem'.activity) = {}
      BY <2>1 DEF Numbers
    <2>5. Numbered(mem)'
      BY <1>0, <2>2, <2>3, <2>4 DEF Numbered
    <2>6. Numbered(disk)' /\ Once(disk')
      BY <1>0, <2>3, <2>5, WroteRecords
    <2>7. AttemptsKept'
      BY <1>0, <2>1, <2>3, <2>4 DEF AttemptsKept
    <2> QED
      BY <2>3, <2>5, <2>6, <2>7 DEF Records, ReportedOnce
  <1>2. CASE mem'.partition # "Healing"
    <2>1. mem'.activity = mem.activity /\ mem'.reports = mem.reports /\ expunged' = expunged
          /\ (mem'.partition # "Partitioned" => mem.partition # "Partitioned")
      BY <1>2 DEF Looks
    <2>2. Numbered(mem)' /\ Once(mem')
      BY <1>0, <2>1 DEF Numbered, Once, Reported
    <2>3. Numbered(disk)' /\ Once(disk')
      BY <1>0, <2>2, WroteRecords
    <2>4. AttemptsKept'
      BY <1>0, <2>1 DEF AttemptsKept, Reported
    <2> QED
      BY <2>2, <2>3, <2>4 DEF Records, ReportedOnce
  <1> QED
    BY <1>1, <1>2

\* An attempt is recorded under a number no other has.
LEMMA RecordsNotes ==
    ASSUME TypeOK, Records, Notes
    PROVE  Records'
  <1>0. /\ mem \in State /\ noted \in Nat /\ noted' = noted + 1 /\ forgot' = forgot /\ Wrote
        /\ mem.partition = "Partitioned" /\ mem'.partition = "Partitioned"
        /\ mem'.reports = mem.reports /\ expunged' = expunged
        /\ Numbered(mem) /\ Once(mem) /\ Numbered(disk) /\ Once(disk) /\ AttemptsKept
    BY DEF TypeOK, Records, ReportedOnce, Notes
  <1>1. PICK ok \in BOOLEAN :
          mem'.activity = mem.activity \cup {[number |-> noted + 1, authorized |-> ok]}
    BY DEF Notes
  <1>2. Numbers(mem'.activity) = Numbers(mem.activity) \cup {noted + 1}
    <2> DEFINE a == [number |-> noted + 1, authorized |-> ok]
    <2>1. a.number = noted + 1 /\ mem'.activity = mem.activity \cup {a}
      BY <1>1
    <2> HIDE DEF a
    <2> QED
      BY <2>1 DEF Numbers
  <1>3. Reported(mem') = Reported(mem)
    BY <1>0 DEF Reported
  <1>4. 1 .. noted + 1 = (1 .. noted) \cup {noted + 1} /\ noted + 1 \notin 1 .. noted
    BY <1>0
  <1>5. Numbered(mem)'
    BY <1>0, <1>2, <1>3, <1>4 DEF Numbered
  <1>6. Once(mem')
    <2>1. Numbers(mem'.activity) \cap Reported(mem') = {}
      BY <1>0, <1>2, <1>3, <1>4 DEF Numbered, Once
    <2> QED
      BY <1>0, <2>1 DEF Once
  <1>7. Numbered(disk)' /\ Once(disk')
    BY <1>0, <1>5, <1>6, WroteRecords
  <1>8. AttemptsKept'
    BY <1>0, <1>2, <1>3, <1>4 DEF AttemptsKept
  <1> QED
    BY <1>5, <1>6, <1>7, <1>8 DEF Records, ReportedOnce

\* Every step keeps the records.
LEMMA StepRecords ==
    ASSUME TypeOK, Records, Documents, Keeps \/ Registers \/ Looks \/ Notes \/ Restarts
    PROVE  Records'
  <1>1. CASE Keeps
    BY <1>1, RecordsSame DEF Keeps
  <1>2. CASE Registers
    BY <1>2, RecordsSame DEF Registers
  <1>3. CASE Looks
    BY <1>3, RecordsLooks
  <1>4. CASE Notes
    BY <1>4, RecordsNotes
  <1>5. CASE Restarts
    <2>1. Numbered(mem)' /\ Once(mem') /\ Numbered(disk)' /\ Once(disk')
      <3>1. Numbered(disk) /\ Once(disk)
        BY DEF Records, ReportedOnce
      <3>2. /\ mem'.activity = disk.activity /\ mem'.reports = disk.reports
            /\ mem'.partition = disk.partition /\ disk' = disk /\ noted' = noted
        BY <1>5 DEF Restarts
      <3>3. Reported(mem') = Reported(disk)
        BY <3>2 DEF Reported
      <3>4. Numbered(mem)' /\ Numbered(disk)'
        BY <3>1, <3>2, <3>3 DEF Numbered
      <3>5. Once(mem') /\ Once(disk')
        BY <3>1, <3>2, <3>3 DEF Once
      <3> QED
        BY <3>4, <3>5
    <2>2. AttemptsKept'
      <3> SUFFICES ASSUME ~forgot' PROVE 1 .. noted \subseteq Numbers(mem'.activity) \cup Reported(mem') \cup expunged
        BY <1>5 DEF Restarts, AttemptsKept
      <3>1. ~forgot /\ saved
        BY <1>5 DEF Restarts
      <3>2. mem'.activity = mem.activity /\ mem'.reports = mem.reports
        BY <1>5, <3>1 DEF Restarts, Documents, InStep
      <3> QED
        BY <3>1, <3>2 DEF Records, AttemptsKept, Reported
    <2> QED
      BY <2>1, <2>2 DEF Records, ReportedOnce
  <1> QED
    BY <1>1, <1>2, <1>3, <1>4, <1>5

-----------------------------------------------------------------------------
(* Theorems *)

\* The state a new policy starts in satisfies the invariant.
LEMMA InitSound == Init => GovernanceInv
  <1> SUFFICES ASSUME Init PROVE GovernanceInv
    OBVIOUS
  <1> USE DEF Init, NewState, Persisted
  <1>1. TypeOK
    <2>1. mem \in State /\ disk \in Document
      BY DEF State, Document, PartitionState
    <2>2. cycle \in Cycles
      BY DEF NewCycle, Cycles
    <2>3. req \in [Request -> Asked]
      BY AskedFacts
    <2> QED
      BY <2>1, <2>2, <2>3 DEF TypeOK
  <1>2. Ledger
    BY DEF Ledger, LeasesSound, ChargesKept, BlastRadius
  <1>3. Documents
    BY DEF Documents, InStep, PeersKept
  <1>4. Records
    <2>1. Reported(mem) = {} /\ Reported(disk) = {} /\ Numbers(mem.activity) = {} /\ Numbers(disk.activity) = {}
      BY DEF Reported, Numbers
    <2>2. Numbered(mem) /\ Numbered(disk)
      BY <2>1, LimitAssumption DEF Numbered
    <2>3. Once(mem) /\ Once(disk)
      BY <2>1 DEF Once
    <2>4. AttemptsKept
      BY DEF AttemptsKept
    <2> QED
      BY <2>2, <2>3, <2>4 DEF Records, ReportedOnce
  <1>5. Flow
    BY AskedFacts DEF Flow, RoutingSound, RoutedInPartition, EvidenceSound, ActsAreApproved, NewCycle
  <1> QED
    BY <1>1, <1>2, <1>3, <1>4, <1>5 DEF GovernanceInv

\* Every step of the policy and of those who ask it keeps the invariant.
LEMMA NextSound == GovernanceInv /\ [Next]_vars => GovernanceInv'
  <1> SUFFICES ASSUME GovernanceInv, [Next]_vars PROVE GovernanceInv'
    OBVIOUS
  <1>1. /\ TypeOK /\ Ledger /\ Documents /\ Records /\ Flow
        /\ LeasesSound(mem) /\ RoutingSound /\ EvidenceSound
    BY DEF GovernanceInv, Ledger, Flow
  <1>2. TypeOK'
    BY <1>1, StepTypes
  <1>3. Keeps \/ Registers \/ Looks \/ Notes \/ Restarts
    BY <1>1, StepShapes
  <1>4. Ledger' /\ Documents' /\ Records'
    BY <1>1, <1>2, <1>3, StepLedger, StepDocuments, StepRecords
  <1>5. Flow'
    BY <1>1, StepFlow
  <1> QED
    BY <1>2, <1>4, <1>5 DEF GovernanceInv

\* Leases, charges, attempts and documents agree in every reachable state, for any number
\* of requests, governors, failed saves and restarts.
THEOREM GovernanceInvariant == Spec => []GovernanceInv
  BY InitSound, NextSound, PTL DEF Spec

\* A lease is redeemed for at most Cap scopes, across restarts, unless the process died
\* after a save had failed (authorize_partition_request).
THEOREM LeasesKeepTheirRadius == Spec => []BlastRadius
  <1>1. GovernanceInv => BlastRadius
    BY DEF GovernanceInv, Ledger
  <1> QED
    BY <1>1, GovernanceInvariant, PTL

\* Every partition-era attempt is waiting to be reconciled or in a report until its report
\* is trimmed (record_partition_activity_locked).
THEOREM AttemptsAreKept == Spec => []AttemptsKept
  <1>1. GovernanceInv => AttemptsKept
    BY DEF GovernanceInv, Records
  <1> QED
    BY <1>1, GovernanceInvariant, PTL

\* No attempt is reported twice, and a partition that is over leaves none to report
\* (reconcile_partition_activity_locked).
THEOREM AttemptsAreReportedOnce == Spec => []ReportedOnce
  <1>1. GovernanceInv => ReportedOnce
    BY DEF GovernanceInv, Records
  <1> QED
    BY <1>1, GovernanceInvariant, PTL

\* What is being routed while the governors are partitioned has redeemed a lease
\* (apply_actions).
THEOREM PartitionRouting == Spec => []RoutedInPartition
  <1>1. GovernanceInv => RoutedInPartition
    BY DEF GovernanceInv, Flow
  <1> QED
    BY <1>1, GovernanceInvariant, PTL

\* No adapter acts on the receipt of a veto (can_act_at, apply_actions, reauthorize).
THEOREM VetoesBind == Spec => []ActsAreApproved
  <1>1. GovernanceInv => ActsAreApproved
    BY DEF GovernanceInv, Flow
  <1> QED
    BY <1>1, GovernanceInvariant, PTL

\* Once a peer is admitted no round commits on the local vote alone, unless the process
\* died after a save had failed (register_peer_governor).
THEOREM PeersBind == Spec => PeersAreHeard
  <1>1. GovernanceInv /\ [Next]_vars => [rounds' # rounds /\ ~forgot => admitted = {}]_vars
    <2> SUFFICES ASSUME GovernanceInv, [Next]_vars, rounds' # rounds, ~forgot
                 PROVE  admitted = {}
      OBVIOUS
    <2>1. TypeOK /\ LeasesSound(mem) /\ PeersKept
      BY DEF GovernanceInv, Ledger, Documents
    <2>2. Keeps \/ Registers \/ Looks \/ Notes \/ Restarts
      BY <2>1, StepShapes
    <2>3. mem.peers = {}
      BY <2>2 DEF Keeps, Registers, Looks, Notes, Restarts
    <2> QED
      BY <2>1, <2>3 DEF PeersKept
  <1> QED
    BY <1>1, GovernanceInvariant, PTL DEF Spec, PeersAreHeard
=============================================================================
