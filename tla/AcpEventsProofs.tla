---------------------------- MODULE AcpEventsProofs ----------------------------
(***************************************************************************)
(* Proofs about the events of AcpHarness, for any number of channels,      *)
(* agents and events, any caps and every configuration: the types of the   *)
(* state, no event is lost silently, and until a turn outlives its         *)
(* channel's deadline no event is in two places.                           *)
(*                                                                         *)
(* The argument accounts for the events a step takes into the queue and    *)
(* out of it.  Each method of the queue is described once by what it takes *)
(* in and lets out at one channel (Balanced, Tidy); a step then matches    *)
(* that against the turn it starts or ends and the fates it settles.       *)
(***************************************************************************)
EXTENDS AcpHarnessProofs, FiniteSetTheorems, SequenceTheorems

\* No event twice in s.
Distinct(s) == \A i, j \in 1..Len(s) : s[i] = s[j] => i = j

\* What q holds of channel ch.
Holds(q, ch) == Pending(q, ch) \cup q.cancelled[ch] \cup q.withheld[ch]

\* No event of channel ch is in two places of q.
Once(q, ch) ==
    /\ Distinct(q.queues[ch])
    /\ Pending(q, ch) \cap q.cancelled[ch] = {}
    /\ Pending(q, ch) \cap q.withheld[ch] = {}
    /\ q.cancelled[ch] \cap q.withheld[ch] = {}

AllPast == UNION {past[f] : f \in Fate}

\* A closed breaker has not reached its threshold.
BelowThreshold == \A a \in Agents : circuit[a] = "closed" => crashes[a] < CrashThreshold

\* A task without a channel has no event, and only a running one has steers.
TurnShape ==
    \A a \in Agents :
        /\ turn[a].ch = NoChannel =>
              turn[a].events = {} /\ turn[a].carried = {} /\ turn[a].steers = {}
        /\ ~Running(a) => turn[a].steers = {}

\* Only events that arrived are held or settled.
HeldArrived == Held \cup queue.shed \cup AllPast \subseteq 1..born

\* Only events that arrived are steered or answered.
SteersArrived ==
    /\ \A a \in Agents : turn[a].steers \subseteq 1..born
    /\ \A ack \in acks : ack.ev \in 1..born

\* An event is offered to one turn, once, and answered once.
OfferedOnce ==
    /\ \A a, b \in Agents : a # b => turn[a].steers \cap turn[b].steers = {}
    /\ \A a \in Agents : \A ack \in acks : ack.ev \notin turn[a].steers
    /\ \A k, l \in acks : k.ev = l.ev => k = l

\* No event is held in two places.
Apart ==
    /\ \A ch \in Channels : Once(queue, ch)
    /\ \A c, d \in Channels : c # d => Holds(queue, c) \cap Holds(queue, d) = {}
    /\ \A a, b \in Agents : a # b => TurnHolds(a) \cap TurnHolds(b) = {}
    /\ \A ch \in Channels, a \in Agents : Holds(queue, ch) \cap TurnHolds(a) = {}

\* The events of a turn and those merged into it are different ones.
TurnsDivide == \A a \in Agents : turn[a].events \cap turn[a].carried = {}

\* What is settled is held no more.
Over == Held \cap (queue.shed \cup AllPast) = {}

\* Event e of channel ch was offered as a steer, and the answer is not handled yet.
Pledged(ch, e) ==
    \/ \E a \in Agents : turn[a].ch = ch /\ e \in turn[a].steers
    \/ \E ack \in acks : ack.ch = ch /\ ack.ev = e

\* An event offered as a steer is withheld, if it is still held at all.
Offered ==
    \A ch \in Channels, e \in Event : Pledged(ch, e) /\ e \in Held => e \in queue.withheld[ch]

\* The types of the state, and what they rest on.
TypeInv ==
    /\ AcpType
    /\ BelowThreshold
    /\ TurnShape

\* The inductive invariant.
EventsInv ==
    /\ TypeInv
    /\ NothingForgotten
    /\ HeldArrived
    /\ SteersArrived
    /\ OfferedOnce
    /\ late = {} => Apart /\ TurnsDivide /\ Over /\ Offered

-----------------------------------------------------------------------------
(* Sequences.                                                               *)

\* Each place in a finite set of numbers is taken: its rank function is onto.
LEMMA RanksAreTaken ==
    ASSUME NEW S \in SUBSET Nat, IsFiniteSet(S), NEW i \in 1..Cardinality(S)
    PROVE  \E x \in S : Cardinality({y \in S : y <= x}) = i
  <1> DEFINE n == Cardinality(S)
             upto(x) == {y \in S : y <= x}
             rank == [x \in S |-> Cardinality(upto(x))]
  <1>1. n \in Nat /\ IsFiniteSet(1..n) /\ Cardinality(1..n) = n
    BY FS_CardinalityType, FS_Interval
  <1>2. ASSUME NEW x \in S
        PROVE  IsFiniteSet(upto(x)) /\ Cardinality(upto(x)) \in 1..n
    <2>1. upto(x) \in SUBSET S /\ x \in upto(x)
      OBVIOUS
    <2>2. IsFiniteSet(upto(x)) /\ Cardinality(upto(x)) <= n
      BY <2>1, FS_Subset
    <2>3. Cardinality(upto(x)) \in Nat /\ Cardinality(upto(x)) # 0
      BY <2>1, <2>2, FS_CardinalityType, FS_EmptySet
    <2> QED
      BY <1>1, <2>2, <2>3
  <1>3. ASSUME NEW x \in S, NEW z \in S, x < z
        PROVE  Cardinality(upto(x)) # Cardinality(upto(z))
    <2>1. upto(x) \in SUBSET upto(z) /\ z \in upto(z) /\ z \notin upto(x)
      <3>1. \A y \in S : y <= x => y <= z
        BY <1>3
      <3>2. z <= z /\ ~(z <= x)
        BY <1>3
      <3> QED
        BY <3>1, <3>2
    <2>2. upto(z) # upto(x)
      BY <2>1
    <2> HIDE DEF upto
    <2> QED
      BY <1>2, <2>1, <2>2, FS_Subset
  <1> HIDE DEF upto
  <1>4. rank \in Injection(S, 1..n)
    <2>1. rank \in [S -> 1..n]
      BY <1>2
    <2>2. ASSUME NEW x \in S, NEW z \in S, rank[x] = rank[z]
          PROVE  x = z
      <3>1. x < z \/ z < x \/ x = z
        OBVIOUS
      <3> QED
        BY <1>3, <2>2, <3>1
    <2> QED
      BY <2>1, <2>2 DEF Injection, IsInjective
  <1>5. rank \in Surjection(S, 1..n)
    BY <1>1, <1>4, FS_Injection
  <1> QED
    BY <1>5 DEF Surjection, upto

\* InOrder lists the members of a finite set, each once.
LEMMA InOrderLists ==
    ASSUME NEW S \in SUBSET Nat, IsFiniteSet(S)
    PROVE  InOrder(S) \in Seq(S) /\ ToSet(InOrder(S)) = S /\ Distinct(InOrder(S))
  <1> DEFINE n == Cardinality(S)
             rank(x) == Cardinality({y \in S : y <= x})
             s == InOrder(S)
  <1>1. n \in Nat
    BY FS_CardinalityType
  <1>2. \A i \in 1..n : \E x \in S : rank(x) = i
    BY RanksAreTaken
  <1>3. s = [i \in 1..n |-> CHOOSE x \in S : rank(x) = i]
    BY DEF InOrder
  <1> HIDE DEF rank, s, n
  <1>4. \A i \in 1..n : s[i] \in S /\ rank(s[i]) = i
    BY <1>2, <1>3
  <1>5. s \in Seq(S) /\ Len(s) = n /\ DOMAIN s = 1..n
    BY <1>1, <1>3, <1>4
  <1>6. Distinct(s)
    BY <1>4, <1>5 DEF Distinct
  <1>7. ASSUME NEW x \in S
        PROVE  \E i \in 1..n : s[i] = x
    <2>1. s \in Injection(1..n, S)
      BY <1>3, <1>4, <1>5, <1>6 DEF Injection, IsInjective, Distinct
    <2>2. IsFiniteSet(1..n) /\ Cardinality(1..n) = n
      BY <1>1, FS_Interval
    <2>3. s \in Surjection(1..n, S)
      BY <2>1, <2>2, FS_Injection DEF n
    <2> QED
      BY <2>3 DEF Surjection
  <1> QED
    BY <1>4, <1>5, <1>6, <1>7 DEF ToSet, s

\* The least member of a set of positions exists.
LEMMA LeastExists ==
    ASSUME NEW n \in Nat, NEW S \in SUBSET (1..n), S # {}
    PROVE  Min(S) \in S
  <1>1. S \in SUBSET Nat /\ IsFiniteSet(S)
    <2>1. IsFiniteSet(1..n) /\ 1..n \subseteq Nat
      BY FS_Interval
    <2> QED
      BY <2>1, FS_Subset
  <1>2. Cardinality(S) \in Nat /\ 1 \in 1..Cardinality(S)
    BY <1>1, FS_CardinalityType, FS_EmptySet
  <1>3. PICK x \in S : Cardinality({y \in S : y <= x}) = 1
    BY <1>1, <1>2, RanksAreTaken
  <1>4. IsFiniteSet({y \in S : y <= x})
    BY <1>1, FS_Subset
  <1>5. PICK z : {y \in S : y <= x} = {z}
    BY <1>3, <1>4, FS_Singleton
  <1>6. \A y \in S : x <= y
    BY <1>1, <1>5
  <1> QED
    BY <1>6 DEF Min

\* The members of a sequence.
LEMMA MembersOf ==
    ASSUME NEW E, NEW s \in Seq(E)
    PROVE  /\ Len(s) \in Nat /\ ToSet(s) \subseteq E
           /\ \A x : x \in ToSet(s) <=> \E i \in 1..Len(s) : s[i] = x
  BY DEF ToSet

\* A sequence cut in two: nothing is lost, and nothing is on both sides.
LEMMA CutInTwo ==
    ASSUME NEW E, NEW s \in Seq(E), NEW k \in 0..Len(s)
    PROVE  LET u == SubSeq(s, 1, k)
               v == SubSeq(s, k + 1, Len(s))
           IN  /\ u \in Seq(E) /\ v \in Seq(E) /\ Len(u) = k
               /\ ToSet(u) \cup ToSet(v) = ToSet(s)
               /\ Distinct(s) => Distinct(u) /\ Distinct(v) /\ ToSet(u) \cap ToSet(v) = {}
  <1> DEFINE u == SubSeq(s, 1, k)
             v == SubSeq(s, k + 1, Len(s))
             n == Len(s)
  <1>1. /\ u \in Seq(E) /\ Len(u) = k /\ \A i \in 1..k : u[i] = s[i]
        /\ v \in Seq(E) /\ Len(v) = n - k /\ \A i \in 1..n - k : v[i] = s[k + i]
    <2>1. u \in Seq(E) /\ Len(u) = k /\ \A i \in 1..k : u[i] = s[i]
      OBVIOUS
    <2>2. v \in Seq(E) /\ Len(v) = n - k
      OBVIOUS
    <2>3. ASSUME NEW i \in 1..n - k PROVE v[i] = s[k + i]
      <3>1. (k + 1) + i - 1 = k + i
        OBVIOUS
      <3> QED
        BY <3>1
    <2> QED
      BY <2>1, <2>2, <2>3
  <1>2. n \in Nat /\ k \in Nat /\ k <= n
    OBVIOUS
  <1>3. /\ \A x : x \in ToSet(u) <=> \E i \in 1..k : u[i] = x
        /\ \A x : x \in ToSet(v) <=> \E i \in 1..n - k : v[i] = x
        /\ \A x : x \in ToSet(s) <=> \E i \in 1..n : s[i] = x
    <2>1. /\ \A x : x \in ToSet(u) <=> \E i \in 1..Len(u) : u[i] = x
          /\ \A x : x \in ToSet(v) <=> \E i \in 1..Len(v) : v[i] = x
          /\ \A x : x \in ToSet(s) <=> \E i \in 1..Len(s) : s[i] = x
      BY <1>1, MembersOf
    <2> QED
      BY <1>1, <2>1
  <1> HIDE DEF u, v, n
  <1>4. /\ \A i \in 1..k : i \in 1..n
        /\ \A i \in 1..n - k : k + i \in 1..n /\ k + i > k
        /\ \A i \in 1..n : i \in 1..k \/ (i - k \in 1..n - k /\ k + (i - k) = i)
    BY <1>2
  <1>5. ToSet(u) \cup ToSet(v) = ToSet(s)
    <2>1. ToSet(u) \subseteq ToSet(s)
      BY <1>1, <1>3, <1>4
    <2>2. ToSet(v) \subseteq ToSet(s)
      BY <1>1, <1>3, <1>4
    <2>3. ASSUME NEW i \in 1..n PROVE s[i] \in ToSet(u) \cup ToSet(v)
      <3>1. CASE i \in 1..k
        BY <1>1, <1>3, <3>1
      <3>2. CASE i - k \in 1..n - k /\ k + (i - k) = i
        BY <1>1, <1>3, <3>2
      <3> QED
        BY <1>4, <3>1, <3>2
    <2> QED
      BY <1>3, <2>1, <2>2, <2>3
  <1>6. ASSUME Distinct(s)
        PROVE  Distinct(u) /\ Distinct(v) /\ ToSet(u) \cap ToSet(v) = {}
    <2>1. \A i, j \in 1..n : s[i] = s[j] => i = j
      BY <1>6 DEF Distinct, n
    <2>2. Distinct(u)
      BY <1>1, <1>4, <2>1 DEF Distinct
    <2>3. ASSUME NEW i \in 1..n - k, NEW j \in 1..n - k, v[i] = v[j] PROVE i = j
      <3>1. s[k + i] = s[k + j] /\ k + i \in 1..n /\ k + j \in 1..n
        BY <1>1, <1>4, <2>3
      <3>2. k + i = k + j
        BY <2>1, <3>1
      <3> QED
        BY <1>2, <3>2
    <2>4. ASSUME NEW i \in 1..k, NEW j \in 1..n - k PROVE u[i] # v[j]
      <3>1. i # k + j
        BY <1>2
      <3>2. u[i] = s[i] /\ v[j] = s[k + j]
        BY <1>1
      <3>3. i \in 1..n /\ k + j \in 1..n
        BY <1>4
      <3> QED
        BY ONLY <2>1, <3>1, <3>2, <3>3
    <2> QED
      BY <1>1, <1>3, <2>2, <2>3, <2>4 DEF Distinct
  <1> QED
    BY <1>1, <1>5, <1>6 DEF u, v, n

\* Two sequences, one behind the other.
LEMMA Joined ==
    ASSUME NEW E, NEW s \in Seq(E), NEW t \in Seq(E)
    PROVE  /\ s \o t \in Seq(E)
           /\ ToSet(s \o t) = ToSet(s) \cup ToSet(t)
           /\ Distinct(s) /\ Distinct(t) /\ ToSet(s) \cap ToSet(t) = {} => Distinct(s \o t)
  <1> DEFINE m == Len(s)
             n == Len(t)
             w == s \o t
  <1>1. /\ w \in Seq(E) /\ Len(w) = m + n /\ m \in Nat /\ n \in Nat
        /\ \A i \in 1..m : w[i] = s[i]
        /\ \A i \in 1..n : w[m + i] = t[i]
    OBVIOUS
  <1>2. /\ \A x : x \in ToSet(w) <=> \E i \in 1..m + n : w[i] = x
        /\ \A x : x \in ToSet(s) <=> \E i \in 1..m : s[i] = x
        /\ \A x : x \in ToSet(t) <=> \E i \in 1..n : t[i] = x
    <2>1. /\ \A x : x \in ToSet(w) <=> \E i \in 1..Len(w) : w[i] = x
          /\ \A x : x \in ToSet(s) <=> \E i \in 1..Len(s) : s[i] = x
          /\ \A x : x \in ToSet(t) <=> \E i \in 1..Len(t) : t[i] = x
      BY <1>1, MembersOf
    <2> QED
      BY <1>1, <2>1
  <1> HIDE DEF m, n, w
  <1>3. \A i \in 1..m + n : i \in 1..m \/ (i - m \in 1..n /\ m + (i - m) = i)
    BY <1>1
  <1>4. (\A i \in 1..m : i \in 1..m + n) /\ \A i \in 1..n : m + i \in 1..m + n
    BY <1>1
  <1>5. \A i \in 1..m + n : (i \in 1..m /\ w[i] = s[i]) \/ (i - m \in 1..n /\ w[i] = t[i - m])
    <2> TAKE i \in 1..m + n
    <2>1. CASE i - m \in 1..n /\ m + (i - m) = i
      <3>1. w[m + (i - m)] = t[i - m]
        BY <1>1, <2>1
      <3> QED
        BY <2>1, <3>1
    <2>2. CASE i \in 1..m
      BY <1>1, <2>2
    <2>3. i \in 1..m \/ (i - m \in 1..n /\ m + (i - m) = i)
      BY <1>3
    <2> QED
      BY <2>1, <2>2, <2>3
  <1>6. ToSet(w) = ToSet(s) \cup ToSet(t)
    <2>1. ToSet(w) \subseteq ToSet(s) \cup ToSet(t)
      BY <1>2, <1>5
    <2>2. \A i \in 1..m : s[i] \in ToSet(w)
      BY <1>1, <1>2, <1>4
    <2>3. \A i \in 1..n : t[i] \in ToSet(w)
      BY <1>1, <1>2, <1>4
    <2> QED
      BY <1>2, <2>1, <2>2, <2>3
  <1>7. ASSUME Distinct(s), Distinct(t), ToSet(s) \cap ToSet(t) = {}
        PROVE  Distinct(w)
    <2> SUFFICES ASSUME NEW i \in 1..m + n, NEW j \in 1..m + n, w[i] = w[j]
                 PROVE  i = j
      BY <1>1 DEF Distinct
    <2>1. CASE i \in 1..m /\ j \in 1..m
      BY <1>1, <1>7, <2>1 DEF Distinct, m
    <2>2. CASE i - m \in 1..n /\ w[i] = t[i - m] /\ j - m \in 1..n /\ w[j] = t[j - m]
      <3>1. i - m = j - m
        BY <1>7, <2>2 DEF Distinct, n
      <3> QED
        BY <1>1, <3>1
    <2>3. CASE i \in 1..m /\ j - m \in 1..n /\ w[j] = t[j - m]
      <3>1. w[i] \in ToSet(s) /\ w[j] \in ToSet(t)
        BY <1>1, <1>2, <2>3
      <3> QED
        BY <1>7, <3>1
    <2>4. CASE j \in 1..m /\ i - m \in 1..n /\ w[i] = t[i - m]
      <3>1. w[j] \in ToSet(s) /\ w[i] \in ToSet(t)
        BY <1>1, <1>2, <2>4
      <3> QED
        BY <1>7, <3>1
    <2>5. /\ i \in 1..m \/ (i - m \in 1..n /\ w[i] = t[i - m])
          /\ j \in 1..m \/ (j - m \in 1..n /\ w[j] = t[j - m])
      BY <1>5
    <2> QED
      BY <2>1, <2>2, <2>3, <2>4, <2>5
  <1> QED
    BY <1>1, <1>6, <1>7 DEF w

\* What is left of a sequence from which e was taken.
LessOne(s, t, e) ==
    /\ ToSet(t) \subseteq ToSet(s)
    /\ ToSet(s) \subseteq ToSet(t) \cup {e}
    /\ Distinct(s) => Distinct(t) /\ e \notin ToSet(t)

\* position and remove take one occurrence.
LEMMA RemoveFirstTakes ==
    ASSUME NEW E, NEW s \in Seq(E), NEW e
    PROVE  RemoveFirst(s, e) \in Seq(E) /\ LessOne(s, RemoveFirst(s, e), e)
  <1>1. CASE ~\E i \in 1..Len(s) : s[i] = e
    <2>1. RemoveFirst(s, e) = s
      BY <1>1 DEF RemoveFirst
    <2>2. e \notin ToSet(s)
      BY <1>1 DEF ToSet
    <2> QED
      BY <2>1, <2>2 DEF LessOne
  <1>2. CASE \E i \in 1..Len(s) : s[i] = e
    <2> DEFINE I == {i \in 1..Len(s) : s[i] = e}
               k == Min(I)
               u == SubSeq(s, 1, k - 1)
               v == SubSeq(s, k + 1, Len(s))
    <2>1. k \in 1..Len(s) /\ s[k] = e
      <3>1. I \in SUBSET (1..Len(s)) /\ I # {} /\ Len(s) \in Nat
        BY <1>2
      <3>2. Min(I) \in I
        BY <3>1, LeastExists
      <3> QED
        BY <3>2
    <2>2. RemoveFirst(s, e) = u \o v
      BY <1>2 DEF RemoveFirst, RemoveAt, SelectInSeq
    <2> HIDE DEF I, k
    <2> DEFINE v1 == SubSeq(s, k, Len(s))
    <2>3. /\ u \in Seq(E) /\ ToSet(u) \cup ToSet(v1) = ToSet(s)
          /\ Distinct(s) => Distinct(u) /\ Distinct(v1) /\ ToSet(u) \cap ToSet(v1) = {}
      <3>1. k - 1 \in 0..Len(s) /\ (k - 1) + 1 = k
        BY <2>1
      <3> QED
        BY <3>1, CutInTwo
    <2>4. /\ v1 \in Seq(E) /\ Len(v1) = Len(s) - k + 1
          /\ \A i \in 1..Len(s) - k + 1 : v1[i] = s[k + i - 1]
          /\ v \in Seq(E) /\ Len(v) = Len(s) - k
          /\ \A i \in 1..Len(s) - k : v[i] = s[k + i]
      BY <2>1
    <2> HIDE DEF u, v, v1
    <2>5. ToSet(v1) = {e} \cup ToSet(v) /\ (Distinct(v1) => Distinct(v) /\ e \notin ToSet(v))
      <3>1. /\ v1[1] = e /\ 1 \in 1..Len(v1)
            /\ \A i \in 1..Len(v) : i + 1 \in 1..Len(v1) /\ v[i] = v1[i + 1]
            /\ \A i \in 1..Len(v1) : i = 1 \/ (i - 1 \in 1..Len(v) /\ v1[i] = v[i - 1])
        <4>1. Len(s) \in Nat /\ k \in Nat /\ 1 <= k /\ k <= Len(s) /\ k + 1 - 1 = k
          BY <2>1
        <4>2. 1 \in 1..Len(v1) /\ v1[1] = e
          <5>1. 1 \in 1..Len(s) - k + 1 /\ k + 1 - 1 = k
            BY <4>1
          <5> QED
            BY <2>1, <2>4, <5>1
        <4>3. ASSUME NEW i \in 1..Len(v)
              PROVE  i + 1 \in 1..Len(v1) /\ v[i] = v1[i + 1]
          <5>1. i + 1 \in 1..Len(s) - k + 1 /\ k + (i + 1) - 1 = k + i
            BY <2>4, <4>1
          <5> QED
            BY <2>4, <5>1
        <4>4. ASSUME NEW i \in 1..Len(v1), i # 1
              PROVE  i - 1 \in 1..Len(v) /\ (i - 1) + 1 = i
          BY <2>4, <4>1, <4>4
        <4>5. ASSUME NEW i \in 1..Len(v1), i # 1
              PROVE  i - 1 \in 1..Len(v) /\ v1[i] = v[i - 1]
          <5>1. v[i - 1] = v1[(i - 1) + 1]
            BY <4>3, <4>4, <4>5
          <5> QED
            BY <4>4, <4>5, <5>1
        <4> QED
          BY <4>2, <4>3, <4>5
      <3>2. /\ \A x : x \in ToSet(v) <=> \E i \in 1..Len(v) : v[i] = x
            /\ \A x : x \in ToSet(v1) <=> \E i \in 1..Len(v1) : v1[i] = x
        BY <2>4, MembersOf
      <3>3. ToSet(v1) \subseteq {e} \cup ToSet(v)
        BY <3>1, <3>2
      <3>4. {e} \cup ToSet(v) \subseteq ToSet(v1)
        BY <3>1, <3>2
      <3>5. ASSUME Distinct(v1) PROVE Distinct(v) /\ e \notin ToSet(v)
        <4>1. \A i, j \in 1..Len(v) : v[i] = v[j] => i + 1 = j + 1
          BY <3>1, <3>5 DEF Distinct
        <4>2. \A i \in 1..Len(v) : v[i] = e => i + 1 = 1
          BY <3>1, <3>5 DEF Distinct
        <4> QED
          BY <2>4, <3>2, <4>1, <4>2 DEF Distinct
      <3> QED
        BY <3>3, <3>4, <3>5
    <2>6. /\ u \o v \in Seq(E) /\ ToSet(u \o v) = ToSet(u) \cup ToSet(v)
          /\ Distinct(u) /\ Distinct(v) /\ ToSet(u) \cap ToSet(v) = {} => Distinct(u \o v)
      BY <2>3, <2>4, Joined
    <2> QED
      BY <2>2, <2>3, <2>5, <2>6 DEF LessOne
  <1> QED
    BY <1>1, <1>2

\* retain takes every occurrence.
LEMMA RetainTakes ==
    ASSUME NEW E, NEW s \in Seq(E), NEW e
    PROVE  /\ Retain(s, e) \in Seq(E) /\ LessOne(s, Retain(s, e), e)
           /\ e \notin ToSet(Retain(s, e))
  <1> DEFINE I == {i \in 1..Len(s) : s[i] # e}
             at == InOrder(I)
             t == Retain(s, e)
  <1>1. I \in SUBSET Nat /\ IsFiniteSet(I)
    <2>1. I \in SUBSET (1..Len(s)) /\ Len(s) \in Nat
      OBVIOUS
    <2>2. IsFiniteSet(1..Len(s)) /\ 1..Len(s) \subseteq Nat
      BY <2>1, FS_Interval
    <2> QED
      BY <2>1, <2>2, FS_Subset
  <1>2. at \in Seq(I) /\ ToSet(at) = I /\ Distinct(at)
    BY <1>1, InOrderLists
  <1>3. t = [i \in 1..Len(at) |-> s[at[i]]]
    BY DEF Retain
  <1> HIDE DEF at, t
  <1>4. \A i \in 1..Len(at) : at[i] \in 1..Len(s) /\ s[at[i]] # e
    BY <1>2
  <1>5. t \in Seq(E) /\ Len(t) = Len(at)
    BY <1>2, <1>3, <1>4
  <1>6. ToSet(t) = {s[at[i]] : i \in 1..Len(at)} /\ ToSet(s) = {s[i] : i \in 1..Len(s)}
    BY <1>3, <1>5 DEF ToSet
  <1>7. \A j \in I : \E i \in 1..Len(at) : at[i] = j
    <2> HIDE DEF I
    <2>1. \A x : x \in ToSet(at) <=> \E i \in 1..Len(at) : at[i] = x
      BY <1>2, MembersOf
    <2> QED
      BY <1>2, <2>1
  <1>8. ToSet(t) \subseteq ToSet(s) /\ ToSet(s) \subseteq ToSet(t) \cup {e} /\ e \notin ToSet(t)
    <2>1. ToSet(t) \subseteq ToSet(s) /\ e \notin ToSet(t)
      BY <1>4, <1>6
    <2>2. ASSUME NEW j \in 1..Len(s), s[j] # e PROVE s[j] \in ToSet(t)
      <3>1. j \in I
        BY <2>2
      <3> HIDE DEF I
      <3>2. PICK i \in 1..Len(at) : at[i] = j
        BY <1>7, <3>1
      <3> QED
        BY <1>6, <3>2
    <2> QED
      BY <1>6, <2>1, <2>2
  <1>9. Distinct(s) => Distinct(t)
    BY <1>2, <1>3, <1>4, <1>5 DEF Distinct
  <1> QED
    BY <1>5, <1>8, <1>9 DEF LessOne, t

-----------------------------------------------------------------------------
(* The methods of the queue.                                                *)

\* From q to r channel c takes in `in`, lets out `out`, and loses the rest to shed.
Balanced(q, r, c, in, out) ==
    /\ r \in EventQueueType(Event)
    /\ \A d \in Channels \ {c} : /\ r.queues[d] = q.queues[d]
                                 /\ r.cancelled[d] = q.cancelled[d]
                                 /\ r.withheld[d] = q.withheld[d]
    /\ Holds(r, c) \subseteq Holds(q, c) \cup in
    /\ Holds(q, c) \cup in \subseteq Holds(r, c) \cup out \cup r.shed
    /\ q.shed \subseteq r.shed
    /\ r.shed \subseteq q.shed \cup Holds(q, c) \cup in

\* r holds what it has of channel c once, and nothing that was let out or shed.
Tidy(q, r, c, out) ==
    Once(r, c) /\ Holds(r, c) \cap (out \cup (r.shed \ q.shed)) = {}

\* r is q with new contents of channel c.
Refilled(q, r, c, u, cancelled, withheld, shed) ==
    /\ r \in EventQueueType(Event)
    /\ \A d \in Channels \ {c} : /\ r.queues[d] = q.queues[d]
                                 /\ r.cancelled[d] = q.cancelled[d]
                                 /\ r.withheld[d] = q.withheld[d]
    /\ r.queues[c] = u
    /\ r.cancelled[c] = cancelled
    /\ r.withheld[c] = withheld
    /\ r.shed = shed

\* r holds what q holds.
SameContents(q, r) ==
    /\ r \in EventQueueType(Event)
    /\ r.queues = q.queues /\ r.cancelled = q.cancelled
    /\ r.withheld = q.withheld /\ r.shed = q.shed

\* What a queue holds are events.
LEMMA QueueTypes ==
    ASSUME NEW q \in EventQueueType(Event), NEW c \in Channels
    PROVE  /\ q.queues[c] \in Seq(Event) /\ Pending(q, c) \subseteq Event
           /\ q.cancelled[c] \subseteq Event /\ q.withheld[c] \subseteq Event
           /\ q.shed \subseteq Event /\ Holds(q, c) \subseteq Event
           /\ q.in_flight[c] \in InFlight /\ q.retry_after[c] \in Throttle
           /\ q.retry_counts[c] \in 0..MaxRetries
  <1>1. /\ q.queues[c] \in Seq(Event)
        /\ q.cancelled[c] \subseteq Event /\ q.withheld[c] \subseteq Event /\ q.shed \subseteq Event
        /\ q.in_flight[c] \in InFlight /\ q.retry_after[c] \in Throttle
        /\ q.retry_counts[c] \in 0..MaxRetries
    BY DEF EventQueueType
  <1>2. Pending(q, c) \subseteq Event
    BY <1>1, MembersOf DEF Pending
  <1> QED
    BY <1>1, <1>2 DEF Holds

\* Events are finitely many numbers.
LEMMA EventsFinite ==
    ASSUME NEW S \in SUBSET Event
    PROVE  S \in SUBSET Nat /\ IsFiniteSet(S)
  <1>1. IsFiniteSet(Event) /\ Event \subseteq Nat
    BY EventsAssumption, FS_Interval DEF Event
  <1> QED
    BY <1>1, FS_Subset

\* requeue_preserve_timestamps, and every other return to the front.
LEMMA PushFrontBalance ==
    ASSUME NEW q \in EventQueueType(Event), NEW c \in Channels, NEW S \in SUBSET Event
    PROVE  /\ Balanced(q, PushFront(q, c, S), c, S, {})
           /\ Once(q, c) /\ S \cap Holds(q, c) = {} => Tidy(q, PushFront(q, c, S), c, {})
           /\ \A d \in Channels : /\ PushFront(q, c, S).withheld[d] = q.withheld[d]
                                  /\ PushFront(q, c, S).cancelled[d] = q.cancelled[d]
           /\ S \cup Pending(q, c) \subseteq Pending(PushFront(q, c, S), c) \cup PushFront(q, c, S).shed
           /\ Pending(PushFront(q, c, S), c) \subseteq S \cup Pending(q, c)
  <1> DEFINE s == InOrder(S) \o q.queues[c]
             k == IF Len(s) > MaxPending THEN MaxPending ELSE Len(s)
             u == SubSeq(s, 1, k)
             v == SubSeq(s, k + 1, Len(s))
             r == PushFront(q, c, S)
  <1>1. /\ InOrder(S) \in Seq(S) /\ ToSet(InOrder(S)) = S /\ Distinct(InOrder(S))
    BY EventsFinite, InOrderLists
  <1>2. InOrder(S) \in Seq(Event)
    BY <1>1
  <1>3. q.queues[c] \in Seq(Event)
    BY QueueTypes
  <1>4. /\ s \in Seq(Event) /\ ToSet(s) = S \cup Pending(q, c)
        /\ Distinct(q.queues[c]) /\ S \cap Pending(q, c) = {} => Distinct(s)
    BY <1>1, <1>2, <1>3, Joined DEF Pending
  <1>5. k \in 0..Len(s)
    BY <1>4, CapsAssumption
  <1>6. r = [q EXCEPT !.queues[c] = u, !.shed = @ \cup ToSet(v)]
    BY DEF PushFront
  <1> HIDE DEF s, k, r
  <1>7. /\ u \in Seq(Event) /\ v \in Seq(Event) /\ ToSet(u) \cup ToSet(v) = ToSet(s)
        /\ Distinct(s) => Distinct(u) /\ ToSet(u) \cap ToSet(v) = {}
    BY <1>4, <1>5, CutInTwo
  <1> HIDE DEF u, v
  <1>8. ToSet(u) \subseteq Event /\ ToSet(v) \subseteq Event
    BY <1>7, MembersOf
  <1>9. Refilled(q, r, c, u, q.cancelled[c], q.withheld[c], q.shed \cup ToSet(v))
    BY <1>6, <1>7, <1>8 DEF EventQueueType, Refilled
  <1>10. \A d \in Channels : r.withheld[d] = q.withheld[d] /\ r.cancelled[d] = q.cancelled[d]
    BY <1>9 DEF Refilled
  <1>11. Pending(r, c) = ToSet(u) /\ r.shed = q.shed \cup ToSet(v)
    BY <1>9 DEF Refilled, Pending
  <1>12. Balanced(q, r, c, S, {})
    BY <1>4, <1>7, <1>9, <1>10, <1>11 DEF Balanced, Refilled, Holds
  <1>13. ASSUME Once(q, c), S \cap Holds(q, c) = {}
         PROVE  Tidy(q, r, c, {})
    <2>1. Distinct(u) /\ ToSet(u) \cap ToSet(v) = {}
      BY <1>4, <1>7, <1>13 DEF Once, Holds
    <2>2. Once(r, c)
      BY <1>4, <1>7, <1>9, <1>11, <1>13, <2>1 DEF Once, Holds, Refilled
    <2>3. Holds(r, c) \cap (r.shed \ q.shed) = {}
      BY <1>4, <1>7, <1>9, <1>11, <1>13, <2>1 DEF Once, Holds, Refilled
    <2> QED
      BY <2>2, <2>3 DEF Tidy
  <1>14. /\ S \cup Pending(q, c) \subseteq Pending(r, c) \cup r.shed
         /\ Pending(r, c) \subseteq S \cup Pending(q, c)
    BY <1>4, <1>7, <1>11
  <1> QED
    BY <1>10, <1>12, <1>13, <1>14 DEF r

\* push: at the cap the oldest event is shed.
LEMMA PushBalance ==
    ASSUME NEW q \in EventQueueType(Event), NEW c \in Channels, NEW e \in Event
    PROVE  /\ Balanced(q, Push(q, c, e), c, {e}, {})
           /\ Once(q, c) /\ e \notin Holds(q, c) => Tidy(q, Push(q, c, e), c, {})
           /\ \A d \in Channels : Push(q, c, e).withheld[d] = q.withheld[d]
           /\ e \in Pending(Push(q, c, e), c)
  <1> DEFINE s == q.queues[c]
             full == Len(s) >= MaxPending
             k == IF full THEN 1 ELSE 0
             v == SubSeq(s, 1, k)
             t == SubSeq(s, k + 1, Len(s))
             u == t \o <<e>>
             r == Push(q, c, e)
  <1>1. s \in Seq(Event)
    BY QueueTypes
  <1>2. k \in 0..Len(s)
    BY <1>1, CapsAssumption
  <1>3. /\ v \in Seq(Event) /\ t \in Seq(Event) /\ ToSet(v) \cup ToSet(t) = ToSet(s)
        /\ Distinct(s) => Distinct(t) /\ ToSet(v) \cap ToSet(t) = {}
    BY <1>1, <1>2, CutInTwo
  <1>4. /\ full => k = 1 /\ k + 1 = 2 /\ s # <<>> /\ Len(s) \in Nat /\ Len(s) >= 1
        /\ ~full => k = 0 /\ k + 1 = 1
    BY <1>1, CapsAssumption
  <1>5. v = SubSeq(s, 1, k) /\ t = SubSeq(s, k + 1, Len(s))
    OBVIOUS
  <1> HIDE DEF k, full, v, t
  <1>6. Append(t, e) = u
    BY <1>3, AppendIsConcat
  <1>7. (IF full THEN Tail(s) ELSE s) = t
    <2>1. CASE full
      <3>1. Tail(s) = SubSeq(s, 2, Len(s))
        BY <1>1, <1>4, <2>1, TailIsSubSeq
      <3> QED
        BY <1>4, <1>5, <2>1, <3>1
    <2>2. CASE ~full
      <3>1. s = SubSeq(s, 1, Len(s))
        BY <1>1, SubSeqFull
      <3> QED
        BY <1>4, <1>5, <2>2, <3>1
    <2> QED
      BY <2>1, <2>2
  <1>8. ToSet(v) = IF full THEN {Head(s)} ELSE {}
    <2>1. \A x : x \in ToSet(v) <=> \E i \in 1..Len(v) : v[i] = x
      BY <1>3, MembersOf
    <2>2. CASE full
      <3>1. v = SubSeq(s, 1, 1)
        BY <1>4, <1>5, <2>2
      <3>2. Len(v) = 1 /\ v[1] = s[1] /\ Head(s) = s[1]
        BY <1>1, <1>4, <2>2, <3>1
      <3> QED
        BY <2>1, <2>2, <3>2
    <2>3. CASE ~full
      <3>1. v = SubSeq(s, 1, 0)
        BY <1>4, <1>5, <2>3
      <3>2. Len(v) = 0
        BY <1>1, <3>1
      <3> QED
        BY <2>1, <2>3, <3>2
    <2> QED
      BY <2>2, <2>3
  <1>9. r = [q EXCEPT !.queues[c] = u, !.shed = @ \cup ToSet(v)]
    <2>1. r = [q EXCEPT !.queues[c] = Append(IF full THEN Tail(s) ELSE s, e),
                        !.shed = IF full THEN @ \cup {Head(s)} ELSE @]
      BY DEF Push, full
    <2>2. (IF full THEN q.shed \cup {Head(s)} ELSE q.shed) = q.shed \cup ToSet(v)
      BY <1>8
    <2>3. Append(IF full THEN Tail(s) ELSE s, e) = u
      BY <1>6, <1>7
    <2> HIDE DEF u, r
    <2>4. [q EXCEPT !.queues[c] = Append(IF full THEN Tail(s) ELSE s, e),
                    !.shed = IF full THEN @ \cup {Head(s)} ELSE @]
          = [q EXCEPT !.queues[c] = u, !.shed = @ \cup ToSet(v)]
      <3> DEFINE w == Append(IF full THEN Tail(s) ELSE s, e)
                 h == IF full THEN q.shed \cup {Head(s)} ELSE q.shed
      <3>1. w = u /\ h = q.shed \cup ToSet(v)
        BY <2>2, <2>3
      <3>2. [q EXCEPT !.queues[c] = w, !.shed = h]
            = [q EXCEPT !.queues[c] = u, !.shed = q.shed \cup ToSet(v)]
        BY <3>1
      <3> QED
        BY <3>2
    <2> QED
      BY <2>1, <2>4
  <1>10. <<e>> \in Seq(Event) /\ ToSet(<<e>>) = {e} /\ Distinct(<<e>>)
    BY DEF ToSet, Distinct
  <1> HIDE DEF r
  <1>11. /\ u \in Seq(Event) /\ ToSet(u) = ToSet(t) \cup {e}
         /\ Distinct(t) /\ e \notin ToSet(t) => Distinct(u)
    <2> DEFINE x == <<e>>
    <2>1. t \in Seq(Event) /\ x \in Seq(Event) /\ ToSet(x) = {e} /\ Distinct(x) /\ u = t \o x
      BY <1>3, <1>10
    <2> HIDE DEF u, x
    <2>2. /\ u \in Seq(Event) /\ ToSet(u) = ToSet(t) \cup ToSet(x)
          /\ Distinct(t) /\ Distinct(x) /\ ToSet(t) \cap ToSet(x) = {} => Distinct(u)
      BY <2>1, Joined
    <2> QED
      BY <2>1, <2>2
  <1> HIDE DEF u
  <1>12. ToSet(v) \subseteq Event
    BY <1>3, MembersOf
  <1>13. Refilled(q, r, c, u, q.cancelled[c], q.withheld[c], q.shed \cup ToSet(v))
    BY <1>9, <1>11, <1>12 DEF EventQueueType, Refilled
  <1>14. Pending(r, c) = ToSet(u) /\ r.shed = q.shed \cup ToSet(v) /\ Pending(q, c) = ToSet(s)
    BY <1>13 DEF Refilled, Pending
  <1>15. Balanced(q, r, c, {e}, {})
    BY <1>3, <1>11, <1>13, <1>14 DEF Balanced, Refilled, Holds
  <1>16. ASSUME Once(q, c), e \notin Holds(q, c)
         PROVE  Tidy(q, r, c, {})
    <2>1. Distinct(t) /\ ToSet(v) \cap ToSet(t) = {} /\ e \notin ToSet(s)
      BY <1>3, <1>14, <1>16 DEF Once, Holds
    <2>2. Distinct(u)
      BY <1>3, <1>11, <2>1
    <2>3. Once(r, c)
      BY <1>3, <1>11, <1>13, <1>14, <1>16, <2>2 DEF Once, Holds, Refilled
    <2>4. Holds(r, c) \cap (r.shed \ q.shed) = {}
      BY <1>3, <1>11, <1>13, <1>14, <1>16, <2>1 DEF Once, Holds, Refilled
    <2> QED
      BY <2>3, <2>4 DEF Tidy
  <1>17. \A d \in Channels : r.withheld[d] = q.withheld[d]
    BY <1>13 DEF Refilled
  <1> QED
    BY <1>11, <1>14, <1>15, <1>16, <1>17 DEF r

\* A queue that holds what r holds stands in the same balance.
LEMMA SameBalance ==
    ASSUME NEW q, NEW r, NEW x, NEW c \in Channels, NEW in, NEW out,
           SameContents(r, x), Balanced(q, r, c, in, out)
    PROVE  /\ Balanced(q, x, c, in, out)
           /\ Tidy(q, r, c, out) => Tidy(q, x, c, out)
  <1>1. Holds(x, c) = Holds(r, c) /\ x.shed = r.shed /\ (Once(r, c) => Once(x, c))
    BY DEF SameContents, Holds, Pending, Once
  <1> QED
    BY <1>1 DEF Balanced, Tidy, SameContents

\* Nothing moved.
LEMMA SelfBalance ==
    ASSUME NEW q \in EventQueueType(Event), NEW r, SameContents(q, r), NEW c \in Channels
    PROVE  Balanced(q, r, c, {}, {}) /\ (Once(q, c) => Tidy(q, r, c, {}))
  <1>1. Balanced(q, q, c, {}, {}) /\ (Once(q, c) => Tidy(q, q, c, {}))
    BY DEF Balanced, Tidy
  <1> QED
    BY <1>1, SameBalance

\* The methods that only change marks and throttles.
LEMMA MarksHoldTheSame ==
    ASSUME NEW q \in EventQueueType(Event), NEW c \in Channels
    PROVE  /\ SameContents(q, MarkComplete(q, c))
           /\ SameContents(q, ExtendInFlightDeadline(q, c))
           /\ SameContents(q, ThrottleElapsed(q, c))
           /\ SameContents(q, DeadlinePassed(q, c))
  <1>1. 0 \in 0..MaxRetries
    BY CapsAssumption
  <1>2. SameContents(q, MarkComplete(q, c))
    BY <1>1 DEF SameContents, EventQueueType, MarkComplete, InFlight, Throttle
  <1>3. SameContents(q, ExtendInFlightDeadline(q, c))
    BY DEF SameContents, EventQueueType, ExtendInFlightDeadline, InFlight
  <1>4. SameContents(q, ThrottleElapsed(q, c)) /\ SameContents(q, DeadlinePassed(q, c))
    BY DEF SameContents, EventQueueType, ThrottleElapsed, DeadlinePassed, InFlight, Throttle
  <1> QED
    BY <1>2, <1>3, <1>4

\* compact_expired_state discards no event.
LEMMA CompactHoldsTheSame ==
    ASSUME NEW q \in EventQueueType(Event)
    PROVE  SameContents(q, CompactExpiredState(q))
  <1>1. 0 \in 0..MaxRetries
    BY CapsAssumption
  <1> DEFINE active(ch) == q.retry_after[ch] = "waiting" \/ q.queues[ch] # <<>> \/ Busy(q, ch)
             after == [ch \in Channels |-> IF q.retry_after[ch] = "due" THEN "none"
                                           ELSE q.retry_after[ch]]
             counts == [ch \in Channels |-> IF active(ch) THEN q.retry_counts[ch] ELSE 0]
  <1>2. CompactExpiredState(q) = [q EXCEPT !.retry_after = after, !.retry_counts = counts]
    BY DEF CompactExpiredState
  <1>3. after \in [Channels -> Throttle] /\ counts \in [Channels -> 0..MaxRetries]
    BY <1>1 DEF EventQueueType, Throttle
  <1> HIDE DEF after, counts
  <1> QED
    BY <1>2, <1>3 DEF SameContents, EventQueueType

\* requeue: a retried batch comes in, a dead letter leaves the contents alone.
LEMMA RequeueBalance ==
    ASSUME NEW q \in EventQueueType(Event), NEW t, t.ch \in Channels, t.events \in SUBSET Event
    PROVE  /\ DeadLetters(q, t.ch) => SameContents(q, Requeue(q, t))
           /\ ~DeadLetters(q, t.ch) =>
                 /\ Balanced(q, Requeue(q, t), t.ch, t.events, {})
                 /\ Once(q, t.ch) /\ t.events \cap Holds(q, t.ch) = {}
                       => Tidy(q, Requeue(q, t), t.ch, {})
                 /\ \A d \in Channels : Requeue(q, t).withheld[d] = q.withheld[d]
  <1>1. 0 \in 0..MaxRetries
    BY CapsAssumption
  <1>2. ASSUME DeadLetters(q, t.ch) PROVE SameContents(q, Requeue(q, t))
    <2>1. Requeue(q, t) = [q EXCEPT !.retry_counts[t.ch] = 0, !.retry_after[t.ch] = "none"]
      BY <1>2 DEF Requeue
    <2>2. /\ [q.retry_counts EXCEPT ![t.ch] = 0] \in [Channels -> 0..MaxRetries]
          /\ [q.retry_after EXCEPT ![t.ch] = "none"] \in [Channels -> Throttle]
      BY <1>1 DEF EventQueueType, Throttle
    <2> QED
      BY <2>1, <2>2 DEF SameContents, EventQueueType
  <1>3. ASSUME ~DeadLetters(q, t.ch)
        PROVE  /\ Balanced(q, Requeue(q, t), t.ch, t.events, {})
               /\ Once(q, t.ch) /\ t.events \cap Holds(q, t.ch) = {}
                     => Tidy(q, Requeue(q, t), t.ch, {})
               /\ \A d \in Channels : Requeue(q, t).withheld[d] = q.withheld[d]
    <2> DEFINE p == PushFront(q, t.ch, t.events)
               r == Requeue(q, t)
    <2>1. /\ Balanced(q, p, t.ch, t.events, {})
          /\ Once(q, t.ch) /\ t.events \cap Holds(q, t.ch) = {} => Tidy(q, p, t.ch, {})
          /\ \A d \in Channels : p.withheld[d] = q.withheld[d]
      BY PushFrontBalance
    <2>2. r = [p EXCEPT !.retry_counts[t.ch] = @ + 1, !.retry_after[t.ch] = "waiting"]
      BY <1>3 DEF Requeue
    <2>3. p.retry_counts[t.ch] = q.retry_counts[t.ch]
      BY DEF PushFront, EventQueueType
    <2>4. p \in EventQueueType(Event)
      BY <2>1 DEF Balanced
    <2>5. p.retry_counts[t.ch] + 1 \in 0..MaxRetries
      <3>1. q.retry_counts[t.ch] \in 0..MaxRetries
        BY QueueTypes
      <3> QED
        BY <1>3, <2>3, <3>1, CapsAssumption DEF DeadLetters
    <2> HIDE DEF p, r
    <2>6. SameContents(p, r)
      BY <2>2, <2>4, <2>5 DEF SameContents, EventQueueType, Throttle
    <2>7. /\ Balanced(q, r, t.ch, t.events, {})
          /\ Tidy(q, p, t.ch, {}) => Tidy(q, r, t.ch, {})
      BY <2>1, <2>6, SameBalance
    <2>8. \A d \in Channels : r.withheld[d] = q.withheld[d]
      BY <2>1, <2>6 DEF SameContents
    <2> QED
      BY <2>1, <2>7, <2>8 DEF r
  <1> QED
    BY <1>2, <1>3

\* requeue_as_cancelled: the whole batch comes in.
LEMMA CancelledBalance ==
    ASSUME NEW q \in EventQueueType(Event), NEW t, t.ch \in Channels,
           t.events \in SUBSET Event, t.carried \in SUBSET Event
    PROVE  LET r == RequeueAsCancelled(q, t)
               in == t.events \cup t.carried
           IN  /\ Balanced(q, r, t.ch, in, {})
               /\ Once(q, t.ch) /\ in \cap Holds(q, t.ch) = {} => Tidy(q, r, t.ch, {})
               /\ \A d \in Channels : r.withheld[d] = q.withheld[d]
  <1> DEFINE r == RequeueAsCancelled(q, t)
             in == t.events \cup t.carried
             cc == q.cancelled[t.ch] \cup t.carried \cup t.events
  <1>1. Refilled(q, r, t.ch, q.queues[t.ch], cc, q.withheld[t.ch], q.shed)
    BY DEF Refilled, RequeueAsCancelled, EventQueueType
  <1> HIDE DEF r
  <1>2. Balanced(q, r, t.ch, in, {})
    BY <1>1 DEF Refilled, Balanced, Holds, Pending
  <1>3. Once(q, t.ch) /\ in \cap Holds(q, t.ch) = {} => Tidy(q, r, t.ch, {})
    BY <1>1 DEF Refilled, Tidy, Once, Holds, Pending
  <1>4. \A d \in Channels : r.withheld[d] = q.withheld[d]
    BY <1>1 DEF Refilled
  <1> QED
    BY <1>2, <1>3, <1>4 DEF r

\* flush_next: the batch goes out, the events and what was merged into them apart.
LEMMA FlushBalance ==
    ASSUME NEW q \in EventQueueType(Event), NEW c \in Channels
    PROVE  LET b == FlushBatch(q, c)
               r == Flushed(q, c)
           IN  /\ b.ch = c /\ b.events \in SUBSET Event /\ b.carried \in SUBSET Event
               /\ b.events \cup b.carried \subseteq Holds(q, c)
               /\ Balanced(q, r, c, {}, b.events \cup b.carried)
               /\ Once(q, c) => /\ Tidy(q, r, c, b.events \cup b.carried)
                                /\ b.events \cap b.carried = {}
               /\ \A d \in Channels : r.withheld[d] = q.withheld[d]
  <1> DEFINE s == q.queues[c]
             k == IF c \in Ready(q) THEN Taken(q, c) ELSE 0
             u == SubSeq(s, 1, k)
             v == SubSeq(s, k + 1, Len(s))
             b == FlushBatch(q, c)
             r == Flushed(q, c)
  <1>1. s \in Seq(Event) /\ q.cancelled[c] \subseteq Event
    BY QueueTypes
  <1>2. k \in 0..Len(s)
    BY <1>1, CapsAssumption DEF Taken
  <1>3. /\ u \in Seq(Event) /\ v \in Seq(Event) /\ Len(u) = k
        /\ ToSet(u) \cup ToSet(v) = Pending(q, c)
        /\ Distinct(s) => Distinct(v) /\ ToSet(u) \cap ToSet(v) = {}
    BY <1>1, <1>2, CutInTwo DEF Pending
  <1>4. (IF c \in Ready(q) THEN SubSeq(s, Taken(q, c) + 1, Len(s)) ELSE s) = v
    <2>1. CASE c \in Ready(q)
      BY <2>1
    <2>2. CASE c \notin Ready(q)
      <3>1. k + 1 = 1
        BY <2>2
      <3>2. SubSeq(s, 1, Len(s)) = s
        BY <1>1, SubSeqFull
      <3> QED
        BY <2>2, <3>1, <3>2
    <2> QED
      BY <2>1, <2>2
  <1>5. /\ b.ch = c
        /\ c \in Ready(q) => b.events = ToSet(u) /\ b.carried = q.cancelled[c]
        /\ c \notin Ready(q) => b.events = q.cancelled[c] /\ b.carried = {}
    BY DEF FlushBatch
  <1>6. c \notin Ready(q) => k = 0
    OBVIOUS
  <1>7. r = [q EXCEPT !.queues[c] = IF c \in Ready(q) THEN SubSeq(s, Taken(q, c) + 1, Len(s)) ELSE s,
                      !.cancelled[c] = {}, !.in_flight[c] = "running"]
    BY DEF Flushed
  <1> DEFINE w == IF c \in Ready(q) THEN SubSeq(s, Taken(q, c) + 1, Len(s)) ELSE s
  <1>8. w = v /\ r = [q EXCEPT !.queues[c] = w, !.cancelled[c] = {}, !.in_flight[c] = "running"]
    BY <1>4, <1>7
  <1> HIDE DEF k, u, v, w, b, r
  <1>9. ToSet(u) \subseteq Event /\ (c \notin Ready(q) => ToSet(u) = {})
    <2>1. ToSet(u) \subseteq Event /\ \A x : x \in ToSet(u) <=> \E i \in 1..Len(u) : u[i] = x
      BY <1>3, MembersOf
    <2>2. k = 0 => ~\E i \in 1..k : TRUE
      OBVIOUS
    <2> QED
      BY <1>3, <1>6, <2>1, <2>2
  <1>10. b.events \cup b.carried = ToSet(u) \cup q.cancelled[c]
    BY <1>5, <1>9
  <1>11. Refilled(q, r, c, v, {}, q.withheld[c], q.shed)
    BY <1>3, <1>8 DEF Refilled, EventQueueType, InFlight
  <1>12. Holds(r, c) = ToSet(v) \cup q.withheld[c] /\ Pending(r, c) = ToSet(v) /\ r.shed = q.shed
    BY <1>11 DEF Refilled, Holds, Pending
  <1>13. Balanced(q, r, c, {}, b.events \cup b.carried)
    BY <1>3, <1>10, <1>11, <1>12 DEF Balanced, Refilled, Holds
  <1>14. ASSUME Once(q, c)
         PROVE  Tidy(q, r, c, b.events \cup b.carried) /\ b.events \cap b.carried = {}
    <2>1. Distinct(v) /\ ToSet(u) \cap ToSet(v) = {}
      BY <1>3, <1>14 DEF Once
    <2>2. Once(r, c)
      BY <1>3, <1>11, <1>12, <1>14, <2>1 DEF Once, Refilled
    <2>3. Holds(r, c) \cap (b.events \cup b.carried) = {}
      BY <1>3, <1>10, <1>12, <1>14, <2>1 DEF Once
    <2>4. b.events \cap b.carried = {}
      BY <1>3, <1>5, <1>14 DEF Once
    <2> QED
      BY <1>12, <2>2, <2>3, <2>4 DEF Tidy
  <1>15. \A d \in Channels : r.withheld[d] = q.withheld[d]
    BY <1>11 DEF Refilled
  <1>16. /\ b.events \in SUBSET Event /\ b.carried \in SUBSET Event
         /\ b.events \cup b.carried \subseteq Holds(q, c)
    BY <1>1, <1>3, <1>5, <1>9, <1>10 DEF Holds
  <1> QED
    BY <1>5, <1>13, <1>14, <1>15, <1>16 DEF b, r

\* drain_channel lets everything out.
LEMMA DrainBalance ==
    ASSUME NEW q \in EventQueueType(Event), NEW c \in Channels
    PROVE  LET r == DrainChannel(q, c)
           IN  /\ Balanced(q, r, c, {}, Holds(q, c))
               /\ Tidy(q, r, c, Holds(q, c))
               /\ Holds(r, c) = {}
  <1> DEFINE r == DrainChannel(q, c)
  <1>1. 0 \in 0..MaxRetries
    BY CapsAssumption
  <1>2. Refilled(q, r, c, <<>>, {}, {}, q.shed)
    <2>1. <<>> \in Seq(Event) /\ "none" \in Throttle /\ {} \in SUBSET Event
      BY DEF Throttle
    <2>2. r \in EventQueueType(Event)
      BY <1>1, <2>1 DEF DrainChannel, EventQueueType
    <2> QED
      BY <2>2 DEF Refilled, DrainChannel, EventQueueType
  <1> HIDE DEF r
  <1>3. Pending(r, c) = {} /\ Distinct(r.queues[c])
    BY <1>2 DEF Refilled, Pending, ToSet, Distinct
  <1>4. Holds(r, c) = {} /\ Once(r, c)
    BY <1>2, <1>3 DEF Refilled, Holds, Once
  <1> QED
    BY <1>2, <1>4 DEF Refilled, Balanced, Tidy, r

\* mark_native_steer_pending moves the event from the queue to the side table.
LEMMA WithholdBalance ==
    ASSUME NEW q \in EventQueueType(Event), NEW c \in Channels, NEW e \in Event
    PROVE  LET r == MarkNativeSteerPending(q, c, e)
           IN  /\ Balanced(q, r, c, {}, {})
               /\ Once(q, c) => Tidy(q, r, c, {})
               /\ \A d \in Channels : q.withheld[d] \subseteq r.withheld[d]
               /\ e \in Pending(q, c) => e \in r.withheld[c]
  <1> DEFINE r == MarkNativeSteerPending(q, c, e)
             u == RemoveFirst(q.queues[c], e)
  <1>1. CASE e \notin Pending(q, c)
    <2>1. r = q
      BY <1>1 DEF MarkNativeSteerPending
    <2>2. SameContents(q, r)
      BY <2>1 DEF SameContents
    <2> HIDE DEF r
    <2>3. Balanced(q, r, c, {}, {}) /\ (Once(q, c) => Tidy(q, r, c, {}))
      BY <2>2, SelfBalance
    <2> QED
      BY <1>1, <2>1, <2>3 DEF r
  <1>2. CASE e \in Pending(q, c)
    <2>1. r = [q EXCEPT !.queues[c] = u, !.withheld[c] = @ \cup {e}]
      BY <1>2 DEF MarkNativeSteerPending
    <2>2. u \in Seq(Event) /\ LessOne(q.queues[c], u, e)
      BY QueueTypes, RemoveFirstTakes
    <2> HIDE DEF r, u
    <2>3. Refilled(q, r, c, u, q.cancelled[c], q.withheld[c] \cup {e}, q.shed)
      BY <2>1, <2>2 DEF Refilled, EventQueueType
    <2>4. Pending(r, c) = ToSet(u) /\ r.shed = q.shed
      BY <2>3 DEF Refilled, Pending
    <2>5. Balanced(q, r, c, {}, {})
      BY <1>2, <2>2, <2>3, <2>4 DEF Refilled, Balanced, Holds, LessOne, Pending
    <2>6. Once(q, c) => Tidy(q, r, c, {})
      BY <1>2, <2>2, <2>3, <2>4 DEF Refilled, Tidy, Once, LessOne, Pending
    <2>7. (\A d \in Channels : q.withheld[d] \subseteq r.withheld[d]) /\ e \in r.withheld[c]
      BY <2>3 DEF Refilled
    <2> QED
      BY <2>5, <2>6, <2>7 DEF r
  <1> QED
    BY <1>1, <1>2

\* remove_event takes the event out of the queue and the side table.
LEMMA RemoveBalance ==
    ASSUME NEW q \in EventQueueType(Event), NEW c \in Channels, NEW e \in Event
    PROVE  LET r == RemoveEvent(q, c, e)
           IN  /\ Balanced(q, r, c, {}, {e})
               /\ Once(q, c) /\ e \notin q.cancelled[c] => Tidy(q, r, c, {e})
               /\ \A d \in Channels : r.withheld[d] =
                     IF d = c THEN q.withheld[d] \ {e} ELSE q.withheld[d]
  <1> DEFINE r == RemoveEvent(q, c, e)
             u == Retain(q.queues[c], e)
  <1>1. r = [q EXCEPT !.queues[c] = u, !.withheld[c] = @ \ {e}]
    BY DEF RemoveEvent
  <1>2. u \in Seq(Event) /\ LessOne(q.queues[c], u, e) /\ e \notin ToSet(u)
    BY QueueTypes, RetainTakes
  <1> HIDE DEF r, u
  <1>3. Refilled(q, r, c, u, q.cancelled[c], q.withheld[c] \ {e}, q.shed)
    BY <1>1, <1>2 DEF Refilled, EventQueueType
  <1>4. Pending(r, c) = ToSet(u) /\ r.shed = q.shed
    BY <1>3 DEF Refilled, Pending
  <1>5. Balanced(q, r, c, {}, {e})
    BY <1>2, <1>3, <1>4 DEF Refilled, Balanced, Holds, LessOne, Pending
  <1>6. Once(q, c) /\ e \notin q.cancelled[c] => Tidy(q, r, c, {e})
    BY <1>2, <1>3, <1>4 DEF Refilled, Tidy, Once, Holds, LessOne, Pending
  <1>7. \A d \in Channels : r.withheld[d] = IF d = c THEN q.withheld[d] \ {e} ELSE q.withheld[d]
    BY <1>3 DEF Refilled
  <1> QED
    BY <1>5, <1>6, <1>7 DEF r

\* release_native_steer moves the event from the side table to the front of the queue.
LEMMA ReleaseBalance ==
    ASSUME NEW q \in EventQueueType(Event), NEW c \in Channels, NEW e \in Event
    PROVE  LET r == ReleaseNativeSteer(q, c, e)
           IN  /\ Balanced(q, r, c, {}, {})
               /\ Once(q, c) => Tidy(q, r, c, {})
               /\ \A d \in Channels : r.withheld[d] =
                     IF d = c THEN q.withheld[d] \ {e} ELSE q.withheld[d]
  <1> DEFINE r == ReleaseNativeSteer(q, c, e)
             p == PushFront(q, c, {e})
  <1>1. CASE e \notin q.withheld[c]
    <2>1. r = q
      BY <1>1 DEF ReleaseNativeSteer
    <2>2. SameContents(q, r)
      BY <2>1 DEF SameContents
    <2> HIDE DEF r
    <2>3. Balanced(q, r, c, {}, {}) /\ (Once(q, c) => Tidy(q, r, c, {}))
      BY <2>2, SelfBalance
    <2> QED
      BY <1>1, <2>1, <2>3 DEF r
  <1>2. CASE e \in q.withheld[c]
    <2> DEFINE o == [q EXCEPT !.withheld[c] = @ \ {e}]
               x == PushFront(o, c, {e})
    <2>1. Refilled(q, o, c, q.queues[c], q.cancelled[c], q.withheld[c] \ {e}, q.shed)
      BY DEF Refilled, EventQueueType
    <2>2. r = x
      <3>1. o.queues = q.queues /\ o.shed = q.shed
        BY DEF EventQueueType
      <3>2. x = [o EXCEPT !.queues[c] = p.queues[c], !.shed = p.shed]
        BY <3>1 DEF PushFront, EventQueueType
      <3>3. r = [p EXCEPT !.withheld[c] = @ \ {e}]
        BY <1>2 DEF ReleaseNativeSteer
      <3>4. p = [q EXCEPT !.queues[c] = p.queues[c], !.shed = p.shed]
        BY DEF PushFront, EventQueueType
      <3> QED
        BY <3>2, <3>3, <3>4 DEF EventQueueType
    <2> HIDE DEF o
    <2>3. o \in EventQueueType(Event) /\ {e} \in SUBSET Event
      BY <2>1 DEF Refilled
    <2>4. /\ Balanced(o, x, c, {e}, {})
          /\ Once(o, c) /\ {e} \cap Holds(o, c) = {} => Tidy(o, x, c, {})
          /\ \A d \in Channels : x.withheld[d] = o.withheld[d]
      BY <2>3, PushFrontBalance
    <2> HIDE DEF x
    <2>5. Holds(q, c) = Holds(o, c) \cup {e} /\ o.shed = q.shed
      BY <1>2, <2>1 DEF Refilled, Holds, Pending
    <2>6. Balanced(q, x, c, {}, {})
      BY <2>1, <2>4, <2>5 DEF Balanced, Refilled
    <2>7. Once(q, c) => Once(o, c) /\ e \notin Holds(o, c)
      BY <1>2, <2>1 DEF Once, Holds, Refilled, Pending
    <2>8. Once(q, c) => Tidy(q, x, c, {})
      BY <2>4, <2>5, <2>7 DEF Tidy
    <2>9. \A d \in Channels : x.withheld[d] = IF d = c THEN q.withheld[d] \ {e} ELSE q.withheld[d]
      BY <2>1, <2>4 DEF Refilled
    <2> HIDE DEF r
    <2> QED
      BY <2>2, <2>6, <2>8, <2>9 DEF r
  <1> QED
    BY <1>1, <1>2

\* The expiry returns what is withheld from an overdue channel, and does nothing
\* where no channel is overdue.
LEMMA ExpireBalance ==
    ASSUME NEW q \in EventQueueType(Event)
    PROVE  LET r == Expire(q)
           IN  /\ r \in EventQueueType(Event)
               /\ \A c \in Channels : /\ Holds(r, c) \subseteq Holds(q, c)
                                       /\ Holds(q, c) \subseteq Holds(r, c) \cup r.shed
               /\ q.shed \subseteq r.shed
               /\ r.shed \subseteq q.shed \cup UNION {Holds(q, c) : c \in Channels}
               /\ (\A c \in Channels : q.in_flight[c] # "overdue") => r = q
  <1> DEFINE over == {c \in Channels : q.in_flight[c] = "overdue"}
             back == [c \in Channels |-> PushFront(q, c, q.withheld[c])]
             r == Expire(q)
  <1>1. r = [q EXCEPT !.in_flight = [c \in Channels |-> IF c \in over THEN "no" ELSE q.in_flight[c]],
                      !.queues = [c \in Channels |->
                                    IF c \in over THEN back[c].queues[c] ELSE q.queues[c]],
                      !.withheld = [c \in Channels |-> IF c \in over THEN {} ELSE q.withheld[c]],
                      !.shed = q.shed \cup UNION {back[c].shed : c \in over}]
    BY DEF Expire
  <1>2. ASSUME NEW c \in Channels
        PROVE  /\ Balanced(q, back[c], c, q.withheld[c], {})
               /\ q.withheld[c] \cup Pending(q, c) \subseteq Pending(back[c], c) \cup back[c].shed
               /\ Pending(back[c], c) \subseteq q.withheld[c] \cup Pending(q, c)
    <2>1. q.withheld[c] \in SUBSET Event
      BY QueueTypes
    <2>2. back[c] = PushFront(q, c, q.withheld[c])
      OBVIOUS
    <2> QED
      BY <2>1, <2>2, PushFrontBalance
  <1> HIDE DEF back, r
  <1>3. ASSUME NEW c \in Channels
        PROVE  /\ back[c].queues[c] \in Seq(Event) /\ back[c].shed \subseteq Event
               /\ q.shed \subseteq back[c].shed
               /\ back[c].shed \subseteq q.shed \cup Holds(q, c)
    <2>1. back[c] \in EventQueueType(Event)
      BY <1>2 DEF Balanced
    <2>2. back[c].queues[c] \in Seq(Event) /\ back[c].shed \subseteq Event
      BY <2>1, QueueTypes
    <2> QED
      BY <1>2, <2>2 DEF Balanced, Holds
  <1>4. r \in EventQueueType(Event)
    <2>1. [c \in Channels |-> IF c \in over THEN back[c].queues[c] ELSE q.queues[c]]
             \in [Channels -> Seq(Event)]
      BY <1>3 DEF EventQueueType
    <2>2. q.shed \cup UNION {back[c].shed : c \in over} \subseteq Event
      BY <1>3 DEF EventQueueType
    <2>3. /\ [c \in Channels |-> IF c \in over THEN "no" ELSE q.in_flight[c]] \in [Channels -> InFlight]
          /\ [c \in Channels |-> IF c \in over THEN {} ELSE q.withheld[c]]
                \in [Channels -> SUBSET Event]
      BY DEF EventQueueType, InFlight
    <2> DEFINE a == [c \in Channels |-> IF c \in over THEN "no" ELSE q.in_flight[c]]
               b == [c \in Channels |-> IF c \in over THEN back[c].queues[c] ELSE q.queues[c]]
               w == [c \in Channels |-> IF c \in over THEN {} ELSE q.withheld[c]]
               h == q.shed \cup UNION {back[c].shed : c \in over}
    <2>4. r = [q EXCEPT !.in_flight = a, !.queues = b, !.withheld = w, !.shed = h]
      BY <1>1
    <2> HIDE DEF a, b, w, h
    <2>5. /\ a \in [Channels -> InFlight] /\ b \in [Channels -> Seq(Event)]
          /\ w \in [Channels -> SUBSET Event] /\ h \subseteq Event
      BY <2>1, <2>2, <2>3 DEF a, b, w, h
    <2> QED
      BY <2>4, <2>5 DEF EventQueueType
  <1>5. /\ r.shed = q.shed \cup UNION {back[c].shed : c \in over}
        /\ \A c \in Channels :
              /\ r.cancelled[c] = q.cancelled[c]
              /\ r.queues[c] = IF c \in over THEN back[c].queues[c] ELSE q.queues[c]
              /\ r.withheld[c] = IF c \in over THEN {} ELSE q.withheld[c]
    BY <1>1 DEF EventQueueType
  <1>6. ASSUME NEW c \in Channels
        PROVE  Holds(r, c) \subseteq Holds(q, c) /\ Holds(q, c) \subseteq Holds(r, c) \cup r.shed
    <2>1. CASE c \in over
      <3>1. Pending(r, c) = Pending(back[c], c) /\ r.withheld[c] = {} /\ back[c].shed \subseteq r.shed
        BY <1>5, <2>1 DEF Pending
      <3> QED
        BY <1>2, <1>5, <3>1 DEF Holds
    <2>2. CASE c \notin over
      BY <1>5, <2>2 DEF Holds, Pending
    <2> QED
      BY <2>1, <2>2
  <1>7. r.shed \subseteq q.shed \cup UNION {Holds(q, c) : c \in Channels}
    BY <1>3, <1>5
  <1>8. ASSUME \A c \in Channels : q.in_flight[c] # "overdue"
        PROVE  r = q
    <2>1. over = {}
      BY <1>8
    <2>2. UNION {back[c].shed : c \in over} = {}
      BY <2>1
    <2>3. /\ [c \in Channels |-> IF c \in over THEN "no" ELSE q.in_flight[c]] = q.in_flight
          /\ [c \in Channels |-> IF c \in over THEN back[c].queues[c] ELSE q.queues[c]] = q.queues
          /\ [c \in Channels |-> IF c \in over THEN {} ELSE q.withheld[c]] = q.withheld
      BY <2>1 DEF EventQueueType
    <2> HIDE DEF over
    <2>4. r = [q EXCEPT !.in_flight = q.in_flight, !.queues = q.queues,
                        !.withheld = q.withheld, !.shed = q.shed]
      BY <1>1, <2>2, <2>3
    <2> QED
      BY <2>4 DEF EventQueueType
  <1> QED
    BY <1>4, <1>5, <1>6, <1>7, <1>8 DEF r

-----------------------------------------------------------------------------
(* The account of a step.                                                   *)

\* q is the queue, or the queue after the expiry.
Expired(q) ==
    /\ q \in EventQueueType(Event)
    /\ \A c \in Channels : /\ Holds(q, c) \subseteq Holds(queue, c)
                            /\ Holds(queue, c) \subseteq Holds(q, c) \cup q.shed
    /\ queue.shed \subseteq q.shed
    /\ q.shed \subseteq queue.shed \cup UNION {Holds(queue, c) : c \in Channels}
    /\ late = {} => SameContents(queue, q)

\* Channel c and agent b trade: the channel takes `in` and lets `out` go, new events
\* arrive, and `gone` meets its fate.
Accounts(q, c, b, in, out, fresh, gone) ==
    /\ Expired(q)
    /\ Balanced(q, queue', c, in, out)
    /\ in = {} \/ out = {}
    /\ \A a \in Agents \ {b} : TurnHolds(a)' = TurnHolds(a)
    /\ in \cup TurnHolds(b)' \subseteq TurnHolds(b) \cup (out \cap Holds(q, c)) \cup fresh
    /\ TurnHolds(b) \cup out \cup fresh \subseteq in \cup TurnHolds(b)' \cup gone
    /\ AllPast' = AllPast \cup gone
    /\ 1..born' = 1..born \cup fresh
    /\ fresh \cap 1..born = {}
    /\ gone \subseteq 1..born'

\* The trade leaves nothing in two places.
Clean(q, c, b, in, out, gone) ==
    /\ Tidy(q, queue', c, out)
    /\ in \cap TurnHolds(b)' = {}
    /\ gone \cap (Holds(queue', c) \cup TurnHolds(b)') = {}
    /\ gone \cap Held \subseteq TurnHolds(b) \cup Holds(queue, c)
    /\ (queue'.shed \ q.shed) \cap TurnHolds(b)' = {}

\* No turn takes or loses an event, nothing arrives and nothing is settled.
Unmoved ==
    /\ Expired(queue')
    /\ \A a \in Agents : TurnHolds(a)' = TurnHolds(a)
    /\ AllPast' = AllPast
    /\ born' = born

\* An event is held in some channel or in some turn.
LEMMA HeldSomewhere ==
    \A x : x \in Held <=> \/ \E c \in Channels : x \in Holds(queue, c)
                         \/ \E a \in Agents : x \in TurnHolds(a)
  BY DEF Held, QueueHolds, Holds

\* The same in the next state.
LEMMA HeldSomewhereNext ==
    \A x : x \in Held' <=> \/ \E c \in Channels : x \in Holds(queue', c)
                          \/ \E a \in Agents : x \in TurnHolds(a)'
  BY DEF Held, QueueHolds, Holds

\* A slot that is no agent holds nothing.
LEMMA OnlyAgentsHold ==
    ASSUME NEW b, b \notin Agents
    PROVE  TurnHolds(b) = {} /\ TurnHolds(b)' = {}
  BY DEF TurnHolds, Checked

\* The queue itself is such a q.
LEMMA QueueIsExpired ==
    ASSUME queue \in EventQueueType(Event)
    PROVE  Expired(queue)
  BY DEF Expired, SameContents

\* So is the queue after the expiry, and after the maintenance before it.
LEMMA ExpiryIsExpired ==
    ASSUME NEW p, queue \in EventQueueType(Event), SameContents(queue, p),
           \A c \in Channels : p.in_flight[c] = "overdue" => c \in late
    PROVE  Expired(Expire(p))
  <1> DEFINE r == Expire(p)
  <1>1. p \in EventQueueType(Event) /\ p.shed = queue.shed
    BY DEF SameContents
  <1>2. \A c \in Channels : Holds(p, c) = Holds(queue, c)
    BY DEF SameContents, Holds, Pending
  <1>3. /\ r \in EventQueueType(Event)
        /\ \A c \in Channels : /\ Holds(r, c) \subseteq Holds(p, c)
                                /\ Holds(p, c) \subseteq Holds(r, c) \cup r.shed
        /\ p.shed \subseteq r.shed
        /\ r.shed \subseteq p.shed \cup UNION {Holds(p, c) : c \in Channels}
        /\ (\A c \in Channels : p.in_flight[c] # "overdue") => r = p
    BY <1>1, ExpireBalance
  <1>4. UNION {Holds(p, c) : c \in Channels} = UNION {Holds(queue, c) : c \in Channels}
    BY <1>2
  <1>5. late = {} => SameContents(queue, r)
    BY <1>3
  <1> HIDE DEF r
  <1> QED
    BY <1>1, <1>2, <1>3, <1>4, <1>5 DEF Expired, r

\* Until a turn is late, the contents of q are the queue's.
LEMMA ExpiredIsSame ==
    ASSUME NEW q, Expired(q), late = {}
    PROVE  /\ q.shed = queue.shed
           /\ \A c \in Channels : /\ Holds(q, c) = Holds(queue, c)
                                  /\ Once(queue, c) <=> Once(q, c)
                                  /\ q.withheld[c] = queue.withheld[c]
                                  /\ q.cancelled[c] = queue.cancelled[c]
                                  /\ Pending(q, c) = Pending(queue, c)
  BY DEF Expired, SameContents, Holds, Once, Pending

\* Whatever was held is held still, or shed, or settled; nothing appears from nowhere.
LEMMA AccountsKeepAll ==
    ASSUME NothingForgotten, HeldArrived, NEW q, NEW c \in Channels, NEW b, NEW in, NEW out,
           NEW fresh, NEW gone, Accounts(q, c, b, in, out, fresh, gone)
    PROVE  NothingForgotten' /\ HeldArrived' /\ Held' \subseteq Held \cup fresh
  <1>1. /\ \A d \in Channels \ {c} : Holds(queue', d) = Holds(q, d)
        /\ Holds(queue', c) \subseteq Holds(q, c) \cup in
        /\ Holds(q, c) \cup in \subseteq Holds(queue', c) \cup out \cup queue'.shed
        /\ q.shed \subseteq queue'.shed
        /\ queue'.shed \subseteq q.shed \cup Holds(q, c) \cup in
    BY DEF Accounts, Balanced, Holds, Pending
  <1>2. /\ \A d \in Channels : /\ Holds(q, d) \subseteq Holds(queue, d)
                                /\ Holds(queue, d) \subseteq Holds(q, d) \cup q.shed
        /\ queue.shed \subseteq q.shed
        /\ q.shed \subseteq queue.shed \cup UNION {Holds(queue, d) : d \in Channels}
    BY DEF Accounts, Expired
  <1>3. \A d \in Channels : Holds(queue, d) \subseteq Held
    BY HeldSomewhere
  <1>4. \A a \in Agents \cup {b} : TurnHolds(a) \subseteq Held
    BY HeldSomewhere, OnlyAgentsHold
  <1>5. q.shed \subseteq queue.shed \cup Held
    BY <1>2, <1>3
  <1>6. in \cup TurnHolds(b)' \subseteq Held \cup fresh
    BY <1>2, <1>3, <1>4 DEF Accounts
  <1>7. Held' \subseteq Held \cup fresh
    <2>1. ASSUME NEW x, NEW d \in Channels, x \in Holds(queue', d) PROVE x \in Held \cup fresh
      BY <1>1, <1>2, <1>3, <1>6, <2>1
    <2>2. ASSUME NEW x, NEW a \in Agents, x \in TurnHolds(a)' PROVE x \in Held \cup fresh
      BY <1>4, <1>6, <2>2 DEF Accounts
    <2> QED
      BY <2>1, <2>2, HeldSomewhereNext
  <1>8. queue'.shed \subseteq queue.shed \cup Held \cup fresh
    BY <1>1, <1>2, <1>3, <1>5, <1>6
  <1>9. HeldArrived'
    <2>1. Held' \cup queue'.shed \cup AllPast' \subseteq 1..born'
      BY <1>7, <1>8 DEF Accounts, HeldArrived
    <2> QED
      BY <2>1 DEF HeldArrived
  <1> DEFINE after == Held' \cup queue'.shed \cup AllPast'
  <1>10. Holds(queue', c) \cup queue'.shed \cup gone \cup TurnHolds(b)' \subseteq after
    <2>1. TurnHolds(b)' \subseteq Held'
      BY HeldSomewhereNext, OnlyAgentsHold
    <2>2. Holds(queue', c) \subseteq Held'
      BY HeldSomewhereNext
    <2> QED
      BY <2>1, <2>2 DEF Accounts
  <1>11. in \cup out \cup Holds(q, c) \cup TurnHolds(b) \cup fresh \subseteq after
    <2>1. in \subseteq Holds(queue', c) \cup out \cup queue'.shed
      BY <1>1
    <2>2. out \cup TurnHolds(b) \cup fresh \subseteq in \cup TurnHolds(b)' \cup gone
      BY DEF Accounts
    <2>3. in = {} \/ out = {}
      BY DEF Accounts
    <2> QED
      BY <1>1, <1>10, <2>1, <2>2, <2>3
  <1>12. Held \cup queue.shed \cup AllPast \cup fresh \subseteq after
    <2>1. ASSUME NEW x, NEW d \in Channels, x \in Holds(queue, d) PROVE x \in after
      <3>1. CASE x \in q.shed
        BY <1>1, <1>10, <3>1
      <3>2. CASE x \in Holds(q, d) /\ d = c
        BY <1>11, <3>2
      <3>3. CASE x \in Holds(q, d) /\ d # c
        <4>1. x \in Holds(queue', d)
          BY <1>1, <3>3
        <4> QED
          BY <4>1, HeldSomewhereNext
      <3> QED
        BY <1>2, <2>1, <3>1, <3>2, <3>3
    <2>2. ASSUME NEW x, NEW a \in Agents, x \in TurnHolds(a) PROVE x \in after
      <3>1. CASE a = b
        BY <1>11, <2>2, <3>1
      <3>2. CASE a # b
        <4>1. x \in TurnHolds(a)'
          BY <2>2, <3>2 DEF Accounts
        <4> QED
          BY <4>1, HeldSomewhereNext
      <3> QED
        BY <3>1, <3>2
    <2>3. queue.shed \cup AllPast \cup fresh \subseteq after
      BY <1>1, <1>2, <1>10, <1>11 DEF Accounts
    <2>4. Held \subseteq after
      BY <2>1, <2>2, HeldSomewhere
    <2> QED
      BY <2>3, <2>4
  <1>13. NothingForgotten'
    <2>1. 1..born \subseteq Held \cup queue.shed \cup AllPast
      BY DEF NothingForgotten, AllPast
    <2>2. 1..born' \subseteq after
      BY <1>12, <2>1 DEF Accounts
    <2> QED
      BY <2>2 DEF NothingForgotten, AllPast
  <1> QED
    BY <1>7, <1>9, <1>13

\* A clean trade keeps everything in one place.
LEMMA CleanKeepsApart ==
    ASSUME HeldArrived, NEW q, NEW c \in Channels, NEW b, NEW in, NEW out, NEW fresh, NEW gone,
           Accounts(q, c, b, in, out, fresh, gone), late = {}, Apart, Over,
           Clean(q, c, b, in, out, gone)
    PROVE  Apart' /\ Over'
  <1>1. /\ \A d \in Channels : Holds(q, d) = Holds(queue, d) /\ (Once(queue, d) <=> Once(q, d))
        /\ q.shed = queue.shed
    BY ExpiredIsSame DEF Accounts
  <1>2. \A d \in Channels \ {c} : /\ Holds(queue', d) = Holds(queue, d)
                                  /\ Once(queue, d) <=> Once(queue', d)
    <2>1. \A d \in Channels \ {c} : /\ Holds(queue', d) = Holds(q, d)
                                    /\ Once(q, d) <=> Once(queue', d)
      BY DEF Accounts, Balanced, Holds, Once, Pending
    <2> QED
      BY <1>1, <2>1
  <1>3. /\ Holds(queue', c) \subseteq Holds(queue, c) \cup in
        /\ Once(queue', c) /\ Holds(queue', c) \cap out = {}
        /\ Holds(queue', c) \cap (queue'.shed \ queue.shed) = {}
        /\ queue'.shed \subseteq queue.shed \cup Holds(queue, c) \cup in
    BY <1>1 DEF Accounts, Balanced, Clean, Tidy
  <1>4. /\ in \cup TurnHolds(b)' \subseteq TurnHolds(b) \cup (out \cap Holds(queue, c)) \cup fresh
        /\ \A a \in Agents \ {b} : TurnHolds(a)' = TurnHolds(a)
        /\ in \cap TurnHolds(b)' = {}
    BY <1>1 DEF Accounts, Clean
  <1>5. fresh \cap (Held \cup queue.shed \cup AllPast) = {}
    BY DEF Accounts, HeldArrived
  <1>6. /\ \A d \in Channels : Holds(queue, d) \subseteq Held
        /\ \A a \in Agents : TurnHolds(a) \subseteq Held
        /\ TurnHolds(b) \subseteq Held
        /\ b \notin Agents => TurnHolds(b) = {} /\ TurnHolds(b)' = {}
    BY HeldSomewhere, OnlyAgentsHold
  <1> DEFINE zone == Holds(queue, c) \cup TurnHolds(b) \cup fresh
  <1>7. Holds(queue', c) \cup TurnHolds(b)' \cup (queue'.shed \ queue.shed) \subseteq zone
    BY <1>3, <1>4
  <1>8. \A d \in Channels \ {c} : Holds(queue, d) \cap zone = {}
    BY <1>5, <1>6 DEF Apart
  <1>9. \A a \in Agents \ {b} : TurnHolds(a) \cap zone = {}
    BY <1>5, <1>6 DEF Apart
  <1>10. Holds(queue', c) \cap TurnHolds(b)' = {}
    <2>1. Holds(queue, c) \cap TurnHolds(b) = {}
      BY <1>6 DEF Apart
    <2>2. ASSUME NEW x \in Holds(queue', c), x \in TurnHolds(b)' PROVE FALSE
      <3>1. x \in Holds(queue, c)
        BY <1>3, <1>4, <2>2
      <3>2. x \notin TurnHolds(b) /\ x \notin out /\ x \notin fresh
        BY <1>3, <1>5, <1>6, <2>1, <3>1
      <3> QED
        BY <1>4, <2>2, <3>2
    <2> QED
      BY <2>2
  <1> HIDE DEF zone
  <1>11. \A d \in Channels : Once(queue', d)
    BY <1>2, <1>3 DEF Apart
  <1>12. ASSUME NEW d \in Channels, NEW f \in Channels, d # f
         PROVE  Holds(queue', d) \cap Holds(queue', f) = {}
    <2>1. CASE d = c
      BY <1>2, <1>7, <1>8, <1>12, <2>1
    <2>2. CASE f = c
      BY <1>2, <1>7, <1>8, <1>12, <2>2
    <2>3. CASE d # c /\ f # c
      BY <1>2, <1>12, <2>3 DEF Apart
    <2> QED
      BY <2>1, <2>2, <2>3
  <1>13. ASSUME NEW a \in Agents, NEW f \in Agents, a # f
         PROVE  TurnHolds(a)' \cap TurnHolds(f)' = {}
    <2>1. CASE a = b
      BY <1>4, <1>7, <1>9, <1>13, <2>1
    <2>2. CASE f = b
      BY <1>4, <1>7, <1>9, <1>13, <2>2
    <2>3. CASE a # b /\ f # b
      BY <1>4, <1>13, <2>3 DEF Apart
    <2> QED
      BY <2>1, <2>2, <2>3
  <1>14. ASSUME NEW d \in Channels, NEW a \in Agents
         PROVE  Holds(queue', d) \cap TurnHolds(a)' = {}
    <2>1. CASE d = c /\ a = b
      BY <1>10, <2>1
    <2>2. CASE d = c /\ a # b
      BY <1>4, <1>7, <1>9, <2>2
    <2>3. CASE d # c /\ a = b
      BY <1>2, <1>7, <1>8, <2>3
    <2>4. CASE d # c /\ a # b
      BY <1>2, <1>4, <2>4 DEF Apart
    <2> QED
      BY <2>1, <2>2, <2>3, <2>4
  <1>15. Apart'
    BY <1>11, <1>12, <1>13, <1>14 DEF Apart
  <1> DEFINE new == (queue'.shed \ queue.shed) \cup gone
  <1>16. /\ new \cap (Holds(queue', c) \cup TurnHolds(b)') = {}
         /\ new \cap Held \subseteq zone
         /\ queue'.shed \cup AllPast' \subseteq queue.shed \cup AllPast \cup new
    <2>1. gone \cap Held \subseteq zone
      BY DEF Clean, zone
    <2> QED
      BY <1>1, <1>3, <1>7, <2>1 DEF Accounts, Clean
  <1> HIDE DEF new
  <1>17. ASSUME NEW d \in Channels
         PROVE  Holds(queue', d) \cap (queue.shed \cup AllPast \cup new) = {}
    <2>1. CASE d = c
      <3>1. zone \cap (queue.shed \cup AllPast) = {}
        BY <1>5, <1>6 DEF zone, Over
      <3> QED
        BY <1>7, <1>16, <2>1, <3>1
    <2>2. CASE d # c
      BY <1>2, <1>6, <1>8, <1>16, <2>2 DEF Over
    <2> QED
      BY <2>1, <2>2
  <1>18. ASSUME NEW a \in Agents
         PROVE  TurnHolds(a)' \cap (queue.shed \cup AllPast \cup new) = {}
    <2>1. CASE a = b
      <3>1. zone \cap (queue.shed \cup AllPast) = {}
        BY <1>5, <1>6 DEF zone, Over
      <3> QED
        BY <1>7, <1>16, <2>1, <3>1
    <2>2. CASE a # b
      BY <1>4, <1>6, <1>9, <1>16, <2>2 DEF Over
    <2> QED
      BY <2>1, <2>2
  <1>19. Held' \cap (queue'.shed \cup AllPast') = {}
    BY <1>16, <1>17, <1>18, HeldSomewhereNext
  <1> QED
    BY <1>15, <1>19 DEF Over

\* A step that moves no event keeps all of it.
LEMMA UnmovedKeepsAll ==
    ASSUME NothingForgotten, HeldArrived, Unmoved
    PROVE  /\ NothingForgotten' /\ HeldArrived' /\ Held' \subseteq Held
           /\ late = {} /\ Apart /\ Over => Apart' /\ Over'
  <1>1. /\ \A d \in Channels : /\ Holds(queue', d) \subseteq Holds(queue, d)
                                /\ Holds(queue, d) \subseteq Holds(queue', d) \cup queue'.shed
        /\ queue.shed \subseteq queue'.shed
        /\ queue'.shed \subseteq queue.shed \cup UNION {Holds(queue, d) : d \in Channels}
    BY DEF Unmoved, Expired
  <1>2. \A d \in Channels : Holds(queue, d) \subseteq Held
    BY HeldSomewhere
  <1>3. queue'.shed \subseteq queue.shed \cup Held
    BY <1>1, <1>2
  <1>4. \A a \in Agents : TurnHolds(a)' = TurnHolds(a)
    BY DEF Unmoved
  <1>5. Held' \subseteq Held
    BY <1>1, <1>4, HeldSomewhere, HeldSomewhereNext
  <1>6. Held \subseteq Held' \cup queue'.shed
    BY <1>1, <1>4, HeldSomewhere, HeldSomewhereNext
  <1>7. HeldArrived'
    <2>1. Held' \cup queue'.shed \cup AllPast' \subseteq 1..born'
      BY <1>3, <1>5 DEF HeldArrived, Unmoved
    <2> QED
      BY <2>1 DEF HeldArrived
  <1>8. NothingForgotten'
    <2>1. 1..born \subseteq Held \cup queue.shed \cup AllPast
      BY DEF NothingForgotten, AllPast
    <2>2. 1..born' \subseteq Held' \cup queue'.shed \cup AllPast'
      BY <1>1, <1>6, <2>1 DEF Unmoved
    <2> QED
      BY <2>2 DEF NothingForgotten, AllPast
  <1>9. ASSUME late = {}, Apart, Over
        PROVE  Apart' /\ Over'
    <2>1. /\ queue'.shed = queue.shed
          /\ \A c \in Channels : Holds(queue', c) = Holds(queue, c) /\ (Once(queue, c) <=> Once(queue', c))
      BY <1>9, ExpiredIsSame DEF Unmoved
    <2>2. Apart'
      BY <1>4, <1>9, <2>1 DEF Apart
    <2>3. Held' \cap (queue'.shed \cup AllPast') = {}
      BY <1>5, <1>9, <2>1 DEF Over, Unmoved
    <2> QED
      BY <2>2, <2>3 DEF Over
  <1> QED
    BY <1>5, <1>7, <1>8, <1>9

-----------------------------------------------------------------------------
(* What a step keeps.                                                       *)

\* No steer is offered and no answer comes in.
SteersFewer ==
    /\ \A a \in Agents : /\ turn'[a].steers \subseteq turn[a].steers
                         /\ turn'[a].steers # {} => turn'[a].ch = turn[a].ch
    /\ acks' \subseteq acks
    /\ 1..born \subseteq 1..born'

\* What is offered and answered stays in order, and nothing new is pledged.
SteersKept ==
    /\ SteersArrived' /\ OfferedOnce'
    /\ \A ch, e : Pledged(ch, e)' => Pledged(ch, e)

\* The events are kept, but for those that are fresh.
EventsKept(fresh) ==
    /\ NothingForgotten' /\ HeldArrived' /\ Held' \subseteq Held \cup fresh
    /\ fresh \cap 1..born = {}
    /\ late = {} /\ Apart /\ Over => Apart' /\ Over'

\* Steers that only go away stay in order.
LEMMA FewerSteers ==
    ASSUME SteersFewer, SteersArrived, OfferedOnce
    PROVE  SteersKept
  <1>1. /\ \A a \in Agents : turn'[a].steers \subseteq turn[a].steers
        /\ acks' \subseteq acks
        /\ 1..born \subseteq 1..born'
    BY DEF SteersFewer
  <1>2. SteersArrived'
    BY <1>1 DEF SteersArrived
  <1>3. OfferedOnce'
    BY <1>1 DEF OfferedOnce
  <1>4. ASSUME NEW ch, NEW e, Pledged(ch, e)'
        PROVE  Pledged(ch, e)
    BY <1>1, <1>4 DEF Pledged, SteersFewer
  <1> QED
    BY <1>2, <1>3, <1>4 DEF SteersKept

\* A step that keeps the events and offers no steer keeps the invariant.
LEMMA StepKeeps ==
    ASSUME EventsInv, TypeInv', NEW fresh, EventsKept(fresh), late \subseteq late', SteersKept,
           late = {} => /\ TurnsDivide'
                        /\ \A ch \in Channels : \A e \in queue.withheld[ch] :
                              Pledged(ch, e)' /\ e \in Held' => e \in queue'.withheld[ch]
    PROVE  EventsInv'
  <1>1. SteersArrived' /\ OfferedOnce' /\ \A ch, e : Pledged(ch, e)' => Pledged(ch, e)
    BY DEF SteersKept
  <1>2. ASSUME late' = {}
        PROVE  Apart' /\ TurnsDivide' /\ Over' /\ Offered'
    <2>1. late = {} /\ Apart /\ Over /\ Offered /\ SteersArrived
      BY <1>2 DEF EventsInv
    <2>2. Apart' /\ Over' /\ TurnsDivide'
      BY <2>1 DEF EventsKept
    <2>3. ASSUME NEW ch \in Channels, NEW e \in Event, Pledged(ch, e)', e \in Held'
          PROVE  e \in queue'.withheld[ch]
      <3>1. Pledged(ch, e)
        BY <1>1, <2>3
      <3>2. e \in 1..born
        BY <2>1, <3>1 DEF Pledged, SteersArrived
      <3>3. e \in Held
        BY <2>3, <3>2 DEF EventsKept
      <3>4. e \in queue.withheld[ch]
        BY <2>1, <3>1, <3>3 DEF Offered
      <3> QED
        BY <2>1, <2>3, <3>4
    <2>4. Offered'
      BY <2>3 DEF Offered, Event
    <2> QED
      BY <2>2, <2>4
  <1> QED
    BY <1>1, <1>2 DEF EventsInv, EventsKept

\* So does one that moves no event.
LEMMA UnmovedStep ==
    ASSUME EventsInv, TypeInv', Unmoved, late \subseteq late', SteersKept,
           TurnsDivide => TurnsDivide'
    PROVE  EventsInv'
  <1>1. EventsKept({})
    <2>1. NothingForgotten /\ HeldArrived
      BY DEF EventsInv
    <2>2. /\ NothingForgotten' /\ HeldArrived' /\ Held' \subseteq Held
          /\ late = {} /\ Apart /\ Over => Apart' /\ Over'
      BY <2>1, UnmovedKeepsAll
    <2> QED
      BY <2>2 DEF EventsKept
  <1>2. ASSUME late = {}
        PROVE  TurnsDivide' /\ \A ch \in Channels : queue'.withheld[ch] = queue.withheld[ch]
    BY <1>2, ExpiredIsSame DEF EventsInv, Unmoved
  <1> QED
    BY <1>1, <1>2, StepKeeps

\* So does one that touches no turn either.
LEMMA QuietStep ==
    ASSUME EventsInv, TypeInv', Expired(queue'), UNCHANGED <<born, turn, acks, past>>,
           late \subseteq late'
    PROVE  EventsInv'
  <1>1. \A a : TurnHolds(a)' = TurnHolds(a)
    BY DEF TurnHolds, Checked
  <1>2. Unmoved
    BY <1>1 DEF Unmoved, AllPast
  <1>3. SteersKept
    BY FewerSteers DEF SteersFewer, EventsInv
  <1>4. TurnsDivide => TurnsDivide'
    BY DEF TurnsDivide
  <1> QED
    BY <1>2, <1>3, <1>4, UnmovedStep


-----------------------------------------------------------------------------
(* The steps that move no event.                                            *)

\* The turns keep their channels, events, steers and outcomes.
SameLoads ==
    /\ turn' \in [Agents -> Turn]
    /\ \A a \in Agents : /\ turn'[a].ch = turn[a].ch
                         /\ turn'[a].events = turn[a].events
                         /\ turn'[a].carried = turn[a].carried
                         /\ turn'[a].steers = turn[a].steers
                         /\ turn'[a].ended = turn[a].ended

\* A signal only uses up the turn's control channel.
LEMMA SignalLoads ==
    ASSUME turn \in [Agents -> Turn], NEW ch, NEW signal \in {"merge", "stop"},
           SignalInFlightTask(ch, signal)
    PROVE  SameLoads
  <1>1. CASE OnChannel(ch) = {}
    BY <1>1 DEF SignalInFlightTask, SameLoads
  <1>2. CASE OnChannel(ch) # {}
    <2>1. PICK a \in OnChannel(ch) : turn' = Signalled(a, signal)
      BY <1>2 DEF SignalInFlightTask
    <2>2. a \in Agents
      BY DEF OnChannel, Checked
    <2> DEFINE c == IF turn[a].control = "open" THEN signal ELSE turn[a].control
    <2>3. turn' = [turn EXCEPT ![a].control = c] /\ c \in {"open", "merge", "stop"}
      BY <2>1, <2>2 DEF Signalled, Turn
    <2> HIDE DEF c
    <2> QED
      BY <2>2, <2>3 DEF SameLoads, Turn
  <1> QED
    BY <1>1, <1>2

\* Such turns hold what they held.
LEMMA LoadsKeep ==
    ASSUME TurnShape, SameLoads
    PROVE  /\ TurnShape' /\ (TurnsDivide => TurnsDivide')
           /\ \A a \in Agents : TurnHolds(a)' = TurnHolds(a)
           /\ \A a \in Agents : turn'[a].steers = turn[a].steers /\ turn'[a].ch = turn[a].ch
  <1>1. TurnShape'
    BY DEF TurnShape, SameLoads, Running
  <1>2. TurnsDivide => TurnsDivide'
    BY DEF TurnsDivide, SameLoads
  <1>3. \A a \in Agents : TurnHolds(a)' = TurnHolds(a)
    BY DEF TurnHolds, Checked, SameLoads
  <1> QED
    BY <1>1, <1>2, <1>3 DEF SameLoads

\* No channel is overdue before a turn is late.
LEMMA OverdueLate ==
    ASSUME PoolInv
    PROVE  \A c \in Channels : queue.in_flight[c] = "overdue" => c \in late
  BY DEF PoolInv, OverdueIsLate

\* !cancel, !rotate and the observer's controls move no event.
LEMMA OwnerControlEvents ==
    ASSUME EventsInv, NEW ch, NEW signal \in {"merge", "stop"}, OwnerControl(ch, signal)
    PROVE  EventsInv'
  <1>1. TypeInv /\ SignalInFlightTask(ch, signal)
    BY DEF EventsInv, OwnerControl
  <1>2. SameLoads
    BY <1>1, SignalLoads DEF TypeInv, AcpType
  <1>3. /\ TurnShape' /\ (TurnsDivide => TurnsDivide')
        /\ \A a \in Agents : TurnHolds(a)' = TurnHolds(a)
        /\ \A a \in Agents : turn'[a].steers = turn[a].steers /\ turn'[a].ch = turn[a].ch
    BY <1>1, <1>2, LoadsKeep DEF TypeInv
  <1>4. TypeInv'
    BY <1>1, <1>2, <1>3 DEF TypeInv, AcpType, BelowThreshold, OwnerControl, SameLoads
  <1>5. Unmoved
    <2>1. queue' = queue /\ past' = past /\ born' = born
      BY DEF OwnerControl
    <2>2. Expired(queue')
      BY <1>1, <2>1, QueueIsExpired DEF TypeInv, AcpType
    <2> QED
      BY <1>3, <2>1, <2>2 DEF Unmoved, AllPast
  <1>6. SteersKept
    BY <1>3, FewerSteers DEF SteersFewer, OwnerControl, EventsInv
  <1>7. late \subseteq late'
    BY DEF OwnerControl
  <1> QED
    BY <1>3, <1>4, <1>5, <1>6, <1>7, UnmovedStep

\* Rejoining a channel and the clocks of the queue.
LEMMA ClockEvents ==
    ASSUME EventsInv, NEW ch \in Channels,
           MemberAdded(ch) \/ ThrottleElapses(ch) \/ DeadlinePasses(ch)
    PROVE  EventsInv'
  <1>1. TypeInv /\ queue \in EventQueueType(Event)
    BY DEF EventsInv, TypeInv, AcpType
  <1>2. SameContents(queue, queue')
    <2>1. CASE MemberAdded(ch)
      BY <1>1, <2>1 DEF MemberAdded, SameContents
    <2>2. CASE ThrottleElapses(ch)
      BY <1>1, <2>2, MarksHoldTheSame DEF ThrottleElapses
    <2>3. CASE DeadlinePasses(ch)
      BY <1>1, <2>3, MarksHoldTheSame DEF DeadlinePasses
    <2> QED
      BY <2>1, <2>2, <2>3
  <1>3. Expired(queue')
    BY <1>1, <1>2 DEF Expired, SameContents, Holds, Pending
  <1>4. /\ UNCHANGED <<born, turn, acks, past, mode, pool, idle, circuit, crashes, respawning, mail>>
        /\ late \subseteq late' /\ late' \subseteq Channels /\ removed' \subseteq Channels
        /\ loop' \in {"turning", "waiting", "joining", "dispatch", "exited"}
    BY <1>1 DEF MemberAdded, ThrottleElapses, DeadlinePasses, poolVars, TypeInv, AcpType
  <1>5. TypeInv'
    BY <1>1, <1>2, <1>4 DEF TypeInv, AcpType, BelowThreshold, TurnShape, Running, SameContents
  <1> QED
    BY <1>3, <1>4, <1>5, QuietStep

\* The types of the pool's own state.
PoolTyped ==
    /\ loop \in {"turning", "waiting", "joining", "dispatch", "exited"}
    /\ pool \in {"listening", "waking", "failed", "due", "ready"}
    /\ idle \subseteq Agents
    /\ circuit \in [Agents -> {"closed", "open", "cooled"}]
    /\ crashes \in [Agents -> 0..CrashThreshold]
    /\ respawning \subseteq Agents
    /\ mail \subseteq [agent : Agents, ok : BOOLEAN]
    /\ BelowThreshold

\* A step of the pool: the queue at most expires, and no turn changes.
LEMMA PoolStep ==
    ASSUME EventsInv, PoolTyped', Expired(queue'),
           UNCHANGED <<mode, born, removed, turn, acks, past, late>>
    PROVE  EventsInv'
  <1>1. TypeInv /\ queue' \in EventQueueType(Event)
    BY DEF EventsInv, Expired
  <1>2. TypeInv'
    BY <1>1 DEF TypeInv, AcpType, PoolTyped, TurnShape, Running
  <1> QED
    BY <1>2, QuietStep

\* dispatch_pending that finds nothing, and the start of a wake.
LEMMA ExpiryEvents ==
    ASSUME EventsInv, PoolInv, DispatchNothing \/ StartWake
    PROVE  EventsInv'
  <1>1. TypeInv /\ queue \in EventQueueType(Event)
    BY DEF EventsInv, TypeInv, AcpType
  <1>2. queue' = Expire(queue)
    BY DEF DispatchNothing, StartWake
  <1>3. Expired(queue')
    BY <1>1, <1>2, ExpiryIsExpired, OverdueLate DEF SameContents
  <1>4. PoolTyped'
    BY <1>1 DEF DispatchNothing, StartWake, PoolTyped, poolVars, TypeInv, AcpType, BelowThreshold
  <1>5. UNCHANGED <<mode, born, removed, turn, acks, past, late>>
    BY DEF DispatchNothing, StartWake, poolVars
  <1> QED
    BY <1>3, <1>4, <1>5, PoolStep

\* Respawns, wakes, the sleep of the pool, the breaker's clocks, an empty pass.
LEMMA SlotEvents ==
    ASSUME EventsInv,
           \/ \E a \in Agents : \/ \E ok \in BOOLEAN : RespawnEnds(a, ok)
                                \/ CollectRespawn(a)
                                \/ CooldownPasses(a)
                                \/ CrashWindowPasses(a)
           \/ \E started \in SUBSET Agents : WakeEnds(started)
           \/ WakeRetryDue \/ IdlePoolSleep \/ Wait \/ UNCHANGED vars
    PROVE  EventsInv'
  <1>1. TypeInv /\ queue \in EventQueueType(Event)
    BY DEF EventsInv, TypeInv, AcpType
  <1>2. PoolTyped
    BY <1>1 DEF PoolTyped, TypeInv, AcpType
  <1>3. PoolTyped' /\ UNCHANGED <<mode, born, queue, removed, turn, acks, past, late>>
    <2>1. ASSUME NEW a \in Agents, NEW ok \in BOOLEAN, RespawnEnds(a, ok)
          PROVE  PoolTyped' /\ UNCHANGED <<mode, born, queue, removed, turn, acks, past, late>>
      BY <1>2, <2>1 DEF RespawnEnds, PoolTyped, BelowThreshold
    <2>2. ASSUME NEW a \in Agents, CollectRespawn(a)
          PROVE  PoolTyped' /\ UNCHANGED <<mode, born, queue, removed, turn, acks, past, late>>
      BY <1>2, <2>2 DEF CollectRespawn, PoolTyped, BelowThreshold
    <2>3. ASSUME NEW a \in Agents, CooldownPasses(a)
          PROVE  PoolTyped' /\ UNCHANGED <<mode, born, queue, removed, turn, acks, past, late>>
      BY <1>2, <2>3 DEF CooldownPasses, PoolTyped, BelowThreshold
    <2>4. ASSUME NEW a \in Agents, CrashWindowPasses(a)
          PROVE  PoolTyped' /\ UNCHANGED <<mode, born, queue, removed, turn, acks, past, late>>
      BY <1>2, <2>4, ThresholdAssumption DEF CrashWindowPasses, PoolTyped, BelowThreshold
    <2>5. ASSUME NEW started \in SUBSET Agents, WakeEnds(started)
          PROVE  PoolTyped' /\ UNCHANGED <<mode, born, queue, removed, turn, acks, past, late>>
      BY <1>2, <2>5 DEF WakeEnds, PoolTyped, BelowThreshold
    <2>6. ASSUME WakeRetryDue \/ IdlePoolSleep
          PROVE  PoolTyped' /\ UNCHANGED <<mode, born, queue, removed, turn, acks, past, late>>
      BY <1>2, <2>6 DEF WakeRetryDue, IdlePoolSleep, PoolTyped, BelowThreshold
    <2>7. ASSUME Wait \/ UNCHANGED vars
          PROVE  PoolTyped' /\ UNCHANGED <<mode, born, queue, removed, turn, acks, past, late>>
      BY <1>2, <2>7 DEF Wait, vars, poolVars, PoolTyped, BelowThreshold
    <2> QED
      BY <2>1, <2>2, <2>3, <2>4, <2>5, <2>6, <2>7
  <1>4. Expired(queue')
    BY <1>1, <1>3, QueueIsExpired
  <1> QED
    BY <1>3, <1>4, PoolStep

\* Maintenance refills slots and lets the queue expire.
LEMMA MaintenanceEvents ==
    ASSUME EventsInv, PoolInv, Maintenance
    PROVE  EventsInv'
  <1>1. TypeInv /\ queue \in EventQueueType(Event)
    BY DEF EventsInv, TypeInv, AcpType
  <1> DEFINE p == CompactExpiredState(queue)
  <1>2. SameContents(queue, p)
    BY <1>1, CompactHoldsTheSame
  <1>3. p.in_flight = queue.in_flight
    BY CompactMarks DEF PoolInv, SameMarks
  <1>4. queue' = Expire(p)
    BY DEF Maintenance
  <1>5. Expired(queue')
    <2>1. \A c \in Channels : p.in_flight[c] = "overdue" => c \in late
      BY <1>3, OverdueLate
    <2> HIDE DEF p
    <2> QED
      BY <1>1, <1>2, <1>4, <2>1, ExpiryIsExpired
  <1>6. PoolTyped'
    <2>1. PoolTyped /\ CrashThreshold - 1 \in 0..CrashThreshold /\ CrashThreshold - 1 < CrashThreshold
      BY <1>1, ThresholdAssumption DEF PoolTyped, TypeInv, AcpType
    <2>2. /\ respawning' = respawning \cup Refillable
          /\ crashes' = [a \in Agents |-> IF a \in Refillable /\ circuit[a] = "cooled"
                                          THEN CrashThreshold - 1 ELSE crashes[a]]
          /\ circuit' = [a \in Agents |-> IF a \in Refillable THEN "closed" ELSE circuit[a]]
          /\ loop' \in {loop, "dispatch"}
          /\ UNCHANGED <<pool, idle, mail>>
      BY DEF Maintenance
    <2>3. Refillable \subseteq Agents /\ \A a \in Refillable : circuit[a] # "open"
      BY DEF Refillable
    <2>4. /\ crashes' \in [Agents -> 0..CrashThreshold]
          /\ circuit' \in [Agents -> {"closed", "open", "cooled"}]
      BY <2>1, <2>2 DEF PoolTyped
    <2>5. BelowThreshold'
      BY <2>1, <2>2, <2>3 DEF PoolTyped, BelowThreshold
    <2> QED
      BY <2>1, <2>2, <2>3, <2>4, <2>5 DEF PoolTyped
  <1>7. UNCHANGED <<mode, born, removed, turn, acks, past, late>>
    BY DEF Maintenance
  <1> QED
    BY <1>5, <1>6, <1>7, PoolStep

\* A heartbeat is a turn with no event, on an agent that had none.
LEMMA HeartbeatEvents ==
    ASSUME EventsInv, PoolInv, HeartbeatTick
    PROVE  EventsInv'
  <1>1. TypeInv /\ queue \in EventQueueType(Event) /\ turn \in [Agents -> Turn] /\ TurnShape
    BY DEF EventsInv, TypeInv, AcpType
  <1>2. Expired(queue')
    <2>1. queue' = Expire(queue) \/ queue' = queue
      BY DEF HeartbeatTick
    <2>2. Expired(Expire(queue))
      BY <1>1, ExpiryIsExpired, OverdueLate DEF SameContents
    <2> QED
      BY <1>1, <2>1, <2>2, QueueIsExpired
  <1>3. /\ UNCHANGED <<mode, born, removed, pool, circuit, crashes, respawning, mail, acks, past, late>>
        /\ loop' \in {"dispatch", "turning"}
        /\ UNCHANGED <<idle, turn>> \/ \E a \in idle : StartHeartbeat(a)
    BY DEF HeartbeatTick
  <1>4. CASE UNCHANGED <<idle, turn>>
    <2>1. PoolTyped'
      BY <1>1, <1>3, <1>4 DEF PoolTyped, TypeInv, AcpType, BelowThreshold
    <2> QED
      BY <1>2, <1>3, <1>4, <2>1, PoolStep
  <1>5. CASE \E a \in idle : StartHeartbeat(a)
    <2> DEFINE new == NewTurn([ch |-> NoChannel, events |-> {}, carried |-> {}])
    <2>1. PICK a \in idle : idle' = idle \ {a} /\ turn' = [turn EXCEPT ![a] = new]
      BY <1>5 DEF StartHeartbeat
    <2>2. a \in Agents /\ a \notin Checked
      BY DEF PoolInv, SlotsAreExclusive
    <2>3. /\ new \in Turn /\ new.ch = NoChannel /\ new.events = {} /\ new.carried = {}
          /\ new.steers = {} /\ new.ended = "no"
      BY DEF NewTurn, Turn
    <2> HIDE DEF new
    <2>4. /\ turn' \in [Agents -> Turn] /\ turn'[a] = new
          /\ \A b \in Agents \ {a} : turn'[b] = turn[b]
      BY <1>1, <2>1, <2>2, <2>3
    <2>5. TurnShape' /\ (TurnsDivide => TurnsDivide')
      BY <1>1, <2>3, <2>4 DEF TurnShape, TurnsDivide, Running
    <2>6. \A b \in Agents : TurnHolds(b)' = TurnHolds(b)
      BY <2>2, <2>3, <2>4 DEF TurnHolds, Checked
    <2>7. SteersFewer
      BY <1>3, <2>3, <2>4 DEF SteersFewer
    <2>8. SteersKept
      BY <2>7, FewerSteers DEF EventsInv
    <2>9. TypeInv'
      <3>1. queue' \in EventQueueType(Event)
        BY <1>2 DEF Expired
      <3> QED
        BY <1>1, <1>3, <2>1, <2>4, <2>5, <3>1 DEF TypeInv, AcpType, BelowThreshold
    <2>10. Unmoved
      BY <1>2, <1>3, <2>6 DEF Unmoved, AllPast
    <2> QED
      BY <1>3, <2>5, <2>8, <2>9, <2>10, UnmovedStep
  <1> QED
    BY <1>3, <1>4, <1>5

\* The end of a turn releases the steers that were still open.
LEMMA TurnEndsEvents ==
    ASSUME EventsInv, NEW a \in Agents, NEW outcome \in Outcome, TurnEnds(a, outcome)
    PROVE  EventsInv'
  <1>1. /\ TypeInv /\ queue \in EventQueueType(Event) /\ turn \in [Agents -> Turn] /\ TurnShape
        /\ SteersArrived /\ OfferedOnce
    BY DEF EventsInv, TypeInv, AcpType
  <1>2. PICK keep : /\ keep \in Keeps(a, outcome)
                    /\ turn' = [turn EXCEPT ![a].ended = outcome, ![a].keep = keep, ![a].steers = {}]
    BY Zenon DEF TurnEnds
  <1>3. keep \in BOOLEAN
    BY <1>2 DEF Keeps
  <1> DEFINE t == turn[a]
             new == {[ch |-> t.ch, ev |-> e, how |-> "release"] : e \in t.steers}
  <1>4. /\ Running(a) /\ acks' = acks \cup new
        /\ UNCHANGED <<mode, born, queue, removed, loop, pool, idle, circuit, crashes, respawning,
                       mail, past, late>>
    BY DEF TurnEnds
  <1>5. /\ turn' \in [Agents -> Turn]
        /\ \A b \in Agents \ {a} : turn'[b] = turn[b]
        /\ turn'[a].ch = t.ch /\ turn'[a].events = t.events /\ turn'[a].carried = t.carried
        /\ turn'[a].steers = {} /\ turn'[a].ended = outcome
    <2> DEFINE u == [t EXCEPT !.ended = outcome, !.keep = keep, !.steers = {}]
    <2>1. turn' = [turn EXCEPT ![a] = u]
      BY <1>1, <1>2
    <2>2. t \in Turn
      BY <1>1
    <2>3. /\ u \in Turn /\ u.ch = t.ch /\ u.events = t.events /\ u.carried = t.carried
          /\ u.steers = {} /\ u.ended = outcome
      BY <1>3, <2>2 DEF Turn
    <2> HIDE DEF u
    <2> QED
      BY <1>1, <2>1, <2>3
  <1>6. TurnShape' /\ (TurnsDivide => TurnsDivide')
    BY <1>1, <1>5 DEF TurnShape, TurnsDivide, Running
  <1>7. \A b \in Agents : TurnHolds(b)' = TurnHolds(b)
    <2>1. outcome # "none"
      BY DEF Outcome
    <2> QED
      BY <1>4, <1>5, <2>1 DEF TurnHolds, Checked, Running
  <1>8. new \subseteq Ack /\ \A k \in new : k.ch = t.ch /\ k.ev \in t.steers /\ k.how = "release"
    BY <1>1 DEF TurnShape, Turn, Ack
  <1>9. \A k, l \in new : k.ev = l.ev => k = l
    OBVIOUS
  <1> HIDE DEF new
  <1>10. SteersKept
    <2>1. SteersArrived'
      BY <1>1, <1>4, <1>5, <1>8 DEF SteersArrived
    <2>2. OfferedOnce'
      BY <1>1, <1>4, <1>5, <1>8, <1>9 DEF OfferedOnce
    <2>3. ASSUME NEW ch, NEW e, Pledged(ch, e)' PROVE Pledged(ch, e)
      BY <1>4, <1>5, <1>8, <2>3 DEF Pledged
    <2> QED
      BY <2>1, <2>2, <2>3 DEF SteersKept
  <1>11. TypeInv'
    BY <1>1, <1>4, <1>5, <1>6, <1>8 DEF TypeInv, AcpType, BelowThreshold
  <1>12. Unmoved
    BY <1>1, <1>4, <1>7, QueueIsExpired DEF Unmoved, AllPast
  <1> QED
    BY <1>4, <1>6, <1>10, <1>11, <1>12, UnmovedStep

\* An answer takes the steer from the turn to the loop.
LEMMA SteerAnsweredEvents ==
    ASSUME EventsInv, NEW a \in Agents, NEW e \in Event,
           NEW how \in {"success", "release", "fallback"}, SteerAnswered(a, e, how)
    PROVE  EventsInv'
  <1>1. /\ TypeInv /\ queue \in EventQueueType(Event) /\ turn \in [Agents -> Turn] /\ TurnShape
        /\ SteersArrived /\ OfferedOnce
    BY DEF EventsInv, TypeInv, AcpType
  <1> DEFINE t == turn[a]
             new == [ch |-> t.ch, ev |-> e, how |-> how]
  <1>2. /\ Running(a) /\ e \in t.steers /\ acks' = acks \cup {new}
        /\ turn' = [turn EXCEPT ![a].steers = @ \ {e}]
        /\ UNCHANGED <<mode, born, queue, removed, loop, pool, idle, circuit, crashes, respawning,
                       mail, past, late>>
    BY DEF SteerAnswered
  <1>3. /\ turn' \in [Agents -> Turn]
        /\ \A b \in Agents \ {a} : turn'[b] = turn[b]
        /\ turn'[a].ch = t.ch /\ turn'[a].events = t.events /\ turn'[a].carried = t.carried
        /\ turn'[a].steers = t.steers \ {e} /\ turn'[a].ended = t.ended
    BY <1>1, <1>2 DEF Turn
  <1>4. TurnShape' /\ (TurnsDivide => TurnsDivide')
    BY <1>1, <1>3 DEF TurnShape, TurnsDivide, Running
  <1>5. \A b \in Agents : TurnHolds(b)' = TurnHolds(b)
    BY <1>3 DEF TurnHolds, Checked
  <1>6. new \in Ack /\ new.ch = t.ch /\ new.ev = e
    BY <1>1, <1>2 DEF TurnShape, Turn, Ack
  <1> HIDE DEF new
  <1>7. SteersKept
    <2>1. SteersArrived'
      BY <1>1, <1>2, <1>3, <1>6 DEF SteersArrived
    <2>2. OfferedOnce'
      BY <1>1, <1>2, <1>3, <1>6 DEF OfferedOnce
    <2>3. ASSUME NEW ch, NEW x, Pledged(ch, x)' PROVE Pledged(ch, x)
      BY <1>2, <1>3, <1>6, <2>3 DEF Pledged
    <2> QED
      BY <2>1, <2>2, <2>3 DEF SteersKept
  <1>8. TypeInv'
    BY <1>1, <1>2, <1>3, <1>4, <1>6 DEF TypeInv, AcpType, BelowThreshold
  <1>9. Unmoved
    BY <1>1, <1>2, <1>5, QueueIsExpired DEF Unmoved, AllPast
  <1> QED
    BY <1>2, <1>4, <1>7, <1>8, <1>9, UnmovedStep

-----------------------------------------------------------------------------
(* The steps that trade events.                                             *)

\* A trade keeps the events.
LEMMA TradeKeeps ==
    ASSUME EventsInv, NEW q, NEW c \in Channels, NEW b, NEW in, NEW out, NEW fresh, NEW gone,
           Accounts(q, c, b, in, out, fresh, gone),
           late = {} /\ Apart /\ Over => Clean(q, c, b, in, out, gone)
    PROVE  EventsKept(fresh)
  <1>1. NothingForgotten /\ HeldArrived
    BY DEF EventsInv
  <1>2. NothingForgotten' /\ HeldArrived' /\ Held' \subseteq Held \cup fresh
    BY <1>1, AccountsKeepAll
  <1>3. ASSUME late = {}, Apart, Over PROVE Apart' /\ Over'
    BY <1>1, <1>3, CleanKeepsApart
  <1> QED
    BY <1>2, <1>3 DEF EventsKept, Accounts

\* The same where no turn changes hands with the queue.
LEMMA QueueTrade ==
    ASSUME EventsInv, NEW q, NEW c \in Channels, NEW in, NEW out, NEW fresh, NEW gone,
           Expired(q), Balanced(q, queue', c, in, out), in = {} \/ out = {},
           \A a \in Agents : TurnHolds(a)' = TurnHolds(a),
           in \subseteq fresh, out \cup fresh \subseteq in \cup gone,
           AllPast' = AllPast \cup gone,
           1..born' = 1..born \cup fresh, fresh \cap 1..born = {}, gone \subseteq 1..born',
           late = {} /\ Apart /\ Over =>
              /\ Tidy(q, queue', c, out)
              /\ gone \cap Holds(queue', c) = {}
              /\ gone \cap Held \subseteq Holds(queue, c)
    PROVE  EventsKept(fresh)
  <1> DEFINE b == NoChannel
  <1>1. TurnHolds(b)' = TurnHolds(b) /\ (b \notin Agents => TurnHolds(b) = {})
    BY OnlyAgentsHold
  <1> HIDE DEF b
  <1>2. Accounts(q, c, b, in, out, fresh, gone)
    BY <1>1 DEF Accounts
  <1>3. ASSUME late = {}, Apart, Over
        PROVE  Clean(q, c, b, in, out, gone)
    <2>1. TurnHolds(b) \subseteq Held /\ Holds(queue, c) \cap TurnHolds(b) = {}
      BY <1>1, <1>3, HeldSomewhere DEF Apart
    <2>2. fresh \cap Held = {}
      BY DEF EventsInv, HeldArrived
    <2>3. Holds(q, c) = Holds(queue, c)
      BY <1>3, ExpiredIsSame
    <2>4. queue'.shed \ q.shed \subseteq Holds(queue, c) \cup fresh
      BY <2>3 DEF Balanced
    <2> QED
      BY <1>1, <1>3, <2>1, <2>2, <2>4 DEF Clean
  <1> QED
    BY <1>2, <1>3, TradeKeeps

\* Two trades at a channel, the second of which takes nothing in and lets nothing out.
LEMMA TradeOn ==
    ASSUME NEW q, NEW r, NEW x, NEW c \in Channels, NEW in, NEW out,
           Balanced(q, r, c, in, out), Balanced(r, x, c, {}, {})
    PROVE  /\ Balanced(q, x, c, in, out)
           /\ Tidy(q, r, c, out) /\ Tidy(r, x, c, {}) => Tidy(q, x, c, out)
  <1>1. Balanced(q, x, c, in, out)
    BY DEF Balanced
  <1>2. ASSUME Tidy(q, r, c, out), Tidy(r, x, c, {})
        PROVE  Tidy(q, x, c, out)
    <2>1. Holds(x, c) \subseteq Holds(r, c) /\ r.shed \subseteq x.shed
      BY DEF Balanced
    <2> QED
      BY <1>2, <2>1 DEF Tidy
  <1> QED
    BY <1>1, <1>2

\* A removed channel is drained; its events are given up.
LEMMA MemberRemovedEvents ==
    ASSUME EventsInv, NEW ch \in Channels, MemberRemoved(ch)
    PROVE  EventsInv'
  <1>1. TypeInv /\ queue \in EventQueueType(Event) /\ past \in [Fate -> SUBSET Event]
    BY DEF EventsInv, TypeInv, AcpType
  <1> DEFINE gone == Holds(queue, ch)
  <1>2. /\ queue' = DrainChannel(queue, ch) /\ Settle("given_up", gone)
        /\ removed' = removed \cup {ch} /\ loop' = "turning"
        /\ UNCHANGED <<mode, born, acks, late, pool, idle, turn, circuit, crashes, respawning, mail>>
    BY DEF MemberRemoved, Holds, poolVars
  <1>3. /\ Balanced(queue, queue', ch, {}, gone) /\ Tidy(queue, queue', ch, gone)
        /\ Holds(queue', ch) = {}
    BY <1>1, <1>2, DrainBalance
  <1>4. gone \subseteq Event /\ gone \subseteq Held
    BY <1>1, QueueTypes, HeldSomewhere
  <1> HIDE DEF gone
  <1>5. past' \in [Fate -> SUBSET Event] /\ AllPast' = AllPast \cup gone
    BY <1>1, <1>2, <1>4 DEF Settle, Fate, AllPast
  <1>6. \A a \in Agents : TurnHolds(a)' = TurnHolds(a)
    BY <1>2 DEF TurnHolds, Checked
  <1>7. EventsKept({})
    <2>1. Expired(queue)
      BY <1>1, QueueIsExpired
    <2>2. gone \subseteq 1..born
      BY <1>4 DEF EventsInv, HeldArrived
    <2> QED
      BY <1>2, <1>3, <1>5, <1>6, <2>1, <2>2, QueueTrade DEF gone
  <1>8. TypeInv'
    BY <1>1, <1>2, <1>3, <1>5 DEF TypeInv, AcpType, BelowThreshold, TurnShape, Running, Balanced
  <1>9. SteersKept
    BY <1>2, FewerSteers DEF SteersFewer, EventsInv
  <1>10. ASSUME late = {}
         PROVE  /\ TurnsDivide'
                /\ \A d \in Channels : \A e \in queue.withheld[d] :
                      Pledged(d, e)' /\ e \in Held' => e \in queue'.withheld[d]
    <2>1. TurnsDivide' /\ Apart' /\ Apart
      BY <1>2, <1>7, <1>10 DEF EventsInv, TurnsDivide, EventsKept
    <2>2. ASSUME NEW d \in Channels, NEW e \in queue.withheld[d], e \in Held'
          PROVE  e \in queue'.withheld[d]
      <3>1. CASE d # ch
        BY <1>3, <2>2, <3>1 DEF Balanced
      <3>2. CASE d = ch
        <4>1. e \in Holds(queue, ch)
          BY <2>2, <3>2 DEF Holds
        <4>2. \A f \in Channels \ {ch} : Holds(queue', f) = Holds(queue, f)
          BY <1>3 DEF Balanced, Holds, Pending
        <4>3. \A f \in Channels : e \notin Holds(queue', f)
          BY <1>3, <2>1, <4>1, <4>2 DEF Apart
        <4>4. \A a \in Agents : e \notin TurnHolds(a)'
          BY <1>6, <2>1, <4>1 DEF Apart
        <4> QED
          BY <2>2, <4>3, <4>4, HeldSomewhereNext
      <3> QED
        BY <3>1, <3>2
    <2> QED
      BY <2>1, <2>2
  <1> QED
    BY <1>2, <1>7, <1>8, <1>9, <1>10, StepKeeps

\* The event that arrives: its number is new.
LEMMA NextEvent ==
    ASSUME born \in 0..MaxEvents, born < MaxEvents
    PROVE  /\ born + 1 \in Event /\ born + 1 \in 0..MaxEvents
           /\ 1..(born + 1) = 1..born \cup {born + 1} /\ born + 1 \notin 1..born
  BY EventsAssumption DEF Event

\* An event that is refused is given up; the queue and the turns stay.
LEMMA RefusedEvents ==
    ASSUME EventsInv, NEW ch \in Channels, RelayEvent(ch), Refuses(queue, mode.dedup, ch)
    PROVE  EventsInv'
  <1> DEFINE e == born + 1
  <1>1. /\ TypeInv /\ queue \in EventQueueType(Event) /\ past \in [Fate -> SUBSET Event]
        /\ born \in 0..MaxEvents
    BY DEF EventsInv, TypeInv, AcpType
  <1>2. /\ born < MaxEvents /\ born' = e /\ Settle("given_up", {e})
        /\ UNCHANGED <<queue, turn, mode, removed, pool, idle, circuit, crashes, respawning, mail,
                       acks, late>>
        /\ loop' \in {"dispatch", "turning"}
    BY DEF RelayEvent, AfterEvent
  <1>3. e \in Event /\ e \in 0..MaxEvents /\ 1..e = 1..born \cup {e} /\ e \notin 1..born
    BY <1>1, <1>2, NextEvent
  <1> HIDE DEF e
  <1>4. past' \in [Fate -> SUBSET Event] /\ AllPast' = AllPast \cup {e}
    BY <1>1, <1>2, <1>3 DEF Settle, Fate, AllPast
  <1>5. \A a \in Agents : TurnHolds(a)' = TurnHolds(a)
    BY <1>2 DEF TurnHolds, Checked
  <1>6. e \notin Held
    BY <1>3 DEF EventsInv, HeldArrived
  <1>7. EventsKept({e})
    <2>1. Expired(queue)
      BY <1>1, QueueIsExpired
    <2>2. Balanced(queue, queue', ch, {}, {}) /\ (Once(queue, ch) => Tidy(queue, queue', ch, {}))
      BY <1>1, <1>2, SelfBalance DEF SameContents
    <2>3. {e} \cap Holds(queue', ch) = {} /\ {e} \cap Held = {}
      BY <1>2, <1>6, HeldSomewhere
    <2>4. Apart => Once(queue, ch)
      BY DEF Apart
    <2>5. /\ {} \cup {e} \subseteq {} \cup {e} /\ {e} \cap 1..born = {}
          /\ {e} \subseteq 1..born' /\ 1..born' = 1..born \cup {e}
      BY <1>2, <1>3
    <2> QED
      BY <1>4, <1>5, <2>1, <2>2, <2>3, <2>4, <2>5, QueueTrade
  <1>8. TypeInv'
    BY <1>1, <1>2, <1>3, <1>4 DEF TypeInv, AcpType, BelowThreshold, TurnShape, Running
  <1>9. SteersKept
    BY <1>2, <1>3, FewerSteers DEF SteersFewer, EventsInv
  <1>10. late = {} => TurnsDivide'
    BY <1>2 DEF EventsInv, TurnsDivide
  <1> QED
    BY <1>2, <1>7, <1>8, <1>9, <1>10, StepKeeps

\* A new event goes to the queue of its channel and nowhere else.
LEMMA PushKeeps ==
    ASSUME EventsInv, NEW ch \in Channels, born < MaxEvents, born' = born + 1, past' = past,
           Balanced(queue, queue', ch, {born + 1}, {}),
           Once(queue, ch) /\ born + 1 \notin Holds(queue, ch) => Tidy(queue, queue', ch, {}),
           \A a \in Agents : TurnHolds(a)' = TurnHolds(a)
    PROVE  EventsKept({born + 1})
  <1> DEFINE e == born + 1
  <1>1. born \in 0..MaxEvents /\ queue \in EventQueueType(Event)
    BY DEF EventsInv, TypeInv, AcpType
  <1>2. 1..e = 1..born \cup {e} /\ e \notin 1..born
    BY <1>1, NextEvent
  <1> HIDE DEF e
  <1>3. e \notin Holds(queue, ch)
    BY <1>2, HeldSomewhere DEF EventsInv, HeldArrived
  <1>4. /\ AllPast' = AllPast \cup {} /\ 1..born' = 1..born \cup {e} /\ {e} \cap 1..born = {}
        /\ Expired(queue) /\ {} \cup {e} \subseteq {e} \cup {}
    BY <1>1, <1>2, QueueIsExpired DEF AllPast, e
  <1>5. Apart => Tidy(queue, queue', ch, {})
    BY <1>3 DEF Apart, e
  <1>6. Balanced(queue, queue', ch, {e}, {})
    BY DEF e
  <1>7. EventsKept({e})
    BY <1>4, <1>5, <1>6, QueueTrade
  <1> QED
    BY <1>7 DEF e

\* An event that is pushed and waits, or cancels the turn in flight.
LEMMA PushedEvents ==
    ASSUME EventsInv, NEW ch \in Channels, RelayEvent(ch), past' = past,
           queue' = Push(queue, ch, born + 1), SameLoads
    PROVE  EventsInv'
  <1> DEFINE e == born + 1
  <1>1. TypeInv /\ queue \in EventQueueType(Event) /\ born \in 0..MaxEvents /\ TurnShape
    BY DEF EventsInv, TypeInv, AcpType
  <1>2. /\ born < MaxEvents /\ born' = e
        /\ UNCHANGED <<mode, removed, pool, idle, circuit, crashes, respawning, mail, acks, late>>
        /\ loop' \in {"dispatch", "turning"}
    BY DEF RelayEvent, AfterEvent
  <1>3. e \in Event /\ e \in 0..MaxEvents /\ 1..e = 1..born \cup {e}
    BY <1>1, <1>2, NextEvent
  <1>4. /\ TurnShape' /\ (TurnsDivide => TurnsDivide')
        /\ \A a \in Agents : TurnHolds(a)' = TurnHolds(a)
        /\ \A a \in Agents : turn'[a].steers = turn[a].steers /\ turn'[a].ch = turn[a].ch
    BY <1>1, LoadsKeep
  <1>5. /\ Balanced(queue, queue', ch, {e}, {})
        /\ Once(queue, ch) /\ e \notin Holds(queue, ch) => Tidy(queue, queue', ch, {})
        /\ \A d \in Channels : queue'.withheld[d] = queue.withheld[d]
    BY <1>1, <1>3, PushBalance
  <1>6. EventsKept({e})
    BY <1>2, <1>4, <1>5, PushKeeps
  <1> HIDE DEF e
  <1>7. TypeInv'
    BY <1>1, <1>2, <1>3, <1>4, <1>5 DEF TypeInv, AcpType, BelowThreshold, SameLoads, Balanced
  <1>8. SteersKept
    BY <1>2, <1>3, <1>4, FewerSteers DEF SteersFewer, EventsInv
  <1>9. late = {} => TurnsDivide'
    BY <1>4 DEF EventsInv
  <1> QED
    BY <1>2, <1>5, <1>6, <1>7, <1>8, <1>9, StepKeeps

\* An event that is pushed and offered to the turn in flight is withheld.
LEMMA SteeredEvents ==
    ASSUME EventsInv, NEW ch \in Channels, RelayEvent(ch), past' = past,
           TryNativeSteer(Push(queue, ch, born + 1), ch, born + 1)
    PROVE  EventsInv'
  <1> DEFINE e == born + 1
             p == Push(queue, ch, e)
  <1>1. /\ TypeInv /\ queue \in EventQueueType(Event) /\ born \in 0..MaxEvents /\ TurnShape
        /\ turn \in [Agents -> Turn] /\ SteersArrived /\ OfferedOnce
    BY DEF EventsInv, TypeInv, AcpType
  <1>2. /\ born < MaxEvents /\ born' = e
        /\ UNCHANGED <<mode, removed, pool, idle, circuit, crashes, respawning, mail, acks, late>>
        /\ loop' \in {"dispatch", "turning"}
    BY DEF RelayEvent, AfterEvent
  <1>3. /\ e \in Event /\ e \in 0..MaxEvents /\ 1..e = 1..born \cup {e} /\ e \notin 1..born
    BY <1>1, <1>2, NextEvent
  <1>4. PICK a \in OnChannel(ch) : /\ SteersFit(a)
                                   /\ queue' = MarkNativeSteerPending(p, ch, e)
                                   /\ turn' = [turn EXCEPT ![a].steers = @ \cup {e}]
    BY DEF TryNativeSteer
  <1>5. a \in Agents /\ turn[a].ch = ch /\ Running(a)
    BY <1>4 DEF OnChannel, Checked, SteersFit
  <1>6. /\ Balanced(queue, p, ch, {e}, {})
        /\ Once(queue, ch) /\ e \notin Holds(queue, ch) => Tidy(queue, p, ch, {})
        /\ \A d \in Channels : p.withheld[d] = queue.withheld[d]
        /\ e \in Pending(p, ch)
    BY <1>1, <1>3, PushBalance
  <1> HIDE DEF p
  <1>7. p \in EventQueueType(Event)
    BY <1>6 DEF Balanced
  <1>8. /\ Balanced(p, queue', ch, {}, {})
        /\ Once(p, ch) => Tidy(p, queue', ch, {})
        /\ \A d \in Channels : p.withheld[d] \subseteq queue'.withheld[d]
        /\ e \in queue'.withheld[ch]
    BY <1>3, <1>4, <1>6, <1>7, WithholdBalance
  <1>9. /\ Balanced(queue, queue', ch, {e}, {})
        /\ Once(queue, ch) /\ e \notin Holds(queue, ch) => Tidy(queue, queue', ch, {})
    BY <1>6, <1>8, TradeOn DEF Tidy
  <1>10. /\ turn' \in [Agents -> Turn]
         /\ \A b \in Agents \ {a} : turn'[b] = turn[b]
         /\ turn'[a].ch = ch /\ turn'[a].events = turn[a].events
         /\ turn'[a].carried = turn[a].carried /\ turn'[a].ended = "no"
         /\ turn'[a].steers = turn[a].steers \cup {e}
    BY <1>1, <1>3, <1>4, <1>5 DEF Turn, Running
  <1>11. \A b \in Agents : TurnHolds(b)' = TurnHolds(b)
    BY <1>5, <1>10 DEF TurnHolds, Checked, Running
  <1>12. EventsKept({e})
    BY <1>2, <1>9, <1>11, PushKeeps
  <1> HIDE DEF e
  <1>13. TurnShape' /\ (TurnsDivide => TurnsDivide')
    <2>1. ch # NoChannel
      BY NoChannelAssumption
    <2> QED
      BY <1>1, <1>10, <2>1 DEF TurnShape, TurnsDivide, Running
  <1>14. TypeInv'
    BY <1>1, <1>2, <1>3, <1>9, <1>10, <1>13 DEF TypeInv, AcpType, BelowThreshold, Balanced
  <1>15. SteersArrived'
    BY <1>1, <1>2, <1>3, <1>10 DEF SteersArrived
  <1>16. /\ \A b \in Agents : e \notin turn[b].steers
         /\ \A ack \in acks : ack.ev # e
    BY <1>1, <1>3 DEF SteersArrived
  <1>17. OfferedOnce'
    BY <1>1, <1>2, <1>10, <1>16 DEF OfferedOnce
  <1>18. ASSUME late' = {}
         PROVE  Apart' /\ TurnsDivide' /\ Over' /\ Offered'
    <2>1. late = {} /\ Apart /\ Over /\ TurnsDivide /\ Offered
      BY <1>2, <1>18 DEF EventsInv
    <2>2. ASSUME NEW d \in Channels, NEW x \in Event, Pledged(d, x)', x \in Held'
          PROVE  x \in queue'.withheld[d]
      <3>1. CASE x = e
        <4>1. d = ch
          BY <1>2, <1>10, <1>16, <2>2, <3>1 DEF Pledged
        <4> QED
          BY <1>8, <3>1, <4>1
      <3>2. CASE x # e
        <4>1. Pledged(d, x)
          BY <1>2, <1>5, <1>10, <2>2, <3>2 DEF Pledged
        <4>2. x \in Held
          BY <1>12, <2>2, <3>2 DEF EventsKept
        <4> QED
          BY <1>6, <1>8, <2>1, <4>1, <4>2 DEF Offered
      <3> QED
        BY <3>1, <3>2
    <2>3. Offered'
      BY <2>2 DEF Offered, Event
    <2> QED
      BY <1>12, <1>13, <2>1, <2>3 DEF EventsKept
  <1> QED
    BY <1>12, <1>14, <1>15, <1>17, <1>18 DEF EventsInv, EventsKept

\* An event from the relay.
LEMMA RelayEvents ==
    ASSUME EventsInv, NEW ch \in Channels, RelayEvent(ch)
    PROVE  EventsInv'
  <1> DEFINE q == Push(queue, ch, born + 1)
  <1>1. turn \in [Agents -> Turn]
    BY DEF EventsInv, TypeInv, AcpType
  <1>2. CASE Refuses(queue, mode.dedup, ch)
    BY <1>2, RefusedEvents
  <1>3. CASE ~Refuses(queue, mode.dedup, ch)
    <2>1. ModeGate(q, ch, born + 1) /\ past' = past
      BY <1>3 DEF RelayEvent
    <2> HIDE DEF q
    <2>2. \/ queue' = q /\ UNCHANGED turn
          \/ TryNativeSteer(q, ch, born + 1)
          \/ queue' = q /\ SignalInFlightTask(ch, "merge")
      BY <2>1 DEF ModeGate
    <2>3. CASE TryNativeSteer(q, ch, born + 1)
      BY <2>1, <2>3, SteeredEvents DEF q
    <2>4. CASE queue' = q /\ UNCHANGED turn
      <3>1. SameLoads
        BY <1>1, <2>4 DEF SameLoads
      <3> QED
        BY <2>1, <2>4, <3>1, PushedEvents DEF q
    <2>5. CASE queue' = q /\ SignalInFlightTask(ch, "merge")
      <3>1. SameLoads
        BY <1>1, <2>5, SignalLoads
      <3> QED
        BY <2>1, <2>5, <3>1, PushedEvents DEF q
    <2> QED
      BY <2>2, <2>3, <2>4, <2>5
  <1> QED
    BY <1>2, <1>3

\* dispatch_pending: a batch leaves the queue for the turn of an idle agent.
LEMMA DispatchBatchEvents ==
    ASSUME EventsInv, PoolInv, NEW ch \in Channels, NEW a \in Agents, DispatchBatch(ch, a)
    PROVE  EventsInv'
  <1> DEFINE q == Expire(queue)
             b == FlushBatch(q, ch)
             new == NewTurn(b)
             out == b.events \cup b.carried
  <1>1. TypeInv /\ queue \in EventQueueType(Event) /\ TurnShape /\ turn \in [Agents -> Turn]
    BY DEF EventsInv, TypeInv, AcpType
  <1>2. /\ a \in idle /\ queue' = Flushed(q, ch) /\ idle' = idle \ {a}
        /\ turn' = [turn EXCEPT ![a] = new] /\ loop' = "dispatch"
        /\ UNCHANGED <<mode, born, removed, pool, circuit, crashes, respawning, mail, acks, past, late>>
    BY DEF DispatchBatch
  <1>3. Expired(q)
    BY <1>1, ExpiryIsExpired, OverdueLate DEF SameContents
  <1> HIDE DEF q
  <1>4. q \in EventQueueType(Event)
    BY <1>3 DEF Expired
  <1>5. /\ b.ch = ch /\ b.events \in SUBSET Event /\ b.carried \in SUBSET Event
        /\ out \subseteq Holds(q, ch)
        /\ Balanced(q, queue', ch, {}, out)
        /\ Once(q, ch) => Tidy(q, queue', ch, out) /\ b.events \cap b.carried = {}
        /\ \A d \in Channels : queue'.withheld[d] = q.withheld[d]
    BY <1>2, <1>4, FlushBalance
  <1>6. queue'.shed = q.shed
    BY <1>2, <1>4 DEF Flushed, EventQueueType
  <1>7. a \notin Checked /\ TurnHolds(a) = {}
    BY <1>2 DEF PoolInv, SlotsAreExclusive, TurnHolds
  <1>8. /\ new \in Turn /\ new.ch = ch /\ new.events = b.events /\ new.carried = b.carried
        /\ new.steers = {} /\ new.ended = "no"
    BY <1>5 DEF NewTurn, Turn
  <1> HIDE DEF new, b
  <1>9. /\ turn' \in [Agents -> Turn] /\ turn'[a] = new
        /\ \A x \in Agents \ {a} : turn'[x] = turn[x]
    BY <1>1, <1>2, <1>8
  <1>10. TurnHolds(a)' = out /\ \A x \in Agents \ {a} : TurnHolds(x)' = TurnHolds(x)
    BY <1>8, <1>9 DEF TurnHolds, Checked
  <1>11. TurnShape'
    BY <1>1, <1>8, <1>9, NoChannelAssumption DEF TurnShape, Running
  <1>12. TypeInv'
    BY <1>1, <1>2, <1>5, <1>9, <1>11 DEF TypeInv, AcpType, BelowThreshold, Balanced
  <1> HIDE DEF out
  <1>13. Accounts(q, ch, a, {}, out, {}, {})
    <2>1. AllPast' = AllPast \cup {} /\ 1..born' = 1..born \cup {}
      BY <1>2 DEF AllPast
    <2> QED
      BY <1>3, <1>5, <1>7, <1>10, <2>1 DEF Accounts
  <1>14. ASSUME late = {}, Apart
         PROVE  /\ Clean(q, ch, a, {}, out, {}) /\ b.events \cap b.carried = {}
                /\ \A d \in Channels : queue'.withheld[d] = queue.withheld[d]
    <2>1. Once(q, ch) /\ \A d \in Channels : q.withheld[d] = queue.withheld[d]
      BY <1>3, <1>14, ExpiredIsSame DEF Apart
    <2> QED
      BY <1>5, <1>6, <2>1 DEF Clean
  <1>15. EventsKept({})
    BY <1>13, <1>14, TradeKeeps
  <1>16. SteersKept
    BY <1>2, <1>8, <1>9, FewerSteers DEF SteersFewer, EventsInv
  <1>17. late = {} => TurnsDivide'
    BY <1>8, <1>9, <1>14 DEF EventsInv, TurnsDivide
  <1>18. late = {} => \A d \in Channels : queue'.withheld[d] = queue.withheld[d]
    BY <1>14 DEF EventsInv
  <1> QED
    BY <1>2, <1>12, <1>15, <1>16, <1>17, <1>18, StepKeeps

\* No agent: the batch goes back, and what was merged into it is spilled.
LEMMA DispatchExhaustedEvents ==
    ASSUME EventsInv, PoolInv, NEW ch \in Channels, DispatchExhausted(ch)
    PROVE  EventsInv'
  <1> DEFINE q == Expire(queue)
             b == FlushBatch(q, ch)
             r == Flushed(q, ch)
             p == PushFront(r, ch, b.events)
  <1>1. TypeInv /\ queue \in EventQueueType(Event) /\ past \in [Fate -> SUBSET Event]
    BY DEF EventsInv, TypeInv, AcpType
  <1>2. Expired(q)
    BY <1>1, ExpiryIsExpired, OverdueLate DEF SameContents
  <1>3. q \in EventQueueType(Event)
    BY <1>2 DEF Expired
  <1>4. /\ queue' = MarkComplete(RequeuePreserveTimestamps(r, b), ch) /\ Settle("spilled", b.carried)
        /\ loop' = "turning"
        /\ UNCHANGED <<mode, born, removed, acks, late, pool, idle, turn, circuit, crashes,
                       respawning, mail>>
    BY DEF DispatchExhausted, poolVars
  <1> HIDE DEF q
  <1>5. /\ b.ch = ch /\ b.events \in SUBSET Event /\ b.carried \in SUBSET Event
        /\ b.events \cup b.carried \subseteq Holds(q, ch)
        /\ Balanced(q, r, ch, {}, b.events \cup b.carried)
        /\ Once(q, ch) => /\ Tidy(q, r, ch, b.events \cup b.carried)
                          /\ b.events \cap b.carried = {}
        /\ \A d \in Channels : r.withheld[d] = q.withheld[d]
    BY <1>3, FlushBalance
  <1>6. r.shed = q.shed
    BY <1>3 DEF Flushed, EventQueueType
  <1>7. queue' = MarkComplete(p, ch)
    BY <1>4, <1>5 DEF RequeuePreserveTimestamps
  <1> HIDE DEF r, b
  <1>8. r \in EventQueueType(Event)
    BY <1>5 DEF Balanced
  <1>9. /\ Balanced(r, p, ch, b.events, {})
        /\ Once(r, ch) /\ b.events \cap Holds(r, ch) = {} => Tidy(r, p, ch, {})
    BY <1>5, <1>8, PushFrontBalance
  <1>10. \A d \in Channels : p.withheld[d] = r.withheld[d]
    BY <1>8 DEF PushFront, EventQueueType
  <1> HIDE DEF p
  <1>11. p \in EventQueueType(Event)
    BY <1>9 DEF Balanced
  <1>12. SameContents(p, queue')
    BY <1>7, <1>11, MarksHoldTheSame
  <1>13. /\ Balanced(r, queue', ch, b.events, {})
         /\ Tidy(r, p, ch, {}) => Tidy(r, queue', ch, {})
    BY <1>9, <1>12, SameBalance
  <1>14. Balanced(q, queue', ch, {}, b.carried)
    <2>1. /\ queue' \in EventQueueType(Event)
          /\ \A d \in Channels \ {ch} : /\ queue'.queues[d] = q.queues[d]
                                        /\ queue'.cancelled[d] = q.cancelled[d]
                                        /\ queue'.withheld[d] = q.withheld[d]
      BY <1>5, <1>13 DEF Balanced
    <2>2. Holds(queue', ch) \subseteq Holds(q, ch) \cup {}
      BY <1>5, <1>13 DEF Balanced
    <2>3. Holds(q, ch) \cup {} \subseteq Holds(queue', ch) \cup b.carried \cup queue'.shed
      BY <1>5, <1>6, <1>13 DEF Balanced
    <2>4. q.shed \subseteq queue'.shed /\ queue'.shed \subseteq q.shed \cup Holds(q, ch) \cup {}
      BY <1>5, <1>6, <1>13 DEF Balanced
    <2> QED
      BY <2>1, <2>2, <2>3, <2>4 DEF Balanced
  <1>15. ASSUME late = {}, Apart
         PROVE  /\ Tidy(q, queue', ch, b.carried)
                /\ b.carried \cap Holds(queue', ch) = {}
                /\ \A d \in Channels : queue'.withheld[d] = queue.withheld[d]
    <2>1. Once(q, ch) /\ \A d \in Channels : q.withheld[d] = queue.withheld[d]
      BY <1>2, <1>15, ExpiredIsSame DEF Apart
    <2>2. /\ Once(r, ch) /\ Holds(r, ch) \cap (b.events \cup b.carried) = {}
          /\ b.events \cap b.carried = {}
      BY <1>5, <2>1 DEF Tidy
    <2>3. Once(queue', ch) /\ Holds(queue', ch) \cap (queue'.shed \ q.shed) = {}
      BY <1>6, <1>9, <1>13, <2>2 DEF Tidy
    <2>4. Holds(queue', ch) \cap b.carried = {}
      BY <1>13, <2>2 DEF Balanced
    <2>5. Tidy(q, queue', ch, b.carried)
      BY <2>3, <2>4 DEF Tidy
    <2>6. \A d \in Channels : queue'.withheld[d] = queue.withheld[d]
      BY <1>5, <1>10, <1>12, <2>1 DEF SameContents
    <2> QED
      BY <2>4, <2>5, <2>6
  <1>16. past' \in [Fate -> SUBSET Event] /\ AllPast' = AllPast \cup b.carried
    BY <1>1, <1>4, <1>5 DEF Settle, Fate, AllPast
  <1>17. b.carried \subseteq Holds(queue, ch) /\ b.carried \subseteq 1..born
    <2>1. b.carried \subseteq Holds(queue, ch)
      BY <1>2, <1>5 DEF Expired
    <2> QED
      BY <2>1, HeldSomewhere DEF EventsInv, HeldArrived
  <1>18. \A a \in Agents : TurnHolds(a)' = TurnHolds(a)
    BY <1>4 DEF TurnHolds, Checked
  <1>19. EventsKept({})
    <2> DEFINE out == b.carried
    <2>1. /\ Balanced(q, queue', ch, {}, out) /\ out \cup {} \subseteq {} \cup out
          /\ AllPast' = AllPast \cup out /\ 1..born' = 1..born \cup {} /\ out \subseteq 1..born'
      BY <1>4, <1>14, <1>16, <1>17
    <2>2. late = {} /\ Apart => /\ Tidy(q, queue', ch, out) /\ out \cap Holds(queue', ch) = {}
                               /\ out \cap Held \subseteq Holds(queue, ch)
      BY <1>15, <1>17
    <2> HIDE DEF out, b, r, p, q
    <2>3. late = {} /\ Apart /\ Over =>
             /\ Tidy(q, queue', ch, out) /\ out \cap Holds(queue', ch) = {}
             /\ out \cap Held \subseteq Holds(queue, ch)
      BY <2>2
    <2>4. {} = {} \/ out = {}
      OBVIOUS
    <2>5. {} \subseteq {} /\ {} \cap 1..born = {}
      OBVIOUS
    <2> QED
      BY ONLY EventsInv, <1>2, <1>18, <2>1, <2>3, <2>4, <2>5, QueueTrade
  <1>20. TypeInv'
    BY <1>1, <1>4, <1>14, <1>16 DEF TypeInv, AcpType, BelowThreshold, TurnShape, Running, Balanced
  <1>21. SteersKept
    BY <1>4, FewerSteers DEF SteersFewer, EventsInv
  <1>22. late = {} => TurnsDivide' /\ \A d \in Channels : queue'.withheld[d] = queue.withheld[d]
    BY <1>4, <1>15 DEF EventsInv, TurnsDivide
  <1> QED
    BY <1>4, <1>19, <1>20, <1>21, <1>22, StepKeeps

\* An answered steer is delivered, or the event goes back to the queue.
LEMMA HandleSteerAckEvents ==
    ASSUME EventsInv, NEW ack \in acks, HandleSteerAck(ack)
    PROVE  EventsInv'
  <1> DEFINE c == ack.ch
             e == ack.ev
  <1>1. /\ TypeInv /\ queue \in EventQueueType(Event) /\ past \in [Fate -> SUBSET Event]
        /\ turn \in [Agents -> Turn] /\ TurnShape /\ SteersArrived /\ OfferedOnce
    BY DEF EventsInv, TypeInv, AcpType
  <1>2. ack \in Ack /\ c \in Channels /\ e \in Event /\ e \in 1..born
    BY <1>1 DEF TypeInv, AcpType, Ack, SteersArrived
  <1>3. /\ acks' = acks \ {ack} /\ loop' = "dispatch"
        /\ UNCHANGED <<mode, born, removed, pool, idle, circuit, crashes, respawning, mail, late>>
        /\ UNCHANGED turn \/ SignalInFlightTask(c, "merge")
    BY DEF HandleSteerAck
  <1>4. SameLoads
    BY <1>1, <1>3, SignalLoads DEF SameLoads
  <1>5. /\ TurnShape' /\ (TurnsDivide => TurnsDivide')
        /\ \A a \in Agents : TurnHolds(a)' = TurnHolds(a)
        /\ \A a \in Agents : turn'[a].steers = turn[a].steers /\ turn'[a].ch = turn[a].ch
    BY <1>1, <1>4, LoadsKeep
  <1>6. SteersKept
    BY <1>1, <1>3, <1>5, FewerSteers DEF SteersFewer
  <1>7. \A d : ~Pledged(d, e)'
    BY <1>1, <1>3, <1>5 DEF Pledged, OfferedOnce
  <1>8. late = {} /\ e \in Held => e \in queue.withheld[c]
    BY <1>2 DEF EventsInv, Offered, Pledged
  <1>9. /\ \A d \in Channels : queue'.withheld[d] =
              IF d = c THEN queue.withheld[d] \ {e} ELSE queue.withheld[d]
        /\ past' \in [Fate -> SUBSET Event] /\ queue' \in EventQueueType(Event)
        /\ EventsKept({})
    <2>1. Expired(queue)
      BY <1>1, QueueIsExpired
    <2>2. CASE ack.how = "success"
      <3> DEFINE p == ExtendInFlightDeadline(queue, c)
      <3>1. queue' = RemoveEvent(p, c, e) /\ Settle("delivered", {e})
        BY <2>2 DEF HandleSteerAck
      <3>2. SameContents(queue, p)
        BY <1>1, <1>2, MarksHoldTheSame
      <3> HIDE DEF p
      <3>3. /\ p \in EventQueueType(Event) /\ Holds(p, c) = Holds(queue, c) /\ p.shed = queue.shed
            /\ p.withheld = queue.withheld /\ p.cancelled = queue.cancelled
            /\ p.queues = queue.queues /\ (Once(queue, c) => Once(p, c))
        BY <3>2 DEF SameContents, Holds, Pending, Once
      <3>4. /\ Balanced(p, queue', c, {}, {e})
            /\ Once(p, c) /\ e \notin p.cancelled[c] => Tidy(p, queue', c, {e})
            /\ \A d \in Channels : queue'.withheld[d] =
                  IF d = c THEN p.withheld[d] \ {e} ELSE p.withheld[d]
        BY <1>2, <3>1, <3>3, RemoveBalance
      <3>5. Balanced(queue, queue', c, {}, {e})
        BY <3>3, <3>4 DEF Balanced
      <3>6. past' \in [Fate -> SUBSET Event] /\ AllPast' = AllPast \cup {e}
        BY <1>1, <1>2, <3>1 DEF Settle, Fate, AllPast
      <3>7. ASSUME late = {}, Apart
            PROVE  /\ Tidy(queue, queue', c, {e})
                   /\ {e} \cap Holds(queue', c) = {}
                   /\ {e} \cap Held \subseteq Holds(queue, c)
        <4>1. Once(queue, c)
          BY <1>2, <3>7 DEF Apart
        <4>2. {e} \cap Held \subseteq queue.withheld[c] /\ Holds(queue, c) \subseteq Held
          BY <1>2, <1>8, <3>7, HeldSomewhere
        <4>3. e \notin queue.cancelled[c]
          BY <4>1, <4>2 DEF Once, Holds
        <4>4. Tidy(queue, queue', c, {e})
          BY <3>3, <3>4, <4>1, <4>3 DEF Tidy
        <4> QED
          BY <4>2, <4>4 DEF Tidy, Holds
      <3> DEFINE out == {e}
      <3>8. /\ Balanced(queue, queue', c, {}, out) /\ out \cup {} \subseteq {} \cup out
            /\ AllPast' = AllPast \cup out /\ 1..born' = 1..born \cup {} /\ out \subseteq 1..born'
            /\ {} = {} \/ out = {}
            /\ {} \subseteq {} /\ {} \cap 1..born = {}
        BY <1>2, <1>3, <3>5, <3>6
      <3>9. late = {} /\ Apart /\ Over =>
               /\ Tidy(queue, queue', c, out) /\ out \cap Holds(queue', c) = {}
               /\ out \cap Held \subseteq Holds(queue, c)
        BY <3>7
      <3> HIDE DEF out
      <3>10. EventsKept({})
        BY ONLY EventsInv, <1>2, <1>5, <2>1, <3>8, <3>9, QueueTrade
      <3> QED
        BY <3>3, <3>4, <3>5, <3>6, <3>10 DEF Balanced
    <2>3. CASE ack.how # "success"
      <3>1. queue' = ReleaseNativeSteer(queue, c, e) /\ past' = past
        BY <2>3 DEF HandleSteerAck
      <3>2. /\ Balanced(queue, queue', c, {}, {})
            /\ Once(queue, c) => Tidy(queue, queue', c, {})
            /\ \A d \in Channels : queue'.withheld[d] =
                  IF d = c THEN queue.withheld[d] \ {e} ELSE queue.withheld[d]
        <4> HIDE DEF c, e
        <4> DEFINE r == ReleaseNativeSteer(queue, c, e)
        <4>1. Balanced(queue, r, c, {}, {}) /\ (Once(queue, c) => Tidy(queue, r, c, {}))
          BY <1>1, <1>2, ReleaseBalance
        <4>2. \A d \in Channels : r.withheld[d] =
                 IF d = c THEN queue.withheld[d] \ {e} ELSE queue.withheld[d]
          BY <1>1, <1>2, ReleaseBalance
        <4> QED
          BY <3>1, <4>1, <4>2
      <3>3. AllPast' = AllPast \cup {} /\ 1..born' = 1..born \cup {}
        BY <1>3, <3>1 DEF AllPast
      <3>4. EventsKept({})
        <4>1. Apart => Once(queue, c)
          BY <1>2 DEF Apart
        <4>2. {} \cup {} \subseteq {} \cup {} /\ {} \cap 1..born = {}
          OBVIOUS
        <4>3. late = {} /\ Apart /\ Over =>
                 /\ Tidy(queue, queue', c, {}) /\ {} \cap Holds(queue', c) = {}
                 /\ {} \cap Held \subseteq Holds(queue, c)
          BY <3>2, <4>1
        <4> QED
          BY ONLY EventsInv, <1>2, <1>5, <2>1, <3>2, <3>3, <4>2, <4>3, QueueTrade
      <3> QED
        BY <1>1, <3>1, <3>2, <3>4 DEF Balanced
    <2> QED
      BY <2>2, <2>3
  <1>10. TypeInv'
    BY <1>1, <1>3, <1>4, <1>5, <1>9 DEF TypeInv, AcpType, BelowThreshold, SameLoads
  <1>11. late = {} => /\ TurnsDivide'
                      /\ \A d \in Channels : \A x \in queue.withheld[d] :
                            Pledged(d, x)' /\ x \in Held' => x \in queue'.withheld[d]
    BY <1>5, <1>7, <1>9 DEF EventsInv
  <1> QED
    BY <1>3, <1>6, <1>9, <1>10, <1>11, StepKeeps

\* What goes back to the queue when a task is over, and what meets its fate.
GoesBack(t, q) ==
    IF t.keep /\ t.ch \notin removed
    THEN CASE t.ended \in {"cancelled", "drained"} -> t.events \cup t.carried
           [] t.ended \in {"exited", "failed", "panicked"} /\ ~DeadLetters(q, t.ch) -> t.events
           [] OTHER -> {}
    ELSE {}
Gone(t, q) == UNION {Fates(t, q)[f] : f \in Fate}

\* Between them they are the whole batch, and they are apart.
LEMMA BatchIsSplit ==
    ASSUME NEW t \in Turn, NEW q
    PROVE  /\ GoesBack(t, q) \cup Gone(t, q) = t.events \cup t.carried
           /\ t.events \cap t.carried = {} => GoesBack(t, q) \cap Gone(t, q) = {}
           /\ \A f \in Fate : Fates(t, q)[f] \subseteq Event
  <1> DEFINE F == Fates(t, q)
             all == t.events \cup t.carried
             returned == t.keep /\ t.ch \notin removed
             retried == /\ returned /\ t.ended \in {"exited", "failed", "panicked"}
                        /\ ~DeadLetters(q, t.ch)
             merged == returned /\ t.ended \in {"cancelled", "drained"}
  <1>1. /\ F.delivered = (IF t.ended = "ok" THEN all ELSE {})
        /\ F.given_up = (IF t.ended = "ok" \/ retried \/ merged THEN {} ELSE all)
        /\ F.spilled = (IF retried THEN t.carried ELSE {})
    BY DEF Fates
  <1>2. all \subseteq Event
    BY DEF Turn
  <1>3. Gone(t, q) = F.delivered \cup F.given_up \cup F.spilled
    <2> HIDE DEF F
    <2> QED
      BY DEF Gone, Fate, F
  <1>4. GoesBack(t, q) = IF merged THEN all ELSE IF retried THEN t.events ELSE {}
    BY DEF GoesBack
  <1>5. /\ merged => ~retried /\ t.ended # "ok"
        /\ retried => t.ended # "ok"
    OBVIOUS
  <1> HIDE DEF F, returned, retried, merged
  <1>6. \A f \in Fate : F[f] \subseteq Event
    BY <1>1, <1>2 DEF Fate
  <1>7. GoesBack(t, q) \cup Gone(t, q) = all
    BY <1>1, <1>3, <1>4, <1>5
  <1>8. t.events \cap t.carried = {} => GoesBack(t, q) \cap Gone(t, q) = {}
    BY <1>1, <1>3, <1>4, <1>5
  <1> QED
    BY <1>6, <1>7, <1>8 DEF F

\* handle_prompt_result on the queue takes in what goes back, and nothing else.
LEMMA FinishedBalance ==
    ASSUME NEW q \in EventQueueType(Event), NEW t \in Turn, t.ch \in Channels
    PROVE  LET r == Finished(q, t)
               in == GoesBack(t, q)
           IN  /\ Balanced(q, r, t.ch, in, {})
               /\ Once(q, t.ch) /\ in \cap Holds(q, t.ch) = {} => Tidy(q, r, t.ch, {})
               /\ \A d \in Channels : r.withheld[d] = q.withheld[d]
  <1> DEFINE r == Finished(q, t)
             in == GoesBack(t, q)
             p == IF t.keep /\ t.ch \notin removed THEN Retried(q, t, t.ended) ELSE q
  <1>1. r = MarkComplete(p, t.ch)
    BY NoChannelAssumption DEF Finished
  <1>2. t.events \in SUBSET Event /\ t.carried \in SUBSET Event
    BY DEF Turn
  <1>3. /\ Balanced(q, p, t.ch, in, {})
        /\ Once(q, t.ch) /\ in \cap Holds(q, t.ch) = {} => Tidy(q, p, t.ch, {})
        /\ \A d \in Channels : p.withheld[d] = q.withheld[d]
    <2>1. ASSUME SameContents(q, p), in = {}
          PROVE  /\ Balanced(q, p, t.ch, in, {}) /\ (Once(q, t.ch) => Tidy(q, p, t.ch, {}))
                 /\ \A d \in Channels : p.withheld[d] = q.withheld[d]
      <3> HIDE DEF p, in
      <3> QED
        BY <2>1, SelfBalance DEF SameContents
    <2>2. CASE ~(t.keep /\ t.ch \notin removed)
      <3>1. p = q /\ in = {}
        BY <2>2 DEF GoesBack
      <3>2. SameContents(q, p)
        BY <3>1 DEF SameContents
      <3> HIDE DEF p, in
      <3> QED
        BY <2>1, <3>1, <3>2
    <2>3. CASE t.keep /\ t.ch \notin removed /\ t.ended \in {"cancelled", "drained"}
      <3>1. p = RequeueAsCancelled(q, t) /\ in = t.events \cup t.carried
        BY <2>3 DEF Retried, GoesBack
      <3> HIDE DEF p, in
      <3>2. /\ Balanced(q, p, t.ch, in, {})
            /\ Once(q, t.ch) /\ in \cap Holds(q, t.ch) = {} => Tidy(q, p, t.ch, {})
        BY <1>2, <3>1, CancelledBalance
      <3>3. \A d \in Channels : p.withheld[d] = q.withheld[d]
        BY <1>2, <3>1, CancelledBalance
      <3> QED
        BY <3>2, <3>3
    <2>4. CASE t.keep /\ t.ch \notin removed /\ t.ended \in {"exited", "failed", "panicked"}
      <3>1. p = Requeue(q, t) /\ in = IF DeadLetters(q, t.ch) THEN {} ELSE t.events
        BY <2>4 DEF Retried, GoesBack
      <3> HIDE DEF p, in
      <3>2. CASE DeadLetters(q, t.ch)
        <4>1. SameContents(q, p) /\ in = {}
          BY <1>2, <3>1, <3>2, RequeueBalance
        <4> QED
          BY <2>1, <4>1
      <3>3. CASE ~DeadLetters(q, t.ch)
        <4>1. /\ Balanced(q, p, t.ch, in, {})
              /\ Once(q, t.ch) /\ in \cap Holds(q, t.ch) = {} => Tidy(q, p, t.ch, {})
          BY <1>2, <3>1, <3>3, RequeueBalance
        <4>2. \A d \in Channels : p.withheld[d] = q.withheld[d]
          BY <1>2, <3>1, <3>3, RequeueBalance
        <4> QED
          BY <4>1, <4>2
      <3> QED
        BY <3>2, <3>3
    <2>5. CASE /\ t.keep /\ t.ch \notin removed
               /\ t.ended \notin {"cancelled", "drained", "exited", "failed", "panicked"}
      <3>1. p = q /\ in = {}
        BY <2>5 DEF Retried, GoesBack
      <3>2. SameContents(q, p)
        BY <3>1 DEF SameContents
      <3> HIDE DEF p, in
      <3> QED
        BY <2>1, <3>1, <3>2
    <2> HIDE DEF p, in
    <2> QED
      BY <2>2, <2>3, <2>4, <2>5
  <1> HIDE DEF p, in, r
  <1>4. p \in EventQueueType(Event)
    BY <1>3 DEF Balanced
  <1>5. SameContents(p, r)
    BY <1>1, <1>4, MarksHoldTheSame
  <1>6. /\ Balanced(q, r, t.ch, in, {})
        /\ Tidy(q, p, t.ch, {}) => Tidy(q, r, t.ch, {})
    BY <1>3, <1>5, SameBalance
  <1>7. \A d \in Channels : r.withheld[d] = q.withheld[d]
    BY <1>3, <1>5 DEF SameContents
  <1> QED
    BY <1>3, <1>6, <1>7 DEF in, r

\* A task that is over gives its batch up to the queue or to its fate.
LEMMA TaskOverEvents ==
    ASSUME EventsInv, PoolTyped', NEW a \in Checked, queue' = Finished(queue, turn[a]),
           FateStep(turn[a]), turn' = [turn EXCEPT ![a] = NoTurn],
           UNCHANGED <<mode, born, removed, acks, late>>
    PROVE  EventsInv'
  <1> DEFINE t == turn[a]
             in == GoesBack(t, queue)
             gone == Gone(t, queue)
  <1>1. /\ TypeInv /\ queue \in EventQueueType(Event) /\ past \in [Fate -> SUBSET Event]
        /\ turn \in [Agents -> Turn] /\ TurnShape
    BY DEF EventsInv, TypeInv, AcpType
  <1>2. a \in Agents /\ t \in Turn /\ TurnHolds(a) = t.events \cup t.carried
    BY <1>1 DEF Checked, TurnHolds
  <1>3. /\ in \cup gone = t.events \cup t.carried
        /\ t.events \cap t.carried = {} => in \cap gone = {}
        /\ \A f \in Fate : Fates(t, queue)[f] \subseteq Event
    BY <1>2, BatchIsSplit
  <1>4. past' \in [Fate -> SUBSET Event] /\ AllPast' = AllPast \cup gone
    <2>1. past' = [f \in Fate |-> past[f] \cup Fates(t, queue)[f]]
      BY DEF FateStep
    <2>2. past' \in [Fate -> SUBSET Event]
      BY <1>1, <1>3, <2>1
    <2>3. AllPast' = AllPast \cup gone
      BY <2>1 DEF AllPast, Gone
    <2> QED
      BY <2>2, <2>3
  <1> HIDE DEF in, gone
  <1>5. /\ turn' \in [Agents -> Turn]
        /\ turn'[a].ch = NoChannel /\ turn'[a].events = {} /\ turn'[a].carried = {}
        /\ turn'[a].steers = {} /\ turn'[a].ended = "none"
        /\ \A b \in Agents \ {a} : turn'[b] = turn[b]
    <2>1. /\ NoTurn \in Turn /\ NoTurn.ch = NoChannel /\ NoTurn.events = {} /\ NoTurn.carried = {}
          /\ NoTurn.steers = {} /\ NoTurn.ended = "none"
      BY DEF NoTurn, NewTurn, Turn
    <2> QED
      BY <1>1, <1>2, <2>1
  <1>6. TurnHolds(a)' = {} /\ \A b \in Agents \ {a} : TurnHolds(b)' = TurnHolds(b)
    BY <1>5 DEF TurnHolds, Checked
  <1>7. TurnShape' /\ (TurnsDivide => TurnsDivide')
    BY <1>1, <1>5 DEF TurnShape, TurnsDivide, Running
  <1>8. SteersKept
    BY <1>5, FewerSteers DEF SteersFewer, EventsInv
  <1>9. ASSUME queue' \in EventQueueType(Event) PROVE TypeInv'
    BY <1>1, <1>4, <1>5, <1>7, <1>9 DEF TypeInv, AcpType, PoolTyped
  <1>10. CASE t.ch = NoChannel
    <2>1. t.events = {} /\ t.carried = {}
      BY <1>1, <1>2, <1>10 DEF TurnShape
    <2>2. queue' = queue
      BY <1>10 DEF Finished
    <2>3. Unmoved
      BY <1>1, <1>2, <1>3, <1>4, <1>6, <2>1, <2>2, QueueIsExpired DEF Unmoved
    <2> QED
      BY <1>1, <1>7, <1>8, <1>9, <2>2, <2>3, UnmovedStep
  <1>11. CASE t.ch \in Channels
    <2> DEFINE c == t.ch
    <2>1. /\ Balanced(queue, queue', c, in, {})
          /\ Once(queue, c) /\ in \cap Holds(queue, c) = {} => Tidy(queue, queue', c, {})
      BY <1>1, <1>2, <1>11, FinishedBalance DEF in
    <2>2. \A d \in Channels : queue'.withheld[d] = queue.withheld[d]
      BY <1>1, <1>2, <1>11, FinishedBalance
    <2>3. in \cup gone = TurnHolds(a) /\ TurnHolds(a) \subseteq 1..born
      BY <1>2, <1>3, HeldSomewhere DEF EventsInv, HeldArrived
    <2>4. Accounts(queue, c, a, in, {}, {}, gone)
      <3>1. 1..born' = 1..born \cup {} /\ Expired(queue)
        BY <1>1, QueueIsExpired
      <3> QED
        BY <1>4, <1>6, <2>1, <2>3, <3>1 DEF Accounts
    <2>5. ASSUME late = {}, Apart, Over
          PROVE  Clean(queue, c, a, in, {}, gone)
      <3>1. in \cap gone = {}
        BY <1>2, <1>3, <2>5 DEF EventsInv, TurnsDivide
      <3>2. Once(queue, c) /\ Holds(queue, c) \cap TurnHolds(a) = {}
        BY <1>2, <1>11, <2>5 DEF Apart
      <3>3. Tidy(queue, queue', c, {})
        BY <2>1, <2>3, <3>2
      <3>4. gone \cap Holds(queue', c) = {}
        BY <2>1, <2>3, <3>1, <3>2 DEF Balanced
      <3> QED
        BY <1>6, <2>3, <3>3, <3>4 DEF Clean
    <2>6. EventsKept({})
      BY <1>11, <2>4, <2>5, TradeKeeps
    <2>7. TypeInv'
      BY <1>9, <2>1 DEF Balanced
    <2>8. late = {} => TurnsDivide'
      BY <1>7 DEF EventsInv
    <2> QED
      BY <1>8, <2>2, <2>6, <2>7, <2>8, StepKeeps
  <1> QED
    BY <1>2, <1>10, <1>11 DEF Turn

\* record_crash keeps a closed breaker below its threshold.
LEMMA CrashTyped ==
    ASSUME PoolTyped, NEW a \in Agents, RecordCrash(a), idle' \subseteq Agents,
           loop' \in {"turning", "waiting", "joining", "dispatch", "exited"},
           UNCHANGED <<pool, mail>>
    PROVE  PoolTyped'
  <1>1. /\ circuit \in [Agents -> {"closed", "open", "cooled"}]
        /\ crashes \in [Agents -> 0..CrashThreshold]
        /\ respawning \subseteq Agents /\ BelowThreshold
    BY DEF PoolTyped
  <1>2. CASE circuit[a] = "open"
    BY <1>1, <1>2 DEF RecordCrash, PoolTyped, BelowThreshold
  <1>3. CASE circuit[a] = "cooled"
    <2>1. /\ crashes' = [crashes EXCEPT ![a] = CrashThreshold - 1]
          /\ circuit' = [circuit EXCEPT ![a] = "closed"]
          /\ respawning' = respawning \cup {a}
      BY <1>3 DEF RecordCrash
    <2>2. CrashThreshold - 1 \in 0..CrashThreshold /\ CrashThreshold - 1 < CrashThreshold
      BY ThresholdAssumption
    <2> QED
      BY <1>1, <2>1, <2>2 DEF PoolTyped, BelowThreshold
  <1>4. CASE circuit[a] = "closed"
    <2>1. /\ crashes' = [crashes EXCEPT ![a] = @ + 1]
          /\ IF crashes[a] + 1 >= CrashThreshold
             THEN circuit' = [circuit EXCEPT ![a] = "open"] /\ respawning' = respawning
             ELSE respawning' = respawning \cup {a} /\ circuit' = circuit
      BY <1>4 DEF RecordCrash
    <2>2. crashes[a] + 1 \in 0..CrashThreshold
      BY <1>1, <1>4, ThresholdAssumption DEF BelowThreshold
    <2>3. crashes' \in [Agents -> 0..CrashThreshold] /\ respawning' \subseteq Agents
      BY <1>1, <2>1, <2>2
    <2>4. circuit' \in [Agents -> {"closed", "open", "cooled"}] /\ BelowThreshold'
      BY <1>1, <2>1, <2>2, ThresholdAssumption DEF BelowThreshold
    <2> QED
      BY <2>3, <2>4 DEF PoolTyped
  <1> QED
    BY <1>1, <1>2, <1>3, <1>4

\* handle_prompt_result and recover_panicked_agent.
LEMMA ResultEvents ==
    ASSUME EventsInv, NEW a \in Agents, HandleResult(a) \/ HandlePanic(a)
    PROVE  EventsInv'
  <1>1. PoolTyped
    BY DEF EventsInv, TypeInv, AcpType, PoolTyped
  <1>2. /\ a \in Checked /\ queue' = Finished(queue, turn[a]) /\ FateStep(turn[a])
        /\ turn' = [turn EXCEPT ![a] = NoTurn]
        /\ UNCHANGED <<mode, born, removed, pool, mail, acks, late>>
    BY DEF HandleResult, HandlePanic
  <1>3. loop' \in {"turning", "waiting", "joining", "dispatch", "exited"}
    BY <1>1 DEF HandleResult, HandlePanic, PoolTyped
  <1>4. \/ RecordCrash(a) /\ idle' = idle
        \/ idle' = idle \cup {a} /\ UNCHANGED <<circuit, crashes, respawning>>
    BY DEF HandleResult, HandlePanic
  <1>5. PoolTyped'
    <2>1. CASE RecordCrash(a) /\ idle' = idle
      <3>1. idle' \subseteq Agents
        BY <1>1, <2>1 DEF PoolTyped
      <3> QED
        BY <1>1, <1>2, <1>3, <2>1, <3>1, CrashTyped
    <2>2. CASE idle' = idle \cup {a} /\ UNCHANGED <<circuit, crashes, respawning>>
      BY <1>1, <1>2, <1>3, <2>2 DEF PoolTyped, BelowThreshold
    <2> QED
      BY <1>4, <2>1, <2>2
  <1> QED
    BY <1>2, <1>5, TaskOverEvents

-----------------------------------------------------------------------------
(* The theorems.                                                            *)

\* Nothing has arrived at first.
LEMMA InitEventsInv == Init => EventsInv
  <1> SUFFICES ASSUME Init PROVE EventsInv
    OBVIOUS
  <1>1. queue = EmptyQueue /\ 0 \in 0..MaxRetries
    BY CapsAssumption DEF Init
  <1>2. /\ queue \in EventQueueType(Event) /\ queue.shed = {}
        /\ \A ch \in Channels : /\ queue.queues[ch] = <<>> /\ queue.cancelled[ch] = {}
                                /\ queue.withheld[ch] = {}
    <2>1. <<>> \in Seq(Event) /\ {} \in SUBSET Event /\ "no" \in InFlight /\ "none" \in Throttle
      BY DEF InFlight, Throttle
    <2> QED
      BY <1>1, <2>1 DEF EmptyQueue, EventQueueType
  <1>3. \A ch \in Channels : Pending(queue, ch) = {} /\ Holds(queue, ch) = {} /\ Once(queue, ch)
    BY <1>2 DEF Pending, ToSet, Holds, Once, Distinct
  <1>4. /\ NoTurn \in Turn /\ NoTurn.ch = NoChannel /\ NoTurn.events = {} /\ NoTurn.carried = {}
        /\ NoTurn.steers = {} /\ NoTurn.ended = "none"
    BY DEF NoTurn, NewTurn, Turn
  <1>5. turn = [a \in Agents |-> NoTurn]
    BY DEF Init
  <1>6. /\ turn \in [Agents -> Turn]
        /\ \A a \in Agents : /\ turn[a].ch = NoChannel /\ turn[a].events = {}
                             /\ turn[a].carried = {} /\ turn[a].steers = {}
                             /\ turn[a].ended = "none"
    BY <1>4, <1>5
  <1>7. \A a \in Agents : TurnHolds(a) = {}
    BY <1>6 DEF TurnHolds
  <1>8. Held = {} /\ AllPast = {} /\ acks = {} /\ born = 0 /\ past \in [Fate -> SUBSET Event]
    <2>1. Held = {}
      BY <1>3, <1>7, HeldSomewhere
    <2> QED
      BY <2>1 DEF Init, AllPast
  <1>9. TypeInv
    <2>1. born \in 0..MaxEvents /\ 0 \in 0..CrashThreshold /\ 0 < CrashThreshold
      BY <1>8, EventsAssumption, ThresholdAssumption
    <2>2. /\ mode \in Modes /\ removed \subseteq Channels /\ late \subseteq Channels
          /\ loop \in {"turning", "waiting", "joining", "dispatch", "exited"}
          /\ pool \in {"listening", "waking", "failed", "due", "ready"}
          /\ idle \subseteq Agents
          /\ circuit \in [Agents -> {"closed", "open", "cooled"}]
          /\ respawning \subseteq Agents
          /\ mail \subseteq [agent : Agents, ok : BOOLEAN]
      BY DEF Init
    <2>3. crashes \in [Agents -> 0..CrashThreshold] /\ BelowThreshold
      BY <2>1 DEF Init, BelowThreshold
    <2>4. TurnShape
      BY <1>6 DEF TurnShape, Running
    <2> QED
      BY <1>2, <1>6, <1>8, <2>1, <2>2, <2>3, <2>4 DEF TypeInv, AcpType
  <1>10. NothingForgotten /\ HeldArrived /\ SteersArrived /\ OfferedOnce
    BY <1>2, <1>6, <1>8 DEF NothingForgotten, HeldArrived, SteersArrived, OfferedOnce
  <1>11. Apart /\ TurnsDivide /\ Over /\ Offered
    BY <1>3, <1>6, <1>7, <1>8 DEF Apart, TurnsDivide, Over, Offered
  <1> QED
    BY <1>9, <1>10, <1>11 DEF EventsInv

\* Every step keeps the invariant.
LEMMA StepEventsInv ==
    ASSUME EventsInv, PoolInv, [Next]_vars
    PROVE  EventsInv'
  <1>1. ASSUME NEW ch \in Channels,
               \/ RelayEvent(ch)
               \/ \E signal \in {"merge", "stop"} : OwnerControl(ch, signal)
               \/ MemberRemoved(ch) \/ MemberAdded(ch)
               \/ ThrottleElapses(ch) \/ DeadlinePasses(ch)
        PROVE  EventsInv'
    BY <1>1, RelayEvents, OwnerControlEvents, MemberRemovedEvents, ClockEvents
  <1>2. CASE Dispatch
    BY <1>2, ExpiryEvents, DispatchBatchEvents, DispatchExhaustedEvents DEF Dispatch
  <1>3. ASSUME NEW a \in Agents,
               \/ \E outcome \in Outcome : TurnEnds(a, outcome)
               \/ \E e \in Event, how \in {"success", "release", "fallback"} : SteerAnswered(a, e, how)
               \/ HandleResult(a) \/ HandlePanic(a)
        PROVE  EventsInv'
    BY <1>3, TurnEndsEvents, SteerAnsweredEvents, ResultEvents
  <1>4. ASSUME NEW a \in Agents,
               \/ \E ok \in BOOLEAN : RespawnEnds(a, ok)
               \/ CollectRespawn(a) \/ CooldownPasses(a) \/ CrashWindowPasses(a)
        PROVE  EventsInv'
    BY <1>4, SlotEvents
  <1>5. CASE \E ack \in acks : HandleSteerAck(ack)
    BY <1>5, HandleSteerAckEvents
  <1>6. CASE Maintenance \/ StartWake \/ HeartbeatTick
    BY <1>6, MaintenanceEvents, ExpiryEvents, HeartbeatEvents
  <1>7. CASE \/ \E started \in SUBSET Agents : WakeEnds(started)
             \/ WakeRetryDue \/ IdlePoolSleep \/ Wait \/ UNCHANGED vars
    BY <1>7, SlotEvents
  <1> QED
    BY <1>1, <1>2, <1>3, <1>4, <1>5, <1>6, <1>7 DEF Next

\* The inductive invariant holds throughout: the types, the account of the events, the
\* steers and, until a turn is late, one place for each event.
THEOREM EventsInvariant == Spec => []EventsInv
  <1>1. EventsInv /\ PoolInv /\ [Next]_vars => EventsInv'
    BY StepEventsInv
  <1> QED
    BY InitEventsInv, <1>1, PoolInvariant, PTL DEF Spec

\* The state keeps its types: the retry counts of requeue stay within MAX_RETRIES and
\* the crashes of record_crash within the breaker's threshold.
THEOREM TypesAreKept == Spec => []AcpType
  <1>1. EventsInv => AcpType
    BY DEF EventsInv, TypeInv
  <1> QED
    BY <1>1, EventsInvariant, PTL

\* No handler and no method of the queue loses an event silently, whatever fails,
\* times out or is cancelled.
THEOREM EventsAreAccountedFor == Spec => []NothingForgotten
  <1>1. EventsInv => NothingForgotten
    BY DEF EventsInv
  <1> QED
    BY <1>1, EventsInvariant, PTL

\* A set any two of whose members are equal has at most one.
LEMMA AtMostOne ==
    ASSUME NEW S, \A x, y \in S : x = y
    PROVE  Cardinality(S) <= 1
  <1>1. CASE S = {}
    BY <1>1, FS_EmptySet
  <1>2. CASE S # {}
    <2>1. PICK x : S = {x}
      BY <1>2
    <2> QED
      BY <2>1, FS_Singleton
  <1> QED
    BY <1>1, <1>2

\* An event that is held apart is in one place.
LEMMA OnePlace ==
    ASSUME queue \in EventQueueType(Event), Apart, NEW e
    PROVE  Cardinality(Places(e)) <= 1
  <1> DEFINE Pends(x, ch, i) == /\ x = <<"pending", ch, i>> /\ i \in 1..Len(queue.queues[ch])
                                /\ queue.queues[ch][i] = e
             Lies(x, ch) == \/ \E i \in Nat : Pends(x, ch, i)
                            \/ x = <<"cancelled", ch, 0>> /\ e \in queue.cancelled[ch]
                            \/ x = <<"withheld", ch, 0>> /\ e \in queue.withheld[ch]
             Runs(x, a) == x = <<"turn", a, 0>> /\ e \in TurnHolds(a)
  <1>1. \A ch \in Channels : Len(queue.queues[ch]) \in Nat
    BY QueueTypes
  <1>2. ASSUME NEW x \in Places(e)
        PROVE  (\E ch \in Channels : Lies(x, ch)) \/ (\E a \in Agents : Runs(x, a))
    <2>1. \/ \E y \in Channels \X (1..MaxPending) : /\ y[2] <= Len(queue.queues[y[1]])
                                                    /\ queue.queues[y[1]][y[2]] = e
                                                    /\ x = <<"pending", y[1], y[2]>>
          \/ \E ch \in Channels : e \in queue.cancelled[ch] /\ x = <<"cancelled", ch, 0>>
          \/ \E ch \in Channels : e \in queue.withheld[ch] /\ x = <<"withheld", ch, 0>>
          \/ \E a \in Agents : e \in TurnHolds(a) /\ x = <<"turn", a, 0>>
      BY DEF Places
    <2>2. ASSUME NEW y \in Channels \X (1..MaxPending), y[2] <= Len(queue.queues[y[1]]),
                 queue.queues[y[1]][y[2]] = e, x = <<"pending", y[1], y[2]>>
          PROVE  Pends(x, y[1], y[2]) /\ y[1] \in Channels /\ y[2] \in Nat
      BY <1>1, <2>2, CapsAssumption
    <2> QED
      BY <2>1, <2>2
  <1>3. \A ch \in Channels : \A i \in 1..Len(queue.queues[ch]) :
           queue.queues[ch][i] = e => e \in Pending(queue, ch)
    BY QueueTypes, MembersOf DEF Pending
  <1>4. ASSUME NEW x, NEW ch \in Channels, Lies(x, ch)
        PROVE  e \in Holds(queue, ch)
    BY <1>3, <1>4 DEF Holds
  <1>5. ASSUME NEW x, NEW y, NEW ch \in Channels, Lies(x, ch), Lies(y, ch)
        PROVE  x = y
    <2>1. Once(queue, ch)
      BY DEF Apart
    <2>2. ASSUME NEW i \in Nat, NEW j \in Nat, Pends(x, ch, i), Pends(y, ch, j)
          PROVE  x = y
      <3>1. i = j
        BY <2>1, <2>2 DEF Once, Distinct
      <3> QED
        BY <2>2, <3>1
    <2>3. (\E i \in Nat : Pends(x, ch, i)) => e \in Pending(queue, ch)
      BY <1>3
    <2>4. (\E i \in Nat : Pends(y, ch, i)) => e \in Pending(queue, ch)
      BY <1>3
    <2> HIDE DEF Pends
    <2> QED
      BY <1>5, <2>1, <2>2, <2>3, <2>4 DEF Once
  <1> HIDE DEF Lies
  <1>6. ASSUME NEW x \in Places(e), NEW y \in Places(e)
        PROVE  x = y
    <2>1. ASSUME NEW c \in Channels, NEW d \in Channels, Lies(x, c), Lies(y, d) PROVE x = y
      <3>1. c = d
        BY <1>4, <2>1 DEF Apart
      <3> QED
        BY <1>5, <2>1, <3>1
    <2>2. ASSUME NEW c \in Channels, NEW a \in Agents, 
                 (Lies(x, c) /\ Runs(y, a)) \/ (Lies(y, c) /\ Runs(x, a))
          PROVE  FALSE
      BY <1>4, <2>2 DEF Apart
    <2>3. ASSUME NEW a \in Agents, NEW b \in Agents, Runs(x, a), Runs(y, b) PROVE x = y
      BY <2>3 DEF Apart
    <2> QED
      BY <1>2, <2>1, <2>2, <2>3
  <1> QED
    BY <1>6, AtMostOne

\* Until a turn outlives its channel's deadline no event is queued, merged, withheld or
\* being delivered twice, and a settled one is not delivered again: the
\* no-double-deliver invariant of queue.rs.
THEOREM EventsAreHeldOnce == Spec => []HeldOnce
  <1>1. EventsInv => HeldOnce
    BY OnePlace DEF EventsInv, TypeInv, AcpType, HeldOnce, Over, AllPast
  <1> QED
    BY <1>1, EventsInvariant, PTL
=============================================================================
