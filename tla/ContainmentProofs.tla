-------------------------- MODULE ContainmentProofs --------------------------
(***************************************************************************)
(* Proofs about Containment, for any number of requests, hosts and         *)
(* operators, any ttl, either store and any number of crashes.             *)
(*                                                                         *)
(* The argument: a lease is written once, after its effect, and the effect *)
(* never comes back once undone; so a reversal a release call carries over *)
(* its awaits is still true when it is signed, stored and published, and a *)
(* lease another caller closed cannot be closed a second time.             *)
(***************************************************************************)
EXTENDS Containment, TLAPS

\* The safety properties, all of them inductive together.
Safe ==
    /\ ContainmentInv
    /\ EffectIsTracked
    /\ ClosedOnce
    /\ ReversalsAreReal
    /\ AnnouncedIsTrue
    /\ ClosedIsAnnounced

\* The properties hold when the daemon is first started.
LEMMA InitSafe == Init => Safe
<1> SUFFICES ASSUME Init PROVE Safe
  OBVIOUS
<1> USE DEF Init
<1>1. ContainmentType
  BY TtlAssumption, LeaseNoneAssumption DEF ContainmentType, Idle, Outcome, InFlight
<1>2. CallsAreSound
  BY LeaseNoneAssumption, EventNoneAssumption DEF CallsAreSound, Unleased, Idle, Steps
<1>3. EffectIsTracked /\ ClosedOnce /\ ReversalsAreReal /\ AnnouncedIsTrue /\ ClosedIsAnnounced
  BY DEF EffectIsTracked, ClosedOnce, ReversalsAreReal, AnnouncedIsTrue, ClosedIsAnnounced
<1> QED
  BY <1>1, <1>2, <1>3 DEF Safe, ContainmentInv

\* A step of authorize_and_execute keeps the properties.
LEMMA ExecutionSafe ==
    ASSUME Safe, NEW h \in Request, Execution(h)
    PROVE  Safe'
<1> USE DEF InFlight, Outcome
<1>0. /\ ContainmentType /\ CallsAreSound
      /\ UNCHANGED <<crashes, closed, caller, pass, signed, announced>>
  BY DEF Safe, ContainmentInv, Execution, Refuse, Dispatch, AdapterActs, AdapterFails,
         RecordLease, LeaseNotRecorded, RequestDropped, Moves
<1>1. /\ request' \in [Request -> InFlight \cup Outcome]
      /\ request'[h] \in InFlight \cup Outcome
      /\ request'[h] # "new"
      /\ request[h] \in {"new", "dispatched", "executed"}
      /\ request'[h] \in InFlight \cup {"refused"} => request[h] \in {"new", "dispatched"}
      /\ open' \in {open, open \cup {h}}
      /\ open' # open => request[h] = "executed" /\ request'[h] = "leased"
      /\ request'[h] = "leased" => open' = open \cup {h}
      /\ contained' \in {contained, contained \cup {h}}
      /\ contained' # contained => /\ request[h] = "dispatched"
                                   /\ request'[h] \in {"executed", "failed", "lost"}
      /\ request'[h] = "dispatched" => request[h] = "new"
      /\ request'[h] = "refused" => request[h] = "new"
  BY <1>0 DEF Execution, Refuse, Dispatch, AdapterActs, AdapterFails, ContainmentType,
         RecordLease, LeaseNotRecorded, RequestDropped, Moves, IsNext
<1>2. left' \in [Request -> 0..Ttl] /\ reversible' \subseteq Request
  BY <1>0, TtlAssumption DEF Execution, Refuse, Dispatch, AdapterActs, AdapterFails, ContainmentType,
         RecordLease, LeaseNotRecorded, RequestDropped, Moves, IsNext
<1>3. ContainmentType'
  BY <1>0, <1>1, <1>2 DEF ContainmentType
<1>4. \A k \in Request : k # h => request'[k] = request[k]
  BY <1>0 DEF Execution, Refuse, Dispatch, AdapterActs, AdapterFails, ContainmentType,
         RecordLease, LeaseNotRecorded, RequestDropped, Moves
<1>5. Unleased(h)
  BY <1>0, <1>1 DEF CallsAreSound
<1>6. CallsAreSound'
  BY <1>0, <1>1, <1>4, <1>5 DEF CallsAreSound, Unleased
<1>7. EffectIsTracked'
  <2> SUFFICES ASSUME NEW k \in contained'
               PROVE  \/ k \in open' \/ request'[k] \in {"executed", "failed", "lost"}
                      \/ \E i \in 1..Len(closed'[k]) : closed'[k][i] = "unrestored"
                      \/ ~Durable /\ crashes' > 0
    BY DEF EffectIsTracked
  <2>1. CASE k = h
    BY <2>1, <1>0, <1>1, <1>5 DEF CallsAreSound
  <2>2. CASE k # h
    <3>1. k \in contained /\ k \in Request
      BY <2>2, <1>0, <1>1 DEF ContainmentType
    <3> QED
      BY <2>2, <3>1, <1>0, <1>1, <1>4 DEF Safe, EffectIsTracked
  <2> QED
    BY <2>1, <2>2
<1>8. (ClosedOnce /\ ReversalsAreReal /\ AnnouncedIsTrue /\ ClosedIsAnnounced)'
  BY <1>0, <1>1, <1>5 DEF Safe, ClosedOnce, ReversalsAreReal, AnnouncedIsTrue, ClosedIsAnnounced,
     Unleased
<1> QED
  BY <1>3, <1>6, <1>7, <1>8 DEF Safe, ContainmentInv

\* Time, and the sweep's own book-keeping, keep the properties.
LEMMA QuietSafe ==
    ASSUME Safe,
           \/ Tick
           \/ SweepStarts
           \/ \E h \in Request : SweepPassesOver(h)
    PROVE  Safe'
<1>1. /\ UNCHANGED <<crashes, request, reversible, contained, open, closed, caller, signed, announced>>
      /\ left' \in [Request -> 0..Ttl]
      /\ pass' \subseteq Request
  <2>1. CASE Tick
    <3>1. ASSUME NEW h \in Request PROVE left'[h] \in 0..Ttl
      BY <2>1, TtlAssumption DEF Tick, Running, Safe, ContainmentInv, ContainmentType
    <3>2. left' = [h \in Request |-> left'[h]]
      BY <2>1 DEF Tick
    <3> QED
      BY <2>1, <3>1, <3>2 DEF Tick, store, Safe, ContainmentInv, ContainmentType
  <2>2. CASE SweepStarts \/ \E h \in Request : SweepPassesOver(h)
    BY <2>2 DEF SweepStarts, SweepPassesOver, store, Safe, ContainmentInv, ContainmentType
  <2> QED
    BY <2>1, <2>2
<1> QED
  BY <1>1 DEF Safe, ContainmentInv, ContainmentType, CallsAreSound, Unleased, EffectIsTracked,
     ClosedOnce, ReversalsAreReal, AnnouncedIsTrue, ClosedIsAnnounced

\* Taking up a lease keeps the properties.
LEMMA TakeSafe ==
    ASSUME Safe, NEW h \in Request, NEW c \in Caller,
           OperatorReleases(c, h) \/ (c = Sweep /\ SweepTakes(h))
    PROVE  Safe'
<1>1. /\ caller[c] = Idle /\ h \in open
      /\ caller' = [caller EXCEPT ![c] = [at |-> "rolling", lease |-> h, steps |-> None]]
      /\ UNCHANGED <<crashes, request, left, reversible, contained, open, closed, signed, announced>>
      /\ pass' \subseteq Request
  BY DEF Safe, ContainmentInv, ContainmentType, OperatorReleases, SweepTakes, Turn, Releases, store
<1>2. \A d \in Caller : d # c => caller'[d] = caller[d]
  BY <1>1 DEF Safe, ContainmentInv, ContainmentType
<1>3. caller'[c] = [at |-> "rolling", lease |-> h, steps |-> None]
  BY <1>1 DEF Safe, ContainmentInv, ContainmentType
<1>4. ContainmentType'
  BY <1>1 DEF Safe, ContainmentInv, ContainmentType
<1>5. CallsAreSound'
  BY <1>1, <1>2, <1>3, EventNoneAssumption
     DEF Safe, ContainmentInv, CallsAreSound, Unleased, Steps
<1>6. ClosedIsAnnounced'
  BY <1>1, <1>2, <1>3 DEF Safe, ClosedIsAnnounced, Idle
<1> QED
  BY <1>1, <1>4, <1>5, <1>6 DEF Safe, ContainmentInv, EffectIsTracked, ClosedOnce,
     ReversalsAreReal, AnnouncedIsTrue

\* The executor's answer, and an operator who goes away, keep the properties.
LEMMA AnswerSafe ==
    ASSUME Safe, NEW c \in Caller,
           InverseLands(c) \/ InverseFails(c) \/ NothingToInvert(c) \/ OperatorGone(c)
    PROVE  Safe'
<1> DEFINE h == caller[c].lease
<1>1. /\ caller[c].at = "rolling" /\ h \in Request
      /\ UNCHANGED <<crashes, request, left, reversible, open, closed, pass, signed, announced>>
      /\ contained' \subseteq contained
  BY DEF Safe, ContainmentInv, CallsAreSound, InverseLands, InverseFails, NothingToInvert,
     OperatorGone, Answered, Releases, Returns, store
<1>2. \/ caller' = [caller EXCEPT ![c] = Idle]
      \/ \E s \in Steps : /\ caller' = [caller EXCEPT ![c] = [at |-> AfterInverse(s), lease |-> h,
                                                              steps |-> s]]
                          /\ s = "reversed" => h \notin contained'
  BY <1>1 DEF InverseLands, InverseFails, NothingToInvert, OperatorGone, Answered, Releases, Returns,
     Steps, SameHost
<1>3. \A d \in Caller : d # c => caller'[d] = caller[d]
  BY <1>2 DEF Safe, ContainmentInv, ContainmentType
<1>4. \/ caller'[c] = Idle
      \/ \E s \in Steps : /\ caller'[c] = [at |-> AfterInverse(s), lease |-> h, steps |-> s]
                          /\ s = "reversed" => h \notin contained'
  BY <1>2 DEF Safe, ContainmentInv, ContainmentType
<1>5. ContainmentType'
  <2>1. caller'[c] \in [at : {"idle", "rolling", "rolled", "attested", "publishing"},
                        lease : Request \cup {None}, steps : Steps \cup {None}]
    <3>1. CASE caller'[c] = Idle
      BY <3>1 DEF Idle
    <3>2. ASSUME NEW s \in Steps, caller'[c] = [at |-> AfterInverse(s), lease |-> h, steps |-> s]
          PROVE  caller'[c] \in [at : {"idle", "rolling", "rolled", "attested", "publishing"},
                                 lease : Request \cup {None}, steps : Steps \cup {None}]
      BY <3>2, <1>1 DEF AfterInverse
    <3> QED
      BY <1>4, <3>1, <3>2
  <2>2. caller' = [caller EXCEPT ![c] = caller'[c]]
    BY <1>2, <1>4 DEF Safe, ContainmentInv, ContainmentType
  <2> QED
    BY <1>1, <2>1, <2>2 DEF Safe, ContainmentInv, ContainmentType
<1>6. CallsAreSound'
  <2>1. ASSUME NEW k \in Request PROVE
          /\ request'[k] \in InFlight \cup {"new", "refused"} => Unleased(k)'
          /\ request'[k] \in {"new", "refused", "dispatched"} => k \notin contained'
    <3>1. caller'[c].lease = None \/ caller'[c].lease = h
      <4>1. CASE caller'[c] = Idle
        BY <4>1 DEF Idle
      <4>2. ASSUME NEW s \in Steps, caller'[c] = [at |-> AfterInverse(s), lease |-> h, steps |-> s]
            PROVE  caller'[c].lease = h
        BY <4>2
      <4> QED
        BY <1>4, <4>1, <4>2
    <3>2. ASSUME Unleased(k) PROVE Unleased(k)'
      BY <3>1, <3>2, <1>1, <1>3, LeaseNoneAssumption DEF Unleased
    <3> QED
      BY <3>2, <1>1 DEF Safe, ContainmentInv, CallsAreSound
  <2>2. ASSUME NEW d \in Caller PROVE
          /\ caller'[d].at # "idle" => caller'[d].lease \in Request
          /\ caller'[d].at \in {"rolled", "attested"} => caller'[d].steps \in {"reversed", "unrestored"}
          /\ caller'[d].at = "publishing" => caller'[d].steps \in Steps
          /\ caller'[d].steps = "reversed" => caller'[d].lease \notin contained'
    <3>1. CASE d # c
      BY <3>1, <1>1, <1>3 DEF Safe, ContainmentInv, CallsAreSound
    <3>2. CASE d = c
      BY <3>2, <1>1, <1>4, EventNoneAssumption DEF Idle, AfterInverse, Steps
    <3> QED
      BY <3>1, <3>2
  <2> QED
    BY <2>1, <2>2 DEF CallsAreSound
<1>7. ClosedIsAnnounced'
  BY <1>1, <1>3 DEF Safe, ClosedIsAnnounced
<1> QED
  BY <1>1, <1>5, <1>6, <1>7 DEF Safe, ContainmentInv, EffectIsTracked, ClosedOnce,
     ReversalsAreReal, AnnouncedIsTrue

\* The attestation keeps the properties.
LEMMA AttestSafe ==
    ASSUME Safe, NEW c \in Caller, Attest(c)
    PROVE  Safe'
<1> DEFINE h == caller[c].lease
           s == caller[c].steps
<1>1. /\ caller[c].at = "rolled" /\ h \in Request /\ s \in {"reversed", "unrestored"}
      /\ s = "reversed" => h \notin contained
      /\ UNCHANGED <<crashes, request, left, reversible, contained, open, closed, pass, announced>>
      /\ caller' = [caller EXCEPT ![c] = [at |-> "attested", lease |-> h, steps |-> s]]
      /\ signed' \in {signed, signed \cup {[lease |-> h, steps |-> s]}}
  BY DEF Safe, ContainmentInv, CallsAreSound, Attest, Releases, store
<1> HIDE DEF h, s
<1>2. \A d \in Caller : d # c => caller'[d] = caller[d]
  BY <1>1 DEF Safe, ContainmentInv, ContainmentType
<1>3. caller'[c] = [at |-> "attested", lease |-> h, steps |-> s]
  BY <1>1 DEF Safe, ContainmentInv, ContainmentType
<1>4. ContainmentType'
  BY <1>1 DEF Safe, ContainmentInv, ContainmentType, Steps
<1>5. \A k \in Request : Unleased(k) => k # h
  BY DEF Unleased, h
<1>6. CallsAreSound'
  BY <1>1, <1>2, <1>3, <1>5 DEF Safe, ContainmentInv, CallsAreSound, Unleased
<1>7. ReversalsAreReal'
  BY <1>1 DEF Safe, ReversalsAreReal
<1>8. ClosedIsAnnounced'
  BY <1>1, <1>2 DEF Safe, ClosedIsAnnounced
<1> QED
  BY <1>1, <1>4, <1>6, <1>7, <1>8 DEF Safe, ContainmentInv, EffectIsTracked, ClosedOnce,
     AnnouncedIsTrue

\* Closing a lease keeps the properties.
LEMMA CloseSafe ==
    ASSUME Safe, NEW c \in Caller, Close(c)
    PROVE  Safe'
<1> DEFINE h == caller[c].lease
           s == caller[c].steps
<1>1. /\ caller[c].at = "attested" /\ h \in Request /\ s \in {"reversed", "unrestored"}
      /\ s = "reversed" => h \notin contained
      /\ h \in open
      /\ open' = open \ {h}
      /\ closed' = [closed EXCEPT ![h] = Append(closed[h], s)]
      /\ UNCHANGED <<crashes, request, left, reversible, contained, pass, signed, announced>>
      /\ caller' = [caller EXCEPT ![c] = [at |-> "publishing", lease |-> h, steps |-> s]]
  BY DEF Safe, ContainmentInv, CallsAreSound, Close, Closes, Releases
<1> HIDE DEF h, s
<1>2. \A d \in Caller : d # c => caller'[d] = caller[d]
  BY <1>1 DEF Safe, ContainmentInv, ContainmentType
<1>3. caller'[c] = [at |-> "publishing", lease |-> h, steps |-> s]
  BY <1>1 DEF Safe, ContainmentInv, ContainmentType
<1>4. closed'[h] = <<s>> /\ \A k \in Request : k # h => closed'[k] = closed[k]
  <2>1. closed[h] = <<>>
    BY <1>1 DEF Safe, ClosedOnce
  <2>2. closed'[h] = Append(<<>>, s) /\ \A k \in Request : k # h => closed'[k] = closed[k]
    BY <1>1, <2>1 DEF Safe, ContainmentInv, ContainmentType
  <2> QED
    BY <2>2
<1>5. ContainmentType'
  BY <1>1 DEF Safe, ContainmentInv, ContainmentType, Steps
<1>6. \A k \in Request : Unleased(k) => k # h
  BY DEF Unleased, h
<1>7. CallsAreSound'
  BY <1>1, <1>2, <1>3, <1>4, <1>6 DEF Safe, ContainmentInv, CallsAreSound, Unleased, Steps
<1>8. EffectIsTracked'
  <2> SUFFICES ASSUME NEW k \in contained
               PROVE  \/ k \in open' \/ request[k] \in {"executed", "failed", "lost"}
                      \/ \E i \in 1..Len(closed'[k]) : closed'[k][i] = "unrestored"
                      \/ ~Durable /\ crashes > 0
    BY <1>1 DEF EffectIsTracked
  <2>1. CASE k = h
    <3>0. closed'[h] = <<"unrestored">>
      BY <2>1, <1>1, <1>4
    <3>1. Len(closed'[h]) = 1 /\ closed'[h][1] = "unrestored"
      BY <3>0
    <3> QED
      BY <2>1, <3>1
  <2>2. CASE k # h
    BY <2>2, <1>1, <1>4 DEF Safe, EffectIsTracked, ContainmentInv, ContainmentType
  <2> QED
    BY <2>1, <2>2
<1>9. ClosedOnce'
  BY <1>1, <1>4 DEF Safe, ClosedOnce
<1>10. ReversalsAreReal'
  <2> SUFFICES ASSUME NEW k \in contained
               PROVE  /\ \A i \in 1..Len(closed'[k]) : closed'[k][i] # "reversed"
                      /\ [lease |-> k, steps |-> "reversed"] \notin signed
                      /\ announced[k] # None => announced[k].steps # "reversed"
    BY <1>1 DEF ReversalsAreReal
  <2>1. CASE k = h
    <3>0. closed'[h] = <<"unrestored">>
      BY <2>1, <1>1, <1>4
    <3>1. Len(closed'[h]) = 1 /\ closed'[h][1] = "unrestored"
      BY <3>0
    <3> QED
      BY <2>1, <3>1 DEF Safe, ReversalsAreReal
  <2>2. CASE k # h
    BY <2>2, <1>1, <1>4 DEF Safe, ReversalsAreReal, ContainmentInv, ContainmentType
  <2> QED
    BY <2>1, <2>2
<1>11. AnnouncedIsTrue'
  BY <1>1 DEF Safe, AnnouncedIsTrue
<1>12. ClosedIsAnnounced'
  BY <1>1, <1>2, <1>3, <1>4 DEF Safe, ClosedIsAnnounced
<1> QED
  BY <1>5, <1>7, <1>8, <1>9, <1>10, <1>11, <1>12 DEF Safe, ContainmentInv

\* A close that fails returns without a word; the properties hold.
LEMMA CloseFailsSafe ==
    ASSUME Safe, NEW c \in Caller, CloseFails(c)
    PROVE  Safe'
<1>1. /\ caller[c].at = "attested"
      /\ UNCHANGED <<crashes, request, left, reversible, contained, open, closed, pass, signed, announced>>
      /\ caller' = [caller EXCEPT ![c] = Idle]
  BY DEF CloseFails, Returns, store
<1>2. /\ \A d \in Caller : d # c => caller'[d] = caller[d]
      /\ caller'[c] = Idle
  BY <1>1 DEF Safe, ContainmentInv, ContainmentType
<1>3. ContainmentType'
  BY <1>1 DEF Safe, ContainmentInv, ContainmentType, Idle
<1>4. CallsAreSound'
  BY <1>1, <1>2, LeaseNoneAssumption, EventNoneAssumption
     DEF Safe, ContainmentInv, CallsAreSound, Unleased, Idle, Steps
<1>5. ClosedIsAnnounced'
  BY <1>1, <1>2 DEF Safe, ClosedIsAnnounced
<1> QED
  BY <1>1, <1>3, <1>4, <1>5 DEF Safe, ContainmentInv, EffectIsTracked, ClosedOnce,
     ReversalsAreReal, AnnouncedIsTrue

\* publish_release keeps the properties.
LEMMA PublishSafe ==
    ASSUME Safe, NEW c \in Caller, Publish(c)
    PROVE  Safe'
<1> DEFINE h == caller[c].lease
           s == caller[c].steps
<1>1. /\ caller[c].at = "publishing" /\ h \in Request /\ s \in Steps
      /\ s = "reversed" => h \notin contained
      /\ UNCHANGED <<crashes, request, left, reversible, contained, open, closed, pass, signed>>
      /\ caller' = [caller EXCEPT ![c] = Idle]
  BY DEF Safe, ContainmentInv, CallsAreSound, Publish, Returns, store
<1>2. PICK seen \in BOOLEAN : /\ seen => h \notin open
                              /\ announced' = [announced EXCEPT ![h] = [steps |-> s,
                                                                        lease_closed |-> seen]]
  BY DEF Publish, SeenClosed
<1> HIDE DEF h, s
<1>3. /\ \A d \in Caller : d # c => caller'[d] = caller[d]
      /\ caller'[c] = Idle
  BY <1>1 DEF Safe, ContainmentInv, ContainmentType
<1>4. /\ announced'[h] = [steps |-> s, lease_closed |-> seen]
      /\ \A k \in Request : k # h => announced'[k] = announced[k]
  BY <1>1, <1>2 DEF Safe, ContainmentInv, ContainmentType
<1>5. announced'[h] \in Event /\ announced'[h] # None
  BY <1>1, <1>4, EventNoneAssumption DEF Event
<1>6. ContainmentType'
  BY <1>1, <1>2, <1>4, <1>5 DEF Safe, ContainmentInv, ContainmentType, Idle
<1>7. \A k \in Request : Unleased(k) => k # h
  BY DEF Unleased, h
<1>8. CallsAreSound'
  BY <1>1, <1>3, <1>4, <1>7, LeaseNoneAssumption, EventNoneAssumption
     DEF Safe, ContainmentInv, CallsAreSound, Unleased, Idle, Steps
<1>9. AnnouncedIsTrue' /\ ReversalsAreReal'
  BY <1>1, <1>2, <1>4 DEF Safe, AnnouncedIsTrue, ReversalsAreReal
<1>10. ClosedIsAnnounced'
  <2> SUFFICES ASSUME NEW k \in Request, closed'[k] # <<>>
               PROVE  \/ announced'[k] # None
                      \/ crashes' > 0
                      \/ \E d \in Caller : caller'[d].at = "publishing" /\ caller'[d].lease = k
    BY DEF ClosedIsAnnounced
  <2>1. CASE k = h
    BY <2>1, <1>5
  <2>2. CASE k # h
    BY <2>2, <1>1, <1>3, <1>4 DEF Safe, ClosedIsAnnounced, h
  <2> QED
    BY <2>1, <2>2
<1> QED
  BY <1>1, <1>6, <1>8, <1>9, <1>10 DEF Safe, ContainmentInv, EffectIsTracked, ClosedOnce

\* The properties survive a crash and a restart.
LEMMA CrashSafe == ASSUME Safe, Crash PROVE Safe'
<1>1. PICK landed \in SUBSET {h \in Request : request[h] = "dispatched"} :
        contained' \subseteq contained \cup landed
  BY DEF Crash
<1>2. /\ crashes' = crashes + 1 /\ crashes \in Nat
      /\ request' = [h \in Request |-> IF request[h] \in InFlight THEN "lost" ELSE request[h]]
      /\ open' = IF Durable THEN open ELSE {}
      /\ closed' = IF Durable THEN closed ELSE [h \in Request |-> <<>>]
      /\ caller' = [c \in Caller |-> Idle]
      /\ pass' = {}
      /\ UNCHANGED <<left, reversible, signed, announced>>
  BY DEF Crash, Safe, ContainmentInv, ContainmentType
<1>3. ContainmentType'
  BY <1>1, <1>2 DEF Safe, ContainmentInv, ContainmentType, Idle, Outcome, InFlight
<1>4. CallsAreSound'
  BY <1>1, <1>2, LeaseNoneAssumption, EventNoneAssumption
     DEF Safe, ContainmentInv, ContainmentType, CallsAreSound, Unleased, Idle, Steps, InFlight
<1>5. EffectIsTracked'
  <2> SUFFICES ASSUME NEW h \in contained', Durable
               PROVE  \/ h \in open' \/ request'[h] \in {"executed", "failed", "lost"}
                      \/ \E i \in 1..Len(closed'[h]) : closed'[h][i] = "unrestored"
    BY <1>2, DurableAssumption DEF EffectIsTracked
  <2>1. CASE h \in landed
    BY <2>1, <1>2 DEF InFlight
  <2>2. CASE h \in contained
    BY <2>2, <1>2 DEF Safe, EffectIsTracked, ContainmentInv, ContainmentType, InFlight
  <2> QED
    BY <1>1, <2>1, <2>2
<1>6. ClosedOnce'
  BY <1>2, DurableAssumption DEF Safe, ClosedOnce
<1>7. ReversalsAreReal'
  <2> SUFFICES ASSUME NEW h \in contained'
               PROVE  /\ \A i \in 1..Len(closed'[h]) : closed'[h][i] # "reversed"
                      /\ [lease |-> h, steps |-> "reversed"] \notin signed'
                      /\ announced'[h] # None => announced'[h].steps # "reversed"
    BY DEF ReversalsAreReal
  <2>1. h \in Request
    BY <1>1 DEF Safe, ContainmentInv, ContainmentType
  <2>2. CASE h \in landed
    BY <2>1, <2>2, <1>2 DEF Safe, ContainmentInv, CallsAreSound, Unleased, InFlight
  <2>3. CASE h \in contained
    BY <2>1, <2>3, <1>2 DEF Safe, ReversalsAreReal
  <2> QED
    BY <1>1, <2>2, <2>3
<1>8. AnnouncedIsTrue' /\ ClosedIsAnnounced'
  BY <1>2 DEF Safe, AnnouncedIsTrue, ClosedIsAnnounced
<1> QED
  BY <1>3, <1>4, <1>5, <1>6, <1>7, <1>8 DEF Safe, ContainmentInv

\* Every step keeps the properties.
LEMMA NextSafe == Safe /\ [Next]_vars => Safe'
<1> SUFFICES ASSUME Safe, [Next]_vars PROVE Safe'
  OBVIOUS
<1>1. CASE UNCHANGED vars
  BY <1>1 DEF vars, Safe, ContainmentInv, ContainmentType, CallsAreSound, Unleased,
     EffectIsTracked, ClosedOnce, ReversalsAreReal, AnnouncedIsTrue, ClosedIsAnnounced
<1>2. CASE Tick
  BY <1>2, QuietSafe
<1>3. CASE Crash
  BY <1>3, CrashSafe
<1>4. ASSUME NEW c \in Caller, Releasing(c) PROVE Safe'
  BY <1>4, AnswerSafe, AttestSafe, CloseSafe, CloseFailsSafe, PublishSafe DEF Releasing
<1>5. CASE SweepTask
  <2>1. Sweep \in Caller
    BY DEF Caller
  <2> QED
    BY <1>4, <1>5, <2>1, QuietSafe, TakeSafe DEF SweepTask
<1>6. CASE \E h \in Request : Execution(h)
  BY <1>6, ExecutionSafe
<1>7. CASE \E c \in Operator : \/ \E h \in Request : OperatorReleases(c, h)
                               \/ Releasing(c)
                               \/ OperatorGone(c)
  BY <1>4, <1>7, TakeSafe, AnswerSafe DEF Caller
<1> QED
  BY <1>1, <1>2, <1>3, <1>5, <1>6, <1>7 DEF Next

LEMMA AlwaysSafe == Spec => []Safe
  BY InitSafe, NextSafe, PTL DEF Spec

\* A release call never acts on a stale belief: whatever other callers, crashes
\* and new containments do while it waits for release_lease's inverse, the lease
\* it names was written once and a reversal it reports still stands.
THEOREM ReleaseInvariant == Spec => []ContainmentInv
  BY AlwaysSafe, PTL DEF Safe

\* The bounded containment of the runtime: an effect is in the lease store, or the
\* exception is one that authorize_and_execute reports or a crash explains.
THEOREM EffectsAreTracked == Spec => []EffectIsTracked
  BY AlwaysSafe, PTL DEF Safe

\* ContainmentLeaseStore::close lets each lease end against one receipt.
THEOREM LeasesCloseOnce == Spec => []ClosedOnce
  BY AlwaysSafe, PTL DEF Safe

\* No receipt, attestation or event of release_lease claims a reversal of a
\* containment that is in effect.
THEOREM ReversalsAreTrue == Spec => []ReversalsAreReal
  BY AlwaysSafe, PTL DEF Safe

\* publish_release never says `lease_closed` of an open lease, nor keeps silent
\* about a closed one while the daemon lives.
THEOREM AnnouncementsAreTrue == Spec => [](AnnouncedIsTrue /\ ClosedIsAnnounced)
  BY AlwaysSafe, PTL DEF Safe
=============================================================================
