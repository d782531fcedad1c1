----------------------------- MODULE Containment -----------------------------
(***************************************************************************)
(* reversible containment: the lease store                                 *)
(* (swarm-response/src/containment.rs), the inverse executors              *)
(* (rollback.rs, http_edr.rs), release_lease and ContainmentSweep          *)
(* (swarm-runtime/src/containment.rs), the operator's release route        *)
(* (swarm-runtime-http/src/http/containment.rs) and the runtime path that  *)
(* executes a containment and leases it (swarm-runtime/src/lib.rs).        *)
(*                                                                         *)
(* A containment takes effect on a host first and is leased afterwards,    *)
(* because the lease names the receipt.  The sweep task releases expired   *)
(* leases and operators release any lease early, through one function that *)
(* reads the lease, awaits the inverse, has it attested and closes the     *)
(* lease, with no claim between the read and the close.                    *)
(*                                                                         *)
(* Abstractions.  A request is a dispatch identity, which the journal lets *)
(* through once, and its lease id.  Time is relative: left[h] counts the   *)
(* ticks from now to the expiry of h.  A receipt is what its steps say:    *)
(* `reversed`, `failed`, or `unrestored` for the answers that retrying     *)
(* cannot change (irreversible, unsupported, simulated).  The store        *)
(* replaces its document by a rename, so a write happens or does not.  A   *)
(* command given up on takes effect then or never.  An empty plan, the     *)
(* only Err of the executors, is never stored.                             *)
(***************************************************************************)
EXTENDS Naturals, Sequences

CONSTANTS
    MaxRequests,  \* bound: containments the runtime is asked for, once each
    Host,
    Target,       \* Target[h]: the host request h contains
    Unreachable,  \* hosts whose endpoint need not ever answer
    Operator,     \* release handlers of the operator API
    Sweep,        \* the sweep task
    Ttl,          \* lease_ttl_ms, in ticks
    Durable,      \* lease_store_path is set: the store is a file
    MaxCrashes,   \* bound: how often the daemon dies
    None

ASSUME RequestsAssumption == MaxRequests \in Nat

\* Numbered in the order in which they are issued.
Request == 1..MaxRequests

ASSUME TargetAssumption == Target \in [Request -> Host]
ASSUME SweepAssumption == Sweep \notin Operator
ASSUME TtlAssumption == Ttl \in Nat \ {0}
ASSUME DurableAssumption == Durable \in BOOLEAN
ASSUME CrashBound == MaxCrashes \in Nat
ASSUME LeaseNoneAssumption == None \notin Request

VARIABLES
    crashes,
    request,    \* request[h]: where authorize_and_execute of h is, or ended
    left,       \* left[h]: ticks to expires_at_ms
    reversible, \* requests whose plan this executor can carry out
    contained,  \* requests whose effect is in place on their host
    open,       \* the store: open leases
    closed,     \* the store: closed[h], the receipts h was closed against
    caller,     \* the release_lease call of the sweep and of each operator
    pass,       \* leases the current sweep pass has still to take
    signed,     \* receipts the governor attested on its chain
    announced   \* announced[h]: the last ContainmentReleased event about h

store == <<open, closed>>
vars == <<crashes, request, left, reversible, contained, open, closed,
          caller, pass, signed, announced>>

Caller == Operator \cup {Sweep}
Steps == {"reversed", "failed", "unrestored"}
Event == [steps : Steps, lease_closed : BOOLEAN]
InFlight == {"dispatched", "executed"}
Outcome == {"new", "refused", "failed", "leased", "lost"}
Idle == [at |-> "idle", lease |-> None, steps |-> None]

ASSUME EventNoneAssumption == None \notin Event /\ None \notin Steps

Init ==
    /\ crashes = 0
    /\ request = [h \in Request |-> "new"]
    /\ left = [h \in Request |-> Ttl]
    /\ reversible = {}
    /\ contained = {} /\ open = {}
    /\ closed = [h \in Request |-> <<>>]
    /\ caller = [c \in Caller |-> Idle]
    /\ pass = {}
    /\ signed = {}
    /\ announced = [h \in Request |-> None]

\* Restoring a host undoes every containment of it.
SameHost(h) == {k \in Request : Target[k] = Target[h]}
Expired(h) == left[h] = 0

Running(h) == request[h] \in InFlight \cup {"leased"} /\ left[h] > 0

Tick ==
    /\ \E h \in Request : Running(h)
    /\ left' = [h \in Request |-> IF Running(h) THEN left[h] - 1 ELSE left[h]]
    /\ UNCHANGED <<crashes, request, reversible, contained, store, caller, pass,
                   signed, announced>>

-----------------------------------------------------------------------------
(* authorize_and_execute, for a containment in enforced mode.               *)

Moves(h, to) ==
    /\ request' = [request EXCEPT ![h] = to]
    /\ UNCHANGED <<crashes, closed, caller, pass, signed, announced>>

IsNext(h) == request[h] = "new" /\ \A k \in 1..(h - 1) : request[k] # "new"

\* Policy, guard, prepare_containment, the capability lease or the journal
\* refuses: nothing reached the host.
Refuse(h) ==
    /\ IsNext(h)
    /\ Moves(h, "refused")
    /\ UNCHANGED <<left, reversible, contained, open>>

\* prepare_containment fixes issued_at_ms and the inverse plan, then the adapter is awaited.
Dispatch(h) ==
    /\ IsNext(h)
    /\ Moves(h, "dispatched")
    /\ left' = [left EXCEPT ![h] = Ttl]
    /\ reversible' \in {reversible, reversible \cup {h}}
    /\ UNCHANGED <<contained, open>>

AdapterActs(h) ==
    /\ request[h] = "dispatched"
    /\ Moves(h, "executed")
    /\ contained' = contained \cup {h}
    /\ UNCHANGED <<left, reversible, open>>

\* An error, a time-out or a status that is no success: the caller is told it
\* failed and no lease is recorded, whether or not the host was contained.
AdapterFails(h) ==
    /\ request[h] = "dispatched"
    /\ Moves(h, "failed")
    /\ contained' \in {contained, contained \cup {h}}
    /\ UNCHANGED <<left, reversible, open>>

RecordLease(h) ==
    /\ request[h] = "executed"
    /\ Moves(h, "leased")
    /\ open' = open \cup {h}
    /\ UNCHANGED <<left, reversible, contained>>

\* The store could not be written: the caller is told of an unleased containment.
LeaseNotRecorded(h) ==
    /\ request[h] = "executed"
    /\ Moves(h, "failed")
    /\ UNCHANGED <<left, reversible, contained, open>>

\* The request's future is dropped while it awaits the adapter.
RequestDropped(h) ==
    /\ request[h] = "dispatched"
    /\ Moves(h, "lost")
    /\ contained' \in {contained, contained \cup {h}}
    /\ UNCHANGED <<left, reversible, open>>

-----------------------------------------------------------------------------
(* release_lease, called by the sweep and by the operators' route.          *)

Releases(c, at, h, steps) ==
    /\ caller' = [caller EXCEPT ![c] = [at |-> at, lease |-> h, steps |-> steps]]
    /\ UNCHANGED <<crashes, request, left, reversible>>

Returns(c) ==
    /\ caller' = [caller EXCEPT ![c] = Idle]
    /\ UNCHANGED <<crashes, request, left, reversible>>

\* An operator names a lease; a lease that is not open is refused as unknown.
OperatorReleases(c, h) ==
    /\ c \in Operator /\ caller[c] = Idle
    /\ h \in open
    /\ Releases(c, "rolling", h, None)
    /\ UNCHANGED <<contained, store, pass, signed, announced>>

\* The interval fires between two passes: the snapshot of the expired leases.
SweepStarts ==
    /\ caller[Sweep] = Idle /\ pass = {}
    /\ \E h \in open : Expired(h)
    /\ pass' = {h \in open : Expired(h)}
    /\ UNCHANGED <<crashes, request, left, reversible, contained, store, caller,
                   signed, announced>>

\* The leases of a pass are released one by one, in issue order.
Turn(h) == caller[Sweep] = Idle /\ h \in pass /\ \A k \in pass : h <= k

SweepTakes(h) ==
    /\ Turn(h)
    /\ h \in open
    /\ pass' = pass \ {h}
    /\ Releases(Sweep, "rolling", h, None)
    /\ UNCHANGED <<contained, store, signed, announced>>

\* The lease was closed meanwhile, or the store could not be read.
SweepPassesOver(h) ==
    /\ Turn(h)
    /\ pass' = pass \ {h}
    /\ UNCHANGED <<crashes, request, left, reversible, contained, store, caller,
                   signed, announced>>

\* Fault: any answer of the executor ends the lease, as an earlier version did.
AlwaysRolled(steps) == "rolled"

\* What follows the executor's answer: a failed step keeps the lease open.
AfterInverse(steps) == IF steps = "failed" THEN "publishing" ELSE "rolled"

Answered(c, steps) ==
    /\ Releases(c, AfterInverse(steps), caller[c].lease, steps)
    /\ UNCHANGED <<store, signed, announced>>

InverseLands(c) ==
    /\ caller[c].at = "rolling"
    /\ caller[c].lease \in reversible
    /\ Answered(c, "reversed")
    /\ UNCHANGED pass
    /\ contained' = contained \ SameHost(caller[c].lease)

\* Fault: a request that was sent counts as accepted.
FailsUnnoticed(c) ==
    /\ caller[c].at = "rolling"
    /\ caller[c].lease \in reversible
    /\ Answered(c, "reversed")
    /\ contained' \in {contained, contained \ SameHost(caller[c].lease)}
    /\ UNCHANGED pass

\* Fault: the first failure ends the pass.
FailsThePass(c) ==
    /\ caller[c].at = "rolling"
    /\ caller[c].lease \in reversible
    /\ Answered(c, "failed")
    /\ contained' \in {contained, contained \ SameHost(caller[c].lease)}
    /\ pass' = {}

\* Rejected, or no answer in time: the inverse may have landed all the same.
InverseFails(c) ==
    /\ caller[c].at = "rolling"
    /\ caller[c].lease \in reversible
    /\ Answered(c, "failed")
    /\ contained' \in {contained, contained \ SameHost(caller[c].lease)}
    /\ UNCHANGED pass

NothingToInvert(c) ==
    /\ caller[c].at = "rolling"
    /\ caller[c].lease \notin reversible
    /\ Answered(c, "unrestored")
    /\ UNCHANGED <<contained, pass>>

\* attest_release_receipt: a governor that declines is tolerated.
Attest(c) ==
    /\ caller[c].at = "rolled"
    /\ Releases(c, "attested", caller[c].lease, caller[c].steps)
    /\ signed' \in {signed, signed \cup {[lease |-> caller[c].lease, steps |-> caller[c].steps]}}
    /\ UNCHANGED <<contained, store, pass, announced>>

\* Fault: the store does not look whether the lease is still open.
ClosesAny(h) == TRUE

Closes(h) == h \in open

Close(c) ==
    LET h == caller[c].lease
    IN  /\ caller[c].at = "attested"
        /\ Closes(h)
        /\ open' = open \ {h}
        /\ closed' = [closed EXCEPT ![h] = Append(@, caller[c].steps)]
        /\ Releases(c, "publishing", h, caller[c].steps)
        /\ UNCHANGED <<contained, pass, signed, announced>>

\* NotOpen, because another caller closed it, or a failed write.
CloseFails(c) ==
    /\ caller[c].at = "attested"
    /\ Returns(c)
    /\ UNCHANGED <<contained, store, pass, signed, announced>>

\* Fault: lease_closed is taken from the receipt.
AssumesClosed(h) == TRUE

\* publish_release reads the store again; an unreadable store counts as open.
SeenClosed(h) == h \notin open

Publish(c) ==
    LET h == caller[c].lease
    IN  /\ caller[c].at = "publishing"
        /\ \E seen \in {FALSE, SeenClosed(h)} :
              announced' = [announced EXCEPT ![h] = [steps |-> caller[c].steps,
                                                     lease_closed |-> seen]]
        /\ Returns(c)
        /\ UNCHANGED <<contained, store, pass, signed>>

\* The operator's connection drops while the inverse is awaited.
OperatorGone(c) ==
    /\ c \in Operator /\ caller[c].at = "rolling"
    /\ Returns(c)
    /\ \/ contained' = contained
       \/ caller[c].lease \in reversible /\ contained' = contained \ SameHost(caller[c].lease)
    /\ UNCHANGED <<store, pass, signed, announced>>

-----------------------------------------------------------------------------
\* The daemon dies and is started again: a file store keeps its document, the
\* memory store forgets.  What was in flight may still have taken effect.
Crash ==
    /\ crashes < MaxCrashes
    /\ crashes' = crashes + 1
    /\ request' = [h \in Request |-> IF request[h] \in InFlight THEN "lost" ELSE request[h]]
    /\ \E landed \in SUBSET {h \in Request : request[h] = "dispatched"},
          undone \in SUBSET {c \in Caller : /\ caller[c].at = "rolling"
                                            /\ caller[c].lease \in reversible} :
          contained' = (contained \cup landed)
                         \ UNION {SameHost(caller[c].lease) : c \in undone}
    /\ open' = IF Durable THEN open ELSE {}
    /\ closed' = IF Durable THEN closed ELSE [h \in Request |-> <<>>]
    /\ caller' = [c \in Caller |-> Idle]
    /\ pass' = {}
    /\ UNCHANGED <<left, reversible, signed, announced>>

Execution(h) ==
    \/ Refuse(h) \/ Dispatch(h) \/ AdapterActs(h) \/ AdapterFails(h)
    \/ RecordLease(h) \/ LeaseNotRecorded(h) \/ RequestDropped(h)

Releasing(c) ==
    \/ InverseLands(c) \/ InverseFails(c) \/ NothingToInvert(c)
    \/ Attest(c) \/ Close(c) \/ CloseFails(c) \/ Publish(c)

\* run_until_shutdown: the interval, the pass, and the release in progress.
SweepTask ==
    \/ SweepStarts
    \/ \E h \in Request : SweepTakes(h) \/ SweepPassesOver(h)
    \/ Releasing(Sweep)

Next ==
    \/ Tick \/ Crash \/ SweepTask
    \/ \E h \in Request : Execution(h)
    \/ \E c \in Operator : \/ \E h \in Request : OperatorReleases(c, h)
                            \/ Releasing(c)
                            \/ OperatorGone(c)

Spec == Init /\ [][Next]_vars

\* The clock runs and the sweep task is polled (weak fairness).  The store is
\* read and written and a reachable host's endpoint answers again and again while
\* they are asked (strong fairness of the good outcome).
Fairness ==
    /\ WF_vars(Tick)
    /\ WF_vars(SweepTask)
    /\ \A h \in Request : SF_vars(SweepTakes(h))
    /\ \A h \in Request : SF_vars(Close(Sweep) /\ caller[Sweep].lease = h)
    /\ \A h \in Request : Target[h] \notin Unreachable =>
                            SF_vars(InverseLands(Sweep) /\ caller[Sweep].lease = h)

LiveSpec == Spec /\ Fairness

-----------------------------------------------------------------------------
(* Properties.                                                              *)

ContainmentType ==
    /\ crashes \in Nat
    /\ request \in [Request -> InFlight \cup Outcome]
    /\ left \in [Request -> 0..Ttl]
    /\ reversible \subseteq Request
    /\ contained \subseteq Request /\ open \subseteq Request /\ pass \subseteq Request
    /\ closed \in [Request -> Seq({"reversed", "unrestored"})]
    /\ caller \in [Caller -> [at : {"idle", "rolling", "rolled", "attested", "publishing"},
                              lease : Request \cup {None}, steps : Steps \cup {None}]]
    /\ signed \subseteq [lease : Request, steps : {"reversed", "unrestored"}]
    /\ announced \in [Request -> Event \cup {None}]

\* Nothing is known of a request whose lease has not been written, and nothing of
\* it is on a host before its adapter answers.
Unleased(h) ==
    /\ h \notin open /\ closed[h] = <<>> /\ announced[h] = None
    /\ \A r \in signed : r.lease # h
    /\ \A c \in Caller : caller[c].lease # h

\* What a release call carries over its awaits stays true until it is used: the
\* lease it names was written once, and a reversal it reports was one.
CallsAreSound ==
    /\ \A h \in Request :
          /\ request[h] \in InFlight \cup {"new", "refused"} => Unleased(h)
          /\ request[h] \in {"new", "refused", "dispatched"} => h \notin contained
    /\ \A c \in Caller :
          /\ caller[c].at # "idle" => caller[c].lease \in Request
          /\ caller[c].at \in {"rolled", "attested"} =>
                caller[c].steps \in {"reversed", "unrestored"}
          /\ caller[c].at = "publishing" => caller[c].steps \in Steps
          /\ caller[c].steps = "reversed" => caller[c].lease \notin contained

\* Types, and the two facts above about the calls in progress: with them the
\* properties below are inductive.
ContainmentInv == ContainmentType /\ CallsAreSound

\* A containment that is in effect is in the store as an open lease, or is about
\* to be, or the store says plainly that its lease ended without restoring it.
\* The exceptions are the ones the code names: the caller was told that the
\* action failed or was not leased, its future was dropped or the daemon died
\* before the lease was written, or the store was in memory and forgot it.
\* A release that lost a lease of a contained host would break it.
EffectIsTracked ==
    \A h \in contained :
        \/ h \in open
        \/ request[h] \in {"executed", "failed", "lost"}
        \/ \E i \in 1..Len(closed[h]) : closed[h][i] = "unrestored"
        \/ ~Durable /\ crashes > 0

\* One containment has one rollback receipt in the store, whoever races to
\* release it: the sweep, operators, and their repetitions after a crash.
ClosedOnce ==
    \A h \in Request : Len(closed[h]) <= 1 /\ (h \in open => closed[h] = <<>>)

\* Nothing claims a reversal of a containment that is in effect: not the store,
\* not the governor's signature on the chain, not the event for the console.
ReversalsAreReal ==
    \A h \in contained :
        /\ \A i \in 1..Len(closed[h]) : closed[h][i] # "reversed"
        /\ [lease |-> h, steps |-> "reversed"] \notin signed
        /\ announced[h] # None => announced[h].steps # "reversed"

\* A console told that a lease is closed is never told so of an open one.
AnnouncedIsTrue ==
    \A h \in Request : announced[h] # None /\ announced[h].lease_closed => h \notin open

\* A closed lease has been announced, or the caller that closed it is about to,
\* unless the daemon died in between.
ClosedIsAnnounced ==
    \A h \in Request :
        closed[h] # <<>> => \/ announced[h] # None
                            \/ crashes > 0
                            \/ \E c \in Caller : caller[c].at = "publishing" /\ caller[c].lease = h

\* Every lease ends, although other hosts cannot be reached, calls fail and the
\* daemon dies in the middle of releases.
LeasesEnd ==
    \A h \in Request : Target[h] \notin Unreachable => (h \in open ~> h \notin open)
=============================================================================
