---------------------------- MODULE OnceDispatch ----------------------------
(***************************************************************************)
(* What the durable dispatch journal promises its callers, with no file,   *)
(* process or crash in sight: a dispatch identity is consumed at most      *)
(* once, and only a consumed identity may have its external effect, once.  *)
(* Consuming an identity without ever producing the effect is allowed: the *)
(* outcome of that dispatch is simply unknown.                             *)
(***************************************************************************)
EXTENDS Naturals

CONSTANT DispatchId

VARIABLES
    consumed,   \* identities whose permission has been spent, for good
    effects     \* effects[d]: how often the adapter carried out d

OnceInit ==
    /\ consumed = {}
    /\ effects = [d \in DispatchId |-> 0]

\* Several identities may be spent at once: a restart learns of the ones its
\* predecessor was consuming when it died.
Consume(D) ==
    /\ D # {} /\ D \cap consumed = {}
    /\ consumed' = consumed \cup D
    /\ UNCHANGED effects

Effect(d) ==
    /\ d \in consumed
    /\ effects[d] = 0
    /\ effects' = [effects EXCEPT ![d] = 1]
    /\ UNCHANGED consumed

OnceNext ==
    \/ \E D \in SUBSET DispatchId : Consume(D)
    \/ \E d \in DispatchId : Effect(d)

OnceSpec == OnceInit /\ [][OnceNext]_<<consumed, effects>>
=============================================================================
