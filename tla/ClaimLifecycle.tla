--------------------------- MODULE ClaimLifecycle ---------------------------
(***************************************************************************)
(* What the orchestrator promises about an issue, without its timers,      *)
(* goroutines and in-flight operations: the substates of a claim, the      *)
(* moves between them, and the bound on those that hold an agent slot.     *)
(* Orchestrator implements this specification (OrchestratorRefinement).    *)
(***************************************************************************)
EXTENDS Naturals, FiniteSets

CONSTANTS Issues, Limits

VARIABLES phase, limit

(* Starting: claimed, its worker not yet registered.  Requeued: its worker *)
(* has ended and its retry is about to be queued.                          *)
Phases == {"Unclaimed", "Starting", "Running", "Requeued", "Queued", "Blocked"}

(* The issues that hold an agent slot.                                     *)
Holding == {i \in Issues : phase[i] \in {"Starting", "Running", "Requeued"}}

LifecycleInit ==
    /\ phase = [i \in Issues |-> "Unclaimed"]
    /\ limit \in Limits

Move(i, from, to) ==
    /\ phase[i] \in from
    /\ \E p \in to : phase' = [phase EXCEPT ![i] = p]
    /\ UNCHANGED limit

Start(i) ==
    /\ Cardinality(Holding) < limit
    /\ Move(i, {"Unclaimed", "Queued"}, {"Starting"})

Run(i) == Move(i, {"Starting"}, {"Running"})

Finish(i) == Move(i, {"Running"}, {"Unclaimed", "Requeued", "Blocked"})

(* A retry is put back even if the claim was released in the meantime.     *)
Queue(i) == Move(i, {"Unclaimed", "Requeued"}, {"Queued"})

Park(i) == Move(i, {"Queued"}, {"Blocked"})

Release(S) ==
    /\ \A i \in S : phase[i] \in {"Queued", "Blocked"}
    /\ phase' = [i \in Issues |-> IF i \in S THEN "Unclaimed" ELSE phase[i]]
    /\ UNCHANGED limit

SetLimit(n) ==
    /\ limit' = n
    /\ UNCHANGED phase

LifecycleNext ==
    \/ \E i \in Issues : Start(i) \/ Run(i) \/ Finish(i) \/ Queue(i) \/ Park(i)
    \/ \E S \in SUBSET Issues : Release(S)
    \/ \E n \in Limits : SetLimit(n)

LifecycleSpec == LifecycleInit /\ [][LifecycleNext]_<<phase, limit>>
=============================================================================
