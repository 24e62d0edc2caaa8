----------------------- MODULE OrchestratorRefinement -----------------------
(***************************************************************************)
(* The actor implements ClaimLifecycle: every operation it applies moves   *)
(* the issues it touches along the lifecycle, or leaves them where they    *)
(* are.                                                                    *)
(***************************************************************************)
EXTENDS Orchestrator

Phase(i) ==
    CASE Running[i] # NoRun -> "Running"
      [] Running[i] = NoRun /\ i \in Blocked -> "Blocked"
      [] Running[i] = NoRun /\ i \notin Blocked /\ Queued(i) -> "Queued"
      [] Running[i] = NoRun /\ i \notin Blocked /\ ~ Queued(i) /\ i \in Claimed ->
             IF Workers(i) = {} THEN "Requeued" ELSE "Starting"
      [] OTHER -> "Unclaimed"

Lifecycle == INSTANCE ClaimLifecycle
                 WITH phase  <- [i \in Issues |-> Phase(i)],
                      limit  <- MaxConcurrentAgents,
                      Limits <- AgentLimits

(* The substates of SPEC 7.1 and the moves between them, capacity included *)
(* (the doc comment of OrchestratorState).                                 *)
ImplementsLifecycle == Lifecycle!LifecycleSpec
-----------------------------------------------------------------------------
(* Fairness.  Timers fire, the actor serves what is submitted to it, every *)
(* tracker fetch is bounded by a timeout, and so is the exit of a worker   *)
(* that was cancelled and every step of a cleanup.  Nothing is assumed of  *)
(* the tracker, of the poll loop or of workers that run on.                *)
FetchEnds(i, a) ==
    \/ FetchStale(i, a)
    \/ RetryPollFailed(i, a)
    \/ RetryReleased(i, a)
    \/ RetrySuppressed(i, a)
    \/ CapacityDeferRetry(i, a)
    \/ RetryDispatched(i, a)

CancelledWorkerEnds(i, r) == runs[i][r].cancel /\ Finalize(i, r)

Fairness ==
    \A i \in Issues :
        /\ WF_vars(\E s \in reschedules[i] : ScheduleRetryApplied(i, s))
        /\ WF_vars(\E a \in alarms[i] : TimerFires(i, a))
        /\ WF_vars(\E a \in alarms[i] : RetryFire(i, a))
        /\ WF_vars(\E a \in alarms[i] : FetchEnds(i, a))
        /\ \A r \in RunIds : WF_vars(Register(i, r)) /\ WF_vars(CancelledWorkerEnds(i, r))
        /\ \A j \in JobIds : WF_vars(CleanupStep(i, j))

FairSpec == Spec /\ Fairness

(* A queued retry does not get stuck in the queue: it leaves it, or the    *)
(* tracker is asked about it, or it is a continuation waiting for the poll *)
(* loop, however timers, stale fires and put-backs interleave.             *)
RetryIsConsidered ==
    \A i \in Issues :
        Queued(i) ~> \/ ~ Queued(i)
                     \/ \E a \in alarms[i] : a.stage = "fetching" /\ matchingRetryEntry(i, a)
                     \/ RetryAttempts[i].kind = "continuation" /\ RetryAttempts[i].due

(* A workspace reservation ends, so that it cannot keep an issue from      *)
(* being dispatched forever (begin/endReconcileWorkspaceCleanup).          *)
ReservationEnds ==
    \A i \in Issues : i \in cleaningWorkspaces ~> i \notin cleaningWorkspaces

(* After an operator's terminal stop the issue's worker ends and none is   *)
(* ever started again.                                                     *)
StopIsFinal ==
    \A i \in Issues : i \in OperatorTerminalStops ~> [](Workers(i) = {})
=============================================================================
