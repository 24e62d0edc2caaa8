---------------------------- MODULE Orchestrator ----------------------------
(***************************************************************************)
(* The actor of internal/orchestrator: who may work on an issue, and when. *)
(*                                                                         *)
(* One goroutine owns OrchestratorState and applies one operation at a     *)
(* time.  Everything that takes time happens on other goroutines, which    *)
(* come back with another operation: a dispatched worker, a retry timer    *)
(* and the tracker fetch behind it, the followup that queues a retry, the  *)
(* removal of a finished issue's workspace.  An action below is one        *)
(* operation applied by the actor, or one step of such a goroutine.        *)
(*                                                                         *)
(* What the tracker says about an issue is an arbitrary input of the       *)
(* action that reads it, so the results hold for every tracker, however    *)
(* late its answers are.                                                   *)
(***************************************************************************)
EXTENDS Integers, FiniteSets

CONSTANTS
    Issues,                \* tracker issues
    RunIds, NoRun,         \* identities of RunningEntry pointers, and nil
    JobIds,                \* identities of workspace cleanup goroutines
    AgentLimits,           \* values a reload may give to MaxConcurrentAgents
    MaxTurns,              \* agent.max_turns: turns of one session
    MaxContinuationTurns,  \* agent.max_continuation_turns: clean turns of a claim
    MaxCleanupRetries,     \* maxReconciledCleanupStateRetries
    MaxAttempt,            \* bound: failure attempts explored
    TimerIds,              \* identities of an issue's retries in flight (a bound)
    PromptReschedule       \* see Settled

ASSUME ConstantsAssumption ==
    /\ NoRun \notin RunIds
    /\ AgentLimits \subseteq Nat \ {0}
    /\ AgentLimits # {}
    /\ MaxTurns \in Nat \ {0}
    /\ MaxContinuationTurns \in Nat \ {0}
    /\ MaxCleanupRetries \in Nat
    /\ MaxAttempt \in Nat
    /\ PromptReschedule \in BOOLEAN

ASSUME FiniteAssumption == IsFiniteSet(Issues)

VARIABLES
    Running,               \* the entry registered for an issue, or NoRun
    Claimed,               \* issues holding a claim
    Blocked,               \* issues parked until an operator acts
    RetryAttempts,         \* the queued retry of an issue, or NoEntry
    cleaningWorkspaces,    \* issues reserved by a workspace cleanup
    OperatorTerminalStops, \* issues latched by an operator's terminal stop
    MaxConcurrentAgents,   \* the configured number of agents
    runs,                  \* the workers of an issue, from claim to finalize
    alarms,                \* the retry timers of an issue and their fires
    reschedules,           \* scheduleRetryOps a followup has yet to submit
    cleanups               \* the workspace cleanups of an issue

actorVars == <<Running, Claimed, Blocked, RetryAttempts, cleaningWorkspaces,
               OperatorTerminalStops, MaxConcurrentAgents>>
vars == <<Running, Claimed, Blocked, RetryAttempts, cleaningWorkspaces,
          OperatorTerminalStops, MaxConcurrentAgents,
          runs, alarms, reschedules, cleanups>>
-----------------------------------------------------------------------------
(* A queued retry.  timer: entry.Timer is not nil.  due: DueAt has passed. *)
RetryKinds == {"failure", "quota", "continuation"}

NoEntry == [kind |-> "none", attempt |-> 0, turns |-> 0,
            timer |-> FALSE, due |-> FALSE]

RetryEntry == [kind : RetryKinds \cup {"none"}, attempt : Nat, turns : Nat,
               timer : BOOLEAN, due : BOOLEAN]

(* The payload of a scheduleRetryOp.  held: the issue stays claimed, with  *)
(* no other entry, until the operation is applied (a finalized run); else  *)
(* a retry that fired and is put back, its old entry still queued.         *)
Reschedule == [id : TimerIds, kind : RetryKinds, attempt : Nat, turns : Nat,
               held : BOOLEAN]

(* A retry timer (armed), its callback's retryFireOp (fired) and the       *)
(* tracker fetch the fire starts (fetching).  The code tells these apart   *)
(* by attempt and kind only; own says whether the entry now queued is the  *)
(* one the timer was started for.  The id keeps two equal ones apart: it   *)
(* follows a retry from its scheduleRetryOp to its timer, its fire, and    *)
(* the scheduleRetryOp that puts it back.                                  *)
Alarm == [id : TimerIds, kind : RetryKinds, attempt : Nat,
          own : BOOLEAN, stage : {"armed", "fired", "fetching"}]

(* A worker: claimed and about to be registered (spawning), then running   *)
(* until its result is finalized (live).  attempt 0 is a nil RetryAttempt. *)
Run == [phase : {"free", "spawning", "live"},
        attempt : Nat,       \* RetryAttempt
        cattempt : Nat,      \* ContinuationAttempt
        cturns : Nat,        \* ContinuationTurnCount
        budget : Nat,        \* CleanTurnBudget given to the runner, 0 for none
        turns : Nat,         \* Session.TurnCount
        mustBlock : BOOLEAN, \* InputRequired or BudgetExceeded
        rcancel : BOOLEAN,   \* ReconcileCancel
        rclean : BOOLEAN,    \* ReconcileCleanupWorkspace
        owned : BOOLEAN,     \* AgentCurrentIssueTerminalHandoff
        cancel : BOOLEAN]    \* CancelWorker was called

FreeRun == [phase |-> "free", attempt |-> 0, cattempt |-> 0, cturns |-> 0,
            budget |-> 0, turns |-> 0, mustBlock |-> FALSE, rcancel |-> FALSE,
            rclean |-> FALSE, owned |-> FALSE, cancel |-> FALSE]

(* A workspace cleanup.  cattempt > 0: it carries a continuation to resume *)
(* should the issue turn out not to be terminal after all.                 *)
Cleanup == [phase : {"free", "start", "verify", "resume", "remove", "end"},
            attempt : Nat, cattempt : Nat, cturns : Nat]

FreeCleanup == [phase |-> "free", attempt |-> 0, cattempt |-> 0, cturns |-> 0]

(* The types of the actor's maps and of what its goroutines hold.          *)
TypeOK ==
    /\ Running \in [Issues -> RunIds \cup {NoRun}]
    /\ Claimed \subseteq Issues
    /\ Blocked \subseteq Issues
    /\ RetryAttempts \in [Issues -> RetryEntry]
    /\ cleaningWorkspaces \subseteq Issues
    /\ OperatorTerminalStops \subseteq Issues
    /\ MaxConcurrentAgents \in AgentLimits
    /\ runs \in [Issues -> [RunIds -> Run]]
    /\ alarms \in [Issues -> SUBSET Alarm]
    /\ reschedules \in [Issues -> SUBSET Reschedule]
    /\ cleanups \in [Issues -> [JobIds -> Cleanup]]

Init ==
    /\ Running = [i \in Issues |-> NoRun]
    /\ Claimed = {}
    /\ Blocked = {}
    /\ RetryAttempts = [i \in Issues |-> NoEntry]
    /\ cleaningWorkspaces = {}
    /\ OperatorTerminalStops = {}
    /\ MaxConcurrentAgents \in AgentLimits
    /\ runs = [i \in Issues |-> [r \in RunIds |-> FreeRun]]
    /\ alarms = [i \in Issues |-> {}]
    /\ reschedules = [i \in Issues |-> {}]
    /\ cleanups = [i \in Issues |-> [j \in JobIds |-> FreeCleanup]]
-----------------------------------------------------------------------------
(* Views of the state that the operations decide on.                       *)

Queued(i) == RetryAttempts[i].kind # "none"

IsClaimed(i) ==
    i \in Claimed \/ Running[i] # NoRun \/ i \in Blocked \/ Queued(i)

(* Mutant: only registered entries take a slot.                            *)
runningIssueIDsRegistered == {i \in Issues : Running[i] # NoRun}

runningIssueIDs ==
    {i \in Issues : /\ Running[i] # NoRun \/ i \in Claimed
                    /\ ~ Queued(i)
                    /\ i \notin Blocked}

RunningCount == Cardinality(runningIssueIDs)

(* The workers of an issue, those about to be registered included.         *)
Workers(i) == {r \in RunIds : runs[i][r].phase # "free"}

(* A fired retry that is put back leaves its entry queued and submits the  *)
(* scheduleRetryOp from a followup: a window in which other operations on  *)
(* the issue may be applied.  With PromptReschedule that operation reaches *)
(* the actor before any operation that starts a worker or a cleanup of the *)
(* issue; without it, it may come arbitrarily late.                        *)
Settled(i) == PromptReschedule => \A s \in reschedules[i] : s.held

(* Stopping the timer of a queued entry removes it unless its callback     *)
(* already runs; what is left belongs to no queued entry.                  *)
StopTimer(i, as) ==
    {a \in as : ~ (RetryAttempts[i].timer /\ a.own /\ a.stage = "armed")}
Disowned(as) == {[a EXCEPT !.own = FALSE] : a \in as}

ReleaseClaims(S) ==
    /\ Claimed' = Claimed \ S
    /\ Blocked' = Blocked \ S
    /\ RetryAttempts' = [i \in Issues |-> IF i \in S THEN NoEntry
                                          ELSE RetryAttempts[i]]
    /\ alarms' = [i \in Issues |-> IF i \in S
                                   THEN Disowned(StopTimer(i, alarms[i]))
                                   ELSE alarms[i]]

FreshTimers(i) ==
    {id \in TimerIds : \A x \in alarms[i] \cup reschedules[i] : x.id # id}

ScheduleRetry(i, id, k, n, t) ==
    /\ RetryAttempts' = [RetryAttempts EXCEPT ![i] =
           [kind |-> k, attempt |-> n, turns |-> t, timer |-> TRUE, due |-> FALSE]]
    /\ Claimed' = Claimed \cup {i}
    /\ alarms' = [alarms EXCEPT ![i] =
           Disowned(StopTimer(i, @)) \cup
           {[id |-> id, kind |-> k, attempt |-> n, own |-> TRUE,
             stage |-> "armed"]}]

(* The followup of a claim: the goroutine that will register the worker.   *)
Spawn(i, attempt, cattempt, cturns, budget) ==
    \E r \in RunIds :
        /\ runs[i][r].phase = "free"
        /\ runs' = [runs EXCEPT ![i][r] =
               [FreeRun EXCEPT !.phase = "spawning", !.attempt = attempt,
                               !.cattempt = cattempt, !.cturns = cturns,
                               !.budget = budget]]

StartCleanups(S, attemptOf, turnsOf) ==
    \E job \in [S -> JobIds] :
        /\ \A i \in S : cleanups[i][job[i]].phase = "free"
        /\ cleanups' = [i \in Issues |->
               IF i \in S
               THEN [cleanups[i] EXCEPT ![job[i]] =
                        [phase |-> "start", attempt |-> 0,
                         cattempt |-> attemptOf[i], cturns |-> turnsOf[i]]]
               ELSE cleanups[i]]

(* A cleanup goroutine for the workspace of issue i, if a path was ever    *)
(* recorded for it (known).                                                *)
CleanupFollowup(i, known, cattempt, cturns) ==
    IF known
    THEN StartCleanups({i}, [x \in {i} |-> cattempt], [x \in {i} |-> cturns])
    ELSE UNCHANGED cleanups
-----------------------------------------------------------------------------
(* Dispatch: the poll loop offers an active issue to the actor.            *)

(* Mutants: the claim check looks at registered entries only; the gate     *)
(* does not look at workspace reservations.                                *)
DispatchGateRunningOnly(i) ==
    /\ i \notin cleaningWorkspaces
    /\ i \notin OperatorTerminalStops
    /\ Running[i] = NoRun /\ i \notin Blocked /\ ~ Queued(i)

DispatchGateIgnoresCleanup(i) ==
    /\ i \notin OperatorTerminalStops
    /\ IF Queued(i)
       THEN RetryAttempts[i].kind = "continuation" /\ RetryAttempts[i].due
       ELSE ~ IsClaimed(i)

DispatchGate(i) ==
    /\ i \notin cleaningWorkspaces
    /\ i \notin OperatorTerminalStops
    /\ IF Queued(i)
       THEN RetryAttempts[i].kind = "continuation" /\ RetryAttempts[i].due
       ELSE ~ IsClaimed(i)

(* A due continuation that has used up its clean turns is parked.          *)
DispatchBlocked(i) ==
    /\ DispatchGate(i)
    /\ Queued(i)
    /\ RetryAttempts[i].turns >= MaxContinuationTurns
    /\ RetryAttempts' = [RetryAttempts EXCEPT ![i] = NoEntry]
    /\ alarms' = [alarms EXCEPT ![i] = Disowned(StopTimer(i, @))]
    /\ Claimed' = Claimed \cup {i}
    /\ Blocked' = Blocked \cup {i}
    /\ UNCHANGED <<Running, cleaningWorkspaces, OperatorTerminalStops,
                   MaxConcurrentAgents, runs, reschedules, cleanups>>

Dispatch(i) ==
    /\ DispatchGate(i)
    /\ Settled(i)
    /\ RetryAttempts[i].turns < MaxContinuationTurns
    /\ RunningCount < MaxConcurrentAgents
    /\ LET entry == RetryAttempts[i]
       IN  Spawn(i, 0, entry.attempt, entry.turns,
                 MaxContinuationTurns - entry.turns)
    /\ RetryAttempts' = [RetryAttempts EXCEPT ![i] = NoEntry]
    /\ alarms' = [alarms EXCEPT ![i] = Disowned(StopTimer(i, @))]
    /\ Claimed' = Claimed \cup {i}
    /\ UNCHANGED <<Running, Blocked, cleaningWorkspaces, OperatorTerminalStops,
                   MaxConcurrentAgents, reschedules, cleanups>>

(* The followup registers the entry; from here on the worker runs.         *)
Register(i, r) ==
    /\ runs[i][r].phase = "spawning"
    /\ Running' = [Running EXCEPT ![i] = r]
    /\ runs' = [runs EXCEPT ![i][r] = [@ EXCEPT !.phase = "live"]]
    /\ UNCHANGED <<Claimed, Blocked, RetryAttempts, cleaningWorkspaces,
                   OperatorTerminalStops, MaxConcurrentAgents,
                   alarms, reschedules, cleanups>>
-----------------------------------------------------------------------------
(* What a running worker reports, recorded on the issue's current entry.   *)

UpdateRun(i, run) ==
    /\ runs' = [runs EXCEPT ![i][Running[i]] = run]
    /\ UNCHANGED <<actorVars, alarms, reschedules, cleanups>>

(* Mutant: the session's own limit ignores the claim's budget.             *)
effectiveTurnLimitIgnoresBudget(run) == MaxTurns

effectiveTurnLimit(run) ==
    IF run.budget > 0 /\ run.budget <= MaxTurns THEN run.budget ELSE MaxTurns

TurnCompleted(i) ==
    /\ Running[i] # NoRun
    /\ LET run == runs[i][Running[i]]
       IN  /\ run.turns < effectiveTurnLimit(run)
           /\ UpdateRun(i, [run EXCEPT !.turns = @ + 1])

InputRequired(i) ==
    /\ Running[i] # NoRun
    /\ UpdateRun(i, [runs[i][Running[i]] EXCEPT !.mustBlock = TRUE])

TerminalHandoff(i) ==
    /\ Running[i] # NoRun
    /\ UpdateRun(i, [runs[i][Running[i]] EXCEPT !.owned = TRUE])

(* The claim's token or runtime budget is spent: the worker is cancelled.  *)
BudgetExceeded(i) ==
    /\ Running[i] # NoRun
    /\ UpdateRun(i, [runs[i][Running[i]] EXCEPT !.mustBlock = TRUE,
                                                !.cancel = TRUE])

(* The poll tick cancels a worker that has not reported for too long.      *)
ReconcileStalled(i) ==
    /\ Running[i] # NoRun
    /\ ~ runs[i][Running[i]].cancel
    /\ UpdateRun(i, [runs[i][Running[i]] EXCEPT !.cancel = TRUE])
-----------------------------------------------------------------------------
(* Finalize: the actor learns how a worker ended.  The branches below are  *)
(* tried by the code in this order; a worker may end in any of the ways    *)
(* they stand for (input required, clean, quota, any other error), and     *)
(* whatever it was cancelled for.                                          *)

(* Finalizing frees the worker; the entry leaves Running.                  *)
FinishRun(i, r) ==
    /\ Running' = [Running EXCEPT ![i] = NoRun]
    /\ runs' = [runs EXCEPT ![i][r] = FreeRun]

BlockRun(i, r) ==
    /\ FinishRun(i, r)
    /\ RetryAttempts' = [RetryAttempts EXCEPT ![i] = NoEntry]
    /\ alarms' = [alarms EXCEPT ![i] = Disowned(@)]
    /\ Claimed' = Claimed \cup {i}
    /\ Blocked' = Blocked \cup {i}
    /\ UNCHANGED <<OperatorTerminalStops, reschedules, cleanups>>

(* Mutant: the claim is dropped until the retry is queued.                 *)
FinishAndRetryUnclaimed(i, r, k, n, t) ==
    /\ FinishRun(i, r)
    /\ Claimed' = Claimed \ {i}
    /\ \E id \in FreshTimers(i) :
           reschedules' = [reschedules EXCEPT ![i] = @ \cup
               {[id |-> id, kind |-> k, attempt |-> n, turns |-> t, held |-> TRUE]}]
    /\ UNCHANGED <<Blocked, RetryAttempts, alarms, OperatorTerminalStops, cleanups>>

(* The claim is kept and the followup will queue a retry.                  *)
FinishAndRetry(i, r, k, n, t) ==
    /\ FinishRun(i, r)
    /\ Claimed' = Claimed \cup {i}
    /\ \E id \in FreshTimers(i) :
           reschedules' = [reschedules EXCEPT ![i] = @ \cup
               {[id |-> id, kind |-> k, attempt |-> n, turns |-> t, held |-> TRUE]}]
    /\ UNCHANGED <<Blocked, RetryAttempts, alarms, OperatorTerminalStops, cleanups>>

(* The claim is dropped; the workspace may be removed.                     *)
FinishAndRelease(i, r, cleanup, cattempt, cturns) ==
    /\ FinishRun(i, r)
    /\ Claimed' = Claimed \ {i}
    /\ \E known \in BOOLEAN :
           CleanupFollowup(i, cleanup /\ known, cattempt, cturns)
    /\ UNCHANGED <<Blocked, RetryAttempts, alarms, reschedules>>

continuationTurnDelta(run) == IF run.turns > 0 THEN run.turns ELSE 1

(* Clean exit because the worker itself saw the issue terminal.  stop: the *)
(* exit carries an operator stop, or the terminal state is not the one the *)
(* agent handed off to.                                                    *)
TerminalSelfStop(i, r) ==
    /\ ~ runs[i][r].mustBlock
    /\ \E stop \in BOOLEAN :
           /\ ~ runs[i][r].owned => stop
           /\ OperatorTerminalStops' =
                  IF stop THEN OperatorTerminalStops \cup {i}
                  ELSE OperatorTerminalStops
    /\ FinishAndRelease(i, r, TRUE, 0, 0)

CleanExitOfTerminalIssue(i, r) ==
    LET run == runs[i][r]
    IN  /\ ~ run.mustBlock
        /\ run.rclean /\ run.turns > 0
        /\ FinishAndRelease(i, r, TRUE, run.cattempt + 1,
                            run.cturns + continuationTurnDelta(run))
        /\ UNCHANGED OperatorTerminalStops

(* stillActive: the worker did not see the issue leave the active states.  *)
CleanExit(i, r, stillActive) ==
    LET run == runs[i][r]
        turns == run.cturns + continuationTurnDelta(run)
    IN  /\ ~ run.mustBlock
        /\ ~ (run.rclean /\ run.turns > 0)
        /\ IF stillActive /\ turns >= MaxContinuationTurns
           THEN BlockRun(i, r)
           ELSE FinishAndRetry(i, r, "continuation", run.cattempt + 1, turns)

ReconciledCancelCleanup(i, r) ==
    LET run == runs[i][r]
    IN  /\ ~ run.mustBlock
        /\ run.rclean /\ run.turns > 0
        /\ FinishAndRelease(i, r, TRUE, 0, 0)
        /\ UNCHANGED OperatorTerminalStops

QuotaBackoff(i, r) ==
    LET run == runs[i][r]
    IN  /\ ~ run.mustBlock
        /\ ~ (run.rclean /\ run.turns > 0)
        /\ FinishAndRetry(i, r, "quota", run.attempt, 0)

ReconcileCancel(i, r) ==
    LET run == runs[i][r]
    IN  /\ ~ run.mustBlock
        /\ ~ (run.rclean /\ run.turns > 0)
        /\ run.rcancel
        /\ FinishAndRelease(i, r, run.rclean, 0, 0)
        /\ UNCHANGED OperatorTerminalStops

FailureRetry(i, r) ==
    LET run == runs[i][r]
    IN  /\ ~ run.mustBlock
        /\ ~ (run.rclean /\ run.turns > 0)
        /\ ~ run.rcancel
        /\ run.attempt < MaxAttempt
        /\ FinishAndRetry(i, r, "failure", run.attempt + 1, 0)

(* A worker whose entry was replaced in Running is only dropped, though a  *)
(* terminal self-stop latches the issue first.                             *)
FinalizeStale(i, r) ==
    /\ runs' = [runs EXCEPT ![i][r] = FreeRun]
    /\ \E stop \in BOOLEAN :
           OperatorTerminalStops' = IF stop /\ ~ runs[i][r].mustBlock
                                    THEN OperatorTerminalStops \cup {i}
                                    ELSE OperatorTerminalStops
    /\ UNCHANGED <<Running, Claimed, Blocked, RetryAttempts, alarms,
                   reschedules, cleanups>>

Finalize(i, r) ==
    /\ runs[i][r].phase = "live"
    /\ IF Running[i] # r
       THEN FinalizeStale(i, r)
       ELSE \/ BlockRun(i, r)
            \/ TerminalSelfStop(i, r)
            \/ CleanExitOfTerminalIssue(i, r)
            \/ \E stillActive \in BOOLEAN : CleanExit(i, r, stillActive)
            \/ ReconciledCancelCleanup(i, r)
            \/ QuotaBackoff(i, r)
            \/ ReconcileCancel(i, r)
            \/ FailureRetry(i, r)
    /\ UNCHANGED <<cleaningWorkspaces, MaxConcurrentAgents>>
-----------------------------------------------------------------------------
(* Retry: queue an entry, let its timer fire, ask the tracker, dispatch.   *)

ScheduleRetryApplied(i, s) ==
    /\ s \in reschedules[i]
    /\ ScheduleRetry(i, s.id, s.kind, s.attempt, s.turns)
    /\ reschedules' = [reschedules EXCEPT ![i] = @ \ {s}]
    /\ UNCHANGED <<Running, Blocked, cleaningWorkspaces, OperatorTerminalStops,
                   MaxConcurrentAgents, runs, cleanups>>

TimerFires(i, a) ==
    /\ a \in alarms[i] /\ a.stage = "armed"
    /\ alarms' = [alarms EXCEPT ![i] =
                     (@ \ {a}) \cup {[a EXCEPT !.stage = "fired"]}]
    /\ RetryAttempts' = IF a.own THEN [RetryAttempts EXCEPT ![i].due = TRUE]
                        ELSE RetryAttempts
    /\ UNCHANGED <<Running, Claimed, Blocked, cleaningWorkspaces,
                   OperatorTerminalStops, MaxConcurrentAgents, runs,
                   reschedules, cleanups>>

matchingRetryEntry(i, a) ==
    RetryAttempts[i].kind = a.kind /\ RetryAttempts[i].attempt = a.attempt

(* A fired continuation only wakes the poll loop.                          *)
RetryFire(i, a) ==
    /\ a \in alarms[i] /\ a.stage = "fired"
    /\ alarms' = [alarms EXCEPT ![i] =
           IF matchingRetryEntry(i, a) /\ a.kind # "continuation"
           THEN (@ \ {a}) \cup {[a EXCEPT !.stage = "fetching"]}
           ELSE @ \ {a}]
    /\ RetryAttempts' = IF matchingRetryEntry(i, a)
                        THEN [RetryAttempts EXCEPT ![i].timer = FALSE]
                        ELSE RetryAttempts
    /\ UNCHANGED <<Running, Claimed, Blocked, cleaningWorkspaces,
                   OperatorTerminalStops, MaxConcurrentAgents, runs,
                   reschedules, cleanups>>

(* The fetch ends; what follows depends on the entry now queued.           *)
Fetched(i, a) == a \in alarms[i] /\ a.stage = "fetching"

FetchStale(i, a) ==
    /\ Fetched(i, a)
    /\ ~ matchingRetryEntry(i, a)
    /\ alarms' = [alarms EXCEPT ![i] = @ \ {a}]
    /\ UNCHANGED <<actorVars, runs, reschedules, cleanups>>

(* Mutant: the followup forgets to queue the retry again.                  *)
PutBackLost(i, a) ==
    /\ alarms' = [alarms EXCEPT ![i] = @ \ {a}]
    /\ UNCHANGED <<actorVars, runs, reschedules, cleanups>>

(* The entry stays queued; the followup replaces it.                       *)
PutBack(i, a) ==
    /\ a.kind = "failure" => a.attempt < MaxAttempt
    /\ reschedules' = [reschedules EXCEPT ![i] = @ \cup
           {[id |-> a.id, kind |-> a.kind, turns |-> 0, held |-> FALSE,
             attempt |-> IF a.kind = "quota" THEN a.attempt ELSE a.attempt + 1]}]
    /\ alarms' = [alarms EXCEPT ![i] = @ \ {a}]
    /\ UNCHANGED <<actorVars, runs, cleanups>>

RetryPollFailed(i, a) ==
    /\ Fetched(i, a)
    /\ matchingRetryEntry(i, a)
    /\ PutBack(i, a)

(* Mutant: the entry goes, the claim stays.                                *)
DropRetryKeepsClaim(i, a) ==
    /\ UNCHANGED <<Claimed, Blocked>>
    /\ RetryAttempts' = [RetryAttempts EXCEPT ![i] = NoEntry]
    /\ alarms' = [alarms EXCEPT ![i] = Disowned(StopTimer(i, @ \ {a}))]

DropRetry(i, a) ==
    /\ Claimed' = Claimed \ {i}
    /\ Blocked' = Blocked \ {i}
    /\ RetryAttempts' = [RetryAttempts EXCEPT ![i] = NoEntry]
    /\ alarms' = [alarms EXCEPT ![i] = Disowned(StopTimer(i, @ \ {a}))]

(* The issue is not among the active ones.                                 *)
RetryReleased(i, a) ==
    /\ Fetched(i, a)
    /\ matchingRetryEntry(i, a)
    /\ DropRetry(i, a)
    /\ \E terminal, known \in BOOLEAN :
           /\ OperatorTerminalStops' =
                  IF terminal THEN OperatorTerminalStops \cup {i}
                  ELSE OperatorTerminalStops
           /\ CleanupFollowup(i, terminal /\ known, 0, 0)
    /\ UNCHANGED <<Running, cleaningWorkspaces, MaxConcurrentAgents, runs,
                   reschedules>>

RetrySuppressed(i, a) ==
    /\ Fetched(i, a)
    /\ matchingRetryEntry(i, a)
    /\ i \in OperatorTerminalStops
    /\ DropRetry(i, a)
    /\ UNCHANGED <<Running, cleaningWorkspaces, OperatorTerminalStops,
                   MaxConcurrentAgents, runs, reschedules, cleanups>>

(* No agent slot, or none for the issue's tracker state (which the model   *)
(* does not count: it may be full at any time).                            *)
CapacityDeferRetry(i, a) ==
    /\ Fetched(i, a)
    /\ matchingRetryEntry(i, a)
    /\ i \notin OperatorTerminalStops
    /\ PutBack(i, a)

RetryDispatched(i, a) ==
    /\ Fetched(i, a)
    /\ matchingRetryEntry(i, a)
    /\ i \notin OperatorTerminalStops
    /\ RunningCount < MaxConcurrentAgents
    /\ Settled(i)
    /\ RetryAttempts' = [RetryAttempts EXCEPT ![i] = NoEntry]
    /\ alarms' = [alarms EXCEPT ![i] = Disowned(@ \ {a})]
    /\ Spawn(i, a.attempt, 0, 0, 0)
    /\ UNCHANGED <<Running, Claimed, Blocked, cleaningWorkspaces,
                   OperatorTerminalStops, MaxConcurrentAgents, reschedules,
                   cleanups>>
-----------------------------------------------------------------------------
(* Reconcile: the poll tick applies what the tracker says of the issues    *)
(* held.  One operation covers all the issues of the tick's answer.        *)

Registered(S) == {i \in S : Running[i] # NoRun}

(* Mutant: the entry is marked, the worker is not cancelled.               *)
CancelledNotStopped(run, isTerminal) ==
    [run EXCEPT !.rcancel = TRUE, !.rclean = isTerminal, !.owned = (@ /\ isTerminal)]

(* Unless the issue is terminal, a pending removal and the agent's handoff *)
(* are forgotten.                                                          *)
Cancelled(run, isTerminal) ==
    [run EXCEPT !.rcancel = TRUE, !.cancel = TRUE,
                !.rclean = isTerminal, !.owned = (@ /\ isTerminal)]

CancelRuns(S, terminal) ==
    runs' = [i \in Issues |->
        IF i \in S
        THEN [runs[i] EXCEPT ![Running[i]] = Cancelled(@, i \in terminal)]
        ELSE runs[i]]

(* seen: issues read as not active; terminal: those in a terminal state.   *)
(* A terminal issue is latched unless it is running and its agent handed   *)
(* off to that very state.                                                 *)
ReconcileInactive(seen, terminal) ==
    LET live    == Registered(seen)
        waiting == {i \in seen \ live : Queued(i) \/ i \in Blocked}
        gone    == terminal \cap waiting
        unowned == {i \in terminal \cap live : ~ runs[i][Running[i]].owned}
    IN  /\ live \cup waiting # {}
        /\ ReleaseClaims(live \cup waiting)
        /\ CancelRuns(live, terminal)
        /\ \E other \in SUBSET (terminal \cap live) :
               OperatorTerminalStops' =
                   OperatorTerminalStops \cup gone \cup unowned \cup other
        /\ \E known \in SUBSET gone :
               StartCleanups(known,
                   [i \in known |-> IF RetryAttempts[i].kind = "continuation"
                                    THEN RetryAttempts[i].attempt ELSE 0],
                   [i \in known |-> RetryAttempts[i].turns])
        /\ UNCHANGED <<Running, cleaningWorkspaces, MaxConcurrentAgents,
                       reschedules>>

(* Issues the tracker no longer knows.  A failure or quota retry is left   *)
(* to its own fire.                                                        *)
ReconcileAbsent(seen) ==
    LET live  == Registered(seen)
        other == {i \in seen \ live : \/ i \in Blocked
                                      \/ RetryAttempts[i].kind = "continuation"}
    IN  /\ live \cup other # {}
        /\ ReleaseClaims(live \cup other)
        /\ CancelRuns(live, {})
        /\ UNCHANGED <<Running, cleaningWorkspaces, OperatorTerminalStops,
                       MaxConcurrentAgents, reschedules, cleanups>>

(* Issues read as active again: a pending removal and the agent's handoff  *)
(* are forgotten, a cancellation is not.                                   *)
ActiveAgain(run) == [run EXCEPT !.rclean = FALSE, !.owned = FALSE]

RefreshActive(seen) ==
    LET live == Registered(seen)
    IN  /\ live # {}
        /\ runs' = [i \in Issues |->
               IF i \in live
               THEN [runs[i] EXCEPT ![Running[i]] = ActiveAgain(@)]
               ELSE runs[i]]
        /\ UNCHANGED <<actorVars, alarms, reschedules, cleanups>>

UpdateMaxConcurrentAgents(n) ==
    /\ MaxConcurrentAgents' = n
    /\ UNCHANGED <<Running, Claimed, Blocked, RetryAttempts, cleaningWorkspaces,
                   OperatorTerminalStops, runs, alarms, reschedules, cleanups>>
-----------------------------------------------------------------------------
(* Cleanup: a goroutine per workspace reserves the issue, asks the tracker *)
(* once more, and removes the workspace of an issue that is still terminal.*)

SetCleanup(i, j, job) == cleanups' = [cleanups EXCEPT ![i][j] = job]

CleanupBegin(i, j) ==
    /\ cleanups[i][j].phase = "start"
    /\ Settled(i)
    /\ IF IsClaimed(i) \/ i \in cleaningWorkspaces
       THEN /\ SetCleanup(i, j, FreeCleanup)
            /\ UNCHANGED cleaningWorkspaces
       ELSE /\ SetCleanup(i, j, [cleanups[i][j] EXCEPT !.phase = "verify"])
            /\ cleaningWorkspaces' = cleaningWorkspaces \cup {i}
    /\ UNCHANGED <<Running, Claimed, Blocked, RetryAttempts,
                   OperatorTerminalStops, MaxConcurrentAgents, runs, alarms,
                   reschedules>>

(* The tracker could not say: try again later, up to the limit.            *)
CleanupUnknown(i, j) ==
    /\ cleanups[i][j].phase = "verify"
    /\ SetCleanup(i, j,
           IF cleanups[i][j].attempt < MaxCleanupRetries
           THEN [cleanups[i][j] EXCEPT !.phase = "end", !.attempt = @ + 1]
           ELSE [FreeCleanup EXCEPT !.phase = "end"])
    /\ UNCHANGED <<actorVars, runs, alarms, reschedules>>

CleanupAbsent(i, j) ==
    /\ cleanups[i][j].phase = "verify"
    /\ SetCleanup(i, j, [FreeCleanup EXCEPT !.phase = "end"])
    /\ UNCHANGED <<actorVars, runs, alarms, reschedules>>

(* Mutant: the continuation is resumed in spite of an operator stop.       *)
CleanupNotTerminalIgnoresStop(i, j) ==
    /\ cleanups[i][j].phase = "verify"
    /\ SetCleanup(i, j,
           IF cleanups[i][j].cattempt > 0
           THEN [cleanups[i][j] EXCEPT !.phase = "resume"]
           ELSE [FreeCleanup EXCEPT !.phase = "end"])
    /\ UNCHANGED <<actorVars, runs, alarms, reschedules>>

(* The issue is not terminal any more: its continuation is resumed, unless *)
(* an operator stop latched it.                                            *)
CleanupNotTerminal(i, j) ==
    /\ cleanups[i][j].phase = "verify"
    /\ SetCleanup(i, j,
           IF cleanups[i][j].cattempt > 0 /\ i \notin OperatorTerminalStops
           THEN [cleanups[i][j] EXCEPT !.phase = "resume"]
           ELSE [FreeCleanup EXCEPT !.phase = "end"])
    /\ UNCHANGED <<actorVars, runs, alarms, reschedules>>

CleanupResume(i, j) ==
    LET job == cleanups[i][j]
    IN  /\ job.phase = "resume"
        /\ \E id \in FreshTimers(i) :
               ScheduleRetry(i, id, "continuation", job.cattempt, job.cturns)
        /\ SetCleanup(i, j, [FreeCleanup EXCEPT !.phase = "end"])
        /\ UNCHANGED <<Running, Blocked, cleaningWorkspaces,
                       OperatorTerminalStops, MaxConcurrentAgents, runs,
                       reschedules>>

CleanupTerminal(i, j) ==
    /\ cleanups[i][j].phase = "verify"
    /\ SetCleanup(i, j, [FreeCleanup EXCEPT !.phase = "remove"])
    /\ UNCHANGED <<actorVars, runs, alarms, reschedules>>

CleanupRemove(i, j) ==
    /\ cleanups[i][j].phase = "remove"
    /\ SetCleanup(i, j, [FreeCleanup EXCEPT !.phase = "end"])
    /\ UNCHANGED <<actorVars, runs, alarms, reschedules>>

(* Mutant: the reservation is kept across the backoff.                     *)
CleanupEndKeepsMark(i, j) ==
    /\ cleanups[i][j].phase = "end"
    /\ cleaningWorkspaces' = IF cleanups[i][j].attempt > 0 THEN cleaningWorkspaces
                             ELSE cleaningWorkspaces \ {i}
    /\ SetCleanup(i, j,
           IF cleanups[i][j].attempt > 0
           THEN [cleanups[i][j] EXCEPT !.phase = "start"]
           ELSE FreeCleanup)
    /\ UNCHANGED <<Running, Claimed, Blocked, RetryAttempts,
                   OperatorTerminalStops, MaxConcurrentAgents, runs, alarms,
                   reschedules>>

(* The deferred release of the reservation.  A cleanup to be tried again   *)
(* sleeps for its backoff before it begins anew.                           *)
CleanupEnd(i, j) ==
    /\ cleanups[i][j].phase = "end"
    /\ cleaningWorkspaces' = cleaningWorkspaces \ {i}
    /\ SetCleanup(i, j,
           IF cleanups[i][j].attempt > 0
           THEN [cleanups[i][j] EXCEPT !.phase = "start"]
           ELSE FreeCleanup)
    /\ UNCHANGED <<Running, Claimed, Blocked, RetryAttempts,
                   OperatorTerminalStops, MaxConcurrentAgents, runs, alarms,
                   reschedules>>
-----------------------------------------------------------------------------
PollStep ==
    \/ \E i \in Issues : Dispatch(i) \/ DispatchBlocked(i) \/ ReconcileStalled(i)
    \/ \E seen \in SUBSET Issues : \E terminal \in SUBSET seen :
           ReconcileInactive(seen, terminal)
    \/ \E seen \in SUBSET Issues : ReconcileAbsent(seen) \/ RefreshActive(seen)
    \/ \E n \in AgentLimits : UpdateMaxConcurrentAgents(n)

WorkerStep(i) ==
    \/ TurnCompleted(i)
    \/ InputRequired(i)
    \/ TerminalHandoff(i)
    \/ BudgetExceeded(i)
    \/ \E r \in RunIds : Register(i, r) \/ Finalize(i, r)

RetryStep(i) ==
    \/ \E s \in reschedules[i] : ScheduleRetryApplied(i, s)
    \/ \E a \in alarms[i] :
           \/ TimerFires(i, a)
           \/ RetryFire(i, a)
           \/ FetchStale(i, a)
           \/ RetryPollFailed(i, a)
           \/ RetryReleased(i, a)
           \/ RetrySuppressed(i, a)
           \/ CapacityDeferRetry(i, a)
           \/ RetryDispatched(i, a)

CleanupStep(i, j) ==
    \/ CleanupBegin(i, j)
    \/ CleanupUnknown(i, j)
    \/ CleanupAbsent(i, j)
    \/ CleanupNotTerminal(i, j)
    \/ CleanupResume(i, j)
    \/ CleanupTerminal(i, j)
    \/ CleanupRemove(i, j)
    \/ CleanupEnd(i, j)

Next ==
    \/ PollStep
    \/ \E i \in Issues : \/ WorkerStep(i)
                         \/ RetryStep(i)
                         \/ \E j \in JobIds : CleanupStep(i, j)

Spec == Init /\ [][Next]_vars
-----------------------------------------------------------------------------
(* What makes the actor correct.                                           *)

Reserves(i, j) == cleanups[i][j].phase \in {"verify", "resume", "remove", "end"}

WorkerSet == {w \in Issues \X RunIds : runs[w[1]][w[2]].phase # "free"}

(* An issue never has two workers, one about to start included, however    *)
(* dispatches, retry fires, finalizations and reconciles interleave.       *)
OneWorkerPerIssue ==
    \A i \in Issues : \A r, q \in Workers(i) : r = q

(* Every worker holds an agent slot: its issue is counted by RunningCount, *)
(* which the capacity gates read, from the claim to the finalization.      *)
WorkersAreCounted ==
    \A i \in Issues : Workers(i) # {} => i \in runningIssueIDs

(* Running, retry-queued and blocked exclude each other (SPEC 7.1).        *)
SubstatesAreDisjoint ==
    \A i \in Issues :
        /\ ~ (Running[i] # NoRun /\ Queued(i))
        /\ ~ (Running[i] # NoRun /\ i \in Blocked)
        /\ ~ (Queued(i) /\ i \in Blocked)

(* While a cleanup has the workspace reserved (it may be deleting it) the  *)
(* issue has no worker, and no second cleanup has it reserved.             *)
CleanupIsExclusive ==
    \A i \in Issues : \A j \in JobIds :
        Reserves(i, j) =>
            /\ i \in cleaningWorkspaces
            /\ Workers(i) = {}
            /\ \A k \in JobIds : Reserves(i, k) => k = j

(* A claim is never orphaned.  Whatever is claimed has a worker, is        *)
(* blocked, is about to be queued, or is queued; and what is queued will   *)
(* move on: its timer runs, its fire or fetch is on the way, it is being   *)
(* put back, or it is a due continuation the next poll may dispatch.       *)
ClaimHasDriver ==
    \A i \in Issues :
        /\ i \in Claimed => \/ Workers(i) # {}
                            \/ i \in Blocked
                            \/ reschedules[i] # {}
                            \/ Queued(i)
        /\ Queued(i) => \/ \E a \in alarms[i] : matchingRetryEntry(i, a)
                        \/ reschedules[i] # {}
                        \/ RetryAttempts[i].kind = "continuation"
                              /\ RetryAttempts[i].due

(* A latched issue is not worked on again: it is neither about to start a  *)
(* worker nor about to have its continuation resumed.                      *)
LatchedStaysStopped ==
    \A i \in OperatorTerminalStops :
        /\ \A r \in RunIds : runs[i][r].phase # "spawning"
        /\ \A j \in JobIds : cleanups[i][j].phase # "resume"

(* A session started under the clean-turn budget never brings the claim's  *)
(* clean turns above it.                                                   *)
TurnBudgetHeld ==
    \A i \in Issues : \A r \in RunIds :
        runs[i][r].budget > 0 =>
            runs[i][r].cturns + runs[i][r].turns <= MaxContinuationTurns

(* Workers are added only within the limit in force, although a reload may *)
(* have lowered it below the number already running.                       *)
AgentLimitRespected ==
    [][ Cardinality(WorkerSet') > Cardinality(WorkerSet)
            => Cardinality(WorkerSet') <= MaxConcurrentAgents ]_vars
-----------------------------------------------------------------------------
(* What comments of the source say and the code does not quite do.         *)

(* A stale fire of an earlier entry is a no-op, so a queued retry starts   *)
(* its worker only once its delay has passed (comment of retryFireOp).     *)
BackoffRespected ==
    [][\A i \in Issues : Queued(i) /\ ~ RetryAttempts[i].due
                             => Workers(i)' \subseteq Workers(i)]_vars

(* A worker that reconciliation cancelled is finalized without a retry:    *)
(* its issue is not claimed again (comment of RunningEntry.ReconcileCancel)*)
ReconcileCancelReleases ==
    [][\A i \in Issues :
          /\ Running[i] # NoRun
          /\ runs[i][Running[i]].rcancel
          /\ Running'[i] = NoRun
          => i \notin Claimed']_vars
-----------------------------------------------------------------------------
(* Why it is correct: at any time an issue is held in one way only.  The   *)
(* conjuncts say, for each holder of an issue, what it excludes.           *)

Idle(i) == Workers(i) = {} /\ Running[i] = NoRun

SpawningInv(i) ==
    \A r \in RunIds : runs[i][r].phase = "spawning" =>
        /\ Workers(i) = {r}
        /\ Running[i] = NoRun
        /\ i \in Claimed
        /\ i \notin OperatorTerminalStops

LiveInv(i) ==
    /\ \A r \in RunIds : runs[i][r].phase = "live" => Running[i] = r
    /\ Running[i] # NoRun => Workers(i) = {Running[i]}

WorkerInv(i) ==
    Workers(i) # {} => /\ ~ Queued(i)
                       /\ i \notin Blocked
                       /\ reschedules[i] = {}
                       /\ i \notin cleaningWorkspaces

BlockedInv(i) ==
    i \in Blocked => /\ i \in Claimed
                     /\ Idle(i)
                     /\ ~ Queued(i)
                     /\ reschedules[i] = {}
                     /\ i \notin cleaningWorkspaces

QueuedInv(i) ==
    Queued(i) =>
        /\ i \in Claimed
        /\ RetryAttempts[i].kind = "continuation" => reschedules[i] = {}

RescheduleInv(i) ==
    \A s \in reschedules[i] :
        /\ Idle(i)
        /\ i \notin Blocked
        /\ i \notin cleaningWorkspaces
        /\ IF s.held
           THEN reschedules[i] = {s} /\ i \in Claimed /\ ~ Queued(i)
           ELSE s.kind # "continuation"

CleaningInv(i) ==
    /\ \A j \in JobIds : Reserves(i, j) => i \in cleaningWorkspaces
    /\ \A j, k \in JobIds : Reserves(i, j) /\ Reserves(i, k) => j = k
    /\ i \in cleaningWorkspaces =>
           /\ Idle(i)
           /\ i \in Claimed => Queued(i)
           /\ Queued(i) => RetryAttempts[i].kind = "continuation"
    /\ \A j \in JobIds :
           cleanups[i][j].phase \in {"verify", "resume", "remove"} => ~ Queued(i)
    /\ \A j \in JobIds :
           cleanups[i][j].phase = "resume" => i \notin OperatorTerminalStops

AlarmInv(i) ==
    /\ \A a \in alarms[i] : /\ a.own => matchingRetryEntry(i, a)
                            /\ a.stage = "fetching" => a.kind # "continuation"
    /\ Queued(i) =>
           \/ \E a \in alarms[i] : a.own /\ (~ RetryAttempts[i].due => a.stage = "armed")
           \/ reschedules[i] # {}
           \/ RetryAttempts[i].kind = "continuation" /\ RetryAttempts[i].due

DriverInv(i) ==
    i \in Claimed => \/ Workers(i) # {}
                     \/ i \in Blocked
                     \/ reschedules[i] # {}
                     \/ Queued(i)

BudgetInv(i) ==
    \A r \in RunIds :
        runs[i][r].budget > 0 =>
            /\ runs[i][r].cturns + runs[i][r].budget <= MaxContinuationTurns
            /\ runs[i][r].turns <= runs[i][r].budget

IssueInv(i) ==
    /\ SpawningInv(i)
    /\ LiveInv(i)
    /\ WorkerInv(i)
    /\ BlockedInv(i)
    /\ QueuedInv(i)
    /\ RescheduleInv(i)
    /\ CleaningInv(i)
    /\ AlarmInv(i)
    /\ DriverInv(i)
    /\ BudgetInv(i)

(* The inductive invariant: every issue is held in one way, and what the   *)
(* in-flight goroutines carry agrees with the actor's maps.                *)
IInv == TypeOK /\ \A i \in Issues : IssueInv(i)
=============================================================================
