------------------------- MODULE OrchestratorProofs -------------------------
(***************************************************************************)
(* Proofs about the orchestrator actor, for every set of issues, every     *)
(* tracker and every number of agents.                                     *)
(*                                                                         *)
(*   TypeCorrect   the actor's state and what is in flight are typed       *)
(*   Invariance    IInv is an inductive invariant; the theorems after it   *)
(*                 are the invariants it implies                           *)
(*   AgentLimit    workers are started only within the limit in force      *)
(*   Refinement    the actor implements ClaimLifecycle                     *)
(*   NoLeakedReservation  a reserved workspace has a cleanup at work       *)
(***************************************************************************)
EXTENDS OrchestratorRefinement, FiniteSetTheorems, TLAPS

(* Stopping a timer or dropping an entry turns alarms into alarms.         *)
LEMMA AlarmsLeft ==
    ASSUME NEW i, NEW as \in SUBSET Alarm
    PROVE  /\ StopTimer(i, as) \in SUBSET Alarm
           /\ Disowned(as) \in SUBSET Alarm
           /\ Disowned(StopTimer(i, as)) \in SUBSET Alarm
BY DEF StopTimer, Disowned, Alarm

(* The empty records of a worker, a cleanup and a queue slot have their    *)
(* types.                                                                  *)
LEMMA FreeRecords ==
    FreeRun \in Run /\ FreeCleanup \in Cleanup /\ NoEntry \in RetryEntry
BY DEF FreeRun, Run, FreeCleanup, Cleanup, NoEntry, RetryEntry

(* The updates of a worker's entry.                                        *)
LEMMA RunUpdates ==
    ASSUME NEW run \in Run
    PROVE  /\ [run EXCEPT !.phase = "live"] \in Run
           /\ [run EXCEPT !.turns = @ + 1] \in Run
           /\ [run EXCEPT !.mustBlock = TRUE] \in Run
           /\ [run EXCEPT !.owned = TRUE] \in Run
           /\ [run EXCEPT !.mustBlock = TRUE, !.cancel = TRUE] \in Run
           /\ [run EXCEPT !.cancel = TRUE] \in Run
           /\ ActiveAgain(run) \in Run
           /\ \A t \in BOOLEAN : Cancelled(run, t) \in Run
<1>1. run.turns + 1 \in Nat /\ \A t \in BOOLEAN : (run.owned /\ t) \in BOOLEAN
  BY DEF Run
<1> QED BY <1>1, Zenon DEF Run, ActiveAgain, Cancelled

(* The updates of a queued entry.                                          *)
LEMMA EntryUpdates ==
    ASSUME NEW e \in RetryEntry
    PROVE  /\ [e EXCEPT !.due = TRUE] \in RetryEntry
           /\ [e EXCEPT !.timer = FALSE] \in RetryEntry
BY DEF RetryEntry

(* The updates of a cleanup.                                               *)
LEMMA CleanupUpdates ==
    ASSUME NEW job \in Cleanup
    PROVE  /\ \A p \in {"start", "verify", "resume"} : [job EXCEPT !.phase = p] \in Cleanup
           /\ [job EXCEPT !.phase = "end", !.attempt = @ + 1] \in Cleanup
           /\ \A p \in {"end", "remove"} : [FreeCleanup EXCEPT !.phase = p] \in Cleanup
<1>1. job.attempt + 1 \in Nat
  BY DEF Cleanup
<1>2. 0 \in Nat
  OBVIOUS
<1> QED BY <1>1, <1>2, Zenon DEF Cleanup, FreeCleanup

(* A put-back or newly scheduled retry is a Reschedule record.             *)
LEMMA RescheduleRecord ==
    ASSUME NEW id \in TimerIds, NEW k \in RetryKinds, NEW n \in Nat, NEW t \in Nat,
           NEW h \in BOOLEAN
    PROVE  [id |-> id, kind |-> k, attempt |-> n, turns |-> t, held |-> h] \in Reschedule
BY DEF Reschedule

(* The entry a followup is about to register is a Run.                     *)
LEMMA SpawnType ==
    ASSUME TypeOK, NEW i \in Issues, NEW attempt \in Nat, NEW cattempt \in Nat,
           NEW cturns \in Nat, NEW budget \in Nat,
           Spawn(i, attempt, cattempt, cturns, budget)
    PROVE  runs' \in [Issues -> [RunIds -> Run]]
<1> DEFINE run == [FreeRun EXCEPT !.phase = "spawning", !.attempt = attempt,
                                  !.cattempt = cattempt, !.cturns = cturns,
                                  !.budget = budget]
<1>1. run \in Run
  BY DEF FreeRun, Run
<1> HIDE DEF run
<1> QED BY <1>1 DEF Spawn, TypeOK, run

(* Replacing one worker, or one cleanup, keeps the types.                  *)
LEMMA ReplaceType ==
    ASSUME TypeOK, NEW i \in Issues
    PROVE  /\ \A r \in RunIds, run \in Run :
                  [runs EXCEPT ![i][r] = run] \in [Issues -> [RunIds -> Run]]
           /\ \A j \in JobIds, job \in Cleanup :
                  [cleanups EXCEPT ![i][j] = job]
                      \in [Issues -> [JobIds -> Cleanup]]
BY DEF TypeOK

(* Starting cleanups keeps the type of their table.                        *)
LEMMA StartCleanupsType ==
    ASSUME TypeOK, NEW S \in SUBSET Issues, NEW f \in [S -> Nat],
           NEW g \in [S -> Nat], StartCleanups(S, f, g)
    PROVE  cleanups' \in [Issues -> [JobIds -> Cleanup]]
BY DEF StartCleanups, TypeOK, Cleanup

(* So does the followup that starts one cleanup or none.                   *)
LEMMA CleanupFollowupType ==
    ASSUME TypeOK, NEW i \in Issues, NEW known, NEW m \in Nat, NEW n \in Nat,
           CleanupFollowup(i, known, m, n)
    PROVE  cleanups' \in [Issues -> [JobIds -> Cleanup]]
<1>1. CASE known
  <2> DEFINE f == [x \in {i} |-> m]
             g == [x \in {i} |-> n]
  <2>1. f \in [{i} -> Nat] /\ g \in [{i} -> Nat] /\ {i} \in SUBSET Issues
    OBVIOUS
  <2>2. StartCleanups({i}, f, g)
    BY <1>1 DEF CleanupFollowup
  <2> HIDE DEF f, g
  <2> QED BY <2>1, <2>2, StartCleanupsType
<1>2. CASE ~ known
  BY <1>2 DEF CleanupFollowup, TypeOK
<1> QED BY <1>1, <1>2

(* The initial state (NewOrchestratorState) is well typed.                 *)
LEMMA InitType == Init => TypeOK
BY FreeRecords DEF Init, TypeOK

(* Every operation keeps the types; one step per action.                   *)
LEMMA NextType == TypeOK /\ [Next]_vars => TypeOK'
<1> SUFFICES ASSUME TypeOK, [Next]_vars PROVE TypeOK'
  OBVIOUS
<1> USE ConstantsAssumption
<1>1. ASSUME NEW i \in Issues, DispatchBlocked(i) PROVE TypeOK'
  BY <1>1, AlarmsLeft, FreeRecords DEF DispatchBlocked, TypeOK
<1>2. ASSUME NEW i \in Issues, Dispatch(i) PROVE TypeOK'
  <2>1. RetryAttempts[i].attempt \in Nat /\ RetryAttempts[i].turns \in Nat
    BY DEF TypeOK, RetryEntry
  <2>2. MaxContinuationTurns - RetryAttempts[i].turns \in Nat
    BY <1>2, <2>1 DEF Dispatch
  <2>3. runs' \in [Issues -> [RunIds -> Run]]
    BY <1>2, <2>1, <2>2, SpawnType DEF Dispatch
  <2> QED BY <1>2, <2>3, AlarmsLeft, FreeRecords DEF Dispatch, TypeOK
<1>3. ASSUME NEW i \in Issues, NEW r \in RunIds, Register(i, r) PROVE TypeOK'
  <2>1. [runs[i][r] EXCEPT !.phase = "live"] \in Run
    <3>1. runs[i][r] \in Run
      BY DEF TypeOK
    <3> QED BY <3>1, RunUpdates, Zenon
  <2> QED BY <1>3, <2>1, ReplaceType DEF Register, TypeOK
<1>4. ASSUME NEW i \in Issues, TurnCompleted(i) \/ InputRequired(i)
                    \/ TerminalHandoff(i) \/ BudgetExceeded(i) \/ ReconcileStalled(i)
      PROVE TypeOK'
  <2> DEFINE run == runs[i][Running[i]]
  <2>1. Running[i] \in RunIds /\ run \in Run
    BY <1>4 DEF TypeOK, TurnCompleted, InputRequired, TerminalHandoff,
                BudgetExceeded, ReconcileStalled
  <2>2. /\ [run EXCEPT !.turns = @ + 1] \in Run
        /\ [run EXCEPT !.mustBlock = TRUE] \in Run
        /\ [run EXCEPT !.owned = TRUE] \in Run
        /\ [run EXCEPT !.mustBlock = TRUE, !.cancel = TRUE] \in Run
        /\ [run EXCEPT !.cancel = TRUE] \in Run
    BY <2>1, RunUpdates, Zenon
  <2>3. \E new \in Run : UpdateRun(i, new)
    BY <1>4, <2>2, Zenon DEF TurnCompleted, InputRequired, TerminalHandoff,
                      BudgetExceeded, ReconcileStalled
  <2>4. PICK new \in Run : UpdateRun(i, new)
    BY <2>3
  <2> QED BY <2>1, <2>4, ReplaceType DEF UpdateRun, actorVars, TypeOK
<1>5. ASSUME NEW i \in Issues, NEW r \in RunIds, Finalize(i, r) PROVE TypeOK'
  <2> DEFINE run == runs[i][r]
  <2>1. run \in Run /\ run.attempt \in Nat /\ run.cattempt \in Nat
          /\ run.cturns \in Nat /\ run.turns \in Nat
    BY DEF TypeOK, Run
  <2>2. continuationTurnDelta(run) \in Nat
    BY <2>1 DEF continuationTurnDelta
  <2>3. UNCHANGED <<cleaningWorkspaces, MaxConcurrentAgents>>
    BY <1>5 DEF Finalize
  <2>4. ASSUME FinishRun(i, r) PROVE /\ Running' \in [Issues -> RunIds \cup {NoRun}]
                                     /\ runs' \in [Issues -> [RunIds -> Run]]
    BY <2>4, FreeRecords, ReplaceType DEF FinishRun, TypeOK
  <2>5. ASSUME BlockRun(i, r) PROVE TypeOK'
    BY <2>3, <2>4, <2>5, AlarmsLeft, FreeRecords DEF BlockRun, TypeOK
  <2>6. ASSUME NEW k \in RetryKinds, NEW n \in Nat, NEW t \in Nat,
               FinishAndRetry(i, r, k, n, t)
        PROVE TypeOK'
    <3>0. PICK id \in FreshTimers(i) :
              reschedules' = [reschedules EXCEPT ![i] = @ \cup
                  {[id |-> id, kind |-> k, attempt |-> n, turns |-> t, held |-> TRUE]}]
      BY <2>6, Zenon DEF FinishAndRetry
    <3> DEFINE s == [id |-> id, kind |-> k, attempt |-> n, turns |-> t, held |-> TRUE]
    <3>1. s \in Reschedule
      BY RescheduleRecord DEF FreshTimers
    <3>2. reschedules' = [reschedules EXCEPT ![i] = @ \cup {s}]
      BY <3>0
    <3> HIDE DEF s
    <3> QED BY <2>3, <2>4, <2>6, <3>1, <3>2 DEF FinishAndRetry, TypeOK
  <2>7. ASSUME NEW c, NEW m \in Nat, NEW n \in Nat, FinishAndRelease(i, r, c, m, n),
               OperatorTerminalStops' \subseteq Issues
        PROVE TypeOK'
    <3>1. cleanups' \in [Issues -> [JobIds -> Cleanup]]
      BY <2>7, CleanupFollowupType DEF FinishAndRelease
    <3> QED BY <2>3, <2>4, <2>7, <3>1 DEF FinishAndRelease, TypeOK
  <2>8. CASE FinalizeStale(i, r)
    BY <2>3, <2>8, FreeRecords, ReplaceType DEF FinalizeStale, TypeOK
  <2>9. CASE TerminalSelfStop(i, r)
    BY <2>7, <2>9 DEF TerminalSelfStop, TypeOK
  <2>10. CASE CleanExitOfTerminalIssue(i, r) \/ ReconciledCancelCleanup(i, r)
                \/ ReconcileCancel(i, r)
    <3>1. OperatorTerminalStops' \subseteq Issues
      BY <2>10 DEF CleanExitOfTerminalIssue, ReconciledCancelCleanup,
                   ReconcileCancel, TypeOK
    <3>2. \E c : \E m, n \in Nat : FinishAndRelease(i, r, c, m, n)
      <4>1. run.cattempt + 1 \in Nat /\ run.cturns + continuationTurnDelta(run) \in Nat
              /\ 0 \in Nat
        BY <2>1, <2>2
      <4> QED BY <4>1, <2>10, Zenon
         DEF CleanExitOfTerminalIssue, ReconciledCancelCleanup, ReconcileCancel
    <3> QED BY <2>7, <3>1, <3>2
  <2>11. ASSUME NEW b \in BOOLEAN, CleanExit(i, r, b) PROVE TypeOK'
    <3>1. /\ "continuation" \in RetryKinds
          /\ run.cattempt + 1 \in Nat
          /\ run.cturns + continuationTurnDelta(run) \in Nat
      BY <2>1, <2>2 DEF RetryKinds
    <3> QED BY <2>5, <2>6, <2>11, <3>1, Zenon DEF CleanExit
  <2>12. CASE QuotaBackoff(i, r) \/ FailureRetry(i, r)
    BY <2>1, <2>6, <2>12 DEF QuotaBackoff, FailureRetry, RetryKinds
  <2> QED BY <1>5, <2>5, <2>8, <2>9, <2>10, <2>11, <2>12 DEF Finalize
<1>6. ASSUME NEW i \in Issues, NEW id \in TimerIds, NEW k \in RetryKinds,
             NEW n \in Nat, NEW t \in Nat, ScheduleRetry(i, id, k, n, t)
      PROVE  /\ RetryAttempts' \in [Issues -> RetryEntry]
             /\ Claimed' \subseteq Issues
             /\ alarms' \in [Issues -> SUBSET Alarm]
  <2> DEFINE e == [kind |-> k, attempt |-> n, turns |-> t, timer |-> TRUE,
                   due |-> FALSE]
             a == [id |-> id, kind |-> k, attempt |-> n, own |-> TRUE, stage |-> "armed"]
  <2>1. e \in RetryEntry /\ a \in Alarm
    BY DEF RetryEntry, Alarm
  <2>2. /\ RetryAttempts' = [RetryAttempts EXCEPT ![i] = e]
        /\ Claimed' = Claimed \cup {i}
        /\ alarms' = [alarms EXCEPT ![i] = Disowned(StopTimer(i, @)) \cup {a}]
    BY <1>6 DEF ScheduleRetry
  <2> HIDE DEF e, a
  <2> QED BY <2>1, <2>2, AlarmsLeft DEF TypeOK
<1>7. ASSUME NEW i \in Issues, NEW s \in reschedules[i], ScheduleRetryApplied(i, s)
      PROVE TypeOK'
  <2>1. s.id \in TimerIds /\ s.kind \in RetryKinds /\ s.attempt \in Nat /\ s.turns \in Nat
    BY DEF TypeOK, Reschedule
  <2>2. ScheduleRetry(i, s.id, s.kind, s.attempt, s.turns)
    BY <1>7 DEF ScheduleRetryApplied
  <2> QED BY <1>6, <1>7, <2>1, <2>2 DEF ScheduleRetryApplied, TypeOK
<1>8. ASSUME NEW i \in Issues, NEW a \in alarms[i]
      PROVE  /\ a \in Alarm
             /\ [a EXCEPT !.stage = "fired"] \in Alarm
             /\ [a EXCEPT !.stage = "fetching"] \in Alarm
             /\ alarms[i] \ {a} \in SUBSET Alarm
  <2>1. a \in Alarm
    BY DEF TypeOK
  <2> QED BY <2>1, Zenon DEF Alarm, TypeOK
<1>9. ASSUME NEW i \in Issues, NEW a \in alarms[i], TimerFires(i, a) PROVE TypeOK'
  <2> DEFINE b == [a EXCEPT !.stage = "fired"]
  <2>1. alarms' = [alarms EXCEPT ![i] = (@ \ {a}) \cup {b}] /\ b \in Alarm
    BY <1>8, <1>9 DEF TimerFires
  <2> HIDE DEF b
  <2>2. alarms' \in [Issues -> SUBSET Alarm]
    BY <2>1 DEF TypeOK
  <2>3. RetryAttempts' \in [Issues -> RetryEntry]
    BY <1>9, EntryUpdates DEF TimerFires, TypeOK
  <2> QED BY <1>9, <2>2, <2>3 DEF TimerFires, TypeOK
<1>10. ASSUME NEW i \in Issues, NEW a \in alarms[i], RetryFire(i, a) PROVE TypeOK'
  <2> DEFINE b == [a EXCEPT !.stage = "fetching"]
  <2>1. /\ alarms' = [alarms EXCEPT ![i] =
                 IF matchingRetryEntry(i, a) /\ a.kind # "continuation"
                 THEN (@ \ {a}) \cup {b} ELSE @ \ {a}]
        /\ b \in Alarm
    BY <1>8, <1>10 DEF RetryFire
  <2> HIDE DEF b
  <2>2. alarms' \in [Issues -> SUBSET Alarm]
    BY <2>1 DEF TypeOK
  <2>3. RetryAttempts' \in [Issues -> RetryEntry]
    BY <1>10, EntryUpdates DEF RetryFire, TypeOK
  <2> QED BY <1>10, <2>2, <2>3 DEF RetryFire, TypeOK
<1>11. ASSUME NEW i \in Issues, NEW a \in alarms[i], FetchStale(i, a) PROVE TypeOK'
  BY <1>11 DEF FetchStale, actorVars, TypeOK
<1>12. ASSUME NEW i \in Issues, NEW a \in alarms[i],
              RetryPollFailed(i, a) \/ CapacityDeferRetry(i, a)
       PROVE TypeOK'
  <2> DEFINE n == IF a.kind = "quota" THEN a.attempt ELSE a.attempt + 1
             s == [id |-> a.id, kind |-> a.kind, turns |-> 0, held |-> FALSE, attempt |-> n]
  <2>1. a.id \in TimerIds /\ a.kind \in RetryKinds /\ n \in Nat
    <3>1. a \in Alarm
      BY <1>8
    <3> QED BY <3>1 DEF Alarm
  <2> HIDE DEF n
  <2>2. s \in Reschedule
    BY <2>1 DEF Reschedule
  <2>3. PutBack(i, a)
    BY <1>12 DEF RetryPollFailed, CapacityDeferRetry
  <2>4. reschedules' = [reschedules EXCEPT ![i] = @ \cup {s}]
    BY <2>3 DEF PutBack, n
  <2> HIDE DEF s
  <2> QED BY <2>2, <2>3, <2>4 DEF PutBack, actorVars, TypeOK
<1>13. ASSUME NEW i \in Issues, NEW a \in alarms[i], DropRetry(i, a)
       PROVE  /\ Claimed' \subseteq Issues
              /\ Blocked' \subseteq Issues
              /\ RetryAttempts' \in [Issues -> RetryEntry]
              /\ alarms' \in [Issues -> SUBSET Alarm]
  BY <1>8, <1>13, AlarmsLeft, FreeRecords DEF DropRetry, TypeOK
<1>14. ASSUME NEW i \in Issues, NEW a \in alarms[i], RetryReleased(i, a)
       PROVE TypeOK'
  <2>1. cleanups' \in [Issues -> [JobIds -> Cleanup]]
    BY <1>14, CleanupFollowupType DEF RetryReleased
  <2> QED BY <1>13, <1>14, <2>1 DEF RetryReleased, TypeOK
<1>15. ASSUME NEW i \in Issues, NEW a \in alarms[i], RetrySuppressed(i, a)
       PROVE TypeOK'
  BY <1>13, <1>15 DEF RetrySuppressed, TypeOK
<1>16. ASSUME NEW i \in Issues, NEW a \in alarms[i], RetryDispatched(i, a)
       PROVE TypeOK'
  <2>1. a.attempt \in Nat
    BY <1>8 DEF Alarm
  <2>2. runs' \in [Issues -> [RunIds -> Run]]
    BY <1>16, <2>1, SpawnType DEF RetryDispatched
  <2>3. alarms' \in [Issues -> SUBSET Alarm]
    BY <1>8, <1>16, AlarmsLeft DEF RetryDispatched, TypeOK
  <2> QED BY <1>16, <2>2, <2>3, FreeRecords DEF RetryDispatched, TypeOK
<1>17. ASSUME NEW S \in SUBSET Issues, ReleaseClaims(S)
       PROVE  /\ Claimed' \subseteq Issues
              /\ Blocked' \subseteq Issues
              /\ RetryAttempts' \in [Issues -> RetryEntry]
              /\ alarms' \in [Issues -> SUBSET Alarm]
  BY <1>17, AlarmsLeft, FreeRecords DEF ReleaseClaims, TypeOK
<1>18. ASSUME NEW S \in SUBSET Issues, NEW T \in SUBSET Issues,
              CancelRuns(Registered(S), T)
       PROVE  runs' \in [Issues -> [RunIds -> Run]]
  <2>1. ASSUME NEW i \in Registered(S)
        PROVE  Cancelled(runs[i][Running[i]], i \in T) \in Run
    <3>1. runs[i][Running[i]] \in Run /\ (i \in T) \in BOOLEAN
      BY DEF Registered, TypeOK
    <3> QED BY <3>1, RunUpdates, Zenon
  <2> QED BY <1>18, <2>1 DEF CancelRuns, TypeOK
<1>19. ASSUME NEW seen \in SUBSET Issues, NEW terminal \in SUBSET seen,
              ReconcileInactive(seen, terminal)
       PROVE TypeOK'
  <2> DEFINE live    == Registered(seen)
             waiting == {i \in seen \ live : Queued(i) \/ i \in Blocked}
             gone    == terminal \cap waiting
             unowned == {i \in terminal \cap live : ~ runs[i][Running[i]].owned}
  <2>1. /\ live \cup waiting \in SUBSET Issues
        /\ gone \in SUBSET Issues
        /\ unowned \in SUBSET Issues
        /\ terminal \cap live \in SUBSET Issues
    BY DEF Registered
  <2>2. ReleaseClaims(live \cup waiting) /\ CancelRuns(live, terminal)
    BY <1>19, Zenon DEF ReconcileInactive
  <2>3. PICK other \in SUBSET (terminal \cap live) :
            OperatorTerminalStops' =
                OperatorTerminalStops \cup gone \cup unowned \cup other
    BY <1>19, Zenon DEF ReconcileInactive
  <2>4. OperatorTerminalStops' \subseteq Issues
    BY <2>1, <2>3 DEF TypeOK
  <2>5. \E known \in SUBSET gone : \E f, g \in [known -> Nat] :
            StartCleanups(known, f, g)
    <3>1. PICK known \in SUBSET gone :
              StartCleanups(known,
                   [i \in known |-> IF RetryAttempts[i].kind = "continuation"
                                    THEN RetryAttempts[i].attempt ELSE 0],
                   [i \in known |-> RetryAttempts[i].turns])
      BY <1>19, Zenon DEF ReconcileInactive
    <3>2. \A i \in known : RetryAttempts[i].attempt \in Nat /\ RetryAttempts[i].turns \in Nat
      BY <2>1 DEF TypeOK, RetryEntry
    <3>3. /\ [i \in known |-> IF RetryAttempts[i].kind = "continuation"
                              THEN RetryAttempts[i].attempt ELSE 0] \in [known -> Nat]
          /\ [i \in known |-> RetryAttempts[i].turns] \in [known -> Nat]
      BY <3>2
    <3> QED BY <3>1, <3>3, Zenon
  <2>6. cleanups' \in [Issues -> [JobIds -> Cleanup]]
    BY <2>1, <2>5, StartCleanupsType
  <2>7. UNCHANGED <<Running, cleaningWorkspaces, MaxConcurrentAgents, reschedules>>
    BY <1>19, Zenon DEF ReconcileInactive
  <2> HIDE DEF live, waiting
  <2>8. /\ Claimed' \subseteq Issues
        /\ Blocked' \subseteq Issues
        /\ RetryAttempts' \in [Issues -> RetryEntry]
        /\ alarms' \in [Issues -> SUBSET Alarm]
    BY <1>17, <2>1, <2>2
  <2>9. runs' \in [Issues -> [RunIds -> Run]]
    BY <1>18, <2>2 DEF live
  <2> QED BY <2>4, <2>6, <2>7, <2>8, <2>9 DEF TypeOK
<1>20. ASSUME NEW seen \in SUBSET Issues, ReconcileAbsent(seen) PROVE TypeOK'
  <2> DEFINE other == {i \in seen \ Registered(seen) :
                          \/ i \in Blocked
                          \/ RetryAttempts[i].kind = "continuation"}
  <2>1. Registered(seen) \cup other \in SUBSET Issues
    BY DEF Registered
  <2>2. ReleaseClaims(Registered(seen) \cup other) /\ CancelRuns(Registered(seen), {})
    BY <1>20, Zenon DEF ReconcileAbsent
  <2> HIDE DEF other
  <2> QED BY <1>17, <1>18, <1>20, <2>1, <2>2 DEF ReconcileAbsent, TypeOK
<1>21. ASSUME NEW seen \in SUBSET Issues, RefreshActive(seen) PROVE TypeOK'
  <2>1. ASSUME NEW i \in Registered(seen)
        PROVE  ActiveAgain(runs[i][Running[i]]) \in Run
    <3>1. runs[i][Running[i]] \in Run
      BY DEF Registered, TypeOK
    <3> QED BY <3>1, RunUpdates, Zenon
  <2>2. runs' \in [Issues -> [RunIds -> Run]]
    BY <1>21, <2>1 DEF RefreshActive, TypeOK
  <2> QED BY <1>21, <2>2 DEF RefreshActive, actorVars, TypeOK
<1>22. ASSUME NEW n \in AgentLimits, UpdateMaxConcurrentAgents(n) PROVE TypeOK'
  BY <1>22 DEF UpdateMaxConcurrentAgents, TypeOK
<1>23. ASSUME NEW i \in Issues, NEW j \in JobIds, CleanupStep(i, j) PROVE TypeOK'
  <2> DEFINE job == cleanups[i][j]
  <2>1. job \in Cleanup /\ job.attempt \in Nat /\ job.cattempt \in Nat /\ job.cturns \in Nat
    BY DEF TypeOK, Cleanup
  <2>2. ASSUME NEW new \in Cleanup, SetCleanup(i, j, new)
        PROVE  cleanups' \in [Issues -> [JobIds -> Cleanup]]
    BY <2>2, ReplaceType DEF SetCleanup
  <2>3. /\ \A p \in {"start", "verify", "resume"} : [job EXCEPT !.phase = p] \in Cleanup
        /\ [job EXCEPT !.phase = "end", !.attempt = @ + 1] \in Cleanup
        /\ \A p \in {"end", "remove"} : [FreeCleanup EXCEPT !.phase = p] \in Cleanup
        /\ FreeCleanup \in Cleanup
    BY <2>1, FreeRecords, CleanupUpdates, Zenon
  <2>4. CASE CleanupBegin(i, j)
    <3>1. \E new \in Cleanup : SetCleanup(i, j, new)
      BY <2>3, <2>4, Zenon DEF CleanupBegin
    <3> QED BY <2>2, <2>4, <3>1 DEF CleanupBegin, TypeOK
  <2>5. CASE \/ CleanupUnknown(i, j) \/ CleanupAbsent(i, j) \/ CleanupNotTerminal(i, j)
             \/ CleanupTerminal(i, j) \/ CleanupRemove(i, j)
    <3>1. \E new \in Cleanup : SetCleanup(i, j, new)
      BY <2>3, <2>5, Zenon DEF CleanupUnknown, CleanupAbsent, CleanupNotTerminal,
                              CleanupTerminal, CleanupRemove
    <3>2. UNCHANGED <<actorVars, runs, alarms, reschedules>>
      BY <2>5, Zenon DEF CleanupUnknown, CleanupAbsent, CleanupNotTerminal,
                         CleanupTerminal, CleanupRemove
    <3> QED BY <2>2, <3>1, <3>2 DEF actorVars, TypeOK
  <2>6. CASE CleanupResume(i, j)
    <3>1. cleanups' \in [Issues -> [JobIds -> Cleanup]]
      BY <2>2, <2>3, <2>6 DEF CleanupResume
    <3>2. \E id \in TimerIds : ScheduleRetry(i, id, "continuation", job.cattempt, job.cturns)
      BY <2>6, Zenon DEF CleanupResume, FreshTimers
    <3> QED BY <1>6, <2>1, <2>6, <3>1, <3>2 DEF CleanupResume, TypeOK, RetryKinds
  <2>7. CASE CleanupEnd(i, j)
    <3>1. \E new \in Cleanup : SetCleanup(i, j, new)
      BY <2>3, <2>7, Zenon DEF CleanupEnd
    <3> QED BY <2>2, <2>7, <3>1 DEF CleanupEnd, TypeOK
  <2> QED BY <1>23, <2>4, <2>5, <2>6, <2>7 DEF CleanupStep
<1>24. CASE UNCHANGED vars
  BY <1>24 DEF vars, TypeOK
<1>25. CASE PollStep
  BY <1>1, <1>2, <1>4, <1>19, <1>20, <1>21, <1>22, <1>25 DEF PollStep
<1>26. ASSUME NEW i \in Issues, WorkerStep(i) PROVE TypeOK'
  BY <1>3, <1>4, <1>5, <1>26 DEF WorkerStep
<1>27. ASSUME NEW i \in Issues, RetryStep(i) PROVE TypeOK'
  BY <1>7, <1>9, <1>10, <1>11, <1>12, <1>14, <1>15, <1>16, <1>27 DEF RetryStep
<1> QED BY <1>23, <1>24, <1>25, <1>26, <1>27 DEF Next

(* Type correctness of every reachable state, for all constants.           *)
THEOREM TypeCorrect == Spec => []TypeOK
BY InitType, NextType, PTL DEF Spec
-----------------------------------------------------------------------------
(* Safety: one lemma per operation says that it keeps IInv.                *)

(* What the invariant reads of a worker's entry, and which updates keep it.*)
Keeps(new, run) ==
    /\ new.phase = run.phase
    /\ new.budget = run.budget
    /\ new.cturns = run.cturns
    /\ new.turns = run.turns

(* Updates of a worker's entry, field by field.                            *)
LEMMA RunFields ==
    ASSUME NEW run \in Run
    PROVE  /\ LET new == [run EXCEPT !.phase = "live"]
              IN  /\ new.phase = "live" /\ new.budget = run.budget
                  /\ new.cturns = run.cturns /\ new.turns = run.turns
           /\ LET new == [run EXCEPT !.turns = @ + 1]
              IN  /\ new.phase = run.phase /\ new.budget = run.budget
                  /\ new.cturns = run.cturns /\ new.turns = run.turns + 1
           /\ Keeps([run EXCEPT !.mustBlock = TRUE], run)
           /\ Keeps([run EXCEPT !.owned = TRUE], run)
           /\ Keeps([run EXCEPT !.mustBlock = TRUE, !.cancel = TRUE], run)
           /\ Keeps([run EXCEPT !.cancel = TRUE], run)
           /\ Keeps(ActiveAgain(run), run)
           /\ \A t \in BOOLEAN : Keeps(Cancelled(run, t), run)
BY Zenon DEF Run, Keeps, ActiveAgain, Cancelled

(* When an entry leaves the queue, no alarm left behind belongs to it.     *)
AllDisowned(i) ==
    \A a \in alarms[i] : ~ a.own /\ (a.stage = "fetching" => a.kind # "continuation")

(* Stopping a timer and disowning the alarms of an entry leaves no alarm   *)
(* that belongs to a queued entry (ReleaseClaim, ScheduleRetry).           *)
LEMMA AlarmsDropped ==
    ASSUME IInv, NEW i \in Issues, NEW as \in SUBSET alarms[i],
           alarms'[i] \in {Disowned(as), Disowned(StopTimer(i, as))}
    PROVE  AllDisowned(i)'
<1>1. as \in SUBSET Alarm
  BY DEF IInv, TypeOK
<1>2. \A a \in alarms'[i] :
         ~ a.own /\ \E b \in as : a.kind = b.kind /\ a.stage = b.stage
  <2>1. \A b \in as : LET c == [b EXCEPT !.own = FALSE]
                      IN  ~ c.own /\ c.kind = b.kind /\ c.stage = b.stage
    BY <1>1, Zenon DEF Alarm
  <2>2. \A a \in alarms'[i] : \E b \in as : a = [b EXCEPT !.own = FALSE]
    <3>1. StopTimer(i, as) \subseteq as
      BY DEF StopTimer
    <3> QED BY <3>1, Zenon DEF Disowned
  <2>3. ASSUME NEW a \in alarms'[i]
        PROVE  ~ a.own /\ \E b \in as : a.kind = b.kind /\ a.stage = b.stage
    <3>1. PICK b \in as : a = [b EXCEPT !.own = FALSE]
      BY <2>2
    <3> QED BY <2>1, <3>1, Zenon
  <2> QED BY <2>3
<1>3. \A b \in as : b.stage = "fetching" => b.kind # "continuation"
  BY DEF IInv, IssueInv, AlarmInv
<1> QED BY <1>2, <1>3, Zenon DEF AllDisowned

(* An issue none of whose state changes keeps its invariant.               *)
Same(i) ==
    /\ Running'[i] = Running[i]
    /\ i \in Claimed' <=> i \in Claimed
    /\ i \in Blocked' <=> i \in Blocked
    /\ RetryAttempts'[i] = RetryAttempts[i]
    /\ i \in cleaningWorkspaces' <=> i \in cleaningWorkspaces
    /\ i \in OperatorTerminalStops' <=> i \in OperatorTerminalStops
    /\ runs'[i] = runs[i]
    /\ alarms'[i] = alarms[i]
    /\ reschedules'[i] = reschedules[i]
    /\ cleanups'[i] = cleanups[i]

(* How an issue is held: the part of its state that most of the invariant  *)
(* reads.  A step that keeps it can only disturb the three other conjuncts.*)
SameHold(i) ==
    /\ Running'[i] = Running[i]
    /\ i \in Claimed' <=> i \in Claimed
    /\ i \in Blocked' <=> i \in Blocked
    /\ RetryAttempts'[i].kind = RetryAttempts[i].kind
    /\ i \in cleaningWorkspaces' <=> i \in cleaningWorkspaces
    /\ i \in OperatorTerminalStops' <=> i \in OperatorTerminalStops
    /\ reschedules'[i] = reschedules[i]
    /\ \A r \in RunIds : runs'[i][r].phase = runs[i][r].phase

(* An issue held as before keeps its invariant, given the other conjuncts. *)
LEMMA HoldInv ==
    ASSUME NEW i \in Issues, IssueInv(i), SameHold(i),
           CleaningInv(i)', AlarmInv(i)', BudgetInv(i)'
    PROVE  IssueInv(i)'
<1>1. Workers(i)' = Workers(i)
  BY DEF SameHold, Workers
<1>2. Idle(i)' <=> Idle(i)
  BY <1>1 DEF SameHold, Idle
<1>3. Queued(i)' <=> Queued(i)
  BY DEF SameHold, Queued
<1>4. SpawningInv(i)'
  BY <1>1 DEF SameHold, IssueInv, SpawningInv
<1>5. LiveInv(i)'
  BY <1>1 DEF SameHold, IssueInv, LiveInv
<1>6. WorkerInv(i)'
  BY <1>1, <1>3 DEF SameHold, IssueInv, WorkerInv
<1>7. BlockedInv(i)'
  BY <1>2, <1>3 DEF SameHold, IssueInv, BlockedInv
<1>8. QueuedInv(i)'
  BY <1>3 DEF SameHold, IssueInv, QueuedInv
<1>9. RescheduleInv(i)'
  BY <1>2, <1>3 DEF SameHold, IssueInv, RescheduleInv
<1>10. DriverInv(i)'
  BY <1>1, <1>3 DEF SameHold, IssueInv, DriverInv
<1> QED BY <1>4, <1>5, <1>6, <1>7, <1>8, <1>9, <1>10 DEF IssueInv

(* The same, for a step that also leaves the cleanups alone.               *)
LEMMA CleanupsKept ==
    ASSUME NEW i \in Issues, IssueInv(i), SameHold(i), cleanups'[i] = cleanups[i]
    PROVE  CleaningInv(i)'
<1>1. Idle(i)' <=> Idle(i)
  BY DEF SameHold, Idle, Workers
<1>2. Queued(i)' <=> Queued(i)
  BY DEF SameHold, Queued
<1>3. \A j \in JobIds : Reserves(i, j)' <=> Reserves(i, j)
  BY DEF Reserves
<1> QED BY <1>1, <1>2, <1>3 DEF SameHold, IssueInv, CleaningInv

(* An issue whose state does not change at all keeps its invariant.        *)
LEMMA SameInv ==
    ASSUME NEW i \in Issues, IssueInv(i), Same(i)
    PROVE  IssueInv(i)'
<1>1. SameHold(i)
  BY DEF Same, SameHold
<1>2. CleaningInv(i)'
  BY <1>1, CleanupsKept DEF Same
<1>3. AlarmInv(i)'
  BY DEF Same, IssueInv, AlarmInv, Queued, matchingRetryEntry
<1>4. BudgetInv(i)'
  BY DEF Same, IssueInv, BudgetInv
<1> QED BY <1>1, <1>2, <1>3, <1>4, HoldInv


(* A step that changes the state of one issue only need restore its        *)
(* invariant.                                                              *)
LEMMA OtherIssues ==
    ASSUME IInv, NEW i \in Issues, IssueInv(i)',
           \A k \in Issues \ {i} : Same(k)
    PROVE  \A k \in Issues : IssueInv(k)'
BY SameInv DEF IInv

(* An issue has at most one worker, which holds the issue alone.           *)
LEMMA WorkerAlone ==
    ASSUME IInv, NEW i \in Issues, NEW r \in Workers(i)
    PROVE  /\ Workers(i) = {r}
           /\ Running[i] \in {r, NoRun}
           /\ Running[i] = NoRun => i \in Claimed
           /\ ~ Queued(i)
           /\ i \notin Blocked
           /\ reschedules[i] = {}
           /\ i \notin cleaningWorkspaces
<1>1. SpawningInv(i) /\ LiveInv(i) /\ WorkerInv(i)
  BY DEF IInv, IssueInv
<1>2. r \in RunIds /\ r # NoRun /\ runs[i][r].phase \in {"spawning", "live"}
  <2>1. runs[i][r] \in Run /\ r \in RunIds
    BY DEF IInv, TypeOK, Workers
  <2> QED BY <2>1, ConstantsAssumption DEF Run, Workers
<1>3. CASE runs[i][r].phase = "spawning"
  BY <1>1, <1>2, <1>3 DEF SpawningInv, WorkerInv
<1>4. CASE runs[i][r].phase = "live"
  BY <1>1, <1>2, <1>4 DEF LiveInv, WorkerInv
<1> QED BY <1>2, <1>3, <1>4

(* A registered entry is that of the issue's worker.                       *)
LEMMA RegisteredAlone ==
    ASSUME IInv, NEW i \in Issues, Running[i] # NoRun
    PROVE  Running[i] \in Workers(i)
BY DEF IInv, IssueInv, LiveInv

(* A queued entry excludes every other holder of the issue, but for the    *)
(* put-back that will replace it.                                          *)
LEMMA QueuedAlone ==
    ASSUME IInv, NEW i \in Issues, Queued(i)
    PROVE  /\ Idle(i)
           /\ i \notin Blocked
           /\ i \in Claimed
           /\ \A s \in reschedules[i] : ~ s.held
           /\ \A j \in JobIds : cleanups[i][j].phase # "resume"
           /\ RetryAttempts[i].kind # "continuation" => i \notin cleaningWorkspaces
BY ConstantsAssumption
DEF IInv, IssueInv, LiveInv, WorkerInv, BlockedInv, QueuedInv, RescheduleInv,
    CleaningInv, Idle

(* Dispatch and registration.                                              *)
LEMMA RegisterInv ==
    ASSUME IInv, NEW i \in Issues, NEW r \in RunIds, Register(i, r)
    PROVE  \A k \in Issues : IssueInv(k)'
<1> DEFINE new == [runs[i][r] EXCEPT !.phase = "live"]
<1>1. \A k \in Issues \ {i} : Same(k)
  BY DEF Register, Same, IInv, TypeOK
<1>2. /\ runs' = [runs EXCEPT ![i][r] = new]
      /\ new.phase = "live"
      /\ new.budget = runs[i][r].budget
      /\ new.cturns = runs[i][r].cturns
      /\ new.turns = runs[i][r].turns
  <2>1. runs[i][r] \in Run
    BY DEF IInv, TypeOK
  <2> QED BY <2>1, RunFields, Zenon DEF Register
<1> HIDE DEF new
<1>3. /\ runs'[i][r] = new
      /\ \A q \in RunIds \ {r} : runs'[i][q] = runs[i][q]
      /\ Running'[i] = r
      /\ UNCHANGED <<Claimed, Blocked, RetryAttempts, cleaningWorkspaces,
                     OperatorTerminalStops, alarms, reschedules, cleanups>>
  BY <1>2 DEF Register, IInv, TypeOK
<1>4. r \in Workers(i)
  BY DEF Register, Workers
<1>5. /\ Workers(i) = {r} /\ ~ Queued(i) /\ i \notin Blocked /\ reschedules[i] = {}
      /\ i \notin cleaningWorkspaces
  BY <1>4, WorkerAlone
<1>6. Workers(i)' = {r} /\ ~ Queued(i)'
  BY <1>2, <1>3, <1>5 DEF Workers, Queued
<1>7. (SpawningInv(i) /\ LiveInv(i))'
  <2>1. \A q \in RunIds : runs'[i][q].phase \in {"spawning", "live"} => q = r
    BY <1>6 DEF Workers
  <2> QED BY <1>2, <1>3, <1>6, <2>1 DEF SpawningInv, LiveInv
<1>8. (WorkerInv(i) /\ DriverInv(i) /\ BlockedInv(i) /\ QueuedInv(i) /\ RescheduleInv(i))'
  BY <1>3, <1>5, <1>6 DEF WorkerInv, DriverInv, BlockedInv, QueuedInv, RescheduleInv
<1>9. CleaningInv(i)'
  BY <1>3, <1>5, <1>6 DEF IInv, IssueInv, CleaningInv, Reserves
<1>10. AlarmInv(i)'
  BY <1>3 DEF IInv, IssueInv, AlarmInv, Queued, matchingRetryEntry
<1>11. BudgetInv(i)'
  <2>1. BudgetInv(i)
    BY DEF IInv, IssueInv
  <2> QED BY <1>2, <1>3, <2>1 DEF BudgetInv
<1>12. IssueInv(i)'
  BY <1>7, <1>8, <1>9, <1>10, <1>11 DEF IssueInv
<1> QED BY <1>1, <1>12, OtherIssues

(* dispatchOp.apply when the consumed continuation's budget is exceeded.   *)
LEMMA DispatchBlockedInv ==
    ASSUME IInv, NEW i \in Issues, DispatchBlocked(i)
    PROVE  \A k \in Issues : IssueInv(k)'
<1>1. \A k \in Issues \ {i} : Same(k)
  BY DEF DispatchBlocked, Same, IInv, TypeOK
<1>2. RetryAttempts'[i] = NoEntry /\ AllDisowned(i)'
  BY AlarmsDropped DEF IInv, TypeOK, DispatchBlocked
<1>3. Idle(i) /\ reschedules[i] = {} /\ i \notin cleaningWorkspaces
  BY QueuedAlone DEF DispatchBlocked, DispatchGate, IInv, IssueInv, QueuedInv
<1>4. /\ i \in Claimed' /\ i \in Blocked' /\ ~ Queued(i)'
      /\ UNCHANGED <<Running, cleaningWorkspaces, OperatorTerminalStops, runs,
                     reschedules, cleanups>>
  BY <1>2 DEF DispatchBlocked, Queued, NoEntry
<1>5. Idle(i)' /\ Workers(i)' = {} /\ Running'[i] = NoRun
  BY <1>3, <1>4 DEF Idle, Workers
<1>6. \A r \in RunIds : runs'[i][r].phase = "free"
  BY <1>5 DEF Workers
<1>7. (SpawningInv(i) /\ LiveInv(i) /\ WorkerInv(i) /\ DriverInv(i))'
  BY <1>4, <1>5, <1>6 DEF SpawningInv, LiveInv, WorkerInv, DriverInv
<1>8. (BlockedInv(i) /\ QueuedInv(i) /\ RescheduleInv(i))'
  BY <1>3, <1>4, <1>5 DEF BlockedInv, QueuedInv, RescheduleInv
<1>9. CleaningInv(i)'
  BY <1>3, <1>4 DEF IInv, IssueInv, CleaningInv, Reserves
<1>10. AlarmInv(i)'
  BY <1>2, <1>4 DEF AlarmInv, AllDisowned
<1>11. BudgetInv(i)'
  BY <1>4 DEF IInv, IssueInv, BudgetInv
<1>12. IssueInv(i)'
  BY <1>7, <1>8, <1>9, <1>10, <1>11 DEF IssueInv
<1> QED BY <1>1, <1>12, OtherIssues

(* A worker is started only for an idle issue, and takes all of its claim. *)
LEMMA SpawnInv ==
    ASSUME IInv, NEW i \in Issues, NEW n \in Nat, NEW m \in Nat, NEW t \in Nat,
           NEW b \in Nat, Spawn(i, n, m, t, b),
           b > 0 => t + b <= MaxContinuationTurns,
           Idle(i), i \notin Blocked, reschedules[i] = {}, i \notin cleaningWorkspaces,
           i \notin OperatorTerminalStops,
           i \in Claimed', Running'[i] = Running[i], RetryAttempts'[i] = NoEntry,
           AllDisowned(i)',
           UNCHANGED <<Blocked, cleaningWorkspaces, OperatorTerminalStops,
                       reschedules, cleanups>>
    PROVE  IssueInv(i)'
<1> DEFINE new == [FreeRun EXCEPT !.phase = "spawning", !.attempt = n,
                                  !.cattempt = m, !.cturns = t, !.budget = b]
<1>1. /\ new.phase = "spawning"
      /\ new.budget = b
      /\ new.cturns = t
      /\ new.turns = 0
  BY DEF FreeRun
<1>2. PICK r \in RunIds : /\ runs[i][r].phase = "free"
                          /\ runs' = [runs EXCEPT ![i][r] = new]
  BY DEF Spawn
<1> HIDE DEF new
<1>3. /\ runs'[i][r] = new
      /\ \A q \in RunIds \ {r} : runs'[i][q] = runs[i][q] /\ runs[i][q].phase = "free"
  BY <1>2 DEF IInv, TypeOK, Idle, Workers
<1>4. Workers(i)' = {r} /\ Running'[i] = NoRun /\ ~ Queued(i)'
  <2>1. Workers(i)' = {r}
    BY <1>1, <1>3 DEF Workers
  <2>2. Running'[i] = NoRun
    BY DEF Idle
  <2>3. ~ Queued(i)'
    BY DEF Queued, NoEntry
  <2> QED BY <2>1, <2>2, <2>3
<1>5. SpawningInv(i)'
  BY <1>1, <1>3, <1>4 DEF SpawningInv
<1>6. (LiveInv(i) /\ WorkerInv(i) /\ DriverInv(i))'
  BY <1>1, <1>3, <1>4 DEF LiveInv, WorkerInv, DriverInv
<1>7. (BlockedInv(i) /\ QueuedInv(i) /\ RescheduleInv(i))'
  BY <1>4 DEF BlockedInv, QueuedInv, RescheduleInv
<1>8. CleaningInv(i)'
  BY <1>4 DEF IInv, IssueInv, CleaningInv, Reserves
<1>9. AlarmInv(i)'
  BY <1>4 DEF AlarmInv, AllDisowned
<1>10. BudgetInv(i)'
  <2>1. BudgetInv(i)
    BY DEF IInv, IssueInv
  <2>2. new.budget > 0 => /\ new.cturns + new.budget <= MaxContinuationTurns
                          /\ new.turns <= new.budget
    BY <1>1
  <2> QED BY <1>3, <2>1, <2>2 DEF BudgetInv
<1> QED BY <1>5, <1>6, <1>7, <1>8, <1>9, <1>10 DEF IssueInv

(* dispatchOp.apply when a worker is started.                              *)
LEMMA DispatchInv ==
    ASSUME IInv, PromptReschedule, NEW i \in Issues, Dispatch(i)
    PROVE  \A k \in Issues : IssueInv(k)'
<1>1. \A k \in Issues \ {i} : Same(k)
  BY DEF Dispatch, Spawn, Same, IInv, TypeOK
<1>2. RetryAttempts'[i] = NoEntry /\ AllDisowned(i)'
  BY AlarmsDropped DEF IInv, TypeOK, Dispatch
<1>3. RetryAttempts[i].attempt \in Nat /\ RetryAttempts[i].turns \in Nat
  BY DEF IInv, TypeOK, RetryEntry
<1>4. MaxContinuationTurns - RetryAttempts[i].turns \in Nat
  BY <1>3, ConstantsAssumption DEF Dispatch
<1>5. Idle(i) /\ i \notin Blocked /\ reschedules[i] = {}
  <2>1. CASE Queued(i)
    BY <2>1 DEF Dispatch, DispatchGate, IInv, IssueInv, QueuedInv, WorkerInv, LiveInv, BlockedInv, Idle
  <2>2. CASE ~ Queued(i)
    <3>1. i \notin Claimed /\ Running[i] = NoRun /\ i \notin Blocked /\ Settled(i)
      BY <2>2 DEF Dispatch, DispatchGate, IsClaimed
    <3>2. Workers(i) = {}
      BY <3>1, ConstantsAssumption DEF IInv, TypeOK, Run, IssueInv, SpawningInv, LiveInv, Workers
    <3>3. reschedules[i] = {}
      BY <3>1 DEF IInv, IssueInv, RescheduleInv, Settled
    <3> QED BY <3>1, <3>2, <3>3 DEF Idle
  <2> QED BY <2>1, <2>2
<1>6. IssueInv(i)'
  <2>1. /\ Spawn(i, 0, RetryAttempts[i].attempt, RetryAttempts[i].turns,
                 MaxContinuationTurns - RetryAttempts[i].turns)
        /\ i \notin cleaningWorkspaces /\ i \notin OperatorTerminalStops
        /\ i \in Claimed' /\ Running'[i] = Running[i]
        /\ UNCHANGED <<Blocked, cleaningWorkspaces, OperatorTerminalStops, reschedules, cleanups>>
    BY DEF Dispatch, DispatchGate
  <2>2. RetryAttempts[i].turns + (MaxContinuationTurns - RetryAttempts[i].turns) <= MaxContinuationTurns
    BY <1>3, ConstantsAssumption
  <2> QED BY <1>2, <1>3, <1>4, <1>5, <2>1, <2>2, SpawnInv
<1> QED BY <1>1, <1>6, OtherIssues

(* A worker below its session's limit is below the budget of its claim.    *)
LEMMA LimitInBudget ==
    ASSUME NEW run \in Run, run.budget > 0, run.turns < effectiveTurnLimit(run)
    PROVE  run.turns + 1 <= run.budget
<1>1. run.turns \in Nat /\ run.budget \in Nat /\ MaxTurns \in Nat
  BY ConstantsAssumption DEF Run
<1>2. CASE run.budget <= MaxTurns
  BY <1>1, <1>2 DEF effectiveTurnLimit
<1>3. CASE ~ (run.budget <= MaxTurns)
  BY <1>1, <1>3 DEF effectiveTurnLimit
<1> QED BY <1>2, <1>3

(* Reports of a running worker change none of what the invariant reads but *)
(* the number of turns, and that within the session's budget.              *)
LEMMA ReportInv ==
    ASSUME IInv, NEW i \in Issues,
           \/ TurnCompleted(i) \/ InputRequired(i) \/ TerminalHandoff(i)
           \/ BudgetExceeded(i) \/ ReconcileStalled(i)
    PROVE  \A k \in Issues : IssueInv(k)'
<1> DEFINE r == Running[i]
           run == runs[i][r]
<1>1. r \in RunIds /\ run \in Run
  BY DEF IInv, TypeOK, TurnCompleted, InputRequired, TerminalHandoff,
         BudgetExceeded, ReconcileStalled
<1> DEFINE Reported(new) ==
             \/ Keeps(new, run)
             \/ /\ new.phase = run.phase /\ new.budget = run.budget
                /\ new.cturns = run.cturns /\ new.turns = run.turns + 1
                /\ run.turns < effectiveTurnLimit(run)
<1>2. \E new : UpdateRun(i, new) /\ Reported(new)
  BY <1>1, RunFields, Zenon
  DEF TurnCompleted, InputRequired, TerminalHandoff, BudgetExceeded, ReconcileStalled
<1>3. PICK new : UpdateRun(i, new) /\ Reported(new)
  BY <1>2
<1>4. \A k \in Issues \ {i} : Same(k)
  BY <1>3 DEF UpdateRun, actorVars, Same, IInv, TypeOK
<1>5. run.turns \in Nat /\ run.budget \in Nat
  BY <1>1 DEF Run
<1>7. /\ runs'[i][r] = new
      /\ \A q \in RunIds \ {r} : runs'[i][q] = runs[i][q]
      /\ UNCHANGED <<actorVars, alarms, reschedules, cleanups>>
      /\ new.phase = run.phase
  BY <1>1, <1>3 DEF UpdateRun, Keeps, IInv, TypeOK
<1>8. SameHold(i)
  BY <1>7 DEF SameHold, actorVars
<1>9. BudgetInv(i)'
  <2>1. BudgetInv(i)
    BY DEF IInv, IssueInv
  <2>2. /\ new.budget = run.budget /\ new.cturns = run.cturns
        /\ new.budget > 0 /\ run.turns <= run.budget => new.turns <= new.budget
    <3> HIDE DEF run
    <3>1. CASE Keeps(new, run)
      BY <3>1 DEF Keeps
    <3>2. CASE ~ Keeps(new, run)
      BY <1>1, <1>3, <3>2, LimitInBudget
    <3> QED BY <3>1, <3>2
  <2>3. run.budget > 0 => /\ run.cturns + run.budget <= MaxContinuationTurns
                          /\ run.turns <= run.budget
    BY <1>1, <2>1 DEF BudgetInv
  <2> HIDE DEF r, run
  <2>4. \A q \in RunIds \ {r} : runs'[i][q].budget > 0 =>
            /\ runs'[i][q].cturns + runs'[i][q].budget <= MaxContinuationTurns
            /\ runs'[i][q].turns <= runs'[i][q].budget
    BY <1>7, <2>1 DEF BudgetInv
  <2>5. new.budget > 0 => /\ new.cturns + new.budget <= MaxContinuationTurns
                          /\ new.turns <= new.budget
    BY <2>2, <2>3
  <2> QED BY <1>7, <2>4, <2>5 DEF BudgetInv
<1>10. CleaningInv(i)'
  BY <1>7, <1>8, CleanupsKept DEF IInv
<1>11. AlarmInv(i)'
  BY <1>7 DEF actorVars, IInv, IssueInv, AlarmInv, Queued, matchingRetryEntry
<1>6. IssueInv(i)'
  BY <1>8, <1>9, <1>10, <1>11, HoldInv DEF IInv
<1> QED BY <1>4, <1>6, OtherIssues

(* Starting the cleanup of some issues sets up jobs that reserve nothing.  *)
LEMMA CleanupsStarted ==
    ASSUME IInv, NEW S \in SUBSET Issues, NEW f, NEW g, StartCleanups(S, f, g)
    PROVE  \A i \in Issues :
               /\ i \notin S => cleanups'[i] = cleanups[i]
               /\ \A j \in JobIds : \/ cleanups'[i][j] = cleanups[i][j]
                                     \/ cleanups'[i][j].phase = "start"
<1>1. PICK job \in [S -> JobIds] :
        cleanups' = [i \in Issues |->
               IF i \in S
               THEN [cleanups[i] EXCEPT ![job[i]] =
                        [phase |-> "start", attempt |-> 0,
                         cattempt |-> f[i], cturns |-> g[i]]]
               ELSE cleanups[i]]
  BY DEF StartCleanups
<1> QED BY <1>1 DEF IInv, TypeOK

(* The same for one issue (reconciledWorkspaceCleanupFollowup).            *)
LEMMA CleanupFollowedUp ==
    ASSUME IInv, NEW i \in Issues, NEW known, NEW m, NEW n,
           CleanupFollowup(i, known, m, n)
    PROVE  /\ \A k \in Issues \ {i} : cleanups'[k] = cleanups[k]
           /\ \A j \in JobIds : \/ cleanups'[i][j] = cleanups[i][j]
                                 \/ cleanups'[i][j].phase = "start"
<1>1. CASE known
  <2> DEFINE f == [x \in {i} |-> m]
             g == [x \in {i} |-> n]
  <2>1. StartCleanups({i}, f, g) /\ {i} \in SUBSET Issues
    BY <1>1 DEF CleanupFollowup
  <2> HIDE DEF f, g
  <2> QED BY <2>1, CleanupsStarted
<1>2. CASE ~ known
  BY <1>2 DEF CleanupFollowup
<1> QED BY <1>1, <1>2

(* The ways a worker is finalized.                                         *)
LEMMA FinalizeInv ==
    ASSUME IInv, NEW i \in Issues, NEW r \in RunIds, Finalize(i, r)
    PROVE  \A k \in Issues : IssueInv(k)'
<1> USE ConstantsAssumption
<1>1. /\ Running[i] = r
      /\ Workers(i) = {r}
      /\ UNCHANGED cleaningWorkspaces
  BY DEF Finalize, IInv, IssueInv, LiveInv
<1>2. FreeRun.phase = "free" /\ FreeRun.budget = 0
  BY DEF FreeRun
<1>3. ASSUME FinishRun(i, r)
      PROVE  /\ Running'[i] = NoRun
             /\ Workers(i)' = {}
             /\ (SpawningInv(i) /\ LiveInv(i) /\ WorkerInv(i) /\ BudgetInv(i))'
             /\ \A k \in Issues \ {i} : Running'[k] = Running[k] /\ runs'[k] = runs[k]
  <2>1. /\ Running'[i] = NoRun
        /\ runs'[i][r] = FreeRun
        /\ \A q \in RunIds \ {r} : runs'[i][q] = runs[i][q]
        /\ \A k \in Issues \ {i} : Running'[k] = Running[k] /\ runs'[k] = runs[k]
    BY <1>3 DEF FinishRun, IInv, TypeOK
  <2>2. \A q \in RunIds : runs'[i][q].phase = "free"
    BY <1>1, <1>2, <2>1 DEF Workers
  <2>3. Workers(i)' = {}
    BY <2>2 DEF Workers
  <2>4. (SpawningInv(i) /\ LiveInv(i) /\ WorkerInv(i))'
    BY <2>1, <2>2, <2>3 DEF SpawningInv, LiveInv, WorkerInv
  <2>5. BudgetInv(i)'
    <3>1. BudgetInv(i)
      BY DEF IInv, IssueInv
    <3> QED BY <1>2, <2>1, <3>1 DEF BudgetInv
  <2> QED BY <2>1, <2>3, <2>4, <2>5
<1>4. ASSUME BlockRun(i, r) PROVE \A k \in Issues : IssueInv(k)'
  <2>1. \A k \in Issues \ {i} : Same(k)
    BY <1>1, <1>3, <1>4 DEF BlockRun, Same, IInv, TypeOK
  <2>2. RetryAttempts'[i] = NoEntry /\ AllDisowned(i)'
    BY <1>4, AlarmsDropped DEF BlockRun, IInv, TypeOK
  <2>3. IssueInv(i)'
    BY <1>1, <1>3, <1>4, <2>2
    DEF BlockRun, AllDisowned, NoEntry, IInv, TypeOK, IssueInv, WorkerInv, BlockedInv,
        QueuedInv, RescheduleInv, CleaningInv, AlarmInv, DriverInv, Queued, Idle,
        Reserves, matchingRetryEntry
  <2> QED BY <2>1, <2>3, OtherIssues
<1>5. ASSUME NEW c, NEW n, NEW t, FinishAndRetry(i, r, c, n, t)
      PROVE \A k \in Issues : IssueInv(k)'
  <2>0. PICK id \in FreshTimers(i) :
            reschedules' = [reschedules EXCEPT ![i] = @ \cup
                {[id |-> id, kind |-> c, attempt |-> n, turns |-> t, held |-> TRUE]}]
    BY <1>5, Zenon DEF FinishAndRetry
  <2> DEFINE s == [id |-> id, kind |-> c, attempt |-> n, turns |-> t, held |-> TRUE]
  <2>1. s.held /\ reschedules' = [reschedules EXCEPT ![i] = @ \cup {s}]
    BY <2>0
  <2> HIDE DEF s
  <2>2. \A k \in Issues \ {i} : Same(k)
    BY <1>1, <1>3, <1>5, <2>1 DEF FinishAndRetry, Same, IInv, TypeOK
  <2>3. IssueInv(i)'
    <3>1. ~ Queued(i) /\ ~ Queued(i)' /\ i \notin Blocked' /\ i \notin cleaningWorkspaces
      BY <1>1, <1>5, <2>1 DEF FinishAndRetry, IInv, IssueInv, WorkerInv, Queued
    <3>2. (BlockedInv(i) /\ QueuedInv(i))'
      BY <3>1 DEF BlockedInv, QueuedInv
    <3>3. (RescheduleInv(i) /\ DriverInv(i))'
      BY <1>1, <1>3, <1>5, <2>1, <3>1
      DEF FinishAndRetry, IInv, TypeOK, IssueInv, WorkerInv, RescheduleInv, DriverInv, Idle
    <3>4. CleaningInv(i)'
      BY <1>1, <1>5, <2>1, <3>1 DEF FinishAndRetry, IInv, TypeOK, IssueInv, CleaningInv, Reserves
    <3>5. AlarmInv(i)'
      BY <1>1, <1>5, <2>1, <3>1 DEF FinishAndRetry, IInv, TypeOK, IssueInv, AlarmInv, matchingRetryEntry
    <3> QED BY <1>3, <1>5, <2>1, <3>2, <3>3, <3>4, <3>5 DEF IssueInv, FinishAndRetry
  <2> QED BY <2>2, <2>3, OtherIssues
<1>6. ASSUME NEW c, NEW m, NEW n, FinishAndRelease(i, r, c, m, n),
             NEW S \in SUBSET {i},
             OperatorTerminalStops' = OperatorTerminalStops \cup S
      PROVE \A k \in Issues : IssueInv(k)'
  <2>1. /\ \A k \in Issues \ {i} : cleanups'[k] = cleanups[k]
        /\ \A j \in JobIds : \/ cleanups'[i][j] = cleanups[i][j]
                              \/ cleanups'[i][j].phase = "start"
    BY <1>6, CleanupFollowedUp DEF FinishAndRelease
  <2>2. \A k \in Issues \ {i} : Same(k)
    BY <1>1, <1>3, <1>6, <2>1 DEF FinishAndRelease, Same, IInv, TypeOK
  <2>3. IssueInv(i)'
    <3>1. ~ Queued(i) /\ ~ Queued(i)' /\ i \notin Blocked' /\ i \notin cleaningWorkspaces
      BY <1>1, <1>6, <2>1 DEF FinishAndRelease, IInv, IssueInv, WorkerInv, Queued
    <3>2. (BlockedInv(i) /\ QueuedInv(i))'
      BY <3>1 DEF BlockedInv, QueuedInv
    <3>3. (RescheduleInv(i) /\ DriverInv(i))'
      BY <1>1, <1>3, <1>6, <2>1, <3>1
      DEF FinishAndRelease, IInv, TypeOK, IssueInv, WorkerInv, RescheduleInv, DriverInv, Idle
    <3>4. CleaningInv(i)'
      BY <1>1, <1>6, <2>1, <3>1 DEF FinishAndRelease, IInv, TypeOK, IssueInv, CleaningInv, Reserves
    <3>5. AlarmInv(i)'
      BY <1>1, <1>6, <2>1, <3>1 DEF FinishAndRelease, IInv, TypeOK, IssueInv, AlarmInv, matchingRetryEntry
    <3> QED BY <1>3, <1>6, <2>1, <3>2, <3>3, <3>4, <3>5 DEF IssueInv, FinishAndRelease
  <2> QED BY <2>2, <2>3, OtherIssues
<1>7. CASE TerminalSelfStop(i, r)
  <2>1. \E S \in SUBSET {i} : OperatorTerminalStops' = OperatorTerminalStops \cup S
    <3>1. {} \in SUBSET {i} /\ {i} \in SUBSET {i}
            /\ OperatorTerminalStops = OperatorTerminalStops \cup {}
      OBVIOUS
    <3> QED BY <1>7, <3>1, Zenon DEF TerminalSelfStop
  <2> QED BY <1>6, <1>7, <2>1 DEF TerminalSelfStop
<1>8. CASE CleanExitOfTerminalIssue(i, r) \/ ReconciledCancelCleanup(i, r)
             \/ ReconcileCancel(i, r)
  <2>1. {} \in SUBSET {i} /\ OperatorTerminalStops' = OperatorTerminalStops \cup {}
    BY <1>8 DEF CleanExitOfTerminalIssue, ReconciledCancelCleanup, ReconcileCancel
  <2>2. \E c, m, n : FinishAndRelease(i, r, c, m, n)
    BY <1>8, Zenon
    DEF CleanExitOfTerminalIssue, ReconciledCancelCleanup, ReconcileCancel
  <2> QED BY <1>6, <2>1, <2>2
<1>9. ASSUME NEW b \in BOOLEAN, CleanExit(i, r, b) PROVE \A k \in Issues : IssueInv(k)'
  BY <1>4, <1>5, <1>9, Zenon DEF CleanExit
<1>10. CASE QuotaBackoff(i, r) \/ FailureRetry(i, r)
  BY <1>5, <1>10, Zenon DEF QuotaBackoff, FailureRetry
<1> QED BY <1>1, <1>4, <1>7, <1>8, <1>9, <1>10 DEF Finalize

(* Queueing an entry for an idle issue.                                    *)
LEMMA ScheduledInv ==
    ASSUME IInv, NEW i \in Issues, NEW id, NEW k \in RetryKinds, NEW n \in Nat,
           NEW t \in Nat, ScheduleRetry(i, id, k, n, t)
    PROVE  /\ \A q \in Issues \ {i} : /\ RetryAttempts'[q] = RetryAttempts[q]
                                      /\ alarms'[q] = alarms[q]
                                      /\ q \in Claimed' <=> q \in Claimed
           /\ i \in Claimed'
           /\ Queued(i)'
           /\ RetryAttempts'[i].kind = k
           /\ AlarmInv(i)'
<1> DEFINE e == [kind |-> k, attempt |-> n, turns |-> t, timer |-> TRUE, due |-> FALSE]
           a == [id |-> id, kind |-> k, attempt |-> n, own |-> TRUE, stage |-> "armed"]
           old == Disowned(StopTimer(i, alarms[i]))
<1>1. /\ e.kind = k /\ e.attempt = n /\ a.kind = k /\ a.attempt = n
      /\ a.own /\ a.stage = "armed"
  OBVIOUS
<1>2. /\ RetryAttempts' = [RetryAttempts EXCEPT ![i] = e]
      /\ Claimed' = Claimed \cup {i}
      /\ alarms' = [alarms EXCEPT ![i] = old \cup {a}]
  BY DEF ScheduleRetry
<1>3. \A b \in old : ~ b.own /\ (b.stage = "fetching" => b.kind # "continuation")
  <2>1. alarms[i] \in SUBSET Alarm
    BY DEF IInv, TypeOK
  <2>2. \A b \in alarms[i] : LET c == [b EXCEPT !.own = FALSE]
                             IN  ~ c.own /\ c.kind = b.kind /\ c.stage = b.stage
    BY <2>1, Zenon DEF Alarm
  <2>3. \A c \in old : \E b \in alarms[i] : c = [b EXCEPT !.own = FALSE]
    BY Zenon DEF Disowned, StopTimer
  <2>4. \A b \in alarms[i] : b.stage = "fetching" => b.kind # "continuation"
    BY DEF IInv, IssueInv, AlarmInv
  <2>5. ASSUME NEW c \in old
        PROVE  ~ c.own /\ (c.stage = "fetching" => c.kind # "continuation")
    <3>1. PICK b \in alarms[i] : c = [b EXCEPT !.own = FALSE]
      BY <2>3
    <3>2. ~ c.own /\ c.kind = b.kind /\ c.stage = b.stage
      BY <2>2, <3>1, Zenon
    <3> QED BY <2>4, <3>2
  <2> QED BY <2>5
<1> HIDE DEF e, a, old
<1> QED BY <1>1, <1>2, <1>3
   DEF IInv, TypeOK, Queued, AlarmInv, matchingRetryEntry, RetryKinds

(* scheduleRetryOp.apply: the retry in flight becomes the queued entry.    *)
LEMMA ScheduleRetryAppliedInv ==
    ASSUME IInv, NEW i \in Issues, NEW s \in reschedules[i], ScheduleRetryApplied(i, s)
    PROVE  \A k \in Issues : IssueInv(k)'
<1>1. /\ s.kind \in RetryKinds /\ s.attempt \in Nat /\ s.turns \in Nat
      /\ ScheduleRetry(i, s.id, s.kind, s.attempt, s.turns)
  BY DEF IInv, TypeOK, Reschedule, ScheduleRetryApplied
<1>2. /\ \A q \in Issues \ {i} : /\ RetryAttempts'[q] = RetryAttempts[q]
                                 /\ alarms'[q] = alarms[q]
                                 /\ q \in Claimed' <=> q \in Claimed
      /\ i \in Claimed'
      /\ Queued(i)'
      /\ RetryAttempts'[i].kind = s.kind
      /\ AlarmInv(i)'
  BY <1>1, ScheduledInv
<1>3. \A q \in Issues \ {i} : Same(q)
  BY <1>2 DEF ScheduleRetryApplied, Same, IInv, TypeOK
<1>4. /\ reschedules'[i] = reschedules[i] \ {s}
      /\ UNCHANGED <<Running, Blocked, cleaningWorkspaces, runs, cleanups>>
      /\ Idle(i) /\ i \notin Blocked /\ i \notin cleaningWorkspaces
  BY DEF ScheduleRetryApplied, IInv, TypeOK, IssueInv, RescheduleInv
<1>5. /\ s.kind = "continuation" => reschedules[i] = {s}
      /\ \A x \in reschedules'[i] : ~ x.held /\ x.kind # "continuation"
  BY <1>4 DEF IInv, IssueInv, RescheduleInv
<1>6. Workers(i)' = {} /\ Idle(i)'
  BY <1>4 DEF Workers, Idle
<1>7. (SpawningInv(i) /\ LiveInv(i) /\ WorkerInv(i))'
  BY <1>6 DEF SpawningInv, LiveInv, WorkerInv, Workers, Idle
<1>8. (BlockedInv(i) /\ QueuedInv(i) /\ DriverInv(i))'
  BY <1>2, <1>4, <1>5 DEF BlockedInv, QueuedInv, DriverInv
<1>9. RescheduleInv(i)'
  BY <1>4, <1>5, <1>6 DEF RescheduleInv
<1>10. CleaningInv(i)'
  BY <1>4 DEF IInv, IssueInv, CleaningInv, Reserves
<1>11. BudgetInv(i)'
  BY <1>4 DEF IInv, IssueInv, BudgetInv
<1>12. IssueInv(i)'
  BY <1>2, <1>7, <1>8, <1>9, <1>10, <1>11 DEF IssueInv
<1> QED BY <1>3, <1>12, OtherIssues

(* A timer firing, and the fire being handled, move an alarm on and keep   *)
(* the entry's identity.                                                   *)
LEMMA AlarmMoves ==
    ASSUME IInv, NEW i \in Issues, NEW a \in alarms[i],
           NEW p \in {"fired", "fetching"}
    PROVE  LET b == [a EXCEPT !.stage = p]
           IN  b.kind = a.kind /\ b.attempt = a.attempt /\ b.own = a.own /\ b.stage = p
<1>1. a \in Alarm
  BY DEF IInv, TypeOK
<1> QED BY <1>1, Zenon DEF Alarm

(* Updates of a queued entry, field by field.                              *)
LEMMA EntryMoves ==
    ASSUME NEW e \in RetryEntry
    PROVE  /\ LET d == [e EXCEPT !.due = TRUE]
              IN  d.kind = e.kind /\ d.attempt = e.attempt /\ d.due
           /\ LET d == [e EXCEPT !.timer = FALSE]
              IN  d.kind = e.kind /\ d.attempt = e.attempt /\ d.due = e.due
BY Zenon DEF RetryEntry

(* What an issue keeps when only its entry's flags and its alarms change.  *)
LEMMA OnlyAlarms ==
    ASSUME IInv, NEW i \in Issues, AlarmInv(i)',
           RetryAttempts'[i].kind = RetryAttempts[i].kind,
           UNCHANGED <<Running, Claimed, Blocked, cleaningWorkspaces,
                       OperatorTerminalStops, runs, reschedules, cleanups>>
    PROVE  IssueInv(i)'
<1>1. SameHold(i)
  BY DEF SameHold
<1>2. CleaningInv(i)'
  BY <1>1, CleanupsKept DEF IInv
<1>3. BudgetInv(i)'
  BY DEF IInv, IssueInv, BudgetInv
<1> QED BY <1>1, <1>2, <1>3, HoldInv DEF IInv

(* A retry's time.AfterFunc fires.                                         *)
LEMMA TimerFiresInv ==
    ASSUME IInv, NEW i \in Issues, NEW a \in alarms[i], TimerFires(i, a)
    PROVE  \A k \in Issues : IssueInv(k)'
<1> DEFINE b == [a EXCEPT !.stage = "fired"]
           d == [RetryAttempts[i] EXCEPT !.due = TRUE]
<1>1. b.kind = a.kind /\ b.attempt = a.attempt /\ b.own = a.own /\ b.stage = "fired"
  BY AlarmMoves, Zenon
<1>2. d.kind = RetryAttempts[i].kind /\ d.attempt = RetryAttempts[i].attempt /\ d.due
  <2>1. RetryAttempts[i] \in RetryEntry
    BY DEF IInv, TypeOK
  <2> QED BY <2>1, EntryMoves, Zenon
<1>3. /\ alarms' = [alarms EXCEPT ![i] = (@ \ {a}) \cup {b}]
      /\ RetryAttempts' = IF a.own THEN [RetryAttempts EXCEPT ![i] = d]
                          ELSE RetryAttempts
  BY DEF TimerFires
<1> HIDE DEF b, d
<1>4. \A k \in Issues \ {i} : Same(k)
  BY <1>3 DEF TimerFires, Same, IInv, TypeOK
<1>5. /\ RetryAttempts'[i].kind = RetryAttempts[i].kind
      /\ RetryAttempts'[i].attempt = RetryAttempts[i].attempt
      /\ IF a.own THEN RetryAttempts'[i].due ELSE RetryAttempts'[i] = RetryAttempts[i]
      /\ reschedules'[i] = reschedules[i]
      /\ alarms'[i] = (alarms[i] \ {a}) \cup {b}
  BY <1>2, <1>3 DEF TimerFires, IInv, TypeOK
<1>6. AlarmInv(i)'
  <2>1. AlarmInv(i)
    BY DEF IInv, IssueInv
  <2>2. CASE a.own
    BY <1>1, <1>5, <2>1, <2>2 DEF AlarmInv, Queued, matchingRetryEntry
  <2>3. CASE ~ a.own
    BY <1>1, <1>5, <2>1, <2>3 DEF AlarmInv, Queued, matchingRetryEntry
  <2> QED BY <2>2, <2>3
<1>7. IssueInv(i)'
  BY <1>5, <1>6, OnlyAlarms DEF TimerFires
<1> QED BY <1>4, <1>7, OtherIssues

(* retryFireOp.apply, for an entry that matches and for a stale fire.      *)
LEMMA RetryFireInv ==
    ASSUME IInv, NEW i \in Issues, NEW a \in alarms[i], RetryFire(i, a)
    PROVE  \A k \in Issues : IssueInv(k)'
<1> DEFINE b == [a EXCEPT !.stage = "fetching"]
           d == [RetryAttempts[i] EXCEPT !.timer = FALSE]
<1>1. b.kind = a.kind /\ b.attempt = a.attempt /\ b.own = a.own /\ b.stage = "fetching"
  BY AlarmMoves, Zenon
<1>2. /\ d.kind = RetryAttempts[i].kind /\ d.attempt = RetryAttempts[i].attempt
      /\ d.due = RetryAttempts[i].due
  <2>1. RetryAttempts[i] \in RetryEntry
    BY DEF IInv, TypeOK
  <2> QED BY <2>1, EntryMoves, Zenon
<1>3. /\ alarms' = [alarms EXCEPT ![i] =
              IF matchingRetryEntry(i, a) /\ a.kind # "continuation"
              THEN (@ \ {a}) \cup {b} ELSE @ \ {a}]
      /\ RetryAttempts' = IF matchingRetryEntry(i, a)
                          THEN [RetryAttempts EXCEPT ![i] = d] ELSE RetryAttempts
      /\ a.stage = "fired"
  BY DEF RetryFire
<1> HIDE DEF b, d
<1>4. \A k \in Issues \ {i} : Same(k)
  BY <1>3 DEF RetryFire, Same, IInv, TypeOK
<1>5. /\ RetryAttempts'[i].kind = RetryAttempts[i].kind
      /\ RetryAttempts'[i].attempt = RetryAttempts[i].attempt
      /\ RetryAttempts'[i].due = RetryAttempts[i].due
      /\ reschedules'[i] = reschedules[i]
  BY <1>2, <1>3 DEF RetryFire, IInv, TypeOK
<1>6. AlarmInv(i)'
  <2>1. CASE ~ matchingRetryEntry(i, a)
    <3>1. alarms'[i] = alarms[i] \ {a} /\ ~ a.own
      BY <1>3, <2>1 DEF IInv, TypeOK, IssueInv, AlarmInv
    <3> QED BY <1>5, <3>1 DEF IInv, IssueInv, AlarmInv, Queued, matchingRetryEntry
  <2>2. CASE matchingRetryEntry(i, a) /\ a.kind # "continuation"
    <3>1. alarms'[i] = (alarms[i] \ {a}) \cup {b}
      BY <1>3, <2>2 DEF IInv, TypeOK
    <3>2. AlarmInv(i)
      BY DEF IInv, IssueInv
    <3>3. \A x \in alarms'[i] : /\ x.own => matchingRetryEntry(i, x)'
                                /\ x.stage = "fetching" => x.kind # "continuation"
      BY <1>1, <1>5, <2>2, <3>1, <3>2 DEF AlarmInv, matchingRetryEntry
    <3>4. Queued(i) =>
            \/ \E x \in alarms'[i] : x.own /\ (~ RetryAttempts[i].due => x.stage = "armed")
            \/ reschedules[i] # {}
            \/ RetryAttempts[i].kind = "continuation" /\ RetryAttempts[i].due
      BY <1>1, <1>3, <3>1, <3>2 DEF AlarmInv
    <3> QED BY <1>5, <3>3, <3>4 DEF AlarmInv, Queued
  <2>3. CASE matchingRetryEntry(i, a) /\ a.kind = "continuation"
    <3>1. alarms'[i] = alarms[i] \ {a}
      BY <1>3, <2>3 DEF IInv, TypeOK
    <3> QED BY <1>3, <1>5, <2>3, <3>1
       DEF IInv, IssueInv, AlarmInv, Queued, matchingRetryEntry
  <2> QED BY <2>1, <2>2, <2>3
<1>7. IssueInv(i)'
  BY <1>5, <1>6, OnlyAlarms DEF RetryFire
<1> QED BY <1>4, <1>7, OtherIssues

(* A candidate fetch that ends after its entry has gone.                   *)
LEMMA FetchStaleInv ==
    ASSUME IInv, NEW i \in Issues, NEW a \in alarms[i], FetchStale(i, a)
    PROVE  \A k \in Issues : IssueInv(k)'
<1>1. \A k \in Issues \ {i} : Same(k)
  BY DEF FetchStale, actorVars, Same, IInv, TypeOK
<1>2. AlarmInv(i)'
  BY DEF FetchStale, actorVars, IInv, TypeOK, IssueInv, AlarmInv, Queued,
         matchingRetryEntry
<1>3. IssueInv(i)'
  BY <1>2, OnlyAlarms DEF FetchStale, actorVars
<1> QED BY <1>1, <1>3, OtherIssues

(* A retry that is put back: the entry stays queued until the followup     *)
(* replaces it.                                                            *)
LEMMA PutBackInv ==
    ASSUME IInv, NEW i \in Issues, NEW a \in alarms[i],
           RetryPollFailed(i, a) \/ CapacityDeferRetry(i, a)
    PROVE  \A k \in Issues : IssueInv(k)'
<1> DEFINE s == [id |-> a.id, kind |-> a.kind, turns |-> 0, held |-> FALSE,
                 attempt |-> IF a.kind = "quota" THEN a.attempt ELSE a.attempt + 1]
<1>1. PutBack(i, a) /\ Fetched(i, a) /\ matchingRetryEntry(i, a)
  BY DEF RetryPollFailed, CapacityDeferRetry
<1>2. /\ reschedules' = [reschedules EXCEPT ![i] = @ \cup {s}]
      /\ s.kind = a.kind /\ ~ s.held
  BY <1>1 DEF PutBack
<1> HIDE DEF s
<1>3. a.kind # "continuation" /\ a.kind # "none"
  BY <1>1 DEF Fetched, IInv, TypeOK, Alarm, RetryKinds, IssueInv, AlarmInv
<1>4. \A k \in Issues \ {i} : Same(k)
  BY <1>1, <1>2 DEF PutBack, actorVars, Same, IInv, TypeOK
<1>5. Queued(i)
  BY <1>1, <1>3 DEF Queued, matchingRetryEntry
<1>8. /\ reschedules'[i] = reschedules[i] \cup {s}
      /\ alarms'[i] = alarms[i] \ {a}
      /\ RetryAttempts'[i] = RetryAttempts[i]
      /\ UNCHANGED <<Running, Claimed, Blocked, cleaningWorkspaces, runs>>
  BY <1>1, <1>2 DEF PutBack, actorVars, IInv, TypeOK
<1>9. /\ Idle(i) /\ i \notin Blocked /\ i \in Claimed
      /\ i \notin cleaningWorkspaces
      /\ RetryAttempts[i].kind = a.kind
      /\ \A x \in reschedules[i] : ~ x.held /\ x.kind # "continuation"
  BY <1>1, <1>3, <1>5, QueuedAlone
  DEF IInv, IssueInv, RescheduleInv, QueuedInv, matchingRetryEntry
<1>6. (RescheduleInv(i) /\ QueuedInv(i) /\ AlarmInv(i))'
  <2>1. RescheduleInv(i)'
    BY <1>2, <1>3, <1>8, <1>9 DEF RescheduleInv, Idle, Workers
  <2>2. QueuedInv(i)'
    BY <1>3, <1>8, <1>9 DEF QueuedInv, Queued
  <2>3. AlarmInv(i)'
    BY <1>8 DEF IInv, IssueInv, AlarmInv, matchingRetryEntry
  <2> QED BY <2>1, <2>2, <2>3
<1>7. IssueInv(i)'
  BY <1>1, <1>2, <1>5, <1>6, QueuedAlone
  DEF PutBack, actorVars, IInv, TypeOK, IssueInv, SpawningInv, LiveInv, WorkerInv,
      BlockedInv, CleaningInv, DriverInv, BudgetInv, Queued, Idle, Workers, Reserves
<1> QED BY <1>4, <1>7, OtherIssues

(* retryFireAfterFetchOp.apply when it starts a worker.                    *)
LEMMA RetryDispatchedInv ==
    ASSUME IInv, PromptReschedule, NEW i \in Issues, NEW a \in alarms[i],
           RetryDispatched(i, a)
    PROVE  \A k \in Issues : IssueInv(k)'
<1>1. a.kind # "continuation" /\ a.kind # "none" /\ a.attempt \in Nat
  <2>1. a \in Alarm
    BY DEF IInv, TypeOK
  <2>2. a.stage = "fetching" => a.kind # "continuation"
    BY DEF IInv, IssueInv, AlarmInv
  <2>3. a.stage = "fetching"
    BY DEF RetryDispatched, Fetched
  <2> QED BY <2>1, <2>2, <2>3 DEF Alarm, RetryKinds
<1>2. \A k \in Issues \ {i} : Same(k)
  BY DEF RetryDispatched, Spawn, Same, IInv, TypeOK
<1>3. RetryAttempts'[i] = NoEntry /\ AllDisowned(i)'
  <2>1. alarms'[i] = Disowned(alarms[i] \ {a}) /\ RetryAttempts'[i] = NoEntry
    BY DEF RetryDispatched, IInv, TypeOK
  <2> QED BY <2>1, AlarmsDropped
<1>4. Queued(i) /\ RetryAttempts[i].kind # "continuation"
  BY <1>1 DEF RetryDispatched, Queued, matchingRetryEntry
<1>5. reschedules[i] = {}
  BY <1>4, QueuedAlone DEF RetryDispatched, Settled
<1>6. IssueInv(i)'
  <2>1. /\ Spawn(i, a.attempt, 0, 0, 0)
        /\ i \notin OperatorTerminalStops
        /\ UNCHANGED <<Running, Claimed, Blocked, cleaningWorkspaces,
                       OperatorTerminalStops, reschedules, cleanups>>
    BY DEF RetryDispatched
  <2>2. /\ Idle(i) /\ i \notin Blocked /\ i \notin cleaningWorkspaces
        /\ i \in Claimed' /\ Running'[i] = Running[i]
    BY <1>4, <2>1, QueuedAlone
  <2>3. 0 \in Nat /\ ~ (0 > 0)
    OBVIOUS
  <2> QED BY <2>3, <1>1, <1>3, <1>5, <2>1, <2>2, SpawnInv
<1> QED BY <1>2, <1>6, OtherIssues

(* Dropping the claim of an issue that runs, waits in the queue or is      *)
(* blocked.  A worker that runs goes on until it is finalized.             *)
LEMMA ReleasedInv ==
    ASSUME IInv, NEW i \in Issues,
           Running[i] # NoRun \/ Queued(i) \/ i \in Blocked,
           i \notin Claimed', i \notin Blocked', RetryAttempts'[i] = NoEntry,
           AllDisowned(i)',
           \A r \in RunIds : Keeps(runs'[i][r], runs[i][r]),
           \A j \in JobIds : \/ cleanups'[i][j] = cleanups[i][j]
                             \/ cleanups'[i][j].phase = "start",
           Running'[i] = Running[i],
           reschedules'[i] = reschedules[i],
           i \in cleaningWorkspaces' <=> i \in cleaningWorkspaces
    PROVE  IssueInv(i)'
<1> USE ConstantsAssumption
<1>1. /\ Workers(i)' = Workers(i)
      /\ Idle(i)' <=> Idle(i)
      /\ \A r \in RunIds : runs'[i][r].phase # "spawning"
      /\ \A j \in JobIds : cleanups'[i][j].phase # "resume"
      /\ ~ Queued(i)'
  <2>0. \A r \in RunIds : runs'[i][r].phase = runs[i][r].phase
    BY DEF Keeps
  <2>5. Workers(i)' = Workers(i)
    BY <2>0 DEF Workers
  <2>1. /\ Workers(i)' = Workers(i)
        /\ Idle(i)' <=> Idle(i)
    BY <2>5 DEF Idle
  <2>2. ASSUME NEW r \in RunIds, runs'[i][r].phase = "spawning" PROVE FALSE
    <3>1. runs[i][r].phase = "spawning"
      BY <2>2 DEF Keeps
    <3>2. Workers(i) = {r} /\ Running[i] = NoRun
      BY <3>1 DEF IInv, IssueInv, SpawningInv
    <3> QED BY <3>2 DEF IInv, IssueInv, WorkerInv
  <2>3. ASSUME NEW j \in JobIds, cleanups'[i][j].phase = "resume" PROVE FALSE
    <3>1. cleanups[i][j].phase = "resume"
      BY <2>3
    <3>2. i \in cleaningWorkspaces /\ Idle(i) /\ ~ Queued(i)
      BY <3>1 DEF IInv, IssueInv, CleaningInv, Reserves
    <3> QED BY <3>2 DEF IInv, IssueInv, BlockedInv, Idle
  <2>4. ~ Queued(i)'
    <3>1. NoEntry.kind = "none"
      BY DEF NoEntry
    <3> QED BY <3>1, Zenon DEF Queued
  <2> QED BY <2>1, <2>2, <2>3, <2>4
<1>2. (SpawningInv(i) /\ LiveInv(i) /\ WorkerInv(i) /\ BudgetInv(i))'
  <2>1. SpawningInv(i)'
    BY <1>1 DEF SpawningInv
  <2>2. LiveInv(i)'
    <3>1. LiveInv(i) /\ \A r \in RunIds : runs'[i][r].phase = runs[i][r].phase
      BY DEF IInv, IssueInv, Keeps
    <3> QED BY <1>1, <3>1 DEF LiveInv
  <2>3. WorkerInv(i)'
    BY <1>1 DEF IInv, IssueInv, WorkerInv
  <2>4. BudgetInv(i)'
    <3>1. BudgetInv(i)
      BY DEF IInv, IssueInv
    <3> QED BY <3>1 DEF BudgetInv, Keeps
  <2> QED BY <2>1, <2>2, <2>3, <2>4
<1>3. (BlockedInv(i) /\ QueuedInv(i) /\ DriverInv(i) /\ AlarmInv(i))'
  <2>1. (BlockedInv(i) /\ QueuedInv(i) /\ DriverInv(i))'
    BY <1>1 DEF BlockedInv, QueuedInv, DriverInv
  <2>2. AlarmInv(i)'
    BY <1>1 DEF AlarmInv, AllDisowned
  <2> QED BY <2>1, <2>2
<1>4. \A s \in reschedules[i] : ~ s.held
  BY DEF IInv, IssueInv, RescheduleInv, LiveInv, Idle
<1>5. RescheduleInv(i)'
  BY <1>1, <1>4 DEF IInv, IssueInv, RescheduleInv
<1>6. CleaningInv(i)'
  <2>1. \A j \in JobIds : Reserves(i, j)' => Reserves(i, j)
    BY DEF Reserves
  <2> QED BY <1>1, <2>1 DEF IInv, IssueInv, CleaningInv
<1> QED BY <1>2, <1>3, <1>5, <1>6 DEF IssueInv

(* retryFireAfterFetchOp.apply when it drops the retry and its claim.      *)
LEMMA RetryDroppedInv ==
    ASSUME IInv, NEW i \in Issues, NEW a \in alarms[i],
           RetryReleased(i, a) \/ RetrySuppressed(i, a)
    PROVE  \A k \in Issues : IssueInv(k)'
<1>1. /\ DropRetry(i, a) /\ Fetched(i, a) /\ matchingRetryEntry(i, a)
      /\ UNCHANGED <<Running, cleaningWorkspaces, runs, reschedules>>
  BY DEF RetryReleased, RetrySuppressed
<1>2. /\ \A k \in Issues \ {i} : cleanups'[k] = cleanups[k]
      /\ \A j \in JobIds : \/ cleanups'[i][j] = cleanups[i][j]
                           \/ cleanups'[i][j].phase = "start"
  BY CleanupFollowedUp DEF RetryReleased, RetrySuppressed
<1>3. \A k \in Issues \ {i} :
          k \in OperatorTerminalStops' <=> k \in OperatorTerminalStops
  BY DEF RetryReleased, RetrySuppressed
<1>4. \A k \in Issues \ {i} : Same(k)
  BY <1>1, <1>2, <1>3 DEF DropRetry, Same, IInv, TypeOK
<1>5. RetryAttempts'[i] = NoEntry /\ AllDisowned(i)'
  <2>1. /\ alarms'[i] = Disowned(StopTimer(i, alarms[i] \ {a}))
        /\ RetryAttempts'[i] = NoEntry
    BY <1>1 DEF DropRetry, IInv, TypeOK
  <2> QED BY <2>1, AlarmsDropped
<1>6. Queued(i)
  BY <1>1 DEF Queued, matchingRetryEntry, IInv, TypeOK, Alarm, RetryKinds
<1>7. \A r \in RunIds : Keeps(runs'[i][r], runs[i][r])
  BY <1>1 DEF Keeps
<1>8. IssueInv(i)'
  BY <1>1, <1>2, <1>5, <1>6, <1>7, ReleasedInv DEF DropRetry
<1> QED BY <1>4, <1>8, OtherIssues

(* Marking registered workers as cancelled keeps what the invariant reads. *)
LEMMA RunsCancelled ==
    ASSUME IInv, NEW S \in SUBSET Issues, NEW T, CancelRuns(Registered(S), T)
    PROVE  /\ \A i \in Issues \ Registered(S) : runs'[i] = runs[i]
           /\ \A i \in Issues : \A r \in RunIds : Keeps(runs'[i][r], runs[i][r])
<1>1. \A i \in Issues \ Registered(S) : runs'[i] = runs[i]
  BY DEF CancelRuns
<1>2. ASSUME NEW i \in Registered(S), NEW r \in RunIds
      PROVE  Keeps(runs'[i][r], runs[i][r])
  <2> DEFINE new == Cancelled(runs[i][Running[i]], i \in T)
  <2>1. runs'[i] = [runs[i] EXCEPT ![Running[i]] = new] /\ i \in Issues
    BY DEF CancelRuns, Registered
  <2>2. Keeps(new, runs[i][Running[i]])
    <3>1. runs[i][Running[i]] \in Run /\ (i \in T) \in BOOLEAN
      BY DEF Registered, IInv, TypeOK
    <3> QED BY <3>1, RunFields, Zenon
  <2> HIDE DEF new
  <2> QED BY <2>1, <2>2 DEF IInv, TypeOK, Keeps
<1>3. ASSUME NEW i \in Issues \ Registered(S), NEW r \in RunIds
      PROVE  Keeps(runs'[i][r], runs[i][r])
  BY <1>1 DEF Keeps
<1> QED BY <1>1, <1>2, <1>3

(* Releasing the issues of S, among which all those with a cancelled       *)
(* worker, keeps the invariant.                                            *)
LEMMA ReconciledInv ==
    ASSUME IInv, NEW seen \in SUBSET Issues, NEW T,
           NEW S \in SUBSET Issues, Registered(seen) \subseteq S,
           \A i \in S : Running[i] # NoRun \/ Queued(i) \/ i \in Blocked,
           ReleaseClaims(S), CancelRuns(Registered(seen), T),
           UNCHANGED <<Running, cleaningWorkspaces, reschedules>>,
           \A i \in Issues \ S : /\ cleanups'[i] = cleanups[i]
                                 /\ i \in OperatorTerminalStops'
                                        <=> i \in OperatorTerminalStops,
           \A i \in Issues : \A j \in JobIds :
               \/ cleanups'[i][j] = cleanups[i][j]
               \/ cleanups'[i][j].phase = "start"
    PROVE  \A k \in Issues : IssueInv(k)'
<1>1. ASSUME NEW k \in Issues \ S PROVE IssueInv(k)'
  <2>1. runs'[k] = runs[k]
    BY RunsCancelled
  <2>2. Same(k)
    BY <2>1 DEF Same, ReleaseClaims
  <2> QED BY <2>2, SameInv DEF IInv
<1>2. ASSUME NEW k \in S PROVE IssueInv(k)'
  <2>1. /\ k \notin Claimed' /\ k \notin Blocked' /\ RetryAttempts'[k] = NoEntry
        /\ alarms'[k] = Disowned(StopTimer(k, alarms[k]))
    BY DEF ReleaseClaims
  <2>2. AllDisowned(k)'
    BY <2>1, AlarmsDropped
  <2>3. \A r \in RunIds : Keeps(runs'[k][r], runs[k][r])
    BY RunsCancelled
  <2> QED BY <2>1, <2>2, <2>3, ReleasedInv
<1> QED BY <1>1, <1>2

(* reconcileInactiveTrackerIssuesOp.apply.                                 *)
LEMMA ReconcileInactiveInv ==
    ASSUME IInv, NEW seen \in SUBSET Issues, NEW terminal \in SUBSET seen,
           ReconcileInactive(seen, terminal)
    PROVE  \A k \in Issues : IssueInv(k)'
<1> DEFINE live    == Registered(seen)
           waiting == {i \in seen \ live : Queued(i) \/ i \in Blocked}
           gone    == terminal \cap waiting
           unowned == {i \in terminal \cap live : ~ runs[i][Running[i]].owned}
           S       == live \cup waiting
<1>1. /\ S \in SUBSET Issues /\ live \subseteq S
      /\ \A i \in S : Running[i] # NoRun \/ Queued(i) \/ i \in Blocked
      /\ gone \subseteq S /\ unowned \subseteq S /\ terminal \cap live \subseteq S
  BY DEF Registered
<1>2. ReleaseClaims(S) /\ CancelRuns(live, terminal)
  BY Zenon DEF ReconcileInactive
<1>3. PICK other \in SUBSET (terminal \cap live) :
          OperatorTerminalStops' = OperatorTerminalStops \cup gone \cup unowned \cup other
  BY Zenon DEF ReconcileInactive
<1>4. PICK known \in SUBSET gone : \E f, g : StartCleanups(known, f, g)
  BY Zenon DEF ReconcileInactive
<1>5. UNCHANGED <<Running, cleaningWorkspaces, reschedules>>
  BY Zenon DEF ReconcileInactive
<1> HIDE DEF S, live, waiting, gone, unowned
<1>6. /\ \A i \in Issues \ S : /\ cleanups'[i] = cleanups[i]
                               /\ i \in OperatorTerminalStops' <=> i \in OperatorTerminalStops
      /\ \A i \in Issues : \A j \in JobIds : \/ cleanups'[i][j] = cleanups[i][j]
                                             \/ cleanups'[i][j].phase = "start"
  BY <1>1, <1>3, <1>4, CleanupsStarted
<1> QED BY <1>1, <1>2, <1>5, <1>6, ReconciledInv DEF live

(* reconcileAbsentTrackerIssuesOp.apply.                                   *)
LEMMA ReconcileAbsentInv ==
    ASSUME IInv, NEW seen \in SUBSET Issues, ReconcileAbsent(seen)
    PROVE  \A k \in Issues : IssueInv(k)'
<1> DEFINE S == Registered(seen) \cup
                {i \in seen \ Registered(seen) : \/ i \in Blocked
                                                 \/ RetryAttempts[i].kind = "continuation"}
<1>1. /\ S \in SUBSET Issues /\ Registered(seen) \subseteq S
      /\ \A i \in S : Running[i] # NoRun \/ Queued(i) \/ i \in Blocked
  BY DEF Registered, Queued
<1>2. /\ ReleaseClaims(S) /\ CancelRuns(Registered(seen), {})
      /\ UNCHANGED <<Running, cleaningWorkspaces, OperatorTerminalStops, reschedules,
                     cleanups>>
  BY Zenon DEF ReconcileAbsent
<1> HIDE DEF S
<1> QED BY <1>1, <1>2, ReconciledInv

(* refreshActiveTrackerIssuesOp.apply.                                     *)
LEMMA RefreshActiveInv ==
    ASSUME IInv, NEW seen \in SUBSET Issues, RefreshActive(seen)
    PROVE  \A k \in Issues : IssueInv(k)'
<1>1. ASSUME NEW i \in Issues, NEW r \in RunIds PROVE Keeps(runs'[i][r], runs[i][r])
  <2> DEFINE new == ActiveAgain(runs[i][Running[i]])
  <2>1. CASE i \in Registered(seen)
    <3>1. runs'[i] = [runs[i] EXCEPT ![Running[i]] = new]
      BY <2>1 DEF RefreshActive
    <3>2. Keeps(new, runs[i][Running[i]])
      <4>1. runs[i][Running[i]] \in Run
        BY <2>1 DEF Registered, IInv, TypeOK
      <4> QED BY <4>1, RunFields, Zenon
    <3> HIDE DEF new
    <3> QED BY <3>1, <3>2 DEF IInv, TypeOK, Keeps
  <2>2. CASE i \notin Registered(seen)
    BY <2>2 DEF RefreshActive, Keeps
  <2> QED BY <2>1, <2>2
<1>2. ASSUME NEW i \in Issues PROVE IssueInv(i)'
  <2>1. UNCHANGED <<actorVars, alarms, reschedules, cleanups>>
    BY DEF RefreshActive
  <2>2. SameHold(i)
    BY <1>1, <2>1 DEF SameHold, Keeps, actorVars
  <2>3. CleaningInv(i)'
    BY <2>1, <2>2, CleanupsKept DEF IInv
  <2>4. AlarmInv(i)'
    BY <2>1 DEF actorVars, IInv, IssueInv, AlarmInv, Queued, matchingRetryEntry
  <2>5. BudgetInv(i)'
    BY <1>1 DEF Keeps, IInv, IssueInv, BudgetInv
  <2> QED BY <2>2, <2>3, <2>4, <2>5, HoldInv DEF IInv
<1> QED BY <1>2

(* Cleanup.                                                                *)
LEMMA CleanupPhases ==
    ASSUME NEW job \in Cleanup
    PROVE  /\ \A p \in {"start", "verify", "resume"} : [job EXCEPT !.phase = p].phase = p
           /\ [job EXCEPT !.phase = "end", !.attempt = @ + 1].phase = "end"
           /\ \A p \in {"end", "remove"} : [FreeCleanup EXCEPT !.phase = p].phase = p
           /\ FreeCleanup.phase = "free"
BY Zenon DEF Cleanup, FreeCleanup

(* What an issue keeps when only its cleanups change.                      *)
LEMMA OnlyCleanups ==
    ASSUME IInv, NEW i \in Issues, CleaningInv(i)',
           UNCHANGED <<actorVars, runs, alarms, reschedules>>
    PROVE  IssueInv(i)'
<1>1. SameHold(i)
  BY DEF SameHold, actorVars
<1>2. AlarmInv(i)'
  BY DEF actorVars, IInv, IssueInv, AlarmInv, Queued, matchingRetryEntry
<1>3. BudgetInv(i)'
  BY DEF IInv, IssueInv, BudgetInv
<1> QED BY <1>1, <1>2, <1>3, HoldInv DEF IInv

(* A cleanup that gives up before it begins reserves nothing.              *)
LEMMA CleaningShrinks ==
    ASSUME NEW i \in Issues, IssueInv(i),
           UNCHANGED <<actorVars, runs>>,
           \A q \in JobIds : \/ cleanups'[i][q] = cleanups[i][q]
                             \/ cleanups'[i][q].phase = "free"
    PROVE  CleaningInv(i)'
<1>1. /\ Idle(i)' <=> Idle(i)
      /\ Queued(i)' <=> Queued(i)
  BY DEF actorVars, Idle, Workers, Queued
<1>2. \A q \in JobIds : Reserves(i, q)' => Reserves(i, q)
  BY DEF Reserves
<1> QED BY <1>1, <1>2 DEF actorVars, IssueInv, CleaningInv

(* Every step of a workspace cleanup.                                      *)
LEMMA CleanupStepInv ==
    ASSUME IInv, PromptReschedule, NEW i \in Issues, NEW j \in JobIds, CleanupStep(i, j)
    PROVE  \A k \in Issues : IssueInv(k)'
<1> USE ConstantsAssumption
<1> DEFINE job == cleanups[i][j]
<1>1. /\ \A p \in {"start", "verify", "resume"} : [job EXCEPT !.phase = p].phase = p
      /\ [job EXCEPT !.phase = "end", !.attempt = @ + 1].phase = "end"
      /\ \A p \in {"end", "remove"} : [FreeCleanup EXCEPT !.phase = p].phase = p
      /\ FreeCleanup.phase = "free"
  <2>1. job \in Cleanup
    BY DEF IInv, TypeOK
  <2> QED BY <2>1, CleanupPhases, Zenon
<1>2. ASSUME NEW new, SetCleanup(i, j, new)
      PROVE  /\ cleanups'[i][j] = new
             /\ \A q \in JobIds \ {j} : cleanups'[i][q] = cleanups[i][q]
             /\ \A k \in Issues \ {i} : cleanups'[k] = cleanups[k]
  BY <1>2 DEF SetCleanup, IInv, TypeOK
<1>3. CASE CleanupBegin(i, j)
  <2>1. PICK new : /\ SetCleanup(i, j, new)
                   /\ IF IsClaimed(i) \/ i \in cleaningWorkspaces
                      THEN new.phase = "free" /\ cleaningWorkspaces' = cleaningWorkspaces
                      ELSE /\ new.phase = "verify"
                           /\ cleaningWorkspaces' = cleaningWorkspaces \cup {i}
    BY <1>1, <1>3, Zenon DEF CleanupBegin
  <2>2. \A k \in Issues \ {i} : Same(k)
    BY <1>2, <1>3, <2>1 DEF CleanupBegin, Same, IInv, TypeOK
  <2>3. CASE IsClaimed(i) \/ i \in cleaningWorkspaces
    <3>1. UNCHANGED <<actorVars, runs, alarms, reschedules>>
      BY <1>3, <2>1, <2>3 DEF CleanupBegin, actorVars
    <3>2. \A q \in JobIds : \/ cleanups'[i][q] = cleanups[i][q]
                             \/ cleanups'[i][q].phase = "free"
      BY <1>2, <2>1, <2>3
    <3>3. CleaningInv(i)'
      BY <3>1, <3>2, CleaningShrinks DEF IInv
    <3> QED BY <2>2, <3>1, <3>3, OnlyCleanups, OtherIssues
  <2>4. CASE ~ (IsClaimed(i) \/ i \in cleaningWorkspaces)
    <3>1. Idle(i) /\ reschedules[i] = {}
      BY <1>3, <2>4
      DEF CleanupBegin, IsClaimed, Settled, IInv, TypeOK, Run, IssueInv, SpawningInv,
          LiveInv, RescheduleInv, Idle, Workers
    <3>2. CleaningInv(i)'
      <4>1. \A q \in JobIds : ~ Reserves(i, q)
        BY <2>4 DEF IInv, IssueInv, CleaningInv
      <4>2. /\ \A q \in JobIds \ {j} : cleanups'[i][q] = cleanups[i][q]
            /\ cleanups'[i][j].phase = "verify"
            /\ i \in cleaningWorkspaces'
        BY <1>2, <2>1, <2>4
      <4>3. Idle(i)' /\ ~ Queued(i)' /\ i \notin Claimed'
        BY <1>3, <2>4, <3>1 DEF CleanupBegin, IsClaimed, Queued, Idle, Workers
      <4> QED BY <4>1, <4>2, <4>3 DEF CleaningInv, Reserves
    <3>3. IssueInv(i)'
      BY <1>3, <2>1, <2>4, <3>1, <3>2
      DEF CleanupBegin, IsClaimed, IInv, IssueInv, SpawningInv, LiveInv, WorkerInv,
          BlockedInv, QueuedInv, RescheduleInv, AlarmInv, DriverInv, BudgetInv, Workers,
          Queued, Idle, matchingRetryEntry
    <3> QED BY <2>2, <3>3, OtherIssues
  <2> QED BY <2>3, <2>4
<1>4. CASE \/ CleanupUnknown(i, j) \/ CleanupAbsent(i, j) \/ CleanupNotTerminal(i, j)
           \/ CleanupTerminal(i, j) \/ CleanupRemove(i, j)
  <2>1. /\ UNCHANGED <<actorVars, runs, alarms, reschedules>>
        /\ job.phase \in {"verify", "remove"}
    BY <1>4, Zenon DEF CleanupUnknown, CleanupAbsent, CleanupNotTerminal,
                       CleanupTerminal, CleanupRemove
  <2>2. \E new : /\ SetCleanup(i, j, new)
                 /\ \/ new.phase \in {"end", "remove"}
                    \/ new.phase = "resume" /\ i \notin OperatorTerminalStops
    BY <1>1, <1>4, Zenon DEF CleanupUnknown, CleanupAbsent, CleanupNotTerminal,
                       CleanupTerminal, CleanupRemove
  <2>3. PICK new : /\ SetCleanup(i, j, new)
                   /\ \/ new.phase \in {"end", "remove"}
                      \/ new.phase = "resume" /\ i \notin OperatorTerminalStops
    BY <2>2
  <2>4. \A k \in Issues \ {i} : Same(k)
    BY <1>2, <2>1, <2>3 DEF actorVars, Same
  <2>5. CleaningInv(i)'
    <3>1. /\ Idle(i)' <=> Idle(i)
          /\ Queued(i)' <=> Queued(i)
      BY <2>1 DEF actorVars, Idle, Workers, Queued
    <3>2. Reserves(i, j) /\ ~ Queued(i)
      BY <2>1 DEF Reserves, IInv, IssueInv, CleaningInv
    <3>3. \A q \in JobIds : Reserves(i, q)' => Reserves(i, q)
      BY <1>2, <2>3, <3>2 DEF Reserves
    <3>4. \A q \in JobIds : cleanups'[i][q].phase = "resume" => i \notin OperatorTerminalStops
      BY <1>2, <2>3 DEF IInv, IssueInv, CleaningInv
    <3> QED BY <2>1, <3>1, <3>2, <3>3, <3>4 DEF actorVars, IInv, IssueInv, CleaningInv
  <2>6. IssueInv(i)'
    BY <2>1, <2>5, OnlyCleanups
  <2> QED BY <2>4, <2>6, OtherIssues
<1>5. CASE CleanupResume(i, j)
  <2>0. PICK id \in FreshTimers(i) :
            ScheduleRetry(i, id, "continuation", job.cattempt, job.cturns)
    BY <1>5, Zenon DEF CleanupResume
  <2>1. job.cattempt \in Nat /\ job.cturns \in Nat /\ "continuation" \in RetryKinds
    BY DEF IInv, TypeOK, Cleanup, RetryKinds
  <2>2. /\ \A q \in Issues \ {i} : /\ RetryAttempts'[q] = RetryAttempts[q]
                                   /\ alarms'[q] = alarms[q]
                                   /\ q \in Claimed' <=> q \in Claimed
        /\ i \in Claimed'
        /\ Queued(i)'
        /\ RetryAttempts'[i].kind = "continuation"
        /\ AlarmInv(i)'
    BY <2>0, <2>1, ScheduledInv
  <2>3. \E new : SetCleanup(i, j, new) /\ new.phase = "end"
    BY <1>1, <1>5, Zenon DEF CleanupResume
  <2>4. /\ cleanups'[i][j].phase = "end"
        /\ \A q \in JobIds \ {j} : cleanups'[i][q] = cleanups[i][q]
        /\ \A k \in Issues \ {i} : cleanups'[k] = cleanups[k]
    BY <1>2, <2>3
  <2>5. \A k \in Issues \ {i} : Same(k)
    BY <1>5, <2>2, <2>4 DEF CleanupResume, Same
  <2>6. /\ i \in cleaningWorkspaces /\ Idle(i) /\ reschedules[i] = {} /\ i \notin Blocked
        /\ \A q \in JobIds : Reserves(i, q) => q = j
        /\ job.phase = "resume"
    BY <1>5 DEF CleanupResume, IInv, IssueInv, CleaningInv, Reserves, RescheduleInv, BlockedInv
  <2>7. UNCHANGED <<Running, Blocked, cleaningWorkspaces, OperatorTerminalStops, runs, reschedules>>
    BY <1>5 DEF CleanupResume
  <2>8. Workers(i)' = Workers(i) /\ (Idle(i)' <=> Idle(i))
    BY <2>7 DEF Workers, Idle
  <2>9. CleaningInv(i)'
    <3>1. \A q \in JobIds : q # j => ~ Reserves(i, q)'
      BY <2>4, <2>6 DEF Reserves
    <3>2. \A q \in JobIds : cleanups'[i][q].phase \notin {"verify", "resume", "remove"}
      BY <2>4, <3>1 DEF Reserves
    <3> QED BY <2>2, <2>6, <2>7, <2>8, <3>1, <3>2 DEF CleaningInv
  <2>10. IssueInv(i)'
    <3>1. BudgetInv(i)'
      BY <2>7 DEF IInv, IssueInv, BudgetInv
    <3>2. (SpawningInv(i) /\ LiveInv(i) /\ WorkerInv(i))'
      BY <2>6, <2>7, <2>8 DEF IInv, IssueInv, SpawningInv, LiveInv, WorkerInv, Workers, Idle
    <3>3. (BlockedInv(i) /\ QueuedInv(i) /\ RescheduleInv(i) /\ DriverInv(i))'
      BY <2>2, <2>6, <2>7 DEF BlockedInv, QueuedInv, RescheduleInv, DriverInv
    <3> QED BY <2>2, <2>9, <3>1, <3>2, <3>3 DEF IssueInv
  <2> QED BY <2>5, <2>10, OtherIssues
<1>6. CASE CleanupEnd(i, j)
  <2>1. \E new : SetCleanup(i, j, new) /\ new.phase \in {"start", "free"}
    BY <1>1, <1>6, Zenon DEF CleanupEnd
  <2>2. PICK new : SetCleanup(i, j, new) /\ new.phase \in {"start", "free"}
    BY <2>1
  <2>3. \A k \in Issues \ {i} : Same(k)
    BY <1>2, <1>6, <2>2 DEF CleanupEnd, Same
  <2>4. CleaningInv(i)'
    <3>1. /\ cleanups'[i][j].phase \in {"start", "free"}
          /\ \A q \in JobIds \ {j} : cleanups'[i][q] = cleanups[i][q]
      BY <1>2, <2>2
    <3>2. \A q \in JobIds \ {j} : ~ Reserves(i, q)
      BY <1>6 DEF CleanupEnd, IInv, IssueInv, CleaningInv, Reserves
    <3>3. i \notin cleaningWorkspaces'
      BY <1>6 DEF CleanupEnd
    <3> QED BY <3>1, <3>2, <3>3 DEF CleaningInv, Reserves
  <2>5. IssueInv(i)'
    <3>1. /\ UNCHANGED <<Running, Claimed, Blocked, RetryAttempts, OperatorTerminalStops, runs,
                          alarms, reschedules>>
          /\ i \notin cleaningWorkspaces'
      BY <1>6 DEF CleanupEnd
    <3>2. /\ Workers(i)' = Workers(i)
          /\ Idle(i)' <=> Idle(i)
          /\ Queued(i)' <=> Queued(i)
      BY <3>1 DEF Workers, Idle, Queued
    <3>3. (SpawningInv(i) /\ LiveInv(i) /\ WorkerInv(i) /\ DriverInv(i))'
      BY <3>1, <3>2 DEF IInv, IssueInv, SpawningInv, LiveInv, WorkerInv, DriverInv
    <3>4. (BlockedInv(i) /\ QueuedInv(i) /\ RescheduleInv(i))'
      BY <3>1, <3>2 DEF IInv, IssueInv, BlockedInv, QueuedInv, RescheduleInv
    <3>5. AlarmInv(i)'
      BY <3>1, <3>2 DEF IInv, IssueInv, AlarmInv, matchingRetryEntry
    <3>6. BudgetInv(i)'
      BY <3>1 DEF IInv, IssueInv, BudgetInv
    <3> QED BY <2>4, <3>3, <3>4, <3>5, <3>6 DEF IssueInv
  <2> QED BY <2>3, <2>5, OtherIssues
<1> QED BY <1>3, <1>4, <1>5, <1>6 DEF CleanupStep

(* The inductive invariant holds initially.                                *)
LEMMA InitInv == Init => IInv
<1> SUFFICES ASSUME Init PROVE \A i \in Issues : IssueInv(i)
  BY InitType DEF IInv
<1> TAKE i \in Issues
<1>1. /\ Running[i] = NoRun
      /\ i \notin Claimed /\ i \notin Blocked /\ i \notin cleaningWorkspaces
      /\ ~ Queued(i)
      /\ alarms[i] = {} /\ reschedules[i] = {}
  BY DEF Init, NoEntry, Queued
<1>2. \A r \in RunIds : runs[i][r].phase = "free" /\ runs[i][r].budget = 0
  BY DEF Init, FreeRun
<1>3. \A j \in JobIds : cleanups[i][j].phase = "free"
  BY DEF Init, FreeCleanup
<1>4. Workers(i) = {}
  BY <1>2 DEF Workers
<1>5. SpawningInv(i) /\ LiveInv(i) /\ WorkerInv(i)
  BY <1>1, <1>2, <1>4 DEF SpawningInv, LiveInv, WorkerInv
<1>6. BlockedInv(i) /\ QueuedInv(i) /\ RescheduleInv(i) /\ DriverInv(i)
  BY <1>1 DEF BlockedInv, QueuedInv, RescheduleInv, DriverInv
<1>7. CleaningInv(i)
  BY <1>1, <1>3 DEF CleaningInv, Reserves
<1>8. AlarmInv(i)
  BY <1>1 DEF AlarmInv
<1>9. BudgetInv(i)
  BY <1>2 DEF BudgetInv
<1> QED BY <1>5, <1>6, <1>7, <1>8, <1>9 DEF IssueInv

(* Every operation keeps the inductive invariant.                          *)
LEMMA NextInv ==
    ASSUME PromptReschedule, IInv, [Next]_vars
    PROVE  IInv'
<1>1. TypeOK'
  BY NextType DEF IInv
<1>2. CASE PollStep
  <2>1. ASSUME NEW n \in AgentLimits, UpdateMaxConcurrentAgents(n)
        PROVE  \A k \in Issues : IssueInv(k)'
    <3>1. \A k \in Issues : Same(k)
      BY <2>1 DEF UpdateMaxConcurrentAgents, Same
    <3> QED BY <3>1, SameInv DEF IInv
  <2> QED BY <1>1, <1>2, <2>1, DispatchInv, DispatchBlockedInv, ReportInv,
             ReconcileInactiveInv, ReconcileAbsentInv, RefreshActiveInv
     DEF PollStep, IInv
<1>3. ASSUME NEW i \in Issues, WorkerStep(i) PROVE IInv'
  BY <1>1, <1>3, ReportInv, RegisterInv, FinalizeInv DEF WorkerStep, IInv
<1>4. ASSUME NEW i \in Issues, RetryStep(i) PROVE IInv'
  BY <1>1, <1>4, ScheduleRetryAppliedInv, TimerFiresInv, RetryFireInv, FetchStaleInv,
     PutBackInv, RetryDroppedInv, RetryDispatchedInv
  DEF RetryStep, IInv
<1>5. ASSUME NEW i \in Issues, NEW j \in JobIds, CleanupStep(i, j) PROVE IInv'
  BY <1>1, <1>5, CleanupStepInv DEF IInv
<1>6. CASE UNCHANGED vars
  <2>1. \A k \in Issues : Same(k)
    BY <1>6 DEF vars, Same
  <2> QED BY <1>1, <2>1, SameInv DEF IInv
<1> QED BY <1>2, <1>3, <1>4, <1>5, <1>6 DEF Next

(* The inductive invariant holds whenever a put-back retry is queued       *)
(* before anything starts a worker or a cleanup for its issue.             *)
THEOREM Invariance == ASSUME PromptReschedule PROVE Spec => []IInv
<1>1. IInv /\ [Next]_vars => IInv'
  BY NextInv
<1> QED BY <1>1, InitInv, PTL DEF Spec

(* The issue of a worker is counted as running.                            *)
LEMMA WorkersCount ==
    ASSUME IInv, NEW i \in Issues, Workers(i) # {} PROVE i \in runningIssueIDs
<1>1. PICK r : r \in Workers(i)
  OBVIOUS
<1> QED BY <1>1, WorkerAlone DEF runningIssueIDs

(* At most one worker per issue, for any number of issues, workers, timers *)
(* and cleanups (dispatchOp, retryFireAfterFetchOp, finalizeOp).           *)
THEOREM AtMostOneWorker == ASSUME PromptReschedule PROVE Spec => []OneWorkerPerIssue
<1>1. ASSUME IInv PROVE OneWorkerPerIssue
  <2>1. ASSUME NEW i \in Issues, NEW r \in Workers(i), NEW q \in Workers(i) PROVE r = q
    <3>1. Workers(i) = {r}
      BY <1>1, WorkerAlone
    <3> QED BY <3>1
  <2> QED BY <2>1 DEF OneWorkerPerIssue
<1> QED BY <1>1, Invariance, PTL

(* An issue with a worker is never counted as anything but running, so the *)
(* capacity gate sees it (RunningCount).                                   *)
THEOREM WorkersCounted == ASSUME PromptReschedule PROVE Spec => []WorkersAreCounted
<1>1. IInv => WorkersAreCounted
  BY WorkersCount DEF WorkersAreCounted
<1> QED BY <1>1, Invariance, PTL

(* Running, retry-queued and blocked exclude each other.                   *)
THEOREM Disjointness == ASSUME PromptReschedule PROVE Spec => []SubstatesAreDisjoint
<1>1. IInv => SubstatesAreDisjoint
  BY DEF IInv, IssueInv, LiveInv, WorkerInv, BlockedInv, SubstatesAreDisjoint, Idle
<1> QED BY <1>1, Invariance, PTL

(* No worker runs in a workspace that a cleanup may be deleting.           *)
THEOREM CleanupExclusion == ASSUME PromptReschedule PROVE Spec => []CleanupIsExclusive
<1>1. IInv => CleanupIsExclusive
  BY DEF IInv, IssueInv, CleaningInv, CleanupIsExclusive, Idle
<1> QED BY <1>1, Invariance, PTL

(* No claim is orphaned: something in flight will move it on.              *)
THEOREM NoOrphanedClaim == ASSUME PromptReschedule PROVE Spec => []ClaimHasDriver
<1>1. IInv => ClaimHasDriver
  BY DEF IInv, IssueInv, AlarmInv, DriverInv, ClaimHasDriver
<1> QED BY <1>1, Invariance, PTL

(* The operator's terminal stop holds against every pending start.         *)
THEOREM StopIsLatched == ASSUME PromptReschedule PROVE Spec => []LatchedStaysStopped
<1>1. IInv => LatchedStaysStopped
  BY DEF IInv, TypeOK, IssueInv, SpawningInv, CleaningInv, LatchedStaysStopped
<1> QED BY <1>1, Invariance, PTL

(* The clean-turn budget of a claim is never exceeded by a session started *)
(* under it.                                                               *)
THEOREM TurnBudget == ASSUME PromptReschedule PROVE Spec => []TurnBudgetHeld
<1>1. ASSUME IInv PROVE TurnBudgetHeld
  <2>1. ASSUME NEW i \in Issues, NEW r \in RunIds, runs[i][r].budget > 0
        PROVE  runs[i][r].cturns + runs[i][r].turns <= MaxContinuationTurns
    <3>1. runs[i][r] \in Run
      BY <1>1 DEF IInv, TypeOK
    <3>2. BudgetInv(i)
      BY <1>1 DEF IInv, IssueInv
    <3>3. /\ runs[i][r].cturns \in Nat /\ runs[i][r].turns \in Nat /\ runs[i][r].budget \in Nat
          /\ runs[i][r].cturns + runs[i][r].budget <= MaxContinuationTurns
          /\ runs[i][r].turns <= runs[i][r].budget
      BY <2>1, <3>1, <3>2 DEF Run, BudgetInv
    <3>4. \A c, n, b, m \in Nat : c + b <= m /\ n <= b => c + n <= m
      OBVIOUS
    <3>5. MaxContinuationTurns \in Nat
      BY ConstantsAssumption
    <3> QED BY <3>3, <3>4, <3>5, Zenon
  <2> QED BY <2>1 DEF TurnBudgetHeld
<1> QED BY <1>1, Invariance, PTL

(* Capacity.  There are at most as many workers as issues counted as       *)
(* running: one per issue, and each is counted.                            *)
LEMMA WorkersWithinCount ==
    ASSUME IInv
    PROVE  /\ IsFiniteSet(WorkerSet)
           /\ Cardinality(WorkerSet) \in Nat
           /\ RunningCount \in Nat
           /\ Cardinality(WorkerSet) <= RunningCount
<1> DEFINE f == [w \in WorkerSet |-> w[1]]
<1>1. /\ \A i \in Issues : \A r, q \in Workers(i) : r = q
      /\ \A i \in Issues : Workers(i) # {} => i \in runningIssueIDs
  BY WorkerAlone, WorkersCount
<1>2. \A w \in WorkerSet : /\ w = <<w[1], w[2]>>
                           /\ w[1] \in Issues
                           /\ w[2] \in Workers(w[1])
  BY DEF WorkerSet, Workers
<1>3. f \in Injection(WorkerSet, runningIssueIDs)
  <2>1. f \in [WorkerSet -> runningIssueIDs]
    BY <1>1, <1>2
  <2>2. ASSUME NEW v \in WorkerSet, NEW w \in WorkerSet, f[v] = f[w] PROVE v = w
    BY <1>1, <1>2, <2>2
  <2> QED BY <2>1, <2>2 DEF Injection, IsInjective
<1>4. IsFiniteSet(runningIssueIDs)
  BY FiniteAssumption, FS_Subset DEF runningIssueIDs
<1> HIDE DEF f
<1>5. IsFiniteSet(WorkerSet) /\ Cardinality(WorkerSet) <= Cardinality(runningIssueIDs)
  BY <1>3, <1>4, FS_Injection
<1> QED BY <1>4, <1>5, FS_CardinalityType DEF RunningCount

(* A start under the capacity gate adds one worker and stays in the limit. *)
LEMMA SpawnAddsOne ==
    ASSUME IInv, NEW i \in Issues, NEW n, NEW m, NEW t, NEW b, Spawn(i, n, m, t, b),
           RunningCount < MaxConcurrentAgents
    PROVE  Cardinality(WorkerSet') <= MaxConcurrentAgents
<1> DEFINE new == [FreeRun EXCEPT !.phase = "spawning", !.attempt = n,
                                  !.cattempt = m, !.cturns = t, !.budget = b]
<1>1. PICK r \in RunIds : runs' = [runs EXCEPT ![i][r] = new]
  BY DEF Spawn
<1>2. new.phase = "spawning"
  BY DEF FreeRun
<1> HIDE DEF new
<1>3. WorkerSet' = WorkerSet \cup {<<i, r>>}
  <2>1. \A w \in Issues \X RunIds : w = <<w[1], w[2]>> /\ w[1] \in Issues /\ w[2] \in RunIds
    OBVIOUS
  <2>2. /\ runs'[i][r].phase = "spawning"
        /\ \A k \in Issues, q \in RunIds : k # i \/ q # r => runs'[k][q] = runs[k][q]
    BY <1>1, <1>2 DEF IInv, TypeOK
  <2>3. ASSUME NEW w \in Issues \X RunIds
        PROVE  w \in WorkerSet' <=> w \in WorkerSet \/ w = <<i, r>>
    <3>1. PICK k \in Issues, q \in RunIds : w = <<k, q>>
      BY <2>1
    <3>2. /\ w \in WorkerSet <=> runs[k][q].phase # "free"
          /\ w \in WorkerSet' <=> runs'[k][q].phase # "free"
      BY <3>1 DEF WorkerSet
    <3>3. CASE k = i /\ q = r
      BY <2>2, <3>1, <3>2, <3>3
    <3>4. CASE k # i \/ q # r
      BY <2>2, <3>1, <3>2, <3>4
    <3> QED BY <3>3, <3>4
  <2> QED BY <2>3 DEF WorkerSet
<1>4. MaxConcurrentAgents \in Nat
  BY ConstantsAssumption DEF IInv, TypeOK
<1>5. Cardinality(WorkerSet \cup {<<i, r>>}) <= Cardinality(WorkerSet) + 1
  <2>1. IsFiniteSet(WorkerSet) /\ Cardinality(WorkerSet) \in Nat
    BY WorkersWithinCount
  <2>2. Cardinality(WorkerSet \cup {<<i, r>>}) =
            IF <<i, r>> \in WorkerSet THEN Cardinality(WorkerSet)
            ELSE Cardinality(WorkerSet) + 1
    BY <2>1, FS_AddElement
  <2> QED BY <2>1, <2>2
<1>6. IsFiniteSet(WorkerSet \cup {<<i, r>>})
  BY WorkersWithinCount, FS_AddElement
<1>7. Cardinality(WorkerSet \cup {<<i, r>>}) \in Nat
  BY <1>6, FS_CardinalityType
<1> QED BY <1>3, <1>4, <1>5, <1>7, WorkersWithinCount

(* Every other step leaves the workers that there are, or fewer.           *)
LEMMA FewerWorkers ==
    ASSUME IInv, \A i \in Issues : \A r \in RunIds :
                     runs'[i][r].phase # "free" => runs[i][r].phase # "free"
    PROVE  Cardinality(WorkerSet') <= Cardinality(WorkerSet)
<1>1. WorkerSet' \in SUBSET WorkerSet
  BY DEF WorkerSet
<1> QED BY <1>1, WorkersWithinCount, FS_Subset

(* No step takes the number of workers past the limit it ran under, unless *)
(* they were past it already.                                              *)
LEMMA NextLimit ==
    ASSUME IInv, [Next]_vars
    PROVE  Cardinality(WorkerSet') > Cardinality(WorkerSet)
               => Cardinality(WorkerSet') <= MaxConcurrentAgents
<1> DEFINE Fewer == \A i \in Issues : \A r \in RunIds :
                        runs'[i][r].phase # "free" => runs[i][r].phase # "free"
           Held == Cardinality(WorkerSet') > Cardinality(WorkerSet)
                       => Cardinality(WorkerSet') <= MaxConcurrentAgents
<1>1. ASSUME Fewer PROVE Held
  <2>1. Cardinality(WorkerSet') <= Cardinality(WorkerSet)
    BY <1>1, FewerWorkers
  <2>2. IsFiniteSet(WorkerSet')
    <3>1. WorkerSet' \in SUBSET WorkerSet
      BY <1>1 DEF WorkerSet
    <3> QED BY <3>1, WorkersWithinCount, FS_Subset
  <2>3. Cardinality(WorkerSet') \in Nat
    BY <2>2, FS_CardinalityType
  <2> QED BY <2>1, <2>3, WorkersWithinCount
<1> HIDE DEF Held
<1>2. ASSUME NEW i \in Issues, Dispatch(i) PROVE Held
  BY <1>2, SpawnAddsOne DEF Dispatch, Held
<1>3. ASSUME NEW i \in Issues, NEW a \in alarms[i], RetryDispatched(i, a) PROVE Held
  BY <1>3, SpawnAddsOne DEF RetryDispatched, Held
<1>4. ASSUME NEW i \in Issues, NEW r \in RunIds, Register(i, r) PROVE Fewer
  <2> DEFINE new == [runs[i][r] EXCEPT !.phase = "live"]
  <2>1. runs' = [runs EXCEPT ![i][r] = new] /\ runs[i][r].phase = "spawning"
    BY <1>4 DEF Register
  <2> HIDE DEF new
  <2> QED BY <2>1 DEF IInv, TypeOK
<1>5. ASSUME NEW i \in Issues, \/ TurnCompleted(i) \/ InputRequired(i) \/ TerminalHandoff(i)
                               \/ BudgetExceeded(i) \/ ReconcileStalled(i)
      PROVE  Fewer
  <2>1. Running[i] \in RunIds /\ \E new : UpdateRun(i, new)
    BY <1>5, Zenon DEF IInv, TypeOK, TurnCompleted, InputRequired, TerminalHandoff,
                       BudgetExceeded, ReconcileStalled
  <2>2. runs[i][Running[i]].phase # "free"
    BY <2>1, ConstantsAssumption DEF IInv, IssueInv, LiveInv, Workers
  <2>3. PICK new : runs' = [runs EXCEPT ![i][Running[i]] = new]
    BY <2>1 DEF UpdateRun
  <2>4. \A k \in Issues, q \in RunIds : k # i \/ q # Running[i] => runs'[k][q] = runs[k][q]
    BY <2>1, <2>3 DEF IInv, TypeOK
  <2> QED BY <2>2, <2>4
<1>6. ASSUME NEW i \in Issues, NEW r \in RunIds, Finalize(i, r) PROVE Fewer
  <2>1. runs' = [runs EXCEPT ![i][r] = FreeRun]
    BY <1>6, Zenon
    DEF Finalize, FinalizeStale, BlockRun, TerminalSelfStop, CleanExitOfTerminalIssue,
        CleanExit, ReconciledCancelCleanup, QuotaBackoff, ReconcileCancel, FailureRetry,
        FinishAndRetry, FinishAndRelease, FinishRun
  <2>2. FreeRun.phase = "free"
    BY DEF FreeRun
  <2> QED BY <2>1, <2>2 DEF IInv, TypeOK
<1>7. ASSUME NEW seen \in SUBSET Issues, NEW T, CancelRuns(Registered(seen), T)
      PROVE  Fewer
  BY <1>7, RunsCancelled DEF Keeps
<1>8. ASSUME NEW seen \in SUBSET Issues, RefreshActive(seen) PROVE Fewer
  <2>1. \A i \in Registered(seen) : runs[i][Running[i]].phase # "free"
    BY DEF Registered, IInv, IssueInv, LiveInv, Workers
  <2> QED BY <1>8, <2>1 DEF RefreshActive, Registered, IInv, TypeOK
<1>9. ASSUME UNCHANGED runs PROVE Fewer
  BY <1>9
<1> HIDE DEF Fewer
<1>10. CASE PollStep
  <2>1. ASSUME NEW i \in Issues, DispatchBlocked(i) PROVE UNCHANGED runs
    BY <2>1 DEF DispatchBlocked
  <2>2. ASSUME NEW seen \in SUBSET Issues, NEW terminal \in SUBSET seen,
               ReconcileInactive(seen, terminal)
        PROVE  CancelRuns(Registered(seen), terminal)
    BY <2>2, Zenon DEF ReconcileInactive
  <2>3. ASSUME NEW seen \in SUBSET Issues, ReconcileAbsent(seen)
        PROVE  CancelRuns(Registered(seen), {})
    BY <2>3, Zenon DEF ReconcileAbsent
  <2>4. ASSUME NEW n \in AgentLimits, UpdateMaxConcurrentAgents(n) PROVE UNCHANGED runs
    BY <2>4 DEF UpdateMaxConcurrentAgents
  <2>5. Fewer \/ Held
    BY <1>2, <1>5, <1>7, <1>8, <1>9, <1>10, <2>1, <2>2, <2>3, <2>4 DEF PollStep
  <2> QED BY <1>1, <2>5 DEF Held
<1>11. ASSUME NEW i \in Issues, WorkerStep(i) PROVE Held
  BY <1>1, <1>4, <1>5, <1>6, <1>11 DEF WorkerStep
<1>12. ASSUME NEW i \in Issues, RetryStep(i) PROVE Held
  <2>1. CASE \E a \in alarms[i] : RetryDispatched(i, a)
    BY <1>3, <2>1
  <2>2. CASE ~ \E a \in alarms[i] : RetryDispatched(i, a)
    <3>1. UNCHANGED runs
      BY <1>12, <2>2, Zenon
      DEF RetryStep, ScheduleRetryApplied, TimerFires, RetryFire, FetchStale,
          RetryPollFailed, RetryReleased, RetrySuppressed, CapacityDeferRetry, PutBack
    <3> QED BY <1>1, <1>9, <3>1
  <2> QED BY <2>1, <2>2
<1>13. ASSUME NEW i \in Issues, NEW j \in JobIds, CleanupStep(i, j) PROVE Held
  <2>1. UNCHANGED runs
    BY <1>13, Zenon
    DEF CleanupStep, CleanupBegin, CleanupUnknown, CleanupAbsent, CleanupNotTerminal,
        CleanupResume, CleanupTerminal, CleanupRemove, CleanupEnd
  <2> QED BY <1>1, <1>9, <2>1
<1>14. CASE UNCHANGED vars
  <2>1. UNCHANGED runs
    BY <1>14 DEF vars
  <2> QED BY <1>1, <1>9, <2>1 DEF Held
<1> QED BY <1>10, <1>11, <1>12, <1>13, <1>14 DEF Next, Held

(* Workers are started only within the limit in force, whatever reloads do *)
(* to it, for any number of issues and agents.                             *)
THEOREM AgentLimit == ASSUME PromptReschedule PROVE Spec => AgentLimitRespected
<1>1. IInv /\ [Next]_vars => [Cardinality(WorkerSet') > Cardinality(WorkerSet)
              => Cardinality(WorkerSet') <= MaxConcurrentAgents]_vars
  BY NextLimit
<1> QED BY <1>1, Invariance, PTL DEF Spec, AgentLimitRespected
-----------------------------------------------------------------------------
(* Refinement.  Under the invariant the issues counted as running are      *)
(* those whose phase holds a slot; each operation then moves the phase of  *)
(* the issues it touches and of no other.                                  *)

(* What the phase of an issue is read from.                                *)
Keep(k) ==
    /\ Running'[k] = Running[k]
    /\ k \in Claimed' <=> k \in Claimed
    /\ k \in Blocked' <=> k \in Blocked
    /\ Queued(k)' <=> Queued(k)
    /\ Workers(k)' = Workers(k)

(* An issue keeps its phase with what it is read from.                     *)
LEMMA KeepPhase ==
    ASSUME NEW k, Keep(k) PROVE Phase(k)' = Phase(k)
BY DEF Keep, Phase

(* The phases of an issue under the invariant.                             *)
LEMMA PhaseIs ==
    ASSUME IInv, NEW i \in Issues
    PROVE  /\ Running[i] # NoRun => Phase(i) = "Running"
           /\ i \in Blocked => Phase(i) = "Blocked"
           /\ Queued(i) => Phase(i) = "Queued"
           /\ Running[i] = NoRun /\ Workers(i) # {} => Phase(i) = "Starting"
           /\ Idle(i) /\ i \notin Blocked /\ ~ Queued(i) =>
                  Phase(i) = IF i \in Claimed THEN "Requeued" ELSE "Unclaimed"
<1>1. /\ SpawningInv(i) /\ LiveInv(i) /\ WorkerInv(i) /\ BlockedInv(i)
      /\ Running[i] \in RunIds \cup {NoRun}
      /\ \A r \in RunIds : runs[i][r].phase \in {"free", "spawning", "live"}
  BY DEF IInv, IssueInv, TypeOK, Run
<1>2. Queued(i) \/ i \in Blocked => Running[i] = NoRun
  BY <1>1, ConstantsAssumption DEF LiveInv, WorkerInv, BlockedInv, Idle
<1>3. Running[i] = NoRun /\ Workers(i) # {} => i \in Claimed /\ ~ Queued(i) /\ i \notin Blocked
  BY WorkerAlone
<1>4. Queued(i) => i \notin Blocked
  BY <1>1 DEF BlockedInv
<1>5. Running[i] # NoRun => Phase(i) = "Running"
  BY DEF Phase
<1>6. i \in Blocked => Phase(i) = "Blocked"
  BY <1>2 DEF Phase
<1>7. Queued(i) => Phase(i) = "Queued"
  BY <1>2, <1>4 DEF Phase
<1>8. Running[i] = NoRun /\ Workers(i) # {} => Phase(i) = "Starting"
  BY <1>3 DEF Phase
<1>9. Idle(i) /\ i \notin Blocked /\ ~ Queued(i) =>
          Phase(i) = IF i \in Claimed THEN "Requeued" ELSE "Unclaimed"
  BY DEF Phase, Idle
<1> QED
  BY <1>5, <1>6, <1>7, <1>8, <1>9

(* The slots the capacity gates count are those the lifecycle counts.      *)
LEMMA SlotsCounted ==
    ASSUME IInv PROVE Lifecycle!Holding = runningIssueIDs
<1>1. ASSUME NEW i \in Issues
      PROVE  Phase(i) \in {"Starting", "Running", "Requeued"} <=> i \in runningIssueIDs
  <2>1. CASE Running[i] # NoRun
    <3>1. ~ Queued(i) /\ i \notin Blocked
      BY <2>1, WorkerAlone, RegisteredAlone
    <3> QED
      BY <2>1, <3>1, PhaseIs DEF runningIssueIDs
  <2>2. CASE Running[i] = NoRun /\ Workers(i) # {}
    <3>1. i \in runningIssueIDs
      BY <2>2, WorkersCount
    <3> QED
      BY <2>2, <3>1, PhaseIs
  <2>3. CASE Idle(i)
    BY <2>3, PhaseIs DEF runningIssueIDs, Idle
  <2> QED
    BY <2>1, <2>2, <2>3 DEF Idle
<1> QED
  BY <1>1 DEF Lifecycle!Holding, runningIssueIDs

(* A step that keeps every other issue moves one.                          *)
LEMMA Moves ==
    ASSUME NEW i \in Issues, \A k \in Issues \ {i} : Keep(k), UNCHANGED MaxConcurrentAgents,
           NEW from, NEW to, Phase(i) \in from, Phase(i)' \in to
    PROVE  Lifecycle!Move(i, from, to)
<1>1. \A k \in Issues \ {i} : Phase(k)' = Phase(k)
  BY KeepPhase
<1> DEFINE phase == [k \in Issues |-> Phase(k)]
<1>2. phase' = [phase EXCEPT ![i] = Phase(i)']
  BY <1>1, Zenon
<1>3. phase[i] = Phase(i)
  OBVIOUS
<1> QED
  BY <1>2, <1>3, Zenon DEF Lifecycle!Move

(* A step that keeps every issue.                                          *)
LEMMA Stutters ==
    ASSUME \A k \in Issues : Keep(k), UNCHANGED MaxConcurrentAgents
    PROVE  UNCHANGED <<[k \in Issues |-> Phase(k)], MaxConcurrentAgents>>
<1>1. \A k \in Issues : Phase(k)' = Phase(k)
  BY KeepPhase
<1> QED
  BY <1>1

(* What the issues other than i keep.                                      *)
LEMMA SameKeeps == ASSUME NEW k, Same(k) PROVE Keep(k)
BY DEF Same, Keep, Queued, Workers

(* An operation on one issue keeps the others.                             *)
LEMMA LeftAlone ==
    ASSUME TypeOK, NEW i \in Issues,
           \A k \in Issues \ {i} :
               /\ Running'[k] = Running[k]
               /\ k \in Claimed' <=> k \in Claimed
               /\ k \in Blocked' <=> k \in Blocked
               /\ RetryAttempts'[k] = RetryAttempts[k]
               /\ runs'[k] = runs[k]
    PROVE  \A k \in Issues \ {i} : Keep(k)
BY DEF Keep, Queued, Workers

(* A start, under the capacity gate, of an idle issue.                     *)
LEMMA SpawnStarts ==
    ASSUME IInv, NEW i \in Issues, NEW n, NEW m, NEW t, NEW b, Spawn(i, n, m, t, b),
           RunningCount < MaxConcurrentAgents, Running[i] = NoRun, i \notin Blocked,
           Phase(i) \in {"Unclaimed", "Queued"},
           i \in Claimed', \A k \in Issues \ {i} : k \in Claimed' <=> k \in Claimed,
           RetryAttempts' = [RetryAttempts EXCEPT ![i] = NoEntry],
           UNCHANGED <<Running, Blocked, MaxConcurrentAgents>>
    PROVE  Lifecycle!Start(i)
<1> DEFINE new == [FreeRun EXCEPT !.phase = "spawning", !.attempt = n,
                                  !.cattempt = m, !.cturns = t, !.budget = b]
<1>1. PICK r \in RunIds : runs' = [runs EXCEPT ![i][r] = new]
  BY Zenon DEF Spawn
<1>2. new.phase = "spawning"
  BY DEF FreeRun
<1> HIDE DEF new
<1>3. \A k \in Issues \ {i} : Keep(k)
  BY <1>1, LeftAlone, Zenon DEF IInv, TypeOK
<1>4. Workers(i)' # {} /\ ~ Queued(i)'
  <2>1. runs'[i][r].phase = "spawning"
    BY <1>1, <1>2 DEF IInv, TypeOK
  <2>2. RetryAttempts'[i] = NoEntry
    BY DEF IInv, TypeOK
  <2>3. NoEntry.kind = "none"
    BY DEF NoEntry
  <2>4. r \in Workers(i)'
    BY <2>1 DEF Workers
  <2>5. ~ Queued(i)'
    BY <2>2, <2>3 DEF Queued
  <2> QED BY <2>4, <2>5
<1>5. Phase(i)' \in {"Starting"}
  BY <1>4 DEF Phase
<1>6. Lifecycle!Move(i, {"Unclaimed", "Queued"}, {"Starting"})
  BY <1>3, <1>5, Moves
<1>7. Cardinality(Lifecycle!Holding) < MaxConcurrentAgents
  BY SlotsCounted DEF RunningCount
<1>8. Lifecycle!Cardinality(Lifecycle!Holding) = Cardinality(Lifecycle!Holding)
  BY DEF Cardinality, Lifecycle!Cardinality
<1> QED
  BY <1>6, <1>7, <1>8 DEF Lifecycle!Start

(* A dispatch starts a worker.                                             *)
LEMMA DispatchStarts ==
    ASSUME IInv, PromptReschedule, NEW i \in Issues, Dispatch(i) PROVE Lifecycle!Start(i)
<1>1. Idle(i) /\ i \notin Blocked /\ (Queued(i) \/ i \notin Claimed)
  <2>1. Workers(i) = {}
    <3>1. Queued(i) \/ (Running[i] = NoRun /\ i \notin Claimed)
      BY DEF Dispatch, DispatchGate, IsClaimed
    <3> QED BY <3>1, WorkerAlone
  <2>2. Running[i] = NoRun
    BY <2>1 DEF IInv, IssueInv, LiveInv
  <2>3. i \notin Blocked
    BY DEF Dispatch, DispatchGate, IsClaimed, IInv, IssueInv, BlockedInv
  <2> QED
    BY <2>1, <2>2, <2>3 DEF Idle, Dispatch, DispatchGate, IsClaimed
<1>2. Phase(i) \in {"Unclaimed", "Queued"}
  BY <1>1, PhaseIs
<1> QED
  BY <1>1, <1>2, SpawnStarts, Zenon DEF Dispatch, Idle

(* A timer that still matches has its retry queued.                        *)
LEMMA MatchIsQueued ==
    ASSUME IInv, NEW i \in Issues, NEW a \in alarms[i], matchingRetryEntry(i, a)
    PROVE  Queued(i)
<1>1. a \in Alarm
  BY DEF IInv, TypeOK
<1>2. a.kind \in RetryKinds
  BY <1>1, Zenon DEF Alarm
<1> QED
  BY <1>2 DEF matchingRetryEntry, Queued, RetryKinds

(* A fired retry starts a worker.                                          *)
LEMMA RetryDispatchedStarts ==
    ASSUME IInv, NEW i \in Issues, NEW a \in alarms[i], RetryDispatched(i, a)
    PROVE  Lifecycle!Start(i)
<1>1. Queued(i)
  BY MatchIsQueued DEF RetryDispatched
<1>2. Running[i] = NoRun /\ i \notin Blocked /\ i \in Claimed
  BY <1>1, ConstantsAssumption
  DEF IInv, IssueInv, LiveInv, WorkerInv, BlockedInv, QueuedInv
<1>3. Phase(i) = "Queued"
  BY <1>1, PhaseIs
<1> QED
  BY <1>2, <1>3, SpawnStarts, Zenon DEF RetryDispatched

(* A continuation out of turns is parked.                                  *)
LEMMA DispatchBlockedParks ==
    ASSUME IInv, NEW i \in Issues, DispatchBlocked(i) PROVE Lifecycle!Park(i)
<1>1. \A k \in Issues \ {i} : Keep(k)
  BY LeftAlone DEF DispatchBlocked, IInv, TypeOK
<1>2. Queued(i) /\ Phase(i) = "Queued"
  BY PhaseIs DEF DispatchBlocked
<1>3. Running[i] = NoRun
  BY <1>2, ConstantsAssumption DEF IInv, IssueInv, LiveInv, WorkerInv
<1>4. Phase(i)' = "Blocked"
  BY <1>3 DEF DispatchBlocked, Phase
<1> QED
  BY <1>1, <1>2, <1>4, Moves DEF DispatchBlocked, Lifecycle!Park

(* A worker that registers runs.                                           *)
LEMMA RegisterRuns ==
    ASSUME IInv, NEW i \in Issues, NEW r \in RunIds, Register(i, r) PROVE Lifecycle!Run(i)
<1> DEFINE new == [runs[i][r] EXCEPT !.phase = "live"]
<1>1. runs' = [runs EXCEPT ![i][r] = new] /\ runs[i][r].phase = "spawning"
  BY DEF Register
<1> HIDE DEF new
<1>2. \A k \in Issues \ {i} : Keep(k)
  BY <1>1, LeftAlone DEF Register, IInv, TypeOK
<1>3. Running[i] = NoRun /\ Workers(i) # {}
  BY <1>1 DEF IInv, IssueInv, SpawningInv
<1>4. Phase(i) = "Starting"
  BY <1>3, PhaseIs
<1>5. Phase(i)' = "Running"
  BY ConstantsAssumption DEF Register, Phase, IInv, TypeOK
<1> QED
  BY <1>2, <1>4, <1>5, Moves DEF Register, Lifecycle!Run

(* What a worker reports is no move.                                       *)
LEMMA ReportStutters ==
    ASSUME IInv, NEW i \in Issues,
           \/ TurnCompleted(i) \/ InputRequired(i) \/ TerminalHandoff(i)
           \/ BudgetExceeded(i) \/ ReconcileStalled(i)
    PROVE  UNCHANGED <<[k \in Issues |-> Phase(k)], MaxConcurrentAgents>>
<1>1. Running[i] \in RunIds /\ runs[i][Running[i]] \in Run
  BY Zenon DEF IInv, TypeOK, TurnCompleted, InputRequired, TerminalHandoff, BudgetExceeded,
               ReconcileStalled
<1>2. PICK new : UpdateRun(i, new) /\ new.phase = runs[i][Running[i]].phase
  BY <1>1, RunFields, Zenon
  DEF TurnCompleted, InputRequired, TerminalHandoff, BudgetExceeded, ReconcileStalled, Keeps
<1>3. /\ runs' = [runs EXCEPT ![i][Running[i]] = new]
      /\ UNCHANGED <<Running, Claimed, Blocked, RetryAttempts, MaxConcurrentAgents>>
  BY <1>2 DEF UpdateRun, actorVars
<1>4. \A k \in Issues : Workers(k)' = Workers(k)
  BY <1>1, <1>2, <1>3 DEF Workers, IInv, TypeOK
<1> QED
  BY <1>3, <1>4, Stutters DEF Keep, Queued

(* The end of a worker frees its issue, requeues it or parks it.           *)
LEMMA FinalizeFinishes ==
    ASSUME IInv, NEW i \in Issues, NEW r \in RunIds, Finalize(i, r) PROVE Lifecycle!Finish(i)
<1>1. Running[i] = r /\ Workers(i) = {r}
  BY ConstantsAssumption DEF Finalize, IInv, IssueInv, LiveInv
<1>2. Phase(i) = "Running" /\ ~ Queued(i) /\ i \notin Blocked
  BY <1>1, PhaseIs, ConstantsAssumption DEF IInv, IssueInv, WorkerInv
<1>3. /\ Running' = [Running EXCEPT ![i] = NoRun]
      /\ runs' = [runs EXCEPT ![i][r] = FreeRun]
      /\ UNCHANGED MaxConcurrentAgents
  BY <1>1, Zenon
  DEF Finalize, BlockRun, TerminalSelfStop, CleanExitOfTerminalIssue,
      CleanExit, ReconciledCancelCleanup, QuotaBackoff, ReconcileCancel, FailureRetry,
      FinishAndRetry, FinishAndRelease, FinishRun
<1>4. /\ \/ RetryAttempts' = [RetryAttempts EXCEPT ![i] = NoEntry]
         \/ UNCHANGED RetryAttempts
      /\ Claimed' = Claimed \cup {i} \/ Claimed' = Claimed \ {i}
      /\ Blocked' = Blocked \/ Blocked' = Blocked \cup {i}
  BY <1>1, Zenon
  DEF Finalize, BlockRun, TerminalSelfStop, CleanExitOfTerminalIssue,
      CleanExit, ReconciledCancelCleanup, QuotaBackoff, ReconcileCancel, FailureRetry,
      FinishAndRetry, FinishAndRelease
<1>5. \A k \in Issues \ {i} : Keep(k)
  BY <1>3, <1>4, LeftAlone, Zenon DEF IInv, TypeOK
<1>6. Running'[i] = NoRun /\ Workers(i)' = {} /\ ~ Queued(i)'
  <2>1. FreeRun.phase = "free"
    BY DEF FreeRun
  <2>2. Running'[i] = NoRun /\ Workers(i)' = {}
    BY <1>1, <1>3, <2>1 DEF IInv, TypeOK, Workers
  <2>3. ~ Queued(i)'
    <3>1. NoEntry.kind = "none" /\ RetryAttempts \in [Issues -> RetryEntry]
      BY DEF IInv, TypeOK, NoEntry
    <3>2. RetryAttempts'[i] \in {NoEntry, RetryAttempts[i]}
      BY <1>4, <3>1
    <3> QED BY <1>2, <3>1, <3>2 DEF Queued
  <2> QED
    BY <2>2, <2>3
<1>7. Phase(i)' \in {"Unclaimed", "Requeued", "Blocked"}
  BY <1>6 DEF Phase
<1> QED
  BY <1>2, <1>3, <1>5, <1>7, Moves DEF Lifecycle!Finish

(* A retry enters the queue.                                               *)
LEMMA ScheduledQueues ==
    ASSUME IInv, NEW i \in Issues, NEW id, NEW kk \in RetryKinds, NEW n, NEW t,
           ScheduleRetry(i, id, kk, n, t), Idle(i), i \notin Blocked,
           UNCHANGED <<Running, Blocked, runs, MaxConcurrentAgents>>
    PROVE  \/ Lifecycle!Queue(i)
           \/ UNCHANGED <<[k \in Issues |-> Phase(k)], MaxConcurrentAgents>>
<1>1. \A k \in Issues \ {i} : Keep(k)
  BY LeftAlone, Zenon DEF ScheduleRetry, IInv, TypeOK
<1>2. Queued(i)'
  BY DEF ScheduleRetry, IInv, TypeOK, Queued, RetryKinds
<1>3. Phase(i)' = "Queued"
  BY <1>2 DEF Phase, Idle
<1>4. CASE Queued(i)
  <2>1. i \in Claimed
    BY <1>4 DEF IInv, IssueInv, QueuedInv
  <2>2. Keep(i)
    BY <1>2, <1>4, <2>1 DEF Keep, ScheduleRetry, Workers
  <2> QED
    BY <1>1, <2>2, Stutters
<1>5. CASE ~ Queued(i)
  <2>1. Phase(i) \in {"Unclaimed", "Requeued"}
    BY <1>5, PhaseIs
  <2> QED
    BY <1>1, <1>3, <2>1, Moves DEF Lifecycle!Queue
<1> QED
  BY <1>4, <1>5

(* A claim that is requeued is queued.                                     *)
LEMMA RescheduleQueues ==
    ASSUME IInv, NEW i \in Issues, NEW s \in reschedules[i], ScheduleRetryApplied(i, s)
    PROVE  \/ Lifecycle!Queue(i)
           \/ UNCHANGED <<[k \in Issues |-> Phase(k)], MaxConcurrentAgents>>
<1>1. Idle(i) /\ i \notin Blocked
  BY DEF IInv, IssueInv, RescheduleInv
<1>2. s.kind \in RetryKinds
  BY DEF IInv, TypeOK, Reschedule
<1> QED
  BY <1>1, <1>2, ScheduledQueues DEF ScheduleRetryApplied

(* A cleanup that finds the issue open again queues it.                    *)
LEMMA ResumeQueues ==
    ASSUME IInv, NEW i \in Issues, NEW j \in JobIds, CleanupResume(i, j)
    PROVE  \/ Lifecycle!Queue(i)
           \/ UNCHANGED <<[k \in Issues |-> Phase(k)], MaxConcurrentAgents>>
<1>1. cleanups[i][j].phase = "resume"
  BY DEF CleanupResume
<1>2. i \in cleaningWorkspaces
  BY <1>1 DEF IInv, IssueInv, CleaningInv, Reserves
<1>3. Idle(i) /\ i \notin Blocked
  BY <1>2 DEF IInv, IssueInv, CleaningInv, BlockedInv
<1>4. PICK id : ScheduleRetry(i, id, "continuation", cleanups[i][j].cattempt, cleanups[i][j].cturns)
  BY DEF CleanupResume
<1>5. UNCHANGED <<Running, Blocked, runs, MaxConcurrentAgents>>
  BY DEF CleanupResume
<1> QED
  BY <1>3, <1>4, <1>5, ScheduledQueues DEF RetryKinds

(* Retries and cleanups that keep the entry queued.                        *)
LEMMA RetryStutters ==
    ASSUME IInv, NEW i \in Issues, NEW a \in alarms[i],
           \/ TimerFires(i, a) \/ RetryFire(i, a) \/ FetchStale(i, a)
           \/ RetryPollFailed(i, a) \/ CapacityDeferRetry(i, a)
    PROVE  UNCHANGED <<[k \in Issues |-> Phase(k)], MaxConcurrentAgents>>
<1>1. /\ \/ UNCHANGED RetryAttempts
         \/ RetryAttempts' = [RetryAttempts EXCEPT ![i].due = TRUE]
         \/ RetryAttempts' = [RetryAttempts EXCEPT ![i].timer = FALSE]
      /\ UNCHANGED <<Running, Claimed, Blocked, runs, MaxConcurrentAgents>>
  BY Zenon DEF TimerFires, RetryFire, FetchStale, RetryPollFailed, CapacityDeferRetry, PutBack,
               actorVars
<1>2. \A e \in RetryEntry : /\ [e EXCEPT !.due = TRUE].kind = e.kind
                            /\ [e EXCEPT !.timer = FALSE].kind = e.kind
  BY Zenon DEF RetryEntry
<1>3. \A k \in Issues : RetryAttempts'[k].kind = RetryAttempts[k].kind
  <2>1. RetryAttempts \in [Issues -> RetryEntry]
    BY DEF IInv, TypeOK
  <2>2. CASE RetryAttempts' = [RetryAttempts EXCEPT ![i].due = TRUE]
    BY <1>2, <2>1, <2>2, Zenon
  <2>3. CASE RetryAttempts' = [RetryAttempts EXCEPT ![i].timer = FALSE]
    BY <1>2, <2>1, <2>3, Zenon
  <2> QED
    BY <1>1, <2>2, <2>3
<1> QED
  BY <1>1, <1>3, Stutters DEF Keep, Queued, Workers

(* The other steps of a cleanup leave every phase.                         *)
LEMMA CleanupStutters ==
    ASSUME NEW i \in Issues, NEW j \in JobIds, CleanupStep(i, j), ~ CleanupResume(i, j)
    PROVE  UNCHANGED <<[k \in Issues |-> Phase(k)], MaxConcurrentAgents>>
<1>1. UNCHANGED <<Running, Claimed, Blocked, RetryAttempts, runs, MaxConcurrentAgents>>
  BY Zenon
  DEF CleanupStep, CleanupBegin, CleanupUnknown, CleanupAbsent, CleanupNotTerminal,
      CleanupTerminal, CleanupRemove, CleanupEnd, actorVars
<1> QED
  BY <1>1, Stutters DEF Keep, Queued, Workers

(* Claims are released: queued and parked issues become free, running ones *)
(* go on until their workers end.                                          *)
LEMMA ReleaseFrees ==
    ASSUME IInv, NEW S \in SUBSET Issues, NEW W \in SUBSET Issues,
           \A i \in W : Queued(i) \/ i \in Blocked,
           \A i \in S \ W : Running[i] # NoRun, W \subseteq S,
           ReleaseClaims(S),
           \A k \in Issues : Workers(k)' = Workers(k),
           UNCHANGED <<Running, MaxConcurrentAgents>>
    PROVE  Lifecycle!Release(W)
<1>1. ASSUME NEW i \in W PROVE Phase(i) \in {"Queued", "Blocked"} /\ Phase(i)' = "Unclaimed"
  <2>1. Phase(i) \in {"Queued", "Blocked"}
    BY PhaseIs
  <2>2. Running[i] = NoRun
    BY ConstantsAssumption DEF IInv, IssueInv, LiveInv, WorkerInv, BlockedInv, Idle
  <2>3. i \notin Claimed' /\ i \notin Blocked' /\ ~ Queued(i)'
    BY DEF ReleaseClaims, Queued, NoEntry
  <2>4. Phase(i)' = "Unclaimed"
    BY <2>2, <2>3 DEF Phase
  <2> QED
    BY <2>1, <2>4
<1>2. ASSUME NEW i \in Issues \ W PROVE Phase(i)' = Phase(i)
  <2>1. CASE i \in S
    BY <2>1 DEF Phase
  <2>2. CASE i \notin S
    <3>1. Keep(i)
      BY <2>2 DEF Keep, ReleaseClaims, Queued
    <3> QED
      BY <3>1, KeepPhase
  <2> QED
    BY <2>1, <2>2
<1> QED
  BY <1>1, <1>2 DEF Lifecycle!Release

(* A worker that is told to stop is still there.                           *)
LEMMA CancelKeepsWorkers ==
    ASSUME IInv, NEW seen \in SUBSET Issues, NEW T, CancelRuns(Registered(seen), T)
    PROVE  \A k \in Issues : Workers(k)' = Workers(k)
BY RunsCancelled DEF Keeps, Workers

(* A reconcile of inactive issues releases claims.                         *)
LEMMA InactiveReleases ==
    ASSUME IInv, NEW seen \in SUBSET Issues, NEW terminal \in SUBSET seen,
           ReconcileInactive(seen, terminal)
    PROVE  \E W \in SUBSET Issues : Lifecycle!Release(W)
<1> DEFINE live == Registered(seen)
           W == {i \in seen \ live : Queued(i) \/ i \in Blocked}
<1>1. /\ ReleaseClaims(live \cup W) /\ CancelRuns(live, terminal)
      /\ UNCHANGED <<Running, MaxConcurrentAgents>>
  BY Zenon DEF ReconcileInactive
<1>2. \A k \in Issues : Workers(k)' = Workers(k)
  BY <1>1, CancelKeepsWorkers
<1>3. /\ W \in SUBSET Issues /\ live \cup W \in SUBSET Issues /\ W \subseteq live \cup W
      /\ \A i \in W : Queued(i) \/ i \in Blocked
      /\ \A i \in (live \cup W) \ W : Running[i] # NoRun
  BY DEF Registered
<1> HIDE DEF W, live
<1>4. Lifecycle!Release(W)
  BY <1>1, <1>2, <1>3, ReleaseFrees
<1> QED
  BY <1>3, <1>4

(* A reconcile of absent issues releases claims.                           *)
LEMMA AbsentReleases ==
    ASSUME IInv, NEW seen \in SUBSET Issues, ReconcileAbsent(seen)
    PROVE  \E W \in SUBSET Issues : Lifecycle!Release(W)
<1> DEFINE live == Registered(seen)
           W == {i \in seen \ live : i \in Blocked \/ RetryAttempts[i].kind = "continuation"}
<1>1. /\ ReleaseClaims(live \cup W) /\ CancelRuns(live, {})
      /\ UNCHANGED <<Running, MaxConcurrentAgents>>
  BY Zenon DEF ReconcileAbsent
<1>2. \A k \in Issues : Workers(k)' = Workers(k)
  BY <1>1, CancelKeepsWorkers
<1>3. /\ W \in SUBSET Issues /\ live \cup W \in SUBSET Issues /\ W \subseteq live \cup W
      /\ \A i \in W : Queued(i) \/ i \in Blocked
      /\ \A i \in (live \cup W) \ W : Running[i] # NoRun
  BY DEF Registered, Queued
<1> HIDE DEF W, live
<1>4. Lifecycle!Release(W)
  BY <1>1, <1>2, <1>3, ReleaseFrees
<1> QED
  BY <1>3, <1>4

(* A fetch that finds the issue gone, or stopped, releases it.             *)
LEMMA RetryDropsRelease ==
    ASSUME IInv, NEW i \in Issues, NEW a \in alarms[i],
           RetryReleased(i, a) \/ RetrySuppressed(i, a)
    PROVE  \E W \in SUBSET Issues : Lifecycle!Release(W)
<1>1. /\ DropRetry(i, a) /\ matchingRetryEntry(i, a)
      /\ UNCHANGED <<Running, runs, MaxConcurrentAgents>>
  BY Zenon DEF RetryReleased, RetrySuppressed
<1>2. Queued(i) /\ Running[i] = NoRun
  <2>1. Queued(i)
    BY <1>1, MatchIsQueued
  <2> QED
    BY <2>1, ConstantsAssumption DEF IInv, IssueInv, LiveInv, WorkerInv
<1>3. Phase(i) = "Queued"
  BY <1>2, PhaseIs
<1>4. Phase(i)' = "Unclaimed"
  <2>1. i \notin Claimed' /\ i \notin Blocked' /\ ~ Queued(i)' /\ Running'[i] = NoRun
    BY <1>1, <1>2 DEF DropRetry, Queued, NoEntry, IInv, TypeOK
  <2> QED
    BY <2>1 DEF Phase
<1>5. \A k \in Issues \ {i} : Phase(k)' = Phase(k)
  <2>1. \A k \in Issues \ {i} : Keep(k)
    BY <1>1, LeftAlone, Zenon DEF DropRetry, IInv, TypeOK
  <2> QED
    BY <2>1, KeepPhase
<1>6. Lifecycle!Release({i})
  BY <1>1, <1>3, <1>4, <1>5 DEF Lifecycle!Release
<1> QED
  BY <1>6

(* A refresh of the issues of running workers leaves every phase.          *)
LEMMA RefreshStutters ==
    ASSUME IInv, NEW seen \in SUBSET Issues, RefreshActive(seen)
    PROVE  UNCHANGED <<[k \in Issues |-> Phase(k)], MaxConcurrentAgents>>
<1>1. /\ runs' = [i \in Issues |->
                    IF i \in Registered(seen)
                    THEN [runs[i] EXCEPT ![Running[i]] = ActiveAgain(@)]
                    ELSE runs[i]]
      /\ UNCHANGED <<Running, Claimed, Blocked, RetryAttempts, MaxConcurrentAgents>>
  BY DEF RefreshActive, actorVars
<1>2. ASSUME NEW k \in Issues, NEW r \in RunIds PROVE runs'[k][r].phase = runs[k][r].phase
  <2>1. runs[k][r] \in Run
    BY DEF IInv, TypeOK
  <2>2. ActiveAgain(runs[k][r]).phase = runs[k][r].phase
    BY <2>1, RunFields DEF Keeps
  <2>3. runs'[k][r] = runs[k][r] \/ runs'[k][r] = ActiveAgain(runs[k][r])
    BY <1>1 DEF IInv, TypeOK
  <2> QED
    BY <2>2, <2>3
<1>3. \A k \in Issues : Workers(k)' = Workers(k)
  BY <1>2 DEF Workers
<1> QED
  BY <1>1, <1>3, Stutters DEF Keep, Queued

(* Every operation is a move of the lifecycle, or none.                    *)
LEMMA NextRefines ==
    ASSUME IInv, PromptReschedule, [Next]_vars
    PROVE  [Lifecycle!LifecycleNext]_<<[k \in Issues |-> Phase(k)], MaxConcurrentAgents>>
<1> DEFINE Moved == \/ Lifecycle!LifecycleNext
                    \/ UNCHANGED <<[k \in Issues |-> Phase(k)], MaxConcurrentAgents>>
<1> SUFFICES Moved
  OBVIOUS
<1>1. ASSUME NEW i \in Issues,
             \/ Lifecycle!Start(i) \/ Lifecycle!Run(i) \/ Lifecycle!Finish(i)
             \/ Lifecycle!Queue(i) \/ Lifecycle!Park(i)
      PROVE  Moved
  BY <1>1 DEF Lifecycle!LifecycleNext
<1>2. ASSUME \E W \in SUBSET Issues : Lifecycle!Release(W) PROVE Moved
  BY <1>2 DEF Lifecycle!LifecycleNext
<1>3. ASSUME UNCHANGED <<[k \in Issues |-> Phase(k)], MaxConcurrentAgents>> PROVE Moved
  BY <1>3
<1>4. ASSUME NEW n \in AgentLimits, UpdateMaxConcurrentAgents(n) PROVE Moved
  <2>1. MaxConcurrentAgents' = n /\ UNCHANGED <<Running, Claimed, Blocked, RetryAttempts, runs>>
    BY <1>4 DEF UpdateMaxConcurrentAgents
  <2>2. \A k \in Issues : Phase(k)' = Phase(k)
    BY <2>1, KeepPhase DEF Keep, Queued, Workers
  <2>3. Lifecycle!SetLimit(n)
    BY <2>1, <2>2 DEF Lifecycle!SetLimit
  <2> QED
    BY <2>3 DEF Lifecycle!LifecycleNext
<1> HIDE DEF Moved
<1>5. CASE PollStep
  BY <1>1, <1>2, <1>3, <1>4, <1>5, DispatchStarts, DispatchBlockedParks, ReportStutters,
     InactiveReleases, AbsentReleases, RefreshStutters
  DEF PollStep
<1>6. ASSUME NEW i \in Issues, WorkerStep(i) PROVE Moved
  BY <1>1, <1>3, <1>6, ReportStutters, RegisterRuns, FinalizeFinishes DEF WorkerStep
<1>7. ASSUME NEW i \in Issues, RetryStep(i) PROVE Moved
  BY <1>1, <1>2, <1>3, <1>7, RescheduleQueues, RetryStutters, RetryDropsRelease,
     RetryDispatchedStarts
  DEF RetryStep
<1>8. ASSUME NEW i \in Issues, NEW j \in JobIds, CleanupStep(i, j) PROVE Moved
  BY <1>1, <1>3, <1>8, CleanupStutters, ResumeQueues
<1>9. CASE UNCHANGED vars
  <2>1. UNCHANGED <<Running, Claimed, Blocked, RetryAttempts, runs, MaxConcurrentAgents>>
    BY <1>9 DEF vars
  <2> QED
    BY <1>3, <2>1, Stutters DEF Keep, Queued, Workers
<1> QED
  BY <1>5, <1>6, <1>7, <1>8, <1>9 DEF Next

(* Nothing is claimed at first.                                            *)
LEMMA InitRefines == Init => Lifecycle!LifecycleInit
<1> SUFFICES ASSUME Init PROVE Lifecycle!LifecycleInit
  OBVIOUS
<1>1. \A i \in Issues : Phase(i) = "Unclaimed"
  BY DEF Init, Phase, Queued, NoEntry
<1> QED
  BY <1>1 DEF Init, Lifecycle!LifecycleInit

(* The actor implements the lifecycle of claims, the bound on agents       *)
(* included, however dispatches, finalizations, retries, reconciles and    *)
(* cleanups interleave (the operations of actor.go and its followups).     *)
THEOREM Refinement == ASSUME PromptReschedule PROVE Spec => ImplementsLifecycle
<1>1. IInv /\ [Next]_vars =>
          [Lifecycle!LifecycleNext]_<<[i \in Issues |-> Phase(i)], MaxConcurrentAgents>>
  BY NextRefines
<1>2. Spec => []IInv
  BY Invariance
<1>3. Spec => [][Lifecycle!LifecycleNext]_<<[i \in Issues |-> Phase(i)], MaxConcurrentAgents>>
  BY <1>1, <1>2, PTL DEF Spec
<1>4. Spec => Lifecycle!LifecycleInit
  BY InitRefines, PTL DEF Spec
<1> QED
  BY <1>3, <1>4, PTL DEF ImplementsLifecycle, Lifecycle!LifecycleSpec
-----------------------------------------------------------------------------
(* Reservations.                                                           *)

(* A workspace is reserved only while a cleanup goroutine that will give   *)
(* the reservation back is at work: a reservation that leaked would keep   *)
(* its issue from being dispatched for good.                               *)
ReservationHasCleanup ==
    \A i \in cleaningWorkspaces : \E j \in JobIds : Reserves(i, j)

(* A cleanup that starts takes no other cleanup's place.                   *)
LEMMA StartsAside ==
    ASSUME TypeOK, NEW S \in SUBSET Issues, NEW f, NEW g, StartCleanups(S, f, g)
    PROVE  \A i \in Issues, j \in JobIds : Reserves(i, j) => Reserves(i, j)'
<1>1. PICK job \in [S -> JobIds] :
        /\ \A i \in S : cleanups[i][job[i]].phase = "free"
        /\ cleanups' = [i \in Issues |->
               IF i \in S
               THEN [cleanups[i] EXCEPT ![job[i]] =
                        [phase |-> "start", attempt |-> 0,
                         cattempt |-> f[i], cturns |-> g[i]]]
               ELSE cleanups[i]]
  BY DEF StartCleanups
<1>2. ASSUME NEW i \in Issues, NEW j \in JobIds, Reserves(i, j)
      PROVE  cleanups'[i][j] = cleanups[i][j]
  <2>1. i \in S => job[i] # j
    BY <1>1, <1>2 DEF Reserves
  <2> QED
    BY <1>1, <2>1 DEF TypeOK
<1> QED
  BY <1>2 DEF Reserves

(* The same for one issue (reconciledWorkspaceCleanupFollowup).            *)
LEMMA FollowsAside ==
    ASSUME TypeOK, NEW i \in Issues, NEW known, NEW m, NEW n, CleanupFollowup(i, known, m, n)
    PROVE  \A k \in Issues, j \in JobIds : Reserves(k, j) => Reserves(k, j)'
<1>1. CASE known
  <2> DEFINE f == [x \in {i} |-> m]
             g == [x \in {i} |-> n]
  <2>1. StartCleanups({i}, f, g) /\ {i} \in SUBSET Issues
    BY <1>1 DEF CleanupFollowup
  <2> HIDE DEF f, g
  <2> QED BY <2>1, StartsAside
<1>2. CASE ~ known
  BY <1>2 DEF CleanupFollowup, Reserves
<1> QED BY <1>1, <1>2

(* A step of a cleanup goroutine keeps its reservation or gives it back.   *)
LEMMA CleanupReserves ==
    ASSUME TypeOK, ReservationHasCleanup, NEW i \in Issues, NEW j \in JobIds, CleanupStep(i, j)
    PROVE  ReservationHasCleanup'
<1> DEFINE job == cleanups[i][j]
<1>1. /\ \A p \in {"start", "verify", "resume"} : [job EXCEPT !.phase = p].phase = p
      /\ [job EXCEPT !.phase = "end", !.attempt = @ + 1].phase = "end"
      /\ \A p \in {"end", "remove"} : [FreeCleanup EXCEPT !.phase = p].phase = p
      /\ FreeCleanup.phase = "free"
  <2>1. job \in Cleanup
    BY DEF TypeOK
  <2> QED BY <2>1, CleanupPhases, Zenon
<1>2. ASSUME NEW new, SetCleanup(i, j, new)
      PROVE  /\ cleanups'[i][j] = new
             /\ \A k \in Issues, q \in JobIds : k # i \/ q # j => cleanups'[k][q] = cleanups[k][q]
  BY <1>2 DEF SetCleanup, TypeOK
<1>3. cleaningWorkspaces \subseteq Issues
  BY DEF TypeOK
<1>4. ASSUME NEW new, SetCleanup(i, j, new), cleaningWorkspaces' = cleaningWorkspaces,
             Reserves(i, j) => new.phase \in {"verify", "resume", "remove", "end"}
      PROVE  ReservationHasCleanup'
  <2>1. \A k \in Issues, q \in JobIds : Reserves(k, q) => Reserves(k, q)'
    BY <1>2, <1>4 DEF Reserves
  <2> QED
    BY <1>3, <1>4, <2>1 DEF ReservationHasCleanup
<1>5. CASE CleanupBegin(i, j)
  <2>1. ~ Reserves(i, j)
    BY <1>5 DEF CleanupBegin, Reserves
  <2>2. CASE IsClaimed(i) \/ i \in cleaningWorkspaces
    BY <1>4, <1>5, <2>1, <2>2, Zenon DEF CleanupBegin
  <2>3. CASE ~ (IsClaimed(i) \/ i \in cleaningWorkspaces)
    <3>1. PICK new : SetCleanup(i, j, new) /\ new.phase = "verify"
      BY <1>1, <1>5, <2>3, Zenon DEF CleanupBegin
    <3>2. cleaningWorkspaces' = cleaningWorkspaces \cup {i}
      BY <1>5, <2>3 DEF CleanupBegin
    <3>3. Reserves(i, j)' /\ \A k \in Issues, q \in JobIds : Reserves(k, q) => Reserves(k, q)'
      BY <1>2, <3>1 DEF Reserves
    <3> QED
      BY <1>3, <3>2, <3>3 DEF ReservationHasCleanup
  <2> QED
    BY <2>2, <2>3
<1>6. CASE CleanupEnd(i, j)
  <2>1. PICK new : SetCleanup(i, j, new)
    BY <1>6 DEF CleanupEnd
  <2>2. cleaningWorkspaces' = cleaningWorkspaces \ {i}
    BY <1>6 DEF CleanupEnd
  <2>3. \A k \in Issues \ {i}, q \in JobIds : Reserves(k, q) => Reserves(k, q)'
    BY <1>2, <2>1 DEF Reserves
  <2> QED
    BY <1>3, <2>2, <2>3 DEF ReservationHasCleanup
<1>7. CASE CleanupUnknown(i, j)
  <2>1. cleaningWorkspaces' = cleaningWorkspaces
    BY <1>7 DEF CleanupUnknown, actorVars
  <2>2. PICK new : SetCleanup(i, j, new) /\ new.phase = "end"
    BY <1>1, <1>7, Zenon DEF CleanupUnknown
  <2> QED
    BY <1>4, <2>1, <2>2
<1>8. CASE CleanupNotTerminal(i, j)
  <2>1. cleaningWorkspaces' = cleaningWorkspaces
    BY <1>8 DEF CleanupNotTerminal, actorVars
  <2>2. PICK new : SetCleanup(i, j, new) /\ new.phase \in {"resume", "end"}
    BY <1>1, <1>8, Zenon DEF CleanupNotTerminal
  <2> QED
    BY <1>4, <2>1, <2>2
<1>9. CASE CleanupAbsent(i, j) \/ CleanupResume(i, j) \/ CleanupTerminal(i, j) \/ CleanupRemove(i, j)
  <2>1. cleaningWorkspaces' = cleaningWorkspaces
    BY <1>9, Zenon DEF CleanupAbsent, CleanupResume, CleanupTerminal, CleanupRemove, actorVars
  <2>2. PICK new : SetCleanup(i, j, new) /\ new.phase \in {"remove", "end"}
    BY <1>1, <1>9, Zenon DEF CleanupAbsent, CleanupResume, CleanupTerminal, CleanupRemove
  <2> QED
    BY <1>4, <2>1, <2>2
<1> QED
  BY <1>5, <1>6, <1>7, <1>8, <1>9 DEF CleanupStep

(* Every step keeps a cleanup for every reservation.                       *)
LEMMA NextReserves ==
    ASSUME TypeOK, ReservationHasCleanup, [Next]_vars
    PROVE  ReservationHasCleanup'
<1>1. ASSUME cleaningWorkspaces' = cleaningWorkspaces,
             \A i \in Issues, j \in JobIds : Reserves(i, j) => Reserves(i, j)'
      PROVE  ReservationHasCleanup'
  BY <1>1 DEF ReservationHasCleanup, TypeOK
<1>2. CASE UNCHANGED <<cleaningWorkspaces, cleanups>>
  BY <1>2 DEF ReservationHasCleanup, Reserves
<1>3. ASSUME NEW i \in Issues, Dispatch(i) \/ DispatchBlocked(i) \/ ReconcileStalled(i)
      PROVE  ReservationHasCleanup'
  BY <1>2, <1>3, Zenon DEF Dispatch, DispatchBlocked, ReconcileStalled, UpdateRun, actorVars
<1>4. ASSUME NEW seen \in SUBSET Issues, NEW terminal \in SUBSET seen,
             ReconcileInactive(seen, terminal)
      PROVE  ReservationHasCleanup'
  <2>1. cleaningWorkspaces' = cleaningWorkspaces
    BY <1>4 DEF ReconcileInactive
  <2>2. \E S \in SUBSET Issues : \E f, g : StartCleanups(S, f, g)
    BY <1>4, Zenon DEF ReconcileInactive
  <2> QED
    BY <1>1, <2>1, <2>2, StartsAside
<1>5. ASSUME NEW seen \in SUBSET Issues, ReconcileAbsent(seen) \/ RefreshActive(seen)
      PROVE  ReservationHasCleanup'
  BY <1>2, <1>5, Zenon DEF ReconcileAbsent, RefreshActive, actorVars
<1>6. ASSUME NEW n \in AgentLimits, UpdateMaxConcurrentAgents(n)
      PROVE  ReservationHasCleanup'
  BY <1>2, <1>6, Zenon DEF UpdateMaxConcurrentAgents
<1>7. ASSUME NEW i \in Issues, WorkerStep(i)
      PROVE  ReservationHasCleanup'
  <2>1. CASE TurnCompleted(i) \/ InputRequired(i) \/ TerminalHandoff(i) \/ BudgetExceeded(i)
    BY <1>2, <2>1, Zenon DEF TurnCompleted, InputRequired, TerminalHandoff, BudgetExceeded,
       UpdateRun, actorVars
  <2>2. ASSUME NEW r \in RunIds, Register(i, r) PROVE ReservationHasCleanup'
    BY <1>2, <2>2, Zenon DEF Register
  <2>3. ASSUME NEW r \in RunIds, Finalize(i, r) PROVE ReservationHasCleanup'
    <3>1. cleaningWorkspaces' = cleaningWorkspaces
      BY <2>3 DEF Finalize
    <3>2. ASSUME NEW c, NEW m, NEW n, FinishAndRelease(i, r, c, m, n) PROVE ReservationHasCleanup'
      <4>1. PICK known \in BOOLEAN : CleanupFollowup(i, c /\ known, m, n)
        BY <3>2 DEF FinishAndRelease
      <4> DEFINE d == c /\ known
      <4>2. CleanupFollowup(i, d, m, n)
        BY <4>1
      <4> HIDE DEF d
      <4> QED BY <1>1, <3>1, <4>2, FollowsAside
    <3>3. CASE UNCHANGED cleanups
      BY <1>2, <3>1, <3>3
    <3>4. CASE FinalizeStale(i, r) \/ BlockRun(i, r) \/ QuotaBackoff(i, r) \/ FailureRetry(i, r)
               \/ \E stillActive \in BOOLEAN : CleanExit(i, r, stillActive)
      BY <3>3, <3>4, Zenon DEF FinalizeStale, BlockRun, QuotaBackoff, FailureRetry, CleanExit,
         FinishAndRetry
    <3>5. CASE TerminalSelfStop(i, r) \/ CleanExitOfTerminalIssue(i, r)
      BY <3>2, <3>5, Zenon DEF TerminalSelfStop, CleanExitOfTerminalIssue
    <3>6. CASE ReconciledCancelCleanup(i, r) \/ ReconcileCancel(i, r)
      BY <3>2, <3>6, Zenon DEF ReconciledCancelCleanup, ReconcileCancel
    <3> QED
      BY <2>3, <3>4, <3>5, <3>6, Zenon DEF Finalize
  <2> QED
    BY <1>7, <2>1, <2>2, <2>3, Zenon DEF WorkerStep
<1>8. ASSUME NEW i \in Issues, RetryStep(i)
      PROVE  ReservationHasCleanup'
  <2>1. CASE \E s \in reschedules[i] : ScheduleRetryApplied(i, s)
    BY <1>2, <2>1, Zenon DEF ScheduleRetryApplied
  <2>2. ASSUME NEW a \in alarms[i], TimerFires(i, a) \/ RetryFire(i, a) \/ FetchStale(i, a)
        PROVE  ReservationHasCleanup'
    BY <1>2, <2>2, Zenon DEF TimerFires, RetryFire, FetchStale, actorVars
  <2>3. ASSUME NEW a \in alarms[i], RetryPollFailed(i, a) \/ CapacityDeferRetry(i, a)
        PROVE  ReservationHasCleanup'
    BY <1>2, <2>3, Zenon DEF RetryPollFailed, CapacityDeferRetry, PutBack, actorVars
  <2>4. ASSUME NEW a \in alarms[i], RetrySuppressed(i, a) \/ RetryDispatched(i, a)
        PROVE  ReservationHasCleanup'
    BY <1>2, <2>4, Zenon DEF RetrySuppressed, RetryDispatched
  <2>5. ASSUME NEW a \in alarms[i], RetryReleased(i, a)
        PROVE  ReservationHasCleanup'
    <3>1. cleaningWorkspaces' = cleaningWorkspaces
      BY <2>5 DEF RetryReleased
    <3>2. \E d : CleanupFollowup(i, d, 0, 0)
      BY <2>5, Zenon DEF RetryReleased
    <3> QED
      BY <1>1, <3>1, <3>2, FollowsAside
  <2> QED
    BY <1>8, <2>1, <2>2, <2>3, <2>4, <2>5, Zenon DEF RetryStep
<1>9. ASSUME NEW i \in Issues, NEW j \in JobIds, CleanupStep(i, j) PROVE ReservationHasCleanup'
  BY <1>9, CleanupReserves
<1>10. CASE UNCHANGED vars
  BY <1>2, <1>10, Zenon DEF vars
<1> QED
  BY <1>3, <1>4, <1>5, <1>6, <1>7, <1>8, <1>9, <1>10, Zenon DEF Next, PollStep

(* No reservation leaks, whatever the tracker answers a cleanup, however   *)
(* often it is tried again and whatever else goes on, retries that are     *)
(* late to be queued included (beginWorkspaceCleanupOp and the deferred    *)
(* endWorkspaceCleanupOp).                                                 *)
THEOREM NoLeakedReservation == Spec => []ReservationHasCleanup
<1>1. Init => ReservationHasCleanup
  BY DEF Init, ReservationHasCleanup
<1>2. TypeOK /\ ReservationHasCleanup /\ [Next]_vars => ReservationHasCleanup'
  BY NextReserves
<1> QED BY <1>1, <1>2, TypeCorrect, PTL DEF Spec
====
