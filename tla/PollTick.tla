------------------------------ MODULE PollTick ------------------------------
(***************************************************************************)
(* One worker's poll loop (Poller.PollOnce) against a tracker that changes *)
(* under it and an actor that goes on working.  A tick reads the tracker   *)
(* several times: the claimed issues by id, the terminal and the inactive  *)
(* issues by state, the active issues, and once more the issues it is      *)
(* about to dispatch.  Any of these reads may fail or be partial, and      *)
(* between any two of them issues change and claims come and go.           *)
(*                                                                         *)
(* The actor is reduced to the substate of each claim (ClaimLifecycle):    *)
(* what its operations do in detail is in Orchestrator, and a fired retry  *)
(* that is put back never leaves its substate here.  There are no limits   *)
(* per tracker state.                                                      *)
(***************************************************************************)
EXTENDS Candidates

CONSTANTS
    Key,        \* what each issue is sorted by
    Rows,       \* the rows an issue may have in the tracker
    Limit       \* max_concurrent_agents

ASSUME PollTickAssumption ==
    /\ Key \in [Issues -> SortKey]
    /\ Rows \subseteq Row
    /\ Limit \in Nat \ {0}

Gone == [state |-> "gone"]

VARIABLES
    tracker,        \* what the tracker holds of an issue, Gone if nothing
    claim,          \* the substate of an issue's claim
    barred,         \* issues under cleanup or stopped by an operator
    pc,             \* what the tick does next
    refs,           \* the claimed issues the tick asks about
    activeByID,     \* those the tick has seen active and labelled
    inactiveByID,   \* those it has seen inactive: id |-> row
    absentIDs,      \* those the tracker confirmed to be gone
    listed,         \* the rows of the candidates when they were listed
    candidates,     \* the issues still to be dispatched, in order
    overflow,       \* those that found no free agent
    leftDuring,     \* ghost: issues whose work should stop, at some time
                    \* since the tick began
    workable        \* ghost: issues that were eligible when rechecked

reads == <<refs, activeByID, inactiveByID, absentIDs, listed, candidates>>
ghosts == <<leftDuring, workable>>
vars == <<tracker, claim, barred, pc, reads, overflow, ghosts>>

(* retry: waits for a failure or quota backoff.  continuation: waits for   *)
(* its delay, then is due for the poll loop.  cancelling: its claim was    *)
(* released by a reconcile and its worker told to stop.                    *)
Claims == {"free", "starting", "running", "cancelling", "requeued", "retry",
           "continuation", "due", "blocked"}

Holding == {i \in Issues : claim[i] \in {"starting", "running", "cancelling",
                                        "requeued"}}

(* Mutant: a claim without a worker is not asked about.                    *)
ClaimedRefsRunning == {i \in Issues : claim[i] \in {"running", "cancelling"}}

CapacityFull == Cardinality(Holding) >= Limit

(* The issues RunningRetryingAndBlockedIssueRefs returns.                  *)
ClaimedRefs == {i \in Issues : claim[i] \notin {"free", "starting", "requeued"}}

(* The work on an issue stops when it is in a state the workflow names as  *)
(* inactive or terminal, when it lost a label, and when it is gone; a      *)
(* state the workflow does not name says nothing.                          *)
refreshedIssueIsInactive(row) ==
    IF isActiveTrackerState(row)
    THEN ~ row.labelled
    ELSE row.state \in TerminalStates \cup InactiveStates

Left(row) == row = Gone \/ refreshedIssueIsInactive(row)
Startable(row) ==
    /\ row # Gone
    /\ row.state \in ActiveStates /\ row.labelled
    /\ row.state = "todo" => ~ row.blocked

Init ==
    /\ tracker \in [Issues -> Rows]
    /\ claim = [i \in Issues |-> "free"]
    /\ barred = {}
    /\ pc = "idle"
    /\ refs = {} /\ activeByID = {} /\ absentIDs = {}
    /\ inactiveByID = <<>> /\ listed = <<>>
    /\ candidates = <<>> /\ overflow = <<>>
    /\ leftDuring = {} /\ workable = {}
-----------------------------------------------------------------------------
(* The tracker: people and agents change issues at any time.               *)

Change(i, row) ==
    /\ tracker[i] # Gone
    /\ tracker' = [tracker EXCEPT ![i] = row]
    /\ leftDuring' = IF pc # "idle" /\ Left(row) THEN leftDuring \cup {i}
                     ELSE leftDuring
    /\ UNCHANGED <<claim, barred, pc, reads, overflow, workable>>

(* Deleted, or out of the reach of the token, and back.                    *)
Restore(i, row) ==
    /\ tracker[i] = Gone
    /\ tracker' = [tracker EXCEPT ![i] = row]
    /\ UNCHANGED <<claim, barred, pc, reads, overflow, ghosts>>
-----------------------------------------------------------------------------
(* The actor, apart from the operations the tick submits.                  *)

SetClaim(i, from, to) ==
    /\ claim[i] \in from
    /\ \E c \in to : claim' = [claim EXCEPT ![i] = c]
    /\ UNCHANGED <<tracker, barred, pc, reads, overflow, ghosts>>

(* The end of a claim may start a cleanup or record an operator's stop.    *)
EndClaim(i, from) ==
    /\ claim[i] \in from
    /\ claim' = [claim EXCEPT ![i] = "free"]
    /\ barred' \in {barred, barred \cup {i}}
    /\ UNCHANGED <<tracker, pc, reads, overflow, ghosts>>

Register(i) == SetClaim(i, {"starting"}, {"running"})

(* Runs over budget and stalled runs, which a tick cancels before anything *)
(* else, also end here.                                                    *)
Finish(i) ==
    \/ EndClaim(i, {"running"})
    \/ SetClaim(i, {"running"}, {"requeued", "blocked"})

(* A worker told to stop may still exit cleanly and be continued, or need  *)
(* an operator.                                                            *)
Cancelled(i) ==
    \/ EndClaim(i, {"cancelling"})
    \/ SetClaim(i, {"cancelling"}, {"requeued", "blocked"})

Requeue(i) == SetClaim(i, {"requeued"}, {"retry", "continuation"})

ContinuationDue(i) == SetClaim(i, {"continuation"}, {"due"})

(* A fired retry asks the tracker itself: the issue is started again,      *)
(* released, or put back (no free agent, or no answer).  An operator's     *)
(* stop releases it too; a cleanup does not hold it back.                  *)
RetryDispatched(i) ==
    /\ ~ CapacityFull
    /\ Startable(tracker[i])
    /\ SetClaim(i, {"retry"}, {"starting"})

RetryReleased(i) ==
    /\ ~ Startable(tracker[i]) \/ i \in barred
    /\ EndClaim(i, {"retry"})

(* A cleanup that finds the issue open again may resume its continuation.  *)
Resume(i) ==
    /\ i \in barred
    /\ tracker[i].state \notin TerminalStates \cup {"gone"}
    /\ claim[i] = "free"
    /\ claim' = [claim EXCEPT ![i] = "continuation"]
    /\ barred' = barred \ {i}
    /\ UNCHANGED <<tracker, pc, reads, overflow, ghosts>>

(* A cleanup ends, or the record of an operator's stop is evicted.         *)
Unbar(i) ==
    /\ i \in barred
    /\ barred' = barred \ {i}
    /\ UNCHANGED <<tracker, claim, pc, reads, overflow, ghosts>>
-----------------------------------------------------------------------------
(* Reconciliation of the claimed issues (reconcileClaimedTick).            *)

Begin ==
    /\ pc = "idle"
    /\ refs' = ClaimedRefs
    /\ pc' = IF refs' = {} THEN "preflight" ELSE "refresh"
    /\ leftDuring' = {i \in Issues : Left(tracker[i])}
    /\ UNCHANGED <<tracker, claim, barred, activeByID, inactiveByID, absentIDs,
                   listed, candidates, overflow, workable>>

(* What the narrow refresh may return for an issue: its current row, that  *)
(* it is gone, or nothing.                                                 *)
Outcomes(i) ==
    {"unknown"} \cup (IF tracker[i] = Gone THEN {"absent"} ELSE {"current"})

(* Mutant: an issue the refresh says nothing about is taken for absent.    *)
ConfirmedAbsentOrUnknown(outcome, S) == {i \in S : outcome[i] # "current"}

ConfirmedAbsent(outcome, S) == {i \in S : outcome[i] = "absent"}

RefreshRunningIssueStates ==
    /\ pc = "refresh"
    /\ \E outcome \in [refs -> {"unknown", "absent", "current"}] :
           /\ \A i \in refs : outcome[i] \in Outcomes(i)
           /\ LET refreshed == {i \in refs : outcome[i] = "current"}
                  inactive == {i \in refreshed : refreshedIssueIsInactive(tracker[i])}
              IN  /\ absentIDs' = ConfirmedAbsent(outcome, refs)
                  /\ activeByID' = {i \in refreshed :
                                        isActiveTrackerState(tracker[i])} \ inactive
                  /\ inactiveByID' = [i \in inactive |-> tracker[i]]
    /\ refs' = {}
    /\ pc' = "terminal"
    /\ UNCHANGED <<tracker, claim, barred, listed, candidates, overflow, ghosts>>

(* A later listing wins over an earlier one, but not over the refresh of a *)
(* claimed issue that is still active.                                     *)
addInactiveListedIssues(found) ==
    LET later == DOMAIN found \ activeByID
    IN  [i \in later \cup DOMAIN inactiveByID |->
            IF i \in later THEN found[i] ELSE inactiveByID[i]]

(* One state group is listed; a page may be missing, and on an error what  *)
(* was read is dropped.                                                    *)
ListGroup(states, from, to) ==
    /\ pc = from
    /\ \E found \in SUBSET {i \in Issues : tracker[i].state \in states} :
           inactiveByID' = addInactiveListedIssues([i \in found |-> tracker[i]])
    /\ pc' = to
    /\ UNCHANGED <<tracker, claim, barred, refs, activeByID, absentIDs, listed,
                   candidates, overflow, ghosts>>

ListTerminal == ListGroup(TerminalStates, "terminal", "inactive")
ListInactive == ListGroup(InactiveStates, "inactive", "reconcile")

(* Workers are cancelled, everything else that is claimed is released.     *)
(* Mutant: a claim whose worker is not registered yet is released too.     *)
ReleasedStarting(c) ==
    IF c \in {"running", "cancelling"} THEN "cancelling" ELSE "free"

Released(c) ==
    CASE c \in {"running", "cancelling"} -> "cancelling"
      [] c \in {"retry", "continuation", "due", "blocked"} -> "free"
      [] OTHER -> c

(* A terminal issue is cleaned up or was stopped by an operator; neither   *)
(* lets a worker start.                                                    *)
ReconcileInactive ==
    /\ pc = "reconcile"
    /\ LET inactive == DOMAIN inactiveByID \ absentIDs
           closed == {i \in inactive : /\ inactiveByID[i].state \in TerminalStates
                                       /\ i \in ClaimedRefs}
       IN  /\ inactiveByID' = [i \in inactive |-> inactiveByID[i]]
           /\ claim' = [i \in Issues |-> IF i \in inactive THEN Released(claim[i])
                                         ELSE claim[i]]
           /\ \E S \in SUBSET closed : barred' = barred \cup S
    /\ activeByID' = {}
    /\ pc' = "absent"
    /\ UNCHANGED <<tracker, refs, absentIDs, listed, candidates, overflow, ghosts>>

(* A queued failure retry of an absent issue is left to its own fetch.     *)
ReconcileAbsent ==
    /\ pc = "absent"
    /\ claim' = [i \in Issues |-> IF i \in absentIDs /\ claim[i] # "retry"
                                  THEN Released(claim[i]) ELSE claim[i]]
    /\ absentIDs' = {}
    /\ pc' = "preflight"
    /\ UNCHANGED <<tracker, barred, refs, activeByID, inactiveByID, listed,
                   candidates, overflow, ghosts>>
-----------------------------------------------------------------------------
(* Dispatch.                                                               *)

(* The configuration does not validate any more, or the listing fails with *)
(* nothing read.  The overflow is kept.                                    *)
NothingListed ==
    /\ pc = "preflight"
    /\ pc' = "done"
    /\ UNCHANGED <<tracker, claim, barred, reads, overflow, ghosts>>

NotReconciled(i) == i \notin DOMAIN inactiveByID

ListActiveIssues ==
    /\ pc = "preflight"
    /\ \E found \in Listings(
                        {i \in Issues : tracker[i].state \in ActiveStates}) :
           LET merged == mergeOverflowCandidates(overflow, found)
               wanted == Keep(merged, {i \in Range(merged) : Eligible(tracker[i])
                                                          /\ NotReconciled(i)})
           IN  /\ candidates' = sortCandidates(Key, wanted)
               /\ listed' = [i \in Range(wanted) |-> tracker[i]]
               /\ pc' = IF wanted = <<>> THEN "done" ELSE "claimable"
    /\ overflow' = <<>>
    /\ UNCHANGED <<tracker, claim, barred, refs, activeByID, inactiveByID, absentIDs,
                   ghosts>>

(* The claim gate of the actor.                                            *)
ClaimGate(i) == i \notin barred /\ claim[i] \in {"free", "due"}

claimableDispatchRefs ==
    /\ pc = "claimable"
    /\ candidates' = Keep(candidates, {i \in Range(candidates) : ClaimGate(i)})
    /\ pc' = IF candidates' = <<>> THEN "done" ELSE "recheck"
    /\ UNCHANGED <<tracker, claim, barred, refs, activeByID, inactiveByID, absentIDs,
                   listed, overflow, ghosts>>

(* The candidates are asked for by id; only a current row that is still    *)
(* eligible is dispatched.  Not every tracker returns blockers here.       *)
revalidateDispatchCandidates ==
    /\ pc = "recheck"
    /\ LET asked == Range(candidates)
       IN  \E outcome \in [asked -> {"unknown", "absent", "current"}],
              blockersKnown \in BOOLEAN :
               /\ \A i \in asked : outcome[i] \in Outcomes(i)
               /\ candidates' = Keep(candidates, {i \in asked :
                      /\ outcome[i] = "current"
                      /\ RevalidatedEligible(
                             Revalidated(listed[i], tracker[i], blockersKnown))})
               /\ workable' = {i \in asked :
                      /\ ~ Left(tracker[i])
                      /\ tracker[i].state \in ActiveStates
                      /\ tracker[i].state = "todo" =>
                             IF blockersKnown THEN ~ tracker[i].blocked
                             ELSE ~ listed[i].blocked}
    /\ pc' = IF candidates' = <<>> THEN "done" ELSE "dispatch"
    /\ UNCHANGED <<tracker, claim, barred, refs, activeByID, inactiveByID, absentIDs,
                   listed, overflow, leftDuring>>

(* The actor decides again for each candidate in turn.  A continuation     *)
(* that has used up its turns is blocked instead.                          *)
DispatchOne ==
    /\ pc = "dispatch"
    /\ LET i == Head(candidates)
       IN  \/ /\ claim' = IF ClaimGate(i) /\ ~ CapacityFull
                          THEN [claim EXCEPT ![i] = "starting"] ELSE claim
              /\ overflow' = IF ClaimGate(i) /\ CapacityFull
                             THEN Append(overflow, i) ELSE overflow
           \/ /\ ClaimGate(i) /\ claim[i] = "due"
              /\ claim' = [claim EXCEPT ![i] = "blocked"]
              /\ UNCHANGED overflow
    /\ candidates' = Tail(candidates)
    /\ pc' = IF Len(candidates) = 1 THEN "done" ELSE "dispatch"
    /\ UNCHANGED <<tracker, barred, refs, activeByID, inactiveByID, absentIDs, listed,
                   ghosts>>

(* What the tick has read goes out of scope.                               *)
Return ==
    /\ pc = "done"
    /\ pc' = "idle"
    /\ refs' = {} /\ activeByID' = {} /\ absentIDs' = {}
    /\ inactiveByID' = <<>> /\ listed' = <<>> /\ candidates' = <<>>
    /\ leftDuring' = {} /\ workable' = {}
    /\ UNCHANGED <<tracker, claim, barred, overflow>>
-----------------------------------------------------------------------------
Tick ==
    \/ Begin \/ RefreshRunningIssueStates
    \/ ListTerminal \/ ListInactive \/ ReconcileInactive \/ ReconcileAbsent
    \/ NothingListed \/ ListActiveIssues
    \/ claimableDispatchRefs \/ revalidateDispatchCandidates \/ DispatchOne
    \/ Return

Actor(i) ==
    \/ Register(i) \/ Finish(i) \/ Cancelled(i) \/ Requeue(i) \/ ContinuationDue(i)
    \/ RetryDispatched(i) \/ RetryReleased(i) \/ Resume(i) \/ Unbar(i)

Next ==
    \/ Tick
    \/ \E i \in Issues : Actor(i)
    \/ \E i \in Issues : \E row \in Rows \cup {Gone} : Change(i, row)
    \/ \E i \in Issues : \E row \in Rows : Restore(i, row)

Spec == Init /\ [][Next]_vars
-----------------------------------------------------------------------------
TypeOK ==
    /\ tracker \in [Issues -> Rows \cup {Gone}]
    /\ claim \in [Issues -> Claims]
    /\ barred \subseteq Issues
    /\ pc \in {"idle", "refresh", "terminal", "inactive", "reconcile", "absent",
               "preflight", "claimable", "recheck", "dispatch", "done"}
    /\ refs \subseteq Issues /\ activeByID \subseteq Issues /\ absentIDs \subseteq Issues
    /\ DOMAIN inactiveByID \subseteq Issues
    /\ \A i \in DOMAIN inactiveByID : inactiveByID[i] \in Rows
    /\ DOMAIN listed \subseteq Issues
    /\ \A i \in DOMAIN listed : listed[i] \in Rows
    /\ candidates \in Seq(Issues) /\ overflow \in Seq(Issues)
    /\ leftDuring \subseteq Issues /\ workable \subseteq Issues

(* The tick itself releases or cancels a claim only if the issue, at some  *)
(* time during this tick, really was inactive, terminal, without a label   *)
(* or gone: a failed, partial or missing answer never costs a claim        *)
(* (collectClaimedRefreshOutcome, appendInactiveFromStateGroups).          *)
ReleaseHasEvidence ==
    [][ \A i \in Issues :
            pc \in {"reconcile", "absent"} /\ pc' # pc /\ claim'[i] # claim[i]
                => i \in leftDuring ]_vars

(* A worker whose issue the refresh by id saw active and labelled is not   *)
(* cancelled by the tick, even if a listing read later shows it inactive   *)
(* (activeByID in addInactiveListedIssues).                                *)
RefreshOutranksListing ==
    [][ \A i \in activeByID : pc = "reconcile" /\ pc' # pc => claim'[i] = claim[i] ]_vars

StartedByTick(i) ==
    pc = "dispatch" /\ claim[i] # "starting" /\ claim'[i] = "starting"
    /\ candidates' # candidates

(* The tick starts a worker only for an issue that, when it was asked for  *)
(* by id just before, was active, labelled and not blocked, however old    *)
(* the listing is by then (revalidatedCandidate).                          *)
StartedWasWorkable == [][ \A i \in Issues : StartedByTick(i) => i \in workable ]_vars

(* An issue the tick has seen inactive is not started by the same tick,    *)
(* even if it is active again by the time it is listed                     *)
(* (filterIssuesNotInMap).                                                 *)
ReconciledIsNotStarted ==
    [][ \A i \in Issues : StartedByTick(i) => i \notin DOMAIN inactiveByID ]_vars

(* No issue is started while a better one is still waiting in this tick,   *)
(* whatever the last tick left over (sortCandidates).                      *)
BetterIsTriedFirst ==
    [][ \A i \in Issues : StartedByTick(i) =>
            \A k \in Range(candidates) : ~ sortsBefore(Key[k], Key[i]) ]_vars
-----------------------------------------------------------------------------
Phase(c) ==
    CASE c = "free" -> "Unclaimed"
      [] c = "starting" -> "Starting"
      [] c \in {"running", "cancelling"} -> "Running"
      [] c = "requeued" -> "Requeued"
      [] c \in {"retry", "continuation", "due"} -> "Queued"
      [] OTHER -> "Blocked"

Lifecycle == INSTANCE ClaimLifecycle
                 WITH phase <- [i \in Issues |-> Phase(claim[i])],
                      limit <- Limit, Limits <- {Limit}

(* Ticks move claims only along the lifecycle the actor keeps, and within  *)
(* its capacity.                                                           *)
TickFollowsLifecycle == Lifecycle!LifecycleSpec
-----------------------------------------------------------------------------
(* Fairness.  A tick goes on, since every read has a timeout; workers told *)
(* to stop end; timers fire.  An issue that can be read is read in one of  *)
(* infinitely many ticks: a tracker that never answers decides nothing.    *)
Answers(i) ==
    /\ RefreshRunningIssueStates
    /\ i \in activeByID' \cup DOMAIN inactiveByID' \cup absentIDs'
Lists(i) == ListActiveIssues /\ i \in DOMAIN listed'
Rechecks(i) == revalidateDispatchCandidates /\ i \in Range(candidates')

Fairness ==
    /\ WF_vars(Tick)
    /\ \A i \in Issues :
           /\ WF_vars(Register(i)) /\ WF_vars(Cancelled(i)) /\ WF_vars(Requeue(i))
           /\ WF_vars(ContinuationDue(i))
           /\ WF_vars(~ Startable(tracker[i]) /\ RetryReleased(i))
           /\ SF_vars(Answers(i)) /\ SF_vars(Lists(i)) /\ SF_vars(Rechecks(i))

FairSpec == Spec /\ Fairness

(* An issue that has left and changes no more is given up: its worker is   *)
(* stopped, its retry or continuation dropped, and it stays unclaimed      *)
(* (reconcileClaimedInactivePhase).                                        *)
LeftIsReleased ==
    \A i \in Issues : \A row \in {r \in Rows \cup {Gone} : Left(r)} :
        <>[](tracker[i] = row) => <>[](claim[i] = "free")

(* An issue that stays workable is claimed again and again (PollOnce).     *)
WorkableIsStarted ==
    \A i \in Issues :
        <>[](Startable(tracker[i]) /\ i \notin barred) => []<>(claim[i] # "free")
=============================================================================
