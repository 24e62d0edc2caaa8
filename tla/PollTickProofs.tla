--------------------------- MODULE PollTickProofs ---------------------------
(***************************************************************************)
(* What a poll tick may do to claims and in which order it tries its       *)
(* candidates, for every finite set of issues, every tracker and limit:    *)
(*                                                                         *)
(*   TickReleasesOnEvidence  a claim is released only for an issue that    *)
(*                           had left during the tick                      *)
(*   TickKeepsRefreshed      a listing never outranks the refresh by id    *)
(*   TickRefines             ticks keep to the lifecycle of claims         *)
(*   TickStartsWorkable      what it starts passed the recheck             *)
(*   TickStartsNoInactive    and was not seen inactive by the same tick    *)
(*   TickStartsBest          and nothing better is still waiting           *)
(*   CandidatesArePlaced     a candidate's place is its rank               *)
(*   OverflowAddsNothing     the overflow of the last tick changes nothing *)
(*                                                                         *)
(* The filters and the sort are defined by ranks, so the lemmas about them *)
(* rest on Ranks: in a finite strict total order ranks count up from 0.    *)
(***************************************************************************)
EXTENDS PollTick, CandidateOrder, TLAPS, FiniteSetTheorems

(* Whatever a tick has noted down as inactive or absent did leave since it *)
(* began, and is not what it noted as active.                              *)
NotedInv ==
    /\ tracker \in [Issues -> Rows \cup {Gone}]
    /\ refs \subseteq Issues /\ activeByID \subseteq Issues
    /\ pc = "idle" => absentIDs = {} /\ activeByID = {} /\ DOMAIN inactiveByID = {}
    /\ pc # "idle" => \A i \in Issues : Left(tracker[i]) => i \in leftDuring
    /\ absentIDs \subseteq leftDuring
    /\ DOMAIN inactiveByID \subseteq leftDuring
    /\ \A i \in activeByID : i \notin DOMAIN inactiveByID

(* A row in a state the workflow names as terminal or inactive has left.   *)
LEMMA ListedHasLeft ==
    ASSUME NEW row, row.state \in TerminalStates \cup InactiveStates
    PROVE  Left(row)
BY DEF Left, refreshedIssueIsInactive, isActiveTrackerState, ActiveStates, TerminalStates,
       InactiveStates

(* Every step keeps what the tick has noted true of the time since it      *)
(* began.                                                                  *)
LEMMA NotedKept == ASSUME NotedInv, [Next]_vars PROVE NotedInv'
<1> USE DEF reads, ghosts
<1>1. CASE UNCHANGED <<tracker, pc, refs, activeByID, inactiveByID, absentIDs, leftDuring>>
  BY <1>1 DEF NotedInv
<1>2. ASSUME NEW i \in Issues, NEW row \in Rows \cup {Gone}, Change(i, row) PROVE NotedInv'
  BY <1>2 DEF NotedInv, Change
<1>3. ASSUME NEW i \in Issues, NEW row \in Rows, Restore(i, row) PROVE NotedInv'
  <2>1. pc # "idle" => i \in leftDuring
    BY <1>3 DEF NotedInv, Restore, Left
  <2> QED
    BY <1>3, <2>1 DEF NotedInv, Restore
<1>4. ASSUME NEW i \in Issues, Actor(i) PROVE NotedInv'
  BY <1>1, <1>4, Zenon DEF Actor, Register, Finish, Cancelled, Requeue, ContinuationDue,
     RetryDispatched, RetryReleased, Resume, Unbar, SetClaim, EndClaim
<1>5. CASE Begin
  BY <1>5 DEF NotedInv, Begin, ClaimedRefs
<1>6. CASE RefreshRunningIssueStates
  <2>1. PICK outcome \in [refs -> {"unknown", "absent", "current"}] :
            /\ \A i \in refs : outcome[i] \in Outcomes(i)
            /\ LET refreshed == {i \in refs : outcome[i] = "current"}
                   inactive == {i \in refreshed : refreshedIssueIsInactive(tracker[i])}
               IN  /\ absentIDs' = ConfirmedAbsent(outcome, refs)
                   /\ activeByID' = {i \in refreshed :
                                         isActiveTrackerState(tracker[i])} \ inactive
                   /\ inactiveByID' = [i \in inactive |-> tracker[i]]
    BY <1>6 DEF RefreshRunningIssueStates
  <2>2. /\ pc = "refresh" /\ pc' = "terminal" /\ refs' = {}
        /\ UNCHANGED <<tracker, leftDuring>>
    BY <1>6 DEF RefreshRunningIssueStates
  <2>3. \A i \in refs : Left(tracker[i]) => i \in leftDuring
    BY <2>2 DEF NotedInv
  <2>4. absentIDs' \subseteq leftDuring
    BY <2>1, <2>3 DEF ConfirmedAbsent, Outcomes, Left
  <2>5. /\ DOMAIN inactiveByID' \subseteq leftDuring
        /\ activeByID' \subseteq refs
        /\ \A i \in activeByID' : i \notin DOMAIN inactiveByID'
    BY <2>1, <2>3 DEF Left
  <2> QED
    BY <2>2, <2>4, <2>5 DEF NotedInv
<1>7. CASE ListTerminal \/ ListInactive
  <2>1. PICK states \in {TerminalStates, InactiveStates} :
            /\ \E found \in SUBSET {i \in Issues : tracker[i].state \in states} :
                   inactiveByID' = addInactiveListedIssues([i \in found |-> tracker[i]])
            /\ pc \in {"terminal", "inactive"} /\ pc' \in {"inactive", "reconcile"}
            /\ UNCHANGED <<tracker, refs, activeByID, absentIDs, leftDuring>>
    BY <1>7 DEF ListTerminal, ListInactive, ListGroup
  <2>2. PICK found \in SUBSET {i \in Issues : tracker[i].state \in states} :
            inactiveByID' = addInactiveListedIssues([i \in found |-> tracker[i]])
    BY <2>1, Zenon
  <2>3. DOMAIN inactiveByID' = (found \ activeByID) \cup DOMAIN inactiveByID
    BY <2>2 DEF addInactiveListedIssues
  <2>4. found \subseteq leftDuring
    BY <2>1, <2>2, ListedHasLeft DEF NotedInv
  <2> QED
    BY <2>1, <2>3, <2>4 DEF NotedInv
<1>8. CASE ReconcileInactive
  BY <1>8 DEF NotedInv, ReconcileInactive
<1>9. CASE ReconcileAbsent
  BY <1>9 DEF NotedInv, ReconcileAbsent
<1>10. CASE NothingListed \/ ListActiveIssues \/ claimableDispatchRefs
            \/ revalidateDispatchCandidates \/ DispatchOne
  <2>1. /\ pc # "idle" /\ pc' # "idle"
        /\ UNCHANGED <<tracker, refs, activeByID, inactiveByID, absentIDs, leftDuring>>
    BY <1>10, Zenon DEF NothingListed, ListActiveIssues, claimableDispatchRefs,
       revalidateDispatchCandidates, DispatchOne
  <2> QED
    BY <2>1 DEF NotedInv
<1>11. CASE Return
  BY <1>11 DEF NotedInv, Return
<1> QED
  BY <1>1, <1>2, <1>3, <1>4, <1>5, <1>6, <1>7, <1>8, <1>9, <1>10, <1>11
  DEF Next, Tick, vars

(* What a tick has noted is true of the time since it began.               *)
THEOREM Noted == Spec => []NotedInv
<1>1. Init => NotedInv
  BY DEF Init, NotedInv
<1> QED
  BY <1>1, NotedKept, PTL DEF Spec

(* The steps that reconcile, by where the tick is.                         *)
LEMMA Reconciles ==
    ASSUME [Next]_vars, pc' # pc
    PROVE  /\ pc = "reconcile" => ReconcileInactive
           /\ pc = "absent" => ReconcileAbsent
<1> USE DEF reads, ghosts
<1>1. ASSUME NEW i \in Issues, Actor(i) PROVE FALSE
  BY <1>1, Zenon DEF Actor, Register, Finish, Cancelled, Requeue, ContinuationDue,
     RetryDispatched, RetryReleased, Resume, Unbar, SetClaim, EndClaim
<1>2. Tick
  BY <1>1 DEF Next, Change, Restore, vars
<1>3. ASSUME pc \in {"reconcile", "absent"} PROVE ReconcileInactive \/ ReconcileAbsent
  BY <1>2, <1>3, Zenon DEF Tick, Begin, RefreshRunningIssueStates, ListTerminal,
     ListInactive, ListGroup, NothingListed, ListActiveIssues, claimableDispatchRefs,
     revalidateDispatchCandidates, DispatchOne, Return
<1> QED
  BY <1>3 DEF ReconcileInactive, ReconcileAbsent

(* A tick releases or cancels a claim only for an issue that was inactive, *)
(* terminal, without a label or gone at some time during this tick,        *)
(* whatever reads failed or were partial (reconcileClaimedTick).           *)
THEOREM TickReleasesOnEvidence == Spec => ReleaseHasEvidence
<1>1. ASSUME NotedInv, [Next]_vars, NEW i \in Issues,
             pc \in {"reconcile", "absent"}, pc' # pc, claim'[i] # claim[i]
      PROVE  i \in leftDuring
  <2>1. CASE ReconcileInactive
    BY <1>1, <2>1 DEF ReconcileInactive, NotedInv
  <2>2. CASE ReconcileAbsent
    BY <1>1, <2>2 DEF ReconcileAbsent, NotedInv
  <2> QED
    BY <1>1, <2>1, <2>2, Reconciles
<1>2. NotedInv /\ [Next]_vars =>
          [\A i \in Issues : pc \in {"reconcile", "absent"} /\ pc' # pc /\ claim'[i] # claim[i]
                                 => i \in leftDuring]_vars
  BY <1>1
<1>3. Spec => []NotedInv
  BY Noted
<1> QED
  BY <1>2, <1>3, PTL DEF Spec, ReleaseHasEvidence

(* A worker whose issue the refresh by id saw active is not cancelled for  *)
(* what a listing of the same tick says (addInactiveListedIssues).         *)
THEOREM TickKeepsRefreshed == Spec => RefreshOutranksListing
<1>1. ASSUME NotedInv, [Next]_vars, NEW i \in activeByID, pc = "reconcile", pc' # pc
      PROVE  claim'[i] = claim[i]
  <2>1. ReconcileInactive
    BY <1>1, Reconciles
  <2> QED
    BY <1>1, <2>1 DEF ReconcileInactive, NotedInv
<1>2. NotedInv /\ [Next]_vars =>
          [\A i \in activeByID : pc = "reconcile" /\ pc' # pc => claim'[i] = claim[i]]_vars
  BY <1>1
<1>3. Spec => []NotedInv
  BY Noted
<1> QED
  BY <1>2, <1>3, PTL DEF Spec, RefreshOutranksListing
-----------------------------------------------------------------------------
(* The lifecycle.                                                          *)

(* Every claim is in one of its substates.                                 *)
ClaimInv == claim \in [Issues -> Claims]

(* The phase of a claim, by its substate.                                  *)
LEMMA PhaseIs ==
    /\ Phase("free") = "Unclaimed" /\ Phase("starting") = "Starting"
    /\ Phase("running") = "Running" /\ Phase("cancelling") = "Running"
    /\ Phase("requeued") = "Requeued" /\ Phase("retry") = "Queued"
    /\ Phase("continuation") = "Queued" /\ Phase("due") = "Queued"
    /\ Phase("blocked") = "Blocked"
BY DEF Phase

(* The claims that hold an agent are those the lifecycle counts.           *)
LEMMA SlotsCounted == ASSUME ClaimInv PROVE Lifecycle!Holding = Holding
<1>1. \A c \in Claims : Phase(c) \in {"Starting", "Running", "Requeued"}
                            <=> c \in {"starting", "running", "cancelling", "requeued"}
  BY PhaseIs DEF Claims
<1> QED
  BY <1>1 DEF ClaimInv, Lifecycle!Holding, Holding

(* The claim of i changes and no other.                                    *)
Only(i, from, to) ==
    /\ claim[i] \in from
    /\ claim'[i] \in to
    /\ \A k \in Issues \ {i} : claim'[k] = claim[k]

(* A claim that moves alone is a move of the lifecycle.                    *)
LEMMA Moves ==
    ASSUME NEW i \in Issues, NEW from, NEW to, NEW F, NEW T, Only(i, from, to),
           \A c \in from : Phase(c) \in F, \A c \in to : Phase(c) \in T
    PROVE  Lifecycle!Move(i, F, T)
<1> DEFINE phase == [k \in Issues |-> Phase(claim[k])]
<1>1. phase' = [phase EXCEPT ![i] = Phase(claim'[i])]
  BY Zenon DEF Only
<1>2. phase[i] \in F /\ Phase(claim'[i]) \in T
  BY DEF Only
<1> QED
  BY <1>1, <1>2, Zenon DEF Lifecycle!Move

(* A start, under the capacity gate.                                       *)
LEMMA Starts ==
    ASSUME ClaimInv, ~ CapacityFull, NEW i \in Issues,
           Only(i, {"free", "retry", "due"}, {"starting"})
    PROVE  Lifecycle!Start(i)
<1>1. Lifecycle!Move(i, {"Unclaimed", "Queued"}, {"Starting"})
  <2>1. /\ \A c \in {"free", "retry", "due"} : Phase(c) \in {"Unclaimed", "Queued"}
        /\ \A c \in {"starting"} : Phase(c) \in {"Starting"}
    BY PhaseIs
  <2> QED
    BY <2>1, Moves
<1>2. Cardinality(Holding) \in Nat
  BY IssuesAreFinite, FS_Subset, FS_CardinalityType DEF Holding
<1>3. Cardinality(Lifecycle!Holding) < Limit
  BY <1>2, SlotsCounted, PollTickAssumption DEF CapacityFull
<1>4. Lifecycle!Cardinality(Lifecycle!Holding) = Cardinality(Lifecycle!Holding)
  BY DEF Cardinality, Lifecycle!Cardinality
<1> QED
  BY <1>1, <1>3, <1>4 DEF Lifecycle!Start

(* A reconcile takes queued and blocked claims away, and lets workers run  *)
(* out.                                                                    *)
LEMMA Releases ==
    ASSUME ClaimInv, NEW T,
           \A i \in Issues : claim'[i] = IF i \in T THEN Released(claim[i]) ELSE claim[i]
    PROVE  \E S \in SUBSET Issues : Lifecycle!Release(S)
<1> DEFINE S == {i \in Issues : i \in T /\ Phase(claim[i]) \in {"Queued", "Blocked"}}
<1>1. \A c \in Claims : Phase(Released(c)) = IF Phase(c) \in {"Queued", "Blocked"}
                                             THEN "Unclaimed" ELSE Phase(c)
  BY PhaseIs DEF Released, Claims
<1>2. \A i \in Issues : Phase(claim'[i]) = IF i \in S THEN "Unclaimed" ELSE Phase(claim[i])
  BY <1>1 DEF ClaimInv
<1>3. S \in SUBSET Issues /\ \A i \in S : Phase(claim[i]) \in {"Queued", "Blocked"}
  OBVIOUS
<1> HIDE DEF S
<1>4. Lifecycle!Release(S)
  BY <1>2, <1>3 DEF Lifecycle!Release
<1> QED
  BY <1>3, <1>4

(* What every step of the actor and of a tick is to the lifecycle.         *)
Moved ==
    \/ Lifecycle!LifecycleNext
    \/ UNCHANGED <<[k \in Issues |-> Phase(claim[k])], Limit>>

(* The moves of the lifecycle, and the steps that leave every phase.       *)
LEMMA MovedBy ==
    /\ \A i \in Issues : Lifecycle!Start(i) \/ Lifecycle!Run(i) \/ Lifecycle!Finish(i)
                             \/ Lifecycle!Queue(i) \/ Lifecycle!Park(i) => Moved
    /\ (\E S \in SUBSET Issues : Lifecycle!Release(S)) => Moved
    /\ (\A k \in Issues : Phase(claim'[k]) = Phase(claim[k])) => Moved
<1>1. ASSUME \A k \in Issues : Phase(claim'[k]) = Phase(claim[k]) PROVE Moved
  BY <1>1 DEF Moved
<1> QED
  BY <1>1 DEF Moved, Lifecycle!LifecycleNext

(* The actor's own steps, whatever the tick is doing.                      *)
LEMMA ActorRefines == ASSUME ClaimInv, NEW i \in Issues, Actor(i) PROVE Moved
<1>1. CASE Register(i)
  <2>1. Only(i, {"starting"}, {"running"})
    BY <1>1 DEF Register, SetClaim, Only, ClaimInv
  <2>2. Phase("starting") \in {"Starting"} /\ Phase("running") \in {"Running"}
    BY PhaseIs
  <2>3. Lifecycle!Run(i)
    BY <2>1, <2>2, Moves DEF Lifecycle!Run
  <2> QED
    BY <2>3, MovedBy
<1>2. CASE Finish(i) \/ Cancelled(i)
  <2>1. Only(i, {"running", "cancelling"}, {"free", "requeued", "blocked"})
    BY <1>2 DEF Finish, Cancelled, SetClaim, EndClaim, Only, ClaimInv
  <2>2. /\ \A c \in {"running", "cancelling"} : Phase(c) \in {"Running"}
        /\ \A c \in {"free", "requeued", "blocked"} :
               Phase(c) \in {"Unclaimed", "Requeued", "Blocked"}
    BY PhaseIs
  <2>3. Lifecycle!Finish(i)
    BY <2>1, <2>2, Moves DEF Lifecycle!Finish
  <2> QED
    BY <2>3, MovedBy
<1>3. CASE Requeue(i) \/ Resume(i)
  <2>1. Only(i, {"free", "requeued"}, {"retry", "continuation"})
    BY <1>3 DEF Requeue, Resume, SetClaim, Only, ClaimInv
  <2>2. /\ \A c \in {"free", "requeued"} : Phase(c) \in {"Unclaimed", "Requeued"}
        /\ \A c \in {"retry", "continuation"} : Phase(c) \in {"Queued"}
    BY PhaseIs
  <2>3. Lifecycle!Queue(i)
    BY <2>1, <2>2, Moves DEF Lifecycle!Queue
  <2> QED
    BY <2>3, MovedBy
<1>4. CASE ContinuationDue(i)
  <2>1. Only(i, {"continuation"}, {"due"})
    BY <1>4 DEF ContinuationDue, SetClaim, Only, ClaimInv
  <2>2. \A k \in Issues : Phase(claim'[k]) = Phase(claim[k])
    BY <2>1, PhaseIs DEF Only
  <2> QED
    BY <2>2, MovedBy
<1>5. CASE RetryDispatched(i)
  <2>1. ~ CapacityFull /\ Only(i, {"free", "retry", "due"}, {"starting"})
    BY <1>5 DEF RetryDispatched, SetClaim, Only, ClaimInv
  <2>2. Lifecycle!Start(i)
    BY <2>1, Starts
  <2> QED
    BY <2>2, MovedBy
<1>6. CASE RetryReleased(i)
  <2>1. \A k \in Issues : claim'[k] = IF k \in {i} THEN Released(claim[k]) ELSE claim[k]
    BY <1>6 DEF RetryReleased, EndClaim, ClaimInv, Released
  <2> QED
    BY <2>1, Releases, MovedBy, Zenon
<1>7. CASE Unbar(i)
  <2>1. \A k \in Issues : Phase(claim'[k]) = Phase(claim[k])
    BY <1>7 DEF Unbar
  <2> QED
    BY <2>1, MovedBy
<1> QED
  BY <1>1, <1>2, <1>3, <1>4, <1>5, <1>6, <1>7 DEF Actor

(* The other steps of a tick leave the claims alone.                       *)
LEMMA TickLeavesClaims ==
    ASSUME Tick, ~ (ReconcileInactive \/ ReconcileAbsent \/ DispatchOne)
    PROVE  UNCHANGED claim
BY Zenon DEF Tick, Begin, RefreshRunningIssueStates, ListTerminal, ListInactive, ListGroup,
   NothingListed, ListActiveIssues, claimableDispatchRefs, revalidateDispatchCandidates, Return

(* The steps of a tick.                                                    *)
LEMMA TickStepRefines == ASSUME ClaimInv, Tick PROVE Moved
<1>1. CASE UNCHANGED claim
  BY <1>1, MovedBy
<1>2. CASE ReconcileInactive
  <2> DEFINE T == DOMAIN inactiveByID \ absentIDs
  <2>1. claim' = [i \in Issues |-> IF i \in T THEN Released(claim[i]) ELSE claim[i]]
    BY <1>2, Zenon DEF ReconcileInactive
  <2> HIDE DEF T
  <2>2. \A i \in Issues : claim'[i] = IF i \in T THEN Released(claim[i]) ELSE claim[i]
    BY <2>1
  <2> QED
    BY <2>2, Releases, MovedBy
<1>3. CASE ReconcileAbsent
  <2> DEFINE T == {k \in absentIDs : claim[k] # "retry"}
  <2>1. \A i \in Issues : claim'[i] = IF i \in T THEN Released(claim[i]) ELSE claim[i]
    BY <1>3 DEF ReconcileAbsent
  <2> HIDE DEF T
  <2> QED
    BY <2>1, Releases, MovedBy
<1>4. CASE DispatchOne
  <2> DEFINE i == Head(candidates)
  <2>1. \/ claim' = claim
        \/ ~ CapacityFull /\ ClaimGate(i) /\ claim' = [claim EXCEPT ![i] = "starting"]
        \/ claim[i] = "due" /\ claim' = [claim EXCEPT ![i] = "blocked"]
    BY <1>4 DEF DispatchOne
  <2> HIDE DEF i
  <2>2. CASE i \notin Issues
    BY <1>1, <2>1, <2>2 DEF ClaimInv
  <2>3. ASSUME i \in Issues, claim[i] = "due", claim' = [claim EXCEPT ![i] = "blocked"]
        PROVE  Moved
    <3>1. Only(i, {"due"}, {"blocked"})
      BY <2>3 DEF Only, ClaimInv
    <3>2. Phase("due") \in {"Queued"} /\ Phase("blocked") \in {"Blocked"}
      BY PhaseIs
    <3>3. Lifecycle!Park(i)
      BY <2>3, <3>1, <3>2, Moves DEF Lifecycle!Park
    <3> QED
      BY <2>3, <3>3, MovedBy
  <2>4. ASSUME i \in Issues, ~ CapacityFull, ClaimGate(i),
               claim' = [claim EXCEPT ![i] = "starting"]
        PROVE  Moved
    <3>1. Only(i, {"free", "retry", "due"}, {"starting"})
      BY <2>4 DEF Only, ClaimInv, ClaimGate
    <3>2. Lifecycle!Start(i)
      BY <2>4, <3>1, Starts
    <3> QED
      BY <2>4, <3>2, MovedBy
  <2> QED
    BY <1>1, <2>1, <2>2, <2>3, <2>4
<1> QED
  BY <1>1, <1>2, <1>3, <1>4, TickLeavesClaims

(* No step leaves the substates.                                           *)
LEMMA ClaimKept == ASSUME ClaimInv, [Next]_vars PROVE ClaimInv'
<1>1. ASSUME NEW i, NEW c \in Claims, claim' = [claim EXCEPT ![i] = c] PROVE ClaimInv'
  BY <1>1, Zenon DEF ClaimInv
<1>2. ASSUME NEW i \in Issues, Actor(i) PROVE ClaimInv'
  <2>1. UNCHANGED claim \/ \E c \in Claims : claim' = [claim EXCEPT ![i] = c]
    BY <1>2 DEF Actor, Register, Finish, Cancelled, Requeue, ContinuationDue,
       RetryDispatched, RetryReleased, Resume, Unbar, SetClaim, EndClaim, Claims
  <2> QED
    BY <1>1, <2>1 DEF ClaimInv
<1>3. \A c \in Claims : Released(c) \in Claims
  BY DEF Released, Claims
<1>4. CASE ReconcileInactive \/ ReconcileAbsent
  BY <1>3, <1>4 DEF ReconcileInactive, ReconcileAbsent, ClaimInv
<1>5. CASE DispatchOne
  <2>1. UNCHANGED claim \/ \E c \in {"starting", "blocked"} :
                               claim' = [claim EXCEPT ![Head(candidates)] = c]
    BY <1>5 DEF DispatchOne
  <2> QED
    BY <1>1, <2>1 DEF ClaimInv, Claims
<1>6. ASSUME UNCHANGED claim PROVE ClaimInv'
  BY <1>6 DEF ClaimInv
<1> QED
  BY <1>2, <1>4, <1>5, <1>6, TickLeavesClaims DEF Next, Change, Restore, vars

(* The operations a tick submits, interleaved with the actor's own, move   *)
(* claims only along the lifecycle and start none beyond the limit         *)
(* (PollOnce against the actor of orchestrator.go).                        *)
THEOREM TickRefines == Spec => TickFollowsLifecycle
<1>1. Init => ClaimInv
  BY DEF Init, ClaimInv, Claims
<1>2. ClaimInv /\ [Next]_vars => ClaimInv'
  BY ClaimKept
<1>3. ClaimInv /\ [Next]_vars =>
          [Lifecycle!LifecycleNext]_<<[i \in Issues |-> Phase(claim[i])], Limit>>
  <2>1. ASSUME ClaimInv, [Next]_vars PROVE Moved
    <3>1. CASE UNCHANGED claim
      BY <3>1, MovedBy
    <3> QED
      BY <2>1, <3>1, ActorRefines, TickStepRefines DEF Next, Change, Restore, vars
  <2> QED
    BY <2>1 DEF Moved
<1>4. Init => Lifecycle!LifecycleInit
  BY PhaseIs DEF Init, Lifecycle!LifecycleInit
<1>5. Spec => [][Lifecycle!LifecycleNext]_<<[i \in Issues |-> Phase(claim[i])], Limit>>
  BY <1>1, <1>2, <1>3, PTL DEF Spec
<1>6. Spec => Lifecycle!LifecycleInit
  BY <1>4, PTL DEF Spec
<1> QED
  BY <1>5, <1>6, PTL DEF TickFollowsLifecycle, Lifecycle!LifecycleSpec
-----------------------------------------------------------------------------
(* R is a strict total order of P.                                         *)
Orders(R, P) ==
    /\ \A x \in P : <<x, x>> \notin R
    /\ \A x, y \in P : x # y => <<x, y>> \in R \/ <<y, x>> \in R
    /\ \A x, y, z \in P : <<x, y>> \in R /\ <<y, z>> \in R => <<x, z>> \in R

Rank(P, R, x) == Cardinality({y \in P : <<y, x>> \in R})

(* In a strict total order of a finite set, ranks count up from 0.         *)
LEMMA Ranks ==
    ASSUME NEW P, IsFiniteSet(P), NEW R, Orders(R, P)
    PROVE  /\ \A x \in P : Rank(P, R, x) \in 0..(Cardinality(P) - 1)
           /\ \A x, y \in P : <<x, y>> \in R <=> Rank(P, R, x) < Rank(P, R, y)
           /\ \A k \in 1..Cardinality(P) : \E x \in P : Rank(P, R, x) = k - 1
<1> DEFINE Below(x) == {y \in P : <<y, x>> \in R}
<1>1. \A x : IsFiniteSet(Below(x)) /\ Cardinality(Below(x)) \in Nat
  BY FS_Subset, FS_CardinalityType
<1>2. \A x : Cardinality(Below(x)) = Rank(P, R, x)
  BY DEF Rank
<1>3. \A x \in P : x \notin Below(x)
  BY DEF Orders
<1>4. ASSUME NEW x, NEW T, IsFiniteSet(T), Below(x) \cup {x} \subseteq T, x \notin Below(x)
      PROVE  Rank(P, R, x) + 1 <= Cardinality(T)
  <2> HIDE DEF Below
  <2>1. Cardinality(Below(x) \cup {x}) = Cardinality(Below(x)) + 1
    BY <1>1, <1>4, FS_AddElement
  <2>2. Cardinality(Below(x) \cup {x}) <= Cardinality(T)
    BY <1>4, FS_Subset
  <2> QED
    BY <1>2, <2>1, <2>2
<1>5. ASSUME NEW x \in P
      PROVE  Rank(P, R, x) \in 0..(Cardinality(P) - 1)
  <2>1. Below(x) \cup {x} \subseteq P
    OBVIOUS
  <2>2. Rank(P, R, x) + 1 <= Cardinality(P)
    BY <1>3, <1>4, <2>1
  <2>3. Rank(P, R, x) \in Nat /\ Cardinality(P) \in Nat
    BY <1>1, FS_CardinalityType DEF Rank
  <2> QED
    BY <2>2, <2>3
<1>6. ASSUME NEW x \in P, NEW y \in P, <<x, y>> \in R
      PROVE  Rank(P, R, x) < Rank(P, R, y)
  <2>1. Below(x) \cup {x} \subseteq Below(y)
    BY <1>6 DEF Orders
  <2>2. Rank(P, R, x) + 1 <= Cardinality(Below(y))
    BY <1>1, <1>3, <1>4, <2>1
  <2>3. Rank(P, R, x) \in Nat /\ Cardinality(Below(y)) = Rank(P, R, y) /\ Rank(P, R, y) \in Nat
    BY <1>1 DEF Rank
  <2> HIDE DEF Below
  <2> QED
    BY <2>2, <2>3
<1> HIDE DEF Below
<1>7. \A x, y \in P : Rank(P, R, x) < Rank(P, R, y) => <<x, y>> \in R
  <2> SUFFICES ASSUME NEW x \in P, NEW y \in P, Rank(P, R, x) < Rank(P, R, y),
                      <<x, y>> \notin R
               PROVE  FALSE
    OBVIOUS
  <2>1. Rank(P, R, x) \in Nat /\ Rank(P, R, y) \in Nat
    BY <1>1, <1>2
  <2>2. x # y
    BY <2>1
  <2>3. Rank(P, R, y) < Rank(P, R, x)
    BY <1>6, <2>2 DEF Orders
  <2> QED
    BY <2>1, <2>3
<1>8. \A x, y \in P : x # y => Rank(P, R, x) # Rank(P, R, y)
  <2> SUFFICES ASSUME NEW x \in P, NEW y \in P, x # y, Rank(P, R, x) = Rank(P, R, y)
               PROVE  FALSE
    OBVIOUS
  <2>1. Rank(P, R, x) \in Nat
    BY <1>1, <1>2
  <2>2. <<x, y>> \in R \/ <<y, x>> \in R
    BY DEF Orders
  <2>3. Rank(P, R, x) < Rank(P, R, y) \/ Rank(P, R, y) < Rank(P, R, x)
    BY <1>6, <2>2
  <2> QED
    BY <2>1, <2>3
<1>9. \A k \in 1..Cardinality(P) : \E x \in P : Rank(P, R, x) = k - 1
  <2> DEFINE f == [x \in P |-> Rank(P, R, x)]
             T == 0..(Cardinality(P) - 1)
  <2>1. Cardinality(P) \in Nat
    BY FS_CardinalityType
  <2>2. f \in Injection(P, T)
    BY <1>5, <1>8 DEF Injection, IsInjective
  <2>3. IsFiniteSet(T) /\ Cardinality(T) = Cardinality(P)
    BY <2>1, FS_Interval
  <2>4. f \in Surjection(P, T)
    BY <2>2, <2>3, FS_Injection
  <2>5. \A n \in T : \E x \in P : f[x] = n
    BY <2>4 DEF Surjection
  <2> QED
    BY <2>1, <2>5
<1> QED
  BY <1>5, <1>6, <1>7, <1>9
(* Arranged puts every chosen position at one place, and the places keep   *)
(* the order.                                                              *)
LEMMA ArrangedIs ==
    ASSUME NEW s, NEW P, IsFiniteSet(P), NEW R, Orders(R, P)
    PROVE  /\ Cardinality(P) \in Nat
           /\ \E pos \in [1..Cardinality(P) -> P] :
                  /\ Arranged(s, P, R) = [k \in 1..Cardinality(P) |-> s[pos[k]]]
                  /\ \A k \in 1..Cardinality(P) : Rank(P, R, pos[k]) = k - 1
                  /\ \A x \in P : \E k \in 1..Cardinality(P) : pos[k] = x
                  /\ \A j, k \in 1..Cardinality(P) : j < k => <<pos[j], pos[k]>> \in R
<1> DEFINE N == Cardinality(P)
           pos == [k \in 1..N |-> CHOOSE n \in P : Rank(P, R, n) = k - 1]
<1>1. N \in Nat
  BY FS_CardinalityType
<1>2. /\ \A x \in P : Rank(P, R, x) \in 0..(N - 1)
      /\ \A x, y \in P : <<x, y>> \in R <=> Rank(P, R, x) < Rank(P, R, y)
      /\ \A k \in 1..N : \E x \in P : Rank(P, R, x) = k - 1
  BY Ranks
<1>3. Arranged(s, P, R) = [k \in 1..N |-> s[pos[k]]]
  BY DEF Arranged, Rank
<1> HIDE DEF N
<1>4. \A k \in 1..N : pos[k] \in P /\ Rank(P, R, pos[k]) = k - 1
  BY <1>2
<1>5. pos \in [1..N -> P]
  BY <1>4
<1>6. \A x \in P : \E k \in 1..N : pos[k] = x
  <2> SUFFICES ASSUME NEW x \in P PROVE \E k \in 1..N : pos[k] = x
    OBVIOUS
  <2>1. PICK r \in 0..(N - 1) : r = Rank(P, R, x)
    BY <1>2
  <2>2. r + 1 \in 1..N
    BY <1>1
  <2>3. pos[r + 1] \in P /\ Rank(P, R, pos[r + 1]) = r
    BY <1>4, <2>2
  <2> HIDE DEF pos
  <2>4. <<x, pos[r + 1]>> \notin R /\ <<pos[r + 1], x>> \notin R
    BY <1>2, <2>1, <2>3
  <2>5. x = pos[r + 1]
    BY <2>3, <2>4 DEF Orders
  <2> QED
    BY <2>2, <2>5
<1> HIDE DEF pos
<1>7. \A j, k \in 1..N : j < k => <<pos[j], pos[k]>> \in R
  BY <1>1, <1>2, <1>4
<1> QED
  BY <1>1, <1>3, <1>4, <1>5, <1>6, <1>7 DEF N

(* What a filter returns: the entries it keeps, in the order they had.     *)
LEMMA KeepIs ==
    ASSUME NEW T, NEW s \in Seq(T), NEW S
    PROVE  /\ Keep(s, S) \in Seq(T)
           /\ Range(Keep(s, S)) = Range(s) \cap S
           /\ \A j, k \in DOMAIN Keep(s, S) : j < k =>
                  \E m, n \in DOMAIN s : m < n /\ s[m] = Keep(s, S)[j] /\ s[n] = Keep(s, S)[k]
<1> DEFINE P == {n \in DOMAIN s : s[n] \in S}
           R == {p \in P \X P : p[1] < p[2]}
<1>1. DOMAIN s = 1..Len(s) /\ Len(s) \in Nat
  OBVIOUS
<1>2. IsFiniteSet(P)
  <2>1. IsFiniteSet(1..Len(s))
    BY <1>1, FS_Interval
  <2> QED
    BY <1>1, <2>1, FS_Subset
<1>3. Keep(s, S) = Arranged(s, P, R)
  BY DEF Keep
<1>4. P \subseteq DOMAIN s /\ P \subseteq Nat
  BY <1>1
<1>5. \A x, y : <<x, y>> \in R <=> x \in P /\ y \in P /\ x < y
  OBVIOUS
<1>6. \A x : x \in P <=> x \in DOMAIN s /\ s[x] \in S
  OBVIOUS
<1> HIDE DEF P, R
<1>7. Orders(R, P)
  BY <1>4, <1>5 DEF Orders
<1> DEFINE N == Cardinality(P)
<1>8. N \in Nat
  BY <1>2, FS_CardinalityType
<1>9. PICK pos \in [1..N -> P] :
          /\ Arranged(s, P, R) = [k \in 1..N |-> s[pos[k]]]
          /\ \A x \in P : \E k \in 1..N : pos[k] = x
          /\ \A j, k \in 1..N : j < k => <<pos[j], pos[k]>> \in R
  BY <1>2, <1>7, ArrangedIs
<1> HIDE DEF N
<1>10. /\ DOMAIN Keep(s, S) = 1..N
       /\ \A k \in 1..N : Keep(s, S)[k] = s[pos[k]] /\ pos[k] \in DOMAIN s /\ s[pos[k]] \in S
       /\ \A k \in 1..N : s[pos[k]] \in T
  BY <1>3, <1>4, <1>6, <1>9
<1>11. Keep(s, S) \in Seq(T)
  BY <1>3, <1>8, <1>9, <1>10
<1>12. Range(Keep(s, S)) = Range(s) \cap S
  <2>1. Range(Keep(s, S)) \subseteq Range(s) \cap S
    BY <1>10 DEF Range
  <2>2. Range(s) \cap S \subseteq Range(Keep(s, S))
    BY <1>6, <1>9, <1>10 DEF Range
  <2> QED
    BY <2>1, <2>2
<1>13. ASSUME NEW j \in DOMAIN Keep(s, S), NEW k \in DOMAIN Keep(s, S), j < k
       PROVE  \E m, n \in DOMAIN s : m < n /\ s[m] = Keep(s, S)[j] /\ s[n] = Keep(s, S)[k]
  <2>1. <<pos[j], pos[k]>> \in R /\ pos[j] \in DOMAIN s /\ pos[k] \in DOMAIN s
    BY <1>9, <1>10, <1>13
  <2>2. pos[j] < pos[k]
    BY <1>5, <2>1
  <2> QED
    BY <1>10, <1>13, <2>1, <2>2
<1> QED
  BY <1>11, <1>12, <1>13
(* The comparison of dispatch is a strict weak order of keys, and a total  *)
(* one of keys with different identifiers.                                 *)
LEMMA SortsBeforeOrders ==
    ASSUME NEW a \in SortKey, NEW b \in SortKey
    PROVE  /\ ~ sortsBefore(a, a)
           /\ sortsBefore(a, b) => ~ sortsBefore(b, a)
           /\ \A c \in SortKey : sortsBefore(a, b) /\ sortsBefore(b, c) => sortsBefore(a, c)
           /\ \A c \in SortKey : ~ sortsBefore(a, b) /\ ~ sortsBefore(b, c) => ~ sortsBefore(a, c)
           /\ a.identifier # b.identifier => sortsBefore(a, b) \/ sortsBefore(b, a)
<1>1. \A k \in SortKey : /\ k.created \in Nat /\ k.identifier \in Nat
                         /\ prioritySortKey(k.priority) \in 1..5
  BY DEF SortKey, prioritySortKey
<1>2. \A x, y, z \in Nat :
          /\ ~ createdBefore(x, x)
          /\ createdBefore(x, y) => ~ createdBefore(y, x)
          /\ x = y \/ createdBefore(x, y) \/ createdBefore(y, x)
          /\ createdBefore(x, y) /\ createdBefore(y, z) => createdBefore(x, z)
  BY DEF createdBefore
<1>3. \A k, l : sortsBefore(k, l) <=>
          LET p == prioritySortKey(k.priority)
              q == prioritySortKey(l.priority)
          IN  \/ p < q
              \/ p = q /\ createdBefore(k.created, l.created)
              \/ /\ p = q
                 /\ k.created = l.created
                 /\ k.identifier < l.identifier
  BY DEF sortsBefore
<1>4. ~ sortsBefore(a, a)
  BY <1>1, <1>2, <1>3
<1>5. sortsBefore(a, b) => ~ sortsBefore(b, a)
  BY <1>1, <1>2, <1>3
<1>6. a.identifier # b.identifier => sortsBefore(a, b) \/ sortsBefore(b, a)
  BY <1>1, <1>2, <1>3
<1>7. ASSUME NEW c \in SortKey, sortsBefore(a, b), sortsBefore(b, c) PROVE sortsBefore(a, c)
  BY <1>1, <1>2, <1>3, <1>7
<1>8. ASSUME NEW c \in SortKey, ~ sortsBefore(a, b), ~ sortsBefore(b, c)
      PROVE  ~ sortsBefore(a, c)
  BY <1>1, <1>2, <1>3, <1>8
<1> QED
  BY <1>4, <1>5, <1>6, <1>7, <1>8

(* No entry of s comes before one that is better.                          *)
Sorted(key, s) ==
    \A j, k \in DOMAIN s : j < k => ~ sortsBefore(key[s[k]], key[s[j]])


(* A filter keeps a sequence sorted.                                       *)
LEMMA KeepSorts ==
    ASSUME NEW T, NEW s \in Seq(T), NEW S, NEW key, Sorted(key, s)
    PROVE  Sorted(key, Keep(s, S))
<1>1. \A j, k \in DOMAIN Keep(s, S) : j < k =>
          \E m, n \in DOMAIN s : m < n /\ s[m] = Keep(s, S)[j] /\ s[n] = Keep(s, S)[k]
  BY KeepIs
<1> QED
  BY <1>1 DEF Sorted

(* A filter keeps a sequence free of duplicates.                           *)
LEMMA KeepDistinct ==
    ASSUME NEW T, NEW s \in Seq(T), NEW S, IsInjective(s)
    PROVE  IsInjective(Keep(s, S))
<1>1. \A j, k \in DOMAIN Keep(s, S) : j < k =>
          \E m, n \in DOMAIN s : m < n /\ s[m] = Keep(s, S)[j] /\ s[n] = Keep(s, S)[k]
  BY KeepIs
<1>2. DOMAIN Keep(s, S) \subseteq Nat /\ DOMAIN s \subseteq Nat
  <2>1. Keep(s, S) \in Seq(T)
    BY KeepIs
  <2> QED
    BY <2>1
<1>3. ASSUME NEW j \in DOMAIN Keep(s, S), NEW k \in DOMAIN Keep(s, S), j < k
      PROVE  Keep(s, S)[j] # Keep(s, S)[k]
  BY <1>1, <1>2, <1>3 DEF IsInjective
<1> QED
  BY <1>2, <1>3 DEF IsInjective

(* What the sort returns: the same entries, each at the place the better   *)
(* ones and, among its equals, the earlier ones leave to it.               *)
LEMMA SortIs ==
    ASSUME NEW T, NEW s \in Seq(T), NEW key \in [T -> SortKey]
    PROVE  /\ sortCandidates(key, s) \in Seq(T)
           /\ Len(sortCandidates(key, s)) = Len(s)
           /\ Range(sortCandidates(key, s)) = Range(s)
           /\ Sorted(key, sortCandidates(key, s))
           /\ IsInjective(s) => IsInjective(sortCandidates(key, s))
<1> DEFINE P == DOMAIN s
           before(a, b) == \/ sortsBefore(key[s[a]], key[s[b]])
                           \/ ~ sortsBefore(key[s[b]], key[s[a]]) /\ a < b
           R == {p \in P \X P : before(p[1], p[2])}
           c == sortCandidates(key, s)
<1>1. P = 1..Len(s) /\ Len(s) \in Nat
  OBVIOUS
<1>2. IsFiniteSet(P) /\ Cardinality(P) = Len(s)
  <2>1. IsFiniteSet(1..Len(s)) /\ Cardinality(1..Len(s)) = Len(s)
    <3>1. 1 \in Int /\ Len(s) \in Int
      BY <1>1
    <3>2. /\ IsFiniteSet(1..Len(s))
          /\ Cardinality(1..Len(s)) = IF 1 > Len(s) THEN 0 ELSE Len(s) - 1 + 1
      BY <3>1, FS_Interval
    <3> QED
      BY <1>1, <3>2
  <2> QED
    BY <1>1, <2>1
<1>3. c = Arranged(s, P, R)
  BY DEF sortCandidates
<1>4. \A x, y : <<x, y>> \in R <=> x \in P /\ y \in P /\ before(x, y)
  OBVIOUS
<1> HIDE DEF R, c
<1>5. \A n \in P : s[n] \in T /\ key[s[n]] \in SortKey
  OBVIOUS
<1> HIDE DEF P
<1>6. \A x, y, z \in P : before(x, y) /\ before(y, z) => before(x, z)
  <2> SUFFICES ASSUME NEW x \in P, NEW y \in P, NEW z \in P, before(x, y), before(y, z)
               PROVE  before(x, z)
    OBVIOUS
  <2>1. PICK k \in SortKey, l \in SortKey, m \in SortKey :
            k = key[s[x]] /\ l = key[s[y]] /\ m = key[s[z]]
    BY <1>5
  <2>2. /\ sortsBefore(k, l) \/ (~ sortsBefore(l, k) /\ x < y)
        /\ sortsBefore(l, m) \/ (~ sortsBefore(m, l) /\ y < z)
    BY <2>1
  <2>3. /\ sortsBefore(k, l) => ~ sortsBefore(l, k)
        /\ sortsBefore(l, m) => ~ sortsBefore(m, l)
    BY SortsBeforeOrders
  <2>4. ~ sortsBefore(m, k)
    BY <2>2, <2>3, SortsBeforeOrders
  <2>5. CASE sortsBefore(k, m)
    BY <2>1, <2>5
  <2>6. CASE ~ sortsBefore(k, m)
    <3>1. ~ sortsBefore(k, l)
      BY <2>2, <2>3, <2>6, SortsBeforeOrders
    <3>2. ~ sortsBefore(l, m)
      BY <2>2, <2>3, <2>6, SortsBeforeOrders
    <3>3. x < z
      BY <1>1, <2>2, <3>1, <3>2
    <3> QED
      BY <2>1, <2>4, <3>3
  <2> QED
    BY <2>5, <2>6
<1>7. \A x, y \in P : ~ before(x, x) /\ (x # y => before(x, y) \/ before(y, x))
  BY <1>1, <1>5, SortsBeforeOrders
<1>8. Orders(R, P)
  BY <1>4, <1>6, <1>7 DEF Orders
<1> DEFINE N == Cardinality(P)
<1> HIDE DEF before
<1>9. PICK pos \in [1..N -> P] :
          /\ Arranged(s, P, R) = [k \in 1..N |-> s[pos[k]]]
          /\ \A x \in P : \E k \in 1..N : pos[k] = x
          /\ \A j, k \in 1..N : j < k => <<pos[j], pos[k]>> \in R
  BY <1>2, <1>8, ArrangedIs
<1>10. N = Len(s)
  BY <1>2
<1> HIDE DEF N
<1>11. c \in Seq(T) /\ Len(c) = Len(s) /\ DOMAIN c = 1..N /\ \A k \in 1..N : c[k] = s[pos[k]]
  <2>1. c = [k \in 1..N |-> s[pos[k]]]
    BY <1>3, <1>9
  <2>2. \A k \in 1..N : s[pos[k]] \in T
    BY <1>5, <1>9
  <2> QED
    BY <1>1, <1>10, <2>1, <2>2
<1>12. Range(c) = Range(s)
  <2>1. Range(c) \subseteq Range(s)
    BY <1>9, <1>11 DEF Range, P
  <2>2. Range(s) \subseteq Range(c)
    BY <1>9, <1>11 DEF Range, P
  <2> QED
    BY <2>1, <2>2
<1>13. Sorted(key, c)
  <2> SUFFICES ASSUME NEW j \in 1..N, NEW k \in 1..N, j < k
               PROVE  ~ sortsBefore(key[s[pos[k]]], key[s[pos[j]]])
    BY <1>11 DEF Sorted
  <2>1. before(pos[j], pos[k]) /\ pos[j] \in P /\ pos[k] \in P
    BY <1>4, <1>9
  <2> QED
    BY <1>5, <2>1, SortsBeforeOrders DEF before
<1>14. ASSUME IsInjective(s) PROVE IsInjective(c)
  <2>1. \A j, k \in 1..N : j < k => pos[j] # pos[k]
    BY <1>4, <1>7, <1>9
  <2> QED
    BY <1>1, <1>11, <1>14, <1>10, <2>1 DEF IsInjective, P
<1> QED
  BY <1>11, <1>12, <1>13, <1>14 DEF c
(* What the last tick left over adds nothing to a listing.                 *)
LEMMA MergeIs ==
    ASSUME NEW T, NEW old \in Seq(T), NEW new \in Seq(T)
    PROVE  /\ mergeOverflowCandidates(old, new) \in Seq(T)
           /\ Range(mergeOverflowCandidates(old, new)) = Range(new)
           /\ IsInjective(old) /\ IsInjective(new) =>
                  IsInjective(mergeOverflowCandidates(old, new))
<1> DEFINE a == Keep(old, Range(new))
           b == Keep(new, Range(new) \ Range(old))
           m == a \o b
<1>1. /\ a \in Seq(T) /\ Range(a) = Range(old) \cap Range(new)
      /\ IsInjective(old) => IsInjective(a)
  <2>1. a \in Seq(T) /\ Range(a) = Range(old) \cap Range(new)
    BY KeepIs
  <2>2. IsInjective(old) => IsInjective(a)
    BY KeepDistinct
  <2> QED
    BY <2>1, <2>2
<1>2. /\ b \in Seq(T) /\ Range(b) = Range(new) \ Range(old)
      /\ IsInjective(new) => IsInjective(b)
  <2>1. b \in Seq(T) /\ Range(b) = Range(new) \cap (Range(new) \ Range(old))
    BY KeepIs
  <2>2. IsInjective(new) => IsInjective(b)
    BY KeepDistinct
  <2> HIDE DEF b
  <2> QED
    BY <2>1, <2>2
<1>3. mergeOverflowCandidates(old, new) = m
  BY DEF mergeOverflowCandidates
<1> HIDE DEF a, b
<1>4. /\ m \in Seq(T) /\ Len(m) = Len(a) + Len(b)
      /\ Len(a) \in Nat /\ Len(b) \in Nat
      /\ \A k \in 1..Len(a) : m[k] = a[k]
      /\ \A k \in 1..Len(b) : m[Len(a) + k] = b[k]
      /\ \A k \in (Len(a) + 1)..Len(m) : m[k] = b[k - Len(a)]
      /\ DOMAIN a = 1..Len(a) /\ DOMAIN b = 1..Len(b) /\ DOMAIN m = 1..Len(m)
  BY <1>1, <1>2
<1> HIDE DEF m
<1>5. \A k \in DOMAIN m : \/ k \in DOMAIN a /\ m[k] = a[k]
                          \/ /\ k \notin DOMAIN a /\ k - Len(a) \in DOMAIN b
                             /\ m[k] = b[k - Len(a)]
  BY <1>4
<1>6. Range(m) = Range(a) \cup Range(b)
  <2>1. Range(m) \subseteq Range(a) \cup Range(b)
    BY <1>5 DEF Range
  <2>2. Range(a) \subseteq Range(m)
    BY <1>4 DEF Range
  <2>3. Range(b) \subseteq Range(m)
    <3>1. \A k \in DOMAIN b : Len(a) + k \in DOMAIN m /\ m[Len(a) + k] = b[k]
      BY <1>4
    <3> QED
      BY <3>1 DEF Range
  <2> QED
    BY <2>1, <2>2, <2>3
<1>7. ASSUME IsInjective(old), IsInjective(new) PROVE IsInjective(m)
  <2>1. \A j \in DOMAIN a, k \in DOMAIN b : a[j] # b[k]
    BY <1>1, <1>2 DEF Range
  <2> SUFFICES ASSUME NEW j \in DOMAIN m, NEW k \in DOMAIN m, m[j] = m[k] PROVE j = k
    BY DEF IsInjective
  <2>2. CASE j \in DOMAIN a /\ k \in DOMAIN a
    BY <1>1, <1>4, <1>7, <2>2 DEF IsInjective
  <2>3. CASE j \notin DOMAIN a /\ k \notin DOMAIN a
    <3>1. j - Len(a) = k - Len(a)
      BY <1>2, <1>5, <1>7, <2>3 DEF IsInjective
    <3> QED
      BY <1>4, <3>1
  <2> QED
    BY <1>5, <2>1, <2>2, <2>3
<1> QED
  BY <1>1, <1>2, <1>3, <1>4, <1>6, <1>7

(* A sequence without duplicates has as many entries as its set.           *)
LEMMA DistinctCounts ==
    ASSUME NEW T, NEW s \in Seq(T), IsInjective(s), NEW n \in 0..Len(s)
    PROVE  /\ IsFiniteSet({s[m] : m \in 1..n})
           /\ Cardinality({s[m] : m \in 1..n}) = n
<1> DEFINE S == {s[m] : m \in 1..n}
           f == [m \in 1..n |-> s[m]]
<1>1. n \in Nat /\ 1..n \subseteq DOMAIN s
  OBVIOUS
<1>2. f \in Bijection(1..n, S)
  BY <1>1 DEF Bijection, Injection, Surjection, IsInjective
<1>3. IsFiniteSet(1..n) /\ Cardinality(1..n) = n
  <2>1. 1 \in Int /\ n \in Int
    BY <1>1
  <2>2. /\ IsFiniteSet(1..n)
        /\ Cardinality(1..n) = IF 1 > n THEN 0 ELSE n - 1 + 1
    BY <2>1, FS_Interval
  <2> QED
    BY <1>1, <2>2
<1>4. ExistsBijection(1..n, S)
  BY <1>2 DEF ExistsBijection
<1> HIDE DEF S, f
<1>5. IsFiniteSet(S) /\ Cardinality(S) = Cardinality(1..n)
  BY <1>3, <1>4, FS_Bijection
<1> QED
  BY <1>3, <1>5 DEF S

(* Identifiers are distinct within a tracker.                              *)
DistinctKeys(T, key) ==
    /\ key \in [T -> SortKey]
    /\ \A i, j \in T : i # j => key[i].identifier # key[j].identifier

(* In a sorted sequence the place of an entry is decided by the entries    *)
(* that are better than it is.                                             *)
LEMMA PlacedIs ==
    ASSUME NEW T, NEW s \in Seq(T), NEW key, DistinctKeys(T, key),
           Sorted(key, s), IsInjective(s), NEW n \in DOMAIN s
    PROVE  n = 1 + Cardinality({i \in Range(s) : sortsBefore(key[i], key[s[n]])})
<1>1. n \in 1..Len(s) /\ DOMAIN s = 1..Len(s) /\ Len(s) \in Nat
  OBVIOUS
<1>2. \A m \in DOMAIN s : s[m] \in T /\ key[s[m]] \in SortKey
  BY DEF DistinctKeys
<1>3. \A m \in DOMAIN s : m < n <=> sortsBefore(key[s[m]], key[s[n]])
  <2> SUFFICES ASSUME NEW m \in DOMAIN s
               PROVE  m < n <=> sortsBefore(key[s[m]], key[s[n]])
    OBVIOUS
  <2>1. CASE m = n
    BY <1>1, <1>2, <2>1, SortsBeforeOrders
  <2>2. CASE m < n
    <3>1. ~ sortsBefore(key[s[n]], key[s[m]])
      BY <2>2 DEF Sorted
    <3>2. key[s[m]].identifier # key[s[n]].identifier
      BY <1>1, <1>2, <2>2 DEF IsInjective, DistinctKeys
    <3> QED
      BY <1>2, <2>2, <3>1, <3>2, SortsBeforeOrders
  <2>3. CASE n < m
    BY <1>1, <2>3 DEF Sorted
  <2> QED
    BY <1>1, <2>1, <2>2, <2>3
<1>4. {i \in Range(s) : sortsBefore(key[i], key[s[n]])} = {s[m] : m \in 1..(n - 1)}
  <2>1. \A m \in DOMAIN s : m < n <=> m \in 1..(n - 1)
    BY <1>1
  <2>2. 1..(n - 1) \subseteq DOMAIN s
    BY <1>1
  <2> QED
    BY <1>3, <2>1, <2>2 DEF Range
<1>5. n - 1 \in 0..Len(s)
  BY <1>1
<1>6. Cardinality({s[m] : m \in 1..(n - 1)}) = n - 1
  BY <1>5, DistinctCounts
<1> DEFINE C == Cardinality({i \in Range(s) : sortsBefore(key[i], key[s[n]])})
<1>7. C = n - 1
  BY <1>4, <1>6, Zenon
<1> HIDE DEF C
<1>8. n = 1 + C
  BY <1>1, <1>7
<1> QED
  BY <1>8 DEF C

(* There is one way to sort a set of issues.                               *)
LEMMA SortedIsUnique ==
    ASSUME NEW T, NEW s \in Seq(T), NEW t \in Seq(T), NEW key, DistinctKeys(T, key),
           Sorted(key, s), IsInjective(s), Sorted(key, t), IsInjective(t), Range(s) = Range(t)
    PROVE  s = t
<1> DEFINE X == Range(s)
           R == {p \in X \X X : sortsBefore(key[p[1]], key[p[2]])}
<1>1. /\ DOMAIN s = 1..Len(s) /\ Len(s) \in Nat
      /\ DOMAIN t = 1..Len(t) /\ Len(t) \in Nat
  OBVIOUS
<1>2. X = {s[m] : m \in 1..Len(s)} /\ X = {t[m] : m \in 1..Len(t)}
  BY <1>1 DEF Range
<1>3. IsFiniteSet(X) /\ Cardinality(X) = Len(s) /\ Cardinality(X) = Len(t)
  <2>1. Len(s) \in 0..Len(s) /\ Len(t) \in 0..Len(t)
    BY <1>1
  <2>2. /\ IsFiniteSet({s[m] : m \in 1..Len(s)})
        /\ Cardinality({s[m] : m \in 1..Len(s)}) = Len(s)
    BY <2>1, DistinctCounts
  <2>3. Cardinality({t[m] : m \in 1..Len(t)}) = Len(t)
    BY <2>1, DistinctCounts
  <2> HIDE DEF X
  <2> QED
    BY <1>2, <2>2, <2>3, Zenon
<1>4. \A x, y : <<x, y>> \in R <=> x \in X /\ y \in X /\ sortsBefore(key[x], key[y])
  OBVIOUS
<1>5. X \subseteq T /\ \A x \in X : key[x] \in SortKey
  <2>1. X \subseteq T
    BY <1>2
  <2> QED
    BY <2>1 DEF DistinctKeys
<1> HIDE DEF X, R
<1>6. Orders(R, X)
  <2>1. \A x \in X : <<x, x>> \notin R
    BY <1>4, <1>5, SortsBeforeOrders
  <2>2. \A x, y \in X : x # y => <<x, y>> \in R \/ <<y, x>> \in R
    BY <1>4, <1>5, SortsBeforeOrders DEF DistinctKeys
  <2>3. \A x, y, z \in X : <<x, y>> \in R /\ <<y, z>> \in R => <<x, z>> \in R
    BY <1>4, <1>5, SortsBeforeOrders
  <2> QED
    BY <2>1, <2>2, <2>3 DEF Orders
<1>7. ASSUME NEW n \in 1..Len(s) PROVE s[n] = t[n]
  <2>1. n \in DOMAIN s /\ n \in DOMAIN t /\ s[n] \in X /\ t[n] \in X
    BY <1>1, <1>2, <1>3
  <2>2. \A x \in X : Rank(X, R, x) = Cardinality({i \in X : sortsBefore(key[i], key[x])})
    <3>1. \A x \in X : {y \in X : <<y, x>> \in R} = {i \in X : sortsBefore(key[i], key[x])}
      BY <1>4
    <3> QED
      BY <3>1 DEF Rank
  <2>3. n = 1 + Rank(X, R, s[n])
    <3>1. n = 1 + Cardinality({i \in Range(s) : sortsBefore(key[i], key[s[n]])})
      BY <2>1, PlacedIs
    <3>2. X = Range(s)
      BY DEF X
    <3> QED
      BY <2>1, <2>2, <3>1, <3>2, Zenon
  <2>4. n = 1 + Rank(X, R, t[n])
    <3>1. n = 1 + Cardinality({i \in Range(t) : sortsBefore(key[i], key[t[n]])})
      BY <2>1, PlacedIs
    <3>2. X = Range(t)
      BY DEF X
    <3> QED
      BY <2>1, <2>2, <3>1, <3>2, Zenon
  <2>5. /\ \A x \in X : Rank(X, R, x) \in 0..(Cardinality(X) - 1)
        /\ \A x, y \in X : <<x, y>> \in R <=> Rank(X, R, x) < Rank(X, R, y)
    BY <1>3, <1>6, Ranks
  <2>6. Rank(X, R, s[n]) \in Nat /\ Rank(X, R, t[n]) \in Nat
    BY <1>1, <1>3, <2>1, <2>5
  <2>7. ~ (Rank(X, R, s[n]) < Rank(X, R, t[n])) /\ ~ (Rank(X, R, t[n]) < Rank(X, R, s[n]))
    BY <2>3, <2>4, <2>6
  <2>8. <<s[n], t[n]>> \notin R /\ <<t[n], s[n]>> \notin R
    BY <2>1, <2>5, <2>7, Zenon
  <2> QED
    BY <1>6, <2>1, <2>8 DEF Orders
<1> QED
  BY <1>1, <1>3, <1>7
-----------------------------------------------------------------------------
(* What a tick dispatches.                                                 *)

(* A listing is a sequence of issues without duplicates.                   *)
LEMMA ListingIs ==
    ASSUME NEW S, NEW s \in Listings(S), IsFiniteSet(S)
    PROVE  s \in Seq(S) /\ IsInjective(s)
<1>1. Cardinality(S) \in Nat
  BY FS_CardinalityType
<1>2. PICK n \in Nat : s \in Injection(1..n, S)
  BY <1>1 DEF Listings
<1> QED
  BY <1>2 DEF Injection

(* The candidates from the listing on: sorted, none of them seen inactive  *)
(* by this tick, and after the recheck all of them workable.               *)
PipeInv ==
    /\ candidates \in Seq(Issues) /\ overflow \in Seq(Issues)
    /\ pc \in {"claimable", "recheck", "dispatch"} =>
           /\ Sorted(Key, candidates)
           /\ \A i \in Range(candidates) : i \notin DOMAIN inactiveByID
           /\ candidates # <<>>
    /\ pc = "dispatch" => Range(candidates) \subseteq workable

(* A filter leaves the candidates as they were said to be.                 *)
LEMMA KeepPipes ==
    ASSUME PipeInv, pc \in {"claimable", "recheck"}, NEW S,
           candidates' = Keep(candidates, S), UNCHANGED <<inactiveByID, overflow>>
    PROVE  /\ candidates' \in Seq(Issues) /\ overflow' \in Seq(Issues)
           /\ Sorted(Key, candidates')
           /\ \A i \in Range(candidates') : i \notin DOMAIN inactiveByID'
           /\ Range(candidates') = Range(candidates) \cap S
<1>1. candidates \in Seq(Issues) /\ Sorted(Key, candidates)
  BY DEF PipeInv
<1>2. /\ Keep(candidates, S) \in Seq(Issues) /\ Sorted(Key, Keep(candidates, S))
      /\ Range(Keep(candidates, S)) = Range(candidates) \cap S
  BY <1>1, KeepIs, KeepSorts
<1>3. Range(candidates') = Range(candidates) \cap S
  BY <1>2, Zenon
<1> QED
  BY <1>2, <1>3 DEF PipeInv

(* The listing: merged with the overflow, filtered, sorted.                *)
LEMMA ListActivePipes == ASSUME PipeInv, ListActiveIssues PROVE PipeInv'
<1>1. PICK found \in Listings({i \in Issues : tracker[i].state \in ActiveStates}) :
          LET merged == mergeOverflowCandidates(overflow, found)
              wanted == Keep(merged, {i \in Range(merged) : Eligible(tracker[i])
                                                         /\ NotReconciled(i)})
          IN  /\ candidates' = sortCandidates(Key, wanted)
              /\ pc' = IF wanted = <<>> THEN "done" ELSE "claimable"
  BY DEF ListActiveIssues
<1>2. overflow' = <<>> /\ UNCHANGED <<inactiveByID, workable>>
  BY DEF ListActiveIssues, ghosts
<1>3. found \in Seq(Issues)
  <2> DEFINE A == {i \in Issues : tracker[i].state \in ActiveStates}
  <2>1. IsFiniteSet(A) /\ A \subseteq Issues
    BY IssuesAreFinite, FS_Subset
  <2> HIDE DEF A
  <2>2. found \in Seq(A)
    BY <1>1, <2>1, ListingIs DEF A
  <2> QED
    BY <2>1, <2>2
<1> DEFINE merged == mergeOverflowCandidates(overflow, found)
           good == {i \in Range(merged) : Eligible(tracker[i]) /\ NotReconciled(i)}
           wanted == Keep(merged, good)
<1>4. overflow \in Seq(Issues)
  BY DEF PipeInv
<1>5. merged \in Seq(Issues)
  BY <1>3, <1>4, MergeIs
<1>6. \A i \in good : i \notin DOMAIN inactiveByID
  BY DEF NotReconciled
<1>7. /\ candidates' = sortCandidates(Key, wanted)
      /\ pc' = IF wanted = <<>> THEN "done" ELSE "claimable"
  BY <1>1
<1> HIDE DEF merged, good
<1>8. wanted \in Seq(Issues) /\ Range(wanted) \subseteq good
  BY <1>5, KeepIs
<1> HIDE DEF wanted
<1> DEFINE c == sortCandidates(Key, wanted)
<1>9. /\ c \in Seq(Issues) /\ Len(c) = Len(wanted)
      /\ Range(c) = Range(wanted) /\ Sorted(Key, c)
  BY <1>8, SortIs, PollTickAssumption
<1> HIDE DEF c
<1>10. candidates' = c
  BY <1>7 DEF c
<1>11. wanted # <<>> => c # <<>>
  BY <1>8, <1>9
<1>12. \A i \in Range(c) : i \notin DOMAIN inactiveByID
  BY <1>6, <1>8, <1>9
<1>13. Sorted(Key, candidates') /\ \A i \in Range(candidates') : i \notin DOMAIN inactiveByID
  BY <1>9, <1>10, <1>12, Zenon
<1>14. candidates' \in Seq(Issues) /\ overflow' \in Seq(Issues)
  BY <1>2, <1>9, <1>10
<1>15. pc' \in {"claimable", "recheck", "dispatch"} => candidates' # <<>>
  BY <1>7, <1>10, <1>11
<1>16. pc' # "dispatch"
  BY <1>7
<1> QED
  BY <1>2, <1>13, <1>14, <1>15, <1>16 DEF PipeInv

(* The recheck: whoever passes it is workable.                             *)
LEMMA RecheckPipes ==
    ASSUME PipeInv, NotedInv, revalidateDispatchCandidates PROVE PipeInv'
<1>1. PICK outcome \in [Range(candidates) -> {"unknown", "absent", "current"}],
           blockersKnown \in BOOLEAN :
          /\ \A i \in Range(candidates) : outcome[i] \in Outcomes(i)
          /\ candidates' = Keep(candidates, {i \in Range(candidates) :
                 /\ outcome[i] = "current"
                 /\ RevalidatedEligible(
                        Revalidated(listed[i], tracker[i], blockersKnown))})
          /\ workable' = {i \in Range(candidates) :
                 /\ ~ Left(tracker[i])
                 /\ tracker[i].state \in ActiveStates
                 /\ tracker[i].state = "todo" =>
                        IF blockersKnown THEN ~ tracker[i].blocked
                        ELSE ~ listed[i].blocked}
  BY Zenon DEF revalidateDispatchCandidates
<1>2. /\ pc = "recheck" /\ UNCHANGED <<inactiveByID, overflow>>
      /\ pc' = IF candidates' = <<>> THEN "done" ELSE "dispatch"
  BY DEF revalidateDispatchCandidates
<1> DEFINE good == {i \in Range(candidates) :
                 /\ outcome[i] = "current"
                 /\ RevalidatedEligible(
                        Revalidated(listed[i], tracker[i], blockersKnown))}
<1>3. good \subseteq workable'
  <2> SUFFICES ASSUME NEW i \in Range(candidates), outcome[i] = "current",
                      RevalidatedEligible(Revalidated(listed[i], tracker[i], blockersKnown))
               PROVE  i \in workable'
    OBVIOUS
  <2>1. tracker[i] # Gone
    BY <1>1 DEF Outcomes
  <2>2. i \in Issues
    BY DEF PipeInv, Range
  <2>3. PICK r \in Row : r = tracker[i]
    BY <2>1, <2>2, PollTickAssumption DEF NotedInv
  <2>4. PICK b : b = IF blockersKnown THEN r.blocked ELSE listed[i].blocked
    OBVIOUS
  <2>5. RevalidatedEligible([r EXCEPT !.blocked = b])
    BY <2>3, <2>4 DEF Revalidated
  <2>6. /\ [r EXCEPT !.blocked = b].state = r.state
        /\ [r EXCEPT !.blocked = b].labelled = r.labelled
        /\ [r EXCEPT !.blocked = b].blocked = b
    BY DEF Row
  <2>7. r.state \in ActiveStates /\ r.labelled /\ ~ (r.state = "todo" /\ b)
    BY <2>5, <2>6, Zenon DEF RevalidatedEligible, isActiveTrackerState, Eligible,
       todoIssueBlockedByOpenDependency
  <2>8. ~ Left(tracker[i])
    BY <2>1, <2>3, <2>7, Zenon DEF Left, refreshedIssueIsInactive, isActiveTrackerState
  <2>9. tracker[i].state \in ActiveStates
    BY <2>3, <2>7
  <2>10. tracker[i].state = "todo" =>
             IF blockersKnown THEN ~ tracker[i].blocked ELSE ~ listed[i].blocked
    BY <2>3, <2>4, <2>7, Zenon
  <2> QED
    BY <1>1, <2>8, <2>9, <2>10
<1>4. candidates' = Keep(candidates, good)
  BY <1>1
<1> HIDE DEF good
<1>5. /\ candidates' \in Seq(Issues) /\ overflow' \in Seq(Issues)
      /\ Sorted(Key, candidates')
      /\ \A i \in Range(candidates') : i \notin DOMAIN inactiveByID'
      /\ Range(candidates') = Range(candidates) \cap good
  BY <1>2, <1>4, KeepPipes
<1>6. Range(candidates') \subseteq workable'
  BY <1>3, <1>5
<1> QED
  BY <1>2, <1>5, <1>6 DEF PipeInv

(* One candidate is taken off, and may go to the overflow.                 *)
LEMMA DispatchPipes == ASSUME PipeInv, DispatchOne PROVE PipeInv'
<1>1. /\ pc = "dispatch" /\ candidates' = Tail(candidates)
      /\ pc' = IF Len(candidates) = 1 THEN "done" ELSE "dispatch"
      /\ UNCHANGED <<inactiveByID, workable>>
      /\ overflow' = overflow \/ overflow' = Append(overflow, Head(candidates))
  BY DEF DispatchOne, ghosts
<1>2. /\ candidates \in Seq(Issues) /\ overflow \in Seq(Issues) /\ candidates # <<>>
      /\ Sorted(Key, candidates) /\ Range(candidates) \subseteq workable
      /\ \A i \in Range(candidates) : i \notin DOMAIN inactiveByID
  BY <1>1 DEF PipeInv
<1>3. Head(candidates) \in Issues /\ Tail(candidates) \in Seq(Issues)
  BY <1>2
<1>4. /\ Len(Tail(candidates)) = Len(candidates) - 1 /\ Len(candidates) \in Nat
      /\ \A n \in DOMAIN Tail(candidates) :
             /\ n \in Nat /\ n + 1 \in DOMAIN candidates
             /\ Tail(candidates)[n] = candidates[n + 1]
  BY <1>2
<1>5. Sorted(Key, Tail(candidates))
  BY <1>2, <1>4 DEF Sorted
<1>6. Range(Tail(candidates)) \subseteq Range(candidates)
  BY <1>4 DEF Range
<1>7. overflow' \in Seq(Issues)
  BY <1>1, <1>2, <1>3
<1>8. Len(candidates) # 1 => Tail(candidates) # <<>>
  <2>1. Len(candidates) # 0
    BY <1>2
  <2>2. Len(candidates) # 1 => Len(Tail(candidates)) # 0
    BY <1>4, <2>1
  <2> QED
    BY <2>2
<1>9. PICK t : t = Tail(candidates)
  OBVIOUS
<1>10. /\ candidates' = t /\ t \in Seq(Issues) /\ Sorted(Key, t)
       /\ Range(t) \subseteq Range(candidates) /\ (Len(candidates) # 1 => t # <<>>)
  BY <1>1, <1>3, <1>5, <1>6, <1>8, <1>9
<1>11. Sorted(Key, candidates') /\ Range(candidates') \subseteq Range(candidates)
  BY <1>10, Zenon
<1> QED
  BY <1>1, <1>2, <1>7, <1>10, <1>11 DEF PipeInv

(* Every step keeps the candidates as they were said to be.                *)
LEMMA PipeKept == ASSUME PipeInv, NotedInv, [Next]_vars PROVE PipeInv'
<1> USE DEF reads, ghosts
<1>1. CASE UNCHANGED <<candidates, overflow, inactiveByID, pc, workable>>
  BY <1>1 DEF PipeInv, Sorted, Range
<1>2. ASSUME NEW i \in Issues, Actor(i) PROVE PipeInv'
  BY <1>1, <1>2, Zenon DEF Actor, Register, Finish, Cancelled, Requeue, ContinuationDue,
     RetryDispatched, RetryReleased, Resume, Unbar, SetClaim, EndClaim
<1>3. ASSUME UNCHANGED <<candidates, overflow>>,
             pc' \notin {"claimable", "recheck", "dispatch"}
      PROVE  PipeInv'
  BY <1>3 DEF PipeInv
<1>4. CASE Begin \/ RefreshRunningIssueStates \/ ListTerminal \/ ListInactive
           \/ ReconcileInactive \/ ReconcileAbsent \/ NothingListed
  <2>1. UNCHANGED <<candidates, overflow>> /\ pc' \notin {"claimable", "recheck", "dispatch"}
    BY <1>4 DEF Begin, RefreshRunningIssueStates, ListTerminal, ListInactive, ListGroup,
       ReconcileInactive, ReconcileAbsent, NothingListed
  <2> QED
    BY <1>3, <2>1
<1>5. CASE claimableDispatchRefs
  <2>1. PICK S : candidates' = Keep(candidates, S)
    BY <1>5 DEF claimableDispatchRefs
  <2>2. /\ pc = "claimable" /\ UNCHANGED <<inactiveByID, overflow>>
        /\ pc' = IF candidates' = <<>> THEN "done" ELSE "recheck"
    BY <1>5 DEF claimableDispatchRefs
  <2>3. /\ candidates' \in Seq(Issues) /\ overflow' \in Seq(Issues)
        /\ Sorted(Key, candidates')
        /\ \A i \in Range(candidates') : i \notin DOMAIN inactiveByID'
    BY <2>1, <2>2, KeepPipes
  <2> QED
    BY <2>2, <2>3 DEF PipeInv
<1>6. CASE Return
  BY <1>6 DEF PipeInv, Return
<1> QED
  BY <1>1, <1>2, <1>4, <1>5, <1>6, ListActivePipes, RecheckPipes, DispatchPipes
  DEF Next, Tick, Change, Restore, vars

(* What is true of the candidates at every stage of every tick.            *)
THEOREM Piped == Spec => [](NotedInv /\ ClaimInv /\ PipeInv)
<1>1. Init => PipeInv /\ ClaimInv
  BY DEF Init, PipeInv, ClaimInv, Claims
<1>2. Spec => []NotedInv
  BY Noted
<1> QED
  BY <1>1, <1>2, PipeKept, ClaimKept, PTL DEF Spec

(* A start by the tick takes the first of the candidates.                  *)
LEMMA StartsHead ==
    ASSUME PipeInv, ClaimInv, [Next]_vars, NEW i \in Issues, StartedByTick(i)
    PROVE  i = Head(candidates) /\ i \in Range(candidates)
<1> USE DEF reads, ghosts
<1>1. pc = "dispatch" /\ claim'[i] # claim[i] /\ candidates' # candidates
  BY DEF StartedByTick
<1>2. ASSUME NEW j \in Issues, Actor(j) PROVE FALSE
  BY <1>1, <1>2, Zenon DEF Actor, Register, Finish, Cancelled, Requeue, ContinuationDue,
     RetryDispatched, RetryReleased, Resume, Unbar, SetClaim, EndClaim
<1>3. Tick
  BY <1>1, <1>2 DEF Next, Change, Restore, vars
<1>4. DispatchOne
  BY <1>1, <1>3, Zenon DEF Tick, Begin, RefreshRunningIssueStates, ListTerminal,
     ListInactive, ListGroup, ReconcileInactive, ReconcileAbsent, NothingListed,
     ListActiveIssues, claimableDispatchRefs, revalidateDispatchCandidates, Return
<1>5. claim' = claim \/ \E c : claim' = [claim EXCEPT ![Head(candidates)] = c]
  BY <1>4 DEF DispatchOne
<1>6. i = Head(candidates)
  BY <1>1, <1>5 DEF ClaimInv
<1>7. candidates \in Seq(Issues) /\ candidates # <<>>
  BY <1>1 DEF PipeInv
<1>8. 1 \in DOMAIN candidates /\ Head(candidates) = candidates[1]
  BY <1>7
<1> QED
  BY <1>6, <1>8 DEF Range

(* Whatever the tick starts was active, labelled and not blocked when it   *)
(* was asked for by id just before (revalidateDispatchCandidates).         *)
THEOREM TickStartsWorkable == Spec => StartedWasWorkable
<1>1. ASSUME PipeInv, ClaimInv, [Next]_vars, NEW i \in Issues, StartedByTick(i)
      PROVE  i \in workable
  BY <1>1, StartsHead DEF PipeInv, StartedByTick
<1>2. PipeInv /\ ClaimInv /\ [Next]_vars =>
          [\A i \in Issues : StartedByTick(i) => i \in workable]_vars
  BY <1>1
<1> QED
  BY <1>2, Piped, PTL DEF Spec, StartedWasWorkable

(* What the tick has seen inactive it does not start, even if it is listed *)
(* as active later (filterIssuesNotInMap).                                 *)
THEOREM TickStartsNoInactive == Spec => ReconciledIsNotStarted
<1>1. ASSUME PipeInv, ClaimInv, [Next]_vars, NEW i \in Issues, StartedByTick(i)
      PROVE  i \notin DOMAIN inactiveByID
  BY <1>1, StartsHead DEF PipeInv, StartedByTick
<1>2. PipeInv /\ ClaimInv /\ [Next]_vars =>
          [\A i \in Issues : StartedByTick(i) => i \notin DOMAIN inactiveByID]_vars
  BY <1>1
<1> QED
  BY <1>2, Piped, PTL DEF Spec, ReconciledIsNotStarted

(* The tick starts no issue while a better one is still waiting, whatever  *)
(* the last tick left over (sortCandidates, mergeOverflowCandidates).      *)
THEOREM TickStartsBest == Spec => BetterIsTriedFirst
<1>1. ASSUME PipeInv, ClaimInv, [Next]_vars, NEW i \in Issues, StartedByTick(i),
             NEW k \in Range(candidates)
      PROVE  ~ sortsBefore(Key[k], Key[i])
  <2>1. /\ candidates \in Seq(Issues) /\ candidates # <<>> /\ Sorted(Key, candidates)
        /\ i = Head(candidates)
    BY <1>1, StartsHead DEF PipeInv, StartedByTick
  <2>2. PICK n \in DOMAIN candidates : k = candidates[n]
    BY DEF Range
  <2>3. 1 \in DOMAIN candidates /\ i = candidates[1] /\ n \in Nat /\ (n = 1 \/ 1 < n)
    BY <2>1
  <2>4. CASE n = 1
    <3>1. Key[i] \in SortKey
      BY PollTickAssumption
    <3> QED
      BY <2>2, <2>3, <2>4, <3>1, SortsBeforeOrders
  <2>5. CASE 1 < n
    BY <2>1, <2>2, <2>3, <2>5 DEF Sorted
  <2> QED
    BY <2>3, <2>4, <2>5
<1>2. PipeInv /\ ClaimInv /\ [Next]_vars =>
          [\A i \in Issues : StartedByTick(i) =>
              \A k \in Range(candidates) : ~ sortsBefore(Key[k], Key[i])]_vars
  BY <1>1
<1> QED
  BY <1>2, Piped, PTL DEF Spec, BetterIsTriedFirst
-----------------------------------------------------------------------------
(* The candidate pipeline on its own, for every tracker: any priorities,   *)
(* any creation times.                                                     *)

(* The order the service promises is the one the comparison computes.      *)
LEMMA BetterIs ==
    ASSUME sortKey \in [Issues -> SortKey], NEW i \in Issues, NEW j \in Issues
    PROVE  Better(i, j) <=> sortsBefore(sortKey[i], sortKey[j])
<1>1. PICK k \in SortKey, l \in SortKey : k = sortKey[i] /\ l = sortKey[j]
  OBVIOUS
<1>2. /\ k.priority \in Int /\ k.created \in Nat /\ k.identifier \in Nat
      /\ l.priority \in Int /\ l.created \in Nat /\ l.identifier \in Nat
  BY DEF SortKey
<1> DEFINE p == prioritySortKey(k.priority)
           q == prioritySortKey(l.priority)
           older == \/ k.created # 0 /\ l.created = 0
                    \/ k.created # 0 /\ k.created < l.created
<1>3. /\ p < q <=> \/ k.priority \in 1..4 /\ l.priority \notin 1..4
                   \/ /\ k.priority \in 1..4 /\ l.priority \in 1..4
                      /\ k.priority < l.priority
      /\ p = q <=> /\ k.priority \in 1..4 <=> l.priority \in 1..4
                   /\ k.priority \in 1..4 => k.priority = l.priority
  BY <1>2 DEF prioritySortKey
<1>4. createdBefore(k.created, l.created) <=> older
  BY <1>2 DEF createdBefore
<1> HIDE DEF older
<1>5. sortsBefore(k, l) <=>
          \/ p < q
          \/ p = q /\ older
          \/ p = q /\ k.created = l.created /\ k.identifier < l.identifier
  BY <1>4, Zenon DEF sortsBefore
<1> HIDE DEF p, q
<1>6. Better(i, j) <=>
          \/ p < q
          \/ p = q /\ (older \/ (k.created = l.created /\ k.identifier < l.identifier))
  BY <1>1, <1>3 DEF Better, Ranked, older
<1> QED
  BY <1>1, <1>5, <1>6

(* The pipeline holds what it was given and what it made of it.            *)
MadeInv ==
    /\ sortKey \in Keys
    /\ fetched \in Seq(Issues) /\ IsInjective(fetched)
    /\ leftover \in Seq(Issues) /\ IsInjective(leftover)
    /\ joined \in {<<>>, mergeOverflowCandidates(leftover, fetched)}
    /\ ordered # <<>> =>
           ordered = sortCandidates(sortKey, mergeOverflowCandidates(leftover, fetched))

THEOREM Made == OrderSpec => []MadeInv
<1>1. OrderInit => MadeInv
  BY ListingIs, IssuesAreFinite DEF OrderInit, MadeInv
<1>2. ASSUME MadeInv, [OrderNext]_orderVars PROVE MadeInv'
  <2>1. CASE Merge
    BY <1>2, <2>1 DEF Merge, MadeInv, IsInjective, Keys
  <2>2. CASE Sort
    BY <1>2, <2>2 DEF Sort, MadeInv, IsInjective, Keys
  <2>3. CASE UNCHANGED orderVars
    BY <1>2, <2>3 DEF orderVars, MadeInv, IsInjective, Keys
  <2> QED
    BY <1>2, <2>1, <2>2, <2>3 DEF OrderNext
<1> QED
  BY <1>1, <1>2, PTL DEF OrderSpec

(* What the pipeline makes is sorted and holds what is listed.             *)
LEMMA MadeIs ==
    ASSUME MadeInv, NEW m, m = mergeOverflowCandidates(leftover, fetched),
           NEW c, c = sortCandidates(sortKey, m)
    PROVE  /\ DistinctKeys(Issues, sortKey)
           /\ c \in Seq(Issues) /\ Range(c) = Range(fetched) /\ Sorted(sortKey, c) /\ IsInjective(c)
<1>1. DistinctKeys(Issues, sortKey)
  <2>1. Cardinality(Issues) \in Nat
    BY IssuesAreFinite, FS_CardinalityType
  <2>2. [priority : Priorities, created : Created, identifier : 1..Cardinality(Issues)]
            \subseteq SortKey
    <3>1. 1..Cardinality(Issues) \subseteq Nat
      BY <2>1
    <3> QED
      BY <3>1, SortKeys, Zenon DEF SortKey
  <2>3. DOMAIN sortKey = Issues /\ \A i \in Issues : sortKey[i] \in SortKey
    BY <2>2 DEF MadeInv, Keys
  <2>4. \A i, j \in Issues : i # j => sortKey[i].identifier # sortKey[j].identifier
    BY DEF MadeInv, Keys
  <2>5. sortKey = [i \in Issues |-> sortKey[i]]
    BY DEF MadeInv, Keys
  <2> QED
    BY <2>3, <2>4, <2>5 DEF DistinctKeys
<1>2. /\ fetched \in Seq(Issues) /\ IsInjective(fetched)
      /\ leftover \in Seq(Issues) /\ IsInjective(leftover)
  BY DEF MadeInv
<1>3. m \in Seq(Issues) /\ Range(m) = Range(fetched) /\ IsInjective(m)
  BY <1>2, MergeIs
<1>4. sortKey \in [Issues -> SortKey]
  BY <1>1 DEF DistinctKeys
<1> QED
  BY <1>1, <1>3, <1>4, SortIs

(* The place of every candidate is decided by the listed issues that are   *)
(* better than it is, for any number of issues (sortCandidates).           *)
THEOREM CandidatesArePlaced == OrderSpec => []PlacedByRank
<1>1. ASSUME MadeInv PROVE PlacedByRank
  <2> SUFFICES ASSUME NEW n \in DOMAIN ordered
               PROVE  n = 1 + Cardinality({i \in Range(fetched) : Better(i, ordered[n])})
    BY DEF PlacedByRank
  <2>1. PICK m, c : /\ m = mergeOverflowCandidates(leftover, fetched)
                    /\ c = sortCandidates(sortKey, m)
    OBVIOUS
  <2>2. ordered = c
    BY <1>1, <2>1 DEF MadeInv
  <2>3. /\ DistinctKeys(Issues, sortKey)
        /\ c \in Seq(Issues) /\ Range(c) = Range(fetched) /\ Sorted(sortKey, c) /\ IsInjective(c)
    BY <1>1, <2>1, MadeIs
  <2>4. sortKey \in [Issues -> SortKey] /\ Range(fetched) \subseteq Issues /\ c[n] \in Issues
    BY <2>2, <2>3 DEF DistinctKeys, Range
  <2>5. {i \in Range(c) : sortsBefore(sortKey[i], sortKey[c[n]])}
            = {i \in Range(fetched) : Better(i, c[n])}
    BY <2>3, <2>4, BetterIs
  <2>6. n = 1 + Cardinality({i \in Range(c) : sortsBefore(sortKey[i], sortKey[c[n]])})
    BY <2>2, <2>3, PlacedIs
  <2> QED
    BY <2>2, <2>5, <2>6, Zenon
<1> QED
  BY <1>1, Made, PTL

(* What the last tick left over changes neither which issues are tried nor *)
(* their order, for any number of issues (mergeOverflowCandidates).        *)
THEOREM OverflowAddsNothing == OrderSpec => []OverflowIsRedundant
<1>1. ASSUME MadeInv PROVE OverflowIsRedundant
  <2> SUFFICES ASSUME ordered # <<>> PROVE ordered = sortCandidates(sortKey, fetched)
    BY DEF OverflowIsRedundant
  <2>1. PICK m, c : /\ m = mergeOverflowCandidates(leftover, fetched)
                    /\ c = sortCandidates(sortKey, m)
    OBVIOUS
  <2>2. ordered = c
    BY <1>1, <2>1 DEF MadeInv
  <2>3. /\ DistinctKeys(Issues, sortKey)
        /\ c \in Seq(Issues) /\ Range(c) = Range(fetched) /\ Sorted(sortKey, c) /\ IsInjective(c)
    BY <1>1, <2>1, MadeIs
  <2>4. PICK d : d = sortCandidates(sortKey, fetched)
    OBVIOUS
  <2>5. sortKey \in [Issues -> SortKey] /\ fetched \in Seq(Issues) /\ IsInjective(fetched)
    BY <1>1, <2>3 DEF MadeInv, DistinctKeys
  <2>6. d \in Seq(Issues) /\ Range(d) = Range(fetched) /\ Sorted(sortKey, d) /\ IsInjective(d)
    BY <2>4, <2>5, SortIs
  <2>7. c = d
    BY <2>3, <2>6, SortedIsUnique
  <2> QED
    BY <2>2, <2>4, <2>7
<1> QED
  BY <1>1, Made, PTL
=============================================================================
