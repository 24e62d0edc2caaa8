------------------------------ MODULE TrackerTools ------------------------------
(***************************************************************************)
(* The tools that let the agent change its own issue, and what the worker  *)
(* makes of the changes.                                                   *)
(*                                                                         *)
(* A tool call is several requests to the tracker: any of them may be      *)
(* refused, may take effect though its answer is lost, and may be overtaken*)
(* by an operator who edits the same issue.  A call that moved the issue   *)
(* out of the active states is recorded with the run as the agent's own    *)
(* handoff; the poll loop, which reads the tracker at its own pace, uses   *)
(* that record to tell a handoff from an operator's stop, and latches the  *)
(* issue after a stop.                                                     *)
(*                                                                         *)
(* A workflow has one tracker and so one set of tools; kind says which, and*)
(* "workpad" is the Linear tool for the workpad comment, whose state the   *)
(* others do not share.  The agent makes one call at a time (handleToolCall*)
(* answers before the next line is read).                                  *)
(***************************************************************************)
EXTENDS Naturals, Sequences, SequencesExt, FiniteSetsExt

CONSTANTS Kinds,     \* tools to check: "gitea", "linear", "workpad"
          Priority,  \* states, which are also labels, the strongest first
          LabelsUsed,    \* the states that are used as labels on Gitea
          Active,    \* active_states of the workflow
          Terminal,  \* terminal_states of the workflow
          None,      \* no state
          PageSize,      \* comments the workpad lookup gets per page
          MaxPages,      \* linearWorkpadMaxLookupPages
          MaxComments    \* bound on the comments of the issue

States == ToSet(Priority)

Nothing == "nothing"
Missing == "missing"

ASSUME StateSets ==
  /\ Priority \in Seq(States) /\ Active \subseteq States /\ Terminal \subseteq States
  /\ Active \cap Terminal = {} /\ LabelsUsed \subseteq States
  /\ None \notin States /\ Nothing \notin States /\ Missing \notin States
ASSUME PageBounds == PageSize \in Nat \ {0} /\ MaxPages \in Nat \ {0}

VARIABLES
  kind,
  labels,    \* the issue's state labels in the tracker; Linear: one state
  comments,  \* the issue's comments: "workpad" or "other"
  call,      \* the tool call in progress
  run,       \* the issue's entry in Running
  latch,     \* an operator terminal stop is recorded
  seen,      \* what the poll loop has read and not yet applied
  written,   \* terminal states that calls of this run asked for, or had found
             \* on the issue, when they wrote it
  handed     \* terminal state recorded as handed off that nobody has undone

toolVars == <<labels, comments, call>>
ghosts == <<written, handed>>
vars == <<kind, toolVars, run, latch, seen, ghosts>>

(* Several labels stand for the strongest one.                             *)
IssueStateFromLabels(L) ==
  LET hits == {n \in DOMAIN Priority : Priority[n] \in L}
  IN  IF hits = {} THEN None ELSE Priority[Min(hits)]

State == IssueStateFromLabels(labels)

(* What a call has been, as marks.  calm: since it read the labels nobody  *)
(* else has changed them and no answer was lost.  late: the issue was      *)
(* latched when the update landed.                                         *)
CallMarks == {"close", "wrote", "replaced", "handoff", "late", "found", "calm"}
NoCall == [step |-> "idle", wants |-> <<>>, left |-> <<>>, read |-> {}, gone |-> {},
           owned |-> None, page |-> 0, marks |-> {}]
Is(mark) == mark \in call.marks

(* stopped: reconciliation has decided to cancel; cancelled: it has.       *)
RunMarks == {"live", "stopped", "cancelled", "handoff"}
NoRun == [owned |-> None, exit |-> None, marks |-> {}]
NewRun == [NoRun EXCEPT !.marks = {"live"}]
Live == "live" \in run.marks
Stopped == "stopped" \in run.marks
Cancelled == "cancelled" \in run.marks

Calls ==
  [step : {"idle", "read", "add", "delete", "close", "restore", "audit", "guard", "send",
           "lookup", "record", "find", "write"},
   wants : Seq(States), left : Seq(States), read : SUBSET States, gone : SUBSET States,
   owned : Terminal \cup {None}, page : Nat, marks : SUBSET CallMarks]
Runs ==
  [owned : Terminal \cup {None}, exit : States \cup {None}, marks : SUBSET RunMarks]

TypeOK ==
  /\ kind \in Kinds
  /\ labels \subseteq States
  /\ comments \in Seq({"workpad", "other"})
  /\ call \in Calls
  /\ run \in Runs
  /\ latch \in BOOLEAN
  /\ seen \in States \cup {Nothing, Missing}
  /\ written \subseteq Terminal
  /\ handed \in Terminal \cup {None}

Init ==
  /\ kind \in Kinds
  /\ labels \in IF kind = "gitea" THEN SUBSET LabelsUsed ELSE {{s} : s \in States}
  /\ State \in Active
  /\ comments \in IF kind = "workpad" THEN SeqOf({"other"}, MaxComments) ELSE {<<>>}
  /\ call = NoCall
  /\ run = NewRun
  /\ latch = FALSE
  /\ seen = Nothing
  /\ written = {}
  /\ handed = None
-----------------------------------------------------------------------------
(* gitea_issue_labels: replace the state label, perhaps close the issue.   *)

Idle == call.step = "idle" /\ Live /\ run.exit = None
Goto(step) == call' = [call EXCEPT !.step = step]
End == call' = NoCall

Desired == call.wants[1]
Stale == call.read \ ({Desired} \cup call.gone)

(* A write of the call took effect: the issue's labels become L.           *)
Lands(L) ==
  /\ labels' = L
  /\ written' = written \cup (Terminal \cap (ToSet(call.wants) \cup call.read))

(* Only a terminal label may close the issue.                              *)
CallLabels(want, close) ==
  /\ kind = "gitea" /\ Idle
  /\ close => want \in Terminal
  /\ call' = [NoCall EXCEPT !.step = "read", !.wants = <<want>>,
                            !.marks = IF close THEN {"close"} ELSE {}]
  /\ UNCHANGED <<labels, comments, written>>

ReadLabels ==
  /\ call.step = "read"
  /\ \/ call' = [call EXCEPT !.step = "add", !.read = labels,
                             !.marks = @ \cup {"calm"}]
     \/ End
  /\ UNCHANGED <<labels, comments, written>>

(* A failed or unconfirmed add ends the call before any audit.             *)
AddDesired ==
  /\ call.step = "add"
  /\ \/ /\ Desired \in call.read
        /\ Goto("delete")
        /\ UNCHANGED <<labels, written>>
     \/ /\ Desired \notin call.read
        /\ call' = [call EXCEPT !.step = "delete", !.marks = @ \cup {"wrote"}]
        /\ Lands(labels \cup {Desired})
     \/ /\ Desired \notin call.read
        /\ End
        /\ UNCHANGED <<labels, written>>
     \/ /\ Desired \notin call.read
        /\ End
        /\ Lands(labels \cup {Desired})
  /\ UNCHANGED comments

(* Stale labels go one at a time; one that is gone already is as good as   *)
(* deleted.  The first failure ends the replacement.                       *)
DeleteStale ==
  /\ call.step = "delete"
  /\ \/ /\ Stale = {}
        /\ call' = [call EXCEPT !.step = IF Is("close") THEN "close" ELSE "audit",
                                !.marks = @ \cup {"replaced"}]
        /\ UNCHANGED <<labels, written>>
     \/ \E l \in Stale :
          \/ /\ Lands(labels \ {l})
             /\ call' = [call EXCEPT !.gone = @ \cup {l}]
          \/ /\ Goto("audit")
             /\ UNCHANGED <<labels, written>>
          \/ /\ Lands(labels \ {l})
             /\ call' = [call EXCEPT !.step = "audit", !.marks = @ \ {"calm"}]
  /\ UNCHANGED comments

(* From here on a cancelled run does not stop the call.  Whether the issue *)
(* is open is nothing the other steps look at.                             *)
CloseIssue ==
  /\ call.step = "close"
  /\ Goto("audit") \/ Goto("restore")
  /\ UNCHANGED <<labels, comments, written>>

(* Mutant: the restored labels still count as deleted.                     *)
RestoredButGone(c) == [c EXCEPT !.marks = @ \ {"replaced"}]

(* What the audit is told after the deleted labels were put back.          *)
Restored(c) == [c EXCEPT !.gone = {}, !.marks = @ \ {"replaced"}]

(* The issue could not be closed: put the deleted labels back.             *)
RestoreLabels ==
  /\ call.step = "restore"
  /\ \/ /\ labels' = labels \cup call.gone
        /\ call' = [Restored(call) EXCEPT !.step = "audit"]
     \/ /\ call.gone # {}
        /\ Goto("audit")
        /\ UNCHANGED labels
     \/ /\ call.gone # {}
        /\ labels' = labels \cup call.gone
        /\ call' = [call EXCEPT !.step = "audit", !.marks = @ \ {"calm"}]
  /\ UNCHANGED <<comments, written>>

PostWriteState(c) == IssueStateFromLabels((c.read \ c.gone) \cup {c.wants[1]})

(* The call moved the issue out of the active states.                      *)
ClassifyLabelMutation(c) ==
  /\ IssueStateFromLabels(c.read) \in Active
  /\ PostWriteState(c) \notin Active

(* A call that wrote nothing is not audited; one that failed half-way is   *)
(* audited only if it moved the issue out of the active states.            *)
FireMutationAudit ==
  /\ call.step = "audit"
  /\ LET handoff == ClassifyLabelMutation(call)
         fires == /\ Is("wrote") \/ call.gone # {}
                  /\ Is("replaced") \/ handoff
     IN  call' = IF fires
                 THEN [NoCall EXCEPT !.step = "record",
                         !.marks = IF handoff THEN {"handoff"} ELSE {},
                         !.owned = IF handoff /\ PostWriteState(call) \in Terminal
                                   THEN PostWriteState(call) ELSE None]
                 ELSE NoCall
  /\ UNCHANGED <<labels, comments, written>>
-----------------------------------------------------------------------------
(* linear_graphql: a document with issueUpdates of the current issue.      *)

CallUpdate(wants) ==
  /\ kind = "linear" /\ Idle
  /\ call' = [NoCall EXCEPT !.step = "guard", !.wants = wants, !.left = wants]
  /\ UNCHANGED <<labels, comments, written>>

(* The terminal state the call will be recorded with.  The workflow's      *)
(* states may fail to be looked up, but not once they have been.           *)
TerminalState(want) ==
  IF want \notin Terminal THEN {call.owned}
  ELSE {want} \cup (IF call.owned = None THEN {None} ELSE {})

(* The guard of the update at the head: the issue must be known to be      *)
(* active and not latched, the target must not be active.                  *)
CheckCurrentIssueUpdate ==
  /\ call.step = "guard"
  /\ \/ /\ ~ latch /\ State \in Active
        /\ call.left[1] \notin Active
        /\ \E owned \in TerminalState(call.left[1]) :
             call' = [call EXCEPT !.left = Tail(@), !.owned = owned,
                                  !.marks = @ \cup {"handoff"},
                                  !.step = IF Len(call.left) = 1 THEN "send" ELSE @]
     \/ End
  /\ UNCHANGED <<labels, comments, written>>

(* The document is sent.  When it is refused, or its answer is lost, part  *)
(* of it may have taken effect and nothing is audited.                     *)
SendUpdate ==
  /\ call.step = "send"
  /\ \/ /\ Lands({Last(call.wants)})
        /\ call' = [call EXCEPT !.step = "lookup",
                                !.marks = @ \cup (IF latch THEN {"late"} ELSE {})]
     \/ /\ End
        /\ UNCHANGED <<labels, written>>
     \/ /\ End
        /\ \E w \in ToSet(call.wants) : Lands({w})
  /\ UNCHANGED comments

(* Mutant: the latch is not looked at.                                     *)
PostOperatorTerminalStopNever == FALSE

PostOperatorTerminalStop == latch

(* A write after an operator's stop is reported as such and is no handoff. *)
(* A lookup that fails, on a cancelled context, counts as no stop.         *)
LookupStop ==
  /\ call.step = "lookup"
  /\ \/ PostOperatorTerminalStop /\ End
     \/ (~ PostOperatorTerminalStop \/ Cancelled) /\ Goto("record")
  /\ UNCHANGED <<labels, comments, written>>

(* Both tools: the event reaches the actor, unless the run's context is    *)
(* cancelled and the hand-over to the actor gives up.                      *)
RecordHandoff ==
  /\ call.step = "record"
  /\ End
  /\ \/ /\ run' = [run EXCEPT !.marks = @ \cup ({"handoff"} \cap call.marks),
                              !.owned = IF call.owned = None THEN @ ELSE call.owned]
        /\ handed' = IF call.owned # None /\ State = call.owned THEN call.owned ELSE handed
     \/ Cancelled /\ UNCHANGED <<run, handed>>
  /\ UNCHANGED <<labels, comments, written>>
-----------------------------------------------------------------------------
(* linear_ai_workpad: find the workpad comment, update or create it.       *)

CallWorkpad ==
  /\ kind = "workpad" /\ Idle
  /\ call' = [NoCall EXCEPT !.step = "find"]
  /\ UNCHANGED <<labels, comments, written>>

PageOf(n) == {c \in DOMAIN comments : n * PageSize < c /\ c <= (n + 1) * PageSize}

(* Mutant: only the first page is searched.                                *)
FirstPageIsLast(n) == TRUE

LastPage(n) == (n + 1) * PageSize >= Len(comments)

FindComment ==
  /\ call.step = "find"
  /\ LET here == \E c \in PageOf(call.page) : comments[c] = "workpad"
     IN  \/ /\ here \/ LastPage(call.page)
            /\ call' = [call EXCEPT !.step = "write",
                                   !.marks = IF here THEN {"found"} ELSE {}]
         \/ /\ ~ here /\ ~ LastPage(call.page)
            /\ call.page + 1 < MaxPages
            /\ call' = [call EXCEPT !.page = @ + 1]
         \/ End
  /\ UNCHANGED <<labels, comments, written>>

(* An update changes no comment's kind.  A create may land unanswered.     *)
WriteComment ==
  /\ call.step = "write"
  /\ End
  /\ comments' \in {comments} \cup (IF Is("found") THEN {} ELSE {Append(comments, "workpad")})
  /\ UNCHANGED <<labels, written>>
-----------------------------------------------------------------------------
(* The operator.                                                           *)

Edit(L) ==
  /\ labels' = L
  /\ L # labels
  /\ call' = [call EXCEPT !.marks = @ \ {"calm"}]
  /\ handed' = None
  /\ UNCHANGED <<kind, comments, run, latch, seen, written>>

OperatorEdits ==
  \/ kind = "gitea" /\ \E l \in LabelsUsed : Edit(labels \cup {l}) \/ Edit(labels \ {l})
  \/ kind = "linear" /\ \E s \in States : Edit({s})

OperatorComments ==
  /\ kind = "workpad"
  /\ \/ Len(comments) < MaxComments /\ comments' = Append(comments, "other")
     \/ \E n \in DOMAIN comments :
          comments[n] = "workpad" /\ comments' = RemoveAt(comments, n)
  /\ UNCHANGED <<kind, labels, call, run, latch, seen, ghosts>>
-----------------------------------------------------------------------------
(* The worker: the poll loop's reconciliation, the run's end, the next run.*)

Tracked == kind # "workpad"

(* The poll loop reads the issue and only later hands it to the actor.     *)
Observe ==
  /\ Tracked /\ Live /\ seen = Nothing
  /\ Stopped => Cancelled
  /\ seen' = IF State = None THEN Missing ELSE State
  /\ UNCHANGED <<kind, toolVars, run, latch, ghosts>>

(* Mutant: any recorded terminal handoff will do.                          *)
OwnsAnyTerminal(s) == run.owned # None

AgentOwnedTerminalStateMatches(s) == run.owned = s

Reconcile ==
  /\ seen # Nothing
  /\ seen' = Nothing
  /\ IF ~ Live
     THEN UNCHANGED <<run, latch>>
     ELSE \/ /\ seen \in Active
             /\ run' = [run EXCEPT !.marks = @ \ {"handoff"}, !.owned = None]
             /\ UNCHANGED latch
          \/ /\ seen \in Terminal
             /\ run' = [run EXCEPT !.marks = @ \cup {"stopped"}]
             /\ latch' = (latch \/ ~ AgentOwnedTerminalStateMatches(seen))
          \/ /\ seen \in States \ (Active \cup Terminal)
             /\ run' = [run EXCEPT !.marks = @ \cup {"stopped"}, !.owned = None]
             /\ UNCHANGED latch
          \/ /\ seen = Missing
             /\ run' = [run EXCEPT !.marks = (@ \ {"handoff"}) \cup {"stopped"},
                                     !.owned = None]
             /\ UNCHANGED latch
  /\ UNCHANGED <<kind, toolVars, ghosts>>

(* reconcileCancelFollowup: the context is cancelled after the decision was *)
(* applied, and the poll loop waits for that.                               *)
CancelWorker ==
  /\ Stopped /\ ~ Cancelled
  /\ run' = [run EXCEPT !.marks = @ \cup {"cancelled"}]
  /\ UNCHANGED <<kind, toolVars, latch, seen, ghosts>>

(* Between turns the runner asks whether the issue is still active: the    *)
(* latch answers before the tracker does.                                  *)
SelfStop ==
  /\ Tracked /\ Idle
  /\ \E s \in IF latch THEN Terminal ELSE {State} \ (Active \cup {None}) :
       run' = [run EXCEPT !.exit = s]
  /\ UNCHANGED <<kind, toolVars, latch, seen, ghosts>>

(* The worker has returned: a run that stopped itself in a terminal state  *)
(* the agent did not hand off latches the issue.                           *)
Finalize ==
  /\ Tracked /\ Live /\ call.step = "idle"
  /\ run' = NoRun
  /\ latch' = (latch \/ (/\ run.exit \in Terminal
                         /\ ~ AgentOwnedTerminalStateMatches(run.exit)))
  /\ UNCHANGED <<kind, toolVars, seen, ghosts>>

Dispatch ==
  /\ Tracked /\ ~ Live /\ ~ latch
  /\ State \in Active
  /\ run' = NewRun
  /\ written' = {}
  /\ handed' = None
  /\ UNCHANGED <<kind, toolVars, latch, seen>>

(* A tool call only ever touches the tracker, until it is recorded.        *)
Tool ==
  /\ \/ \E want \in LabelsUsed, close \in BOOLEAN : CallLabels(want, close)
     \/ ReadLabels
     \/ AddDesired
     \/ DeleteStale
     \/ CloseIssue
     \/ RestoreLabels
     \/ FireMutationAudit
     \/ \E wants \in SeqOf(States, 2) \ {<<>>} : CallUpdate(wants)
     \/ CheckCurrentIssueUpdate
     \/ SendUpdate
     \/ LookupStop
     \/ CallWorkpad
     \/ FindComment
     \/ WriteComment
  /\ UNCHANGED <<kind, run, latch, seen, handed>>

Next ==
  \/ Tool
  \/ RecordHandoff /\ UNCHANGED <<kind, latch, seen>>
  \/ OperatorEdits
  \/ OperatorComments
  \/ Observe
  \/ Reconcile
  \/ CancelWorker
  \/ SelfStop
  \/ Finalize
  \/ Dispatch

Spec == Init /\ [][Next]_vars
-----------------------------------------------------------------------------
(* A label call that was not disturbed audits what it did to the issue,    *)
(* whichever of its requests failed: it is a handoff exactly if the issue  *)
(* really went from an active to another state, and the state it would be  *)
(* recorded with is the one the tracker now has (classifyLabelMutation     *)
(* after deleteStaleStateLabels and closeIssueAfterLabelReplace).          *)
AuditMatchesServer ==
  call.step = "audit" /\ Is("calm") =>
    /\ ClassifyLabelMutation(call) <=>
         IssueStateFromLabels(call.read) \in Active /\ State \notin Active
    /\ PostWriteState(call) = State

(* An update that Linear accepted after the operator's stop was recorded   *)
(* does not count as the agent's handoff (postOperatorTerminalStop), as    *)
(* long as the run's context is alive: on a cancelled one the lookup of the*)
(* stop may fail, and the worker then takes the issue for not stopped.     *)
PostStopWritesDontCount ==
  [][Is("late") /\ ~ Cancelled =>
        /\ "handoff" \in run'.marks => "handoff" \in run.marks
        /\ run'.owned \in {run.owned, None}]_vars

(* A closed issue escapes the latch only if a call of this very run wrote  *)
(* the issue, and asked for that very state or left it standing: an        *)
(* operator's stop in another state is never taken for a handoff, in       *)
(* whichever order requests, edits, reads and records fall                 *)
(* (reconcileInactiveRun, agentOwnedTerminalStateMatches).                 *)
MaskedStopWasAgents ==
  [][Live /\ seen \in Terminal /\ seen' = Nothing /\ ~ latch' => seen \in written]_vars

(* However often the tool is called, whichever answers are lost, the issue *)
(* has at most one workpad (findLinearWorkpadCommentID, linearWorkpadProxy *)
(* .call).                                                                 *)
OneWorkpad == Cardinality({n \in DOMAIN comments : comments[n] = "workpad"}) <= 1

(* D35: "Agent-owned terminal handoffs still clean the workspace and do    *)
(* not queue continuation, but they do not latch/suppress later            *)
(* intentional rework."  Reading the state of a handoff that was recorded, *)
(* and that nobody has undone in the tracker, does not latch the issue.    *)
RecordedHandoffIsNotLatched ==
  [][~ latch /\ latch' /\ handed # None =>
        handed # (IF seen' # seen THEN seen ELSE run.exit)]_vars
=============================================================================
