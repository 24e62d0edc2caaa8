------------------------------- MODULE Workspaces -------------------------------
(***************************************************************************)
(* The git workspace of an issue and the run attempt that works in it.     *)
(*                                                                         *)
(* A worker process prepares a workspace (a worktree of a bare mirror      *)
(* shared by everything that clones the same repository), runs hooks and   *)
(* the agent in it, and removes it when the issue is closed.  Processes    *)
(* crash between any two steps, every git command and every hook may fail, *)
(* the operator may restart a process with another workspace root, and two *)
(* processes with different roots may share a mirror.                      *)
(*                                                                         *)
(* One run attempt per issue and process: the orchestrator's claims give   *)
(* that (OneWorkerPerIssue, CleanupIsExclusive of module Orchestrator).    *)
(***************************************************************************)
EXTENDS Naturals, FiniteSets

CONSTANTS Procs,    \* worker processes that share the mirror
          Roots,    \* values workspace.root takes over time; disjoint trees
          Issues,   \* issues; each one has its own work branch
          NoRun,    \* nobody holds a lock
          NoRoot,   \* the branch is not checked out in any worktree
          RunnerErrors  \* kinds of error a runner returns here

ASSUME NullsAreNew == NoRun \notin Procs \X Issues /\ NoRoot \notin Roots
ASSUME ErrorKinds ==
  RunnerErrors \subseteq {"stall", "turnTimeout", "readTimeout", "deadline", "reconcile", "other"}

Runs == Procs \X Issues
Paths == Roots \X Issues

VARIABLES
  proc,      \* proc[p]: "down", the step of the startup sweep, or "ready"
  root,      \* root[p]: the workspace root p was started with
  tracker,   \* tracker[i]: the issue's state class in the tracker
  listed,    \* listed[p]: active and terminal issues the sweep has read
  closed,    \* history: closed[p], issues terminal when p's sweep asked
  mirror,    \* the mirror at its final path
  staging,   \* an unfinished clone is lying in the staging directory
  lock,      \* the run that holds the mirror lock
  holder,    \* holder[i]: root whose worktree the mirror has i's branch out in
  dir,       \* dir[w]: what is at the workspace path w
  owner,     \* owner[w]: the run holding the ownership lock of w's worktree
  booted,    \* booted[w]: after_create has completed in the directory at w
  pc,        \* pc[r]: the step the run attempt is at
  existed,   \* existed[r]: what os.Stat said before the mirror lock
  fresh,     \* fresh[r]: createdNow
  phase,     \* phase[r]: run attempt phase last emitted
  calm       \* no crash, failure or restart happens any more

diskVars == <<mirror, staging, holder, dir, booted>>
procVars == <<proc, root, tracker, listed, closed>>
runVars == <<pc, existed, fresh, phase>>
vars == <<procVars, diskVars, lock, owner, runVars, calm>>

Terminal == {"Succeeded", "Failed", "TimedOut", "Stalled", "CanceledByReconciliation"}
Phases == Terminal \cup {"none", "PreparingWorkspace", "BuildingPrompt",
                         "LaunchingAgentProcess", "InitializingSession",
                         "StreamingTurn", "Finishing"}

\* Steps of PrepareGitWorkspaceOwned that run under the mirror lock.
LockedSteps == {"mirroring", "cloning", "attaching", "clearing", "reclaiming",
                "adding", "excluding", "owning"}
\* Steps between the ownership lock and its release.
OwnedSteps == {"creating", "undoing", "prompting", "starting", "agent", "ending"}
Steps == LockedSteps \cup OwnedSteps \cup {"idle", "locking", "removing"}

TypeOK ==
  /\ proc \in [Procs -> {"down", "listActive", "listTerminal", "sweeping", "ready"}]
  /\ root \in [Procs -> Roots]
  /\ tracker \in [Issues -> {"active", "other", "terminal"}]
  /\ listed \in [Procs -> [active : SUBSET Issues, terminal : SUBSET Issues]]
  /\ closed \in [Procs -> SUBSET Issues]
  /\ mirror \in {"none", "partial", "legacy", "ready"}
  /\ staging \in BOOLEAN
  /\ lock \in Runs \cup {NoRun}
  /\ holder \in [Issues -> Roots \cup {NoRoot}]
  /\ dir \in [Paths -> {"none", "worktree", "junk"}]
  /\ owner \in [Paths -> Runs \cup {NoRun}]
  /\ booted \in [Paths -> BOOLEAN]
  /\ pc \in [Runs -> Steps]
  /\ existed \in [Runs -> BOOLEAN]
  /\ fresh \in [Runs -> BOOLEAN]
  /\ phase \in [Runs -> Phases]
  /\ calm \in BOOLEAN

PathOf(r) == <<root[r[1]], r[2]>>

Init ==
  /\ proc = [p \in Procs |-> "down"]
  /\ root \in [Procs -> Roots]
  /\ tracker = [i \in Issues |-> "active"]
  /\ listed = [p \in Procs |-> [active |-> {}, terminal |-> {}]]
  /\ closed = [p \in Procs |-> {}]
  /\ mirror \in {"none", "partial", "legacy"}
  /\ staging = FALSE
  /\ lock = NoRun
  /\ holder = [i \in Issues |-> NoRoot]
  /\ dir = [w \in Paths |-> "none"]
  /\ owner = [w \in Paths |-> NoRun]
  /\ booted = [w \in Paths |-> FALSE]
  /\ pc = [r \in Runs |-> "idle"]
  /\ existed = [r \in Runs |-> FALSE]
  /\ fresh = [r \in Runs |-> FALSE]
  /\ phase = [r \in Runs |-> "none"]
  /\ calm = FALSE

-----------------------------------------------------------------------------
(* The process: start with a root, sweep, crash.                            *)

\* What the sweep has read goes with it.
Forget(p) ==
  /\ listed' = [listed EXCEPT ![p] = [active |-> {}, terminal |-> {}]]
  /\ closed' = [closed EXCEPT ![p] = {}]

\* Two processes that are up at the same time have different roots.
Start(p) ==
  /\ proc[p] = "down"
  /\ \E d \in Roots :
       /\ calm => d = root[p]
       /\ \A q \in Procs \ {p} : proc[q] # "down" => root[q] # d
       /\ root' = [root EXCEPT ![p] = d]
  /\ proc' = [proc EXCEPT ![p] = "listActive"]
  /\ UNCHANGED <<tracker, listed, closed, diskVars, lock, owner, runVars, calm>>

\* fetchReconcileIssues, first read.  A failure skips the sweep.
ListActive(p) ==
  /\ proc[p] = "listActive"
  /\ \/ /\ proc' = [proc EXCEPT ![p] = "listTerminal"]
        /\ listed' = [listed EXCEPT ![p].active = {i \in Issues : tracker[i] = "active"}]
     \/ /\ ~calm
        /\ proc' = [proc EXCEPT ![p] = "ready"]
        /\ UNCHANGED listed
  /\ UNCHANGED <<root, tracker, closed, diskVars, lock, owner, runVars, calm>>

\* Second read.  A failure leaves no terminal issue, and so removes nothing.
ListTerminal(p) ==
  /\ proc[p] = "listTerminal"
  /\ proc' = [proc EXCEPT ![p] = "sweeping"]
  /\ \/ listed' = [listed EXCEPT ![p].terminal = {i \in Issues : tracker[i] = "terminal"}]
     \/ ~calm /\ UNCHANGED listed
  /\ closed' = [closed EXCEPT ![p] = {i \in Issues : tracker[i] = "terminal"}]
  /\ UNCHANGED <<root, tracker, diskVars, lock, owner, runVars, calm>>

\* Variant: every issue not known to be active is cleaned up.
RemovableIfNotActive(p, i) == i \notin listed[p].active

\* reconcileWorkspace: an issue in the active list keeps its workspace, and so
\* does one found in neither list.
Removable(p, i) == i \in listed[p].terminal \ listed[p].active

\* Workspaces under p's root the sweep still has to remove.
Doomed(p) == {i \in Issues : Removable(p, i) /\ dir[<<root[p], i>>] # "none"}

\* removeWorkspace of one entry; an error ends ReconcileStartup, and with it
\* the process.
SweepRemove(p) ==
  /\ proc[p] = "sweeping"
  /\ \E i \in Doomed(p) :
       \/ /\ dir' = [dir EXCEPT ![<<root[p], i>>] = "none"]
          /\ UNCHANGED <<proc, listed, closed>>
       \/ /\ ~calm
          /\ proc' = [proc EXCEPT ![p] = "down"]
          /\ Forget(p)
          /\ UNCHANGED dir
  /\ UNCHANGED <<root, tracker, mirror, staging, holder, booted, lock,
                 owner, runVars, calm>>

SweepDone(p) ==
  /\ proc[p] = "sweeping"
  /\ Doomed(p) = {}
  /\ proc' = [proc EXCEPT ![p] = "ready"]
  /\ Forget(p)
  /\ UNCHANGED <<root, tracker, diskVars, lock, owner, runVars, calm>>

\* The kernel drops the flocks of a dead process; its directories stay.
Crash(p) ==
  /\ ~calm
  /\ proc[p] # "down"
  /\ proc' = [proc EXCEPT ![p] = "down"]
  /\ lock' = IF lock \in {p} \X Issues THEN NoRun ELSE lock
  /\ owner' = [w \in Paths |-> IF owner[w] \in {p} \X Issues THEN NoRun ELSE owner[w]]
  /\ pc' = [r \in Runs |-> IF r[1] = p THEN "idle" ELSE pc[r]]
  /\ phase' = [r \in Runs |-> IF r[1] = p THEN "none" ELSE phase[r]]
  /\ existed' = [r \in Runs |-> r[1] # p /\ existed[r]]
  /\ fresh' = [r \in Runs |-> r[1] # p /\ fresh[r]]
  /\ Forget(p)
  /\ UNCHANGED <<root, tracker, diskVars, calm>>

TrackerMoves(i) ==
  /\ \E s \in {"active", "other", "terminal"} \ {tracker[i]} :
       tracker' = [tracker EXCEPT ![i] = s]
  /\ UNCHANGED <<proc, root, listed, closed, diskVars, lock, owner, runVars, calm>>

FaultsEnd ==
  /\ ~calm
  /\ calm' = TRUE
  /\ UNCHANGED <<procVars, diskVars, lock, owner, runVars>>

-----------------------------------------------------------------------------
(* One run attempt.  Every early return releases the locks it holds         *)
(* (deferred calls) and stamps the phase Failed unless the runner's error    *)
(* has already given the attempt a terminal phase.                           *)

At(r, s) == pc[r] = s
Goto(r, s) == pc' = [pc EXCEPT ![r] = s]
SetPhase(r, ph) == phase' = [phase EXCEPT ![r] = ph]

StampFailed(r) == SetPhase(r, IF phase[r] \in Terminal THEN phase[r] ELSE "Failed")

Unlock(r) == lock' = IF lock = r THEN NoRun ELSE lock

\* releaseWorkspaceOwnership
Release(r) == owner' = [w \in Paths |-> IF owner[w] = r THEN NoRun ELSE owner[w]]

\* Return with an error: locks released, phase stamped, disk as it is.
Return(r) ==
  /\ Unlock(r) /\ Release(r) /\ StampFailed(r) /\ Goto(r, "idle")
  /\ existed' = [existed EXCEPT ![r] = FALSE]
  /\ fresh' = [fresh EXCEPT ![r] = FALSE]

\* A git command, a lock file, a prompt or a hook fails or is cancelled.
Fails(r) ==
  /\ ~calm
  /\ pc[r] \in (LockedSteps \cup {"locking", "prompting", "starting"})
               \ {"cloning", "clearing", "reclaiming", "adding"}
  /\ Return(r)
  /\ UNCHANGED <<procVars, diskVars, calm>>

\* The attempt begins: os.Stat of the workspace path, before the mirror lock.
Dispatch(r) ==
  /\ proc[r[1]] = "ready"
  /\ tracker[r[2]] = "active"
  /\ At(r, "idle")
  /\ existed' = [existed EXCEPT ![r] = dir[PathOf(r)] # "none"]
  /\ SetPhase(r, "PreparingWorkspace")
  /\ Goto(r, "locking")
  /\ UNCHANGED <<procVars, diskVars, lock, owner, fresh, calm>>

\* acquireMirrorLock: the process mutex and the flock, taken together.
LockMirror(r) ==
  /\ At(r, "locking")
  /\ lock = NoRun
  /\ lock' = r
  /\ Goto(r, "mirroring")
  /\ UNCHANGED <<procVars, diskVars, owner, existed, fresh, phase, calm>>

\* ensureMirrorLocked with HEAD present: assert the refspec, fetch.
FetchMirror(r) ==
  /\ At(r, "mirroring")
  /\ mirror \in {"legacy", "ready"}
  /\ mirror' = "ready"
  /\ Goto(r, "attaching")
  /\ UNCHANGED <<procVars, staging, holder, dir, booted, lock, owner, existed,
                 fresh, phase, calm>>

\* cloneMirrorLocked: sweep both directories, then clone into staging ...
StartClone(r) ==
  /\ At(r, "mirroring")
  /\ mirror \in {"none", "partial"}
  /\ mirror' = "none"
  /\ staging' = TRUE
  /\ Goto(r, "cloning")
  /\ UNCHANGED <<procVars, holder, dir, booted, lock, owner, existed, fresh, phase, calm>>

\* ... and rename it into place; an error removes the staging directory.
FinishClone(r) ==
  /\ At(r, "cloning")
  /\ staging' = FALSE
  /\ \/ /\ mirror' = "ready"
        /\ Goto(r, "attaching")
        /\ UNCHANGED <<lock, owner, phase, existed, fresh>>
     \/ /\ ~calm
        /\ Return(r)
        /\ UNCHANGED mirror
  /\ UNCHANGED <<procVars, holder, dir, booted, calm>>

\* classifyExistingWorkdir: not a symlink, and git names our mirror as the
\* common directory.
Linked(w) == dir[w] = "worktree"

\* attachWorktree: reuse (reset, checkout, excludes) or create.  A probe that
\* fails makes the workspace not reusable.
Attach(r) ==
  /\ At(r, "attaching")
  /\ \/ /\ existed[r] /\ Linked(PathOf(r))
        /\ fresh' = [fresh EXCEPT ![r] = FALSE]
        /\ Goto(r, "owning")
     \/ /\ ~(existed[r] /\ Linked(PathOf(r))) \/ ~calm
        /\ fresh' = [fresh EXCEPT ![r] = TRUE]
        /\ Goto(r, "clearing")
  /\ existed' = [existed EXCEPT ![r] = FALSE]
  /\ UNCHANGED <<procVars, diskVars, lock, owner, phase, calm>>

\* createWorktree, first part: `worktree remove --force` of our own path, its
\* error ignored, then SafeRemove.  Removing the worktree unlinks its lock file.
Clear(r) ==
  LET w == PathOf(r) IN
  /\ At(r, "clearing")
  /\ \/ /\ dir' = [dir EXCEPT ![w] = "none"]
        /\ holder' \in {holder, [holder EXCEPT ![r[2]] = IF @ = root[r[1]] THEN NoRoot ELSE @]}
        /\ owner' = [owner EXCEPT ![w] = NoRun]
        /\ Goto(r, "reclaiming")
        /\ UNCHANGED <<lock, phase, existed, fresh>>
     \/ /\ ~calm
        /\ Return(r)
        /\ UNCHANGED <<dir, holder>>
  /\ UNCHANGED <<procVars, mirror, staging, booted, calm>>

\* Variant: the ownership lock is not probed.
ReclaimableOwned(r) ==
  LET i == r[2] IN
  /\ holder[i] \in Roots \ {root[r[1]]}
  /\ Linked(<<holder[i], i>>)

\* Variant: a worktree outside the current root is never reclaimed.
ReclaimableNever(r) == FALSE

\* The worktree outside our root that holds the branch, still one of our
\* mirror's, with no live owner.
Reclaimable(r) ==
  LET i == r[2] IN
  /\ holder[i] \in Roots \ {root[r[1]]}
  /\ Linked(<<holder[i], i>>)
  /\ owner[<<holder[i], i>>] = NoRun

\* reclaimForeignBranchWorktree; a failure of its git commands is only logged.
Reclaim(r) ==
  LET i == r[2] IN
  /\ At(r, "reclaiming")
  /\ \/ /\ Reclaimable(r)
        /\ dir' = [dir EXCEPT ![<<holder[i], i>>] = "none"]
        /\ holder' \in {holder, [holder EXCEPT ![i] = NoRoot]}
     \/ /\ ~Reclaimable(r) \/ ~calm
        /\ UNCHANGED <<dir, holder>>
  /\ Goto(r, "adding")
  /\ UNCHANGED <<procVars, mirror, staging, booted, lock, owner, existed, fresh, phase, calm>>

\* `worktree prune` forgets a registration whose directory is gone, and may
\* forget one whose directory is no longer a worktree.
Prunable(i) == holder[i] # NoRoot => dir[<<holder[i], i>>] # "worktree"
SurelyPruned(i) == holder[i] # NoRoot => dir[<<holder[i], i>>] = "none"

\* Prune, then `worktree add -B`, refused while the branch is checked out
\* elsewhere.  A command killed half-way leaves what it had written.
Add(r) ==
  LET i == r[2]
      w == PathOf(r) IN
  /\ At(r, "adding")
  /\ \/ /\ Prunable(i)
        /\ holder' = [holder EXCEPT ![i] = root[r[1]]]
        /\ dir' = [dir EXCEPT ![w] = "worktree"]
        /\ booted' = [booted EXCEPT ![w] = FALSE]
        /\ Goto(r, "excluding")
        /\ UNCHANGED <<lock, owner, phase, existed, fresh>>
     \/ /\ ~SurelyPruned(i) \/ ~calm
        /\ Return(r)
        /\ UNCHANGED <<holder, dir, booted>>
     \/ /\ ~calm /\ Prunable(i)
        /\ holder' = [holder EXCEPT ![i] = root[r[1]]]
        /\ \E d \in {"worktree", "junk"} : dir' = [dir EXCEPT ![w] = d]
        /\ booted' = [booted EXCEPT ![w] = FALSE]
        /\ Return(r)
  /\ UNCHANGED <<procVars, mirror, staging, calm>>

\* EnsureSensitiveArtifactExcludes
Exclude(r) ==
  /\ At(r, "excluding")
  /\ Goto(r, "owning")
  /\ UNCHANGED <<procVars, diskVars, lock, owner, existed, fresh, phase, calm>>

\* acquireWorktreeOwnership, a blocking flock, and the deferred unlock of the
\* mirror.
Own(r) ==
  /\ At(r, "owning")
  /\ owner[PathOf(r)] = NoRun
  /\ owner' = [owner EXCEPT ![PathOf(r)] = r]
  /\ lock' = NoRun
  /\ Goto(r, IF fresh[r] THEN "creating" ELSE "prompting")
  /\ fresh' = [fresh EXCEPT ![r] = FALSE]
  /\ UNCHANGED <<procVars, diskVars, existed, phase, calm>>

\* The after_create hook.
AfterCreate(r) ==
  /\ At(r, "creating")
  /\ \/ /\ booted' = [booted EXCEPT ![PathOf(r)] = TRUE]
        /\ Goto(r, "prompting")
     \/ /\ ~calm
        /\ Goto(r, "undoing")
        /\ UNCHANGED booted
  /\ UNCHANGED <<procVars, mirror, staging, holder, dir, lock, owner, existed, fresh, phase, calm>>

\* removeWorkdirAfterHookFailure, whose failure is only logged; then the
\* ownership is released and the attempt fails.
UndoCreate(r) ==
  /\ At(r, "undoing")
  /\ \/ dir' = [dir EXCEPT ![PathOf(r)] = "none"]
     \/ ~calm /\ UNCHANGED dir
  /\ Return(r)
  /\ UNCHANGED <<procVars, mirror, staging, holder, booted, calm>>

BuildPrompt(r) ==
  /\ At(r, "prompting")
  /\ SetPhase(r, "BuildingPrompt")
  /\ Goto(r, "starting")
  /\ UNCHANGED <<procVars, diskVars, lock, owner, existed, fresh, calm>>

\* newRunner, resetStaleArtifacts and the before_run hook, then the runner.
StartAgent(r) ==
  /\ At(r, "starting")
  /\ SetPhase(r, "LaunchingAgentProcess")
  /\ Goto(r, "agent")
  /\ UNCHANGED <<procVars, diskVars, lock, owner, existed, fresh, calm>>

\* The runner reports a thread started, then a turn started.
AgentStreams(r) ==
  /\ At(r, "agent")
  /\ \/ phase[r] = "LaunchingAgentProcess" /\ SetPhase(r, "InitializingSession")
     \/ phase[r] = "InitializingSession" /\ SetPhase(r, "StreamingTurn")
  /\ UNCHANGED <<procVars, diskVars, lock, owner, pc, existed, fresh, calm>>

\* The agent replaces its worktree by something of its own (a fresh git init).
AgentRewrites(r) ==
  /\ ~calm
  /\ At(r, "agent")
  /\ dir' = [dir EXCEPT ![PathOf(r)] = "junk"]
  /\ UNCHANGED <<procVars, mirror, staging, holder, booted, lock, owner, runVars, calm>>

\* classifyRunnerError: stall, then the timeouts, then a reconcile cancel,
\* then any other error.
ClassifyRunnerError(e) ==
  CASE e = "stall" -> "Stalled"
    [] e \in {"turnTimeout", "readTimeout", "deadline"} -> "TimedOut"
    [] e = "reconcile" -> "CanceledByReconciliation"
    [] e = "other" -> "Failed"

\* RunRunnerWithTimeout returns.
AgentEnds(r) ==
  /\ At(r, "agent")
  /\ \/ SetPhase(r, "Finishing")
     \/ ~calm /\ \E e \in RunnerErrors : SetPhase(r, ClassifyRunnerError(e))
  /\ Goto(r, "ending")
  /\ UNCHANGED <<procVars, diskVars, lock, owner, existed, fresh, calm>>

\* after_run, whose failure is only logged; finalize; the deferred release.
AfterRun(r) ==
  /\ At(r, "ending")
  /\ SetPhase(r, IF phase[r] = "Finishing" THEN "Succeeded" ELSE phase[r])
  /\ Release(r)
  /\ Goto(r, "idle")
  /\ UNCHANGED <<procVars, diskVars, lock, existed, fresh, calm>>

\* RemoveIssueWorkspace of a closed issue that has no worker.
StartCleanup(r) ==
  /\ proc[r[1]] = "ready"
  /\ At(r, "idle")
  /\ tracker[r[2]] = "terminal"
  /\ dir[PathOf(r)] # "none"
  /\ Goto(r, "removing")
  /\ UNCHANGED <<procVars, diskVars, lock, owner, existed, fresh, phase, calm>>

Cleanup(r) ==
  /\ At(r, "removing")
  /\ \/ dir' = [dir EXCEPT ![PathOf(r)] = "none"]
     \/ ~calm /\ UNCHANGED dir
  /\ Goto(r, "idle")
  /\ UNCHANGED <<procVars, mirror, staging, holder, booted, lock, owner, existed,
                 fresh, phase, calm>>

Prepare(r) ==
  \/ Dispatch(r) \/ LockMirror(r) \/ FetchMirror(r) \/ StartClone(r) \/ FinishClone(r)
  \/ Attach(r) \/ Clear(r) \/ Reclaim(r) \/ Add(r) \/ Exclude(r) \/ Own(r)

Work(r) ==
  \/ AfterCreate(r) \/ UndoCreate(r) \/ BuildPrompt(r) \/ StartAgent(r)
  \/ AgentEnds(r) \/ AfterRun(r) \/ StartCleanup(r) \/ Cleanup(r)

Sweep(p) == ListActive(p) \/ ListTerminal(p) \/ SweepRemove(p) \/ SweepDone(p)

Next ==
  \/ \E p \in Procs : Start(p) \/ Sweep(p) \/ Crash(p)
  \/ \E r \in Runs : Prepare(r) \/ Work(r) \/ Fails(r) \/ AgentStreams(r) \/ AgentRewrites(r)
  \/ \E i \in Issues : TrackerMoves(i)
  \/ FaultsEnd

Spec == Init /\ [][Next]_vars

\* The runtime keeps running goroutines; git commands, hooks and the agent are
\* bounded by timeouts.  A lock's waiters are not served in order, so a waiter
\* is promised the lock only if it is free again and again.
Fairness ==
  /\ \A r \in Runs : WF_vars(Prepare(r)) /\ WF_vars(Work(r)) /\ SF_vars(LockMirror(r))
  /\ \A p \in Procs : WF_vars(Sweep(p))

FairSpec == Spec /\ Fairness

-----------------------------------------------------------------------------
(* Properties.                                                               *)

\* While an attempt has its workspace (from the ownership lock to the deferred
\* release, runtask.go), the directory is there, the attempt is the one that
\* owns it, and nobody else is at work in it: no other process' reclaim, sweep,
\* cleanup or prepare took it away, whatever crashed and whichever root the
\* others were restarted with.
LiveWorkspaceIsSafe ==
  \A r \in Runs : pc[r] \in OwnedSteps =>
    /\ owner[PathOf(r)] = r
    /\ dir[PathOf(r)] # "none"
    /\ Linked(PathOf(r)) => holder[r[2]] = root[r[1]]

\* The startup sweep removes a workspace only of an issue that was terminal in
\* the tracker when the process asked: a failed or partial read, or an issue
\* the tracker does not list at all, keeps the workspace.
SweepHasEvidence ==
  [][\A p \in Procs, i \in Issues :
       (proc[p] = "sweeping" /\ dir[<<root[p], i>>] # "none"
          /\ dir'[<<root[p], i>>] = "none" /\ UNCHANGED pc)
       => i \in closed[p]]_vars

\* Whatever crashes, failed commands and root changes left behind (half a
\* clone, a mirror without a refspec, a half-added worktree, a registration at
\* a root no longer used), once faults stop every attempt on an active issue
\* gets as far as its agent, unless the branch is held by a directory that is
\* no longer a worktree, which reclaim refuses to delete.
DebrisNeverWedges ==
  \A r \in Runs :
    <>[](/\ calm /\ proc[r[1]] = "ready" /\ tracker[r[2]] = "active"
         /\ \A q \in Procs \ {r[1]} : proc[q] = "down"
         /\ \A d \in Roots \ {root[r[1]]} : holder[r[2]] = d => dir[<<d, r[2]>>] # "junk")
    => []<>At(r, "agent")

\* "The worker uses this edge to fire the `after_create` hook exactly once per
\* workspace" (manager.go:174): no agent works in a workspace whose
\* after_create has not completed.
AgentRunsBootstrapped ==
  \A r \in Runs : At(r, "agent") => booted[PathOf(r)]
=============================================================================
