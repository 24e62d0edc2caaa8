---------------------------- MODULE WorkspacesProofs ----------------------------
(***************************************************************************)
(* The safety of the git workspaces, for every set of processes, roots and *)
(* issues, and whatever crashes, fails or is restarted with another root:  *)
(*                                                                         *)
(*   SafeWorkspaces   a workspace somebody works in is theirs and is there *)
(*   SweptWasClosed   the startup sweep removes only what it saw closed    *)
(*   NoStaleLock      a lock that is held is held by an attempt at work    *)
(*   FlockNeverBlocks nobody waits for a worktree under the mirror lock    *)
(*                                                                         *)
(* LiveWorkspaceIsSafe is not inductive.  What makes it so is who can be   *)
(* where: two running processes have different roots (Apart), so two       *)
(* attempts never have the same path (Distinct); between the two locks an  *)
(* attempt holds the mirror lock (Locked), so that a reclaim, which probes *)
(* the ownership lock under the mirror lock, cannot take a directory that  *)
(* is about to be owned; and every worktree is the one the mirror has the  *)
(* branch checked out in (Registered), so that a branch that can be added  *)
(* is in nobody's worktree.                                                *)
(***************************************************************************)
EXTENDS Workspaces, TLAPS

Types ==
  /\ proc \in [Procs -> {"down", "listActive", "listTerminal", "sweeping", "ready"}]
  /\ root \in [Procs -> Roots]
  /\ lock \in Runs \cup {NoRun}
  /\ holder \in [Issues -> Roots \cup {NoRoot}]
  /\ dir \in [Paths -> {"none", "worktree", "junk"}]
  /\ owner \in [Paths -> Runs \cup {NoRun}]
  /\ pc \in [Runs -> Steps]

Apart ==
  \A p, q \in Procs : p # q /\ proc[p] # "down" /\ proc[q] # "down" => root[p] # root[q]

AtWork == \A r \in Runs : pc[r] # "idle" => proc[r[1]] = "ready"

Locked == \A r \in Runs : pc[r] \in LockedSteps => lock = r

Owned == \A r \in Runs : pc[r] \in OwnedSteps => owner[PathOf(r)] = r

Registered == \A w \in Paths : dir[w] = "worktree" => holder[w[2]] = w[1]

Present ==
  \A r \in Runs : pc[r] \in OwnedSteps \cup {"excluding", "owning"} => dir[PathOf(r)] # "none"

WInv == Types /\ Apart /\ AtWork /\ Locked /\ Owned /\ Registered /\ Present

\* Two attempts that have begun never work at the same path.
LEMMA Distinct ==
  ASSUME WInv, NEW r \in Runs, NEW s \in Runs, pc[r] # "idle", pc[s] # "idle",
         PathOf(r) = PathOf(s)
  PROVE  r = s
  BY DEF WInv, Types, Apart, AtWork, Runs, PathOf

\* An attempt goes from one step to the next and touches neither disk nor locks.
LEMMA MovesOn ==
  ASSUME WInv, NEW r \in Runs, NEW t \in Steps,
         Goto(r, t), proc[r[1]] = "ready" \/ pc[r] # "idle",
         t \in LockedSteps => pc[r] \in LockedSteps,
         t \in OwnedSteps => pc[r] \in OwnedSteps,
         t \in {"excluding", "owning"} => pc[r] = "excluding" \/ dir[PathOf(r)] # "none",
         UNCHANGED <<proc, root, lock, holder, dir, owner>>
  PROVE  WInv'
<1> USE DEF WInv, Goto
<1>1. Apart' /\ Registered'
  BY DEF Apart, Registered
<1>2. Types'
  BY DEF Types
<1>3. AtWork'
  BY DEF AtWork, Types
<1>4. Locked'
  BY DEF Locked, Types
<1>5. Owned'
  BY DEF Owned, Types, PathOf
<1>6. Present'
  BY DEF Present, Types, PathOf
<1> QED  BY <1>1, <1>2, <1>3, <1>4, <1>5, <1>6

\* An attempt returns: it gives up what it holds, and the disk stays.
LEMMA GivesUp ==
  ASSUME WInv, NEW r \in Runs, Goto(r, "idle"), Release(r),
         Unlock(r) \/ (UNCHANGED lock /\ pc[r] \notin LockedSteps),
         UNCHANGED <<proc, root, holder, dir>>
  PROVE  WInv'
<1> USE DEF WInv, Goto, Release
<1>1. Apart' /\ Registered'
  BY DEF Apart, Registered
<1>2. Types'
  BY DEF Types, Unlock, Steps
<1>3. AtWork'
  BY DEF AtWork, Types
<1>4. Locked'
  BY DEF Locked, Types, Unlock, LockedSteps
<1>5. Owned'
  BY DEF Owned, Types, Paths, PathOf, Runs, OwnedSteps
<1>6. Present'
  BY DEF Present, Types, PathOf, OwnedSteps
<1> QED  BY <1>1, <1>2, <1>3, <1>4, <1>5, <1>6

-----------------------------------------------------------------------------
(* Every action keeps the invariant.                                         *)

\* A ready process begins an attempt: nothing on disk changes.
LEMMA DispatchKeeps == ASSUME WInv, NEW r \in Runs, Dispatch(r) PROVE WInv'
  BY MovesOn DEF Dispatch, At, procVars, diskVars, Steps, LockedSteps, OwnedSteps

\* The lock was free, so no other attempt is between the mirror lock and the
\* ownership lock.
LEMMA LockMirrorKeeps == ASSUME WInv, NEW r \in Runs, LockMirror(r) PROVE WInv'
<1> USE DEF WInv, LockMirror, At, Goto, procVars, diskVars
<1>0. r[1] \in Procs /\ r[2] \in Issues /\ PathOf(r) \in Paths
  BY DEF Types, Runs, Paths, PathOf
<1>1. Apart' /\ Registered'
  BY DEF Apart, Registered
<1>2. Types'
  BY <1>0 DEF Types, Runs, Paths, PathOf, Steps, LockedSteps, OwnedSteps
<1>3. AtWork'
  BY <1>0 DEF AtWork, Types
<1>4. Locked'
  BY <1>0, NullsAreNew DEF Locked, Types, LockedSteps, OwnedSteps, Runs
<1>5. Owned'
  BY <1>0 DEF Owned, Types, LockedSteps, OwnedSteps, Paths, PathOf, Runs
<1>6. Present'
  BY <1>0 DEF Present, Types, LockedSteps, OwnedSteps, Paths, PathOf, Runs
<1> QED  BY <1>1, <1>2, <1>3, <1>4, <1>5, <1>6

\* The mirror is brought up to date by the run that holds its lock.
LEMMA FetchMirrorKeeps == ASSUME WInv, NEW r \in Runs, FetchMirror(r) PROVE WInv'
  BY MovesOn DEF FetchMirror, At, procVars, Steps, LockedSteps, OwnedSteps

\* A clone begins under the mirror lock.
LEMMA StartCloneKeeps == ASSUME WInv, NEW r \in Runs, StartClone(r) PROVE WInv'
  BY MovesOn DEF StartClone, At, procVars, Steps, LockedSteps, OwnedSteps

\* A clone ends, or fails and gives the lock up.
LEMMA FinishCloneKeeps == ASSUME WInv, NEW r \in Runs, FinishClone(r) PROVE WInv'
<1>1. CASE Return(r)
  BY <1>1, GivesUp DEF FinishClone, At, Return, procVars
<1>2. CASE Goto(r, "attaching") /\ UNCHANGED <<lock, owner>>
  BY <1>2, MovesOn DEF FinishClone, At, Return, procVars, Steps, LockedSteps, OwnedSteps
<1> QED  BY <1>1, <1>2 DEF FinishClone

\* A workspace is reused only if it is a worktree of the mirror, and then it is
\* there.
LEMMA AttachKeeps == ASSUME WInv, NEW r \in Runs, Attach(r) PROVE WInv'
<1>1. CASE Goto(r, "owning") /\ Linked(PathOf(r))
  BY <1>1, MovesOn DEF Attach, At, Linked, procVars, diskVars, Steps, LockedSteps, OwnedSteps
<1>2. CASE Goto(r, "clearing")
  BY <1>2, MovesOn DEF Attach, At, Linked, procVars, diskVars, Steps, LockedSteps, OwnedSteps
<1> QED  BY <1>1, <1>2 DEF Attach

\* An attempt empties its own path only: Distinct keeps every other owner's.
LEMMA ClearKeeps == ASSUME WInv, NEW r \in Runs, Clear(r) PROVE WInv'
<1>0. r[1] \in Procs /\ r[2] \in Issues /\ PathOf(r) \in Paths
  BY DEF WInv, Types, Runs, Paths, PathOf
<1>1. CASE Return(r) /\ UNCHANGED <<dir, holder>>
  BY <1>1, GivesUp DEF Clear, Return, procVars
<1>2. CASE ~(Return(r) /\ UNCHANGED <<dir, holder>>)
  <2>1. /\ pc[r] = "clearing" /\ Goto(r, "reclaiming")
        /\ dir' = [dir EXCEPT ![PathOf(r)] = "none"]
        /\ holder' \in {holder, [holder EXCEPT ![r[2]] = IF @ = root[r[1]] THEN NoRoot ELSE @]}
        /\ owner' = [owner EXCEPT ![PathOf(r)] = NoRun]
        /\ UNCHANGED <<proc, root, lock>>
    BY <1>2 DEF Clear, At, procVars
  <2>2. Apart'
    BY <2>1 DEF WInv, Apart
  <2>3. Types'
    BY <1>0, <2>1 DEF WInv, Types, Goto, Steps, LockedSteps
  <2>4. AtWork'
    BY <1>0, <2>1 DEF WInv, Types, AtWork, Goto
  <2>5. Locked'
    BY <1>0, <2>1 DEF WInv, Types, Locked, Goto, LockedSteps
  <2>6. Owned'
    BY <1>0, <2>1, Distinct DEF WInv, Types, Owned, Goto, OwnedSteps, Paths, PathOf, Runs
  <2>7. Registered'
    BY <1>0, <2>1 DEF WInv, Types, Registered, Paths, PathOf
  <2>8. Present'
    BY <1>0, <2>1, Distinct DEF WInv, Types, Present, Goto, OwnedSteps, Paths, PathOf, Runs
  <2> QED  BY <2>2, <2>3, <2>4, <2>5, <2>6, <2>7, <2>8 DEF WInv
<1> QED  BY <1>1, <1>2

\* What is reclaimed has no owner, and under the mirror lock nobody is about to
\* own it.
LEMMA ReclaimKeeps == ASSUME WInv, NEW r \in Runs, Reclaim(r) PROVE WInv'
<1> USE DEF WInv, Reclaim, At, Goto, Reclaimable, Linked, procVars
<1>0. r[1] \in Procs /\ r[2] \in Issues /\ PathOf(r) \in Paths
  BY DEF Types, Runs, Paths, PathOf
<1>1. Apart'
  BY DEF Apart
<1>2. Types'
  BY <1>0 DEF Types, Runs, Paths, PathOf, Steps, LockedSteps, OwnedSteps
<1>3. AtWork'
  BY <1>0 DEF AtWork, Types
<1>4. Locked'
  BY <1>0 DEF Locked, Types, LockedSteps, OwnedSteps
<1>5. Owned'
  BY <1>0, NullsAreNew DEF Owned, Types, LockedSteps, OwnedSteps, Paths, PathOf, Runs
<1>6. Registered'
  <2> SUFFICES ASSUME NEW w \in Paths, dir'[w] = "worktree"
               PROVE  holder'[w[2]] = w[1]
    BY DEF Registered
  <2>1. /\ dir[w] = "worktree"
        /\ w = <<w[1], w[2]>> /\ w[1] \in Roots /\ w[2] \in Issues
    <3>1. dir[w] = "worktree"
      BY DEF Types
    <3> QED  BY <3>1 DEF Paths
  <2>2. CASE w[2] # r[2]
    BY <1>0, <2>1, <2>2 DEF Registered, Types
  <2>3. CASE w[2] = r[2]
    <3>1. holder[r[2]] = w[1]
      BY <2>1, <2>3 DEF Registered
    <3> QED  BY <1>0, <2>1, <2>3, <3>1 DEF Types
  <2> QED  BY <2>2, <2>3
<1>7. Present'
  <2> SUFFICES ASSUME NEW s \in Runs, pc'[s] \in OwnedSteps \cup {"excluding", "owning"}
               PROVE  dir'[<<root'[s[1]], s[2]>>] # "none"
    BY DEF Present, PathOf
  <2>1. s # r /\ pc[s] = pc'[s] /\ pc[s] \in OwnedSteps
    BY <1>0 DEF Locked, Types, LockedSteps, OwnedSteps, Paths, PathOf, Runs
  <2>2. PathOf(s) \in Paths /\ owner[PathOf(s)] = s /\ s # NoRun
    BY <2>1, NullsAreNew DEF Owned, Types, Paths, PathOf, Runs
  <2>3. dir'[PathOf(s)] = dir[PathOf(s)]
    BY <1>0, <2>2 DEF Types
  <2> QED  BY <2>1, <2>3 DEF Present, PathOf
<1> QED  BY <1>1, <1>2, <1>3, <1>4, <1>5, <1>6, <1>7

\* The branch moves to the new worktree only when no worktree holds it
\* (Prunable).
LEMMA AddKeeps == ASSUME WInv, NEW r \in Runs, Add(r) PROVE WInv'
<1>0. r[1] \in Procs /\ r[2] \in Issues /\ PathOf(r) \in Paths
  BY DEF WInv, Types, Runs, Paths, PathOf
<1>1. CASE Return(r) /\ UNCHANGED <<holder, dir>>
  BY <1>1, GivesUp DEF Add, Return, procVars
<1>2. CASE ~(Return(r) /\ UNCHANGED <<holder, dir>>)
  <2>1. /\ pc[r] = "adding" /\ Prunable(r[2])
        /\ holder' = [holder EXCEPT ![r[2]] = root[r[1]]]
        /\ \E d \in {"worktree", "junk"} : dir' = [dir EXCEPT ![PathOf(r)] = d]
        /\ \/ Goto(r, "excluding") /\ UNCHANGED <<lock, owner>>
           \/ Goto(r, "idle") /\ Unlock(r) /\ Release(r)
        /\ UNCHANGED <<proc, root>>
    BY <1>2 DEF Add, Return, At, procVars
  <2>2. Apart'
    BY <2>1 DEF WInv, Apart
  <2>3. Types'
    BY <1>0, <2>1 DEF WInv, Types, Goto, Unlock, Release, Steps, LockedSteps
  <2>4. AtWork'
    BY <1>0, <2>1 DEF WInv, Types, AtWork, Goto
  <2>5. Locked'
    BY <1>0, <2>1 DEF WInv, Types, Locked, Goto, Unlock, LockedSteps
  <2>6. Owned'
    BY <1>0, <2>1 DEF WInv, Types, Owned, Goto, Release, OwnedSteps, Paths, PathOf, Runs
  <2>7. Registered'
    <3> SUFFICES ASSUME NEW w \in Paths, dir'[w] = "worktree", w # PathOf(r)
                 PROVE  holder'[w[2]] = w[1]
      BY <1>0, <2>1 DEF WInv, Types, Registered, PathOf
    <3>1. w = <<w[1], w[2]>> /\ w[1] \in Roots /\ w[2] \in Issues
      BY DEF Paths
    <3>2. dir[w] = "worktree" /\ holder[w[2]] = w[1] /\ w[1] # NoRoot
      BY <1>0, <2>1, <3>1, NullsAreNew DEF WInv, Types, Registered
    <3>3. w[2] # r[2]
      BY <2>1, <3>1, <3>2 DEF Prunable
    <3> QED  BY <1>0, <2>1, <3>1, <3>2, <3>3 DEF WInv, Types
  <2>8. Present'
    <3> SUFFICES ASSUME NEW s \in Runs, PathOf(s) # PathOf(r),
                        pc'[s] \in OwnedSteps \cup {"excluding", "owning"}
                 PROVE  dir'[PathOf(s)] # "none"
      BY <1>0, <2>1 DEF WInv, Types, Present, PathOf
    <3>1. pc[s] = pc'[s] /\ PathOf(s) \in Paths
      BY <2>1 DEF WInv, Types, Goto, Paths, PathOf, Runs
    <3> QED  BY <1>0, <2>1, <3>1 DEF WInv, Types, Present
  <2> QED  BY <2>2, <2>3, <2>4, <2>5, <2>6, <2>7, <2>8 DEF WInv
<1> QED  BY <1>1, <1>2

\* The excludes are written under the mirror lock.
LEMMA ExcludeKeeps == ASSUME WInv, NEW r \in Runs, Exclude(r) PROVE WInv'
  BY MovesOn DEF Exclude, At, procVars, diskVars, Steps, LockedSteps, OwnedSteps

\* The ownership lock was free, so no other attempt had this workspace.
LEMMA OwnKeeps == ASSUME WInv, NEW r \in Runs, Own(r) PROVE WInv'
<1> USE DEF WInv, Own, At, Goto, procVars, diskVars
<1>0. r[1] \in Procs /\ r[2] \in Issues /\ PathOf(r) \in Paths
  BY DEF Types, Runs, Paths, PathOf
<1>1. Apart' /\ Registered'
  BY DEF Apart, Registered
<1>2. Types'
  BY <1>0 DEF Types, Runs, Paths, PathOf, Steps, LockedSteps, OwnedSteps
<1>3. AtWork'
  BY <1>0 DEF AtWork, Types
<1>4. Locked'
  BY <1>0 DEF Locked, Types, LockedSteps, OwnedSteps
<1>5. Owned'
  BY <1>0, Distinct, NullsAreNew DEF Owned, Types, LockedSteps, OwnedSteps, Paths, PathOf, Runs
<1>6. Present'
  BY <1>0, Distinct DEF Present, Types, LockedSteps, OwnedSteps, Paths, PathOf, Runs
<1> QED  BY <1>1, <1>2, <1>3, <1>4, <1>5, <1>6

\* The hook runs in a workspace that is owned.
LEMMA AfterCreateKeeps == ASSUME WInv, NEW r \in Runs, AfterCreate(r) PROVE WInv'
  BY MovesOn DEF AfterCreate, At, procVars, Steps, LockedSteps, OwnedSteps

\* An attempt removes its own directory and gives it up.
LEMMA UndoCreateKeeps == ASSUME WInv, NEW r \in Runs, UndoCreate(r) PROVE WInv'
<1>0. r[1] \in Procs /\ r[2] \in Issues /\ PathOf(r) \in Paths
  BY DEF WInv, Types, Runs, Paths, PathOf
<1>1. /\ pc[r] = "undoing" /\ Goto(r, "idle") /\ Release(r) /\ Unlock(r)
      /\ dir' = dir \/ dir' = [dir EXCEPT ![PathOf(r)] = "none"]
      /\ UNCHANGED <<proc, root, holder>>
  BY DEF UndoCreate, Return, At, procVars
<1>2. CASE UNCHANGED dir
  BY <1>1, <1>2, GivesUp
<1>3. CASE dir' = [dir EXCEPT ![PathOf(r)] = "none"]
  <2>2. Apart'
    BY <1>1 DEF WInv, Apart
  <2>3. Types'
    BY <1>0, <1>1, <1>3 DEF WInv, Types, Goto, Release, Unlock, Steps
  <2>4. AtWork'
    BY <1>0, <1>1 DEF WInv, Types, AtWork, Goto
  <2>5. Locked'
    BY <1>0, <1>1 DEF WInv, Types, Locked, Goto, Unlock, LockedSteps
  <2>6. Owned'
    BY <1>0, <1>1 DEF WInv, Types, Owned, Goto, Release, OwnedSteps, Paths, PathOf, Runs
  <2>7. Registered'
    BY <1>0, <1>1, <1>3 DEF WInv, Types, Registered
  <2>8. Present'
    BY <1>0, <1>1, <1>3, Distinct
       DEF WInv, Types, Present, Goto, OwnedSteps, Paths, PathOf, Runs
  <2> QED  BY <2>2, <2>3, <2>4, <2>5, <2>6, <2>7, <2>8 DEF WInv
<1> QED  BY <1>1, <1>2, <1>3

\* The workspace is still owned while the prompt is built.
LEMMA BuildPromptKeeps == ASSUME WInv, NEW r \in Runs, BuildPrompt(r) PROVE WInv'
  BY MovesOn DEF BuildPrompt, At, procVars, diskVars, Steps, LockedSteps, OwnedSteps

\* The workspace is still owned when the agent starts.
LEMMA StartAgentKeeps == ASSUME WInv, NEW r \in Runs, StartAgent(r) PROVE WInv'
  BY MovesOn DEF StartAgent, At, procVars, diskVars, Steps, LockedSteps, OwnedSteps

\* The workspace is still owned when the agent has ended.
LEMMA AgentEndsKeeps == ASSUME WInv, NEW r \in Runs, AgentEnds(r) PROVE WInv'
  BY MovesOn DEF AgentEnds, At, procVars, diskVars, Steps, LockedSteps, OwnedSteps

\* An attempt that ends gives up what it owns and nothing else.
LEMMA AfterRunKeeps == ASSUME WInv, NEW r \in Runs, AfterRun(r) PROVE WInv'
  BY GivesUp DEF AfterRun, At, procVars, diskVars, LockedSteps

\* A cleanup begins where no attempt is at work.
LEMMA StartCleanupKeeps == ASSUME WInv, NEW r \in Runs, StartCleanup(r) PROVE WInv'
  BY MovesOn DEF StartCleanup, At, procVars, diskVars, Steps, LockedSteps, OwnedSteps

\* A cleanup removes the path of its own process and issue: Distinct keeps the
\* others'.
LEMMA CleanupKeeps == ASSUME WInv, NEW r \in Runs, Cleanup(r) PROVE WInv'
<1> USE DEF WInv, Cleanup, At, Goto, procVars
<1>0. r[1] \in Procs /\ r[2] \in Issues /\ PathOf(r) \in Paths
  BY DEF Types, Runs, Paths, PathOf
<1>1. Apart'
  BY DEF Apart
<1>2. Types'
  BY <1>0 DEF Types, Runs, Paths, PathOf, Steps, LockedSteps, OwnedSteps
<1>3. AtWork'
  BY <1>0 DEF AtWork, Types
<1>4. Locked'
  BY <1>0 DEF Locked, Types, LockedSteps, OwnedSteps
<1>5. Owned'
  BY <1>0, Distinct DEF Owned, Types, LockedSteps, OwnedSteps, Paths, PathOf, Runs
<1>6. Registered'
  BY <1>0 DEF Registered, Types, Paths, PathOf, Runs
<1>7. Present'
  BY <1>0, Distinct DEF Present, Types, LockedSteps, OwnedSteps, Paths, PathOf, Runs
<1> QED  BY <1>1, <1>2, <1>3, <1>4, <1>5, <1>6, <1>7

\* A step that fails returns and gives up both locks.
LEMMA FailsKeeps == ASSUME WInv, NEW r \in Runs, Fails(r) PROVE WInv'
  BY GivesUp DEF Fails, Return, procVars, diskVars

\* The agent only reports.
LEMMA AgentStreamsKeeps == ASSUME WInv, NEW r \in Runs, AgentStreams(r) PROVE WInv'
<1> USE DEF WInv, AgentStreams, At, SetPhase, procVars, diskVars
<1>0. r[1] \in Procs /\ r[2] \in Issues /\ PathOf(r) \in Paths
  BY DEF Types, Runs, Paths, PathOf
<1>1. Apart' /\ AtWork' /\ Locked' /\ Owned' /\ Registered' /\ Present'
  BY DEF Apart, AtWork, Locked, Owned, Registered, Present, PathOf
<1>2. Types'
  BY <1>0 DEF Types, Runs, Paths, PathOf, Steps, LockedSteps, OwnedSteps
<1> QED  BY <1>1, <1>2

\* What the agent leaves is not a worktree of the mirror any more, but it is
\* there.
LEMMA AgentRewritesKeeps == ASSUME WInv, NEW r \in Runs, AgentRewrites(r) PROVE WInv'
<1> USE DEF WInv, AgentRewrites, At, procVars, runVars
<1>0. r[1] \in Procs /\ r[2] \in Issues /\ PathOf(r) \in Paths
  BY DEF Types, Runs, Paths, PathOf
<1>1. Apart' /\ AtWork' /\ Locked' /\ Owned'
  BY DEF Apart, AtWork, Locked, Owned, PathOf
<1>2. Types'
  BY <1>0 DEF Types, Runs, Paths, PathOf, Steps, LockedSteps, OwnedSteps
<1>3. Registered'
  BY <1>0 DEF Registered, Types, Paths, PathOf, Runs
<1>4. Present'
  BY <1>0, Distinct DEF Present, Types, LockedSteps, OwnedSteps, Paths, PathOf, Runs
<1> QED  BY <1>1, <1>2, <1>3, <1>4

\* A process that starts has no attempt, and a root no other running process
\* has.
LEMMA StartKeeps == ASSUME WInv, NEW p \in Procs, Start(p) PROVE WInv'
<1> USE DEF WInv, Start, diskVars, runVars
<1>1. Locked' /\ Registered'
  BY DEF Locked, Registered
<1>2. Types'
  BY DEF Types, Runs, Paths, PathOf, Steps, LockedSteps, OwnedSteps
<1>3. Apart'
  BY DEF Apart, Types
<1>4. AtWork'
  BY DEF AtWork, Types
<1>5. Owned'
  BY DEF Owned, Types, LockedSteps, OwnedSteps, Paths, PathOf, Runs, AtWork
<1>6. Present'
  BY DEF Present, Types, LockedSteps, OwnedSteps, Paths, PathOf, Runs, AtWork
<1> QED  BY <1>1, <1>2, <1>3, <1>4, <1>5, <1>6

\* The sweep has read the active issues, or gives up.
LEMMA ListActiveKeeps == ASSUME WInv, NEW p \in Procs, ListActive(p) PROVE WInv'
<1> USE DEF WInv, ListActive, diskVars, runVars
<1>1. Locked' /\ Owned' /\ Registered' /\ Present'
  BY DEF Locked, Owned, Registered, Present, PathOf
<1>2. Types'
  BY DEF Types, Runs, Paths, PathOf, Steps, LockedSteps, OwnedSteps
<1>3. Apart'
  BY DEF Apart, Types
<1>4. AtWork'
  BY DEF AtWork, Types, Runs
<1> QED  BY <1>1, <1>2, <1>3, <1>4

\* The sweep has read the terminal issues.
LEMMA ListTerminalKeeps == ASSUME WInv, NEW p \in Procs, ListTerminal(p) PROVE WInv'
<1> USE DEF WInv, ListTerminal, diskVars, runVars
<1>1. Locked' /\ Owned' /\ Registered' /\ Present'
  BY DEF Locked, Owned, Registered, Present, PathOf
<1>2. Types'
  BY DEF Types, Runs, Paths, PathOf, Steps, LockedSteps, OwnedSteps
<1>3. Apart'
  BY DEF Apart, Types
<1>4. AtWork'
  BY DEF AtWork, Types
<1> QED  BY <1>1, <1>2, <1>3, <1>4

\* A sweep removes below its own root, where no attempt is at work: its process
\* is not ready yet, and the other processes have other roots.
LEMMA SweepRemoveKeeps == ASSUME WInv, NEW p \in Procs, SweepRemove(p) PROVE WInv'
<1> USE DEF WInv, SweepRemove, Forget, Doomed, runVars
<1>1. Locked' /\ Owned'
  BY DEF Locked, Owned, PathOf
<1>2. Types'
  BY DEF Types, Runs, Paths, PathOf, Steps, LockedSteps, OwnedSteps
<1>3. Apart'
  BY DEF Apart, Types
<1>4. AtWork'
  BY DEF AtWork, Types, Runs
<1>5. Registered'
  BY DEF Registered, Types, Paths, PathOf, Runs
<1>6. Present'
  <2> SUFFICES ASSUME NEW s \in Runs, pc'[s] \in OwnedSteps \cup {"excluding", "owning"}
               PROVE  dir'[<<root'[s[1]], s[2]>>] # "none"
    BY DEF Present, PathOf
  <2>1. s[1] \in Procs /\ pc[s] = pc'[s] /\ proc[s[1]] = "ready" /\ PathOf(s) \in Paths
    BY DEF AtWork, Types, LockedSteps, OwnedSteps, Paths, PathOf, Runs
  <2>2. root[s[1]] # root[p]
    BY <2>1 DEF Apart
  <2>3. dir'[PathOf(s)] = dir[PathOf(s)]
    BY <2>1, <2>2 DEF Types, Paths, PathOf
  <2> QED  BY <2>1, <2>3 DEF Present, PathOf
<1> QED  BY <1>1, <1>2, <1>3, <1>4, <1>5, <1>6

\* The process is ready.
LEMMA SweepDoneKeeps == ASSUME WInv, NEW p \in Procs, SweepDone(p) PROVE WInv'
<1> USE DEF WInv, SweepDone, Forget, Doomed, diskVars, runVars
<1>1. Locked' /\ Owned' /\ Registered' /\ Present'
  BY DEF Locked, Owned, Registered, Present, PathOf
<1>2. Types'
  BY DEF Types, Runs, Paths, PathOf, Steps, LockedSteps, OwnedSteps
<1>3. Apart'
  BY DEF Apart, Types
<1>4. AtWork'
  BY DEF AtWork, Types
<1> QED  BY <1>1, <1>2, <1>3, <1>4

\* A crash ends the attempts of a process and drops its locks; the disk stays.
LEMMA CrashKeeps == ASSUME WInv, NEW p \in Procs, Crash(p) PROVE WInv'
<1> USE DEF WInv, Crash, Forget, diskVars
<1>1. Registered'
  BY DEF Registered
<1>2. Types'
  BY DEF Types, Runs, Paths, PathOf, Steps, LockedSteps, OwnedSteps
<1>3. Apart'
  BY DEF Apart, Types
<1>4. AtWork'
  <2>1. \A r \in Runs : /\ pc'[r] # "idle" => r[1] # p /\ pc[r] # "idle"
                        /\ r[1] # p => proc'[r[1]] = proc[r[1]]
    BY DEF Types, Runs
  <2> QED  BY <2>1 DEF AtWork
<1>5. Locked'
  BY DEF Locked, Types, LockedSteps, OwnedSteps
<1>6. Owned'
  BY NullsAreNew DEF Owned, Types, LockedSteps, OwnedSteps, Paths, PathOf, Runs
<1>7. Present'
  BY DEF Present, Types, LockedSteps, OwnedSteps, Paths, PathOf, Runs
<1> QED  BY <1>1, <1>2, <1>3, <1>4, <1>5, <1>6, <1>7

\* What the tracker does, and that faults end, leaves the invariant alone.
LEMMA StutterKeeps ==
  ASSUME WInv, UNCHANGED <<proc, root, lock, holder, dir, owner, pc>> PROVE WInv'
  BY DEF WInv, Types, Apart, AtWork, Locked, Owned, Registered, Present, PathOf

\* Every step keeps the invariant.
LEMMA NextKeeps == ASSUME WInv, [Next]_vars PROVE WInv'
<1>1. CASE \E p \in Procs : Start(p) \/ Sweep(p) \/ Crash(p)
  BY <1>1, StartKeeps, ListActiveKeeps, ListTerminalKeeps, SweepRemoveKeeps,
     SweepDoneKeeps, CrashKeeps
     DEF Sweep
<1>2. CASE \E r \in Runs : Prepare(r)
  BY <1>2, DispatchKeeps, LockMirrorKeeps, FetchMirrorKeeps, StartCloneKeeps,
     FinishCloneKeeps, AttachKeeps, ClearKeeps, ReclaimKeeps, AddKeeps, ExcludeKeeps,
     OwnKeeps
     DEF Prepare
<1>3. CASE \E r \in Runs : Work(r) \/ Fails(r) \/ AgentStreams(r) \/ AgentRewrites(r)
  BY <1>3, AfterCreateKeeps, UndoCreateKeeps, BuildPromptKeeps, StartAgentKeeps,
     AgentEndsKeeps, AfterRunKeeps, StartCleanupKeeps, CleanupKeeps, FailsKeeps,
     AgentStreamsKeeps, AgentRewritesKeeps
     DEF Work
<1>4. CASE (\E i \in Issues : TrackerMoves(i)) \/ FaultsEnd \/ UNCHANGED vars
  BY <1>4, StutterKeeps DEF TrackerMoves, FaultsEnd, vars, procVars, diskVars, runVars
<1> QED  BY <1>1, <1>2, <1>3, <1>4 DEF Next

\* No process runs at first, and nothing is checked out.
LEMMA InitHolds == ASSUME Init PROVE WInv
  BY DEF Init, WInv, Types, Apart, AtWork, Locked, Owned, Registered, Present, Runs, Paths,
         PathOf, Steps, LockedSteps, OwnedSteps

\* WInv holds in every reachable state.
THEOREM Invariance == Spec => []WInv
<1>1. Init => WInv
  BY InitHolds
<1>2. WInv /\ [Next]_vars => WInv'
  BY NextKeeps
<1> QED  BY <1>1, <1>2, PTL DEF Spec

\* While an attempt has its workspace (PrepareGitWorkspaceOwned to the deferred
\* release in runtask.go), it owns it, the directory is there, and a worktree in
\* it is the one that has the issue's branch: for any number of processes, roots
\* and issues.
THEOREM SafeWorkspaces == Spec => []LiveWorkspaceIsSafe
<1>1. WInv => LiveWorkspaceIsSafe
  <2> SUFFICES ASSUME WInv, NEW r \in Runs, pc[r] \in OwnedSteps
               PROVE  /\ owner[PathOf(r)] = r
                      /\ dir[PathOf(r)] # "none"
                      /\ Linked(PathOf(r)) => holder[r[2]] = root[r[1]]
    BY DEF LiveWorkspaceIsSafe
  <2>1. PathOf(r) \in Paths
    BY DEF WInv, Types, Runs, Paths, PathOf
  <2> QED  BY <2>1 DEF WInv, Owned, Present, Registered, Linked, PathOf
<1> QED  BY <1>1, Invariance, PTL

-----------------------------------------------------------------------------
(* The startup sweep.                                                        *)

\* What the sweep takes for closed was closed when it asked; until it has asked,
\* nothing is.
Evidence ==
  /\ listed \in [Procs -> [active : SUBSET Issues, terminal : SUBSET Issues]]
  /\ closed \in [Procs -> SUBSET Issues]
  /\ \A p \in Procs :
       /\ proc[p] \in {"down", "listActive", "listTerminal"} => listed[p].terminal = {}
       /\ proc[p] = "sweeping" => listed[p].terminal \subseteq closed[p]

\* Every step keeps the sweep's evidence.
LEMMA EvidenceKept == ASSUME Types, Evidence, [Next]_vars PROVE Evidence'
<1>1. CASE UNCHANGED <<proc, listed, closed>>
  BY <1>1 DEF Evidence
<1>2. ASSUME NEW p \in Procs, Start(p) PROVE Evidence'
  BY <1>2 DEF Types, Evidence, Start
<1>3. ASSUME NEW p \in Procs, ListActive(p) PROVE Evidence'
  <2>1. \A q \in Procs : /\ q # p => proc'[q] = proc[q] /\ listed'[q] = listed[q]
                         /\ listed'[q].terminal = listed[q].terminal
    BY <1>3 DEF Types, Evidence, ListActive
  <2>2. listed' \in [Procs -> [active : SUBSET Issues, terminal : SUBSET Issues]]
    BY <1>3 DEF Evidence, ListActive
  <2>3. listed[p].terminal = {} /\ closed' = closed
    BY <1>3 DEF Evidence, ListActive
  <2> QED  BY <2>1, <2>2, <2>3 DEF Evidence
<1>4. ASSUME NEW p \in Procs, ListTerminal(p) PROVE Evidence'
  <2>1. /\ closed' \in [Procs -> SUBSET Issues]
        /\ closed'[p] = {i \in Issues : tracker[i] = "terminal"}
        /\ \A q \in Procs : q # p =>
             proc'[q] = proc[q] /\ listed'[q] = listed[q] /\ closed'[q] = closed[q]
    BY <1>4 DEF Types, Evidence, ListTerminal
  <2>2. listed' \in [Procs -> [active : SUBSET Issues, terminal : SUBSET Issues]]
    BY <1>4 DEF Evidence, ListTerminal
  <2>3. listed'[p].terminal \in {{}, {i \in Issues : tracker[i] = "terminal"}}
    BY <1>4 DEF Evidence, ListTerminal
  <2>4. proc'[p] = "sweeping"
    BY <1>4 DEF Types, ListTerminal
  <2> QED  BY <2>1, <2>2, <2>3, <2>4 DEF Evidence
<1>5. ASSUME NEW p \in Procs, Forget(p), \A q \in Procs : q # p => proc'[q] = proc[q]
      PROVE  Evidence'
  <2>1. /\ listed'[p].terminal = {}
        /\ \A q \in Procs : q # p => listed'[q] = listed[q] /\ closed'[q] = closed[q]
    BY <1>5 DEF Evidence, Forget
  <2>2. listed' \in [Procs -> [active : SUBSET Issues, terminal : SUBSET Issues]]
    BY <1>5 DEF Evidence, Forget
  <2>3. closed' \in [Procs -> SUBSET Issues]
    BY <1>5 DEF Evidence, Forget
  <2> QED  BY <1>5, <2>1, <2>2, <2>3 DEF Evidence
<1>6. ASSUME NEW p \in Procs, SweepRemove(p) \/ SweepDone(p) \/ Crash(p) PROVE Evidence'
  BY <1>1, <1>5, <1>6, Zenon DEF Types, SweepRemove, SweepDone, Crash
<1>7. CASE \E r \in Runs : Prepare(r)
  BY <1>1, <1>7, Zenon DEF Prepare, procVars, Dispatch, LockMirror, FetchMirror, StartClone,
     FinishClone, Attach, Clear, Reclaim, Add, Exclude, Own
<1>8. CASE \E r \in Runs : Work(r) \/ Fails(r) \/ AgentStreams(r) \/ AgentRewrites(r)
  BY <1>1, <1>8, Zenon DEF Work, procVars, AfterCreate, UndoCreate, BuildPrompt, StartAgent,
     AgentEnds, AfterRun, StartCleanup, Cleanup, Fails, AgentStreams, AgentRewrites
<1>9. CASE (\E i \in Issues : TrackerMoves(i)) \/ FaultsEnd \/ UNCHANGED vars
  BY <1>1, <1>9 DEF TrackerMoves, FaultsEnd, vars, procVars
<1> QED
  BY <1>2, <1>3, <1>4, <1>6, <1>7, <1>8, <1>9 DEF Next, Sweep

\* A directory that goes away while no attempt or cleanup takes a step was removed
\* by the sweep of a process that has its root.
LEMMA OnlySweepRemoves ==
  ASSUME WInv, [Next]_vars, UNCHANGED pc,
         NEW w \in Paths, dir[w] # "none", dir'[w] = "none"
  PROVE  \E q \in Procs : /\ proc[q] = "sweeping"
                          /\ \E j \in Doomed(q) : w = <<root[q], j>>
<1> USE DEF WInv
<1>0. dir' # dir
  OBVIOUS
<1>1. ASSUME NEW r \in Runs, NEW t \in Steps, pc[r] # t, Goto(r, t) PROVE FALSE
  BY <1>1 DEF Types, Goto
<1>2. ASSUME NEW r \in Runs, Prepare(r) PROVE FALSE
  <2>1. Clear(r) \/ Reclaim(r) \/ Add(r)
    BY <1>0, <1>2, Zenon DEF Prepare, diskVars, Dispatch, LockMirror, FetchMirror, StartClone,
       FinishClone, Attach, Exclude, Own
  <2>2. ASSUME Clear(r) PROVE FALSE
    BY <1>0, <1>1, <2>2, Zenon DEF Clear, At, Steps, LockedSteps
  <2>3. ASSUME Reclaim(r) PROVE FALSE
    BY <1>1, <2>3, Zenon DEF Reclaim, At, Steps, LockedSteps
  <2>4. ASSUME Add(r) PROVE FALSE
    BY <1>0, <2>4 DEF Add, Types
  <2> QED  BY <2>1, <2>2, <2>3, <2>4, Zenon
<1>3. ASSUME NEW r \in Runs, Work(r) PROVE FALSE
  <2>1. UndoCreate(r) \/ Cleanup(r)
    BY <1>0, <1>3 DEF Work, diskVars, AfterCreate, BuildPrompt, StartAgent, AgentEnds,
       AfterRun, StartCleanup
  <2>2. (At(r, "undoing") \/ At(r, "removing")) /\ Goto(r, "idle")
    BY <2>1 DEF UndoCreate, Return, Cleanup
  <2> QED  BY <1>1, <2>2, Zenon DEF At, Steps
<1>4. ASSUME NEW r \in Runs, Fails(r) \/ AgentStreams(r) \/ AgentRewrites(r) PROVE FALSE
  BY <1>0, <1>4 DEF Types, diskVars, Fails, AgentStreams, AgentRewrites
<1>5. ~((\E i \in Issues : TrackerMoves(i)) \/ FaultsEnd \/ UNCHANGED vars)
  BY <1>0 DEF TrackerMoves, FaultsEnd, vars, diskVars
<1>6. PICK q \in Procs : Start(q) \/ Sweep(q) \/ Crash(q)
  BY <1>2, <1>3, <1>4, <1>5 DEF Next
<1>7. SweepRemove(q)
  BY <1>0, <1>6 DEF Start, Sweep, ListActive, ListTerminal, SweepDone, Crash, diskVars
<1> QED  BY <1>0, <1>7, Zenon DEF SweepRemove, Types

\* The startup sweep (ReconcileStartup) removes a workspace only of an issue that
\* was terminal when the process asked the tracker: a failed or partial read never
\* costs a workspace.
THEOREM SweptWasClosed == Spec => SweepHasEvidence
<1>1. ASSUME Init PROVE Evidence
  <2>1. \A p \in Procs : listed[p].terminal = {} /\ proc[p] = "down"
    BY <1>1 DEF Init
  <2>2. [active |-> {}, terminal |-> {}] \in [active : SUBSET Issues, terminal : SUBSET Issues]
    OBVIOUS
  <2>3. listed \in [Procs -> [active : SUBSET Issues, terminal : SUBSET Issues]]
    BY <1>1, <2>2, Zenon DEF Init
  <2>4. closed \in [Procs -> SUBSET Issues]
    BY <1>1 DEF Init
  <2> QED  BY <2>1, <2>3, <2>4 DEF Evidence
<1>2. Spec => []WInv
  BY Invariance
<1>3. WInv /\ Evidence /\ [Next]_vars => Evidence'
  BY EvidenceKept DEF WInv
<1>4. ASSUME WInv, Evidence, [Next]_vars, NEW p \in Procs, NEW i \in Issues,
             proc[p] = "sweeping", dir[<<root[p], i>>] # "none",
             dir'[<<root[p], i>>] = "none", UNCHANGED pc
      PROVE  i \in closed[p]
  <2>1. <<root[p], i>> \in Paths
    BY <1>4 DEF WInv, Types, Paths
  <2>2. PICK q \in Procs : /\ proc[q] = "sweeping"
                           /\ \E j \in Doomed(q) : <<root[p], i>> = <<root[q], j>>
    BY <1>4, <2>1, OnlySweepRemoves
  <2>3. q = p /\ i \in Doomed(p)
    BY <1>4, <2>2 DEF WInv, Apart
  <2> QED  BY <1>4, <2>3 DEF Doomed, Removable, Evidence
<1>5. WInv /\ Evidence /\ [Next]_vars =>
        [\A p \in Procs, i \in Issues :
           (proc[p] = "sweeping" /\ dir[<<root[p], i>>] # "none"
              /\ dir'[<<root[p], i>>] = "none" /\ UNCHANGED pc)
           => i \in closed[p]]_vars
  BY <1>4
<1> QED  BY <1>1, <1>2, <1>3, <1>5, PTL DEF Spec, SweepHasEvidence

-----------------------------------------------------------------------------
(* The locks.                                                                *)

\* The mirror lock and the ownership locks are held by attempts of running
\* processes only, at the steps between taking the lock and its deferred release,
\* and a worktree is owned by nobody but an attempt on its path: no error return,
\* crash, restart or forced removal leaves a lock behind that keeps the next
\* attempt, or a reclaim, waiting.
LocksHaveHolders ==
  /\ lock # NoRun => pc[lock] \in LockedSteps /\ proc[lock[1]] = "ready"
  /\ \A w \in Paths : owner[w] # NoRun =>
       pc[owner[w]] \in OwnedSteps /\ w = PathOf(owner[w]) /\ proc[owner[w][1]] = "ready"

\* acquireWorktreeOwnership is a blocking flock, taken with the mirror lock held:
\* it finds the worktree free, so that one process' agent never holds up the
\* preparation of every other issue of the repository.
OwnNeverWaits ==
  \A r \in Runs : pc[r] \in LockedSteps => owner[PathOf(r)] = NoRun

Holders ==
  /\ lock # NoRun => pc[lock] \in LockedSteps
  /\ \A w \in Paths : owner[w] # NoRun => pc[owner[w]] \in OwnedSteps /\ w = PathOf(owner[w])

\* A step that leaves the locks alone, and its attempt between the same locks.
LEMMA HoldersMove ==
  ASSUME WInv, Holders, NEW r \in Runs, NEW t \in Steps, Goto(r, t),
         pc[r] \in LockedSteps => t \in LockedSteps,
         pc[r] \in OwnedSteps => t \in OwnedSteps,
         UNCHANGED <<root, lock, owner>>
  PROVE  Holders'
<1>1. \A s \in Runs : /\ pc[s] \in LockedSteps => pc'[s] \in LockedSteps
                      /\ pc[s] \in OwnedSteps => pc'[s] \in OwnedSteps
                      /\ PathOf(s)' = PathOf(s)
  BY DEF WInv, Types, Goto, PathOf
<1> QED  BY <1>1 DEF WInv, Types, Holders

\* An attempt that returns gives up what it holds.
LEMMA HoldersGiveUp ==
  ASSUME WInv, Holders, NEW r \in Runs, Goto(r, "idle"), Release(r),
         Unlock(r) \/ (UNCHANGED lock /\ pc[r] \notin LockedSteps),
         UNCHANGED root
  PROVE  Holders'
<1>1. \A s \in Runs : s # r => pc'[s] = pc[s]
  BY DEF WInv, Types, Goto
<1>2. \A s \in Runs : PathOf(s)' = PathOf(s)
  BY DEF PathOf
<1>3. lock' # NoRun => lock' = lock /\ lock # r
  BY DEF Holders, Unlock
<1>4. \A w \in Paths : owner'[w] # NoRun => owner'[w] = owner[w] /\ owner[w] # r
  BY DEF Release
<1>5. lock' # NoRun => pc'[lock'] \in LockedSteps
  BY <1>1, <1>3 DEF WInv, Types, Holders
<1>6. ASSUME NEW w \in Paths, owner'[w] # NoRun
      PROVE  pc'[owner'[w]] \in OwnedSteps /\ w = PathOf(owner[w])'
  <2>1. owner'[w] = owner[w] /\ owner[w] \in Runs /\ owner[w] # r
    BY <1>4, <1>6 DEF WInv, Types
  <2> QED  BY <1>1, <1>2, <1>6, <2>1 DEF Holders, PathOf
<1> QED  BY <1>5, <1>6 DEF Holders, PathOf

\* A step that moves no attempt and touches no lock.
LEMMA HoldersStay ==
  ASSUME WInv, Holders, UNCHANGED <<root, lock, owner, pc>>
  PROVE  Holders'
  BY DEF Holders, PathOf

\* The steps of an attempt up to the ownership lock.
LEMMA PrepareHolders ==
  ASSUME WInv, Holders, NEW r \in Runs, Prepare(r)
  PROVE  Holders'
<1>0. root' = root
  BY DEF Prepare, procVars, Dispatch, LockMirror, FetchMirror, StartClone, FinishClone, Attach,
     Clear, Reclaim, Add, Exclude, Own
<1>1. CASE Dispatch(r)
  BY <1>0, <1>1, HoldersMove DEF Dispatch, At, Steps, LockedSteps, OwnedSteps
<1>2. CASE LockMirror(r)
  <2>1. /\ lock' = r /\ owner' = owner /\ pc[r] = "locking" /\ pc'[r] = "mirroring"
        /\ \A s \in Runs : s # r => pc'[s] = pc[s]
    BY <1>2 DEF LockMirror, At, Goto, WInv, Types
  <2> QED  BY <1>0, <2>1 DEF Holders, WInv, Types, PathOf, LockedSteps, OwnedSteps
<1>3. CASE FetchMirror(r)
  BY <1>0, <1>3, HoldersMove DEF FetchMirror, At, Steps, LockedSteps, OwnedSteps
<1>4. CASE StartClone(r)
  BY <1>0, <1>4, HoldersMove DEF StartClone, At, Steps, LockedSteps, OwnedSteps
<1>5. CASE FinishClone(r)
  BY <1>0, <1>5, HoldersMove, HoldersGiveUp
  DEF FinishClone, Return, At, Steps, LockedSteps, OwnedSteps
<1>6. CASE Attach(r)
  BY <1>0, <1>6, HoldersMove DEF Attach, At, Steps, LockedSteps, OwnedSteps
<1>7. CASE Clear(r)
  <2>1. CASE Return(r)
    BY <1>0, <2>1, HoldersGiveUp DEF Return
  <2>2. CASE Goto(r, "reclaiming") /\ UNCHANGED lock /\ owner' = [owner EXCEPT ![PathOf(r)] = NoRun]
    <3>1. /\ pc[r] = "clearing" /\ pc'[r] = "reclaiming"
          /\ \A s \in Runs : s # r => pc'[s] = pc[s]
      BY <1>7, <2>2 DEF Clear, At, Goto, WInv, Types
    <3>2. \A w \in Paths : owner'[w] # NoRun => owner'[w] = owner[w]
      BY <2>2 DEF WInv, Types
    <3> QED  BY <1>0, <2>2, <3>1, <3>2 DEF Holders, WInv, Types, PathOf, LockedSteps, OwnedSteps
  <2> QED  BY <1>7, <2>1, <2>2, Zenon DEF Clear
<1>8. CASE Reclaim(r)
  BY <1>0, <1>8, HoldersMove DEF Reclaim, At, Steps, LockedSteps, OwnedSteps
<1>9. CASE Add(r)
  <2>1. CASE Return(r)
    BY <1>0, <2>1, HoldersGiveUp DEF Return
  <2>2. CASE Goto(r, "excluding") /\ UNCHANGED <<lock, owner>>
    <3>1. pc[r] = "adding"
      BY <1>9 DEF Add, At
    <3> QED  BY <1>0, <2>2, <3>1, HoldersMove DEF Steps, LockedSteps, OwnedSteps
  <2> QED  BY <1>9, <2>1, <2>2, Zenon DEF Add
<1>10. CASE Exclude(r)
  BY <1>0, <1>10, HoldersMove DEF Exclude, At, Steps, LockedSteps, OwnedSteps
<1>11. CASE Own(r)
  <2>1. PathOf(r) \in Paths
    BY DEF WInv, Types, Runs, Paths, PathOf
  <2>2. /\ lock' = NoRun /\ pc[r] = "owning" /\ pc'[r] \in {"creating", "prompting"}
        /\ \A s \in Runs : s # r => pc'[s] = pc[s]
    BY <1>11 DEF Own, At, Goto, WInv, Types
  <2>3. /\ owner'[PathOf(r)] = r
        /\ \A w \in Paths : w # PathOf(r) => owner'[w] = owner[w]
    BY <1>11, <2>1 DEF Own, WInv, Types
  <2>4. \A s \in Runs : PathOf(s)' = PathOf(s)
    BY <1>0 DEF PathOf
  <2>5. ASSUME NEW w \in Paths, owner'[w] # NoRun
        PROVE  pc'[owner'[w]] \in OwnedSteps /\ w = PathOf(owner[w])'
    <3>1. CASE w = PathOf(r)
      BY <2>2, <2>3, <2>4, <3>1 DEF OwnedSteps, PathOf
    <3>2. CASE w # PathOf(r)
      <4>1. owner'[w] = owner[w] /\ owner[w] \in Runs
        BY <2>3, <2>5, <3>2 DEF WInv, Types
      <4>2. pc[owner[w]] \in OwnedSteps /\ w = PathOf(owner[w])
        BY <2>5, <4>1 DEF Holders
      <4>3. owner[w] # r
        BY <2>2, <4>2 DEF OwnedSteps
      <4> QED  BY <2>2, <2>4, <4>1, <4>2, <4>3 DEF PathOf
    <3> QED  BY <3>1, <3>2
  <2> QED  BY <2>2, <2>5 DEF Holders, PathOf
<1> QED
  BY <1>1, <1>2, <1>3, <1>4, <1>5, <1>6, <1>7, <1>8, <1>9, <1>10, <1>11, Zenon DEF Prepare

\* The other steps of an attempt.
LEMMA WorkHolders ==
  ASSUME WInv, Holders, NEW r \in Runs,
         Work(r) \/ Fails(r) \/ AgentStreams(r) \/ AgentRewrites(r)
  PROVE  Holders'
<1>0. root' = root
  BY DEF Work, procVars, AfterCreate, UndoCreate, BuildPrompt, StartAgent, AgentEnds, AfterRun,
     StartCleanup, Cleanup, Fails, AgentStreams, AgentRewrites
<1>1. CASE AfterCreate(r)
  BY <1>0, <1>1, HoldersMove DEF AfterCreate, At, Steps, LockedSteps, OwnedSteps
<1>2. CASE UndoCreate(r) \/ Fails(r)
  BY <1>0, <1>2, HoldersGiveUp, Zenon DEF UndoCreate, Fails, Return
<1>3. CASE BuildPrompt(r) \/ StartAgent(r)
  BY <1>0, <1>3, HoldersMove DEF BuildPrompt, StartAgent, At, Steps, LockedSteps, OwnedSteps
<1>4. CASE AgentEnds(r)
  <2>1. pc[r] = "agent" /\ Goto(r, "ending") /\ UNCHANGED <<lock, owner>>
    BY <1>4 DEF AgentEnds, At
  <2> QED  BY <1>0, <2>1, HoldersMove DEF Steps, LockedSteps, OwnedSteps
<1>5. CASE AfterRun(r)
  BY <1>0, <1>5, HoldersGiveUp DEF AfterRun, At, LockedSteps
<1>6. CASE StartCleanup(r) \/ Cleanup(r)
  BY <1>0, <1>6, HoldersMove DEF StartCleanup, Cleanup, At, Steps, LockedSteps, OwnedSteps
<1>7. CASE AgentStreams(r) \/ AgentRewrites(r)
  BY <1>0, <1>7, HoldersStay, Zenon DEF AgentStreams, AgentRewrites, runVars
<1> QED
  BY <1>1, <1>2, <1>3, <1>4, <1>5, <1>6, <1>7, Zenon DEF Work

\* The steps of a process: a start with another root finds no attempt of its own
\* at work, and a crash drops the locks of the process.
LEMMA ProcessHolders ==
  ASSUME WInv, Holders, NEW p \in Procs, Start(p) \/ Sweep(p) \/ Crash(p)
  PROVE  Holders'
<1>1. CASE Start(p)
  <2>1. UNCHANGED <<lock, owner, pc>>
    BY <1>1, Zenon DEF Start, runVars
  <2>2. \A s \in Runs : pc[s] # "idle" => PathOf(s)' = PathOf(s)
    BY <1>1 DEF Start, PathOf, WInv, Types, AtWork, Runs
  <2> QED  BY <2>1, <2>2 DEF Holders, WInv, Types, PathOf, OwnedSteps
<1>2. CASE Sweep(p)
  BY <1>2, HoldersStay, Zenon
  DEF Sweep, ListActive, ListTerminal, SweepRemove, SweepDone, runVars
<1>3. CASE Crash(p)
  <2>1. /\ lock' # NoRun => lock' = lock /\ lock \notin {p} \X Issues
        /\ \A w \in Paths : owner'[w] # NoRun =>
             owner'[w] = owner[w] /\ owner[w] \notin {p} \X Issues
    BY <1>3 DEF Crash
  <2>2. \A s \in Runs : s \notin {p} \X Issues => pc'[s] = pc[s] /\ PathOf(s)' = PathOf(s)
    BY <1>3 DEF Crash, Runs, PathOf
  <2>3. lock' # NoRun => pc'[lock'] \in LockedSteps
    BY <2>1, <2>2 DEF Holders, WInv, Types
  <2>4. ASSUME NEW w \in Paths, owner'[w] # NoRun
        PROVE  pc'[owner'[w]] \in OwnedSteps /\ w = PathOf(owner[w])'
    <3>1. owner'[w] = owner[w] /\ owner[w] \in Runs /\ owner[w] \notin {p} \X Issues
      BY <2>1, <2>4 DEF WInv, Types
    <3> QED  BY <2>2, <2>4, <3>1 DEF Holders, PathOf
  <2> QED  BY <2>3, <2>4 DEF Holders, PathOf
<1> QED  BY <1>1, <1>2, <1>3

\* Every lock that is held has a holder between taking and releasing it.
LEMMA HoldersKept == Spec => [](WInv /\ Holders)
<1>1. Init => Holders
  BY DEF Init, Holders
<1>2. WInv /\ Holders /\ [Next]_vars => Holders'
  <2> SUFFICES ASSUME WInv, Holders, [Next]_vars PROVE Holders'
    OBVIOUS
  <2>1. CASE (\E i \in Issues : TrackerMoves(i)) \/ FaultsEnd \/ UNCHANGED vars
    BY <2>1, HoldersStay, Zenon DEF TrackerMoves, FaultsEnd, vars, procVars, runVars
  <2> QED  BY <2>1, PrepareHolders, WorkHolders, ProcessHolders DEF Next
<1> QED  BY <1>1, <1>2, Invariance, PTL DEF Spec

\* The deferred releases, and the kernel for a process that died, give back every
\* lock: a lock that is held belongs to an attempt that is still at work on what
\* the lock is for (acquireMirrorLock, acquireWorktreeOwnership).
THEOREM NoStaleLock == Spec => []LocksHaveHolders
<1>1. WInv /\ Holders => LocksHaveHolders
  BY DEF WInv, Types, AtWork, Holders, LocksHaveHolders, LockedSteps, OwnedSteps
<1> QED  BY <1>1, HoldersKept, PTL

\* The flock that acquireWorktreeOwnership takes while it has the mirror lock is
\* free, for any number of processes that share the mirror: the wait on one lock
\* under the other, which would hold up every issue, does not happen.
THEOREM FlockNeverBlocks == Spec => []OwnNeverWaits
<1>1. WInv /\ Holders => OwnNeverWaits
  <2> SUFFICES ASSUME WInv, Holders, NEW r \in Runs, pc[r] \in LockedSteps,
                      owner[PathOf(r)] # NoRun
               PROVE  FALSE
    BY DEF OwnNeverWaits
  <2> DEFINE s == owner[PathOf(r)]
  <2>1. PathOf(r) \in Paths
    BY DEF WInv, Types, Runs, Paths, PathOf
  <2>2. s \in Runs
    BY <2>1 DEF WInv, Types
  <2>3. pc[s] \in OwnedSteps /\ PathOf(r) = PathOf(s)
    BY <2>1 DEF Holders
  <2>4. pc[s] # "idle" /\ pc[r] # "idle" /\ pc[r] \notin OwnedSteps
    BY <2>3 DEF LockedSteps, OwnedSteps
  <2> HIDE DEF s
  <2>5. r = s
    BY <2>2, <2>3, <2>4, Distinct
  <2> QED  BY <2>3, <2>4, <2>5
<1> QED  BY <1>1, HoldersKept, PTL
=============================================================================
