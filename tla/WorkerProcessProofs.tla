-------------------------- MODULE WorkerProcessProofs --------------------------
(***************************************************************************)
(* Proofs about WorkerProcess, for any number of workers, any contents of  *)
(* the workflow file and any bounds on edits and faults: a complete drain  *)
(* leaves no agent behind, a refresh is not lost, a tick uses the          *)
(* configuration in force, and the server's controller remembers no port   *)
(* it does not listen on.                                                  *)
(*                                                                         *)
(* The drain: the count may grow again after the wait has seen it at zero. *)
(* What saves the drain is that it begins only after the root context is   *)
(* cancelled, and that no command is started under a cancelled context:    *)
(* the workers that come late find it cancelled.                           *)
(***************************************************************************)
EXTENDS WorkerProcess, TLAPS

MainOK == main \in [at : Stages, loaded : Valid \cup {None}, clean : BOOLEAN]

WorkersOK ==
  /\ worker \in [Workers -> Places]
  /\ drain \subseteq Workers /\ agents \subseteq Workers

(* Goroutines between the count and the end of a worker.                   *)
Counted == {"submit", "registered", "prepare", "agent", "result"}

WorkersCounted ==
  /\ \A w \in Workers : worker[w] \in Counted => w \in drain
  /\ \A w \in agents : worker[w] = "agent"

DrainState ==
  /\ main.at \in {"drain", "drained"} => stop
  /\ main.at = "drained" => agents = {}
  /\ main.clean => main.at = "exit" /\ agents = {}

DrainInv == MainOK /\ WorkersOK /\ WorkersCounted /\ DrainState

-----------------------------------------------------------------------------
(* Nothing runs at first.                                                  *)
LEMMA InitDrain == Init => DrainInv
BY WorkflowFile DEF Init, DrainInv, MainOK, WorkersOK, WorkersCounted, DrainState, Stages, Looping,
   Places, Counted

(* The steps of a worker's goroutines.                                     *)
LEMMA WorkloadDrain ==
  ASSUME DrainInv, Workload
  PROVE  DrainInv'
<1> USE DEF DrainInv, MainOK, WorkersOK, WorkersCounted, DrainState, Places, Counted
<1>1. PICK w \in Workers : Dispatch(w) \/ Worker(w) \/ SpawnPanics(w)
  BY DEF Workload
<1>2. main' = main /\ stop' = stop /\ main.at # "exit"
  BY DEF Workload, Alive
<1>3. CASE Dispatch(w) \/ Spawn(w)
  BY <1>2, <1>3 DEF Dispatch, Spawn, GoTo, Track
<1>4. CASE RegisterRunning(w) \/ DispatcherSpawn(w) \/ SpawnPanics(w)
  BY <1>2, <1>4 DEF RegisterRunning, DispatcherSpawn, SpawnPanics, GoTo, Abandon
<1>5. CASE StartAgent(w)
  BY <1>2, <1>5 DEF StartAgent, GoTo
<1>6. CASE AgentExits(w) \/ FinalizeRun(w)
  BY <1>2, <1>6 DEF AgentExits, FinalizeRun, GoTo, Abandon
<1> QED
  BY <1>1, <1>3, <1>4, <1>5, <1>6 DEF Worker

(* Every step keeps the invariant.                                         *)
LEMMA NextDrain ==
  ASSUME DrainInv, [Next]_vars
  PROVE  DrainInv'
<1>1. CASE Edit \/ TakePort \/ FreePort \/ ServerDies \/ QueuePollWake \/ Reload \/ Apply
  <2>1. UNCHANGED <<main, stop, worker, drain, agents>>
    BY <1>1, Zenon DEF running, Edit, TakePort, FreePort, ServerDies, QueuePollWake, Reload, Apply,
       WorkflowFileFingerprint, ReloadWorkflow
  <2> QED
    BY <2>1 DEF DrainInv, MainOK, WorkersOK, WorkersCounted, DrainState
<1> USE DEF DrainInv, MainOK, WorkersOK, WorkersCounted, DrainState, Stages, Looping, running
<1>2. CASE Signal
  BY <1>2 DEF Signal, Alive
<1>3. CASE Startup
  <2>1. CASE ResolveStartupWorkflow
    BY <2>1 DEF ResolveStartupWorkflow
  <2>2. CASE NewWorkflowRuntime
    BY <2>2 DEF NewWorkflowRuntime
  <2>3. CASE ReconcileStartup
    BY <2>3 DEF ReconcileStartup
  <2> QED
    BY <1>3, <2>1, <2>2, <2>3 DEF Startup
<1>4. CASE PollLoop \/ IntervalPasses
  BY <1>4 DEF PollLoop, IntervalPasses, PollBegins, PollEnds, SleepOrRetryWake
<1>5. CASE Workload
  BY <1>5, WorkloadDrain
<1>6. CASE WaitForWorkers
  <2>1. drain = {} => agents = {}
    BY DEF Counted
  <2> QED
    BY <1>6, <2>1 DEF WaitForWorkers
<1>7. CASE Exit \/ ActorStops \/ StopServer
  BY <1>7, Zenon DEF Exit, ActorStops, StopServer
<1>8. CASE UNCHANGED vars
  BY <1>8 DEF vars
<1> QED
  BY <1>1, <1>2, <1>3, <1>4, <1>5, <1>6, <1>7, <1>8 DEF Next, Shutdown

(* When main reports the drain complete no agent process is alive, however *)
(* many goroutines start workers while it waits (WaitForWorkers, spawn).   *)
THEOREM Drained == Spec => []DrainedMeansNoAgent
<1>1. DrainInv => DrainedMeansNoAgent
  BY DEF DrainInv, DrainState, DrainedMeansNoAgent
<1> QED
  BY <1>1, InitDrain, NextDrain, PTL DEF Spec
-----------------------------------------------------------------------------
(* Refreshes.  One that no poll has followed yet is in the wake-up channel,*)
(* or the loop has taken it and the next thing it does is to poll, or the  *)
(* process has ended.                                                      *)
RefreshIsHeld == asked => wake \/ main.at \in {"poll", "exit"}

RefreshInv == MainOK /\ RefreshIsHeld

(* Every step keeps a refresh that was accepted.                           *)
LEMMA NextRefresh ==
  ASSUME RefreshInv, [Next]_vars
  PROVE  RefreshInv'
<1> USE DEF RefreshInv, RefreshIsHeld, MainOK
<1>1. CASE \/ Edit \/ TakePort \/ FreePort \/ ServerDies \/ Reload \/ Apply \/ Workload
           \/ ActorStops \/ StopServer \/ UNCHANGED vars
  <2>1. UNCHANGED <<main, wake, asked>>
    BY <1>1, Zenon DEF Edit, TakePort, FreePort, ServerDies, Reload, Apply, Workload, ActorStops,
       StopServer, WorkflowFileFingerprint, ReloadWorkflow, vars, waking
  <2> QED
    BY <2>1
<1> USE DEF Stages, Looping, waking
<1>2. CASE QueuePollWake
  BY <1>2 DEF QueuePollWake
<1>3. CASE Signal
  BY <1>3 DEF Signal, Alive
<1>4. CASE ResolveStartupWorkflow \/ NewWorkflowRuntime
  <2>1. CASE ResolveStartupWorkflow
    BY <2>1 DEF ResolveStartupWorkflow
  <2>2. CASE NewWorkflowRuntime
    BY <2>2 DEF NewWorkflowRuntime
  <2> QED
    BY <1>4, <2>1, <2>2
<1>5. CASE ReconcileStartup
  BY <1>5 DEF ReconcileStartup
<1>6. CASE PollBegins
  BY <1>6 DEF PollBegins
<1>7. CASE PollEnds
  BY <1>7 DEF PollEnds, WakeKept
<1>8. CASE SleepOrRetryWake \/ IntervalPasses
  BY <1>8 DEF SleepOrRetryWake, IntervalPasses
<1>9. CASE WaitForWorkers \/ Exit
  <2>1. CASE WaitForWorkers
    BY <2>1 DEF WaitForWorkers
  <2>2. CASE Exit
    BY <2>2 DEF Exit
  <2> QED
    BY <1>9, <2>1, <2>2
<1> QED
  BY <1>1, <1>2, <1>3, <1>4, <1>5, <1>6, <1>7, <1>8, <1>9
  DEF Next, Startup, PollLoop, Shutdown

(* An accepted refresh is never lost between a running tick, coalescing    *)
(* and the sleep (queuePollWake, sleepOrRetryWake): what remains for it to *)
(* be followed by a poll is that the loop runs.                            *)
THEOREM RefreshKept == Spec => []RefreshIsHeld
<1>1. Init => RefreshInv
  BY DEF Init, RefreshInv, MainOK, RefreshIsHeld, Stages
<1>2. RefreshInv => RefreshIsHeld
  BY DEF RefreshInv
<1> QED
  BY <1>1, <1>2, NextRefresh, PTL DEF Spec
-----------------------------------------------------------------------------
(* The configuration.  Unless one check of the file has read two contents  *)
(* of it, a tick begins with the workflow of the configuration in force,   *)
(* though a poller is only rebuilt when the fingerprint changes; and in    *)
(* any case with a workflow that was valid.                                *)
TickUsesConfig ==
  [][ main.at = "poll" /\ main'.at = "tick" =>
        /\ cfg.wf \in Valid /\ poller'.wf \in Valid
        /\ torn \/ poller'.wf = cfg.wf ]_vars

LoadingOK ==
  /\ file \in Versions
  /\ cfg \in [wf : Valid \cup {None}, fp : Versions \cup {None}, failed : Versions \cup {None}]
  /\ check \in [on : BOOLEAN, fp : Versions \cup {None}]
  /\ poller \in [wf : Valid \cup {None}, fp : Versions \cup {None}]

(* Until the runtime is built nothing is configured, checked or polled.    *)
Starting ==
  main.at \in {"load", "build"} =>
    poller.wf = None /\ poller.fp = None /\ ~ check.on /\ check.fp = None

Configured ==
  /\ main.at = "build" => main.loaded \in Valid
  /\ main.at \notin {"load", "build", "exit"} => cfg.wf \in Valid
  /\ ~ torn => cfg.wf = cfg.fp /\ poller.wf = poller.fp

ConfigInv == MainOK /\ LoadingOK /\ Starting /\ Configured

(* A poller for the snapshot has a valid workflow, that of the snapshot    *)
(* unless a check was torn.                                                *)
LEMMA PollerIs ==
  ASSUME ConfigInv, cfg.wf \in Valid
  PROVE  /\ PollerForSnapshot \in [wf : Valid \cup {None}, fp : Versions \cup {None}]
         /\ PollerForSnapshot.wf \in Valid
         /\ ~ torn => PollerForSnapshot.wf = cfg.wf /\ PollerForSnapshot.fp = PollerForSnapshot.wf
<1>1. CASE poller.wf # None /\ poller.fp = cfg.fp
  BY <1>1 DEF ConfigInv, LoadingOK, Configured, PollerForSnapshot
<1>2. CASE ~ (poller.wf # None /\ poller.fp = cfg.fp)
  BY <1>2 DEF ConfigInv, LoadingOK, Configured, PollerForSnapshot
<1> QED
  BY <1>1, <1>2

(* Every step keeps the invariant of the configuration.                    *)
LEMMA NextConfig ==
  ASSUME ConfigInv, [Next]_vars
  PROVE  ConfigInv'
<1>1. MainOK /\ LoadingOK /\ Starting /\ Configured
  BY DEF ConfigInv
<1>2. CASE \/ TakePort \/ FreePort \/ ServerDies \/ QueuePollWake \/ Apply \/ Workload
           \/ ActorStops \/ StopServer \/ UNCHANGED vars
  <2>1. UNCHANGED <<main, file, cfg, check, torn, poller>>
    BY <1>2, Zenon DEF TakePort, FreePort, ServerDies, QueuePollWake, Apply, Workload, ActorStops,
       StopServer, vars, loading
  <2> QED
    BY <1>1, <2>1 DEF ConfigInv, MainOK, LoadingOK, Starting, Configured
<1>3. CASE Edit
  BY <1>1, <1>3 DEF Edit, ConfigInv, MainOK, LoadingOK, Starting, Configured, loading
<1>4. CASE Signal \/ PollEnds \/ SleepOrRetryWake \/ IntervalPasses \/ WaitForWorkers \/ Exit
  <2>1. UNCHANGED <<file, cfg, check, torn, poller>>
    BY <1>4, Zenon DEF Signal, PollEnds, SleepOrRetryWake, IntervalPasses, WaitForWorkers, Exit,
       loading
  <2>2. /\ MainOK'
        /\ main' # main => main'.at \notin {"load", "build"}
        /\ main' # main /\ main'.at # "exit" => main.at \notin {"load", "build", "exit"}
    <3>1. CASE Signal \/ PollEnds
      BY <1>1, <3>1 DEF Signal, Alive, PollEnds, MainOK, Stages, Looping
    <3>2. CASE SleepOrRetryWake \/ IntervalPasses
      BY <1>1, <3>2 DEF SleepOrRetryWake, IntervalPasses, MainOK, Stages, Looping
    <3>3. CASE WaitForWorkers \/ Exit
      BY <1>1, <3>3 DEF WaitForWorkers, Exit, MainOK, Stages, Looping
    <3> QED
      BY <1>4, <3>1, <3>2, <3>3
  <2> QED
    BY <1>1, <2>1, <2>2 DEF ConfigInv, LoadingOK, Starting, Configured
<1>5. CASE ResolveStartupWorkflow
  BY <1>1, <1>5
  DEF ResolveStartupWorkflow, ConfigInv, MainOK, LoadingOK, Starting, Configured, Stages, loading
<1>6. CASE NewWorkflowRuntime
  <2>1. /\ main'.at = "reconcile" /\ MainOK'
        /\ UNCHANGED <<file, check, poller>>
    BY <1>1, <1>6 DEF NewWorkflowRuntime, MainOK, Stages
  <2>2. /\ cfg' \in [wf : Valid \cup {None}, fp : Versions \cup {None}, failed : Versions \cup {None}]
        /\ cfg'.wf = main.loaded /\ main.loaded \in Valid
        /\ ~ torn' => file = main.loaded
        /\ cfg'.fp = IF file = Missing THEN None ELSE file
    BY <1>1, <1>6 DEF NewWorkflowRuntime, LoadingOK, MainOK, Configured
  <2>3. poller.wf = poller.fp
    BY <1>1, <1>6 DEF NewWorkflowRuntime, Starting
  <2> QED
    BY <1>1, <2>1, <2>2, <2>3, WorkflowFile DEF ConfigInv, LoadingOK, Starting, Configured
<1>7. CASE ReconcileStartup
  <2>1. cfg.wf \in Valid
    BY <1>1, <1>7 DEF ReconcileStartup, Configured
  <2>2. /\ MainOK' /\ main'.at \in {"poll", "exit"}
        /\ UNCHANGED <<file, cfg, torn>>
        /\ poller' \in {poller, PollerForSnapshot}
        /\ check' \in [on : BOOLEAN, fp : Versions \cup {None}]
    BY <1>1, <1>7 DEF ReconcileStartup, MainOK, LoadingOK, Stages, Looping
  <2> QED
    BY <1>1, <2>1, <2>2, PollerIs DEF ConfigInv, LoadingOK, Starting, Configured
<1>8. CASE PollBegins
  <2>1. cfg.wf \in Valid
    BY <1>1, <1>8 DEF PollBegins, Configured
  <2>2. /\ MainOK' /\ main'.at = "tick"
        /\ UNCHANGED <<file, cfg, check, torn>>
        /\ poller' = PollerForSnapshot
    BY <1>1, <1>8 DEF PollBegins, MainOK, Stages, Looping, loading
  <2> QED
    BY <1>1, <2>1, <2>2, PollerIs DEF ConfigInv, LoadingOK, Starting, Configured
<1>9. CASE WorkflowFileFingerprint
  <2>1. /\ UNCHANGED <<main, file, torn, poller>>
        /\ cfg' \in [wf : Valid \cup {None}, fp : Versions \cup {None}, failed : Versions \cup {None}]
        /\ cfg'.wf = cfg.wf /\ cfg'.fp = cfg.fp
        /\ check' \in [on : BOOLEAN, fp : Versions \cup {None}]
        /\ check.on
    BY <1>1, <1>9, WorkflowFile DEF WorkflowFileFingerprint, LoadingOK
  <2> QED
    BY <1>1, <2>1 DEF ConfigInv, MainOK, LoadingOK, Starting, Configured
<1>10. CASE ReloadWorkflow
  <2>1. /\ UNCHANGED <<main, file, poller>>
        /\ check.fp # None
        /\ check' \in [on : BOOLEAN, fp : Versions \cup {None}]
        /\ ~ torn' => ~ torn /\ file = check.fp
    BY <1>1, <1>10 DEF ReloadWorkflow, LoadingOK
  <2>2. /\ cfg' \in [wf : Valid \cup {None}, fp : Versions \cup {None}, failed : Versions \cup {None}]
        /\ \/ cfg'.wf = file /\ cfg'.fp = check.fp /\ file \in Valid
           \/ cfg'.wf = cfg.wf /\ cfg'.fp = cfg.fp
    BY <1>1, <1>10 DEF ReloadWorkflow, LoadingOK
  <2> QED
    BY <1>1, <2>1, <2>2 DEF ConfigInv, MainOK, LoadingOK, Starting, Configured
<1> QED
  BY <1>2, <1>3, <1>4, <1>5, <1>6, <1>7, <1>8, <1>9, <1>10
  DEF Next, Startup, PollLoop, Reload, Shutdown

(* The configuration is built from valid contents of the file only.        *)
LEMMA ConfigHolds == Spec => []ConfigInv
<1>1. Init => ConfigInv
  BY WorkflowFile
  DEF Init, ConfigInv, MainOK, LoadingOK, Starting, Configured, Stages
<1> QED
  BY <1>1, NextConfig, PTL DEF Spec

(* A tick never runs with a workflow that an edit made since has replaced  *)
(* in the configuration, nor with one that did not validate                *)
(* (pollerForSnapshot, ReloadOnce).                                        *)
THEOREM TicksFollowConfig == Spec => TickUsesConfig
<1>1. ASSUME ConfigInv, [Next]_vars, main.at = "poll", main'.at = "tick"
      PROVE  /\ cfg.wf \in Valid /\ poller'.wf \in Valid
             /\ torn \/ poller'.wf = cfg.wf
  <2>1. cfg.wf \in Valid
    BY <1>1 DEF ConfigInv, Configured
  <2>2. main' # main
    BY <1>1
  <2>3. PollBegins
    <3>1. CASE \/ Edit \/ TakePort \/ FreePort \/ ServerDies \/ QueuePollWake \/ Reload \/ Apply
               \/ Workload \/ ActorStops \/ StopServer \/ UNCHANGED vars
      BY <2>2, <3>1, Zenon DEF Edit, TakePort, FreePort, ServerDies, QueuePollWake, Reload, Apply,
         Workload, ActorStops, StopServer, WorkflowFileFingerprint, ReloadWorkflow, vars
    <3>2. CASE Startup \/ PollEnds \/ SleepOrRetryWake \/ IntervalPasses \/ WaitForWorkers \/ Exit
      BY <1>1, <3>2 DEF Startup, ResolveStartupWorkflow, NewWorkflowRuntime, ReconcileStartup,
         PollEnds, SleepOrRetryWake, IntervalPasses, WaitForWorkers, Exit
    <3>3. CASE Signal
      BY <1>1, <2>2, <3>3 DEF Signal, ConfigInv, MainOK
    <3> QED
      BY <1>1, <3>1, <3>2, <3>3 DEF Next, PollLoop, Shutdown
  <2> QED
    BY <1>1, <2>1, <2>3, PollerIs DEF PollBegins
<1> QED
  BY <1>1, ConfigHolds, PTL DEF Spec, TickUsesConfig
-----------------------------------------------------------------------------
(* The state server.  The controller leaves the server alone when the port *)
(* it remembers, none for a server that has died, is the configured one.   *)
(* Then the server listens on that port, or is to be off and is: a listen  *)
(* that failed, a server that died and a port that was taken meanwhile     *)
(* are never remembered as done.                                           *)
NothingToApply ==
  (IF server.held /\ ~ server.up THEN None ELSE server.desired) = Port[cfg.wf]

ServerAsRemembered ==
  server.on /\ Alive /\ NothingToApply =>
    IF Port[cfg.wf] = Off THEN ~ server.up
    ELSE server.up /\ server.desired = Port[cfg.wf] /\ server.desired \notin taken

ServerOK ==
  server \in [on : BOOLEAN, desired : {Port[v] : v \in Valid} \cup {None}, held : BOOLEAN,
              up : BOOLEAN]

Remembered ==
  /\ server.on => main.at \notin {"load", "build"}
  /\ server.up => server.held /\ server.desired \notin taken \cup {Off, None}
  /\ server.desired \notin {Off, None} => server.held

ServerInv == ServerOK /\ Remembered

(* Every step keeps what the controller remembers true.                    *)
LEMMA NextServer ==
  ASSUME ConfigInv, ServerInv, [Next]_vars
  PROVE  ServerInv'
<1>1. MainOK /\ Configured /\ ServerOK /\ Remembered
  BY DEF ConfigInv, ServerInv
<1>2. CASE \/ Edit \/ QueuePollWake \/ Reload \/ Workload \/ ActorStops \/ UNCHANGED vars
  <2>1. UNCHANGED <<main, server, taken>>
    BY <1>2, Zenon DEF Edit, QueuePollWake, Reload, Workload, ActorStops, WorkflowFileFingerprint,
       ReloadWorkflow, vars, http
  <2> QED
    BY <1>1, <2>1 DEF ServerInv, ServerOK, Remembered
<1>3. CASE \/ Signal \/ ReconcileStartup \/ PollBegins \/ PollEnds \/ SleepOrRetryWake
           \/ IntervalPasses \/ WaitForWorkers \/ Exit
  <2>1. UNCHANGED <<server, taken>>
    BY <1>3, Zenon DEF Signal, ReconcileStartup, PollBegins, PollEnds, SleepOrRetryWake,
       IntervalPasses, WaitForWorkers, Exit, http
  <2>2. main' = main \/ main'.at \notin {"load", "build"}
    <3>1. CASE Signal \/ ReconcileStartup
      BY <1>1, <3>1 DEF Signal, ReconcileStartup, MainOK
    <3>2. CASE PollBegins \/ PollEnds
      BY <1>1, <3>2 DEF PollBegins, PollEnds, MainOK
    <3>3. CASE SleepOrRetryWake \/ IntervalPasses
      BY <1>1, <3>3 DEF SleepOrRetryWake, IntervalPasses, MainOK
    <3>4. CASE WaitForWorkers \/ Exit
      BY <1>1, <3>4 DEF WaitForWorkers, Exit, MainOK
    <3> QED
      BY <1>3, <3>1, <3>2, <3>3, <3>4
  <2> QED
    BY <1>1, <2>1, <2>2 DEF ServerInv, ServerOK, Remembered
<1>4. CASE ResolveStartupWorkflow
  BY <1>1, <1>4 DEF ResolveStartupWorkflow, ServerInv, ServerOK, Remembered, http
<1>5. CASE NewWorkflowRuntime
  <2>1. main'.at = "reconcile"
    BY <1>1, <1>5 DEF NewWorkflowRuntime, MainOK
  <2>2. /\ ServerOK' /\ UNCHANGED taken
        /\ server'.desired = server.desired /\ server'.held = server.held /\ server'.up = server.up
    BY <1>1, <1>5 DEF NewWorkflowRuntime, ServerOK
  <2> QED
    BY <1>1, <2>1, <2>2 DEF ServerInv, Remembered
<1>6. CASE TakePort
  BY <1>1, <1>6 DEF TakePort, ServerInv, ServerOK, Remembered
<1>7. CASE FreePort
  BY <1>1, <1>7 DEF FreePort, ServerInv, ServerOK, Remembered
<1>8. CASE ServerDies
  <2>1. /\ ServerOK' /\ UNCHANGED <<main, taken>>
        /\ server'.on = server.on /\ server'.desired = server.desired
        /\ server'.held = server.held /\ ~ server'.up
    BY <1>1, <1>8 DEF ServerDies, ServerOK
  <2> QED
    BY <1>1, <2>1 DEF ServerInv, Remembered
<1>9. CASE Apply
  <2> DEFINE port == Port[cfg.wf]
             listens == port \notin taken \cup {Off}
  <2>1. cfg.wf \in Valid
    BY <1>1, <1>9 DEF Apply, Alive, Remembered, Configured
  <2>2. port # None /\ Desired(port) \in {Port[v] : v \in Valid} \cup {None}
    BY <2>1, WorkflowFile DEF Desired
  <2>3. UNCHANGED <<main, taken>>
    BY <1>9 DEF Apply
  <2>4. CASE server' = server
    BY <1>1, <2>3, <2>4 DEF ServerInv, ServerOK, Remembered
  <2>5. CASE server' = [server EXCEPT !.desired = Desired(port), !.held = listens, !.up = listens]
    <3> HIDE DEF port, listens
    <3>1. listens \in BOOLEAN
      BY DEF listens
    <3>2. /\ ServerOK' /\ server'.on = server.on /\ server'.desired = Desired(port)
          /\ server'.held = listens /\ server'.up = listens
      BY <1>1, <2>2, <2>5, <3>1 DEF ServerOK
    <3>3. listens => Desired(port) = port /\ port \notin taken \cup {Off, None}
      BY <2>2 DEF listens, Desired
    <3>4. ~ listens => Desired(port) \in {Off, None}
      BY DEF listens, Desired
    <3> QED
      BY <1>1, <2>3, <3>1, <3>2, <3>3, <3>4 DEF ServerInv, Remembered
  <2> QED
    BY <1>9, <2>4, <2>5 DEF Apply
<1>10. CASE StopServer
  BY <1>1, <1>10 DEF StopServer, ServerInv, ServerOK, Remembered
<1> QED
  BY <1>2, <1>3, <1>4, <1>5, <1>6, <1>7, <1>8, <1>9, <1>10
  DEF Next, Startup, PollLoop, Shutdown

(* When Apply of the state server's controller finds nothing to do there   *)
(* is nothing to do: whatever listens failed, servers died or ports were   *)
(* taken, the port remembered is one listened on.                          *)
THEOREM ServerIsAsRemembered == Spec => []ServerAsRemembered
<1>1. Init => ServerInv
  BY DEF Init, ServerInv, ServerOK, Remembered
<1>2. ConfigInv /\ ServerInv => ServerAsRemembered
  <2> SUFFICES ASSUME ConfigInv, ServerInv, server.on, Alive, NothingToApply
               PROVE  IF Port[cfg.wf] = Off THEN ~ server.up
                      ELSE /\ server.up /\ server.desired = Port[cfg.wf]
                           /\ server.desired \notin taken
    BY DEF ServerAsRemembered
  <2>1. cfg.wf \in Valid
    BY DEF ConfigInv, Configured, ServerInv, Remembered, Alive
  <2>2. Port[cfg.wf] # None
    BY <2>1, WorkflowFile
  <2>3. server.desired = Port[cfg.wf] /\ (server.held => server.up)
    BY <2>2 DEF NothingToApply
  <2> QED
    BY <2>2, <2>3 DEF ServerInv, Remembered
<1> QED
  BY <1>1, <1>2, NextServer, ConfigHolds, PTL DEF Spec
=============================================================================
