----------------------------- MODULE WorkerProcess -----------------------------
(***************************************************************************)
(* The worker process around the orchestrator: startup, the poll loop and  *)
(* its wake-up channel, the workflow file that is reloaded while it runs,  *)
(* the state HTTP server that follows the configuration, and the shutdown  *)
(* that waits for the agents.                                              *)
(*                                                                         *)
(* The content of the workflow file is its version; a fingerprint tells    *)
(* versions apart.  What a tick does is module PollTick, what the actor    *)
(* does is module Orchestrator: here it starts workers for issues, whose   *)
(* goroutines are followed from the dispatch to the exit of the agent.     *)
(***************************************************************************)
EXTENDS Naturals, FiniteSets

CONSTANTS Versions,  \* contents of the workflow file
          Valid,     \* the ones that load and validate
          Missing,   \* the file cannot be read
          Port,      \* server.port of each valid content
          Off,       \* a negative port: no server
          None,
          Workers,   \* worker slots
          Worlds     \* bounds: edits of the file, faults of the server, workers in use

ASSUME WorkflowFile ==
  /\ Valid \subseteq Versions /\ Missing \in Versions \ Valid
  /\ None \notin Versions /\ DOMAIN Port = Valid
  /\ \A v \in Valid : Port[v] # None
  /\ Worlds \subseteq [edits : Nat, faults : Nat, workers : SUBSET Workers]

VARIABLES
  world,   \* what is left of the bounds
  file,    \* the content of the workflow file
  main,    \* the main goroutine: startup, then the poll loop, then the drain
  stop,    \* the root context is cancelled
  cfg,     \* WorkflowRuntime.current, and lastFailedFingerprint
  check,   \* the reload loop
  poller,  \* the poller and the fingerprint it was built for
  server,  \* the state HTTP server and its controller
  taken,   \* ports another process holds
  wake,    \* the one-slot wake-up channel
  asked,   \* ghost: a refresh was accepted, and no poll has begun since
  torn,    \* ghost: one check has read two contents of the file
  actor,   \* the actor's loop runs
  worker,  \* where the goroutines of each worker are
  drain,   \* the workers counted in workerWG
  agents   \* the workers whose agent process is alive

loading == <<cfg, check, torn>>
http == <<server, taken>>
waking == <<wake, asked>>
running == <<actor, worker, drain, agents>>
vars == <<world, file, main, stop, poller, loading, http, waking, running>>

Looping == {"poll", "tick", "sleep"}
Stages == {"load", "build", "reconcile"} \cup Looping \cup {"drain", "drained", "exit"}
Places == {"free", "followup", "submit", "registered", "prepare", "agent", "result"}

TypeOK ==
  /\ file \in Versions
  /\ main \in [at : Stages, loaded : Valid \cup {None}, clean : BOOLEAN]
  /\ cfg \in [wf : Valid \cup {None}, fp : Versions \cup {None}, failed : Versions \cup {None}]
  /\ check \in [on : BOOLEAN, fp : Versions \cup {None}]
  /\ poller \in [wf : Valid \cup {None}, fp : Versions \cup {None}]
  /\ server.desired \in {Port[v] : v \in Valid} \cup {None}
  /\ {stop, wake, asked, torn, actor} \subseteq BOOLEAN
  /\ worker \in [Workers -> Places]
  /\ drain \subseteq Workers /\ agents \subseteq Workers

Init ==
  /\ world \in Worlds
  /\ file \in Valid
  /\ main = [at |-> "load", loaded |-> None, clean |-> FALSE]
  /\ stop = FALSE
  /\ cfg = [wf |-> None, fp |-> None, failed |-> None]
  /\ check = [on |-> FALSE, fp |-> None]
  /\ poller = [wf |-> None, fp |-> None]
  /\ server = [on |-> FALSE, desired |-> None, held |-> FALSE, up |-> FALSE]
  /\ taken = {}
  /\ wake = FALSE /\ asked = FALSE /\ torn = FALSE
  /\ actor = FALSE /\ worker = [w \in Workers |-> "free"]
  /\ drain = {} /\ agents = {}

Alive == main.at # "exit"
-----------------------------------------------------------------------------
(* The environment.                                                        *)

Edit ==
  /\ Alive /\ world.edits > 0
  /\ \E v \in Versions \ {file} : file' = v
  /\ world' = [world EXCEPT !.edits = @ - 1]
  /\ UNCHANGED <<main, stop, poller, loading, http, waking, running>>

(* SIGTERM or SIGINT.  A second one ends the process at once.              *)
Signal ==
  /\ Alive
  /\ IF stop THEN main' = [main EXCEPT !.at = "exit"] /\ UNCHANGED stop
             ELSE stop' = TRUE /\ UNCHANGED main
  /\ UNCHANGED <<world, file, poller, loading, http, waking, running>>

TakePort ==
  /\ Alive /\ world.faults > 0
  /\ \E p \in {Port[v] : v \in Valid} \ (taken \cup {Off}) :
       /\ ~ (server.up /\ server.desired = p)
       /\ taken' = taken \cup {p}
  /\ world' = [world EXCEPT !.faults = @ - 1]
  /\ UNCHANGED <<file, main, stop, poller, loading, server, waking, running>>

FreePort ==
  /\ taken # {} /\ taken' = {}
  /\ UNCHANGED <<world, file, main, stop, poller, loading, server, waking, running>>

(* Serve returns an error.                                                 *)
ServerDies ==
  /\ Alive /\ server.up /\ world.faults > 0
  /\ server' = [server EXCEPT !.up = FALSE]
  /\ world' = [world EXCEPT !.faults = @ - 1]
  /\ UNCHANGED <<file, main, stop, poller, loading, taken, waking, running>>
-----------------------------------------------------------------------------
(* Startup.                                                                *)

ResolveStartupWorkflow ==
  /\ main.at = "load"
  /\ main' = IF file \in Valid THEN [main EXCEPT !.at = "build", !.loaded = file]
             ELSE [main EXCEPT !.at = "exit"]
  /\ UNCHANGED <<world, file, stop, poller, loading, http, waking, running>>

(* The file is read once more, for its fingerprint; the actor and the loop *)
(* of the state server start.                                              *)
NewWorkflowRuntime ==
  /\ main.at = "build"
  /\ cfg' = [cfg EXCEPT !.wf = main.loaded, !.fp = IF file = Missing THEN None ELSE file]
  /\ torn' = (file # main.loaded)
  /\ main' = [main EXCEPT !.at = "reconcile"]
  /\ actor' = TRUE
  /\ server' = [server EXCEPT !.on = TRUE]
  /\ UNCHANGED <<world, file, stop, check, poller, taken, waking, worker, drain, agents>>

(* A poller is kept as long as the fingerprint is.                         *)
PollerForSnapshot ==
  IF poller.wf # None /\ poller.fp = cfg.fp THEN poller ELSE [wf |-> cfg.wf, fp |-> cfg.fp]

ReconcileStartup ==
  /\ main.at = "reconcile"
  /\ \/ /\ main' = [main EXCEPT !.at = "poll"]
        /\ poller' = PollerForSnapshot
        /\ check' = [check EXCEPT !.on = TRUE]
     \/ main' = [main EXCEPT !.at = "exit"] /\ UNCHANGED <<poller, check>>
  /\ UNCHANGED <<world, file, stop, cfg, torn, http, waking, running>>
-----------------------------------------------------------------------------
(* The poll loop.                                                          *)

PollBegins ==
  /\ main.at = "poll"
  /\ main' = [main EXCEPT !.at = "tick"]
  /\ poller' = PollerForSnapshot
  /\ asked' = FALSE
  /\ UNCHANGED <<world, file, stop, loading, http, wake, running>>

(* Mutant: a wake-up that came during the tick is dropped when it ends.    *)
WakeDropped == FALSE

WakeKept == wake

(* A tick whose reads fail because of the shutdown ends the loop.          *)
PollEnds ==
  /\ main.at = "tick"
  /\ \/ main' = [main EXCEPT !.at = "sleep"]
     \/ stop /\ main' = [main EXCEPT !.at = "drain"]
  /\ wake' = WakeKept
  /\ UNCHANGED <<world, file, stop, poller, loading, http, asked, running>>

SleepOrRetryWake ==
  /\ main.at = "sleep"
  /\ \/ wake /\ wake' = FALSE /\ main' = [main EXCEPT !.at = "poll"]
     \/ stop /\ main' = [main EXCEPT !.at = "drain"] /\ UNCHANGED wake
  /\ UNCHANGED <<world, file, stop, poller, loading, http, asked, running>>

IntervalPasses ==
  /\ main.at = "sleep"
  /\ main' = [main EXCEPT !.at = "poll"]
  /\ UNCHANGED <<world, file, stop, poller, loading, http, waking, running>>

(* Over HTTP, or by a retry timer of the actor: coalesced when the slot is *)
(* taken.                                                                  *)
QueuePollWake ==
  /\ Alive
  /\ server.up \/ (actor /\ main.at \in Looping)
  /\ wake' = TRUE /\ asked' = TRUE
  /\ UNCHANGED <<world, file, main, stop, poller, loading, http, running>>
-----------------------------------------------------------------------------
(* The reload loop: the fingerprint first, then the file again.            *)

(* Mutant: after one failed reload nothing is tried again.                 *)
DedupedAlways(fp) == cfg.failed # None

Deduped(fp) == cfg.failed = fp

WorkflowFileFingerprint ==
  /\ Alive /\ ~ stop /\ check.on /\ check.fp = None
  /\ CASE file = Missing -> cfg' = [cfg EXCEPT !.failed = Missing] /\ UNCHANGED check
       [] file = cfg.fp -> cfg' = [cfg EXCEPT !.failed = None] /\ UNCHANGED check
       [] OTHER -> ~ Deduped(file) /\ check' = [check EXCEPT !.fp = file] /\ UNCHANGED cfg
  /\ UNCHANGED <<world, file, main, stop, poller, torn, http, waking, running>>

ReloadWorkflow ==
  /\ Alive /\ check.fp # None
  /\ cfg' = IF file \in Valid THEN [wf |-> file, fp |-> check.fp, failed |-> None]
            ELSE [cfg EXCEPT !.failed = check.fp]
  /\ torn' = (torn \/ file # check.fp)
  /\ check' = [check EXCEPT !.fp = None]
  /\ UNCHANGED <<world, file, main, stop, poller, http, waking, running>>
-----------------------------------------------------------------------------
(* The state HTTP server's controller, once per reload interval: a server  *)
(* that died is forgotten, one on another port is stopped, and one that    *)
(* cannot listen is tried again.                                           *)

(* Mutant: a port is remembered although listening on it failed.           *)
DesiredAnyway(port) == port

Desired(port) == IF port \in taken THEN None ELSE port

Apply ==
  /\ Alive /\ server.on /\ ~ stop
  /\ LET port == Port[cfg.wf]
         known == IF server.held /\ ~ server.up THEN None ELSE server.desired
         listens == port \notin taken \cup {Off}
     IN  server' = IF known = port THEN server
                   ELSE [server EXCEPT !.desired = Desired(port), !.held = listens,
                                       !.up = listens]
  /\ UNCHANGED <<world, file, main, stop, poller, loading, taken, waking, running>>

StopServer ==
  /\ Alive /\ server.on /\ stop
  /\ server' = [on |-> FALSE, desired |-> None, held |-> FALSE, up |-> FALSE]
  /\ UNCHANGED <<world, file, main, stop, poller, loading, taken, waking, running>>
-----------------------------------------------------------------------------
(* Workers.  The actor has claimed an issue and starts a goroutine for it, *)
(* in a tick or when a retry fires; a select between an operation and a    *)
(* cancelled context may go either way.                                    *)

GoTo(w, place) == worker' = [worker EXCEPT ![w] = place]

ActorStops ==
  /\ Alive /\ actor /\ stop /\ actor' = FALSE
  /\ UNCHANGED <<world, file, main, stop, poller, loading, http, waking, worker, drain, agents>>

Dispatch(w) ==
  /\ actor /\ main.at \in Looping \cup {"drain", "drained"}
  /\ w \in world.workers /\ worker[w] = "free"
  /\ GoTo(w, "followup")
  /\ UNCHANGED <<drain, agents>>

(* Mutants: the worker is counted only once its agent runs.                *)
TrackLate(w) == drain
Track(w) == drain \cup {w}

Spawn(w) ==
  /\ worker[w] = "followup"
  /\ GoTo(w, "submit") /\ drain' = Track(w)
  /\ UNCHANGED agents

Abandon(w) == GoTo(w, "free") /\ drain' = drain \ {w}

RegisterRunning(w) ==
  /\ worker[w] = "submit"
  /\ \/ actor /\ GoTo(w, "registered") /\ UNCHANGED drain
     \/ stop /\ Abandon(w)
  /\ UNCHANGED agents

DispatcherSpawn(w) ==
  /\ worker[w] = "registered"
  /\ \/ GoTo(w, "prepare") /\ UNCHANGED drain
     \/ stop /\ Abandon(w)
  /\ UNCHANGED agents

(* Before the entry is registered the claim goes to a retry; afterwards    *)
(* the panic is the worker's result.                                       *)
SpawnPanics(w) ==
  /\ \/ worker[w] = "submit" /\ Abandon(w)
     \/ worker[w] = "registered" /\ GoTo(w, "result") /\ UNCHANGED drain
  /\ UNCHANGED agents

(* A command is not started under a cancelled context.                     *)
StartAgent(w) ==
  /\ worker[w] = "prepare"
  /\ \/ ~ stop /\ GoTo(w, "agent") /\ agents' = agents \cup {w}
     \/ GoTo(w, "result") /\ UNCHANGED agents
  /\ UNCHANGED drain

(* By itself, or killed; the runner returns when it has waited for it.     *)
AgentExits(w) ==
  /\ worker[w] = "agent"
  /\ GoTo(w, "result") /\ agents' = agents \ {w}
  /\ UNCHANGED drain

FinalizeRun(w) ==
  /\ worker[w] = "result" /\ (actor \/ stop)
  /\ Abandon(w)
  /\ UNCHANGED agents

Worker(w) ==
  \/ Spawn(w) \/ RegisterRunning(w) \/ DispatcherSpawn(w)
  \/ StartAgent(w) \/ AgentExits(w) \/ FinalizeRun(w)

Workload ==
  /\ Alive
  /\ \E w \in Workers : Dispatch(w) \/ Worker(w) \/ SpawnPanics(w)
  /\ UNCHANGED <<world, file, main, stop, poller, loading, http, waking, actor>>
-----------------------------------------------------------------------------
(* Shutdown.  The wait ends, and main returns, as two steps.               *)

WaitForWorkers ==
  /\ main.at = "drain"
  /\ \/ drain = {} /\ main' = [main EXCEPT !.at = "drained"]
     \/ main' = [main EXCEPT !.at = "exit"]
  /\ UNCHANGED <<world, file, stop, poller, loading, http, waking, running>>

Exit ==
  /\ main.at = "drained"
  /\ main' = [main EXCEPT !.at = "exit", !.clean = TRUE]
  /\ UNCHANGED <<world, file, stop, poller, loading, http, waking, running>>

Startup == ResolveStartupWorkflow \/ NewWorkflowRuntime \/ ReconcileStartup
PollLoop == PollBegins \/ PollEnds \/ SleepOrRetryWake
Reload == WorkflowFileFingerprint \/ ReloadWorkflow
Shutdown == WaitForWorkers \/ Exit \/ ActorStops \/ StopServer

Next ==
  \/ Edit \/ Signal \/ TakePort \/ FreePort \/ ServerDies
  \/ Startup \/ PollLoop \/ IntervalPasses \/ QueuePollWake
  \/ Reload \/ Apply \/ Workload \/ Shutdown

Spec == Init /\ [][Next]_vars

(* Every goroutine runs and every read returns.  The poll interval may be  *)
(* as long as an operator likes, so none of it is assumed to pass, and     *)
(* nothing is assumed of agents.                                           *)
Fairness ==
  WF_vars(Startup) /\ WF_vars(PollLoop) /\ WF_vars(Reload) /\ WF_vars(Apply)

FairSpec == Spec /\ Fairness
-----------------------------------------------------------------------------
(* When main reports the drain complete, no agent process is left behind,  *)
(* although workers are counted by goroutines that may still start after   *)
(* the wait has seen the count at zero (spawn, WaitForWorkers).            *)
DrainedMeansNoAgent == main.at = "exit" /\ main.clean => agents = {}

(* An accepted refresh is followed by a poll that begins after it, however *)
(* it falls into a running tick or is coalesced with others, and without   *)
(* waiting for the interval (queuePollWake, sleepOrRetryWake).             *)
RefreshRunsAPoll == asked ~> ~ asked \/ stop \/ ~ Alive

(* Once the file and the ports are left alone the server listens where the *)
(* configuration says, after failed listens, lost servers and reloads      *)
(* (stateHTTPServerController.apply).                                      *)
ServerFollowsConfig ==
  <>[](taken = {} /\ world.faults = 0 /\ world.edits = 0 /\ ~ stop /\ main.at \in Looping)
    => <>[](\E v \in Valid : /\ cfg.wf = v /\ server.desired = Port[v]
                             /\ server.up = (Port[v] # Off))

(* A valid file that is left alone becomes the configuration, and ticks    *)
(* use it, whatever came before, unless an edit fell between the two reads *)
(* of one check (ReloadOnce, pollerForSnapshot).                           *)
EditIsApplied ==
  \A v \in Valid :
    <>[](file = v /\ ~ torn /\ ~ stop /\ main.at \in Looping)
      => <>[](cfg.wf = v /\ (main.at = "tick" => poller.wf = v))
=============================================================================
