--------------------------- MODULE MCOrchestrator ---------------------------
(***************************************************************************)
(* Instances of Orchestrator for TLC.  Workers, cleanups and issues are    *)
(* interchangeable: only equality tests are made on them.                  *)
(***************************************************************************)
EXTENDS OrchestratorRefinement, TLC

IdSymmetry == Permutations(RunIds) \cup Permutations(JobIds) \cup Permutations(TimerIds)

IssueSymmetry == Permutations(Issues)
=============================================================================
