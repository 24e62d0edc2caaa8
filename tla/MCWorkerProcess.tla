---------------------------- MODULE MCWorkerProcess ----------------------------
(***************************************************************************)
(* An instance of WorkerProcess for TLC: workers and edits of the file are *)
(* bounded against each other.                                             *)
(***************************************************************************)
EXTENDS WorkerProcess

CONSTANTS w1, w2

ThePort == [v \in {1, 2} |-> IF v = 1 THEN 4000 ELSE 0]

TheWorlds ==
  {[edits |-> 3, faults |-> 1, workers |-> {}],
   [edits |-> 1, faults |-> 1, workers |-> {w1}],
   [edits |-> 0, faults |-> 0, workers |-> {w1, w2}]}
=============================================================================
