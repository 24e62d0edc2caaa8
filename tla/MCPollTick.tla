----------------------------- MODULE MCPollTick -----------------------------
(***************************************************************************)
(* Instances of PollTick for TLC.                                          *)
(***************************************************************************)
EXTENDS PollTick

CONSTANTS i1, i2

TheRow(state) == [state |-> state, labelled |-> TRUE, blocked |-> FALSE]

(* Every row of an issue in an active state, one of each other state.      *)
AllRows ==
    [state : ActiveStates, labelled : BOOLEAN, blocked : BOOLEAN]
        \cup {TheRow("closed"), TheRow("parked"), TheRow("odd")}

FewRows == {TheRow("doing"), TheRow("parked")}

(* The second issue is dispatched first.                                   *)
TheKey == [i \in Issues |-> [priority |-> IF i = i1 THEN 0 ELSE 2,
                              created |-> 0, identifier |-> 1]]
=============================================================================
