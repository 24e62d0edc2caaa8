---------------------------- MODULE MCTrackerTools ----------------------------
(***************************************************************************)
(* Instances of TrackerTools for TLC.                                      *)
(***************************************************************************)
EXTENDS TrackerTools

(* Five of the labels of DefaultStateLabelMappings, in their order: an     *)
(* active state above and one below a state that is neither active nor     *)
(* terminal, and two terminal states.                                      *)
ThePriority == <<"progress", "review", "todo", "done", "canceled">>
=============================================================================
