---------------------------- MODULE MCTrackerReads ----------------------------
(***************************************************************************)
(* An instance of TrackerReads for TLC: three issues, the first depends on *)
(* the second by a relation and on the third in its text, the third on the *)
(* second.                                                                 *)
(***************************************************************************)
EXTENDS TrackerReads

TheValues == <<{"todo", "progress", "odd", "none", "gone"},
               {"todo", "progress", "done", "gone"},
               {"todo", "progress", "done"}>>
TheNative == <<{2}, {}, {}>>
TheBody == <<{3}, {}, {2}>>
TheWanted == <<"todo", "progress">>
=============================================================================
