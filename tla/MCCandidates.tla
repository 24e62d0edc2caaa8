---------------------------- MODULE MCCandidates ----------------------------
(***************************************************************************)
(* The instance of CandidateOrder for TLC: every listing, overflow and     *)
(* choice of keys of a small set of issues.                                *)
(***************************************************************************)
EXTENDS CandidateOrder, TLC

IssueSymmetry == Permutations(Issues)
=============================================================================
