------------------------------ MODULE MCWorkspaces ------------------------------
(* Instances of Workspaces for TLC.                                          *)
EXTENDS Workspaces
=============================================================================
