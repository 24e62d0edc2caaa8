---------------------------- MODULE MCAgentSession ----------------------------
(***************************************************************************)
(* An instance of AgentSession for TLC.                                    *)
(***************************************************************************)
EXTENDS AgentSession
=============================================================================
