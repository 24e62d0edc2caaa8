------------------------ MODULE MCAppServerTransport ------------------------
(***************************************************************************)
(* Instances of AppServerTransport for TLC.                                *)
(***************************************************************************)
EXTENDS AppServerTransport
=============================================================================
