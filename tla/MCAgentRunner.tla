--------------------------- MODULE MCAgentRunner ---------------------------
(***************************************************************************)
(* One note with a few revisions, of which the second and the third clash, *)
(* a day of one run, one command beside the service, and faults enough for *)
(* a crash after a failed run.                                             *)
(***************************************************************************)
EXTENDS AgentRunner
=============================================================================
