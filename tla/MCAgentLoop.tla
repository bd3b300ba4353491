---------------------------- MODULE MCAgentLoop ----------------------------
(***************************************************************************)
(* AgentLoop for TLC.  The bounds are named in the configuration files.    *)
(***************************************************************************)
EXTENDS AgentLoop
=============================================================================
