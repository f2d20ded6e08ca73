-------------------------- MODULE MCAgentConnection --------------------------
(* Small instances of AgentConnection for TLC.                              *)
EXTENDS AgentConnection

CONSTANTS n1, n2
=============================================================================
