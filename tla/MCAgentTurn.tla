----------------------------- MODULE MCAgentTurn -----------------------------
(* Small instances of AgentTurn. *)
EXTENDS AgentTurn, TLC

=============================================================================
