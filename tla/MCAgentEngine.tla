--------------------------- MODULE MCAgentEngine ----------------------------
(* An instance of AgentEngine for TLC: AgentSettings.outcome_script by       *)
(* default.                                                                  *)
EXTENDS AgentEngine

TransientThenPass == <<"transient", "pass">>
=============================================================================
