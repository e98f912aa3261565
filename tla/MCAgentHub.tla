----------------------------- MODULE MCAgentHub -----------------------------
(* Instances of AgentHub for TLC.                                          *)
EXTENDS AgentHub

MCTwo == {1, 2}
=============================================================================
