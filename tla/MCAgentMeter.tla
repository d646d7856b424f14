----------------------------- MODULE MCAgentMeter -----------------------------
(* Calls of two instances around a midnight. *)
EXTENDS AgentMeter, TLC

Alike == Permutations(Call) \cup Permutations(Instance)

=============================================================================
