----------------------------- MODULE MCAgentCell -----------------------------
(* Two owners and one cell of two steps and one tool call. *)
EXTENDS AgentCell, TLC

CONSTANTS w1, w2
=============================================================================
