---------------------------- MODULE MCAgentKernel ----------------------------
(* Workers with owner ids of their own contend for one run.                   *)
EXTENDS AgentKernel, TLC

CONSTANTS agent

MCServes == [w \in Workers |-> agent]
MCOwnerOf == [w \in Workers |-> w]
Alike == Permutations(Workers)
=============================================================================
