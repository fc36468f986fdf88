------------------------------ MODULE MCDirectChat ------------------------------
(* A Grok conversation and an Ollama one, each with the lease it needs. *)
EXTENDS DirectChat, TLC

CONSTANTS grok, qwythos, k1, k2

MCLeaseKey == [k \in Conversations |-> IF k = k1 THEN grok ELSE qwythos]
MCLimit == [k \in Conversations |-> IF k = k1 THEN 3 ELSE 2]
MCReplies == {[net |-> TRUE, answer |-> "good", priced |-> TRUE],
               [net |-> TRUE, answer |-> "bad", priced |-> TRUE],
               [net |-> TRUE, answer |-> None, priced |-> FALSE]}
Alike == Permutations(Threads)
=============================================================================
