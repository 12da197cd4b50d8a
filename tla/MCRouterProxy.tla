---------------------------- MODULE MCRouterProxy ----------------------------
(* Instances of RouterProxy for TLC.                                       *)
EXTENDS RouterProxy, TLC

CONSTANTS whale, short1, short2, rep1, rep2

MCPrompt == [r \in Requests |-> IF r = whale THEN 3 ELSE 1]
MCMaxTokens == [r \in Requests |-> IF r = short2 THEN 1 ELSE 2]

ReplicaSymmetry == Permutations(Replicas)
=============================================================================
