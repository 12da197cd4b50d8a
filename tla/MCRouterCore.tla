---------------------------- MODULE MCRouterCore ----------------------------
(***************************************************************************)
(* Instances of RouterCore: two replicas, a whale of two blocks and a      *)
(* shorter prompt that shares its first block.                             *)
(***************************************************************************)
EXTENDS RouterCore, TLC

CONSTANTS whale, short   \* the prompts

MCBlocks == (whale :> <<1, 2>>) @@ (short :> <<1>>)
MCRest == (whale :> 0) @@ (short :> 1)
MCPair(x) == [i \in 1..2 |-> x]
MCBudget == MCPair(4)
MCSeqs == MCPair(2)
MCRampCeiling == <<1, 2>>
MCLevelCeiling == <<2, 1>>
MCSetups ==
  (Policies \X {"local"}) \cup {<<"drf", "telemetry">>}

(* Two decisions, and a third for the policies whose lag buffer, window or *)
(* round then rolls on and for three that compare shares.                  *)
MCLongRuns ==
  {LaggedPolicy, "drf_power_tiebreak_adaptive", "round_robin",
   "drf_power_tiebreak_full", "weighted_sum", "constrained_lmetric"}
MCDecisions == [p \in Policies |-> IF p \in MCLongRuns THEN 3 ELSE 2]

(* A ramp takes two polls, and its end a third.                            *)
MCPolls == [p \in Policies |-> IF p = IsolatedPolicy THEN 3 ELSE 2]

(* For the run about the scraper.                                          *)
MCScrapedOnly == {<<"lmetric", "telemetry">>}
=============================================================================
