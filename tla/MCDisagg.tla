------------------------------ MODULE MCDisagg ------------------------------
(***************************************************************************)
(* Instances of DisaggGate: a whale and a short request, both pools        *)
(* capped, two instances in either.                                        *)
(***************************************************************************)
EXTENDS DisaggGate

CONSTANTS whale, short

MCInstances == [p \in {"prefill", "decode"} |-> 2]
MCCap == [p \in {"prefill", "decode"} |-> IF p = "prefill" THEN 3 ELSE 4]
MCReadings ==
  {[p \in {"prefill", "decode"} |-> IF p = hot THEN 6 ELSE 2] : hot \in {"prefill", "decode", "none"}}
MCPrompt == [r \in Requests |-> IF r = whale THEN 3 ELSE 1]
MCMaxTokens == [r \in Requests |-> 2]
=============================================================================
