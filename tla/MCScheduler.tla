----------------------------- MODULE MCScheduler -----------------------------
(***************************************************************************)
(* SchedulerRounds with three requests, a long one among them, rounds of   *)
(* three tokens, and up to two controllers at once.                        *)
(***************************************************************************)
EXTENDS SchedulerRounds

Prompts == [r \in Requests |-> IF r = "whale" THEN 6 ELSE IF r = "late" THEN 2 ELSE 1]
Outputs == [r \in Requests |-> IF r = "chat" THEN 3 ELSE 1]
AllControllers == Family \cup {"LENGTHGATE"}
=============================================================================
