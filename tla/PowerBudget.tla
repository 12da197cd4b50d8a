----------------------------- MODULE PowerBudget -----------------------------
(***************************************************************************)
(* The pure part of the peak-shaving gate                                  *)
(* (scripts/eenergy/router/power_budget.py): the rolling window of fleet   *)
(* power samples, the ledger of reserved energy, the admission test, the   *)
(* marginal-energy estimate and the moving average of response sizes.      *)
(*                                                                         *)
(* Watts, joules, bytes, tokens and seconds are integers in units a        *)
(* configuration chooses.  A sample carries its age, the distance to the   *)
(* newest sample, instead of its wall-clock time: the code only ever       *)
(* compares a sample's time with the newest one's.  Two samples never have *)
(* the same age, because the poller sleeps between them, so a set of       *)
(* records stands for the deque.                                           *)
(***************************************************************************)
EXTENDS Integers, FiniteSets, FiniteSetsExt, Collections

CONSTANT Window                     \* PowerBudget.window_s

ASSUME WindowAssumption == Window \in Nat \ {0}

Sample == [age : 0..Window, w : Nat]

-----------------------------------------------------------------------------
(* Mutant: the deque is never pruned.                                      *)
RecordWithoutPruning(samples, gap, w) ==
  {[age |-> s.age + gap, w |-> s.w] : s \in samples} \cup {[age |-> 0, w |-> w]}

(* PowerBudget.record: append the sample, then drop the old end of the     *)
(* deque while it is older than the window.  Ages grow towards that end,   *)
(* so dropping from the end and filtering agree.                           *)
Record(samples, gap, w) ==
  {[age |-> s.age + gap, w |-> s.w] : s \in {x \in samples : x.age + gap <= Window}}
    \cup {[age |-> 0, w |-> w]}

(* PowerBudget.reserve and PowerBudget.release, on the ledger alone.       *)
Reserve(reserved, j) == reserved + j

Release(reserved, j) == IF reserved >= j THEN reserved - j ELSE 0

SumW(samples) == MapThenSumSet(LAMBDA s : s.w, samples)

(* PowerBudget.would_exceed: mean + (reserved + j) / Window > cap with     *)
(* both sides multiplied by the number of samples and by Window.           *)
WouldExceed(samples, reserved, cap, j) ==
  LET n == Cardinality(samples)
  IN  /\ n >= 2
      /\ SumW(samples) * Window + (reserved + j) * n > cap * n * Window

-----------------------------------------------------------------------------
(* estimate_marginal_energy_j.                                             *)
MarginalEnergy(prompt, decode, jPrefill, jDecode) ==
  prompt * jPrefill + decode * jDecode

(* DecodeByteEstimator: NoEstimate is the None before the first            *)
(* completion.  The average keeps 7/10 of the past; it is rounded down.    *)
NoEstimate == -1

RecordCompletion(estimate, bytes) ==
  IF estimate = NoEstimate THEN bytes ELSE (3 * bytes + 7 * estimate) \div 10

CurrentEstimateTokens(estimate, fallback, bytesPerToken) ==
  IF estimate = NoEstimate THEN fallback ELSE estimate \div bytesPerToken
=============================================================================
