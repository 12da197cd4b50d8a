--------------------------- MODULE AdmissionPromise ---------------------------
(***************************************************************************)
(* What the peak-shaving gate promises, without its ledger and its clock:  *)
(* every admitted request is covered by its energy until the power has     *)
(* been sampled after the admission, and a request is admitted only if the *)
(* average of the window, with the energy of all covered requests and its  *)
(* own added, stays within the cap.  The gate is open while the window has *)
(* fewer than two samples.                                                 *)
(*                                                                         *)
(* The arithmetic is a parameter: RouterProxy instantiates it with the     *)
(* operators of PowerBudget.                                               *)
(***************************************************************************)
EXTENDS Integers

CONSTANTS
  Requests,
  PowerLevels,
  MaxGap,            \* a longer pause between two samples empties the window
  Record(_, _, _),   \* the window after one more sample, a gap after the last
  Exceeds(_, _)      \* the window and the energies covered are over the cap

VARIABLES
  phase,      \* each request is outside, waiting or admitted
  energy,     \* the energy a request was judged by
  samples,    \* the power samples of the window
  covered,    \* the admitted requests whose energy counts against the cap
  unsampled,  \* those of them admitted after the last sample
  sampling    \* the power is being sampled

vars == <<phase, energy, samples, covered, unsampled, sampling>>

Init ==
  /\ phase = [r \in Requests |-> "outside"]
  /\ energy = [r \in Requests |-> 0]
  /\ samples = {}
  /\ covered = {} /\ unsampled = {}
  /\ sampling = TRUE

(* A request states some energy.                                           *)
States(r) == energy'[r] \in Nat /\ energy' = [energy EXCEPT ![r] = energy'[r]]

Wait(r) ==
  /\ phase[r] = "outside"
  /\ phase' = [phase EXCEPT ![r] = "waiting"]
  /\ States(r)
  /\ UNCHANGED <<samples, covered, unsampled, sampling>>

(* A waiting request is judged by the energy it came with.                 *)
Admit(r) ==
  /\ phase[r] \in {"outside", "waiting"}
  /\ phase' = [phase EXCEPT ![r] = "admitted"]
  /\ States(r)
  /\ phase[r] = "waiting" => energy'[r] = energy[r]
  /\ covered' = covered \cup {r}
  /\ unsampled' = unsampled \cup {r}
  /\ ~Exceeds(samples, [q \in covered' |-> energy'[q]])
  /\ UNCHANGED <<samples, sampling>>

Expire(r) ==
  /\ r \in covered
  /\ sampling => r \notin unsampled
  /\ covered' = covered \ {r}
  /\ unsampled' = unsampled \ {r}
  /\ UNCHANGED <<phase, energy, samples, sampling>>

TakeSample(gap, w) ==
  /\ sampling
  /\ samples' = Record(samples, gap, w)
  /\ unsampled' = {}
  /\ sampling' \in BOOLEAN        \* it may be the last one
  /\ UNCHANGED <<phase, energy, covered>>

StopSampling ==
  /\ sampling' = FALSE
  /\ UNCHANGED <<phase, energy, samples, covered, unsampled>>

Next ==
  \/ \E r \in Requests : Wait(r) \/ Admit(r)
  \/ \E r \in Requests : Expire(r)
  \/ \E w \in PowerLevels : \E gap \in 1..MaxGap : TakeSample(gap, w)
  \/ StopSampling

Spec == Init /\ [][Next]_vars
=============================================================================
