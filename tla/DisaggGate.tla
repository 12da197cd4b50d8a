----------------------------- MODULE DisaggGate -----------------------------
(***************************************************************************)
(* The admission gate of disaggregated serving                             *)
(* (scripts/eenergy/router/disagg_gate.py), in front of NixlProxy: the     *)
(* gate of RouterProxy with a power budget for each pool, of which either  *)
(* may be off.  A request needs the consent of both and is reserved in     *)
(* both; each reservation has a release task of its own.                   *)
(*                                                                         *)
(* Code between two awaits is one action, and sleeping tasks are woken in  *)
(* the order of their deadlines, as in RouterProxy.                        *)
(***************************************************************************)
EXTENDS PowerBudget

CONSTANTS
  Requests, Instances,    \* as in NixlProxy
  Capped,                 \* the pools whose cap is not None
  Cap,                    \* peak_cap_prefill_w and peak_cap_decode_w
  PollInterval, RecheckInterval, HoldTime,
  JPrefill, JDecode, BytesPerToken,
  Prompt, MaxTokens,      \* of each request
  Readings,               \* the readings of the pools' powers considered
  ResponseSizes           \* the response byte counts considered

VARIABLES
  leg, at, turn,   \* NixlProxy
  stage,           \* where the coroutine of each request is
  marginal,        \* prefill_marginal_j and decode_marginal_j of each request
  samples, reserved,  \* the two budgets
  estimate,        \* decode_estimator
  held, holdIn,    \* the sleeping release tasks of each pool, their deadlines
  wakeIn, pollIn,  \* the deadlines of the parked requests and of the poller
  polling,         \* the power_poll_loop task is alive
  unsampled        \* history: reservations made since the pool's last sample

nixlVars == <<leg, at, turn>>
handlers == <<stage, marginal, wakeIn>>
ledgers  == <<reserved, held, holdIn>>
power    == <<samples, pollIn, polling>>
vars     == <<nixlVars, handlers, ledgers, power, estimate, unsampled>>

Nixl == INSTANCE NixlProxy

Pools == Nixl!Pools

ASSUME DisaggAssumption ==
  /\ IsFiniteSet(Requests) /\ Instances \in [Pools -> Nat \ {0}]
  /\ Capped \subseteq Pools
  /\ Cap \in [Pools -> Nat]
  /\ {JPrefill, JDecode} \subseteq Nat
  /\ {PollInterval, RecheckInterval, BytesPerToken} \subseteq Nat \ {0}
  /\ HoldTime \in Nat /\ HoldTime > PollInterval
  /\ Prompt \in [Requests -> Nat] /\ MaxTokens \in [Requests -> Nat]
  /\ Readings \subseteq [Pools -> Nat] /\ ResponseSizes \subseteq Nat

Stages == {"idle", "gated", "preparing", "forwarding", "done", "failed", "aborted"}

TypeOK ==
  /\ Nixl!TypeOK
  /\ stage \in [Requests -> Stages]
  /\ marginal \in [Pools -> [Requests -> Nat]]
  /\ \A p \in Pools : samples[p] \subseteq Sample /\ reserved[p] \in Nat
  /\ estimate \in Nat \cup {NoEstimate}
  /\ \A p \in Pools : unsampled[p] \subseteq held[p] /\ held[p] \subseteq Requests
  /\ \A p \in Pools : p \notin Capped => held[p] = {} /\ samples[p] = {}
  /\ holdIn \in [Pools -> [Requests -> Int]] /\ wakeIn \in [Requests -> Int]
  /\ pollIn \in Int /\ polling \in BOOLEAN

Init ==
  /\ Nixl!Init
  /\ stage = [r \in Requests |-> "idle"]
  /\ marginal = [p \in Pools |-> [r \in Requests |-> 0]]
  /\ samples = [p \in Pools |-> {}]
  /\ reserved = [p \in Pools |-> 0]
  /\ estimate = NoEstimate
  /\ held = [p \in Pools |-> {}] /\ unsampled = [p \in Pools |-> {}]
  /\ holdIn = [p \in Pools |-> [r \in Requests |-> 0]]
  /\ wakeIn = [r \in Requests |-> 0]
  /\ pollIn = 0
  /\ polling = TRUE

-----------------------------------------------------------------------------
Gated == {r \in Requests : stage[r] = "gated"}

Deadlines ==
  (UNION {{holdIn[p][r] : r \in held[p]} : p \in Pools})
    \cup {wakeIn[r] : r \in Gated} \cup (IF polling THEN {pollIn} ELSE {})

Due(t) == t <= 0 /\ \A u \in Deadlines : t <= u

(* The loop is never late here; RouterProxy has a late one.                *)
Tick ==
  /\ Deadlines # {} /\ \A u \in Deadlines : u > 0
  /\ holdIn' = [p \in Pools |-> [r \in Requests |->
                  IF r \in held[p] THEN holdIn[p][r] - 1 ELSE holdIn[p][r]]]
  /\ wakeIn' = [r \in Requests |-> IF r \in Gated THEN wakeIn[r] - 1 ELSE wakeIn[r]]
  /\ pollIn' = IF polling THEN pollIn - 1 ELSE pollIn
  /\ UNCHANGED <<nixlVars, stage, marginal, reserved, held, samples, polling, estimate,
                 unsampled>>

-----------------------------------------------------------------------------
(* handle_completions.                                                     *)

EstimatorExists == Capped # {}

(* Mutant: a request waits only while both pools are full.                 *)
OneBudgetWouldExceed(m) ==
  /\ Capped # {}
  /\ \A p \in Capped : WouldExceed(samples[p], reserved[p], Cap[p], m[p])

dual_budget_would_exceed(m) ==
  \E p \in Capped : WouldExceed(samples[p], reserved[p], Cap[p], m[p])

(* Mutant: the decode pool is forgotten in the ledger, not in its task.    *)
ReservePrefillOnly(r, m) ==
  /\ reserved' = [reserved EXCEPT !["prefill"] = Reserve(@, m["prefill"])]
  /\ held' = [p \in Pools |-> held[p] \cup {r}]
  /\ holdIn' = [p \in Pools |-> [holdIn[p] EXCEPT ![r] = HoldTime]]
  /\ unsampled' = [p \in Pools |-> unsampled[p] \cup {r}]

(* Mutant: the decode pool's task sleeps for a polling interval.           *)
HoldDecodeForOnePoll(r, m) ==
  /\ reserved' = [p \in Pools |-> Reserve(reserved[p], m[p])]
  /\ held' = [p \in Pools |-> held[p] \cup {r}]
  /\ holdIn' = [p \in Pools |->
       [holdIn[p] EXCEPT ![r] = IF p = "prefill" THEN HoldTime ELSE PollInterval]]
  /\ unsampled' = [p \in Pools |-> unsampled[p] \cup {r}]

ReserveBoth(r, m) ==
  /\ reserved' = [p \in Pools |->
       IF p \in Capped THEN Reserve(reserved[p], m[p]) ELSE reserved[p]]
  /\ held' = [p \in Pools |-> IF p \in Capped THEN held[p] \cup {r} ELSE held[p]]
  /\ holdIn' = [p \in Pools |->
       IF p \in Capped THEN [holdIn[p] EXCEPT ![r] = HoldTime] ELSE holdIn[p]]
  /\ unsampled' = [p \in Pools |->
       IF p \in Capped THEN unsampled[p] \cup {r} ELSE unsampled[p]]

(* The gate's loop, from one wake-up to the next await: the request sleeps *)
(* again, or it is reserved in both ledgers and its response is prepared.  *)
TryGate(r, m) ==
  \/ /\ dual_budget_would_exceed(m)
     /\ stage' = [stage EXCEPT ![r] = "gated"]
     /\ wakeIn' = [wakeIn EXCEPT ![r] = RecheckInterval]
     /\ UNCHANGED <<ledgers, unsampled>>
  \/ /\ ~dual_budget_would_exceed(m)
     /\ stage' = [stage EXCEPT ![r] = "preparing"]
     /\ wakeIn' = [wakeIn EXCEPT ![r] = 0]
     /\ ReserveBoth(r, m)

(* The energy of either leg, by the estimator's present value.             *)
LegEnergy(r) ==
  IF EstimatorExists
    THEN [prefill |-> MarginalEnergy(Prompt[r], 0, JPrefill, JDecode),
          decode |-> MarginalEnergy(0,
            CurrentEstimateTokens(estimate, MaxTokens[r], BytesPerToken), JPrefill, JDecode)]
    ELSE [prefill |-> 0, decode |-> 0]

Arrive(r) ==
  /\ stage[r] = "idle"
  /\ marginal' = [p \in Pools |-> [marginal[p] EXCEPT ![r] = LegEnergy(r)[p]]]
  /\ TryGate(r, LegEnergy(r))
  /\ UNCHANGED <<nixlVars, power, estimate>>

Recheck(r) ==
  /\ r \in Gated /\ Due(wakeIn[r])
  /\ TryGate(r, [p \in Pools |-> marginal[p][r]])
  /\ UNCHANGED <<nixlVars, marginal, power, estimate>>

MoveOn(r, from, to) ==
  /\ stage[r] = from
  /\ stage' = [stage EXCEPT ![r] = to]
  /\ UNCHANGED <<marginal, wakeIn, ledgers, power, unsampled>>

Prepared(r) ==
  MoveOn(r, "preparing", "forwarding") /\ UNCHANGED <<nixlVars, estimate>>

(* resp.prepare raises, before the try.                                    *)
PrepareRaises(r) ==
  MoveOn(r, "preparing", "aborted") /\ UNCHANGED <<nixlVars, estimate>>

(* The answer is at its end: the stream, or the body of the proxy's status *)
(* 500, which is passed on and counted like any other.                     *)
ForwardEnds(r, bytes) ==
  /\ MoveOn(r, "forwarding", "done")
  /\ leg[r] \in {"refused", "served"}
  /\ estimate' = IF EstimatorExists THEN RecordCompletion(estimate, bytes) ELSE estimate
  /\ UNCHANGED nixlVars

(* forward_to_nixl_proxy raises: no connection, a stream that breaks, a    *)
(* client that left.  The finally block then reads response_bytes, which   *)
(* was never assigned, and raises UnboundLocalError before the estimator   *)
(* is reached.                                                             *)
ForwardRaises(r) ==
  /\ MoveOn(r, "forwarding", "failed")
  /\ UNCHANGED <<nixlVars, estimate>>

-----------------------------------------------------------------------------
(* The background tasks.                                                   *)

(* _release_prefill_after_delay and _release_decode_after_delay.           *)
ReleaseHold(p, r) ==
  /\ r \in held[p] /\ Due(holdIn[p][r])
  /\ held' = [held EXCEPT ![p] = @ \ {r}]
  /\ holdIn' = [holdIn EXCEPT ![p][r] = 0]
  /\ reserved' = [reserved EXCEPT ![p] = Release(@, marginal[p][r])]
  /\ unsampled' = [unsampled EXCEPT ![p] = @ \ {r}]
  /\ UNCHANGED <<nixlVars, handlers, power, estimate>>

(* budget.record for the pools in P, all with the one time t.              *)
RecordPools(P, reading) ==
  /\ samples' = [p \in Pools |->
       IF p \in P THEN Record(samples[p], PollInterval - pollIn, reading[p]) ELSE samples[p]]
  /\ unsampled' = [p \in Pools |-> IF p \in P THEN {} ELSE unsampled[p]]

Poll(reading) ==
  /\ polling /\ Due(pollIn)
  /\ RecordPools(Capped, reading)
  /\ pollIn' = PollInterval
  /\ UNCHANGED <<nixlVars, handlers, ledgers, polling, estimate>>

(* Mutant: the task outlives a read that raises.                           *)
PollGoesOn(reading, P) ==
  /\ polling /\ Due(pollIn)
  /\ RecordPools(P, reading)
  /\ pollIn' = PollInterval
  /\ UNCHANGED <<nixlVars, handlers, ledgers, polling, estimate>>

(* What a read that raises may leave recorded: the prefill pool, when the  *)
(* read is one of the decode pool.                                         *)
RecordedBefore == {P \in {{}, {"prefill"}} : P \subseteq Capped /\ P # Capped}

(* A read raises and the task is over.                                     *)
PollRaises(reading, P) ==
  /\ polling /\ Due(pollIn)
  /\ RecordPools(P, reading)
  /\ polling' = FALSE
  /\ UNCHANGED <<nixlVars, handlers, ledgers, pollIn, estimate>>

(* The proxy's side.  Its request comes when the gate forwards it, and it  *)
(* goes on when the gate's own handler has ended.                          *)
Deliver(r) ==
  /\ stage[r] = "forwarding"
  /\ Nixl!ReceiveRequest(r)
  /\ UNCHANGED <<handlers, ledgers, power, estimate, unsampled>>

ProxyStep(r) ==
  /\ \/ Nixl!PrefillReturns(r)
     \/ Nixl!PrefillFails(r)
     \/ Nixl!StreamEnds(r)
     \/ Nixl!StreamBreaks(r)
  /\ UNCHANGED <<handlers, ledgers, power, estimate, unsampled>>

-----------------------------------------------------------------------------
Next ==
  \/ Tick
  \/ \E r \in Requests : Arrive(r)
  \/ \E r \in Requests : Recheck(r)
  \/ \E r \in Requests : Prepared(r)
  \/ \E r \in Requests : PrepareRaises(r)
  \/ \E r \in Requests, b \in ResponseSizes : ForwardEnds(r, b)
  \/ \E r \in Requests : ForwardRaises(r)
  \/ \E r \in Requests : Deliver(r)
  \/ \E r \in Requests : ProxyStep(r)
  \/ \E p \in Pools, r \in Requests : ReleaseHold(p, r)
  \/ \E reading \in Readings : Poll(reading)
  \/ \E reading \in Readings, P \in RecordedBefore : PollRaises(reading, P)

Spec == Init /\ [][Next]_vars

-----------------------------------------------------------------------------
(* Each pool's ledger is the sum of the energies, by that pool's own share *)
(* of the request, of the reservations whose release task in that pool has *)
(* yet to run: no delayed task releases the other pool's share, and none   *)
(* is lost when a handler fails or its client leaves.                      *)
LedgersExact ==
  \A p \in Pools : reserved[p] = Cardinality(JouleUnits(held[p], marginal[p]))

(* A request is reserved in every capped pool or in none: one pool's hold  *)
(* outlasts the other's only within the tick in which both end.            *)
ReservedInAll ==
  \A p, q \in Capped : \A r \in held[p] \ held[q] : holdIn[p][r] <= 0

(* While the poller lives the two windows hold samples of the same         *)
(* instants, so the two averages of one test are of the same time.         *)
WindowsInStep ==
  polling => \A p, q \in Capped : {s.age : s \in samples[p]} = {s.age : s \in samples[q]}

(* Either pool of the proxy is loaded evenly by what the gate lets through.*)
PoolsBalanced == Nixl!LegsBalanced

(* What RouterProxy promises for its fleet, the gate promises for each     *)
(* pool: an admission keeps the average of the pool's window, all energy   *)
(* reserved in it counted, within the pool's cap, and energy stays         *)
(* reserved until the pool was sampled.  So a request that fits one pool   *)
(* is not let through while the other is full.                             *)
Phase(r) ==
  CASE stage[r] = "idle"  -> "outside"
    [] stage[r] = "gated" -> "waiting"
    [] OTHER              -> "admitted"

PowerLevels == UNION {{x[p] : p \in Pools} : x \in Readings}

OverCap(p, window, e) ==
  WouldExceed(window, Cardinality(JouleUnits(DOMAIN e, e)), Cap[p], 0)

PrefillOverCap(window, e) == OverCap("prefill", window, e)
DecodeOverCap(window, e) == OverCap("decode", window, e)

PrefillPromise ==
  INSTANCE AdmissionPromise
    WITH phase <- [r \in Requests |-> Phase(r)], energy <- marginal["prefill"],
         covered <- held["prefill"], unsampled <- unsampled["prefill"],
         samples <- samples["prefill"], sampling <- polling,
         MaxGap <- Window + 1, Exceeds <- PrefillOverCap

DecodePromise ==
  INSTANCE AdmissionPromise
    WITH phase <- [r \in Requests |-> Phase(r)], energy <- marginal["decode"],
         covered <- held["decode"], unsampled <- unsampled["decode"],
         samples <- samples["decode"], sampling <- polling,
         MaxGap <- Window + 1, Exceeds <- DecodeOverCap

PrefillKeepsPromise == PrefillPromise!Spec
DecodeKeepsPromise == DecodePromise!Spec
=============================================================================
