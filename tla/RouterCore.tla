----------------------------- MODULE RouterCore -----------------------------
(***************************************************************************)
(* The routing decision (scripts/eenergy/router/router_core.py) with all   *)
(* it reads and writes: the mirror of every replica's prefix cache, the    *)
(* load and whale counts, the ramp telemetry that the power poller keeps,  *)
(* the scraped queue lengths, the adaptive ramp ceiling, the tie cursor    *)
(* and the buffer of the lagged ablation.  Router.route contains no await: *)
(* a decision is one action.  The pollers and the completions run between  *)
(* decisions, in any order.                                                *)
(*                                                                         *)
(* The fleet is the sequence 1..N, in the order of replica_states.  A      *)
(* prompt is a sequence of token blocks and a partial block at the end; a  *)
(* chained block hash stands for the prefix it is computed from, so it is  *)
(* modelled by that prefix.                                                *)
(***************************************************************************)
EXTENDS Scoring

CONSTANTS
  N,              \* the number of replicas
  Prompts,        \* the prompts requests arrive with
  BlockSize,      \* tokens per cache block
  Blocks, Rest,   \* the full blocks of each prompt, the tokens after them
  WhaleThreshold, \* whale_token_threshold
  TokenBudget, MaxNumSeqs, RampCeiling, LevelCeiling, \* ReplicaConfig, per replica
  Floor,          \* floor_w_per_s of the adaptive ceiling
  WindowSize,     \* its window_size
  Percentile,     \* its percentile, of 100
  SmoothNum, SmoothDen, \* smoothing_alpha = SmoothNum / SmoothDen
  LagDepth,       \* LAGGED_ELEVATION_DEPTH
  Setups,        \* the policy and bs_source pairs a configuration considers
  PowerLevels,    \* the power readings considered
  Gaps,           \* the times between two samples considered
  QueueLengths,   \* the scraped running + waiting counts considered
  MaxDecisions, MaxPolls  \* bounds, by policy: decisions and power polls

Fleet == 1..N

ASSUME RouterCoreAssumption ==
  /\ N \in Nat \ {0}
  /\ BlockSize \in Nat \ {0}
  /\ \A p \in Prompts : Len(Blocks[p]) \in Nat /\ Rest[p] \in 0..(BlockSize - 1)
  /\ \A f \in {TokenBudget, MaxNumSeqs, RampCeiling, LevelCeiling} : f \in [Fleet -> Nat \ {0}]
  /\ WhaleThreshold \in Nat
  /\ {Floor, WindowSize, SmoothDen, LagDepth} \subseteq Nat \ {0}
  /\ Percentile \in 0..100 /\ SmoothNum \in 0..SmoothDen
  /\ PowerLevels \subseteq Nat /\ QueueLengths \subseteq Nat
  /\ Gaps \subseteq Int

VARIABLES
  policy, bsSource,  \* chosen when the router is built
  rrIndex,           \* _rr_index
  tieCursor,         \* _tie_cursor
  lagBuffer,         \* _elevation_lag_buffer
  load, whales,      \* the counts of LoadTracker and WhaleTracker
  cached,            \* cached_block_hashes of each replica
  lastPower,         \* last_power_w
  sampled,           \* last_power_ts > 0
  ramp, smoothed,    \* ramp_rate_w_per_s and its moving average
  polling,           \* the power_poll_loop task is alive
  telemetryBs,       \* telemetry_bs
  window,            \* the deque of the adaptive ceiling in use
  last,              \* the last decision and its diagnostic
  decisions, polls,  \* history: how many there were
  elevations,        \* history: the elevated counts of the lagged policy
  rounds             \* history: the ramps in each decision of the isolated one

choice    == <<policy, bsSource>>
cursors   == <<rrIndex, tieCursor, lagBuffer, window>>
trackers  == <<load, whales, cached>>
telemetry == <<lastPower, sampled, ramp, smoothed, polling, telemetryBs>>
history   == <<last, decisions, polls, elevations, rounds>>
vars == <<choice, cursors, trackers, telemetry, history>>

IsolatedPolicy == "drf_power_tiebreak_adaptive_isolated"
AdaptivePolicies == {"drf_power_tiebreak_adaptive", IsolatedPolicy}

LaggedPolicy == "drf_power_tiebreak_full_coincidence_ceiling_lagged_elevation"

PeakCeilingPolicy == "drf_peak_power_tiebreak_full_coincidence_ceiling"

(* The policies with "coincidence_ceiling" in their name.                  *)
CoincidenceCeilingPolicies ==
  {"drf_power_tiebreak_full_coincidence_ceiling", "weighted_sum_coincidence_ceiling",
   "lmetric_power_coincidence_ceiling", "lmetric_power_pareto_coincidence_ceiling",
   "lmetric_power_pareto_epsilon_coincidence_ceiling",
   "lmetric_power_pareto_epsilon_all_coincidence_ceiling",
   "lmetric_power_pareto_epsilon_small_coincidence_ceiling",
   "lmetric_power_pareto_epsilon_zero_coincidence_ceiling",
   "drf_power_tiebreak_full_coincidence_ceiling_smoothed_ramp",
   "drf_power_tiebreak_full_coincidence_ceiling_random_power",
   PeakCeilingPolicy, LaggedPolicy}

Policies ==
  CoincidenceCeilingPolicies \cup AdaptivePolicies \cup
  {"round_robin", "lmetric", "drf", "p2c_whale", "whale_argmin", "constrained_lmetric",
   "pressure_switch", "drf_power_tiebreak", "lmetric_power", "lmetric_power_convex",
   "whale_argmin_power_switch", "drf_coincidence_tiebreak", "drf_peak_power_tiebreak",
   "drf_power_tiebreak_p2c", "compute_only", "load_only", "drf_power_tiebreak_full",
   "weighted_sum", "lmetric_power_pareto", "drf_no_power", "weighted_sum_no_power",
   "drf_peak_power_tiebreak_full"}

ASSUME SetupAssumption ==
  /\ Setups \subseteq Policies \X {"local", "telemetry"}
  /\ {MaxDecisions, MaxPolls} \subseteq [Policies -> Nat]

NoDecision == [replica |-> 0]
Decision ==
  [replica : Fleet, prompt : Prompts, squeeze : Nat \ {0}, tied : BOOLEAN, avoidable : BOOLEAN]

-----------------------------------------------------------------------------
(* The prefix-cache mirror (cache_mirror.py).                              *)

block_hashes(p) == {SubSeq(Blocks[p], 1, k) : k \in 1..Len(Blocks[p])}

PromptLength(p) == BlockSize * Len(Blocks[p]) + Rest[p]

(* The walk down the chain stops at the first block that is not cached.    *)
MatchedBlocks(p, hashes) ==
  {k \in 1..Len(Blocks[p]) : \A m \in 1..k : SubSeq(Blocks[p], 1, m) \in hashes}

new_tokens_if_routed(p, hashes) ==
  PromptLength(p) - BlockSize * Cardinality(MatchedBlocks(p, hashes))

(* Mutant: only the last hash of the chain is recorded.                    *)
RecordLastBlock(p, hashes) ==
  IF Blocks[p] = <<>> THEN hashes ELSE hashes \cup {Blocks[p]}

record_cached(p, hashes) == hashes \cup block_hashes(p)

IsWhale(p) == PromptLength(p) > WhaleThreshold

-----------------------------------------------------------------------------
(* The adaptive ramp ceiling (adaptive_ceiling.py).                        *)

(* Mutant: a deque without maxlen.                                         *)
KeepAll(w) == w

(* deque(maxlen=WindowSize): appending to a full deque drops its oldest.   *)
Keep(w) == IF Len(w) > WindowSize THEN SubSeq(w, Len(w) - WindowSize + 1, Len(w)) ELSE w

observe(w, rates) == Keep(w \o [i \in Fleet |-> NonNegative(rates[i])])

AboveFloor(rates) == {i \in Fleet : rates[i] > Floor}

observe_round(w, rates) ==
  IF Cardinality(AboveFloor(rates)) >= 2 THEN w ELSE observe(w, rates)

(* max(floor, sorted(window)[idx]): the largest observation that at most   *)
(* idx others are below, and the floor when it is not above it.            *)
ceiling(w) ==
  LET idx == Min({(Len(w) * Percentile) \div 100, Len(w) - 1})
      ranked == {j \in DOMAIN w : Cardinality({m \in DOMAIN w : w[m] < w[j]}) <= idx}
  IN  Max({Floor} \cup {w[j] : j \in ranked})

-----------------------------------------------------------------------------
(* Router._build_candidates.                                               *)

(* The calibration that precedes the candidates.                           *)
Observed ==
  CASE policy = "drf_power_tiebreak_adaptive" -> observe(window, ramp)
    [] policy = IsolatedPolicy -> observe_round(window, ramp)
    [] OTHER -> window

InFlightAfter(i) == IF bsSource = "telemetry" THEN telemetryBs[i] + 1 ELSE load[i] + 1

(* The candidates for prompt p, when the adaptive window is w.             *)
_build_candidates(p, w) ==
  [i \in Fleet |->
     [new_tokens |-> new_tokens_if_routed(p, cached[i]),
      in_flight_after |-> InFlightAfter(i),
      token_budget |-> TokenBudget[i],
      max_num_seqs |-> MaxNumSeqs[i],
      ramp_rate |-> ramp[i],
      smoothed_ramp_rate |-> smoothed[i],
      ramp_ceiling |-> IF policy \in AdaptivePolicies THEN ceiling(w) ELSE RampCeiling[i],
      power |-> lastPower[i],
      power_level_ceiling |-> LevelCeiling[i],
      active_whale_count_after |-> whales[i] + 1]]

-----------------------------------------------------------------------------
(* Router.route.                                                           *)

(* Mutant: the buffer gives up its oldest reading one decision too early.  *)
LagIsFullEarly(buffer) == Len(buffer) >= LagDepth

LagIsFull(buffer) == Len(buffer) > LagDepth

(* The elevated count the lagged policy uses, after appending this one's.  *)
LaggedCount(buffer) == IF LagIsFull(buffer) THEN Head(buffer) ELSE buffer[Len(buffer)]

(* Mutant: the tie cursor of the pickers stays where it is.                *)
StuckCursor(cursor) == cursor

(* Mutant: the cursor is not brought back to the start of the fleet.       *)
CursorRunsOn(cursor) == cursor + 1

NextCursor(cursor) == (cursor + 1) % N

(* The positions the policy may pick with the given tie cursor; k is the   *)
(* squeeze of the lagged one.                                              *)
Picks(C, is_whale, k, cursor) ==
  CASE policy = "round_robin" -> pick_round_robin(C, rrIndex)
    [] policy = "lmetric" -> pick_lmetric(C, cursor)
    [] policy = "drf" -> pick_drf(C, cursor)
    [] policy = "p2c_whale" -> pick_p2c_whale(C, is_whale, cursor)
    [] policy = "whale_argmin" -> pick_whale_argmin(C, is_whale, cursor)
    [] policy = "constrained_lmetric" -> pick_constrained_lmetric(C, cursor)
    [] policy = "lmetric_power" -> pick_lmetric_power(C, cursor)
    [] policy = "lmetric_power_convex" -> pick_lmetric_power_convex(C, cursor)
    [] policy = "whale_argmin_power_switch" ->
         pick_whale_argmin_power_switch(C, is_whale, cursor)
    [] policy = "drf_coincidence_tiebreak" -> pick_drf_coincidence_tiebreak(C, cursor)
    [] policy = "drf_peak_power_tiebreak" -> pick_drf_peak_power_tiebreak(C, cursor)
    [] policy = "drf_power_tiebreak_p2c" -> pick_drf_power_tiebreak_p2c(C)
    [] policy \in AdaptivePolicies \cup {"drf_power_tiebreak"} ->
         pick_drf_power_tiebreak(C, cursor)
    [] policy = "compute_only" -> pick_compute_only(C, cursor)
    [] policy = "load_only" -> pick_load_only(C, cursor)
    [] policy = "drf_power_tiebreak_full" -> pick_drf_power_tiebreak_full(C, cursor)
    [] policy = "weighted_sum" -> pick_weighted_sum(C, cursor)
    [] policy = "lmetric_power_pareto" -> pick_lmetric_power_pareto(C, cursor)
    [] policy = "drf_power_tiebreak_full_coincidence_ceiling" ->
         pick_drf_power_tiebreak_full_coincidence_ceiling(C, cursor)
    [] policy = "drf_no_power" -> pick_drf_no_power(C, cursor)
    [] policy = "weighted_sum_no_power" -> pick_weighted_sum_no_power(C, cursor)
    [] policy = "weighted_sum_coincidence_ceiling" ->
         pick_weighted_sum_coincidence_ceiling(C, cursor)
    [] policy = "lmetric_power_coincidence_ceiling" ->
         pick_lmetric_power_coincidence_ceiling(C, cursor)
    [] policy = "lmetric_power_pareto_coincidence_ceiling" ->
         pick_lmetric_power_pareto_coincidence_ceiling(C, cursor)
    [] policy = "lmetric_power_pareto_epsilon_coincidence_ceiling" ->
         pick_lmetric_power_pareto_epsilon_coincidence_ceiling(C, cursor)
    [] policy = "lmetric_power_pareto_epsilon_all_coincidence_ceiling" ->
         pick_lmetric_power_pareto_epsilon_all_coincidence_ceiling(C, cursor)
    [] policy = "lmetric_power_pareto_epsilon_small_coincidence_ceiling" ->
         pick_lmetric_power_pareto_epsilon_small_coincidence_ceiling(C, cursor)
    [] policy = "lmetric_power_pareto_epsilon_zero_coincidence_ceiling" ->
         pick_lmetric_power_pareto_epsilon_zero_coincidence_ceiling(C, cursor)
    [] policy = "drf_power_tiebreak_full_coincidence_ceiling_smoothed_ramp" ->
         pick_drf_power_tiebreak_full_coincidence_ceiling_smoothed_ramp(C, cursor)
    [] policy = "drf_peak_power_tiebreak_full" ->
         pick_drf_peak_power_tiebreak_full(C, cursor)
    [] policy = "drf_power_tiebreak_full_coincidence_ceiling_random_power" ->
         pick_drf_power_tiebreak_full_coincidence_ceiling_random_power(C, cursor)
    [] policy = PeakCeilingPolicy ->
         pick_drf_peak_power_tiebreak_full_coincidence_ceiling(C, cursor)
    [] policy = LaggedPolicy ->
         pick_drf_power_tiebreak_full_coincidence_ceiling_with_factor(C, k, cursor)
    [] policy = "pressure_switch" -> pick_pressure_switch(C, cursor)

(* The diagnostic that follows the pick: the squeeze and the power share   *)
(* it audits the pick with.                                                *)
AuditSqueeze(C, k) ==
  CASE policy = PeakCeilingPolicy -> coincidence_ceiling_squeeze_peak(C)
    [] policy = LaggedPolicy -> k
    [] policy \in CoincidenceCeilingPolicies \ {PeakCeilingPolicy, LaggedPolicy} ->
         coincidence_ceiling_squeeze(C)
    [] OTHER -> 1

AuditShare(c, k) ==
  DominantShare(c, k * (IF policy = PeakCeilingPolicy
                          THEN share_power_level(c) ELSE share_power(c)))

AvoidableThresholdViolation(C, i, k) ==
  /\ AuditShare(C[i], k) > One
  /\ \E j \in Fleet : AuditShare(C[j], k) <= One

(* The trackers and the mirror, once replica i is chosen.                  *)
OnDispatch(p, i) ==
  /\ load' = [load EXCEPT ![i] = @ + 1]
  /\ whales' = IF IsWhale(p) THEN [whales EXCEPT ![i] = @ + 1] ELSE whales
  /\ cached' = [cached EXCEPT ![i] = record_cached(p, @)]

route(p) ==
  /\ decisions < MaxDecisions[policy]
  /\ LET C == _build_candidates(p, Observed)
         buffer == Append(lagBuffer, elevated_count(C))
         k == IF policy = LaggedPolicy THEN Squeeze(LaggedCount(buffer)) ELSE 1
     IN  \E i \in Picks(C, IsWhale(p), k, tieCursor) :
           /\ last' = [replica |-> i, prompt |-> p, squeeze |-> k,
                       tied |-> \A j \in Fleet : j \in Picks(C, IsWhale(p), k, j - 1),
                       avoidable |-> AvoidableThresholdViolation(C, i, AuditSqueeze(C, k))]
           /\ OnDispatch(p, i)
           /\ IF policy = "round_robin"
                THEN rrIndex' = i - 1 ELSE UNCHANGED rrIndex
           /\ tieCursor' = IF policy \in {"round_robin", "drf_power_tiebreak_p2c"}
                             THEN tieCursor ELSE NextCursor(tieCursor)
           /\ IF policy = LaggedPolicy
                THEN /\ lagBuffer' = IF LagIsFull(buffer) THEN Tail(buffer) ELSE buffer
                     /\ elevations' = Append(elevations, elevated_count(C))
                ELSE UNCHANGED <<lagBuffer, elevations>>
           /\ rounds' = IF policy = IsolatedPolicy THEN Append(rounds, ramp) ELSE rounds
  /\ window' = Observed
  /\ decisions' = decisions + 1
  /\ UNCHANGED <<choice, telemetry, polls>>

(* Router.complete, which the proxy calls once for every request it        *)
(* dispatched: a request of that kind is in flight at the replica.         *)
complete(i, is_whale) ==
  /\ IF is_whale THEN whales[i] > 0 ELSE load[i] > whales[i]
  /\ load' = [load EXCEPT ![i] = NonNegative(@ - 1)]
  /\ whales' = IF is_whale THEN [whales EXCEPT ![i] = NonNegative(@ - 1)] ELSE whales
  /\ UNCHANGED <<choice, cursors, cached, telemetry, history>>

-----------------------------------------------------------------------------
(* The telemetry (ramp.py, bs_telemetry.py and the loops of                *)
(* proxy_server.py).                                                       *)

compute_ramp_rate(prev, cur, dt) == IF dt <= 0 THEN 0 ELSE (cur - prev) \div dt

MovingAverage(raw, prev) == (SmoothNum * raw + (SmoothDen - SmoothNum) * prev) \div SmoothDen

(* update_ramp_state for the replicas in S: reading[i] came dt after the   *)
(* previous sample of replica i, if there was one.                         *)
update_ramp_state(S, reading, dt) ==
  LET raw(i) == compute_ramp_rate(lastPower[i], reading[i], dt)
  IN  /\ ramp' = [i \in Fleet |-> IF i \in S /\ sampled[i] THEN raw(i) ELSE ramp[i]]
      /\ smoothed' = [i \in Fleet |->
           IF i \in S /\ sampled[i] THEN MovingAverage(raw(i), smoothed[i]) ELSE smoothed[i]]
      /\ lastPower' = [i \in Fleet |-> IF i \in S THEN reading[i] ELSE lastPower[i]]
      /\ sampled' = [i \in Fleet |-> i \in S \/ sampled[i]]

(* One round of power_poll_loop: it reads the replicas in order, and a     *)
(* read that raises ends the task after the replicas before it.            *)
PowerPoll(reading, dt, upto) ==
  /\ polling
  /\ polls < MaxPolls[policy]
  /\ update_ramp_state(1..upto, reading, dt)
  /\ polling' = (upto = N)
  /\ polls' = polls + 1
  /\ UNCHANGED <<choice, cursors, trackers, telemetryBs, last, decisions, elevations, rounds>>

(* parse_running_waiting: 0 when no line of the text names the model.      *)
parse_running_waiting(lines) == IF lines = {} THEN 0 ELSE CHOOSE n \in lines : TRUE

(* One replica's turn in bs_poll_loop when the request for /metrics is     *)
(* answered: lines holds the count of the model's lines, and is empty for  *)
(* an answer without them (the status of the response is not looked at).   *)
(* A request that raises changes nothing, which is a stuttering step.      *)
Scrape(i, lines) ==
  /\ bsSource = "telemetry"
  /\ telemetryBs' = [telemetryBs EXCEPT ![i] = parse_running_waiting(lines)]
  /\ UNCHANGED <<choice, cursors, trackers, lastPower, sampled, ramp, smoothed, polling,
                 history>>

-----------------------------------------------------------------------------
Init ==
  /\ \E s \in Setups : policy = s[1] /\ bsSource = s[2]
  /\ rrIndex = -1 /\ tieCursor = 0
  /\ lagBuffer = <<>> /\ elevations = <<>> /\ rounds = <<>> /\ window = <<>>
  /\ load = [i \in Fleet |-> 0] /\ whales = [i \in Fleet |-> 0]
  /\ cached = [i \in Fleet |-> {}]
  /\ lastPower = [i \in Fleet |-> 0] /\ sampled = [i \in Fleet |-> FALSE]
  /\ ramp = [i \in Fleet |-> 0] /\ smoothed = [i \in Fleet |-> 0]
  /\ polling = TRUE
  /\ telemetryBs = [i \in Fleet |-> 0]
  /\ last = NoDecision
  /\ decisions = 0 /\ polls = 0

Next ==
  \/ \E p \in Prompts : route(p)
  \/ \E i \in Fleet, is_whale \in BOOLEAN : complete(i, is_whale)
  \/ \E reading \in [Fleet -> PowerLevels], dt \in Gaps, upto \in 0..N :
       PowerPoll(reading, dt, upto)
  \/ \E i \in Fleet, lines \in {{}} \cup {{n} : n \in QueueLengths} : Scrape(i, lines)

Spec == Init /\ [][Next]_vars

TypeOK ==
  /\ <<policy, bsSource>> \in Setups
  /\ rrIndex \in -1..(N - 1) /\ tieCursor \in 0..(N - 1)
  /\ lagBuffer \in Seq(0..N) /\ elevations \in Seq(0..N)
  /\ window \in Seq(Nat)
  /\ load \in [Fleet -> Nat] /\ whales \in [Fleet -> Nat]
  /\ cached \in [Fleet -> SUBSET (UNION {block_hashes(p) : p \in Prompts})]
  /\ lastPower \in [Fleet -> Nat] /\ sampled \in [Fleet -> BOOLEAN]
  /\ ramp \in [Fleet -> Int] /\ smoothed \in [Fleet -> Int]
  /\ polling \in BOOLEAN
  /\ telemetryBs \in [Fleet -> Nat]
  /\ last \in Decision \cup {NoDecision}
  /\ decisions \in 0..MaxDecisions[policy] /\ polls \in 0..MaxPolls[policy]
  /\ rounds \in Seq([Fleet -> Int])

-----------------------------------------------------------------------------
(* Properties.  A routing step is a step that counts a decision; last'     *)
(* says which replica it picked, for which prompt.                         *)

Routing == decisions' # decisions
Offered == _build_candidates(last'.prompt, Observed)
Picked == Offered[last'.replica]

(* What a policy scales the power share by, and the power share it         *)
(* compares, for a candidate c of C.                                       *)
SmoothedPolicy == "drf_power_tiebreak_full_coincidence_ceiling_smoothed_ramp"

PolicySqueeze(C) ==
  CASE policy = PeakCeilingPolicy -> coincidence_ceiling_squeeze_peak(C)
    [] policy = SmoothedPolicy -> coincidence_ceiling_squeeze_smoothed(C)
    [] policy = LaggedPolicy -> last'.squeeze
    [] policy \in CoincidenceCeilingPolicies \ {PeakCeilingPolicy, SmoothedPolicy, LaggedPolicy}
         -> coincidence_ceiling_squeeze(C)
    [] OTHER -> 1

PolicyPowerShare(c, C) ==
  PolicySqueeze(C) *
    CASE policy \in {"drf_peak_power_tiebreak", "drf_peak_power_tiebreak_full",
                     PeakCeilingPolicy} -> share_power_level(c)
      [] policy = SmoothedPolicy -> share_power_smoothed(c)
      [] OTHER -> share_power(c)

(* The policies whose docstrings say or show that they never pick a        *)
(* Pareto-dominated candidate, and those that minimise a dominant share.   *)
ParetoSafePolicies ==
  {"drf", "drf_power_tiebreak_full", "drf_peak_power_tiebreak_full", "weighted_sum",
   "lmetric_power_pareto", "drf_power_tiebreak_full_coincidence_ceiling",
   SmoothedPolicy, PeakCeilingPolicy, LaggedPolicy,
   "weighted_sum_coincidence_ceiling",
   "lmetric_power_pareto_coincidence_ceiling",
   "lmetric_power_pareto_epsilon_coincidence_ceiling",
   "lmetric_power_pareto_epsilon_small_coincidence_ceiling",
   "lmetric_power_pareto_epsilon_all_coincidence_ceiling"}

DominantShareFirstPolicies ==
  AdaptivePolicies \cup
  {"drf", "drf_power_tiebreak", "drf_power_tiebreak_full", "drf_peak_power_tiebreak",
   "drf_peak_power_tiebreak_full", "drf_power_tiebreak_full_coincidence_ceiling",
   "drf_power_tiebreak_full_coincidence_ceiling_smoothed_ramp",
   "drf_power_tiebreak_full_coincidence_ceiling_random_power", PeakCeilingPolicy, LaggedPolicy}

(* A policy claimed Pareto-safe never picks a replica when another one has *)
(* no larger share of compute, of load and of the power the policy looks   *)
(* at, and a smaller one of the three: whatever the cursor, the squeeze    *)
(* and the telemetry are (the proofs sketched in scoring.py).              *)
PickNotDominated ==
  [][(Routing /\ policy \in ParetoSafePolicies) =>
       LET v(c) == <<share_compute(c), share_load(c), PolicyPowerShare(c, Offered)>>
       IN  \A j \in Fleet : ~Dominates(v(Offered[j]), v(Picked))]_vars

(* A policy that minimises a dominant share never exceeds the threshold    *)
(* 1.0 while a replica below it was on offer, and constrained_lmetric      *)
(* never picks a replica above its ramp ceiling while one was not.         *)
PickThresholdSafe ==
  [][Routing =>
       LET D(c) == DominantShare(c, PolicyPowerShare(c, Offered))
       IN  /\ policy \in DominantShareFirstPolicies =>
                (D(Picked) > One => \A j \in Fleet : D(Offered[j]) > One)
           /\ policy = "constrained_lmetric" =>
                (share_power(Picked) > One => \A j \in Fleet : share_power(Offered[j]) > One)]_vars

(* Two successive decisions whose score was the same for every replica go  *)
(* to different ones, so ties spread over the fleet instead of piling up  *)
(* on its first member (_rotate).  The pickers that draw random numbers    *)
(* promise nothing here, and round_robin does not compare scores.          *)
RandomPolicies ==
  {"p2c_whale", "drf_power_tiebreak_p2c",
   "drf_power_tiebreak_full_coincidence_ceiling_random_power"}

TiesRotate ==
  [][(Routing /\ policy \notin RandomPolicies /\ last # NoDecision) =>
       ((last.tied /\ last'.tied /\ N > 1) => last'.replica # last.replica)]_vars

(* The lagged ablation squeezes with the count of exactly LagDepth         *)
(* decisions ago, and with its own while there is none that old.           *)
LagExact ==
  (policy = LaggedPolicy /\ last # NoDecision) =>
    LET n == Len(elevations)
    IN  last.squeeze = Squeeze(IF n > LagDepth THEN elevations[n - LagDepth]
                               ELSE elevations[n])

(* A decision is calm when no two replicas ramp above the floor.  The      *)
(* readings of the calm decisions, by decision and replica, are recent     *)
(* while fewer than WindowSize such readings have followed.                *)
Calm(rates) == \A i, j \in Fleet : rates[i] > Floor /\ rates[j] > Floor => i = j
CalmAfter(j) == {k \in (j + 1)..Len(rounds) : Calm(rounds[k])}
ReadingsAfter(x) == N * Cardinality(CalmAfter(x[1])) + (N - x[2])
CalmReadings == {x \in (1..Len(rounds)) \X Fleet : Calm(rounds[x[1]])}
Recent == {x \in CalmReadings : ReadingsAfter(x) < WindowSize}

(* The isolated adaptive ceiling is that of the most recent calm readings: *)
(* above the floor it is one of them, so that neither a concentration of   *)
(* ramps nor a reading that has had its time dilutes the power shares, and *)
(* of them no more than the percentile leaves out are above it, so that a  *)
(* ramp is not forgotten earlier, however many concentrated decisions lie  *)
(* in between (observe_round, ceiling and the bounded deque).              *)
CeilingOfCalmRounds ==
  policy = IsolatedPolicy =>
    LET reading(x) == rounds[x[1]][x[2]]
        over == {x \in Recent : reading(x) > ceiling(window)}
    IN  /\ ceiling(window) # Floor => \E x \in Recent : reading(x) = ceiling(window)
        /\ 100 * Cardinality(over) <= (100 - Percentile) * Cardinality(Recent)

(* The mirror holds whole prefixes, so that the walk that stops at the     *)
(* first missing block has counted every cached block of the prompt.       *)
MirrorCountsEveryCachedBlock ==
  \A i \in Fleet, p \in Prompts :
    Cardinality(MatchedBlocks(p, cached[i])) = Cardinality(block_hashes(p) \cap cached[i])

(* Policies that the docstrings of scoring.py say are the same: with equal *)
(* capacities the policy of epsilon 0 decides as the squeezed lmetric_power*)
(* does; without a replica over its ceiling constrained_lmetric and        *)
(* pressure_switch decide as lmetric does; and the full tie-break differs  *)
(* from the plain one only where the plain one ties.                       *)
SameCapacities ==
  \A i, j \in Fleet : TokenBudget[i] = TokenBudget[j] /\ MaxNumSeqs[i] = MaxNumSeqs[j]

PoliciesAgree ==
  \A p \in Prompts :
    LET C == _build_candidates(p, window)
        plain == pick_drf_power_tiebreak(C, tieCursor)
        full == pick_drf_power_tiebreak_full(C, tieCursor)
        key(S) == {dominant_share_vector_power_priority(C[i]) : i \in S}
    IN  /\ SameCapacities =>
             pick_lmetric_power_pareto_epsilon_zero_coincidence_ceiling(C, tieCursor)
               = pick_lmetric_power_coincidence_ceiling(C, tieCursor)
        /\ ~fleet_pressured(C) =>
             /\ pick_constrained_lmetric(C, tieCursor) = pick_lmetric(C, tieCursor)
             /\ pick_pressure_switch(C, tieCursor) = pick_lmetric(C, tieCursor)
        /\ key(plain) = key(full)

(* The diagnostic audits a pick with the ceiling the policy used           *)
(* (router_core.py:279-281: "whatever ceiling THIS policy actually uses -- *)
(* the coincidence-ceiling-adjusted one for any "_coincidence_ceiling"     *)
(* variant, the raw static ceiling otherwise").                            *)
AuditUsesPolicyCeiling ==
  [][Routing => AuditSqueeze(Offered, last'.squeeze) = PolicySqueeze(Offered)]_vars

(* A replica that always reports work does not suddenly look empty         *)
(* (bs_poll_loop: "a transient scrape miss shouldn't make a busy replica   *)
(* suddenly look empty and get flooded").                                  *)
BusyReplicaNeverLooksEmpty ==
  [][0 \notin QueueLengths =>
       \A i \in Fleet : telemetryBs[i] > 0 => telemetryBs'[i] > 0]_vars
=============================================================================
