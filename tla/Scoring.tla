------------------------------ MODULE Scoring ------------------------------
(***************************************************************************)
(* The routing policies (scripts/eenergy/router/scoring.py): pure          *)
(* functions from the candidates of one decision, one per replica and in   *)
(* the order of the fleet, to the replica that gets the request.           *)
(*                                                                         *)
(* A share is a fraction of a capacity, counted here in units of 1/One.    *)
(* Capacities divide One times what they bound in the instances, so the    *)
(* shares are exact; rounding of floats is left out.  Scores that differ   *)
(* by a positive common factor order the candidates alike, so scores are   *)
(* multiplied out to integers.  A score is a tuple and tuples are compared *)
(* lexicographically, as Python's are; a scalar score is a 1-tuple.        *)
(*                                                                         *)
(* A picker is the SET of positions it may return: a singleton except for  *)
(* the pickers that draw random numbers.  With no candidate the code       *)
(* raises ValueError and the set is empty.                                 *)
(***************************************************************************)
EXTENDS Integers, Sequences, FiniteSets, FiniteSetsExt

CONSTANTS
  One,           \* the share 1.0
  EpsilonInv,    \* 1 / DEFAULT_LMETRIC_POWER_PARETO_EPSILON (100)
  SmallInv       \* 1 / epsilon of the "epsilon_small" policy (1000)

ASSUME ScoringAssumption == {One, EpsilonInv, SmallInv} \subseteq Nat \ {0}

(* The dataclass of the same name.                                         *)
Candidate ==
  [new_tokens : Nat, in_flight_after : Nat,
   token_budget : Nat \ {0}, max_num_seqs : Nat \ {0},
   ramp_rate : Int, smoothed_ramp_rate : Int, ramp_ceiling : Nat \ {0},
   power : Nat, power_level_ceiling : Nat \ {0},
   active_whale_count_after : Nat]

-----------------------------------------------------------------------------
(* Comparing scores and breaking ties.                                     *)

LexLess(s, t) ==
  \E k \in 1..Len(s) : s[k] < t[k] /\ \A m \in 1..(k - 1) : s[m] = t[m]

NoBetter(s, t) == ~LexLess(s, t)

(* _rotate: the place of position i in the list F once it is rotated to    *)
(* begin at start.                                                         *)
Turn(F, i, start) == (Cardinality({j \in F : j < i}) - start) % Cardinality(F)

(* min(_rotate(F, start), key=Score): Python keeps the first minimal       *)
(* element it meets.                                                       *)
LeastAmong(F, start, Score(_)) ==
  {i \in F : \A j \in F \ {i} :
     \/ LexLess(Score(i), Score(j))
     \/ /\ NoBetter(Score(j), Score(i))
        /\ Turn(F, i, start) < Turn(F, j, start)}

Least(C, start, Score(_)) ==
  LeastAmong(DOMAIN C, start, LAMBDA i : Score(C[i]))

(* Pareto domination of one share vector by another.                       *)
Dominates(s, t) ==
  /\ \A k \in DOMAIN s : s[k] <= t[k]
  /\ \E k \in DOMAIN s : s[k] < t[k]

NonNegative(x) == Max({x, 0})

-----------------------------------------------------------------------------
(* The shares.                                                             *)

Share(x, capacity) == (x * One) \div capacity

share_compute(c) == Share(c.new_tokens, c.token_budget)
share_load(c) == Share(c.in_flight_after, c.max_num_seqs)
share_power(c) == Share(NonNegative(c.ramp_rate), c.ramp_ceiling)
share_power_level(c) == Share(c.power, c.power_level_ceiling)
share_power_smoothed(c) == Share(NonNegative(c.smoothed_ramp_rate), c.ramp_ceiling)

Ramping(C) == {i \in DOMAIN C : share_power(C[i]) > One}

(* In units of 1/(Len(C) - 1) of the whole, One times over.                *)
share_power_coincidence(c, C) ==
  LET k_now == Cardinality(Ramping(C))
      resulting_k == IF share_power(c) > One THEN k_now ELSE k_now + 1
  IN  IF Len(C) <= 1 THEN 0
      ELSE Share(NonNegative(resulting_k - 1), Len(C) - 1)

(* The reciprocal of coincidence_ceiling_factor_from_count: what dividing  *)
(* by the shrunk ceiling multiplies a power share by.                      *)
Squeeze(n_elevated) == 1 + NonNegative(n_elevated - 1)

Elevated(share) == 2 * share > One          \* elevated_frac = 0.5

elevated_count(C) == Cardinality({i \in DOMAIN C : Elevated(share_power(C[i]))})

coincidence_ceiling_squeeze(C) == Squeeze(elevated_count(C))

coincidence_ceiling_squeeze_smoothed(C) ==
  Squeeze(Cardinality({i \in DOMAIN C : Elevated(share_power_smoothed(C[i]))}))

coincidence_ceiling_squeeze_peak(C) ==
  Squeeze(Cardinality({i \in DOMAIN C : Elevated(share_power_level(C[i]))}))

fleet_pressured(C) == Ramping(C) # {}

-----------------------------------------------------------------------------
(* The scores.  A power share that is divided by a shrunk ceiling is       *)
(* multiplied by the squeeze k; an epsilon of 1/inv shifts a factor.       *)

Shifted(inv, share) == One + inv * share

lmetric_score(c) == <<c.new_tokens * c.in_flight_after>>

lmetric_power_score_coincidence_ceiling(c, k) ==
  <<c.new_tokens * c.in_flight_after * (One + k * share_power(c))>>

lmetric_power_score(c) == lmetric_power_score_coincidence_ceiling(c, 1)

lmetric_power_convex_score(c) ==
  <<c.new_tokens * c.in_flight_after * (One * One + share_power(c) * share_power(c))>>

lmetric_power_pareto_score_coincidence_ceiling(c, k) ==
  <<(One + share_compute(c)) * (One + share_load(c)) * (One + k * share_power(c))>>

lmetric_power_pareto_score(c) == lmetric_power_pareto_score_coincidence_ceiling(c, 1)

lmetric_power_pareto_epsilon_score_coincidence_ceiling(c, k, inv) ==
  <<Shifted(inv, share_compute(c)) * Shifted(inv, share_load(c)) * (One + k * share_power(c))>>

lmetric_power_pareto_epsilon_zero_score(c, k) ==
  <<share_compute(c) * share_load(c) * (One + k * share_power(c))>>

lmetric_power_pareto_epsilon_all_score_coincidence_ceiling(c, k, inv) ==
  <<Shifted(inv, share_compute(c)) * Shifted(inv, share_load(c))
      * Shifted(inv, k * share_power(c))>>

weighted_sum_score_coincidence_ceiling(c, k) ==
  <<share_compute(c) + share_load(c) + k * share_power(c)>>

weighted_sum_score(c) == weighted_sum_score_coincidence_ceiling(c, 1)

weighted_sum_score_no_power(c) == <<share_compute(c) + share_load(c)>>

(* The dominant share of a candidate whose power share is p.               *)
DominantShare(c, p) == Max({share_compute(c), share_load(c), p})

dominant_share(c) == DominantShare(c, share_power(c))
dominant_share_peak(c) == DominantShare(c, share_power_level(c))
dominant_share_coincidence(c, C) == DominantShare(c, share_power_coincidence(c, C))

(* sorted((x, y, z), reverse=True), and of two.                            *)
Descending2(x, y) == <<Max({x, y}), Min({x, y})>>
Descending3(x, y, z) ==
  LET hi == Max({x, y, z})
      lo == Min({x, y, z})
  IN  <<hi, x + y + z - hi - lo, lo>>

dominant_share_vector(c) ==
  Descending3(share_compute(c), share_load(c), share_power(c))

dominant_share_vector_no_power(c) == Descending2(share_compute(c), share_load(c))

dominant_share_vector_power_priority(c) ==
  <<dominant_share(c), share_power(c), share_load(c)>>

dominant_share_vector_peak_priority(c) ==
  <<dominant_share_peak(c), share_power_level(c), share_load(c)>>

dominant_share_vector_power_priority_coincidence(c, C) ==
  <<dominant_share_coincidence(c, C), share_power_coincidence(c, C), share_load(c)>>

(* The tie-break that names every share, for the power share p.            *)
FullVector(c, p) == <<DominantShare(c, p), p, share_load(c), share_compute(c)>>

dominant_share_vector_power_priority_full(c) == FullVector(c, share_power(c))

dominant_share_vector_peak_priority_full(c) == FullVector(c, share_power_level(c))

dominant_share_vector_power_priority_full_coincidence_ceiling(c, k) ==
  FullVector(c, k * share_power(c))

dominant_share_vector_power_priority_full_coincidence_ceiling_smoothed_ramp(c, k) ==
  FullVector(c, k * share_power_smoothed(c))

dominant_share_vector_peak_priority_full_coincidence_ceiling(c, k) ==
  FullVector(c, k * share_power_level(c))

(* The second coordinate is a fresh random number: only the first decides. *)
random_tiebreak_score(c, k) == <<DominantShare(c, k * share_power(c))>>

-----------------------------------------------------------------------------
(* The pickers.                                                            *)

pick_round_robin(C, last_index) ==
  IF C = <<>> THEN {} ELSE {((last_index + 1) % Len(C)) + 1}

pick_lmetric(C, start) == Least(C, start, lmetric_score)
pick_compute_only(C, start) == Least(C, start, LAMBDA c : <<c.new_tokens>>)
pick_load_only(C, start) == Least(C, start, LAMBDA c : <<c.in_flight_after>>)
pick_lmetric_power(C, start) == Least(C, start, lmetric_power_score)
pick_lmetric_power_convex(C, start) == Least(C, start, lmetric_power_convex_score)
pick_lmetric_power_pareto(C, start) == Least(C, start, lmetric_power_pareto_score)
pick_weighted_sum(C, start) == Least(C, start, weighted_sum_score)
pick_weighted_sum_no_power(C, start) == Least(C, start, weighted_sum_score_no_power)
pick_drf(C, start) == Least(C, start, dominant_share_vector)
pick_drf_no_power(C, start) == Least(C, start, dominant_share_vector_no_power)

pick_drf_coincidence_tiebreak(C, start) ==
  Least(C, start, LAMBDA c : dominant_share_vector_power_priority_coincidence(c, C))

pick_drf_power_tiebreak(C, start) ==
  Least(C, start, dominant_share_vector_power_priority)

pick_drf_peak_power_tiebreak(C, start) ==
  Least(C, start, dominant_share_vector_peak_priority)

(* Mutant: the fourth coordinate of the tie-break is forgotten.            *)
PickTiebreakWithoutCompute(C, start) ==
  Least(C, start, dominant_share_vector_power_priority)

pick_drf_power_tiebreak_full(C, start) ==
  Least(C, start, dominant_share_vector_power_priority_full)

pick_drf_peak_power_tiebreak_full(C, start) ==
  Least(C, start, dominant_share_vector_peak_priority_full)

pick_drf_peak_power_tiebreak_full_coincidence_ceiling(C, start) ==
  LET k == coincidence_ceiling_squeeze_peak(C)
  IN  Least(C, start,
        LAMBDA c : dominant_share_vector_peak_priority_full_coincidence_ceiling(c, k))

pick_drf_power_tiebreak_full_coincidence_ceiling_smoothed_ramp(C, start) ==
  LET k == coincidence_ceiling_squeeze_smoothed(C)
  IN  Least(C, start, LAMBDA c :
        dominant_share_vector_power_priority_full_coincidence_ceiling_smoothed_ramp(c, k))

(* Distinct random numbers settle every tie in the first coordinate.       *)
pick_drf_power_tiebreak_full_coincidence_ceiling_random_power(C, start) ==
  LET k == coincidence_ceiling_squeeze(C)
  IN  {i \in DOMAIN C : \A j \in DOMAIN C :
         NoBetter(random_tiebreak_score(C[j], k), random_tiebreak_score(C[i], k))}

pick_drf_power_tiebreak_full_coincidence_ceiling_with_factor(C, k, start) ==
  Least(C, start,
    LAMBDA c : dominant_share_vector_power_priority_full_coincidence_ceiling(c, k))

pick_drf_power_tiebreak_full_coincidence_ceiling(C, start) ==
  pick_drf_power_tiebreak_full_coincidence_ceiling_with_factor(
    C, coincidence_ceiling_squeeze(C), start)

pick_weighted_sum_coincidence_ceiling(C, start) ==
  LET k == coincidence_ceiling_squeeze(C)
  IN  Least(C, start, LAMBDA c : weighted_sum_score_coincidence_ceiling(c, k))

pick_lmetric_power_coincidence_ceiling(C, start) ==
  LET k == coincidence_ceiling_squeeze(C)
  IN  Least(C, start, LAMBDA c : lmetric_power_score_coincidence_ceiling(c, k))

pick_lmetric_power_pareto_coincidence_ceiling(C, start) ==
  LET k == coincidence_ceiling_squeeze(C)
  IN  Least(C, start, LAMBDA c : lmetric_power_pareto_score_coincidence_ceiling(c, k))

EpsilonPick(C, start, inv) ==
  LET k == coincidence_ceiling_squeeze(C)
  IN  Least(C, start, LAMBDA c : lmetric_power_pareto_epsilon_score_coincidence_ceiling(c, k, inv))

pick_lmetric_power_pareto_epsilon_coincidence_ceiling(C, start) ==
  EpsilonPick(C, start, EpsilonInv)

pick_lmetric_power_pareto_epsilon_small_coincidence_ceiling(C, start) ==
  EpsilonPick(C, start, SmallInv)

(* Mutant: an epsilon of 0.0 is taken for a missing one.                   *)
EpsilonZeroIsDefault(C, start) == EpsilonPick(C, start, EpsilonInv)

pick_lmetric_power_pareto_epsilon_zero_coincidence_ceiling(C, start) ==
  LET k == coincidence_ceiling_squeeze(C)
  IN  Least(C, start, LAMBDA c : lmetric_power_pareto_epsilon_zero_score(c, k))

pick_lmetric_power_pareto_epsilon_all_coincidence_ceiling(C, start) ==
  LET k == coincidence_ceiling_squeeze(C)
  IN  Least(C, start, LAMBDA c :
        lmetric_power_pareto_epsilon_all_score_coincidence_ceiling(c, k, EpsilonInv))

(* rng.sample draws two candidates in either order and min keeps the first *)
(* of a tie: the pick is one of a pair that the other is not better than.  *)
PowerOfTwo(C, Score(_)) ==
  IF Len(C) = 1 THEN {1}
  ELSE {i \in DOMAIN C : \E j \in DOMAIN C \ {i} : NoBetter(Score(C[j]), Score(C[i]))}

pick_drf_power_tiebreak_p2c(C) == PowerOfTwo(C, dominant_share_vector_power_priority)

pick_p2c_whale(C, is_whale, start) ==
  IF is_whale THEN PowerOfTwo(C, LAMBDA c : <<c.active_whale_count_after>>)
  ELSE pick_lmetric(C, start)

(* Mutant: the fallback forgets the feasible replicas.                     *)
PickLmetricUnconstrained(C, start) == pick_lmetric(C, start)

pick_constrained_lmetric(C, start) ==
  LET feasible == {i \in DOMAIN C : share_power(C[i]) <= One}
  IN  IF feasible # {}
        THEN LeastAmong(feasible, start, LAMBDA i : lmetric_score(C[i]))
        ELSE Least(C, start, LAMBDA c : <<share_power(c)>>)

pick_pressure_switch(C, start) ==
  IF fleet_pressured(C) THEN pick_drf(C, start) ELSE pick_lmetric(C, start)

pick_whale_argmin(C, is_whale, start) ==
  IF is_whale THEN Least(C, start, LAMBDA c : <<c.active_whale_count_after>>)
  ELSE pick_lmetric(C, start)

pick_whale_argmin_power_switch(C, is_whale, start) ==
  IF fleet_pressured(C) THEN pick_drf_power_tiebreak(C, start)
  ELSE pick_whale_argmin(C, is_whale, start)
=============================================================================
