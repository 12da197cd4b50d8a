-------------------------- MODULE RouterCoreProofs --------------------------
(* What TLAPS proves about RouterCore: for any fleet, prompts, capacities, *)
(* ceilings and readings, and whatever the policies pick.                  *)
EXTENDS RouterCore, DataLemmas

-----------------------------------------------------------------------------
(* The pickers of Scoring, for any number of candidates and any shares:    *)
(* the arguments that the docstrings of scoring.py give for the policies   *)
(* they call Pareto-safe.  Numbers first.                                  *)

LEMMA MaxOfThree ==
  ASSUME NEW a \in Int, NEW b \in Int, NEW c \in Int
  PROVE  /\ Max({a, b, c}) \in {a, b, c}
         /\ Max({a, b, c}) >= a /\ Max({a, b, c}) >= b /\ Max({a, b, c}) >= c
<1>1. \E x \in {a, b, c} : \A y \in {a, b, c} : x >= y
  <2>1. CASE a >= b /\ a >= c BY <2>1
  <2>2. CASE b >= a /\ b >= c BY <2>2
  <2>3. CASE c >= a /\ c >= b BY <2>3
  <2>4. QED BY <2>1, <2>2, <2>3
<1>2. QED BY <1>1 DEF Max

LEMMA MinOfThree ==
  ASSUME NEW a \in Int, NEW b \in Int, NEW c \in Int
  PROVE  /\ Min({a, b, c}) \in {a, b, c}
         /\ Min({a, b, c}) <= a /\ Min({a, b, c}) <= b /\ Min({a, b, c}) <= c
<1>1. \E x \in {a, b, c} : \A y \in {a, b, c} : x <= y
  <2>1. CASE a <= b /\ a <= c BY <2>1
  <2>2. CASE b <= a /\ b <= c BY <2>2
  <2>3. CASE c <= a /\ c <= b BY <2>3
  <2>4. QED BY <2>1, <2>2, <2>3
<1>2. QED BY <1>1 DEF Min

LEMMA Positive ==
  ASSUME NEW x \in Int
  PROVE  NonNegative(x) \in Nat
BY MaxOfTwo DEF NonNegative

LEMMA ProductType ==
  ASSUME NEW x \in Nat, NEW y \in Nat
  PROVE  x * y \in Nat
OBVIOUS

(* A product of positive factors grows with any one of them.               *)
LEMMA ProductGrows ==
  ASSUME NEW x \in Nat \ {0}, NEW y \in Nat \ {0}, NEW u \in Nat, NEW v \in Nat,
         x <= u, y <= v
  PROVE  x * y <= u * v /\ (x < u \/ y < v => x * y < u * v) /\ x * y > 0
OBVIOUS

LEMMA ThreeFactors ==
  ASSUME NEW x \in Nat \ {0}, NEW y \in Nat \ {0}, NEW z \in Nat \ {0},
         NEW u \in Nat, NEW v \in Nat, NEW w \in Nat,
         x <= u, y <= v, z <= w, x < u \/ y < v \/ z < w
  PROVE  x * y * z < u * v * w /\ x * y * z \in Nat /\ u * v * w \in Nat
<1> DEFINE p == x * y
           q == u * v
<1>1. p <= q /\ (x < u \/ y < v => p < q) /\ p > 0 BY ProductGrows
<1>2. p \in Nat /\ q \in Nat BY ProductType
<1> HIDE DEF p, q
<1>3. p * z < q * w BY <1>1, <1>2, ProductGrows
<1>4. p * z \in Nat /\ q * w \in Nat BY <1>2, ProductType
<1>5. QED BY <1>3, <1>4 DEF p, q

LEMMA ScoringConstants == One \in Nat \ {0} /\ EpsilonInv \in Nat \ {0} /\ SmallInv \in Nat \ {0}
BY ScoringAssumption

LEMMA ShiftedGrows ==
  ASSUME NEW inv \in Nat \ {0}, NEW a \in Nat, NEW b \in Nat, a <= b
  PROVE  /\ Shifted(inv, a) \in Nat \ {0} /\ Shifted(inv, b) \in Nat \ {0}
         /\ Shifted(inv, a) <= Shifted(inv, b)
         /\ a < b => Shifted(inv, a) < Shifted(inv, b)
<1>1. inv * a \in Nat /\ inv * b \in Nat BY ProductType
<1>2. inv * a <= inv * b /\ (a < b => inv * a < inv * b)
  BY <1>1
<1> DEFINE p == inv * a
           q == inv * b
<1> HIDE DEF p, q
<1>3. One + p \in Nat \ {0} /\ One + q \in Nat \ {0} /\ One + p <= One + q
      /\ (a < b => One + p < One + q)
  BY <1>1, <1>2, ScoringConstants DEF p, q
<1>4. QED BY <1>3 DEF Shifted, p, q

-----------------------------------------------------------------------------
(* Scores as tuples.                                                       *)

LEMMA Lex1 ==
  ASSUME NEW x \in Int, NEW y \in Int
  PROVE  LexLess(<<x>>, <<y>>) <=> x < y
<1> DEFINE s == <<x>>
           t == <<y>>
<1>1. Len(s) = 1 /\ s[1] = x /\ t[1] = y OBVIOUS
<1> HIDE DEF s, t
<1>2. 1..1 = {1} /\ 1..(1 - 1) = {} OBVIOUS
<1>3. LexLess(s, t) <=> \E k \in {1} : s[k] < t[k] /\ \A m \in 1..(k - 1) : s[m] = t[m]
  BY <1>1, <1>2 DEF LexLess
<1>4. QED BY <1>1, <1>2, <1>3 DEF s, t

LEMMA Lex3 ==
  ASSUME NEW x1 \in Int, NEW x2 \in Int, NEW x3 \in Int,
         NEW y1 \in Int, NEW y2 \in Int, NEW y3 \in Int
  PROVE  LexLess(<<x1, x2, x3>>, <<y1, y2, y3>>) <=>
           \/ x1 < y1
           \/ x1 = y1 /\ x2 < y2
           \/ x1 = y1 /\ x2 = y2 /\ x3 < y3
<1> DEFINE s == <<x1, x2, x3>>
           t == <<y1, y2, y3>>
<1>1. Len(s) = 3 /\ s[1] = x1 /\ s[2] = x2 /\ s[3] = x3 /\ t[1] = y1 /\ t[2] = y2 /\ t[3] = y3
  OBVIOUS
<1> HIDE DEF s, t
<1>2. 1..3 = {1, 2, 3} OBVIOUS
<1>4. 1..(1 - 1) = {} /\ 1..(2 - 1) = {1} /\ 1..(3 - 1) = {1, 2} OBVIOUS
<1>5. LexLess(s, t) <=> \E k \in {1, 2, 3} : s[k] < t[k] /\ \A m \in 1..(k - 1) : s[m] = t[m]
  BY <1>1, <1>2 DEF LexLess
<1>6. QED BY <1>1, <1>4, <1>5 DEF s, t

LEMMA Lex4 ==
  ASSUME NEW x1 \in Int, NEW x2 \in Int, NEW x3 \in Int, NEW x4 \in Int,
         NEW y1 \in Int, NEW y2 \in Int, NEW y3 \in Int, NEW y4 \in Int
  PROVE  LexLess(<<x1, x2, x3, x4>>, <<y1, y2, y3, y4>>) <=>
           \/ x1 < y1
           \/ x1 = y1 /\ x2 < y2
           \/ x1 = y1 /\ x2 = y2 /\ x3 < y3
           \/ x1 = y1 /\ x2 = y2 /\ x3 = y3 /\ x4 < y4
<1> DEFINE s == <<x1, x2, x3, x4>>
           t == <<y1, y2, y3, y4>>
<1>1. Len(s) = 4 /\ s[1] = x1 /\ s[2] = x2 /\ s[3] = x3 /\ s[4] = x4
      /\ t[1] = y1 /\ t[2] = y2 /\ t[3] = y3 /\ t[4] = y4
  OBVIOUS
<1> HIDE DEF s, t
<1>2. 1..4 = {1, 2, 3, 4} OBVIOUS
<1>4. 1..(1 - 1) = {} /\ 1..(2 - 1) = {1} /\ 1..(3 - 1) = {1, 2} /\ 1..(4 - 1) = {1, 2, 3}
  OBVIOUS
<1>5. LexLess(s, t) <=> \E k \in {1, 2, 3, 4} : s[k] < t[k] /\ \A m \in 1..(k - 1) : s[m] = t[m]
  BY <1>1, <1>2 DEF LexLess
<1>6. QED BY <1>1, <1>4, <1>5 DEF s, t

(* A share vector that dominates another is nowhere larger and somewhere   *)
(* smaller.                                                                *)
LEMMA Domination ==
  ASSUME NEW a \in Int, NEW b \in Int, NEW c \in Int, NEW x \in Int, NEW y \in Int, NEW z \in Int
  PROVE  Dominates(<<a, b, c>>, <<x, y, z>>) <=>
           a <= x /\ b <= y /\ c <= z /\ (a < x \/ b < y \/ c < z)
BY DEF Dominates

-----------------------------------------------------------------------------
(* The shares of a candidate.                                              *)

LEMMA ShareType ==
  ASSUME NEW x \in Nat, NEW capacity \in Nat \ {0}
  PROVE  Share(x, capacity) \in Nat
<1> DEFINE y == x * One
<1>1. y \in Nat BY ScoringConstants, ProductType
<1> HIDE DEF y
<1>2. y \div capacity \in Nat BY <1>1
<1>3. QED BY <1>2 DEF Share, y

LEMMA ShareTypes ==
  ASSUME NEW c \in Candidate
  PROVE  /\ share_compute(c) \in Nat /\ share_load(c) \in Nat /\ share_power(c) \in Nat
         /\ share_power_level(c) \in Nat /\ share_power_smoothed(c) \in Nat
<1>1. NonNegative(c.ramp_rate) \in Nat /\ NonNegative(c.smoothed_ramp_rate) \in Nat
  BY Positive DEF Candidate
<1>2. /\ c.new_tokens \in Nat /\ c.in_flight_after \in Nat /\ c.power \in Nat
      /\ c.token_budget \in Nat \ {0} /\ c.max_num_seqs \in Nat \ {0}
      /\ c.ramp_ceiling \in Nat \ {0} /\ c.power_level_ceiling \in Nat \ {0}
  BY DEF Candidate
<1>3. QED BY <1>1, <1>2, ShareType
          DEF share_compute, share_load, share_power, share_power_level, share_power_smoothed

LEMMA SqueezeType ==
  ASSUME NEW n \in Nat
  PROVE  Squeeze(n) \in Nat \ {0}
BY MaxOfTwo DEF Squeeze, NonNegative

LEMMA SqueezeTypes ==
  ASSUME NEW C, IsFiniteSet(DOMAIN C)
  PROVE  /\ coincidence_ceiling_squeeze(C) \in Nat \ {0}
         /\ coincidence_ceiling_squeeze_smoothed(C) \in Nat \ {0}
         /\ coincidence_ceiling_squeeze_peak(C) \in Nat \ {0}
<1> DEFINE A == {i \in DOMAIN C : Elevated(share_power(C[i]))}
           B == {i \in DOMAIN C : Elevated(share_power_smoothed(C[i]))}
           D == {i \in DOMAIN C : Elevated(share_power_level(C[i]))}
<1>1. A \subseteq DOMAIN C /\ B \subseteq DOMAIN C /\ D \subseteq DOMAIN C OBVIOUS
<1> HIDE DEF A, B, D
<1>2. Cardinality(A) \in Nat /\ Cardinality(B) \in Nat /\ Cardinality(D) \in Nat
  BY <1>1, FS_Subset, FS_CardinalityType
<1>3. QED BY <1>2, SqueezeType
          DEF coincidence_ceiling_squeeze, coincidence_ceiling_squeeze_smoothed,
              coincidence_ceiling_squeeze_peak, elevated_count, A, B, D

-----------------------------------------------------------------------------
(* A dominated candidate has the worse score.                              *)

Worse(s, t) == LexLess(t, s) /\ ~LexLess(s, t)

(* A candidate's shares, with p for its power share.                       *)
Shares(c, p) == <<share_compute(c), share_load(c), p>>

(* The tie-break that names every share.                                   *)
LEMMA FullVectorWorse ==
  ASSUME NEW c \in Candidate, NEW d \in Candidate, NEW p \in Nat, NEW q \in Nat,
         Dominates(Shares(d, q), Shares(c, p))
  PROVE  Worse(FullVector(c, p), FullVector(d, q))
<1> DEFINE a == share_compute(c)
           b == share_load(c)
           x == share_compute(d)
           y == share_load(d)
           m == Max({a, b, p})
           n == Max({x, y, q})
<1>1. a \in Nat /\ b \in Nat /\ x \in Nat /\ y \in Nat BY ShareTypes
<1>2. Dominates(<<x, y, q>>, <<a, b, p>>) BY DEF Shares
<1>3. FullVector(c, p) = <<m, p, b, a>> /\ FullVector(d, q) = <<n, q, y, x>>
  BY DEF FullVector, DominantShare
<1> HIDE DEF a, b, x, y
<1>4. x <= a /\ y <= b /\ q <= p /\ (x < a \/ y < b \/ q < p) BY <1>1, <1>2, Domination
<1>0. a \in Int /\ b \in Int /\ x \in Int /\ y \in Int /\ p \in Int /\ q \in Int BY <1>1
<1>5. m \in {a, b, p} /\ m >= a /\ m >= b /\ m >= p BY <1>0, MaxOfThree, Zenon
<1>6. n \in {x, y, q} /\ n >= x /\ n >= y /\ n >= q BY <1>0, MaxOfThree, Zenon
<1> HIDE DEF m, n
<1>7. m \in Int /\ n \in Int /\ n <= m BY <1>1, <1>4, <1>5, <1>6
<1>8. LexLess(<<n, q, y, x>>, <<m, p, b, a>>)
  <2>1. LexLess(<<n, q, y, x>>, <<m, p, b, a>>) <=>
          \/ n < m
          \/ n = m /\ q < p
          \/ n = m /\ q = p /\ y < b
          \/ n = m /\ q = p /\ y = b /\ x < a
    BY <1>0, <1>7, Lex4, SMTT(60)
  <2>2. QED BY <1>0, <1>4, <1>7, <2>1
<1>9. ~LexLess(<<m, p, b, a>>, <<n, q, y, x>>)
  <2>1. LexLess(<<m, p, b, a>>, <<n, q, y, x>>) <=>
          \/ m < n
          \/ m = n /\ p < q
          \/ m = n /\ p = q /\ b < y
          \/ m = n /\ p = q /\ b = y /\ a < x
    BY <1>0, <1>7, Lex4, SMTT(60)
  <2>2. QED BY <1>0, <1>4, <1>7, <2>1
<1>10. QED BY <1>3, <1>8, <1>9 DEF Worse

(* The sorted vector.                                                      *)
LEMMA SortedVectorWorse ==
  ASSUME NEW c \in Candidate, NEW d \in Candidate,
         Dominates(Shares(d, share_power(d)), Shares(c, share_power(c)))
  PROVE  Worse(dominant_share_vector(c), dominant_share_vector(d))
<1> DEFINE a == share_compute(c)
           b == share_load(c)
           p == share_power(c)
           x == share_compute(d)
           y == share_load(d)
           q == share_power(d)
           hi == Max({a, b, p})
           lo == Min({a, b, p})
           Hi == Max({x, y, q})
           Lo == Min({x, y, q})
           mid == a + b + p - hi - lo
           Mid == x + y + q - Hi - Lo
<1>1. a \in Nat /\ b \in Nat /\ p \in Nat /\ x \in Nat /\ y \in Nat /\ q \in Nat
  BY ShareTypes
<1>2. Dominates(<<x, y, q>>, <<a, b, p>>) BY DEF Shares
<1>3. dominant_share_vector(c) = <<hi, mid, lo>> /\ dominant_share_vector(d) = <<Hi, Mid, Lo>>
  BY DEF dominant_share_vector, Descending3
<1> HIDE DEF a, b, p, x, y, q
<1>4. x <= a /\ y <= b /\ q <= p /\ (x < a \/ y < b \/ q < p) BY <1>1, <1>2, Domination
<1>0. a \in Int /\ b \in Int /\ p \in Int /\ x \in Int /\ y \in Int /\ q \in Int BY <1>1
<1>5. /\ hi \in {a, b, p} /\ hi >= a /\ hi >= b /\ hi >= p
      /\ lo \in {a, b, p} /\ lo <= a /\ lo <= b /\ lo <= p
  BY <1>0, MaxOfThree, MinOfThree, Zenon
<1>6. /\ Hi \in {x, y, q} /\ Hi >= x /\ Hi >= y /\ Hi >= q
      /\ Lo \in {x, y, q} /\ Lo <= x /\ Lo <= y /\ Lo <= q
  BY <1>0, MaxOfThree, MinOfThree, Zenon
<1> HIDE DEF hi, lo, Hi, Lo
<1>7. hi \in Int /\ lo \in Int /\ Hi \in Int /\ Lo \in Int BY <1>1, <1>5, <1>6
<1>8. Hi <= hi /\ Lo <= lo BY <1>1, <1>4, <1>5, <1>6, <1>7
<1>9. mid \in Int /\ Mid \in Int BY <1>1, <1>7
<1>10. Mid <= mid BY <1>1, <1>4, <1>5, <1>6, <1>7
<1>11. Hi + Mid + Lo < hi + mid + lo BY <1>1, <1>4, <1>7
<1> HIDE DEF mid, Mid
<1>12. LexLess(<<Hi, Mid, Lo>>, <<hi, mid, lo>>) BY <1>7, <1>8, <1>9, <1>10, <1>11, Lex3
<1>13. ~LexLess(<<hi, mid, lo>>, <<Hi, Mid, Lo>>) BY <1>7, <1>8, <1>9, <1>10, <1>11, Lex3
<1>14. QED BY <1>3, <1>12, <1>13 DEF Worse

(* A sum.                                                                  *)
LEMMA SumWorse ==
  ASSUME NEW c \in Candidate, NEW d \in Candidate, NEW p \in Nat, NEW q \in Nat,
         Dominates(Shares(d, q), Shares(c, p))
  PROVE  Worse(<<share_compute(c) + share_load(c) + p>>, <<share_compute(d) + share_load(d) + q>>)
<1> DEFINE a == share_compute(c)
           b == share_load(c)
           x == share_compute(d)
           y == share_load(d)
<1>1. a \in Nat /\ b \in Nat /\ x \in Nat /\ y \in Nat BY ShareTypes
<1>2. Dominates(<<x, y, q>>, <<a, b, p>>) BY DEF Shares
<1> HIDE DEF a, b, x, y
<1>3. x <= a /\ y <= b /\ q <= p /\ (x < a \/ y < b \/ q < p) BY <1>1, <1>2, Domination
<1>4. a + b + p \in Int /\ x + y + q \in Int /\ x + y + q < a + b + p BY <1>1, <1>3
<1>5. LexLess(<<x + y + q>>, <<a + b + p>>) /\ ~LexLess(<<a + b + p>>, <<x + y + q>>)
  BY <1>4, Lex1
<1>6. QED BY <1>5 DEF Worse, a, b, x, y

(* A product of shifted shares, each by an epsilon of its own.             *)
LEMMA ProductWorse ==
  ASSUME NEW c \in Candidate, NEW d \in Candidate, NEW p \in Nat, NEW q \in Nat,
         NEW inv \in Nat \ {0}, NEW inw \in Nat \ {0},
         Dominates(Shares(d, q), Shares(c, p))
  PROVE  Worse(<<Shifted(inv, share_compute(c)) * Shifted(inv, share_load(c)) * Shifted(inw, p)>>,
               <<Shifted(inv, share_compute(d)) * Shifted(inv, share_load(d)) * Shifted(inw, q)>>)
<1> DEFINE a == share_compute(c)
           b == share_load(c)
           x == share_compute(d)
           y == share_load(d)
           u == Shifted(inv, a)
           v == Shifted(inv, b)
           w == Shifted(inw, p)
           f == Shifted(inv, x)
           g == Shifted(inv, y)
           h == Shifted(inw, q)
<1>1. a \in Nat /\ b \in Nat /\ x \in Nat /\ y \in Nat BY ShareTypes
<1>2. Dominates(<<x, y, q>>, <<a, b, p>>) BY DEF Shares
<1> HIDE DEF a, b, x, y
<1>3. x <= a /\ y <= b /\ q <= p /\ (x < a \/ y < b \/ q < p) BY <1>1, <1>2, Domination
<1>4. u \in Nat \ {0} /\ f \in Nat \ {0} /\ f <= u /\ (x < a => f < u) BY <1>1, <1>3, ShiftedGrows
<1>5. v \in Nat \ {0} /\ g \in Nat \ {0} /\ g <= v /\ (y < b => g < v) BY <1>1, <1>3, ShiftedGrows
<1>6. w \in Nat \ {0} /\ h \in Nat \ {0} /\ h <= w /\ (q < p => h < w) BY <1>3, ShiftedGrows
<1> HIDE DEF u, v, w, f, g, h
<1>7. f * g * h < u * v * w /\ f * g * h \in Nat /\ u * v * w \in Nat
  BY <1>3, <1>4, <1>5, <1>6, ThreeFactors
<1> DEFINE m == u * v * w
           n == f * g * h
<1> HIDE DEF m, n
<1>8. m \in Nat /\ n \in Nat /\ n < m BY <1>7 DEF m, n
<1>9. LexLess(<<n>>, <<m>>) /\ ~LexLess(<<m>>, <<n>>) BY <1>8, Lex1
<1>10. QED BY <1>9 DEF Worse, m, n, u, v, w, f, g, h, a, b, x, y

LEMMA ShiftedOnce ==
  ASSUME NEW a \in Nat
  PROVE  Shifted(1, a) = One + a
BY DEF Shifted

-----------------------------------------------------------------------------
(* The pickers.  A candidate that min has picked is not worse than any     *)
(* other, so nothing on offer dominates it.                                *)

Typed(C) == IsFiniteSet(DOMAIN C) /\ \A i \in DOMAIN C : C[i] \in Candidate

(* What min promises of position i, for the scores at i and j.             *)
Kept(i, j, s, t) == i = j \/ LexLess(s, t) \/ NoBetter(t, s)

LEMMA KeptNotWorse ==
  ASSUME NEW i, NEW j, NEW s, NEW t, Kept(i, j, s, t), i = j => s = t
  PROVE  ~Worse(s, t)
BY DEF Kept, Worse, NoBetter

(* By which tie-break, at which squeeze and for which power shares.        *)
LEMMA FullPick ==
  ASSUME NEW C, Typed(C), NEW i \in DOMAIN C, NEW j \in DOMAIN C,
         NEW p \in Nat, NEW q \in Nat, i = j => p = q,
         Kept(i, j, FullVector(C[i], p), FullVector(C[j], q))
  PROVE  ~Dominates(Shares(C[j], q), Shares(C[i], p))
<1>1. C[i] \in Candidate /\ C[j] \in Candidate BY DEF Typed
<1>2. ~Worse(FullVector(C[i], p), FullVector(C[j], q)) BY KeptNotWorse
<1>3. QED BY <1>1, <1>2, FullVectorWorse

LEMMA SortedPick ==
  ASSUME NEW C, Typed(C), NEW i \in DOMAIN C, NEW j \in DOMAIN C,
         Kept(i, j, dominant_share_vector(C[i]), dominant_share_vector(C[j]))
  PROVE  ~Dominates(Shares(C[j], share_power(C[j])), Shares(C[i], share_power(C[i])))
<1>1. C[i] \in Candidate /\ C[j] \in Candidate BY DEF Typed
<1>2. ~Worse(dominant_share_vector(C[i]), dominant_share_vector(C[j])) BY KeptNotWorse
<1>3. QED BY <1>1, <1>2, SortedVectorWorse

LEMMA SumPick ==
  ASSUME NEW C, Typed(C), NEW i \in DOMAIN C, NEW j \in DOMAIN C, NEW k \in Nat,
         Kept(i, j, weighted_sum_score_coincidence_ceiling(C[i], k),
                    weighted_sum_score_coincidence_ceiling(C[j], k))
  PROVE  ~Dominates(Shares(C[j], k * share_power(C[j])), Shares(C[i], k * share_power(C[i])))
<1>1. C[i] \in Candidate /\ C[j] \in Candidate BY DEF Typed
<1>2. k * share_power(C[i]) \in Nat /\ k * share_power(C[j]) \in Nat
  BY <1>1, ShareTypes, ProductType
<1>3. ~Worse(weighted_sum_score_coincidence_ceiling(C[i], k),
             weighted_sum_score_coincidence_ceiling(C[j], k))
  BY KeptNotWorse
<1>4. QED BY <1>1, <1>2, <1>3, SumWorse DEF weighted_sum_score_coincidence_ceiling

LEMMA ProductPick ==
  ASSUME NEW C, Typed(C), NEW i \in DOMAIN C, NEW j \in DOMAIN C, NEW k \in Nat,
         NEW inv \in Nat \ {0}, NEW inw \in Nat \ {0}, NEW s, NEW t,
         Kept(i, j, s, t), i = j => s = t,
         s = <<Shifted(inv, share_compute(C[i])) * Shifted(inv, share_load(C[i]))
                 * Shifted(inw, k * share_power(C[i]))>>,
         t = <<Shifted(inv, share_compute(C[j])) * Shifted(inv, share_load(C[j]))
                 * Shifted(inw, k * share_power(C[j]))>>
  PROVE  ~Dominates(Shares(C[j], k * share_power(C[j])), Shares(C[i], k * share_power(C[i])))
<1>1. C[i] \in Candidate /\ C[j] \in Candidate BY DEF Typed
<1>2. k * share_power(C[i]) \in Nat /\ k * share_power(C[j]) \in Nat
  BY <1>1, ShareTypes, ProductType
<1>3. ~Worse(s, t) BY KeptNotWorse
<1>4. QED BY <1>1, <1>2, <1>3, ProductWorse

-----------------------------------------------------------------------------
(* The pickers of the policies whose docstrings call them Pareto-safe.     *)

LEMMA DrfSafe ==
  ASSUME NEW C, Typed(C), NEW start, NEW i \in pick_drf(C, start), NEW j \in DOMAIN C
  PROVE  i \in DOMAIN C
         /\ ~Dominates(Shares(C[j], share_power(C[j])), Shares(C[i], share_power(C[i])))
<1>1. i \in DOMAIN C /\ Kept(i, j, dominant_share_vector(C[i]), dominant_share_vector(C[j]))
  BY DEF pick_drf, Least, LeastAmong, Kept
<1>2. QED BY <1>1, SortedPick

LEMMA FullSafe ==
  ASSUME NEW C, Typed(C), NEW start, NEW i \in pick_drf_power_tiebreak_full(C, start),
         NEW j \in DOMAIN C
  PROVE  i \in DOMAIN C
         /\ ~Dominates(Shares(C[j], share_power(C[j])), Shares(C[i], share_power(C[i])))
<1>1. i \in DOMAIN C /\ Kept(i, j,
      FullVector(C[i], share_power(C[i])), FullVector(C[j], share_power(C[j])))
  BY DEF pick_drf_power_tiebreak_full, dominant_share_vector_power_priority_full,
         Least, LeastAmong, Kept
<1>2. C[i] \in Candidate /\ C[j] \in Candidate BY <1>1 DEF Typed
<1>3. share_power(C[i]) \in Nat /\ share_power(C[j]) \in Nat BY <1>2, ShareTypes, ProductType
<1>4. QED BY <1>1, <1>3, FullPick

LEMMA FullPeakSafe ==
  ASSUME NEW C, Typed(C), NEW start, NEW i \in pick_drf_peak_power_tiebreak_full(C, start),
         NEW j \in DOMAIN C
  PROVE  i \in DOMAIN C
         /\ ~Dominates(Shares(C[j], share_power_level(C[j])),
                       Shares(C[i], share_power_level(C[i])))
<1>1. i \in DOMAIN C /\ Kept(i, j,
      FullVector(C[i], share_power_level(C[i])), FullVector(C[j], share_power_level(C[j])))
  BY DEF pick_drf_peak_power_tiebreak_full, dominant_share_vector_peak_priority_full,
         Least, LeastAmong, Kept
<1>2. C[i] \in Candidate /\ C[j] \in Candidate BY <1>1 DEF Typed
<1>3. share_power_level(C[i]) \in Nat /\ share_power_level(C[j]) \in Nat
  BY <1>2, ShareTypes, ProductType
<1>4. QED BY <1>1, <1>3, FullPick

LEMMA FactorSafe ==
  ASSUME NEW C, Typed(C), NEW start, NEW k \in Nat,
         NEW i \in pick_drf_power_tiebreak_full_coincidence_ceiling_with_factor(C, k, start),
         NEW j \in DOMAIN C
  PROVE  i \in DOMAIN C
         /\ ~Dominates(Shares(C[j], k * share_power(C[j])), Shares(C[i], k * share_power(C[i])))
<1>1. i \in DOMAIN C /\ Kept(i, j,
      FullVector(C[i], k * share_power(C[i])), FullVector(C[j], k * share_power(C[j])))
  BY DEF pick_drf_power_tiebreak_full_coincidence_ceiling_with_factor,
         dominant_share_vector_power_priority_full_coincidence_ceiling, Least, LeastAmong, Kept
<1>2. C[i] \in Candidate /\ C[j] \in Candidate BY <1>1 DEF Typed
<1>3. k * share_power(C[i]) \in Nat /\ k * share_power(C[j]) \in Nat
  BY <1>2, ShareTypes, ProductType
<1>4. QED BY <1>1, <1>3, FullPick

LEMMA PeakCeilingSafe ==
  ASSUME NEW C, Typed(C), NEW start, NEW i \in pick_drf_peak_power_tiebreak_full_coincidence_ceiling(C, start),
         NEW j \in DOMAIN C
  PROVE  i \in DOMAIN C
         /\ ~Dominates(Shares(C[j], coincidence_ceiling_squeeze_peak(C) * share_power_level(C[j])),
                       Shares(C[i],
                           coincidence_ceiling_squeeze_peak(C) * share_power_level(C[i])))
<1>0. coincidence_ceiling_squeeze_peak(C) \in Nat BY SqueezeTypes DEF Typed
<1>1. i \in DOMAIN C /\ Kept(i, j,
      FullVector(C[i], coincidence_ceiling_squeeze_peak(C) * share_power_level(C[i])),
      FullVector(C[j], coincidence_ceiling_squeeze_peak(C) * share_power_level(C[j])))
  BY DEF pick_drf_peak_power_tiebreak_full_coincidence_ceiling,
         dominant_share_vector_peak_priority_full_coincidence_ceiling, Least, LeastAmong, Kept
<1>2. C[i] \in Candidate /\ C[j] \in Candidate BY <1>1 DEF Typed
<1>3. coincidence_ceiling_squeeze_peak(C) * share_power_level(C[i]) \in Nat
      /\ coincidence_ceiling_squeeze_peak(C) * share_power_level(C[j]) \in Nat
  BY <1>0, <1>2, ShareTypes, ProductType
<1>4. QED BY <1>1, <1>3, FullPick

LEMMA SmoothedSafe ==
  ASSUME NEW C, Typed(C), NEW start,
         NEW i \in pick_drf_power_tiebreak_full_coincidence_ceiling_smoothed_ramp(C, start),
         NEW j \in DOMAIN C
  PROVE  i \in DOMAIN C
         /\ ~Dominates(Shares(C[j], coincidence_ceiling_squeeze_smoothed(C) * share_power_smoothed(C[j])),
                       Shares(C[i],
                           coincidence_ceiling_squeeze_smoothed(C) * share_power_smoothed(C[i])))
<1>0. coincidence_ceiling_squeeze_smoothed(C) \in Nat BY SqueezeTypes DEF Typed
<1>1. i \in DOMAIN C /\ Kept(i, j,
      FullVector(C[i], coincidence_ceiling_squeeze_smoothed(C) * share_power_smoothed(C[i])),
      FullVector(C[j], coincidence_ceiling_squeeze_smoothed(C) * share_power_smoothed(C[j])))
  BY DEF pick_drf_power_tiebreak_full_coincidence_ceiling_smoothed_ramp,
         dominant_share_vector_power_priority_full_coincidence_ceiling_smoothed_ramp,
         Least, LeastAmong, Kept
<1>2. C[i] \in Candidate /\ C[j] \in Candidate BY <1>1 DEF Typed
<1>3. coincidence_ceiling_squeeze_smoothed(C) * share_power_smoothed(C[i]) \in Nat
      /\ coincidence_ceiling_squeeze_smoothed(C) * share_power_smoothed(C[j]) \in Nat
  BY <1>0, <1>2, ShareTypes, ProductType
<1>4. QED BY <1>1, <1>3, FullPick

LEMMA SumSafe ==
  ASSUME NEW C, Typed(C), NEW start, NEW i \in pick_weighted_sum(C, start), NEW j \in DOMAIN C
  PROVE  i \in DOMAIN C
         /\ ~Dominates(Shares(C[j], 1 * share_power(C[j])), Shares(C[i], 1 * share_power(C[i])))
<1>0. 1 \in Nat BY SqueezeTypes DEF Typed
<1>1. i \in DOMAIN C /\ Kept(i, j,
      weighted_sum_score_coincidence_ceiling(C[i], 1),
          weighted_sum_score_coincidence_ceiling(C[j], 1))
  BY DEF pick_weighted_sum, weighted_sum_score, Least, LeastAmong, Kept
<1>2. QED BY <1>0, <1>1, SumPick

LEMMA SumCeilingSafe ==
  ASSUME NEW C, Typed(C), NEW start, NEW i \in pick_weighted_sum_coincidence_ceiling(C, start),
         NEW j \in DOMAIN C
  PROVE  i \in DOMAIN C
         /\ ~Dominates(Shares(C[j], coincidence_ceiling_squeeze(C) * share_power(C[j])),
                       Shares(C[i], coincidence_ceiling_squeeze(C) * share_power(C[i])))
<1>0. coincidence_ceiling_squeeze(C) \in Nat BY SqueezeTypes DEF Typed
<1>1. i \in DOMAIN C /\ Kept(i, j,
      weighted_sum_score_coincidence_ceiling(C[i], coincidence_ceiling_squeeze(C)),
          weighted_sum_score_coincidence_ceiling(C[j], coincidence_ceiling_squeeze(C)))
  BY DEF pick_weighted_sum_coincidence_ceiling, Least, LeastAmong, Kept
<1>2. QED BY <1>0, <1>1, SumPick

LEMMA ProductSafe ==
  ASSUME NEW C, Typed(C), NEW start, NEW i \in pick_lmetric_power_pareto(C, start),
         NEW j \in DOMAIN C
  PROVE  i \in DOMAIN C
         /\ ~Dominates(Shares(C[j], 1 * share_power(C[j])), Shares(C[i], 1 * share_power(C[i])))
<1>0. 1 \in Nat BY SqueezeTypes DEF Typed
<1>1. i \in DOMAIN C /\ Kept(i, j,
      lmetric_power_pareto_score_coincidence_ceiling(C[i], 1),
      lmetric_power_pareto_score_coincidence_ceiling(C[j], 1))
  BY DEF pick_lmetric_power_pareto, lmetric_power_pareto_score, Least, LeastAmong, Kept
<1>2. C[i] \in Candidate /\ C[j] \in Candidate BY <1>1 DEF Typed
<1>3. \A x \in {i, j} : share_compute(C[x]) \in Nat /\ share_load(C[x]) \in Nat
                      /\ 1 * share_power(C[x]) \in Nat
  BY <1>0, <1>2, ShareTypes, ProductType
<1>4. lmetric_power_pareto_score_coincidence_ceiling(C[i], 1) =
      <<Shifted(1, share_compute(C[i])) * Shifted(1, share_load(C[i]))
                 * Shifted(1, 1 * share_power(C[i]))>>
  BY <1>3, ShiftedOnce DEF lmetric_power_pareto_score_coincidence_ceiling
<1>5. lmetric_power_pareto_score_coincidence_ceiling(C[j], 1) =
      <<Shifted(1, share_compute(C[j])) * Shifted(1, share_load(C[j]))
                 * Shifted(1, 1 * share_power(C[j]))>>
  BY <1>3, ShiftedOnce DEF lmetric_power_pareto_score_coincidence_ceiling
<1>6. QED BY <1>0, <1>1, <1>4, <1>5, ProductPick, ScoringConstants

LEMMA ProductCeilingSafe ==
  ASSUME NEW C, Typed(C), NEW start, NEW i \in pick_lmetric_power_pareto_coincidence_ceiling(C, start),
         NEW j \in DOMAIN C
  PROVE  i \in DOMAIN C
         /\ ~Dominates(Shares(C[j], coincidence_ceiling_squeeze(C) * share_power(C[j])),
                       Shares(C[i], coincidence_ceiling_squeeze(C) * share_power(C[i])))
<1>0. coincidence_ceiling_squeeze(C) \in Nat BY SqueezeTypes DEF Typed
<1>1. i \in DOMAIN C /\ Kept(i, j,
      lmetric_power_pareto_score_coincidence_ceiling(C[i], coincidence_ceiling_squeeze(C)),
      lmetric_power_pareto_score_coincidence_ceiling(C[j], coincidence_ceiling_squeeze(C)))
  BY DEF pick_lmetric_power_pareto_coincidence_ceiling, Least, LeastAmong, Kept
<1>2. C[i] \in Candidate /\ C[j] \in Candidate BY <1>1 DEF Typed
<1>3. \A x \in {i, j} : share_compute(C[x]) \in Nat /\ share_load(C[x]) \in Nat
                      /\ coincidence_ceiling_squeeze(C) * share_power(C[x]) \in Nat
  BY <1>0, <1>2, ShareTypes, ProductType
<1>4. lmetric_power_pareto_score_coincidence_ceiling(C[i], coincidence_ceiling_squeeze(C)) =
      <<Shifted(1, share_compute(C[i])) * Shifted(1, share_load(C[i]))
                 * Shifted(1, coincidence_ceiling_squeeze(C) * share_power(C[i]))>>
  BY <1>3, ShiftedOnce DEF lmetric_power_pareto_score_coincidence_ceiling
<1>5. lmetric_power_pareto_score_coincidence_ceiling(C[j], coincidence_ceiling_squeeze(C)) =
      <<Shifted(1, share_compute(C[j])) * Shifted(1, share_load(C[j]))
                 * Shifted(1, coincidence_ceiling_squeeze(C) * share_power(C[j]))>>
  BY <1>3, ShiftedOnce DEF lmetric_power_pareto_score_coincidence_ceiling
<1>6. QED BY <1>0, <1>1, <1>4, <1>5, ProductPick, ScoringConstants

LEMMA EpsilonSafe ==
  ASSUME NEW C, Typed(C), NEW start, NEW inv \in Nat \ {0},
         NEW i \in EpsilonPick(C, start, inv), NEW j \in DOMAIN C
  PROVE  i \in DOMAIN C
         /\ ~Dominates(Shares(C[j], coincidence_ceiling_squeeze(C) * share_power(C[j])),
                       Shares(C[i], coincidence_ceiling_squeeze(C) * share_power(C[i])))
<1>0. coincidence_ceiling_squeeze(C) \in Nat BY SqueezeTypes DEF Typed
<1>1. i \in DOMAIN C /\ Kept(i, j,
      lmetric_power_pareto_epsilon_score_coincidence_ceiling(
        C[i], coincidence_ceiling_squeeze(C), inv),
      lmetric_power_pareto_epsilon_score_coincidence_ceiling(
        C[j], coincidence_ceiling_squeeze(C), inv))
  BY DEF EpsilonPick, Least, LeastAmong, Kept
<1>2. C[i] \in Candidate /\ C[j] \in Candidate BY <1>1 DEF Typed
<1>3. \A x \in {i, j} : share_compute(C[x]) \in Nat /\ share_load(C[x]) \in Nat
                      /\ coincidence_ceiling_squeeze(C) * share_power(C[x]) \in Nat
  BY <1>0, <1>2, ShareTypes, ProductType
<1>4. lmetric_power_pareto_epsilon_score_coincidence_ceiling(
        C[i], coincidence_ceiling_squeeze(C), inv) =
      <<Shifted(inv, share_compute(C[i])) * Shifted(inv, share_load(C[i]))
                 * Shifted(1, coincidence_ceiling_squeeze(C) * share_power(C[i]))>>
  BY <1>3, ShiftedOnce DEF lmetric_power_pareto_epsilon_score_coincidence_ceiling
<1>5. lmetric_power_pareto_epsilon_score_coincidence_ceiling(
        C[j], coincidence_ceiling_squeeze(C), inv) =
      <<Shifted(inv, share_compute(C[j])) * Shifted(inv, share_load(C[j]))
                 * Shifted(1, coincidence_ceiling_squeeze(C) * share_power(C[j]))>>
  BY <1>3, ShiftedOnce DEF lmetric_power_pareto_epsilon_score_coincidence_ceiling
<1>6. QED BY <1>0, <1>1, <1>4, <1>5, ProductPick, ScoringConstants

LEMMA EpsilonAllSafe ==
  ASSUME NEW C, Typed(C), NEW start,
         NEW i \in pick_lmetric_power_pareto_epsilon_all_coincidence_ceiling(C, start),
         NEW j \in DOMAIN C
  PROVE  i \in DOMAIN C
         /\ ~Dominates(Shares(C[j], coincidence_ceiling_squeeze(C) * share_power(C[j])),
                       Shares(C[i], coincidence_ceiling_squeeze(C) * share_power(C[i])))
<1>0. coincidence_ceiling_squeeze(C) \in Nat BY SqueezeTypes DEF Typed
<1>1. i \in DOMAIN C /\ Kept(i, j,
      lmetric_power_pareto_epsilon_all_score_coincidence_ceiling(
        C[i], coincidence_ceiling_squeeze(C), EpsilonInv),
      lmetric_power_pareto_epsilon_all_score_coincidence_ceiling(
        C[j], coincidence_ceiling_squeeze(C), EpsilonInv))
  BY DEF pick_lmetric_power_pareto_epsilon_all_coincidence_ceiling, Least, LeastAmong, Kept
<1>2. C[i] \in Candidate /\ C[j] \in Candidate BY <1>1 DEF Typed
<1>3. \A x \in {i, j} : share_compute(C[x]) \in Nat /\ share_load(C[x]) \in Nat
                      /\ coincidence_ceiling_squeeze(C) * share_power(C[x]) \in Nat
  BY <1>0, <1>2, ShareTypes, ProductType
<1>4. lmetric_power_pareto_epsilon_all_score_coincidence_ceiling(
        C[i], coincidence_ceiling_squeeze(C), EpsilonInv) =
      <<Shifted(EpsilonInv, share_compute(C[i])) * Shifted(EpsilonInv, share_load(C[i]))
                 * Shifted(EpsilonInv, coincidence_ceiling_squeeze(C) * share_power(C[i]))>>
  BY <1>3, ShiftedOnce DEF lmetric_power_pareto_epsilon_all_score_coincidence_ceiling
<1>5. lmetric_power_pareto_epsilon_all_score_coincidence_ceiling(
        C[j], coincidence_ceiling_squeeze(C), EpsilonInv) =
      <<Shifted(EpsilonInv, share_compute(C[j])) * Shifted(EpsilonInv, share_load(C[j]))
                 * Shifted(EpsilonInv, coincidence_ceiling_squeeze(C) * share_power(C[j]))>>
  BY <1>3, ShiftedOnce DEF lmetric_power_pareto_epsilon_all_score_coincidence_ceiling
<1>6. QED BY <1>0, <1>1, <1>4, <1>5, ProductPick, ScoringConstants

-----------------------------------------------------------------------------
(* Prefixes.                                                               *)

LEMMA Prefix ==
  ASSUME NEW s, NEW k \in Nat
  PROVE  /\ Len(SubSeq(s, 1, k)) = k
         /\ \A i \in 1..k : SubSeq(s, 1, k)[i] = s[i]
         /\ \E S : SubSeq(s, 1, k) \in Seq(S)
<1> DEFINE S == {s[i] : i \in 1..k}
<1>1. /\ SubSeq(s, 1, k) \in Seq(S)
      /\ Len(SubSeq(s, 1, k)) = (IF 1 <= k THEN k - 1 + 1 ELSE 0)
      /\ \A i \in 1..(k - 1 + 1) : SubSeq(s, 1, k)[i] = s[1 + i - 1]
  <2>1. \A i \in 1..k : s[i] \in S OBVIOUS
  <2> HIDE DEF S
  <2>2. QED BY <2>1, SubSeqProperties
<1> HIDE DEF S
<1>2. k - 1 + 1 = k /\ \A i \in 1..k : 1 + i - 1 = i OBVIOUS
<1>3. Len(SubSeq(s, 1, k)) = k BY <1>1
<1>4. \A i \in 1..k : SubSeq(s, 1, k)[i] = s[i] BY <1>1, <1>2
<1>5. QED BY <1>1, <1>3, <1>4

LEMMA PrefixOfPrefix ==
  ASSUME NEW s, NEW k \in Nat, NEW m \in 1..k
  PROVE  SubSeq(SubSeq(s, 1, k), 1, m) = SubSeq(s, 1, m)
<1> DEFINE a == SubSeq(SubSeq(s, 1, k), 1, m)
           b == SubSeq(s, 1, m)
<1>1. Len(a) = m /\ Len(b) = m /\ (\E S : a \in Seq(S)) /\ (\E S : b \in Seq(S))
  BY Prefix
<1>2. \A i \in 1..m : a[i] = b[i]
  <2> SUFFICES ASSUME NEW i \in 1..m PROVE a[i] = b[i]
    OBVIOUS
  <2>1. a[i] = SubSeq(s, 1, k)[i] BY Prefix
  <2>2. SubSeq(s, 1, k)[i] = s[i] BY Prefix
  <2>3. b[i] = s[i] BY Prefix
  <2>4. QED BY <2>1, <2>2, <2>3
<1> HIDE DEF a, b
<1>3. QED BY <1>1, <1>2, SeqEqual DEF a, b

LEMMA Constants ==
  /\ N \in Nat \ {0} /\ LagDepth \in Nat \ {0} /\ Floor \in Nat \ {0}
  /\ \A p \in Prompts : Len(Blocks[p]) \in Nat
BY RouterCoreAssumption

LEMMA FleetFinite == IsFiniteSet(Fleet)
BY FS_Interval, Constants DEF Fleet

-----------------------------------------------------------------------------
(* The mirror of the prefix caches.                                        *)

(* A set of chained hashes that are those of whole prefixes.               *)
Whole(hashes) ==
  \A h \in hashes : Len(h) \in Nat /\ \A m \in 1..Len(h) : SubSeq(h, 1, m) \in hashes

LEMMA RecordedWhole ==
  ASSUME NEW p \in Prompts, NEW hashes, Whole(hashes)
  PROVE  Whole(record_cached(p, hashes))
<1> DEFINE n == Len(Blocks[p])
           b(k) == SubSeq(Blocks[p], 1, k)
<1>1. n \in Nat BY Constants
<1>2. block_hashes(p) = {b(k) : k \in 1..n} BY DEF block_hashes
<1>3. \A k \in 1..n : Len(b(k)) = k BY <1>1, Prefix
<1>4. \A k \in 1..n : \A m \in 1..k : SubSeq(b(k), 1, m) = b(m) BY <1>1, PrefixOfPrefix
<1> HIDE DEF n, b
<1>5. \A k \in 1..n : \A m \in 1..k : SubSeq(b(k), 1, m) \in block_hashes(p)
  BY <1>1, <1>2, <1>4
<1>6. \A h \in block_hashes(p) : Len(h) \in Nat
      /\ \A m \in 1..Len(h) : SubSeq(h, 1, m) \in block_hashes(p)
  BY <1>1, <1>2, <1>3, <1>5
<1>7. QED BY <1>6 DEF Whole, record_cached

(* In a mirror of whole prefixes the walk down the chain meets every block *)
(* of the prompt that is there.                                            *)
LEMMA WalkFindsAll ==
  ASSUME NEW p \in Prompts, NEW hashes, Whole(hashes)
  PROVE  Cardinality(MatchedBlocks(p, hashes)) = Cardinality(block_hashes(p) \cap hashes)
<1> DEFINE n == Len(Blocks[p])
           b(k) == SubSeq(Blocks[p], 1, k)
           M == MatchedBlocks(p, hashes)
           T == block_hashes(p) \cap hashes
           f == [k \in M |-> b(k)]
<1>1. n \in Nat BY Constants
<1>2. block_hashes(p) = {b(k) : k \in 1..n} BY DEF block_hashes
<1>3. \A k \in 1..n : Len(b(k)) = k BY <1>1, Prefix
<1>4. \A k \in 1..n : \A m \in 1..k : SubSeq(b(k), 1, m) = b(m) BY <1>1, PrefixOfPrefix
<1>5. M = {k \in 1..n : \A m \in 1..k : b(m) \in hashes} BY DEF MatchedBlocks
<1> HIDE DEF n, b, M
<1>6. \A k \in 1..n : b(k) \in hashes => k \in M
  <2> SUFFICES ASSUME NEW k \in 1..n, b(k) \in hashes PROVE \A m \in 1..k : b(m) \in hashes
    BY <1>5
  <2>1. \A m \in 1..k : SubSeq(b(k), 1, m) \in hashes BY <1>3 DEF Whole
  <2>2. QED BY <1>4, <2>1
<1>7. M \subseteq 1..n /\ \A k \in M : b(k) \in T
  <2>1. M \subseteq 1..n BY <1>5
  <2>2. \A k \in M : b(k) \in hashes BY <1>1, <1>5
  <2>3. \A k \in M : b(k) \in block_hashes(p) BY <1>2, <2>1
  <2>4. QED BY <2>1, <2>2, <2>3
<1>8. \A t \in T : \E k \in M : b(k) = t BY <1>2, <1>6
<1>9. \A k, m \in M : b(k) = b(m) => k = m BY <1>3, <1>7
<1> HIDE DEF T
<1>10. f \in Bijection(M, T)
  BY <1>7, <1>8, <1>9 DEF Bijection, Injection, Surjection, IsInjective
<1>11. ExistsBijection(M, T) BY <1>10 DEF ExistsBijection
<1>12. IsFiniteSet(M)
  <2>1. IsFiniteSet(1..n) BY <1>1, FS_Interval
  <2>2. QED BY <1>7, <2>1, FS_Subset
<1>13. Cardinality(T) = Cardinality(M) BY <1>11, <1>12, FS_Bijection
<1>14. QED BY <1>13 DEF M, T

MirrorWhole ==
  /\ cached = [i \in Fleet |-> cached[i]]
  /\ \A i \in Fleet : Whole(cached[i])

LEMMA MirrorInit == Init => MirrorWhole
BY DEF Init, MirrorWhole, Whole

LEMMA MirrorStep == MirrorWhole /\ [Next]_vars => MirrorWhole'
<1> SUFFICES ASSUME MirrorWhole, [Next]_vars PROVE MirrorWhole'
  OBVIOUS
<1>1. ASSUME cached' = cached PROVE MirrorWhole' BY <1>1 DEF MirrorWhole
<1>2. ASSUME NEW p \in Prompts, route(p) PROVE MirrorWhole'
  <2>1. \E i : OnDispatch(p, i) BY <1>2 DEF route
  <2>2. PICK i : cached' = [cached EXCEPT ![i] = record_cached(p, @)] BY <2>1 DEF OnDispatch
  <2>3. cached' = [j \in Fleet |-> IF j = i THEN record_cached(p, cached[j]) ELSE cached[j]]
    BY <2>2 DEF MirrorWhole
  <2>4. \A j \in Fleet : Whole(cached'[j]) BY <2>3, RecordedWhole DEF MirrorWhole
  <2>5. QED BY <2>3, <2>4 DEF MirrorWhole
<1>3. \A i, is_whale : complete(i, is_whale) => cached' = cached BY DEF complete
<1>4. \A reading, dt, upto : PowerPoll(reading, dt, upto) => cached' = cached
  BY DEF PowerPoll, trackers
<1>5. \A i, lines : Scrape(i, lines) => cached' = cached BY DEF Scrape, trackers
<1>6. UNCHANGED vars => cached' = cached BY DEF vars, trackers
<1>7. QED BY <1>1, <1>2, <1>3, <1>4, <1>5, <1>6 DEF Next

(* cache_mirror.py: new_tokens_if_routed, whose walk stops at the first    *)
(* missing block, credits a replica with every block of the prompt that    *)
(* record_cached has put into its mirror.                                  *)
THEOREM MirrorExact == Spec => []MirrorCountsEveryCachedBlock
<1>1. MirrorWhole => MirrorCountsEveryCachedBlock
  BY WalkFindsAll DEF MirrorWhole, MirrorCountsEveryCachedBlock
<1>2. QED BY <1>1, MirrorInit, MirrorStep, PTL DEF Spec

-----------------------------------------------------------------------------
(* The lag of the lagged ablation.                                         *)

(* The buffer is the end of the history, LagDepth long when there is that  *)
(* much of it.                                                             *)
LagInv ==
  policy = LaggedPolicy =>
    /\ lagBuffer \in Seq(Nat) /\ elevations \in Seq(Nat)
    /\ Len(lagBuffer) = IF Len(elevations) < LagDepth THEN Len(elevations) ELSE LagDepth
    /\ \A j \in 1..Len(lagBuffer) :
         lagBuffer[j] = elevations[Len(elevations) - Len(lagBuffer) + j]

LEMMA CandidatesAre ==
  ASSUME NEW p, NEW w
  PROVE  DOMAIN _build_candidates(p, w) = Fleet /\ elevated_count(_build_candidates(p, w)) \in Nat
<1> DEFINE C == _build_candidates(p, w)
<1>1. DOMAIN C = Fleet BY DEF _build_candidates
<1> HIDE DEF C
<1>2. {i \in DOMAIN C : Elevated(share_power(C[i]))} \subseteq Fleet BY <1>1
<1>3. elevated_count(C) \in Nat
  BY <1>2, FleetFinite, FS_Subset, FS_CardinalityType DEF elevated_count
<1>4. QED BY <1>1, <1>3 DEF C

LEMMA LagStep ==
  ASSUME LagInv, LagExact, NEW p \in Prompts, route(p), policy = LaggedPolicy
  PROVE  LagInv' /\ LagExact'
<1> DEFINE e == elevated_count(_build_candidates(p, Observed))
           buffer == Append(lagBuffer, e)
           n == Len(elevations)
           m == Len(lagBuffer)
<1>1. e \in Nat BY CandidatesAre
<1>2. /\ lagBuffer' = IF LagIsFull(buffer) THEN Tail(buffer) ELSE buffer
      /\ elevations' = Append(elevations, e)
      /\ last'.squeeze = Squeeze(LaggedCount(buffer))
      /\ policy' = policy
  BY DEF route, choice
<1> HIDE DEF e
<1>3. /\ lagBuffer \in Seq(Nat) /\ elevations \in Seq(Nat)
      /\ m = (IF n < LagDepth THEN n ELSE LagDepth)
      /\ \A j \in 1..m : lagBuffer[j] = elevations[n - m + j]
  BY DEF LagInv
<1>4. /\ elevations' \in Seq(Nat) /\ Len(elevations') = n + 1 /\ elevations'[n + 1] = e
      /\ \A j \in 1..n : elevations'[j] = elevations[j]
  BY <1>1, <1>2, <1>3
<1>5. /\ buffer \in Seq(Nat) /\ Len(buffer) = m + 1 /\ buffer[m + 1] = e
      /\ \A j \in 1..m : buffer[j] = lagBuffer[j]
  BY <1>1, <1>3
<1>6. n \in Nat /\ m \in Nat /\ m <= n BY <1>3, Constants
<1> HIDE DEF buffer, n, m
<1>7. \A j \in 1..(m + 1) : buffer[j] = elevations'[n - m + j]
  <2> SUFFICES ASSUME NEW j \in 1..(m + 1) PROVE buffer[j] = elevations'[n - m + j]
    OBVIOUS
  <2>1. CASE j = m + 1 BY <1>4, <1>5, <1>6, <2>1
  <2>2. CASE j # m + 1
    <3>1. j \in 1..m /\ n - m + j \in 1..n BY <1>6, <2>2
    <3>2. QED BY <1>3, <1>4, <1>5, <3>1
  <2>3. QED BY <2>1, <2>2
<1>8. CASE LagIsFull(buffer)
  <2>1. m = LagDepth /\ n >= LagDepth BY <1>3, <1>5, <1>6, <1>8, Constants DEF LagIsFull
  <2>2. lagBuffer' \in Seq(Nat) /\ Len(lagBuffer') = m
        /\ \A j \in 1..m : lagBuffer'[j] = buffer[j + 1]
    BY <1>2, <1>5, <1>6, <1>8
  <2>3. \A j \in 1..m : lagBuffer'[j] = elevations'[n + 1 - m + j]
    <3> SUFFICES ASSUME NEW j \in 1..m PROVE lagBuffer'[j] = elevations'[n + 1 - m + j]
      OBVIOUS
    <3>1. buffer[j + 1] = elevations'[n - m + (j + 1)] BY <1>6, <1>7
    <3>2. n - m + (j + 1) = n + 1 - m + j BY <1>6
    <3>3. QED BY <2>2, <3>1, <3>2
  <2>4. LagInv'
    <3>1. Len(lagBuffer') = LagDepth /\ ~(Len(elevations') < LagDepth)
      BY <1>4, <1>6, <2>1, <2>2, Constants
    <3>2. \A j \in 1..Len(lagBuffer') :
            lagBuffer'[j] = elevations'[Len(elevations') - Len(lagBuffer') + j]
      <4>1. Len(lagBuffer') = m /\ Len(elevations') = n + 1 BY <1>4, <2>2
      <4>2. QED BY <1>6, <2>3, <4>1
    <3>3. QED BY <1>4, <2>2, <3>1, <3>2 DEF LagInv
  <2>5. LaggedCount(buffer) = elevations'[n + 1 - LagDepth]
    <3>1. LaggedCount(buffer) = buffer[1] BY <1>5, <1>8 DEF LaggedCount
    <3>2. buffer[1] = elevations'[n - m + 1] BY <1>6, <1>7
    <3>3. n - m + 1 = n + 1 - LagDepth BY <1>6, <2>1
    <3>4. QED BY <3>1, <3>2, <3>3
  <2>6. LagExact' BY <1>2, <1>4, <1>6, <2>1, <2>5, Constants DEF LagExact
  <2>7. QED BY <2>4, <2>6
<1>9. CASE ~LagIsFull(buffer)
  <2>1. m = n /\ n < LagDepth BY <1>3, <1>5, <1>6, <1>9, Constants DEF LagIsFull
  <2>2. lagBuffer' = buffer BY <1>2, <1>9
  <2>3. n - m = 0 /\ \A j \in 1..(m + 1) : n + 1 - (m + 1) + j = n - m + j BY <1>6, <2>1
  <2>4. LagInv'
    <3>1. Len(lagBuffer') = n + 1 /\ Len(elevations') = n + 1 /\ lagBuffer' \in Seq(Nat)
      BY <1>4, <1>5, <2>1, <2>2
    <3>2. n + 1 = IF n + 1 < LagDepth THEN n + 1 ELSE LagDepth BY <1>6, <2>1, Constants
    <3>3. \A j \in 1..(n + 1) : lagBuffer'[j] = elevations'[(n + 1) - (n + 1) + j]
      <4>1. \A j \in 1..(n + 1) : n - m + j = (n + 1) - (n + 1) + j BY <1>6, <2>1
      <4>2. QED BY <1>7, <2>1, <2>2, <4>1
    <3>4. QED BY <1>4, <3>1, <3>2, <3>3 DEF LagInv
  <2>5. LaggedCount(buffer) = elevations'[n + 1]
    <3>1. LaggedCount(buffer) = buffer[m + 1] BY <1>5, <1>9 DEF LaggedCount
    <3>2. QED BY <1>4, <1>5, <3>1
  <2>6. LagExact' BY <1>2, <1>4, <1>6, <2>1, <2>5, Constants DEF LagExact
  <2>7. QED BY <2>4, <2>6
<1>10. QED BY <1>8, <1>9

LEMMA LagNext == LagInv /\ LagExact /\ [Next]_vars => LagInv' /\ LagExact'
<1> SUFFICES ASSUME LagInv, LagExact, [Next]_vars PROVE LagInv' /\ LagExact'
  OBVIOUS
<1>1. ASSUME policy' = policy, lagBuffer' = lagBuffer, elevations' = elevations, last' = last
      PROVE  LagInv' /\ LagExact'
  BY <1>1 DEF LagInv, LagExact
<1>2. ASSUME NEW p \in Prompts, route(p) PROVE LagInv' /\ LagExact'
  <2>1. CASE policy = LaggedPolicy BY <1>2, <2>1, LagStep
  <2>2. CASE policy # LaggedPolicy
    <3>1. policy' = policy BY <1>2 DEF route, choice
    <3>2. QED BY <2>2, <3>1 DEF LagInv, LagExact
  <2>3. QED BY <2>1, <2>2
<1>3. \A i, is_whale : complete(i, is_whale) => UNCHANGED <<policy, lagBuffer, elevations, last>>
  BY DEF complete, choice, cursors, history
<1>4. \A reading, dt, upto :
        PowerPoll(reading, dt, upto) => UNCHANGED <<policy, lagBuffer, elevations, last>>
  BY DEF PowerPoll, choice, cursors
<1>5. \A i, lines : Scrape(i, lines) => UNCHANGED <<policy, lagBuffer, elevations, last>>
  BY DEF Scrape, choice, cursors, history
<1>6. UNCHANGED vars => UNCHANGED <<policy, lagBuffer, elevations, last>>
  BY DEF vars, choice, cursors, history
<1>7. QED BY <1>1, <1>2, <1>3, <1>4, <1>5, <1>6 DEF Next

(* The lagged ablation of router_core.py squeezes with the elevated count  *)
(* of exactly LagDepth decisions ago once there is one, for every LagDepth.*)
THEOREM LagIsExact == Spec => []LagExact
<1>1. Init => LagInv /\ LagExact
  <2>1. Init => LagExact BY DEF Init, LagExact
  <2>2. Init => LagInv BY Constants DEF Init, LagInv
  <2>3. QED BY <2>1, <2>2
<1>2. QED BY <1>1, LagNext, PTL DEF Spec

-----------------------------------------------------------------------------
(* What the candidates are built from keeps its type.                      *)
Telemetered ==
  /\ load \in [Fleet -> Nat] /\ whales \in [Fleet -> Nat]
  /\ lastPower \in [Fleet -> Nat] /\ telemetryBs \in [Fleet -> Nat]
  /\ ramp \in [Fleet -> Int] /\ smoothed \in [Fleet -> Int]

LEMMA MoreConstants ==
  /\ BlockSize \in Nat \ {0} /\ SmoothDen \in Nat \ {0} /\ SmoothNum \in 0..SmoothDen
  /\ \A p \in Prompts : Rest[p] \in Nat
  /\ \A f \in {TokenBudget, MaxNumSeqs, RampCeiling, LevelCeiling} : f \in [Fleet -> Nat \ {0}]
  /\ PowerLevels \subseteq Nat /\ QueueLengths \subseteq Nat /\ Gaps \subseteq Int
BY RouterCoreAssumption

LEMMA RampTypes ==
  ASSUME NEW prev \in Int, NEW cur \in Int, NEW dt \in Int, NEW old \in Int
  PROVE  /\ compute_ramp_rate(prev, cur, dt) \in Int
         /\ MovingAverage(compute_ramp_rate(prev, cur, dt), old) \in Int
<1>1. PICK raw : raw = compute_ramp_rate(prev, cur, dt) OBVIOUS
<1>2. raw \in Int BY <1>1 DEF compute_ramp_rate
<1>3. SmoothNum * raw + (SmoothDen - SmoothNum) * old \in Int BY <1>2, MoreConstants
<1>4. MovingAverage(raw, old) \in Int
  <2>1. PICK x : x = SmoothNum * raw + (SmoothDen - SmoothNum) * old OBVIOUS
  <2>2. x \div SmoothDen \in Int BY <1>3, <2>1, MoreConstants
  <2>3. QED BY <2>1, <2>2 DEF MovingAverage
<1>5. QED BY <1>1, <1>2, <1>4

LEMMA PollTypes ==
  ASSUME Telemetered, NEW reading \in [Fleet -> PowerLevels], NEW dt \in Gaps, NEW upto,
         PowerPoll(reading, dt, upto)
  PROVE  Telemetered'
<1>1. UNCHANGED <<load, whales, telemetryBs>> BY DEF PowerPoll, trackers
<1>2. update_ramp_state(1..upto, reading, dt) BY DEF PowerPoll
<1> DEFINE raw(i) == compute_ramp_rate(lastPower[i], reading[i], dt)
           avg(i) == MovingAverage(raw(i), smoothed[i])
<1>3. \A i \in Fleet : raw(i) \in Int /\ avg(i) \in Int
  <2> SUFFICES ASSUME NEW i \in Fleet PROVE raw(i) \in Int /\ avg(i) \in Int
    OBVIOUS
  <2>1. lastPower[i] \in Int /\ reading[i] \in Int /\ smoothed[i] \in Int /\ dt \in Int
    <3>1. (\A x \in PowerLevels : x \in Int) /\ dt \in Int BY MoreConstants
    <3>2. reading[i] \in PowerLevels OBVIOUS
    <3>3. lastPower[i] \in Nat /\ smoothed[i] \in Int BY DEF Telemetered
    <3>4. reading[i] \in Int BY <3>1, <3>2, Zenon
    <3>5. lastPower[i] \in Int BY <3>3
    <3>6. QED BY <3>1, <3>3, <3>4, <3>5
  <2>2. QED BY <2>1, RampTypes
<1>4. /\ ramp' = [i \in Fleet |-> IF i \in 1..upto /\ sampled[i] THEN raw(i) ELSE ramp[i]]
      /\ smoothed' = [i \in Fleet |-> IF i \in 1..upto /\ sampled[i] THEN avg(i) ELSE smoothed[i]]
      /\ lastPower' = [i \in Fleet |-> IF i \in 1..upto THEN reading[i] ELSE lastPower[i]]
  BY <1>2, Zenon DEF update_ramp_state
<1> HIDE DEF raw, avg
<1>5. ramp' \in [Fleet -> Int] BY <1>3, <1>4 DEF Telemetered
<1>6. smoothed' \in [Fleet -> Int] BY <1>3, <1>4 DEF Telemetered
<1>7. lastPower' \in [Fleet -> Nat] BY <1>4, MoreConstants DEF Telemetered
<1>8. QED BY <1>1, <1>5, <1>6, <1>7 DEF Telemetered

LEMMA TelemeteredStep == Telemetered /\ [Next]_vars => Telemetered'
<1> SUFFICES ASSUME Telemetered, [Next]_vars PROVE Telemetered'
  OBVIOUS
<1>1. ASSUME NEW p, route(p) PROVE Telemetered'
  <2>1. UNCHANGED <<lastPower, telemetryBs, ramp, smoothed>> BY <1>1 DEF route, telemetry
  <2>2. PICK i : OnDispatch(p, i) BY <1>1 DEF route
  <2>3. /\ load' = [load EXCEPT ![i] = load[i] + 1]
        /\ whales' = whales \/ whales' = [whales EXCEPT ![i] = whales[i] + 1]
    BY <2>2 DEF OnDispatch
  <2>4. load \in [Fleet -> Nat] /\ whales \in [Fleet -> Nat] BY DEF Telemetered
  <2>5. [load EXCEPT ![i] = load[i] + 1] \in [Fleet -> Nat]
    <3>1. CASE i \in Fleet
      <4>1. load[i] + 1 \in Nat BY <3>1, <2>4
      <4>2. QED BY <4>1, <2>4
    <3>2. CASE i \notin Fleet BY <3>2, <2>4
    <3>3. QED BY <3>1, <3>2
  <2>6. [whales EXCEPT ![i] = whales[i] + 1] \in [Fleet -> Nat]
    <3>1. CASE i \in Fleet
      <4>1. whales[i] + 1 \in Nat BY <3>1, <2>4
      <4>2. QED BY <4>1, <2>4
    <3>2. CASE i \notin Fleet BY <3>2, <2>4
    <3>3. QED BY <3>1, <3>2
  <2>7. load' \in [Fleet -> Nat] /\ whales' \in [Fleet -> Nat]
    BY <2>3, <2>4, <2>5, <2>6, Zenon
  <2>8. QED BY <2>1, <2>7 DEF Telemetered
<1>2. ASSUME NEW i \in Fleet, NEW is_whale, complete(i, is_whale) PROVE Telemetered'
  <2>1. UNCHANGED <<lastPower, telemetryBs, ramp, smoothed>> BY <1>2 DEF complete, telemetry
  <2>2. NonNegative(load[i] - 1) \in Nat /\ NonNegative(whales[i] - 1) \in Nat
    <3>1. load[i] - 1 \in Int /\ whales[i] - 1 \in Int BY DEF Telemetered
    <3>2. QED BY <3>1, Positive
  <2>3. /\ load' = [load EXCEPT ![i] = NonNegative(load[i] - 1)]
        /\ whales' = whales \/ whales' = [whales EXCEPT ![i] = NonNegative(whales[i] - 1)]
    BY <1>2 DEF complete
  <2>4. load' \in [Fleet -> Nat] /\ whales' \in [Fleet -> Nat]
    <3>1. load \in [Fleet -> Nat] /\ whales \in [Fleet -> Nat] BY DEF Telemetered
    <3>2. load' \in [Fleet -> Nat] BY <2>2, <2>3, <3>1
    <3>3. [whales EXCEPT ![i] = NonNegative(whales[i] - 1)] \in [Fleet -> Nat] BY <2>2, <3>1
    <3>4. whales' \in [Fleet -> Nat] BY <2>3, <3>1, <3>3, Zenon
    <3>5. QED BY <3>2, <3>4
  <2>5. QED BY <2>1, <2>4 DEF Telemetered
<1>3. ASSUME NEW i, NEW lines \in {{}} \cup {{n} : n \in QueueLengths}, Scrape(i, lines)
      PROVE  Telemetered'
  <2>1. parse_running_waiting(lines) \in Nat BY MoreConstants DEF parse_running_waiting
  <2>2. telemetryBs' \in [Fleet -> Nat] BY <1>3, <2>1 DEF Scrape, Telemetered
  <2>3. UNCHANGED <<load, whales, lastPower, ramp, smoothed>> BY <1>3 DEF Scrape, trackers
  <2>4. QED BY <2>2, <2>3 DEF Telemetered
<1>4. UNCHANGED vars => Telemetered' BY DEF vars, trackers, telemetry, Telemetered
<1>5. QED BY <1>1, <1>2, <1>3, <1>4, PollTypes DEF Next

(* A prompt has no fewer tokens than its cached blocks.                    *)
LEMMA NewTokensType ==
  ASSUME NEW p \in Prompts, NEW hashes
  PROVE  new_tokens_if_routed(p, hashes) \in Nat
<1> DEFINE n == Len(Blocks[p])
           M == MatchedBlocks(p, hashes)
           m == Cardinality(M)
<1>1. n \in Nat BY Constants
<1>2. M \subseteq 1..n BY DEF MatchedBlocks
<1> HIDE DEF n, M
<1>3. IsFiniteSet(1..n) /\ Cardinality(1..n) = n BY <1>1, FS_Interval
<1>4. m \in Nat /\ m <= n
  <2>1. IsFiniteSet(M) /\ Cardinality(M) <= Cardinality(1..n) BY <1>2, <1>3, FS_Subset
  <2>2. QED BY <1>3, <2>1, FS_CardinalityType
<1> HIDE DEF m
<1>5. BlockSize * m <= BlockSize * n /\ BlockSize * m \in Nat /\ BlockSize * n \in Nat
  <2>1. BlockSize * m \in Nat /\ BlockSize * n \in Nat BY <1>1, <1>4, ProductType, MoreConstants
  <2>2. BlockSize * m <= BlockSize * n BY <1>1, <1>4, MoreConstants
  <2>3. QED BY <2>1, <2>2
<1>6. new_tokens_if_routed(p, hashes) = (BlockSize * n + Rest[p]) - BlockSize * m
  BY DEF new_tokens_if_routed, PromptLength, n, m, M
<1>7. QED BY <1>5, <1>6, MoreConstants

(* The candidates of the policies whose ramp ceiling is the configured one.*)
LEMMA OfferedTyped ==
  ASSUME Telemetered, NEW p \in Prompts, NEW w, policy \notin AdaptivePolicies
  PROVE  Typed(_build_candidates(p, w))
<1> DEFINE C == _build_candidates(p, w)
<1>1. DOMAIN C = Fleet BY DEF _build_candidates
<1>2. ASSUME NEW i \in Fleet PROVE C[i] \in Candidate
  <2>1. PICK n : n = new_tokens_if_routed(p, cached[i]) OBVIOUS
  <2>2. n \in Nat BY <2>1, NewTokensType
  <2>3. PICK b : b = InFlightAfter(i) OBVIOUS
  <2>4. b \in Nat BY <2>3 DEF InFlightAfter, Telemetered
  <2>5. /\ TokenBudget[i] \in Nat \ {0} /\ MaxNumSeqs[i] \in Nat \ {0}
        /\ RampCeiling[i] \in Nat \ {0} /\ LevelCeiling[i] \in Nat \ {0}
    BY MoreConstants
  <2>6. /\ ramp[i] \in Int /\ smoothed[i] \in Int /\ lastPower[i] \in Nat /\ whales[i] + 1 \in Nat
    BY DEF Telemetered
  <2>7. C[i] = [new_tokens |-> n, in_flight_after |-> b,
                token_budget |-> TokenBudget[i], max_num_seqs |-> MaxNumSeqs[i],
                ramp_rate |-> ramp[i], smoothed_ramp_rate |-> smoothed[i],
                ramp_ceiling |-> RampCeiling[i],
                power |-> lastPower[i], power_level_ceiling |-> LevelCeiling[i],
                active_whale_count_after |-> whales[i] + 1]
    BY <2>1, <2>3 DEF _build_candidates
  <2> HIDE DEF C
  <2>8. QED BY <2>2, <2>4, <2>5, <2>6, <2>7 DEF Candidate
<1>3. QED BY <1>1, <1>2, FleetFinite DEF Typed

-----------------------------------------------------------------------------
(* What each of the Pareto-safe policies picks, with which squeeze and     *)
(* which power share.                                                      *)

LEMMA PowerShares ==
  ASSUME NEW c, NEW C, policy \in ParetoSafePolicies
  PROVE  PolicyPowerShare(c, C) = PolicySqueeze(C) *
           (IF policy \in {"drf_peak_power_tiebreak_full", PeakCeilingPolicy}
              THEN share_power_level(c)
              ELSE IF policy = SmoothedPolicy THEN share_power_smoothed(c) ELSE share_power(c))
<1>1. CASE policy \in {"drf_peak_power_tiebreak_full", PeakCeilingPolicy}
  BY <1>1, ZenonT(60) DEF PolicyPowerShare, PeakCeilingPolicy, SmoothedPolicy
<1>2. CASE policy = SmoothedPolicy
  BY <1>2, ZenonT(60) DEF PolicyPowerShare, PeakCeilingPolicy, SmoothedPolicy
<1>3. CASE policy \notin {"drf_peak_power_tiebreak_full", PeakCeilingPolicy, SmoothedPolicy}
  <2>1. policy # "drf_peak_power_tiebreak"
    BY DEF ParetoSafePolicies, PeakCeilingPolicy, LaggedPolicy, SmoothedPolicy
  <2>2. QED BY <1>3, <2>1, ZenonT(60) DEF PolicyPowerShare
<1>4. QED BY <1>1, <1>2, <1>3

LEMMA PickSafe ==
  ASSUME NEW C, Typed(C), NEW w, NEW k \in Nat, NEW cur, policy \in ParetoSafePolicies,
         policy = LaggedPolicy => last'.squeeze = k,
         NEW i \in Picks(C, w, k, cur), NEW j \in DOMAIN C
  PROVE  /\ i \in DOMAIN C
         /\ ~Dominates(Shares(C[j], PolicyPowerShare(C[j], C)),
                       Shares(C[i], PolicyPowerShare(C[i], C)))
<1>0. coincidence_ceiling_squeeze(C) \in Nat BY SqueezeTypes DEF Typed
<1>u. \A x \in DOMAIN C : 1 * share_power(C[x]) = share_power(C[x])
                       /\ 1 * share_power_level(C[x]) = share_power_level(C[x])
  BY ShareTypes DEF Typed
<1>1. CASE policy = "drf"
  <2>1. i \in pick_drf(C, cur)
    <3>1. Picks(C, w, k, cur) = pick_drf(C, cur)
      BY <1>1, ZenonT(60) DEF Picks, AdaptivePolicies, IsolatedPolicy, PeakCeilingPolicy, LaggedPolicy
    <3>2. QED BY <3>1
  <2>2. PolicySqueeze(C) = 1
    BY <1>1, ZenonT(60) DEF PolicySqueeze, PeakCeilingPolicy, LaggedPolicy, SmoothedPolicy,
       CoincidenceCeilingPolicies
  <2>3. \A c : PolicyPowerShare(c, C) = (1) * share_power(c)
    BY <1>1, <2>2, PowerShares DEF PeakCeilingPolicy, LaggedPolicy, SmoothedPolicy
  <2>4. /\ i \in DOMAIN C
        /\ ~Dominates(Shares(C[j], (1) * share_power(C[j])),
                      Shares(C[i], (1) * share_power(C[i])))
    BY <2>1, DrfSafe, <1>u
  <2>5. QED BY <2>3, <2>4
<1>2. CASE policy = "drf_power_tiebreak_full"
  <2>1. i \in pick_drf_power_tiebreak_full(C, cur)
    <3>1. Picks(C, w, k, cur) = pick_drf_power_tiebreak_full(C, cur)
      BY <1>2, ZenonT(60) DEF Picks, AdaptivePolicies, IsolatedPolicy, PeakCeilingPolicy, LaggedPolicy
    <3>2. QED BY <3>1
  <2>2. PolicySqueeze(C) = 1
    BY <1>2, ZenonT(60) DEF PolicySqueeze, PeakCeilingPolicy, LaggedPolicy, SmoothedPolicy,
       CoincidenceCeilingPolicies
  <2>3. \A c : PolicyPowerShare(c, C) = (1) * share_power(c)
    BY <1>2, <2>2, PowerShares DEF PeakCeilingPolicy, LaggedPolicy, SmoothedPolicy
  <2>4. /\ i \in DOMAIN C
        /\ ~Dominates(Shares(C[j], (1) * share_power(C[j])),
                      Shares(C[i], (1) * share_power(C[i])))
    BY <2>1, FullSafe, <1>u
  <2>5. QED BY <2>3, <2>4
<1>3. CASE policy = "drf_peak_power_tiebreak_full"
  <2>1. i \in pick_drf_peak_power_tiebreak_full(C, cur)
    <3>1. Picks(C, w, k, cur) = pick_drf_peak_power_tiebreak_full(C, cur)
      BY <1>3, ZenonT(60) DEF Picks, AdaptivePolicies, IsolatedPolicy, PeakCeilingPolicy, LaggedPolicy
    <3>2. QED BY <3>1
  <2>2. PolicySqueeze(C) = 1
    BY <1>3, ZenonT(60) DEF PolicySqueeze, PeakCeilingPolicy, LaggedPolicy, SmoothedPolicy,
       CoincidenceCeilingPolicies
  <2>3. \A c : PolicyPowerShare(c, C) = (1) * share_power_level(c)
    BY <1>3, <2>2, PowerShares DEF PeakCeilingPolicy, LaggedPolicy, SmoothedPolicy
  <2>4. /\ i \in DOMAIN C
        /\ ~Dominates(Shares(C[j], (1) * share_power_level(C[j])),
                      Shares(C[i], (1) * share_power_level(C[i])))
    BY <2>1, FullPeakSafe, <1>u
  <2>5. QED BY <2>3, <2>4
<1>4. CASE policy = "weighted_sum"
  <2>1. i \in pick_weighted_sum(C, cur)
    <3>1. Picks(C, w, k, cur) = pick_weighted_sum(C, cur)
      BY <1>4, ZenonT(60) DEF Picks, AdaptivePolicies, IsolatedPolicy, PeakCeilingPolicy, LaggedPolicy
    <3>2. QED BY <3>1
  <2>2. PolicySqueeze(C) = 1
    BY <1>4, ZenonT(60) DEF PolicySqueeze, PeakCeilingPolicy, LaggedPolicy, SmoothedPolicy,
       CoincidenceCeilingPolicies
  <2>3. \A c : PolicyPowerShare(c, C) = (1) * share_power(c)
    BY <1>4, <2>2, PowerShares DEF PeakCeilingPolicy, LaggedPolicy, SmoothedPolicy
  <2>4. /\ i \in DOMAIN C
        /\ ~Dominates(Shares(C[j], (1) * share_power(C[j])),
                      Shares(C[i], (1) * share_power(C[i])))
    BY <2>1, SumSafe
  <2>5. QED BY <2>3, <2>4
<1>5. CASE policy = "lmetric_power_pareto"
  <2>1. i \in pick_lmetric_power_pareto(C, cur)
    <3>1. Picks(C, w, k, cur) = pick_lmetric_power_pareto(C, cur)
      BY <1>5, ZenonT(60) DEF Picks, AdaptivePolicies, IsolatedPolicy, PeakCeilingPolicy, LaggedPolicy
    <3>2. QED BY <3>1
  <2>2. PolicySqueeze(C) = 1
    BY <1>5, ZenonT(60) DEF PolicySqueeze, PeakCeilingPolicy, LaggedPolicy, SmoothedPolicy,
       CoincidenceCeilingPolicies
  <2>3. \A c : PolicyPowerShare(c, C) = (1) * share_power(c)
    BY <1>5, <2>2, PowerShares DEF PeakCeilingPolicy, LaggedPolicy, SmoothedPolicy
  <2>4. /\ i \in DOMAIN C
        /\ ~Dominates(Shares(C[j], (1) * share_power(C[j])),
                      Shares(C[i], (1) * share_power(C[i])))
    BY <2>1, ProductSafe
  <2>5. QED BY <2>3, <2>4
<1>6. CASE policy = "drf_power_tiebreak_full_coincidence_ceiling"
  <2>1. i \in pick_drf_power_tiebreak_full_coincidence_ceiling(C, cur)
    <3>1. Picks(C, w, k, cur) = pick_drf_power_tiebreak_full_coincidence_ceiling(C, cur)
      BY <1>6, ZenonT(60) DEF Picks, AdaptivePolicies, IsolatedPolicy, PeakCeilingPolicy, LaggedPolicy
    <3>2. QED BY <3>1
  <2>2. PolicySqueeze(C) = coincidence_ceiling_squeeze(C)
    BY <1>6, ZenonT(60) DEF PolicySqueeze, PeakCeilingPolicy, LaggedPolicy, SmoothedPolicy,
       CoincidenceCeilingPolicies
  <2>3. \A c : PolicyPowerShare(c, C) = (coincidence_ceiling_squeeze(C)) * share_power(c)
    BY <1>6, <2>2, PowerShares DEF PeakCeilingPolicy, LaggedPolicy, SmoothedPolicy
  <2>4. /\ i \in DOMAIN C
        /\ ~Dominates(Shares(C[j], (coincidence_ceiling_squeeze(C)) * share_power(C[j])),
                      Shares(C[i], (coincidence_ceiling_squeeze(C)) * share_power(C[i])))
    BY <2>1, FactorSafe, <1>0 DEF pick_drf_power_tiebreak_full_coincidence_ceiling
  <2>5. QED BY <2>3, <2>4
<1>7. CASE policy = SmoothedPolicy
  <2>1. i \in pick_drf_power_tiebreak_full_coincidence_ceiling_smoothed_ramp(C, cur)
    <3>1. Picks(C, w, k,
          cur) = pick_drf_power_tiebreak_full_coincidence_ceiling_smoothed_ramp(C, cur)
      BY <1>7, ZenonT(60)
        DEF Picks, AdaptivePolicies, IsolatedPolicy, PeakCeilingPolicy, LaggedPolicy, SmoothedPolicy
    <3>2. QED BY <3>1
  <2>2. PolicySqueeze(C) = coincidence_ceiling_squeeze_smoothed(C)
    BY <1>7, ZenonT(60) DEF PolicySqueeze, PeakCeilingPolicy, LaggedPolicy, SmoothedPolicy,
       CoincidenceCeilingPolicies
  <2>3. \A c : PolicyPowerShare(c,
        C) = (coincidence_ceiling_squeeze_smoothed(C)) * share_power_smoothed(c)
    BY <1>7, <2>2, PowerShares DEF PeakCeilingPolicy, LaggedPolicy, SmoothedPolicy
  <2>4. /\ i \in DOMAIN C
        /\ ~Dominates(Shares(C[j],
                      (coincidence_ceiling_squeeze_smoothed(C)) * share_power_smoothed(C[j])),
                      Shares(C[i],
                          (coincidence_ceiling_squeeze_smoothed(C)) * share_power_smoothed(C[i])))
    BY <2>1, SmoothedSafe
  <2>5. QED BY <2>3, <2>4
<1>8. CASE policy = PeakCeilingPolicy
  <2>1. i \in pick_drf_peak_power_tiebreak_full_coincidence_ceiling(C, cur)
    <3>1. Picks(C, w, k, cur) = pick_drf_peak_power_tiebreak_full_coincidence_ceiling(C, cur)
      BY <1>8, ZenonT(60) DEF Picks, AdaptivePolicies, IsolatedPolicy, PeakCeilingPolicy, LaggedPolicy
    <3>2. QED BY <3>1
  <2>2. PolicySqueeze(C) = coincidence_ceiling_squeeze_peak(C)
    BY <1>8, ZenonT(60) DEF PolicySqueeze, PeakCeilingPolicy, LaggedPolicy, SmoothedPolicy,
       CoincidenceCeilingPolicies
  <2>3. \A c : PolicyPowerShare(c,
        C) = (coincidence_ceiling_squeeze_peak(C)) * share_power_level(c)
    BY <1>8, <2>2, PowerShares DEF PeakCeilingPolicy, LaggedPolicy, SmoothedPolicy
  <2>4. /\ i \in DOMAIN C
        /\ ~Dominates(Shares(C[j],
                      (coincidence_ceiling_squeeze_peak(C)) * share_power_level(C[j])),
                      Shares(C[i],
                          (coincidence_ceiling_squeeze_peak(C)) * share_power_level(C[i])))
    BY <2>1, PeakCeilingSafe
  <2>5. QED BY <2>3, <2>4
<1>9. CASE policy = LaggedPolicy
  <2>1. i \in pick_drf_power_tiebreak_full_coincidence_ceiling_with_factor(C, k, cur)
    <3>1. Picks(C, w, k, cur) = pick_drf_power_tiebreak_full_coincidence_ceiling_with_factor(C,
          k, cur)
      BY <1>9, ZenonT(60) DEF Picks, AdaptivePolicies, IsolatedPolicy, PeakCeilingPolicy, LaggedPolicy
    <3>2. QED BY <3>1
  <2>2. PolicySqueeze(C) = k
    BY <1>9, ZenonT(60) DEF PolicySqueeze, PeakCeilingPolicy, LaggedPolicy, SmoothedPolicy,
       CoincidenceCeilingPolicies
  <2>3. \A c : PolicyPowerShare(c, C) = (k) * share_power(c)
    BY <1>9, <2>2, PowerShares DEF PeakCeilingPolicy, LaggedPolicy, SmoothedPolicy
  <2>4. /\ i \in DOMAIN C
        /\ ~Dominates(Shares(C[j], (k) * share_power(C[j])),
                      Shares(C[i], (k) * share_power(C[i])))
    BY <2>1, FactorSafe
  <2>5. QED BY <2>3, <2>4
<1>10. CASE policy = "weighted_sum_coincidence_ceiling"
  <2>1. i \in pick_weighted_sum_coincidence_ceiling(C, cur)
    <3>1. Picks(C, w, k, cur) = pick_weighted_sum_coincidence_ceiling(C, cur)
      BY <1>10, ZenonT(60) DEF Picks, AdaptivePolicies, IsolatedPolicy, PeakCeilingPolicy, LaggedPolicy
    <3>2. QED BY <3>1
  <2>2. PolicySqueeze(C) = coincidence_ceiling_squeeze(C)
    BY <1>10, ZenonT(60) DEF PolicySqueeze, PeakCeilingPolicy, LaggedPolicy, SmoothedPolicy,
       CoincidenceCeilingPolicies
  <2>3. \A c : PolicyPowerShare(c, C) = (coincidence_ceiling_squeeze(C)) * share_power(c)
    BY <1>10, <2>2, PowerShares DEF PeakCeilingPolicy, LaggedPolicy, SmoothedPolicy
  <2>4. /\ i \in DOMAIN C
        /\ ~Dominates(Shares(C[j], (coincidence_ceiling_squeeze(C)) * share_power(C[j])),
                      Shares(C[i], (coincidence_ceiling_squeeze(C)) * share_power(C[i])))
    BY <2>1, SumCeilingSafe
  <2>5. QED BY <2>3, <2>4
<1>11. CASE policy = "lmetric_power_pareto_coincidence_ceiling"
  <2>1. i \in pick_lmetric_power_pareto_coincidence_ceiling(C, cur)
    <3>1. Picks(C, w, k, cur) = pick_lmetric_power_pareto_coincidence_ceiling(C, cur)
      BY <1>11, ZenonT(60) DEF Picks, AdaptivePolicies, IsolatedPolicy, PeakCeilingPolicy, LaggedPolicy
    <3>2. QED BY <3>1
  <2>2. PolicySqueeze(C) = coincidence_ceiling_squeeze(C)
    BY <1>11, ZenonT(60) DEF PolicySqueeze, PeakCeilingPolicy, LaggedPolicy, SmoothedPolicy,
       CoincidenceCeilingPolicies
  <2>3. \A c : PolicyPowerShare(c, C) = (coincidence_ceiling_squeeze(C)) * share_power(c)
    BY <1>11, <2>2, PowerShares DEF PeakCeilingPolicy, LaggedPolicy, SmoothedPolicy
  <2>4. /\ i \in DOMAIN C
        /\ ~Dominates(Shares(C[j], (coincidence_ceiling_squeeze(C)) * share_power(C[j])),
                      Shares(C[i], (coincidence_ceiling_squeeze(C)) * share_power(C[i])))
    BY <2>1, ProductCeilingSafe
  <2>5. QED BY <2>3, <2>4
<1>12. CASE policy = "lmetric_power_pareto_epsilon_coincidence_ceiling"
  <2>1. i \in pick_lmetric_power_pareto_epsilon_coincidence_ceiling(C, cur)
    <3>1. Picks(C, w, k, cur) = pick_lmetric_power_pareto_epsilon_coincidence_ceiling(C, cur)
      BY <1>12, ZenonT(60) DEF Picks, AdaptivePolicies, IsolatedPolicy, PeakCeilingPolicy, LaggedPolicy
    <3>2. QED BY <3>1
  <2>2. PolicySqueeze(C) = coincidence_ceiling_squeeze(C)
    BY <1>12, ZenonT(60) DEF PolicySqueeze, PeakCeilingPolicy, LaggedPolicy, SmoothedPolicy,
       CoincidenceCeilingPolicies
  <2>3. \A c : PolicyPowerShare(c, C) = (coincidence_ceiling_squeeze(C)) * share_power(c)
    BY <1>12, <2>2, PowerShares DEF PeakCeilingPolicy, LaggedPolicy, SmoothedPolicy
  <2>4. /\ i \in DOMAIN C
        /\ ~Dominates(Shares(C[j], (coincidence_ceiling_squeeze(C)) * share_power(C[j])),
                      Shares(C[i], (coincidence_ceiling_squeeze(C)) * share_power(C[i])))
    BY <2>1, EpsilonSafe, ScoringConstants
      DEF pick_lmetric_power_pareto_epsilon_coincidence_ceiling
  <2>5. QED BY <2>3, <2>4
<1>13. CASE policy = "lmetric_power_pareto_epsilon_small_coincidence_ceiling"
  <2>1. i \in pick_lmetric_power_pareto_epsilon_small_coincidence_ceiling(C, cur)
    <3>1. Picks(C, w, k, cur) = pick_lmetric_power_pareto_epsilon_small_coincidence_ceiling(C,
          cur)
      BY <1>13, ZenonT(60) DEF Picks, AdaptivePolicies, IsolatedPolicy, PeakCeilingPolicy, LaggedPolicy
    <3>2. QED BY <3>1
  <2>2. PolicySqueeze(C) = coincidence_ceiling_squeeze(C)
    BY <1>13, ZenonT(60) DEF PolicySqueeze, PeakCeilingPolicy, LaggedPolicy, SmoothedPolicy,
       CoincidenceCeilingPolicies
  <2>3. \A c : PolicyPowerShare(c, C) = (coincidence_ceiling_squeeze(C)) * share_power(c)
    BY <1>13, <2>2, PowerShares DEF PeakCeilingPolicy, LaggedPolicy, SmoothedPolicy
  <2>4. /\ i \in DOMAIN C
        /\ ~Dominates(Shares(C[j], (coincidence_ceiling_squeeze(C)) * share_power(C[j])),
                      Shares(C[i], (coincidence_ceiling_squeeze(C)) * share_power(C[i])))
    BY <2>1, EpsilonSafe, ScoringConstants
      DEF pick_lmetric_power_pareto_epsilon_small_coincidence_ceiling
  <2>5. QED BY <2>3, <2>4
<1>14. CASE policy = "lmetric_power_pareto_epsilon_all_coincidence_ceiling"
  <2>1. i \in pick_lmetric_power_pareto_epsilon_all_coincidence_ceiling(C, cur)
    <3>1. Picks(C, w, k, cur) = pick_lmetric_power_pareto_epsilon_all_coincidence_ceiling(C, cur)
      BY <1>14, ZenonT(60) DEF Picks, AdaptivePolicies, IsolatedPolicy, PeakCeilingPolicy, LaggedPolicy
    <3>2. QED BY <3>1
  <2>2. PolicySqueeze(C) = coincidence_ceiling_squeeze(C)
    BY <1>14, ZenonT(60) DEF PolicySqueeze, PeakCeilingPolicy, LaggedPolicy, SmoothedPolicy,
       CoincidenceCeilingPolicies
  <2>3. \A c : PolicyPowerShare(c, C) = (coincidence_ceiling_squeeze(C)) * share_power(c)
    BY <1>14, <2>2, PowerShares DEF PeakCeilingPolicy, LaggedPolicy, SmoothedPolicy
  <2>4. /\ i \in DOMAIN C
        /\ ~Dominates(Shares(C[j], (coincidence_ceiling_squeeze(C)) * share_power(C[j])),
                      Shares(C[i], (coincidence_ceiling_squeeze(C)) * share_power(C[i])))
    BY <2>1, EpsilonAllSafe
  <2>5. QED BY <2>3, <2>4
<1>15. QED
  BY <1>1, <1>2, <1>3, <1>4, <1>5, <1>6, <1>7, <1>8, <1>9, <1>10, <1>11, <1>12, <1>13, <1>14,
    Zenon
         DEF ParetoSafePolicies

LEMMA LaggedCountType ==
  ASSUME LagInv, policy = LaggedPolicy, NEW e \in Nat
  PROVE  LaggedCount(Append(lagBuffer, e)) \in Nat
<1> DEFINE buffer == Append(lagBuffer, e)
<1>1. buffer \in Seq(Nat) /\ Len(buffer) \in Nat \ {0} BY DEF LagInv
<1> HIDE DEF buffer
<1>2. Head(buffer) \in Nat /\ buffer[Len(buffer)] \in Nat BY <1>1
<1>3. QED BY <1>2 DEF LaggedCount, buffer

(* Whatever the fleet, the capacities, the ceilings and the telemetry: a   *)
(* policy whose docstring in scoring.py claims it never picks a replica    *)
(* that another one dominates on the shares of compute, load and power     *)
(* never does.                                                             *)
THEOREM ParetoSafety == Spec => PickNotDominated
<1> DEFINE A == (Routing /\ policy \in ParetoSafePolicies) =>
       LET v(c) == <<share_compute(c), share_load(c), PolicyPowerShare(c, Offered)>>
       IN  \A j \in Fleet : ~Dominates(v(Offered[j]), v(Picked))
<1>1. Init => Telemetered /\ LagInv
  <2>1. Init => LagInv BY Constants DEF Init, LagInv
  <2>2. Init => Telemetered BY DEF Init, Telemetered
  <2>3. QED BY <2>1, <2>2
<1>2. LagInv /\ LagExact /\ [Next]_vars => LagInv' BY LagNext
<1>3. Telemetered /\ LagInv /\ [Next]_vars => A
  <2> SUFFICES ASSUME Telemetered, LagInv, [Next]_vars, Routing, policy \in ParetoSafePolicies,
                      NEW j \in Fleet
               PROVE  ~Dominates(Shares(Offered[j], PolicyPowerShare(Offered[j], Offered)),
                                 Shares(Picked, PolicyPowerShare(Picked, Offered)))
    BY DEF Shares
  <2>1. PICK p \in Prompts : route(p)
    BY DEF Routing, Next, complete, PowerPoll, Scrape, history, vars
  <2> DEFINE C == _build_candidates(p, Observed)
             buffer == Append(lagBuffer, elevated_count(C))
             k == IF policy = LaggedPolicy THEN Squeeze(LaggedCount(buffer)) ELSE 1
  <2>2. PICK i \in Picks(C, IsWhale(p), k, tieCursor) :
          /\ last'.replica = i /\ last'.prompt = p /\ last'.squeeze = k
    BY <2>1 DEF route
  <2>3. k \in Nat
    <3>1. elevated_count(C) \in Nat BY CandidatesAre
    <3>2. QED BY <3>1, LaggedCountType, SqueezeType
  <2>4. Typed(C)
    <3>1. policy \notin AdaptivePolicies
      BY DEF ParetoSafePolicies, AdaptivePolicies, IsolatedPolicy, PeakCeilingPolicy, LaggedPolicy, SmoothedPolicy
    <3>2. QED BY <3>1, OfferedTyped
  <2>5. Offered = C BY <2>2 DEF Offered
  <2>6. DOMAIN C = Fleet BY CandidatesAre
  <2> HIDE DEF C, k
  <2>7. ~Dominates(Shares(C[j], PolicyPowerShare(C[j], C)),
                   Shares(C[i], PolicyPowerShare(C[i], C)))
    BY <2>2, <2>3, <2>4, <2>6, PickSafe
  <2>8. Picked = C[i] BY <2>2, <2>5 DEF Picked
  <2>9. QED BY <2>5, <2>7, <2>8
<1> HIDE DEF A
<1>4. QED
  <2>1. Spec => []LagExact BY LagIsExact
  <2>2. Spec => [][A]_vars
    BY <1>1, <1>2, <1>3, <2>1, TelemeteredStep, PTL DEF Spec
  <2>3. [][A]_vars <=> PickNotDominated BY DEF A, PickNotDominated
  <2>4. QED BY <2>2, <2>3, PTL

-----------------------------------------------------------------------------
(* The type of the router: a round keeps every reading where it was, and   *)
(* every policy picks in the fleet.                                        *)

(* Every picker of a score picks among the candidates.                     *)
LEMMA LeastPicks ==
  ASSUME NEW C, NEW w, NEW start, NEW k
  PROVE  /\ pick_lmetric(C, start) \subseteq DOMAIN C
         /\ pick_drf(C, start) \subseteq DOMAIN C
         /\ pick_compute_only(C, start) \subseteq DOMAIN C
         /\ pick_load_only(C, start) \subseteq DOMAIN C
         /\ pick_lmetric_power(C, start) \subseteq DOMAIN C
         /\ pick_lmetric_power_convex(C, start) \subseteq DOMAIN C
         /\ pick_lmetric_power_pareto(C, start) \subseteq DOMAIN C
         /\ pick_weighted_sum(C, start) \subseteq DOMAIN C
         /\ pick_weighted_sum_no_power(C, start) \subseteq DOMAIN C
         /\ pick_drf_no_power(C, start) \subseteq DOMAIN C
         /\ pick_drf_coincidence_tiebreak(C, start) \subseteq DOMAIN C
         /\ pick_drf_power_tiebreak(C, start) \subseteq DOMAIN C
         /\ pick_drf_peak_power_tiebreak(C, start) \subseteq DOMAIN C
         /\ pick_drf_power_tiebreak_full(C, start) \subseteq DOMAIN C
         /\ pick_drf_peak_power_tiebreak_full(C, start) \subseteq DOMAIN C
         /\ pick_constrained_lmetric(C, start) \subseteq DOMAIN C
         /\ pick_pressure_switch(C, start) \subseteq DOMAIN C
         /\ pick_whale_argmin(C, w, start) \subseteq DOMAIN C
         /\ pick_whale_argmin_power_switch(C, w, start) \subseteq DOMAIN C
BY DEF LeastAmong, Least, pick_lmetric, pick_drf, pick_compute_only, pick_load_only,
       pick_lmetric_power, pick_lmetric_power_convex, pick_lmetric_power_pareto,
       pick_weighted_sum, pick_weighted_sum_no_power, pick_drf_no_power,
       pick_drf_coincidence_tiebreak, pick_drf_power_tiebreak, pick_drf_peak_power_tiebreak,
       pick_drf_power_tiebreak_full, pick_drf_peak_power_tiebreak_full,
       pick_constrained_lmetric, pick_pressure_switch, pick_whale_argmin,
       pick_whale_argmin_power_switch

(* So do those with a squeezed ceiling ...                                 *)
LEMMA CeilingPicks ==
  ASSUME NEW C, NEW start, NEW k
  PROVE  /\ pick_drf_power_tiebreak_full_coincidence_ceiling_with_factor(C, k, start) \subseteq DOMAIN C
         /\ pick_drf_power_tiebreak_full_coincidence_ceiling(C, start) \subseteq DOMAIN C
         /\ pick_drf_peak_power_tiebreak_full_coincidence_ceiling(C, start) \subseteq DOMAIN C
         /\ pick_drf_power_tiebreak_full_coincidence_ceiling_smoothed_ramp(C, start) \subseteq DOMAIN C
         /\ pick_drf_power_tiebreak_full_coincidence_ceiling_random_power(C, start) \subseteq DOMAIN C
         /\ pick_weighted_sum_coincidence_ceiling(C, start) \subseteq DOMAIN C
         /\ pick_lmetric_power_coincidence_ceiling(C, start) \subseteq DOMAIN C
         /\ pick_lmetric_power_pareto_coincidence_ceiling(C, start) \subseteq DOMAIN C
         /\ pick_lmetric_power_pareto_epsilon_coincidence_ceiling(C, start) \subseteq DOMAIN C
         /\ pick_lmetric_power_pareto_epsilon_small_coincidence_ceiling(C, start) \subseteq DOMAIN C
         /\ pick_lmetric_power_pareto_epsilon_zero_coincidence_ceiling(C, start) \subseteq DOMAIN C
         /\ pick_lmetric_power_pareto_epsilon_all_coincidence_ceiling(C, start) \subseteq DOMAIN C
BY DEF LeastAmong, Least, EpsilonPick,
       pick_drf_power_tiebreak_full_coincidence_ceiling_with_factor,
       pick_drf_power_tiebreak_full_coincidence_ceiling,
       pick_drf_peak_power_tiebreak_full_coincidence_ceiling,
       pick_drf_power_tiebreak_full_coincidence_ceiling_smoothed_ramp,
       pick_drf_power_tiebreak_full_coincidence_ceiling_random_power,
       pick_weighted_sum_coincidence_ceiling, pick_lmetric_power_coincidence_ceiling,
       pick_lmetric_power_pareto_coincidence_ceiling,
       pick_lmetric_power_pareto_epsilon_coincidence_ceiling,
       pick_lmetric_power_pareto_epsilon_small_coincidence_ceiling,
       pick_lmetric_power_pareto_epsilon_zero_coincidence_ceiling,
       pick_lmetric_power_pareto_epsilon_all_coincidence_ceiling

(* ... and the rest: the round robin and the two that draw a pair.         *)
LEMMA OtherPicks ==
  ASSUME NEW C, NEW n \in Nat \ {0}, DOMAIN C = 1..n, Len(C) = n, NEW r \in Int, NEW w, NEW start
  PROVE  /\ pick_round_robin(C, r) \subseteq DOMAIN C
         /\ pick_drf_power_tiebreak_p2c(C) \subseteq DOMAIN C
         /\ pick_p2c_whale(C, w, start) \subseteq DOMAIN C
<1>1. pick_round_robin(C, r) \subseteq DOMAIN C
  <2>1. (r + 1) % n \in 0..(n - 1) OBVIOUS
  <2>2. ((r + 1) % n) + 1 \in 1..n BY <2>1
  <2>3. QED BY <2>2 DEF pick_round_robin
<1>2. Len(C) = 1 => {1} \subseteq DOMAIN C OBVIOUS
<1>3. pick_drf_power_tiebreak_p2c(C) \subseteq DOMAIN C
  BY <1>2 DEF pick_drf_power_tiebreak_p2c, PowerOfTwo
<1>4. pick_p2c_whale(C, w, start) \subseteq DOMAIN C
  BY <1>2, LeastPicks DEF pick_p2c_whale, PowerOfTwo
<1>5. QED BY <1>1, <1>3, <1>4

(* Every policy of the router picks a replica of its fleet.                *)
LEMMA PicksInFleet ==
  ASSUME NEW C, NEW n \in Nat \ {0}, DOMAIN C = 1..n, Len(C) = n, rrIndex \in Int,
         policy \in Policies, NEW w, NEW k, NEW start
  PROVE  Picks(C, w, k, start) \subseteq DOMAIN C
BY LeastPicks, CeilingPicks, OtherPicks, ZenonT(120)
   DEF Picks, Policies, CoincidenceCeilingPolicies, AdaptivePolicies, IsolatedPolicy, PeakCeilingPolicy,
       LaggedPolicy

LEMMA ElevatedCountType ==
  ASSUME NEW p, NEW w
  PROVE  elevated_count(_build_candidates(p, w)) \in 0..N
<1> DEFINE C == _build_candidates(p, w)
           E == {i \in DOMAIN C : Elevated(share_power(C[i]))}
<1>1. DOMAIN C = Fleet BY DEF _build_candidates
<1> HIDE DEF C
<1>2. E \subseteq Fleet BY <1>1
<1> HIDE DEF E
<1>3. Cardinality(Fleet) = N BY FS_Interval, Constants DEF Fleet
<1>4. IsFiniteSet(E) /\ Cardinality(E) <= N BY <1>2, <1>3, FleetFinite, FS_Subset
<1>5. Cardinality(E) \in 0..N BY <1>4, FS_CardinalityType, Constants
<1>6. QED BY <1>5 DEF elevated_count, C, E

(* Appending to the window keeps it a window, whatever it drops.           *)
LEMMA KeepType ==
  ASSUME NEW w \in Seq(Nat)
  PROVE  Keep(w) \in Seq(Nat)
<1>1. CASE Len(w) > WindowSize
  <2>1. WindowSize \in Nat \ {0} BY RouterCoreAssumption
  <2>2. Len(w) - WindowSize + 1 \in 1..(Len(w) + 1) /\ Len(w) \in Nat BY <1>1, <2>1
  <2>3. SubSeq(w, Len(w) - WindowSize + 1, Len(w)) \in Seq(Nat) BY <2>2, SubSeqProperties
  <2>4. QED BY <1>1, <2>3 DEF Keep
<1>2. CASE ~(Len(w) > WindowSize) BY <1>2 DEF Keep
<1>3. QED BY <1>1, <1>2

LEMMA ObserveType ==
  ASSUME NEW w \in Seq(Nat), NEW rates \in [Fleet -> Int]
  PROVE  observe(w, rates) \in Seq(Nat) /\ observe_round(w, rates) \in Seq(Nat)
<1> DEFINE r == [i \in Fleet |-> NonNegative(rates[i])]
<1>1. \A i \in Fleet : NonNegative(rates[i]) \in Nat BY Positive
<1>2. r \in [1..N -> Nat] BY <1>1 DEF Fleet
<1>3. r \in Seq(Nat) BY <1>2, Constants
<1> HIDE DEF r
<1>4. w \o r \in Seq(Nat) BY <1>3
<1>5. observe(w, rates) \in Seq(Nat) BY <1>4, KeepType DEF observe, r
<1>6. QED BY <1>5 DEF observe_round

LEMMA ObservedType ==
  ASSUME window \in Seq(Nat), ramp \in [Fleet -> Int]
  PROVE  Observed \in Seq(Nat)
<1>1. observe(window, ramp) \in Seq(Nat) /\ observe_round(window, ramp) \in Seq(Nat)
  BY ObserveType
<1>2. QED BY <1>1, ZenonT(60) DEF Observed

(* What a decision leaves behind has its type.                             *)
LEMMA DecisionTypes ==
  ASSUME TypeOK, policy \in Policies, NEW p \in Prompts, route(p)
  PROVE  /\ rrIndex' \in -1..(N - 1) /\ tieCursor' \in 0..(N - 1)
         /\ rounds' \in Seq([Fleet -> Int])
         /\ lagBuffer' \in Seq(0..N) /\ elevations' \in Seq(0..N)
         /\ last' \in Decision
         /\ cached' \in [Fleet -> SUBSET (UNION {block_hashes(q) : q \in Prompts})]
<1> DEFINE C == _build_candidates(p, Observed)
           e == elevated_count(C)
           buffer == Append(lagBuffer, e)
           k == IF policy = LaggedPolicy THEN Squeeze(LaggedCount(buffer)) ELSE 1
           picks(c) == Picks(C, IsWhale(p), k, c)
<1>1. PICK i \in picks(tieCursor) :
        /\ last' = [replica |-> i, prompt |-> p, squeeze |-> k,
                     tied |-> \A j \in Fleet : j \in picks(j - 1),
                     avoidable |-> AvoidableThresholdViolation(C, i, AuditSqueeze(C, k))]
        /\ OnDispatch(p, i)
        /\ IF policy = "round_robin" THEN rrIndex' = i - 1 ELSE UNCHANGED rrIndex
        /\ tieCursor' = IF policy \in {"round_robin", "drf_power_tiebreak_p2c"}
                          THEN tieCursor ELSE NextCursor(tieCursor)
        /\ IF policy = LaggedPolicy
             THEN /\ lagBuffer' = IF LagIsFull(buffer) THEN Tail(buffer) ELSE buffer
                  /\ elevations' = Append(elevations, e)
             ELSE UNCHANGED <<lagBuffer, elevations>>
  BY DEF route
<1>2. e \in 0..N BY ElevatedCountType
<1>3. DOMAIN C = 1..N /\ Len(C) = N
  <2>1. DOMAIN C = 1..N BY DEF _build_candidates, Fleet
  <2>2. Len(C) = N BY Constants DEF _build_candidates, Fleet
  <2>3. QED BY <2>1, <2>2
<1>4. rrIndex \in Int /\ tieCursor \in 0..(N - 1) /\ lagBuffer \in Seq(0..N)
      /\ elevations \in Seq(0..N)
      /\ cached \in [Fleet -> SUBSET (UNION {block_hashes(q) : q \in Prompts})]
  BY Constants DEF TypeOK
<1> HIDE DEF C, e
<1>5. picks(tieCursor) \subseteq 1..N BY <1>3, <1>4, PicksInFleet, Constants
<1>6. i \in 1..N BY <1>1, <1>5
<1>7. buffer \in Seq(0..N) /\ Len(buffer) > 0 BY <1>2, <1>4
<1> HIDE DEF buffer
<1>8. rrIndex' \in -1..(N - 1)
  <2>1. i - 1 \in -1..(N - 1) BY <1>6, Constants
  <2>2. rrIndex \in -1..(N - 1) BY DEF TypeOK
  <2>3. QED BY <1>1, <2>1, <2>2
<1>9. tieCursor' \in 0..(N - 1)
  <2>1. (tieCursor + 1) % N \in 0..(N - 1) BY <1>4, Constants
  <2>2. QED BY <1>1, <1>4, <2>1 DEF NextCursor
<1>10. lagBuffer' \in Seq(0..N)
  <2>1. Tail(buffer) \in Seq(0..N) BY <1>7
  <2>2. QED BY <1>1, <1>4, <1>7, <2>1
<1>11. elevations' \in Seq(0..N)
  <2>1. Append(elevations, e) \in Seq(0..N) BY <1>2, <1>4
  <2>2. QED BY <1>1, <1>4, <2>1
<1>12. k \in Nat \ {0}
  <2>1. Head(buffer) \in 0..N /\ buffer[Len(buffer)] \in 0..N
    <3> DEFINE S == 0..N
    <3>1. buffer \in Seq(S) /\ Len(buffer) > 0 BY <1>7
    <3> HIDE DEF S
    <3>2. Head(buffer) \in S /\ buffer[Len(buffer)] \in S BY <3>1
    <3>3. QED BY <3>2 DEF S
  <2>2. LaggedCount(buffer) \in Nat BY <2>1, Constants DEF LaggedCount
  <2>3. Squeeze(LaggedCount(buffer)) \in Nat \ {0} BY <2>2, SqueezeType
  <2>4. QED BY <2>3
<1> HIDE DEF k, picks
<1>13. last' \in Decision
  <2>1. (\A j \in Fleet : j \in picks(j - 1)) \in BOOLEAN OBVIOUS
  <2>2. AvoidableThresholdViolation(C, i, AuditSqueeze(C, k)) \in BOOLEAN
    BY DEF AvoidableThresholdViolation
  <2>3. i \in Fleet BY <1>6 DEF Fleet
  <2>4. QED BY <1>1, <1>12, <2>1, <2>2, <2>3 DEF Decision
<1>14. cached' \in [Fleet -> SUBSET (UNION {block_hashes(q) : q \in Prompts})]
  <2> DEFINE H == UNION {block_hashes(q) : q \in Prompts}
  <2>1. cached' = [cached EXCEPT ![i] = record_cached(p, cached[i])] BY <1>1 DEF OnDispatch
  <2>2. block_hashes(p) \subseteq H OBVIOUS
  <2>3. i \in Fleet BY <1>6 DEF Fleet
  <2> HIDE DEF H
  <2>4. cached \in [Fleet -> SUBSET H] BY <1>4 DEF H
  <2>5. record_cached(p, cached[i]) \in SUBSET H BY <2>2, <2>3, <2>4 DEF record_cached
  <2>6. cached' \in [Fleet -> SUBSET H] BY <2>1, <2>3, <2>4, <2>5
  <2>7. QED BY <2>6 DEF H
<1>15. rounds' \in Seq([Fleet -> Int])
  <2>1. rounds \in Seq([Fleet -> Int]) /\ ramp \in [Fleet -> Int] BY DEF TypeOK
  <2>2. rounds' = IF policy = IsolatedPolicy THEN Append(rounds, ramp) ELSE rounds BY DEF route
  <2> DEFINE R == [Fleet -> Int]
  <2>3. rounds \in Seq(R) /\ ramp \in R BY <2>1
  <2> HIDE DEF R
  <2>4. rounds' \in Seq(R) BY <2>2, <2>3
  <2>5. QED BY <2>4 DEF R
<1>16. QED BY <1>8, <1>9, <1>10, <1>11, <1>13, <1>14, <1>15

LEMMA TypeStep == TypeOK /\ [Next]_vars => TypeOK'
<1> SUFFICES ASSUME TypeOK, [Next]_vars PROVE TypeOK'
  OBVIOUS
<1>0. Telemetered /\ Telemetered'
  <2>1. Telemetered BY DEF TypeOK, Telemetered
  <2>2. QED BY <2>1, TelemeteredStep
<1>p. policy \in Policies BY SetupAssumption DEF TypeOK
<1>1. ASSUME NEW p \in Prompts, route(p) PROVE TypeOK'
  <2>1. /\ rrIndex' \in -1..(N - 1) /\ tieCursor' \in 0..(N - 1)
        /\ rounds' \in Seq([Fleet -> Int])
        /\ lagBuffer' \in Seq(0..N) /\ elevations' \in Seq(0..N)
        /\ last' \in Decision
        /\ cached' \in [Fleet -> SUBSET (UNION {block_hashes(q) : q \in Prompts})]
    BY <1>p, <1>1, DecisionTypes
  <2>2. window' \in Seq(Nat) BY <1>1, ObservedType DEF TypeOK, route
  <2>3. decisions' \in 0..MaxDecisions[policy]
    <3>1. decisions \in 0..MaxDecisions[policy] BY DEF TypeOK
    <3>2. decisions < MaxDecisions[policy] /\ decisions' = decisions + 1 BY <1>1 DEF route
    <3>3. MaxDecisions[policy] \in Nat BY <1>p, SetupAssumption
    <3>4. QED BY <3>1, <3>2, <3>3
  <2>4. UNCHANGED <<policy, bsSource, sampled, polling, polls>>
    BY <1>1 DEF route, choice, telemetry
  <2>5. QED BY <1>0, <2>1, <2>2, <2>3, <2>4 DEF TypeOK, Telemetered
<1>2. ASSUME NEW i \in Fleet, NEW is_whale, complete(i, is_whale) PROVE TypeOK'
  <2>1. UNCHANGED <<policy, bsSource, rrIndex, tieCursor, lagBuffer, window, cached, sampled,
                    polling, last, decisions, polls, elevations, rounds>>
    BY <1>2 DEF complete, choice, cursors, telemetry, history
  <2>2. QED BY <1>0, <2>1 DEF TypeOK, Telemetered
<1>3. ASSUME NEW reading \in [Fleet -> PowerLevels], NEW dt \in Gaps, NEW upto \in 0..N,
             PowerPoll(reading, dt, upto)
      PROVE  TypeOK'
  <2>1. UNCHANGED <<policy, bsSource, rrIndex, tieCursor, lagBuffer, window, cached, last,
                    decisions, elevations, rounds>>
    BY <1>3 DEF PowerPoll, choice, cursors, trackers
  <2>2. polling' \in BOOLEAN BY <1>3 DEF PowerPoll
  <2>3. polls' \in 0..MaxPolls[policy]
    <3>1. MaxPolls[policy] \in Nat BY <1>p, SetupAssumption
    <3>2. polls \in 0..MaxPolls[policy] BY DEF TypeOK
    <3>3. polls < MaxPolls[policy] /\ polls' = polls + 1 BY <1>3 DEF PowerPoll
    <3>4. QED BY <3>1, <3>2, <3>3
  <2>4. sampled' \in [Fleet -> BOOLEAN]
    <3>1. sampled' = [i \in Fleet |-> i \in 1..upto \/ sampled[i]]
      BY <1>3 DEF PowerPoll, update_ramp_state
    <3>2. \A i \in Fleet : (i \in 1..upto \/ sampled[i]) \in BOOLEAN OBVIOUS
    <3>3. QED BY <3>1, <3>2, Zenon
  <2>5. QED BY <1>0, <2>1, <2>2, <2>3, <2>4 DEF TypeOK, Telemetered
<1>4. ASSUME NEW i, NEW lines, Scrape(i, lines) PROVE TypeOK'
  <2>1. UNCHANGED <<policy, bsSource, rrIndex, tieCursor, lagBuffer, window, cached, sampled,
                    polling, last, decisions, polls, elevations, rounds>>
    BY <1>4 DEF Scrape, choice, cursors, trackers, history
  <2>2. QED BY <1>0, <2>1 DEF TypeOK, Telemetered
<1>5. UNCHANGED vars => TypeOK'
  BY DEF TypeOK, vars, choice, cursors, trackers, telemetry, history
<1>6. QED BY <1>1, <1>2, <1>3, <1>4, <1>5 DEF Next

(* Whatever is routed, completed, polled and scraped, the state keeps its  *)
(* type: every policy of router_core.py picks a replica of the fleet, the  *)
(* cursors stay inside it, no counter of the trackers goes below zero and  *)
(* the mirrors hold nothing but blocks of prompts that arrived.            *)
THEOREM RouterTypeOK == Spec => []TypeOK
<1>1. Init => TypeOK
  <2> SUFFICES ASSUME Init PROVE TypeOK
    OBVIOUS
  <2>1. <<policy, bsSource>> \in Setups
    <3>1. PICK s \in Setups : policy = s[1] /\ bsSource = s[2] BY DEF Init
    <3>2. s \in Policies \X {"local", "telemetry"} BY SetupAssumption
    <3>3. s = <<s[1], s[2]>> BY <3>2
    <3>4. QED BY <3>1, <3>3
  <2>2. rrIndex \in -1..(N - 1) /\ tieCursor \in 0..(N - 1) BY Constants DEF Init
  <2>3. lagBuffer \in Seq(0..N) /\ elevations \in Seq(0..N) /\ window \in Seq(Nat)
        /\ rounds \in Seq([Fleet -> Int])
    BY DEF Init
  <2>4. decisions \in 0..MaxDecisions[policy] /\ polls \in 0..MaxPolls[policy]
    <3>1. policy \in Policies BY <2>1, SetupAssumption
    <3>2. MaxDecisions[policy] \in Nat /\ MaxPolls[policy] \in Nat BY <3>1, SetupAssumption
    <3>3. QED BY <3>2 DEF Init
  <2>5. cached \in [Fleet -> SUBSET (UNION {block_hashes(p) : p \in Prompts})]
    BY DEF Init
  <2>6. QED BY <2>1, <2>2, <2>3, <2>4, <2>5 DEF Init, TypeOK
<1>2. QED BY <1>1, TypeStep, PTL DEF Spec

-----------------------------------------------------------------------------
(* The threshold.                                                          *)

(* A score that min keeps has no larger first coordinate than another.     *)
LEMMA FirstKept ==
  ASSUME NEW i, NEW j, NEW s, NEW t, Kept(i, j, s, t), i = j => s = t,
         Len(s) \in Nat \ {0}, Len(t) \in Nat \ {0}, s[1] \in Int, t[1] \in Int
  PROVE  s[1] <= t[1]
<1> SUFFICES ASSUME t[1] < s[1] PROVE FALSE
  OBVIOUS
<1>1. LexLess(t, s)
  <2>1. 1 \in 1..Len(t) /\ 1..(1 - 1) = {} OBVIOUS
  <2>2. QED BY <2>1 DEF LexLess
<1>2. LexLess(s, t) BY <1>1 DEF Kept, NoBetter
<1>3. PICK k \in 1..Len(s) : s[k] < t[k] /\ \A m \in 1..(k - 1) : s[m] = t[m]
  BY <1>2 DEF LexLess
<1>4. k # 1 BY <1>3
<1>5. 1 \in 1..(k - 1) BY <1>4
<1>6. QED BY <1>3, <1>5

(* What a policy whose score begins with the dominant share promises for   *)
(* the power shares p and q of the candidates it kept and passed over.     *)
LEMMA DominantType ==
  ASSUME NEW c \in Candidate, NEW p \in Nat
  PROVE  DominantShare(c, p) \in Int
<1>1. share_compute(c) \in Int /\ share_load(c) \in Int /\ p \in Int BY ShareTypes
<1>2. DominantShare(c, p) \in {share_compute(c), share_load(c), p}
  BY <1>1, MaxOfThree DEF DominantShare
<1>3. QED BY <1>1, <1>2

LEMMA NotMoreDominant ==
  ASSUME NEW C, Typed(C), NEW i \in DOMAIN C, NEW j \in DOMAIN C,
         NEW p \in Nat, NEW q \in Nat, NEW s, NEW t, Kept(i, j, s, t), i = j => s = t,
         Len(s) \in Nat \ {0}, Len(t) \in Nat \ {0},
         s[1] = DominantShare(C[i], p), t[1] = DominantShare(C[j], q)
  PROVE  DominantShare(C[i], p) <= DominantShare(C[j], q)
<1>1. C[i] \in Candidate /\ C[j] \in Candidate BY DEF Typed
<1>2. s[1] \in Int /\ t[1] \in Int BY <1>1, DominantType
<1>3. s[1] <= t[1] BY <1>2, FirstKept
<1>4. QED BY <1>3

LEMMA FirstOfFull ==
  ASSUME NEW c, NEW p
  PROVE  FullVector(c, p)[1] = DominantShare(c, p) /\ Len(FullVector(c, p)) = 4
BY DEF FullVector

LEMMA FullDominant ==
  ASSUME NEW C, Typed(C), NEW i \in DOMAIN C, NEW j \in DOMAIN C,
         NEW p \in Nat, NEW q \in Nat, i = j => p = q,
         Kept(i, j, FullVector(C[i], p), FullVector(C[j], q))
  PROVE  DominantShare(C[i], p) <= DominantShare(C[j], q)
<1> DEFINE s == FullVector(C[i], p)
           t == FullVector(C[j], q)
<1>1. /\ s[1] = DominantShare(C[i], p) /\ t[1] = DominantShare(C[j], q)
      /\ Len(s) = 4 /\ Len(t) = 4
  BY FirstOfFull
<1>2. Kept(i, j, s, t) /\ (i = j => s = t) OBVIOUS
<1> HIDE DEF s, t
<1>3. QED BY <1>1, <1>2, NotMoreDominant

(* The dominant share with power share p is first of the three- and of the *)
(* one-coordinate scores too.                                              *)
LEMMA TupleDominant ==
  ASSUME NEW C, Typed(C), NEW i \in DOMAIN C, NEW j \in DOMAIN C,
         NEW p \in Nat, NEW q \in Nat, NEW a, NEW b, NEW x, NEW y,
         i = j => p = q /\ a = x /\ b = y,
         Kept(i, j, <<DominantShare(C[i], p), a, b>>, <<DominantShare(C[j], q), x, y>>)
  PROVE  DominantShare(C[i], p) <= DominantShare(C[j], q)
<1> DEFINE s == <<DominantShare(C[i], p), a, b>>
           t == <<DominantShare(C[j], q), x, y>>
<1>1. /\ s[1] = DominantShare(C[i], p) /\ t[1] = DominantShare(C[j], q)
      /\ Len(s) = 3 /\ Len(t) = 3
  OBVIOUS
<1>2. Kept(i, j, s, t) /\ (i = j => s = t) OBVIOUS
<1> HIDE DEF s, t
<1>3. QED BY <1>1, <1>2, NotMoreDominant

LEMMA ScalarDominant ==
  ASSUME NEW C, Typed(C), NEW i \in DOMAIN C, NEW j \in DOMAIN C,
         NEW p \in Nat, NEW q \in Nat, i = j => p = q,
         NoBetter(<<DominantShare(C[j], q)>>, <<DominantShare(C[i], p)>>)
  PROVE  DominantShare(C[i], p) <= DominantShare(C[j], q)
<1> DEFINE s == <<DominantShare(C[i], p)>>
           t == <<DominantShare(C[j], q)>>
<1>1. /\ s[1] = DominantShare(C[i], p) /\ t[1] = DominantShare(C[j], q)
      /\ Len(s) = 1 /\ Len(t) = 1
  OBVIOUS
<1>2. Kept(i, j, s, t) /\ (i = j => s = t) BY DEF Kept
<1> HIDE DEF s, t
<1>3. QED BY <1>1, <1>2, NotMoreDominant

-----------------------------------------------------------------------------
(* The pickers that minimise a dominant share, with its power share.       *)

NoMoreDominant(C, i, j, P(_)) ==
  DominantShare(C[i], P(C[i])) <= DominantShare(C[j], P(C[j]))

LEMMA DrfDominant ==
  ASSUME NEW C, Typed(C), NEW start, NEW j \in DOMAIN C
  PROVE  /\ \A i \in pick_drf(C, start) : NoMoreDominant(C, i, j, share_power)
         /\ \A i \in pick_drf_power_tiebreak(C, start) : NoMoreDominant(C, i, j, share_power)
         /\ \A i \in pick_drf_peak_power_tiebreak(C, start) :
              NoMoreDominant(C, i, j, share_power_level)
<1>0. \A x \in DOMAIN C : share_power(C[x]) \in Nat /\ share_power_level(C[x]) \in Nat
  BY ShareTypes DEF Typed
<1>1. ASSUME NEW i \in pick_drf(C, start) PROVE NoMoreDominant(C, i, j, share_power)
  <2>1. i \in DOMAIN C /\ Kept(i, j, dominant_share_vector(C[i]), dominant_share_vector(C[j]))
    BY DEF pick_drf, Least, LeastAmong, Kept
  <2>2. \A c : \E a, b : dominant_share_vector(c) = <<DominantShare(c, share_power(c)), a, b>>
    BY DEF dominant_share_vector, Descending3, DominantShare
  <2>3. PICK a, b : dominant_share_vector(C[i])
                      = <<DominantShare(C[i], share_power(C[i])), a, b>>
    BY <2>2
  <2>4. PICK x, y : dominant_share_vector(C[j])
                      = <<DominantShare(C[j], share_power(C[j])), x, y>>
    BY <2>2
  <2>5. i = j => a = x /\ b = y BY <2>3, <2>4
  <2>6. QED BY <1>0, <2>1, <2>3, <2>4, <2>5, TupleDominant DEF NoMoreDominant
<1>2. ASSUME NEW i \in pick_drf_power_tiebreak(C, start)
      PROVE NoMoreDominant(C, i, j, share_power)
  <2>1. i \in DOMAIN C
        /\ Kept(i, j, <<DominantShare(C[i], share_power(C[i])), share_power(C[i]), share_load(C[i])>>,
                      <<DominantShare(C[j], share_power(C[j])), share_power(C[j]), share_load(C[j])>>)
    BY DEF pick_drf_power_tiebreak, dominant_share_vector_power_priority, dominant_share,
           Least, LeastAmong, Kept
  <2>2. QED BY <1>0, <2>1, TupleDominant DEF NoMoreDominant
<1>3. ASSUME NEW i \in pick_drf_peak_power_tiebreak(C, start)
      PROVE NoMoreDominant(C, i, j, share_power_level)
  <2>1. i \in DOMAIN C
        /\ Kept(i, j, <<DominantShare(C[i], share_power_level(C[i])), share_power_level(C[i]), share_load(C[i])>>,
                      <<DominantShare(C[j], share_power_level(C[j])), share_power_level(C[j]), share_load(C[j])>>)
    BY DEF pick_drf_peak_power_tiebreak, dominant_share_vector_peak_priority, dominant_share_peak,
           Least, LeastAmong, Kept
  <2>2. QED BY <1>0, <2>1, TupleDominant DEF NoMoreDominant
<1>4. QED BY <1>1, <1>2, <1>3

(* The full tie-break, for a power share P(c) squeezed k times.            *)
LEMMA FullFactorDominant ==
  ASSUME NEW C, Typed(C), NEW start, NEW k \in Nat, NEW j \in DOMAIN C,
         NEW i \in pick_drf_power_tiebreak_full_coincidence_ceiling_with_factor(C, k, start)
  PROVE  NoMoreDominant(C, i, j, LAMBDA c : k * share_power(c))
<1>1. i \in DOMAIN C /\ Kept(i, j,
      FullVector(C[i], k * share_power(C[i])), FullVector(C[j], k * share_power(C[j])))
  BY DEF pick_drf_power_tiebreak_full_coincidence_ceiling_with_factor,
         dominant_share_vector_power_priority_full_coincidence_ceiling, Least, LeastAmong, Kept
<1>2. k * share_power(C[i]) \in Nat /\ k * share_power(C[j]) \in Nat
  BY <1>1, ShareTypes, ProductType DEF Typed
<1>3. QED BY <1>1, <1>2, FullDominant DEF NoMoreDominant

LEMMA FullPlainDominant ==
  ASSUME NEW C, Typed(C), NEW start, NEW j \in DOMAIN C
  PROVE  /\ \A i \in pick_drf_power_tiebreak_full(C, start) : NoMoreDominant(C, i, j, share_power)
         /\ \A i \in pick_drf_peak_power_tiebreak_full(C, start) :
              NoMoreDominant(C, i, j, share_power_level)
<1>0. \A x \in DOMAIN C : share_power(C[x]) \in Nat /\ share_power_level(C[x]) \in Nat
  BY ShareTypes DEF Typed
<1>1. ASSUME NEW i \in pick_drf_power_tiebreak_full(C, start)
      PROVE NoMoreDominant(C, i, j, share_power)
  <2>1. i \in DOMAIN C /\ Kept(i, j,
        FullVector(C[i], share_power(C[i])), FullVector(C[j], share_power(C[j])))
    BY DEF pick_drf_power_tiebreak_full, dominant_share_vector_power_priority_full,
           Least, LeastAmong, Kept
  <2>2. QED BY <1>0, <2>1, FullDominant DEF NoMoreDominant
<1>2. ASSUME NEW i \in pick_drf_peak_power_tiebreak_full(C, start)
      PROVE NoMoreDominant(C, i, j, share_power_level)
  <2>1. i \in DOMAIN C /\ Kept(i, j,
        FullVector(C[i], share_power_level(C[i])), FullVector(C[j], share_power_level(C[j])))
    BY DEF pick_drf_peak_power_tiebreak_full, dominant_share_vector_peak_priority_full,
           Least, LeastAmong, Kept
  <2>2. QED BY <1>0, <2>1, FullDominant DEF NoMoreDominant
<1>3. QED BY <1>1, <1>2

LEMMA PeakCeilingDominant ==
  ASSUME NEW C, Typed(C), NEW start, NEW j \in DOMAIN C,
         NEW i \in pick_drf_peak_power_tiebreak_full_coincidence_ceiling(C, start)
  PROVE  NoMoreDominant(C, i, j,
           LAMBDA c : coincidence_ceiling_squeeze_peak(C) * share_power_level(c))
<1> DEFINE k == coincidence_ceiling_squeeze_peak(C)
<1>0. k \in Nat BY SqueezeTypes DEF Typed
<1>1. i \in DOMAIN C /\ Kept(i, j,
      FullVector(C[i], k * share_power_level(C[i])), FullVector(C[j], k * share_power_level(C[j])))
  BY DEF pick_drf_peak_power_tiebreak_full_coincidence_ceiling,
         dominant_share_vector_peak_priority_full_coincidence_ceiling, Least, LeastAmong, Kept
<1> HIDE DEF k
<1>2. k * share_power_level(C[i]) \in Nat /\ k * share_power_level(C[j]) \in Nat
  BY <1>0, <1>1, ShareTypes, ProductType DEF Typed
<1>3. DominantShare(C[i], k * share_power_level(C[i]))
        <= DominantShare(C[j], k * share_power_level(C[j]))
  BY <1>1, <1>2, FullDominant
<1>4. QED BY <1>3 DEF NoMoreDominant, k

LEMMA SmoothedDominant ==
  ASSUME NEW C, Typed(C), NEW start, NEW j \in DOMAIN C,
         NEW i \in pick_drf_power_tiebreak_full_coincidence_ceiling_smoothed_ramp(C, start)
  PROVE  NoMoreDominant(C, i, j,
           LAMBDA c : coincidence_ceiling_squeeze_smoothed(C) * share_power_smoothed(c))
<1> DEFINE k == coincidence_ceiling_squeeze_smoothed(C)
<1>0. k \in Nat BY SqueezeTypes DEF Typed
<1>1. i \in DOMAIN C /\ Kept(i, j,
      FullVector(C[i], k * share_power_smoothed(C[i])),
      FullVector(C[j], k * share_power_smoothed(C[j])))
  BY DEF pick_drf_power_tiebreak_full_coincidence_ceiling_smoothed_ramp,
         dominant_share_vector_power_priority_full_coincidence_ceiling_smoothed_ramp,
         Least, LeastAmong, Kept
<1> HIDE DEF k
<1>2. k * share_power_smoothed(C[i]) \in Nat /\ k * share_power_smoothed(C[j]) \in Nat
  BY <1>0, <1>1, ShareTypes, ProductType DEF Typed
<1>3. DominantShare(C[i], k * share_power_smoothed(C[i]))
        <= DominantShare(C[j], k * share_power_smoothed(C[j]))
  BY <1>1, <1>2, FullDominant
<1>4. QED BY <1>3 DEF NoMoreDominant, k

(* The random number only settles ties of the dominant share.              *)
LEMMA RandomDominant ==
  ASSUME NEW C, Typed(C), NEW start, NEW j \in DOMAIN C,
         NEW i \in pick_drf_power_tiebreak_full_coincidence_ceiling_random_power(C, start)
  PROVE  NoMoreDominant(C, i, j, LAMBDA c : coincidence_ceiling_squeeze(C) * share_power(c))
<1> DEFINE k == coincidence_ceiling_squeeze(C)
<1>0. k \in Nat BY SqueezeTypes DEF Typed
<1>1. i \in DOMAIN C
      /\ NoBetter(<<DominantShare(C[j], k * share_power(C[j]))>>,
                  <<DominantShare(C[i], k * share_power(C[i]))>>)
  BY DEF pick_drf_power_tiebreak_full_coincidence_ceiling_random_power, random_tiebreak_score
<1> HIDE DEF k
<1>2. k * share_power(C[i]) \in Nat /\ k * share_power(C[j]) \in Nat
  BY <1>0, <1>1, ShareTypes, ProductType DEF Typed
<1>3. DominantShare(C[i], k * share_power(C[i])) <= DominantShare(C[j], k * share_power(C[j]))
  BY <1>1, <1>2, ScalarDominant
<1>4. QED BY <1>3 DEF NoMoreDominant, k

(* What the policies compare, whichever they are.                          *)
PeakPolicies == {"drf_peak_power_tiebreak", "drf_peak_power_tiebreak_full", PeakCeilingPolicy}

LEMMA PolicyShares ==
  ASSUME NEW c, NEW C
  PROVE  PolicyPowerShare(c, C) = PolicySqueeze(C) *
           (IF policy \in PeakPolicies THEN share_power_level(c)
            ELSE IF policy = SmoothedPolicy THEN share_power_smoothed(c) ELSE share_power(c))
BY ZenonT(60) DEF PolicyPowerShare, PeakCeilingPolicy, SmoothedPolicy, PeakPolicies

LEMMA PolicySqueezes ==
  ASSUME NEW C
  PROVE  /\ policy = PeakCeilingPolicy => PolicySqueeze(C) = coincidence_ceiling_squeeze_peak(C)
         /\ policy = SmoothedPolicy => PolicySqueeze(C) = coincidence_ceiling_squeeze_smoothed(C)
         /\ policy = LaggedPolicy => PolicySqueeze(C) = last'.squeeze
         /\ policy \in CoincidenceCeilingPolicies \ {PeakCeilingPolicy, SmoothedPolicy, LaggedPolicy}
              => PolicySqueeze(C) = coincidence_ceiling_squeeze(C)
         /\ policy \notin CoincidenceCeilingPolicies => PolicySqueeze(C) = 1
BY ZenonT(60) DEF PolicySqueeze, PeakCeilingPolicy, SmoothedPolicy, LaggedPolicy,
   CoincidenceCeilingPolicies

PickedDominant(C, i, j) ==
  DominantShare(C[i], PolicyPowerShare(C[i], C)) <= DominantShare(C[j], PolicyPowerShare(C[j], C))

LEMMA UnsqueezedDominant ==
  ASSUME NEW C, Typed(C), NEW w, NEW k, NEW cur, NEW j \in DOMAIN C, NEW i \in DOMAIN C,
         i \in Picks(C, w, k, cur), policy \in DominantShareFirstPolicies,
         policy \notin CoincidenceCeilingPolicies
  PROVE  PickedDominant(C, i, j)
<1>1. PolicySqueeze(C) = 1 BY PolicySqueezes
<1>2. \A x \in DOMAIN C : 1 * share_power(C[x]) = share_power(C[x])
                       /\ 1 * share_power_level(C[x]) = share_power_level(C[x])
  BY ShareTypes DEF Typed
<1>3. policy # SmoothedPolicy BY DEF CoincidenceCeilingPolicies, SmoothedPolicy
<1>4. \A x \in DOMAIN C : PolicyPowerShare(C[x], C) =
        IF policy \in PeakPolicies THEN share_power_level(C[x]) ELSE share_power(C[x])
  BY <1>1, <1>2, <1>3, PolicyShares
<1>5. CASE policy = "drf"
  <2>1. Picks(C, w, k, cur) = pick_drf(C, cur)
    BY <1>5, ZenonT(60) DEF Picks, AdaptivePolicies, IsolatedPolicy, PeakCeilingPolicy, LaggedPolicy
  <2>2. policy \notin PeakPolicies BY <1>5 DEF PeakPolicies, PeakCeilingPolicy
  <2>3. QED BY <1>4, <2>1, <2>2, DrfDominant DEF PickedDominant, NoMoreDominant
<1>6. CASE policy \in AdaptivePolicies \cup {"drf_power_tiebreak"}
  <2>1. Picks(C, w, k, cur) = pick_drf_power_tiebreak(C, cur)
    BY <1>6, ZenonT(60) DEF Picks, AdaptivePolicies, IsolatedPolicy, PeakCeilingPolicy, LaggedPolicy
  <2>2. policy \notin PeakPolicies BY <1>6 DEF PeakPolicies, PeakCeilingPolicy, AdaptivePolicies, IsolatedPolicy
  <2>3. QED BY <1>4, <2>1, <2>2, DrfDominant DEF PickedDominant, NoMoreDominant
<1>7. CASE policy = "drf_peak_power_tiebreak"
  <2>1. Picks(C, w, k, cur) = pick_drf_peak_power_tiebreak(C, cur)
    BY <1>7, ZenonT(60) DEF Picks, AdaptivePolicies, IsolatedPolicy, PeakCeilingPolicy, LaggedPolicy
  <2>2. policy \in PeakPolicies BY <1>7 DEF PeakPolicies
  <2>3. QED BY <1>4, <2>1, <2>2, DrfDominant DEF PickedDominant, NoMoreDominant
<1>8. CASE policy = "drf_power_tiebreak_full"
  <2>1. Picks(C, w, k, cur) = pick_drf_power_tiebreak_full(C, cur)
    BY <1>8, ZenonT(60) DEF Picks, AdaptivePolicies, IsolatedPolicy, PeakCeilingPolicy, LaggedPolicy
  <2>2. policy \notin PeakPolicies BY <1>8 DEF PeakPolicies, PeakCeilingPolicy
  <2>3. QED BY <1>4, <2>1, <2>2, FullPlainDominant DEF PickedDominant, NoMoreDominant
<1>9. CASE policy = "drf_peak_power_tiebreak_full"
  <2>1. Picks(C, w, k, cur) = pick_drf_peak_power_tiebreak_full(C, cur)
    BY <1>9, ZenonT(60) DEF Picks, AdaptivePolicies, IsolatedPolicy, PeakCeilingPolicy, LaggedPolicy
  <2>2. policy \in PeakPolicies BY <1>9 DEF PeakPolicies
  <2>3. QED BY <1>4, <2>1, <2>2, FullPlainDominant DEF PickedDominant, NoMoreDominant
<1>10. QED
  BY <1>5, <1>6, <1>7, <1>8, <1>9, Zenon
     DEF DominantShareFirstPolicies, CoincidenceCeilingPolicies

LEMMA SqueezedDominant ==
  ASSUME NEW C, Typed(C), NEW w, NEW k \in Nat, NEW cur, NEW j \in DOMAIN C, NEW i \in DOMAIN C,
         i \in Picks(C, w, k, cur), policy \in DominantShareFirstPolicies,
         policy \in CoincidenceCeilingPolicies, policy = LaggedPolicy => last'.squeeze = k
  PROVE  PickedDominant(C, i, j)
<1>0. coincidence_ceiling_squeeze(C) \in Nat BY SqueezeTypes DEF Typed
<1>1. CASE policy = "drf_power_tiebreak_full_coincidence_ceiling"
  <2>1. Picks(C, w, k, cur) = pick_drf_power_tiebreak_full_coincidence_ceiling(C, cur)
    BY <1>1, ZenonT(60) DEF Picks, AdaptivePolicies, IsolatedPolicy, PeakCeilingPolicy, LaggedPolicy
  <2>2. \A c : PolicyPowerShare(c, C) = coincidence_ceiling_squeeze(C) * share_power(c)
    BY <1>1, PolicyShares, PolicySqueezes
       DEF PeakPolicies, PeakCeilingPolicy, SmoothedPolicy, LaggedPolicy, CoincidenceCeilingPolicies
  <2>3. QED
    BY <1>0, <2>1, <2>2, FullFactorDominant
       DEF PickedDominant, NoMoreDominant, pick_drf_power_tiebreak_full_coincidence_ceiling
<1>2. CASE policy = SmoothedPolicy
  <2>1. Picks(C, w, k, cur)
          = pick_drf_power_tiebreak_full_coincidence_ceiling_smoothed_ramp(C, cur)
    BY <1>2, ZenonT(60)
       DEF Picks, AdaptivePolicies, IsolatedPolicy, PeakCeilingPolicy, LaggedPolicy, SmoothedPolicy
  <2>2. \A c : PolicyPowerShare(c, C)
                 = coincidence_ceiling_squeeze_smoothed(C) * share_power_smoothed(c)
    BY <1>2, PolicyShares, PolicySqueezes DEF PeakPolicies, PeakCeilingPolicy, SmoothedPolicy
  <2>3. QED BY <2>1, <2>2, SmoothedDominant DEF PickedDominant, NoMoreDominant
<1>3. CASE policy = "drf_power_tiebreak_full_coincidence_ceiling_random_power"
  <2>1. Picks(C, w, k, cur)
          = pick_drf_power_tiebreak_full_coincidence_ceiling_random_power(C, cur)
    BY <1>3, ZenonT(60) DEF Picks, AdaptivePolicies, IsolatedPolicy, PeakCeilingPolicy, LaggedPolicy
  <2>2. \A c : PolicyPowerShare(c, C) = coincidence_ceiling_squeeze(C) * share_power(c)
    BY <1>3, PolicyShares, PolicySqueezes
       DEF PeakPolicies, PeakCeilingPolicy, SmoothedPolicy, LaggedPolicy, CoincidenceCeilingPolicies
  <2>3. QED BY <2>1, <2>2, RandomDominant DEF PickedDominant, NoMoreDominant
<1>4. CASE policy = PeakCeilingPolicy
  <2>1. Picks(C, w, k, cur) = pick_drf_peak_power_tiebreak_full_coincidence_ceiling(C, cur)
    BY <1>4, ZenonT(60) DEF Picks, AdaptivePolicies, IsolatedPolicy, PeakCeilingPolicy, LaggedPolicy
  <2>2. \A c : PolicyPowerShare(c, C) = coincidence_ceiling_squeeze_peak(C) * share_power_level(c)
    BY <1>4, PolicyShares, PolicySqueezes DEF PeakPolicies
  <2>3. QED BY <2>1, <2>2, PeakCeilingDominant DEF PickedDominant, NoMoreDominant
<1>5. CASE policy = LaggedPolicy
  <2>1. Picks(C, w, k, cur)
          = pick_drf_power_tiebreak_full_coincidence_ceiling_with_factor(C, k, cur)
    BY <1>5, ZenonT(60) DEF Picks, AdaptivePolicies, IsolatedPolicy, PeakCeilingPolicy, LaggedPolicy
  <2>2. \A c : PolicyPowerShare(c, C) = k * share_power(c)
    BY <1>5, PolicyShares, PolicySqueezes
       DEF PeakPolicies, PeakCeilingPolicy, SmoothedPolicy, LaggedPolicy
  <2>3. QED BY <2>1, <2>2, FullFactorDominant DEF PickedDominant, NoMoreDominant
<1>6. QED
  BY <1>1, <1>2, <1>3, <1>4, <1>5, Zenon
     DEF DominantShareFirstPolicies, CoincidenceCeilingPolicies, AdaptivePolicies, IsolatedPolicy, SmoothedPolicy

(* constrained_lmetric looks at the replicas below their ramp ceiling      *)
(* first, and at the least ramping one when there is none.                 *)
LEMMA ConstrainedSafe ==
  ASSUME NEW C, Typed(C), NEW start, NEW i \in pick_constrained_lmetric(C, start),
         NEW j \in DOMAIN C, share_power(C[i]) > One
  PROVE  share_power(C[j]) > One
<1> DEFINE feasible == {x \in DOMAIN C : share_power(C[x]) <= One}
<1>1. \A x \in DOMAIN C : share_power(C[x]) \in Nat BY ShareTypes DEF Typed
<1>2. feasible = {}
  <2> SUFFICES ASSUME feasible # {} PROVE FALSE
    OBVIOUS
  <2>1. i \in feasible BY DEF pick_constrained_lmetric, LeastAmong
  <2>2. QED BY <1>1, <2>1, ScoringConstants
<1>3. QED BY <1>1, <1>2, ScoringConstants

-----------------------------------------------------------------------------
(* The candidates of every policy are typed.                               *)
LEMMA CeilingType ==
  ASSUME NEW w \in Seq(Nat)
  PROVE  ceiling(w) \in Nat \ {0}
<1> DEFINE idx == Min({(Len(w) * Percentile) \div 100, Len(w) - 1})
           ranked == {j \in DOMAIN w : Cardinality({m \in DOMAIN w : w[m] < w[j]}) <= idx}
           T == {w[j] : j \in ranked}
           S == {Floor} \cup T
<1>1. ranked \subseteq 1..Len(w) BY DEF ranked
<1>2. ceiling(w) = Max(S) BY DEF ceiling
<1> HIDE DEF ranked
<1>3. IsFiniteSet(ranked)
  <2>1. IsFiniteSet(1..Len(w)) BY FS_Interval
  <2>2. QED BY <1>1, <2>1, FS_Subset
<1>4. IsFiniteSet(T)
  <2> DEFINE f == [j \in ranked |-> w[j]]
  <2>1. IsFiniteSet({f[j] : j \in ranked})
    <3>1. DOMAIN f = ranked OBVIOUS
    <3> HIDE DEF f
    <3>2. QED BY <1>3, <3>1, FiniteImage
  <2>2. {f[j] : j \in ranked} = T OBVIOUS
  <2>3. QED BY <2>1, <2>2
<1>5. T \subseteq Nat BY <1>1
<1> HIDE DEF T
<1>6. IsFiniteSet(S)
  <2>1. IsFiniteSet({Floor}) BY FS_Singleton
  <2>2. QED BY <1>4, <2>1, FS_Union
<1>7. S \subseteq Int /\ S # {} /\ Floor \in S /\ S \subseteq Nat BY <1>5, Constants
<1> HIDE DEF S
<1>8. Max(S) \in S /\ Floor <= Max(S) BY <1>6, <1>7, FiniteMax
<1>9. PICK x : x = Max(S) OBVIOUS
<1>10. x \in Nat /\ Floor <= x BY <1>7, <1>8, <1>9
<1>11. x \in Nat \ {0} BY <1>10, Constants
<1>12. QED BY <1>2, <1>9, <1>11

LEMMA AllOfferedTyped ==
  ASSUME Telemetered, NEW p \in Prompts, NEW w \in Seq(Nat)
  PROVE  Typed(_build_candidates(p, w))
<1>1. CASE policy \notin AdaptivePolicies BY <1>1, OfferedTyped
<1>2. CASE policy \in AdaptivePolicies
  <2> DEFINE C == _build_candidates(p, w)
  <2>1. DOMAIN C = Fleet BY DEF _build_candidates
  <2>2. ASSUME NEW i \in Fleet PROVE C[i] \in Candidate
    <3>1. PICK n : n = new_tokens_if_routed(p, cached[i]) OBVIOUS
    <3>2. n \in Nat BY <3>1, NewTokensType
    <3>3. PICK b : b = InFlightAfter(i) OBVIOUS
    <3>4. b \in Nat BY <3>3 DEF InFlightAfter, Telemetered
    <3>5. TokenBudget[i] \in Nat \ {0} /\ MaxNumSeqs[i] \in Nat \ {0} /\ LevelCeiling[i] \in Nat \ {0}
      BY MoreConstants
    <3>6. PICK r : r = ceiling(w) OBVIOUS
    <3>7. r \in Nat \ {0} BY <3>6, CeilingType
    <3>8. /\ ramp[i] \in Int /\ smoothed[i] \in Int /\ lastPower[i] \in Nat /\ whales[i] + 1 \in Nat
      BY DEF Telemetered
    <3>9. C[i] = [new_tokens |-> n, in_flight_after |-> b,
                  token_budget |-> TokenBudget[i], max_num_seqs |-> MaxNumSeqs[i],
                  ramp_rate |-> ramp[i], smoothed_ramp_rate |-> smoothed[i],
                  ramp_ceiling |-> r,
                  power |-> lastPower[i], power_level_ceiling |-> LevelCeiling[i],
                  active_whale_count_after |-> whales[i] + 1]
      BY <1>2, <3>1, <3>3, <3>6 DEF _build_candidates
    <3> HIDE DEF C
    <3>10. QED BY <3>2, <3>4, <3>5, <3>7, <3>8, <3>9 DEF Candidate
  <2>3. QED BY <2>1, <2>2, FleetFinite DEF Typed
<1>3. QED BY <1>1, <1>2

(* Whatever the fleet, the capacities, the ceilings and the telemetry: a   *)
(* policy of scoring.py that minimises a dominant share goes over the      *)
(* threshold 1.0 only when every replica would, the adaptive ceilings and  *)
(* the random tie-break included, and constrained_lmetric picks a replica  *)
(* above its ramp ceiling only when all of them are.                       *)
THEOREM ThresholdSafety == Spec => PickThresholdSafe
<1> DEFINE A == Routing =>
       LET D(c) == DominantShare(c, PolicyPowerShare(c, Offered))
       IN  /\ policy \in DominantShareFirstPolicies =>
                (D(Picked) > One => \A j \in Fleet : D(Offered[j]) > One)
           /\ policy = "constrained_lmetric" =>
                (share_power(Picked) > One => \A j \in Fleet : share_power(Offered[j]) > One)
<1>1. TypeOK /\ LagInv /\ [Next]_vars => A
  <2> SUFFICES ASSUME TypeOK, LagInv, [Next]_vars, Routing, NEW j \in Fleet
               PROVE  /\ policy \in DominantShareFirstPolicies =>
                           (DominantShare(Picked, PolicyPowerShare(Picked, Offered)) > One
                              => DominantShare(Offered[j], PolicyPowerShare(Offered[j], Offered))
                                   > One)
                      /\ policy = "constrained_lmetric" =>
                           (share_power(Picked) > One => share_power(Offered[j]) > One)
    BY DEF A
  <2>1. PICK p \in Prompts : route(p)
    BY DEF Routing, Next, complete, PowerPoll, Scrape, history, vars
  <2> DEFINE C == _build_candidates(p, Observed)
             buffer == Append(lagBuffer, elevated_count(C))
             k == IF policy = LaggedPolicy THEN Squeeze(LaggedCount(buffer)) ELSE 1
  <2>2. PICK i \in Picks(C, IsWhale(p), k, tieCursor) :
          /\ last'.replica = i /\ last'.prompt = p /\ last'.squeeze = k
    BY <2>1 DEF route
  <2>3. k \in Nat
    <3>1. elevated_count(C) \in Nat BY CandidatesAre
    <3>2. QED BY <3>1, LaggedCountType, SqueezeType
  <2>4. Typed(C)
    <3>1. Telemetered /\ Observed \in Seq(Nat) BY ObservedType DEF TypeOK, Telemetered
    <3>2. QED BY <3>1, AllOfferedTyped
  <2>5. Offered = C BY <2>2 DEF Offered
  <2>6. DOMAIN C = 1..N /\ Len(C) = N
    <3>1. DOMAIN C = 1..N BY DEF _build_candidates, Fleet
    <3>2. Len(C) = N BY Constants DEF _build_candidates, Fleet
    <3>3. QED BY <3>1, <3>2
  <2>7. policy \in Policies /\ rrIndex \in Int
    BY SetupAssumption, Constants DEF TypeOK
  <2>8. Picked = C[i] BY <2>2, <2>5 DEF Picked
  <2> HIDE DEF C, k
  <2>9. i \in DOMAIN C
    <3>1. Picks(C, IsWhale(p), k, tieCursor) \subseteq DOMAIN C
      BY <2>6, <2>7, PicksInFleet, Constants
    <3>2. QED BY <2>2, <3>1
  <2>10. j \in DOMAIN C BY <2>6 DEF Fleet
  <2>11. policy \in DominantShareFirstPolicies => PickedDominant(C, i, j)
    BY <2>2, <2>3, <2>4, <2>9, <2>10, UnsqueezedDominant, SqueezedDominant
  <2>12. policy \in DominantShareFirstPolicies =>
           /\ DominantShare(C[i], PolicyPowerShare(C[i], C)) \in Int
           /\ DominantShare(C[j], PolicyPowerShare(C[j], C)) \in Int
    <3>1. PolicySqueeze(C) \in Nat
      <4>1. /\ coincidence_ceiling_squeeze(C) \in Nat /\ coincidence_ceiling_squeeze_peak(C) \in Nat
            /\ coincidence_ceiling_squeeze_smoothed(C) \in Nat
        BY <2>4, SqueezeTypes DEF Typed
      <4>2. QED BY <2>2, <2>3, <4>1, PolicySqueezes
    <3>2. \A x \in DOMAIN C : PolicyPowerShare(C[x], C) \in Nat
      <4> SUFFICES ASSUME NEW x \in DOMAIN C PROVE PolicyPowerShare(C[x], C) \in Nat
        OBVIOUS
      <4>1. /\ share_power(C[x]) \in Nat /\ share_power_level(C[x]) \in Nat
            /\ share_power_smoothed(C[x]) \in Nat
        BY <2>4, ShareTypes DEF Typed
      <4>2. PICK s \in Nat : PolicyPowerShare(C[x], C) = PolicySqueeze(C) * s
        BY <4>1, PolicyShares
      <4>3. QED BY <3>1, <4>2, ProductType
    <3>3. QED BY <2>4, <2>9, <2>10, <3>2, DominantType DEF Typed
  <2>13. policy \in DominantShareFirstPolicies =>
           (DominantShare(C[i], PolicyPowerShare(C[i], C)) > One
              => DominantShare(C[j], PolicyPowerShare(C[j], C)) > One)
    BY <2>11, <2>12, ScoringConstants DEF PickedDominant
  <2>14. policy = "constrained_lmetric" =>
           (share_power(C[i]) > One => share_power(C[j]) > One)
    <3>1. policy = "constrained_lmetric" =>
            Picks(C, IsWhale(p), k, tieCursor) = pick_constrained_lmetric(C, tieCursor)
      BY ZenonT(60) DEF Picks, AdaptivePolicies, IsolatedPolicy, PeakCeilingPolicy, LaggedPolicy
    <3>2. QED BY <2>2, <2>4, <2>10, <3>1, ConstrainedSafe
  <2>15. QED BY <2>5, <2>8, <2>13, <2>14
<1>2. Init => LagInv BY Constants DEF Init, LagInv
<1>3. LagInv /\ LagExact /\ [Next]_vars => LagInv' BY LagNext
<1> HIDE DEF A
<1>4. QED
  <2>1. Spec => []LagExact BY LagIsExact
  <2>2. Spec => []TypeOK BY RouterTypeOK
  <2>3. Spec => [][A]_vars BY <1>1, <1>2, <1>3, <2>1, <2>2, PTL DEF Spec
  <2>4. [][A]_vars <=> PickThresholdSafe BY DEF A, PickThresholdSafe
  <2>5. QED BY <2>3, <2>4, PTL

-----------------------------------------------------------------------------
(* The adaptive ceiling.  The window's slots, counted from its end, are    *)
(* the readings of the calm decisions, counted from the last one.          *)

(* Two different members make a set of two.                                *)
LEMMA TwoAreTwo ==
  ASSUME NEW S, IsFiniteSet(S), NEW x \in S, NEW y \in S, x # y
  PROVE  Cardinality(S) >= 2
<1>1. {x, y} \subseteq S OBVIOUS
<1>2. IsFiniteSet({x}) /\ Cardinality({x}) = 1 BY FS_Singleton
<1>3. Cardinality({x} \cup {y}) = 2 BY <1>2, FS_AddElement
<1>4. {x} \cup {y} = {x, y} OBVIOUS
<1>5. Cardinality({x, y}) <= Cardinality(S) /\ Cardinality(S) \in Nat
  BY <1>1, FS_Subset, FS_CardinalityType
<1>6. QED BY <1>3, <1>4, <1>5

(* observe_round's test is that of a calm decision.                        *)
LEMMA CalmTest ==
  ASSUME NEW rates \in [Fleet -> Int]
  PROVE  Calm(rates) <=> ~(Cardinality(AboveFloor(rates)) >= 2)
<1> DEFINE S == AboveFloor(rates)
<1>1. IsFiniteSet(S) BY FleetFinite, FS_Subset DEF AboveFloor
<1>2. ASSUME ~Calm(rates) PROVE Cardinality(S) >= 2
  <2>1. PICK i \in Fleet, j \in Fleet : rates[i] > Floor /\ rates[j] > Floor /\ i # j
    BY <1>2 DEF Calm
  <2>2. i \in S /\ j \in S BY <2>1 DEF AboveFloor
  <2>3. QED BY <1>1, <2>1, <2>2, TwoAreTwo
<1>3. ASSUME Calm(rates) PROVE ~(Cardinality(S) >= 2)
  <2>1. CASE S = {} BY <2>1, FS_EmptySet
  <2>2. CASE S # {}
    <3>1. PICK i \in S : TRUE BY <2>2
    <3>2. S = {i} BY <1>3, <3>1 DEF Calm, AboveFloor
    <3>3. Cardinality(S) = 1 BY <3>2, FS_Singleton
    <3>4. QED BY <3>3
  <2>3. QED BY <2>1, <2>2
<1>4. QED BY <1>2, <1>3

(* A full deque keeps its end.                                             *)
LEMMA KeepsEnd ==
  ASSUME NEW w \in Seq(Nat)
  PROVE  /\ Len(Keep(w)) = IF Len(w) > WindowSize THEN WindowSize ELSE Len(w)
         /\ \A a \in 0..(Len(Keep(w)) - 1) : Keep(w)[Len(Keep(w)) - a] = w[Len(w) - a]
<1>1. WindowSize \in Nat \ {0} /\ Len(w) \in Nat BY RouterCoreAssumption
<1>2. CASE Len(w) > WindowSize
  <2> DEFINE m == Len(w) - WindowSize + 1
             s == SubSeq(w, m, Len(w))
  <2>1. m \in 1..(Len(w) + 1) /\ m <= Len(w) /\ Len(w) - m + 1 = WindowSize BY <1>1, <1>2
  <2>2. \A i \in m..Len(w) : w[i] \in Nat BY <2>1
  <2>3. Len(s) = WindowSize /\ \A i \in 1..WindowSize : s[i] = w[m + i - 1]
    <3> HIDE DEF m
    <3>1. m \in Int /\ Len(w) \in Int BY <1>1, <2>1
    <3>2. /\ Len(s) = (IF m <= Len(w) THEN Len(w) - m + 1 ELSE 0)
          /\ \A i \in 1..(Len(w) - m + 1) : s[i] = w[m + i - 1]
      BY <2>2, <3>1, SubSeqProperties
    <3>3. QED BY <2>1, <3>2
  <2>4. Keep(w) = s BY <1>2 DEF Keep
  <2> HIDE DEF s
  <2>5. \A a \in 0..(WindowSize - 1) : s[WindowSize - a] = w[Len(w) - a]
    <3> SUFFICES ASSUME NEW a \in 0..(WindowSize - 1) PROVE s[WindowSize - a] = w[Len(w) - a]
      OBVIOUS
    <3>1. WindowSize - a \in 1..WindowSize /\ m + (WindowSize - a) - 1 = Len(w) - a BY <1>1
    <3> HIDE DEF m
    <3>2. QED BY <2>3, <3>1
  <2>6. QED BY <1>2, <2>3, <2>4, <2>5
<1>3. CASE ~(Len(w) > WindowSize) BY <1>3 DEF Keep
<1>4. QED BY <1>2, <1>3

LEMMA AfterType ==
  ASSUME rounds \in Seq([Fleet -> Int]), NEW j \in 1..Len(rounds)
  PROVE  IsFiniteSet(CalmAfter(j)) /\ Cardinality(CalmAfter(j)) \in Nat
<1>1. CalmAfter(j) \subseteq 1..Len(rounds) BY DEF CalmAfter
<1>2. IsFiniteSet(1..Len(rounds)) BY FS_Interval
<1>3. QED BY <1>1, <1>2, FS_Subset, FS_CardinalityType

LEMMA ReadingType ==
  ASSUME rounds \in Seq([Fleet -> Int]), NEW x \in CalmReadings
  PROVE  /\ x[1] \in 1..Len(rounds) /\ x[2] \in Fleet /\ rounds[x[1]][x[2]] \in Int
         /\ ReadingsAfter(x) \in Nat
<1>1. x[1] \in 1..Len(rounds) /\ x[2] \in Fleet BY DEF CalmReadings
<1>2. rounds[x[1]] \in [Fleet -> Int] BY <1>1
<1>3. PICK c : c = Cardinality(CalmAfter(x[1])) /\ c \in Nat BY <1>1, AfterType
<1>4. N * c \in Nat BY <1>3, Constants, ProductType
<1>5. N - x[2] \in Nat BY <1>1, Constants DEF Fleet
<1>6. ReadingsAfter(x) = N * c + (N - x[2]) BY <1>3 DEF ReadingsAfter
<1>7. PICK u, v : u = N * c /\ v = N - x[2] OBVIOUS
<1>8. ReadingsAfter(x) \in Nat BY <1>4, <1>5, <1>6, <1>7
<1>9. QED BY <1>1, <1>2, <1>8

(* Two readings are not counted alike.                                     *)
LEMMA OwnPlace ==
  ASSUME rounds \in Seq([Fleet -> Int]), NEW x \in CalmReadings, NEW y \in CalmReadings,
         ReadingsAfter(x) = ReadingsAfter(y)
  PROVE  x = y
<1>0. N \in Nat \ {0} BY Constants
<1>1. /\ x[1] \in 1..Len(rounds) /\ x[2] \in 1..N /\ y[1] \in 1..Len(rounds) /\ y[2] \in 1..N
      /\ Calm(rounds[x[1]]) /\ Calm(rounds[y[1]])
  BY DEF CalmReadings, Fleet
<1>2. ASSUME NEW j \in 1..Len(rounds), NEW k \in 1..Len(rounds), j < k, Calm(rounds[k])
      PROVE  Cardinality(CalmAfter(k)) < Cardinality(CalmAfter(j))
  <2>1. k \in CalmAfter(j) /\ k \notin CalmAfter(k) /\ CalmAfter(k) \subseteq CalmAfter(j)
    BY <1>2 DEF CalmAfter
  <2>2. PICK S, T : S = CalmAfter(j) /\ T = CalmAfter(k) OBVIOUS
  <2>3. IsFiniteSet(S) /\ Cardinality(S) \in Nat /\ Cardinality(T) \in Nat BY <2>2, AfterType
  <2>4. T \in SUBSET S /\ S # T BY <2>1, <2>2
  <2>5. Cardinality(T) <= Cardinality(S) /\ Cardinality(S) # Cardinality(T)
    BY <2>3, <2>4, FS_Subset
  <2>6. QED BY <2>2, <2>3, <2>5
<1>3. PICK a, b : /\ a = Cardinality(CalmAfter(x[1])) /\ a \in Nat
                  /\ b = Cardinality(CalmAfter(y[1])) /\ b \in Nat
  BY <1>1, AfterType
<1>4. N * a + (N - x[2]) = N * b + (N - y[2]) BY <1>3 DEF ReadingsAfter
<1>5. PICK r, s : r = x[2] /\ s = y[2] OBVIOUS
<1>6. a = b
  <2>1. ASSUME a < b PROVE FALSE
    <3>1. N * a + N <= N * b
      <4>1. N * (a + 1) <= N * b BY <1>0, <1>3, <2>1
      <4>2. N * (a + 1) = N * a + N BY <1>0, <1>3
      <4>3. QED BY <4>1, <4>2
    <3>2. N * a \in Nat /\ N * b \in Nat BY <1>0, <1>3, ProductType
    <3>3. PICK u, v : u = N * a /\ v = N * b OBVIOUS
    <3>4. QED BY <1>0, <1>1, <1>4, <1>5, <3>1, <3>2, <3>3
  <2>2. ASSUME b < a PROVE FALSE
    <3>1. N * b + N <= N * a
      <4>1. N * (b + 1) <= N * a BY <1>0, <1>3, <2>2
      <4>2. N * (b + 1) = N * b + N BY <1>0, <1>3
      <4>3. QED BY <4>1, <4>2
    <3>2. N * a \in Nat /\ N * b \in Nat BY <1>0, <1>3, ProductType
    <3>3. PICK u, v : u = N * a /\ v = N * b OBVIOUS
    <3>4. QED BY <1>0, <1>1, <1>4, <1>5, <3>1, <3>2, <3>3
  <2>3. QED BY <1>3, <2>1, <2>2
<1>7. x[2] = y[2]
  <2>1. N * a \in Nat BY <1>0, <1>3, ProductType
  <2>2. PICK u : u = N * a OBVIOUS
  <2>3. QED BY <1>0, <1>1, <1>4, <1>6, <2>1, <2>2
<1>8. x[1] = y[1]
  <2>1. ASSUME x[1] < y[1] PROVE FALSE
    <3>1. Cardinality(CalmAfter(y[1])) < Cardinality(CalmAfter(x[1])) BY <1>1, <1>2, <2>1
    <3>2. QED BY <1>3, <1>6, <3>1
  <2>2. ASSUME y[1] < x[1] PROVE FALSE
    <3>1. Cardinality(CalmAfter(x[1])) < Cardinality(CalmAfter(y[1])) BY <1>1, <1>2, <2>2
    <3>2. QED BY <1>3, <1>6, <3>1
  <2>3. QED BY <1>1, <2>1, <2>2
<1>9. x = <<x[1], x[2]>> /\ y = <<y[1], y[2]>> BY DEF CalmReadings
<1>10. QED BY <1>7, <1>8, <1>9

(* A calm decision is after every earlier one, and nothing is after it.    *)
LEMMA AfterStep ==
  ASSUME rounds \in Seq([Fleet -> Int]), NEW r \in [Fleet -> Int], rounds' = Append(rounds, r)
  PROVE  /\ \A j \in 1..Len(rounds) :
              Cardinality(CalmAfter(j)') = Cardinality(CalmAfter(j)) + (IF Calm(r) THEN 1 ELSE 0)
         /\ Cardinality(CalmAfter(Len(rounds) + 1)') = 0
<1> DEFINE n == Len(rounds)
<1>1. Len(rounds') = n + 1 /\ rounds'[n + 1] = r /\ \A j \in 1..n : rounds'[j] = rounds[j]
  OBVIOUS
<1>2. n \in Nat OBVIOUS
<1>3. ASSUME NEW j \in 1..n
      PROVE  Cardinality(CalmAfter(j)') = Cardinality(CalmAfter(j)) + (IF Calm(r) THEN 1 ELSE 0)
  <2>0. CalmAfter(j)' = {k \in (j + 1)..(n + 1) : Calm(rounds'[k])} BY <1>1 DEF CalmAfter
  <2>1. CalmAfter(j)' = CalmAfter(j) \cup (IF Calm(r) THEN {n + 1} ELSE {})
    <3> HIDE DEF n
    <3>0. j \in Nat /\ j <= n BY <1>2
    <3>1. (j + 1)..(n + 1) = ((j + 1)..n) \cup {n + 1} /\ (j + 1)..n \subseteq 1..n
      <4>1. \A k \in Int : k \in (j + 1)..(n + 1) <=> k \in (j + 1)..n \/ k = n + 1
        BY <1>2, <3>0
      <4>2. (j + 1)..(n + 1) \subseteq Int /\ ((j + 1)..n) \cup {n + 1} \subseteq Int
        BY <1>2, <3>0
      <4>3. (j + 1)..n \subseteq 1..n BY <1>2, <3>0
      <4>4. QED BY <4>1, <4>2, <4>3
    <3>2. \A k \in (j + 1)..n : Calm(rounds'[k]) <=> Calm(rounds[k]) BY <1>1, <3>1
    <3>3. Calm(rounds'[n + 1]) <=> Calm(r) BY <1>1
    <3>4. CalmAfter(j) = {k \in (j + 1)..n : Calm(rounds[k])} BY DEF n, CalmAfter
    <3>5. QED BY <2>0, <3>1, <3>2, <3>3, <3>4
  <2>2. n + 1 \notin CalmAfter(j) BY <1>2 DEF CalmAfter
  <2>3. IsFiniteSet(CalmAfter(j)) /\ Cardinality(CalmAfter(j)) \in Nat BY AfterType
  <2>4. CASE Calm(r)
    <3>1. CalmAfter(j)' = CalmAfter(j) \cup {n + 1} BY <2>1, <2>4
    <3>2. QED BY <2>2, <2>3, <2>4, <3>1, FS_AddElement
  <2>5. CASE ~Calm(r) BY <2>1, <2>3, <2>5
  <2>6. QED BY <2>4, <2>5
<1>4. Cardinality(CalmAfter(n + 1)') = 0
  <2>1. CalmAfter(n + 1)' = {k \in (n + 1 + 1)..(n + 1) : Calm(rounds'[k])} BY <1>1 DEF CalmAfter
  <2>2. (n + 1 + 1)..(n + 1) = {} BY <1>2
  <2>3. QED BY <2>1, <2>2, FS_EmptySet
<1>5. QED BY <1>3, <1>4

(* Reading x is in its slot of window w.                                   *)
InSlot(x, w) ==
  /\ ReadingsAfter(x) < Len(w)
  /\ w[Len(w) - ReadingsAfter(x)] = NonNegative(rounds[x[1]][x[2]])

WindowOfCalmRounds ==
  /\ Len(window) <= WindowSize
  /\ \A x \in CalmReadings : ReadingsAfter(x) < WindowSize => InSlot(x, window)
  /\ \A p \in 1..Len(window) : \E x \in CalmReadings : ReadingsAfter(x) = Len(window) - p

WindowInv ==
  policy = IsolatedPolicy =>
    rounds \in Seq([Fleet -> Int]) /\ window \in Seq(Nat) /\ WindowOfCalmRounds

(* What a decision does to the readings of the calm ones.                  *)
LEMMA ReadingsStep ==
  ASSUME rounds \in Seq([Fleet -> Int]), NEW r \in [Fleet -> Int], rounds' = Append(rounds, r)
  PROVE  /\ \A x \in CalmReadings :
              /\ x \in CalmReadings' /\ rounds'[x[1]] = rounds[x[1]]
              /\ ReadingsAfter(x)' = ReadingsAfter(x) + (IF Calm(r) THEN N ELSE 0)
         /\ \A i \in Fleet : Calm(r) => \E x \in CalmReadings' : ReadingsAfter(x)' = N - i
         /\ \A x \in CalmReadings' : x \notin CalmReadings =>
              /\ Calm(r) /\ x[2] \in Fleet /\ rounds'[x[1]] = r
              /\ ReadingsAfter(x)' = N - x[2]
<1> DEFINE n == Len(rounds)
<1>1. /\ n \in Nat /\ Len(rounds') = n + 1 /\ rounds'[n + 1] = r
      /\ \A j \in 1..n : rounds'[j] = rounds[j]
  OBVIOUS
<1>2. /\ CalmReadings = {x \in (1..n) \X Fleet : Calm(rounds[x[1]])}
      /\ CalmReadings' = {x \in (1..(n + 1)) \X Fleet : Calm(rounds'[x[1]])}
  BY <1>1 DEF CalmReadings
<1>3. ASSUME NEW x \in CalmReadings
      PROVE  /\ x \in CalmReadings' /\ rounds'[x[1]] = rounds[x[1]]
             /\ ReadingsAfter(x)' = ReadingsAfter(x) + (IF Calm(r) THEN N ELSE 0)
  <2>1. x[1] \in 1..n /\ x \in (1..n) \X Fleet /\ Calm(rounds[x[1]]) BY <1>2
  <2>2. rounds'[x[1]] = rounds[x[1]] BY <1>1, <2>1
  <2>3. x \in CalmReadings'
    <3> HIDE DEF n
    <3>1. x \in (1..(n + 1)) \X Fleet BY <1>1, <2>1
    <3>2. QED BY <1>2, <2>1, <2>2, <3>1
  <2>4. PICK c : c = Cardinality(CalmAfter(x[1])) OBVIOUS
  <2>5. c \in Nat BY <2>1, <2>4, AfterType
  <2>6. Cardinality(CalmAfter(x[1])') = c + (IF Calm(r) THEN 1 ELSE 0)
    BY <2>1, <2>4, AfterStep
  <2>7. ReadingsAfter(x) = N * c + (N - x[2]) BY <2>4 DEF ReadingsAfter
  <2>8. ReadingsAfter(x)' = N * (c + (IF Calm(r) THEN 1 ELSE 0)) + (N - x[2])
    BY <2>6 DEF ReadingsAfter
  <2>9. PICK f : f = N - x[2] OBVIOUS
  <2>10. f \in Int BY <2>1, <2>9, Constants DEF Fleet
  <2>11. PICK g : g = N * c OBVIOUS
  <2>12. g \in Int BY <2>5, <2>11, Constants
  <2>13. CASE Calm(r)
    <3>1. N * (c + 1) = g + N BY <2>5, <2>11, Constants
    <3>2. QED BY <2>2, <2>3, <2>7, <2>8, <2>9, <2>10, <2>11, <2>12, <2>13, <3>1, Constants
  <2>14. CASE ~Calm(r)
    <3>1. N * (c + 0) = g BY <2>5, <2>11, Constants
    <3>2. QED BY <2>2, <2>3, <2>7, <2>8, <2>9, <2>10, <2>11, <2>12, <2>14, <3>1, Constants
  <2>15. QED BY <2>13, <2>14
<1>4. ASSUME NEW x \in CalmReadings', x[1] = n + 1
      PROVE  /\ Calm(r) /\ x[2] \in Fleet /\ rounds'[x[1]] = r
             /\ ReadingsAfter(x)' = N - x[2]
  <2>1. x[2] \in Fleet /\ Calm(rounds'[x[1]]) BY <1>2
  <2>2. Cardinality(CalmAfter(n + 1)') = 0 BY AfterStep
  <2>3. CalmAfter(x[1])' = CalmAfter(n + 1)' BY <1>4 DEF CalmAfter
  <2>4. ReadingsAfter(x)' = N * Cardinality(CalmAfter(x[1])') + (N - x[2]) BY DEF ReadingsAfter
  <2>5. ReadingsAfter(x)' = N * 0 + (N - x[2]) BY <2>2, <2>3, <2>4
  <2>6. N * 0 = 0 /\ N \in Int /\ x[2] \in Int BY <2>1, Constants DEF Fleet
  <2>7. QED BY <1>1, <1>4, <2>1, <2>5, <2>6
<1>5. ASSUME NEW i \in Fleet, Calm(r)
      PROVE  \E x \in CalmReadings' : ReadingsAfter(x)' = N - i
  <2>1. PICK x : x = <<n + 1, i>> OBVIOUS
  <2>2. x[1] = n + 1 /\ x[2] = i /\ x \in (1..(n + 1)) \X Fleet BY <1>1, <2>1
  <2>3. x \in CalmReadings' BY <1>1, <1>2, <1>5, <2>2
  <2>4. ReadingsAfter(x)' = N - x[2] BY <1>4, <2>2, <2>3
  <2>5. QED BY <2>2, <2>3, <2>4
<1>6. ASSUME NEW x \in CalmReadings', x[1] # n + 1
      PROVE  x \in CalmReadings
  <2>1. x[1] \in 1..(n + 1) /\ x[2] \in Fleet /\ x = <<x[1], x[2]>> /\ Calm(rounds'[x[1]])
    BY <1>2
  <2>2. x[1] \in 1..n BY <1>1, <1>6, <2>1
  <2>3. QED BY <1>1, <1>2, <2>1, <2>2
<1>7. QED BY <1>3, <1>4, <1>5, <1>6

LEMMA WindowInit == Init => WindowInv
<1> SUFFICES ASSUME Init PROVE WindowInv
  OBVIOUS
<1>1. rounds = <<>> /\ window = <<>> BY DEF Init
<1>2. CalmReadings = {} BY <1>1 DEF CalmReadings
<1>3. WindowOfCalmRounds BY <1>1, <1>2, RouterCoreAssumption DEF WindowOfCalmRounds
<1>4. QED BY <1>1, <1>3 DEF WindowInv

(* Observing moves every slot by the size of the fleet.                    *)
LEMMA ObserveSlots ==
  ASSUME NEW w \in Seq(Nat), NEW rates \in [Fleet -> Int], NEW v, v = observe(w, rates)
  PROVE  /\ Len(v) = IF Len(w) + N > WindowSize THEN WindowSize ELSE Len(w) + N
         /\ \A i \in Fleet : N - i < Len(v) => v[Len(v) - (N - i)] = NonNegative(rates[i])
         /\ \A a \in Nat : a + N < Len(v) => v[Len(v) - (a + N)] = w[Len(w) - a]
<1> DEFINE r == [i \in Fleet |-> NonNegative(rates[i])]
           q == w \o r
<1>1. r \in Seq(Nat) /\ Len(r) = N
  <2>1. \A i \in Fleet : NonNegative(rates[i]) \in Nat BY Positive
  <2>2. r \in [1..N -> Nat] BY <2>1 DEF Fleet
  <2>3. QED BY <2>2, Constants
<1>2. \A i \in Fleet : r[i] = NonNegative(rates[i]) OBVIOUS
<1>3. v = Keep(q) BY DEF observe
<1> HIDE DEF r
<1>4. PICK n : n = Len(w) /\ n \in Nat OBVIOUS
<1>5. /\ q \in Seq(Nat) /\ Len(q) = n + N
      /\ \A p \in 1..(n + N) : q[p] = IF p <= n THEN w[p] ELSE r[p - n]
  BY <1>1, <1>4, ConcatProperties
<1> HIDE DEF q
<1>6. /\ Len(v) = IF n + N > WindowSize THEN WindowSize ELSE n + N
      /\ \A a \in 0..(Len(v) - 1) : v[Len(v) - a] = q[n + N - a]
  <2>1. Len(q) = n + N /\ q \in Seq(Nat) BY <1>5
  <2>2. /\ Len(v) = IF Len(q) > WindowSize THEN WindowSize ELSE Len(q)
        /\ \A a \in 0..(Len(v) - 1) : v[Len(v) - a] = q[Len(q) - a]
    BY <1>3, <2>1, KeepsEnd, Zenon
  <2>3. PICK m : m = Len(q) OBVIOUS
  <2>4. m = n + N BY <2>1, <2>3
  <2>5. Len(v) = IF m > WindowSize THEN WindowSize ELSE m BY <2>2, <2>3
  <2>6. \A a \in 0..(Len(v) - 1) : v[Len(v) - a] = q[m - a] BY <2>2, <2>3, Zenon
  <2>7. Len(v) = IF n + N > WindowSize THEN WindowSize ELSE n + N BY <2>4, <2>5
  <2>8. \A a \in 0..(Len(v) - 1) : v[Len(v) - a] = q[n + N - a] BY <1>4, <2>4, <2>6, Constants
  <2>9. QED BY <2>7, <2>8, Zenon
<1>7. PICK k : k = Len(v) OBVIOUS
<1>8. /\ N \in Nat \ {0} /\ k \in Nat /\ k <= n + N
      /\ \A a \in Nat : a < k => v[k - a] = q[n + N - a]
  <2>1. N \in Nat \ {0} /\ WindowSize \in Nat BY Constants, RouterCoreAssumption
  <2>2. k \in Nat /\ k <= n + N BY <1>4, <1>6, <1>7, <2>1
  <2>3. \A a \in Nat : a < k => a \in 0..(k - 1) BY <2>2
  <2>4. QED BY <1>6, <1>7, <2>1, <2>2, <2>3
<1>9. ASSUME NEW i \in Fleet, N - i < k PROVE v[k - (N - i)] = NonNegative(rates[i])
  <2>1. i \in 1..N BY DEF Fleet
  <2>2. PICK a, p : a = N - i /\ p = n + i OBVIOUS
  <2>3. a \in Nat /\ a < k /\ n + N - a = p /\ p \in 1..(n + N) /\ ~(p <= n) /\ p - n = i
    BY <1>4, <1>8, <1>9, <2>1, <2>2
  <2>4. v[k - a] = q[p] BY <1>8, <2>3
  <2>5. q[p] = r[i] BY <1>5, <2>3
  <2>6. QED BY <1>2, <2>2, <2>4, <2>5
<1>10. ASSUME NEW a \in Nat, a + N < k PROVE v[k - (a + N)] = w[n - a]
  <2>1. PICK b, p : b = a + N /\ p = n - a OBVIOUS
  <2>2. b \in Nat /\ b < k /\ n + N - b = p /\ p \in 1..(n + N) /\ p <= n
    BY <1>4, <1>8, <1>10, <2>1
  <2>3. v[k - b] = q[p] BY <1>8, <2>2
  <2>4. q[p] = w[p] BY <1>5, <2>2
  <2>5. QED BY <2>1, <2>3, <2>4
<1>11. QED BY <1>4, <1>6, <1>7, <1>9, <1>10

(* A decision of the isolated policy.                                      *)
LEMMA WindowRoute ==
  ASSUME rounds \in Seq([Fleet -> Int]), window \in Seq(Nat), WindowOfCalmRounds,
         ramp \in [Fleet -> Int], rounds' = Append(rounds, ramp),
         window' = observe_round(window, ramp)
  PROVE  rounds' \in Seq([Fleet -> Int]) /\ window' \in Seq(Nat) /\ WindowOfCalmRounds'
<1>1. rounds' \in Seq([Fleet -> Int]) OBVIOUS
<1>2. window' \in Seq(Nat) BY ObserveType
<1>3. WindowOfCalmRounds'
  <2>1. CASE ~Calm(ramp)
    <3>1. window' = window BY <2>1, CalmTest DEF observe_round
    <3>2. /\ \A x \in CalmReadings : /\ x \in CalmReadings' /\ rounds'[x[1]] = rounds[x[1]]
                                     /\ ReadingsAfter(x)' = ReadingsAfter(x)
          /\ \A x \in CalmReadings' : x \in CalmReadings
      <4>1. \A x \in CalmReadings : /\ x \in CalmReadings' /\ rounds'[x[1]] = rounds[x[1]]
                                    /\ ReadingsAfter(x)' = ReadingsAfter(x) + 0
        BY <2>1, ReadingsStep
      <4>2. \A x \in CalmReadings' : x \in CalmReadings BY <2>1, ReadingsStep
      <4>3. \A x \in CalmReadings : ReadingsAfter(x) \in Nat BY ReadingType
      <4>4. \A x \in CalmReadings : ReadingsAfter(x)' = ReadingsAfter(x)
        <5> SUFFICES ASSUME NEW x \in CalmReadings PROVE ReadingsAfter(x)' = ReadingsAfter(x)
          OBVIOUS
        <5>1. PICK a : a = ReadingsAfter(x) /\ a \in Nat BY <4>3
        <5>2. QED BY <4>1, <5>1
      <4>5. QED BY <4>1, <4>2, <4>4
    <3>3. \A x \in CalmReadings : InSlot(x, window) => InSlot(x, window)'
      BY <3>1, <3>2 DEF InSlot
    <3>4. QED BY <3>1, <3>2, <3>3, Zenon DEF WindowOfCalmRounds
  <2>2. CASE Calm(ramp)
    <3>1. window' = observe(window, ramp) BY <2>2, CalmTest DEF observe_round
    <3>2. PICK L, k : L = Len(window) /\ k = Len(window') OBVIOUS
    <3>3. L \in Nat /\ N \in Nat \ {0} /\ WindowSize \in Nat \ {0}
      BY <3>2, Constants, RouterCoreAssumption
    <3>4. /\ k = IF L + N > WindowSize THEN WindowSize ELSE L + N
          /\ \A i \in Fleet : N - i < k => window'[k - (N - i)] = NonNegative(ramp[i])
          /\ \A a \in Nat : a + N < k => window'[k - (a + N)] = window[L - a]
      BY <3>1, <3>2, ObserveSlots
    <3>5. k \in Nat /\ k <= WindowSize /\ k <= L + N
          /\ \A a \in Nat : a < WindowSize /\ a < L + N => a < k
      BY <3>3, <3>4
    <3>6. \A x \in CalmReadings :
            /\ x \in CalmReadings' /\ rounds'[x[1]] = rounds[x[1]]
            /\ ReadingsAfter(x)' = ReadingsAfter(x) + N /\ ReadingsAfter(x) \in Nat
      BY <2>2, ReadingsStep, ReadingType
    <3>7. ASSUME NEW x \in CalmReadings', ReadingsAfter(x)' < WindowSize
           PROVE  InSlot(x, window)'
      <4>1. CASE x \in CalmReadings
        <5>1. PICK a : a = ReadingsAfter(x) /\ a \in Nat BY <3>6, <4>1
        <5>2. ReadingsAfter(x)' = a + N BY <3>6, <4>1, <5>1
        <5>3. a < WindowSize /\ a + N < WindowSize BY <3>3, <3>7, <5>1, <5>2
        <5>4. a < L /\ window[L - a] = NonNegative(rounds[x[1]][x[2]])
          BY <3>2, <4>1, <5>1, <5>3 DEF WindowOfCalmRounds, InSlot
        <5>5. a < L BY <5>4
        <5>6. PICK b : b = a + N OBVIOUS
        <5>7. b \in Nat /\ b < L + N /\ b < WindowSize BY <3>3, <5>1, <5>3, <5>5, <5>6
        <5>8. b < k BY <3>5, <5>7
        <5>9. window'[k - b] = window[L - a] BY <3>4, <5>1, <5>6, <5>8
        <5>10. rounds'[x[1]] = rounds[x[1]] BY <3>6, <4>1
        <5>11. QED BY <3>2, <5>2, <5>4, <5>6, <5>8, <5>9, <5>10 DEF InSlot
      <4>2. CASE x \notin CalmReadings
        <5>1. PICK i : i = x[2] OBVIOUS
        <5>2. i \in Fleet /\ ReadingsAfter(x)' = N - i /\ rounds'[x[1]] = ramp
          BY <4>2, <5>1, ReadingsStep
        <5>3. N - i \in Nat /\ N - i < L + N BY <3>3, <5>2 DEF Fleet
        <5>4. N - i < k BY <3>5, <3>7, <5>2, <5>3
        <5>5. window'[k - (N - i)] = NonNegative(ramp[i]) BY <3>4, <5>2, <5>4
        <5>6. QED BY <3>2, <5>1, <5>2, <5>4, <5>5 DEF InSlot
      <4>3. QED BY <4>1, <4>2
    <3>8. ASSUME NEW p \in 1..k
           PROVE  \E x \in CalmReadings' : ReadingsAfter(x)' = k - p
      <4>1. PICK b : b = k - p OBVIOUS
      <4>2. b \in Nat /\ b < k BY <3>5, <4>1
      <4>3. CASE b < N
        <5>1. PICK i : i = N - b OBVIOUS
        <5>2. i \in Fleet /\ N - i = b BY <3>3, <4>2, <4>3, <5>1 DEF Fleet
        <5>3. PICK x \in CalmReadings' : ReadingsAfter(x)' = N - i
          BY <2>2, <5>2, ReadingsStep
        <5>4. QED BY <4>1, <5>2, <5>3
      <4>4. CASE ~(b < N)
        <5>1. PICK m : m = L - (b - N) OBVIOUS
        <5>2. m \in 1..L /\ L - m = b - N BY <3>3, <3>5, <4>2, <4>4, <5>1
        <5>3. PICK x \in CalmReadings : ReadingsAfter(x) = L - m
          BY <3>2, <5>2 DEF WindowOfCalmRounds
        <5>4. x \in CalmReadings' /\ ReadingsAfter(x)' = (b - N) + N BY <3>6, <5>2, <5>3
        <5>5. (b - N) + N = b BY <3>3, <4>2
        <5>6. QED BY <4>1, <5>4, <5>5
      <4>5. QED BY <4>3, <4>4
    <3>9. Len(window') <= WindowSize BY <3>2, <3>5
    <3>10. QED BY <3>2, <3>7, <3>8, <3>9 DEF WindowOfCalmRounds
  <2>3. QED BY <2>1, <2>2
<1>4. QED BY <1>1, <1>2, <1>3

LEMMA WindowStep == TypeOK /\ WindowInv /\ [Next]_vars => WindowInv'
<1> SUFFICES ASSUME TypeOK, WindowInv, [Next]_vars PROVE WindowInv'
  OBVIOUS
<1>1. CASE UNCHANGED <<policy, window, rounds>>
  BY <1>1 DEF WindowInv, WindowOfCalmRounds, InSlot, CalmReadings, ReadingsAfter, CalmAfter
<1>2. ASSUME NEW p \in Prompts, route(p) PROVE WindowInv'
  <2>1. policy' = policy /\ window' = Observed BY <1>2 DEF route, choice
  <2>2. CASE policy = IsolatedPolicy
    <3>1. rounds' = Append(rounds, ramp) BY <1>2, <2>2 DEF route
    <3>2. window' = observe_round(window, ramp)
      BY <2>1, <2>2, Zenon DEF Observed, IsolatedPolicy
    <3>3. ramp \in [Fleet -> Int] BY DEF TypeOK
    <3>4. QED BY <2>1, <2>2, <3>1, <3>2, <3>3, WindowRoute DEF WindowInv
  <2>3. CASE policy # IsolatedPolicy BY <2>1, <2>3 DEF WindowInv
  <2>4. QED BY <2>2, <2>3
<1>3. CASE UNCHANGED vars BY <1>1, <1>3 DEF vars, choice, cursors, history
<1>4. ASSUME NEW i \in Fleet, NEW is_whale \in BOOLEAN, complete(i, is_whale) PROVE WindowInv'
  BY <1>1, <1>4 DEF complete, choice, cursors, history
<1>5. ASSUME NEW reading, NEW dt, NEW upto, PowerPoll(reading, dt, upto) PROVE WindowInv'
  BY <1>1, <1>5 DEF PowerPoll, choice, cursors
<1>6. ASSUME NEW i, NEW lines, Scrape(i, lines) PROVE WindowInv'
  BY <1>1, <1>6 DEF Scrape, choice, cursors, history
<1>7. QED BY <1>2, <1>3, <1>4, <1>5, <1>6 DEF Next

(* The ceiling is the floor or an observation, and more observations than  *)
(* its place in the order are not above it.                                *)
LEMMA CeilingPlace ==
  ASSUME NEW w \in Seq(Nat)
  PROVE  /\ ceiling(w) # Floor => \E p \in 1..Len(w) : ceiling(w) = w[p]
         /\ LET A == {p \in 1..Len(w) : w[p] > ceiling(w)}
            IN  IsFiniteSet(A) /\ 100 * Cardinality(A) <= (100 - Percentile) * Len(w)
<1> DEFINE n == Len(w)
           idx == Min({(n * Percentile) \div 100, n - 1})
           below(j) == {m \in 1..n : w[m] < w[j]}
           ranked == {j \in 1..n : Cardinality(below(j)) <= idx}
           S == {Floor} \cup {w[j] : j \in ranked}
<1>1. ceiling(w) = Max(S)
  <2>1. DOMAIN w = 1..n OBVIOUS
  <2>2. QED BY <2>1, Zenon DEF ceiling
<1>2. n \in Nat /\ IsFiniteSet(1..n) /\ Cardinality(1..n) = n
  <2>1. n \in Nat OBVIOUS
  <2> HIDE DEF n
  <2>2. 1 \in Int /\ n \in Int /\ (IF 1 > n THEN 0 ELSE n - 1 + 1) = n BY <2>1
  <2>3. IsFiniteSet(1..n) /\ Cardinality(1..n) = IF 1 > n THEN 0 ELSE n - 1 + 1
    BY <2>2, FS_Interval
  <2>4. QED BY <2>1, <2>2, <2>3
<1>0. \A p \in 1..n : w[p] \in Nat OBVIOUS
<1>3. S \subseteq Int /\ IsFiniteSet(S) /\ S # {}
  <2>1. IsFiniteSet(ranked) BY <1>2, FS_Subset
  <2>2. IsFiniteSet({w[j] : j \in ranked})
    <3> DEFINE f == [j \in ranked |-> w[j]]
    <3>1. DOMAIN f = ranked /\ {f[j] : j \in ranked} = {w[j] : j \in ranked} OBVIOUS
    <3> HIDE DEF f, ranked
    <3>2. IsFiniteSet({f[j] : j \in ranked}) BY <2>1, <3>1, FiniteImage
    <3>3. QED BY <3>1, <3>2
  <2>3. IsFiniteSet({Floor}) BY FS_Singleton
  <2>4. IsFiniteSet(S) BY <2>2, <2>3, FS_Union
  <2>5. S \subseteq Int
    <3>1. ranked \subseteq 1..n OBVIOUS
    <3> HIDE DEF ranked, n
    <3>2. QED BY <1>0, <3>1, Constants
  <2>6. QED BY <2>4, <2>5
<1>4. PICK c : c = ceiling(w) OBVIOUS
<1>5. c \in S /\ \A y \in S : y <= c
  <2> HIDE DEF S
  <2>1. QED BY <1>1, <1>3, <1>4, FiniteMax
<1>6. c \in Int BY <1>3, <1>5
<1> DEFINE A == {p \in 1..n : w[p] > c}
<1>7. IsFiniteSet(A) /\ Cardinality(A) \in Nat
  <2>1. A \subseteq 1..n OBVIOUS
  <2> HIDE DEF A
  <2>2. QED BY <1>2, <2>1, FS_Subset, FS_CardinalityType
<1>8. c # Floor => \E p \in 1..n : c = w[p] BY <1>5
<1>9. 100 * Cardinality(A) <= (100 - Percentile) * n
  <2>1. Percentile \in 0..100 BY RouterCoreAssumption
  <2>2. CASE A = {}
    <3>1. Cardinality(A) = 0 BY <2>2, FS_EmptySet
    <3>2. 100 - Percentile \in Nat BY <2>1
    <3>3. (100 - Percentile) * n \in Nat BY <1>2, <3>2, ProductType
    <3> HIDE DEF A
    <3>4. QED BY <3>1, <3>3
  <2>3. CASE A # {}
    <3>1. PICK m \in A : \A p \in A : w[m] <= w[p]
      <4> DEFINE T == {w[p] : p \in A}
      <4>0. A \subseteq 1..n OBVIOUS
      <4> HIDE DEF A, n
      <4>1. T \subseteq Nat /\ T # {} BY <1>0, <2>3, <4>0
      <4> HIDE DEF T
      <4>2. PICK t \in T : \A u \in T : t <= u BY <4>1, LeastElement
      <4>3. QED BY <4>2 DEF T
    <3> DEFINE B == below(m)
    <3>2. m \notin ranked
      <4>1. m \in 1..n /\ w[m] > c OBVIOUS
      <4>2. ASSUME m \in ranked PROVE w[m] <= c
        <5> HIDE DEF ranked
        <5>1. w[m] \in S BY <4>2
        <5> HIDE DEF S
        <5>2. QED BY <1>5, <5>1
      <4> HIDE DEF n, ranked
      <4>3. QED BY <1>0, <1>6, <4>1, <4>2
    <3>3. ~(Cardinality(B) <= idx)
      <4>1. m \in 1..n OBVIOUS
      <4> HIDE DEF A, below, idx, n
      <4>2. QED BY <3>2, <4>1
    <3>4. A \cap B = {} /\ A \cup B \subseteq 1..n /\ B \subseteq 1..n BY <3>1
    <3> HIDE DEF A, B
    <3>5. IsFiniteSet(B) /\ Cardinality(B) \in Nat BY <1>2, <3>4, FS_Subset, FS_CardinalityType
    <3>6. Cardinality(A) + Cardinality(B) <= n
      <4>1. Cardinality(A \cup B) = Cardinality(A) + Cardinality(B) - Cardinality(A \cap B)
        BY <1>7, <3>5, FS_Union
      <4>2. Cardinality(A \cap B) = 0 BY <3>4, FS_EmptySet
      <4>3. Cardinality(A \cup B) <= n BY <1>2, <3>4, FS_Subset
      <4>4. QED BY <1>7, <3>5, <4>1, <4>2, <4>3
    <3>7. Cardinality(A) > 0 BY <1>7, <2>3, FS_EmptySet
    <3>8. PICK a, b, x : a = Cardinality(A) /\ b = Cardinality(B) /\ x = n * Percentile OBVIOUS
    <3>9. a \in Nat /\ b \in Nat /\ a + b <= n /\ a > 0 BY <1>7, <3>5, <3>6, <3>7, <3>8
    <3>10. x \in Nat BY <1>2, <2>1, <3>8, ProductType
    <3>11. idx = IF x \div 100 <= n - 1 THEN x \div 100 ELSE n - 1
      <4>1. x \div 100 \in Int /\ n - 1 \in Int BY <1>2, <3>10
      <4>2. QED BY <3>8, <4>1, MinOfTwo
    <3> HIDE DEF idx, n
    <3>12. b > idx
      <4>1. idx \in Int BY <1>2, <3>10, <3>11
      <4>2. QED BY <3>3, <3>8, <3>9, <4>1
    <3>13. x < 100 * b
      <4>1. b >= (x \div 100) + 1 BY <1>2, <3>9, <3>10, <3>11, <3>12
      <4>2. x < 100 * ((x \div 100) + 1) BY <3>10
      <4>3. QED BY <3>9, <3>10, <4>1, <4>2
    <3>14. (100 - Percentile) * n = 100 * n - x BY <1>2, <2>1, <3>8
    <3>15. 100 * a <= 100 * n - x BY <1>2, <3>9, <3>10, <3>13
    <3>16. QED BY <3>8, <3>14, <3>15
  <2>4. QED BY <2>2, <2>3
<1> HIDE DEF A
<1>10. QED BY <1>4, <1>7, <1>8, <1>9 DEF A

(* The slots of the window and the recent readings are as many, and in     *)
(* each slot is the reading that is counted there.                         *)
LEMMA RecentFillsWindow ==
  ASSUME WindowInv, policy = IsolatedPolicy
  PROVE  \E f \in Bijection(Recent, 1..Len(window)) :
           \A x \in Recent : window[f[x]] = NonNegative(rounds[x[1]][x[2]])
<1>1. rounds \in Seq([Fleet -> Int]) /\ window \in Seq(Nat) /\ WindowOfCalmRounds
  BY DEF WindowInv
<1> DEFINE f == [x \in Recent |-> Len(window) - ReadingsAfter(x)]
<1>2. PICK L : L = Len(window) /\ L \in Nat BY <1>1
<1>3. \A x \in Recent :
        /\ x \in CalmReadings /\ ReadingsAfter(x) \in Nat /\ ReadingsAfter(x) < L
        /\ window[L - ReadingsAfter(x)] = NonNegative(rounds[x[1]][x[2]])
  BY <1>1, <1>2, ReadingType DEF Recent, WindowOfCalmRounds, InSlot
<1>4. \A x \in Recent : f[x] = L - ReadingsAfter(x) /\ f[x] \in 1..L
  <2> SUFFICES ASSUME NEW x \in Recent PROVE f[x] = L - ReadingsAfter(x) /\ f[x] \in 1..L
    OBVIOUS
  <2>1. PICK a : a = ReadingsAfter(x) /\ a \in Nat /\ a < L BY <1>3
  <2>2. f[x] = L - a BY <1>2, <2>1
  <2>3. QED BY <1>2, <2>1, <2>2
<1>5. f \in [Recent -> 1..L] BY <1>4
<1> HIDE DEF f
<1>6. \A x, y \in Recent : f[x] = f[y] => x = y
  <2> SUFFICES ASSUME NEW x \in Recent, NEW y \in Recent, f[x] = f[y] PROVE x = y
    OBVIOUS
  <2>1. PICK a, b : a = ReadingsAfter(x) /\ b = ReadingsAfter(y) OBVIOUS
  <2>2. a \in Nat /\ b \in Nat /\ L - a = L - b BY <1>3, <1>4, <2>1
  <2>3. a = b BY <1>2, <2>2
  <2>4. QED BY <1>1, <1>3, <2>1, <2>3, OwnPlace
<1>7. \A p \in 1..L : \E x \in Recent : f[x] = p
  <2> SUFFICES ASSUME NEW p \in 1..L PROVE \E x \in Recent : f[x] = p
    OBVIOUS
  <2>1. PICK x \in CalmReadings : ReadingsAfter(x) = L - p BY <1>1, <1>2 DEF WindowOfCalmRounds
  <2>2. L <= WindowSize /\ WindowSize \in Nat
    BY <1>1, <1>2, RouterCoreAssumption DEF WindowOfCalmRounds
  <2>3. ReadingsAfter(x) < WindowSize BY <1>2, <2>1, <2>2
  <2>4. x \in Recent BY <2>1, <2>3 DEF Recent
  <2>5. f[x] = L - (L - p) BY <1>4, <2>1, <2>4
  <2>6. QED BY <1>2, <2>4, <2>5
<1>8. f \in Bijection(Recent, 1..L)
  BY <1>5, <1>6, <1>7 DEF Bijection, Injection, Surjection, IsInjective
<1>9. QED BY <1>2, <1>3, <1>4, <1>8

(* The adaptive ceiling follows the most recent readings of the calm       *)
(* decisions: above the floor it is one of them, and at most the share     *)
(* that the percentile leaves out are above it, for any fleet, window and  *)
(* percentile, and however many concentrated decisions lie in between.     *)
THEOREM CeilingFollowsCalmRounds == Spec => []CeilingOfCalmRounds
<1>1. WindowInv => CeilingOfCalmRounds
  <2> SUFFICES ASSUME WindowInv, policy = IsolatedPolicy
               PROVE  LET reading(x) == rounds[x[1]][x[2]]
                          over == {x \in Recent : reading(x) > ceiling(window)}
                      IN  /\ ceiling(window) # Floor =>
                               \E x \in Recent : reading(x) = ceiling(window)
                          /\ 100 * Cardinality(over) <= (100 - Percentile) * Cardinality(Recent)
    BY DEF CeilingOfCalmRounds
  <2> DEFINE reading(x) == rounds[x[1]][x[2]]
             over == {x \in Recent : reading(x) > ceiling(window)}
             A == {p \in 1..Len(window) : window[p] > ceiling(window)}
  <2>1. rounds \in Seq([Fleet -> Int]) /\ window \in Seq(Nat) BY DEF WindowInv
  <2>2. PICK f \in Bijection(Recent, 1..Len(window)) :
          \A x \in Recent : window[f[x]] = NonNegative(reading(x))
    BY RecentFillsWindow
  <2>3. PICK c : c = ceiling(window) OBVIOUS
  <2>4. c \in Nat \ {0} BY <2>1, <2>3, CeilingType
  <2>5. \A x \in Recent : reading(x) \in Int BY <2>1, ReadingType DEF Recent
  <2>6. \A x \in Recent : /\ window[f[x]] = c => reading(x) = c
                          /\ reading(x) > c => window[f[x]] > c
    <3> SUFFICES ASSUME NEW x \in Recent
                 PROVE  /\ window[f[x]] = c => reading(x) = c
                        /\ reading(x) > c => window[f[x]] > c
      OBVIOUS
    <3>1. PICK v : v = reading(x) OBVIOUS
    <3>2. v \in Int BY <2>5, <3>1
    <3>3. window[f[x]] = IF v >= 0 THEN v ELSE 0
      <4>1. NonNegative(v) = IF 0 >= v THEN 0 ELSE v BY <3>2, MaxOfTwo DEF NonNegative
      <4>2. window[f[x]] = NonNegative(v) BY <2>2, <3>1
      <4>3. QED BY <3>2, <4>1, <4>2
    <3>4. QED BY <2>4, <3>1, <3>2, <3>3
  <2>7. /\ f \in [Recent -> 1..Len(window)]
        /\ \A p \in 1..Len(window) : \E x \in Recent : f[x] = p
        /\ \A x, y \in Recent : f[x] = f[y] => x = y
    BY <2>2 DEF Bijection, Injection, Surjection, IsInjective
  <2>8. ASSUME c # Floor PROVE \E x \in Recent : reading(x) = c
    <3>1. PICK p \in 1..Len(window) : c = window[p] BY <2>1, <2>3, <2>8, CeilingPlace
    <3>2. PICK x \in Recent : f[x] = p BY <2>7
    <3>3. QED BY <2>6, <3>1, <3>2
  <2>9. IsFiniteSet(A) /\ 100 * Cardinality(A) <= (100 - Percentile) * Len(window)
    BY <2>1, CeilingPlace
  <2>10. Cardinality(over) <= Cardinality(A) /\ Cardinality(over) \in Nat /\ Cardinality(A) \in Nat
    <3> DEFINE g == [x \in over |-> f[x]]
    <3>1. \A x \in over : f[x] \in A BY <2>3, <2>6, <2>7
    <3>2. \A x, y \in over : f[x] = f[y] => x = y BY <2>7
    <3> HIDE DEF over, A
    <3>3. g \in Injection(over, A) BY <3>1, <3>2 DEF Injection, IsInjective
    <3> HIDE DEF g
    <3>4. IsFiniteSet(over) /\ Cardinality(over) <= Cardinality(A) BY <2>9, <3>3, FS_Injection
    <3>5. QED BY <2>9, <3>4, FS_CardinalityType
  <2>11. Cardinality(Recent) = Len(window)
    <3>1. PICK n : n = Len(window) /\ n \in Nat BY <2>1
    <3>2. IsFiniteSet(1..n) /\ Cardinality(1..n) = n
      <4>1. 1 \in Int /\ n \in Int /\ (IF 1 > n THEN 0 ELSE n - 1 + 1) = n BY <3>1
      <4>2. QED BY <4>1, FS_Interval
    <3>3. f \in Injection(Recent, 1..n) /\ f \in Surjection(Recent, 1..n)
      BY <2>2, <3>1 DEF Bijection
    <3>4. QED BY <3>1, <3>2, <3>3, FS_Injection
  <2>12. 100 * Cardinality(over) <= (100 - Percentile) * Cardinality(Recent)
    <3> HIDE DEF over, A
    <3>1. 100 * Cardinality(over) <= 100 * Cardinality(A) BY <2>10
    <3>2. PICK y : y = (100 - Percentile) * Len(window) OBVIOUS
    <3>3. y \in Int
      <4>1. 100 - Percentile \in Nat /\ Len(window) \in Nat BY <2>1, RouterCoreAssumption
      <4>2. QED BY <3>2, <4>1, ProductType
    <3>4. 100 * Cardinality(over) <= y BY <2>9, <2>10, <3>1, <3>2, <3>3
    <3>5. QED BY <2>11, <3>2, <3>4
  <2>13. QED BY <2>3, <2>8, <2>12
<1>2. TypeOK /\ WindowInv /\ [Next]_vars => WindowInv' BY WindowStep
<1>3. QED BY <1>1, <1>2, WindowInit, RouterTypeOK, PTL DEF Spec

-----------------------------------------------------------------------------
(* Ties.  min keeps one candidate: two could only both be kept if each had *)
(* the smaller score or the earlier turn.                                  *)

IsScore(s, n) == s \in Seq(Int) /\ Len(s) = n

LEMMA LexAsymmetric ==
  ASSUME NEW n \in Nat, NEW s, NEW t, IsScore(s, n), IsScore(t, n), LexLess(s, t)
  PROVE  ~LexLess(t, s)
<1> SUFFICES ASSUME LexLess(t, s) PROVE FALSE
  OBVIOUS
<1>1. \A m \in 1..n : s[m] \in Int /\ t[m] \in Int BY DEF IsScore
<1>2. PICK j \in 1..n : s[j] < t[j] /\ \A m \in 1..(j - 1) : s[m] = t[m]
  BY DEF LexLess, IsScore
<1>3. PICK k \in 1..n : t[k] < s[k] /\ \A m \in 1..(k - 1) : t[m] = s[m]
  BY DEF LexLess, IsScore
<1>4. CASE j < k
  <2>1. j \in 1..(k - 1) BY <1>4
  <2>2. QED BY <1>1, <1>2, <1>3, <2>1
<1>5. CASE k < j
  <2>1. k \in 1..(j - 1) BY <1>5
  <2>2. QED BY <1>1, <1>2, <1>3, <2>1
<1>6. CASE j = k BY <1>1, <1>2, <1>3, <1>6
<1>7. QED BY <1>4, <1>5, <1>6

LEMMA TurnType ==
  ASSUME NEW n \in Nat, NEW F, F \subseteq 1..n, NEW x \in F, NEW start \in Int
  PROVE  Turn(F, x, start) \in Int
<1> DEFINE B == {j \in F : j < x}
<1>1. IsFiniteSet(F)
  <2>1. IsFiniteSet(1..n) BY FS_Interval
  <2>2. QED BY <2>1, FS_Subset
<1>2. B \subseteq F OBVIOUS
<1> HIDE DEF B
<1>3. IsFiniteSet(B) BY <1>1, <1>2, FS_Subset
<1>4. Cardinality(B) \in Nat /\ Cardinality(F) \in Nat BY <1>1, <1>3, FS_CardinalityType
<1>5. Cardinality(F) # 0 BY <1>1, FS_EmptySet
<1> DEFINE a == Cardinality(B)
           b == Cardinality(F)
<1>6. a \in Nat /\ b \in Nat \ {0} BY <1>4, <1>5
<1> HIDE DEF a, b
<1>7. (a - start) % b \in Int BY <1>6
<1>8. QED BY <1>7 DEF Turn, a, b, B

(* What min promises of position x over position y.                        *)
Preferred(F, start, x, y, s, t) ==
  \/ x = y
  \/ LexLess(s, t)
  \/ NoBetter(t, s) /\ Turn(F, x, start) < Turn(F, y, start)

LEMMA OnlyOnePreferred ==
  ASSUME NEW m \in Nat, NEW F, F \subseteq 1..m, NEW start \in Int, NEW x \in F, NEW y \in F,
         NEW n \in Nat, NEW s, NEW t, IsScore(s, n), IsScore(t, n),
         Preferred(F, start, x, y, s, t), Preferred(F, start, y, x, t, s)
  PROVE  x = y
<1> SUFFICES ASSUME x # y PROVE FALSE
  OBVIOUS
<1>1. ~(LexLess(s, t) /\ LexLess(t, s)) BY LexAsymmetric
<1>2. Turn(F, x, start) \in Int /\ Turn(F, y, start) \in Int BY TurnType
<1>3. ~(Turn(F, x, start) < Turn(F, y, start) /\ Turn(F, y, start) < Turn(F, x, start))
  BY <1>2
<1>4. QED BY <1>1, <1>3 DEF Preferred, NoBetter

-----------------------------------------------------------------------------
(* The scores are tuples of integers.                                      *)

LEMMA Tuple1 == \A x \in Int : IsScore(<<x>>, 1)
BY DEF IsScore

LEMMA Tuple2 == \A x, y \in Int : IsScore(<<x, y>>, 2)
BY DEF IsScore

LEMMA Tuple3 == \A x, y, z \in Int : IsScore(<<x, y, z>>, 3)
BY DEF IsScore

LEMMA Tuple4 == \A x, y, z, u \in Int : IsScore(<<x, y, z, u>>, 4)
BY DEF IsScore

LEMMA FullVectorType ==
  ASSUME NEW c \in Candidate, NEW p \in Nat
  PROVE  IsScore(FullVector(c, p), 4)
<1>1. share_compute(c) \in Int /\ share_load(c) \in Int /\ p \in Int BY ShareTypes
<1>2. DominantShare(c, p) \in Int BY DominantType
<1>3. QED BY <1>1, <1>2, Tuple4 DEF FullVector

LEMMA PairType ==
  ASSUME NEW x \in Int, NEW y \in Int
  PROVE  IsScore(Descending2(x, y), 2)
<1>1. Max({x, y}) \in Int /\ Min({x, y}) \in Int BY MaxOfTwo, MinOfTwo
<1>2. QED BY <1>1, Tuple2 DEF Descending2

LEMMA SortedVectorType ==
  ASSUME NEW c \in Candidate
  PROVE  IsScore(dominant_share_vector(c), 3)
<1> DEFINE a == share_compute(c)
           b == share_load(c)
           p == share_power(c)
           hi == Max({a, b, p})
           lo == Min({a, b, p})
<1>1. a \in Int /\ b \in Int /\ p \in Int BY ShareTypes
<1> HIDE DEF a, b, p
<1>2. hi \in {a, b, p} /\ lo \in {a, b, p} BY <1>1, MaxOfThree, MinOfThree
<1> HIDE DEF hi, lo
<1>3. hi \in Int /\ lo \in Int BY <1>1, <1>2
<1>4. a + b + p - hi - lo \in Int BY <1>1, <1>3
<1>5. IsScore(<<hi, a + b + p - hi - lo, lo>>, 3) BY <1>3, <1>4, Tuple3
<1>6. QED BY <1>5 DEF dominant_share_vector, Descending3, hi, lo, a, b, p

LEMMA PriorityTypes ==
  ASSUME NEW c \in Candidate
  PROVE  /\ IsScore(dominant_share_vector_power_priority(c), 3)
         /\ IsScore(dominant_share_vector_peak_priority(c), 3)
         /\ IsScore(dominant_share_vector_no_power(c), 2)
<1>1. share_power(c) \in Nat /\ share_power_level(c) \in Nat /\ share_load(c) \in Int
      /\ share_compute(c) \in Int
  BY ShareTypes
<1>2. dominant_share(c) \in Int /\ dominant_share_peak(c) \in Int
  BY <1>1, DominantType DEF dominant_share, dominant_share_peak
<1>3. IsScore(dominant_share_vector_power_priority(c), 3)
  BY <1>1, <1>2, Tuple3 DEF dominant_share_vector_power_priority
<1>4. IsScore(dominant_share_vector_peak_priority(c), 3)
  BY <1>1, <1>2, Tuple3 DEF dominant_share_vector_peak_priority
<1>5. IsScore(dominant_share_vector_no_power(c), 2)
  BY <1>1, PairType DEF dominant_share_vector_no_power
<1>6. QED BY <1>3, <1>4, <1>5

LEMMA CoincidenceType ==
  ASSUME NEW C, Typed(C), Len(C) \in Nat, NEW c \in Candidate
  PROVE  IsScore(dominant_share_vector_power_priority_coincidence(c, C), 3)
<1> DEFINE k_now == Cardinality(Ramping(C))
           resulting_k == IF share_power(c) > One THEN k_now ELSE k_now + 1
<1>1. k_now \in Nat
  <2>1. Ramping(C) \subseteq DOMAIN C BY DEF Ramping
  <2>2. IsFiniteSet(Ramping(C)) BY <2>1, FS_Subset DEF Typed
  <2>3. QED BY <2>2, FS_CardinalityType
<1>2. share_power_coincidence(c, C)
        = IF Len(C) <= 1 THEN 0 ELSE Share(NonNegative(resulting_k - 1), Len(C) - 1)
  BY DEF share_power_coincidence
<1> HIDE DEF k_now
<1>3. resulting_k \in Nat BY <1>1
<1> HIDE DEF resulting_k
<1>4. NonNegative(resulting_k - 1) \in Nat BY <1>3, Positive
<1>5. ~(Len(C) <= 1) => Len(C) - 1 \in Nat \ {0}
  <2>1. PICK n \in Nat : n = Len(C) OBVIOUS
  <2>2. ~(n <= 1) => n - 1 \in Nat \ {0} OBVIOUS
  <2>3. QED BY <2>1, <2>2, Zenon
<1>6. ~(Len(C) <= 1) => Share(NonNegative(resulting_k - 1), Len(C) - 1) \in Nat
  BY <1>4, <1>5, ShareType, Zenon
<1>7. share_power_coincidence(c, C) \in Nat BY <1>2, <1>6
<1>8. dominant_share_coincidence(c, C) \in Int
  BY <1>7, DominantType DEF dominant_share_coincidence
<1>9. share_load(c) \in Int BY ShareTypes
<1>10. QED BY <1>7, <1>8, <1>9, Tuple3 DEF dominant_share_vector_power_priority_coincidence

LEMMA Products ==
  ASSUME NEW x \in Nat, NEW y \in Nat, NEW z \in Nat
  PROVE  IsScore(<<x * y * z>>, 1) /\ IsScore(<<x * y>>, 1)
<1>1. x * y \in Nat BY ProductType
<1> DEFINE p == x * y
<1>2. p \in Nat BY <1>1
<1> HIDE DEF p
<1>3. p * z \in Nat BY <1>2, ProductType
<1>4. IsScore(<<p * z>>, 1) /\ IsScore(<<p>>, 1) BY <1>2, <1>3, Tuple1
<1>5. QED BY <1>4 DEF p

LEMMA ScalarTypes ==
  ASSUME NEW c \in Candidate, NEW k \in Nat, NEW inv \in Nat
  PROVE  /\ IsScore(lmetric_score(c), 1)
         /\ IsScore(lmetric_power_score_coincidence_ceiling(c, k), 1)
         /\ IsScore(lmetric_power_score(c), 1)
         /\ IsScore(lmetric_power_convex_score(c), 1)
         /\ IsScore(lmetric_power_pareto_score_coincidence_ceiling(c, k), 1)
         /\ IsScore(lmetric_power_pareto_score(c), 1)
         /\ IsScore(lmetric_power_pareto_epsilon_score_coincidence_ceiling(c, k, inv), 1)
         /\ IsScore(lmetric_power_pareto_epsilon_zero_score(c, k), 1)
         /\ IsScore(lmetric_power_pareto_epsilon_all_score_coincidence_ceiling(c, k, inv), 1)
         /\ IsScore(weighted_sum_score_coincidence_ceiling(c, k), 1)
         /\ IsScore(weighted_sum_score(c), 1)
         /\ IsScore(weighted_sum_score_no_power(c), 1)
         /\ IsScore(<<c.new_tokens>>, 1) /\ IsScore(<<c.in_flight_after>>, 1)
         /\ IsScore(<<share_power(c)>>, 1) /\ IsScore(<<c.active_whale_count_after>>, 1)
<1> DEFINE a == share_compute(c)
           b == share_load(c)
           p == share_power(c)
           t == c.new_tokens
           f == c.in_flight_after
           q == k * p
           r == p * p
<1>1. a \in Nat /\ b \in Nat /\ p \in Nat BY ShareTypes
<1>2. t \in Nat /\ f \in Nat /\ c.active_whale_count_after \in Nat BY DEF Candidate
<1> HIDE DEF a, b, p, t, f
<1>3. q \in Nat /\ r \in Nat /\ 1 * p \in Nat BY <1>1, ProductType
<1>4. One * One \in Nat BY ScoringConstants, ProductType
<1> DEFINE o == One * One
           u == 1 * p
           sa == inv * a
           sb == inv * b
           sq == inv * q
<1> HIDE DEF q, r
<1>5. sa \in Nat /\ sb \in Nat /\ sq \in Nat BY <1>1, <1>3, ProductType
<1>6. o \in Nat /\ u \in Nat BY <1>3, <1>4
<1> HIDE DEF o, u, sa, sb, sq
<1>7. /\ One + q \in Nat /\ One + u \in Nat /\ o + r \in Nat /\ One + a \in Nat /\ One + b \in Nat
      /\ One + sa \in Nat /\ One + sb \in Nat /\ One + sq \in Nat
      /\ a + b + q \in Int /\ a + b + u \in Int /\ a + b \in Int
  BY <1>1, <1>3, <1>5, <1>6, ScoringConstants
<1>8. /\ IsScore(<<t * f>>, 1) /\ IsScore(<<t * f * (One + q)>>, 1)
      /\ IsScore(<<t * f * (One + u)>>, 1) /\ IsScore(<<t * f * (o + r)>>, 1)
      /\ IsScore(<<(One + a) * (One + b) * (One + q)>>, 1)
      /\ IsScore(<<(One + a) * (One + b) * (One + u)>>, 1)
      /\ IsScore(<<(One + sa) * (One + sb) * (One + q)>>, 1)
      /\ IsScore(<<a * b * (One + q)>>, 1)
      /\ IsScore(<<(One + sa) * (One + sb) * (One + sq)>>, 1)
  BY <1>1, <1>2, <1>7, Products
<1>9. /\ IsScore(<<a + b + q>>, 1) /\ IsScore(<<a + b + u>>, 1) /\ IsScore(<<a + b>>, 1)
      /\ IsScore(<<t>>, 1) /\ IsScore(<<f>>, 1) /\ IsScore(<<p>>, 1)
      /\ IsScore(<<c.active_whale_count_after>>, 1)
  BY <1>1, <1>2, <1>7, Tuple1
<1>10. QED
  BY <1>8, <1>9, Zenon
     DEF lmetric_score, lmetric_power_score_coincidence_ceiling, lmetric_power_score,
         lmetric_power_convex_score, lmetric_power_pareto_score_coincidence_ceiling,
         lmetric_power_pareto_score, lmetric_power_pareto_epsilon_score_coincidence_ceiling,
         lmetric_power_pareto_epsilon_zero_score,
         lmetric_power_pareto_epsilon_all_score_coincidence_ceiling,
         weighted_sum_score_coincidence_ceiling, weighted_sum_score,
         weighted_sum_score_no_power, Shifted, a, b, p, t, f, q, r, o, u, sa, sb, sq

(* A finite set that a relation orders has a first element.                *)
LEMMA FirstElement ==
  ASSUME NEW S, IsFiniteSet(S), NEW R,
         \A x, y \in S : x = y \/ <<x, y>> \in R \/ <<y, x>> \in R,
         \A x, y, z \in S : <<x, y>> \in R /\ <<y, z>> \in R => <<x, z>> \in R
  PROVE  S # {} => \E x \in S : \A y \in S : x = y \/ <<x, y>> \in R
<1> DEFINE D == {s \in SUBSET S : s # {} /\ ~ \E x \in s : \A y \in s : x = y \/ <<x, y>> \in R}
<1>1. ASSUME D # {} PROVE FALSE
  <2>1. D \in SUBSET SUBSET S OBVIOUS
  <2>2. \E x \in D : \A y \in D : y \subseteq x => y = x
    <3> HIDE DEF D
    <3> QED BY <1>1, <2>1, SmallestSubset
  <2> PICK s \in D : \A y \in D : y \subseteq s => y = s BY <2>2
  <2>3. PICK a \in s : TRUE OBVIOUS
  <2>4. CASE s = {a} BY <2>4
  <2>5. CASE s # {a}
    <3>1. s \ {a} \in SUBSET S /\ s \ {a} # {} /\ s \ {a} # s BY <2>5
    <3>2. PICK b \in s \ {a} : \A y \in s \ {a} : b = y \/ <<b, y>> \in R
      <4>1. s \ {a} \notin D
        <5> HIDE DEF D
        <5>1. QED BY <3>1, <2>2
      <4>2. QED BY <3>1, <4>1
    <3>3. a \in S /\ b \in S /\ s \subseteq S OBVIOUS
    <3>4. CASE <<a, b>> \in R
      <4>1. \A y \in s : a = y \/ <<a, y>> \in R BY <3>2, <3>3, <3>4
      <4> QED BY <4>1
    <3>5. CASE <<b, a>> \in R
      <4>1. \A y \in s : b = y \/ <<b, y>> \in R BY <3>2, <3>3, <3>5
      <4> QED BY <4>1
    <3> QED BY <3>2, <3>3, <3>4, <3>5
  <2> QED BY <2>4, <2>5
<1>2. D = {} BY <1>1
<1> QED BY <1>2

LEMMA LexTotal ==
  ASSUME NEW n \in Nat, NEW s, NEW t, IsScore(s, n), IsScore(t, n)
  PROVE  s = t \/ LexLess(s, t) \/ LexLess(t, s)
<1> SUFFICES ASSUME s # t PROVE LexLess(s, t) \/ LexLess(t, s)
  OBVIOUS
<1> DEFINE E == {k \in 1..n : s[k] # t[k]}
<1>1. \A k \in 1..n : s[k] \in Int /\ t[k] \in Int BY DEF IsScore
<1>2. E # {}
  <2>1. s \in Seq(Int) /\ t \in Seq(Int) /\ Len(s) = n /\ Len(t) = n BY DEF IsScore
  <2>2. QED BY <2>1, SeqEqual
<1>3. E \subseteq Nat OBVIOUS
<1> HIDE DEF E
<1>4. PICK k \in E : \A m \in E : k <= m BY <1>2, <1>3, LeastElement
<1>5. k \in 1..n /\ s[k] # t[k] BY DEF E
<1>6. \A m \in 1..(k - 1) : s[m] = t[m]
  <2> SUFFICES ASSUME NEW m \in 1..(k - 1), s[m] # t[m] PROVE FALSE
    OBVIOUS
  <2>1. m \in E BY <1>5 DEF E
  <2>2. QED BY <1>4, <1>5, <2>1
<1>7. s[k] < t[k] \/ t[k] < s[k] BY <1>1, <1>5
<1>8. Len(s) = n /\ Len(t) = n BY DEF IsScore
<1>9. QED BY <1>5, <1>6, <1>7, <1>8 DEF LexLess

LEMMA LexTransitive ==
  ASSUME NEW n \in Nat, NEW s, NEW t, NEW u, IsScore(s, n), IsScore(t, n), IsScore(u, n),
         LexLess(s, t), LexLess(t, u)
  PROVE  LexLess(s, u)
<1>1. \A m \in 1..n : s[m] \in Int /\ t[m] \in Int /\ u[m] \in Int BY DEF IsScore
<1>2. Len(s) = n /\ Len(t) = n BY DEF IsScore
<1>3. PICK j \in 1..n : s[j] < t[j] /\ \A m \in 1..(j - 1) : s[m] = t[m]
  BY <1>2 DEF LexLess
<1>4. PICK k \in 1..n : t[k] < u[k] /\ \A m \in 1..(k - 1) : t[m] = u[m]
  BY <1>2 DEF LexLess
<1>5. CASE j <= k
  <2>1. s[j] < u[j]
    <3>1. CASE j = k BY <1>1, <1>3, <1>4, <3>1
    <3>2. CASE j < k
      <4>1. j \in 1..(k - 1) BY <3>2
      <4>2. QED BY <1>1, <1>3, <1>4, <4>1
    <3>3. QED BY <1>5, <3>1, <3>2
  <2>2. \A m \in 1..(j - 1) : s[m] = u[m]
    <3> SUFFICES ASSUME NEW m \in 1..(j - 1) PROVE s[m] = u[m]
      OBVIOUS
    <3>1. m \in 1..(k - 1) BY <1>5
    <3>2. QED BY <1>3, <1>4, <3>1
  <2>3. QED BY <1>2, <2>1, <2>2 DEF LexLess
<1>6. CASE k < j
  <2>1. k \in 1..(j - 1) BY <1>6
  <2>2. s[k] < u[k] BY <1>1, <1>3, <1>4, <2>1
  <2>3. \A m \in 1..(k - 1) : s[m] = u[m]
    <3> SUFFICES ASSUME NEW m \in 1..(k - 1) PROVE s[m] = u[m]
      OBVIOUS
    <3>1. m \in 1..(j - 1) BY <1>6
    <3>2. QED BY <1>3, <1>4, <3>1
  <2>4. QED BY <1>2, <2>2, <2>3 DEF LexLess
<1>7. QED BY <1>5, <1>6

-----------------------------------------------------------------------------
(* The turns of different candidates differ.                               *)

LEMMA SameRemainder ==
  ASSUME NEW n \in Nat \ {0}, NEW a \in Int, NEW b \in Int, a % n = b % n, a - b < n, b - a < n
  PROVE  a = b
<1> DEFINE p == a \div n
           q == b \div n
<1>1. a = n * p + (a % n) /\ b = n * q + (b % n) /\ p \in Int /\ q \in Int OBVIOUS
<1> HIDE DEF p, q
<1>2. a - b = n * (p - q) BY <1>1
<1>3. p - q \in Int BY <1>1
<1> DEFINE d == p - q
<1> HIDE DEF d
<1>4. d \in Int /\ n * d < n /\ -(n * d) < n BY <1>2, <1>3 DEF d
<1>5. d = 0
  <2>1. ASSUME d >= 1 PROVE FALSE
    <3>1. n * d >= n BY <1>4, <2>1
    <3>2. QED BY <1>4, <3>1
  <2>2. ASSUME d <= -1 PROVE FALSE
    <3>1. n * d <= -n BY <1>4, <2>2
    <3>2. QED BY <1>4, <3>1
  <2>3. QED BY <1>4, <2>1, <2>2
<1>6. p = q BY <1>1, <1>5 DEF d
<1>7. QED BY <1>1, <1>6

LEMMA TurnsDiffer ==
  ASSUME NEW m \in Nat, NEW F, F \subseteq 1..m, NEW x \in F, NEW y \in F, x < y,
         NEW start \in Int
  PROVE  Turn(F, x, start) # Turn(F, y, start)
<1> DEFINE A == {j \in F : j < x}
           B == {j \in F : j < y}
<1>1. IsFiniteSet(F)
  <2>1. IsFiniteSet(1..m) BY FS_Interval
  <2>2. QED BY <2>1, FS_Subset
<1>2. A \subseteq B /\ x \in B /\ x \notin A /\ B \subseteq F /\ y \in F /\ y \notin B
  <2>1. x \in Int /\ y \in Int /\ x < y /\ ~(x < x) /\ ~(y < y) OBVIOUS
  <2>2. \A j \in F : j < x => j < y OBVIOUS
  <2>3. A \subseteq B BY <2>2
  <2>4. x \in B /\ x \notin A /\ y \notin B BY <2>1
  <2>5. QED BY <2>3, <2>4
<1> HIDE DEF A, B
<1>3. IsFiniteSet(A) /\ IsFiniteSet(B) BY <1>1, <1>2, FS_Subset
<1>4. Cardinality(A) \in Nat /\ Cardinality(B) \in Nat /\ Cardinality(F) \in Nat
  BY <1>1, <1>3, FS_CardinalityType
<1>5. Cardinality(A) < Cardinality(B)
  <2>1. Cardinality(A) <= Cardinality(B) /\ (Cardinality(A) = Cardinality(B) => A = B)
    BY <1>2, <1>3, FS_Subset
  <2>2. QED BY <1>2, <1>4, <2>1
<1>6. Cardinality(B) < Cardinality(F)
  <2>1. Cardinality(B) <= Cardinality(F) /\ (Cardinality(B) = Cardinality(F) => B = F)
    BY <1>1, <1>2, FS_Subset
  <2>2. QED BY <1>2, <1>4, <2>1
<1> DEFINE a == Cardinality(A)
           b == Cardinality(B)
           n == Cardinality(F)
<1>7. a \in Nat /\ b \in Nat /\ n \in Nat \ {0} /\ a < b /\ b < n BY <1>5, <1>6, <1>4
<1> HIDE DEF a, b, n
<1>8. /\ a - start \in Int /\ b - start \in Int /\ (a - start) # (b - start)
      /\ (a - start) - (b - start) < n /\ (b - start) - (a - start) < n
  BY <1>7
<1>9. (a - start) % n # (b - start) % n BY <1>7, <1>8, SameRemainder
<1>10. QED BY <1>9 DEF Turn, a, b, n, A, B

IsOneOf(S, D) == \E x \in D : S = {x}

(* min over the candidates F, when f has their scores.                     *)
MinOf(F, start, f) == {x \in F : \A y \in F : Preferred(F, start, x, y, f[x], f[y])}

(* It keeps exactly one of them.                                           *)
LEMMA OneOfAll ==
  ASSUME NEW m \in Nat, NEW F, F \subseteq 1..m, F # {}, NEW start \in Int, NEW f,
         NEW n \in Nat, \A x \in F : IsScore(f[x], n)
  PROVE  IsOneOf(MinOf(F, start, f), F)
<1> DEFINE P == MinOf(F, start, f)
           turn == [x \in F |-> Turn(F, x, start)]
           Before(x, y) == \/ LexLess(f[x], f[y])
                           \/ f[x] = f[y] /\ turn[x] < turn[y]
           R == {r \in F \X F : Before(r[1], r[2])}
<1>1. IsFiniteSet(F)
  <2>1. IsFiniteSet(1..m) BY FS_Interval
  <2>2. QED BY <2>1, FS_Subset
<1>2. \A x \in F : turn[x] \in Int BY TurnType
<1>3. \A x, y \in F : x # y => turn[x] # turn[y]
  <2>1. \A x, y \in F : x < y => turn[x] # turn[y] BY TurnsDiffer
  <2>2. \A x, y \in F : x # y => x < y \/ y < x
    <3>1. \A x \in F : x \in Int OBVIOUS
    <3>2. QED BY <3>1
  <2> HIDE DEF turn
  <2>3. QED BY <2>1, <2>2
<1>4. \A x, y \in F : <<x, y>> \in R <=> Before(x, y) OBVIOUS
<1>5. \A x \in F : turn[x] = Turn(F, x, start) OBVIOUS
<1> HIDE DEF R, turn
<1>6. \A x, y \in F : x = y \/ <<x, y>> \in R \/ <<y, x>> \in R
  <2> SUFFICES ASSUME NEW x \in F, NEW y \in F, x # y PROVE Before(x, y) \/ Before(y, x)
    BY <1>4
  <2>1. f[x] = f[y] \/ LexLess(f[x], f[y]) \/ LexLess(f[y], f[x])
    <3>1. IsScore(f[x], n) /\ IsScore(f[y], n) OBVIOUS
    <3>2. QED BY <3>1, LexTotal
  <2>2. turn[x] < turn[y] \/ turn[y] < turn[x] BY <1>2, <1>3
  <2>3. QED BY <2>1, <2>2
<1>7. \A x, y, z \in F : <<x, y>> \in R /\ <<y, z>> \in R => <<x, z>> \in R
  <2> SUFFICES ASSUME NEW x \in F, NEW y \in F, NEW z \in F, Before(x, y), Before(y, z)
               PROVE  Before(x, z)
    BY <1>4
  <2>1. IsScore(f[x], n) /\ IsScore(f[y], n) /\ IsScore(f[z], n) OBVIOUS
  <2>2. LexLess(f[x], f[y]) /\ LexLess(f[y], f[z]) => LexLess(f[x], f[z])
    BY <2>1, LexTransitive
  <2>3. turn[x] \in Int /\ turn[y] \in Int /\ turn[z] \in Int BY <1>2
  <2>4. turn[x] < turn[y] /\ turn[y] < turn[z] => turn[x] < turn[z] BY <2>3
  <2>5. QED BY <2>2, <2>4
<1>8. PICK x \in F : \A y \in F : x = y \/ <<x, y>> \in R
  BY <1>1, <1>6, <1>7, FirstElement
<1>9. \A y \in F : Preferred(F, start, x, y, f[x], f[y])
  <2> SUFFICES ASSUME NEW y \in F, x # y PROVE Preferred(F, start, x, y, f[x], f[y])
    BY DEF Preferred
  <2>1. Before(x, y) BY <1>4, <1>8
  <2>2. CASE LexLess(f[x], f[y]) BY <2>2 DEF Preferred
  <2>3. CASE f[x] = f[y] /\ turn[x] < turn[y]
    <3>1. IsScore(f[x], n) OBVIOUS
    <3>2. ~LexLess(f[x], f[x]) BY <3>1, LexAsymmetric
    <3>3. Turn(F, x, start) < Turn(F, y, start) BY <1>5, <2>3
    <3>4. QED BY <2>3, <3>2, <3>3 DEF Preferred, NoBetter
  <2>4. QED BY <2>1, <2>2, <2>3
<1>10. x \in P BY <1>9 DEF MinOf
<1>11. \A y \in P : y = x
  <2> SUFFICES ASSUME NEW y \in P PROVE y = x
    OBVIOUS
  <2>1. y \in F /\ Preferred(F, start, y, x, f[y], f[x]) BY DEF MinOf
  <2>2. Preferred(F, start, x, y, f[x], f[y]) BY <1>9, <2>1
  <2>3. IsScore(f[x], n) /\ IsScore(f[y], n) BY <2>1
  <2>4. QED BY <2>1, <2>2, <2>3, OnlyOnePreferred
<1>12. P = {x} BY <1>10, <1>11
<1>13. QED BY <1>12 DEF IsOneOf

-----------------------------------------------------------------------------
(* Every picker without a random number picks exactly one candidate.       *)

(* Candidates for the replicas 1..n.                                       *)
OnFleet(C, n) == Typed(C) /\ DOMAIN C = 1..n /\ Len(C) = n

(* The scalar scores.                                                      *)
LEMMA ScalarPicksOne ==
  ASSUME NEW n \in Nat \ {0}, NEW C, OnFleet(C, n), NEW start \in Int
  PROVE  /\ IsOneOf(pick_lmetric(C, start), 1..n)
         /\ IsOneOf(pick_compute_only(C, start), 1..n)
         /\ IsOneOf(pick_load_only(C, start), 1..n)
         /\ IsOneOf(pick_lmetric_power(C, start), 1..n)
         /\ IsOneOf(pick_lmetric_power_convex(C, start), 1..n)
         /\ IsOneOf(pick_lmetric_power_pareto(C, start), 1..n)
         /\ IsOneOf(pick_weighted_sum(C, start), 1..n)
         /\ IsOneOf(pick_weighted_sum_no_power(C, start), 1..n)
<1> DEFINE D == DOMAIN C
<1>1. D = 1..n /\ D # {} /\ \A x \in D : C[x] \in Candidate BY DEF OnFleet, Typed
<1>2. IsOneOf(pick_lmetric(C, start), 1..n)
  <2> DEFINE f == [x \in D |-> lmetric_score(C[x])]
  <2>1. pick_lmetric(C, start) = MinOf(D, start, f)
    BY DEF pick_lmetric, Least, LeastAmong, MinOf, Preferred
  <2>2. \A x \in D : IsScore(f[x], 1)
    BY <1>1, ScalarTypes
  <2> HIDE DEF D, f
  <2>3. QED BY <1>1, <2>1, <2>2, OneOfAll
<1>3. IsOneOf(pick_compute_only(C, start), 1..n)
  <2> DEFINE f == [x \in D |-> <<C[x].new_tokens>>]
  <2>1. pick_compute_only(C, start) = MinOf(D, start, f)
    BY DEF pick_compute_only, Least, LeastAmong, MinOf, Preferred
  <2>2. \A x \in D : IsScore(f[x], 1)
    BY <1>1, ScalarTypes
  <2> HIDE DEF D, f
  <2>3. QED BY <1>1, <2>1, <2>2, OneOfAll
<1>4. IsOneOf(pick_load_only(C, start), 1..n)
  <2> DEFINE f == [x \in D |-> <<C[x].in_flight_after>>]
  <2>1. pick_load_only(C, start) = MinOf(D, start, f)
    BY DEF pick_load_only, Least, LeastAmong, MinOf, Preferred
  <2>2. \A x \in D : IsScore(f[x], 1)
    BY <1>1, ScalarTypes
  <2> HIDE DEF D, f
  <2>3. QED BY <1>1, <2>1, <2>2, OneOfAll
<1>5. IsOneOf(pick_lmetric_power(C, start), 1..n)
  <2> DEFINE f == [x \in D |-> lmetric_power_score(C[x])]
  <2>1. pick_lmetric_power(C, start) = MinOf(D, start, f)
    BY DEF pick_lmetric_power, Least, LeastAmong, MinOf, Preferred
  <2>2. \A x \in D : IsScore(f[x], 1)
    BY <1>1, ScalarTypes
  <2> HIDE DEF D, f
  <2>3. QED BY <1>1, <2>1, <2>2, OneOfAll
<1>6. IsOneOf(pick_lmetric_power_convex(C, start), 1..n)
  <2> DEFINE f == [x \in D |-> lmetric_power_convex_score(C[x])]
  <2>1. pick_lmetric_power_convex(C, start) = MinOf(D, start, f)
    BY DEF pick_lmetric_power_convex, Least, LeastAmong, MinOf, Preferred
  <2>2. \A x \in D : IsScore(f[x], 1)
    BY <1>1, ScalarTypes
  <2> HIDE DEF D, f
  <2>3. QED BY <1>1, <2>1, <2>2, OneOfAll
<1>7. IsOneOf(pick_lmetric_power_pareto(C, start), 1..n)
  <2> DEFINE f == [x \in D |-> lmetric_power_pareto_score(C[x])]
  <2>1. pick_lmetric_power_pareto(C, start) = MinOf(D, start, f)
    BY DEF pick_lmetric_power_pareto, Least, LeastAmong, MinOf, Preferred
  <2>2. \A x \in D : IsScore(f[x], 1)
    BY <1>1, ScalarTypes
  <2> HIDE DEF D, f
  <2>3. QED BY <1>1, <2>1, <2>2, OneOfAll
<1>8. IsOneOf(pick_weighted_sum(C, start), 1..n)
  <2> DEFINE f == [x \in D |-> weighted_sum_score(C[x])]
  <2>1. pick_weighted_sum(C, start) = MinOf(D, start, f)
    BY DEF pick_weighted_sum, Least, LeastAmong, MinOf, Preferred
  <2>2. \A x \in D : IsScore(f[x], 1)
    BY <1>1, ScalarTypes
  <2> HIDE DEF D, f
  <2>3. QED BY <1>1, <2>1, <2>2, OneOfAll
<1>9. IsOneOf(pick_weighted_sum_no_power(C, start), 1..n)
  <2> DEFINE f == [x \in D |-> weighted_sum_score_no_power(C[x])]
  <2>1. pick_weighted_sum_no_power(C, start) = MinOf(D, start, f)
    BY DEF pick_weighted_sum_no_power, Least, LeastAmong, MinOf, Preferred
  <2>2. \A x \in D : IsScore(f[x], 1)
    BY <1>1, ScalarTypes
  <2> HIDE DEF D, f
  <2>3. QED BY <1>1, <2>1, <2>2, OneOfAll
<1>10. QED BY <1>2, <1>3, <1>4, <1>5, <1>6, <1>7, <1>8, <1>9

(* The scalar scores with a squeezed power share.                          *)
LEMMA SqueezedPicksOne ==
  ASSUME NEW n \in Nat \ {0}, NEW C, OnFleet(C, n), NEW start \in Int
  PROVE  /\ IsOneOf(pick_weighted_sum_coincidence_ceiling(C, start), 1..n)
         /\ IsOneOf(pick_lmetric_power_coincidence_ceiling(C, start), 1..n)
         /\ IsOneOf(pick_lmetric_power_pareto_coincidence_ceiling(C, start), 1..n)
         /\ IsOneOf(pick_lmetric_power_pareto_epsilon_coincidence_ceiling(C, start), 1..n)
         /\ IsOneOf(pick_lmetric_power_pareto_epsilon_small_coincidence_ceiling(C, start), 1..n)
         /\ IsOneOf(pick_lmetric_power_pareto_epsilon_zero_coincidence_ceiling(C, start), 1..n)
         /\ IsOneOf(pick_lmetric_power_pareto_epsilon_all_coincidence_ceiling(C, start), 1..n)
<1> DEFINE D == DOMAIN C
           k == coincidence_ceiling_squeeze(C)
<1>0. k \in Nat /\ EpsilonInv \in Nat /\ SmallInv \in Nat
  BY SqueezeTypes, ScoringConstants DEF OnFleet, Typed
<1>1. D = 1..n /\ D # {} /\ \A x \in D : C[x] \in Candidate BY DEF OnFleet, Typed
<1>2. IsOneOf(pick_weighted_sum_coincidence_ceiling(C, start), 1..n)
  <2> DEFINE f == [x \in D |-> weighted_sum_score_coincidence_ceiling(C[x], k)]
  <2>1. pick_weighted_sum_coincidence_ceiling(C, start) = MinOf(D, start, f)
    BY DEF pick_weighted_sum_coincidence_ceiling, Least, LeastAmong, MinOf, Preferred
  <2>2. \A x \in D : IsScore(f[x], 1)
    BY <1>1, <1>0, ScalarTypes
  <2> HIDE DEF D, f
  <2>3. QED BY <1>1, <2>1, <2>2, OneOfAll
<1>3. IsOneOf(pick_lmetric_power_coincidence_ceiling(C, start), 1..n)
  <2> DEFINE f == [x \in D |-> lmetric_power_score_coincidence_ceiling(C[x], k)]
  <2>1. pick_lmetric_power_coincidence_ceiling(C, start) = MinOf(D, start, f)
    BY DEF pick_lmetric_power_coincidence_ceiling, Least, LeastAmong, MinOf, Preferred
  <2>2. \A x \in D : IsScore(f[x], 1)
    BY <1>1, <1>0, ScalarTypes
  <2> HIDE DEF D, f
  <2>3. QED BY <1>1, <2>1, <2>2, OneOfAll
<1>4. IsOneOf(pick_lmetric_power_pareto_coincidence_ceiling(C, start), 1..n)
  <2> DEFINE f == [x \in D |-> lmetric_power_pareto_score_coincidence_ceiling(C[x], k)]
  <2>1. pick_lmetric_power_pareto_coincidence_ceiling(C, start) = MinOf(D, start, f)
    BY DEF pick_lmetric_power_pareto_coincidence_ceiling, Least, LeastAmong, MinOf, Preferred
  <2>2. \A x \in D : IsScore(f[x], 1)
    BY <1>1, <1>0, ScalarTypes
  <2> HIDE DEF D, f
  <2>3. QED BY <1>1, <2>1, <2>2, OneOfAll
<1>5. IsOneOf(pick_lmetric_power_pareto_epsilon_coincidence_ceiling(C, start), 1..n)
  <2> DEFINE f == [x \in D |-> lmetric_power_pareto_epsilon_score_coincidence_ceiling(C[x], k, EpsilonInv)]
  <2>1. pick_lmetric_power_pareto_epsilon_coincidence_ceiling(C, start) = MinOf(D, start, f)
    BY DEF pick_lmetric_power_pareto_epsilon_coincidence_ceiling, EpsilonPick, Least, LeastAmong, MinOf, Preferred
  <2>2. \A x \in D : IsScore(f[x], 1)
    BY <1>1, <1>0, ScalarTypes
  <2> HIDE DEF D, f
  <2>3. QED BY <1>1, <2>1, <2>2, OneOfAll
<1>6. IsOneOf(pick_lmetric_power_pareto_epsilon_small_coincidence_ceiling(C, start), 1..n)
  <2> DEFINE f == [x \in D |-> lmetric_power_pareto_epsilon_score_coincidence_ceiling(C[x], k, SmallInv)]
  <2>1. pick_lmetric_power_pareto_epsilon_small_coincidence_ceiling(C, start) = MinOf(D, start, f)
    BY DEF pick_lmetric_power_pareto_epsilon_small_coincidence_ceiling, EpsilonPick, Least, LeastAmong, MinOf, Preferred
  <2>2. \A x \in D : IsScore(f[x], 1)
    BY <1>1, <1>0, ScalarTypes
  <2> HIDE DEF D, f
  <2>3. QED BY <1>1, <2>1, <2>2, OneOfAll
<1>7. IsOneOf(pick_lmetric_power_pareto_epsilon_zero_coincidence_ceiling(C, start), 1..n)
  <2> DEFINE f == [x \in D |-> lmetric_power_pareto_epsilon_zero_score(C[x], k)]
  <2>1. pick_lmetric_power_pareto_epsilon_zero_coincidence_ceiling(C, start) = MinOf(D, start, f)
    BY DEF pick_lmetric_power_pareto_epsilon_zero_coincidence_ceiling, Least, LeastAmong, MinOf, Preferred
  <2>2. \A x \in D : IsScore(f[x], 1)
    BY <1>1, <1>0, ScalarTypes
  <2> HIDE DEF D, f
  <2>3. QED BY <1>1, <2>1, <2>2, OneOfAll
<1>8. IsOneOf(pick_lmetric_power_pareto_epsilon_all_coincidence_ceiling(C, start), 1..n)
  <2> DEFINE f == [x \in D |-> lmetric_power_pareto_epsilon_all_score_coincidence_ceiling(C[x], k, EpsilonInv)]
  <2>1. pick_lmetric_power_pareto_epsilon_all_coincidence_ceiling(C, start) = MinOf(D, start, f)
    BY DEF pick_lmetric_power_pareto_epsilon_all_coincidence_ceiling, Least, LeastAmong, MinOf, Preferred
  <2>2. \A x \in D : IsScore(f[x], 1)
    BY <1>1, <1>0, ScalarTypes
  <2> HIDE DEF D, f
  <2>3. QED BY <1>1, <2>1, <2>2, OneOfAll
<1>9. QED BY <1>2, <1>3, <1>4, <1>5, <1>6, <1>7, <1>8

(* The dominant-share vectors.                                             *)
LEMMA VectorPicksOne ==
  ASSUME NEW n \in Nat \ {0}, NEW C, OnFleet(C, n), NEW start \in Int
  PROVE  /\ IsOneOf(pick_drf(C, start), 1..n)
         /\ IsOneOf(pick_drf_no_power(C, start), 1..n)
         /\ IsOneOf(pick_drf_power_tiebreak(C, start), 1..n)
         /\ IsOneOf(pick_drf_peak_power_tiebreak(C, start), 1..n)
         /\ IsOneOf(pick_drf_coincidence_tiebreak(C, start), 1..n)
         /\ IsOneOf(pick_drf_power_tiebreak_full(C, start), 1..n)
         /\ IsOneOf(pick_drf_peak_power_tiebreak_full(C, start), 1..n)
<1> DEFINE D == DOMAIN C
<1>1. D = 1..n /\ D # {} /\ \A x \in D : C[x] \in Candidate BY DEF OnFleet, Typed
<1>2. IsOneOf(pick_drf(C, start), 1..n)
  <2> DEFINE f == [x \in D |-> dominant_share_vector(C[x])]
  <2>1. pick_drf(C, start) = MinOf(D, start, f)
    BY DEF pick_drf, Least, LeastAmong, MinOf, Preferred
  <2>2. \A x \in D : IsScore(f[x], 3)
    BY <1>1, SortedVectorType
  <2> HIDE DEF D, f
  <2>3. QED BY <1>1, <2>1, <2>2, OneOfAll
<1>3. IsOneOf(pick_drf_no_power(C, start), 1..n)
  <2> DEFINE f == [x \in D |-> dominant_share_vector_no_power(C[x])]
  <2>1. pick_drf_no_power(C, start) = MinOf(D, start, f)
    BY DEF pick_drf_no_power, Least, LeastAmong, MinOf, Preferred
  <2>2. \A x \in D : IsScore(f[x], 2)
    BY <1>1, PriorityTypes
  <2> HIDE DEF D, f
  <2>3. QED BY <1>1, <2>1, <2>2, OneOfAll
<1>4. IsOneOf(pick_drf_power_tiebreak(C, start), 1..n)
  <2> DEFINE f == [x \in D |-> dominant_share_vector_power_priority(C[x])]
  <2>1. pick_drf_power_tiebreak(C, start) = MinOf(D, start, f)
    BY DEF pick_drf_power_tiebreak, Least, LeastAmong, MinOf, Preferred
  <2>2. \A x \in D : IsScore(f[x], 3)
    BY <1>1, PriorityTypes
  <2> HIDE DEF D, f
  <2>3. QED BY <1>1, <2>1, <2>2, OneOfAll
<1>5. IsOneOf(pick_drf_peak_power_tiebreak(C, start), 1..n)
  <2> DEFINE f == [x \in D |-> dominant_share_vector_peak_priority(C[x])]
  <2>1. pick_drf_peak_power_tiebreak(C, start) = MinOf(D, start, f)
    BY DEF pick_drf_peak_power_tiebreak, Least, LeastAmong, MinOf, Preferred
  <2>2. \A x \in D : IsScore(f[x], 3)
    BY <1>1, PriorityTypes
  <2> HIDE DEF D, f
  <2>3. QED BY <1>1, <2>1, <2>2, OneOfAll
<1>6. IsOneOf(pick_drf_coincidence_tiebreak(C, start), 1..n)
  <2> DEFINE f == [x \in D |-> dominant_share_vector_power_priority_coincidence(C[x], C)]
  <2>1. pick_drf_coincidence_tiebreak(C, start) = MinOf(D, start, f)
    BY DEF pick_drf_coincidence_tiebreak, Least, LeastAmong, MinOf, Preferred
  <2>2. \A x \in D : IsScore(f[x], 3)
    BY <1>1, CoincidenceType DEF OnFleet
  <2> HIDE DEF D, f
  <2>3. QED BY <1>1, <2>1, <2>2, OneOfAll
<1>7. IsOneOf(pick_drf_power_tiebreak_full(C, start), 1..n)
  <2> DEFINE f == [x \in D |-> FullVector(C[x], share_power(C[x]))]
  <2>1. pick_drf_power_tiebreak_full(C, start) = MinOf(D, start, f)
    BY DEF pick_drf_power_tiebreak_full, dominant_share_vector_power_priority_full, Least, LeastAmong, MinOf, Preferred
  <2>2. \A x \in D : IsScore(f[x], 4)
    BY <1>1, FullVectorType, ShareTypes
  <2> HIDE DEF D, f
  <2>3. QED BY <1>1, <2>1, <2>2, OneOfAll
<1>8. IsOneOf(pick_drf_peak_power_tiebreak_full(C, start), 1..n)
  <2> DEFINE f == [x \in D |-> FullVector(C[x], share_power_level(C[x]))]
  <2>1. pick_drf_peak_power_tiebreak_full(C, start) = MinOf(D, start, f)
    BY DEF pick_drf_peak_power_tiebreak_full, dominant_share_vector_peak_priority_full, Least, LeastAmong, MinOf, Preferred
  <2>2. \A x \in D : IsScore(f[x], 4)
    BY <1>1, FullVectorType, ShareTypes
  <2> HIDE DEF D, f
  <2>3. QED BY <1>1, <2>1, <2>2, OneOfAll
<1>9. QED BY <1>2, <1>3, <1>4, <1>5, <1>6, <1>7, <1>8

(* The full tie-break with a squeezed ceiling.                             *)
LEMMA FactorPicksOne ==
  ASSUME NEW n \in Nat \ {0}, NEW C, OnFleet(C, n), NEW start \in Int, NEW k \in Nat
  PROVE  /\ IsOneOf(pick_drf_power_tiebreak_full_coincidence_ceiling_with_factor(C, k, start), 1..n)
<1> DEFINE D == DOMAIN C
<1>1. D = 1..n /\ D # {} /\ \A x \in D : C[x] \in Candidate BY DEF OnFleet, Typed
<1>2. IsOneOf(pick_drf_power_tiebreak_full_coincidence_ceiling_with_factor(C, k, start), 1..n)
  <2> DEFINE f == [x \in D |-> FullVector(C[x], k * share_power(C[x]))]
  <2>1. pick_drf_power_tiebreak_full_coincidence_ceiling_with_factor(C, k, start) = MinOf(D, start, f)
    BY DEF pick_drf_power_tiebreak_full_coincidence_ceiling_with_factor, dominant_share_vector_power_priority_full_coincidence_ceiling, Least, LeastAmong, MinOf, Preferred
  <2>2. \A x \in D : IsScore(f[x], 4)
    BY <1>1, FullVectorType, ShareTypes, ProductType
  <2> HIDE DEF D, f
  <2>3. QED BY <1>1, <2>1, <2>2, OneOfAll
<1>3. QED BY <1>2

LEMMA PeakCeilingPicksOne ==
  ASSUME NEW n \in Nat \ {0}, NEW C, OnFleet(C, n), NEW start \in Int
  PROVE  IsOneOf(pick_drf_peak_power_tiebreak_full_coincidence_ceiling(C, start), 1..n)
<1> DEFINE D == DOMAIN C
           k == coincidence_ceiling_squeeze_peak(C)
           f == [x \in D |-> FullVector(C[x], k * share_power_level(C[x]))]
<1>0. k \in Nat BY SqueezeTypes DEF OnFleet, Typed
<1>1. D = 1..n /\ D # {} /\ \A x \in D : C[x] \in Candidate BY DEF OnFleet, Typed
<1>2. pick_drf_peak_power_tiebreak_full_coincidence_ceiling(C, start) = MinOf(D, start, f)
  BY DEF pick_drf_peak_power_tiebreak_full_coincidence_ceiling,
         dominant_share_vector_peak_priority_full_coincidence_ceiling, Least, LeastAmong, MinOf, Preferred
<1> HIDE DEF k
<1>3. \A x \in D : k * share_power_level(C[x]) \in Nat BY <1>0, <1>1, ShareTypes, ProductType
<1>4. \A x \in D : IsScore(f[x], 4) BY <1>1, <1>3, FullVectorType
<1> HIDE DEF D, f
<1>5. QED BY <1>1, <1>2, <1>4, OneOfAll

LEMMA SmoothedPicksOne ==
  ASSUME NEW n \in Nat \ {0}, NEW C, OnFleet(C, n), NEW start \in Int
  PROVE  IsOneOf(pick_drf_power_tiebreak_full_coincidence_ceiling_smoothed_ramp(C, start), 1..n)
<1> DEFINE D == DOMAIN C
           k == coincidence_ceiling_squeeze_smoothed(C)
           f == [x \in D |-> FullVector(C[x], k * share_power_smoothed(C[x]))]
<1>0. k \in Nat BY SqueezeTypes DEF OnFleet, Typed
<1>1. D = 1..n /\ D # {} /\ \A x \in D : C[x] \in Candidate BY DEF OnFleet, Typed
<1>2. pick_drf_power_tiebreak_full_coincidence_ceiling_smoothed_ramp(C, start) = MinOf(D, start, f)
  BY DEF pick_drf_power_tiebreak_full_coincidence_ceiling_smoothed_ramp,
         dominant_share_vector_power_priority_full_coincidence_ceiling_smoothed_ramp, Least, LeastAmong, MinOf, Preferred
<1> HIDE DEF k
<1>3. \A x \in D : k * share_power_smoothed(C[x]) \in Nat BY <1>0, <1>1, ShareTypes, ProductType
<1>4. \A x \in D : IsScore(f[x], 4) BY <1>1, <1>3, FullVectorType
<1> HIDE DEF D, f
<1>5. QED BY <1>1, <1>2, <1>4, OneOfAll

(* The policies that choose among pickers, and the ceiling's own squeeze.  *)
LEMMA ConstrainedPicksOne ==
  ASSUME NEW n \in Nat \ {0}, NEW C, OnFleet(C, n), NEW start \in Int
  PROVE  IsOneOf(pick_constrained_lmetric(C, start), 1..n)
<1> DEFINE D == DOMAIN C
           F == {x \in D : share_power(C[x]) <= One}
<1>1. D = 1..n /\ D # {} /\ \A x \in D : C[x] \in Candidate BY DEF OnFleet, Typed
<1>2. F \subseteq 1..n BY <1>1
<1>3. CASE F # {}
  <2> DEFINE f == [x \in F |-> lmetric_score(C[x])]
  <2>1. pick_constrained_lmetric(C, start) = MinOf(F, start, f)
    BY <1>3 DEF pick_constrained_lmetric, LeastAmong, MinOf, Preferred
  <2>2. \A x \in F : IsScore(f[x], 1) BY <1>1, ScalarTypes
  <2> HIDE DEF F, f
  <2>3. IsOneOf(MinOf(F, start, f), F) BY <1>2, <1>3, <2>2, OneOfAll
  <2>4. QED BY <1>2, <2>1, <2>3 DEF IsOneOf
<1>4. CASE F = {}
  <2> DEFINE f == [x \in D |-> <<share_power(C[x])>>]
  <2>1. pick_constrained_lmetric(C, start) = MinOf(D, start, f)
    BY <1>4 DEF pick_constrained_lmetric, Least, LeastAmong, MinOf, Preferred
  <2>2. \A x \in D : IsScore(f[x], 1) BY <1>1, ScalarTypes
  <2> HIDE DEF F, D, f
  <2>3. QED BY <1>1, <2>1, <2>2, OneOfAll
<1>5. QED BY <1>3, <1>4

LEMMA WhalePicksOne ==
  ASSUME NEW n \in Nat \ {0}, NEW C, OnFleet(C, n), NEW start \in Int, NEW w
  PROVE  IsOneOf(pick_whale_argmin(C, w, start), 1..n)
<1> DEFINE D == DOMAIN C
<1>1. D = 1..n /\ D # {} /\ \A x \in D : C[x] \in Candidate BY DEF OnFleet, Typed
<1>2. CASE w
  <2> DEFINE f == [x \in D |-> <<C[x].active_whale_count_after>>]
  <2>1. pick_whale_argmin(C, w, start) = MinOf(D, start, f)
    BY <1>2 DEF pick_whale_argmin, Least, LeastAmong, MinOf, Preferred
  <2>2. \A x \in D : IsScore(f[x], 1) BY <1>1, ScalarTypes
  <2> HIDE DEF D, f
  <2>3. QED BY <1>1, <2>1, <2>2, OneOfAll
<1>3. CASE ~w BY <1>3, ScalarPicksOne DEF pick_whale_argmin
<1>4. QED BY <1>2, <1>3

LEMMA SwitchPicksOne ==
  ASSUME NEW n \in Nat \ {0}, NEW C, OnFleet(C, n), NEW start \in Int, NEW w
  PROVE  /\ IsOneOf(pick_pressure_switch(C, start), 1..n)
         /\ IsOneOf(pick_whale_argmin_power_switch(C, w, start), 1..n)
         /\ IsOneOf(pick_drf_power_tiebreak_full_coincidence_ceiling(C, start), 1..n)
         /\ \A r \in Int : IsOneOf(pick_round_robin(C, r), 1..n)
<1>1. IsOneOf(pick_pressure_switch(C, start), 1..n)
  BY ScalarPicksOne, VectorPicksOne DEF pick_pressure_switch
<1>2. IsOneOf(pick_whale_argmin_power_switch(C, w, start), 1..n)
  BY WhalePicksOne, VectorPicksOne DEF pick_whale_argmin_power_switch
<1>3. IsOneOf(pick_drf_power_tiebreak_full_coincidence_ceiling(C, start), 1..n)
  <2>1. coincidence_ceiling_squeeze(C) \in Nat BY SqueezeTypes DEF OnFleet, Typed
  <2>2. QED BY <2>1, FactorPicksOne DEF pick_drf_power_tiebreak_full_coincidence_ceiling
<1>4. ASSUME NEW r \in Int PROVE IsOneOf(pick_round_robin(C, r), 1..n)
  <2>1. C # <<>> /\ Len(C) = n
    <3>1. DOMAIN <<>> = {} OBVIOUS
    <3>2. QED BY <3>1 DEF OnFleet
  <2>2. pick_round_robin(C, r) = {((r + 1) % n) + 1} BY <2>1 DEF pick_round_robin
  <2>3. (r + 1) % n \in 0..(n - 1) OBVIOUS
  <2>4. ((r + 1) % n) + 1 \in 1..n BY <2>3
  <2>5. QED BY <2>2, <2>4 DEF IsOneOf
<1>5. QED BY <1>1, <1>2, <1>3, <1>4

(* So does every policy that draws no random number.                       *)
LEMMA PolicyPicksOne ==
  ASSUME NEW n \in Nat \ {0}, NEW C, OnFleet(C, n), NEW start \in Int, NEW w, NEW k \in Nat,
         policy \in Policies, policy \notin RandomPolicies, rrIndex \in Int
  PROVE  IsOneOf(Picks(C, w, k, start), 1..n)
BY ScalarPicksOne, SqueezedPicksOne, VectorPicksOne, FactorPicksOne, PeakCeilingPicksOne,
   SmoothedPicksOne, ConstrainedPicksOne, WhalePicksOne, SwitchPicksOne, ZenonT(120)
   DEF Picks, Policies, RandomPolicies, CoincidenceCeilingPolicies, AdaptivePolicies, IsolatedPolicy,
       PeakCeilingPolicy, LaggedPolicy

-----------------------------------------------------------------------------
(* A tie is settled by the cursor alone.                                   *)

LEMMA Remainder ==
  ASSUME NEW n \in Nat \ {0}, NEW r \in 1..n
  PROVE  r % n = IF r = n THEN 0 ELSE r
OBVIOUS

Tied(C, w, k) == \A j \in Fleet : j \in Picks(C, w, k, j - 1)

LEMMA TiedFollowsCursor ==
  ASSUME NEW C, OnFleet(C, N), NEW w, NEW k \in Nat, policy \in Policies,
         policy \notin RandomPolicies, rrIndex \in Int, tieCursor \in 0..(N - 1), N > 1, Tied(C, w, k),
         NEW i \in Picks(C, w, k, tieCursor)
  PROVE  policy # "round_robin" /\ i = tieCursor + 1
<1>1. N \in Nat \ {0} /\ tieCursor \in Int BY Constants
<1>2. tieCursor + 1 \in Picks(C, w, k, tieCursor)
  <2>1. tieCursor + 1 \in Fleet /\ (tieCursor + 1) - 1 = tieCursor BY <1>1 DEF Fleet
  <2>2. QED BY <2>1 DEF Tied
<1>3. i = tieCursor + 1
  <2>1. IsOneOf(Picks(C, w, k, tieCursor), 1..N) BY <1>1, PolicyPicksOne
  <2>2. QED BY <1>2, <2>1 DEF IsOneOf
<1>4. policy # "round_robin"
  <2> SUFFICES ASSUME policy = "round_robin" PROVE FALSE
    OBVIOUS
  <2>1. \A c : Picks(C, w, k, c) = pick_round_robin(C, rrIndex)
    <3> SUFFICES ASSUME NEW c PROVE Picks(C, w, k, c) = pick_round_robin(C, rrIndex)
      OBVIOUS
    <3>1. QED BY ZenonT(60) DEF Picks, AdaptivePolicies, IsolatedPolicy, PeakCeilingPolicy, LaggedPolicy
  <2>2. 1 \in Fleet /\ 2 \in Fleet BY <1>1 DEF Fleet
  <2>3. 1 \in pick_round_robin(C, rrIndex) /\ 2 \in pick_round_robin(C, rrIndex)
    BY <2>1, <2>2, Zenon DEF Tied
  <2>4. QED BY <2>3 DEF pick_round_robin
<1>5. QED BY <1>3, <1>4

(* Whoever was picked among equals is the one before the cursor.           *)
TieInv ==
  (last # NoDecision /\ last.tied /\ N > 1 /\ policy \notin RandomPolicies) =>
    last.replica \in Fleet /\ tieCursor = last.replica % N

(* A decision that ties takes the replica at the cursor, and moves it on.  *)
LEMMA TiedDecision ==
  ASSUME TypeOK, LagInv, NEW p \in Prompts, route(p), policy \notin RandomPolicies,
         last'.tied, N > 1
  PROVE  last'.replica = tieCursor + 1 /\ tieCursor' = NextCursor(tieCursor)
<1> DEFINE C == _build_candidates(p, Observed)
           buffer == Append(lagBuffer, elevated_count(C))
           k == IF policy = LaggedPolicy THEN Squeeze(LaggedCount(buffer)) ELSE 1
<1>1. PICK i \in Picks(C, IsWhale(p), k, tieCursor) :
        /\ last' = [replica |-> i, prompt |-> p, squeeze |-> k,
                    tied |-> Tied(C, IsWhale(p), k),
                    avoidable |-> AvoidableThresholdViolation(C, i, AuditSqueeze(C, k))]
        /\ tieCursor' = IF policy \in {"round_robin", "drf_power_tiebreak_p2c"}
                          THEN tieCursor ELSE NextCursor(tieCursor)
  BY DEF route, Tied
<1>2. k \in Nat
  <2>1. elevated_count(C) \in Nat BY CandidatesAre
  <2>2. QED BY <2>1, LaggedCountType, SqueezeType
<1>3. OnFleet(C, N)
  <2>1. Telemetered /\ Observed \in Seq(Nat) BY ObservedType DEF TypeOK, Telemetered
  <2>2. Typed(C) BY <2>1, AllOfferedTyped
  <2>3. DOMAIN C = 1..N BY DEF _build_candidates, Fleet
  <2>4. Len(C) = N BY Constants DEF _build_candidates, Fleet
  <2>5. QED BY <2>2, <2>3, <2>4 DEF OnFleet
<1>4. policy \in Policies /\ tieCursor \in 0..(N - 1) /\ rrIndex \in Int
  <2>1. /\ <<policy, bsSource>> \in Setups /\ tieCursor \in 0..(N - 1)
        /\ rrIndex \in -1..(N - 1)
    BY DEF TypeOK
  <2>2. QED BY <2>1, SetupAssumption
<1> HIDE DEF C, k
<1>5. Tied(C, IsWhale(p), k) BY <1>1
<1>6. policy # "round_robin" /\ i = tieCursor + 1 BY <1>2, <1>3, <1>4, <1>5, TiedFollowsCursor
<1>7. policy # "drf_power_tiebreak_p2c" BY DEF RandomPolicies
<1>8. QED BY <1>1, <1>6, <1>7

LEMMA TieStep == TypeOK /\ LagInv /\ TieInv /\ [Next]_vars => TieInv'
<1> SUFFICES ASSUME TypeOK, LagInv, TieInv, [Next]_vars PROVE TieInv'
  OBVIOUS
<1>1. ASSUME UNCHANGED <<policy, tieCursor, last>> PROVE TieInv' BY <1>1 DEF TieInv
<1>2. ASSUME NEW p \in Prompts, route(p) PROVE TieInv'
  <2> SUFFICES ASSUME last'.tied, N > 1, policy' \notin RandomPolicies
               PROVE  last'.replica \in Fleet /\ tieCursor' = last'.replica % N
    BY DEF TieInv
  <2>1. policy' = policy BY <1>2 DEF route, choice
  <2>2. last'.replica = tieCursor + 1 /\ tieCursor' = NextCursor(tieCursor)
    BY <1>2, <2>1, TiedDecision
  <2>3. tieCursor \in 0..(N - 1) BY DEF TypeOK
  <2>4. tieCursor + 1 \in Fleet BY <2>3, Constants DEF Fleet
  <2>5. QED BY <2>2, <2>4 DEF NextCursor
<1>3. \A i, is_whale : complete(i, is_whale) => UNCHANGED <<policy, tieCursor, last>>
  BY DEF complete, choice, cursors, history
<1>4. \A reading, dt, upto : PowerPoll(reading, dt, upto) => UNCHANGED <<policy, tieCursor, last>>
  BY DEF PowerPoll, choice, cursors
<1>5. \A i, lines : Scrape(i, lines) => UNCHANGED <<policy, tieCursor, last>>
  BY DEF Scrape, choice, cursors, history
<1>6. UNCHANGED vars => UNCHANGED <<policy, tieCursor, last>>
  BY DEF vars, choice, cursors, history
<1>7. QED BY <1>1, <1>2, <1>3, <1>4, <1>5, <1>6 DEF Next

(* Ties spread over the fleet: two successive decisions that tie go to     *)
(* different replicas, for any fleet of two or more, whatever the policy   *)
(* compares (_rotate and the tie cursor of router_core.py).                *)
THEOREM TiesSpread == Spec => TiesRotate
<1> DEFINE A == (Routing /\ policy \notin RandomPolicies /\ last # NoDecision) =>
       ((last.tied /\ last'.tied /\ N > 1) => last'.replica # last.replica)
<1>1. TypeOK /\ LagInv /\ TieInv /\ [Next]_vars => A
  <2> SUFFICES ASSUME TypeOK, LagInv, TieInv, [Next]_vars, Routing, policy \notin RandomPolicies,
                      last # NoDecision, last.tied, last'.tied, N > 1
               PROVE  last'.replica # last.replica
    OBVIOUS
  <2>1. PICK p \in Prompts : route(p)
    BY DEF Routing, Next, complete, PowerPoll, Scrape, history, vars
  <2>2. last'.replica = tieCursor + 1 BY <2>1, TiedDecision
  <2>3. last.replica \in 1..N /\ tieCursor = last.replica % N BY DEF TieInv, Fleet
  <2>4. tieCursor = IF last.replica = N THEN 0 ELSE last.replica BY <2>3, Remainder, Constants
  <2>5. QED BY <2>2, <2>3, <2>4, Constants
<1>2. Init => LagInv /\ TieInv
  <2>1. Init => LagInv BY Constants DEF Init, LagInv
  <2>2. Init => TieInv BY DEF Init, TieInv
  <2>3. QED BY <2>1, <2>2
<1>3. LagInv /\ LagExact /\ [Next]_vars => LagInv' BY LagNext
<1> HIDE DEF A
<1>4. QED
  <2>1. Spec => []LagExact BY LagIsExact
  <2>2. Spec => []TypeOK BY RouterTypeOK
  <2>3. Spec => [][A]_vars BY <1>1, <1>2, <1>3, <2>1, <2>2, TieStep, PTL DEF Spec
  <2>4. [][A]_vars <=> TiesRotate BY DEF A, TiesRotate
  <2>5. QED BY <2>3, <2>4, PTL

-----------------------------------------------------------------------------
(* The policies that agree.                                                *)

(* In a state of the right type the candidates are typed and in the order  *)
(* of the fleet.                                                           *)
LEMMA CandidatesOnFleet ==
  ASSUME TypeOK, NEW p \in Prompts, NEW w \in Seq(Nat)
  PROVE  OnFleet(_build_candidates(p, w), N)
<1> DEFINE C == _build_candidates(p, w)
<1>1. Telemetered BY DEF TypeOK, Telemetered
<1>2. Typed(C) BY <1>1, AllOfferedTyped
<1>3. DOMAIN C = 1..N BY DEF _build_candidates, Fleet
<1>4. Len(C) = N BY Constants DEF _build_candidates, Fleet
<1>5. QED BY <1>2, <1>3, <1>4 DEF OnFleet

(* A decision is a function of the state: every policy that draws no       *)
(* random number picks exactly one replica of the fleet, whatever the      *)
(* prompt and the lagged squeeze (min over a rotated list, scoring.py).    *)
THEOREM OneReplicaPicked ==
  Spec => [](policy \notin RandomPolicies =>
              \A p \in Prompts, k \in Nat :
                IsOneOf(Picks(_build_candidates(p, Observed), IsWhale(p), k, tieCursor), Fleet))
<1>1. TypeOK => (policy \notin RandomPolicies =>
              \A p \in Prompts, k \in Nat :
                IsOneOf(Picks(_build_candidates(p, Observed), IsWhale(p), k, tieCursor), Fleet))
  <2> SUFFICES ASSUME TypeOK, policy \notin RandomPolicies, NEW p \in Prompts, NEW k \in Nat
               PROVE  IsOneOf(Picks(_build_candidates(p, Observed), IsWhale(p), k, tieCursor),
                              Fleet)
    OBVIOUS
  <2>1. Observed \in Seq(Nat) BY ObservedType DEF TypeOK
  <2>2. OnFleet(_build_candidates(p, Observed), N) BY <2>1, CandidatesOnFleet
  <2>3. policy \in Policies /\ rrIndex \in Int /\ tieCursor \in Int /\ N \in Nat \ {0}
    <3>1. <<policy, bsSource>> \in Setups /\ tieCursor \in 0..(N - 1) /\ rrIndex \in -1..(N - 1)
      BY DEF TypeOK
    <3>2. QED BY <3>1, SetupAssumption, Constants
  <2>4. QED BY <2>2, <2>3, PolicyPicksOne DEF Fleet
<1>2. QED BY <1>1, RouterTypeOK, PTL

-----------------------------------------------------------------------------
(* Policies that agree.                                                    *)

LEMMA SameOrder ==
  ASSUME NEW F, NEW start, NEW f, NEW g,
         \A x, y \in F : LexLess(f[x], f[y]) <=> LexLess(g[x], g[y])
  PROVE  MinOf(F, start, f) = MinOf(F, start, g)
BY DEF MinOf, Preferred, NoBetter

(* Capacities that divide the share 1.0 leave nothing to round.            *)
ExactShares == \A i \in Fleet : One % TokenBudget[i] = 0 /\ One % MaxNumSeqs[i] = 0

LEMMA DivideProduct ==
  ASSUME NEW d \in Nat \ {0}, NEW y \in Nat
  PROVE  (d * y) \div d = y
<1> DEFINE z == d * y
           q == z \div d
<1>1. z \in Nat BY ProductType
<1>2. q \in Int /\ d * q <= z /\ z < d * (q + 1)
  <2> HIDE DEF z
  <2>1. z = d * (z \div d) + (z % d) /\ z % d \in 0..(d - 1) /\ z \div d \in Int BY <1>1
  <2>2. d * (q + 1) = d * q + d BY <2>1
  <2>3. QED BY <1>1, <2>1, <2>2
<1> HIDE DEF q
<1>3. ASSUME q < y PROVE FALSE
  <2>1. q + 1 <= y BY <1>2, <1>3
  <2>2. d * (q + 1) <= d * y BY <1>2, <2>1
  <2>3. QED BY <1>1, <1>2, <2>2
<1>4. ASSUME y < q PROVE FALSE
  <2>1. d * y < d * q BY <1>2, <1>4
  <2>2. QED BY <1>1, <1>2, <2>1
<1>5. q = y BY <1>2, <1>3, <1>4
<1>6. QED BY <1>5 DEF q

LEMMA ExactShare ==
  ASSUME NEW x \in Nat, NEW d \in Nat \ {0}, One % d = 0
  PROVE  One \div d \in Nat \ {0} /\ Share(x, d) = x * (One \div d)
<1> DEFINE q == One \div d
<1>1. One = d * q /\ q \in Int
  <2>1. One = d * (One \div d) + (One % d) /\ One \div d \in Int BY ScoringConstants
  <2>2. QED BY <2>1
<1> HIDE DEF q
<1>2. q \in Nat \ {0}
  <2>1. ASSUME q <= 0 PROVE FALSE
    <3>1. d * q <= 0 BY <1>1, <2>1
    <3>2. QED BY <1>1, <3>1, ScoringConstants
  <2>2. QED BY <1>1, <2>1
<1> DEFINE y == x * q
<1>3. y \in Nat BY <1>2, ProductType
<1>4. x * One = d * y BY <1>1, <1>2
<1> HIDE DEF y
<1>5. Share(x, d) = y BY <1>3, <1>4, DivideProduct DEF Share
<1>6. QED BY <1>2, <1>5 DEF y, q

(* Multiplying every score by the same positive number keeps their order.  *)
LEMMA ScaledOrder ==
  ASSUME NEW g \in Nat \ {0}, NEW x \in Nat, NEW y \in Nat
  PROVE  LexLess(<<g * x>>, <<g * y>>) <=> LexLess(<<x>>, <<y>>)
<1>1. g * x \in Int /\ g * y \in Int BY ProductType
<1>2. g * x < g * y <=> x < y
  <2>1. ASSUME x < y PROVE g * x < g * y BY <2>1
  <2>2. ASSUME x >= y PROVE g * x >= g * y BY <2>2
  <2>3. QED BY <1>1, <2>1, <2>2
<1> DEFINE u == g * x
           v == g * y
<1> HIDE DEF u, v
<1>3. LexLess(<<u>>, <<v>>) <=> u < v BY <1>1, Lex1 DEF u, v
<1>4. LexLess(<<x>>, <<y>>) <=> x < y BY Lex1
<1>5. QED BY <1>2, <1>3, <1>4 DEF u, v

LEMMA Regroup ==
  ASSUME NEW t \in Nat, NEW f \in Nat, NEW w \in Nat, NEW a \in Nat, NEW b \in Nat
  PROVE  (t * a) * (f * b) * w = (a * b) * (t * f * w)
OBVIOUS

(* The policy of epsilon zero and the squeezed lmetric_power.              *)
LEMMA EpsilonZeroAgrees ==
  ASSUME TypeOK, ExactShares, SameCapacities, NEW p \in Prompts, NEW start
  PROVE  LET C == _build_candidates(p, window)
         IN  pick_lmetric_power_pareto_epsilon_zero_coincidence_ceiling(C, start)
               = pick_lmetric_power_coincidence_ceiling(C, start)
<1> DEFINE C == _build_candidates(p, window)
           D == DOMAIN C
           k == coincidence_ceiling_squeeze(C)
           f == [x \in D |-> lmetric_power_pareto_epsilon_zero_score(C[x], k)]
           g == [x \in D |-> lmetric_power_score_coincidence_ceiling(C[x], k)]
<1>1. OnFleet(C, N) BY CandidatesOnFleet DEF TypeOK
<1>2. D = Fleet BY <1>1 DEF OnFleet, Fleet
<1>3. k \in Nat BY <1>1, SqueezeTypes DEF OnFleet, Typed
<1>4. \A x \in D : C[x] \in Candidate BY <1>1 DEF OnFleet, Typed
<1>5. \A x \in Fleet : C[x].token_budget = TokenBudget[x] /\ C[x].max_num_seqs = MaxNumSeqs[x]
  BY DEF _build_candidates
<1>6. pick_lmetric_power_pareto_epsilon_zero_coincidence_ceiling(C, start) = MinOf(D, start, f)
  BY DEF pick_lmetric_power_pareto_epsilon_zero_coincidence_ceiling, Least, LeastAmong, MinOf,
         Preferred
<1>7. pick_lmetric_power_coincidence_ceiling(C, start) = MinOf(D, start, g)
  BY DEF pick_lmetric_power_coincidence_ceiling, Least, LeastAmong, MinOf, Preferred
<1> DEFINE a == One \div TokenBudget[1]
           b == One \div MaxNumSeqs[1]
           X(x) == C[x].new_tokens * C[x].in_flight_after * (One + k * share_power(C[x]))
<1>8. 1 \in Fleet BY Constants DEF Fleet
<1> HIDE DEF C, k
<1>9. a \in Nat \ {0} /\ b \in Nat \ {0}
  <2>1. TokenBudget[1] \in Nat \ {0} /\ MaxNumSeqs[1] \in Nat \ {0} BY <1>8, MoreConstants
  <2>2. QED BY <1>8, <2>1, ExactShare DEF ExactShares
<1>10. \A x \in Fleet : share_compute(C[x]) = C[x].new_tokens * a
                     /\ share_load(C[x]) = C[x].in_flight_after * b
  <2> SUFFICES ASSUME NEW x \in Fleet
               PROVE  share_compute(C[x]) = C[x].new_tokens * a
                      /\ share_load(C[x]) = C[x].in_flight_after * b
    OBVIOUS
  <2>1. TokenBudget[x] = TokenBudget[1] /\ MaxNumSeqs[x] = MaxNumSeqs[1]
    BY <1>8 DEF SameCapacities
  <2>2. TokenBudget[1] \in Nat \ {0} /\ MaxNumSeqs[1] \in Nat \ {0} BY <1>8, MoreConstants
  <2>3. C[x].new_tokens \in Nat /\ C[x].in_flight_after \in Nat BY <1>2, <1>4 DEF Candidate
  <2>4. One % TokenBudget[1] = 0 /\ One % MaxNumSeqs[1] = 0 BY <1>8 DEF ExactShares
  <2>5. QED
    BY <1>5, <2>1, <2>2, <2>3, <2>4, ExactShare DEF share_compute, share_load
<1> DEFINE gain == a * b
<1>11. gain \in Nat \ {0}
  <2> HIDE DEF a, b
  <2>1. QED BY <1>9, ProductGrows
<1>12. \A x \in D : X(x) \in Nat
  <2> SUFFICES ASSUME NEW x \in D PROVE X(x) \in Nat
    OBVIOUS
  <2>1. C[x].new_tokens \in Nat /\ C[x].in_flight_after \in Nat /\ share_power(C[x]) \in Nat
    BY <1>4, ShareTypes DEF Candidate
  <2>2. PICK t, h, q : t = C[x].new_tokens /\ h = C[x].in_flight_after /\ q = share_power(C[x])
    OBVIOUS
  <2>3. k * q \in Nat BY <1>3, <2>1, <2>2, ProductType
  <2>4. PICK s : s = One + k * q OBVIOUS
  <2>5. s \in Nat BY <2>3, <2>4, ScoringConstants
  <2>6. t * h \in Nat BY <2>1, <2>2, ProductType
  <2>7. t * h * s \in Nat BY <2>5, <2>6, ProductType
  <2>8. QED BY <2>2, <2>4, <2>7
<1>13. \A x \in D : f[x] = <<gain * X(x)>>
  <2> SUFFICES ASSUME NEW x \in D PROVE f[x] = <<gain * X(x)>>
    OBVIOUS
  <2>1. C[x].new_tokens \in Nat /\ C[x].in_flight_after \in Nat /\ share_power(C[x]) \in Nat
    BY <1>4, ShareTypes DEF Candidate
  <2>2. PICK t, h, q : t = C[x].new_tokens /\ h = C[x].in_flight_after /\ q = share_power(C[x])
    OBVIOUS
  <2>3. k * q \in Nat BY <1>3, <2>1, <2>2, ProductType
  <2>4. PICK s : s = One + k * q OBVIOUS
  <2>5. s \in Nat BY <2>3, <2>4, ScoringConstants
  <2>6. f[x] = <<(t * a) * (h * b) * s>>
    <3>1. f[x] = <<share_compute(C[x]) * share_load(C[x]) * (One + k * share_power(C[x]))>>
      BY DEF lmetric_power_pareto_epsilon_zero_score
    <3>2. share_compute(C[x]) = t * a /\ share_load(C[x]) = h * b BY <1>2, <1>10, <2>2
    <3>3. QED BY <2>2, <2>4, <3>1, <3>2
  <2>7. a \in Nat /\ b \in Nat BY <1>9
  <2> HIDE DEF a, b
  <2>8. (t * a) * (h * b) * s = (a * b) * (t * h * s) BY <2>1, <2>2, <2>5, <2>7, Regroup
  <2>9. X(x) = t * h * s BY <2>2, <2>4
  <2>10. QED BY <2>6, <2>8, <2>9
<1>14. \A x \in D : g[x] = <<X(x)>> BY DEF lmetric_power_score_coincidence_ceiling
<1> HIDE DEF f, g, X, gain, D
<1>15. \A x, y \in D : LexLess(f[x], f[y]) <=> LexLess(g[x], g[y])
  <2> SUFFICES ASSUME NEW x \in D, NEW y \in D
               PROVE  LexLess(f[x], f[y]) <=> LexLess(g[x], g[y])
    OBVIOUS
  <2>1. LexLess(<<gain * X(x)>>, <<gain * X(y)>>) <=> LexLess(<<X(x)>>, <<X(y)>>)
    BY <1>11, <1>12, ScaledOrder
  <2>2. QED BY <1>13, <1>14, <2>1
<1>16. MinOf(D, start, f) = MinOf(D, start, g) BY <1>15, SameOrder
<1>17. QED BY <1>6, <1>7, <1>16 DEF C

(* Where no replica is over its ceiling.                                   *)
LEMMA UnpressuredAgrees ==
  ASSUME NEW n \in Nat \ {0}, NEW C, OnFleet(C, n), NEW start, ~fleet_pressured(C)
  PROVE  /\ pick_constrained_lmetric(C, start) = pick_lmetric(C, start)
         /\ pick_pressure_switch(C, start) = pick_lmetric(C, start)
<1> DEFINE F == {x \in DOMAIN C : share_power(C[x]) <= One}
<1>1. \A x \in DOMAIN C : share_power(C[x]) \in Nat BY ShareTypes DEF OnFleet, Typed
<1>2. \A x \in DOMAIN C : ~(share_power(C[x]) > One) BY DEF fleet_pressured, Ramping
<1>3. F = DOMAIN C BY <1>1, <1>2, ScoringConstants
<1>4. F # {} BY <1>3 DEF OnFleet
<1>5. pick_constrained_lmetric(C, start) = LeastAmong(F, start, LAMBDA i : lmetric_score(C[i]))
  BY <1>4 DEF pick_constrained_lmetric
<1>6. QED BY <1>3, <1>5 DEF pick_pressure_switch, pick_lmetric, Least

(* The full tie-break refines the plain one.                               *)
LEMMA FullRefinesPlain ==
  ASSUME NEW n \in Nat \ {0}, NEW C, OnFleet(C, n), NEW start \in Int
  PROVE  LET key(S) == {dominant_share_vector_power_priority(C[i]) : i \in S}
         IN  key(pick_drf_power_tiebreak(C, start)) = key(pick_drf_power_tiebreak_full(C, start))
<1> DEFINE K(x) == dominant_share_vector_power_priority(C[x])
           V(x) == FullVector(C[x], share_power(C[x]))
<1>1. PICK x \in 1..n : pick_drf_power_tiebreak(C, start) = {x}
  BY VectorPicksOne DEF IsOneOf
<1>2. PICK y \in 1..n : pick_drf_power_tiebreak_full(C, start) = {y}
  BY VectorPicksOne DEF IsOneOf
<1>3. /\ IsScore(K(x), 3) /\ IsScore(K(y), 3) /\ IsScore(V(x), 4) /\ IsScore(V(y), 4)
      /\ C[x] \in Candidate /\ C[y] \in Candidate
  <2>1. C[x] \in Candidate /\ C[y] \in Candidate BY DEF OnFleet, Typed
  <2>2. QED BY <2>1, PriorityTypes, FullVectorType, ShareTypes
<1>4. Kept(x, y, K(x), K(y))
  <2>1. y \in DOMAIN C /\ x \in pick_drf_power_tiebreak(C, start) BY <1>1, <1>2 DEF OnFleet
  <2>2. QED BY <2>1 DEF pick_drf_power_tiebreak, Least, LeastAmong, Kept
<1>5. Kept(y, x, V(y), V(x))
  <2>1. x \in DOMAIN C /\ y \in pick_drf_power_tiebreak_full(C, start) BY <1>1, <1>2 DEF OnFleet
  <2>2. QED
    BY <2>1 DEF pick_drf_power_tiebreak_full, dominant_share_vector_power_priority_full,
                Least, LeastAmong, Kept
<1>6. LexLess(K(x), K(y)) => LexLess(V(x), V(y))
  <2> DEFINE a == dominant_share(C[x])
             b == share_power(C[x])
             c == share_load(C[x])
             d == share_compute(C[x])
             p == dominant_share(C[y])
             q == share_power(C[y])
             r == share_load(C[y])
             s == share_compute(C[y])
  <2>1. /\ b \in Int /\ c \in Int /\ d \in Int /\ q \in Int /\ r \in Int /\ s \in Int
        /\ b \in Nat /\ q \in Nat
    BY <1>3, ShareTypes
  <2>2. a \in Int /\ p \in Int BY <1>3, <2>1, DominantType DEF dominant_share
  <2>3. K(x) = <<a, b, c>> /\ K(y) = <<p, q, r>> BY DEF dominant_share_vector_power_priority
  <2>4. V(x) = <<a, b, c, d>> /\ V(y) = <<p, q, r, s>> BY DEF FullVector, dominant_share
  <2> HIDE DEF a, b, c, d, p, q, r, s
  <2>5. LexLess(<<a, b, c>>, <<p, q, r>>) <=>
          \/ a < p
          \/ a = p /\ b < q
          \/ a = p /\ b = q /\ c < r
    BY <2>1, <2>2, Lex3
  <2>6. LexLess(<<a, b, c, d>>, <<p, q, r, s>>) <=>
          \/ a < p
          \/ a = p /\ b < q
          \/ a = p /\ b = q /\ c < r
          \/ a = p /\ b = q /\ c = r /\ d < s
    BY <2>1, <2>2, Lex4, SMTT(60)
  <2>7. QED BY <2>3, <2>4, <2>5, <2>6, Zenon
<1> HIDE DEF K, V
<1>7. K(x) = K(y)
  <2>1. CASE x = y BY <2>1
  <2>2. CASE x # y
    <3>1. ~LexLess(K(y), K(x)) BY <1>3, <1>4, <2>2, LexAsymmetric DEF Kept, NoBetter
    <3>2. ~LexLess(V(x), V(y)) BY <1>3, <1>5, <2>2, LexAsymmetric DEF Kept, NoBetter
    <3>3. K(x) = K(y) \/ LexLess(K(x), K(y)) \/ LexLess(K(y), K(x)) BY <1>3, LexTotal
    <3>4. QED BY <1>6, <3>1, <3>2, <3>3
  <2>3. QED BY <2>1, <2>2
<1>8. dominant_share_vector_power_priority(C[x]) = dominant_share_vector_power_priority(C[y])
  BY <1>7 DEF K
<1>9. QED BY <1>1, <1>2, <1>8

(* The equivalences that scoring.py states between its policies: epsilon 0 *)
(* gives the squeezed lmetric_power back when capacities are equal, no     *)
(* pressure gives lmetric back, and the full tie-break only splits ties of *)
(* the plain one.  For any fleet whose capacities divide the unit of the   *)
(* shares, so that no share is rounded.                                    *)
THEOREM EquivalentPolicies ==
  ASSUME ExactShares
  PROVE  Spec => []PoliciesAgree
<1>1. TypeOK => PoliciesAgree
  <2> SUFFICES ASSUME TypeOK, NEW p \in Prompts
               PROVE  LET C == _build_candidates(p, window)
                          plain == pick_drf_power_tiebreak(C, tieCursor)
                          full == pick_drf_power_tiebreak_full(C, tieCursor)
                          key(S) == {dominant_share_vector_power_priority(C[i]) : i \in S}
                      IN  /\ SameCapacities =>
                               pick_lmetric_power_pareto_epsilon_zero_coincidence_ceiling(C, tieCursor)
                                 = pick_lmetric_power_coincidence_ceiling(C, tieCursor)
                          /\ ~fleet_pressured(C) =>
                               /\ pick_constrained_lmetric(C, tieCursor) = pick_lmetric(C, tieCursor)
                               /\ pick_pressure_switch(C, tieCursor) = pick_lmetric(C, tieCursor)
                          /\ key(plain) = key(full)
    BY DEF PoliciesAgree
  <2> DEFINE C == _build_candidates(p, window)
  <2>1. OnFleet(C, N) BY CandidatesOnFleet DEF TypeOK
  <2>2. tieCursor \in Int /\ N \in Nat \ {0} BY Constants DEF TypeOK
  <2>3. SameCapacities =>
          pick_lmetric_power_pareto_epsilon_zero_coincidence_ceiling(C, tieCursor)
            = pick_lmetric_power_coincidence_ceiling(C, tieCursor)
    BY EpsilonZeroAgrees
  <2> HIDE DEF C
  <2>4. ~fleet_pressured(C) =>
          /\ pick_constrained_lmetric(C, tieCursor) = pick_lmetric(C, tieCursor)
          /\ pick_pressure_switch(C, tieCursor) = pick_lmetric(C, tieCursor)
    BY <2>1, <2>2, UnpressuredAgrees
  <2>5. {dominant_share_vector_power_priority(C[i]) : i \in pick_drf_power_tiebreak(C, tieCursor)}
          = {dominant_share_vector_power_priority(C[i]) :
               i \in pick_drf_power_tiebreak_full(C, tieCursor)}
    BY <2>1, <2>2, FullRefinesPlain
  <2>6. QED BY <2>3, <2>4, <2>5 DEF C
<1>2. QED BY <1>1, RouterTypeOK, PTL
=============================================================================
