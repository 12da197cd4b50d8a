--------------------------- MODULE ChunkController ---------------------------
(***************************************************************************)
(* ChunkSizeController, which the patches put into vLLM's scheduler: once  *)
(* in every scheduler step it sets the step's token budget, the chunk, by  *)
(* one of several rules (CHUNK_MODE): the depth of the decode queue with   *)
(* hysteresis (patch_scheduler.py), the measured latency of the steps      *)
(* against an SLO (hotpatch_slo_tail.py), the time per token fed forward   *)
(* (the same file and hotpatch_ff_variant.py), and the SLO's headroom over *)
(* the cost of decoding (hotpatch_hslo.py).                                *)
(*                                                                         *)
(* Times and tokens are integers in units a configuration chooses; moving  *)
(* averages and costs per token are rounded down.  The step counter, the   *)
(* trace and the logging are left out.                                     *)
(***************************************************************************)
EXTENDS Integers, Sequences, FiniteSets, FiniteSetsExt, Folds

CONSTANTS
  MinTokens, MaxTokens, StartTokens,  \* the bounds and DYNAMIC_CHUNK_START
  Target, Hold,                       \* the depth rule
  Slo, AimdStep,                      \* the latency rules
  WindowLength, WindowMin, Percentile, CvarPercentile,
  AlphaMinPrefill, AlphaFloor,        \* the headroom rule
  Cutoff, LongCutoff,                 \* 0.5 s and 8 s: longer gaps are idle ones
  TokenTime,                          \* the linear plant of the fed-forward rule
  Modes,                              \* the CHUNK_MODEs considered
  Depths, Gaps, Placed                \* the inputs considered

LatencyModes == {"slo", "slotail", "slocvar"}
FeedforwardModes == {"feedforward", "feedforward_v1"}

ASSUME ChunkAssumption ==
  /\ {MinTokens, MaxTokens, Hold, WindowLength, AimdStep, TokenTime} \subseteq Nat \ {0}
  /\ MinTokens <= MaxTokens
  /\ {StartTokens, Target, Slo, WindowMin, AlphaMinPrefill, AlphaFloor,
      Cutoff, LongCutoff} \subseteq Nat
  /\ WindowMin > 0 /\ AlphaMinPrefill > 0
  /\ Percentile \in 0..100 /\ CvarPercentile \in 0..100
  /\ Modes \subseteq {"depth", "hslo"} \cup LatencyModes \cup FeedforwardModes
  /\ Depths \subseteq Nat /\ Gaps \subseteq Nat \ {0} /\ Placed \subseteq 1..MaxTokens

VARIABLES
  mode,          \* CHUNK_MODE
  chunk,
  shrinkCount, growCount,
  stepped,       \* _last_t is not None
  lat,           \* the moving average of the step latency, or Unknown
  win,           \* the deque of step latencies
  tau,           \* the time per token, or Unknown
  lastBudget,    \* the budget of the last step, or Unknown
  db, alpha,     \* the decode baseline and the time per prefill token, or Unknown
  prevDepth,
  lastTokens,    \* _ff_last_tokens, what the scheduler placed in the last step
  recent,        \* history: what the depths of the last Hold steps asked for
  quiet          \* history: the steps since the chunk last changed, up to Hold

counters  == <<shrinkCount, growCount>>
estimates == <<lat, win, tau, lastBudget, db, alpha, prevDepth>>
vars == <<mode, chunk, counters, stepped, estimates, lastTokens, recent, quiet>>

Unknown == -1

Clamp(x) == Max({MinTokens, Min({MaxTokens, x})})

Wish(depth) ==
  CASE 2 * depth > 3 * Target -> "shrink"
    [] 2 * depth < Target     -> "grow"
    [] OTHER                  -> "stay"

TypeOK ==
  /\ mode \in Modes
  /\ chunk \in MinTokens..MaxTokens
  /\ shrinkCount \in 0..Hold /\ growCount \in 0..Hold
  /\ stepped \in BOOLEAN
  /\ {lat, tau, lastBudget, db, alpha} \subseteq Nat \cup {Unknown}
  /\ win \in Seq(Nat) /\ Len(win) <= WindowLength
  /\ prevDepth \in Nat /\ lastTokens \in 0..MaxTokens
  /\ recent \in Seq({"shrink", "grow", "stay"}) /\ Len(recent) <= Hold
  /\ quiet \in 0..Hold

Init ==
  /\ mode \in Modes
  /\ chunk = Clamp(StartTokens)
  /\ shrinkCount = 0 /\ growCount = 0
  /\ stepped = FALSE
  /\ lat = Unknown /\ win = <<>> /\ tau = Unknown /\ lastBudget = Unknown
  /\ db = Unknown /\ alpha = Unknown /\ prevDepth = 0
  /\ lastTokens = 0
  /\ recent = <<>> /\ quiet = Hold

-----------------------------------------------------------------------------
(* The moves every rule is made of.                                        *)

Halved == Max({MinTokens, chunk \div 2})
Doubled == Min({MaxTokens, chunk * 2})
(* Mutant: the chunk is increased past its maximum.                        *)
IncreasedFreely == chunk + AimdStep

Increased == Min({MaxTokens, chunk + AimdStep})

(* Back off over the SLO, grow below three quarters of it: for a signal of *)
(* sum / n.                                                                *)
Aimd(sum, n) ==
  CASE sum > Slo * n         -> Halved
    [] 4 * sum < 3 * Slo * n -> Increased
    [] OTHER                 -> chunk

(* The exponential moving average, 3/10 of it new.                         *)
Ema(old, new) == IF old = Unknown THEN new ELSE (3 * new + 7 * old) \div 10

-----------------------------------------------------------------------------
(* _step_depth.                                                            *)

(* Mutant: the dead zone does not reset the counts.                        *)
CountPastDeadZone(wish) ==
  <<CASE wish = "shrink" -> shrinkCount + 1 [] wish = "grow" -> 0 [] OTHER -> shrinkCount,
    CASE wish = "grow" -> growCount + 1 [] wish = "shrink" -> 0 [] OTHER -> growCount>>

(* Mutant: a deep queue resets the shrink count as well.                   *)
CountGrowthOnly(wish) == <<0, IF wish = "grow" THEN growCount + 1 ELSE 0>>

Count(wish) ==
  <<IF wish = "shrink" THEN shrinkCount + 1 ELSE 0,
    IF wish = "grow" THEN growCount + 1 ELSE 0>>

(* Mutant: the shrink count is not reset by a move.                        *)
MoveKeepingCount(s, g) ==
  IF s >= Hold THEN chunk' = Halved /\ shrinkCount' = Hold /\ growCount' = g
  ELSE IF g >= Hold THEN chunk' = Doubled /\ shrinkCount' = s /\ growCount' = 0
  ELSE chunk' = chunk /\ shrinkCount' = s /\ growCount' = g

MoveAfterHold(s, g) ==
  IF s >= Hold THEN chunk' = Halved /\ shrinkCount' = 0 /\ growCount' = g
  ELSE IF g >= Hold THEN chunk' = Doubled /\ shrinkCount' = s /\ growCount' = 0
  ELSE chunk' = chunk /\ shrinkCount' = s /\ growCount' = g

StepDepth(depth) ==
  /\ mode = "depth"
  /\ LET count == Count(Wish(depth)) IN MoveAfterHold(count[1], count[2])
  /\ UNCHANGED <<stepped, estimates>>

-----------------------------------------------------------------------------
(* _step_slo, _step_slotail and _step_slocvar.                             *)

(* _measure: the time since the last step counts when something decodes    *)
(* and the gap is not an idle one.                                         *)
Measured(depth, gap) == stepped /\ depth > 0 /\ gap < Cutoff

StepSlo(depth, gap) ==
  /\ mode = "slo"
  /\ stepped' = TRUE
  /\ lat' = IF Measured(depth, gap) THEN Ema(lat, gap) ELSE lat
  /\ chunk' = IF lat' = Unknown THEN chunk ELSE Aimd(lat', 1)
  /\ UNCHANGED <<counters, win, tau, lastBudget, db, alpha, prevDepth>>

(* deque(maxlen=WindowLength).                                             *)
Pushed(w, x) ==
  LET s == Append(w, x) IN IF Len(s) > WindowLength THEN Tail(s) ELSE s

(* Mutant: the cut is one place too low.                                   *)
CutBelow(n, pctl) == Max({1, (pctl * n) \div 100})

(* The place of the percentile in the sorted window, counted from 1.       *)
Cut(n, pctl) == Min({n, (pctl * n) \div 100 + 1})

(* sorted(): at place k the value that fewer than k values are below, and  *)
(* at least k are not above.                                               *)
Sorted(w) ==
  [k \in DOMAIN w |->
     CHOOSE v \in {w[i] : i \in DOMAIN w} :
       /\ Cardinality({i \in DOMAIN w : w[i] < v}) < k
       /\ k <= Cardinality({i \in DOMAIN w : w[i] <= v})]

Sum(s) == FoldFunction(LAMBDA x, y : x + y, 0, s)

StepTail(depth, gap) ==
  /\ mode \in {"slotail", "slocvar"}
  /\ stepped' = TRUE
  /\ win' = IF Measured(depth, gap) THEN Pushed(win, gap) ELSE win
  /\ chunk' =
       LET xs == Sorted(win')
           n == Len(win')
           tail == SubSeq(xs, Cut(n, CvarPercentile), n)
       IN  IF n < WindowMin THEN chunk
           ELSE IF mode = "slotail" THEN Aimd(xs[Cut(n, Percentile)], 1)
           ELSE Aimd(Sum(tail), Len(tail))
  /\ UNCHANGED <<counters, lat, tau, lastBudget, db, alpha, prevDepth>>

-----------------------------------------------------------------------------
(* _step_feedforward.                                                      *)

(* The tokens the measured time is divided by, Unknown or 0 when there are *)
(* none.                                                                   *)
GrantedFirst == IF lastBudget # Unknown THEN lastBudget ELSE lastTokens
ActualFirst == IF lastTokens > 0 THEN lastTokens ELSE lastBudget

TokenBasis == IF mode = "feedforward_v1" THEN GrantedFirst ELSE ActualFirst

(* round(x / y): a half goes to the even neighbour.                        *)
Rounded(x, y) ==
  LET q == x \div y
      twice == 2 * (x % y)
  IN  IF twice > y \/ (twice = y /\ q % 2 = 1) THEN q + 1 ELSE q

StepFeedforward(gap) ==
  /\ mode \in FeedforwardModes
  /\ stepped' = TRUE
  /\ tau' = IF stepped /\ TokenBasis > 0 /\ gap < Cutoff
              THEN Ema(tau, gap \div TokenBasis) ELSE tau
  /\ chunk' = IF tau' > 0 THEN Clamp(Rounded(Slo, tau')) ELSE chunk
  /\ lastBudget' = chunk'
  /\ UNCHANGED <<counters, lat, win, db, alpha, prevDepth>>

-----------------------------------------------------------------------------
(* _step_hslo.                                                             *)

PrefillLast == Max({0, lastTokens - prevDepth})

(* The cost of a prefill token, never 0.                                   *)
ResidualCost(gap) ==
  Max({1, (gap - (IF db = Unknown THEN 0 ELSE db)) \div PrefillLast})

(* Mutant: the budget is rounded up.                                       *)
HeadroomRoundedUp(d, a) == Clamp((Slo - d + a - 1) \div a)

HeadroomBudget(d, a) == Clamp((Slo - d) \div a)

StepHslo(depth, gap) ==
  /\ mode = "hslo"
  /\ stepped' = TRUE
  /\ IF stepped /\ PrefillLast = 0 /\ prevDepth > 0 /\ gap < Cutoff
       THEN db' = Ema(db, gap) /\ UNCHANGED alpha
     ELSE IF stepped /\ PrefillLast >= AlphaMinPrefill /\ gap < LongCutoff
       THEN alpha' = Ema(alpha, ResidualCost(gap)) /\ UNCHANGED db
     ELSE UNCHANGED <<db, alpha>>
  /\ prevDepth' = depth
  /\ chunk' =
       CASE depth = 0                      -> MaxTokens
         [] depth > 0 /\ Unknown \in {db', alpha'} -> Clamp(StartTokens)
         [] depth > 0 /\ Unknown \notin {db', alpha'} ->
              IF Slo - db' <= 0 THEN MinTokens
              ELSE HeadroomBudget(db', Max({alpha', AlphaFloor}))
  /\ UNCHANGED <<counters, lat, win, tau, lastBudget>>

-----------------------------------------------------------------------------
(* One scheduler step: depth requests decode, gap is the time since the    *)
(* last step, and tokens is what the step will place in its budget.  Under *)
(* the fed-forward rules the time is that of a linear plant or an idle one.*)
Elapsed ==
  IF mode \in FeedforwardModes
    THEN {TokenTime * lastTokens, Cutoff} ELSE Gaps

Step(depth, gap, tokens) ==
  /\ gap \in Elapsed
  /\ \/ StepDepth(depth)
     \/ StepSlo(depth, gap)
     \/ StepTail(depth, gap)
     \/ StepFeedforward(gap)
     \/ StepHslo(depth, gap)
  /\ tokens <= chunk' /\ lastTokens' = tokens
  /\ recent' = IF mode = "depth"
                 THEN LET s == Append(recent, Wish(depth))
                      IN  IF Len(s) > Hold THEN Tail(s) ELSE s
                 ELSE recent
  /\ quiet' = CASE mode # "depth" -> quiet
                [] mode = "depth" /\ chunk' # chunk -> 0
                [] mode = "depth" /\ chunk' = chunk -> Min({Hold, quiet + 1})
  /\ UNCHANGED mode

Next ==
  \E depth \in Depths, gap \in Gaps \cup {Cutoff} \cup {TokenTime * t : t \in Placed},
     tokens \in Placed :
    Step(depth, gap, tokens)

Spec == Init /\ [][Next]_vars

(* The engine goes on stepping while it has requests.                      *)
FairSpec == Spec /\ WF_vars(Next)

-----------------------------------------------------------------------------
(* Properties.                                                             *)

(* The depth rule changes the chunk only after Hold successive steps that  *)
(* asked for just that change (hotpatch_chunk_hysteresis.py: "only change  *)
(* chunk size after HOLD consecutive steps above/below the threshold").    *)
ChangesAfterHold ==
  [][(mode = "depth" /\ chunk' # chunk) =>
       LET asked == IF chunk' < chunk THEN "shrink" ELSE "grow"
       IN  Len(recent') = Hold /\ \A k \in 1..Hold : recent'[k] = asked]_vars

(* Two changes of the depth rule are at least Hold steps apart ("prevents  *)
(* rapid oscillation").                                                    *)
ChangesApart ==
  [][(mode = "depth" /\ chunk' # chunk) => quiet >= Hold - 1]_vars

(* The percentile rule grows the chunk only if no more than the tail it    *)
(* disregards was slower than three quarters of the SLO, and halves it     *)
(* only if the whole tail was over the SLO, counted over the window.       *)
TailDecides ==
  [][mode = "slotail" =>
       LET n == Len(win')
           slow(x) == Cardinality({k \in 1..n : win'[k] >= x})
       IN  /\ chunk' > chunk =>
                100 * Cardinality({k \in 1..n : 4 * win'[k] >= 3 * Slo}) <= (100 - Percentile) * n
           /\ chunk' < chunk => 100 * slow(Slo + 1) >= (100 - Percentile) * n]_vars

(* Where a step's time is proportional to the tokens it really processed,  *)
(* the fed-forward rule knows the time per token after its first           *)
(* measurement and stays at one chunk, however little of its budget the    *)
(* steps use (_step_feedforward: "converges to a STABLE INTERIOR value").  *)
FeedforwardSettles ==
  (mode = "feedforward" /\ tau # Unknown) =>
    tau = TokenTime /\ chunk = Clamp(Rounded(Slo, TokenTime))

(* A chunk that the headroom rule computed keeps the predicted time of a   *)
(* step within the SLO, unless it is the smallest one (hotpatch_hslo.py:   *)
(* "predicted_iter = db+budget*alpha_eff <= SLO BY CONSTRUCTION").         *)
PredictedWithinSlo ==
  (mode = "hslo" /\ prevDepth > 0 /\ Unknown \notin {db, alpha}) =>
    chunk = MinTokens \/ db + chunk * Max({alpha, AlphaFloor}) <= Slo

(* A decode queue that stays deep brings the chunk to its minimum, and one *)
(* that stays shallow to its maximum.                                      *)
Asked(wish) == recent # <<>> /\ recent[Len(recent)] = wish

DepthDecidesInTheEnd ==
  /\ <>[](mode = "depth" /\ Asked("shrink")) => <>[](chunk = MinTokens)
  /\ <>[](mode = "depth" /\ Asked("grow")) => <>[](chunk = MaxTokens)
=============================================================================
