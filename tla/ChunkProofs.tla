----------------------------- MODULE ChunkProofs -----------------------------
(* What TLAPS proves about ChunkController, for all bounds, thresholds,    *)
(* depths, step times and loads.                                           *)
EXTENDS ChunkController, DataLemmas

-----------------------------------------------------------------------------
(* Lemmas about the arithmetic of the rules.                               *)

LEMMA Constants ==
  /\ MinTokens \in Nat \ {0} /\ MaxTokens \in Nat \ {0} /\ MinTokens <= MaxTokens
  /\ Hold \in Nat \ {0} /\ WindowLength \in Nat \ {0} /\ AimdStep \in Nat \ {0}
  /\ TokenTime \in Nat \ {0}
  /\ StartTokens \in Nat /\ Target \in Nat /\ Slo \in Nat /\ AlphaFloor \in Nat
  /\ AlphaMinPrefill \in Nat \ {0} /\ Cutoff \in Nat /\ LongCutoff \in Nat
  /\ Depths \subseteq Nat /\ Gaps \subseteq Nat \ {0} /\ Placed \subseteq 1..MaxTokens
BY ChunkAssumption

(* The clamped value is x, or the bound that x is beyond.                  *)
LEMMA Clamped ==
  ASSUME NEW x \in Int
  PROVE  /\ Clamp(x) \in MinTokens..MaxTokens
         /\ Clamp(x) <= x \/ Clamp(x) = MinTokens
<1>1. Min({MaxTokens, x}) = IF MaxTokens <= x THEN MaxTokens ELSE x BY MinOfTwo, Constants
<1>2. Min({MaxTokens, x}) \in Int BY <1>1, Constants
<1>3. Clamp(x) = IF MinTokens >= Min({MaxTokens, x}) THEN MinTokens ELSE Min({MaxTokens, x})
  BY <1>2, MaxOfTwo, Constants DEF Clamp
<1>4. QED BY <1>1, <1>2, <1>3, Constants

(* The moves of the rules keep the chunk in its bounds, in their direction.*)
LEMMA Moves ==
  ASSUME chunk \in MinTokens..MaxTokens
  PROVE  /\ Halved \in MinTokens..MaxTokens /\ Halved <= chunk
         /\ Doubled \in MinTokens..MaxTokens /\ Doubled >= chunk
         /\ Increased \in MinTokens..MaxTokens
<1>1. Halved = IF MinTokens >= chunk \div 2 THEN MinTokens ELSE chunk \div 2
  BY MaxOfTwo, Constants DEF Halved
<1>2. Doubled = IF MaxTokens <= chunk * 2 THEN MaxTokens ELSE chunk * 2
  BY MinOfTwo, Constants DEF Doubled
<1>3. Increased = IF MaxTokens <= chunk + AimdStep THEN MaxTokens ELSE chunk + AimdStep
  BY MinOfTwo, Constants DEF Increased
<1>4. QED BY <1>1, <1>2, <1>3, Constants

LEMMA AimdInBounds ==
  ASSUME chunk \in MinTokens..MaxTokens, NEW sum, NEW n
  PROVE  Aimd(sum, n) \in MinTokens..MaxTokens
BY Moves DEF Aimd

(* The moving average of known values lies above what both lie above.      *)
LEMMA EmaType ==
  ASSUME NEW old \in Nat \cup {Unknown}, NEW new \in Nat
  PROVE  /\ Ema(old, new) \in Nat
         /\ old # 0 /\ new # 0 => Ema(old, new) # 0
         /\ old \in {Unknown, new} => Ema(old, new) = new
BY DEF Ema, Unknown

(* Division by a positive number.                                          *)
LEMMA Quotient ==
  ASSUME NEW x \in Nat, NEW a \in Nat \ {0}
  PROVE  x \div a \in Nat /\ (x \div a) * a <= x
OBVIOUS

LEMMA ProductMonotone ==
  ASSUME NEW x \in Nat, NEW y \in Nat, NEW a \in Nat, x <= y
  PROVE  x * a <= y * a
OBVIOUS

LEMMA ExactQuotient ==
  ASSUME NEW x \in Nat, NEW a \in Nat \ {0}
  PROVE  (x * a) \div a = x /\ x * a \in Nat
OBVIOUS

-----------------------------------------------------------------------------
(* The inductive invariant.                                                *)

(* The counts of the depth rule have run for as long as nothing moved, and *)
(* they are the length of the run of requests that recent ends with.       *)
Run(count, wish) ==
  /\ count <= quiet /\ count < Hold /\ count <= Len(recent)
  /\ \A k \in 1..Len(recent) : k > Len(recent) - count => recent[k] = wish

CountsAreRuns == Run(shrinkCount, "shrink") /\ Run(growCount, "grow")

(* The scheduler fills some of every budget.                               *)
FedForward ==
  mode = "feedforward" =>
    /\ stepped => lastTokens > 0
    /\ tau \in {Unknown, TokenTime}

IInv ==
  /\ TypeOK /\ CountsAreRuns /\ FedForward /\ FeedforwardSettles
  /\ alpha # 0 /\ PredictedWithinSlo

LEMMA StartClamped == Clamp(StartTokens) \in MinTokens..MaxTokens
BY Clamped, Constants

LEMMA ChunkInit == Init => IInv
<1> SUFFICES ASSUME Init PROVE IInv
  OBVIOUS
<1> USE Constants
<1>1. TypeOK
  <2>1. win \in Seq(Nat) /\ Len(win) <= WindowLength /\ recent \in Seq({"shrink", "grow", "stay"})
        /\ Len(recent) <= Hold
    BY DEF Init
  <2>2. chunk \in MinTokens..MaxTokens /\ mode \in Modes /\ stepped \in BOOLEAN
    BY StartClamped DEF Init
  <2>3. {lat, tau, lastBudget, db, alpha} \subseteq Nat \cup {Unknown} BY DEF Init, Unknown
  <2>4. /\ shrinkCount \in 0..Hold /\ growCount \in 0..Hold /\ quiet \in 0..Hold
        /\ prevDepth \in Nat /\ lastTokens \in 0..MaxTokens
    BY DEF Init
  <2>5. QED BY <2>1, <2>2, <2>3, <2>4 DEF TypeOK
<1>2. CountsAreRuns BY DEF Init, CountsAreRuns, Run
<1>3. FedForward /\ FeedforwardSettles /\ alpha # 0 /\ PredictedWithinSlo
  BY DEF Init, FedForward, FeedforwardSettles, PredictedWithinSlo, Unknown
<1>4. QED BY <1>1, <1>2, <1>3 DEF IInv

-----------------------------------------------------------------------------
(* The depth rule.                                                         *)

LEMMA WishIs ==
  ASSUME NEW depth
  PROVE  Wish(depth) \in {"shrink", "grow", "stay"}
BY Zenon DEF Wish

(* A count that reaches Hold moves the chunk its way and starts again.     *)
LEMMA DepthOutcome ==
  ASSUME TypeOK, NEW depth, StepDepth(depth)
  PROVE  LET s == IF Wish(depth) = "shrink" THEN shrinkCount + 1 ELSE 0
             g == IF Wish(depth) = "grow" THEN growCount + 1 ELSE 0
         IN  /\ chunk' \in MinTokens..MaxTokens
             /\ shrinkCount' = IF s >= Hold THEN 0 ELSE s
             /\ growCount' = IF g >= Hold THEN 0 ELSE g
             /\ chunk' < chunk => s >= Hold
             /\ chunk' > chunk => g >= Hold
             /\ UNCHANGED <<stepped, estimates>>
<1> DEFINE s == IF Wish(depth) = "shrink" THEN shrinkCount + 1 ELSE 0
           g == IF Wish(depth) = "grow" THEN growCount + 1 ELSE 0
<1>1. chunk \in MinTokens..MaxTokens /\ shrinkCount \in 0..Hold /\ growCount \in 0..Hold
  BY DEF TypeOK
<1>2. s \in Nat /\ g \in Nat /\ (s = 0 \/ g = 0) BY <1>1, Constants
<1>3. MoveAfterHold(s, g) /\ UNCHANGED <<stepped, estimates>> BY DEF StepDepth, Count
<1> HIDE DEF s, g
<1>4. QED BY <1>1, <1>2, <1>3, Moves, Constants DEF MoveAfterHold, s, g

(* What the two histories of the model note in a step of the depth rule.   *)
LEMMA HistoryOutcome ==
  ASSUME TypeOK, NEW depth, NEW gap, NEW tokens, Step(depth, gap, tokens)
  PROVE  /\ mode = "depth" =>
              /\ recent' = LET s == Append(recent, Wish(depth))
                           IN  IF Len(s) > Hold THEN Tail(s) ELSE s
              /\ quiet' = IF chunk' # chunk THEN 0
                          ELSE IF Hold <= quiet + 1 THEN Hold ELSE quiet + 1
         /\ mode # "depth" => recent' = recent /\ quiet' = quiet
         /\ mode' = mode
<1>1. Min({Hold, quiet + 1}) = IF Hold <= quiet + 1 THEN Hold ELSE quiet + 1
  BY MinOfTwo, Constants DEF TypeOK
<1>2. CASE mode = "depth"
  <2>1. quiet' = IF chunk' # chunk THEN 0 ELSE Min({Hold, quiet + 1})
    BY <1>2, Zenon DEF Step
  <2>2. QED BY <1>1, <1>2, <2>1 DEF Step
<1>3. CASE mode # "depth" BY <1>3, Zenon DEF Step
<1>4. QED BY <1>2, <1>3

(* A window of the last Hold wishes.                                       *)
LEMMA Appended ==
  ASSUME TypeOK, NEW w \in {"shrink", "grow", "stay"}
  PROVE  LET s == Append(recent, w)
             r == IF Len(s) > Hold THEN Tail(s) ELSE s
         IN  /\ r \in Seq({"shrink", "grow", "stay"})
             /\ Len(r) = IF Len(recent) = Hold THEN Hold ELSE Len(recent) + 1
             /\ r[Len(r)] = w
             /\ \A k \in 1..(Len(r) - 1) : r[k] = recent[Len(recent) - (Len(r) - 1) + k]
<1> DEFINE W == {"shrink", "grow", "stay"}
           s == Append(recent, w)
<1>1. recent \in Seq(W) /\ w \in W /\ Len(recent) \in 0..Hold BY DEF TypeOK
<1> HIDE DEF W
<1>2. /\ s \in Seq(W) /\ Len(s) = Len(recent) + 1 /\ s[Len(recent) + 1] = w
      /\ \A k \in 1..Len(recent) : s[k] = recent[k]
  BY <1>1
<1> HIDE DEF s
<1>3. CASE Len(s) > Hold
  <2>1. Tail(s) \in Seq(W) /\ Len(Tail(s)) = Len(s) - 1
        /\ \A k \in 1..(Len(s) - 1) : Tail(s)[k] = s[k + 1]
    BY <1>1, <1>2
  <2>2. Len(recent) = Hold /\ Len(s) - 1 = Hold BY <1>1, <1>2, <1>3, Constants
  <2>3. Tail(s)[Hold] = w BY <1>2, <2>1, <2>2, Constants
  <2>4. \A k \in 1..(Hold - 1) : Tail(s)[k] = recent[k + 1] BY <1>2, <2>1, <2>2, Constants
  <2>5. \A k \in 1..(Hold - 1) : Hold - (Hold - 1) + k = k + 1 BY Constants
  <2> DEFINE r == Tail(s)
  <2>6. r \in Seq(W) /\ Len(r) = Hold BY <2>1, <2>2
  <2>7. \A k \in 1..(Len(r) - 1) : r[k] = recent[Len(recent) - (Len(r) - 1) + k]
    <3> HIDE DEF r
    <3>1. QED BY <2>2, <2>4, <2>5, <2>6 DEF r
  <2>8. QED BY <1>3, <2>2, <2>3, <2>6, <2>7 DEF s, W
<1>4. CASE ~(Len(s) > Hold) BY <1>1, <1>2, <1>4, Constants DEF s, W
<1>5. QED BY <1>3, <1>4

(* A count that runs and is counted on, starts again or stays.             *)
LEMMA RunStep ==
  ASSUME TypeOK, NEW w \in {"shrink", "grow", "stay"}, NEW wish \in {"shrink", "grow"},
         NEW count \in 0..Hold, Run(count, wish),
         recent' = LET s == Append(recent, w) IN IF Len(s) > Hold THEN Tail(s) ELSE s
  PROVE  LET c == IF w = wish THEN count + 1 ELSE 0
         IN  /\ c <= Len(recent')
             /\ \A k \in 1..Len(recent') : k > Len(recent') - c => recent'[k] = wish
<1> DEFINE c == IF w = wish THEN count + 1 ELSE 0
           r == recent'
<1>1. /\ Len(r) = IF Len(recent) = Hold THEN Hold ELSE Len(recent) + 1
      /\ r[Len(r)] = w
      /\ \A k \in 1..(Len(r) - 1) : r[k] = recent[Len(recent) - (Len(r) - 1) + k]
  BY Appended
<1>2. Len(recent) \in 0..Hold /\ count < Hold /\ count <= Len(recent)
      /\ \A k \in 1..Len(recent) : k > Len(recent) - count => recent[k] = wish
  BY DEF TypeOK, Run
<1> HIDE DEF r
<1>3. Len(r) \in Nat /\ Len(r) - 1 <= Len(recent) BY <1>1, <1>2, Constants
<1>4. c <= Len(r) BY <1>1, <1>2, Constants
<1>5. ASSUME NEW k \in 1..Len(r), k > Len(r) - c PROVE r[k] = wish
  <2>1. w = wish /\ c = count + 1 BY <1>3, <1>5
  <2>2. CASE k = Len(r) BY <1>1, <2>1, <2>2
  <2>3. CASE k # Len(r)
    <3> DEFINE m == Len(recent) - (Len(r) - 1) + k
    <3>1. k \in 1..(Len(r) - 1) BY <1>3, <2>3
    <3>2. m \in 1..Len(recent) /\ m > Len(recent) - count
      BY <1>2, <1>3, <1>5, <2>1, <3>1
    <3>3. r[k] = recent[m] BY <1>1, <3>1
    <3> HIDE DEF m
    <3>4. QED BY <1>2, <3>2, <3>3
  <2>4. QED BY <2>2, <2>3
<1>6. QED BY <1>4, <1>5 DEF r

LEMMA RunsStep ==
  ASSUME IInv, NEW depth, NEW gap, NEW tokens, Step(depth, gap, tokens), mode = "depth"
  PROVE  /\ CountsAreRuns'
         /\ chunk' # chunk => quiet >= Hold - 1
         /\ chunk' # chunk =>
              LET asked == IF chunk' < chunk THEN "shrink" ELSE "grow"
              IN  Len(recent') = Hold /\ \A k \in 1..Hold : recent'[k] = asked
<1> DEFINE w == Wish(depth)
           s == IF w = "shrink" THEN shrinkCount + 1 ELSE 0
           g == IF w = "grow" THEN growCount + 1 ELSE 0
<1>1. w \in {"shrink", "grow", "stay"} BY WishIs
<1>2. StepDepth(depth)
  BY DEF Step, StepSlo, StepTail, StepFeedforward, StepHslo, FeedforwardModes
<1>3. /\ TypeOK /\ Run(shrinkCount, "shrink") /\ Run(growCount, "grow")
      /\ shrinkCount \in 0..Hold /\ growCount \in 0..Hold /\ quiet \in 0..Hold
      /\ chunk \in MinTokens..MaxTokens
  BY DEF IInv, CountsAreRuns, TypeOK
<1>4. /\ recent' = LET x == Append(recent, w) IN IF Len(x) > Hold THEN Tail(x) ELSE x
      /\ quiet' = IF chunk' # chunk THEN 0 ELSE IF Hold <= quiet + 1 THEN Hold ELSE quiet + 1
  BY <1>3, HistoryOutcome
<1>5. /\ chunk' \in MinTokens..MaxTokens
      /\ shrinkCount' = IF s >= Hold THEN 0 ELSE s
      /\ growCount' = IF g >= Hold THEN 0 ELSE g
      /\ chunk' < chunk => s >= Hold
      /\ chunk' > chunk => g >= Hold
  BY <1>2, <1>3, DepthOutcome
<1> HIDE DEF w
<1>6. s <= Len(recent') /\ \A k \in 1..Len(recent') : k > Len(recent') - s => recent'[k] = "shrink"
  BY <1>1, <1>3, <1>4, RunStep
<1>7. g <= Len(recent') /\ \A k \in 1..Len(recent') : k > Len(recent') - g => recent'[k] = "grow"
  BY <1>1, <1>3, <1>4, RunStep
<1>8. Len(recent') \in 0..Hold
  <2>1. Len(recent') = IF Len(recent) = Hold THEN Hold ELSE Len(recent) + 1
    BY <1>1, <1>3, <1>4, Appended
  <2>2. QED BY <1>3, <2>1, Constants DEF TypeOK
<1>9. /\ shrinkCount <= quiet /\ shrinkCount < Hold /\ growCount <= quiet /\ growCount < Hold
  BY <1>3 DEF Run
<1>10. s \in Nat /\ g \in Nat /\ s <= quiet + 1 /\ g <= quiet + 1 /\ s <= Hold /\ g <= Hold
       /\ (s = 0 \/ g = 0)
  BY <1>3, <1>9, Constants
<1> HIDE DEF s, g
<1>11. chunk' # chunk => quiet >= Hold - 1 BY <1>3, <1>5, <1>10, Constants
<1>12. chunk' # chunk =>
         LET asked == IF chunk' < chunk THEN "shrink" ELSE "grow"
         IN  Len(recent') = Hold /\ \A k \in 1..Hold : recent'[k] = asked
  <2>1. CASE chunk' < chunk
    <3>1. s = Hold /\ Len(recent') = Hold BY <1>5, <1>6, <1>8, <1>10, <2>1, Constants
    <3>2. \A k \in 1..Hold : recent'[k] = "shrink" BY <1>6, <3>1, Constants
    <3>3. QED BY <2>1, <3>1, <3>2
  <2>2. CASE chunk' > chunk
    <3>1. g = Hold /\ Len(recent') = Hold BY <1>5, <1>7, <1>8, <1>10, <2>2, Constants
    <3>2. \A k \in 1..Hold : recent'[k] = "grow" BY <1>7, <3>1, Constants
    <3>3. ~(chunk' < chunk) BY <1>3, <1>5, <2>2
    <3>4. QED BY <3>1, <3>2, <3>3
  <2>3. QED BY <1>3, <1>5, <2>1, <2>2
<1>13. Run(shrinkCount, "shrink")'
  <2>1. CASE s >= Hold
    <3>1. shrinkCount' = 0 /\ quiet' \in Nat BY <1>3, <1>4, <1>5, <2>1, Constants
    <3>2. QED BY <1>8, <3>1, Constants DEF Run
  <2>2. CASE ~(s >= Hold)
    <3>1. shrinkCount' = s BY <1>5, <2>2
    <3>2. s <= quiet'
      BY <1>3, <1>4, <1>5, <1>10, <2>2, Constants
    <3>3. QED BY <1>6, <1>10, <2>2, <3>1, <3>2, Constants DEF Run
  <2>3. QED BY <2>1, <2>2
<1>14. Run(growCount, "grow")'
  <2>1. CASE g >= Hold
    <3>1. growCount' = 0 /\ quiet' \in Nat BY <1>3, <1>4, <1>5, <2>1, Constants
    <3>2. QED BY <1>8, <3>1, Constants DEF Run
  <2>2. CASE ~(g >= Hold)
    <3>1. growCount' = g BY <1>5, <2>2
    <3>2. g <= quiet'
      BY <1>3, <1>4, <1>5, <1>10, <2>2, Constants
    <3>3. QED BY <1>7, <1>10, <2>2, <3>1, <3>2, Constants DEF Run
  <2>3. QED BY <2>1, <2>2
<1>15. QED BY <1>11, <1>12, <1>13, <1>14 DEF CountsAreRuns

-----------------------------------------------------------------------------
(* The rules that measure time.                                            *)

LEMMA GapType ==
  ASSUME TypeOK, NEW gap \in Elapsed
  PROVE  /\ gap \in Nat
         /\ mode \in FeedforwardModes => gap \in {TokenTime * lastTokens, Cutoff}
<1>1. lastTokens \in Nat /\ TokenTime * lastTokens \in Nat BY Constants DEF TypeOK
<1>2. QED BY <1>1, Constants DEF Elapsed

LEMMA SloOutcome ==
  ASSUME TypeOK, NEW depth, NEW gap \in Nat, StepSlo(depth, gap)
  PROVE  chunk' \in MinTokens..MaxTokens /\ lat' \in Nat \cup {Unknown}
<1>1. lat \in Nat \cup {Unknown} /\ chunk \in MinTokens..MaxTokens BY DEF TypeOK
<1>2. lat' \in Nat \cup {Unknown} BY <1>1, EmaType DEF StepSlo
<1>3. chunk' = chunk \/ chunk' = Aimd(lat', 1) BY DEF StepSlo
<1>4. QED BY <1>1, <1>2, <1>3, AimdInBounds

LEMMA TailOutcome ==
  ASSUME TypeOK, NEW depth, NEW gap \in Nat, StepTail(depth, gap)
  PROVE  /\ chunk' \in MinTokens..MaxTokens
         /\ win' \in Seq(Nat) /\ Len(win') <= WindowLength
<1>1. win \in Seq(Nat) /\ Len(win) <= WindowLength /\ chunk \in MinTokens..MaxTokens
  BY DEF TypeOK
<1>2. win' = win \/ win' = Pushed(win, gap) BY DEF StepTail
<1>3. Pushed(win, gap) \in Seq(Nat) /\ Len(Pushed(win, gap)) <= WindowLength
  <2> DEFINE s == Append(win, gap)
  <2>1. s \in Seq(Nat) /\ Len(s) = Len(win) + 1 BY <1>1
  <2> HIDE DEF s
  <2>2. Len(s) > WindowLength => Tail(s) \in Seq(Nat) /\ Len(Tail(s)) = Len(s) - 1
    BY <1>1, <2>1, Constants
  <2>3. QED BY <1>1, <2>1, <2>2, Constants DEF Pushed, s
<1>4. chunk' = chunk \/ \E sum, n : chunk' = Aimd(sum, n)
  BY Zenon DEF StepTail
<1>5. QED BY <1>1, <1>2, <1>3, <1>4, AimdInBounds

(* A measurement of the fed-forward rule divides by a positive number.     *)
LEMMA FeedforwardOutcome ==
  ASSUME TypeOK, NEW gap \in Elapsed, StepFeedforward(gap)
  PROVE  /\ chunk' \in MinTokens..MaxTokens
         /\ tau' \in Nat \cup {Unknown} /\ lastBudget' \in Nat
         /\ tau' > 0 => chunk' = Clamp(Rounded(Slo, tau'))
         /\ mode = "feedforward" /\ FedForward => tau' \in {tau, TokenTime}
<1>1. /\ tau \in Nat \cup {Unknown} /\ lastBudget \in Nat \cup {Unknown}
      /\ lastTokens \in Nat /\ chunk \in MinTokens..MaxTokens
  BY DEF TypeOK
<1>2. gap \in Nat /\ gap \in {TokenTime * lastTokens, Cutoff}
  BY GapType DEF StepFeedforward
<1>3. TokenBasis \in Nat \cup {Unknown}
  BY <1>1 DEF TokenBasis, GrantedFirst, ActualFirst, Unknown
<1>4. TokenBasis > 0 => gap \div TokenBasis \in Nat
  BY <1>2, <1>3, Quotient DEF Unknown
<1>5. tau' = tau \/ (TokenBasis > 0 /\ stepped /\ gap < Cutoff /\ tau' = Ema(tau, gap \div TokenBasis))
  BY DEF StepFeedforward
<1>6. tau' \in Nat \cup {Unknown} BY <1>1, <1>4, <1>5, EmaType
<1>7. tau' > 0 => Rounded(Slo, tau') \in Int
  <2>1. ASSUME NEW y \in Nat \ {0} PROVE Rounded(Slo, y) \in Int
    <3>1. Slo \div y \in Int BY Quotient, Constants
    <3> HIDE DEF Unknown
    <3>2. QED BY <3>1 DEF Rounded
  <2>2. QED BY <1>6, <2>1 DEF Unknown
<1>8. tau' > 0 => chunk' = Clamp(Rounded(Slo, tau')) BY DEF StepFeedforward
<1>9. chunk' \in MinTokens..MaxTokens
  <2>1. CASE tau' > 0 BY <1>7, <1>8, <2>1, Clamped
  <2>2. CASE ~(tau' > 0) BY <1>1, <2>2 DEF StepFeedforward
  <2>3. QED BY <2>1, <2>2
<1>10. lastBudget' \in Nat BY <1>9, Constants DEF StepFeedforward
<1>11. ASSUME mode = "feedforward", FedForward PROVE tau' \in {tau, TokenTime}
  <2>1. CASE tau' = tau BY <2>1
  <2>2. CASE stepped /\ gap < Cutoff /\ tau' = Ema(tau, gap \div TokenBasis)
    <3>1. lastTokens > 0 /\ tau \in {Unknown, TokenTime} BY <1>11, <2>2 DEF FedForward
    <3>2. TokenBasis = lastTokens BY <1>11, <3>1 DEF TokenBasis, ActualFirst
    <3>3. gap = TokenTime * lastTokens BY <1>2, <2>2, Constants
    <3>4. gap \div TokenBasis = TokenTime
      BY <1>1, <3>1, <3>2, <3>3, ExactQuotient, Constants
    <3>5. QED BY <2>2, <3>1, <3>4, EmaType, Constants
  <2>3. QED BY <1>5, <2>1, <2>2
<1>12. QED BY <1>6, <1>8, <1>9, <1>10, <1>11

(* The budget that the headroom pays for.                                  *)
LEMMA HeadroomPays ==
  ASSUME NEW d \in Nat, NEW a \in Nat \ {0}, Slo - d > 0
  PROVE  /\ HeadroomBudget(d, a) \in MinTokens..MaxTokens
         /\ HeadroomBudget(d, a) = MinTokens \/ d + HeadroomBudget(d, a) * a <= Slo
<1> DEFINE x == Slo - d
           q == x \div a
           h == Clamp(q)
<1>1. x \in Nat BY Constants
<1> HIDE DEF x
<1>2. q \in Nat /\ q * a <= x BY <1>1, Quotient
<1> HIDE DEF q
<1>3. h \in MinTokens..MaxTokens /\ (h <= q \/ h = MinTokens) BY <1>2, Clamped
<1> HIDE DEF h
<1>4. h <= q => h * a <= q * a BY <1>2, <1>3, ProductMonotone, Constants
<1>5. h \in Nat BY <1>3, Constants
<1>6. h * a \in Nat /\ q * a \in Nat BY <1>2, <1>5
<1>7. h = MinTokens \/ d + h * a <= Slo
  <2> SUFFICES ASSUME h <= q PROVE d + h * a <= Slo
    BY <1>3
  <2>1. h * a <= x BY <1>1, <1>2, <1>4, <1>6
  <2>2. QED BY <1>6, <2>1, Constants DEF x
<1>8. HeadroomBudget(d, a) = h BY DEF HeadroomBudget, h, q, x
<1>9. QED BY <1>3, <1>7, <1>8

LEMMA HsloOutcome ==
  ASSUME TypeOK, alpha # 0, NEW depth \in Nat, NEW gap \in Nat, StepHslo(depth, gap)
  PROVE  /\ chunk' \in MinTokens..MaxTokens
         /\ db' \in Nat \cup {Unknown} /\ alpha' \in Nat \cup {Unknown} /\ alpha' # 0
         /\ prevDepth' = depth
         /\ (depth > 0 /\ Unknown \notin {db', alpha'}) =>
              chunk' = MinTokens \/ db' + chunk' * Max({alpha', AlphaFloor}) <= Slo
<1>1. /\ db \in Nat \cup {Unknown} /\ alpha \in Nat \cup {Unknown}
      /\ lastTokens \in Nat /\ prevDepth \in Nat
  BY DEF TypeOK
<1>2. PrefillLast \in Nat BY <1>1, MaxOfTwo DEF PrefillLast
<1>3. PrefillLast > 0 => ResidualCost(gap) \in Nat \ {0}
  <2> DEFINE x == gap - (IF db = Unknown THEN 0 ELSE db)
  <2>1. x \in Int BY <1>1
  <2> HIDE DEF x
  <2>2. PrefillLast > 0 => x \div PrefillLast \in Int BY <1>2, <2>1
  <2>3. PrefillLast > 0 =>
          ResidualCost(gap) = IF 1 >= x \div PrefillLast THEN 1 ELSE x \div PrefillLast
    BY <2>2, MaxOfTwo DEF ResidualCost, x
  <2>4. QED BY <2>2, <2>3
<1>4. PICK c : c = ResidualCost(gap) OBVIOUS
<1>5. \/ db' = Ema(db, gap) /\ alpha' = alpha
      \/ PrefillLast > 0 /\ alpha' = Ema(alpha, c) /\ db' = db
      \/ db' = db /\ alpha' = alpha
  BY <1>2, <1>4, Constants DEF StepHslo
<1>6. db' \in Nat \cup {Unknown} /\ alpha' \in Nat \cup {Unknown} /\ alpha' # 0
  <2>1. db' \in Nat \cup {Unknown}
    <3>1. Ema(db, gap) \in Nat BY <1>1, EmaType
    <3>2. db' = db \/ db' = Ema(db, gap) BY <1>5
    <3>3. QED BY <1>1, <3>1, <3>2
  <2>2. alpha' \in Nat \cup {Unknown} /\ alpha' # 0
    <3>1. CASE alpha' = alpha BY <1>1, <3>1
    <3>2. CASE PrefillLast > 0 /\ alpha' = Ema(alpha, c)
      <4>1. c \in Nat \ {0} BY <1>3, <1>4, <3>2
      <4>2. QED BY <1>1, <3>2, <4>1, EmaType
    <3>3. QED BY <1>5, <3>1, <3>2
  <2>3. QED BY <2>1, <2>2
<1>7. prevDepth' = depth BY DEF StepHslo
<1>8. /\ depth = 0 => chunk' = MaxTokens
      /\ (depth > 0 /\ Unknown \in {db', alpha'}) => chunk' = Clamp(StartTokens)
      /\ (depth > 0 /\ Unknown \notin {db', alpha'}) =>
           chunk' = IF Slo - db' <= 0 THEN MinTokens
                    ELSE HeadroomBudget(db', Max({alpha', AlphaFloor}))
  <2> DEFINE known == Unknown \notin {db', alpha'}
             headroom == IF Slo - db' <= 0 THEN MinTokens
                         ELSE HeadroomBudget(db', Max({alpha', AlphaFloor}))
  <2>1. chunk' = CASE depth = 0 -> MaxTokens
                   [] depth > 0 /\ ~known -> Clamp(StartTokens)
                   [] depth > 0 /\ known -> headroom
    BY Zenon DEF StepHslo
  <2> HIDE DEF known, headroom
  <2>2. ~(depth = 0 /\ depth > 0) BY SMT
  <2>3. depth = 0 => chunk' = MaxTokens BY <2>1, <2>2, Zenon
  <2>4. depth > 0 /\ ~known => chunk' = Clamp(StartTokens) BY <2>1, <2>2, Zenon
  <2>5. depth > 0 /\ known => chunk' = headroom BY <2>1, <2>2, Zenon
  <2>6. QED BY <2>3, <2>4, <2>5, Zenon DEF known, headroom
<1>9. CASE depth = 0
  <2>1. chunk' \in MinTokens..MaxTokens BY <1>8, <1>9, Constants
  <2>2. QED BY <1>6, <1>7, <1>9, <2>1
<1>10. CASE depth > 0 /\ Unknown \in {db', alpha'}
  BY <1>6, <1>7, <1>8, <1>10, StartClamped
<1>11. CASE depth > 0 /\ Unknown \notin {db', alpha'}
  <2>1. db' \in Nat /\ alpha' \in Nat \ {0} BY <1>6, <1>11
  <2>2. PICK a : a = Max({alpha', AlphaFloor}) OBVIOUS
  <2>3. a \in Nat \ {0} BY <2>1, <2>2, MaxOfTwo, Constants
  <2>4. CASE Slo - db' <= 0
    <3>1. chunk' = MinTokens BY <1>8, <1>11, <2>4
    <3>2. QED BY <1>6, <1>7, <3>1, Constants
  <2>5. CASE ~(Slo - db' <= 0)
    <3>1. chunk' = HeadroomBudget(db', a) BY <1>8, <1>11, <2>2, <2>5
    <3>2. Slo - db' > 0
      <4>1. Slo - db' \in Int BY <2>1, Constants
      <4>2. QED BY <2>5, <4>1
    <3>3. chunk' \in MinTokens..MaxTokens /\ (chunk' = MinTokens \/ db' + chunk' * a <= Slo)
      BY <2>1, <2>3, <3>1, <3>2, HeadroomPays
    <3>4. QED BY <1>6, <1>7, <2>2, <3>3
  <2>6. QED BY <2>4, <2>5
<1>12. QED BY <1>9, <1>10, <1>11

-----------------------------------------------------------------------------
(* The step.                                                               *)

(* What every rule leaves of the types, given what it changes.             *)
LEMMA TypesKept ==
  ASSUME TypeOK, NEW depth, NEW gap, NEW tokens \in Placed, Step(depth, gap, tokens),
         chunk' \in MinTokens..MaxTokens,
         {lat', tau', lastBudget', db', alpha'} \subseteq Nat \cup {Unknown},
         win' \in Seq(Nat), Len(win') <= WindowLength,
         shrinkCount' \in 0..Hold, growCount' \in 0..Hold,
         stepped' \in BOOLEAN, prevDepth' \in Nat
  PROVE  TypeOK'
<1>1. recent' \in Seq({"shrink", "grow", "stay"}) /\ Len(recent') <= Hold
  <2>1. CASE mode = "depth"
    <3>1. PICK w : w = Wish(depth) OBVIOUS
    <3>2. recent' = LET s == Append(recent, w) IN IF Len(s) > Hold THEN Tail(s) ELSE s
      BY <2>1, <3>1, HistoryOutcome
    <3>3. w \in {"shrink", "grow", "stay"} BY <3>1, WishIs
    <3>4. recent' \in Seq({"shrink", "grow", "stay"})
          /\ Len(recent') = IF Len(recent) = Hold THEN Hold ELSE Len(recent) + 1
      BY <3>2, <3>3, Appended
    <3>5. recent \in Seq({"shrink", "grow", "stay"}) /\ Len(recent) <= Hold BY DEF TypeOK
    <3>6. Len(recent) \in Nat BY <3>5
    <3>7. QED BY <3>4, <3>5, <3>6, Constants
  <2>2. CASE mode # "depth" BY <2>2, HistoryOutcome DEF TypeOK
  <2>3. QED BY <2>1, <2>2
<1>2. quiet' \in 0..Hold
  <2>1. quiet \in 0..Hold BY DEF TypeOK
  <2>2. CASE mode = "depth" BY <2>1, <2>2, HistoryOutcome, Constants
  <2>3. CASE mode # "depth" BY <2>1, <2>3, HistoryOutcome
  <2>4. QED BY <2>2, <2>3
<1>3. mode' \in Modes /\ lastTokens' \in 0..MaxTokens
  <2>1. mode' = mode /\ mode \in Modes BY HistoryOutcome DEF TypeOK
  <2>2. lastTokens' = tokens /\ tokens \in 1..MaxTokens BY Constants DEF Step
  <2>3. QED BY <2>1, <2>2
<1>4. QED BY <1>1, <1>2, <1>3 DEF TypeOK

LEMMA ChunkStep ==
  ASSUME IInv, NEW depth \in Depths, NEW gap, NEW tokens \in Placed, Step(depth, gap, tokens)
  PROVE  IInv'
<1>1. /\ TypeOK /\ CountsAreRuns /\ FedForward /\ FeedforwardSettles
      /\ alpha # 0 /\ PredictedWithinSlo
  BY DEF IInv
<1>2. /\ depth \in Nat /\ gap \in Nat /\ gap \in Elapsed /\ mode' = mode
      /\ tokens \in 1..MaxTokens /\ lastTokens' = tokens
  <2>1. gap \in Elapsed /\ lastTokens' = tokens BY DEF Step
  <2>2. QED BY <1>1, <2>1, GapType, HistoryOutcome, Constants
<1>3. /\ chunk \in MinTokens..MaxTokens /\ stepped \in BOOLEAN
      /\ {lat, tau, lastBudget, db, alpha} \subseteq Nat \cup {Unknown}
      /\ win \in Seq(Nat) /\ Len(win) <= WindowLength
      /\ shrinkCount \in 0..Hold /\ growCount \in 0..Hold /\ prevDepth \in Nat
  BY <1>1 DEF TypeOK
<1>4. mode # "depth" /\ UNCHANGED counters => CountsAreRuns'
  <2> SUFFICES ASSUME mode # "depth", UNCHANGED counters PROVE CountsAreRuns'
    OBVIOUS
  <2>1. recent' = recent /\ quiet' = quiet BY <1>1, HistoryOutcome
  <2>2. QED BY <1>1, <2>1 DEF counters, CountsAreRuns, Run
<1>5. mode # "feedforward" => FedForward' /\ FeedforwardSettles'
  BY <1>2 DEF FedForward, FeedforwardSettles
<1>6. mode # "hslo" => PredictedWithinSlo' BY <1>2 DEF PredictedWithinSlo
<1>7. CASE StepDepth(depth)
  <2>1. mode = "depth" BY <1>7 DEF StepDepth
  <2>2. /\ chunk' \in MinTokens..MaxTokens /\ UNCHANGED <<stepped, estimates>>
    BY <1>1, <1>7, DepthOutcome
  <2>3. CountsAreRuns' BY <2>1, RunsStep
  <2>4. shrinkCount' \in 0..Hold /\ growCount' \in 0..Hold
    <3>1. CASE StepDepth(depth)
      <4> DEFINE s == IF Wish(depth) = "shrink" THEN shrinkCount + 1 ELSE 0
                 g == IF Wish(depth) = "grow" THEN growCount + 1 ELSE 0
      <4>1. s \in Nat /\ g \in Nat BY <1>3
      <4>2. shrinkCount' = (IF s >= Hold THEN 0 ELSE s) /\ growCount' = IF g >= Hold THEN 0 ELSE g
        BY <1>1, <1>7, DepthOutcome
      <4> HIDE DEF s, g
      <4>3. QED BY <4>1, <4>2, Constants
    <3>2. QED BY <1>7, <3>1
  <2>5. TypeOK' BY <1>1, <1>3, <2>2, <2>4, TypesKept DEF estimates
  <2>6. alpha' # 0 BY <1>1, <2>2 DEF estimates
  <2>7. QED BY <1>5, <1>6, <2>1, <2>3, <2>5, <2>6 DEF IInv
<1>8. CASE StepSlo(depth, gap)
  <2>1. mode = "slo" /\ stepped' = TRUE /\ UNCHANGED <<counters, win, tau, lastBudget, db, alpha, prevDepth>>
    BY <1>8 DEF StepSlo
  <2>2. chunk' \in MinTokens..MaxTokens /\ lat' \in Nat \cup {Unknown} BY <1>1, <1>2, <1>8, SloOutcome
  <2>3. TypeOK' BY <1>1, <1>3, <2>1, <2>2, TypesKept DEF counters
  <2>4. QED BY <1>1, <1>4, <1>5, <1>6, <2>1, <2>3 DEF IInv
<1>9. CASE StepTail(depth, gap)
  <2>1. mode \in {"slotail", "slocvar"} /\ stepped' = TRUE
        /\ UNCHANGED <<counters, lat, tau, lastBudget, db, alpha, prevDepth>>
    BY <1>9 DEF StepTail
  <2>2. chunk' \in MinTokens..MaxTokens /\ win' \in Seq(Nat) /\ Len(win') <= WindowLength
    BY <1>1, <1>2, <1>9, TailOutcome
  <2>3. TypeOK' BY <1>1, <1>3, <2>1, <2>2, TypesKept DEF counters
  <2>4. QED BY <1>1, <1>4, <1>5, <1>6, <2>1, <2>3 DEF IInv
<1>10. CASE StepFeedforward(gap)
  <2>1. mode \in FeedforwardModes /\ stepped' = TRUE
        /\ UNCHANGED <<counters, lat, win, db, alpha, prevDepth>>
    BY <1>10 DEF StepFeedforward
  <2>2. mode \notin {"depth", "hslo"} BY <2>1 DEF FeedforwardModes
  <2>3. /\ chunk' \in MinTokens..MaxTokens
        /\ tau' \in Nat \cup {Unknown} /\ lastBudget' \in Nat
        /\ tau' > 0 => chunk' = Clamp(Rounded(Slo, tau'))
        /\ mode = "feedforward" => tau' \in {tau, TokenTime}
    BY <1>1, <1>2, <1>10, FeedforwardOutcome
  <2>4. TypeOK' BY <1>1, <1>3, <2>1, <2>3, TypesKept DEF counters
  <2>5. ASSUME mode = "feedforward" PROVE FedForward' /\ FeedforwardSettles'
    <3>1. tau' \in {Unknown, TokenTime} BY <1>1, <2>3, <2>5 DEF FedForward
    <3>2. lastTokens' > 0 BY <1>2
    <3>3. tau' # Unknown => tau' = TokenTime /\ chunk' = Clamp(Rounded(Slo, TokenTime))
      BY <2>3, <3>1, Constants
    <3>4. FedForward' BY <3>1, <3>2 DEF FedForward
    <3>5. FeedforwardSettles' BY <3>3 DEF FeedforwardSettles
    <3>6. QED BY <3>4, <3>5
  <2>6. QED BY <1>1, <1>4, <1>5, <1>6, <2>1, <2>2, <2>4, <2>5 DEF IInv
<1>11. CASE StepHslo(depth, gap)
  <2>1. mode = "hslo" /\ stepped' = TRUE /\ UNCHANGED <<counters, lat, win, tau, lastBudget>>
    BY <1>11 DEF StepHslo
  <2>2. /\ chunk' \in MinTokens..MaxTokens
        /\ db' \in Nat \cup {Unknown} /\ alpha' \in Nat \cup {Unknown} /\ alpha' # 0
        /\ prevDepth' = depth
        /\ (depth > 0 /\ Unknown \notin {db', alpha'}) =>
             chunk' = MinTokens \/ db' + chunk' * Max({alpha', AlphaFloor}) <= Slo
    BY <1>1, <1>2, <1>11, HsloOutcome
  <2>3. TypeOK' BY <1>1, <1>2, <1>3, <2>1, <2>2, TypesKept DEF counters
  <2>4. PredictedWithinSlo' BY <2>2 DEF PredictedWithinSlo
  <2>5. QED BY <1>4, <1>5, <2>1, <2>2, <2>3, <2>4 DEF IInv
<1>12. QED BY <1>7, <1>8, <1>9, <1>10, <1>11 DEF Step

LEMMA ChunkStutters == IInv /\ UNCHANGED vars => IInv'
<1> SUFFICES ASSUME IInv, UNCHANGED vars PROVE IInv'
  OBVIOUS
<1>1. TypeOK' BY DEF IInv, TypeOK, vars, counters, estimates
<1>2. CountsAreRuns' BY DEF IInv, CountsAreRuns, Run, vars, counters
<1>3. FedForward' /\ FeedforwardSettles' /\ alpha' # 0 /\ PredictedWithinSlo'
  BY DEF IInv, FedForward, FeedforwardSettles, PredictedWithinSlo, vars, estimates
<1>4. QED BY <1>1, <1>2, <1>3 DEF IInv

LEMMA NextIsStep ==
  Next => \E depth \in Depths, gap \in Elapsed, tokens \in Placed : Step(depth, gap, tokens)
BY Zenon DEF Next, Step

LEMMA ChunkInductive == Spec => []IInv
<1>1. IInv /\ [Next]_vars => IInv'
  <2>1. IInv /\ Next => IInv' BY ChunkStep, NextIsStep
  <2>2. QED BY <2>1, ChunkStutters
<1>2. QED BY ChunkInit, <1>1, PTL DEF Spec

-----------------------------------------------------------------------------
(* The chunk and what the rules keep stay in their ranges.                 *)
THEOREM ChunkTypeCorrect == Spec => []TypeOK
<1>1. IInv => TypeOK BY DEF IInv
<1>2. QED BY <1>1, ChunkInductive, PTL

(* _step_feedforward of hotpatch_slo_tail.py settles at once on a plant    *)
(* that is linear in the tokens processed, whatever its slope and whatever *)
(* the steps leave of their budgets.                                       *)
THEOREM FeedforwardAtRest == Spec => []FeedforwardSettles
<1>1. IInv => FeedforwardSettles BY DEF IInv
<1>2. QED BY <1>1, ChunkInductive, PTL

(* _step_hslo never predicts a step beyond the SLO but at its floor.       *)
THEOREM HeadroomWithinSlo == Spec => []PredictedWithinSlo
<1>1. IInv => PredictedWithinSlo BY DEF IInv
<1>2. QED BY <1>1, ChunkInductive, PTL

(* The hysteresis of patch_scheduler.py: the chunk moves only after Hold   *)
(* steps that asked for it ...                                             *)
THEOREM DepthNeedsHold == Spec => ChangesAfterHold
<1> DEFINE Held ==
      (mode = "depth" /\ chunk' # chunk) =>
         LET asked == IF chunk' < chunk THEN "shrink" ELSE "grow"
         IN  Len(recent') = Hold /\ \A k \in 1..Hold : recent'[k] = asked
<1>1. IInv /\ [Next]_vars => [Held]_vars
  <2> SUFFICES ASSUME IInv, Next, mode = "depth", chunk' # chunk
               PROVE  LET asked == IF chunk' < chunk THEN "shrink" ELSE "grow"
                      IN  Len(recent') = Hold /\ \A k \in 1..Hold : recent'[k] = asked
    OBVIOUS
  <2>1. PICK depth \in Depths, gap \in Elapsed, tokens \in Placed : Step(depth, gap, tokens)
    BY NextIsStep
  <2>2. QED BY <2>1, RunsStep
<1>2. QED BY <1>1, ChunkInductive, PTL DEF Spec, ChangesAfterHold

(* ... and not twice within Hold steps.                                    *)
THEOREM DepthKeepsApart == Spec => ChangesApart
<1>1. IInv /\ [Next]_vars => [(mode = "depth" /\ chunk' # chunk) => quiet >= Hold - 1]_vars
  <2> SUFFICES ASSUME IInv, Next, mode = "depth", chunk' # chunk PROVE quiet >= Hold - 1
    OBVIOUS
  <2>1. PICK depth \in Depths, gap \in Elapsed, tokens \in Placed : Step(depth, gap, tokens)
    BY NextIsStep
  <2>2. QED BY <2>1, RunsStep
<1>2. QED BY <1>1, ChunkInductive, PTL DEF Spec, ChangesApart

-----------------------------------------------------------------------------
(* The percentile rule.                                                    *)

(* At place k of the sorted window there is a value with fewer than k      *)
(* below it and at least k that are not above it.                          *)
LEMMA SortedPlace ==
  ASSUME NEW w \in Seq(Nat), NEW k \in 1..Len(w)
  PROVE  LET v == Sorted(w)[k]
         IN  /\ v \in Nat
             /\ Cardinality({i \in 1..Len(w) : w[i] < v}) < k
             /\ k <= Cardinality({i \in 1..Len(w) : w[i] <= v})
<1> DEFINE n == Len(w)
           V == {w[i] : i \in 1..n}
           below(v) == {i \in 1..n : w[i] < v}
           upto(v) == {i \in 1..n : w[i] <= v}
           T == {v \in V : k <= Cardinality(upto(v))}
<1>1. DOMAIN w = 1..n /\ n \in Nat /\ V \subseteq Nat OBVIOUS
<1>2. IsFiniteSet(1..n) /\ Cardinality(1..n) = n
  <2> HIDE DEF n
  <2> QED BY <1>1, FS_Interval
<1>3. \A v : /\ IsFiniteSet(below(v)) /\ Cardinality(below(v)) \in Nat
             /\ IsFiniteSet(upto(v)) /\ Cardinality(upto(v)) \in Nat
  <2> TAKE v
  <2>1. below(v) \subseteq 1..n /\ upto(v) \subseteq 1..n OBVIOUS
  <2> HIDE DEF n, below, upto
  <2> QED BY <1>2, <2>1, FS_Subset, FS_CardinalityType
<1>4. IsFiniteSet(V) BY <1>1, <1>2, FiniteImage
<1>5. V # {} /\ k \in 1..n OBVIOUS
<1>6. T # {}
  <2> DEFINE m == Max(V)
  <2>1. m \in V /\ \A x \in V : x <= m
    <3>1. V \subseteq Int /\ V # {} BY <1>1, <1>5
    <3> HIDE DEF V
    <3> QED BY <1>4, <3>1, FiniteMax
  <2>2. upto(m) = 1..n BY <2>1
  <2>3. k <= Cardinality(upto(m))
    <3> HIDE DEF upto, m
    <3> QED BY <1>2, <1>5, <2>2
  <2> QED BY <2>1, <2>3
<1>7. PICK v \in T : \A u \in T : v <= u
  <2>1. T \subseteq Nat BY <1>1
  <2> HIDE DEF T
  <2> QED BY <1>6, <2>1, LeastElement
<1>8. Cardinality(below(v)) < k
  <2> SUFFICES ASSUME Cardinality(below(v)) >= k PROVE FALSE
    <3>1. Cardinality(below(v)) \in Nat BY <1>3, Zenon
    <3>2. k \in Nat BY <1>5
    <3> HIDE DEF below
    <3> QED BY <3>1, <3>2
  <2>1. below(v) # {}
    <3> SUFFICES ASSUME below(v) = {} PROVE FALSE OBVIOUS
    <3>1. Cardinality(below(v)) = 0
      <4> HIDE DEF below
      <4> QED BY FS_EmptySet
    <3> HIDE DEF below
    <3> QED BY <1>5, <3>1
  <2> DEFINE L == {w[i] : i \in below(v)}
             u == Max(L)
  <2>2. L \subseteq V /\ L # {} /\ L \subseteq Int
    <3>1. below(v) \subseteq 1..n OBVIOUS
    <3> HIDE DEF below, n
    <3>2. L \subseteq V BY <3>1
    <3>3. L # {} BY <2>1
    <3>4. V \subseteq Int BY <1>1
    <3> HIDE DEF L, V
    <3> QED BY <3>2, <3>3, <3>4
  <2>3. u \in L /\ \A x \in L : x <= u
    <3>1. IsFiniteSet(L)
      <4> HIDE DEF L, V
      <4> QED BY <1>4, <2>2, FS_Subset
    <3> HIDE DEF L
    <3> QED BY <2>2, <3>1, FiniteMax
  <2>4. upto(u) = below(v)
    <3>1. u < v /\ u \in Nat /\ v \in Nat BY <1>1, <2>3
    <3>2. \A i \in below(v) : w[i] <= u BY <2>3
    <3> HIDE DEF u, L
    <3> QED BY <1>1, <3>1, <3>2
  <2>5. u \in T
    <3>1. u \in V BY <2>2, <2>3
    <3>2. k <= Cardinality(upto(u)) BY <2>4
    <3> QED BY <3>1, <3>2
  <2>6. v <= u BY <1>7, <2>5
  <2>7. u < v /\ u \in Nat /\ v \in Nat BY <1>1, <2>3
  <2> QED BY <2>6, <2>7
<1>9. \E x \in V : Cardinality(below(x)) < k /\ k <= Cardinality(upto(x)) BY <1>7, <1>8
<1>10. Sorted(w)[k] = CHOOSE x \in V : Cardinality(below(x)) < k /\ k <= Cardinality(upto(x))
  BY <1>1, Zenon DEF Sorted
<1> DEFINE s == Sorted(w)[k]
<1>11. s \in V /\ Cardinality(below(s)) < k /\ k <= Cardinality(upto(s))
  <2> HIDE DEF V, below, upto
  <2> QED BY <1>9, <1>10
<1> QED BY <1>1, <1>11

(* The two parts of a finite set.                                          *)
LEMMA TwoParts ==
  ASSUME NEW n \in Nat, NEW A \in SUBSET (1..n)
  PROVE  /\ Cardinality(A) \in Nat /\ Cardinality((1..n) \ A) \in Nat
         /\ Cardinality(A) + Cardinality((1..n) \ A) = n
<1>1. IsFiniteSet(1..n) /\ Cardinality(1..n) = n BY FS_Interval
<1>2. IsFiniteSet(A) /\ IsFiniteSet((1..n) \ A) BY <1>1, FS_Subset
<1>3. Cardinality((1..n) \ A) = Cardinality(1..n) - Cardinality((1..n) \cap A)
  BY <1>1, FS_Difference
<1>4. (1..n) \cap A = A OBVIOUS
<1>5. Cardinality(A) \in Nat /\ Cardinality((1..n) \ A) \in Nat BY <1>2, FS_CardinalityType
<1> DEFINE x == Cardinality(A)
           y == Cardinality((1..n) \ A)
<1>6. y = n - x BY <1>1, <1>3, <1>4
<1> HIDE DEF x, y
<1>7. x \in Nat /\ y \in Nat /\ x + y = n BY <1>5, <1>6 DEF x, y
<1> QED BY <1>7 DEF x, y

(* A set within another has no more elements.                              *)
LEMMA FewerWithin ==
  ASSUME NEW n \in Nat, NEW A, NEW B, A \subseteq B, B \subseteq 1..n
  PROVE  Cardinality(A) <= Cardinality(B) /\ Cardinality(A) \in Nat /\ Cardinality(B) \in Nat
<1>1. IsFiniteSet(1..n) BY FS_Interval
<1>2. IsFiniteSet(B) BY <1>1, FS_Subset
<1> QED BY <1>2, FS_Subset, FS_CardinalityType

(* The place of the percentile leaves the tail above it.                   *)
LEMMA CutPlace ==
  ASSUME NEW n \in Nat \ {0}, NEW p \in 0..100
  PROVE  /\ Cut(n, p) \in 1..n
         /\ 100 * (n - Cut(n, p)) <= (100 - p) * n
         /\ 100 * (n - Cut(n, p) + 1) >= (100 - p) * n
<1> DEFINE t == p * n
           q == t \div 100
<1>1. t \in Nat /\ t <= 100 * n
  <2>1. p \in Nat /\ n \in Nat OBVIOUS
  <2>2. p * n \in Nat BY <2>1
  <2>3. p * n <= 100 * n BY <2>1
  <2> QED BY <2>2, <2>3
<1> HIDE DEF t
<1>2. q \in Nat /\ 100 * q <= t /\ t < 100 * q + 100 BY <1>1
<1> HIDE DEF q
<1>3. Cut(n, p) = IF n <= q + 1 THEN n ELSE q + 1 BY <1>2, MinOfTwo DEF Cut, q, t
<1>4. (100 - p) * n = 100 * n - t BY DEF t
<1> QED BY <1>1, <1>2, <1>3, <1>4

(* What Aimd's move says of the value it was given.                        *)
LEMMA AimdDirection ==
  ASSUME chunk \in MinTokens..MaxTokens, NEW v \in Nat
  PROVE  /\ Aimd(v, 1) < chunk => v > Slo
         /\ Aimd(v, 1) > chunk => 4 * v < 3 * Slo
<1>1. Slo \in Nat BY Constants
<1>2. Halved <= chunk /\ Halved \in Int /\ chunk \in Int BY Moves, Constants
<1>3. Increased >= chunk /\ Increased \in Int
  <2>1. Increased = IF MaxTokens <= chunk + AimdStep THEN MaxTokens ELSE chunk + AimdStep
    BY MinOfTwo, Constants DEF Increased
  <2> QED BY <2>1, Constants
<1>4. Aimd(v, 1) = IF v > Slo * 1 THEN Halved ELSE IF 4 * v < 3 * Slo * 1 THEN Increased ELSE chunk
  <2>1. v > Slo * 1 => ~(4 * v < 3 * Slo * 1) BY <1>1
  <2> QED BY <2>1, ZenonT(60) DEF Aimd
<1>5. Slo * 1 = Slo /\ 3 * Slo * 1 = 3 * Slo BY <1>1
<1> QED BY <1>1, <1>2, <1>3, <1>4, <1>5

(* A step of the percentile rule.                                          *)
LEMMA TailStep ==
  ASSUME TypeOK, NEW depth, NEW gap \in Nat, StepTail(depth, gap), mode = "slotail",
         NEW n, n = Len(win')
  PROVE  /\ chunk' > chunk =>
              100 * Cardinality({k \in 1..n : 4 * win'[k] >= 3 * Slo}) <= (100 - Percentile) * n
         /\ chunk' < chunk =>
              100 * Cardinality({k \in 1..n : win'[k] >= Slo + 1}) >= (100 - Percentile) * n
<1>1. win' \in Seq(Nat) /\ n \in Nat BY TailOutcome
<1>2. chunk \in MinTokens..MaxTokens /\ chunk \in Int BY Constants DEF TypeOK
<1>3. Percentile \in 0..100 /\ WindowMin \in Nat \ {0} /\ Slo \in Nat BY ChunkAssumption
<1> DEFINE c == Cut(n, Percentile)
           v == Sorted(win')[c]
<1>4. chunk' = IF n < WindowMin THEN chunk ELSE Aimd(v, 1) BY DEF StepTail
<1>5. CASE n < WindowMin BY <1>2, <1>4, <1>5
<1>6. CASE ~(n < WindowMin)
  <2>1. n \in Nat \ {0} BY <1>1, <1>3, <1>6
  <2>2. /\ c \in 1..n /\ 100 * (n - c) <= (100 - Percentile) * n
        /\ 100 * (n - c + 1) >= (100 - Percentile) * n
    BY <2>1, <1>3, CutPlace
  <2> HIDE DEF c
  <2> DEFINE below == {i \in 1..n : win'[i] < v}
             upto == {i \in 1..n : win'[i] <= v}
             slow == {k \in 1..n : 4 * win'[k] >= 3 * Slo}
             over == {k \in 1..n : win'[k] >= Slo + 1}
  <2>3. v \in Nat /\ Cardinality(below) < c /\ c <= Cardinality(upto)
    BY <1>1, <2>2, SortedPlace
  <2> HIDE DEF v
  <2>4. \A i \in 1..n : win'[i] \in Nat BY <1>1
  <2>5. (chunk' < chunk => v > Slo) /\ (chunk' > chunk => 4 * v < 3 * Slo)
    BY <1>2, <1>4, <1>6, <2>3, AimdDirection
  <2>6. (100 - Percentile) * n \in Int BY <1>1, <1>3
  <2>7. ASSUME chunk' > chunk PROVE 100 * Cardinality(slow) <= (100 - Percentile) * n
    <3>1. slow \subseteq (1..n) \ upto BY <1>3, <2>3, <2>4, <2>5, <2>7
    <3>2. upto \in SUBSET (1..n) /\ (1..n) \ upto \subseteq 1..n OBVIOUS
    <3> HIDE DEF slow, upto
    <3>3. Cardinality(slow) <= Cardinality((1..n) \ upto) /\ Cardinality(slow) \in Nat
      BY <1>1, <3>1, <3>2, FewerWithin
    <3>4. Cardinality(upto) + Cardinality((1..n) \ upto) = n
          /\ Cardinality(upto) \in Nat /\ Cardinality((1..n) \ upto) \in Nat
      BY <1>1, <3>2, TwoParts
    <3>5. Cardinality(slow) <= n - c BY <1>1, <2>2, <2>3, <3>3, <3>4
    <3> HIDE DEF upto
    <3>6. 100 * Cardinality(slow) <= 100 * (n - c) BY <1>1, <2>2, <3>3, <3>5
    <3> DEFINE bound == (100 - Percentile) * n
               x == 100 * Cardinality(slow)
               y == 100 * (n - c)
    <3>7. x \in Int /\ y \in Int /\ bound \in Int /\ x <= y /\ y <= bound
      BY <1>1, <2>2, <2>6, <3>3, <3>6
    <3>8. x <= bound
      <4> HIDE DEF x, y, bound
      <4> QED BY <3>7
    <3> QED BY <3>8
  <2>8. ASSUME chunk' < chunk PROVE 100 * Cardinality(over) >= (100 - Percentile) * n
    <3>1. (1..n) \ below \subseteq over BY <1>3, <2>3, <2>4, <2>5, <2>8
    <3>2. below \in SUBSET (1..n) /\ over \subseteq 1..n OBVIOUS
    <3> HIDE DEF over, below
    <3>3. Cardinality((1..n) \ below) <= Cardinality(over) /\ Cardinality(over) \in Nat
      BY <1>1, <3>1, <3>2, FewerWithin
    <3>4. Cardinality(below) + Cardinality((1..n) \ below) = n
          /\ Cardinality(below) \in Nat /\ Cardinality((1..n) \ below) \in Nat
      BY <1>1, <3>2, TwoParts
    <3>5. n - c + 1 <= Cardinality(over) BY <1>1, <2>2, <2>3, <3>3, <3>4
    <3> DEFINE bound == (100 - Percentile) * n
               x == 100 * Cardinality(over)
               y == 100 * (n - c + 1)
    <3>6. x \in Int /\ y \in Int /\ bound \in Int /\ y <= x /\ bound <= y
      BY <1>1, <2>2, <2>6, <3>3, <3>5
    <3>7. x >= bound
      <4> HIDE DEF x, y, bound
      <4> QED BY <3>6
    <3> QED BY <3>7
  <2> QED BY <2>7, <2>8
<1> QED BY <1>5, <1>6

(* The percentile of _step_slotail is the one it says, for any window,     *)
(* percentile and SLO: the chunk grows only if no more than the tail was   *)
(* slow, and is halved only if the whole tail was over the SLO.            *)
THEOREM TailDecidesChunk == Spec => TailDecides
<1> DEFINE A ==
      mode = "slotail" =>
       LET n == Len(win')
           slow(x) == Cardinality({k \in 1..n : win'[k] >= x})
       IN  /\ chunk' > chunk =>
                100 * Cardinality({k \in 1..n : 4 * win'[k] >= 3 * Slo}) <= (100 - Percentile) * n
           /\ chunk' < chunk => 100 * slow(Slo + 1) >= (100 - Percentile) * n
<1>1. IInv /\ [Next]_vars => [A]_vars
  <2> SUFFICES ASSUME IInv, Next, mode = "slotail" PROVE A
    OBVIOUS
  <2>1. PICK depth \in Depths, gap \in Elapsed, tokens \in Placed : Step(depth, gap, tokens)
    BY NextIsStep
  <2>2. StepTail(depth, gap)
    BY <2>1 DEF Step, StepDepth, StepSlo, StepFeedforward, StepHslo, FeedforwardModes
  <2>3. gap \in Nat /\ TypeOK BY GapType DEF IInv
  <2>4. QED BY <2>2, <2>3, TailStep
<1>2. QED BY <1>1, ChunkInductive, PTL DEF Spec, TailDecides
=============================================================================
