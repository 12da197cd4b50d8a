---------------------------- MODULE DisaggProofs ----------------------------
(* What TLAPS proves about DisaggGate and the proxy behind it, for every   *)
(* number of requests and instances and any powers, energies and timings.  *)
EXTENDS DisaggGate, DataLemmas

-----------------------------------------------------------------------------
(* What the gate computes from its window and its estimates.               *)

(* A product of naturals is a natural, so an energy estimate is one.       *)
LEMMA MarginalType ==
  ASSUME NEW p \in Nat, NEW d \in Nat, NEW jp \in Nat, NEW jd \in Nat
  PROVE  MarginalEnergy(p, d, jp, jd) \in Nat
BY DEF MarginalEnergy

LEMMA EstimateType ==
  ASSUME NEW e \in Nat \cup {NoEstimate}, NEW n \in Nat, NEW b \in Nat \ {0}
  PROVE  CurrentEstimateTokens(e, n, b) \in Nat
BY DEF CurrentEstimateTokens, NoEstimate

LEMMA RecordCompletionType ==
  ASSUME NEW e \in Nat \cup {NoEstimate}, NEW b \in Nat
  PROVE  RecordCompletion(e, b) \in Nat
BY DEF RecordCompletion, NoEstimate

(* A window with a sample recorded is a window of samples.                 *)
LEMMA RecordType ==
  ASSUME NEW S, S \subseteq Sample, NEW gap \in Nat, NEW w \in Nat
  PROVE  Record(S, gap, w) \subseteq Sample
BY WindowAssumption DEF Record, Sample

(* A gap longer than the window leaves the new sample alone in it, so one  *)
(* gap stands for all of those.                                            *)
LEMMA RecordGap ==
  ASSUME NEW S, S \subseteq Sample, NEW g \in Nat \ {0}, NEW w
  PROVE  \E h \in 1..(Window + 1) : Record(S, g, w) = Record(S, h, w)
<1>1. CASE g <= Window + 1
  BY <1>1, WindowAssumption
<1>2. CASE g > Window + 1
  <2>1. \A x \in S : x.age \in Nat
    BY WindowAssumption DEF Sample
  <2>2. /\ {x \in S : x.age + g <= Window} = {}
        /\ {x \in S : x.age + (Window + 1) <= Window} = {}
    BY <1>2, <2>1, WindowAssumption
  <2>3. Record(S, g, w) = Record(S, Window + 1, w)
    BY <2>2 DEF Record
  <2>4. Window + 1 \in 1..(Window + 1)
    BY WindowAssumption
  <2>5. QED BY <2>3, <2>4
<1>3. QED BY <1>1, <1>2, WindowAssumption

-----------------------------------------------------------------------------
(* The inductive invariant.  The type invariant, and that what is kept per *)
(* pool is a function on the pools.                                        *)
Shaped ==
  /\ TypeOK
  /\ samples \in [Pools -> SUBSET Sample] /\ reserved \in [Pools -> Nat]
  /\ held \in [Pools -> SUBSET Requests] /\ unsampled \in [Pools -> SUBSET Requests]
  /\ turn \in [Pools -> Nat]
  /\ at \in [Pools -> [Requests -> {Nixl!Nobody} \cup Nat]]

(* A reservation stands for a request that passed the gate.                *)
HeldAdmitted ==
  \A p \in Pools : \A r \in held[p] : stage[r] \notin {"idle", "gated"}

(* The release tasks of one request sleep equally long.                    *)
HoldsInStep ==
  \A p, q \in Capped : \A r \in held[p] :
    IF r \in held[q] THEN holdIn[p][r] = holdIn[q][r] ELSE holdIn[p][r] <= 0

LedgerOf(p) ==
  /\ IsFiniteSet(JouleUnits(held[p], marginal[p]))
  /\ reserved[p] = Cardinality(JouleUnits(held[p], marginal[p]))

Ledgers == \A p \in Pools : LedgerOf(p)

(* A request takes an instance of a pool once, and those that are before   *)
(* the pool's iterator have had one request more than the others.          *)
NotYet ==
  \A r \in Requests :
    /\ leg[r] = "none" => at["prefill"][r] = Nixl!Nobody
    /\ leg[r] \in {"none", "prefill"} => at["decode"][r] = Nixl!Nobody

TakenInTurn(p) ==
  \E k \in Nat : \A i \in 0..(Instances[p] - 1) :
    Cardinality(Nixl!Got(p, i)) = IF i < turn[p] THEN k + 1 ELSE k

Turns == NotYet /\ \A p \in Pools : TakenInTurn(p)

IInv == Shaped /\ HeldAdmitted /\ HoldsInStep /\ Ledgers /\ WindowsInStep /\ Turns

-----------------------------------------------------------------------------
(* The steps, by the variables they change.                                *)

LEMMA PoolsAre == Pools = {"prefill", "decode"} /\ "prefill" \in Pools /\ "decode" \in Pools
BY DEF Pools, Nixl!Pools

LEMMA Constants ==
  /\ IsFiniteSet(Requests) /\ Instances \in [Pools -> Nat \ {0}] /\ Capped \subseteq Pools
  /\ PollInterval \in Nat \ {0} /\ RecheckInterval \in Nat \ {0} /\ BytesPerToken \in Nat \ {0}
  /\ JPrefill \in Nat /\ JDecode \in Nat /\ HoldTime \in Nat
  /\ Prompt \in [Requests -> Nat] /\ MaxTokens \in [Requests -> Nat]
  /\ Readings \subseteq [Pools -> Nat] /\ ResponseSizes \subseteq Nat
BY DisaggAssumption

(* A handler that has passed the gate goes on.                             *)
Moves ==
  /\ UNCHANGED <<nixlVars, marginal, wakeIn, ledgers, power, unsampled>>
  /\ \E r \in Requests, to \in Stages \ {"idle", "gated"} :
       stage[r] \notin {"idle", "gated"} /\ stage' = [stage EXCEPT ![r] = to]
  /\ estimate' \in Nat \cup {NoEstimate}

LEMMA HandlerMoves ==
  ASSUME Shaped, NEW r \in Requests,
         \/ Prepared(r) \/ PrepareRaises(r) \/ ForwardRaises(r)
         \/ \E b \in ResponseSizes : ForwardEnds(r, b)
  PROVE  Moves
<1>1. estimate \in Nat \cup {NoEstimate} BY DEF Shaped, TypeOK
<1>2. CASE Prepared(r) \/ PrepareRaises(r) \/ ForwardRaises(r)
  BY <1>1, <1>2 DEF Prepared, PrepareRaises, ForwardRaises, MoveOn, Moves, Stages, nixlVars
<1>3. ASSUME NEW b \in ResponseSizes, ForwardEnds(r, b) PROVE Moves
  <2>1. b \in Nat BY Constants
  <2>2. estimate' \in Nat \cup {NoEstimate}
    BY <1>1, <1>3, <2>1, RecordCompletionType DEF ForwardEnds
  <2>3. QED BY <1>3, <2>2 DEF ForwardEnds, MoveOn, Moves, Stages, nixlVars
<1>4. QED BY <1>2, <1>3

(* The gate: a request that is not held is parked, or admitted with an     *)
(* energy for each pool.                                                   *)
Gates(r) ==
  /\ stage[r] \in {"idle", "gated"}
  /\ UNCHANGED <<nixlVars, power, estimate>>
  /\ \A p \in Pools : marginal'[p] \in [Requests -> Nat]
       /\ \A q \in Requests \ {r} : marginal'[p][q] = marginal[p][q]
  /\ marginal' \in [Pools -> [Requests -> Nat]]
  /\ TryGate(r, [p \in Pools |-> marginal'[p][r]])

LEMMA GateSteps ==
  ASSUME Shaped, NEW r \in Requests, Arrive(r) \/ Recheck(r)
  PROVE  Gates(r)
<1> USE PoolsAre, Constants
<1>0. marginal \in [Pools -> [Requests -> Nat]] /\ estimate \in Nat \cup {NoEstimate}
  BY DEF Shaped, TypeOK
<1>1. CASE Arrive(r)
  <2>1. LegEnergy(r) \in [Pools -> Nat]
    <3>1. CurrentEstimateTokens(estimate, MaxTokens[r], BytesPerToken) \in Nat
      BY <1>0, EstimateType
    <3>2. MarginalEnergy(0, CurrentEstimateTokens(estimate, MaxTokens[r], BytesPerToken),
                         JPrefill, JDecode) \in Nat
      BY <3>1, MarginalType
    <3>3. MarginalEnergy(Prompt[r], 0, JPrefill, JDecode) \in Nat
      BY MarginalType
    <3>4. QED BY <3>2, <3>3 DEF LegEnergy
  <2>2. marginal' = [p \in Pools |-> [marginal[p] EXCEPT ![r] = LegEnergy(r)[p]]]
    BY <1>1 DEF Arrive
  <2>3. \A p \in Pools : marginal'[p][r] = LegEnergy(r)[p]
    BY <1>0, <2>1, <2>2
  <2>4. LegEnergy(r) = [p \in Pools |-> marginal'[p][r]]
    BY <2>1, <2>3
  <2>5. marginal' \in [Pools -> [Requests -> Nat]]
        /\ \A p \in Pools : \A q \in Requests \ {r} : marginal'[p][q] = marginal[p][q]
    BY <1>0, <2>1, <2>2
  <2>6. TryGate(r, [p \in Pools |-> marginal'[p][r]])
    BY <1>1, <2>4 DEF Arrive
  <2>7. QED BY <1>1, <2>5, <2>6 DEF Arrive, Gates
<1>2. CASE Recheck(r)
  BY <1>0, <1>2 DEF Recheck, Gates, Gated
<1>3. QED BY <1>1, <1>2

LEMMA NextSteps ==
  ASSUME Shaped, [Next]_vars
  PROVE  \/ Tick
         \/ \E r \in Requests : Gates(r)
         \/ Moves
         \/ \E r \in Requests : Deliver(r)
         \/ \E r \in Requests : ProxyStep(r)
         \/ \E p \in Pools, r \in Requests : ReleaseHold(p, r)
         \/ \E reading \in Readings : Poll(reading)
         \/ \E reading \in Readings, P \in RecordedBefore : PollRaises(reading, P)
         \/ UNCHANGED vars
BY HandlerMoves, GateSteps DEF Next

-----------------------------------------------------------------------------
(* The types.                                                              *)

LEMMA ShapedInit == Init => Shaped
BY PoolsAre, Constants
   DEF Init, Shaped, TypeOK, Nixl!Init, Nixl!TypeOK, Nixl!Pools, Nixl!Legs, Nixl!Nobody, Pools,
       Stages, NoEstimate

LEMMA GateShape ==
  ASSUME Shaped, NEW r \in Requests, Gates(r)
  PROVE  Shaped'
<1> USE PoolsAre, Constants
<1> DEFINE m == [p \in Pools |-> marginal'[p][r]]
<1>1. m \in [Pools -> Nat] BY DEF Gates
<1>2. UNCHANGED <<leg, at, turn, samples, pollIn, polling, estimate>>
      /\ marginal' \in [Pools -> [Requests -> Nat]] /\ TryGate(r, m)
  BY DEF Gates, nixlVars, power
<1> HIDE DEF m
<1>3. Nixl!TypeOK' BY <1>2 DEF Shaped, TypeOK, Nixl!TypeOK
<1>4. stage' \in [Requests -> Stages] /\ wakeIn' \in [Requests -> Int]
  BY <1>2 DEF TryGate, Shaped, TypeOK, Stages
<1>5. CASE UNCHANGED <<ledgers, unsampled>>
  BY <1>2, <1>3, <1>4, <1>5 DEF ledgers, Shaped, TypeOK
<1>6. CASE ReserveBoth(r, m)
  <2>1. reserved' \in [Pools -> Nat] BY <1>1, <1>6 DEF ReserveBoth, Reserve, Shaped
  <2>2. held' \in [Pools -> SUBSET Requests] /\ unsampled' \in [Pools -> SUBSET Requests]
        /\ \A p \in Pools : unsampled'[p] \subseteq held'[p]
                            /\ (p \notin Capped => held'[p] = {})
    BY <1>6 DEF ReserveBoth, Shaped, TypeOK
  <2>3. holdIn' \in [Pools -> [Requests -> Int]] BY <1>6 DEF ReserveBoth, Shaped, TypeOK
  <2>4. QED BY <1>2, <1>3, <1>4, <2>1, <2>2, <2>3 DEF Shaped, TypeOK
<1>7. QED BY <1>2, <1>5, <1>6 DEF TryGate

LEMMA RecordShape ==
  ASSUME Shaped, NEW P \in SUBSET Capped, NEW reading \in Readings, RecordPools(P, reading),
         Due(pollIn)
  PROVE  /\ samples' \in [Pools -> SUBSET Sample] /\ unsampled' \in [Pools -> SUBSET Requests]
         /\ \A p \in Pools : unsampled'[p] \subseteq held[p]
                             /\ (p \notin Capped => samples'[p] = {})
<1> USE Constants
<1>1. PollInterval - pollIn \in Nat BY DEF Due, Shaped, TypeOK
<1>2. \A p \in Pools : Record(samples[p], PollInterval - pollIn, reading[p]) \subseteq Sample
  BY <1>1, RecordType DEF Shaped
<1>3. samples' \in [Pools -> SUBSET Sample] BY <1>2 DEF RecordPools, Shaped
<1>4. QED BY <1>3 DEF RecordPools, Shaped, TypeOK

LEMMA ProxyShape ==
  ASSUME Shaped, NEW r \in Requests, Deliver(r) \/ ProxyStep(r)
  PROVE  Shaped'
<1> USE PoolsAre, Constants DEF Nixl!Nobody, Nixl!Legs, Nixl!Pools
<1>1. leg \in [Requests -> Nixl!Legs] /\ Nixl!TypeOK BY DEF Shaped, TypeOK, Nixl!TypeOK
<1>2. ASSUME NEW p \in Pools, Nixl!get_next_client(r, p), leg' \in [Requests -> Nixl!Legs]
      PROVE  Nixl!TypeOK' /\ turn' \in [Pools -> Nat]
             /\ at' \in [Pools -> [Requests -> {Nixl!Nobody} \cup Nat]]
  <2>1. \A q \in Pools : turn[q] \in Nat /\ turn[q] < Instances[q] /\ Instances[q] \in Nat \ {0}
    BY <1>1 DEF Nixl!TypeOK, Pools
  <2>2. turn' = [turn EXCEPT ![p] = (turn[p] + 1) % Instances[p]]
        /\ at' = [at EXCEPT ![p][r] = turn[p]]
    BY <1>2 DEF Nixl!get_next_client
  <2>3. (turn[p] + 1) % Instances[p] \in 0..(Instances[p] - 1) BY <2>1
  <2>4. \A q \in Pools : turn'[q] \in 0..(Instances[q] - 1)
    BY <2>1, <2>2, <2>3 DEF Shaped
  <2>5. turn' \in [Pools -> Nat] BY <2>2, <2>3 DEF Shaped
  <2>6. \A q \in Pools, x \in Requests : at'[q][x] \in {Nixl!Nobody} \cup 0..(Instances[q] - 1)
    BY <1>1, <2>1, <2>2 DEF Shaped, Nixl!TypeOK, Pools
  <2>7. at' \in [Pools -> [Requests -> {Nixl!Nobody} \cup Nat]]
    BY <2>1, <2>2 DEF Shaped
  <2>8. QED BY <1>2, <2>4, <2>5, <2>6, <2>7 DEF Nixl!TypeOK, Pools
<1>3. ASSUME UNCHANGED <<at, turn>>, leg' \in [Requests -> Nixl!Legs]
      PROVE  Nixl!TypeOK'
  BY <1>1, <1>3 DEF Nixl!TypeOK, Shaped
<1>4. leg' \in [Requests -> Nixl!Legs]
  BY <1>1 DEF Deliver, ProxyStep, Nixl!ReceiveRequest, Nixl!PrefillReturns, Nixl!PrefillFails,
              Nixl!StreamEnds, Nixl!StreamBreaks
<1>5. \/ UNCHANGED <<at, turn>>
      \/ \E p \in Pools : Nixl!get_next_client(r, p)
  BY DEF Deliver, ProxyStep, Nixl!ReceiveRequest, Nixl!PrefillReturns, Nixl!PrefillFails,
         Nixl!StreamEnds, Nixl!StreamBreaks
<1>6. Nixl!TypeOK' /\ turn' \in [Pools -> Nat]
      /\ at' \in [Pools -> [Requests -> {Nixl!Nobody} \cup Nat]]
  BY <1>2, <1>3, <1>4, <1>5 DEF Shaped
<1>7. UNCHANGED <<stage, marginal, wakeIn, reserved, held, holdIn, samples, pollIn, polling,
                  estimate, unsampled>>
  BY DEF Deliver, ProxyStep, handlers, ledgers, power
<1>8. QED BY <1>6, <1>7 DEF Shaped, TypeOK

LEMMA ShapedStep == Shaped /\ [Next]_vars => Shaped'
<1> SUFFICES ASSUME Shaped, [Next]_vars PROVE Shaped'
  OBVIOUS
<1> USE Constants
<1>1. CASE Tick
  <2>1. holdIn' \in [Pools -> [Requests -> Int]] /\ wakeIn' \in [Requests -> Int] /\ pollIn' \in Int
    BY <1>1 DEF Tick, Shaped, TypeOK
  <2>2. UNCHANGED <<leg, at, turn, stage, marginal, reserved, held, samples, polling, estimate,
                    unsampled>>
    BY <1>1 DEF Tick, nixlVars
  <2>3. QED BY <2>1, <2>2 DEF Shaped, TypeOK, Nixl!TypeOK
<1>2. CASE Moves
  <2>1. stage' \in [Requests -> Stages] BY <1>2 DEF Moves, Shaped, TypeOK
  <2>2. QED BY <1>2, <2>1 DEF Moves, nixlVars, ledgers, power, Shaped, TypeOK, Nixl!TypeOK
<1>3. ASSUME NEW p \in Pools, NEW r \in Requests, ReleaseHold(p, r) PROVE Shaped'
  <2>1. reserved' \in [Pools -> Nat]
    BY <1>3 DEF ReleaseHold, Release, Shaped, TypeOK
  <2>2. /\ held' \in [Pools -> SUBSET Requests] /\ unsampled' \in [Pools -> SUBSET Requests]
        /\ holdIn' \in [Pools -> [Requests -> Int]]
        /\ \A q \in Pools : unsampled'[q] \subseteq held'[q] /\ held'[q] \subseteq held[q]
    BY <1>3 DEF ReleaseHold, Shaped, TypeOK
  <2>3. UNCHANGED <<leg, at, turn, stage, marginal, wakeIn, samples, pollIn, polling, estimate>>
    BY <1>3 DEF ReleaseHold, nixlVars, handlers, power
  <2>4. QED BY <2>1, <2>2, <2>3 DEF Shaped, TypeOK, Nixl!TypeOK
<1>4. ASSUME NEW P \in SUBSET Capped, NEW reading \in Readings, RecordPools(P, reading),
             Due(pollIn), pollIn' \in Int, polling' \in BOOLEAN,
             UNCHANGED <<nixlVars, handlers, ledgers, estimate>>
      PROVE  Shaped'
  <2>1. UNCHANGED <<leg, at, turn, stage, marginal, wakeIn, held, holdIn, reserved, estimate>>
    BY <1>4 DEF nixlVars, handlers, ledgers
  <2>2. /\ samples' \in [Pools -> SUBSET Sample] /\ unsampled' \in [Pools -> SUBSET Requests]
        /\ \A p \in Pools : unsampled'[p] \subseteq held[p]
                            /\ (p \notin Capped => samples'[p] = {})
    BY <1>4, RecordShape
  <2>3. Nixl!TypeOK' BY <2>1 DEF Shaped, TypeOK, Nixl!TypeOK
  <2>4. \A p \in Pools : samples'[p] \subseteq Sample BY <2>2
  <2>5. QED BY <1>4, <2>1, <2>2, <2>3, <2>4 DEF Shaped, TypeOK
<1>5. ASSUME NEW reading \in Readings, Poll(reading) PROVE Shaped'
  <2>1. polling' = polling /\ polling \in BOOLEAN /\ pollIn' \in Int
    BY <1>5 DEF Poll, Shaped, TypeOK
  <2>2. RecordPools(Capped, reading) /\ Due(pollIn)
        /\ UNCHANGED <<nixlVars, handlers, ledgers, estimate>>
    BY <1>5 DEF Poll
  <2>3. polling' \in BOOLEAN BY <2>1
  <2>4. QED BY <1>4, <2>1, <2>2, <2>3
<1>6. ASSUME NEW reading \in Readings, NEW P \in RecordedBefore, PollRaises(reading, P)
      PROVE  Shaped'
  BY <1>4, <1>6 DEF PollRaises, RecordedBefore, Shaped, TypeOK
<1>7. CASE UNCHANGED vars
  BY <1>7 DEF vars, nixlVars, handlers, ledgers, power, Shaped, TypeOK, Nixl!TypeOK
<1>8. QED BY <1>1, <1>2, <1>3, <1>5, <1>6, <1>7, NextSteps, GateShape, ProxyShape

(* Every variable of the gate and of the proxy behind it keeps its type.   *)
THEOREM DisaggTypeCorrect == Spec => []TypeOK
<1>1. Shaped => TypeOK BY DEF Shaped
<1>2. QED BY <1>1, ShapedInit, ShapedStep, PTL DEF Spec

-----------------------------------------------------------------------------
(* The two ledgers.                                                        *)

(* The energies of what is held do not change.                             *)
LEMMA SameLedger ==
  ASSUME Ledgers, NEW p \in Pools, held'[p] = held[p], reserved'[p] = reserved[p],
         \A r \in held[p] : marginal'[p][r] = marginal[p][r]
  PROVE  LedgerOf(p)'
BY JoulesSame DEF Ledgers, LedgerOf

(* What an admission does in either pool.                                  *)
Reserved(p, r) ==
  IF p \in Capped
    THEN /\ reserved'[p] = reserved[p] + marginal'[p][r]
         /\ held'[p] = held[p] \cup {r}
         /\ holdIn'[p] = [holdIn[p] EXCEPT ![r] = HoldTime]
    ELSE reserved'[p] = reserved[p] /\ held'[p] = held[p] /\ holdIn'[p] = holdIn[p]

LEMMA GateOutcome ==
  ASSUME Shaped, NEW r \in Requests, Gates(r)
  PROVE  \/ /\ stage' = [stage EXCEPT ![r] = "gated"]
            /\ UNCHANGED <<reserved, held, holdIn>>
         \/ /\ stage' = [stage EXCEPT ![r] = "preparing"]
            /\ \A p \in Pools : Reserved(p, r)
<1> DEFINE m == [p \in Pools |-> marginal'[p][r]]
<1>1. TryGate(r, m) BY DEF Gates
<1>2. \A p \in Pools : m[p] = marginal'[p][r] OBVIOUS
<1> HIDE DEF m
<1>3. ReserveBoth(r, m) => \A p \in Pools : Reserved(p, r)
  BY <1>2 DEF ReserveBoth, Reserve, Reserved
<1>4. QED BY <1>1, <1>3 DEF TryGate, ledgers

LEMMA ReleaseOutcome ==
  ASSUME Shaped, Ledgers, NEW p \in Pools, NEW r \in Requests, ReleaseHold(p, r)
  PROVE  /\ held' = [held EXCEPT ![p] = held[p] \ {r}] /\ r \in held[p]
         /\ holdIn' = [holdIn EXCEPT ![p] = [holdIn[p] EXCEPT ![r] = 0]]
         /\ UNCHANGED <<marginal, stage>>
         /\ \A q \in Pools : LedgerOf(q)'
<1>1. /\ held' = [held EXCEPT ![p] = held[p] \ {r}] /\ r \in held[p]
      /\ holdIn' = [holdIn EXCEPT ![p] = [holdIn[p] EXCEPT ![r] = 0]]
      /\ UNCHANGED <<marginal, stage>>
      /\ reserved' = [reserved EXCEPT ![p] = Release(reserved[p], marginal[p][r])]
  BY DEF ReleaseHold, handlers, Shaped, TypeOK
<1>2. marginal[p][r] \in Nat /\ reserved[p] \in Nat /\ LedgerOf(p)
  BY DEF Shaped, TypeOK, Ledgers
<1>3. /\ IsFiniteSet(JouleUnits(held[p] \ {r}, marginal[p]))
      /\ Cardinality(JouleUnits(held[p] \ {r}, marginal[p])) \in Nat
      /\ reserved[p] = Cardinality(JouleUnits(held[p] \ {r}, marginal[p])) + marginal[p][r]
  <2> DEFINE S == held[p]
             e == marginal[p]
  <2>1. r \in S /\ e[r] \in Nat /\ IsFiniteSet(JouleUnits(S, e))
        /\ reserved[p] = Cardinality(JouleUnits(S, e))
    BY <1>1, <1>2 DEF LedgerOf
  <2> HIDE DEF S, e
  <2>2. /\ IsFiniteSet(JouleUnits(S \ {r}, e)) /\ Cardinality(JouleUnits(S \ {r}, e)) \in Nat
        /\ reserved[p] = Cardinality(JouleUnits(S \ {r}, e)) + e[r]
    BY <2>1, JoulesRemove
  <2>3. QED BY <2>2 DEF S, e
<1>4. Release(reserved[p], marginal[p][r]) = Cardinality(JouleUnits(held[p] \ {r}, marginal[p]))
  BY <1>2, <1>3 DEF Release
<1>5. held'[p] = held[p] \ {r} /\ reserved'[p] = Release(reserved[p], marginal[p][r])
  BY <1>1 DEF Shaped
<1>6. LedgerOf(p)' BY <1>1, <1>3, <1>4, <1>5 DEF LedgerOf
<1>7. \A q \in Pools \ {p} : held'[q] = held[q] /\ reserved'[q] = reserved[q] /\ marginal' = marginal
  BY <1>1 DEF Shaped
<1>8. \A q \in Pools \ {p} : LedgerOf(q)' BY <1>7, SameLedger
<1>9. QED BY <1>1, <1>6, <1>8

LEMMA LedgersStep == Shaped /\ HeldAdmitted /\ Ledgers /\ [Next]_vars => HeldAdmitted' /\ Ledgers'
<1> SUFFICES ASSUME Shaped, HeldAdmitted, Ledgers, [Next]_vars PROVE HeldAdmitted' /\ Ledgers'
  OBVIOUS
<1>1. ASSUME UNCHANGED <<reserved, held, marginal>>, \A r \in Requests :
               stage[r] \notin {"idle", "gated"} => stage'[r] \notin {"idle", "gated"}
      PROVE  HeldAdmitted' /\ Ledgers'
  <2>1. HeldAdmitted' BY <1>1 DEF HeldAdmitted, Shaped
  <2>2. QED BY <1>1, <2>1, SameLedger DEF Ledgers
<1>2. ASSUME NEW r \in Requests, Gates(r) PROVE HeldAdmitted' /\ Ledgers'
  <2>1. \A p \in Pools : r \notin held[p] BY <1>2 DEF Gates, HeldAdmitted
  <2>2. \A p \in Pools : \A q \in held[p] : marginal'[p][q] = marginal[p][q]
    BY <1>2, <2>1 DEF Gates, Shaped
  <2>3. ASSUME NEW p \in Pools, held'[p] = held[p], reserved'[p] = reserved[p]
        PROVE  LedgerOf(p)'
    BY <2>2, <2>3, SameLedger
  <2>4. CASE stage' = [stage EXCEPT ![r] = "gated"] /\ UNCHANGED <<reserved, held, holdIn>>
    <3>1. HeldAdmitted' BY <2>1, <2>4 DEF HeldAdmitted, Shaped, TypeOK
    <3>2. QED BY <2>3, <2>4, <3>1 DEF Ledgers
  <2>5. CASE stage' = [stage EXCEPT ![r] = "preparing"] /\ \A p \in Pools : Reserved(p, r)
    <3>1. HeldAdmitted'
      <4>1. stage'[r] = "preparing" BY <2>5 DEF Shaped, TypeOK
      <4>2. \A q \in Requests \ {r} : stage'[q] = stage[q] BY <2>5 DEF Shaped, TypeOK
      <4>3. \A p \in Pools : held'[p] \subseteq held[p] \cup {r} BY <2>5 DEF Reserved
      <4>4. QED BY <4>1, <4>2, <4>3 DEF HeldAdmitted, Shaped
    <3>2. ASSUME NEW p \in Capped PROVE LedgerOf(p)'
      <4>1. p \in Pools BY Constants
      <4>2. JouleUnits(held[p], marginal'[p]) = JouleUnits(held[p], marginal[p])
        BY <2>2, <4>1, JoulesSame
      <4>3. marginal'[p][r] \in Nat /\ r \notin held[p] BY <1>2, <2>1, <4>1 DEF Gates
      <4>4. /\ IsFiniteSet(JouleUnits(held[p], marginal'[p]))
            /\ reserved[p] = Cardinality(JouleUnits(held[p], marginal'[p]))
        BY <4>1, <4>2 DEF Ledgers, LedgerOf
      <4>5. /\ IsFiniteSet(JouleUnits(held[p] \cup {r}, marginal'[p]))
            /\ Cardinality(JouleUnits(held[p] \cup {r}, marginal'[p])) = reserved[p] + marginal'[p][r]
        BY <4>3, <4>4, JoulesAdd
      <4>6. held'[p] = held[p] \cup {r} /\ reserved'[p] = reserved[p] + marginal'[p][r]
        BY <2>5, <4>1 DEF Reserved
      <4>7. QED BY <4>5, <4>6 DEF LedgerOf
    <3>3. \A p \in Pools \ Capped : LedgerOf(p)' BY <2>3, <2>5 DEF Reserved
    <3>4. QED BY <3>1, <3>2, <3>3 DEF Ledgers
  <2>6. QED BY <1>2, <2>4, <2>5, GateOutcome
<1>3. ASSUME NEW p \in Pools, NEW r \in Requests, ReleaseHold(p, r)
      PROVE  HeldAdmitted' /\ Ledgers'
  BY <1>3, ReleaseOutcome DEF HeldAdmitted, Ledgers, Shaped
<1>4. CASE Moves
  BY <1>1, <1>4 DEF Moves, ledgers, Shaped, TypeOK
<1>5. CASE Tick BY <1>1, <1>5 DEF Tick
<1>6. ASSUME NEW r \in Requests, Deliver(r) \/ ProxyStep(r) PROVE HeldAdmitted' /\ Ledgers'
  BY <1>1, <1>6 DEF Deliver, ProxyStep, handlers, ledgers
<1>7. ASSUME NEW reading \in Readings,
             Poll(reading) \/ \E P \in RecordedBefore : PollRaises(reading, P)
      PROVE  HeldAdmitted' /\ Ledgers'
  BY <1>1, <1>7 DEF Poll, PollRaises, handlers, ledgers
<1>8. CASE UNCHANGED vars BY <1>1, <1>8 DEF vars, handlers, ledgers
<1>9. QED BY <1>2, <1>3, <1>4, <1>5, <1>6, <1>7, <1>8, NextSteps

-----------------------------------------------------------------------------
(* The holds and the windows.                                              *)

LEMMA HoldsStep == Shaped /\ HeldAdmitted /\ Ledgers /\ HoldsInStep /\ [Next]_vars => HoldsInStep'
<1> SUFFICES ASSUME Shaped, HeldAdmitted, Ledgers, HoldsInStep, [Next]_vars PROVE HoldsInStep'
  OBVIOUS
<1> USE Constants
<1>0. held \in [Pools -> SUBSET Requests] /\ holdIn \in [Pools -> [Requests -> Int]]
  BY DEF Shaped, TypeOK
<1>1. CASE UNCHANGED <<held, holdIn>> BY <1>1 DEF HoldsInStep
<1>2. CASE Tick
  <2>1. held' = held /\ \A p \in Pools : \A r \in held[p] : holdIn'[p][r] = holdIn[p][r] - 1
    BY <1>0, <1>2 DEF Tick
  <2>2. \A p \in Pools : \A r \in held[p] : holdIn[p][r] > 0
    <3> SUFFICES ASSUME NEW p \in Pools, NEW r \in held[p] PROVE holdIn[p][r] > 0
      OBVIOUS
    <3>1. holdIn[p][r] \in UNION {{holdIn[q][x] : x \in held[q]} : q \in Pools} OBVIOUS
    <3>2. holdIn[p][r] \in Deadlines BY <3>1 DEF Deadlines
    <3>3. QED BY <1>2, <3>2 DEF Tick
  <2>3. \A p, q \in Capped : \A r \in held[p] : r \in held[q] /\ holdIn[p][r] = holdIn[q][r]
    BY <1>0, <2>2 DEF HoldsInStep
  <2>4. QED BY <1>0, <2>1, <2>3 DEF HoldsInStep
<1>3. ASSUME NEW r \in Requests, Gates(r) PROVE HoldsInStep'
  <2>1. \A p \in Pools : r \notin held[p] BY <1>3 DEF Gates, HeldAdmitted
  <2>2. CASE \A p \in Pools : Reserved(p, r)
    <3>1. \A p \in Capped : held'[p] = held[p] \cup {r} /\ holdIn'[p][r] = HoldTime
                 /\ \A q \in held[p] : holdIn'[p][q] = holdIn[p][q]
      BY <1>0, <2>1, <2>2 DEF Reserved
    <3>2. QED BY <1>0, <2>1, <3>1 DEF HoldsInStep
  <2>3. QED BY <1>1, <1>3, <2>2, GateOutcome
<1>4. ASSUME NEW p \in Pools, NEW r \in Requests, ReleaseHold(p, r) PROVE HoldsInStep'
  <2>1. /\ held' = [held EXCEPT ![p] = held[p] \ {r}] /\ r \in held[p]
        /\ holdIn' = [holdIn EXCEPT ![p] = [holdIn[p] EXCEPT ![r] = 0]]
        /\ holdIn[p][r] <= 0
    BY <1>4, ReleaseOutcome DEF ReleaseHold, Due
  <2>2. ASSUME NEW q \in Pools, NEW x \in held'[q]
        PROVE  x \in held[q] /\ holdIn'[q][x] = holdIn[q][x] /\ (q = p => x # r)
    BY <1>0, <2>1, <2>2
  <2>3. \A q \in Pools : \A x \in held[q] : x \notin held'[q] => q = p /\ x = r
    BY <1>0, <2>1
  <2>4. SUFFICES ASSUME NEW q \in Capped, NEW s \in Capped, NEW x \in held'[q]
                 PROVE IF x \in held'[s] THEN holdIn'[q][x] = holdIn'[s][x] ELSE holdIn'[q][x] <= 0
    BY DEF HoldsInStep
  <2>5. x \in held[q] /\ holdIn'[q][x] = holdIn[q][x] BY <2>2
  <2>6. CASE x \in held'[s] BY <2>2, <2>5, <2>6 DEF HoldsInStep
  <2>7. CASE x \notin held'[s] /\ x \in held[s]
    BY <2>1, <2>3, <2>5, <2>7 DEF HoldsInStep
  <2>8. CASE x \notin held'[s] /\ x \notin held[s] BY <2>5, <2>8 DEF HoldsInStep
  <2>9. QED BY <2>6, <2>7, <2>8
<1>5. Moves => UNCHANGED <<held, holdIn>> BY DEF Moves, ledgers
<1>6. \A r \in Requests : Deliver(r) \/ ProxyStep(r) => UNCHANGED <<held, holdIn>>
  BY DEF Deliver, ProxyStep, ledgers
<1>7. \A reading \in Readings :
        Poll(reading) \/ (\E P \in RecordedBefore : PollRaises(reading, P))
          => UNCHANGED <<held, holdIn>>
  BY DEF Poll, PollRaises, ledgers
<1>8. UNCHANGED vars => UNCHANGED <<held, holdIn>> BY DEF vars, ledgers
<1>9. QED BY <1>1, <1>2, <1>3, <1>4, <1>5, <1>6, <1>7, <1>8, NextSteps

(* The ages in a window after a sample depend on those before it.          *)
Ages(S) == {s.age : s \in S}
Aged(A, gap) == {a + gap : a \in {x \in A : x + gap <= Window}} \cup {0}

LEMMA RecordAges ==
  ASSUME NEW S, NEW gap \in Nat, NEW w
  PROVE  Ages(Record(S, gap, w)) = Aged(Ages(S), gap)
<1> DEFINE kept == {[age |-> s.age + gap, w |-> s.w] : s \in {x \in S : x.age + gap <= Window}}
<1>1. Record(S, gap, w) = kept \cup {[age |-> 0, w |-> w]} BY DEF Record
<1>2. Ages(kept) = {a + gap : a \in {x \in Ages(S) : x + gap <= Window}}
  <2>1. ASSUME NEW s \in S, s.age + gap <= Window
        PROVE  s.age + gap \in Ages(kept) /\ s.age \in Ages(S)
    <3>1. [age |-> s.age + gap, w |-> s.w] \in kept BY <2>1
    <3>2. [age |-> s.age + gap, w |-> s.w].age = s.age + gap OBVIOUS
    <3> HIDE DEF kept
    <3>3. QED BY <3>1, <3>2 DEF Ages
  <2>2. ASSUME NEW a \in Ages(kept)
        PROVE  \E s \in S : s.age + gap <= Window /\ a = s.age + gap
    <3>1. PICK k \in kept : a = k.age BY DEF Ages
    <3>2. PICK s \in S : s.age + gap <= Window /\ k = [age |-> s.age + gap, w |-> s.w]
      OBVIOUS
    <3>3. QED BY <3>1, <3>2
  <2> HIDE DEF kept
  <2>3. \A x \in Ages(S) : \E s \in S : x = s.age BY DEF Ages
  <2>4. \A s \in S : s.age \in Ages(S) BY DEF Ages
  <2>5. QED BY <2>1, <2>2, <2>3, <2>4
<1> HIDE DEF kept
<1>3. Ages(kept \cup {[age |-> 0, w |-> w]}) = Ages(kept) \cup {0}
  <2> DEFINE new == [age |-> 0, w |-> w]
  <2>1. new.age = 0 OBVIOUS
  <2> HIDE DEF new
  <2>2. Ages(kept \cup {new}) = Ages(kept) \cup {new.age} BY DEF Ages
  <2>3. QED BY <2>1, <2>2 DEF new
<1>4. QED BY <1>1, <1>2, <1>3 DEF Aged

LEMMA WindowsStep == Shaped /\ WindowsInStep /\ [Next]_vars => WindowsInStep'
<1> SUFFICES ASSUME Shaped, WindowsInStep, [Next]_vars PROVE WindowsInStep'
  OBVIOUS
<1>1. CASE UNCHANGED <<samples, polling>> BY <1>1 DEF WindowsInStep
<1>2. ASSUME NEW reading \in Readings, Poll(reading) PROVE WindowsInStep'
  <2>1. PollInterval - pollIn \in Nat BY <1>2, Constants DEF Poll, Due, Shaped, TypeOK
  <2> DEFINE gap == PollInterval - pollIn
  <2>2. \A p \in Capped : samples'[p] = Record(samples[p], gap, reading[p])
    BY <1>2, Constants DEF Poll, RecordPools
  <2>3. polling BY <1>2 DEF Poll
  <2>4. SUFFICES ASSUME NEW p \in Capped, NEW q \in Capped PROVE Ages(samples'[p]) = Ages(samples'[q])
    BY DEF WindowsInStep, Ages
  <2>5. Ages(samples[p]) = Ages(samples[q]) BY <2>3 DEF WindowsInStep, Ages
  <2> HIDE DEF gap
  <2>6. gap \in Nat BY <2>1 DEF gap
  <2>7. QED BY <2>2, <2>5, <2>6, RecordAges
<1>3. \A reading \in Readings, P \in RecordedBefore : PollRaises(reading, P) => WindowsInStep'
  BY DEF PollRaises, WindowsInStep
<1>4. Tick \/ Moves \/ UNCHANGED vars => UNCHANGED <<samples, polling>>
  BY DEF Tick, Moves, vars, power
<1>5. \A r \in Requests : Deliver(r) \/ ProxyStep(r) \/ Gates(r) => UNCHANGED <<samples, polling>>
  BY DEF Deliver, ProxyStep, Gates, power
<1>6. \A p \in Pools, r \in Requests : ReleaseHold(p, r) => UNCHANGED <<samples, polling>>
  BY DEF ReleaseHold, power
<1>7. QED BY <1>1, <1>2, <1>3, <1>4, <1>5, <1>6, NextSteps

-----------------------------------------------------------------------------
(* The proxy's iterators.                                                  *)

LEMMA GotFinite ==
  ASSUME NEW p \in Pools, NEW i
  PROVE  IsFiniteSet(Nixl!Got(p, i)) /\ Cardinality(Nixl!Got(p, i)) \in Nat
BY Constants, FS_Subset, FS_CardinalityType DEF Nixl!Got

(* A request takes the next instance of a pool.                            *)
LEMMA TakesNext ==
  ASSUME Shaped, NEW p \in Pools, TakenInTurn(p), NEW r \in Requests,
         at[p][r] = Nixl!Nobody, Nixl!get_next_client(r, p)
  PROVE  TakenInTurn(p)'
<1> USE Constants
<1>0. PICK t : t = turn[p] OBVIOUS
<1> DEFINE n == Instances[p]
           Gets(i) == Nixl!Got(p, i)
<1>1. n \in Nat \ {0} /\ t \in 0..(n - 1) BY <1>0 DEF Shaped, TypeOK, Nixl!TypeOK, Pools
<1>2. at'[p] = [at[p] EXCEPT ![r] = t] /\ turn'[p] = (t + 1) % n
  BY <1>0 DEF Nixl!get_next_client, Shaped
<1>3. turn'[p] = IF t + 1 = n THEN 0 ELSE t + 1
  <2> HIDE DEF n
  <2>1. CASE t + 1 = n BY <1>1, <1>2, <2>1
  <2>2. CASE t + 1 # n
    <3>1. t + 1 < n BY <1>1, <2>2
    <3>2. (t + 1) % n = t + 1 BY <1>1, <3>1
    <3>3. QED BY <1>2, <2>2, <3>2
  <2>3. QED BY <2>1, <2>2
<1>4. at[p] \in [Requests -> {Nixl!Nobody} \cup Nat] /\ t # Nixl!Nobody
  BY <1>1 DEF Shaped, Nixl!Nobody
<1>5. Gets(t)' = Gets(t) \cup {r} /\ r \notin Gets(t)
  <2>1. \A q \in Requests : at'[p][q] = IF q = r THEN t ELSE at[p][q] BY <1>2, <1>4
  <2>2. r \notin Gets(t) BY <1>4 DEF Nixl!Got
  <2>3. \A q : q \in Gets(t)' <=> q \in Gets(t) \cup {r} BY <2>1 DEF Nixl!Got
  <2>4. QED BY <2>2, <2>3
<1>6. \A i \in 0..(n - 1) : i # t => Gets(i)' = Gets(i)
  BY <1>1, <1>2, <1>4 DEF Nixl!Got, Nixl!Nobody
<1>7. PICK k \in Nat : \A i \in 0..(n - 1) : Cardinality(Gets(i)) = IF i < t THEN k + 1 ELSE k
  BY <1>0 DEF TakenInTurn
<1>8. Cardinality(Gets(t)') = k + 1
  <2>1. Cardinality(Gets(t)) = k BY <1>1, <1>7
  <2>2. IsFiniteSet(Gets(t)) BY GotFinite
  <2> HIDE DEF Gets
  <2>3. QED BY <1>5, <2>1, <2>2, FS_AddElement
<1>9. \A i \in 0..(n - 1) : Cardinality(Gets(i)') = IF i <= t THEN k + 1 ELSE k
  <2> SUFFICES ASSUME NEW i \in 0..(n - 1)
               PROVE Cardinality(Gets(i)') = IF i <= t THEN k + 1 ELSE k
    OBVIOUS
  <2>1. CASE i = t
    <3>1. Gets(i)' = Gets(t)' /\ i <= t
      <4>1. i <= t BY <1>1, <2>1
      <4>2. Gets(i)' = Gets(t)' BY <2>1, <1>2 DEF Nixl!Got
      <4>3. QED BY <4>1, <4>2
    <3> HIDE DEF Gets
    <3>2. QED BY <1>8, <3>1
  <2>2. CASE i # t BY <1>1, <1>6, <1>7, <2>2
  <2>3. QED BY <2>1, <2>2
<1> HIDE DEF Gets
<1>10. CASE t + 1 = n
  <2>1. turn'[p] = 0 /\ \A i \in 0..(n - 1) : i <= t BY <1>1, <1>3, <1>10
  <2>2. \A i \in 0..(n - 1) : Cardinality(Gets(i)') = IF i < turn'[p] THEN k + 2 ELSE k + 1
    BY <1>1, <1>9, <2>1
  <2>3. k + 1 \in Nat /\ k + 1 + 1 = k + 2 OBVIOUS
  <2>4. QED BY <2>2, <2>3 DEF TakenInTurn, Gets
<1>11. CASE t + 1 # n
  <2>1. turn'[p] = t + 1 /\ \A i \in 0..(n - 1) : i <= t <=> i < t + 1 BY <1>1, <1>3, <1>11
  <2>2. \A i \in 0..(n - 1) : Cardinality(Gets(i)') = IF i < turn'[p] THEN k + 1 ELSE k
    BY <1>9, <2>1
  <2>3. QED BY <2>2 DEF TakenInTurn, Gets
<1>12. QED BY <1>10, <1>11

(* The other pool is left alone.                                           *)
LEMMA SamePool ==
  ASSUME NEW p \in Pools, TakenInTurn(p), at'[p] = at[p], turn'[p] = turn[p]
  PROVE  TakenInTurn(p)'
BY DEF TakenInTurn, Nixl!Got

LEMMA TurnsInit == Init => Turns
<1> SUFFICES ASSUME Init PROVE Turns
  OBVIOUS
<1> USE Constants, PoolsAre DEF Init, Nixl!Init, Pools
<1>1. NotYet BY DEF NotYet
<1>2. ASSUME NEW p \in Pools PROVE TakenInTurn(p)
  <2>1. \A i \in 0..(Instances[p] - 1) : Nixl!Got(p, i) = {} BY DEF Nixl!Got, Nixl!Nobody
  <2>2. \A i \in 0..(Instances[p] - 1) : Cardinality(Nixl!Got(p, i)) = 0 BY <2>1, FS_EmptySet
  <2>3. turn[p] = 0 OBVIOUS
  <2>4. \A i \in 0..(Instances[p] - 1) :
          Cardinality(Nixl!Got(p, i)) = IF i < turn[p] THEN 0 + 1 ELSE 0
    BY <2>2, <2>3
  <2>5. QED BY <2>4 DEF TakenInTurn
<1>3. QED BY <1>1, <1>2 DEF Turns

LEMMA TurnsStep == Shaped /\ Turns /\ [Next]_vars => Turns'
<1> SUFFICES ASSUME Shaped, Turns, [Next]_vars PROVE Turns'
  OBVIOUS
<1> USE PoolsAre
<1>0. leg \in [Requests -> Nixl!Legs] /\ at \in [Pools -> [Requests -> {Nixl!Nobody} \cup Nat]]
      /\ turn \in [Pools -> Nat]
  BY DEF Shaped, TypeOK, Nixl!TypeOK
<1>1. CASE UNCHANGED nixlVars
  <2>1. leg' = leg /\ at' = at /\ turn' = turn BY <1>1 DEF nixlVars
  <2>2. NotYet' BY <2>1 DEF Turns, NotYet
  <2>3. \A p \in Pools : TakenInTurn(p)' BY <2>1, SamePool DEF Turns
  <2>4. QED BY <2>2, <2>3 DEF Turns
<1>2. ASSUME NEW r \in Requests, NEW p \in Pools, at[p][r] = Nixl!Nobody,
             Nixl!get_next_client(r, p)
      PROVE  \A q \in Pools : TakenInTurn(q)'
  <2>1. TakenInTurn(p)' BY <1>2, TakesNext DEF Turns
  <2>2. \A q \in Pools \ {p} : at'[q] = at[q] /\ turn'[q] = turn[q]
    BY <1>0, <1>2 DEF Nixl!get_next_client
  <2>3. \A q \in Pools \ {p} : TakenInTurn(q)' BY <2>2, SamePool DEF Turns
  <2>4. QED BY <2>1, <2>3
<1>3. ASSUME NEW r \in Requests, Nixl!ReceiveRequest(r) PROVE Turns'
  <2>1. at["prefill"][r] = Nixl!Nobody BY <1>3 DEF Nixl!ReceiveRequest, Turns, NotYet
  <2>2. \A q \in Pools : TakenInTurn(q)' BY <1>2, <1>3, <2>1 DEF Nixl!ReceiveRequest
  <2>3. NotYet'
    BY <1>0, <1>3 DEF Nixl!ReceiveRequest, Nixl!get_next_client, Turns, NotYet
  <2>4. QED BY <2>2, <2>3 DEF Turns
<1>4. ASSUME NEW r \in Requests, Nixl!PrefillReturns(r) PROVE Turns'
  <2>1. at["decode"][r] = Nixl!Nobody BY <1>4 DEF Nixl!PrefillReturns, Turns, NotYet
  <2>2. \A q \in Pools : TakenInTurn(q)' BY <1>2, <1>4, <2>1 DEF Nixl!PrefillReturns
  <2>3. NotYet'
    BY <1>0, <1>4 DEF Nixl!PrefillReturns, Nixl!get_next_client, Turns, NotYet
  <2>4. QED BY <2>2, <2>3 DEF Turns
<1>5. ASSUME NEW r \in Requests,
             Nixl!PrefillFails(r) \/ Nixl!StreamEnds(r) \/ Nixl!StreamBreaks(r)
      PROVE  Turns'
  <2>1. UNCHANGED <<at, turn>> BY <1>5 DEF Nixl!PrefillFails, Nixl!StreamEnds, Nixl!StreamBreaks
  <2>2. \A q \in Pools : TakenInTurn(q)' BY <2>1, SamePool DEF Turns
  <2>3. NotYet'
    BY <1>0, <1>5, <2>1
       DEF Nixl!PrefillFails, Nixl!StreamEnds, Nixl!StreamBreaks, Turns, NotYet
  <2>4. QED BY <2>2, <2>3 DEF Turns
<1>6. ASSUME NEW r \in Requests, Deliver(r) \/ ProxyStep(r) PROVE Turns'
  BY <1>3, <1>4, <1>5, <1>6 DEF Deliver, ProxyStep
<1>7. Tick \/ Moves \/ UNCHANGED vars => UNCHANGED nixlVars BY DEF Tick, Moves, vars
<1>8. \A r \in Requests : Gates(r) => UNCHANGED nixlVars BY DEF Gates
<1>9. \A p \in Pools, r \in Requests : ReleaseHold(p, r) => UNCHANGED nixlVars BY DEF ReleaseHold
<1>10. \A reading \in Readings :
         Poll(reading) \/ (\E P \in RecordedBefore : PollRaises(reading, P)) => UNCHANGED nixlVars
  BY DEF Poll, PollRaises
<1>11. QED BY <1>1, <1>6, <1>7, <1>8, <1>9, <1>10, NextSteps

-----------------------------------------------------------------------------
LEMMA DisaggInit == Init => IInv
<1> SUFFICES ASSUME Init PROVE IInv
  OBVIOUS
<1> USE PoolsAre, Constants
<1>1. \A p \in Pools : held[p] = {} /\ reserved[p] = 0 /\ samples[p] = {} BY DEF Init
<1>2. HeldAdmitted /\ HoldsInStep /\ WindowsInStep
  BY <1>1 DEF HeldAdmitted, HoldsInStep, WindowsInStep
<1>3. Ledgers
  <2>1. \A p \in Pools : JouleUnits(held[p], marginal[p]) = {} BY <1>1 DEF JouleUnits
  <2>2. QED BY <1>1, <2>1, FS_EmptySet DEF Ledgers, LedgerOf
<1>4. QED BY <1>2, <1>3, ShapedInit, TurnsInit DEF IInv

LEMMA DisaggInductive == Spec => []IInv
<1>1. IInv /\ [Next]_vars => IInv'
  BY ShapedStep, LedgersStep, HoldsStep, WindowsStep, TurnsStep DEF IInv
<1>2. QED BY DisaggInit, <1>1, PTL DEF Spec

(* Each pool's ledger of disagg_gate.py always holds the energy, by that   *)
(* pool's share, of the reservations whose release in it is still to come. *)
THEOREM DisaggLedgersExact == Spec => []LedgersExact
<1>1. IInv => LedgersExact BY DEF IInv, Ledgers, LedgerOf, LedgersExact
<1>2. QED BY <1>1, DisaggInductive, PTL

(* A request holds energy in all capped pools or in none, but for the tick *)
(* in which the holds end.                                                 *)
THEOREM DisaggReservedInAll == Spec => []ReservedInAll
<1>1. IInv => ReservedInAll BY DEF IInv, HoldsInStep, ReservedInAll
<1>2. QED BY <1>1, DisaggInductive, PTL

(* While the poller of disagg_gate.py lives, the capped pools' windows     *)
(* have samples of the same instants.                                      *)
THEOREM DisaggWindowsInStep == Spec => []WindowsInStep
<1>1. IInv => WindowsInStep BY DEF IInv
<1>2. QED BY <1>1, DisaggInductive, PTL

(* get_next_client of nixl_toy_proxy_server.py spreads either leg evenly,  *)
(* for any number of instances and whichever requests fail in between.     *)
THEOREM DisaggPoolsBalanced == Spec => []PoolsBalanced
<1>1. IInv => PoolsBalanced
  <2> SUFFICES ASSUME IInv, NEW p \in Pools
               PROVE  \A i, j \in 0..(Instances[p] - 1) :
                        Cardinality(Nixl!Got(p, i)) <= Cardinality(Nixl!Got(p, j)) + 1
    BY Zenon DEF PoolsBalanced, Nixl!LegsBalanced, Pools, Cardinality, Nixl!Cardinality
  <2>1. PICK k \in Nat : \A x \in 0..(Instances[p] - 1) :
                 Cardinality(Nixl!Got(p, x)) = IF x < turn[p] THEN k + 1 ELSE k
    BY DEF IInv, Turns, TakenInTurn
  <2>2. \A x \in 0..(Instances[p] - 1) : Cardinality(Nixl!Got(p, x)) \in {k, k + 1} BY <2>1
  <2>3. QED BY <2>2
<1>2. QED BY <1>1, DisaggInductive, PTL

-----------------------------------------------------------------------------
(* The promise of the gate, for either pool that is capped: a step of      *)
(* DisaggGate admits, parks, releases, samples or stops sampling, or       *)
(* leaves alone what the promise is about.                                 *)

phases == [r \in Requests |-> Phase(r)]

(* While the poller lives its deadline comes before that of every release  *)
(* whose reservation has not been sampled in its pool.                     *)
PollFirst ==
  polling => /\ pollIn <= PollInterval
             /\ \A p \in Pools : \A r \in unsampled[p] : pollIn < holdIn[p][r]

LEMMA PollFirstInit == Init => PollFirst
BY Constants DEF Init, PollFirst

LEMMA PollFirstStep == Shaped /\ PollFirst /\ [Next]_vars => PollFirst'
<1> SUFFICES ASSUME Shaped, PollFirst, [Next]_vars PROVE PollFirst'
  OBVIOUS
<1> USE Constants
<1>0. /\ holdIn \in [Pools -> [Requests -> Int]] /\ unsampled \in [Pools -> SUBSET Requests]
      /\ pollIn \in Int
      /\ \A p \in Pools : unsampled[p] \subseteq held[p]
  BY DEF Shaped, TypeOK
<1>1. CASE UNCHANGED <<polling, pollIn, unsampled, holdIn>> BY <1>1 DEF PollFirst
<1>2. CASE Tick
  <2>1. \A p \in Pools : \A r \in unsampled[p] : holdIn'[p][r] = holdIn[p][r] - 1
    BY <1>0, <1>2 DEF Tick
  <2>2. polling => pollIn' = pollIn - 1 BY <1>2 DEF Tick
  <2>3. polling' = polling /\ unsampled' = unsampled BY <1>2 DEF Tick
  <2>4. QED BY <1>0, <2>1, <2>2, <2>3 DEF PollFirst
<1>3. ASSUME NEW r \in Requests, Gates(r) PROVE PollFirst'
  <2>1. UNCHANGED <<polling, pollIn>> BY <1>3 DEF Gates, power
  <2>2. CASE UNCHANGED <<ledgers, unsampled>> BY <2>1, <2>2 DEF ledgers, PollFirst
  <2>3. CASE ReserveBoth(r, [p \in Pools |-> marginal'[p][r]])
    <3>1. ASSUME NEW p \in Pools, NEW q \in unsampled'[p], q # r
          PROVE  q \in unsampled[p] /\ holdIn'[p][q] = holdIn[p][q]
      BY <1>0, <2>3, <3>1 DEF ReserveBoth
    <3>2. ASSUME NEW p \in Pools, r \in unsampled'[p], p \in Capped PROVE holdIn'[p][r] = HoldTime
      BY <1>0, <2>3, <3>2 DEF ReserveBoth
    <3>3. ASSUME NEW p \in Pools, r \in unsampled'[p], p \notin Capped
          PROVE  r \in unsampled[p] /\ holdIn'[p][r] = holdIn[p][r]
      BY <1>0, <2>3, <3>3 DEF ReserveBoth
    <3>4. PollInterval < HoldTime BY DisaggAssumption
    <3>5. QED BY <1>0, <2>1, <3>1, <3>2, <3>3, <3>4 DEF PollFirst
  <2>4. QED BY <1>3, <2>2, <2>3 DEF Gates, TryGate
<1>4. ASSUME NEW p \in Pools, NEW r \in Requests, ReleaseHold(p, r) PROVE PollFirst'
  <2>1. /\ unsampled' = [unsampled EXCEPT ![p] = unsampled[p] \ {r}]
        /\ holdIn' = [holdIn EXCEPT ![p][r] = 0]
        /\ UNCHANGED <<polling, pollIn>>
    BY <1>4 DEF ReleaseHold, power
  <2>2. ASSUME NEW q \in Pools, NEW x \in unsampled'[q]
        PROVE  x \in unsampled[q] /\ holdIn'[q][x] = holdIn[q][x]
    BY <1>0, <2>1
  <2>3. QED BY <2>1, <2>2 DEF PollFirst
<1>5. ASSUME NEW reading \in Readings, Poll(reading) PROVE PollFirst'
  <2>1. /\ \A p \in Capped : unsampled'[p] = {}
        /\ \A p \in Pools \ Capped : unsampled'[p] = unsampled[p]
    BY <1>5 DEF Poll, RecordPools
  <2>2. \A p \in Pools \ Capped : unsampled[p] = {} BY <1>0 DEF Shaped, TypeOK
  <2>3. pollIn' = PollInterval BY <1>5 DEF Poll
  <2>4. QED BY <2>1, <2>2, <2>3 DEF PollFirst
<1>6. ASSUME NEW reading \in Readings, NEW P \in RecordedBefore, PollRaises(reading, P)
      PROVE  PollFirst'
  BY <1>6 DEF PollRaises, PollFirst
<1>7. Moves => UNCHANGED <<polling, pollIn, unsampled, holdIn>> BY DEF Moves, ledgers, power
<1>8. \A r \in Requests : Deliver(r) \/ ProxyStep(r) => UNCHANGED <<polling, pollIn, unsampled, holdIn>>
  BY DEF Deliver, ProxyStep, ledgers, power
<1>9. UNCHANGED vars => UNCHANGED <<polling, pollIn, unsampled, holdIn>>
  BY DEF vars, ledgers, power
<1>10. QED BY <1>1, <1>2, <1>3, <1>4, <1>5, <1>6, <1>7, <1>8, <1>9, NextSteps

LEMMA PollFirstInv == Spec => []PollFirst
<1>1. Spec => []Shaped BY ShapedInit, ShapedStep, PTL DEF Spec
<1>2. QED BY <1>1, PollFirstInit, PollFirstStep, PTL DEF Spec

-----------------------------------------------------------------------------
(* The steps of the promise, with the variables of one pool.               *)

PromiseVars(p) == <<phases, marginal[p], samples[p], held[p], unsampled[p], polling>>

StatesIn(p, r) ==
  marginal'[p][r] \in Nat /\ marginal'[p] = [marginal[p] EXCEPT ![r] = marginal'[p][r]]

WaitsIn(p, r) ==
  /\ phases[r] = "outside"
  /\ phases' = [phases EXCEPT ![r] = "waiting"]
  /\ StatesIn(p, r)
  /\ samples'[p] = samples[p] /\ held'[p] = held[p] /\ unsampled'[p] = unsampled[p]
  /\ polling' = polling

AdmitsIn(p, r) ==
  /\ phases[r] \in {"outside", "waiting"}
  /\ phases' = [phases EXCEPT ![r] = "admitted"]
  /\ StatesIn(p, r)
  /\ phases[r] = "waiting" => marginal'[p][r] = marginal[p][r]
  /\ held'[p] = held[p] \cup {r} /\ unsampled'[p] = unsampled[p] \cup {r}
  /\ ~OverCap(p, samples[p], [q \in held'[p] |-> marginal'[p][q]])
  /\ samples'[p] = samples[p] /\ polling' = polling

ExpiresIn(p, r) ==
  /\ r \in held[p]
  /\ polling => r \notin unsampled[p]
  /\ held'[p] = held[p] \ {r} /\ unsampled'[p] = unsampled[p] \ {r}
  /\ phases' = phases /\ marginal'[p] = marginal[p] /\ samples'[p] = samples[p]
  /\ polling' = polling

SamplesIn(p, gap, w) ==
  /\ polling
  /\ samples'[p] = Record(samples[p], gap, w)
  /\ unsampled'[p] = {}
  /\ polling' \in BOOLEAN
  /\ phases' = phases /\ marginal'[p] = marginal[p] /\ held'[p] = held[p]

StopsIn(p) ==
  /\ polling' = FALSE
  /\ phases' = phases /\ marginal'[p] = marginal[p] /\ samples'[p] = samples[p]
  /\ held'[p] = held[p] /\ unsampled'[p] = unsampled[p]

StaysIn(p) ==
  /\ phases' = phases /\ marginal'[p] = marginal[p] /\ samples'[p] = samples[p]
  /\ held'[p] = held[p] /\ unsampled'[p] = unsampled[p] /\ polling' = polling

PromiseStep(p) ==
  \/ \E r \in Requests : WaitsIn(p, r) \/ AdmitsIn(p, r) \/ ExpiresIn(p, r)
  \/ \E w \in PowerLevels, gap \in 1..(Window + 1) : SamplesIn(p, gap, w)
  \/ StopsIn(p)
  \/ StaysIn(p)

LEMMA SamePhases ==
  ASSUME stage' = stage
  PROVE  phases' = phases
BY DEF phases, Phase

LEMMA PhaseStep ==
  ASSUME Shaped, NEW r \in Requests, NEW s \in Stages \ {"idle"},
         stage' = [stage EXCEPT ![r] = s]
  PROVE  /\ s = "gated" => phases' = [phases EXCEPT ![r] = "waiting"]
         /\ s # "gated" => phases' = [phases EXCEPT ![r] = "admitted"]
BY DEF phases, Phase, Shaped, TypeOK, Stages

LEMMA PhaseOf ==
  ASSUME NEW r \in Requests
  PROVE  phases[r] = Phase(r)
BY DEF phases

(* An admission with exact ledgers keeps each capped pool within its cap.  *)
LEMMA AdmitsWithinCap ==
  ASSUME Shaped, Ledgers', NEW p \in Capped, NEW r \in Requests, Gates(r),
         Reserved(p, r), ~dual_budget_would_exceed([q \in Pools |-> marginal'[q][r]])
  PROVE  ~OverCap(p, samples[p], [q \in held'[p] |-> marginal'[p][q]])
<1>0. p \in Pools BY Constants
<1>1. reserved' [p] = reserved[p] + marginal'[p][r] /\ reserved[p] \in Nat /\ marginal'[p][r] \in Nat
  BY <1>0 DEF Reserved, Shaped, TypeOK, Gates
<1>2. reserved'[p] = Cardinality(JouleUnits(held'[p], marginal'[p]))
  BY <1>0 DEF Ledgers, LedgerOf
<1>3. ~WouldExceed(samples[p], reserved[p], Cap[p], marginal'[p][r])
  BY <1>0 DEF dual_budget_would_exceed
<1>4. ~WouldExceed(samples[p], reserved'[p], Cap[p], 0)
  <2>1. reserved'[p] + 0 = reserved[p] + marginal'[p][r] BY <1>1
  <2>2. QED BY <1>3, <2>1 DEF WouldExceed
<1>5. JouleUnits(held'[p], marginal'[p])
        = JouleUnits(held'[p], [q \in held'[p] |-> marginal'[p][q]])
  BY JoulesSame
<1>6. QED BY <1>2, <1>4, <1>5 DEF OverCap

LEMMA GatePromise ==
  ASSUME IInv, IInv', NEW p \in Capped, NEW r \in Requests, Gates(r),
         stage[r] = "gated" => marginal' = marginal
  PROVE  PromiseStep(p)
<1> USE Constants
<1>0. Shaped /\ Ledgers' BY DEF IInv
<1>1. p \in Pools /\ samples'[p] = samples[p] /\ polling' = polling
      /\ stage[r] \in {"idle", "gated"} /\ stage \in [Requests -> Stages]
  BY <1>0 DEF Gates, power, Shaped, TypeOK
<1>2. StatesIn(p, r)
  <2>1. marginal'[p] \in [Requests -> Nat] /\ marginal[p] \in [Requests -> Nat]
        /\ \A q \in Requests \ {r} : marginal'[p][q] = marginal[p][q]
    BY <1>0, <1>1 DEF Gates, Shaped, TypeOK
  <2>2. QED BY <2>1 DEF StatesIn
<1>3. phases[r] = (IF stage[r] = "gated" THEN "waiting" ELSE "outside")
  BY <1>1, PhaseOf DEF Phase
<1>4. CASE UNCHANGED <<ledgers, unsampled>> /\ stage' = [stage EXCEPT ![r] = "gated"]
  <2>1. CASE stage[r] = "idle"
    <3>1. phases' = [phases EXCEPT ![r] = "waiting"]
      BY <1>0, <1>4, PhaseStep DEF Stages
    <3>2. WaitsIn(p, r) BY <1>1, <1>2, <1>3, <1>4, <2>1, <3>1 DEF WaitsIn, ledgers
    <3>3. QED BY <3>2 DEF PromiseStep
  <2>2. CASE stage[r] = "gated"
    <3>1. stage' = stage BY <1>1, <1>4, <2>2
    <3>2. StaysIn(p) BY <1>1, <1>4, <2>2, <3>1, SamePhases DEF StaysIn, ledgers
    <3>3. QED BY <3>2 DEF PromiseStep
  <2>3. QED BY <1>1, <2>1, <2>2
<1>5. CASE /\ ReserveBoth(r, [q \in Pools |-> marginal'[q][r]])
           /\ ~dual_budget_would_exceed([q \in Pools |-> marginal'[q][r]])
           /\ stage' = [stage EXCEPT ![r] = "preparing"]
  <2>1. phases' = [phases EXCEPT ![r] = "admitted"]
    <3>1. "preparing" \in Stages \ {"idle"} /\ "preparing" # "gated" BY DEF Stages
    <3>2. stage' = [stage EXCEPT ![r] = "preparing"] BY <1>5
    <3>3. QED BY <1>0, <3>1, <3>2, PhaseStep
  <2>2. held'[p] = held[p] \cup {r} /\ unsampled'[p] = unsampled[p] \cup {r}
    BY <1>1, <1>5 DEF ReserveBoth
  <2>3. Reserved(p, r)
    <3>1. ReserveBoth(r, [q \in Pools |-> marginal'[q][r]])
          /\ [q \in Pools |-> marginal'[q][r]][p] = marginal'[p][r]
      BY <1>1, <1>5
    <3>2. QED BY <1>1, <3>1 DEF ReserveBoth, Reserve, Reserved
  <2>4. ~OverCap(p, samples[p], [q \in held'[p] |-> marginal'[p][q]])
    BY <1>0, <1>5, <2>3, AdmitsWithinCap
  <2>5. phases[r] = "waiting" => marginal'[p][r] = marginal[p][r] BY <1>3
  <2>6. AdmitsIn(p, r) BY <1>1, <1>2, <1>3, <2>1, <2>2, <2>4, <2>5 DEF AdmitsIn
  <2>7. QED BY <2>6 DEF PromiseStep
<1>6. QED BY <1>4, <1>5 DEF Gates, TryGate

(* A parked request's energies stay what they were on its arrival.         *)
LEMMA ParkedEnergies ==
  ASSUME Shaped, NEW r \in Requests, Arrive(r) \/ Recheck(r), stage[r] = "gated"
  PROVE  marginal' = marginal
BY DEF Arrive, Recheck

LEMMA MovesStay ==
  ASSUME Shaped, Moves, NEW p \in Pools
  PROVE  StaysIn(p)
<1>1. PICK r \in Requests, to \in Stages \ {"idle", "gated"} :
        stage[r] \notin {"idle", "gated"} /\ stage' = [stage EXCEPT ![r] = to]
  BY DEF Moves
<1>2. phases' = [phases EXCEPT ![r] = "admitted"] BY <1>1, PhaseStep
<1>3. phases[r] = "admitted" BY <1>1, PhaseOf DEF Phase
<1>4. phases' = phases BY <1>2, <1>3 DEF phases
<1>5. UNCHANGED <<marginal, samples, held, unsampled, polling>> BY DEF Moves, ledgers, power
<1>6. QED BY <1>4, <1>5 DEF StaysIn

LEMMA PollDeadline == polling => pollIn \in Deadlines
BY DEF Deadlines

LEMMA ReleasePromise ==
  ASSUME Shaped, PollFirst, NEW p \in Pools, NEW q \in Pools, NEW r \in Requests,
         ReleaseHold(q, r)
  PROVE  PromiseStep(p)
<1>1. /\ held' = [held EXCEPT ![q] = held[q] \ {r}] /\ r \in held[q]
      /\ unsampled' = [unsampled EXCEPT ![q] = unsampled[q] \ {r}]
      /\ UNCHANGED <<stage, marginal, samples, polling>>
      /\ Due(holdIn[q][r])
  BY DEF ReleaseHold, handlers, power
<1>2. phases' = phases BY <1>1, SamePhases
<1>3. polling => r \notin unsampled[q]
  <2>2. polling => holdIn[q][r] <= pollIn BY <1>1, PollDeadline DEF Due
  <2>3. holdIn[q][r] \in Int /\ pollIn \in Int BY DEF Shaped, TypeOK
  <2>4. QED BY <2>2, <2>3 DEF PollFirst
<1>4. CASE p = q
  <2>1. held'[p] = held[p] \ {r} /\ unsampled'[p] = unsampled[p] \ {r}
    BY <1>1, <1>4 DEF Shaped
  <2>2. ExpiresIn(p, r) BY <1>1, <1>2, <1>3, <1>4, <2>1 DEF ExpiresIn
  <2>3. QED BY <2>2 DEF PromiseStep
<1>5. CASE p # q
  <2>1. held'[p] = held[p] /\ unsampled'[p] = unsampled[p] BY <1>1, <1>5 DEF Shaped
  <2>2. StaysIn(p) BY <1>1, <1>2, <2>1 DEF StaysIn
  <2>3. QED BY <2>2 DEF PromiseStep
<1>6. QED BY <1>4, <1>5

LEMMA PollPromise ==
  ASSUME Shaped, NEW p \in Pools, NEW P \in SUBSET Capped, NEW reading \in Readings,
         RecordPools(P, reading), Due(pollIn), polling, polling' \in BOOLEAN,
         UNCHANGED <<handlers, ledgers>>, p \in P \/ polling' = FALSE
  PROVE  PromiseStep(p)
<1> USE Constants
<1>1. phases' = phases /\ marginal'[p] = marginal[p] /\ held'[p] = held[p]
  BY SamePhases DEF handlers, ledgers
<1>2. CASE p \in P
  <2>1. PollInterval - pollIn \in Nat \ {0} BY DEF Due, Shaped, TypeOK
  <2>2. samples[p] \subseteq Sample BY DEF Shaped
  <2>3. PICK h \in 1..(Window + 1) :
          Record(samples[p], PollInterval - pollIn, reading[p]) = Record(samples[p], h, reading[p])
    BY <2>1, <2>2, RecordGap
  <2>4. samples'[p] = Record(samples[p], h, reading[p]) /\ unsampled'[p] = {}
    BY <1>2, <2>3 DEF RecordPools
  <2>5. reading[p] \in PowerLevels BY DEF PowerLevels
  <2>6. SamplesIn(p, h, reading[p]) BY <1>1, <2>4 DEF SamplesIn
  <2>7. QED BY <2>5, <2>6 DEF PromiseStep
<1>3. CASE p \notin P
  <2>1. samples'[p] = samples[p] /\ unsampled'[p] = unsampled[p] BY <1>3 DEF RecordPools
  <2>2. StopsIn(p) BY <1>1, <1>3, <2>1 DEF StopsIn
  <2>3. QED BY <2>2 DEF PromiseStep
<1>4. QED BY <1>2, <1>3

LEMMA StepKeepsPromise ==
  ASSUME IInv, IInv', PollFirst, [Next]_vars, NEW p \in Capped
  PROVE  PromiseStep(p)
<1> USE Constants
<1>0. Shaped /\ p \in Pools BY DEF IInv
<1>1. ASSUME UNCHANGED <<stage, marginal, samples, held, unsampled, polling>>
      PROVE  PromiseStep(p)
  BY <1>1, SamePhases DEF StaysIn, PromiseStep
<1>2. ASSUME NEW r \in Requests, Arrive(r) \/ Recheck(r) PROVE PromiseStep(p)
  BY <1>0, <1>2, GateSteps, ParkedEnergies, GatePromise
<1>3. ASSUME Moves PROVE PromiseStep(p)
  BY <1>0, <1>3, MovesStay DEF PromiseStep
<1>4. ASSUME NEW q \in Pools, NEW r \in Requests, ReleaseHold(q, r) PROVE PromiseStep(p)
  BY <1>0, <1>4, ReleasePromise
<1>5. ASSUME NEW reading \in Readings, Poll(reading) PROVE PromiseStep(p)
  <2>1. polling /\ polling' \in BOOLEAN /\ Due(pollIn) /\ RecordPools(Capped, reading)
        /\ UNCHANGED <<handlers, ledgers>>
    BY <1>5 DEF Poll
  <2>2. QED BY <1>0, <2>1, PollPromise
<1>6. ASSUME NEW reading \in Readings, NEW P \in RecordedBefore, PollRaises(reading, P)
      PROVE  PromiseStep(p)
  <2>1. polling /\ polling' = FALSE /\ Due(pollIn) /\ RecordPools(P, reading)
        /\ UNCHANGED <<handlers, ledgers>>
    BY <1>6 DEF PollRaises
  <2>2. P \in SUBSET Capped BY DEF RecordedBefore
  <2>3. QED BY <1>0, <2>1, <2>2, PollPromise
<1>7. Tick => UNCHANGED <<stage, marginal, samples, held, unsampled, polling>> BY DEF Tick
<1>8. \A r \in Requests :
        Deliver(r) \/ ProxyStep(r) => UNCHANGED <<stage, marginal, samples, held, unsampled, polling>>
  BY DEF Deliver, ProxyStep, handlers, ledgers, power
<1>9. UNCHANGED vars => UNCHANGED <<stage, marginal, samples, held, unsampled, polling>>
  BY DEF vars, handlers, ledgers, power
<1>10. \A r \in Requests :
         Prepared(r) \/ PrepareRaises(r) \/ ForwardRaises(r)
           \/ (\E b \in ResponseSizes : ForwardEnds(r, b)) => Moves
  BY <1>0, HandlerMoves
<1>11. QED BY <1>1, <1>2, <1>3, <1>4, <1>5, <1>6, <1>7, <1>8, <1>9, <1>10 DEF Next

LEMMA PromiseInit ==
  ASSUME Init
  PROVE  /\ phases = [r \in Requests |-> "outside"]
         /\ \A p \in Pools : /\ marginal[p] = [r \in Requests |-> 0]
                             /\ samples[p] = {} /\ held[p] = {} /\ unsampled[p] = {}
         /\ polling = TRUE
BY DEF Init, phases, Phase

(* The prefill pool keeps the gate's promise, for any requests, pools,     *)
(* powers and timings, as long as it is capped: an admission keeps the     *)
(* average of its window, all energy reserved in it counted, within its    *)
(* cap, and what is reserved stays so until the pool was sampled, though   *)
(* the two pools share one loop of rechecks, one poller and one queue of   *)
(* release tasks (handle_completions of disagg_gate.py).                   *)
THEOREM PrefillPoolKeepsPromise ==
  ASSUME "prefill" \in Capped
  PROVE  Spec => PrefillKeepsPromise
<1>1. Init => PrefillPromise!Init
  BY PromiseInit, PoolsAre DEF PrefillPromise!Init, phases
<1>2. PromiseStep("prefill") => [PrefillPromise!Next]_(PrefillPromise!vars)
  <2>1. ASSUME NEW r \in Requests, WaitsIn("prefill", r) PROVE PrefillPromise!Wait(r)
    BY <2>1 DEF WaitsIn, StatesIn, PrefillPromise!Wait, PrefillPromise!States, phases
  <2>2. ASSUME NEW r \in Requests, AdmitsIn("prefill", r) PROVE PrefillPromise!Admit(r)
    BY <2>2 DEF AdmitsIn, StatesIn, PrefillPromise!Admit, PrefillPromise!States, phases,
                PrefillOverCap
  <2>3. ASSUME NEW r \in Requests, ExpiresIn("prefill", r) PROVE PrefillPromise!Expire(r)
    BY <2>3 DEF ExpiresIn, PrefillPromise!Expire, phases
  <2>4. ASSUME NEW w \in PowerLevels, NEW gap \in 1..(Window + 1), SamplesIn("prefill", gap, w)
        PROVE  PrefillPromise!TakeSample(gap, w)
    BY <2>4 DEF SamplesIn, PrefillPromise!TakeSample, phases
  <2>5. StopsIn("prefill") => PrefillPromise!StopSampling
    BY DEF StopsIn, PrefillPromise!StopSampling, phases
  <2>6. StaysIn("prefill") => UNCHANGED PrefillPromise!vars
    BY DEF StaysIn, PrefillPromise!vars, phases
  <2>7. QED BY <2>1, <2>2, <2>3, <2>4, <2>5, <2>6 DEF PromiseStep, PrefillPromise!Next
<1>3. IInv /\ IInv' /\ PollFirst /\ [Next]_vars => PromiseStep("prefill")
  BY StepKeepsPromise
<1>4. QED
  BY <1>1, <1>2, <1>3, DisaggInductive, PollFirstInv, PTL
     DEF Spec, PrefillKeepsPromise, PrefillPromise!Spec

(* So does the decode pool, by its own cap, ledger and window.             *)
THEOREM DecodePoolKeepsPromise ==
  ASSUME "decode" \in Capped
  PROVE  Spec => DecodeKeepsPromise
<1>1. Init => DecodePromise!Init
  BY PromiseInit, PoolsAre DEF DecodePromise!Init, phases
<1>2. PromiseStep("decode") => [DecodePromise!Next]_(DecodePromise!vars)
  <2>1. ASSUME NEW r \in Requests, WaitsIn("decode", r) PROVE DecodePromise!Wait(r)
    BY <2>1 DEF WaitsIn, StatesIn, DecodePromise!Wait, DecodePromise!States, phases
  <2>2. ASSUME NEW r \in Requests, AdmitsIn("decode", r) PROVE DecodePromise!Admit(r)
    BY <2>2 DEF AdmitsIn, StatesIn, DecodePromise!Admit, DecodePromise!States, phases,
                DecodeOverCap
  <2>3. ASSUME NEW r \in Requests, ExpiresIn("decode", r) PROVE DecodePromise!Expire(r)
    BY <2>3 DEF ExpiresIn, DecodePromise!Expire, phases
  <2>4. ASSUME NEW w \in PowerLevels, NEW gap \in 1..(Window + 1), SamplesIn("decode", gap, w)
        PROVE  DecodePromise!TakeSample(gap, w)
    BY <2>4 DEF SamplesIn, DecodePromise!TakeSample, phases
  <2>5. StopsIn("decode") => DecodePromise!StopSampling
    BY DEF StopsIn, DecodePromise!StopSampling, phases
  <2>6. StaysIn("decode") => UNCHANGED DecodePromise!vars
    BY DEF StaysIn, DecodePromise!vars, phases
  <2>7. QED BY <2>1, <2>2, <2>3, <2>4, <2>5, <2>6 DEF PromiseStep, DecodePromise!Next
<1>3. IInv /\ IInv' /\ PollFirst /\ [Next]_vars => PromiseStep("decode")
  BY StepKeepsPromise
<1>4. QED
  BY <1>1, <1>2, <1>3, DisaggInductive, PollFirstInv, PTL
     DEF Spec, DecodeKeepsPromise, DecodePromise!Spec
=============================================================================
