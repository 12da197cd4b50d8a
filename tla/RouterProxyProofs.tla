-------------------------- MODULE RouterProxyProofs --------------------------
(* What TLAPS proves about RouterProxy, for every value of its constants.  *)
EXTENDS RouterProxy, DataLemmas

-----------------------------------------------------------------------------
(* What the gate computes from its window and its estimates.               *)

(* A product of naturals is a natural, so an energy estimate is one.       *)
LEMMA MarginalType ==
  ASSUME NEW p \in Nat, NEW d \in Nat, NEW jp \in Nat, NEW jd \in Nat
  PROVE  MarginalEnergy(p, d, jp, jd) \in Nat
BY DEF MarginalEnergy

LEMMA EstimateType ==
  ASSUME NEW e \in Nat \cup {NoEstimate}, NEW n \in Nat, NEW b \in Nat \ {0}
  PROVE  CurrentEstimateTokens(e, n, b) \in Nat
BY DEF CurrentEstimateTokens, NoEstimate

LEMMA RecordCompletionType ==
  ASSUME NEW e \in Nat \cup {NoEstimate}, NEW b \in Nat
  PROVE  RecordCompletion(e, b) \in Nat
BY DEF RecordCompletion, NoEstimate

(* A window with a sample recorded is a window of samples.                 *)
LEMMA RecordType ==
  ASSUME NEW S, S \subseteq Sample, NEW gap \in Nat, NEW w \in Nat
  PROVE  Record(S, gap, w) \subseteq Sample
BY WindowAssumption DEF Record, Sample

(* A gap longer than the window leaves the new sample alone in it, so one  *)
(* gap stands for all of those.                                            *)
LEMMA RecordGap ==
  ASSUME NEW S, S \subseteq Sample, NEW g \in Nat \ {0}, NEW w
  PROVE  \E h \in 1..(Window + 1) : Record(S, g, w) = Record(S, h, w)
<1>1. CASE g <= Window + 1
  BY <1>1, WindowAssumption
<1>2. CASE g > Window + 1
  <2>1. \A x \in S : x.age \in Nat
    BY WindowAssumption DEF Sample
  <2>2. /\ {x \in S : x.age + g <= Window} = {}
        /\ {x \in S : x.age + (Window + 1) <= Window} = {}
    BY <1>2, <2>1, WindowAssumption
  <2>3. Record(S, g, w) = Record(S, Window + 1, w)
    BY <2>2 DEF Record
  <2>4. Window + 1 \in 1..(Window + 1)
    BY WindowAssumption
  <2>5. QED BY <2>3, <2>4
<1>3. QED BY <1>1, <1>2, WindowAssumption

-----------------------------------------------------------------------------
LEMMA DispatchType ==
  ASSUME NEW r \in Requests, NEW i \in Replicas, TypeOK, OnDispatch(r, i)
  PROVE  load' \in [Replicas -> Nat] /\ whales' \in [Replicas -> Nat]
BY DEF TypeOK, OnDispatch

LEMMA CompleteType ==
  ASSUME NEW r \in Requests, NEW i \in Replicas, TypeOK, OnComplete(r, i)
  PROVE  load' \in [Replicas -> Nat] /\ whales' \in [Replicas -> Nat]
BY DEF TypeOK, OnComplete

(* The marginal energy a request gets on arrival.                          *)
LEMMA ArrivalEnergyType ==
  ASSUME TypeOK, NEW r \in Requests
  PROVE  ArrivalEnergy(r) \in Nat
<1>1. CurrentEstimateTokens(estimate, MaxTokens[r], BytesPerToken) \in Nat
  BY EstimateType, RouterAssumption DEF TypeOK
<1>2. MarginalEnergy(Prompt[r],
        CurrentEstimateTokens(estimate, MaxTokens[r], BytesPerToken), JPrefill, JDecode) \in Nat
  BY <1>1, MarginalType, RouterAssumption
<1>3. QED BY <1>2 DEF ArrivalEnergy

LEMMA AdmitType ==
  ASSUME TypeOK, NEW r \in Requests, NEW j \in Nat, AdmitAndRoute(r, j)
  PROVE  /\ stage' \in [Requests -> Stages]
         /\ replica' \in [Requests -> Replicas \cup {NoReplica}]
         /\ \A q \in Requests : stage'[q] \in Routed => replica'[q] \in Replicas
         /\ load' \in [Replicas -> Nat] /\ whales' \in [Replicas -> Nat]
         /\ reserved' \in Nat
         /\ held' \subseteq Requests /\ unsampled' \subseteq held'
         /\ holdIn' \in [Requests -> Int] /\ wakeIn' \in [Requests -> Int]
<1>1. PICK i \in Replicas : replica' = [replica EXCEPT ![r] = i] /\ OnDispatch(r, i)
  BY DEF AdmitAndRoute
<1>2. load' \in [Replicas -> Nat] /\ whales' \in [Replicas -> Nat]
  BY <1>1, DispatchType
<1>3. /\ reserved' \in Nat
      /\ held' \subseteq Requests /\ unsampled' \subseteq held'
      /\ holdIn' \in [Requests -> Int]
  BY HoldAssumption DEF AdmitAndRoute, HoldReservation, Reserve, TypeOK, ledger
<1>4. stage' \in [Requests -> Stages] /\ wakeIn' \in [Requests -> Int]
  BY DEF AdmitAndRoute, TypeOK, Stages
<1>5. replica' \in [Requests -> Replicas \cup {NoReplica}]
  BY <1>1 DEF TypeOK
<1>6. \A q \in Requests : stage'[q] \in Routed => replica'[q] \in Replicas
  BY <1>1 DEF AdmitAndRoute, TypeOK
<1>7. QED BY <1>2, <1>3, <1>4, <1>5, <1>6

LEMMA ParkType ==
  ASSUME TypeOK, NEW r \in Requests, Park(r)
  PROVE  /\ stage' \in [Requests -> Stages]
         /\ replica' \in [Requests -> Replicas \cup {NoReplica}]
         /\ \A q \in Requests : stage'[q] \in Routed => replica'[q] \in Replicas
         /\ load' \in [Replicas -> Nat] /\ whales' \in [Replicas -> Nat]
         /\ reserved' \in Nat
         /\ held' \subseteq Requests /\ unsampled' \subseteq held'
         /\ holdIn' \in [Requests -> Int] /\ wakeIn' \in [Requests -> Int]
BY RouterAssumption DEF Park, TypeOK, Stages, Routed, Open, trackers, ledger

LEMMA TypeInit == Init => TypeOK
BY DEF Init, TypeOK, Stages, Routed, Open, NoEstimate

(* Every action preserves the types of all variables.                      *)
LEMMA TypeStep == TypeOK /\ [Next]_vars => TypeOK'
<1> SUFFICES ASSUME TypeOK, [Next]_vars PROVE TypeOK'
  OBVIOUS
<1>1. CASE Tick
  BY <1>1 DEF Tick, TypeOK, trackers
<1>2. ASSUME NEW r \in Requests, Arrive(r) PROVE TypeOK'
  <2>1. ArrivalEnergy(r) \in Nat
    BY ArrivalEnergyType
  <2>2. Park(r) \/ AdmitAndRoute(r, ArrivalEnergy(r))
    BY <1>2 DEF Arrive
  <2>3. marginal' \in [Requests -> Nat]
    BY <1>2, <2>1 DEF Arrive, TypeOK
  <2>4. UNCHANGED <<samples, pollIn, polling, estimate>>
    BY <1>2 DEF Arrive, power
  <2>5. QED BY <2>1, <2>2, <2>3, <2>4, AdmitType, ParkType DEF TypeOK
<1>3. ASSUME NEW r \in Requests, Recheck(r) PROVE TypeOK'
  <2>1. marginal[r] \in Nat
    BY DEF TypeOK
  <2>2. Park(r) \/ AdmitAndRoute(r, marginal[r])
    BY <1>3 DEF Recheck
  <2>3. UNCHANGED <<marginal, samples, pollIn, polling, estimate>>
    BY <1>3 DEF Recheck, power
  <2>4. QED BY <2>1, <2>2, <2>3, AdmitType, ParkType DEF TypeOK
<1>4. ASSUME NEW r \in Requests, Prepared(r) PROVE TypeOK'
  BY <1>4 DEF Prepared, TypeOK, Stages, Routed, Open, trackers, ledger, power
<1>5. ASSUME NEW r \in Requests, PrepareRaises(r) PROVE TypeOK'
  BY <1>5 DEF PrepareRaises, TypeOK, Stages, Routed, Open, trackers, ledger, power
<1>6. ASSUME NEW r \in Requests, NEW b \in ResponseSizes, StreamEnds(r, b) PROVE TypeOK'
  <2>1. load' \in [Replicas -> Nat] /\ whales' \in [Replicas -> Nat]
    BY <1>6, CompleteType DEF StreamEnds, TypeOK, Routed, Open
  <2>2. estimate' \in Nat \cup {NoEstimate}
    BY <1>6, RecordCompletionType, RouterAssumption DEF StreamEnds, TypeOK
  <2>3. QED BY <1>6, <2>1, <2>2 DEF StreamEnds, TypeOK, Stages, Routed, Open, ledger, power
<1>7. ASSUME NEW r \in Requests, ReleaseHold(r) PROVE TypeOK'
  BY <1>7 DEF ReleaseHold, Release, TypeOK, handlers, trackers, power
<1>8. ASSUME NEW w \in PowerLevels, Poll(w) PROVE TypeOK'
  <2>1. PollInterval - pollIn \in Nat /\ w \in Nat
    BY <1>8, RouterAssumption DEF Poll, Due, TypeOK
  <2>2. samples' \subseteq Sample
    BY <1>8, <2>1, RecordType DEF Poll, TypeOK
  <2>3. QED BY <1>8, <2>2, RouterAssumption DEF Poll, TypeOK, handlers, trackers, ledger
<1>9. CASE PollRaises
  BY <1>9 DEF PollRaises, TypeOK, handlers, trackers, ledger
<1>10. CASE UNCHANGED vars
  BY <1>10 DEF TypeOK, vars, handlers, trackers, ledger, power
<1>11. QED
  BY <1>1, <1>2, <1>3, <1>4, <1>5, <1>6, <1>7, <1>8, <1>9, <1>10 DEF Next

(* Every variable keeps its type: no ledger, counter or timer ever leaves  *)
(* its range, whatever the constants.                                      *)
THEOREM TypeCorrect == Spec => []TypeOK
BY TypeInit, TypeStep, PTL DEF Spec
-----------------------------------------------------------------------------
(* The ledger.                                                             *)

(* A reservation stands for a request that passed the gate, so its energy  *)
(* no longer changes and it is not reserved a second time.                 *)
HeldAdmitted == \A r \in held : stage[r] \notin {"idle", "gated"}

LedgerInv ==
  /\ TypeOK
  /\ HeldAdmitted
  /\ IsFiniteSet(JouleUnits(held, marginal))
  /\ LedgerExact

LEMMA LedgerInit == Init => LedgerInv
<1> SUFFICES ASSUME Init PROVE LedgerInv
  OBVIOUS
<1>1. JouleUnits(held, marginal) = {}
  BY DEF Init, JouleUnits
<1>2. QED BY <1>1, TypeInit, FS_EmptySet DEF LedgerInv, HeldAdmitted, LedgerExact, Init

(* An admission, first try or later, adds its energy to the ledger.        *)
LEMMA LedgerAdmit ==
  ASSUME LedgerInv, NEW r \in Requests, NEW j \in Nat, stage[r] \in {"idle", "gated"},
         AdmitAndRoute(r, j), TypeOK', marginal' = [marginal EXCEPT ![r] = j]
  PROVE  LedgerInv'
<1>1. r \notin held
  BY DEF LedgerInv, HeldAdmitted
<1>2. JouleUnits(held, marginal) = JouleUnits(held, marginal')
  <2>1. \A q \in held : marginal[q] = marginal'[q]
    BY <1>1 DEF LedgerInv, TypeOK
  <2>2. QED BY <2>1, JoulesSame
<1>3. marginal' \in [Requests -> Nat] /\ marginal'[r] = j
  BY DEF LedgerInv, TypeOK
<1>4. /\ IsFiniteSet(JouleUnits(held \cup {r}, marginal'))
      /\ Cardinality(JouleUnits(held \cup {r}, marginal')) = reserved + j
  <2>1. /\ IsFiniteSet(JouleUnits(held, marginal'))
        /\ Cardinality(JouleUnits(held, marginal')) = reserved
    BY <1>2 DEF LedgerInv, LedgerExact
  <2>2. held \in SUBSET Requests
    BY DEF LedgerInv, TypeOK
  <2>3. QED BY <1>1, <1>3, <2>1, <2>2, JoulesAdd
<1>5. HeldAdmitted'
  BY DEF AdmitAndRoute, HoldReservation, HeldAdmitted, LedgerInv, TypeOK, ledger
<1>6. CASE GateEnabled
  BY <1>4, <1>5, <1>6
     DEF AdmitAndRoute, HoldReservation, Reserve, LedgerInv, LedgerExact
<1>7. CASE ~GateEnabled
  BY <1>2, <1>5, <1>7 DEF AdmitAndRoute, ledger, LedgerInv, LedgerExact
<1>8. QED BY <1>6, <1>7

LEMMA LedgerPark ==
  ASSUME LedgerInv, NEW r \in Requests, stage[r] \in {"idle", "gated"},
         Park(r), TypeOK', marginal' = [marginal EXCEPT ![r] = marginal'[r]]
  PROVE  LedgerInv'
<1>1. r \notin held
  BY DEF LedgerInv, HeldAdmitted
<1>2. JouleUnits(held, marginal) = JouleUnits(held, marginal')
  <2>1. \A q \in held : marginal[q] = marginal'[q]
    BY <1>1 DEF LedgerInv, TypeOK
  <2>2. QED BY <2>1, JoulesSame
<1>3. HeldAdmitted'
  BY <1>1 DEF Park, ledger, HeldAdmitted, LedgerInv, TypeOK
<1>4. QED BY <1>2, <1>3 DEF Park, ledger, LedgerInv, LedgerExact

(* What touches neither the ledger nor the energies, and un-admits no one. *)
LEMMA LedgerFrame ==
  ASSUME LedgerInv, TypeOK', UNCHANGED <<reserved, held, marginal>>, HeldAdmitted'
  PROVE  LedgerInv'
BY DEF LedgerInv, LedgerExact

LEMMA LedgerStep == LedgerInv /\ [Next]_vars => LedgerInv'
<1> SUFFICES ASSUME LedgerInv, [Next]_vars PROVE LedgerInv'
  OBVIOUS
<1>0. TypeOK /\ TypeOK'
  BY TypeStep DEF LedgerInv
<1>1. CASE Tick
  BY <1>0, <1>1, LedgerFrame DEF Tick, LedgerInv, HeldAdmitted
<1>2. ASSUME NEW r \in Requests, Arrive(r) PROVE LedgerInv'
  <2>1. ArrivalEnergy(r) \in Nat
    BY <1>0, ArrivalEnergyType
  <2>2. /\ stage[r] \in {"idle", "gated"}
        /\ marginal' = [marginal EXCEPT ![r] = ArrivalEnergy(r)]
        /\ marginal' = [marginal EXCEPT ![r] = marginal'[r]]
    BY <1>0, <1>2 DEF Arrive, TypeOK
  <2>3. Park(r) \/ AdmitAndRoute(r, ArrivalEnergy(r))
    BY <1>2 DEF Arrive
  <2>4. QED BY <1>0, <2>1, <2>2, <2>3, LedgerAdmit, LedgerPark
<1>3. ASSUME NEW r \in Requests, Recheck(r) PROVE LedgerInv'
  <2>1. /\ stage[r] \in {"idle", "gated"} /\ marginal[r] \in Nat
        /\ marginal' = [marginal EXCEPT ![r] = marginal[r]]
        /\ marginal' = [marginal EXCEPT ![r] = marginal'[r]]
    BY <1>0, <1>3 DEF Recheck, Gated, TypeOK
  <2>2. Park(r) \/ AdmitAndRoute(r, marginal[r])
    BY <1>3 DEF Recheck
  <2>3. QED BY <1>0, <2>1, <2>2, LedgerAdmit, LedgerPark
<1>4. ASSUME NEW r \in Requests, Prepared(r) PROVE LedgerInv'
  BY <1>0, <1>4, LedgerFrame DEF Prepared, ledger, LedgerInv, HeldAdmitted, TypeOK
<1>5. ASSUME NEW r \in Requests, PrepareRaises(r) PROVE LedgerInv'
  BY <1>0, <1>5, LedgerFrame DEF PrepareRaises, ledger, LedgerInv, HeldAdmitted, TypeOK
<1>6. ASSUME NEW r \in Requests, NEW b \in ResponseSizes, StreamEnds(r, b) PROVE LedgerInv'
  BY <1>0, <1>6, LedgerFrame DEF StreamEnds, ledger, LedgerInv, HeldAdmitted, TypeOK
<1>7. ASSUME NEW r \in Requests, ReleaseHold(r) PROVE LedgerInv'
  <2>1. /\ IsFiniteSet(JouleUnits(held \ {r}, marginal))
        /\ Cardinality(JouleUnits(held \ {r}, marginal)) \in Nat
        /\ reserved = Cardinality(JouleUnits(held \ {r}, marginal)) + marginal[r]
    BY <1>0, <1>7, JoulesRemove DEF ReleaseHold, LedgerInv, LedgerExact, TypeOK
  <2>2. reserved' = Cardinality(JouleUnits(held \ {r}, marginal))
    BY <1>0, <1>7, <2>1 DEF ReleaseHold, Release, TypeOK
  <2>3. HeldAdmitted'
    BY <1>7 DEF ReleaseHold, handlers, LedgerInv, HeldAdmitted
  <2>4. QED BY <1>0, <1>7, <2>1, <2>2, <2>3
            DEF ReleaseHold, handlers, LedgerInv, LedgerExact
<1>8. ASSUME NEW w \in PowerLevels, Poll(w) PROVE LedgerInv'
  BY <1>0, <1>8, LedgerFrame DEF Poll, ledger, handlers, LedgerInv, HeldAdmitted
<1>9. CASE PollRaises
  BY <1>0, <1>9, LedgerFrame DEF PollRaises, ledger, handlers, LedgerInv, HeldAdmitted
<1>10. CASE UNCHANGED vars
  BY <1>0, <1>10, LedgerFrame DEF vars, ledger, handlers, LedgerInv, HeldAdmitted
<1>11. QED
  BY <1>1, <1>2, <1>3, <1>4, <1>5, <1>6, <1>7, <1>8, <1>9, <1>10 DEF Next

(* The ledger always holds exactly the energy of the reservations whose    *)
(* release is still to come, for any requests, energies and timings.       *)
THEOREM LedgerCorrect == Spec => []LedgerExact
<1>1. LedgerInv => LedgerExact
  BY DEF LedgerInv
<1>2. QED BY <1>1, LedgerInit, LedgerStep, PTL DEF Spec

-----------------------------------------------------------------------------
(* The hold and the poller.                                                *)

(* While the poller lives its deadline comes before that of every release  *)
(* whose reservation has not been sampled.                                 *)
PollFirst ==
  polling => /\ pollIn <= PollInterval
             /\ \A r \in unsampled : pollIn < holdIn[r]

LEMMA PollFirstAdmit ==
  ASSUME TypeOK, PollFirst, NEW r \in Requests, NEW j, AdmitAndRoute(r, j), UNCHANGED power
  PROVE  PollFirst'
BY HoldAssumption, RouterAssumption
   DEF PollFirst, AdmitAndRoute, HoldReservation, TypeOK, power, ledger

LEMMA PollFirstStep == TypeOK /\ PollFirst /\ [Next]_vars => PollFirst'
<1> SUFFICES ASSUME TypeOK, PollFirst, [Next]_vars PROVE PollFirst'
  OBVIOUS
<1>1. CASE Tick
  BY <1>1, RouterAssumption DEF Tick, TypeOK, PollFirst
<1>2. ASSUME NEW r \in Requests, Arrive(r) PROVE PollFirst'
  BY <1>2, PollFirstAdmit DEF Arrive, Park, PollFirst, power, ledger
<1>3. ASSUME NEW r \in Requests, Recheck(r) PROVE PollFirst'
  BY <1>3, PollFirstAdmit DEF Recheck, Park, PollFirst, power, ledger
<1>4. ASSUME NEW r \in Requests, Prepared(r) \/ PrepareRaises(r) PROVE PollFirst'
  BY <1>4 DEF Prepared, PrepareRaises, PollFirst, power, ledger
<1>5. ASSUME NEW r \in Requests, NEW b \in ResponseSizes, StreamEnds(r, b) PROVE PollFirst'
  BY <1>5 DEF StreamEnds, PollFirst, power, ledger
<1>6. ASSUME NEW r \in Requests, ReleaseHold(r) PROVE PollFirst'
  BY <1>6 DEF ReleaseHold, TypeOK, PollFirst, power
<1>7. ASSUME NEW w \in PowerLevels, Poll(w) PROVE PollFirst'
  BY <1>7, RouterAssumption DEF Poll, PollFirst
<1>8. CASE PollRaises
  BY <1>8 DEF PollRaises, PollFirst
<1>9. CASE UNCHANGED vars
  BY <1>9 DEF vars, PollFirst, power, ledger
<1>10. QED
  BY <1>1, <1>2, <1>3, <1>4, <1>5, <1>6, <1>7, <1>8, <1>9 DEF Next

LEMMA PollFirstInv == Spec => []PollFirst
<1>1. Init => PollFirst
  BY RouterAssumption DEF Init, PollFirst
<1>2. QED BY <1>1, PollFirstStep, TypeCorrect, PTL DEF Spec

(* The step that ends a reservation is its release, run in deadline order. *)
LEMMA OnlyReleaseEnds ==
  ASSUME TypeOK, PollFirst, [Next]_vars, NEW r \in Requests, r \in held \ held', polling
  PROVE  r \notin unsampled
<1>1. ReleaseHold(r)
  BY DEF Next, vars, Tick, Arrive, Recheck, Park, AdmitAndRoute, HoldReservation, Prepared,
         PrepareRaises, StreamEnds, ReleaseHold, Poll, PollRaises, ledger
<1>2. pollIn \in Deadlines /\ holdIn[r] <= pollIn
  BY <1>1 DEF ReleaseHold, Due, Deadlines
<1>3. QED BY <1>2 DEF PollFirst, TypeOK

(* While the poller lives no reservation ends before a sample was taken    *)
(* after it, as long as it is held for longer than a polling interval.     *)
THEOREM SampledBeforeRelease == Spec => ReleasedAfterSample
<1>1. TypeOK /\ PollFirst /\ [Next]_vars =>
        [\A r \in Requests : r \in held \ held' /\ polling => r \notin unsampled]_vars
  BY OnlyReleaseEnds
<1>2. QED BY <1>1, TypeCorrect, PollFirstInv, PTL DEF Spec, ReleasedAfterSample

-----------------------------------------------------------------------------
(* The trackers.                                                           *)

LEMMA TrackersInit == Init => TrackersExact
<1> SUFFICES ASSUME Init, NEW i \in Replicas
             PROVE  /\ load[i] = Cardinality(Charged(i))
                    /\ whales[i] = Cardinality({r \in Charged(i) : IsWhale(r)})
  BY DEF TrackersExact
<1>1. Charged(i) = {} /\ {r \in Charged(i) : IsWhale(r)} = {}
  BY RouterAssumption DEF Charged, Init
<1>2. QED BY <1>1, FS_EmptySet DEF Init

(* A step that changes neither counters, replicas nor who is routed.       *)
LEMMA TrackersFrame ==
  ASSUME TrackersExact, UNCHANGED <<load, whales>>,
         \A i \in Replicas : Charged(i)' = Charged(i)
  PROVE  TrackersExact'
BY DEF TrackersExact, IsWhale

LEMMA ChargedFinite ==
  ASSUME NEW i
  PROVE  /\ IsFiniteSet(Charged(i))
         /\ IsFiniteSet({r \in Charged(i) : IsWhale(r)})
<1>1. Charged(i) \subseteq Requests /\ {r \in Charged(i) : IsWhale(r)} \subseteq Requests
  BY DEF Charged
<1>2. QED BY <1>1, FS_Subset, RouterAssumption

(* The dispatch counts the request at the replica that is then charged.    *)
LEMMA TrackersAdmit ==
  ASSUME TypeOK, TrackersExact, NEW r \in Requests, NEW j,
         stage[r] \in {"idle", "gated"}, AdmitAndRoute(r, j)
  PROVE  TrackersExact'
<1>1. PICK k \in Replicas : replica' = [replica EXCEPT ![r] = k] /\ OnDispatch(r, k)
  BY DEF AdmitAndRoute
<1>2. stage' = [stage EXCEPT ![r] = "preparing"]
  BY DEF AdmitAndRoute
<1>3. \A i \in Replicas : r \notin Charged(i)
  BY DEF Charged, Routed, Open
<1> SUFFICES ASSUME NEW i \in Replicas
             PROVE  /\ load'[i] = Cardinality(Charged(i)')
                    /\ whales'[i] = Cardinality({q \in Charged(i)' : IsWhale(q)})
  BY DEF TrackersExact, IsWhale
<1> DEFINE W == {q \in Charged(i) : IsWhale(q)}
<1>4. load[i] = Cardinality(Charged(i)) /\ whales[i] = Cardinality(W)
  BY DEF TrackersExact
<1>5. CASE i = k
  <2>1. Charged(i)' = Charged(i) \cup {r}
    BY <1>1, <1>2, <1>5 DEF Charged, TypeOK, Routed, Open
  <2>2. Cardinality(Charged(i)') = Cardinality(Charged(i)) + 1
    BY <2>1, <1>3, ChargedFinite, FS_AddElement
  <2>3. CASE IsWhale(r)
    <3>1. {q \in Charged(i)' : IsWhale(q)} = W \cup {r}
      BY <2>1, <2>3
    <3>2. Cardinality(W \cup {r}) = Cardinality(W) + 1
      BY <1>3, ChargedFinite, FS_AddElement
    <3>3. QED BY <1>1, <1>4, <1>5, <2>2, <2>3, <3>1, <3>2 DEF OnDispatch, TypeOK
  <2>4. CASE ~IsWhale(r)
    <3>1. {q \in Charged(i)' : IsWhale(q)} = W
      BY <2>1, <2>4
    <3>2. QED BY <1>1, <1>4, <1>5, <2>2, <2>4, <3>1 DEF OnDispatch, TypeOK
  <2>5. QED BY <2>3, <2>4
<1>6. CASE i # k
  <2>1. Charged(i)' = Charged(i)
    BY <1>1, <1>2, <1>3, <1>6 DEF Charged, TypeOK, Routed, Open
  <2>2. load'[i] = load[i] /\ whales'[i] = whales[i]
    BY <1>1, <1>6 DEF OnDispatch, TypeOK
  <2>3. QED BY <1>4, <2>1, <2>2
<1>7. QED BY <1>5, <1>6

(* The completion takes the request from the replica that was charged, and *)
(* the floor of the counters is never reached.                             *)
LEMMA TrackersComplete ==
  ASSUME TypeOK, TrackersExact, NEW r \in Requests, NEW b, StreamEnds(r, b)
  PROVE  TrackersExact'
<1> DEFINE k == replica[r]
<1>1. /\ stage[r] = "streaming" /\ stage' = [stage EXCEPT ![r] = "done"]
      /\ replica' = [replica EXCEPT ![r] = NoReplica]
      /\ OnComplete(r, k)
  BY DEF StreamEnds
<1>2. k \in Replicas /\ r \in Charged(k)
  BY <1>1 DEF TypeOK, Charged, Routed, Open
<1> SUFFICES ASSUME NEW i \in Replicas
             PROVE  /\ load'[i] = Cardinality(Charged(i)')
                    /\ whales'[i] = Cardinality({q \in Charged(i)' : IsWhale(q)})
  BY DEF TrackersExact, IsWhale
<1> DEFINE W == {q \in Charged(i) : IsWhale(q)}
<1>3. load[i] = Cardinality(Charged(i)) /\ whales[i] = Cardinality(W)
  BY DEF TrackersExact
<1>4. CASE i = k
  <2>1. Charged(i)' = Charged(i) \ {r}
    BY <1>1, <1>4 DEF Charged, TypeOK, Routed, Open
  <2>2. r \in Charged(i)
    BY <1>2, <1>4
  <2>3. Cardinality(Charged(i)') = Cardinality(Charged(i)) - 1
    BY <2>1, <2>2, ChargedFinite, FS_RemoveElement
  <2>4. Cardinality(Charged(i) \ {r}) \in Nat
    BY ChargedFinite, FS_RemoveElement, FS_CardinalityType
  <2>5. load'[i] = load[i] - 1
    BY <1>1, <1>3, <1>4, <2>1, <2>3, <2>4 DEF OnComplete, TypeOK
  <2>6. CASE IsWhale(r)
    <3>1. {q \in Charged(i)' : IsWhale(q)} = W \ {r} /\ r \in W
      BY <2>1, <2>2, <2>6
    <3>2. Cardinality(W \ {r}) = Cardinality(W) - 1
      BY <3>1, ChargedFinite, FS_RemoveElement
    <3>3. Cardinality(W \ {r}) \in Nat
      BY ChargedFinite, FS_RemoveElement, FS_CardinalityType
    <3>4. whales'[i] = whales[i] - 1
      BY <1>1, <1>3, <1>4, <2>6, <3>2, <3>3 DEF OnComplete, TypeOK
    <3>5. QED BY <1>3, <2>3, <2>5, <3>1, <3>2, <3>4
  <2>7. CASE ~IsWhale(r)
    <3>1. {q \in Charged(i)' : IsWhale(q)} = W
      BY <2>1, <2>7
    <3>2. whales'[i] = whales[i]
      BY <1>1, <2>7 DEF OnComplete
    <3>3. QED BY <1>3, <2>3, <2>5, <3>1, <3>2
  <2>8. QED BY <2>6, <2>7
<1>5. CASE i # k
  <2>1. Charged(i)' = Charged(i)
    BY <1>1, <1>5 DEF Charged, TypeOK, Routed, Open
  <2>2. load'[i] = load[i] /\ whales'[i] = whales[i]
    BY <1>1, <1>5 DEF OnComplete, TypeOK
  <2>3. QED BY <1>3, <2>1, <2>2
<1>6. QED BY <1>4, <1>5

LEMMA TrackersPark ==
  ASSUME TypeOK, TrackersExact, NEW r \in Requests, stage[r] \in {"idle", "gated"}, Park(r)
  PROVE  TrackersExact'
<1>1. \A i \in Replicas : Charged(i)' = Charged(i)
  BY DEF Park, Charged, TypeOK, Routed, Open
<1>2. QED BY <1>1, TrackersFrame DEF Park, trackers

LEMMA TrackersStep == TypeOK /\ TrackersExact /\ [Next]_vars => TrackersExact'
<1> SUFFICES ASSUME TypeOK, TrackersExact, [Next]_vars PROVE TrackersExact'
  OBVIOUS
<1>1. ASSUME UNCHANGED <<stage, replica, trackers>> PROVE TrackersExact'
  BY <1>1, TrackersFrame DEF Charged, trackers
<1>2. ASSUME NEW r \in Requests, Arrive(r) PROVE TrackersExact'
  BY <1>2, TrackersAdmit, TrackersPark DEF Arrive
<1>3. ASSUME NEW r \in Requests, Recheck(r) PROVE TrackersExact'
  BY <1>3, TrackersAdmit, TrackersPark DEF Recheck, Gated
<1>4. ASSUME NEW r \in Requests, Prepared(r) \/ PrepareRaises(r) PROVE TrackersExact'
  <2>1. \A i \in Replicas : Charged(i)' = Charged(i)
    BY <1>4 DEF Prepared, PrepareRaises, Charged, TypeOK, Routed, Open
  <2>2. QED BY <1>4, <2>1, TrackersFrame DEF Prepared, PrepareRaises, trackers
<1>5. ASSUME NEW r \in Requests, NEW b \in ResponseSizes, StreamEnds(r, b)
      PROVE  TrackersExact'
  BY <1>5, TrackersComplete
<1>6. ASSUME NEW r \in Requests, ReleaseHold(r) PROVE TrackersExact'
  BY <1>1, <1>6 DEF ReleaseHold, handlers
<1>7. ASSUME NEW w \in PowerLevels, Poll(w) PROVE TrackersExact'
  BY <1>1, <1>7 DEF Poll, handlers
<1>8. CASE Tick \/ PollRaises \/ UNCHANGED vars
  BY <1>1, <1>8 DEF Tick, PollRaises, vars, handlers
<1>9. QED BY <1>2, <1>3, <1>4, <1>5, <1>6, <1>7, <1>8 DEF Next

(* Whatever the interleaving, a replica's counters are the requests        *)
(* dispatched to it and not completed: none is undercounted, and the       *)
(* surplus is exactly the aborted ones.                                    *)
THEOREM TrackersCorrect == Spec => []TrackersExact
BY TrackersInit, TrackersStep, TypeCorrect, PTL DEF Spec

-----------------------------------------------------------------------------
(* With the gate enabled, the router implements what the gate promises:    *)
(* every step of RouterProxy is a step of AdmissionPromise or leaves its   *)
(* variables alone.                                                        *)

phaseMap == [r \in Requests |-> Phase(r)]

LEMMA PhaseOf ==
  ASSUME NEW r \in Requests
  PROVE  phaseMap[r] = Phase(r)
BY DEF phaseMap

(* The handler of one request moves on, and only that request's phase may  *)
(* change with it.                                                         *)
LEMMA PhaseStep ==
  ASSUME TypeOK, NEW r \in Requests, NEW s \in Stages \ {"idle"},
         stage' = [stage EXCEPT ![r] = s]
  PROVE  /\ s = "gated" => phaseMap' = [phaseMap EXCEPT ![r] = "waiting"]
         /\ s # "gated" => phaseMap' = [phaseMap EXCEPT ![r] = "admitted"]
BY DEF phaseMap, Phase, TypeOK, Stages

LEMMA SamePhases ==
  ASSUME UNCHANGED stage
  PROVE  UNCHANGED phaseMap
BY DEF phaseMap, Phase

LEMMA InitRefines == Init => Promise!Init
BY DEF Init, Promise!Init, Phase

(* Once a request is let through with a ledger that is exact, the cap      *)
(* holds with the energy of every covered request and its own counted.     *)
LEMMA AdmitWithinCap ==
  ASSUME GateEnabled, LedgerInv, NEW r \in Requests, NEW j \in Nat,
         stage[r] \in {"idle", "gated"}, ~Blocked(j), AdmitAndRoute(r, j), LedgerInv',
         marginal' = [marginal EXCEPT ![r] = j]
  PROVE  ~OverCap(samples, [q \in held' |-> marginal'[q]])
<1>1. /\ reserved \in Nat /\ reserved' = reserved + j
      /\ reserved' = Cardinality(JouleUnits(held', marginal'))
  BY DEF AdmitAndRoute, HoldReservation, Reserve, LedgerInv, LedgerExact, TypeOK
<1>2. ~WouldExceed(samples, reserved, PeakCap, j)
  BY DEF Blocked
<1>3. ~WouldExceed(samples, reserved', PeakCap, 0)
  <2>1. reserved' + 0 = reserved + j
    BY <1>1
  <2>2. QED BY <1>2, <2>1 DEF WouldExceed
<1>4. JouleUnits(held', marginal') = JouleUnits(held', [q \in held' |-> marginal'[q]])
  BY JoulesSame
<1>5. QED BY <1>1, <1>3, <1>4 DEF OverCap

LEMMA AdmitRefines ==
  ASSUME GateEnabled, LedgerInv, LedgerInv', NEW r \in Requests, NEW j \in Nat,
         stage[r] \in {"idle", "gated"}, stage[r] = "gated" => j = marginal[r],
         ~Blocked(j), AdmitAndRoute(r, j), UNCHANGED power,
         marginal' = [marginal EXCEPT ![r] = j]
  PROVE  Promise!Admit(r)
<1>1. ~OverCap(samples, [q \in held' |-> marginal'[q]])
  BY AdmitWithinCap
<1>2. phaseMap' = [phaseMap EXCEPT ![r] = "admitted"]
  <2>1. TypeOK
    BY DEF LedgerInv
  <2>2. "preparing" \in Stages \ {"idle"} /\ "preparing" # "gated"
    BY DEF Stages
  <2>3. stage' = [stage EXCEPT ![r] = "preparing"]
    BY DEF AdmitAndRoute
  <2>4. QED BY <2>1, <2>2, <2>3, PhaseStep
<1>3. phaseMap[r] \in {"outside", "waiting"} /\ (phaseMap[r] = "waiting" => stage[r] = "gated")
  BY PhaseOf DEF Phase
<1>4. marginal'[r] = j /\ marginal' = [marginal EXCEPT ![r] = marginal'[r]]
  BY DEF LedgerInv, TypeOK
<1>5. held' = held \cup {r} /\ unsampled' = unsampled \cup {r}
  BY DEF AdmitAndRoute, HoldReservation
<1>6. UNCHANGED <<samples, polling>>
  BY DEF power
<1>7. QED BY <1>1, <1>2, <1>3, <1>4, <1>5, <1>6 DEF Promise!Admit, Promise!States, phaseMap

LEMMA WaitRefines ==
  ASSUME TypeOK, NEW r \in Requests, NEW j \in Nat, stage[r] = "idle",
         Park(r), UNCHANGED power, marginal' = [marginal EXCEPT ![r] = j]
  PROVE  Promise!Wait(r)
<1>1. phaseMap' = [phaseMap EXCEPT ![r] = "waiting"]
  BY PhaseStep DEF Park, Stages
<1>2. phaseMap[r] = "outside"
  BY PhaseOf DEF Phase
<1>3. marginal'[r] = j /\ marginal' = [marginal EXCEPT ![r] = marginal'[r]]
  BY DEF TypeOK
<1>4. UNCHANGED <<samples, held, unsampled, polling>>
  BY DEF Park, power, ledger
<1>5. QED BY <1>1, <1>2, <1>3, <1>4 DEF Promise!Wait, Promise!States, phaseMap

(* A parked request that is parked again has not moved.                    *)
LEMMA ParkAgain ==
  ASSUME TypeOK, NEW r \in Requests, stage[r] = "gated", Park(r), UNCHANGED <<marginal, power>>
  PROVE  UNCHANGED Promise!vars
<1>1. UNCHANGED stage
  BY DEF Park, TypeOK
<1>2. QED BY <1>1, SamePhases DEF Park, power, ledger, Promise!vars, phaseMap

LEMMA ReleaseRefines ==
  ASSUME TypeOK, PollFirst, NEW r \in Requests, ReleaseHold(r)
  PROVE  Promise!Expire(r)
<1>1. polling => r \notin unsampled
  <2>1. polling => pollIn \in Deadlines /\ holdIn[r] <= pollIn
    BY DEF ReleaseHold, Due, Deadlines
  <2>2. QED BY <2>1 DEF PollFirst, TypeOK
<1>2. UNCHANGED <<phaseMap, marginal, samples, polling>>
  BY SamePhases DEF ReleaseHold, handlers, power
<1>3. QED BY <1>1, <1>2 DEF ReleaseHold, Promise!Expire, phaseMap

LEMMA PollRefines ==
  ASSUME GateEnabled, TypeOK, NEW w \in PowerLevels, Poll(w)
  PROVE  \E h \in 1..(Window + 1) : Promise!TakeSample(h, w)
<1>1. PollInterval - pollIn \in Nat \ {0}
  BY RouterAssumption DEF Poll, Due, TypeOK
<1>2. PICK h \in 1..(Window + 1) : Record(samples, PollInterval - pollIn, w) = Record(samples, h, w)
  BY <1>1, RecordGap DEF TypeOK
<1>3. samples' = Record(samples, h, w)
  BY <1>2 DEF Poll
<1>4. UNCHANGED <<phaseMap, marginal, held, polling>>
  BY SamePhases DEF Poll, handlers, ledger
<1>5. Promise!TakeSample(h, w)
  BY <1>3, <1>4 DEF Poll, Promise!TakeSample, phaseMap, TypeOK
<1>6. QED BY <1>5

LEMMA StepRefines ==
  ASSUME GateEnabled, LedgerInv, PollFirst, [Next]_vars
  PROVE  [Promise!Next]_(Promise!vars)
<1>1. TypeOK /\ LedgerInv'
  BY LedgerStep DEF LedgerInv
<1>2. CASE Tick
  BY <1>2, SamePhases DEF Tick, Promise!vars, phaseMap
<1>3. ASSUME NEW r \in Requests, Arrive(r) PROVE Promise!Next
  <2>1. ArrivalEnergy(r) \in Nat
    BY <1>1, ArrivalEnergyType
  <2>2. /\ stage[r] = "idle" /\ UNCHANGED power
        /\ marginal' = [marginal EXCEPT ![r] = ArrivalEnergy(r)]
    BY <1>3 DEF Arrive
  <2>3. CASE Park(r)
    BY <1>1, <2>1, <2>2, <2>3, WaitRefines DEF Promise!Next
  <2>4. CASE ~Blocked(ArrivalEnergy(r)) /\ AdmitAndRoute(r, ArrivalEnergy(r))
    BY <1>1, <2>1, <2>2, <2>4, AdmitRefines DEF Promise!Next
  <2>5. QED BY <1>3, <2>3, <2>4 DEF Arrive
<1>4. ASSUME NEW r \in Requests, Recheck(r) PROVE Promise!Next \/ UNCHANGED Promise!vars
  <2>1. /\ stage[r] = "gated" /\ marginal[r] \in Nat /\ UNCHANGED <<marginal, power>>
        /\ marginal' = [marginal EXCEPT ![r] = marginal[r]]
    BY <1>1, <1>4 DEF Recheck, Gated, TypeOK
  <2>2. CASE Park(r)
    BY <1>1, <2>1, <2>2, ParkAgain
  <2>3. CASE ~Blocked(marginal[r]) /\ AdmitAndRoute(r, marginal[r])
    BY <1>1, <2>1, <2>3, AdmitRefines DEF Promise!Next
  <2>4. QED BY <1>4, <2>2, <2>3 DEF Recheck
<1>5. ASSUME NEW r \in Requests, NEW s \in {"streaming", "aborted", "done"},
             stage[r] \in {"preparing", "streaming"}, stage' = [stage EXCEPT ![r] = s],
             UNCHANGED <<marginal, ledger, power, unsampled>>
      PROVE  UNCHANGED Promise!vars
  <2>1. phaseMap' = [phaseMap EXCEPT ![r] = "admitted"]
    BY <1>1, <1>5, PhaseStep DEF Stages
  <2>2. phaseMap[r] = "admitted"
    BY <1>5, PhaseOf DEF Phase
  <2>3. UNCHANGED phaseMap
    BY <2>1, <2>2 DEF phaseMap
  <2>4. QED BY <1>5, <2>3 DEF ledger, power, Promise!vars, phaseMap
<1>6. ASSUME NEW r \in Requests, Prepared(r) \/ PrepareRaises(r) PROVE UNCHANGED Promise!vars
  BY <1>5, <1>6 DEF Prepared, PrepareRaises
<1>7. ASSUME NEW r \in Requests, NEW b \in ResponseSizes, StreamEnds(r, b)
      PROVE  UNCHANGED Promise!vars
  BY <1>5, <1>7 DEF StreamEnds
<1>8. ASSUME NEW r \in Requests, ReleaseHold(r) PROVE Promise!Next
  BY <1>1, <1>8, ReleaseRefines DEF Promise!Next
<1>9. ASSUME NEW w \in PowerLevels, Poll(w) PROVE Promise!Next
  BY <1>1, <1>9, PollRefines DEF Promise!Next
<1>10. CASE PollRaises
  BY <1>10, SamePhases DEF PollRaises, handlers, ledger, Promise!Next, Promise!StopSampling, phaseMap
<1>11. CASE UNCHANGED vars
  BY <1>11, SamePhases DEF vars, handlers, ledger, power, Promise!vars, phaseMap
<1>12. QED
  BY <1>2, <1>3, <1>4, <1>6, <1>7, <1>8, <1>9, <1>10, <1>11 DEF Next

(* The router keeps the gate's promise, for any requests, replicas, powers *)
(* and timings: the integer ledger with its floor, the parked coroutines   *)
(* and the timers do what the abstract gate does with sets.                *)
THEOREM GateKeepsPromise ==
  ASSUME GateEnabled
  PROVE  Spec => ImplementsPromise
<1>1. LedgerInv /\ PollFirst /\ [Next]_vars => [Promise!Next]_(Promise!vars)
  BY StepRefines
<1>2. Spec => []LedgerInv
  BY LedgerInit, LedgerStep, PTL DEF Spec
<1>3. QED BY <1>1, <1>2, InitRefines, PollFirstInv, PTL DEF Spec, ImplementsPromise, Promise!Spec
=============================================================================
