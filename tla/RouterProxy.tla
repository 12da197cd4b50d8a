----------------------------- MODULE RouterProxy -----------------------------
(***************************************************************************)
(* The router process (scripts/eenergy/router/proxy_server.py): one        *)
(* asyncio event loop that runs a handle_completions coroutine for every   *)
(* request, the power_poll_loop task, and one delayed-release task for     *)
(* every reservation.  Code between two awaits is one action, because      *)
(* nothing else runs in between; every await is where an action ends.      *)
(*                                                                         *)
(* Time is counted in ticks.  A sleeping task has the ticks left until its *)
(* deadline, which goes below zero when the loop is late to run it (a slow *)
(* NVML read blocks the loop).  asyncio wakes sleepers in the order of     *)
(* their deadlines: a task runs only when no other deadline is earlier.    *)
(*                                                                         *)
(* Which replica a request is routed to is left open here: the policies    *)
(* differ in the choice and in nothing else that this module keeps.        *)
(***************************************************************************)
EXTENDS PowerBudget

CONSTANTS
  Requests,        \* the requests clients send, each handled once
  Replicas,        \* the vLLM replicas behind the router
  NoReplica,       \* "not routed yet"
  GateEnabled,     \* peak_cap_w is not None
  PeakCap,         \* peak_cap_w
  PollInterval,    \* power_interval_s, in ticks
  RecheckInterval, \* peak_recheck_interval_s
  HoldTime,        \* reservation_hold_s
  JPrefill,        \* j_per_prefill_token
  JDecode,         \* j_per_decode_token
  BytesPerToken,   \* bytes_per_token
  WhaleThreshold,  \* whale_token_threshold
  Prompt,          \* the number of prompt tokens of each request
  MaxTokens,       \* the max_tokens of each request
  PowerLevels,     \* the fleet power readings considered
  ResponseSizes,   \* the response byte counts considered
  MaxLate,         \* bound: how many ticks the loop may run a sleeper late
  NvmlMayFail      \* whether a power read may raise

ASSUME RouterAssumption ==
  /\ IsFiniteSet(Requests)
  /\ NoReplica \notin Replicas
  /\ {GateEnabled, NvmlMayFail} \subseteq BOOLEAN
  /\ {PeakCap, JPrefill, JDecode, WhaleThreshold, MaxLate} \subseteq Nat
  /\ {PollInterval, RecheckInterval, BytesPerToken} \subseteq Nat \ {0}
  /\ Prompt \in [Requests -> Nat] /\ MaxTokens \in [Requests -> Nat]
  /\ PowerLevels \subseteq Nat /\ ResponseSizes \subseteq Nat

(* make_app's comment on reservation_hold_s: the hold is twice the polling *)
(* interval, so that a sample is taken before the reservation goes.        *)
ASSUME HoldAssumption == HoldTime \in Nat /\ HoldTime > PollInterval

VARIABLES
  stage,      \* where the coroutine of each request is
  marginal,   \* marginal_j of each request, computed once on arrival
  replica,    \* the replica the request was routed to, while it is charged for it
  load,       \* LoadTracker._counts
  whales,     \* WhaleTracker._counts
  samples,    \* PowerBudget._samples
  reserved,   \* PowerBudget._reserved_j
  estimate,   \* DecodeByteEstimator._estimate_bytes
  held,       \* the requests whose delayed-release task is sleeping
  holdIn,     \* ticks until that task's deadline, 0 without a task
  wakeIn,     \* ticks until a gated request looks at the budget again, else 0
  pollIn,     \* ticks until the next power sample
  polling,    \* the power_poll_loop task is alive
  unsampled   \* history: reservations made since the last power sample

handlers == <<stage, marginal, replica, wakeIn>>
trackers == <<load, whales>>
ledger   == <<reserved, held, holdIn>>
power    == <<samples, pollIn, polling>>
vars     == <<handlers, trackers, ledger, power, estimate, unsampled>>

Stages == {"idle", "gated", "preparing", "streaming", "done", "aborted"}

(* A request that was dispatched and whose handler is still running, and   *)
(* one that was dispatched and is charged to its replica.                  *)
Open == {"preparing", "streaming"}
Routed == Open \cup {"aborted"}

IsWhale(r) == Prompt[r] > WhaleThreshold

TypeOK ==
  /\ stage \in [Requests -> Stages]
  /\ marginal \in [Requests -> Nat]
  /\ replica \in [Requests -> Replicas \cup {NoReplica}]
  /\ \A r \in Requests : stage[r] \in Routed => replica[r] \in Replicas
  /\ load \in [Replicas -> Nat] /\ whales \in [Replicas -> Nat]
  /\ samples \subseteq Sample
  /\ reserved \in Nat
  /\ estimate \in Nat \cup {NoEstimate}
  /\ held \subseteq Requests /\ unsampled \subseteq held
  /\ holdIn \in [Requests -> Int] /\ wakeIn \in [Requests -> Int]
  /\ pollIn \in Int
  /\ polling \in BOOLEAN

Init ==
  /\ stage = [r \in Requests |-> "idle"]
  /\ marginal = [r \in Requests |-> 0]
  /\ replica = [r \in Requests |-> NoReplica]
  /\ load = [i \in Replicas |-> 0]
  /\ whales = [i \in Replicas |-> 0]
  /\ samples = {}
  /\ reserved = 0
  /\ estimate = NoEstimate
  /\ held = {} /\ unsampled = {}
  /\ holdIn = [r \in Requests |-> 0]
  /\ wakeIn = [r \in Requests |-> 0]
  /\ pollIn = 0
  /\ polling = TRUE

-----------------------------------------------------------------------------
(* The event loop's clock.                                                 *)

Gated == {r \in Requests : stage[r] = "gated"}

Deadlines ==
  {holdIn[r] : r \in held} \cup {wakeIn[r] : r \in Gated}
    \cup (IF polling THEN {pollIn} ELSE {})

(* A sleeper with t ticks left is the next one the loop wakes.             *)
Due(t) == t <= 0 /\ \A u \in Deadlines : t <= u

Tick ==
  /\ Deadlines # {}
  /\ \A u \in Deadlines : u > -MaxLate
  /\ holdIn' = [r \in Requests |-> IF r \in held THEN holdIn[r] - 1 ELSE holdIn[r]]
  /\ wakeIn' = [r \in Requests |-> IF r \in Gated THEN wakeIn[r] - 1 ELSE wakeIn[r]]
  /\ pollIn' = IF polling THEN pollIn - 1 ELSE pollIn
  /\ UNCHANGED <<stage, marginal, replica, trackers, reserved, held, samples, polling,
                 estimate, unsampled>>

-----------------------------------------------------------------------------
(* handle_completions.                                                     *)

(* LoadTracker and WhaleTracker: on_dispatch and on_complete.              *)
OnDispatch(r, i) ==
  /\ load' = [load EXCEPT ![i] = @ + 1]
  /\ whales' = IF IsWhale(r) THEN [whales EXCEPT ![i] = @ + 1] ELSE whales

(* Mutant: a whale's completion is not counted as one.                     *)
OnCompleteAnyRequest(r, i) ==
  /\ load' = [load EXCEPT ![i] = IF @ > 0 THEN @ - 1 ELSE 0]
  /\ whales' = whales

OnComplete(r, i) ==
  /\ load' = [load EXCEPT ![i] = IF @ > 0 THEN @ - 1 ELSE 0]
  /\ whales' = IF IsWhale(r)
                 THEN [whales EXCEPT ![i] = IF @ > 0 THEN @ - 1 ELSE 0]
                 ELSE whales

(* Mutant: the test looks at the measured power alone.                     *)
BlockedByPowerAlone(j) == GateEnabled /\ WouldExceed(samples, 0, PeakCap, j)

Blocked(j) == GateEnabled /\ WouldExceed(samples, reserved, PeakCap, j)

(* Mutant: the reservation is held for one polling interval only.          *)
HoldForOnePoll(r, j) ==
  /\ reserved' = Reserve(reserved, j)
  /\ held' = held \cup {r}
  /\ holdIn' = [holdIn EXCEPT ![r] = PollInterval]
  /\ unsampled' = unsampled \cup {r}

(* budget.reserve and the start of its delayed-release task.               *)
HoldReservation(r, j) ==
  /\ reserved' = Reserve(reserved, j)
  /\ held' = held \cup {r}
  /\ holdIn' = [holdIn EXCEPT ![r] = HoldTime]
  /\ unsampled' = unsampled \cup {r}

(* From the end of the gate's loop to the await of resp.prepare: reserve,  *)
(* start the release task, route and count the dispatch.                   *)
AdmitAndRoute(r, j) ==
  /\ stage' = [stage EXCEPT ![r] = "preparing"]
  /\ wakeIn' = [wakeIn EXCEPT ![r] = 0]
  /\ IF GateEnabled THEN HoldReservation(r, j) ELSE UNCHANGED <<ledger, unsampled>>
  /\ \E i \in Replicas : replica' = [replica EXCEPT ![r] = i] /\ OnDispatch(r, i)

(* The coroutine goes to sleep for peak_recheck_interval_s.                *)
Park(r) ==
  /\ stage' = [stage EXCEPT ![r] = "gated"]
  /\ wakeIn' = [wakeIn EXCEPT ![r] = RecheckInterval]
  /\ UNCHANGED <<replica, trackers, ledger, unsampled>>

(* marginal_j: the request's energy by the estimator's present value.      *)
ArrivalEnergy(r) ==
  IF GateEnabled
    THEN MarginalEnergy(Prompt[r],
           CurrentEstimateTokens(estimate, MaxTokens[r], BytesPerToken), JPrefill, JDecode)
    ELSE 0

(* The request's body is read: its marginal energy is fixed, and the gate  *)
(* is tried for the first time.                                            *)
Arrive(r) ==
  /\ stage[r] = "idle"
  /\ marginal' = [marginal EXCEPT ![r] = ArrivalEnergy(r)]
  /\ \/ Blocked(ArrivalEnergy(r)) /\ Park(r)
     \/ ~Blocked(ArrivalEnergy(r)) /\ AdmitAndRoute(r, ArrivalEnergy(r))
  /\ UNCHANGED <<power, estimate>>

(* A parked request wakes and tries the gate again with the same energy.   *)
Recheck(r) ==
  /\ r \in Gated /\ Due(wakeIn[r])
  /\ \/ Blocked(marginal[r]) /\ Park(r)
     \/ ~Blocked(marginal[r]) /\ AdmitAndRoute(r, marginal[r])
  /\ UNCHANGED <<marginal, power, estimate>>

(* resp.prepare returned: the request is forwarded to its replica.         *)
Prepared(r) ==
  /\ stage[r] = "preparing"
  /\ stage' = [stage EXCEPT ![r] = "streaming"]
  /\ UNCHANGED <<marginal, replica, wakeIn, trackers, ledger, power, estimate, unsampled>>

(* resp.prepare raised, because the client has gone: the coroutine ends    *)
(* before it enters the try block.                                         *)
PrepareRaises(r) ==
  /\ stage[r] = "preparing"
  /\ stage' = [stage EXCEPT ![r] = "aborted"]
  /\ UNCHANGED <<marginal, replica, wakeIn, trackers, ledger, power, estimate, unsampled>>

(* Mutant: the finally block releases the reservation as well.             *)
StreamEndsAndReleases(r, bytes) ==
  /\ stage[r] = "streaming"
  /\ stage' = [stage EXCEPT ![r] = "done"]
  /\ replica' = [replica EXCEPT ![r] = NoReplica]
  /\ OnComplete(r, replica[r])
  /\ reserved' = Release(reserved, marginal[r])
  /\ estimate' = IF GateEnabled THEN RecordCompletion(estimate, bytes) ELSE estimate
  /\ UNCHANGED <<marginal, wakeIn, held, holdIn, power, unsampled>>

(* The stream ends, whole or by an exception of the upstream or of         *)
(* resp.write: the finally block runs either way.                          *)
StreamEnds(r, bytes) ==
  /\ stage[r] = "streaming"
  /\ stage' = [stage EXCEPT ![r] = "done"]
  /\ replica' = [replica EXCEPT ![r] = NoReplica]
  /\ OnComplete(r, replica[r])
  /\ estimate' = IF GateEnabled THEN RecordCompletion(estimate, bytes) ELSE estimate
  /\ UNCHANGED <<marginal, wakeIn, ledger, power, unsampled>>

-----------------------------------------------------------------------------
(* The background tasks.                                                   *)

(* Mutant: the reservation lasts until the request is over.                *)
ReleaseAtCompletion(r) ==
  /\ r \in held /\ Due(holdIn[r]) /\ stage[r] = "done"
  /\ held' = held \ {r}
  /\ holdIn' = [holdIn EXCEPT ![r] = 0]
  /\ reserved' = Release(reserved, marginal[r])
  /\ unsampled' = unsampled \ {r}
  /\ UNCHANGED <<handlers, trackers, power, estimate>>

(* _release_reservation_after_delay.                                       *)
ReleaseHold(r) ==
  /\ r \in held /\ Due(holdIn[r])
  /\ held' = held \ {r}
  /\ holdIn' = [holdIn EXCEPT ![r] = 0]
  /\ reserved' = Release(reserved, marginal[r])
  /\ unsampled' = unsampled \ {r}
  /\ UNCHANGED <<handlers, trackers, power, estimate>>

(* One round of power_poll_loop: the reads, the record, the next sleep.    *)
(* The time since the last sample is what was slept, late ticks included.  *)
Poll(w) ==
  /\ polling /\ Due(pollIn)
  /\ samples' = IF GateEnabled THEN Record(samples, PollInterval - pollIn, w) ELSE samples
  /\ pollIn' = PollInterval
  /\ unsampled' = {}
  /\ UNCHANGED <<handlers, trackers, ledger, polling, estimate>>

(* A power read raises: nothing catches it, and the task is over.          *)
PollRaises ==
  /\ NvmlMayFail /\ polling /\ Due(pollIn)
  /\ polling' = FALSE
  /\ UNCHANGED <<handlers, trackers, ledger, samples, pollIn, estimate, unsampled>>

-----------------------------------------------------------------------------
Next ==
  \/ Tick
  \/ \E r \in Requests : Arrive(r)
  \/ \E r \in Requests : Recheck(r)
  \/ \E r \in Requests : Prepared(r)
  \/ \E r \in Requests : PrepareRaises(r)
  \/ \E r \in Requests, b \in ResponseSizes : StreamEnds(r, b)
  \/ \E r \in Requests : ReleaseHold(r)
  \/ \E w \in PowerLevels : Poll(w)
  \/ PollRaises

Spec == Init /\ [][Next]_vars

(* The event loop runs every callback that is ready, and time goes on.     *)
(* Nothing is assumed of clients and replicas: the session has no timeout, *)
(* so a stream may never end.                                              *)
Fairness ==
  /\ WF_vars(Tick)
  /\ WF_vars(\E w \in PowerLevels : Poll(w))
  /\ \A r \in Requests : WF_vars(Recheck(r)) /\ WF_vars(ReleaseHold(r))

FairSpec == Spec /\ Fairness

-----------------------------------------------------------------------------
(* The ledger is the sum of the energies of exactly those reservations     *)
(* whose release task has yet to run, however admissions, completions and  *)
(* late releases interleave: none is lost, none is released twice, and the *)
(* floor in PowerBudget.release never hides a difference.                  *)
LedgerExact == reserved = Cardinality(JouleUnits(held, marginal))

(* Violated.  A request that streams has been admitted and has not         *)
(* completed: the finally block, where release's docstring has release     *)
(* called, is still to come.  By the comment on PowerBudget._reserved_j    *)
(* its energy is in the ledger; the timer of handle_completions takes it   *)
(* out while the response streams.                                         *)
LedgerCoversStreams ==
  reserved >= Cardinality(JouleUnits({r \in Requests : stage[r] = "streaming"}, marginal))

(* Requests that were dispatched to replica i and not completed there.     *)
Charged(i) == {r \in Requests : replica[r] = i /\ stage[r] \in Routed}

(* The trackers the policies score with count each request that was routed *)
(* to a replica from its dispatch to its completion, whichever way the     *)
(* stream ended; what stays behind is exactly the requests whose client    *)
(* had gone at resp.prepare, which no one completes.                       *)
TrackersExact ==
  \A i \in Replicas :
    /\ load[i] = Cardinality(Charged(i))
    /\ whales[i] = Cardinality({r \in Charged(i) : IsWhale(r)})

(* Violated.  LoadTracker's docstring: the counts are the requests running *)
(* or queued, counted down when a request's response finishes.  A request  *)
(* whose client left before resp.prepare stays counted for good.           *)
NoRequestNoLoad ==
  (\A r \in Requests : stage[r] \notin Open) => \A i \in Replicas : load[i] = 0

(* While the poller lives, a reservation is not released before a power    *)
(* sample has been recorded after it was made: the hold bridges the gap    *)
(* between the admission and the first sample that can show its draw.      *)
ReleasedAfterSample ==
  [][\A r \in Requests : r \in held \ held' /\ polling => r \notin unsampled]_vars

(* Every reservation is released, whatever becomes of its request.         *)
HoldsReleased == \A r \in Requests : r \in held ~> r \notin held

(* With an empty ledger the gate would let r through.                      *)
Calm(r) == ~WouldExceed(samples, 0, PeakCap, marginal[r])

(* A request does not stay parked for good while the measured power leaves *)
(* room for its own energy: the reservations of the requests in front of   *)
(* it expire, and it looks again after they have.                          *)
NotParkedForGood == \A r \in Requests : ~<>[](r \in Gated /\ Calm(r))

-----------------------------------------------------------------------------
(* What the gate promises, as a specification of its own.                  *)
Phase(r) ==
  CASE stage[r] = "idle"  -> "outside"
    [] stage[r] = "gated" -> "waiting"
    [] OTHER              -> "admitted"

(* The window is over the cap with the energies e of all covered requests  *)
(* added, by the test of PowerBudget with an empty ledger.                 *)
OverCap(window, e) ==
  WouldExceed(window, Cardinality(JouleUnits(DOMAIN e, e)), PeakCap, 0)

Promise ==
  INSTANCE AdmissionPromise
    WITH phase <- [r \in Requests |-> Phase(r)], energy <- marginal, covered <- held,
         sampling <- polling, MaxGap <- Window + 1, Exceeds <- OverCap

(* The integer ledger, the timers and the parked coroutines implement the  *)
(* promise: an admission keeps the window's average, all reserved energy   *)
(* counted, within the cap, and energy is reserved until it was sampled.   *)
ImplementsPromise == Promise!Spec
=============================================================================
