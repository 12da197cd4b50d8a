# A TLA+ model of vllm-experiment

This directory specifies the programs of the repository in TLA+, checks the
specifications with TLC on small instances and proves theorems about them with
TLAPS. Paths below are relative to the repository's root.

## 1. Inventory

The repository holds an energy-aware router for several vLLM replicas, a set
of patches to vLLM's scheduler and block pool, load generators, and a large
body of sweep scripts and offline analysis.

| Component | Source | State | Operations | What is hard | What makes it correct |
|---|---|---|---|---|---|
| Power budget | `scripts/eenergy/router/power_budget.py` | sample window, reserved energy, response-size average | record, reserve, release, would_exceed, record_completion | test and reserve must not be separated; floor at zero; window boundary | the ledger is the sum of what is held; the window holds only recent samples |
| Router process | `proxy_server.py`, `load_tracker.py`, `whale_tracker.py`, `power_nvml.py` | coroutine per request, two trackers, budget, delayed releases, poller | handle_completions, delayed release, power_poll_loop | interleaving at awaits, timers, clients that leave, power reads that fail, endless streams | admissions keep the cap, counters match the requests, reservations outlive the next sample and end |
| Routing | `router_core.py`, `scoring.py`, `replica_state.py` | tie cursor, round-robin index, lag buffer, trackers, diagnostic fields | route with 36 policies, complete | which picks can be dominated, which ceiling the diagnostic uses, ties | a pick is Pareto-optimal where it is claimed; no avoidable threshold violation where it is claimed |
| Adaptive ceiling | `adaptive_ceiling.py` | bounded window of ramps | observe, observe_round, ceiling | skipped rounds, floor, percentile index | above the floor it is a percentile of the last calm rounds, whatever the concentrated ones read |
| Cache mirror | `cache_mirror.py` | set of block hashes per replica | new_tokens_if_routed, record_cached | chained hashes, no eviction, failed requests | never counts a block without its prefix |
| Telemetry, ramp | `bs_telemetry.py`, `cache_telemetry.py`, `ramp.py` | last power, ramp, smoothed ramp, last known load | poll loops | stale values, failing fetches, equal timestamps | a failure keeps the last value |
| Disaggregated gate | `disagg_gate.py` | two budgets, one average | handle_completions, poll | two ledgers with one admission, failing forward | both ledgers exact, both caps kept |
| Nixl proxy | `nixl_toy_proxy_server.py` | two round-robin cursors | completions | failure between the two legs | each leg cycles through its instances |
| Chunk controllers | `scripts/patch_scheduler.py`, `scripts/mlsys/hotpatch_slo_*.py`, `hotpatch_hslo*.py`, `hotpatch_ff_*.py` | chunk size, counters, latency window | step, once per scheduler step | hysteresis, halving and growing at the bounds | stays in its bounds, changes only after enough steps |
| Budget controllers | `scripts/mlsys/hotpatch_*` (DRR, adaptive, fair share, oracle, reserve, whale) | deficit per request, mode bits | a block inside schedule() | credit of requests that are skipped, zero caps | credit is bounded and not lost, someone makes progress |
| Reorder | `patches/reorder`, `hotpatch_soft_aging.py` | waiting queue | reorder | starvation | a permutation (not modelled) |
| Eviction | `patches/eviction` | doubly linked free list, counters per block | pop_scored_n, touch, cache | relinking of neighbours | takes the n lowest, leaves a well-formed list |
| Installers | `patch_scheduler.py`, `hotpatch_*` main blocks | text of scheduler.py | apply | order of installs, partial writes | idempotent; controllers that exclude each other are never both present |
| Replay harness | `src/replay_sharegpt.py`, `scripts/mlsys/replay_timing.py` | threads, records, in-flight counter | closed, open, scheduled loops | uncaught exceptions, counting | every request leaves a record |
| Monitors | `src/monitor_gpu.py`, `scripts/pesim/power_logger.py` | none that outlives a sample | poll | | not modelled |
| Orchestration | `orchestrate/`, `scripts/*.sh` | none | sequential shell | | not modelled |
| Analysis, figures | `src/analyze*.py`, `scripts/pesim/*`, `check_*`, `analyze_*` | none | offline statistics | | not modelled |

How they interact. A client (the replay harness) posts a completion to the
router; the handler estimates its energy, waits at the budget's gate, reserves,
asks `Router.route` for a replica, counts the dispatch in both trackers and
streams the replica's answer back; when the stream ends it counts the
completion and updates the response-size average. `power_poll_loop` feeds the
budget and the replicas' ramp state, which the policies read. Inside each
replica the patched vLLM scheduler runs one of the controllers. Nothing is
persisted: a restarted process begins empty.

`PROJECT.json` lists every component with its status and, under `hazards`,
every place where the code is hard to test.

## 2. Modules

The order is that of importance: the router process and its gate came first,
then the decisions it makes, its variant for disaggregated serving, the rules
inside vLLM's scheduler and block pool, and the load driver.

| Module | Models | Composes | Runs | Proofs |
|---|---|---|---|---|
| `Collections` | list comprehensions that filter, `sorted()`, the sum over a set (operators) | | | `DataLemmas` |
| `PowerBudget` | `power_budget.py` (operators) | extends `Collections` | | lemmas in both gates' proofs |
| `AdmissionPromise` | abstract: what a gate is for | | | |
| `RouterProxy` | `proxy_server.py`, the two trackers | extends `PowerBudget`, refines `AdmissionPromise` | `gate`, `live`, `ledger_comment`, `load_leak` | `RouterProxyProofs` |
| `Scoring` | `scoring.py` (operators) | | | `RouterCoreProofs` |
| `RouterCore` | `router_core.py`, `cache_mirror.py`, `adaptive_ceiling.py`, `ramp.py`, `bs_telemetry.py`, the trackers | extends `Scoring` | `routing`, `audit_ceiling`, `scrape_miss` | `RouterCoreProofs` |
| `NixlProxy` | `nixl_toy_proxy_server.py` | | `disagg` | `DisaggProofs` |
| `DisaggGate` | `disagg_gate.py` | extends `PowerBudget`, instantiates `NixlProxy`, refines `AdmissionPromise` once for each pool | `disagg` | `DisaggProofs` |
| `ChunkController` | `patch_scheduler.py`, `hotpatch_slo_tail.py`, `hotpatch_hslo.py`, `hotpatch_ff_variant.py`, `hotpatch_ff_tokens.py` and their kin | | `chunk` | `ChunkProofs` |
| `SchedulerRounds` | the budget controllers of `scripts/mlsys` and their installers, inside vLLM's `schedule()` | extends `Collections` | `scheduler` | `SchedulerProofs` |
| `EvictionFreeList` | `patches/eviction`, inside vLLM's block pool | extends `Collections` | `eviction` | `EvictionProofs` |
| `ReplayHarness` | `src/replay_sharegpt.py`, `replay_timing.py` | | `harness` | `HarnessProofs` |

The `MC...` modules and the configurations give the constants their values. No
module declares a RECURSIVE operator. The modules that proofs reach are
parameterised by named assumptions, which every run evaluates. `DataLemmas`
holds what the proofs need of finite sets, filters, sums, ranks and sequences.

## 3. What is modelled

### PowerBudget (pure operators)

`scripts/eenergy/router/power_budget.py` without its classes: the window is a
set of samples, each with its age, since `record` only compares times with the
newest one; `WouldExceed` is `would_exceed` with both sides multiplied out, so
that integers decide it exactly; the average of the response sizes is rounded
down. The code computes in floating point. Where the code's value would be
rounded, the model's is exact, and the statements about the ledger are about
the arithmetic the code means.

### RouterProxy (the process)

| Model | Code |
|---|---|
| `stage[r]` | where the coroutine of a request is: parked in `asyncio.sleep`, awaiting `resp.prepare`, streaming, over, or ended by an exception of `prepare` |
| `marginal`, `replica` | the handler's locals `marginal_j` and `replica_id` |
| `load`, `whales` | `LoadTracker._counts`, `WhaleTracker._counts` |
| `samples`, `reserved`, `estimate` | `PowerBudget` and `DecodeByteEstimator` |
| `held`, `holdIn` | the tasks of `_release_reservation_after_delay` and their deadlines |
| `wakeIn`, `pollIn`, `polling` | the deadlines of the parked requests and of the poller, and whether the poller is alive |
| `unsampled` | history only: reservations since the last sample |

An action is the code between two awaits: nothing else runs in between.
`Arrive` and `Recheck` test the gate and, if it is open, reserve, start the
release task, route and count the dispatch in the same step. `Prepared` and
`PrepareRaises` are the two ends of `await resp.prepare`; `StreamEnds` is the
`finally` block, which runs for a whole stream and for any exception in it.
`ReleaseHold` is the delayed task; `Poll` and `PollRaises` are a round of
`power_poll_loop`. `Tick` lets time pass. asyncio wakes sleepers in the order
of their deadlines, so a task runs only when no other deadline is earlier
(`Due`); `MaxLate` bounds how late the loop may be, 0 or 1 tick in the runs.

Left out: the assignment log, the health endpoint (it touches none of this
state), the replica's ramp state that `power_poll_loop` also updates, and the
policy: any replica may be chosen.

### AdmissionPromise (abstract)

What the gate is for, without ledger and clock: a set of covered requests; an
admission must leave the window's average, with the energy of all covered
requests and its own, within the cap; coverage ends only after a sample was
taken since the admission, as long as sampling goes on. The window's arithmetic
is a parameter. `RouterProxy` instantiates it by a refinement mapping
(`Promise`), with `stage` mapped to a phase and `held` to the covered requests.

### Scoring (pure operators)

The 36 policies of `scoring.py`. A picker is the set of positions it may
return. Shares are integers in units of `1/One`; a score is a tuple, compared
lexicographically like Python's, and scalar scores are multiplied out by
positive common factors to integers. `LeastAmong` is `min` over a list rotated
to the tie cursor: the first minimal element wins. Rounding of floats is left
out, so a tie in the model may be a difference in the last bit in the code.

### RouterCore (the decision and what it reads)

`Router.route` has no await, so a decision is one action, `route`: it feeds the
adaptive window, builds the candidates, appends to the lag buffer, picks,
advances the cursor, counts the dispatch and records the prompt in the mirror.
`complete`, `PowerPoll` (which may die in the middle of the fleet) and `Scrape`
run between decisions. A chained block hash is modelled by the prefix it is
computed from. `last`, `decisions`, `polls`, `elevations` and `rounds` (the
readings of each decision) are history. The replicas' own caches, which do
evict, are not in the repository: the mirror never evicts, and the model shows
the mirror, not its agreement with them.

### NixlProxy and DisaggGate

`NixlProxy` is the two `itertools.cycle` cursors and the legs of a request,
each of which may fail. `DisaggGate` is the gate in front of it: a budget for
each capped pool, one admission test for both, a release task for each. A round
of the poller reads the pools in order and a read may raise between them.
`AdmissionPromise` is instantiated once for each pool. The event loop is never
late in this model; `RouterProxy` covers lateness.

### ChunkController

One `Step` per scheduler step, with the decode depth, the time since the last
step and the tokens it placed as inputs, under one of the `CHUNK_MODE` rules.
Times are integers, moving averages are rounded down. `recent`, `quiet` and
`db` are history that the properties read. A window is sorted by counting the
readings below each one.

### SchedulerRounds

A round of `schedule()` is a sequence of small actions, with nothing in
between: the installed blocks (the one installed last runs first), the running
requests, then the waiting ones. `Install` follows the tag lists by which the
installers refuse each other; `Start` enables some of what is in the file. The
scheduler around the blocks is vLLM's and marked external; a waiting request
that cannot start yet is skipped (`Blockable`). An oracle's phase is arbitrary
in every round.

### EvictionFreeList

The doubly linked free list with its two fake nodes, `popleft_n` and the
patch's `pop_scored_n`, and the three fields the patch keeps for each block, as
vLLM's pool touches, allocates, caches and frees blocks. The abstract pool is
the set of blocks nobody uses; `ListIsPool` relates the two. TDF's exponential
is a power of two per tick; the other policies never read the clock, so it
ticks under `tdf` only. `sorted()` by score is ranking by counting the blocks
that go first, the one nearer the front of the list where scores are equal.

### ReplayHarness

All launch modes. A thread makes requests in turn; a request is answered, fails
with one of the expected errors, or breaks with another one, which ends the
thread and, in the staggered mode, its worker. Reading the room of the
concurrency schedule under the lock and filling it after are two actions.

## 4. Runs

| Run | Configuration | Shows |
|---|---|---|
| `gate` | 3 requests (a whale and two short ones), 2 symmetric replicas, powers {2, 6} around the cap 5, window 2, poll 1, hold 2, recheck 2, response sizes {0, 4}, power reads may fail | `TypeOK`, `LedgerExact`, `TrackersExact`, `ImplementsPromise` |
| `live` | a whale and a short request, 1 replica, the loop up to a tick late, fairness | `ReleasedAfterSample`, `HoldsReleased`, `NotParkedForGood` |
| `ledger_comment` | as `live` | `LedgerCoversStreams` is violated |
| `load_leak` | without the gate | `NoRequestNoLoad` is violated |
| `routing` | all 36 policies, 2 replicas with opposite ceilings, a whale and a short prompt that share a block, powers {0, 2}, equal timestamps, 2 decisions (3 for six policies), 2 polls (3 for the isolated adaptive policy), a window of 3 readings | `TypeOK`, `LagExact`, `MirrorCountsEveryCachedBlock`, `PoliciesAgree`, `PickNotDominated`, `PickThresholdSafe`, `TiesRotate`, `CeilingOfCalmRounds` |
| `audit_ceiling` | as `routing`, smoothing 3/10 | `AuditUsesPolicyCeiling` is violated |
| `scrape_miss` | as `routing`, scraped loads only | `BusyReplicaNeverLooksEmpty` is violated |
| `disagg` | a whale and a short request, both pools capped at different powers, 2 instances each, one pool hot at a time, reads that raise, legs that fail | `TypeOK`, `LedgersExact`, `ReservedInAll`, `WindowsInStep`, `PoolsBalanced`, `PrefillKeepsPromise`, `DecodeKeepsPromise` |
| `chunk` | every rule, chunks of 1 to 6 tokens, hold 3, SLO 8, windows of 4, depths around the target, gaps below, at, above the SLO and idle | `TypeOK`, `FeedforwardSettles`, `PredictedWithinSlo`, `ChangesAfterHold`, `ChangesApart`, `TailDecides`, `DepthDecidesInTheEnd` |
| `scheduler` | every admitted pair of controllers, 3 requests (a long one, a chat, one that may be skipped), rounds of 3 tokens, fairness | `TypeOK`, `NewestRunsLast`, `DecodeFirst`, `EarnedOnly`, `WhalesSliced`, `ScheduledWithinMax`, `EveryRequestServed` |
| `eviction` | 3 policies, 4 symmetric blocks, 2 requests, prompts of 1 to 3 blocks that share prefixes, 2 hits, 2 ticks under `tdf` | `ListIsPool`, `ChainsKeptFromTheRoot` |
| `harness` | every mode, 3 conversations of 2 turns, 2 workers, a schedule that rises and falls to 0 | `InFlightExact`, `EveryRequestRecorded` |

Why the bounds are enough.

* *Gates.* Three requests allow a parked one behind two reservations of
  different size; two replicas tell a completion on the wrong replica apart;
  the two powers put the measured average below and above the cap; a window of
  two ticks holds one, two or three samples, so the open gate below two samples
  occurs, and so do pruned samples. Recheck and hold end in the same tick,
  which gives both orders. A response of size 0 is a stream that failed at
  once. In `disagg` either pool can be the one that refuses.
* *Routing.* Opposite ceilings make one replica worse in power and the other in
  level; equal timestamps exercise the zero ramp. Two decisions let a tie follow
  a tie and a prompt meet the blocks of another, and two polls give a ramp. The
  third decision lets the lag buffer roll on once it is full, the round robin
  come back to its start and a replica go over its number of sequences; it is
  given to the policies with such state and to three that compare shares. A
  window of three readings cuts a round of two in the middle, and a third poll
  lets a ramp end, so that the isolated ceiling must give a reading up. Two
  replicas are few for a claim about a minimum over a fleet: `ParetoSafety`
  proves the main one for every fleet.
* *Chunks.* The hold of 3 allows a run to be broken at its first, middle and
  last step; the windows are shorter, as long and longer than their minimum.
* *Scheduler.* The long prompt takes two rounds or more, the chat decodes while
  it does, and three tokens are fewer than all want. Pairs suffice for what two
  stacked blocks do to each other.
* *Eviction.* Four blocks are one more than the longest prompt, so evictions
  happen from the front, the middle and the back of the list, and neighbours
  are taken together.
* *Harness.* Two workers can both be hit; three conversations leave one in the
  queue; the schedule's fall to zero has threads that outlive their phase.

In most runs the system may really stop (every request ended, bounds of time
or of decisions reached), so deadlock is not checked there; it is checked in
`chunk`, whose controller steps forever.

Fairness. `RouterProxy` assumes weak fairness of the clock, of the poller and
of each sleeping task: the event loop runs every callback that is ready.
Nothing is assumed of clients and replicas, whose session has no timeout
(`total=None`): a stream may never end, and the properties hold nonetheless.
`ChunkController` assumes that steps go on; what they measure is free.
`SchedulerRounds` assumes that the engine steps while it has requests, and
strong fairness of the admission of a request that is blocked now and then:
what blocks it ends. No fairness is assumed of arrivals or installations.

## 5. Findings

* `LedgerCoversStreams`. The comment on `_reserved_j` and the docstring of
  `release` say that a reservation lasts until its request completes. The proxy
  releases it by a timer, `reservation_hold_s` after the admission: in the
  trace the response is still being streamed when the ledger loses its energy.
  The comment in `make_app` explains why; the older texts were not changed.
* `NoRequestNoLoad`. A client that leaves before `resp.prepare` makes it raise
  outside of the `try`, and the dispatch that `route` counted is never counted
  down. `TrackersExact` says exactly what remains: those requests and no other.
* `AuditUsesPolicyCeiling`. The diagnostic of the smoothed-ramp policy counts
  elevated replicas by the raw ramp, the pick by the smoothed one.
* `BusyReplicaNeverLooksEmpty`. An answer of `/metrics` that names no such
  model is stored as an empty queue; only a request that raises keeps the last
  value, as `bs_poll_loop` says every miss should.

Other things a reader of the code should know, met while modelling, each stated
by the exception a property makes for it:

* `hotpatch_hslo.py` calls its rule "SLO by construction". At its floor the
  predicted step may exceed the SLO, so `PredictedWithinSlo` exempts the floor.
* `hotpatch_fairshare_reserve.py:57-59` takes `max(1, ...)` for the share even
  when the reserve for the running requests takes the whole maximum: with as
  many requests running as a round has tokens, the budget is one token too
  many. Alone it does no harm, since its threshold of 1 gives each a token. But
  its tag list (line 81) names neither `DRR_LPT` nor `ORACLE_LPT`, and where one
  of these is in the file already, it runs later and replaces the threshold;
  then a round can schedule a token more than the maximum, which
  `hotpatch_ff_tokens.py:38` says vLLM asserts. `ScheduledWithinMax` exempts
  that case and no other (`OverReserved`, which needs `MaxRunning =
  MaxScheduled`). The docstrings say the controllers are not meant to be
  stacked.
* A request that was skipped gets one token without credit, so `EarnedOnly` and
  `WhalesSliced` exempt the requests that may be skipped.
* Under `tdf` a prefix can be evicted before its continuation;
  `ChainsKeptFromTheRoot` is about the other two policies. Under `cf` an empty
  block scores 1, so a cached block that was never hit goes before an empty one
  does.
* A connection reset in mid-answer is neither of the two errors that
  `stream_request` expects: the rest of that conversation is lost, and in the
  staggered mode its worker with it. `EveryRequestRecorded` says exactly what.
* The adaptive window is fed by decisions, not by polls, so a busy router
  fills it with repetitions of one sample.

## 6. Proofs

Every safety invariant and every action property that a passing run checks is
also proved, for every value of the constants that satisfies the module's named
assumptions (four theorems have a hypothesis more, named with them: the gate
enabled, the pool capped, the shares exact). Each section below names the inductive invariant and says why the
property needs it. What is left to TLC is at the end.

### Data

The library's induction theorems take an operator as a parameter, which no
installed prover can instantiate. `DataLemmas` states what the proofs need of
recursive data for sets and functions instead: an induction becomes the choice
of a smallest counterexample (`LeastElement`). It covers the filter `Only`
(its elements, their order, none twice), sums over sets, the sum of energies as
the cardinality of a set with one element for each joule (`JouleUnits`), the
extremes of a finite set of numbers, and ranks: of finitely many places in a
strict total order each is the k-th for exactly one k, so `Ranked` sorts.

### RouterProxyProofs

Under `WindowAssumption`, `RouterAssumption` and `HoldAssumption` (a hold longer
than the polling interval, as the comment on `reservation_hold_s` demands):

* `TypeCorrect`: `Spec => []TypeOK`. One lemma for each action.
* `LedgerCorrect`: `Spec => []LedgerExact`. The invariant is not inductive as
  it stands: that a request is reserved at most once needs `HeldAdmitted` (what
  is held has been admitted, so its handler never passes the gate again), and
  sums need finite sets. `LedgerInv` is that strengthening.
* `TrackersCorrect`: `Spec => []TrackersExact`. The counters equal the
  cardinalities of the charged requests; hence the floors at zero never apply.
* `SampledBeforeRelease`: `Spec => ReleasedAfterSample`. The invariant
  `PollFirst` says that the deadline of a reservation that no sample has seen
  lies behind the poller's next one; since sleepers wake in the order of their
  deadlines, the release cannot come first, however late the loop runs.
* `GateKeepsPromise`: with the gate enabled, `Spec => ImplementsPromise`. An
  admission satisfies the abstract one because the ledger is exact
  (`LedgerInv`); a release satisfies the abstract one because of `PollFirst`;
  a sample after a pause longer than the window equals one after a pause of
  `Window + 1`, so the abstract gap may be bounded.

### DisaggProofs

For any instances, caps, windows and requests, under `DisaggAssumption`:
`DisaggTypeCorrect`, `DisaggLedgersExact`, `DisaggReservedInAll`,
`DisaggWindowsInStep`, `DisaggPoolsBalanced`, which share the invariant `IInv`:

* `HeldAdmitted` and `Ledgers` are the argument of `LedgerCorrect`, once for
  each pool;
* `HoldsInStep` says that the two release tasks of a request have the same
  deadline while both sleep, and that one which sleeps alone is due, which
  makes "in all or in none" inductive up to the tick in which they wake;
* `WindowsInStep` is inductive alone, since a read that raises ends the poller;
* `Turns` (an instance before the cursor has had exactly one request more than
  one behind it) is what the even spread follows from.

`PrefillPoolKeepsPromise` and `DecodePoolKeepsPromise` are the refinement of
`AdmissionPromise`, once for each pool, for a pool that has a cap (without one
there is nothing to promise). The argument of `GateKeepsPromise` is repeated
with one poller for two windows: `PollFirst` holds for either hold, and
`PromiseStep` maps each step to an abstract step of that pool or a stutter,
also the round in which a read raised between the pools.

### ChunkProofs

Under `ChunkAssumption`: `ChunkTypeCorrect`, `DepthNeedsHold`,
`DepthKeepsApart`, `FeedforwardAtRest`, `HeadroomWithinSlo`, `TailDecidesChunk`.
`CountsAreRuns` ties the two counters to the history: each is the length of the
run of equal requests that ends now and at most the time since the last move; a
move at `Hold` then means `Hold` equal requests, all since the last move.
`FedForward` ties the estimated slope to the plant's, which is what makes the
fed-forward rule settle with its first measurement. `TailDecidesChunk` needs no
invariant but the types: the percentile is an element of the sorted window, and
by ranks the readings above it are as many as there are places behind it.

### RouterCoreProofs

For any fleet, capacities, ceilings, prompts, floors, lag depths and readings,
under `ScoringAssumption`, `RouterCoreAssumption` and `SetupAssumption`:

* `RouterTypeOK`: `Spec => []TypeOK`. The substance is that every one of the 36
  policies picks a replica of the fleet, which makes the cursors and the
  diagnostic fields right, and that a dispatch precedes its completion, which
  keeps the trackers' counters natural.
* `ParetoSafety`: `Spec => PickNotDominated`. For each kind of score (the
  four-tuple that names every share, the sorted triple, the sum, the product of
  positive shifted factors) a dominated candidate has the strictly greater
  score; `min` never keeps a candidate that another is strictly below; so none
  of the fourteen policies picks a dominated one. The candidates are typed in
  every reachable state (`Telemetered`; a prompt has no fewer tokens than its
  cached blocks) and the squeeze is positive (`LagInv` for the lagged one).
* `ThresholdSafety`: `Spec => PickThresholdSafe`. The dominant share is the
  greatest of four; a policy that minimises it goes over the threshold only
  when the least of them does. An adaptive ceiling is the greatest of the
  floor and the readings of low rank in a window of any size; that this exists
  and is positive (`CeilingType`) rests on the lemma about finite maxima.
* `TiesSpread`: `Spec => TiesRotate`. `TieInv`: after a tie the cursor is the
  place behind the replica that won it, so the next minimum is looked for from
  there, and another of the equal ones comes first.
* `OneReplicaPicked`: a policy that draws no random number picks exactly one
  replica: its scores are totally ordered, and the turns in the rotated list
  order those that are equal.
* `EquivalentPolicies`: under `ExactShares`, `Spec => []PoliciesAgree`. The
  equivalences that `scoring.py` states are equalities of real numbers; the
  model's shares are integers in units of `1/One` and round down, so they hold
  when the capacities divide `One`, as they do in the run. (The code's floats
  round too; the model does not follow them.)
* `LagIsExact`: `Spec => []LagExact`. `LagInv`: the buffer is the end of the
  history of counts, `LagDepth` long once there is that much of it.
* `MirrorExact`: `Spec => []MirrorCountsEveryCachedBlock`. `MirrorWhole`: with a
  hash a mirror holds those of all its prefixes. The matched blocks and the
  cached hashes of a prompt are then in bijection by length.
* `CeilingFollowsCalmRounds`: `Spec => []CeilingOfCalmRounds`. `WindowInv`: the
  slots of the window, counted from its end, hold the readings of the calm
  decisions, counted from the last one back. `Recent`, which speaks of the
  history of decisions only, is then in bijection with the slots
  (`RecentFillsWindow`), and `CeilingPlace` says where a percentile stands in a
  window of any length.

### SchedulerProofs

For any stack of controllers that the tag lists admit, any subset of it enabled
and any requests, under `SchedulerAssumption`. `Struct` is the invariant they
share: the types, and what has not been placed yet in a round (`Fresh`), that
nothing runs before the first round (`Pristine`), and that what a round has
still to visit is the end of the queue it began with (`Plan`).

* `TypeOKAlways`: `Spec => []TypeOK`.
* `NewestRunsLastAlways`: `Spec => []NewestRunsLast`. Each installer checks its
  own list only, at its own time; that what is in force stands where the lists
  demand follows from `InstallOrder` (for every pair, which list names which)
  and `StartOrder`.
* `ScheduledWithinMaxAlways`: `Spec => []ScheduledWithinMax`. `BudgetInv` says
  that tokens scheduled and budget left never exceed the maximum, unless the
  running requests are as many as the tokens and the reserve ran (`Crowded`);
  then the requests scheduled and those still to come have a token each, but
  for a stack that replaces the threshold, the property's exemption.
* `EarnedOnlyAlways`: `Spec => []EarnedOnly`. `EarnedInv`: what a request has
  had of its prompt and its deficit together are at most its quanta
  (`Covered`), and whoever is still to be served once the block has run has
  credit (`Credited`): a deficit of zero would lift the limit, not set it.
* `DecodeFirstAlways`: `Spec => []DecodeFirst`. `DecodeInv` follows the budget
  along the running queue: the decoding requests are read first and none is
  passed over (`DecodeRunning`); when the waiting queue is read, either none was
  left out or the budget is spent and no prompt had any of it
  (`DecodeWaiting`).
* `WhalesSlicedAlways`: `Spec => []WhalesSliced`. `SliceInv`: the
  adaptive threshold, once set, protects from a long prompt until the little
  that is left of it (`ProtectedFrom`); a detector that sees a whale (`Seen`)
  keeps the budget, and with it each grant of the round, below its limit.

### EvictionProofs

For any blocks, requests and prompts, under `EvictionAssumption`.

* `FreeListIsPool`: `Spec => []ListIsPool`. `IInv` says that the links hold a
  row of nodes between the two fake ones (`Chained`), which are the blocks
  without users (`Linked`); that a block's count is the number of tables that
  name it (`Counted`); that a block found under a hash has that hash
  (`Hashed`); and what the request that is being placed still needs
  (`Working`). That the walks read such a row from either end, and that taking
  nodes out one after the other, in any order, neighbours included, leaves the
  others in a row in their order, is proved of the links themselves.
* `PrefixOutlivesWhatContinuesIt`: `Spec => []ChainsKeptFromTheRoot`. `CInv`
  adds, for `lru` and `cf`, what makes the root of a chain outlive the rest.
  The parent of a cached block is the block cached first under its prefix; it
  has at least as many hits and the smaller depth, so its `cf` score is
  strictly higher; it is in use whenever the child is, and under `lru` the list
  never has it before the child (`Chains`, `Tables`); a request that starts
  uses the first blocks of the prefixes it hits (`Known`, `Pending`). Under
  `tdf` none of this holds, see section 5.

### HarnessProofs

Under `HarnessAssumption`: `HarnessInFlightExact` and
`HarnessEveryRequestRecorded`. `IInv` says that the records are those of the
turns done (`Recording`), which living conversation a worker is at and that a
stopped staggered worker took one with it (`Working`), that the list of threads
to join holds every living one and that the room that was read is a lower bound
of the room there is, since threads only end meanwhile (`Counting`), and what
the main thread has waited for (`Waiting`).

### Only model-checked

Liveness (`HoldsReleased`, `NotParkedForGood`, `DepthDecidesInTheEnd`,
`EveryRequestServed`) is out of the prover's reach, which has no rule for
fairness that its backends can apply. The four violation runs are TLC's
counterexamples; there is nothing to prove of them.

## 7. Not modelled

* *Waiting-queue reorder* (`patches/reorder`, `hotpatch_soft_aging.py`): one
  sort by a float of the logarithm of the wall-clock wait and a hit ratio that
  changes with the cache. No text promises an order beyond the formula, and a
  fairness claim needs unbounded waits.
* *GPU monitors*: loops around NVML that write a line per sample.
* *Orchestration*: some 200 shell scripts, sequential, without state.
* *Analysis and figures* (`analyze*`, `check_*`, `verify_*`, `scripts/pesim`):
  offline statistics and Monte Carlo simulations in floating point.
* Within modelled components: the assignment log, the health endpoints, traces
  and logging; `cache_telemetry.py`, which no loop of the router calls;
  `disagg_p2p_proxy.py`, whose base class is not in the repository; the text
  edits of the installers, which are string replacements with error exits; the
  prompts, the arrival times and the figures of the load driver.

The unmodelled scripts are by far the larger part of the repository's Python
lines: the modules cover nearly all the code that keeps state across events,
and a small part of the lines. HTTP, the tokenizer and NVML are external, as
are vLLM's scheduler and block pool; only what the code does with them is
modelled.
