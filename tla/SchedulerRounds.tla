--------------------------- MODULE SchedulerRounds ---------------------------
(***************************************************************************)
(* vLLM's schedule() as the controllers of scripts/mlsys change it.  Each  *)
(* installer inserts a block right after "token_budget =                   *)
(* self.max_num_scheduled_tokens", so that the block installed last runs   *)
(* first; some also reorder self.running or replace the cap on one         *)
(* request's tokens.  Most installers refuse a file that holds the tag of  *)
(* a controller they know.                                                 *)
(*                                                                         *)
(* A server is patched, started with some of the blocks enabled by its     *)
(* environment, and then schedules round after round: the blocks run, then *)
(* the running requests get tokens in their order, then the waiting ones,  *)
(* each as many as its cap and the round's budget leave.  A round is one   *)
(* call of schedule(); its steps are actions of their own, with nothing in *)
(* between.  The scheduler itself is vLLM's and is modelled from the lines *)
(* that the patches match: memory for the cache never runs out, and a      *)
(* waiting request that cannot start yet is skipped.  Tracing is left out. *)
(***************************************************************************)
EXTENDS Integers, FiniteSetsExt, SequencesExt, Collections

CONSTANTS
  Requests, PromptOf, OutputOf,
  Blockable,                        \* the requests that may have to be skipped
  MaxScheduled, MaxRunning,         \* max_num_scheduled_tokens, max_num_running_reqs
  Controllers, MaxStack,            \* the installers considered, and how many run
  Gate, ExitGate, Protect, CongestShare,  \* ADAPTIVE_LPT; the share in percent
  Lo, Hi, HiThreshold,              \* the two budgets, and ORACLE_HI_THRESH
  WhaleTok, BacklogThresh,
  Quantum, MaxBank                  \* DRR_LPT

(* The controllers in the order of their files: each knows the older ones. *)
Generations ==
  << {"ADAPTIVE_LPT"}, {"FAIRSHARE_LPT"}, {"FAIRSHARE_BUDGET"}, {"FAIRSHARE_BOTH"},
     {"FAIRSHARE_RESERVE"}, {"DRR_LPT"}, {"ORACLE_LPT"}, {"ORACLE_BUDGET"},
     {"ORACLE_BUDGET_RESERVE"}, {"WHALE_AWARE_BUDGET", "WHALE_AWARE_BUDGET_V2"},
     {"STATIC_RESERVE"}, {"BACKLOG_AWARE_BUDGET"} >>
Family == UNION ToSet(Generations)
Generation(c) == CHOOSE g \in DOMAIN Generations : c \in Generations[g]

(* The controllers that serve decoding requests first.                     *)
Reserving == {"ORACLE_BUDGET_RESERVE", "WHALE_AWARE_BUDGET", "WHALE_AWARE_BUDGET_V2",
              "STATIC_RESERVE", "BACKLOG_AWARE_BUDGET"}

ASSUME SchedulerAssumption ==
  /\ IsFiniteSet(Requests)
  /\ PromptOf \in [Requests -> Nat \ {0}] /\ OutputOf \in [Requests -> Nat \ {0}]
  /\ Blockable \subseteq Requests
  /\ {MaxScheduled, MaxRunning, MaxStack, Protect, Lo, Hi, HiThreshold, Quantum, MaxBank}
       \subseteq Nat \ {0}
  /\ MaxRunning <= MaxScheduled       \* vLLM demands it
  /\ Lo <= MaxScheduled /\ Hi <= MaxScheduled
  /\ {Gate, ExitGate, WhaleTok, BacklogThresh} \subseteq Nat /\ CongestShare \in 0..100
  /\ Controllers \subseteq Family \cup {"LENGTHGATE"}

VARIABLES
  file,       \* the blocks in scheduler.py, the first installed first
  phase,      \* patching, idle, or the part of schedule() that runs
  todo,       \* the blocks or requests which that part has still to come to
  running, waiting, skipped,
  computed,   \* num_computed_tokens, of the prompt
  output,     \* the tokens each request has generated
  budget, granted,                      \* token_budget, num_scheduled_tokens
  threshold, protect, congest, deficit, \* what the blocks keep from round to round
  earned      \* history: what a request earned under DRR_LPT, up to its prompt

queues   == <<running, waiting, skipped>>
progress == <<computed, output>>
control  == <<threshold, protect, congest, deficit>>
vars == <<file, phase, todo, queues, progress, budget, granted, control, earned>>

Nothing == [r \in Requests |-> 0]
Present == ToSet(running) \cup ToSet(waiting) \cup ToSet(skipped)
Done(r) == output[r] = OutputOf[r]
Prefilling(r) == computed[r] < PromptOf[r]
Left(r) == PromptOf[r] - computed[r]
Enabled(c) == c \in ToSet(file)

FileOK ==
  /\ file \in Seq(Controllers) /\ Len(file) <= MaxStack
  /\ phase \in {"patching", "idle", "blocks", "running", "waiting"}
  /\ todo \in Seq(IF phase = "blocks" THEN Controllers ELSE Requests)

QueuesOK ==
  /\ {running, waiting, skipped} \subseteq Seq(Requests)
  /\ IsInjective(running) /\ IsInjective(waiting) /\ IsInjective(skipped)
  /\ ToSet(running) \cap ToSet(waiting) = {}
  /\ ToSet(skipped) \cap (ToSet(running) \cup ToSet(waiting)) = {}
  /\ Len(running) <= MaxRunning

ProgressOK ==
  /\ {computed, output, granted} \subseteq [Requests -> Nat]
  /\ \A r \in Requests :
       /\ computed[r] <= PromptOf[r] /\ output[r] <= OutputOf[r]
       /\ output[r] > 0 => ~Prefilling(r)
       /\ Done(r) => r \notin Present
       /\ granted[r] > 0 /\ phase # "idle" => r \in ToSet(running)

ControlOK ==
  /\ {deficit, earned} \subseteq [Requests -> Nat]
  /\ \A r \in Requests : deficit[r] <= MaxBank /\ earned[r] <= PromptOf[r]
  /\ budget \in Nat /\ threshold \in Nat /\ protect \in BOOLEAN /\ congest \in BOOLEAN

TypeOK == FileOK /\ QueuesOK /\ ProgressOK /\ ControlOK

Init ==
  /\ file = <<>> /\ phase = "patching" /\ todo = <<>>
  /\ running = <<>> /\ waiting = <<>> /\ skipped = <<>>
  /\ computed = Nothing /\ output = Nothing
  /\ budget = 0 /\ granted = Nothing
  /\ threshold = 0 /\ protect = FALSE /\ congest = FALSE /\ deficit = Nothing
  /\ earned = Nothing

-----------------------------------------------------------------------------
(* Patching and starting the server.                                       *)

(* Mutant: the newest installer keeps the list of an old one.              *)
OldListOfTags(c) ==
  IF c \in {"ADAPTIVE_LPT", "LENGTHGATE"} THEN {}
  ELSE {d \in Family : Generation(d) <= 6} \cup {c}

(* OTHER_CONTROLLER_TAGS: its own and the older ones, and by its spelling  *)
(* ORACLE_BUDGET also finds ORACLE_BUDGET_RESERVE.                         *)
OtherTags(c) ==
  IF c \in {"ADAPTIVE_LPT", "LENGTHGATE"} THEN {}
  ELSE {d \in Family : Generation(d) <= Generation(c)}
         \cup (IF c = "ORACLE_BUDGET" THEN {"ORACLE_BUDGET_RESERVE"} ELSE {})

(* A block is found again only where it was put; the length gate's method  *)
(* is found anywhere.                                                      *)
AlreadyPresent(c) ==
  IF c = "LENGTHGATE" THEN Enabled(c) ELSE file # <<>> /\ Last(file) = c

Install(c) ==
  /\ phase = "patching" /\ Len(file) < MaxStack
  /\ ~AlreadyPresent(c)
  /\ OtherTags(c) \cap ToSet(file) = {}
  /\ file' = Append(file, c)
  /\ UNCHANGED <<phase, todo, queues, progress, budget, granted, control, earned>>

(* The blocks that the environment does not enable do nothing.             *)
Start(enabled) ==
  /\ phase = "patching" /\ phase' = "idle"
  /\ file' = Only(file, enabled)
  /\ UNCHANGED <<todo, queues, progress, budget, granted, control, earned>>

Arrive(r) ==
  /\ phase = "idle" /\ r \notin Present /\ ~Done(r)
  /\ waiting' = Append(waiting, r)
  /\ UNCHANGED <<file, phase, todo, running, skipped, progress, budget, granted, control, earned>>

(* schedule() begins; the block installed last runs first.                 *)
Begin ==
  /\ phase = "idle" /\ Present # {}
  /\ phase' = "blocks" /\ todo' = Reverse(file)
  /\ budget' = MaxScheduled /\ granted' = Nothing
  /\ UNCHANGED <<file, queues, progress, control, earned>>

-----------------------------------------------------------------------------
(* The blocks.                                                             *)

Runs(c) ==
  /\ phase = "blocks" /\ todo # <<>> /\ Head(todo) = c
  /\ todo' = Tail(todo)
  /\ UNCHANGED <<file, phase, queues, progress, granted>>

(* The longest part of a prompt still to come, running or waiting.         *)
LongestLeft == Max({0} \cup {Left(r) : r \in ToSet(waiting) \cup ToSet(running)})

Congested ==
  LET load == 100 * Len(running)
  IN  /\ CongestShare > 0
      /\ \/ load > CongestShare * MaxRunning
         \/ congest /\ 2 * load > CongestShare * MaxRunning

(* Mutant: protection ends where it began.                                 *)
ProtectedAboveGate == LongestLeft > Gate

Protected == LongestLeft > Gate \/ (protect /\ LongestLeft > ExitGate)

AdaptiveLpt ==
  /\ Runs("ADAPTIVE_LPT")
  /\ protect' = Protected /\ congest' = Congested
  /\ threshold' = IF protect' THEN Protect ELSE 0
  /\ budget' = IF protect' /\ congest' THEN Min({budget, Protect}) ELSE budget
  /\ UNCHANGED <<deficit, earned>>

FairShare == Max({1, MaxScheduled \div (1 + Len(running))})

FairshareLpt ==
  /\ Runs("FAIRSHARE_LPT")
  /\ threshold' = FairShare
  /\ UNCHANGED <<budget, protect, congest, deficit, earned>>

FairshareBudget ==
  /\ Runs("FAIRSHARE_BUDGET")
  /\ budget' = FairShare
  /\ UNCHANGED <<control, earned>>

FairshareBoth ==
  /\ Runs("FAIRSHARE_BOTH")
  /\ budget' = FairShare /\ threshold' = FairShare
  /\ UNCHANGED <<protect, congest, deficit, earned>>

ReserveShare == Max({1, (MaxScheduled - Len(running)) \div (1 + Len(running))})

FairshareReserve ==
  /\ Runs("FAIRSHARE_RESERVE")
  /\ budget' = Len(running) + ReserveShare /\ threshold' = ReserveShare
  /\ UNCHANGED <<protect, congest, deficit, earned>>

(* Mutant: what was not spent is kept by a request that waits, only.       *)
ToppedUpWaiting(r) ==
  IF r \in ToSet(waiting) THEN Min({deficit[r] + Quantum, MaxBank}) ELSE 0

(* The running and the waiting earn a quantum; the others lose their       *)
(* credit.                                                                 *)
ToppedUp(r) ==
  IF r \in ToSet(running) \cup ToSet(waiting) THEN Min({deficit[r] + Quantum, MaxBank}) ELSE 0

DrrLpt ==
  /\ Runs("DRR_LPT")
  /\ deficit' = [r \in Requests |-> ToppedUp(r)]
  /\ earned' = [r \in Requests |->
                  IF r \in ToSet(running) \cup ToSet(waiting)
                    THEN Min({PromptOf[r], earned[r] + Quantum}) ELSE earned[r]]
  /\ UNCHANGED <<budget, threshold, protect, congest>>

(* An oracle's phase is what the clock says.                               *)
OracleLpt ==
  /\ Runs("ORACLE_LPT")
  /\ threshold' \in {0, HiThreshold}
  /\ UNCHANGED <<budget, protect, congest, deficit, earned>>

OracleBudget ==
  /\ \E c \in {"ORACLE_BUDGET", "ORACLE_BUDGET_RESERVE"} : Runs(c)
  /\ budget' \in {Lo, Hi}
  /\ UNCHANGED <<control, earned>>

WhalesRunning == {r \in ToSet(running) : Prefilling(r) /\ PromptOf[r] > WhaleTok}
WhalesWaiting == {r \in ToSet(waiting) : PromptOf[r] > WhaleTok}

(* Mutant: a whale is looked for among the running requests only.          *)
RelaxedByRunning(whales) == WhalesRunning = {}

Relaxed(whales) == whales = {}

WhaleAware ==
  /\ Runs("WHALE_AWARE_BUDGET")
  /\ budget' = IF Relaxed(WhalesRunning) THEN Lo ELSE Hi
  /\ UNCHANGED <<control, earned>>

WhaleAwareV2 ==
  /\ Runs("WHALE_AWARE_BUDGET_V2")
  /\ budget' = IF Relaxed(WhalesRunning \cup WhalesWaiting) THEN Lo ELSE Hi
  /\ UNCHANGED <<control, earned>>

StaticReserve ==
  /\ Runs("STATIC_RESERVE")
  /\ budget' = Hi
  /\ UNCHANGED <<control, earned>>

Backlog ==
  MapThenSumSet(Left, ToSet(running)) + MapThenSumSet(LAMBDA r : PromptOf[r], ToSet(waiting))

BacklogAware ==
  /\ Runs("BACKLOG_AWARE_BUDGET")
  /\ budget' = IF Relaxed(WhalesRunning \cup WhalesWaiting) /\ Backlog <= BacklogThresh
                 THEN Lo ELSE Hi
  /\ UNCHANGED <<control, earned>>

(* _step_lengthgate, the chunk controller's mode that reads the queues.    *)
LengthGate ==
  /\ Runs("LENGTHGATE")
  /\ budget' = IF LongestLeft > Gate THEN Hi ELSE Lo
  /\ UNCHANGED <<control, earned>>

RunBlock ==
  \/ AdaptiveLpt \/ FairshareLpt \/ FairshareBudget \/ FairshareBoth \/ FairshareReserve
  \/ DrrLpt \/ OracleLpt \/ OracleBudget \/ WhaleAware \/ WhaleAwareV2 \/ StaticReserve
  \/ BacklogAware \/ LengthGate

-----------------------------------------------------------------------------
(* The loops.                                                              *)

(* Mutant: the order of self.running is kept.                              *)
RunningAsItIs == running

(* sorted(), which is stable: the decoding requests first.                 *)
RunningOrder ==
  IF ToSet(file) \cap Reserving = {} THEN running
  ELSE Only(running, {r \in Requests : ~Prefilling(r)}) \o Only(running, {r \in Requests : Prefilling(r)})

BlocksDone ==
  /\ phase = "blocks" /\ todo = <<>>
  /\ phase' = "running"
  /\ running' = RunningOrder /\ todo' = RunningOrder
  /\ UNCHANGED <<file, waiting, skipped, progress, budget, granted, control, earned>>

Need(r) == IF Prefilling(r) THEN Left(r) ELSE 1

(* Mutant: what is left of the budget is not looked at.                    *)
AllowedByCap(r, least) ==
  Min({Need(r), IF Enabled("DRR_LPT") THEN Max({least, deficit[r]})
                ELSE IF threshold > 0 THEN threshold ELSE Need(r)})

(* What r may have; with DRR_LPT its credit, and at least `least`.         *)
Allowed(r, least) ==
  LET cap == IF Enabled("DRR_LPT") THEN Max({least, deficit[r]})
             ELSE IF threshold > 0 THEN threshold ELSE Need(r)
  IN  Min({Need(r), cap, budget})

(* Mutant: credit goes below zero.                                         *)
GrantOnCredit(r, tokens) ==
  /\ granted' = [granted EXCEPT ![r] = tokens]
  /\ budget' = budget - tokens
  /\ deficit' = IF Enabled("DRR_LPT") THEN [deficit EXCEPT ![r] = @ - tokens] ELSE deficit

(* Mutant: a grant is not paid for.                                        *)
GrantUnpaid(r, tokens) ==
  /\ granted' = [granted EXCEPT ![r] = tokens]
  /\ budget' = budget - tokens
  /\ UNCHANGED deficit

Grant(r, tokens) ==
  /\ granted' = [granted EXCEPT ![r] = tokens]
  /\ budget' = budget - tokens
  /\ deficit' = IF Enabled("DRR_LPT") THEN [deficit EXCEPT ![r] = Max({0, @ - tokens})]
                ELSE deficit

(* The running loop; a request that would get nothing is passed over.      *)
Serve ==
  /\ phase = "running" /\ todo # <<>> /\ budget > 0
  /\ LET r == Head(todo) IN Grant(r, Allowed(r, 0))
  /\ todo' = Tail(todo)
  /\ UNCHANGED <<file, phase, queues, progress, threshold, protect, congest, earned>>

RunningDone ==
  /\ phase = "running" /\ (todo = <<>> \/ budget = 0)
  /\ phase' = "waiting" /\ todo' = skipped \o waiting
  /\ UNCHANGED <<file, queues, progress, budget, granted, control, earned>>

Comes(r) ==
  /\ phase = "waiting" /\ todo # <<>> /\ budget > 0 /\ Len(running) < MaxRunning
  /\ r = Head(todo)
  /\ todo' = Tail(todo)

Without(q, r) == Only(q, Requests \ {r})

Admit(r) ==
  /\ Comes(r)
  /\ Grant(r, Allowed(r, 1))
  /\ running' = Append(running, r)
  /\ waiting' = Without(waiting, r) /\ skipped' = Without(skipped, r)
  /\ UNCHANGED <<file, phase, progress, threshold, protect, congest, earned>>

(* What it waits for is not there yet.                                     *)
Skip(r) ==
  /\ Comes(r) /\ r \in Blockable
  /\ waiting' = Without(waiting, r) /\ skipped' = Append(Without(skipped, r), r)
  /\ UNCHANGED <<file, phase, running, progress, budget, granted, control, earned>>

(* The round's tokens are computed, and the finished requests leave.       *)
EndRound ==
  /\ phase = "waiting" /\ (todo = <<>> \/ budget = 0 \/ Len(running) = MaxRunning)
  /\ phase' = "idle" /\ todo' = <<>>
  /\ computed' = [r \in Requests |-> Min({PromptOf[r], computed[r] + granted[r]})]
  /\ output' = [r \in Requests |->
                  IF r \in ToSet(running) /\ granted[r] = Need(r) THEN output[r] + 1 ELSE output[r]]
  /\ running' = Only(running, {r \in Requests : output'[r] < OutputOf[r]})
  /\ UNCHANGED <<file, waiting, skipped, budget, granted, control, earned>>

ScheduleStep ==
  \/ Begin \/ RunBlock \/ BlocksDone \/ Serve \/ RunningDone \/ EndRound
  \/ \E r \in Requests : Admit(r) \/ Skip(r)

Next ==
  \/ \E c \in Controllers : Install(c)
  \/ \E enabled \in SUBSET ToSet(file) : Start(enabled)
  \/ \E r \in Requests : Arrive(r)
  \/ ScheduleStep

Spec == Init /\ [][Next]_vars

(* The engine steps while it has requests, and what blocks a request ends. *)
FairSpec ==
  /\ Spec
  /\ WF_vars(ScheduleStep)
  /\ \A r \in Blockable : SF_vars(Admit(r))

-----------------------------------------------------------------------------
(* Properties.                                                             *)

(* Two stacked controllers run in the order of their age, whatever the     *)
(* order of the installations that were not refused: the budget of the     *)
(* newest stands.  (The length gate belongs to no list.)                   *)
NewestRunsLast ==
  \A j, k \in DOMAIN file :
    (j < k /\ {file[j], file[k]} \subseteq Family) =>
      file[k] = file[j] \/ Generation(file[k]) < Generation(file[j])

(* The requests that decode in this round, from what it is given at its    *)
(* end, and those that got nothing.                                        *)
Decoding == {r \in ToSet(running) : ~Prefilling(r)}
LeftOut == {r \in Decoding : granted[r] = 0}

(* Under a controller with decode-reserve no request gets prompt tokens in *)
(* a round that leaves out a decoding one (hotpatch_oracle_budget_reserve: *)
(* "unconditionally, every round").                                        *)
DecodeFirst ==
  (ToSet(file) \cap Reserving # {} /\ phase \in {"running", "waiting"}) =>
    \A r \in Requests : Prefilling(r) /\ granted[r] > 0 => LeftOut = {}

(* Under DRR_LPT a request never has more of its prompt than it earned, a  *)
(* quantum a round, nor more than the bank at once ("DRR can't reintroduce *)
(* an unbounded freeze").  A request that was skipped has a token extra.   *)
EarnedOnly ==
  Enabled("DRR_LPT") =>
    \A r \in Requests \ Blockable : computed[r] <= earned[r] /\ granted[r] <= MaxBank

(* A long prompt that was never skipped is cut into slices, from the first *)
(* to the last one, by the adaptive threshold and by the budget of the     *)
(* second whale detector and of the backlog one; by the first one once it  *)
(* runs (hotpatch_whale_aware_budget_v2: "catching a whale one round       *)
(* earlier, before its first chunk lands").                                *)
CutFrom(r) ==
  CASE file = <<"ADAPTIVE_LPT">> /\ PromptOf[r] > Gate -> Max({Protect, ExitGate})
    [] file \in {<<"WHALE_AWARE_BUDGET_V2">>, <<"BACKLOG_AWARE_BUDGET">>}
         /\ PromptOf[r] > WhaleTok -> Hi
    [] file = <<"WHALE_AWARE_BUDGET">> /\ PromptOf[r] > WhaleTok /\ computed[r] > 0 -> Hi
    [] OTHER -> Left(r)

WhalesSliced ==
  phase = "waiting" =>
    \A r \in Requests \ Blockable : Prefilling(r) => granted[r] <= CutFrom(r)

(* The fair share with reserve counts a token for each running request and *)
(* one more at least, and on its own threshold; with all the requests      *)
(* running that the tokens allow, that is one too many when a later block  *)
(* replaces the threshold.                                                 *)
OverReserved ==
  /\ MaxRunning = MaxScheduled
  /\ Enabled("FAIRSHARE_RESERVE") /\ (Enabled("DRR_LPT") \/ Enabled("ORACLE_LPT"))

Scheduled == MapThenSumSet(LAMBDA r : granted[r], Requests)

(* A round schedules no more than max_num_scheduled_tokens, which vLLM     *)
(* asserts (quoted in hotpatch_ff_tokens.py), whichever admissible stack   *)
(* runs, but for the one above.                                            *)
ScheduledWithinMax == ~OverReserved => Scheduled <= MaxScheduled

(* No controller starves a request for good.                               *)
EveryRequestServed ==
  \A r \in Requests : r \in Present ~> Done(r)
=============================================================================
