---------------------------- MODULE ReplayHarness ----------------------------
(***************************************************************************)
(* The load driver src/replay_sharegpt.py.  It replays conversations, each *)
(* turn after turn in a thread of its own, and writes a record for every   *)
(* request when all of them have ended.  How the threads are started is    *)
(* the mode's: at their arrival times (trace, phase, rate), as many as the *)
(* schedule asks for at the time (schedule), or by a number of workers     *)
(* that take the next conversation when they have ended one (stagger,      *)
(* pool).                                                                  *)
(*                                                                         *)
(* A request is answered, or fails with one of the errors that             *)
(* stream_request expects, or fails with another one, such as a connection *)
(* reset in mid-answer, which ends the thread.  Prompts, history and the   *)
(* figures in a record are left out.                                       *)
(***************************************************************************)
EXTENDS Integers, FiniteSetsExt, SequencesExt

CONSTANTS
  NumConvs,        \* the conversations, or rows of the trace
  Turns,           \* requests in a conversation
  Concurrency,
  Schedule,        \* --concurrency-schedule: threads and duration of its phases
  Duration,
  MaxLaunches      \* bound: conversations the schedule launches

OpenModes == {"trace", "phase", "rate"}
WorkerModes == {"stagger", "pool"}
Modes == OpenModes \cup WorkerModes \cup {"schedule"}

ASSUME HarnessAssumption ==
  /\ {NumConvs, Turns, Concurrency, Duration, MaxLaunches} \subseteq Nat \ {0}
  /\ Schedule # <<>> /\ Schedule \in Seq(Nat \X (Nat \ {0}))

VARIABLES
  mode,
  main,       \* launching, joining or written: where the main thread is
  conv,       \* new, live, ending, over: the thread of each conversation
  turn,       \* the turns each has done
  launched,   \* conv_seq, or how many were taken from the queue
  threads,    \* schedule: the threads that the main thread still knows
  inFlight, room, elapsed,
  worker,     \* the conversation of each worker, 0 for none
  records, output,
  lost,       \* history: the conversations that an unexpected error ended
  target      \* history: the concurrency the room was computed for

loop == <<threads, inFlight, room, elapsed, target>>
vars == <<mode, main, conv, turn, launched, loop, worker, records, output, lost>>

Convs == 1..Max({NumConvs, MaxLaunches})
Workers == 1..Concurrency
Stopped == -1
Total == IF mode = "schedule" THEN MaxLaunches ELSE NumConvs
TurnsOf == IF mode = "trace" THEN 1 ELSE Turns
Alive == {c \in Convs : conv[c] \in {"live", "ending"}}

Init ==
  /\ mode \in Modes
  /\ main = "launching"
  /\ conv = [c \in Convs |-> "new"] /\ turn = [c \in Convs |-> 0]
  /\ launched = 0
  /\ threads = {} /\ inFlight = 0 /\ room = 0 /\ elapsed = 0 /\ target = 0
  /\ worker = [w \in Workers |-> 0]
  /\ records = {} /\ output = {} /\ lost = {}

-----------------------------------------------------------------------------
(* A conversation's thread.                                                *)

(* Mutant: a failed request is printed, not recorded.                      *)
AnswersRecorded(c, result) ==
  records' = IF result = "failed" THEN records
             ELSE records \cup {[conv |-> c, turn |-> turn[c] + 1, result |-> result]}

Recorded(c, result) ==
  records' = records \cup {[conv |-> c, turn |-> turn[c] + 1, result |-> result]}

(* A request is answered or fails; either is recorded, and the next turn   *)
(* follows.                                                                *)
Request(c, result) ==
  /\ conv[c] = "live" /\ turn[c] < TurnsOf
  /\ Recorded(c, result)
  /\ turn' = [turn EXCEPT ![c] = @ + 1]
  /\ UNCHANGED <<mode, main, conv, launched, loop, worker, output, lost>>

(* Another error ends the conversation, and a staggered worker with it; a  *)
(* pool's worker goes on.                                                  *)
Breaks(c) ==
  /\ conv[c] = "live" /\ turn[c] < TurnsOf
  /\ conv' = [conv EXCEPT ![c] = "ending"]
  /\ lost' = lost \cup {c}
  /\ worker' = [w \in Workers |->
                  IF worker[w] # c THEN worker[w] ELSE IF mode = "stagger" THEN Stopped ELSE 0]
  /\ UNCHANGED <<mode, main, turn, launched, loop, records, output>>

Ends(c) ==
  /\ conv[c] = "live" /\ turn[c] = TurnsOf
  /\ conv' = [conv EXCEPT ![c] = "ending"]
  /\ worker' = [w \in Workers |-> IF worker[w] = c THEN 0 ELSE worker[w]]
  /\ UNCHANGED <<mode, main, turn, launched, loop, records, output, lost>>

(* Mutant: only a thread that ends well is counted down.                   *)
CountDownIfWell(c) == inFlight' = IF c \in lost THEN inFlight ELSE inFlight - 1

CountDown(c) == inFlight' = inFlight - 1

(* The finally clause of _run_one, and the thread is gone.                 *)
Leaves(c) ==
  /\ conv[c] = "ending"
  /\ conv' = [conv EXCEPT ![c] = "over"]
  /\ IF mode = "schedule" THEN CountDown(c) ELSE UNCHANGED inFlight
  /\ UNCHANGED <<mode, main, turn, launched, threads, room, elapsed, target, worker, records,
                 output, lost>>

-----------------------------------------------------------------------------
(* The main thread and the workers.                                        *)

Launch ==
  /\ launched < Total
  /\ launched' = launched + 1
  /\ conv' = [conv EXCEPT ![launched + 1] = "live"]

(* At its arrival time, however many are alive.                            *)
Arrival ==
  /\ mode \in OpenModes /\ main = "launching"
  /\ Launch
  /\ UNCHANGED <<mode, main, turn, loop, worker, records, output, lost>>

(* get_nowait: a worker that runs nothing takes the next conversation.     *)
Take(w) ==
  /\ mode \in WorkerModes /\ worker[w] = 0
  /\ Launch
  /\ worker' = [worker EXCEPT ![w] = launched + 1]
  /\ UNCHANGED <<mode, main, turn, loop, records, output, lost>>

(* phase_at: the schedule cycles for ever; if rounding leaves no phase, the *)
(* last one.                                                               *)
UpTo(k) == MapThenSumSet(LAMBDA j : Schedule[j][2], 1..k)
Within(k, t) == t % UpTo(Len(Schedule)) < UpTo(k)

TargetAt(t) ==
  LET here == {k \in DOMAIN Schedule : Within(k, t)}
  IN  Schedule[IF here = {} THEN Len(Schedule) ELSE Min(here)][1]

(* The room is read under the lock, and used without it.                   *)
ReadRoom ==
  /\ mode = "schedule" /\ main = "launching"
  /\ elapsed < Duration
  /\ target' = TargetAt(elapsed)
  /\ room' = Max({0, target' - inFlight})
  /\ main' = "filling"
  /\ UNCHANGED <<mode, conv, turn, launched, threads, inFlight, elapsed, worker, records, output,
                 lost>>

Fill ==
  /\ main = "filling" /\ room > 0
  /\ Launch
  /\ room' = room - 1 /\ inFlight' = inFlight + 1
  /\ threads' = threads \cup {launched + 1}
  /\ UNCHANGED <<mode, main, turn, elapsed, target, worker, records, output, lost>>

(* Mutant: the threads that are alive are pruned.                          *)
PrunedOfTheLiving == threads \ Alive

Pruned == threads \cap Alive

(* Prune and sleep; when everything the bound allows is launched, the rest *)
(* of the duration passes.                                                 *)
EndOfLoop ==
  /\ main = "filling" /\ (room = 0 \/ launched = Total)
  /\ main' = "launching"
  /\ threads' = Pruned
  /\ elapsed' \in (elapsed + 1)..Duration
  /\ room' = 0
  /\ UNCHANGED <<mode, conv, turn, launched, inFlight, target, worker, records, output, lost>>

Launched ==
  CASE mode = "schedule"    -> elapsed = Duration
    [] mode \in OpenModes   -> launched = Total
    [] mode \in WorkerModes -> TRUE

Joins ==
  /\ main = "launching" /\ Launched
  /\ main' = "joining"
  /\ UNCHANGED <<mode, conv, turn, launched, loop, worker, records, output, lost>>

(* What the main thread joins has ended: the threads it knows, or the      *)
(* workers, which go on until the queue is empty.                          *)
Joined ==
  IF mode = "schedule" THEN threads \cap Alive = {}
  ELSE /\ Alive = {}
       /\ mode \in WorkerModes => launched = Total \/ \A w \in Workers : worker[w] = Stopped

WriteOutput ==
  /\ main = "joining" /\ Joined
  /\ main' = "written" /\ output' = records
  /\ UNCHANGED <<mode, conv, turn, launched, loop, worker, records, lost>>

Next ==
  \/ \E c \in Convs :
       \/ \E result \in {"answered", "failed"} : Request(c, result)
       \/ Breaks(c) \/ Ends(c) \/ Leaves(c)
  \/ Arrival
  \/ \E w \in Workers : Take(w)
  \/ ReadRoom \/ Fill \/ EndOfLoop \/ Joins \/ WriteOutput

Spec == Init /\ [][Next]_vars

-----------------------------------------------------------------------------
(* Properties.                                                             *)

(* The count that the schedule is kept by is that of the threads alive,    *)
(* whatever ended the others, and the room that was computed from it does  *)
(* not lift them above the schedule by the time it is used.                *)
InFlightExact ==
  mode = "schedule" =>
    /\ inFlight = Cardinality(Alive)
    /\ room > 0 => inFlight + room <= target

(* The output has a record for every request that was to be made ("one     *)
(* record per request"), failed ones included, except what is lost to an   *)
(* unexpected error: the rest of the conversation it hit and, with         *)
(* staggered workers, what is left in the queue when it has hit them all.  *)
EveryRequestRecorded ==
  main = "written" =>
    LET missing == {c \in 1..Total :
                      /\ mode = "schedule" => c <= launched
                      /\ {k \in 1..TurnsOf : \E r \in output : r.conv = c /\ r.turn = k}
                           # 1..(IF c \in lost THEN turn[c] ELSE TurnsOf)}
    IN  missing # {} => mode = "stagger" /\ Cardinality(lost) = Concurrency
                          /\ \A c \in missing : c > launched
=============================================================================
