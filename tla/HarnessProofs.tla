---------------------------- MODULE HarnessProofs ----------------------------
(* What TLAPS proves about ReplayHarness, for every number of              *)
(* conversations, turns and workers and every schedule.                    *)
EXTENDS ReplayHarness, FiniteSetTheorems, WellFoundedInduction, TLAPS

(* The inductive invariant.  First the types.                              *)
Types ==
  /\ mode \in Modes
  /\ main \in {"launching", "filling", "joining", "written"}
  /\ conv \in [Convs -> {"new", "live", "ending", "over"}]
  /\ turn \in [Convs -> Nat]
  /\ launched \in 0..Total
  /\ inFlight \in Int /\ room \in Nat /\ target \in Nat
  /\ worker \in [Workers -> Int]
  /\ lost \subseteq Convs

(* What has begun, and how far it is.                                      *)
Progress ==
  \A c \in Convs :
    /\ conv[c] = "new" <=> c > launched
    /\ conv[c] = "new" => turn[c] = 0
    /\ conv[c] \in {"new", "live"} => c \notin lost
    /\ turn[c] <= TurnsOf
    /\ conv[c] \in {"ending", "over"} /\ c \notin lost => turn[c] = TurnsOf

(* The counting of the schedule.                                           *)
Counting ==
  IF mode = "schedule"
    THEN /\ inFlight = Cardinality(Alive)
         /\ Alive \subseteq threads
         /\ room > 0 => inFlight + room <= target
    ELSE main # "filling"

(* A worker runs one living conversation, and one that has stopped took a  *)
(* conversation with it.                                                   *)
Working ==
  IF mode \in WorkerModes
    THEN /\ \A w \in Workers : worker[w] \notin {0, Stopped} =>
              worker[w] \in Convs /\ conv[worker[w]] = "live"
         /\ \A v, w \in Workers : worker[v] \notin {0, Stopped} /\ worker[v] = worker[w] => v = w
         /\ \A c \in Convs : conv[c] = "live" => \E w \in Workers : worker[w] = c
         /\ IF mode = "stagger"
              THEN Cardinality(lost) = Cardinality({w \in Workers : worker[w] = Stopped})
              ELSE \A w \in Workers : worker[w] # Stopped
    ELSE \A w \in Workers : worker[w] = 0

(* The records are those of the turns done.                                *)
Recording ==
  \A c \in Convs, k \in Nat :
    (\E r \in records : r.conv = c /\ r.turn = k) <=> k \in 1..turn[c]

(* The main thread has waited for all of it.                               *)
Waiting ==
  /\ mode \in OpenModes /\ main \in {"joining", "written"} => launched = Total
  /\ main = "written" =>
       /\ output = records /\ Alive = {}
       /\ mode \in WorkerModes => launched = Total \/ \A w \in Workers : worker[w] = Stopped

IInv == Types /\ Progress /\ Counting /\ Working /\ Recording /\ Waiting

-----------------------------------------------------------------------------
(* The larger and the smallest of some numbers.                            *)
LEMMA MaxOfTwo ==
  ASSUME NEW a \in Int, NEW b \in Int
  PROVE  Max({a, b}) \in {a, b} /\ Max({a, b}) >= a /\ Max({a, b}) >= b
<1>1. \E x \in {a, b} : \A y \in {a, b} : x >= y
  <2>1. CASE a >= b BY <2>1
  <2>2. CASE a < b BY <2>2
  <2>3. QED BY <2>1, <2>2
<1>2. QED BY <1>1 DEF Max

LEMMA MinIsMember ==
  ASSUME NEW S \in SUBSET Nat, S # {}
  PROVE  Min(S) \in S
<1> DEFINE R == OpToRel(<, Nat)
<1>1. PICK x \in S : \A y \in S : ~ (<<y, x>> \in R)
  <2> HIDE DEF R
  <2>1. IsWellFoundedOn(R, Nat) BY NatLessThanWellFounded DEF R
  <2>2. QED BY <2>1, WFMin
<1>2. \A y \in S : x <= y
  <2> SUFFICES ASSUME NEW y \in S PROVE x <= y
    OBVIOUS
  <2>1. ~ (y < x)
    <3>1. <<y, x>> \in Nat \X Nat OBVIOUS
    <3>2. ~ (<<y, x>> \in {ss \in Nat \X Nat : ss[1] < ss[2]}) BY <1>1 DEF OpToRel
    <3>3. QED BY <3>1, <3>2
  <2>2. QED BY <2>1
<1>3. QED BY <1>2 DEF Min

(* The conversations are a finite set of numbers, enough for the mode.     *)
LEMMA ConvsType ==
  /\ Convs \subseteq Nat \ {0} /\ IsFiniteSet(Convs)
  /\ Total \in Nat /\ \A n \in Nat : n < Total => n + 1 \in Convs
  /\ TurnsOf \in Nat \ {0}
<1>1. /\ NumConvs \in Nat \ {0} /\ MaxLaunches \in Nat \ {0} /\ Turns \in Nat \ {0}
  BY HarnessAssumption
<1> DEFINE m == Max({NumConvs, MaxLaunches})
<1>2. m \in {NumConvs, MaxLaunches} /\ m >= NumConvs /\ m >= MaxLaunches
  BY <1>1, MaxOfTwo
<1> HIDE DEF m
<1>3. IsFiniteSet(1..m) BY <1>1, <1>2, FS_Interval
<1>4. Convs = 1..m BY DEF Convs, m
<1>5. QED BY <1>1, <1>2, <1>3, <1>4 DEF Total, TurnsOf

LEMMA TargetType == \A t : TargetAt(t) \in Nat
<1> SUFFICES ASSUME NEW t PROVE TargetAt(t) \in Nat
  OBVIOUS
<1> DEFINE here == {k \in DOMAIN Schedule : Within(k, t)}
           phase == IF here = {} THEN Len(Schedule) ELSE Min(here)
<1>1. Schedule \in Seq(Nat \X (Nat \ {0})) /\ Schedule # <<>>
  BY HarnessAssumption
<1>2. DOMAIN Schedule = 1..Len(Schedule) /\ Len(Schedule) \in Nat \ {0}
  BY <1>1
<1>3. phase \in DOMAIN Schedule
  <2>1. here \in SUBSET Nat /\ here \subseteq DOMAIN Schedule BY <1>2
  <2> HIDE DEF here
  <2>2. CASE here = {} BY <2>2, <1>2
  <2>3. CASE here # {} BY <2>3, <2>1, MinIsMember
  <2>4. QED BY <2>2, <2>3
<1>4. TargetAt(t) = Schedule[phase][1] BY DEF TargetAt
<1> HIDE DEF phase
<1>5. Schedule[phase] \in Nat \X (Nat \ {0}) BY <1>1, <1>2, <1>3
<1>6. QED BY <1>4, <1>5

-----------------------------------------------------------------------------
LEMMA InvInit == Init => IInv
<1> SUFFICES ASSUME Init PROVE IInv
  OBVIOUS
<1>1. Alive = {} BY DEF Init, Alive
<1>2. {w \in Workers : worker[w] = Stopped} = {} BY DEF Init, Stopped
<1>3. Types BY ConvsType DEF Types, Init
<1>4. Progress BY ConvsType DEF Progress, Init
<1>5. Counting BY <1>1, FS_EmptySet DEF Counting, Init
<1>6. Working BY <1>2, FS_EmptySet DEF Working, Init, Stopped
<1>7. Recording BY DEF Recording, Init
<1>8. Waiting BY DEF Waiting, Init
<1>9. QED BY <1>3, <1>4, <1>5, <1>6, <1>7, <1>8 DEF IInv

(* Every action, under the types, by which variables it changes.           *)
LEMMA TypesStep == IInv /\ [Next]_vars => Types'
<1> SUFFICES ASSUME IInv, [Next]_vars PROVE Types'
  OBVIOUS
<1> USE DEF IInv, Types, Total
<1>1. ASSUME NEW c \in Convs, NEW result \in {"answered", "failed"}, Request(c, result)
      PROVE  Types'
  BY <1>1 DEF Request, loop
<1>2. ASSUME NEW c \in Convs, Breaks(c) PROVE Types'
  BY <1>2 DEF Breaks, loop, Stopped
<1>3. ASSUME NEW c \in Convs, Ends(c) PROVE Types'
  BY <1>3 DEF Ends, loop
<1>4. ASSUME NEW c \in Convs, Leaves(c) PROVE Types'
  BY <1>4 DEF Leaves, CountDown
<1>5. ASSUME Launch PROVE launched' \in 0..Total /\ launched + 1 \in Convs
                          /\ conv' \in [Convs -> {"new", "live", "ending", "over"}]
  BY <1>5, ConvsType DEF Launch
<1>6. CASE Arrival BY <1>5, <1>6 DEF Arrival, loop
<1>7. ASSUME NEW w \in Workers, Take(w) PROVE Types'
  BY <1>5, <1>7 DEF Take, loop
<1>8. CASE ReadRoom
  <2>1. target' \in Nat BY <1>8, TargetType DEF ReadRoom
  <2>2. target' - inFlight \in Int BY <2>1
  <2> DEFINE free == target' - inFlight
  <2>3. Max({0, free}) \in Nat
    <3> HIDE DEF free
    <3>1. free \in Int BY <2>2 DEF free
    <3>2. QED BY <3>1, MaxOfTwo
  <2>4. room' \in Nat BY <1>8, <2>3 DEF ReadRoom
  <2>5. QED BY <1>8, <2>1, <2>4 DEF ReadRoom
<1>9. CASE Fill BY <1>5, <1>9 DEF Fill
<1>10. CASE EndOfLoop BY <1>10 DEF EndOfLoop
<1>11. CASE Joins BY <1>11 DEF Joins, loop
<1>12. CASE WriteOutput BY <1>12 DEF WriteOutput, loop
<1>13. CASE UNCHANGED vars BY <1>13 DEF vars, loop
<1>14. QED
  BY <1>1, <1>2, <1>3, <1>4, <1>6, <1>7, <1>8, <1>9, <1>10, <1>11, <1>12, <1>13 DEF Next

(* A launch begins the first conversation that is new.                     *)
LEMMA LaunchProgress ==
  ASSUME IInv, Launch, UNCHANGED <<mode, turn, lost>> PROVE Progress'
BY ConvsType DEF IInv, Types, Progress, Launch, TurnsOf

LEMMA ProgressStep == IInv /\ [Next]_vars => Progress'
<1> SUFFICES ASSUME IInv, [Next]_vars PROVE Progress'
  OBVIOUS
<1>0. Convs \subseteq Nat /\ TurnsOf \in Nat /\ launched \in Nat
  BY ConvsType DEF IInv, Types
<1> USE <1>0 DEF IInv, Types, Progress
<1>1. ASSUME NEW c \in Convs, NEW result \in {"answered", "failed"}, Request(c, result)
      PROVE  Progress'
  BY <1>1 DEF Request, TurnsOf
<1>2. ASSUME NEW c \in Convs, Breaks(c) PROVE Progress'
  BY <1>2 DEF Breaks, TurnsOf
<1>3. ASSUME NEW c \in Convs, Ends(c) PROVE Progress'
  BY <1>3 DEF Ends, TurnsOf
<1>4. ASSUME NEW c \in Convs, Leaves(c) PROVE Progress'
  BY <1>4 DEF Leaves, TurnsOf
<1>6. CASE Arrival BY LaunchProgress, <1>6 DEF Arrival
<1>7. ASSUME NEW w \in Workers, Take(w) PROVE Progress'
  BY LaunchProgress, <1>7 DEF Take
<1>8. CASE ReadRoom BY <1>8 DEF ReadRoom, TurnsOf
<1>9. CASE Fill BY LaunchProgress, <1>9 DEF Fill
<1>10. CASE EndOfLoop BY <1>10 DEF EndOfLoop, TurnsOf
<1>11. CASE Joins BY <1>11 DEF Joins, TurnsOf
<1>12. CASE WriteOutput BY <1>12 DEF WriteOutput, TurnsOf
<1>13. CASE UNCHANGED vars BY <1>13 DEF vars, TurnsOf
<1>14. QED
  BY <1>1, <1>2, <1>3, <1>4, <1>6, <1>7, <1>8, <1>9, <1>10, <1>11, <1>12, <1>13 DEF Next

-----------------------------------------------------------------------------
(* The counting of the schedule.                                           *)
LEMMA AliveFinite == ASSUME IInv PROVE IsFiniteSet(Alive) /\ Cardinality(Alive) \in Nat
BY ConvsType, FS_Subset, FS_CardinalityType DEF Alive

(* A launch makes one more alive.                                          *)
LEMMA LaunchAlive ==
  ASSUME IInv, Launch
  PROVE  /\ Alive' = Alive \cup {launched + 1}
         /\ Cardinality(Alive') = Cardinality(Alive) + 1
<1>1. launched + 1 \in Convs /\ launched + 1 \notin Alive
  BY ConvsType DEF IInv, Types, Progress, Launch, Alive
<1>2. Alive' = Alive \cup {launched + 1}
  BY <1>1 DEF IInv, Types, Launch, Alive
<1>3. QED BY <1>1, <1>2, AliveFinite, FS_AddElement

LEMMA CountingStep == IInv /\ [Next]_vars => Counting'
<1> SUFFICES ASSUME IInv, [Next]_vars PROVE Counting'
  OBVIOUS
<1> USE DEF Counting
<1>0. Counting /\ inFlight \in Int /\ room \in Nat /\ target \in Nat /\ Cardinality(Alive) \in Nat
  BY AliveFinite DEF IInv, Types
<1>1. ASSUME NEW c \in Convs, NEW result \in {"answered", "failed"}, Request(c, result)
      PROVE  Counting'
  BY <1>0, <1>1 DEF Request, Alive, loop
<1>2. ASSUME NEW c \in Convs, Breaks(c) PROVE Counting'
  <2>1. Alive' = Alive BY <1>2 DEF Breaks, Alive, IInv, Types
  <2>2. QED BY <1>0, <1>2, <2>1 DEF Breaks, loop
<1>3. ASSUME NEW c \in Convs, Ends(c) PROVE Counting'
  <2>1. Alive' = Alive BY <1>3 DEF Ends, Alive, IInv, Types
  <2>2. QED BY <1>0, <1>3, <2>1 DEF Ends, loop
<1>4. ASSUME NEW c \in Convs, Leaves(c) PROVE Counting'
  <2>1. c \in Alive /\ Alive' = Alive \ {c} BY <1>4 DEF Leaves, Alive, IInv, Types
  <2>2. Cardinality(Alive') = Cardinality(Alive) - 1
    BY <2>1, AliveFinite, FS_RemoveElement
  <2>3. QED BY <1>0, <1>4, <2>1, <2>2 DEF Leaves, CountDown
<1>6. CASE Arrival BY <1>0, <1>6 DEF Arrival, OpenModes
<1>7. ASSUME NEW w \in Workers, Take(w) PROVE Counting'
  BY <1>0, <1>7 DEF Take, WorkerModes
<1>8. CASE ReadRoom
  <2>1. target' \in Nat BY <1>8, TargetType DEF ReadRoom
  <2> DEFINE free == target' - inFlight
  <2>2. free \in Int BY <1>0, <2>1
  <2>3. room' = Max({0, free}) BY <1>8 DEF ReadRoom
  <2>4. room' \in {0, free}
    <3> HIDE DEF free
    <3>1. QED BY <2>2, <2>3, MaxOfTwo
  <2>5. Alive' = Alive BY <1>8 DEF ReadRoom, Alive
  <2>6. QED BY <1>0, <1>8, <2>1, <2>4, <2>5 DEF ReadRoom
<1>9. CASE Fill
  <2>1. Alive' = Alive \cup {launched + 1} /\ Cardinality(Alive') = Cardinality(Alive) + 1
    BY <1>9, LaunchAlive DEF Fill
  <2>2. QED BY <1>0, <1>9, <2>1 DEF Fill
<1>10. CASE EndOfLoop
  <2>1. Alive' = Alive BY <1>10 DEF EndOfLoop, Alive
  <2>2. QED BY <1>0, <1>10, <2>1 DEF EndOfLoop, Pruned
<1>11. CASE Joins BY <1>0, <1>11 DEF Joins, Alive, loop
<1>12. CASE WriteOutput BY <1>0, <1>12 DEF WriteOutput, Alive, loop
<1>13. CASE UNCHANGED vars BY <1>0, <1>13 DEF vars, Alive, loop
<1>14. QED
  BY <1>1, <1>2, <1>3, <1>4, <1>6, <1>7, <1>8, <1>9, <1>10, <1>11, <1>12, <1>13 DEF Next

-----------------------------------------------------------------------------
(* The records.                                                            *)
LEMMA RecordingStep == IInv /\ [Next]_vars => Recording'
<1> SUFFICES ASSUME IInv, [Next]_vars PROVE Recording'
  OBVIOUS
<1>0. Recording /\ turn \in [Convs -> Nat] BY DEF IInv, Types
<1> USE DEF Recording
<1>1. ASSUME NEW c \in Convs, NEW result \in {"answered", "failed"}, Request(c, result)
      PROVE  Recording'
  <2> SUFFICES ASSUME NEW d \in Convs, NEW k \in Nat
               PROVE  (\E r \in records' : r.conv = d /\ r.turn = k) <=> k \in 1..turn'[d]
    OBVIOUS
  <2>1. records' = records \cup {[conv |-> c, turn |-> turn[c] + 1, result |-> result]}
    BY <1>1 DEF Request, Recorded
  <2>2. turn' = [turn EXCEPT ![c] = turn[c] + 1] BY <1>1 DEF Request
  <2>3. (\E r \in records' : r.conv = d /\ r.turn = k) <=>
          \/ \E r \in records : r.conv = d /\ r.turn = k
          \/ c = d /\ turn[c] + 1 = k
    <3> DEFINE new == [conv |-> c, turn |-> turn[c] + 1, result |-> result]
    <3>1. new.conv = c /\ new.turn = turn[c] + 1 OBVIOUS
    <3>2. records' = records \cup {new} BY <2>1
    <3> HIDE DEF new
    <3>3. QED BY <3>1, <3>2
  <2>4. (\E r \in records : r.conv = d /\ r.turn = k) <=> k \in 1..turn[d] BY <1>0
  <2>5. CASE c = d
    <3>1. turn'[d] = turn[d] + 1 /\ turn[d] \in Nat BY <1>0, <2>2, <2>5
    <3>2. QED BY <2>3, <2>4, <2>5, <3>1
  <2>6. CASE c # d BY <1>0, <2>2, <2>3, <2>4, <2>6
  <2>7. QED BY <2>5, <2>6
<1>2. CASE UNCHANGED <<records, turn>> BY <1>0, <1>2
<1>3. ASSUME NEW c \in Convs PROVE Breaks(c) \/ Ends(c) \/ Leaves(c) => UNCHANGED <<records, turn>>
  BY DEF Breaks, Ends, Leaves
<1>4. ASSUME NEW w \in Workers PROVE Take(w) => UNCHANGED <<records, turn>>
  BY DEF Take
<1>5. Arrival \/ ReadRoom \/ Fill \/ EndOfLoop \/ Joins \/ WriteOutput \/ UNCHANGED vars
        => UNCHANGED <<records, turn>>
  BY DEF Arrival, ReadRoom, Fill, EndOfLoop, Joins, WriteOutput, vars
<1>6. QED BY <1>1, <1>2, <1>3, <1>4, <1>5 DEF Next

-----------------------------------------------------------------------------
(* The workers.                                                            *)
LEMMA WorkersFinite ==
  /\ IsFiniteSet(Workers) /\ Cardinality(Workers) = Concurrency /\ 1 \in Workers
  /\ \A f \in [Workers -> Int] : IsFiniteSet({w \in Workers : f[w] = Stopped})
<1>1. Concurrency \in Nat \ {0} BY HarnessAssumption
<1>2. IsFiniteSet(Workers) /\ Cardinality(Workers) = Concurrency
  BY <1>1, FS_Interval DEF Workers
<1>3. QED BY <1>1, <1>2, FS_Subset DEF Workers

(* The worker that runs the conversation an error ends is freed, or stops. *)
LEMMA BreaksWorking == ASSUME IInv, NEW c \in Convs, Breaks(c) PROVE Working'
<1> USE ConvsType DEF Stopped
<1>1. /\ Working /\ worker \in [Workers -> Int] /\ conv \in [Convs -> {"new", "live", "ending", "over"}]
      /\ lost \subseteq Convs /\ c \notin lost
  BY DEF IInv, Types, Progress, Breaks
<1>2. /\ mode' = mode /\ conv' = [conv EXCEPT ![c] = "ending"] /\ lost' = lost \cup {c}
      /\ conv[c] = "live"
      /\ worker' = [w \in Workers |->
                     IF worker[w] # c THEN worker[w] ELSE IF mode = "stagger" THEN Stopped ELSE 0]
  BY DEF Breaks
<1>3. CASE mode \notin WorkerModes BY <1>1, <1>2, <1>3 DEF Working
<1>4. CASE mode \in WorkerModes
  <2>1. PICK v \in Workers : worker[v] = c BY <1>1, <1>2, <1>4 DEF Working
  <2>2. \A w \in Workers : worker'[w] \notin {0, Stopped} => worker'[w] = worker[w] /\ worker[w] # c
    BY <1>2
  <2>3. \A w \in Workers : worker'[w] \notin {0, Stopped} =>
              worker'[w] \in Convs /\ conv'[worker'[w]] = "live"
    BY <1>1, <1>2, <1>4, <2>2 DEF Working
  <2>4. \A u, w \in Workers : worker'[u] \notin {0, Stopped} /\ worker'[u] = worker'[w] => u = w
    BY <1>1, <1>4, <2>2 DEF Working
  <2>5. \A d \in Convs : conv'[d] = "live" => \E w \in Workers : worker'[w] = d
    BY <1>1, <1>2, <1>4 DEF Working
  <2>6. CASE mode = "stagger"
    <3> DEFINE S == {w \in Workers : worker[w] = Stopped}
               S1 == {w \in Workers : worker'[w] = Stopped}
    <3>1. \A w \in Workers : worker[w] = c => w = v
      BY <1>1, <1>4, <2>1 DEF Working
    <3>2. S1 = S \cup {v} /\ v \notin S BY <1>2, <2>1, <2>6, <3>1
    <3>3. IsFiniteSet(S) BY <1>1, WorkersFinite
    <3>4. IsFiniteSet(lost) BY <1>1, FS_Subset
    <3>5. Cardinality(lost) = Cardinality(S) BY <1>1, <1>4, <2>6 DEF Working
    <3> HIDE DEF S, S1
    <3>6. Cardinality(S1) = Cardinality(S) + 1 BY <3>2, <3>3, FS_AddElement
    <3>7. Cardinality(lost') = Cardinality(lost) + 1 BY <1>1, <1>2, <3>4, FS_AddElement
    <3>8. Cardinality(lost') = Cardinality(S1) BY <3>5, <3>6, <3>7
    <3>9. QED BY <1>2, <1>4, <2>3, <2>4, <2>5, <2>6, <3>8 DEF Working, S1
  <2>7. CASE mode # "stagger"
    <3>1. \A w \in Workers : worker'[w] # Stopped BY <1>1, <1>2, <1>4, <2>7 DEF Working
    <3>2. QED BY <1>2, <1>4, <2>3, <2>4, <2>5, <2>7, <3>1 DEF Working
  <2>8. QED BY <2>6, <2>7
<1>5. QED BY <1>3, <1>4

LEMMA TakeWorking == ASSUME IInv, NEW v \in Workers, Take(v) PROVE Working'
<1> USE ConvsType DEF Stopped
<1> DEFINE n == launched + 1
<1>1. /\ Working /\ worker \in [Workers -> Int] /\ conv \in [Convs -> {"new", "live", "ending", "over"}]
      /\ n \in Convs /\ conv[n] = "new" /\ worker[v] = 0 /\ mode \in WorkerModes
      /\ mode' = mode /\ lost' = lost
      /\ conv' = [conv EXCEPT ![n] = "live"] /\ worker' = [worker EXCEPT ![v] = n]
  BY DEF IInv, Types, Progress, Take, Launch
<1> HIDE DEF n
<1>2. \A w \in Workers : worker[w] # n BY <1>1 DEF Working
<1>3. {w \in Workers : worker'[w] = Stopped} = {w \in Workers : worker[w] = Stopped} BY <1>1
<1>4. \A w \in Workers : worker'[w] = IF w = v THEN n ELSE worker[w] BY <1>1
<1>5. \A w \in Workers : worker'[w] \notin {0, Stopped} =>
              worker'[w] \in Convs /\ conv'[worker'[w]] = "live"
  BY <1>1, <1>4 DEF Working
<1>6. \A u, w \in Workers : worker'[u] \notin {0, Stopped} /\ worker'[u] = worker'[w] => u = w
  BY <1>1, <1>2, <1>4 DEF Working
<1>7. \A d \in Convs : conv'[d] = "live" => \E w \in Workers : worker'[w] = d
  <2> SUFFICES ASSUME NEW d \in Convs, conv'[d] = "live" PROVE \E w \in Workers : worker'[w] = d
    OBVIOUS
  <2>1. CASE d = n BY <1>4, <2>1
  <2>2. CASE d # n
    <3>1. PICK w \in Workers : worker[w] = d BY <1>1, <2>2 DEF Working
    <3>2. QED BY <1>1, <1>4, <3>1
  <2>3. QED BY <2>1, <2>2
<1>8. IF mode = "stagger"
        THEN Cardinality(lost') = Cardinality({w \in Workers : worker'[w] = Stopped})
        ELSE \A w \in Workers : worker'[w] # Stopped
  BY <1>1, <1>3, <1>4 DEF Working
<1>9. QED BY <1>1, <1>5, <1>6, <1>7, <1>8 DEF Working

LEMMA EndsWorking == ASSUME IInv, NEW c \in Convs, Ends(c) PROVE Working'
<1> USE ConvsType DEF Stopped
<1>1. /\ Working /\ worker \in [Workers -> Int] /\ conv \in [Convs -> {"new", "live", "ending", "over"}]
      /\ mode' = mode /\ lost' = lost /\ conv' = [conv EXCEPT ![c] = "ending"]
      /\ worker' = [w \in Workers |-> IF worker[w] = c THEN 0 ELSE worker[w]]
  BY DEF IInv, Types, Ends
<1>2. {w \in Workers : worker'[w] = Stopped} = {w \in Workers : worker[w] = Stopped} BY <1>1
<1>3. CASE mode \notin WorkerModes BY <1>1, <1>3 DEF Working
<1>4. CASE mode \in WorkerModes
  <2>1. \A w \in Workers : worker'[w] \notin {0, Stopped} => worker'[w] = worker[w] /\ worker[w] # c
    BY <1>1
  <2>2. \A w \in Workers : worker'[w] \notin {0, Stopped} =>
              worker'[w] \in Convs /\ conv'[worker'[w]] = "live"
    BY <1>1, <1>4, <2>1 DEF Working
  <2>3. \A u, w \in Workers : worker'[u] \notin {0, Stopped} /\ worker'[u] = worker'[w] => u = w
    BY <1>1, <1>4, <2>1 DEF Working
  <2>4. \A d \in Convs : conv'[d] = "live" => \E w \in Workers : worker'[w] = d
    BY <1>1, <1>4 DEF Working
  <2>5. \A w \in Workers : worker'[w] = Stopped => worker[w] = Stopped BY <1>1
  <2>6. IF mode = "stagger"
          THEN Cardinality(lost') = Cardinality({w \in Workers : worker'[w] = Stopped})
          ELSE \A w \in Workers : worker'[w] # Stopped
    BY <1>1, <1>2, <1>4, <2>5 DEF Working
  <2>7. QED BY <1>1, <1>4, <2>2, <2>3, <2>4, <2>6 DEF Working
<1>5. QED BY <1>3, <1>4

(* A launch outside the worker modes, and the end of a thread.             *)
LEMMA WorkingStep == IInv /\ [Next]_vars => Working'
<1> SUFFICES ASSUME IInv, [Next]_vars PROVE Working'
  OBVIOUS
<1>0. Working /\ conv \in [Convs -> {"new", "live", "ending", "over"}] /\ Counting
  BY DEF IInv, Types
<1>1. CASE UNCHANGED <<mode, conv, worker, lost>> BY <1>0, <1>1 DEF Working
<1>2. CASE mode \notin WorkerModes /\ UNCHANGED <<mode, worker>>
  BY <1>0, <1>2 DEF Working
<1>3. ASSUME NEW c \in Convs, Leaves(c) PROVE Working'
  <2>1. /\ UNCHANGED <<mode, worker, lost>>
        /\ \A d \in Convs : conv'[d] = "live" <=> conv[d] = "live"
    BY <1>0, <1>3 DEF Leaves
  <2>2. QED BY <1>0, <2>1 DEF Working
<1>4. ASSUME NEW c \in Convs, NEW result \in {"answered", "failed"}, Request(c, result)
      PROVE  UNCHANGED <<mode, conv, worker, lost>>
  BY <1>4 DEF Request
<1>5. Arrival \/ Fill => mode \notin WorkerModes /\ UNCHANGED <<mode, worker>>
  BY <1>0 DEF Arrival, Fill, Counting, OpenModes, WorkerModes
<1>6. ReadRoom \/ EndOfLoop \/ Joins \/ WriteOutput \/ UNCHANGED vars
        => UNCHANGED <<mode, conv, worker, lost>>
  BY DEF ReadRoom, EndOfLoop, Joins, WriteOutput, vars
<1>7. QED
  BY <1>1, <1>2, <1>3, <1>4, <1>5, <1>6, BreaksWorking, TakeWorking, EndsWorking DEF Next

-----------------------------------------------------------------------------
(* What the main thread has waited for.                                    *)
LEMMA WaitingStep == IInv /\ [Next]_vars => Waiting'
<1> SUFFICES ASSUME IInv, [Next]_vars PROVE Waiting'
  OBVIOUS
<1>0. Waiting /\ Counting /\ mode \in Modes /\ launched \in 0..Total BY DEF IInv, Types
<1> USE <1>0 DEF Waiting
<1>1. ASSUME NEW c \in Convs,
             \/ \E result \in {"answered", "failed"} : Request(c, result)
             \/ Breaks(c) \/ Ends(c) \/ Leaves(c)
      PROVE  Waiting'
  <2>1. c \in Alive BY <1>1 DEF Request, Breaks, Ends, Leaves, Alive
  <2>2. main # "written" BY <2>1
  <2>3. UNCHANGED <<mode, main, launched>> BY <1>1 DEF Request, Breaks, Ends, Leaves
  <2>4. Total' = Total BY <2>3 DEF Total
  <2>5. QED BY <2>2, <2>3, <2>4
<1>6. CASE Arrival BY <1>6 DEF Arrival
<1>7. ASSUME NEW w \in Workers, Take(w) PROVE Waiting'
  <2>1. worker[w] # Stopped /\ launched < Total /\ mode \in WorkerModes
    BY <1>7 DEF Take, Launch, Stopped
  <2>2. launched # Total BY <2>1, ConvsType
  <2>3. main # "written" BY <2>1, <2>2
  <2>4. mode \notin OpenModes BY <2>1 DEF OpenModes, WorkerModes
  <2>5. QED BY <1>7, <2>3, <2>4 DEF Take
<1>8. CASE ReadRoom BY <1>8 DEF ReadRoom
<1>9. CASE Fill BY <1>9 DEF Fill
<1>10. CASE EndOfLoop BY <1>10 DEF EndOfLoop
<1>11. CASE Joins
  <2>1. mode \in OpenModes => launched = Total
    BY <1>11 DEF Joins, Launched, OpenModes, WorkerModes
  <2>2. UNCHANGED <<mode, launched>> /\ main' = "joining" BY <1>11 DEF Joins
  <2>3. Total' = Total BY <2>2 DEF Total
  <2>4. QED BY <2>1, <2>2, <2>3
<1>12. CASE WriteOutput
  <2>1. Alive = {} BY <1>12 DEF WriteOutput, Joined, Counting
  <2>2. UNCHANGED <<mode, conv, launched, worker>> /\ output' = records /\ records' = records
    BY <1>12 DEF WriteOutput
  <2>3. Alive' = Alive /\ Total' = Total BY <2>2 DEF Alive, Total
  <2>4. mode \in WorkerModes => launched = Total \/ \A w \in Workers : worker[w] = Stopped
    BY <1>12 DEF WriteOutput, Joined, WorkerModes
  <2>5. mode \in OpenModes => launched = Total BY <1>12 DEF WriteOutput
  <2>6. QED BY <2>1, <2>2, <2>3, <2>4, <2>5
<1>13. CASE UNCHANGED vars BY <1>13 DEF vars, loop, Alive, Total
<1>14. QED
  BY <1>1, <1>6, <1>7, <1>8, <1>9, <1>10, <1>11, <1>12, <1>13 DEF Next

-----------------------------------------------------------------------------
LEMMA InvInductive == Spec => []IInv
<1>1. IInv /\ [Next]_vars => IInv'
  BY TypesStep, ProgressStep, CountingStep, WorkingStep, RecordingStep, WaitingStep DEF IInv
<1>2. QED BY InvInit, <1>1, PTL DEF Spec

(* The count that the schedule mode of replay_sharegpt.py keeps under its  *)
(* lock is always that of its living threads, however they end, and the    *)
(* room read under it never lifts them above the schedule.                 *)
THEOREM HarnessInFlightExact == Spec => []InFlightExact
<1>1. IInv => InFlightExact BY DEF IInv, Counting, InFlightExact
<1>2. QED BY <1>1, InvInductive, PTL

(* Of a conversation that was begun, the output has every request, or all  *)
(* up to the one that an unexpected error hit.                             *)
LEMMA BegunIsRecorded ==
  ASSUME IInv, main = "written", NEW c \in Convs, c <= launched
  PROVE  {k \in 1..TurnsOf : \E r \in output : r.conv = c /\ r.turn = k}
           = 1..(IF c \in lost THEN turn[c] ELSE TurnsOf)
<1>1. /\ conv \in [Convs -> {"new", "live", "ending", "over"}] /\ turn[c] \in Nat
      /\ output = records /\ Alive = {} /\ TurnsOf \in Nat
      /\ Convs \subseteq Nat /\ launched \in Nat
  BY ConvsType DEF IInv, Types, Waiting
<1>2. conv[c] = "over" BY <1>1 DEF IInv, Progress, Alive
<1>3. turn[c] <= TurnsOf /\ (c \notin lost => turn[c] = TurnsOf)
  BY <1>2 DEF IInv, Progress
<1>4. \A k \in 1..TurnsOf : (\E r \in output : r.conv = c /\ r.turn = k) <=> k \in 1..turn[c]
  BY <1>1 DEF IInv, Recording
<1>5. {k \in 1..TurnsOf : \E r \in output : r.conv = c /\ r.turn = k} = 1..turn[c]
  BY <1>1, <1>3, <1>4
<1>6. QED BY <1>3, <1>5

(* The output file of replay_sharegpt.py has a record for every request    *)
(* that was to be made, except what unexpected errors took: the rest of    *)
(* the conversations they hit and, once they have stopped every staggered  *)
(* worker, what is left in the queue.                                      *)
THEOREM HarnessEveryRequestRecorded == Spec => []EveryRequestRecorded
<1>1. IInv => EveryRequestRecorded
  <2> SUFFICES ASSUME IInv, main = "written",
                      NEW c \in 1..Total, mode = "schedule" => c <= launched,
                      {k \in 1..TurnsOf : \E r \in output : r.conv = c /\ r.turn = k}
                        # 1..(IF c \in lost THEN turn[c] ELSE TurnsOf)
               PROVE  mode = "stagger" /\ Cardinality(lost) = Concurrency /\ c > launched
    BY DEF EveryRequestRecorded
  <2>1. Total \in Nat /\ launched \in 0..Total /\ mode \in Modes
    BY ConvsType DEF IInv, Types
  <2>2. c \in Convs
    <3>1. c - 1 \in Nat /\ c - 1 < Total BY <2>1
    <3>2. c - 1 + 1 \in Convs BY <3>1, ConvsType
    <3>3. QED BY <2>1, <3>2
  <2>3. c > launched BY <2>1, <2>2, BegunIsRecorded
  <2>4. mode \in WorkerModes /\ \A w \in Workers : worker[w] = Stopped
    BY <2>1, <2>3 DEF IInv, Waiting, Modes
  <2>5. mode = "stagger" BY <2>4, WorkersFinite DEF IInv, Working
  <2>6. {w \in Workers : worker[w] = Stopped} = Workers BY <2>4
  <2>7. Cardinality(lost) = Concurrency BY <2>4, <2>5, <2>6, WorkersFinite DEF IInv, Working
  <2>8. QED BY <2>3, <2>5, <2>7
<1>2. QED BY <1>1, InvInductive, PTL
=============================================================================
