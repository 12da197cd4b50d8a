--------------------------- MODULE SchedulerProofs ---------------------------
(* What TLAPS proves about SchedulerRounds, for every set of requests and  *)
(* prompts, every admissible stack of controllers and every budget.        *)
EXTENDS SchedulerRounds, DataLemmas

-----------------------------------------------------------------------------
(* The inductive invariant's structural part.                              *)

Queued == ToSet(waiting) \cup ToSet(skipped)

(* Only a running request has been computed in part.                       *)
Fresh ==
  \A r \in Requests : r \in ToSet(running) \/ Done(r) \/ (computed[r] = 0 /\ output[r] = 0)

(* Nothing has happened while the server is patched.                       *)
Pristine ==
  phase = "patching" =>
    /\ running = <<>> /\ waiting = <<>> /\ skipped = <<>>
    /\ \A r \in Requests : computed[r] = 0 /\ granted[r] = 0 /\ deficit[r] = 0

(* What a part of the round has still to come to: the older blocks, the    *)
(* later running requests, requests of the two other queues.               *)
BlocksLeft ==
  /\ \A r \in Requests : granted[r] = 0
  /\ Len(todo) <= Len(file)
  /\ \A i \in 1..Len(todo) : todo[i] = file[Len(todo) + 1 - i]

RunningLeft ==
  /\ Len(todo) <= Len(running)
  /\ \A i \in 1..Len(todo) : todo[i] = running[(Len(running) - Len(todo)) + i]
  /\ \A i \in 1..Len(todo) : granted[todo[i]] = 0

WaitingLeft == IsInjective(todo) /\ ToSet(todo) \subseteq Queued

Plan ==
  /\ phase = "blocks" => BlocksLeft
  /\ phase = "running" => RunningLeft
  /\ phase = "waiting" => WaitingLeft
  /\ ToSet(skipped) \subseteq Blockable

Struct == TypeOK /\ Fresh /\ Pristine /\ Plan

(* The assumption in parts.                                                *)
LEMMA Constants ==
  /\ IsFiniteSet(Requests) /\ Blockable \subseteq Requests
  /\ \A r \in Requests : PromptOf[r] \in Nat \ {0} /\ OutputOf[r] \in Nat \ {0}
  /\ MaxScheduled \in Nat \ {0} /\ MaxRunning \in Nat \ {0} /\ MaxStack \in Nat \ {0}
  /\ Protect \in Nat \ {0} /\ Lo \in Nat \ {0} /\ Hi \in Nat \ {0} /\ HiThreshold \in Nat \ {0}
  /\ Quantum \in Nat \ {0} /\ MaxBank \in Nat \ {0}
  /\ MaxRunning <= MaxScheduled /\ Lo <= MaxScheduled /\ Hi <= MaxScheduled
  /\ Gate \in Nat /\ ExitGate \in Nat /\ WhaleTok \in Nat /\ BacklogThresh \in Nat
  /\ CongestShare \in 0..100
  /\ Controllers \subseteq Family \cup {"LENGTHGATE"}
BY SchedulerAssumption

(* The queues hold requests; a sequence is as long as its set is large.    *)
LEMMA QueueTypes ==
  ASSUME TypeOK
  PROVE  /\ running \in Seq(Requests) /\ waiting \in Seq(Requests) /\ skipped \in Seq(Requests)
         /\ Len(running) \in Nat
         /\ ToSet(running) \subseteq Requests /\ ToSet(waiting) \subseteq Requests
         /\ ToSet(skipped) \subseteq Requests
<1>1. running \in Seq(Requests) /\ waiting \in Seq(Requests) /\ skipped \in Seq(Requests)
  BY DEF TypeOK, QueuesOK
<1> QED BY <1>1, MembersOfSeq

(* What is left of a prompt, and what a request needs.                     *)
LEMMA ProgressTypes ==
  ASSUME TypeOK
  PROVE  /\ computed \in [Requests -> Nat] /\ output \in [Requests -> Nat]
         /\ granted \in [Requests -> Nat] /\ deficit \in [Requests -> Nat]
         /\ earned \in [Requests -> Nat]
         /\ \A r \in Requests : Left(r) \in Nat /\ (Prefilling(r) <=> Left(r) > 0)
         /\ \A r \in Requests : Need(r) \in Nat \ {0} /\ (Prefilling(r) => Need(r) = Left(r))
<1>1. /\ computed \in [Requests -> Nat] /\ output \in [Requests -> Nat]
      /\ granted \in [Requests -> Nat] /\ deficit \in [Requests -> Nat]
      /\ earned \in [Requests -> Nat]
  BY DEF TypeOK, ProgressOK, ControlOK
<1>2. \A r \in Requests : computed[r] <= PromptOf[r] BY DEF TypeOK, ProgressOK
<1> QED BY <1>1, <1>2, Constants DEF Left, Need, Prefilling

(* Nothing runs or waits at first.                                         *)
LEMMA InitStruct == Init => Struct
<1> SUFFICES ASSUME Init PROVE Struct OBVIOUS
<1>1. FileOK BY Constants DEF Init, FileOK
<1>2. ToSet(<<>>) = {} /\ IsInjective(<<>>) /\ <<>> \in Seq(Requests) /\ Len(<<>>) = 0
  BY DEF ToSet, IsInjective
<1>3. QueuesOK BY <1>2, Constants DEF Init, QueuesOK
<1>4. Nothing \in [Requests -> Nat] /\ \A r \in Requests : Nothing[r] = 0 BY DEF Nothing
<1>5. Present = {} BY <1>2 DEF Init, Present
<1>6. ProgressOK BY <1>4, <1>5, Constants DEF Init, ProgressOK, Prefilling, Done
<1>7. ControlOK
  <2>1. \A r \in Requests : 0 <= MaxBank /\ 0 <= PromptOf[r] BY Constants
  <2>2. deficit = Nothing /\ earned = Nothing /\ budget = 0 /\ threshold = 0 BY DEF Init
  <2>3. {deficit, earned} \subseteq [Requests -> Nat]
        /\ \A r \in Requests : deficit[r] <= MaxBank /\ earned[r] <= PromptOf[r]
    BY <1>4, <2>1, <2>2
  <2>4. protect \in BOOLEAN /\ congest \in BOOLEAN BY Zenon DEF Init
  <2> QED BY <2>2, <2>3, <2>4 DEF ControlOK
<1>8. Fresh /\ Pristine BY <1>4 DEF Init, Fresh, Pristine
<1>9. Plan BY <1>2 DEF Init, Plan
<1> QED BY <1>1, <1>3, <1>6, <1>7, <1>8, <1>9 DEF Struct, TypeOK

(* Patching, starting and arriving.                                        *)
LEMMA InstallStruct == ASSUME Struct, NEW c \in Controllers, Install(c) PROVE Struct'
<1>1. /\ file \in Seq(Controllers) /\ Len(file) < MaxStack /\ MaxStack \in Nat /\ Len(file) \in Nat
      /\ file' = Append(file, c) /\ phase = "patching"
      /\ UNCHANGED <<phase, todo, running, waiting, skipped, computed, output, budget, granted,
                     threshold, protect, congest, deficit, earned>>
  BY Constants DEF Struct, TypeOK, FileOK, Install, queues, progress, control
<1>2. file' \in Seq(Controllers) /\ Len(file') <= MaxStack BY <1>1, AppendProperties
<1>3. FileOK' BY <1>1, <1>2 DEF Struct, TypeOK, FileOK
<1>4. QueuesOK' BY <1>1 DEF Struct, TypeOK, QueuesOK
<1>5. ProgressOK'
  BY <1>1 DEF Struct, TypeOK, ProgressOK, Prefilling, Done, Present
<1>6. ControlOK' BY <1>1 DEF Struct, TypeOK, ControlOK
<1>7. Fresh' /\ Pristine' BY <1>1 DEF Struct, Fresh, Pristine, Done
<1>8. Plan' BY <1>1 DEF Struct, Plan
<1> QED BY <1>3, <1>4, <1>5, <1>6, <1>7, <1>8 DEF Struct, TypeOK

LEMMA StartStruct == ASSUME Struct, NEW enabled, Start(enabled) PROVE Struct'
<1>1. /\ file \in Seq(Controllers) /\ Len(file) <= MaxStack /\ MaxStack \in Nat /\ Len(file) \in Nat
      /\ file' = Only(file, enabled) /\ phase = "patching" /\ phase' = "idle"
      /\ UNCHANGED <<todo, running, waiting, skipped, computed, output, budget, granted,
                     threshold, protect, congest, deficit, earned>>
  BY Constants DEF Struct, TypeOK, FileOK, Start, queues, progress, control
<1>2. file' \in Seq(Controllers) /\ Len(file') <= Len(file) BY <1>1, OnlySet
<1>3. Len(file') <= MaxStack BY <1>1, <1>2, LenProperties
<1>4. FileOK' BY <1>1, <1>2, <1>3 DEF Struct, TypeOK, FileOK
<1>5. QueuesOK' BY <1>1 DEF Struct, TypeOK, QueuesOK
<1>6. ProgressOK'
  BY <1>1 DEF Struct, TypeOK, ProgressOK, Prefilling, Done, Present
<1>7. ControlOK' BY <1>1 DEF Struct, TypeOK, ControlOK
<1>8. Fresh' /\ Pristine' BY <1>1 DEF Struct, Fresh, Pristine, Done
<1>9. Plan' BY <1>1 DEF Struct, Plan
<1> QED BY <1>4, <1>5, <1>6, <1>7, <1>8, <1>9 DEF Struct, TypeOK

LEMMA ArriveStruct == ASSUME Struct, NEW r \in Requests, Arrive(r) PROVE Struct'
<1>1. /\ phase = "idle" /\ r \notin Present /\ ~Done(r) /\ waiting' = Append(waiting, r)
      /\ UNCHANGED <<file, phase, todo, running, skipped, computed, output, budget, granted,
                     threshold, protect, congest, deficit, earned>>
  BY DEF Arrive, progress, control
<1>2. /\ waiting \in Seq(Requests) /\ IsInjective(waiting) /\ r \notin ToSet(waiting)
      /\ r \notin ToSet(running) /\ r \notin ToSet(skipped)
  BY <1>1 DEF Struct, TypeOK, QueuesOK, Present
<1>3. /\ waiting' \in Seq(Requests) /\ IsInjective(waiting')
      /\ ToSet(waiting') = ToSet(waiting) \cup {r}
  BY <1>1, <1>2, AppendSet
<1>4. FileOK' BY <1>1 DEF Struct, TypeOK, FileOK
<1>5. QueuesOK' BY <1>1, <1>2, <1>3 DEF Struct, TypeOK, QueuesOK
<1>6. Present' = Present \cup {r} BY <1>1, <1>3 DEF Present
<1>7. ProgressOK' BY <1>1, <1>6 DEF Struct, TypeOK, ProgressOK, Prefilling, Done
<1>8. ControlOK' BY <1>1 DEF Struct, TypeOK, ControlOK
<1>9. Fresh' /\ Pristine' BY <1>1 DEF Struct, Fresh, Pristine, Done
<1>10. Plan' BY <1>1 DEF Struct, Plan
<1> QED BY <1>4, <1>5, <1>7, <1>8, <1>9, <1>10 DEF Struct, TypeOK

(* A round begins with nothing granted and all blocks to come.             *)
LEMMA BeginStruct == ASSUME Struct, Begin PROVE Struct'
<1>1. /\ phase = "idle" /\ phase' = "blocks" /\ todo' = Reverse(file) /\ budget' = MaxScheduled
      /\ granted' = Nothing
      /\ UNCHANGED <<file, running, waiting, skipped, computed, output,
                     threshold, protect, congest, deficit, earned>>
  BY DEF Begin, progress, control, queues
<1>2. file \in Seq(Controllers) /\ Len(file) \in Nat BY DEF Struct, TypeOK, FileOK
<1>3. /\ todo' \in Seq(Controllers) /\ Len(todo') = Len(file)
      /\ \A i \in 1..Len(file) : todo'[i] = file[Len(file) + 1 - i]
  BY <1>1, <1>2, ReverseFacts
<1>4. granted' \in [Requests -> Nat] /\ \A r \in Requests : granted'[r] = 0 BY <1>1 DEF Nothing
<1>5. FileOK' BY <1>1, <1>3 DEF Struct, TypeOK, FileOK
<1>6. QueuesOK' BY <1>1 DEF Struct, TypeOK, QueuesOK
<1>7. ProgressOK' BY <1>1, <1>4 DEF Struct, TypeOK, ProgressOK, Prefilling, Done, Present
<1>8. ControlOK' BY <1>1, Constants DEF Struct, TypeOK, ControlOK
<1>9. Fresh' /\ Pristine' BY <1>1 DEF Struct, Fresh, Pristine, Done
<1>10. BlocksLeft' BY <1>1, <1>2, <1>3, <1>4 DEF BlocksLeft
<1>11. Plan' BY <1>1, <1>10 DEF Struct, Plan
<1> QED BY <1>5, <1>6, <1>7, <1>8, <1>9, <1>11 DEF Struct, TypeOK

-----------------------------------------------------------------------------
(* The blocks.                                                             *)

(* Division by a positive number.                                          *)
LEMMA Quotient ==
  ASSUME NEW x \in Nat, NEW a \in Nat \ {0}
  PROVE  x \div a \in Nat /\ (x \div a) * a <= x /\ x \div a <= x
OBVIOUS

(* A fair share is at least one token and no more than all of them; with   *)
(* reserve, the whole fits unless all of the tokens are reserved.          *)
LEMMA Shares ==
  ASSUME Struct
  PROVE  /\ FairShare \in 1..MaxScheduled
         /\ ReserveShare \in Nat \ {0}
         /\ Len(running) + ReserveShare <= MaxScheduled
              \/ (Len(running) = MaxScheduled /\ ReserveShare = 1)
<1> DEFINE n == Len(running)
           f == MaxScheduled \div (1 + n)
           g == (MaxScheduled - n) \div (1 + n)
<1>1. n \in Nat /\ n <= MaxScheduled /\ MaxScheduled \in Nat \ {0}
  BY QueueTypes, Constants DEF Struct, TypeOK, QueuesOK
<1>2. 1 + n \in Nat \ {0} /\ MaxScheduled - n \in Nat BY <1>1
<1>5. f \in Nat /\ f <= MaxScheduled BY <1>1, <1>2, Quotient
<1>6. g \in Nat /\ g <= MaxScheduled - n BY <1>1, <1>2, Quotient
<1> HIDE DEF f, g, n
<1>3. FairShare = IF 1 >= f THEN 1 ELSE f BY <1>5, MaxOfTwo DEF FairShare, f, n
<1>4. ReserveShare = IF 1 >= g THEN 1 ELSE g BY <1>6, MaxOfTwo DEF ReserveShare, g, n
<1> QED BY <1>1, <1>3, <1>4, <1>5, <1>6 DEF n

(* The longest part of a prompt is one of them, or zero.                   *)
LEMMA Longest ==
  ASSUME Struct
  PROVE  /\ LongestLeft \in Nat
         /\ \A r \in ToSet(waiting) \cup ToSet(running) : Left(r) <= LongestLeft
<1> DEFINE Q == ToSet(waiting) \cup ToSet(running)
           S == {0} \cup {Left(r) : r \in Q}
<1>1. running \in Seq(Requests) /\ waiting \in Seq(Requests) /\ Q \subseteq Requests
      /\ \A r \in Requests : Left(r) \in Nat
  BY QueueTypes, ProgressTypes DEF Struct
<1>2. IsFiniteSet(Q) BY <1>1, Constants, FS_Subset
<1>3. IsFiniteSet({Left(r) : r \in Q})
  <2> DEFINE f == [r \in Q |-> Left(r)]
  <2>1. DOMAIN f = Q /\ {f[r] : r \in Q} = {Left(r) : r \in Q} OBVIOUS
  <2>2. IsFiniteSet({f[r] : r \in Q})
    <3> HIDE DEF Q, f
    <3> QED BY <1>2, <2>1, FiniteImage
  <2> QED BY <2>1, <2>2, Zenon
<1>4. IsFiniteSet(S) BY <1>3, FS_Union, FS_Singleton
<1>5. S \subseteq Nat /\ S \subseteq Int /\ S # {} BY <1>1
<1>6. Max(S) \in S /\ \A y \in S : y <= Max(S)
  <2> HIDE DEF S
  <2> QED BY <1>4, <1>5, FiniteMax
<1>7. LongestLeft = Max(S) BY DEF LongestLeft
<1>8. \A r \in Q : Left(r) \in S OBVIOUS
<1> HIDE DEF S
<1> QED BY <1>5, <1>6, <1>7, <1>8

(* Every block is taken off the list and leaves the requests alone.        *)
LEMMA BlockFrame ==
  ASSUME RunBlock
  PROVE  /\ phase = "blocks" /\ phase' = "blocks" /\ todo # <<>> /\ todo' = Tail(todo)
         /\ UNCHANGED <<file, running, waiting, skipped, computed, output, granted>>
BY DEF RunBlock, AdaptiveLpt, FairshareLpt, FairshareBudget, FairshareBoth, FairshareReserve,
       DrrLpt, OracleLpt, OracleBudget, WhaleAware, WhaleAwareV2, StaticReserve, BacklogAware,
       LengthGate, Runs, queues, progress

(* What DRR_LPT gives stays within the bank and the prompt.                *)
LEMMA ToppedUpFacts ==
  ASSUME Struct, NEW r \in Requests
  PROVE  /\ ToppedUp(r) \in 0..MaxBank
         /\ r \in ToSet(running) \cup ToSet(waiting) =>
              ToppedUp(r) > 0 /\ ToppedUp(r) <= deficit[r] + Quantum
         /\ r \notin ToSet(running) \cup ToSet(waiting) => ToppedUp(r) = 0
         /\ Min({PromptOf[r], earned[r] + Quantum}) \in 0..PromptOf[r]
         /\ \/ Min({PromptOf[r], earned[r] + Quantum}) = PromptOf[r]
            \/ Min({PromptOf[r], earned[r] + Quantum}) = earned[r] + Quantum
<1>1. /\ deficit[r] \in Nat /\ earned[r] \in Nat /\ PromptOf[r] \in Nat /\ MaxBank \in Nat \ {0}
      /\ Quantum \in Nat \ {0}
  BY Constants, ProgressTypes DEF Struct
<1>2. Min({deficit[r] + Quantum, MaxBank})
        = IF deficit[r] + Quantum <= MaxBank THEN deficit[r] + Quantum ELSE MaxBank
  BY <1>1, MinOfTwo
<1>3. Min({PromptOf[r], earned[r] + Quantum})
        = IF PromptOf[r] <= earned[r] + Quantum THEN PromptOf[r] ELSE earned[r] + Quantum
  BY <1>1, MinOfTwo
<1> QED BY <1>1, <1>2, <1>3 DEF ToppedUp

(* A block leaves numbers in range.                                        *)
LEMMA BlockControl == ASSUME Struct, RunBlock PROVE ControlOK'
<1>1. /\ deficit \in [Requests -> Nat] /\ earned \in [Requests -> Nat]
      /\ budget \in Nat /\ threshold \in Nat /\ protect \in BOOLEAN /\ congest \in BOOLEAN
      /\ \A r \in Requests : deficit[r] <= MaxBank /\ earned[r] <= PromptOf[r]
  BY DEF Struct, TypeOK, ControlOK
<1>2. /\ FairShare \in Nat /\ Len(running) + ReserveShare \in Nat /\ ReserveShare \in Nat
      /\ Lo \in Nat /\ Hi \in Nat /\ HiThreshold \in Nat /\ Protect \in Nat /\ MaxBank \in Nat
  BY Shares, Constants, QueueTypes DEF Struct
<1>3. CASE AdaptiveLpt
  <2>1. protect' \in BOOLEAN /\ congest' \in BOOLEAN
    BY <1>3, Zenon DEF AdaptiveLpt, Protected, Congested
  <2>2. threshold' \in Nat BY <1>2, <1>3 DEF AdaptiveLpt
  <2>3. Min({budget, Protect}) \in Nat BY <1>1, <1>2, MinOfTwo
  <2>4. budget' \in Nat BY <1>1, <1>3, <2>3 DEF AdaptiveLpt
  <2>5. UNCHANGED <<deficit, earned>> BY <1>3 DEF AdaptiveLpt
  <2> QED BY <1>1, <2>1, <2>2, <2>4, <2>5 DEF ControlOK
<1>4. CASE FairshareLpt BY <1>1, <1>2, <1>4 DEF FairshareLpt, ControlOK
<1>5. CASE FairshareBudget BY <1>1, <1>2, <1>5 DEF FairshareBudget, ControlOK, control
<1>6. CASE FairshareBoth BY <1>1, <1>2, <1>6 DEF FairshareBoth, ControlOK
<1>7. CASE FairshareReserve BY <1>1, <1>2, <1>7 DEF FairshareReserve, ControlOK
<1>8. CASE DrrLpt
  <2>1. \A r \in Requests : deficit'[r] = ToppedUp(r) /\ deficit'[r] \in 0..MaxBank
    BY <1>8, ToppedUpFacts DEF DrrLpt
  <2>2. \A r \in Requests : earned'[r] \in 0..PromptOf[r]
    BY <1>1, <1>8, Constants, ToppedUpFacts DEF DrrLpt
  <2>3. deficit' \in [Requests -> Nat] /\ earned' \in [Requests -> Nat]
    <3>1. ASSUME NEW r \in Requests PROVE ToppedUp(r) \in Nat
      <4>1. ToppedUp(r) \in 0..MaxBank BY ToppedUpFacts
      <4> QED BY <1>2, <4>1
    <3>2. \A r \in Requests : Min({PromptOf[r], earned[r] + Quantum}) \in Nat
      BY Constants, ToppedUpFacts
    <3>3. \A r \in Requests : earned[r] \in Nat BY <1>1
    <3> QED BY <1>8, <3>1, <3>2, <3>3 DEF DrrLpt
  <2>4. UNCHANGED <<budget, threshold, protect, congest>> BY <1>8 DEF DrrLpt
  <2> QED BY <1>1, <1>2, <2>1, <2>2, <2>3, <2>4 DEF ControlOK
<1>9. CASE OracleLpt BY <1>1, <1>2, <1>9 DEF OracleLpt, ControlOK
<1>10. CASE OracleBudget BY <1>1, <1>2, <1>10 DEF OracleBudget, ControlOK, control
<1>11. CASE WhaleAware BY <1>1, <1>2, <1>11 DEF WhaleAware, ControlOK, control
<1>12. CASE WhaleAwareV2 BY <1>1, <1>2, <1>12 DEF WhaleAwareV2, ControlOK, control
<1>13. CASE StaticReserve BY <1>1, <1>2, <1>13 DEF StaticReserve, ControlOK, control
<1>14. CASE BacklogAware BY <1>1, <1>2, <1>14 DEF BacklogAware, ControlOK, control
<1>15. CASE LengthGate BY <1>1, <1>2, <1>15 DEF LengthGate, ControlOK, control
<1> QED BY <1>3, <1>4, <1>5, <1>6, <1>7, <1>8, <1>9, <1>10, <1>11, <1>12, <1>13, <1>14, <1>15
        DEF RunBlock

(* A block leaves the structure alone.                                     *)
LEMMA BlockStruct == ASSUME Struct, RunBlock PROVE Struct'
<1>1. /\ phase = "blocks" /\ phase' = "blocks" /\ todo # <<>> /\ todo' = Tail(todo)
      /\ UNCHANGED <<file, running, waiting, skipped, computed, output, granted>>
  BY BlockFrame
<1>2. todo \in Seq(Controllers) /\ file \in Seq(Controllers) /\ Len(file) \in Nat
  BY <1>1 DEF Struct, TypeOK, FileOK
<1>3. /\ todo' \in Seq(Controllers) /\ Len(todo') = Len(todo) - 1 /\ Len(todo) \in Nat \ {0}
      /\ \A i \in 1..Len(todo') : todo'[i] = todo[i + 1]
  BY <1>1, <1>2, TailSet
<1>4. FileOK' BY <1>1, <1>2, <1>3 DEF Struct, TypeOK, FileOK
<1>5. QueuesOK' BY <1>1 DEF Struct, TypeOK, QueuesOK
<1>6. ProgressOK' BY <1>1 DEF Struct, TypeOK, ProgressOK, Prefilling, Done, Present
<1>7. ControlOK' BY BlockControl
<1>8. Fresh' /\ Pristine' BY <1>1 DEF Struct, Fresh, Pristine, Done
<1>9. BlocksLeft BY <1>1 DEF Struct, Plan
<1>10. BlocksLeft'
  <2>1. \A r \in Requests : granted'[r] = 0 BY <1>1, <1>9 DEF BlocksLeft
  <2>2. Len(todo') <= Len(file') BY <1>1, <1>2, <1>3, <1>9 DEF BlocksLeft
  <2>3. ASSUME NEW i \in 1..Len(todo') PROVE todo'[i] = file'[Len(todo') + 1 - i]
    <3>1. i + 1 \in 1..Len(todo) /\ Len(todo) + 1 - (i + 1) = Len(todo') + 1 - i BY <1>3
    <3>2. todo[i + 1] = file[Len(todo) + 1 - (i + 1)] BY <3>1, <1>9 DEF BlocksLeft
    <3> QED BY <1>1, <1>3, <3>1, <3>2
  <2> QED BY <2>1, <2>2, <2>3 DEF BlocksLeft
<1>11. Plan' BY <1>1, <1>10 DEF Struct, Plan
<1> QED BY <1>4, <1>5, <1>6, <1>7, <1>8, <1>11 DEF Struct, TypeOK

-----------------------------------------------------------------------------
(* The loops.                                                              *)

(* Ordered or not, the same requests run.                                  *)
LEMMA SameRunning ==
  ASSUME Struct
  PROVE  /\ RunningOrder \in Seq(Requests) /\ IsInjective(RunningOrder)
         /\ ToSet(RunningOrder) = ToSet(running) /\ Len(RunningOrder) = Len(running)
<1>1. running \in Seq(Requests) /\ IsInjective(running) /\ ToSet(running) \subseteq Requests
  BY QueueTypes DEF Struct, TypeOK, QueuesOK
<1> DEFINE D == {r \in Requests : ~Prefilling(r)}
           P == {r \in Requests : Prefilling(r)}
           d == Only(running, D)
           p == Only(running, P)
<1>2. /\ d \in Seq(Requests) /\ ToSet(d) = ToSet(running) \cap D /\ IsInjective(d)
      /\ p \in Seq(Requests) /\ ToSet(p) = ToSet(running) \cap P /\ IsInjective(p)
  <2> HIDE DEF D, P
  <2> QED BY <1>1, OnlySet
<1>3. ToSet(d) \cap ToSet(p) = {} /\ ToSet(d) \cup ToSet(p) = ToSet(running)
  <2> HIDE DEF d, p
  <2> QED BY <1>1, <1>2
<1>4. /\ d \o p \in Seq(Requests) /\ ToSet(d \o p) = ToSet(running) /\ IsInjective(d \o p)
  <2> HIDE DEF d, p
  <2> QED BY <1>2, <1>3, ConcatSet
<1>5. RunningOrder = running \/ RunningOrder = d \o p BY DEF RunningOrder
<1> HIDE DEF d, p
<1>6. /\ RunningOrder \in Seq(Requests) /\ IsInjective(RunningOrder)
      /\ ToSet(RunningOrder) = ToSet(running)
  BY <1>1, <1>4, <1>5
<1>7. Cardinality(ToSet(running)) = Len(running) BY <1>1, DistinctLength
<1>8. Cardinality(ToSet(RunningOrder)) = Len(RunningOrder) BY <1>6, DistinctLength
<1> QED BY <1>6, <1>7, <1>8

(* The reordered queue is the running loop's list.                         *)
LEMMA BlocksDoneStruct == ASSUME Struct, BlocksDone PROVE Struct'
<1>1. /\ phase = "blocks" /\ phase' = "running" /\ running' = RunningOrder /\ todo' = RunningOrder
      /\ UNCHANGED <<file, waiting, skipped, computed, output, budget, granted,
                     threshold, protect, congest, deficit, earned>>
  BY DEF BlocksDone, progress, control
<1>2. /\ running' \in Seq(Requests) /\ IsInjective(running')
      /\ ToSet(running') = ToSet(running) /\ Len(running') = Len(running)
  BY <1>1, SameRunning
<1>3. BlocksLeft BY <1>1 DEF Struct, Plan
<1>4. FileOK' BY <1>1, <1>2 DEF Struct, TypeOK, FileOK
<1>5. QueuesOK' BY <1>1, <1>2 DEF Struct, TypeOK, QueuesOK
<1>6. ProgressOK'
  BY <1>1, <1>2, <1>3 DEF Struct, TypeOK, ProgressOK, Prefilling, Done, Present, BlocksLeft
<1>7. ControlOK' BY <1>1 DEF Struct, TypeOK, ControlOK
<1>8. Fresh' BY <1>1, <1>2 DEF Struct, Fresh, Done
<1>9. RunningLeft'
  <2>1. Len(running') \in Nat /\ todo' = running' BY <1>1, <1>2, LenProperties
  <2>2. \A i \in 1..Len(running') : running'[i] \in Requests /\ (Len(running') - Len(todo')) + i = i
    BY <1>2, <2>1
  <2> QED BY <1>1, <1>3, <2>1, <2>2 DEF RunningLeft, BlocksLeft
<1>10. Pristine' /\ Plan' BY <1>1, <1>9 DEF Struct, Plan, Pristine
<1> QED BY <1>4, <1>5, <1>6, <1>7, <1>8, <1>10 DEF Struct, TypeOK

(* What a request may have is a number, no more than it needs, no more     *)
(* than the budget leaves; something when there is a budget, unless it has *)
(* no credit.                                                              *)
LEMMA AllowedFacts ==
  ASSUME Struct, NEW r \in Requests, NEW least \in Nat
  PROVE  /\ Allowed(r, least) \in Nat
         /\ Allowed(r, least) <= Need(r) /\ Allowed(r, least) <= budget
         /\ Enabled("DRR_LPT") => Allowed(r, least) <= least \/ Allowed(r, least) <= deficit[r]
         /\ ~Enabled("DRR_LPT") /\ threshold > 0 => Allowed(r, least) <= threshold
         /\ budget > 0 /\ (~Enabled("DRR_LPT") \/ deficit[r] > 0 \/ least > 0) => Allowed(r, least) > 0
<1> DEFINE drr == Enabled("DRR_LPT")
           cap == IF drr THEN Max({least, deficit[r]})
                  ELSE IF threshold > 0 THEN threshold ELSE Need(r)
           n == Need(r)
<1>1. /\ n \in Nat \ {0} /\ deficit[r] \in Nat /\ threshold \in Nat /\ budget \in Nat
  BY ProgressTypes DEF Struct, TypeOK, ControlOK
<1>2. Max({least, deficit[r]}) = IF least >= deficit[r] THEN least ELSE deficit[r]
  BY <1>1, MaxOfTwo
<1>3. cap \in Nat BY <1>1, <1>2
<1>4. Allowed(r, least) = Min({n, cap, budget}) BY DEF Allowed
<1>5. /\ drr => cap = (IF least >= deficit[r] THEN least ELSE deficit[r])
      /\ ~drr => cap = IF threshold > 0 THEN threshold ELSE n
  BY <1>2
<1> HIDE DEF cap, n, drr
<1>6. /\ Min({n, cap, budget}) \in Int
      /\ Min({n, cap, budget}) = n \/ Min({n, cap, budget}) = cap \/ Min({n, cap, budget}) = budget
      /\ Min({n, cap, budget}) <= n /\ Min({n, cap, budget}) <= cap /\ Min({n, cap, budget}) <= budget
  <2>1. n \in Int /\ cap \in Int /\ budget \in Int BY <1>1, <1>3
  <2> QED BY <2>1, LeastOfThree, Zenon
<1> DEFINE a == Allowed(r, least)
<1> HIDE DEF a
<1>7. /\ a \in Int /\ (a = n \/ a = cap \/ a = budget) /\ a <= n /\ a <= cap /\ a <= budget
  BY <1>4, <1>6 DEF a
<1>8. /\ a \in Nat /\ a <= n /\ a <= budget /\ (drr => a <= least \/ a <= deficit[r])
      /\ (~drr /\ threshold > 0 => a <= threshold)
      /\ (budget > 0 /\ (~drr \/ deficit[r] > 0 \/ least > 0) => a > 0)
  BY <1>1, <1>3, <1>5, <1>7
<1> QED BY <1>8 DEF a, drr, n

(* A grant changes one request's tokens and credit.                        *)
LEMMA GrantFacts ==
  ASSUME Struct, NEW r \in Requests, NEW t \in Nat, t <= budget, Grant(r, t)
  PROVE  /\ granted' \in [Requests -> Nat] /\ granted'[r] = t
         /\ \A s \in Requests \ {r} : granted'[s] = granted[s]
         /\ budget' \in Nat /\ budget' = budget - t
         /\ deficit' \in [Requests -> Nat]
         /\ \A s \in Requests : deficit'[s] <= deficit[s]
         /\ \A s \in Requests \ {r} : deficit'[s] = deficit[s]
         /\ Enabled("DRR_LPT") =>
              \/ deficit'[r] = 0 /\ t >= deficit[r]
              \/ deficit'[r] = deficit[r] - t
         /\ ~Enabled("DRR_LPT") => deficit' = deficit
<1>1. /\ granted \in [Requests -> Nat] /\ deficit \in [Requests -> Nat] /\ budget \in Nat
      /\ deficit[r] \in Nat
  BY ProgressTypes DEF Struct, TypeOK, ControlOK
<1>2. granted' = [granted EXCEPT ![r] = t] /\ budget' = budget - t BY DEF Grant
<1>3. /\ granted' \in [Requests -> Nat] /\ granted'[r] = t
      /\ \A s \in Requests \ {r} : granted'[s] = granted[s]
  BY <1>1, <1>2
<1>4. Max({0, deficit[r] - t}) = IF 0 >= deficit[r] - t THEN 0 ELSE deficit[r] - t
  BY <1>1, MaxOfTwo
<1>5. CASE Enabled("DRR_LPT")
  <2>1. deficit' = [deficit EXCEPT ![r] = Max({0, deficit[r] - t})] BY <1>5 DEF Grant
  <2>2. Max({0, deficit[r] - t}) \in Nat BY <1>1, <1>4
  <2>3. deficit' \in [Requests -> Nat] /\ deficit'[r] = Max({0, deficit[r] - t})
        /\ \A s \in Requests \ {r} : deficit'[s] = deficit[s]
    BY <1>1, <2>1, <2>2
  <2>4. deficit'[r] <= deficit[r] /\ ((deficit'[r] = 0 /\ t >= deficit[r]) \/ deficit'[r] = deficit[r] - t)
    BY <1>1, <1>4, <2>3
  <2>5. \A s \in Requests : deficit'[s] <= deficit[s] BY <1>1, <2>3, <2>4
  <2> QED BY <1>1, <1>2, <1>3, <1>5, <2>3, <2>4, <2>5
<1>6. CASE ~Enabled("DRR_LPT")
  <2>1. deficit' = deficit BY <1>6 DEF Grant
  <2> QED BY <1>1, <1>2, <1>3, <1>6, <2>1
<1> QED BY <1>5, <1>6

(* One turn of the running loop.                                           *)
LEMMA ServeFacts ==
  ASSUME Struct, Serve
  PROVE  /\ phase = "running" /\ phase' = "running" /\ todo # <<>> /\ budget > 0
         /\ Head(todo) \in ToSet(running) /\ Head(todo) \in Requests /\ granted[Head(todo)] = 0
         /\ ToSet(todo) = {Head(todo)} \cup ToSet(todo') /\ Head(todo) \notin ToSet(todo')
         /\ ToSet(todo) \subseteq ToSet(running)
         /\ todo' \in Seq(Requests) /\ Len(todo') = Len(todo) - 1 /\ Len(todo) \in Nat \ {0}
         /\ \A i \in 1..Len(todo') : todo'[i] = todo[i + 1]
         /\ Grant(Head(todo), Allowed(Head(todo), 0))
         /\ UNCHANGED <<file, running, waiting, skipped, computed, output, threshold, protect,
                        congest, earned>>
<1>1. /\ phase = "running" /\ phase' = "running" /\ todo # <<>> /\ budget > 0 /\ todo' = Tail(todo)
      /\ Grant(Head(todo), Allowed(Head(todo), 0))
      /\ UNCHANGED <<file, running, waiting, skipped, computed, output, threshold, protect,
                     congest, earned>>
  BY DEF Serve, queues, progress
<1>2. RunningLeft BY <1>1 DEF Struct, Plan
<1>3. todo \in Seq(Requests) /\ running \in Seq(Requests) /\ IsInjective(running)
  BY <1>1, QueueTypes DEF Struct, TypeOK, FileOK, QueuesOK
<1>4. /\ Head(todo) \in Requests /\ Head(todo) = todo[1] /\ todo' \in Seq(Requests)
      /\ Len(todo) \in Nat \ {0} /\ Len(todo') = Len(todo) - 1
      /\ \A i \in 1..Len(todo') : todo'[i] = todo[i + 1]
      /\ ToSet(todo) = {Head(todo)} \cup ToSet(todo')
      /\ IsInjective(todo) => Head(todo) \notin ToSet(todo')
  BY <1>1, <1>3, TailSet
<1> DEFINE d == Len(running) - Len(todo)
<1>5. /\ d \in Nat /\ Len(running) = d + Len(todo) /\ \A i \in 1..Len(todo) : todo[i] = running[d + i]
  BY <1>2, <1>3, <1>4, LenProperties DEF RunningLeft
<1> HIDE DEF d
<1>6. \A i \in 1..Len(todo) : d + i \in 1..Len(running) BY <1>4, <1>5
<1>7. IsInjective(todo)
  <2>1. \A i, j \in 1..Len(running) : i < j => running[i] # running[j] BY <1>3, InjectiveSeq
  <2>2. \A i, j \in 1..Len(todo) : i < j => d + i < d + j BY <1>4, <1>5
  <2>3. \A i, j \in 1..Len(todo) : i < j => todo[i] # todo[j] BY <1>5, <1>6, <2>1, <2>2
  <2> QED BY <1>3, <2>3, InjectiveSeq
<1>8. ToSet(todo) \subseteq ToSet(running)
  <2>1. \A x : x \in ToSet(todo) <=> \E i \in 1..Len(todo) : todo[i] = x BY <1>3, MembersOfSeq
  <2>2. \A x : x \in ToSet(running) <=> \E i \in 1..Len(running) : running[i] = x BY <1>3, MembersOfSeq
  <2> QED BY <1>5, <1>6, <2>1, <2>2
<1>9. granted[Head(todo)] = 0 BY <1>2, <1>4 DEF RunningLeft
<1> QED BY <1>1, <1>4, <1>7, <1>8, <1>9

(* After a grant no greater than the budget and the need, the types hold.  *)
LEMMA GrantControl ==
  ASSUME Struct, NEW r \in Requests, NEW t \in Nat, t <= budget, Grant(r, t),
         UNCHANGED <<threshold, protect, congest, earned>>
  PROVE  ControlOK'
<1>1. /\ budget' \in Nat /\ deficit' \in [Requests -> Nat]
      /\ \A s \in Requests : deficit'[s] <= deficit[s]
  BY GrantFacts
<1>2. /\ earned \in [Requests -> Nat] /\ threshold \in Nat
      /\ protect \in BOOLEAN /\ congest \in BOOLEAN
      /\ \A s \in Requests : deficit[s] \in Nat /\ deficit[s] <= MaxBank /\ earned[s] <= PromptOf[s]
  BY DEF Struct, TypeOK, ControlOK
<1>3. MaxBank \in Nat BY Constants
<1>4. \A s \in Requests : deficit'[s] <= MaxBank BY <1>1, <1>2, <1>3
<1> QED BY <1>1, <1>2, <1>4 DEF ControlOK

LEMMA ServeStruct == ASSUME Struct, Serve PROVE Struct'
<1> DEFINE h == Head(todo)
           t == Allowed(h, 0)
<1>1. /\ phase = "running" /\ phase' = "running" /\ h \in Requests /\ h \in ToSet(running)
      /\ todo' \in Seq(Requests) /\ Len(todo') = Len(todo) - 1 /\ Len(todo) \in Nat \ {0}
      /\ \A i \in 1..Len(todo') : todo'[i] = todo[i + 1]
      /\ h \notin ToSet(todo')
      /\ Grant(h, t)
      /\ UNCHANGED <<file, running, waiting, skipped, computed, output, threshold, protect,
                     congest, earned>>
  BY ServeFacts
<1>2. t \in Nat /\ t <= budget BY <1>1, AllowedFacts
<1> HIDE DEF t, h
<1>3. /\ granted' \in [Requests -> Nat] /\ \A s \in Requests \ {h} : granted'[s] = granted[s]
  BY <1>1, <1>2, GrantFacts
<1>4. FileOK' BY <1>1 DEF Struct, TypeOK, FileOK
<1>5. QueuesOK' BY <1>1 DEF Struct, TypeOK, QueuesOK
<1>6. ProgressOK'
  <2>1. ASSUME NEW r \in Requests, granted'[r] > 0 PROVE r \in ToSet(running')
    <3>1. CASE r = h BY <1>1, <3>1
    <3>2. CASE r # h
      <4>1. granted[r] > 0 BY <1>3, <2>1, <3>2
      <4> QED BY <1>1, <4>1 DEF Struct, TypeOK, ProgressOK
    <3> QED BY <3>1, <3>2
  <2> QED BY <1>1, <1>3, <2>1 DEF Struct, TypeOK, ProgressOK, Prefilling, Done, Present
<1>7. ControlOK' BY <1>1, <1>2, GrantControl
<1>8. Fresh' /\ Pristine' BY <1>1 DEF Struct, Fresh, Pristine, Done
<1>9. RunningLeft BY <1>1 DEF Struct, Plan
<1>10. RunningLeft'
  <2>1. Len(running) \in Nat BY QueueTypes DEF Struct
  <2>2. Len(todo') <= Len(running') BY <1>1, <1>9, <2>1 DEF RunningLeft
  <2>3. ASSUME NEW i \in 1..Len(todo')
        PROVE  /\ todo'[i] = running'[(Len(running') - Len(todo')) + i]
               /\ granted'[todo'[i]] = 0
    <3>1. i + 1 \in 1..Len(todo) /\ todo'[i] = todo[i + 1]
          /\ (Len(running) - Len(todo)) + (i + 1) = (Len(running) - Len(todo')) + i
      BY <1>1, <2>1
    <3>2. /\ todo[i + 1] = running[(Len(running) - Len(todo)) + (i + 1)]
          /\ granted[todo[i + 1]] = 0
      BY <3>1, <1>9 DEF RunningLeft
    <3>3. todo'[i] \in ToSet(todo') /\ todo'[i] \in Requests BY <1>1, MembersOfSeq
    <3>4. todo'[i] # h BY <1>1, <3>3
    <3> QED BY <1>1, <1>3, <3>1, <3>2, <3>3, <3>4
  <2> QED BY <2>2, <2>3 DEF RunningLeft
<1>11. Plan' BY <1>1, <1>10 DEF Struct, Plan
<1> QED BY <1>4, <1>5, <1>6, <1>7, <1>8, <1>11 DEF Struct, TypeOK

(* The list of the waiting loop: skipped requests first.                   *)
LEMMA RunningDoneStruct == ASSUME Struct, RunningDone PROVE Struct'
<1>1. /\ phase = "running" /\ phase' = "waiting" /\ todo' = skipped \o waiting
      /\ UNCHANGED <<file, running, waiting, skipped, computed, output, budget, granted,
                     threshold, protect, congest, deficit, earned>>
  BY DEF RunningDone, queues, progress, control
<1>2. /\ skipped \in Seq(Requests) /\ waiting \in Seq(Requests)
      /\ IsInjective(skipped) /\ IsInjective(waiting) /\ ToSet(skipped) \cap ToSet(waiting) = {}
  BY DEF Struct, TypeOK, QueuesOK
<1>3. /\ todo' \in Seq(Requests) /\ IsInjective(todo')
      /\ ToSet(todo') = ToSet(skipped) \cup ToSet(waiting)
  BY <1>1, <1>2, ConcatSet
<1>4. FileOK' BY <1>1, <1>3 DEF Struct, TypeOK, FileOK
<1>5. QueuesOK' BY <1>1 DEF Struct, TypeOK, QueuesOK
<1>6. ProgressOK' BY <1>1 DEF Struct, TypeOK, ProgressOK, Prefilling, Done, Present
<1>7. ControlOK' BY <1>1 DEF Struct, TypeOK, ControlOK
<1>8. Fresh' /\ Pristine' BY <1>1 DEF Struct, Fresh, Pristine, Done
<1>9. Plan' BY <1>1, <1>3 DEF Struct, Plan, WaitingLeft, Queued
<1> QED BY <1>4, <1>5, <1>6, <1>7, <1>8, <1>9 DEF Struct, TypeOK

(* A request that comes up waits, and does not come up twice.              *)
LEMMA ComesFacts ==
  ASSUME Struct, NEW r, Comes(r)
  PROVE  /\ phase = "waiting" /\ budget > 0 /\ Len(running) < MaxRunning
         /\ r \in Requests /\ r \in Queued /\ r \notin ToSet(running)
         /\ todo' \in Seq(Requests) /\ IsInjective(todo')
         /\ ToSet(todo') \subseteq Queued \ {r}
<1>1. /\ phase = "waiting" /\ todo # <<>> /\ budget > 0 /\ Len(running) < MaxRunning
      /\ r = Head(todo) /\ todo' = Tail(todo)
  BY DEF Comes
<1>2. todo \in Seq(Requests) BY <1>1 DEF Struct, TypeOK, FileOK
<1>3. IsInjective(todo) /\ ToSet(todo) \subseteq Queued BY <1>1 DEF Struct, Plan, WaitingLeft
<1>4. /\ r \in Requests /\ todo' \in Seq(Requests) /\ ToSet(todo) = {r} \cup ToSet(todo')
      /\ IsInjective(todo') /\ r \notin ToSet(todo')
  BY <1>1, <1>2, <1>3, TailSet
<1>5. r \in Queued BY <1>3, <1>4
<1>6. r \notin ToSet(running) BY <1>5 DEF Queued, Struct, TypeOK, QueuesOK
<1> QED BY <1>1, <1>3, <1>4, <1>5, <1>6

(* A queue without one request.                                            *)
LEMMA WithoutFacts ==
  ASSUME NEW q \in Seq(Requests), IsInjective(q), NEW r
  PROVE  /\ Without(q, r) \in Seq(Requests) /\ IsInjective(Without(q, r))
         /\ ToSet(Without(q, r)) = ToSet(q) \ {r}
<1>1. /\ Without(q, r) \in Seq(Requests) /\ IsInjective(Without(q, r))
      /\ ToSet(Without(q, r)) = ToSet(q) \cap (Requests \ {r})
  BY OnlySet DEF Without
<1>2. ToSet(q) \subseteq Requests BY MembersOfSeq
<1> QED BY <1>1, <1>2

(* One turn of the waiting loop, in which the request is admitted.         *)
LEMMA AdmitFacts ==
  ASSUME Struct, NEW r, Admit(r)
  PROVE  /\ phase = "waiting" /\ phase' = "waiting" /\ budget > 0
         /\ r \in Requests /\ r \in Queued /\ r \notin ToSet(running)
         /\ todo' \in Seq(Requests) /\ IsInjective(todo') /\ ToSet(todo') \subseteq Queued \ {r}
         /\ running' \in Seq(Requests) /\ IsInjective(running')
         /\ ToSet(running') = ToSet(running) \cup {r}
         /\ Len(running') = Len(running) + 1 /\ Len(running') <= MaxRunning
         /\ waiting' \in Seq(Requests) /\ IsInjective(waiting') /\ ToSet(waiting') = ToSet(waiting) \ {r}
         /\ skipped' \in Seq(Requests) /\ IsInjective(skipped') /\ ToSet(skipped') = ToSet(skipped) \ {r}
         /\ Allowed(r, 1) \in Nat /\ Allowed(r, 1) <= budget /\ Grant(r, Allowed(r, 1))
         /\ UNCHANGED <<file, computed, output, threshold, protect, congest, earned>>
<1>1. /\ Comes(r) /\ Grant(r, Allowed(r, 1)) /\ running' = Append(running, r) /\ phase' = phase
      /\ waiting' = Without(waiting, r) /\ skipped' = Without(skipped, r)
      /\ UNCHANGED <<file, computed, output, threshold, protect, congest, earned>>
  BY DEF Admit, progress
<1>2. /\ phase = "waiting" /\ budget > 0 /\ Len(running) < MaxRunning
      /\ r \in Requests /\ r \in Queued /\ r \notin ToSet(running)
      /\ todo' \in Seq(Requests) /\ IsInjective(todo') /\ ToSet(todo') \subseteq Queued \ {r}
  BY <1>1, ComesFacts
<1>3. /\ running \in Seq(Requests) /\ waiting \in Seq(Requests) /\ skipped \in Seq(Requests)
      /\ IsInjective(running) /\ IsInjective(waiting) /\ IsInjective(skipped)
      /\ Len(running) \in Nat
  BY QueueTypes DEF Struct, TypeOK, QueuesOK
<1>4. /\ running' \in Seq(Requests) /\ IsInjective(running')
      /\ ToSet(running') = ToSet(running) \cup {r}
      /\ Len(running') = Len(running) + 1
  BY <1>1, <1>2, <1>3, AppendSet
<1>5. Len(running') <= MaxRunning BY <1>2, <1>3, <1>4, Constants
<1>6. /\ waiting' \in Seq(Requests) /\ IsInjective(waiting') /\ ToSet(waiting') = ToSet(waiting) \ {r}
      /\ skipped' \in Seq(Requests) /\ IsInjective(skipped') /\ ToSet(skipped') = ToSet(skipped) \ {r}
  BY <1>1, <1>3, WithoutFacts
<1>7. Allowed(r, 1) \in Nat /\ Allowed(r, 1) <= budget BY <1>2, AllowedFacts
<1> QED BY <1>1, <1>2, <1>4, <1>5, <1>6, <1>7

LEMMA AdmitStruct == ASSUME Struct, NEW r, Admit(r) PROVE Struct'
<1> DEFINE t == Allowed(r, 1)
<1>1. /\ phase = "waiting" /\ phase' = "waiting"
      /\ r \in Requests /\ r \in Queued /\ r \notin ToSet(running)
      /\ todo' \in Seq(Requests) /\ IsInjective(todo') /\ ToSet(todo') \subseteq Queued \ {r}
      /\ running' \in Seq(Requests) /\ IsInjective(running')
      /\ ToSet(running') = ToSet(running) \cup {r} /\ Len(running') <= MaxRunning
      /\ waiting' \in Seq(Requests) /\ IsInjective(waiting') /\ ToSet(waiting') = ToSet(waiting) \ {r}
      /\ skipped' \in Seq(Requests) /\ IsInjective(skipped') /\ ToSet(skipped') = ToSet(skipped) \ {r}
      /\ t \in Nat /\ t <= budget /\ Grant(r, t)
      /\ UNCHANGED <<file, computed, output, threshold, protect, congest, earned>>
  BY AdmitFacts
<1> HIDE DEF t
<1>2. /\ granted' \in [Requests -> Nat] /\ \A s \in Requests \ {r} : granted'[s] = granted[s]
  BY <1>1, GrantFacts
<1>3. FileOK' BY <1>1 DEF Struct, TypeOK, FileOK
<1>4. QueuesOK' BY <1>1 DEF Struct, TypeOK, QueuesOK
<1>5. Present' = Present BY <1>1 DEF Present, Queued
<1>6. ProgressOK'
  <2>1. ASSUME NEW s \in Requests, granted'[s] > 0 PROVE s \in ToSet(running')
    <3>1. CASE s = r BY <1>1, <3>1
    <3>2. CASE s # r
      <4>1. granted[s] > 0 BY <1>2, <2>1, <3>2
      <4> QED BY <1>1, <4>1 DEF Struct, TypeOK, ProgressOK
    <3> QED BY <3>1, <3>2
  <2> QED BY <1>1, <1>2, <1>5, <2>1 DEF Struct, TypeOK, ProgressOK, Prefilling, Done
<1>7. ControlOK' BY <1>1, GrantControl
<1>8. Fresh' /\ Pristine' BY <1>1 DEF Struct, Fresh, Pristine, Done
<1>9. Plan' BY <1>1 DEF Struct, Plan, WaitingLeft, Queued
<1> QED BY <1>3, <1>4, <1>6, <1>7, <1>8, <1>9 DEF Struct, TypeOK

(* One in which it is skipped.                                             *)
LEMMA SkipFacts ==
  ASSUME Struct, NEW r, Skip(r)
  PROVE  /\ phase = "waiting" /\ phase' = "waiting" /\ r \in Blockable
         /\ r \in Requests /\ r \in Queued /\ r \notin ToSet(running)
         /\ todo' \in Seq(Requests) /\ IsInjective(todo') /\ ToSet(todo') \subseteq Queued \ {r}
         /\ waiting' \in Seq(Requests) /\ IsInjective(waiting') /\ ToSet(waiting') = ToSet(waiting) \ {r}
         /\ skipped' \in Seq(Requests) /\ IsInjective(skipped') /\ ToSet(skipped') = ToSet(skipped) \cup {r}
         /\ UNCHANGED <<file, running, computed, output, budget, granted, threshold, protect, congest,
                        deficit, earned>>
<1>1. /\ Comes(r) /\ r \in Blockable /\ phase' = phase
      /\ waiting' = Without(waiting, r) /\ skipped' = Append(Without(skipped, r), r)
      /\ UNCHANGED <<file, running, computed, output, budget, granted, threshold, protect, congest,
                     deficit, earned>>
  BY DEF Skip, progress, control
<1>2. /\ phase = "waiting" /\ r \in Requests /\ r \in Queued /\ r \notin ToSet(running)
      /\ todo' \in Seq(Requests) /\ IsInjective(todo') /\ ToSet(todo') \subseteq Queued \ {r}
  BY <1>1, ComesFacts
<1>3. /\ waiting \in Seq(Requests) /\ skipped \in Seq(Requests)
      /\ IsInjective(waiting) /\ IsInjective(skipped)
  BY DEF Struct, TypeOK, QueuesOK
<1> DEFINE w == Without(skipped, r)
<1>4. /\ waiting' \in Seq(Requests) /\ IsInjective(waiting') /\ ToSet(waiting') = ToSet(waiting) \ {r}
      /\ w \in Seq(Requests) /\ IsInjective(w) /\ ToSet(w) = ToSet(skipped) \ {r}
  BY <1>1, <1>3, WithoutFacts
<1>5. skipped' = Append(w, r) BY <1>1
<1> HIDE DEF w
<1>6. r \notin ToSet(w) BY <1>4
<1>7. /\ skipped' \in Seq(Requests) /\ IsInjective(skipped') /\ ToSet(skipped') = ToSet(w) \cup {r}
  BY <1>2, <1>4, <1>5, <1>6, AppendSet
<1> QED BY <1>1, <1>2, <1>4, <1>7

LEMMA SkipStruct == ASSUME Struct, NEW r, Skip(r) PROVE Struct'
<1>1. /\ phase = "waiting" /\ phase' = "waiting" /\ r \in Blockable
      /\ r \in Requests /\ r \in Queued /\ r \notin ToSet(running)
      /\ todo' \in Seq(Requests) /\ IsInjective(todo') /\ ToSet(todo') \subseteq Queued \ {r}
      /\ waiting' \in Seq(Requests) /\ IsInjective(waiting') /\ ToSet(waiting') = ToSet(waiting) \ {r}
      /\ skipped' \in Seq(Requests) /\ IsInjective(skipped') /\ ToSet(skipped') = ToSet(skipped) \cup {r}
      /\ UNCHANGED <<file, running, computed, output, budget, granted, threshold, protect, congest,
                     deficit, earned>>
  BY SkipFacts
<1>2. FileOK' BY <1>1 DEF Struct, TypeOK, FileOK
<1>3. QueuesOK' BY <1>1 DEF Struct, TypeOK, QueuesOK
<1>4. Present' = Present BY <1>1 DEF Present, Queued
<1>5. ProgressOK' BY <1>1, <1>4 DEF Struct, TypeOK, ProgressOK, Prefilling, Done
<1>6. ControlOK' BY <1>1 DEF Struct, TypeOK, ControlOK
<1>7. Fresh' /\ Pristine' BY <1>1 DEF Struct, Fresh, Pristine, Done
<1>8. Plan' BY <1>1 DEF Struct, Plan, WaitingLeft, Queued
<1> QED BY <1>2, <1>3, <1>5, <1>6, <1>7, <1>8 DEF Struct, TypeOK

-----------------------------------------------------------------------------
(* The end of a round.                                                     *)

(* What the round computes, and which requests stay.                       *)
LEMMA EndRoundFacts ==
  ASSUME Struct, EndRound
  PROVE  /\ phase = "waiting" /\ phase' = "idle" /\ todo' = <<>>
         /\ computed' \in [Requests -> Nat] /\ output' \in [Requests -> Nat]
         /\ \A r \in Requests :
              /\ computed'[r] <= PromptOf[r] /\ computed[r] <= computed'[r]
              /\ computed'[r] <= computed[r] + granted[r]
              /\ computed'[r] = computed[r] + granted[r] \/ computed'[r] = PromptOf[r]
              /\ output'[r] = output[r]
                 \/ (r \in ToSet(running) /\ granted[r] = Need(r) /\ output'[r] = output[r] + 1)
         /\ running' \in Seq(Requests) /\ IsInjective(running') /\ Len(running') <= Len(running)
         /\ ToSet(running') = {r \in ToSet(running) : output'[r] < OutputOf[r]}
         /\ UNCHANGED <<file, waiting, skipped, budget, granted, threshold, protect, congest, deficit,
                        earned>>
<1>1. /\ phase = "waiting" /\ phase' = "idle" /\ todo' = <<>>
      /\ computed' = [r \in Requests |-> Min({PromptOf[r], computed[r] + granted[r]})]
      /\ output' = [r \in Requests |->
                      IF r \in ToSet(running) /\ granted[r] = Need(r) THEN output[r] + 1 ELSE output[r]]
      /\ running' = Only(running, {r \in Requests : output'[r] < OutputOf[r]})
      /\ UNCHANGED <<file, waiting, skipped, budget, granted, threshold, protect, congest, deficit,
                     earned>>
  BY DEF EndRound, control
<1>2. /\ computed \in [Requests -> Nat] /\ granted \in [Requests -> Nat]
      /\ output \in [Requests -> Nat] /\ \A r \in Requests : computed[r] <= PromptOf[r]
  BY DEF Struct, TypeOK, ProgressOK
<1>3. ASSUME NEW r \in Requests
      PROVE  /\ computed'[r] \in Nat
             /\ computed'[r] <= PromptOf[r] /\ computed[r] <= computed'[r]
             /\ computed'[r] <= computed[r] + granted[r]
             /\ computed'[r] = computed[r] + granted[r] \/ computed'[r] = PromptOf[r]
  <2>1. PromptOf[r] \in Nat /\ computed[r] \in Nat /\ granted[r] \in Nat /\ computed[r] <= PromptOf[r]
    BY <1>2, Constants
  <2>2. computed'[r] = IF PromptOf[r] <= computed[r] + granted[r] THEN PromptOf[r]
                       ELSE computed[r] + granted[r]
    BY <1>1, <2>1, MinOfTwo
  <2> QED BY <2>1, <2>2
<1>4. computed' \in [Requests -> Nat]
  <2>1. computed' = [r \in Requests |-> computed'[r]] BY <1>1
  <2> QED BY <1>3, <2>1
<1>5. output' \in [Requests -> Nat] BY <1>1, <1>2
<1>6. \A r \in Requests : output'[r] = output[r]
        \/ (r \in ToSet(running) /\ granted[r] = Need(r) /\ output'[r] = output[r] + 1)
  BY <1>1
<1>7. running \in Seq(Requests) /\ IsInjective(running) /\ ToSet(running) \subseteq Requests
  BY QueueTypes DEF Struct, TypeOK, QueuesOK
<1> DEFINE S == {r \in Requests : output'[r] < OutputOf[r]}
<1>8. /\ running' \in Seq(Requests) /\ Len(running') <= Len(running) /\ IsInjective(running')
      /\ ToSet(running') = ToSet(running) \cap S
  <2>1. running' = Only(running, S) BY <1>1
  <2> HIDE DEF S
  <2> QED BY <1>7, <2>1, OnlySet
<1>9. ToSet(running') = {r \in ToSet(running) : output'[r] < OutputOf[r]} BY <1>7, <1>8
<1> QED BY <1>1, <1>3, <1>4, <1>5, <1>6, <1>8, <1>9

LEMMA EndRoundStruct == ASSUME Struct, EndRound PROVE Struct'
<1>1. /\ phase = "waiting" /\ phase' = "idle" /\ todo' = <<>>
      /\ computed' \in [Requests -> Nat] /\ output' \in [Requests -> Nat]
      /\ \A r \in Requests :
           /\ computed'[r] <= PromptOf[r] /\ computed[r] <= computed'[r]
           /\ computed'[r] <= computed[r] + granted[r]
           /\ computed'[r] = computed[r] + granted[r] \/ computed'[r] = PromptOf[r]
           /\ output'[r] = output[r]
              \/ (r \in ToSet(running) /\ granted[r] = Need(r) /\ output'[r] = output[r] + 1)
      /\ running' \in Seq(Requests) /\ IsInjective(running') /\ Len(running') <= Len(running)
      /\ ToSet(running') = {r \in ToSet(running) : output'[r] < OutputOf[r]}
      /\ UNCHANGED <<file, waiting, skipped, budget, granted, threshold, protect, congest, deficit,
                     earned>>
  BY EndRoundFacts
<1>2. /\ computed \in [Requests -> Nat] /\ granted \in [Requests -> Nat] /\ output \in [Requests -> Nat]
      /\ \A r \in Requests : PromptOf[r] \in Nat /\ OutputOf[r] \in Nat
      /\ Len(running) \in Nat /\ Len(running') \in Nat /\ MaxRunning \in Nat
  BY <1>1, Constants, QueueTypes, LenProperties DEF Struct, TypeOK, ProgressOK
<1>3. \A r \in Requests : output[r] <= OutputOf[r] /\ (output[r] > 0 => ~Prefilling(r))
                          /\ (Done(r) => r \notin Present)
                          /\ (granted[r] > 0 => r \in ToSet(running))
  BY <1>1 DEF Struct, TypeOK, ProgressOK
<1>4. /\ ToSet(running) \cap ToSet(waiting) = {}
      /\ ToSet(skipped) \cap (ToSet(running) \cup ToSet(waiting)) = {}
      /\ waiting \in Seq(Requests) /\ skipped \in Seq(Requests)
      /\ IsInjective(waiting) /\ IsInjective(skipped) /\ Len(running) <= MaxRunning
  BY DEF Struct, TypeOK, QueuesOK
<1>5. FileOK'
  <2>1. todo' \in Seq(Requests) BY <1>1
  <2> QED BY <1>1, <2>1 DEF Struct, TypeOK, FileOK
<1>6. QueuesOK' BY <1>1, <1>2, <1>4 DEF QueuesOK
<1>7. ASSUME NEW r \in Requests
      PROVE  /\ output'[r] <= OutputOf[r]
             /\ output'[r] > 0 => ~Prefilling(r)'
             /\ Done(r)' => r \notin Present'
  <2>1. CASE r \in ToSet(running) /\ granted[r] = Need(r) /\ output'[r] = output[r] + 1
    <3>1. output[r] < OutputOf[r] BY <1>2, <1>3, <2>1 DEF Done, Present
    <3>2. output'[r] <= OutputOf[r] BY <1>2, <2>1, <3>1
    <3>3. ~Prefilling(r)'
      <4>1. CASE Prefilling(r)
        <5>1. granted[r] = PromptOf[r] - computed[r] BY <2>1, <4>1 DEF Need, Left
        <5>2. computed'[r] = PromptOf[r] BY <1>1, <1>2, <5>1
        <5> QED BY <1>2, <5>2 DEF Prefilling
      <4>2. CASE ~Prefilling(r) BY <1>1, <1>2, <4>2 DEF Prefilling
      <4> QED BY <4>1, <4>2
    <3>4. r \notin ToSet(waiting) \cup ToSet(skipped) BY <1>4, <2>1
    <3>5. Done(r)' => r \notin ToSet(running') BY <1>1, <1>2 DEF Done
    <3> QED BY <1>1, <3>2, <3>3, <3>4, <3>5 DEF Present
  <2>2. CASE output'[r] = output[r]
    <3>1. output'[r] <= OutputOf[r] BY <1>3, <2>2
    <3>2. output'[r] > 0 => ~Prefilling(r)' BY <1>1, <1>2, <1>3, <2>2 DEF Prefilling
    <3>3. Done(r)' => Done(r) BY <1>1, <2>2 DEF Done
    <3>4. Present' \subseteq Present BY <1>1 DEF Present
    <3> QED BY <1>3, <3>1, <3>2, <3>3, <3>4
  <2> QED BY <1>1, <2>1, <2>2
<1>8. ProgressOK' BY <1>1, <1>2, <1>7 DEF ProgressOK
<1>9. ControlOK' BY <1>1 DEF Struct, TypeOK, ControlOK
<1>10. ASSUME NEW r \in Requests
       PROVE  r \in ToSet(running') \/ Done(r)' \/ (computed'[r] = 0 /\ output'[r] = 0)
  <2>1. CASE r \in ToSet(running)
    <3>1. output'[r] <= OutputOf[r] BY <1>7
    <3>2. CASE output'[r] < OutputOf[r] BY <1>1, <2>1, <3>2
    <3>3. CASE output'[r] = OutputOf[r] BY <3>3 DEF Done
    <3> QED BY <1>1, <1>2, <3>1, <3>2, <3>3
  <2>2. CASE r \notin ToSet(running)
    <3>1. granted[r] = 0 BY <1>2, <1>3, <2>2
    <3>2. output'[r] = output[r] BY <1>1, <2>2
    <3>3. CASE Done(r) BY <1>1, <3>2, <3>3 DEF Done
    <3>4. CASE computed[r] = 0 /\ output[r] = 0 BY <1>1, <1>2, <3>1, <3>2, <3>4
    <3> QED BY <2>2, <3>3, <3>4 DEF Struct, Fresh
  <2> QED BY <2>1, <2>2
<1>11. Fresh' BY <1>10 DEF Fresh
<1>12. Pristine' /\ Plan' BY <1>1 DEF Struct, Plan, Pristine
<1> QED BY <1>5, <1>6, <1>8, <1>9, <1>11, <1>12 DEF Struct, TypeOK

-----------------------------------------------------------------------------
(* Type correctness.                                                       *)

LEMMA StutterStruct == ASSUME Struct, UNCHANGED vars PROVE Struct'
<1>1. UNCHANGED <<file, phase, todo, running, waiting, skipped, computed, output, budget, granted,
                  threshold, protect, congest, deficit, earned>>
  BY DEF vars, queues, progress, control
<1> QED BY <1>1
        DEF Struct, TypeOK, FileOK, QueuesOK, ProgressOK, ControlOK, Present, Prefilling, Done,
            Fresh, Pristine, Plan, BlocksLeft, RunningLeft, WaitingLeft, Queued

LEMMA NextStruct == Struct /\ [Next]_vars => Struct'
<1> SUFFICES ASSUME Struct, [Next]_vars PROVE Struct' OBVIOUS
<1>1. CASE \E c \in Controllers : Install(c) BY <1>1, InstallStruct
<1>2. CASE \E enabled \in SUBSET ToSet(file) : Start(enabled) BY <1>2, StartStruct
<1>3. CASE \E r \in Requests : Arrive(r) BY <1>3, ArriveStruct
<1>4. CASE Begin BY <1>4, BeginStruct
<1>5. CASE RunBlock BY <1>5, BlockStruct
<1>6. CASE BlocksDone BY <1>6, BlocksDoneStruct
<1>7. CASE Serve BY <1>7, ServeStruct
<1>8. CASE RunningDone BY <1>8, RunningDoneStruct
<1>9. CASE EndRound BY <1>9, EndRoundStruct
<1>10. CASE \E r \in Requests : Admit(r) \/ Skip(r) BY <1>10, AdmitStruct, SkipStruct
<1>11. CASE UNCHANGED vars BY <1>11, StutterStruct
<1> QED BY <1>1, <1>2, <1>3, <1>4, <1>5, <1>6, <1>7, <1>8, <1>9, <1>10, <1>11
        DEF Next, ScheduleStep

LEMMA StructAlways == Spec => []Struct
<1>1. Init => Struct BY InitStruct
<1>2. Struct /\ [Next]_vars => Struct' BY NextStruct
<1> QED BY <1>1, <1>2, PTL DEF Spec

(* The queues never hold a request twice, no request has more of its       *)
(* prompt than it has, and only a running one is granted tokens.           *)
THEOREM TypeOKAlways == Spec => []TypeOK
<1>1. Struct => TypeOK BY DEF Struct
<1> QED BY <1>1, StructAlways, PTL

-----------------------------------------------------------------------------
(* The order of the stack.                                                 *)

(* The oldest generation is one controller.                                *)
LEMMA Generations1 ==
  /\ \A d \in Family : Generation(d) \in 1..12 /\ d \in Generations[Generation(d)]
  /\ \A d \in Family : d # "ADAPTIVE_LPT" => Generation(d) > 1
  /\ "ADAPTIVE_LPT" \in Family /\ Generation("ADAPTIVE_LPT") = 1
<1>1. DOMAIN Generations = 1..12 BY DEF Generations
<1>2. ASSUME NEW d \in Family PROVE Generation(d) \in 1..12 /\ d \in Generations[Generation(d)]
  <2>1. \E g \in DOMAIN Generations : d \in Generations[g] BY DEF Family, ToSet
  <2> QED BY <1>1, <2>1 DEF Generation
<1>3. Generations[1] = {"ADAPTIVE_LPT"} BY DEF Generations
<1>4. \A g \in 2..12 : "ADAPTIVE_LPT" \notin Generations[g]
  <2> TAKE g \in 2..12
  <2>1. g = 2 \/ g = 3 \/ g = 4 \/ g = 5 \/ g = 6 \/ g = 7 \/ g = 8 \/ g = 9 \/ g = 10 \/ g = 11 \/ g = 12
    OBVIOUS
  <2> QED BY <2>1 DEF Generations
<1>5. "ADAPTIVE_LPT" \in Family
  <2>1. Generations[1] \in ToSet(Generations) BY <1>1 DEF ToSet
  <2> QED BY <1>3, <2>1 DEF Family
<1>6. Generation("ADAPTIVE_LPT") = 1 BY <1>2, <1>4, <1>5
<1>7. \A d \in Family : d # "ADAPTIVE_LPT" => Generation(d) # 1 BY <1>2, <1>3
<1> QED BY <1>2, <1>5, <1>6, <1>7

(* What an installer does not refuse is newer than what is there, or of no *)
(* list; so it runs first.                                                 *)
LEMMA InstallOrder ==
  ASSUME Struct, NewestRunsLast, NEW c \in Controllers, Install(c)
  PROVE  NewestRunsLast'
<1>1. /\ file \in Seq(Controllers) /\ file' = Append(file, c) /\ OtherTags(c) \cap ToSet(file) = {}
  BY DEF Struct, TypeOK, FileOK, Install
<1>2. /\ Len(file) \in Nat /\ Len(file') = Len(file) + 1 /\ DOMAIN file = 1..Len(file)
      /\ DOMAIN file' = 1..Len(file')
      /\ \A i \in 1..Len(file) : file'[i] = file[i]
      /\ file'[Len(file) + 1] = c
  BY <1>1, AppendProperties
<1>3. SUFFICES ASSUME NEW j \in DOMAIN file', NEW k \in DOMAIN file', j < k,
                      file'[j] \in Family, file'[k] \in Family
               PROVE  file'[k] = file'[j] \/ Generation(file'[k]) < Generation(file'[j])
  BY DEF NewestRunsLast
<1>4. j \in 1..Len(file) BY <1>2, <1>3
<1>5. CASE k \in 1..Len(file) BY <1>2, <1>3, <1>4, <1>5 DEF NewestRunsLast
<1>6. CASE k = Len(file) + 1
  <2>1. file'[k] = c /\ file'[j] = file[j] /\ file[j] \in ToSet(file)
    BY <1>1, <1>2, <1>4, <1>6, MembersOfSeq
  <2>2. CASE c = "ADAPTIVE_LPT" BY <1>3, <2>1, <2>2, Generations1
  <2>3. CASE c # "ADAPTIVE_LPT"
    <3>1. c # "LENGTHGATE"
      <4>1. "LENGTHGATE" \notin Family
        <5>1. \A g \in 1..12 : "LENGTHGATE" \notin Generations[g]
          <6> TAKE g \in 1..12
          <6>1. g = 1 \/ g = 2 \/ g = 3 \/ g = 4 \/ g = 5 \/ g = 6 \/ g = 7 \/ g = 8 \/ g = 9 \/ g = 10
                \/ g = 11 \/ g = 12
            OBVIOUS
          <6> QED BY <6>1 DEF Generations
        <5> QED BY <5>1, Generations1
      <4> QED BY <1>3, <2>1, <4>1
    <3>2. file[j] \notin OtherTags(c) BY <1>1, <2>1
    <3>3. ~(Generation(file[j]) <= Generation(c)) BY <1>3, <2>1, <2>3, <3>1, <3>2 DEF OtherTags
    <3>4. Generation(file[j]) \in Nat /\ Generation(c) \in Nat BY <1>3, <2>1, Generations1
    <3> QED BY <2>1, <3>3, <3>4
  <2> QED BY <2>2, <2>3
<1> QED BY <1>2, <1>3, <1>5, <1>6

(* Leaving out blocks keeps the order of the others.                       *)
LEMMA StartOrder ==
  ASSUME Struct, NewestRunsLast, NEW enabled, Start(enabled)
  PROVE  NewestRunsLast'
<1>1. file \in Seq(Controllers) /\ file' = Only(file, enabled)
  BY DEF Struct, TypeOK, FileOK, Start
<1>2. file' \in Seq(Controllers) /\ FilterFacts(file', file, enabled) BY <1>1, OnlyFacts
<1>3. DOMAIN file = 1..Len(file) /\ DOMAIN file' = 1..Len(file') BY <1>1, <1>2
<1>4. SUFFICES ASSUME NEW j \in DOMAIN file', NEW k \in DOMAIN file', j < k,
                      file'[j] \in Family, file'[k] \in Family
               PROVE  file'[k] = file'[j] \/ Generation(file'[k]) < Generation(file'[j])
  BY DEF NewestRunsLast
<1>5. \E a, b \in 1..Len(file) : a < b /\ file'[j] = file[a] /\ file'[k] = file[b]
  BY <1>2, <1>3, <1>4 DEF FilterFacts
<1>6. PICK a \in 1..Len(file), b \in 1..Len(file) : a < b /\ file'[j] = file[a] /\ file'[k] = file[b]
  BY <1>5
<1> QED BY <1>3, <1>4, <1>6 DEF NewestRunsLast

(* No other step touches the file.                                         *)
LEMMA FileKept ==
  ASSUME [Next]_vars
  PROVE  \/ file' = file
         \/ \E c \in Controllers : Install(c)
         \/ \E enabled \in SUBSET ToSet(file) : Start(enabled)
<1>1. CASE \E r \in Requests : Arrive(r) BY <1>1 DEF Arrive
<1>2. CASE Begin BY <1>2 DEF Begin
<1>3. CASE RunBlock BY <1>3, BlockFrame
<1>4. CASE BlocksDone BY <1>4 DEF BlocksDone
<1>5. CASE Serve BY <1>5 DEF Serve
<1>6. CASE RunningDone BY <1>6 DEF RunningDone
<1>7. CASE EndRound BY <1>7 DEF EndRound
<1>8. CASE \E r \in Requests : Admit(r) \/ Skip(r) BY <1>8 DEF Admit, Skip
<1>9. CASE UNCHANGED vars BY <1>9 DEF vars
<1> QED BY <1>1, <1>2, <1>3, <1>4, <1>5, <1>6, <1>7, <1>8, <1>9 DEF Next, ScheduleStep

LEMMA OrderStep == Struct /\ NewestRunsLast /\ [Next]_vars => NewestRunsLast'
<1> SUFFICES ASSUME Struct, NewestRunsLast, [Next]_vars PROVE NewestRunsLast' OBVIOUS
<1>1. CASE file' = file BY <1>1 DEF NewestRunsLast
<1> QED BY <1>1, FileKept, InstallOrder, StartOrder

(* Stacked controllers run oldest last, whatever was installed when.       *)
THEOREM NewestRunsLastAlways == Spec => []NewestRunsLast
<1>1. Init => NewestRunsLast BY DEF Init, NewestRunsLast
<1> QED BY <1>1, OrderStep, StructAlways, PTL DEF Spec

-----------------------------------------------------------------------------
(* The round's tokens.                                                     *)

(* The one way to a budget above the maximum: the fair share with reserve  *)
(* ran, with as many running requests as there are tokens; and then it is  *)
(* the last block that sets the threshold, unless OverReserved.            *)
Crowded ==
  /\ Len(running) = MaxScheduled /\ MaxRunning = MaxScheduled
  /\ Enabled("FAIRSHARE_RESERVE")
  /\ ~OverReserved => threshold = 1
  /\ phase = "blocks" => "ADAPTIVE_LPT" \notin ToSet(todo)

(* What is granted and what is left make up the maximum; in a crowded      *)
(* round, the requests still to be served get a token each.                *)
BudgetInv ==
  /\ phase = "blocks" => budget <= MaxScheduled \/ Crowded
  /\ phase \in {"running", "waiting"} =>
       \/ Scheduled + budget <= MaxScheduled
       \/ /\ Crowded
          /\ ~OverReserved =>
               Scheduled + (IF phase = "running" THEN Len(todo) ELSE 0) <= MaxScheduled
  /\ phase \in {"patching", "idle"} => OverReserved \/ Scheduled <= MaxScheduled

(* What a round schedules is a total.                                      *)
LEMMA ScheduledTotal ==
  ASSUME Struct
  PROVE  /\ Scheduled = Total(granted, Requests) /\ Scheduled \in Int
         /\ (\A r \in Requests : granted[r] = 0) => Scheduled = 0
         /\ granted' = granted => Scheduled' = Scheduled
         /\ Scheduled' = Total(granted', Requests)
<1>1. Scheduled = Total(granted, Requests) BY Zenon DEF Scheduled, Total
<1>2. Scheduled' = Total(granted', Requests) BY Zenon DEF Scheduled, Total, MapThenSumSet, MapThenFoldSet
<1>3. granted \in [Requests -> Int] /\ IsFiniteSet(Requests) BY Constants, ProgressTypes DEF Struct
<1>4. Total(granted, Requests) \in Int BY <1>3, TotalType
<1>5. (\A r \in Requests : granted[r] = 0) => Total(granted, Requests) = 0 BY <1>3, TotalOfZeros
<1> QED BY <1>1, <1>2, <1>4, <1>5

(* A grant to a request that had nothing adds to it.                       *)
LEMMA GrantTotal ==
  ASSUME Struct, NEW r \in Requests, NEW t \in Nat, t <= budget, Grant(r, t), granted[r] = 0
  PROVE  Scheduled \in Int /\ Scheduled' = Scheduled + t /\ budget' = budget - t /\ budget \in Nat
<1>1. /\ granted' \in [Requests -> Nat] /\ granted'[r] = t /\ budget' = budget - t
      /\ \A s \in Requests \ {r} : granted'[s] = granted[s]
  BY GrantFacts
<1>2. granted \in [Requests -> Int] /\ granted' \in [Requests -> Int] /\ IsFiniteSet(Requests)
  BY <1>1, Constants, ProgressTypes DEF Struct
<1>3. /\ Total(granted, Requests) \in Int
      /\ Total(granted', Requests) = Total(granted, Requests) + granted'[r] - granted[r]
  BY <1>1, <1>2, TotalUpdate
<1>4. Scheduled = Total(granted, Requests) /\ Scheduled' = Total(granted', Requests) BY ScheduledTotal
<1>5. budget \in Nat BY DEF Struct, TypeOK, ControlOK
<1> QED BY <1>1, <1>3, <1>4, <1>5

(* With all the tokens reserved, a share is one token.                     *)
LEMMA CrowdedShares ==
  ASSUME Struct, Len(running) = MaxScheduled
  PROVE  FairShare = 1 /\ ReserveShare = 1
<1>1. MaxScheduled \in Nat \ {0} BY Constants
<1>2. MaxScheduled \div (1 + MaxScheduled) = 0 BY <1>1
<1>3. (MaxScheduled - MaxScheduled) \div (1 + MaxScheduled) = 0 BY <1>1
<1>4. Max({1, 0}) = 1 BY MaxOfTwo
<1> QED BY <1>2, <1>3, <1>4 DEF FairShare, ReserveShare

(* The fair share with reserve runs after the adaptive threshold.          *)
LEMMA ReserveAfterAdaptive ==
  ASSUME Struct, NewestRunsLast, FairshareReserve
  PROVE  /\ Enabled("FAIRSHARE_RESERVE")
         /\ "ADAPTIVE_LPT" \notin ToSet(todo')
<1>1. /\ phase = "blocks" /\ todo # <<>> /\ Head(todo) = "FAIRSHARE_RESERVE" /\ todo' = Tail(todo)
  BY DEF FairshareReserve, Runs
<1>2. /\ todo \in Seq(Controllers) /\ file \in Seq(Controllers) /\ Len(file) \in Nat /\ BlocksLeft
  BY <1>1 DEF Struct, TypeOK, FileOK, Plan
<1>3. /\ todo' \in Seq(Controllers) /\ Len(todo') = Len(todo) - 1 /\ Len(todo) \in Nat \ {0}
      /\ \A i \in 1..Len(todo') : todo'[i] = todo[i + 1]
      /\ todo[1] = "FAIRSHARE_RESERVE"
  BY <1>1, <1>2, TailSet
<1> DEFINE n == Len(todo)
<1>4. n \in 1..Len(file) /\ file[n] = "FAIRSHARE_RESERVE" /\ DOMAIN file = 1..Len(file)
  <2>1. 1 \in 1..Len(todo) /\ Len(todo) + 1 - 1 = n BY <1>3
  <2> QED BY <1>2, <1>3, <2>1 DEF BlocksLeft
<1>5. Enabled("FAIRSHARE_RESERVE") BY <1>2, <1>4, MembersOfSeq DEF Enabled
<1>6. "FAIRSHARE_RESERVE" \in Family /\ "FAIRSHARE_RESERVE" # "ADAPTIVE_LPT"
  <2>1. Generations[5] \in ToSet(Generations) BY DEF ToSet, Generations
  <2>2. "FAIRSHARE_RESERVE" \in Generations[5] BY DEF Generations
  <2> QED BY <2>1, <2>2 DEF Family
<1>7. ASSUME "ADAPTIVE_LPT" \in ToSet(todo') PROVE FALSE
  <2>1. PICK i \in 1..Len(todo') : todo'[i] = "ADAPTIVE_LPT" BY <1>3, <1>7, MembersOfSeq
  <2>2. i + 1 \in 1..n /\ n + 1 - (i + 1) \in 1..n /\ n + 1 - (i + 1) < n BY <1>3
  <2>3. file[n + 1 - (i + 1)] = "ADAPTIVE_LPT" BY <1>2, <1>3, <2>1, <2>2 DEF BlocksLeft
  <2>4. n + 1 - (i + 1) \in DOMAIN file /\ n \in DOMAIN file BY <1>4, <2>2
  <2>5. Generation("FAIRSHARE_RESERVE") < Generation("ADAPTIVE_LPT")
    BY <1>4, <1>6, <2>2, <2>3, <2>4, Generations1 DEF NewestRunsLast
  <2> QED BY <2>5, <1>6, Generations1
<1> QED BY <1>5, <1>7

(* A block leaves a budget within the maximum, or the crowded one.         *)
LEMMA BlockBudget ==
  ASSUME Struct, NewestRunsLast, budget <= MaxScheduled \/ Crowded, RunBlock
  PROVE  budget' <= MaxScheduled \/ Crowded'
<1>1. /\ phase = "blocks" /\ phase' = "blocks" /\ todo # <<>> /\ todo' = Tail(todo)
      /\ UNCHANGED <<file, running>>
  BY BlockFrame
<1>2. todo \in Seq(Controllers) BY <1>1 DEF Struct, TypeOK, FileOK
<1>3. ToSet(todo') \subseteq ToSet(todo) /\ Head(todo) \in ToSet(todo) BY <1>1, <1>2, TailSet
<1>4. /\ FairShare \in Nat /\ FairShare <= MaxScheduled /\ ReserveShare \in Nat \ {0}
      /\ Lo \in Nat /\ Lo <= MaxScheduled /\ Hi \in Nat /\ Hi <= MaxScheduled
      /\ MaxScheduled \in Nat \ {0} /\ budget \in Nat /\ Protect \in Nat
  BY Shares, Constants DEF Struct, TypeOK, ControlOK
<1>5. OverReserved' = OverReserved BY <1>1 DEF OverReserved, Enabled
<1>6. ASSUME Crowded, threshold' = threshold \/ threshold' = FairShare \/ OverReserved PROVE Crowded'
  <2>1. FairShare = 1 BY <1>6, CrowdedShares DEF Crowded
  <2>2. ~OverReserved => threshold' = 1 BY <1>6, <2>1 DEF Crowded
  <2> QED BY <1>1, <1>3, <1>5, <1>6, <2>2 DEF Crowded, Enabled
<1>7. ASSUME budget' = budget, threshold' = threshold \/ threshold' = FairShare \/ OverReserved
      PROVE  budget' <= MaxScheduled \/ Crowded'
  BY <1>6, <1>7
<1>8. CASE AdaptiveLpt
  <2>1. "ADAPTIVE_LPT" \in ToSet(todo) BY <1>3, <1>8 DEF AdaptiveLpt, Runs
  <2>2. budget <= MaxScheduled BY <1>1, <2>1 DEF Crowded
  <2>3. Min({budget, Protect}) <= budget /\ Min({budget, Protect}) \in Int BY <1>4, MinOfTwo
  <2>4. budget' = budget \/ budget' = Min({budget, Protect}) BY <1>8 DEF AdaptiveLpt
  <2> QED BY <1>4, <2>2, <2>3, <2>4
<1>9. CASE FairshareLpt
  <2>1. budget' = budget /\ threshold' = FairShare BY <1>9 DEF FairshareLpt
  <2> QED BY <1>7, <2>1
<1>10. CASE FairshareBudget BY <1>4, <1>10 DEF FairshareBudget
<1>11. CASE FairshareBoth BY <1>4, <1>11 DEF FairshareBoth
<1>12. CASE FairshareReserve
  <2>1. budget' = Len(running) + ReserveShare /\ threshold' = ReserveShare
    BY <1>12 DEF FairshareReserve
  <2>2. CASE Len(running) + ReserveShare <= MaxScheduled BY <2>1, <2>2
  <2>3. CASE Len(running) = MaxScheduled /\ ReserveShare = 1
    <3>1. MaxRunning = MaxScheduled
      <4>1. Len(running) <= MaxRunning BY DEF Struct, TypeOK, QueuesOK
      <4> QED BY <2>3, <4>1, Constants
    <3>2. Enabled("FAIRSHARE_RESERVE") /\ "ADAPTIVE_LPT" \notin ToSet(todo')
      BY <1>12, ReserveAfterAdaptive
    <3>3. Crowded' BY <1>1, <2>1, <2>3, <3>1, <3>2 DEF Crowded, Enabled
    <3> QED BY <3>3
  <2> QED BY <2>2, <2>3, Shares
<1>13. CASE DrrLpt
  <2>1. budget' = budget /\ threshold' = threshold BY <1>13 DEF DrrLpt
  <2> QED BY <1>7, <2>1
<1>14. CASE OracleLpt
  <2>1. budget' = budget BY <1>14 DEF OracleLpt
  <2>2. "ORACLE_LPT" \in ToSet(todo) BY <1>3, <1>14 DEF OracleLpt, Runs
  <2>3. Enabled("ORACLE_LPT")
    <3>1. BlocksLeft /\ file \in Seq(Controllers) /\ Len(file) \in Nat /\ Len(todo) \in Nat
      BY <1>1, <1>2, LenProperties DEF Struct, Plan, TypeOK, FileOK
    <3>2. PICK i \in 1..Len(todo) : todo[i] = "ORACLE_LPT" BY <1>2, <2>2, MembersOfSeq
    <3>3. Len(todo) + 1 - i \in 1..Len(file) BY <3>1 DEF BlocksLeft
    <3>4. file[Len(todo) + 1 - i] = "ORACLE_LPT" BY <3>1, <3>2 DEF BlocksLeft
    <3> QED BY <3>1, <3>3, <3>4, MembersOfSeq DEF Enabled
  <2>4. Crowded => OverReserved BY <2>3 DEF Crowded, OverReserved
  <2> QED BY <1>6, <2>1, <2>4
<1>15. CASE OracleBudget BY <1>4, <1>15 DEF OracleBudget
<1>16. CASE WhaleAware BY <1>4, <1>16 DEF WhaleAware
<1>17. CASE WhaleAwareV2 BY <1>4, <1>17 DEF WhaleAwareV2
<1>18. CASE StaticReserve BY <1>4, <1>18 DEF StaticReserve
<1>19. CASE BacklogAware BY <1>4, <1>19 DEF BacklogAware
<1>20. CASE LengthGate BY <1>4, <1>20 DEF LengthGate
<1> QED BY <1>8, <1>9, <1>10, <1>11, <1>12, <1>13, <1>14, <1>15, <1>16, <1>17, <1>18, <1>19, <1>20
        DEF RunBlock

LEMMA BudgetPatching ==
  ASSUME Struct, phase = "patching" PROVE Scheduled = 0
BY ScheduledTotal DEF Struct, Pristine

LEMMA BudgetServe == ASSUME Struct, BudgetInv, Serve PROVE BudgetInv'
<1> DEFINE h == Head(todo)
           t == Allowed(h, 0)
<1>1. /\ phase = "running" /\ phase' = "running" /\ budget > 0
      /\ h \in Requests /\ granted[h] = 0
      /\ Len(todo') = Len(todo) - 1 /\ Len(todo) \in Nat \ {0}
      /\ Grant(h, t)
      /\ UNCHANGED <<file, running, threshold>>
  BY ServeFacts
<1>2. /\ t \in Nat /\ t <= budget
      /\ ~Enabled("DRR_LPT") /\ threshold > 0 => t <= threshold
  BY <1>1, AllowedFacts
<1> HIDE DEF t, h
<1>3. Scheduled \in Int /\ Scheduled' = Scheduled + t /\ budget' = budget - t /\ budget \in Nat
  BY <1>1, <1>2, GrantTotal
<1>4. OverReserved' = OverReserved BY <1>1 DEF OverReserved, Enabled
<1>5. MaxScheduled \in Nat BY Constants
<1>6. CASE Scheduled + budget <= MaxScheduled
  <2>1. Scheduled' + budget' <= MaxScheduled BY <1>2, <1>3, <1>5, <1>6
  <2> QED BY <1>1, <2>1 DEF BudgetInv
<1>7. CASE Crowded /\ (~OverReserved => Scheduled + Len(todo) <= MaxScheduled)
  <2>1. Crowded' BY <1>1, <1>4, <1>7 DEF Crowded, Enabled
  <2>2. ASSUME ~OverReserved PROVE Scheduled' + Len(todo') <= MaxScheduled
    <3>1. ~Enabled("DRR_LPT") /\ threshold = 1 BY <1>7, <2>2 DEF Crowded, OverReserved
    <3>2. t <= 1 BY <1>2, <3>1
    <3> QED BY <1>1, <1>2, <1>3, <1>5, <1>7, <2>2, <3>2
  <2> QED BY <1>1, <1>4, <2>1, <2>2 DEF BudgetInv
<1> QED BY <1>1, <1>6, <1>7 DEF BudgetInv

LEMMA BudgetAdmit == ASSUME Struct, BudgetInv, NEW r, Admit(r) PROVE BudgetInv'
<1> DEFINE t == Allowed(r, 1)
<1>1. /\ phase = "waiting" /\ phase' = "waiting" /\ r \in Requests /\ r \notin ToSet(running)
      /\ Len(running') = Len(running) + 1 /\ Len(running') <= MaxRunning
      /\ t \in Nat /\ t <= budget /\ Grant(r, t)
  BY AdmitFacts
<1> HIDE DEF t
<1>2. granted[r] = 0
  <2>1. granted[r] \in Nat /\ (granted[r] > 0 => r \in ToSet(running))
    BY <1>1, ProgressTypes DEF Struct, TypeOK, ProgressOK
  <2> QED BY <1>1, <2>1
<1>3. Scheduled \in Int /\ Scheduled' = Scheduled + t /\ budget' = budget - t /\ budget \in Nat
  BY <1>1, <1>2, GrantTotal
<1>4. ~Crowded
  <2>1. Len(running) \in Nat BY QueueTypes DEF Struct
  <2> QED BY <1>1, <2>1, Constants DEF Crowded
<1>5. Scheduled + budget <= MaxScheduled BY <1>1, <1>4 DEF BudgetInv
<1>6. Scheduled' + budget' <= MaxScheduled BY <1>1, <1>3, <1>5, Constants
<1> QED BY <1>1, <1>6 DEF BudgetInv

LEMMA BudgetStep == Struct /\ NewestRunsLast /\ BudgetInv /\ [Next]_vars => BudgetInv'
<1> SUFFICES ASSUME Struct, NewestRunsLast, BudgetInv, [Next]_vars PROVE BudgetInv' OBVIOUS
<1>0. /\ Scheduled \in Int /\ ((\A r \in Requests : granted[r] = 0) => Scheduled = 0)
      /\ (granted' = granted => Scheduled' = Scheduled) /\ MaxScheduled \in Nat \ {0}
      /\ budget \in Nat
  BY ScheduledTotal, Constants DEF Struct, TypeOK, ControlOK
<1>1. CASE \E c \in Controllers : Install(c)
  <2>1. phase = "patching" /\ phase' = "patching" /\ granted' = granted BY <1>1 DEF Install
  <2>2. Scheduled' = 0 BY <1>0, <2>1, BudgetPatching
  <2> QED BY <1>0, <2>1, <2>2 DEF BudgetInv
<1>2. CASE \E enabled \in SUBSET ToSet(file) : Start(enabled)
  <2>1. phase = "patching" /\ phase' = "idle" /\ granted' = granted BY <1>2 DEF Start
  <2>2. Scheduled' = 0 BY <1>0, <2>1, BudgetPatching
  <2> QED BY <1>0, <2>1, <2>2 DEF BudgetInv
<1>3. CASE \E r \in Requests : Arrive(r)
  <2>1. phase = "idle" /\ phase' = "idle" /\ granted' = granted /\ file' = file BY <1>3 DEF Arrive
  <2> QED BY <1>0, <2>1 DEF BudgetInv, OverReserved, Enabled
<1>4. CASE Begin BY <1>0, <1>4 DEF Begin, BudgetInv
<1>5. CASE RunBlock
  <2>1. phase = "blocks" /\ phase' = "blocks" BY <1>5, BlockFrame
  <2>2. budget <= MaxScheduled \/ Crowded BY <2>1 DEF BudgetInv
  <2>3. budget' <= MaxScheduled \/ Crowded' BY <1>5, <2>2, BlockBudget
  <2> QED BY <2>1, <2>3 DEF BudgetInv
<1>6. CASE BlocksDone
  <2>1. /\ phase = "blocks" /\ phase' = "running" /\ running' = RunningOrder /\ todo' = RunningOrder
        /\ UNCHANGED <<file, budget, granted, threshold>>
    BY <1>6 DEF BlocksDone, control
  <2>2. Len(running') = Len(running) /\ Len(todo') = Len(running) BY <2>1, SameRunning
  <2>3. Scheduled' = 0 BY <1>0, <2>1 DEF Struct, Plan, BlocksLeft
  <2>4. CASE budget <= MaxScheduled BY <1>0, <2>1, <2>3, <2>4 DEF BudgetInv
  <2>5. CASE Crowded
    <3>1. Crowded' BY <2>1, <2>2, <2>5 DEF Crowded, OverReserved, Enabled
    <3>2. Scheduled' + Len(todo') <= MaxScheduled BY <1>0, <2>2, <2>3, <2>5 DEF Crowded
    <3> QED BY <2>1, <3>1, <3>2 DEF BudgetInv
  <2> QED BY <2>1, <2>4, <2>5 DEF BudgetInv
<1>7. CASE Serve BY <1>7, BudgetServe
<1>8. CASE RunningDone
  <2>1. /\ phase = "running" /\ phase' = "waiting"
        /\ UNCHANGED <<file, running, budget, granted, threshold>>
    BY <1>8 DEF RunningDone, queues, control
  <2>2. Crowded => Crowded' BY <2>1 DEF Crowded, OverReserved, Enabled
  <2>3. OverReserved' = OverReserved BY <2>1 DEF OverReserved, Enabled
  <2>4. Len(todo) \in Nat BY <2>1, LenProperties DEF Struct, TypeOK, FileOK
  <2>5. CASE Scheduled + budget <= MaxScheduled BY <1>0, <2>1, <2>5 DEF BudgetInv
  <2>6. CASE Crowded /\ (~OverReserved => Scheduled + Len(todo) <= MaxScheduled)
    <3>1. ~OverReserved => Scheduled' <= MaxScheduled BY <1>0, <2>1, <2>4, <2>6
    <3> QED BY <1>0, <2>1, <2>2, <2>3, <2>6, <3>1 DEF BudgetInv
  <2> QED BY <2>1, <2>5, <2>6 DEF BudgetInv
<1>9. CASE EndRound
  <2>1. /\ phase = "waiting" /\ phase' = "idle" /\ UNCHANGED <<file, granted>> BY <1>9 DEF EndRound
  <2>2. OverReserved' = OverReserved BY <2>1 DEF OverReserved, Enabled
  <2>3. OverReserved \/ Scheduled <= MaxScheduled BY <1>0, <2>1 DEF BudgetInv
  <2> QED BY <1>0, <2>1, <2>2, <2>3 DEF BudgetInv
<1>10. CASE \E r \in Requests : Admit(r) \/ Skip(r)
  <2>1. CASE \E r \in Requests : Admit(r) BY <2>1, BudgetAdmit
  <2>2. CASE \E r \in Requests : Skip(r)
    <3>1. /\ phase = "waiting" /\ phase' = "waiting"
          /\ UNCHANGED <<file, running, budget, granted, threshold>>
      BY <2>2, SkipFacts
    <3> QED BY <1>0, <3>1 DEF BudgetInv, Crowded, OverReserved, Enabled
  <2> QED BY <1>10, <2>1, <2>2
<1>11. CASE UNCHANGED vars
  <2>1. UNCHANGED <<file, phase, todo, running, budget, granted, threshold>>
    BY <1>11 DEF vars, queues, control
  <2> QED BY <1>0, <2>1 DEF BudgetInv, Crowded, OverReserved, Enabled
<1> QED BY <1>1, <1>2, <1>3, <1>4, <1>5, <1>6, <1>7, <1>8, <1>9, <1>10, <1>11
        DEF Next, ScheduleStep

LEMMA BudgetAlways == Spec => []BudgetInv
<1>1. Init => BudgetInv
  <2> SUFFICES ASSUME Init PROVE BudgetInv OBVIOUS
  <2>1. Struct BY InitStruct
  <2>2. phase = "patching" BY DEF Init
  <2>3. Scheduled = 0 BY <2>1, <2>2, BudgetPatching
  <2> QED BY <2>2, <2>3, Constants DEF BudgetInv
<1> QED BY <1>1, BudgetStep, StructAlways, NewestRunsLastAlways, PTL DEF Spec

(* No admissible stack of controllers schedules more than                  *)
(* max_num_scheduled_tokens, but the stack that OverReserved names.        *)
THEOREM ScheduledWithinMaxAlways == Spec => []ScheduledWithinMax
<1>1. Struct /\ BudgetInv => ScheduledWithinMax
  <2> SUFFICES ASSUME Struct, BudgetInv, ~OverReserved PROVE Scheduled <= MaxScheduled
    BY DEF ScheduledWithinMax
  <2>1. /\ Scheduled \in Int /\ MaxScheduled \in Nat /\ budget \in Nat
        /\ ((\A r \in Requests : granted[r] = 0) => Scheduled = 0)
    BY ScheduledTotal, Constants DEF Struct, TypeOK, ControlOK
  <2>2. CASE phase \in {"patching", "idle"} BY <2>2 DEF BudgetInv
  <2>3. CASE phase = "blocks" BY <2>1, <2>3 DEF Struct, Plan, BlocksLeft
  <2>4. CASE phase = "running"
    <3>1. Len(todo) \in Nat BY <2>4, LenProperties DEF Struct, TypeOK, FileOK
    <3> QED BY <2>1, <2>4, <3>1 DEF BudgetInv
  <2>5. CASE phase = "waiting" BY <2>1, <2>5 DEF BudgetInv
  <2> QED BY <2>2, <2>3, <2>4, <2>5 DEF Struct, TypeOK, FileOK
<1> QED BY <1>1, BudgetAlways, StructAlways, PTL

-----------------------------------------------------------------------------
(* What is earned under DRR_LPT.                                           *)

RoundGrant(r) == IF phase \in {"running", "waiting"} THEN granted[r] ELSE 0

ToppedBefore == phase = "blocks" /\ "DRR_LPT" \notin ToSet(todo)

(* What a request has, what it is being given and its credit were earned.  *)
Covered ==
  \A r \in Requests \ Blockable :
    /\ granted[r] <= MaxBank
    /\ earned[r] = PromptOf[r] \/ computed[r] + RoundGrant(r) + deficit[r] <= earned[r]

(* Once DRR_LPT has run, who is still to be served has credit.             *)
Credited ==
  /\ ToppedBefore \/ phase \in {"running", "waiting"} => \A r \in ToSet(waiting) : deficit[r] > 0
  /\ ToppedBefore => \A r \in ToSet(running) : deficit[r] > 0
  /\ phase = "running" => \A r \in ToSet(todo) : deficit[r] > 0

EarnedInv == Enabled("DRR_LPT") => Covered /\ Credited

(* Numbers.                                                                *)
LEMMA EarnedTypes ==
  ASSUME Struct, NEW r \in Requests
  PROVE  /\ computed[r] \in Nat /\ granted[r] \in Nat /\ deficit[r] \in Nat /\ earned[r] \in Nat
         /\ PromptOf[r] \in Nat /\ computed[r] <= PromptOf[r] /\ deficit[r] <= MaxBank
         /\ MaxBank \in Nat /\ Quantum \in Nat
BY Constants, ProgressTypes DEF Struct, TypeOK, ProgressOK, ControlOK

(* Only DRR_LPT's block pays.                                              *)
LEMMA OtherBlock ==
  ASSUME RunBlock, ~DrrLpt
  PROVE  Head(todo) # "DRR_LPT" /\ UNCHANGED <<deficit, earned>>
BY DEF RunBlock, AdaptiveLpt, FairshareLpt, FairshareBudget, FairshareBoth, FairshareReserve,
       OracleLpt, OracleBudget, WhaleAware, WhaleAwareV2, StaticReserve, BacklogAware,
       LengthGate, Runs, control

LEMMA EarnedBegin == ASSUME Struct, Struct', EarnedInv, Begin PROVE EarnedInv'
<1>1. /\ phase = "idle" /\ phase' = "blocks" /\ todo' = Reverse(file) /\ granted' = Nothing
      /\ UNCHANGED <<file, waiting, running, computed, deficit, earned>>
  BY DEF Begin, queues, progress, control
<1>2. SUFFICES ASSUME Enabled("DRR_LPT") PROVE Covered' /\ Credited'
  BY <1>1 DEF EarnedInv, Enabled
<1>3. Covered /\ Credited BY <1>2 DEF EarnedInv
<1>4. file \in Seq(Controllers) /\ Len(file) \in Nat BY DEF Struct, TypeOK, FileOK
<1>5. /\ todo' \in Seq(Controllers) /\ Len(todo') = Len(file)
      /\ \A i \in 1..Len(file) : todo'[i] = file[Len(file) + 1 - i]
  BY <1>1, <1>4, ReverseFacts
<1>6. "DRR_LPT" \in ToSet(todo')
  <2>1. PICK i \in 1..Len(file) : file[i] = "DRR_LPT" BY <1>2, <1>4, MembersOfSeq DEF Enabled
  <2>2. Len(file) + 1 - i \in 1..Len(file) /\ Len(file) + 1 - (Len(file) + 1 - i) = i BY <1>4
  <2>3. todo'[Len(file) + 1 - i] = "DRR_LPT" BY <1>5, <2>1, <2>2
  <2> QED BY <1>5, <2>2, <2>3, MembersOfSeq
<1>7. Credited' BY <1>1, <1>6 DEF Credited, ToppedBefore
<1>8. ASSUME NEW r \in Requests \ Blockable
      PROVE  /\ granted'[r] <= MaxBank
             /\ earned'[r] = PromptOf[r] \/ computed'[r] + RoundGrant(r)' + deficit'[r] <= earned'[r]
  <2>1. granted'[r] = 0 /\ RoundGrant(r) = 0 /\ RoundGrant(r)' = 0 BY <1>1 DEF Nothing, RoundGrant
  <2> QED BY <1>1, <1>3, <2>1, EarnedTypes DEF Covered
<1> QED BY <1>7, <1>8 DEF Covered

LEMMA EarnedBlock == ASSUME Struct, EarnedInv, RunBlock PROVE EarnedInv'
<1>1. /\ phase = "blocks" /\ phase' = "blocks" /\ todo # <<>> /\ todo' = Tail(todo)
      /\ UNCHANGED <<file, running, waiting, computed, granted>>
  BY BlockFrame
<1>2. SUFFICES ASSUME Enabled("DRR_LPT") PROVE Covered' /\ Credited'
  BY <1>1 DEF EarnedInv, Enabled
<1>3. Covered /\ Credited BY <1>2 DEF EarnedInv
<1>4. \A r : RoundGrant(r) = 0 /\ RoundGrant(r)' = 0 BY <1>1 DEF RoundGrant
<1>5. CASE DrrLpt
  <2>1. /\ deficit' = [r \in Requests |-> ToppedUp(r)]
        /\ earned' = [r \in Requests |->
                        IF r \in ToSet(running) \cup ToSet(waiting)
                          THEN Min({PromptOf[r], earned[r] + Quantum}) ELSE earned[r]]
    BY <1>5 DEF DrrLpt
  <2>2. ASSUME NEW r \in Requests \ Blockable
        PROVE  /\ granted'[r] <= MaxBank
               /\ earned'[r] = PromptOf[r] \/ computed'[r] + RoundGrant(r)' + deficit'[r] <= earned'[r]
    <3>1. /\ computed[r] \in Nat /\ deficit[r] \in Nat /\ earned[r] \in Nat /\ PromptOf[r] \in Nat
          /\ Quantum \in Nat /\ MaxBank \in Nat
      BY EarnedTypes
    <3>2. granted[r] <= MaxBank /\ (earned[r] = PromptOf[r] \/ computed[r] + deficit[r] <= earned[r])
      BY <1>3, <1>4, <3>1 DEF Covered
    <3>3. CASE r \in ToSet(running) \cup ToSet(waiting)
      <4> DEFINE m == Min({PromptOf[r], earned[r] + Quantum})
      <4>1. deficit'[r] = ToppedUp(r) /\ earned'[r] = m BY <2>1, <3>3
      <4>2. /\ ToppedUp(r) \in 0..MaxBank /\ ToppedUp(r) <= deficit[r] + Quantum
            /\ m \in 0..PromptOf[r] /\ (m = PromptOf[r] \/ m = earned[r] + Quantum)
        BY <3>3, ToppedUpFacts
      <4>3. granted'[r] = granted[r] /\ computed'[r] = computed[r] /\ RoundGrant(r)' = 0
        BY <1>1, <1>4
      <4> HIDE DEF m
      <4>4. m = PromptOf[r] \/ computed[r] + 0 + ToppedUp(r) <= m
        <5>1. CASE m = earned[r] + Quantum /\ earned[r] # PromptOf[r]
          <6>1. computed[r] + deficit[r] <= earned[r] BY <3>2, <5>1
          <6>2. ToppedUp(r) \in Nat /\ ToppedUp(r) <= deficit[r] + Quantum BY <3>1, <4>2
          <6> QED BY <3>1, <5>1, <6>1, <6>2
        <5>2. CASE m = earned[r] + Quantum /\ earned[r] = PromptOf[r] BY <3>1, <4>2, <5>2
        <5> QED BY <4>2, <5>1, <5>2
      <4> QED BY <3>2, <4>1, <4>3, <4>4
    <3>4. CASE r \notin ToSet(running) \cup ToSet(waiting)
      <4>1. deficit'[r] = 0 /\ earned'[r] = earned[r] BY <2>1, <3>4, ToppedUpFacts
      <4> QED BY <1>1, <1>4, <3>1, <3>2, <4>1
    <3> QED BY <3>3, <3>4
  <2>3. \A r \in ToSet(running) \cup ToSet(waiting) : deficit'[r] > 0
    <3>1. ToSet(running) \subseteq Requests /\ ToSet(waiting) \subseteq Requests BY QueueTypes DEF Struct
    <3>2. ASSUME NEW r \in ToSet(running) \cup ToSet(waiting) PROVE deficit'[r] > 0
      <4>1. r \in Requests BY <3>1
      <4>2. ToppedUp(r) > 0 BY <4>1, ToppedUpFacts
      <4> QED BY <2>1, <4>1, <4>2
    <3> QED BY <3>2
  <2> QED BY <1>1, <2>2, <2>3 DEF Covered, Credited
<1>6. CASE ~DrrLpt
  <2>1. Head(todo) # "DRR_LPT" /\ UNCHANGED <<deficit, earned>> BY <1>6, OtherBlock
  <2>2. todo \in Seq(Controllers) BY <1>1 DEF Struct, TypeOK, FileOK
  <2>3. ToSet(todo) = {Head(todo)} \cup ToSet(todo') BY <1>1, <2>2, TailSet
  <2>4. ToppedBefore' = ToppedBefore BY <1>1, <2>1, <2>3 DEF ToppedBefore
  <2>5. Credited' BY <1>1, <1>3, <2>1, <2>4 DEF Credited
  <2>6. Covered' BY <1>1, <1>3, <1>4, <2>1 DEF Covered
  <2> QED BY <2>5, <2>6
<1> QED BY <1>5, <1>6

(* A grant out of credit keeps what is covered.                            *)
LEMMA CoveredGrant ==
  ASSUME Struct, Covered, phase \in {"running", "waiting"}, phase' = phase, Enabled("DRR_LPT"),
         NEW h \in Requests, NEW t \in Nat, t <= budget, Grant(h, t), granted[h] = 0,
         h \notin Blockable => t <= deficit[h],
         UNCHANGED <<computed, earned>>
  PROVE  Covered'
<1>1. /\ granted'[h] = t /\ \A s \in Requests \ {h} : granted'[s] = granted[s] /\ deficit'[s] = deficit[s]
      /\ (deficit'[h] = 0 /\ t >= deficit[h]) \/ deficit'[h] = deficit[h] - t
  BY GrantFacts
<1>2. ASSUME NEW r \in Requests \ Blockable
      PROVE  /\ granted'[r] <= MaxBank
             /\ earned'[r] = PromptOf[r] \/ computed'[r] + RoundGrant(r)' + deficit'[r] <= earned'[r]
  <2>1. /\ computed[r] \in Nat /\ deficit[r] \in Nat /\ earned[r] \in Nat /\ granted[r] \in Nat
        /\ MaxBank \in Nat /\ deficit[r] <= MaxBank
    BY EarnedTypes
  <2>2. RoundGrant(r) = granted[r] /\ RoundGrant(r)' = granted'[r] BY DEF RoundGrant
  <2>3. granted[r] <= MaxBank /\ (earned[r] = PromptOf[r] \/ computed[r] + granted[r] + deficit[r] <= earned[r])
    BY <2>2 DEF Covered
  <2>4. CASE r = h
    <3>1. t <= deficit[h] BY <2>4
    <3>2. deficit'[h] = deficit[h] - t BY <1>1, <2>1, <2>4, <3>1
    <3> QED BY <1>1, <2>1, <2>2, <2>3, <2>4, <3>1, <3>2
  <2>5. CASE r # h BY <1>1, <2>2, <2>3, <2>5
  <2> QED BY <2>4, <2>5
<1> QED BY <1>2 DEF Covered

LEMMA EarnedServe == ASSUME Struct, EarnedInv, Serve PROVE EarnedInv'
<1> DEFINE h == Head(todo)
           t == Allowed(h, 0)
<1>1. /\ phase = "running" /\ phase' = "running"
      /\ h \in ToSet(running) /\ h \in Requests /\ granted[h] = 0
      /\ ToSet(todo) = {h} \cup ToSet(todo') /\ h \notin ToSet(todo')
      /\ ToSet(todo) \subseteq ToSet(running) /\ Grant(h, t)
      /\ UNCHANGED <<file, running, waiting, computed, earned>>
  BY ServeFacts
<1>2. SUFFICES ASSUME Enabled("DRR_LPT") PROVE Covered' /\ Credited'
  BY <1>1 DEF EarnedInv, Enabled
<1>3. Covered /\ Credited BY <1>2 DEF EarnedInv
<1>4. t \in Nat /\ t <= budget /\ (t <= 0 \/ t <= deficit[h]) BY <1>1, <1>2, AllowedFacts
<1>5. t <= deficit[h] BY <1>1, <1>4, EarnedTypes
<1> HIDE DEF t, h
<1>6. Covered' BY <1>1, <1>2, <1>3, <1>4, <1>5, CoveredGrant
<1>7. \A s \in Requests \ {h} : deficit'[s] = deficit[s] BY <1>1, <1>4, GrantFacts
<1>8. /\ ToSet(running) \subseteq Requests /\ ToSet(waiting) \subseteq Requests
      /\ ToSet(running) \cap ToSet(waiting) = {}
  BY QueueTypes DEF Struct, TypeOK, QueuesOK
<1>9. Credited' BY <1>1, <1>3, <1>7, <1>8 DEF Credited, ToppedBefore
<1> QED BY <1>6, <1>9

LEMMA EarnedAdmit == ASSUME Struct, EarnedInv, NEW r, Admit(r) PROVE EarnedInv'
<1> DEFINE t == Allowed(r, 1)
<1>1. /\ phase = "waiting" /\ phase' = "waiting"
      /\ r \in Requests /\ r \in Queued /\ r \notin ToSet(running)
      /\ ToSet(waiting') = ToSet(waiting) \ {r}
      /\ t \in Nat /\ t <= budget /\ Grant(r, t)
      /\ UNCHANGED <<file, computed, earned>>
  BY AdmitFacts
<1>2. SUFFICES ASSUME Enabled("DRR_LPT") PROVE Covered' /\ Credited'
  BY <1>1 DEF EarnedInv, Enabled
<1>3. Covered /\ Credited BY <1>2 DEF EarnedInv
<1>4. t <= 1 \/ t <= deficit[r] BY <1>1, <1>2, AllowedFacts
<1>5. ASSUME r \notin Blockable PROVE t <= deficit[r]
  <2>1. r \in ToSet(waiting) BY <1>1, <1>5 DEF Queued, Struct, Plan
  <2>2. deficit[r] > 0 BY <1>1, <1>3, <2>1 DEF Credited
  <2> QED BY <1>1, <1>4, <2>2, EarnedTypes
<1>6. granted[r] = 0
  <2>1. granted[r] \in Nat /\ (granted[r] > 0 => r \in ToSet(running))
    BY <1>1, ProgressTypes DEF Struct, TypeOK, ProgressOK
  <2> QED BY <1>1, <2>1
<1> HIDE DEF t
<1>7. Covered' BY <1>1, <1>2, <1>3, <1>5, <1>6, CoveredGrant
<1>8. \A s \in Requests \ {r} : deficit'[s] = deficit[s] BY <1>1, GrantFacts
<1>9. ToSet(waiting) \subseteq Requests BY QueueTypes DEF Struct
<1>10. Credited' BY <1>1, <1>3, <1>8, <1>9 DEF Credited, ToppedBefore
<1> QED BY <1>7, <1>10

LEMMA EarnedStep == Struct /\ Struct' /\ EarnedInv /\ [Next]_vars => EarnedInv'
<1> SUFFICES ASSUME Struct, Struct', EarnedInv, [Next]_vars PROVE EarnedInv' OBVIOUS
<1>1. ASSUME phase = "patching", phase' \in {"patching", "idle"},
             UNCHANGED <<computed, granted, deficit, earned>>
      PROVE  EarnedInv'
  <2>1. ASSUME NEW r \in Requests \ Blockable
        PROVE  /\ granted'[r] <= MaxBank
               /\ earned'[r] = PromptOf[r] \/ computed'[r] + RoundGrant(r)' + deficit'[r] <= earned'[r]
    <3>1. computed[r] = 0 /\ granted[r] = 0 /\ deficit[r] = 0 BY <1>1 DEF Struct, Pristine
    <3>2. RoundGrant(r)' = 0 BY <1>1 DEF RoundGrant
    <3> QED BY <1>1, <3>1, <3>2, EarnedTypes
  <2> QED BY <1>1, <2>1 DEF EarnedInv, Covered, Credited, ToppedBefore
<1>2. CASE \E c \in Controllers : Install(c)
  BY <1>1, <1>2 DEF Install, progress, control
<1>3. CASE \E enabled \in SUBSET ToSet(file) : Start(enabled)
  BY <1>1, <1>3 DEF Start, progress, control
<1>4. CASE \E r \in Requests : Arrive(r)
  <2>1. /\ phase = "idle" /\ phase' = "idle"
        /\ UNCHANGED <<file, computed, granted, deficit, earned>>
    BY <1>4 DEF Arrive, progress, control
  <2> QED BY <2>1 DEF EarnedInv, Enabled, Covered, Credited, ToppedBefore, RoundGrant
<1>5. CASE Begin BY <1>5, EarnedBegin
<1>6. CASE RunBlock BY <1>6, EarnedBlock
<1>7. CASE BlocksDone
  <2>1. /\ phase = "blocks" /\ todo = <<>> /\ phase' = "running"
        /\ running' = RunningOrder /\ todo' = RunningOrder
        /\ UNCHANGED <<file, waiting, computed, granted, deficit, earned>>
    BY <1>7 DEF BlocksDone, progress, control
  <2>2. ToSet(todo') = ToSet(running) BY <2>1, SameRunning
  <2>7. "DRR_LPT" \notin ToSet(todo) BY <2>1 DEF ToSet
  <2>3. ToppedBefore BY <2>1, <2>7 DEF ToppedBefore
  <2>4. Credited => Credited' BY <2>1, <2>2, <2>3 DEF Credited, ToppedBefore
  <2>5. \A r \in Requests : RoundGrant(r) = 0 /\ RoundGrant(r)' = 0
    BY <2>1 DEF RoundGrant, Struct, Plan, BlocksLeft
  <2>6. Covered => Covered' BY <2>1, <2>5 DEF Covered
  <2> QED BY <2>1, <2>4, <2>6 DEF EarnedInv, Enabled
<1>8. CASE Serve BY <1>8, EarnedServe
<1>9. CASE RunningDone
  <2>1. /\ phase = "running" /\ phase' = "waiting"
        /\ UNCHANGED <<file, waiting, computed, granted, deficit, earned>>
    BY <1>9 DEF RunningDone, queues, progress, control
  <2> QED BY <2>1 DEF EarnedInv, Enabled, Covered, Credited, ToppedBefore, RoundGrant
<1>10. CASE EndRound
  <2>1. /\ phase = "waiting" /\ phase' = "idle" /\ UNCHANGED <<file, granted, deficit, earned>>
        /\ computed' \in [Requests -> Nat]
        /\ \A r \in Requests : computed'[r] <= computed[r] + granted[r]
    BY <1>10, EndRoundFacts
  <2>2. ASSUME Covered, NEW r \in Requests \ Blockable
        PROVE  /\ granted'[r] <= MaxBank
               /\ earned'[r] = PromptOf[r] \/ computed'[r] + RoundGrant(r)' + deficit'[r] <= earned'[r]
    <3>1. RoundGrant(r) = granted[r] /\ RoundGrant(r)' = 0 BY <2>1 DEF RoundGrant
    <3>2. computed'[r] \in Nat BY <2>1
    <3> QED BY <2>1, <2>2, <3>1, <3>2, EarnedTypes DEF Covered
  <2> QED BY <2>1, <2>2 DEF EarnedInv, Enabled, Covered, Credited, ToppedBefore
<1>11. CASE \E r \in Requests : Admit(r) \/ Skip(r)
  <2>1. CASE \E r \in Requests : Admit(r) BY <2>1, EarnedAdmit
  <2>2. CASE \E r \in Requests : Skip(r)
    <3>1. PICK r \in Requests : Skip(r) BY <2>2
    <3>2. /\ phase = "waiting" /\ phase' = "waiting" /\ ToSet(waiting') = ToSet(waiting) \ {r}
          /\ UNCHANGED <<file, computed, granted, deficit, earned>>
      BY <3>1, SkipFacts
    <3> QED BY <3>2 DEF EarnedInv, Enabled, Covered, Credited, ToppedBefore, RoundGrant
  <2> QED BY <1>11, <2>1, <2>2
<1>12. CASE UNCHANGED vars
  <2>1. UNCHANGED <<file, phase, todo, running, waiting, computed, granted, deficit, earned>>
    BY <1>12 DEF vars, queues, progress, control
  <2> QED BY <2>1 DEF EarnedInv, Enabled, Covered, Credited, ToppedBefore, RoundGrant
<1> QED BY <1>2, <1>3, <1>4, <1>5, <1>6, <1>7, <1>8, <1>9, <1>10, <1>11, <1>12
        DEF Next, ScheduleStep

LEMMA EarnedAlways == Spec => []EarnedInv
<1>1. Init => EarnedInv
  <2>1. Init => ~Enabled("DRR_LPT") BY DEF Init, Enabled, ToSet
  <2> QED BY <2>1 DEF EarnedInv
<1> QED BY <1>1, EarnedStep, StructAlways, PTL DEF Spec

(* No request gets more of its prompt than the rounds' quanta have earned  *)
(* it, nor more than the bank at once, whatever is stacked on DRR_LPT.     *)
THEOREM EarnedOnlyAlways == Spec => []EarnedOnly
<1>1. Struct /\ EarnedInv => EarnedOnly
  <2> SUFFICES ASSUME Struct, EarnedInv, Enabled("DRR_LPT"), NEW r \in Requests \ Blockable
               PROVE  computed[r] <= earned[r] /\ granted[r] <= MaxBank
    BY DEF EarnedOnly
  <2>1. RoundGrant(r) \in Nat BY EarnedTypes DEF RoundGrant
  <2> QED BY <2>1, EarnedTypes DEF EarnedInv, Covered
<1> QED BY <1>1, EarnedAlways, StructAlways, PTL

-----------------------------------------------------------------------------
(* Decoding requests first.                                                *)

Sorted == \A i, j \in 1..Len(todo) : i < j /\ Prefilling(todo[i]) => Prefilling(todo[j])
AllPrefilling == \A i \in 1..Len(todo) : Prefilling(todo[i])

(* In the loop, the decoding requests come first, none of those that have  *)
(* had their turn was left out, and when a prompt gets tokens no decoding  *)
(* one is still to come.                                                   *)
DecodeRunning ==
  /\ Sorted /\ LeftOut \subseteq ToSet(todo)
  /\ \A r \in Requests : Prefilling(r) /\ granted[r] > 0 => AllPrefilling

DecodeWaiting ==
  LeftOut = {} \/ (budget = 0 /\ \A r \in Requests : Prefilling(r) => granted[r] = 0)

DecodeInv ==
  ToSet(file) \cap Reserving # {} =>
    /\ phase = "running" => DecodeRunning
    /\ phase = "waiting" => DecodeWaiting

LEMMA DecodeBlocksDone == ASSUME Struct, BlocksDone PROVE DecodeInv'
<1>1. /\ phase = "blocks" /\ phase' = "running" /\ running' = RunningOrder /\ todo' = RunningOrder
      /\ UNCHANGED <<file, computed, granted>>
  BY DEF BlocksDone, progress
<1>2. SUFFICES ASSUME ToSet(file) \cap Reserving # {} PROVE DecodeRunning'
  BY <1>1 DEF DecodeInv
<1>3. \A r : Prefilling(r)' = Prefilling(r) BY <1>1 DEF Prefilling
<1> DEFINE D == {r \in Requests : ~Prefilling(r)}
           P == {r \in Requests : Prefilling(r)}
           d == Only(running, D)
           p == Only(running, P)
<1>4. todo' = d \o p BY <1>1, <1>2 DEF RunningOrder
<1>5. running \in Seq(Requests) BY QueueTypes DEF Struct
<1>6. d \in Seq(Requests) /\ ToSet(d) \subseteq D /\ p \in Seq(Requests) /\ ToSet(p) \subseteq P
  <2> HIDE DEF D, P
  <2> QED BY <1>5, OnlySet
<1> HIDE DEF d, p
<1>7. /\ Len(d) \in Nat /\ Len(p) \in Nat /\ Len(todo') = Len(d) + Len(p)
      /\ \A i \in 1..Len(d) + Len(p) : todo'[i] = IF i <= Len(d) THEN d[i] ELSE p[i - Len(d)]
  BY <1>4, <1>6, ConcatSet, LenProperties
<1>8. ASSUME NEW i \in 1..Len(todo') PROVE Prefilling(todo'[i]) <=> i > Len(d)
  <2>1. CASE i <= Len(d)
    <3>1. i \in 1..Len(d) /\ todo'[i] = d[i] BY <1>7, <2>1
    <3>2. d[i] \in D BY <1>6, <3>1, MembersOfSeq
    <3> QED BY <1>7, <2>1, <3>1, <3>2
  <2>2. CASE i > Len(d)
    <3>1. i - Len(d) \in 1..Len(p) /\ todo'[i] = p[i - Len(d)] BY <1>7, <2>2
    <3>2. p[i - Len(d)] \in P BY <1>6, <3>1, MembersOfSeq
    <3> QED BY <2>2, <3>1, <3>2
  <2> QED BY <1>7, <2>1, <2>2
<1>9. Sorted'
  <2>1. ASSUME NEW i \in 1..Len(todo'), NEW j \in 1..Len(todo'), i < j, Prefilling(todo'[i])
        PROVE Prefilling(todo'[j])
    BY <1>7, <1>8, <2>1
  <2>2. \A i, j \in 1..Len(todo') : i < j /\ Prefilling(todo'[i]) => Prefilling(todo'[j]) BY <2>1
  <2> QED BY <1>1, <2>2 DEF Sorted, Prefilling
<1>10. LeftOut' \subseteq ToSet(todo') BY <1>1 DEF LeftOut, Decoding
<1>11. \A r \in Requests : granted'[r] = 0 BY <1>1 DEF Struct, Plan, BlocksLeft
<1> QED BY <1>9, <1>10, <1>11 DEF DecodeRunning

LEMMA DecodeServe == ASSUME Struct, EarnedInv, DecodeInv, Serve PROVE DecodeInv'
<1> DEFINE h == Head(todo)
           t == Allowed(h, 0)
<1>1. /\ phase = "running" /\ phase' = "running" /\ budget > 0 /\ todo # <<>>
      /\ h \in ToSet(running) /\ h \in Requests /\ h \in ToSet(todo)
      /\ ToSet(todo) = {h} \cup ToSet(todo')
      /\ Len(todo') = Len(todo) - 1 /\ Len(todo) \in Nat \ {0}
      /\ \A i \in 1..Len(todo') : todo'[i] = todo[i + 1]
      /\ Grant(h, t)
      /\ UNCHANGED <<file, running, computed>>
  BY ServeFacts
<1>2. SUFFICES ASSUME ToSet(file) \cap Reserving # {} PROVE DecodeRunning'
  BY <1>1 DEF DecodeInv
<1>3. DecodeRunning BY <1>1, <1>2 DEF DecodeInv
<1>4. \A r : Prefilling(r)' = Prefilling(r) BY <1>1 DEF Prefilling
<1>5. ~Enabled("DRR_LPT") \/ deficit[h] > 0 BY <1>1 DEF EarnedInv, Credited
<1>6. t \in Nat /\ t <= budget /\ t > 0 BY <1>1, <1>5, AllowedFacts
<1>7. h = todo[1]
  <2>1. todo \in Seq(Requests) BY <1>1 DEF Struct, TypeOK, FileOK
  <2> QED BY <1>1, <2>1, TailSet
<1> HIDE DEF t, h
<1>8. granted'[h] = t /\ \A s \in Requests \ {h} : granted'[s] = granted[s]
  BY <1>1, <1>6, GrantFacts
<1>9. \A i \in 1..Len(todo') : i + 1 \in 1..Len(todo) /\ 1 < i + 1 /\ 1 \in 1..Len(todo) BY <1>1
<1>10. Sorted'
  <2>1. ASSUME NEW i \in 1..Len(todo'), NEW j \in 1..Len(todo'), i < j, Prefilling(todo'[i])
        PROVE Prefilling(todo'[j])
    <3>1. i + 1 < j + 1 /\ Prefilling(todo[i + 1]) BY <1>1, <2>1
    <3>2. Prefilling(todo[j + 1]) BY <1>3, <1>9, <3>1 DEF DecodeRunning, Sorted
    <3> QED BY <1>1, <3>2
  <2>2. \A i, j \in 1..Len(todo') : i < j /\ Prefilling(todo'[i]) => Prefilling(todo'[j]) BY <2>1
  <2> QED BY <1>1, <2>2 DEF Sorted, Prefilling
<1>11. ASSUME NEW r \in LeftOut' PROVE r \in ToSet(todo')
  <2>1. r \in ToSet(running) /\ ~Prefilling(r) /\ granted'[r] = 0
    BY <1>1, <1>4, <1>11 DEF LeftOut, Decoding
  <2>2. r # h BY <1>6, <1>8, <2>1
  <2>3. r \in Requests BY <2>1, QueueTypes DEF Struct
  <2>4. r \in LeftOut BY <1>8, <2>1, <2>2, <2>3 DEF LeftOut, Decoding
  <2> QED BY <1>1, <1>3, <2>2, <2>4 DEF DecodeRunning
<1>12. ASSUME NEW r \in Requests, Prefilling(r), granted'[r] > 0 PROVE AllPrefilling'
  <2>1. \A i \in 1..Len(todo') : Prefilling(todo[i + 1])
    <3>1. CASE r = h BY <1>3, <1>7, <1>9, <1>12, <3>1 DEF DecodeRunning, Sorted
    <3>2. CASE r # h
      <4>1. granted[r] > 0 BY <1>8, <1>12, <3>2
      <4> QED BY <1>3, <1>9, <1>12, <4>1 DEF DecodeRunning, AllPrefilling
    <3> QED BY <3>1, <3>2
  <2>2. \A i \in 1..Len(todo') : Prefilling(todo'[i]) BY <1>1, <2>1
  <2> QED BY <1>1, <2>2 DEF AllPrefilling, Prefilling
<1> QED BY <1>4, <1>10, <1>11, <1>12 DEF DecodeRunning

LEMMA DecodeRunningDone == ASSUME Struct, DecodeInv, RunningDone PROVE DecodeInv'
<1>1. /\ phase = "running" /\ phase' = "waiting" /\ (todo = <<>> \/ budget = 0)
      /\ UNCHANGED <<file, running, computed, budget, granted>>
  BY DEF RunningDone, queues, progress
<1>2. SUFFICES ASSUME ToSet(file) \cap Reserving # {} PROVE DecodeWaiting'
  BY <1>1 DEF DecodeInv
<1>3. DecodeRunning BY <1>1, <1>2 DEF DecodeInv
<1>4. LeftOut' = LeftOut BY <1>1 DEF LeftOut, Decoding, Prefilling
<1>5. todo \in Seq(Requests) BY <1>1 DEF Struct, TypeOK, FileOK
<1>6. CASE AllPrefilling
  <2>1. \A r \in ToSet(todo) : Prefilling(r) BY <1>5, <1>6, MembersOfSeq DEF AllPrefilling
  <2>2. LeftOut = {} BY <1>3, <2>1 DEF DecodeRunning, LeftOut, Decoding
  <2> QED BY <1>4, <2>2 DEF DecodeWaiting
<1>7. CASE ~AllPrefilling
  <2>1. \A r \in Requests : Prefilling(r) => ~(granted[r] > 0) BY <1>3, <1>7 DEF DecodeRunning
  <2>2. \A r \in Requests : granted[r] \in Nat BY ProgressTypes DEF Struct
  <2>3. \A r \in Requests : Prefilling(r) => granted[r] = 0 BY <2>1, <2>2
  <2>4. todo # <<>> BY <1>7 DEF AllPrefilling
  <2> QED BY <1>1, <2>3, <2>4 DEF DecodeWaiting, Prefilling
<1> QED BY <1>6, <1>7

LEMMA DecodeAdmit == ASSUME Struct, DecodeInv, NEW r, Admit(r) PROVE DecodeInv'
<1> DEFINE t == Allowed(r, 1)
<1>1. /\ phase = "waiting" /\ phase' = "waiting" /\ budget > 0
      /\ r \in Requests /\ r \in Queued /\ r \notin ToSet(running)
      /\ ToSet(running') = ToSet(running) \cup {r}
      /\ t \in Nat /\ t <= budget /\ Grant(r, t)
      /\ UNCHANGED <<file, computed>>
  BY AdmitFacts
<1> HIDE DEF t
<1>2. SUFFICES ASSUME ToSet(file) \cap Reserving # {} PROVE DecodeWaiting'
  BY <1>1 DEF DecodeInv
<1>3. LeftOut = {} BY <1>1, <1>2 DEF DecodeInv, DecodeWaiting
<1>4. Prefilling(r)
  <2>1. ~Done(r) BY <1>1 DEF Struct, TypeOK, ProgressOK, Present, Queued
  <2>2. computed[r] = 0 BY <1>1, <2>1 DEF Struct, Fresh
  <2> QED BY <1>1, <2>2, Constants DEF Prefilling
<1>5. \A s \in Requests \ {r} : granted'[s] = granted[s] BY <1>1, GrantFacts
<1>6. ToSet(running) \subseteq Requests BY QueueTypes DEF Struct
<1>7. LeftOut' = {}
  <2>1. ASSUME NEW s \in LeftOut' PROVE s \in LeftOut
    <3>1. s \in ToSet(running) \cup {r} /\ ~Prefilling(s) /\ granted'[s] = 0
      BY <1>1, <2>1 DEF LeftOut, Decoding, Prefilling
    <3> QED BY <1>4, <1>5, <1>6, <3>1 DEF LeftOut, Decoding
  <2> QED BY <1>3, <2>1
<1> QED BY <1>7 DEF DecodeWaiting

LEMMA DecodeStep == Struct /\ EarnedInv /\ DecodeInv /\ [Next]_vars => DecodeInv'
<1> SUFFICES ASSUME Struct, EarnedInv, DecodeInv, [Next]_vars PROVE DecodeInv' OBVIOUS
<1>1. CASE phase' \notin {"running", "waiting"} BY <1>1 DEF DecodeInv
<1>2. CASE (\E c \in Controllers : Install(c)) \/ (\E enabled \in SUBSET ToSet(file) : Start(enabled))
           \/ (\E r \in Requests : Arrive(r)) \/ Begin \/ EndRound
  <2>1. phase' \notin {"running", "waiting"} BY <1>2 DEF Install, Start, Arrive, Begin, EndRound
  <2> QED BY <1>1, <2>1
<1>3. CASE RunBlock
  <2>1. phase' = "blocks" BY <1>3, BlockFrame
  <2> QED BY <1>1, <2>1
<1>4. CASE BlocksDone BY <1>4, DecodeBlocksDone
<1>5. CASE Serve BY <1>5, DecodeServe
<1>6. CASE RunningDone BY <1>6, DecodeRunningDone
<1>7. CASE \E r \in Requests : Admit(r) \/ Skip(r)
  <2>1. CASE \E r \in Requests : Admit(r) BY <2>1, DecodeAdmit
  <2>2. CASE \E r \in Requests : Skip(r)
    <3>1. /\ phase = "waiting" /\ phase' = "waiting"
          /\ UNCHANGED <<file, running, computed, budget, granted>>
      BY <2>2, SkipFacts
    <3> QED BY <3>1 DEF DecodeInv, DecodeWaiting, LeftOut, Decoding, Prefilling
  <2> QED BY <1>7, <2>1, <2>2
<1>8. CASE UNCHANGED vars
  <2>1. UNCHANGED <<file, phase, todo, running, computed, budget, granted>>
    BY <1>8 DEF vars, queues, progress
  <2> QED BY <2>1 DEF DecodeInv, DecodeWaiting, DecodeRunning, Sorted, AllPrefilling, LeftOut, Decoding,
                      Prefilling
<1> QED BY <1>2, <1>3, <1>4, <1>5, <1>6, <1>7, <1>8 DEF Next, ScheduleStep

LEMMA DecodeAlways == Spec => []DecodeInv
<1>1. Init => DecodeInv BY DEF Init, DecodeInv
<1> QED BY <1>1, DecodeStep, StructAlways, EarnedAlways, PTL DEF Spec

(* With decode-reserve, a round that leaves out a decoding request gives   *)
(* no prompt a token, whatever else is stacked on it.                      *)
THEOREM DecodeFirstAlways == Spec => []DecodeFirst
<1>1. Struct /\ DecodeInv => DecodeFirst
  <2> SUFFICES ASSUME Struct, DecodeInv, ToSet(file) \cap Reserving # {},
                      phase \in {"running", "waiting"},
                      NEW r \in Requests, Prefilling(r), granted[r] > 0
               PROVE  LeftOut = {}
    BY DEF DecodeFirst
  <2>1. CASE phase = "running"
    <3>1. DecodeRunning BY <2>1 DEF DecodeInv
    <3>2. AllPrefilling BY <3>1 DEF DecodeRunning
    <3>3. todo \in Seq(Requests) BY <2>1 DEF Struct, TypeOK, FileOK
    <3>4. \A s \in ToSet(todo) : Prefilling(s) BY <3>2, <3>3, MembersOfSeq DEF AllPrefilling
    <3> QED BY <3>1, <3>4 DEF DecodeRunning, LeftOut, Decoding
  <2>2. CASE phase = "waiting" BY <2>2 DEF DecodeInv, DecodeWaiting
  <2> QED BY <2>1, <2>2
<1> QED BY <1>1, DecodeAlways, StructAlways, PTL

-----------------------------------------------------------------------------
(* Long prompts in slices.                                                 *)

BlocksRan == phase \in {"running", "waiting"} \/ (phase = "blocks" /\ todo = <<>>)
Served == ToSet(running) \cup ToSet(waiting)

(* The adaptive threshold protects from a long prompt until its end.       *)
ProtectedFrom(r) ==
  Prefilling(r) /\ PromptOf[r] > Gate =>
    /\ computed[r] > 0 /\ Left(r) > ExitGate => protect
    /\ BlocksRan /\ r \in Served => (protect /\ threshold = Protect) \/ Left(r) <= ExitGate
    /\ phase \in {"running", "waiting"} => granted[r] <= Protect \/ granted[r] <= ExitGate

(* The whales that the one block of the file detects.                      *)
Seen(r) ==
  /\ PromptOf[r] > WhaleTok
  /\ \/ file \in {<<"WHALE_AWARE_BUDGET_V2">>, <<"BACKLOG_AWARE_BUDGET">>}
     \/ file = <<"WHALE_AWARE_BUDGET">> /\ computed[r] > 0

SliceInv ==
  /\ phase \in {"running", "waiting"} => \A r \in Requests : granted[r] <= Need(r)
  /\ file = <<"ADAPTIVE_LPT">> => \A r \in Requests \ Blockable : ProtectedFrom(r)
  /\ BlocksRan => \A r \in Requests \ Blockable :
       Prefilling(r) /\ Seen(r) /\ r \in Served => budget <= Hi /\ granted[r] <= Hi

(* A request computed in part runs.                                        *)
LEMMA PartlyRuns ==
  ASSUME Struct, NEW r \in Requests, Prefilling(r), computed[r] > 0
  PROVE  r \in ToSet(running)
<1>1. output[r] \in Nat /\ (output[r] > 0 => ~Prefilling(r)) BY ProgressTypes DEF Struct, TypeOK, ProgressOK
<1>2. ~Done(r) BY <1>1, Constants DEF Done
<1>3. computed[r] # 0 BY EarnedTypes
<1> QED BY <1>2, <1>3 DEF Struct, Fresh

(* A file of one block.                                                    *)
LEMMA OneBlock ==
  ASSUME Struct, RunBlock, NEW c, file = <<c>>
  PROVE  Head(todo) = c /\ todo' = <<>>
<1>1. phase = "blocks" /\ todo # <<>> /\ todo' = Tail(todo) BY BlockFrame
<1>2. todo \in Seq(Controllers) /\ BlocksLeft BY <1>1 DEF Struct, TypeOK, FileOK, Plan
<1>3. Len(file) = 1 /\ file[1] = c OBVIOUS
<1>4. /\ Head(todo) = todo[1] /\ Len(todo) \in Nat \ {0} /\ todo' \in Seq(Controllers)
      /\ Len(todo') = Len(todo) - 1
  BY <1>1, <1>2, TailSet
<1>5. Len(todo) = 1 BY <1>2, <1>3, <1>4 DEF BlocksLeft
<1>6. todo[1] = file[1]
  <2>1. 1 \in 1..Len(todo) /\ Len(todo) + 1 - 1 = 1 BY <1>5
  <2> QED BY <1>2, <2>1 DEF BlocksLeft
<1>7. todo' = <<>> BY <1>4, <1>5, EmptySeq
<1> QED BY <1>3, <1>4, <1>6, <1>7

(* The adaptive block: protection sees every long prompt.                  *)
LEMMA ProtectBlock ==
  ASSUME Struct, SliceInv, RunBlock, file = <<"ADAPTIVE_LPT">>, NEW r \in Requests \ Blockable
  PROVE  ProtectedFrom(r)'
<1>1. /\ phase = "blocks" /\ phase' = "blocks" /\ UNCHANGED <<running, waiting, computed>>
  BY BlockFrame
<1>2. Head(todo) = "ADAPTIVE_LPT" BY OneBlock
<1>3. AdaptiveLpt
  BY <1>2 DEF RunBlock, AdaptiveLpt, FairshareLpt, FairshareBudget, FairshareBoth, FairshareReserve,
              DrrLpt, OracleLpt, OracleBudget, WhaleAware, WhaleAwareV2, StaticReserve,
              BacklogAware, LengthGate, Runs
<1>4. /\ protect' = Protected /\ threshold' = IF protect' THEN Protect ELSE 0 BY <1>3 DEF AdaptiveLpt
<1>5. Left(r)' = Left(r) /\ (Prefilling(r)' <=> Prefilling(r)) /\ Served' = Served
  BY <1>1 DEF Left, Prefilling, Served
<1>6. ASSUME Prefilling(r), PromptOf[r] > Gate, Left(r) > ExitGate, r \in Served
      PROVE  protect'
  <2>1. /\ LongestLeft \in Nat /\ Left(r) <= LongestLeft /\ Left(r) \in Nat /\ Gate \in Nat
        /\ ExitGate \in Nat
    BY <1>6, Longest, ProgressTypes, Constants DEF Struct, Served
  <2>2. CASE computed[r] = 0
    <3>1. Left(r) = PromptOf[r] BY <2>2, Constants DEF Left
    <3>2. LongestLeft > Gate BY <1>6, <2>1, <3>1
    <3> QED BY <1>4, <3>2 DEF Protected
  <2>3. CASE computed[r] # 0
    <3>1. computed[r] > 0 BY <2>3, EarnedTypes
    <3>2. protect BY <1>6, <3>1 DEF SliceInv, ProtectedFrom
    <3>3. LongestLeft > ExitGate BY <1>6, <2>1
    <3> QED BY <1>4, <3>2, <3>3 DEF Protected
  <2> QED BY <2>2, <2>3
<1>7. Left(r) \in Nat /\ ExitGate \in Nat BY ProgressTypes, Constants DEF Struct
<1>8. ASSUME Prefilling(r), PromptOf[r] > Gate
      PROVE  /\ computed[r] > 0 /\ Left(r) > ExitGate => protect'
             /\ r \in Served => (protect' /\ threshold' = Protect) \/ Left(r) <= ExitGate
  <2>1. computed[r] > 0 => r \in Served BY <1>8, PartlyRuns DEF Served
  <2>2. Left(r) > ExitGate \/ Left(r) <= ExitGate BY <1>7
  <2> QED BY <1>4, <1>6, <1>8, <2>1, <2>2
<1> QED BY <1>1, <1>5, <1>8 DEF ProtectedFrom

(* A whale that the detector sees gets the low budget.                     *)
LEMMA WhaleBlock ==
  ASSUME Struct, RunBlock, BlocksRan', NEW r \in Requests \ Blockable, Prefilling(r), Seen(r),
         r \in Served
  PROVE  budget' = Hi
<1>1. r \in ToSet(running) \/ r \in ToSet(waiting) BY DEF Served
<1>2. CASE file = <<"WHALE_AWARE_BUDGET_V2">>
  <2>1. Head(todo) = "WHALE_AWARE_BUDGET_V2" BY <1>2, OneBlock
  <2>2. WhaleAwareV2
    BY <2>1 DEF RunBlock, AdaptiveLpt, FairshareLpt, FairshareBudget, FairshareBoth, FairshareReserve,
                DrrLpt, OracleLpt, OracleBudget, WhaleAware, WhaleAwareV2, StaticReserve,
                BacklogAware, LengthGate, Runs
  <2>3. r \in WhalesRunning \cup WhalesWaiting BY <1>1 DEF WhalesRunning, WhalesWaiting, Seen
  <2> QED BY <2>2, <2>3 DEF WhaleAwareV2, Relaxed
<1>3. CASE file = <<"BACKLOG_AWARE_BUDGET">>
  <2>1. Head(todo) = "BACKLOG_AWARE_BUDGET" BY <1>3, OneBlock
  <2>2. BacklogAware
    BY <2>1 DEF RunBlock, AdaptiveLpt, FairshareLpt, FairshareBudget, FairshareBoth, FairshareReserve,
                DrrLpt, OracleLpt, OracleBudget, WhaleAware, WhaleAwareV2, StaticReserve,
                BacklogAware, LengthGate, Runs
  <2>3. r \in WhalesRunning \cup WhalesWaiting BY <1>1 DEF WhalesRunning, WhalesWaiting, Seen
  <2> QED BY <2>2, <2>3 DEF BacklogAware, Relaxed
<1>4. CASE file = <<"WHALE_AWARE_BUDGET">> /\ computed[r] > 0
  <2>1. Head(todo) = "WHALE_AWARE_BUDGET" BY <1>4, OneBlock
  <2>2. WhaleAware
    BY <2>1 DEF RunBlock, AdaptiveLpt, FairshareLpt, FairshareBudget, FairshareBoth, FairshareReserve,
                DrrLpt, OracleLpt, OracleBudget, WhaleAware, WhaleAwareV2, StaticReserve,
                BacklogAware, LengthGate, Runs
  <2>3. r \in WhalesRunning BY <1>4, PartlyRuns DEF WhalesRunning, Seen
  <2> QED BY <2>2, <2>3 DEF WhaleAware, Relaxed
<1> QED BY <1>2, <1>3, <1>4 DEF Seen

LEMMA SliceBlock == ASSUME Struct, SliceInv, RunBlock PROVE SliceInv'
<1>1. /\ phase = "blocks" /\ phase' = "blocks" /\ UNCHANGED <<file, running, waiting, computed, granted>>
  BY BlockFrame
<1>2. file' = <<"ADAPTIVE_LPT">> => \A r \in Requests \ Blockable : ProtectedFrom(r)'
  BY <1>1, ProtectBlock
<1>3. ASSUME BlocksRan', NEW r \in Requests \ Blockable, Prefilling(r)', Seen(r)', r \in Served'
      PROVE  budget' <= Hi /\ granted'[r] <= Hi
  <2>1. Prefilling(r) /\ Seen(r) /\ r \in Served BY <1>1, <1>3 DEF Prefilling, Seen, Served
  <2>2. budget' = Hi BY <1>3, <2>1, WhaleBlock
  <2>3. granted'[r] = 0 BY <1>1 DEF Struct, Plan, BlocksLeft
  <2> QED BY <2>2, <2>3, Constants
<1> QED BY <1>1, <1>2, <1>3 DEF SliceInv

(* A grant within the threshold, or within the budget, is a slice.         *)
LEMMA SliceGrant ==
  ASSUME Struct, SliceInv, phase \in {"running", "waiting"}, phase' = phase,
         NEW h \in Requests, NEW t \in Nat, t <= budget, t <= Need(h), Grant(h, t),
         ~Enabled("DRR_LPT") /\ threshold > 0 => t <= threshold,
         h \notin Blockable => h \in Served,
         \A r \in Requests \ Blockable : r \in Served' => r \in Served,
         UNCHANGED <<file, computed, threshold, protect>>
  PROVE  SliceInv'
<1>1. /\ granted'[h] = t /\ \A s \in Requests \ {h} : granted'[s] = granted[s]
      /\ budget' \in Nat /\ budget' = budget - t
  BY GrantFacts
<1>2. budget \in Nat /\ Hi \in Nat /\ Protect \in Nat \ {0} /\ ExitGate \in Nat
  BY Constants DEF Struct, TypeOK, ControlOK
<1>3. \A r : Left(r)' = Left(r) /\ (Prefilling(r)' <=> Prefilling(r)) /\ Need(r)' = Need(r)
             /\ (Seen(r)' <=> Seen(r))
  BY DEF Left, Prefilling, Need, Seen
<1>4. BlocksRan /\ BlocksRan' BY DEF BlocksRan
<1>5. \A r \in Requests : granted'[r] <= Need(r)' BY <1>1, <1>3 DEF SliceInv
<1>6. ASSUME file = <<"ADAPTIVE_LPT">>, NEW r \in Requests \ Blockable PROVE ProtectedFrom(r)'
  <2>1. ~Enabled("DRR_LPT")
    <3>1. file[1] = "ADAPTIVE_LPT" /\ DOMAIN file = {1} BY <1>6
    <3> QED BY <3>1 DEF Enabled, ToSet
  <2>2. ProtectedFrom(r) BY <1>6 DEF SliceInv
  <2>3. ASSUME Prefilling(r), PromptOf[r] > Gate
        PROVE  granted'[r] <= Protect \/ granted'[r] <= ExitGate
    <3>1. CASE r # h BY <1>1, <2>2, <2>3, <3>1 DEF ProtectedFrom
    <3>2. CASE r = h
      <4>1. r \in Served BY <3>2
      <4>2. (protect /\ threshold = Protect) \/ Left(r) <= ExitGate
        BY <1>4, <2>2, <2>3, <4>1 DEF ProtectedFrom
      <4>3. CASE threshold = Protect BY <1>1, <1>2, <2>1, <3>2, <4>3
      <4>4. CASE Left(r) <= ExitGate
        <5>1. Left(r) \in Nat /\ Need(r) = Left(r) BY <2>3, ProgressTypes DEF Struct
        <5> QED BY <1>1, <1>2, <3>2, <4>4, <5>1
      <4> QED BY <4>2, <4>3, <4>4
    <3> QED BY <3>1, <3>2
  <2> QED BY <1>3, <1>4, <2>2, <2>3 DEF ProtectedFrom
<1>7. ASSUME NEW r \in Requests \ Blockable, Prefilling(r), Seen(r), r \in Served'
      PROVE  budget' <= Hi /\ granted'[r] <= Hi
  <2>1. budget <= Hi /\ granted[r] <= Hi BY <1>4, <1>7 DEF SliceInv
  <2> QED BY <1>1, <1>2, <2>1
<1> QED BY <1>3, <1>4, <1>5, <1>6, <1>7 DEF SliceInv

LEMMA SliceServe == ASSUME Struct, SliceInv, Serve PROVE SliceInv'
<1> DEFINE h == Head(todo)
           t == Allowed(h, 0)
<1>1. /\ phase = "running" /\ phase' = "running" /\ h \in ToSet(running) /\ h \in Requests
      /\ Grant(h, t) /\ UNCHANGED <<file, running, waiting, computed, threshold, protect>>
  BY ServeFacts
<1>2. /\ t \in Nat /\ t <= budget /\ t <= Need(h)
      /\ ~Enabled("DRR_LPT") /\ threshold > 0 => t <= threshold
  BY <1>1, AllowedFacts
<1> HIDE DEF t, h
<1>3. h \in Served /\ Served' = Served BY <1>1 DEF Served
<1> QED BY <1>1, <1>2, <1>3, SliceGrant

LEMMA SliceAdmit == ASSUME Struct, SliceInv, NEW r, Admit(r) PROVE SliceInv'
<1> DEFINE t == Allowed(r, 1)
<1>1. /\ phase = "waiting" /\ phase' = "waiting" /\ r \in Requests /\ r \in Queued
      /\ ToSet(running') = ToSet(running) \cup {r} /\ ToSet(waiting') = ToSet(waiting) \ {r}
      /\ Grant(r, t) /\ UNCHANGED <<file, computed, threshold, protect>>
  BY AdmitFacts
<1>2. /\ t \in Nat /\ t <= budget /\ t <= Need(r)
      /\ ~Enabled("DRR_LPT") /\ threshold > 0 => t <= threshold
  BY <1>1, AllowedFacts
<1> HIDE DEF t
<1>3. r \notin Blockable => r \in Served BY <1>1 DEF Served, Queued, Struct, Plan
<1>4. \A s \in Requests \ Blockable : s \in Served' => s \in Served BY <1>1, <1>3 DEF Served
<1> QED BY <1>1, <1>2, <1>3, <1>4, SliceGrant

LEMMA SliceEndRound == ASSUME Struct, SliceInv, EndRound PROVE SliceInv'
<1>1. /\ phase = "waiting" /\ phase' = "idle" /\ UNCHANGED <<file, granted, protect>>
      /\ computed' \in [Requests -> Nat]
      /\ \A r \in Requests : computed[r] <= computed'[r] /\ computed'[r] <= computed[r] + granted[r]
  BY EndRoundFacts
<1>2. ~BlocksRan' /\ BlocksRan BY <1>1 DEF BlocksRan
<1>3. ASSUME file = <<"ADAPTIVE_LPT">>, NEW r \in Requests \ Blockable,
             Prefilling(r)', PromptOf[r] > Gate, computed'[r] > 0, Left(r)' > ExitGate
      PROVE  protect'
  <2>1. /\ computed[r] \in Nat /\ computed'[r] \in Nat /\ granted[r] \in Nat /\ PromptOf[r] \in Nat
        /\ ExitGate \in Nat
    BY <1>1, EarnedTypes, Constants
  <2>2. Prefilling(r) /\ Left(r) > ExitGate /\ ~(Left(r) <= ExitGate)
    BY <1>1, <1>3, <2>1 DEF Prefilling, Left
  <2>3. ProtectedFrom(r) BY <1>3 DEF SliceInv
  <2>4. CASE computed[r] > 0 BY <1>1, <1>3, <2>2, <2>3, <2>4 DEF ProtectedFrom
  <2>5. CASE computed[r] = 0
    <3>1. granted[r] > 0 BY <1>1, <1>3, <2>1, <2>5
    <3>2. r \in Served BY <1>1, <3>1 DEF Served, Struct, TypeOK, ProgressOK
    <3> QED BY <1>1, <1>2, <1>3, <2>2, <2>3, <3>2 DEF ProtectedFrom
  <2> QED BY <2>1, <2>4, <2>5
<1>4. ASSUME file' = <<"ADAPTIVE_LPT">>, NEW r \in Requests \ Blockable PROVE ProtectedFrom(r)'
  BY <1>1, <1>2, <1>3, <1>4 DEF ProtectedFrom
<1> QED BY <1>1, <1>2, <1>4 DEF SliceInv

LEMMA SliceStep == Struct /\ SliceInv /\ [Next]_vars => SliceInv'
<1> SUFFICES ASSUME Struct, SliceInv, [Next]_vars PROVE SliceInv' OBVIOUS
<1>1. ASSUME phase = "patching", phase' \in {"patching", "idle"}, UNCHANGED computed PROVE SliceInv'
  <2>1. ~BlocksRan' BY <1>1 DEF BlocksRan
  <2>2. ASSUME NEW r \in Requests PROVE ProtectedFrom(r)'
    <3>1. computed'[r] = 0 BY <1>1 DEF Struct, Pristine
    <3> QED BY <1>1, <2>1, <3>1 DEF ProtectedFrom
  <2> QED BY <1>1, <2>1, <2>2 DEF SliceInv
<1>2. CASE \E c \in Controllers : Install(c) BY <1>1, <1>2 DEF Install, progress
<1>3. CASE \E enabled \in SUBSET ToSet(file) : Start(enabled) BY <1>1, <1>3 DEF Start, progress
<1>4. ASSUME phase' \in {"idle", "blocks"}, ~BlocksRan', UNCHANGED <<file, computed, protect>>
      PROVE  SliceInv'
  <2>1. \A r \in Requests : ProtectedFrom(r) => ProtectedFrom(r)'
    BY <1>4 DEF ProtectedFrom, Prefilling, Left
  <2> QED BY <1>4, <2>1 DEF SliceInv
<1>5. CASE \E r \in Requests : Arrive(r)
  BY <1>4, <1>5 DEF Arrive, progress, control, BlocksRan
<1>6. CASE Begin
  <2>1. /\ phase' = "blocks" /\ todo' = Reverse(file) /\ UNCHANGED <<file, computed, protect>>
    BY <1>6 DEF Begin, progress, control
  <2>2. CASE file = <<>>
    <3>1. file' # <<"ADAPTIVE_LPT">> /\ \A r : ~Seen(r)'
      <4>1. \A c : <<c>> # <<>> OBVIOUS
      <4> QED BY <2>1, <2>2, <4>1 DEF Seen
    <3> QED BY <2>1, <3>1 DEF SliceInv
  <2>3. CASE file # <<>>
    <3>1. file \in Seq(Controllers) BY DEF Struct, TypeOK, FileOK
    <3>2. Len(todo') = Len(file) /\ Len(file) # 0 BY <2>1, <2>3, <3>1, ReverseFacts, EmptySeq
    <3>3. todo' # <<>> BY <3>2
    <3> QED BY <1>4, <2>1, <3>3 DEF BlocksRan
  <2> QED BY <2>2, <2>3
<1>7. CASE RunBlock BY <1>7, SliceBlock
<1>8. ASSUME BlocksRan, phase' \in {"running", "waiting"}, Served' \subseteq Served,
             UNCHANGED <<file, computed, protect, threshold, budget, granted>>,
             phase \in {"running", "waiting"} \/ \A r \in Requests : granted[r] = 0
      PROVE  SliceInv'
  <2>1. \A r : Left(r)' = Left(r) /\ (Prefilling(r)' <=> Prefilling(r)) /\ Need(r)' = Need(r)
               /\ (Seen(r)' <=> Seen(r))
    BY <1>8 DEF Left, Prefilling, Need, Seen
  <2>2. \A r \in Requests : granted'[r] <= Need(r)'
    <3>1. \A r \in Requests : Need(r) \in Nat BY ProgressTypes DEF Struct
    <3> QED BY <1>8, <2>1, <3>1 DEF SliceInv
  <2>3. ASSUME file = <<"ADAPTIVE_LPT">>, NEW r \in Requests \ Blockable PROVE ProtectedFrom(r)'
    <3>1. ProtectedFrom(r) BY <2>3 DEF SliceInv
    <3>2. granted[r] = 0 => granted[r] <= Protect BY Constants
    <3> QED BY <1>8, <2>1, <3>1, <3>2 DEF ProtectedFrom
  <2> QED BY <1>8, <2>1, <2>2, <2>3 DEF SliceInv
<1>9. CASE BlocksDone
  <2>1. /\ phase = "blocks" /\ todo = <<>> /\ phase' = "running" /\ running' = RunningOrder
        /\ UNCHANGED <<file, waiting, computed, protect, threshold, budget, granted>>
    BY <1>9 DEF BlocksDone, progress, control
  <2>2. Served' = Served BY <2>1, SameRunning DEF Served
  <2>3. \A r \in Requests : granted[r] = 0 BY <2>1 DEF Struct, Plan, BlocksLeft
  <2> QED BY <1>8, <2>1, <2>2, <2>3 DEF BlocksRan
<1>10. CASE Serve BY <1>10, SliceServe
<1>11. CASE RunningDone
  BY <1>8, <1>11 DEF RunningDone, queues, progress, control, BlocksRan, Served
<1>12. CASE EndRound BY <1>12, SliceEndRound
<1>13. CASE \E r \in Requests : Admit(r) \/ Skip(r)
  <2>1. CASE \E r \in Requests : Admit(r) BY <2>1, SliceAdmit
  <2>2. CASE \E r \in Requests : Skip(r)
    <3>1. PICK r \in Requests : Skip(r) BY <2>2
    <3>2. /\ phase = "waiting" /\ phase' = "waiting" /\ ToSet(waiting') = ToSet(waiting) \ {r}
          /\ UNCHANGED <<file, running, computed, protect, threshold, budget, granted>>
      BY <3>1, SkipFacts
    <3>3. Served' \subseteq Served /\ BlocksRan BY <3>2 DEF Served, BlocksRan
    <3> QED BY <1>8, <3>2, <3>3
  <2> QED BY <1>13, <2>1, <2>2
<1>14. CASE UNCHANGED vars
  <2>1. UNCHANGED <<file, phase, todo, running, waiting, computed, protect, threshold, budget, granted>>
    BY <1>14 DEF vars, queues, progress, control
  <2> QED BY <2>1 DEF SliceInv, ProtectedFrom, Seen, BlocksRan, Served, Left, Prefilling, Need
<1> QED BY <1>2, <1>3, <1>5, <1>6, <1>7, <1>9, <1>10, <1>11, <1>12, <1>13, <1>14
        DEF Next, ScheduleStep

LEMMA SliceAlways == Spec => []SliceInv
<1>1. Init => SliceInv
  <2> SUFFICES ASSUME Init PROVE SliceInv OBVIOUS
  <2>1. phase = "patching" /\ file = <<>> BY DEF Init
  <2>2. file # <<"ADAPTIVE_LPT">> BY <2>1
  <2> QED BY <2>1, <2>2 DEF SliceInv, BlocksRan
<1> QED BY <1>1, SliceStep, StructAlways, PTL DEF Spec

(* The adaptive threshold cuts a long prompt to its last slice, and the    *)
(* whale and backlog detectors do from the round that first sees it.       *)
THEOREM WhalesSlicedAlways == Spec => []WhalesSliced
<1>1. Struct /\ SliceInv => WhalesSliced
  <2> SUFFICES ASSUME Struct, SliceInv, phase = "waiting",
                      NEW r \in Requests \ Blockable, Prefilling(r)
               PROVE  granted[r] <= CutFrom(r)
    BY DEF WhalesSliced
  <2>1. BlocksRan /\ granted[r] \in Nat /\ Hi \in Nat /\ Protect \in Nat /\ ExitGate \in Nat
    BY EarnedTypes, Constants DEF BlocksRan
  <2>2. granted[r] > 0 => r \in Served BY DEF Struct, TypeOK, ProgressOK, Served
  <2>3. granted[r] <= Left(r) BY ProgressTypes DEF Struct, SliceInv
  <2>4. Seen(r) => granted[r] <= Hi
    <3>1. CASE granted[r] > 0 BY <2>1, <2>2, <3>1 DEF SliceInv
    <3>2. CASE granted[r] = 0 BY <2>1, <3>2
    <3> QED BY <2>1, <3>1, <3>2
  <2>5. file = <<"ADAPTIVE_LPT">> /\ PromptOf[r] > Gate => granted[r] <= Max({Protect, ExitGate})
    <3>1. Max({Protect, ExitGate}) = IF Protect >= ExitGate THEN Protect ELSE ExitGate
      BY <2>1, MaxOfTwo
    <3>2. file = <<"ADAPTIVE_LPT">> /\ PromptOf[r] > Gate => granted[r] <= Protect \/ granted[r] <= ExitGate
      BY DEF SliceInv, ProtectedFrom
    <3> QED BY <2>1, <3>1, <3>2
  <2>6. CASE file = <<"ADAPTIVE_LPT">> /\ PromptOf[r] > Gate
    <3>1. CutFrom(r) = Max({Protect, ExitGate})
      <4>1. /\ file \notin {<<"WHALE_AWARE_BUDGET_V2">>, <<"BACKLOG_AWARE_BUDGET">>}
            /\ file # <<"WHALE_AWARE_BUDGET">>
        BY <2>6
      <4> QED BY <2>6, <4>1, Zenon DEF CutFrom
    <3> QED BY <2>5, <2>6, <3>1
  <2>7. CASE Seen(r)
    <3>1. file # <<"ADAPTIVE_LPT">> BY <2>7 DEF Seen
    <3>2. CutFrom(r) = Hi BY <2>7, <3>1, Zenon DEF CutFrom, Seen
    <3> QED BY <2>4, <2>7, <3>2
  <2>8. CASE ~Seen(r) /\ ~(file = <<"ADAPTIVE_LPT">> /\ PromptOf[r] > Gate)
    <3>1. CutFrom(r) = Left(r) BY <2>8, Zenon DEF CutFrom, Seen
    <3> QED BY <2>3, <3>1
  <2> QED BY <2>6, <2>7, <2>8
<1> QED BY <1>1, SliceAlways, StructAlways, PTL
=============================================================================
