----------------------------- MODULE DataLemmas -----------------------------
(* Lemmas about finite sets, filters, sums and sequences, for the proofs   *)
(* of several modules.  What the library states for an arbitrary predicate *)
(* is stated here for sets: an induction becomes the choice of a smallest  *)
(* counterexample.                                                         *)
EXTENDS Collections, FiniteSetsExt, SequencesExt, FiniteSetTheorems, SequenceTheorems,
        WellFoundedInduction, TLAPS

(* A set of natural numbers has a least one.                               *)
LEMMA LeastElement ==
  ASSUME NEW T, T \subseteq Nat, T # {}
  PROVE  \E n \in T : \A m \in T : n <= m
<1> DEFINE upto(n) == 0 .. n
           I == {upto(n) : n \in T}
           R == StrictSubsetOrdering(Nat)
<1>1. \A n \in Nat : upto(n) \in FiniteSubsetsOf(Nat)
  <2> TAKE n \in Nat
  <2>1. IsFiniteSet(0 .. n) BY FS_Interval
  <2>2. 0 .. n \subseteq Nat OBVIOUS
  <2> QED BY <2>1, <2>2 DEF FiniteSubsetsOf
<1>2. I \subseteq FiniteSubsetsOf(Nat) BY <1>1
<1>3. I # {} OBVIOUS
<1>4. IsWellFoundedOn(R, FiniteSubsetsOf(Nat)) BY FS_StrictSubsetOrderingWellFounded
<1>5. PICK x \in I : \A y \in I : ~ (<<y, x>> \in R)
  <2> HIDE DEF I, R
  <2> QED BY <1>2, <1>3, <1>4, WFMin
<1>6. PICK n \in T : x = upto(n) OBVIOUS
<1>7. ASSUME NEW m \in T PROVE n <= m
  <2>1. SUFFICES ASSUME m < n PROVE FALSE OBVIOUS
  <2>2. upto(m) \subseteq Nat /\ upto(n) \subseteq Nat /\ upto(m) \subseteq upto(n) /\ upto(m) # upto(n)
    BY <2>1
  <2>3. <<upto(m), upto(n)>> \in R
    <3> HIDE DEF upto
    <3> QED BY <2>2 DEF StrictSubsetOrdering
  <2> QED BY <1>5, <1>6, <2>3
<1> QED BY <1>7

(* Induction up to a bound, for a set of numbers.                          *)
LEMMA UpToAll ==
  ASSUME NEW n \in Nat, NEW T, T \subseteq 0..n, 0 \in T,
         \A k \in 0..n - 1 : k \in T => k + 1 \in T
  PROVE  T = 0..n
<1> DEFINE D == 0..n \ T
<1>1. SUFFICES ASSUME D # {} PROVE FALSE OBVIOUS
<1>2. PICK m \in D : \A k \in D : m <= k
  <2>1. D \subseteq Nat OBVIOUS
  <2> HIDE DEF D
  <2> QED BY <1>1, <2>1, LeastElement
<1>3. m # 0 OBVIOUS
<1>4. m - 1 \in 0..n - 1 /\ m - 1 \in T BY <1>2, <1>3
<1> QED BY <1>4, <1>2

(* Of subsets of a finite set, some has no other of them within it.        *)
LEMMA SmallestSubset ==
  ASSUME NEW S, IsFiniteSet(S), NEW T \in SUBSET SUBSET S, T # {}
  PROVE  \E x \in T : \A y \in T : y \subseteq x => y = x
<1>1. T \subseteq FiniteSubsetsOf(S) BY FS_FiniteSubsetsOfFinite
<1>2. IsWellFoundedOn(StrictSubsetOrdering(S), FiniteSubsetsOf(S))
  BY FS_StrictSubsetOrderingWellFounded
<1>3. PICK x \in T : \A y \in T : ~ (<<y, x>> \in StrictSubsetOrdering(S))
  BY <1>1, <1>2, WFMin
<1> QED BY <1>3 DEF StrictSubsetOrdering

(* A finite set of integers has its maximum.                               *)
LEMMA FiniteMax ==
  ASSUME NEW S, IsFiniteSet(S)
  PROVE  S \subseteq Int /\ S # {} => Max(S) \in S /\ \A y \in S : y <= Max(S)
<1> DEFINE D == {s \in SUBSET S : s \subseteq Int /\ s # {} /\ ~ \E x \in s : \A y \in s : x >= y}
<1>1. ASSUME D # {} PROVE FALSE
  <2>1. D \in SUBSET SUBSET S OBVIOUS
  <2>2. \E x \in D : \A y \in D : y \subseteq x => y = x
    <3> HIDE DEF D
    <3> QED BY <1>1, <2>1, SmallestSubset
  <2> PICK s \in D : \A y \in D : y \subseteq s => y = s BY <2>2
  <2>3. PICK a \in s : TRUE OBVIOUS
  <2>4. CASE s = {a} BY <2>4
  <2>5. CASE s # {a}
    <3>1. s \ {a} \in SUBSET S /\ s \ {a} # {} /\ s \ {a} # s /\ s \ {a} \subseteq Int BY <2>5
    <3>2. PICK b \in s \ {a} : \A y \in s \ {a} : b >= y BY <3>1, <2>2
    <3>3. a \in Int /\ b \in Int OBVIOUS
    <3>4. CASE a >= b
      <4>1. \A y \in s : a >= y BY <3>2, <3>3, <3>4
      <4> QED BY <4>1
    <3>5. CASE b >= a
      <4>1. \A y \in s : b >= y BY <3>2, <3>3, <3>5
      <4> QED BY <4>1
    <3> QED BY <3>3, <3>4, <3>5
  <2> QED BY <2>4, <2>5
<1>2. D = {} BY <1>1
<1>3. S \subseteq Int /\ S # {} => \E x \in S : \A y \in S : x >= y BY <1>2
<1>4. \A x, y \in Int : x >= y <=> y <= x OBVIOUS
<1> QED BY <1>3, <1>4 DEF Max

(* What a function makes of a finite set is finite.                        *)
LEMMA FiniteImage ==
  ASSUME NEW S, IsFiniteSet(S), NEW f, DOMAIN f = S
  PROVE  IsFiniteSet({f[x] : x \in S})
<1> DEFINE T == {f[x] : x \in S}
           e == [x \in S |-> f[x]]
<1>1. e \in Surjection(S, T) BY DEF Surjection
<1> HIDE DEF T, e
<1>2. IsFiniteSet(T) BY <1>1, FS_Surjection
<1> QED BY <1>2 DEF T

(* The values of a recursive function over 0..n.                           *)
IsChain(f, V, v, n, step) ==
  /\ f \in [0..n -> V] /\ f[0] = v
  /\ \A k \in 1..n : f[k] = step[k][f[k - 1]]

(* Whatever the steps are, there is a function that takes them.            *)
LEMMA RecursiveChain ==
  ASSUME NEW V, NEW v \in V, NEW n \in Nat, NEW step \in [1..n -> [V -> V]]
  PROVE  \E f : IsChain(f, V, v, n, step)
<1> DEFINE Upto(m) == \E f \in [0..m -> V] : f[0] = v /\ \A k \in 1..m : f[k] = step[k][f[k - 1]]
           T == {m \in 0..n : Upto(m)}
<1>1. 0 \in T
  <2> DEFINE f == [k \in 0..0 |-> v]
  <2>1. f \in [0..0 -> V] /\ f[0] = v /\ 1..0 = {} OBVIOUS
  <2>2. 0 \in 0..n OBVIOUS
  <2> HIDE DEF f
  <2> QED BY <2>1, <2>2
<1>2. ASSUME NEW m \in 0..n - 1, m \in T PROVE m + 1 \in T
  <2>1. PICK g \in [0..m -> V] : g[0] = v /\ \A k \in 1..m : g[k] = step[k][g[k - 1]] BY <1>2
  <2> DEFINE f == [k \in 0..m + 1 |-> IF k = m + 1 THEN step[m + 1][g[m]] ELSE g[k]]
  <2>2. m + 1 \in 1..n /\ g[m] \in V OBVIOUS
  <2>3. step[m + 1][g[m]] \in V BY <2>2
  <2>4. f \in [0..m + 1 -> V] BY <2>3
  <2>5. f[0] = v BY <2>1
  <2>6. ASSUME NEW k \in 1..m + 1 PROVE f[k] = step[k][f[k - 1]]
    <3>1. CASE k = m + 1 BY <3>1
    <3>2. CASE k \in 1..m BY <2>1, <3>2
    <3> QED BY <3>1, <3>2
  <2>7. m + 1 \in 0..n OBVIOUS
  <2> HIDE DEF f
  <2> QED BY <2>4, <2>5, <2>6, <2>7
<1>3. T = 0..n
  <2> HIDE DEF T
  <2>1. T \subseteq 0..n BY DEF T
  <2> QED BY <1>1, <1>2, <2>1, UpToAll
<1>4. n \in T BY <1>3
<1> QED BY <1>4 DEF IsChain

(* The values of Only's recursive function.                                *)
IsFilter(f, q, S, X) ==
  /\ f \in [0..Len(q) -> Seq(X)] /\ f[0] = <<>>
  /\ \A k \in 1..Len(q) : f[k] = IF q[k] \in S THEN Append(f[k - 1], q[k]) ELSE f[k - 1]

(* Only is the last value of its recursion.                                *)
LEMMA OnlyRecursion ==
  ASSUME NEW X, NEW q \in Seq(X), NEW S
  PROVE  \E f : IsFilter(f, q, S, X) /\ Only(q, S) = f[Len(q)]
<1> DEFINE n == Len(q)
           step == [k \in 1..n |-> [t \in Seq(X) |-> IF q[k] \in S THEN Append(t, q[k]) ELSE t]]
           Def(f) == [k \in 0..n |-> IF k = 0 THEN <<>>
                       ELSE IF q[k] \in S THEN Append(f[k - 1], q[k]) ELSE f[k - 1]]
           F == CHOOSE f : f = Def(f)
<1>1. n \in Nat /\ <<>> \in Seq(X) /\ \A k \in 1..n : q[k] \in X OBVIOUS
<1>2. step \in [1..n -> [Seq(X) -> Seq(X)]] BY <1>1
<1>3. PICK g \in [0..n -> Seq(X)] : g[0] = <<>> /\ \A k \in 1..n : g[k] = step[k][g[k - 1]]
  <2> DEFINE V == Seq(X)
             v == <<>>
  <2>1. n \in Nat /\ v \in V /\ step \in [1..n -> [V -> V]] BY <1>1, <1>2
  <2>2. \E f : IsChain(f, V, v, n, step)
    <3> HIDE DEF n, step, V, v
    <3> QED BY <2>1, RecursiveChain, Zenon
  <2> HIDE DEF n, step
  <2> QED BY <2>2 DEF IsChain
<1>4. \A k \in 1..n : g[k] = IF q[k] \in S THEN Append(g[k - 1], q[k]) ELSE g[k - 1]
  <2> TAKE k \in 1..n
  <2>1. k - 1 \in 0..n BY <1>1
  <2>2. g[k - 1] \in Seq(X) BY <2>1, <1>3
  <2> QED BY <1>3, <2>2
<1>5. \A k \in 0..n : g[k] = Def(g)[k]
  <2> HIDE DEF n, step
  <2> TAKE k \in 0..n
  <2>0. Def(g)[k] = IF k = 0 THEN <<>>
                    ELSE IF q[k] \in S THEN Append(g[k - 1], q[k]) ELSE g[k - 1] OBVIOUS
  <2>1. CASE k = 0
    <3> HIDE DEF Def
    <3> QED BY <1>3, <2>0, <2>1
  <2>2. CASE k \in 1..n
    <3>1. k # 0 BY <2>2, <1>1
    <3> HIDE DEF Def
    <3> QED BY <1>4, <2>0, <2>2, <3>1
  <2> QED BY <2>1, <2>2, <1>1
<1>6. g = Def(g)
  <2>1. g = [k \in 0..n |-> g[k]] BY <1>3
  <2> QED BY <1>5, <2>1
<1>7. F = Def(F)
  <2> HIDE DEF Def
  <2> QED BY <1>6
<1>8. Only(q, S) = F[n] BY Zenon DEF Only
<1>9. F[0] = <<>> /\ \A k \in 1..n : F[k] = IF q[k] \in S THEN Append(F[k - 1], q[k]) ELSE F[k - 1]
  <2> HIDE DEF F
  <2>1. 0 \in 0..n BY <1>1
  <2>2. Def(F)[0] = <<>> BY <2>1
  <2>3. ASSUME NEW k \in 1..n PROVE Def(F)[k] = IF q[k] \in S THEN Append(F[k - 1], q[k]) ELSE F[k - 1]
    <3>1. k \in 0..n /\ k # 0 BY <1>1
    <3> QED BY <3>1
  <2> HIDE DEF Def
  <2> QED BY <1>7, <2>2, <2>3
<1> DEFINE T == {k \in 0..n : F[k] \in Seq(X)}
<1>10. T = 0..n
  <2> HIDE DEF F, n
  <2>1. T \subseteq 0..n OBVIOUS
  <2>3. 0 \in 0..n /\ F[0] \in Seq(X)
    <3> HIDE DEF T
    <3> QED BY <1>1, <1>9
  <2>4. 0 \in T BY <2>3
  <2>2. ASSUME NEW k \in 0..n - 1, k \in T PROVE k + 1 \in T
    <3>1. k + 1 \in 1..n /\ (k + 1) - 1 = k BY <1>1
    <3>2. F[k + 1] = IF q[k + 1] \in S THEN Append(F[k], q[k + 1]) ELSE F[k] BY <1>9, <3>1
    <3>3. F[k] \in Seq(X) /\ q[k + 1] \in X BY <2>2, <3>1, <1>1
    <3>4. F[k + 1] \in Seq(X)
      <4> DEFINE fk == F[k]
                 e == q[k + 1]
      <4>1. Append(fk, e) \in Seq(X)
        <5> HIDE DEF fk, e
        <5>1. fk \in Seq(X) /\ e \in X BY <3>3 DEF fk, e
        <5> QED BY <5>1
      <4> HIDE DEF T
      <4> QED BY <3>2, <3>3, <4>1
    <3>5. k + 1 \in 0..n BY <1>1
    <3> QED BY <3>4, <3>5
  <2> HIDE DEF T
  <2> QED BY <1>1, <2>1, <2>2, <2>4, UpToAll
<1>11. F \in [0..n -> Seq(X)]
  <2>1. F = [k \in 0..n |-> F[k]]
    <3>1. DOMAIN Def(F) = 0..n /\ Def(F) = [k \in 0..n |-> Def(F)[k]] OBVIOUS
    <3> HIDE DEF Def, F
    <3> QED BY <1>7, <3>1
  <2>2. \A k \in 0..n : F[k] \in Seq(X) BY <1>10
  <2> HIDE DEF F, n
  <2> QED BY <2>1, <2>2
<1> HIDE DEF F
<1> QED BY <1>8, <1>9, <1>11 DEF IsFilter

(* What a filter is: the elements of q in S, at increasing places of q.    *)
FilterFacts(o, q, S) ==
  /\ \A i \in 1..Len(o) : o[i] \in S /\ \E a \in 1..Len(q) : o[i] = q[a]
  /\ \A a \in 1..Len(q) : q[a] \in S => \E i \in 1..Len(o) : o[i] = q[a]
  /\ \A i, j \in 1..Len(o) : i < j =>
       \E a, b \in 1..Len(q) : a < b /\ o[i] = q[a] /\ o[j] = q[b]

(* Only is a filter.                                                       *)
LEMMA OnlyFacts ==
  ASSUME NEW X, NEW q \in Seq(X), NEW S
  PROVE  /\ Only(q, S) \in Seq(X) /\ Len(Only(q, S)) <= Len(q)
         /\ FilterFacts(Only(q, S), q, S)
<1>0. PICK f : IsFilter(f, q, S, X) /\ Only(q, S) = f[Len(q)] BY OnlyRecursion
<1>1. /\ f \in [0..Len(q) -> Seq(X)] /\ f[0] = <<>>
      /\ \A k \in 1..Len(q) : f[k] = IF q[k] \in S THEN Append(f[k - 1], q[k]) ELSE f[k - 1]
      /\ Only(q, S) = f[Len(q)]
  BY <1>0 DEF IsFilter
<1> DEFINE n == Len(q)
           Within(k, o) == \A i \in 1..Len(o) : o[i] \in S /\ \E a \in 1..k : o[i] = q[a]
           All(k, o) == \A a \in 1..k : q[a] \in S => \E i \in 1..Len(o) : o[i] = q[a]
           Ordered(k, o) == \A i, j \in 1..Len(o) : i < j =>
              \E a, b \in 1..k : a < b /\ o[i] = q[a] /\ o[j] = q[b]
           T == {k \in 0..n : Len(f[k]) <= k /\ Within(k, f[k]) /\ All(k, f[k]) /\ Ordered(k, f[k])}
<1>2. n \in Nat /\ \A k \in 1..n : q[k] \in X OBVIOUS
<1>3. 0 \in T BY <1>1, <1>2
<1>4. ASSUME NEW k \in 0..n - 1, k \in T PROVE k + 1 \in T
  <2> DEFINE o == f[k]
             p == f[k + 1]
             e == q[k + 1]
  <2>1. k + 1 \in 1..n /\ (k + 1) - 1 = k /\ k \in 0..n /\ k + 1 \in 0..n /\ k \in Nat BY <1>2
  <2>2. o \in Seq(X) /\ p \in Seq(X) /\ e \in X /\ p = IF e \in S THEN Append(o, e) ELSE o
    <3>1. f \in [0..n -> Seq(X)] BY <1>1
    <3>2. \A j \in 1..n : f[j] = IF q[j] \in S THEN Append(f[j - 1], q[j]) ELSE f[j - 1] BY <1>1
    <3> HIDE DEF n
    <3>3. p = IF e \in S THEN Append(f[(k + 1) - 1], e) ELSE f[(k + 1) - 1] BY <2>1, <3>2
    <3>4. o \in Seq(X) /\ p \in Seq(X) /\ e \in X BY <2>1, <3>1, <1>2
    <3> QED BY <2>1, <3>3, <3>4
  <2>3. Len(o) <= k /\ Within(k, o) /\ All(k, o) /\ Ordered(k, o) BY <1>4
  <2> HIDE DEF o, p, n
  <2>e. e = q[k + 1] OBVIOUS
  <2> HIDE DEF e
  <2>4. CASE e \notin S
    <3>1. p = o BY <2>2, <2>4
    <3>2. Len(o) <= k + 1 BY <2>1, <2>2, <2>3
    <3>3. Within(k + 1, o) BY <2>1, <2>3
    <3>4. All(k + 1, o)
      <4> SUFFICES ASSUME NEW a \in 1..k + 1, q[a] \in S PROVE \E i \in 1..Len(o) : o[i] = q[a] OBVIOUS
      <4>1. a # k + 1 BY <2>4, <2>e
      <4> QED BY <4>1, <2>1, <2>3
    <3>5. Ordered(k + 1, o) BY <2>1, <2>3
    <3> HIDE DEF Within, All, Ordered
    <3> QED BY <3>1, <3>2, <3>3, <3>4, <3>5, <2>1 DEF o, p
  <2>5. CASE e \in S
    <3>1. p = Append(o, e) BY <2>2, <2>5
    <3>2. Len(p) = Len(o) + 1 /\ p[Len(o) + 1] = e /\ \A i \in 1..Len(o) : p[i] = o[i]
      <4> HIDE DEF o
      <4>1. o \in Seq(X) /\ e \in X BY <2>2
      <4> QED BY <3>1, <4>1, AppendProperties
    <3>3. Len(o) \in Nat BY <2>2
    <3>4. Len(p) <= k + 1 BY <2>1, <3>3, <2>3, <3>2
    <3>5. Within(k + 1, p)
      <4> SUFFICES ASSUME NEW i \in 1..Len(p) PROVE p[i] \in S /\ \E a \in 1..k + 1 : p[i] = q[a] OBVIOUS
      <4>1. CASE i = Len(o) + 1 BY <4>1, <3>2, <2>5, <2>1, <2>e
      <4>2. CASE i \in 1..Len(o)
        <5>1. o[i] \in S /\ \E a \in 1..k : o[i] = q[a] BY <4>2, <2>3
        <5>2. \A a \in 1..k : a \in 1..k + 1 BY <2>1
        <5> QED BY <5>1, <5>2, <4>2, <3>2
      <4> QED BY <4>1, <4>2, <3>2, <3>3
    <3>6. All(k + 1, p)
      <4> SUFFICES ASSUME NEW a \in 1..k + 1, q[a] \in S PROVE \E i \in 1..Len(p) : p[i] = q[a] OBVIOUS
      <4>1. CASE a = k + 1 BY <4>1, <3>2, <3>3, <2>e
      <4>2. CASE a \in 1..k
        <5>1. PICK i \in 1..Len(o) : o[i] = q[a] BY <4>2, <2>3
        <5>2. i \in 1..Len(p) BY <3>2, <3>3
        <5> QED BY <5>1, <5>2, <3>2
      <4> QED BY <4>1, <4>2, <2>1
    <3>7. Ordered(k + 1, p)
      <4> SUFFICES ASSUME NEW i \in 1..Len(p), NEW j \in 1..Len(p), i < j
                   PROVE \E a, b \in 1..k + 1 : a < b /\ p[i] = q[a] /\ p[j] = q[b] OBVIOUS
      <4>0. i \in 1..Len(o) BY <3>2, <3>3
      <4>1. CASE j = Len(o) + 1
        <5>1. PICK a \in 1..k : o[i] = q[a] BY <4>0, <2>3
        <5>2. a < k + 1 /\ a \in 1..k + 1 /\ k + 1 \in 1..k + 1 BY <2>1
        <5>3. p[i] = q[a] /\ p[j] = q[k + 1] BY <3>2, <4>0, <4>1, <5>1, <2>e
        <5> QED BY <5>2, <5>3
      <4>2. CASE j \in 1..Len(o)
        <5>1. PICK a \in 1..k, b \in 1..k : a < b /\ o[i] = q[a] /\ o[j] = q[b] BY <4>0, <4>2, <2>3
        <5>2. a \in 1..k + 1 /\ b \in 1..k + 1 BY <2>1
        <5> QED BY <5>1, <5>2, <4>0, <4>2, <3>2
      <4> QED BY <4>1, <4>2, <3>2, <3>3
    <3> HIDE DEF Within, All, Ordered
    <3> QED BY <3>4, <3>5, <3>6, <3>7, <2>1 DEF o, p
  <2> QED BY <2>4, <2>5
<1>5. T = 0..n
  <2>1. T \subseteq 0..n OBVIOUS
  <2> HIDE DEF T, n
  <2> QED BY <1>2, <1>3, <1>4, <2>1, UpToAll
<1>6. n \in T BY <1>2, <1>5
<1>7. Only(q, S) = f[n] /\ f[n] \in Seq(X) BY <1>1
<1> DEFINE o == f[n]
<1>8. Len(o) <= n /\ Within(n, o) /\ All(n, o) /\ Ordered(n, o) BY <1>6
<1> HIDE DEF T, o
<1>9. FilterFacts(o, q, S) BY <1>8 DEF FilterFacts
<1> QED BY <1>7, <1>8, <1>9 DEF o

(* The sum of a function over a set, as MapThenSumSet computes it: one     *)
(* element after the other, as CHOOSE picks them.                          *)
Total(g, S) == MapThenSumSet(LAMBDA x : g[x], S)

Chosen(s) == CHOOSE x \in s : TRUE
StepSum(g, h, S) ==
  [s \in SUBSET S |-> IF s = {} THEN 0 ELSE g[Chosen(s)] + h[s \ {Chosen(s)}]]

IsSum(h, g, S) ==
  /\ h \in [SUBSET S -> Int] /\ h[{}] = 0
  /\ \A s \in SUBSET S : \A x \in s : h[s] = g[x] + h[s \ {x}]

StepFacts(g, h, S) ==
  /\ StepSum(g, h, S) \in [SUBSET S -> Int]
  /\ StepSum(g, h, S)[{}] = 0
  /\ \A s \in SUBSET S : s # {} =>
       /\ Chosen(s) \in s /\ s \ {Chosen(s)} \in SUBSET S
       /\ StepSum(g, h, S)[s] = g[Chosen(s)] + h[s \ {Chosen(s)}]

(* One step of that recursion keeps the type.                              *)
LEMMA StepSumType ==
  ASSUME NEW S, NEW g \in [S -> Int], NEW h \in [SUBSET S -> Int]
  PROVE  StepFacts(g, h, S)
<1>1. \A s : s # {} => Chosen(s) \in s BY DEF Chosen
<1>2. ASSUME NEW s \in SUBSET S, s # {}
      PROVE Chosen(s) \in S /\ s \ {Chosen(s)} \in SUBSET S BY <1>1, <1>2
<1>3. ASSUME NEW s \in SUBSET S
      PROVE (IF s = {} THEN 0 ELSE g[Chosen(s)] + h[s \ {Chosen(s)}]) \in Int
  <2>1. CASE s = {} BY <2>1
  <2>2. CASE s # {}
    <3>1. g[Chosen(s)] \in Int /\ h[s \ {Chosen(s)}] \in Int BY <1>2, <2>2
    <3> QED BY <3>1, <2>2
  <2> QED BY <2>1, <2>2
<1>4. StepSum(g, h, S) \in [SUBSET S -> Int] BY <1>3 DEF StepSum
<1>5. StepSum(g, h, S)[{}] = 0 BY DEF StepSum
<1>6. \A s \in SUBSET S : s # {} => StepSum(g, h, S)[s] = g[Chosen(s)] + h[s \ {Chosen(s)}]
  BY DEF StepSum
<1> QED BY <1>1, <1>2, <1>4, <1>5, <1>6 DEF StepFacts

(* The recursion has a solution: one step for each size of subset.         *)
LEMMA SumFixpoint ==
  ASSUME NEW S, IsFiniteSet(S), NEW g \in [S -> Int]
  PROVE  \E h \in [SUBSET S -> Int] : h = StepSum(g, h, S)
<1> DEFINE V == [SUBSET S -> Int]
           v == [s \in SUBSET S |-> 0]
           n == Cardinality(S) + 1
           step == [k \in 1..n |-> [h \in V |-> StepSum(g, h, S)]]
<1>1. n \in Nat /\ Cardinality(S) \in Nat BY FS_CardinalityType
<1>2. v \in V OBVIOUS
<1>3. \A h \in V : StepSum(g, h, S) \in V BY StepSumType DEF StepFacts
<1>4. step \in [1..n -> [V -> V]]
  <2> HIDE DEF V, n
  <2> QED BY <1>3
<1>5. PICK f : IsChain(f, V, v, n, step)
  <2> HIDE DEF V, v, n, step
  <2> QED BY <1>1, <1>2, <1>4, RecursiveChain, Zenon
<1>6. f \in [0..n -> V] /\ f[0] = v /\ \A k \in 1..n : f[k] = StepSum(g, f[k - 1], S)
  <2>1. f \in [0..n -> V] /\ f[0] = v /\ \A k \in 1..n : f[k] = step[k][f[k - 1]]
    <3> HIDE DEF V, v, n, step
    <3> QED BY <1>5 DEF IsChain
  <2>2. ASSUME NEW k \in 1..n PROVE f[k] = StepSum(g, f[k - 1], S)
    <3> HIDE DEF V, v, n
    <3>1. k - 1 \in 0..n BY <1>1
    <3>2. f[k - 1] \in V BY <2>1, <3>1
    <3> QED BY <2>1, <3>2
  <2> QED BY <2>1, <2>2
<1> HIDE DEF step
<1> DEFINE Stable(k) == \A s \in SUBSET S : Cardinality(s) <= k => f[k + 1][s] = f[k][s]
           T == {k \in 0..n - 1 : Stable(k)}
<1>7. \A s \in SUBSET S : /\ IsFiniteSet(s) /\ Cardinality(s) \in Nat /\ Cardinality(s) <= Cardinality(S)
                          /\ \A x \in s : Cardinality(s \ {x}) = Cardinality(s) - 1
                          /\ Cardinality(s) = 0 <=> s = {}
  BY FS_Subset, FS_CardinalityType, FS_RemoveElement, FS_EmptySet
<1>8. \A k \in 0..n : f[k] \in [SUBSET S -> Int] BY <1>6
<1>9. 0 \in T
  <2>1. ASSUME NEW s \in SUBSET S, Cardinality(s) <= 0 PROVE f[0 + 1][s] = f[0][s]
    <3>1. s = {} BY <1>7, <2>1
    <3>2. f[0][s] = 0 BY <1>6
    <3>3. 1 \in 1..n /\ 0 + 1 = 1 /\ 1 - 1 = 0 BY <1>1
    <3>4. f[1] = StepSum(g, f[0], S) BY <1>6, <3>3
    <3>5. f[0] \in [SUBSET S -> Int]
      <4>1. 0 \in 0..n BY <1>1
      <4> QED BY <4>1, <1>8
    <3>6. StepSum(g, f[0], S)[{}] = 0 BY <3>5, StepSumType DEF StepFacts
    <3> QED BY <3>1, <3>2, <3>3, <3>4, <3>6
  <2>2. 0 \in 0..n - 1 BY <1>1
  <2> QED BY <2>1, <2>2
<1>10. ASSUME NEW k \in 0..(n - 1) - 1, k \in T PROVE k + 1 \in T
  <2>0. k + 1 \in 0..n - 1 /\ k + 1 \in 1..n /\ (k + 1) + 1 \in 1..n /\ k \in 0..n
        /\ k + 1 \in 0..n /\ (k + 1) - 1 = k /\ ((k + 1) + 1) - 1 = k + 1 /\ k \in Nat BY <1>1
  <2>1. ASSUME NEW s \in SUBSET S, Cardinality(s) <= k + 1 PROVE f[(k + 1) + 1][s] = f[k + 1][s]
    <3>1. f[k + 1] = StepSum(g, f[k], S) /\ f[(k + 1) + 1] = StepSum(g, f[k + 1], S)
      BY <1>6, <2>0
    <3>2. f[k] \in [SUBSET S -> Int] /\ f[k + 1] \in [SUBSET S -> Int] BY <1>8, <2>0
    <3> DEFINE hk == f[k]
               hl == f[k + 1]
    <3>a. hk \in [SUBSET S -> Int] /\ hl \in [SUBSET S -> Int] BY <3>2
    <3>b. /\ StepSum(g, hk, S)[{}] = 0 /\ StepSum(g, hl, S)[{}] = 0
          /\ s # {} => /\ Chosen(s) \in s /\ s \ {Chosen(s)} \in SUBSET S
                       /\ StepSum(g, hk, S)[s] = g[Chosen(s)] + hk[s \ {Chosen(s)}]
                       /\ StepSum(g, hl, S)[s] = g[Chosen(s)] + hl[s \ {Chosen(s)}]
      <4> HIDE DEF hk, hl
      <4>1. StepFacts(g, hk, S) /\ StepFacts(g, hl, S) BY <3>a, StepSumType, Zenon
      <4> QED BY <4>1 DEF StepFacts
    <3>3. CASE s = {} BY <3>1, <3>b, <3>3
    <3>4. CASE s # {}
      <4> DEFINE c == Chosen(s)
                 t == s \ {Chosen(s)}
      <4>1. c \in s /\ t \in SUBSET S /\ f[k + 1][s] = g[c] + f[k][t]
            /\ f[(k + 1) + 1][s] = g[c] + f[k + 1][t]
        BY <3>1, <3>b, <3>4
      <4>2. Cardinality(t) = Cardinality(s) - 1 BY <1>7, <4>1
      <4>3. Cardinality(t) <= k BY <4>2, <2>1, <1>7, <2>0
      <4>4. f[k + 1][t] = f[k][t] BY <1>10, <4>1, <4>3
      <4> QED BY <4>1, <4>4
    <3> QED BY <3>3, <3>4
  <2> QED BY <2>0, <2>1
<1>11. T = 0..n - 1
  <2>1. T \subseteq 0..n - 1 /\ n - 1 \in Nat BY <1>1
  <2> HIDE DEF T, n
  <2> DEFINE m == n - 1
  <2>2. m \in Nat /\ T \subseteq 0..m /\ 0 \in T /\ \A k \in 0..m - 1 : k \in T => k + 1 \in T
    BY <2>1, <1>9, <1>10
  <2>3. T = 0..m
    <3> HIDE DEF m
    <3> QED BY <2>2, UpToAll
  <2> QED BY <2>3
<1>12. \A s \in SUBSET S : f[n][s] = f[n - 1][s]
  <2>1. n - 1 \in T /\ (n - 1) + 1 = n /\ n - 1 = Cardinality(S) BY <1>1, <1>11
  <2> QED BY <2>1, <1>7
<1>13. n \in 1..n /\ n - 1 \in 0..n /\ n \in 0..n BY <1>1
<1>14. f[n] = f[n - 1]
  <2>1. f[n] \in [SUBSET S -> Int] /\ f[n - 1] \in [SUBSET S -> Int] BY <1>8, <1>13
  <2> HIDE DEF n
  <2> QED BY <1>12, <2>1
<1>15. f[n] = StepSum(g, f[n], S) /\ f[n] \in [SUBSET S -> Int] BY <1>6, <1>8, <1>13, <1>14
<1> QED BY <1>15

(* A total is a sum, whichever element is taken out first.                 *)
LEMMA TotalIsSum ==
  ASSUME NEW S, IsFiniteSet(S), NEW g \in [S -> Int]
  PROVE  \E h : IsSum(h, g, S) /\ Total(g, S) = h[S]
<1> DEFINE h == CHOOSE h : h = StepSum(g, h, S)
<1>1. Total(g, S) = h[S]
  BY Zenon DEF Total, MapThenSumSet, MapThenFoldSet, StepSum, Chosen
<1>2. h = StepSum(g, h, S)
  <2>1. PICK e \in [SUBSET S -> Int] : e = StepSum(g, e, S) BY SumFixpoint
  <2> QED BY <2>1
<1> HIDE DEF h
<1>3. DOMAIN h = SUBSET S /\ h = [s \in SUBSET S |-> h[s]] BY <1>2 DEF StepSum
<1>4. h[{}] = 0 BY <1>2 DEF StepSum
<1>5. \A s : s # {} => Chosen(s) \in s BY DEF Chosen
<1>6. ASSUME NEW s \in SUBSET S, s # {} PROVE h[s] = g[Chosen(s)] + h[s \ {Chosen(s)}]
  <2>1. StepSum(g, h, S)[s] = g[Chosen(s)] + h[s \ {Chosen(s)}] BY <1>6 DEF StepSum
  <2> QED BY <1>2, <2>1
<1>7. ASSUME NEW s \in SUBSET S PROVE h[s] \in Int
  <2> DEFINE D == {t \in SUBSET S : h[t] \notin Int}
  <2>1. D \in SUBSET SUBSET S OBVIOUS
  <2>2. ASSUME D # {} PROVE FALSE
    <3>1. \E x \in D : \A y \in D : y \subseteq x => y = x
      <4> HIDE DEF D
      <4> QED BY <2>1, <2>2, SmallestSubset
    <3>2. PICK t \in D : \A y \in D : y \subseteq t => y = t BY <3>1
    <3>3. t # {} /\ t \in SUBSET S BY <1>4
    <3>4. h[t] = g[Chosen(t)] + h[t \ {Chosen(t)}] BY <1>6, <3>3
    <3>5. Chosen(t) \in t BY <1>5, <3>3
    <3>6. t \ {Chosen(t)} \subseteq t /\ t \ {Chosen(t)} # t /\ t \ {Chosen(t)} \in SUBSET S BY <3>5, <3>3
    <3>7. t \ {Chosen(t)} \notin D BY <3>2, <3>6
    <3>8. h[t \ {Chosen(t)}] \in Int BY <3>6, <3>7
    <3>9. g[Chosen(t)] \in Int BY <3>5, <3>3
    <3> QED BY <3>4, <3>8, <3>9
  <2> QED BY <2>2
<1>8. h \in [SUBSET S -> Int] BY <1>3, <1>7
<1>9. ASSUME NEW s \in SUBSET S, NEW x \in s PROVE h[s] = g[x] + h[s \ {x}]
  <2> DEFINE D == {t \in SUBSET S : \E y \in t : h[t] # g[y] + h[t \ {y}]}
  <2>1. D \in SUBSET SUBSET S OBVIOUS
  <2>2. ASSUME D # {} PROVE FALSE
    <3>1. \E t \in D : \A y \in D : y \subseteq t => y = t
      <4> HIDE DEF D
      <4> QED BY <2>1, <2>2, SmallestSubset
    <3>2. PICK t \in D : \A y \in D : y \subseteq t => y = t BY <3>1
    <3>3. t \in SUBSET S OBVIOUS
    <3>4. PICK y \in t : h[t] # g[y] + h[t \ {y}] OBVIOUS
    <3>5. PICK c \in t : h[t] = g[c] + h[t \ {c}] BY <1>6, <1>5, <3>3, <3>4
    <3>6. c # y BY <3>4, <3>5
    <3> DEFINE tc == t \ {c}
               ty == t \ {y}
               tcy == t \ {c, y}
    <3>7. tc \in SUBSET S /\ ty \in SUBSET S /\ tcy \in SUBSET S /\ y \in tc /\ c \in ty
          /\ tc \ {y} = tcy /\ ty \ {c} = tcy BY <3>3, <3>6
    <3>8. tc \notin D /\ ty \notin D
      <4>1. tc \subseteq t /\ tc # t /\ ty \subseteq t /\ ty # t OBVIOUS
      <4> HIDE DEF D, tc, ty
      <4> QED BY <3>2, <4>1
    <3>9. h[tc] = g[y] + h[tcy]
      <4>1. h[tc] = g[y] + h[tc \ {y}] BY <3>7, <3>8
      <4> QED BY <4>1, <3>7
    <3>10. h[ty] = g[c] + h[tcy]
      <4>1. h[ty] = g[c] + h[ty \ {c}] BY <3>7, <3>8
      <4> QED BY <4>1, <3>7
    <3>11. h[tcy] \in Int /\ g[c] \in Int /\ g[y] \in Int BY <3>7, <3>3, <1>8
    <3>12. h[t] = g[c] + h[tc] /\ h[t] # g[y] + h[ty] BY <3>4, <3>5
    <3> HIDE DEF D, tc, ty, tcy
    <3> QED BY <3>9, <3>10, <3>11, <3>12
  <2> QED BY <2>2
<1> QED BY <1>1, <1>4, <1>8, <1>9 DEF IsSum

(* Two sums agree where their terms do.                                    *)
LEMMA SumsAgree ==
  ASSUME NEW S, IsFiniteSet(S), NEW g, NEW e, NEW h, NEW k,
         IsSum(h, g, S), IsSum(k, e, S), NEW s \in SUBSET S, \A x \in s : g[x] = e[x]
  PROVE  h[s] = k[s]
<1> DEFINE D == {t \in SUBSET S : t \subseteq s /\ h[t] # k[t]}
<1>1. D \in SUBSET SUBSET S OBVIOUS
<1>2. ASSUME D # {} PROVE FALSE
  <2>1. \E t \in D : \A y \in D : y \subseteq t => y = t
    <3> HIDE DEF D
    <3> QED BY <1>1, <1>2, SmallestSubset
  <2>2. PICK t \in D : \A y \in D : y \subseteq t => y = t BY <2>1
  <2>3. PICK c \in t : TRUE
    <3>1. h[{}] = 0 /\ k[{}] = 0 BY DEF IsSum
    <3> QED BY <3>1
  <2>4. h[t] = g[c] + h[t \ {c}] /\ k[t] = e[c] + k[t \ {c}] BY DEF IsSum
  <2>5. t \ {c} \in SUBSET S /\ t \ {c} \subseteq s /\ t \ {c} \subseteq t /\ t \ {c} # t OBVIOUS
  <2>6. h[t \ {c}] = k[t \ {c}] BY <2>2, <2>5
  <2>7. g[c] = e[c] OBVIOUS
  <2> QED BY <2>4, <2>6, <2>7
<1> QED BY <1>2

(* Changing one term changes the total by as much.                         *)
LEMMA TotalUpdate ==
  ASSUME NEW S, IsFiniteSet(S), NEW g \in [S -> Int], NEW e \in [S -> Int], NEW x \in S,
         \A y \in S \ {x} : g[y] = e[y]
  PROVE  /\ Total(g, S) \in Int /\ Total(e, S) \in Int
         /\ Total(e, S) = Total(g, S) + e[x] - g[x]
<1>1. PICK h : IsSum(h, g, S) /\ Total(g, S) = h[S] BY TotalIsSum
<1>2. PICK k : IsSum(k, e, S) /\ Total(e, S) = k[S] BY TotalIsSum
<1>3. S \in SUBSET S /\ S \ {x} \in SUBSET S OBVIOUS
<1>4. h[S] = g[x] + h[S \ {x}] /\ k[S] = e[x] + k[S \ {x}] BY <1>1, <1>2, <1>3 DEF IsSum
<1>5. h[S \ {x}] = k[S \ {x}]
  <2> DEFINE s == S \ {x}
  <2>1. s \in SUBSET S /\ \A y \in s : g[y] = e[y] OBVIOUS
  <2>2. h[s] = k[s]
    <3> HIDE DEF s
    <3> QED BY <2>1, <1>1, <1>2, SumsAgree
  <2> QED BY <2>2
<1>6. h[S \ {x}] \in Int /\ h[S] \in Int /\ k[S] \in Int BY <1>1, <1>2, <1>3 DEF IsSum
<1> QED BY <1>1, <1>2, <1>4, <1>5, <1>6

(* A total of integers is an integer.                                      *)
LEMMA TotalType ==
  ASSUME NEW S, IsFiniteSet(S), NEW g \in [S -> Int]
  PROVE  Total(g, S) \in Int
<1>1. PICK h : IsSum(h, g, S) /\ Total(g, S) = h[S] BY TotalIsSum
<1>2. S \in SUBSET S OBVIOUS
<1> QED BY <1>1, <1>2 DEF IsSum

(* A total of zeros is zero.                                               *)
LEMMA TotalOfZeros ==
  ASSUME NEW S, IsFiniteSet(S), NEW g \in [S -> Int], \A x \in S : g[x] = 0
  PROVE  Total(g, S) = 0
<1>1. PICK h : IsSum(h, g, S) /\ Total(g, S) = h[S] BY TotalIsSum
<1> DEFINE k == [s \in SUBSET S |-> 0]
<1>2. IsSum(k, g, S) BY DEF IsSum
<1>3. S \in SUBSET S /\ \A x \in S : g[x] = g[x] OBVIOUS
<1>4. h[S] = k[S]
  <2> HIDE DEF k
  <2> QED BY <1>1, <1>2, <1>3, SumsAgree
<1> QED BY <1>1, <1>4
(* The larger of two numbers.                                              *)
LEMMA MaxOfTwo ==
  ASSUME NEW a \in Int, NEW b \in Int
  PROVE  Max({a, b}) = IF a >= b THEN a ELSE b
BY DEF Max

(* The smaller of two numbers.                                             *)
LEMMA MinOfTwo ==
  ASSUME NEW a \in Int, NEW b \in Int
  PROVE  Min({a, b}) = IF a <= b THEN a ELSE b
BY DEF Min

(* The smallest of three numbers.                                          *)
LEMMA LeastOfThree ==
  ASSUME NEW a \in Int, NEW b \in Int, NEW c \in Int
  PROVE  /\ Min({a, b, c}) \in Int
         /\ Min({a, b, c}) = a \/ Min({a, b, c}) = b \/ Min({a, b, c}) = c
         /\ Min({a, b, c}) <= a /\ Min({a, b, c}) <= b /\ Min({a, b, c}) <= c
<1>1. \E x \in {a, b, c} : \A y \in {a, b, c} : x <= y
  <2>1. CASE a <= b /\ a <= c BY <2>1
  <2>2. CASE b <= a /\ b <= c BY <2>2
  <2>3. CASE c <= a /\ c <= b BY <2>3
  <2> QED BY <2>1, <2>2, <2>3
<1> QED BY <1>1 DEF Min

(* The members of a sequence.                                              *)
LEMMA MembersOfSeq ==
  ASSUME NEW X, NEW q \in Seq(X)
  PROVE  /\ ToSet(q) \subseteq X
         /\ \A x : x \in ToSet(q) <=> \E i \in 1..Len(q) : q[i] = x
         /\ q = <<>> <=> ToSet(q) = {}
BY DEF ToSet

(* Without repetitions: two places hold different elements.                *)
LEMMA InjectiveSeq ==
  ASSUME NEW X, NEW q \in Seq(X)
  PROVE  IsInjective(q) <=> \A i, j \in 1..Len(q) : i < j => q[i] # q[j]
<1>1. DOMAIN q = 1..Len(q) /\ Len(q) \in Nat OBVIOUS
<1>2. ASSUME \A i, j \in 1..Len(q) : i < j => q[i] # q[j] PROVE IsInjective(q)
  <2>1. SUFFICES ASSUME NEW a \in 1..Len(q), NEW b \in 1..Len(q), q[a] = q[b] PROVE a = b
    BY <1>1 DEF IsInjective
  <2>2. ~(a < b) /\ ~(b < a) BY <1>2, <2>1
  <2> QED BY <2>2, <1>1
<1>3. ASSUME IsInjective(q) PROVE \A i, j \in 1..Len(q) : i < j => q[i] # q[j]
  <2>1. TAKE i, j \in 1..Len(q)
  <2>2. q[i] = q[j] => i = j BY <1>1, <1>3 DEF IsInjective
  <2> QED BY <2>2, <1>1
<1> QED BY <1>2, <1>3

(* A sequence without repetitions is as long as its set is large.          *)
LEMMA DistinctLength ==
  ASSUME NEW X, NEW q \in Seq(X), IsInjective(q)
  PROVE  IsFiniteSet(ToSet(q)) /\ Cardinality(ToSet(q)) = Len(q)
<1>1. Len(q) \in Nat /\ DOMAIN q = 1..Len(q) /\ q \in [1..Len(q) -> ToSet(q)] BY DEF ToSet
<1>2. q \in Bijection(1..Len(q), ToSet(q))
  BY <1>1 DEF Bijection, Injection, Surjection, IsInjective, ToSet
<1>3. IsFiniteSet(1..Len(q)) /\ Cardinality(1..Len(q)) = Len(q) BY <1>1, FS_Interval
<1>4. ExistsBijection(1..Len(q), ToSet(q)) BY <1>2 DEF ExistsBijection
<1> QED BY <1>3, <1>4, FS_Bijection

(* The set of a filtered sequence.                                         *)
LEMMA OnlySet ==
  ASSUME NEW X, NEW q \in Seq(X), NEW S
  PROVE  /\ Only(q, S) \in Seq(X) /\ Len(Only(q, S)) <= Len(q)
         /\ ToSet(Only(q, S)) = ToSet(q) \cap S
         /\ IsInjective(q) => IsInjective(Only(q, S))
<1> DEFINE o == Only(q, S)
<1>1. o \in Seq(X) /\ Len(o) <= Len(q) /\ FilterFacts(o, q, S) BY OnlyFacts
<1> HIDE DEF o
<1>2. ToSet(o) = ToSet(q) \cap S
  <2>1. \A x : x \in ToSet(o) <=> \E i \in 1..Len(o) : o[i] = x BY <1>1, MembersOfSeq
  <2>2. \A x : x \in ToSet(q) <=> \E i \in 1..Len(q) : q[i] = x BY <1>1, MembersOfSeq
  <2> QED BY <1>1, <2>1, <2>2 DEF FilterFacts
<1>3. ASSUME IsInjective(q) PROVE IsInjective(o)
  <2>1. \A i, j \in 1..Len(q) : i < j => q[i] # q[j] BY <1>3, InjectiveSeq
  <2>2. \A i, j \in 1..Len(o) : i < j => o[i] # o[j] BY <1>1, <2>1 DEF FilterFacts
  <2> QED BY <1>1, <2>2, InjectiveSeq
<1> QED BY <1>1, <1>2, <1>3 DEF o

(* One element more at the end.                                            *)
LEMMA AppendSet ==
  ASSUME NEW X, NEW q \in Seq(X), NEW e \in X
  PROVE  /\ Append(q, e) \in Seq(X) /\ Len(Append(q, e)) = Len(q) + 1
         /\ ToSet(Append(q, e)) = ToSet(q) \cup {e}
         /\ IsInjective(q) /\ e \notin ToSet(q) => IsInjective(Append(q, e))
<1> DEFINE a == Append(q, e)
<1>1. /\ a \in Seq(X) /\ Len(a) = Len(q) + 1 /\ Len(q) \in Nat
      /\ \A i \in 1..Len(q) : a[i] = q[i]
      /\ a[Len(q) + 1] = e BY AppendProperties
<1> HIDE DEF a
<1>2. \A x : x \in ToSet(a) <=> \E i \in 1..Len(a) : a[i] = x BY <1>1, MembersOfSeq
<1>3. \A x : x \in ToSet(q) <=> \E i \in 1..Len(q) : q[i] = x BY <1>1, MembersOfSeq
<1>4. ToSet(a) = ToSet(q) \cup {e}
  <2>1. ASSUME NEW x \in ToSet(a) PROVE x \in ToSet(q) \cup {e}
    <3>1. PICK i \in 1..Len(a) : a[i] = x BY <1>2
    <3>2. i = Len(q) + 1 \/ i \in 1..Len(q) BY <1>1
    <3> QED BY <3>1, <3>2, <1>1, <1>3
  <2>2. ASSUME NEW x \in ToSet(q) PROVE x \in ToSet(a)
    <3>1. PICK i \in 1..Len(q) : q[i] = x BY <1>3
    <3>2. i \in 1..Len(a) BY <1>1
    <3> QED BY <3>1, <3>2, <1>1, <1>2
  <2>3. e \in ToSet(a)
    <3>1. Len(q) + 1 \in 1..Len(a) BY <1>1
    <3> QED BY <3>1, <1>1, <1>2
  <2> QED BY <2>1, <2>2, <2>3
<1>5. ASSUME IsInjective(q), e \notin ToSet(q) PROVE IsInjective(a)
  <2>1. \A i, j \in 1..Len(q) : i < j => q[i] # q[j] BY <1>5, InjectiveSeq
  <2>2. ASSUME NEW i \in 1..Len(a), NEW j \in 1..Len(a), i < j PROVE a[i] # a[j]
    <3>1. i \in 1..Len(q) BY <2>2, <1>1
    <3>2. CASE j \in 1..Len(q) BY <2>1, <2>2, <3>1, <3>2, <1>1
    <3>3. CASE j = Len(q) + 1 BY <3>1, <3>3, <1>1, <1>3, <1>5
    <3> QED BY <3>2, <3>3, <1>1
  <2> QED BY <1>1, <2>2, InjectiveSeq
<1> QED BY <1>1, <1>4, <1>5 DEF a

(* One element less at the front.                                          *)
LEMMA TailSet ==
  ASSUME NEW X, NEW q \in Seq(X), q # <<>>
  PROVE  /\ Head(q) \in X /\ Head(q) = q[1] /\ Tail(q) \in Seq(X)
         /\ Len(q) \in Nat \ {0} /\ Len(Tail(q)) = Len(q) - 1
         /\ \A i \in 1..Len(Tail(q)) : Tail(q)[i] = q[i + 1]
         /\ ToSet(q) = {Head(q)} \cup ToSet(Tail(q))
         /\ IsInjective(q) => IsInjective(Tail(q)) /\ Head(q) \notin ToSet(Tail(q))
<1> DEFINE t == Tail(q)
           h == Head(q)
<1>1. /\ h \in X /\ t \in Seq(X) /\ Len(q) \in Nat \ {0} /\ Len(t) = Len(q) - 1 /\ h = q[1]
      /\ \A i \in 1..Len(t) : t[i] = q[i + 1] BY HeadTailProperties
<1> HIDE DEF t, h
<1>2. \A x : x \in ToSet(t) <=> \E i \in 1..Len(t) : t[i] = x BY <1>1, MembersOfSeq
<1>3. \A x : x \in ToSet(q) <=> \E i \in 1..Len(q) : q[i] = x BY MembersOfSeq
<1>4. ToSet(q) = {h} \cup ToSet(t)
  <2>1. ASSUME NEW x \in ToSet(t) PROVE x \in ToSet(q)
    <3>1. PICK i \in 1..Len(t) : t[i] = x BY <1>2
    <3>2. i + 1 \in 1..Len(q) BY <1>1
    <3> QED BY <3>1, <3>2, <1>1, <1>3
  <2>2. ASSUME NEW x \in ToSet(q) PROVE x \in {h} \cup ToSet(t)
    <3>1. PICK i \in 1..Len(q) : q[i] = x BY <1>3
    <3>2. CASE i = 1 BY <3>1, <3>2, <1>1
    <3>3. CASE i # 1
      <4>1. i - 1 \in 1..Len(t) /\ (i - 1) + 1 = i BY <3>3, <1>1
      <4> QED BY <3>1, <4>1, <1>1, <1>2
    <3> QED BY <3>2, <3>3
  <2>3. h \in ToSet(q)
    <3>1. 1 \in 1..Len(q) BY <1>1
    <3> QED BY <3>1, <1>1, <1>3
  <2> QED BY <2>1, <2>2, <2>3
<1>5. ASSUME IsInjective(q) PROVE IsInjective(t) /\ h \notin ToSet(t)
  <2>1. \A i, j \in 1..Len(q) : i < j => q[i] # q[j] BY <1>5, InjectiveSeq
  <2>2. \A i \in 1..Len(t) : i + 1 \in 1..Len(q) /\ 1 < i + 1 /\ 1 \in 1..Len(q) BY <1>1
  <2>3. h \notin ToSet(t) BY <2>1, <2>2, <1>1, <1>2
  <2>4. ASSUME NEW i \in 1..Len(t), NEW j \in 1..Len(t), i < j PROVE t[i] # t[j]
    <3>1. i + 1 < j + 1 BY <2>4, <1>1
    <3> QED BY <3>1, <2>1, <2>2, <1>1
  <2> QED BY <1>1, <2>3, <2>4, InjectiveSeq
<1> QED BY <1>1, <1>4, <1>5 DEF t, h

(* Two sequences in a row.                                                 *)
LEMMA ConcatSet ==
  ASSUME NEW X, NEW p \in Seq(X), NEW q \in Seq(X)
  PROVE  /\ p \o q \in Seq(X) /\ Len(p \o q) = Len(p) + Len(q)
         /\ \A i \in 1..Len(p) + Len(q) : (p \o q)[i] = IF i <= Len(p) THEN p[i] ELSE q[i - Len(p)]
         /\ ToSet(p \o q) = ToSet(p) \cup ToSet(q)
         /\ IsInjective(p) /\ IsInjective(q) /\ ToSet(p) \cap ToSet(q) = {} => IsInjective(p \o q)
<1> DEFINE c == p \o q
<1>1. /\ c \in Seq(X) /\ Len(c) = Len(p) + Len(q) /\ Len(p) \in Nat /\ Len(q) \in Nat
      /\ \A i \in 1..Len(p) + Len(q) : c[i] = IF i <= Len(p) THEN p[i] ELSE q[i - Len(p)]
  BY ConcatProperties
<1> HIDE DEF c
<1>2. \A x : x \in ToSet(c) <=> \E i \in 1..Len(c) : c[i] = x BY <1>1, MembersOfSeq
<1>3. \A x : x \in ToSet(p) <=> \E i \in 1..Len(p) : p[i] = x BY MembersOfSeq
<1>4. \A x : x \in ToSet(q) <=> \E i \in 1..Len(q) : q[i] = x BY MembersOfSeq
<1>5. ASSUME NEW i \in 1..Len(c)
      PROVE \/ i \in 1..Len(p) /\ c[i] = p[i]
            \/ i - Len(p) \in 1..Len(q) /\ c[i] = q[i - Len(p)]
  BY <1>1
<1>6. ASSUME NEW i \in 1..Len(p) PROVE i \in 1..Len(c) /\ c[i] = p[i] BY <1>1
<1>7. ASSUME NEW i \in 1..Len(q) PROVE Len(p) + i \in 1..Len(c) /\ c[Len(p) + i] = q[i]
  <2>1. Len(p) + i \in 1..Len(p) + Len(q) /\ ~(Len(p) + i <= Len(p)) /\ (Len(p) + i) - Len(p) = i BY <1>1
  <2> QED BY <2>1, <1>1
<1>8. ToSet(c) = ToSet(p) \cup ToSet(q) BY <1>2, <1>3, <1>4, <1>5, <1>6, <1>7
<1>9. ASSUME IsInjective(p), IsInjective(q), ToSet(p) \cap ToSet(q) = {} PROVE IsInjective(c)
  <2>1. \A i, j \in 1..Len(p) : i < j => p[i] # p[j] BY <1>9, InjectiveSeq
  <2>2. \A i, j \in 1..Len(q) : i < j => q[i] # q[j] BY <1>9, InjectiveSeq
  <2>3. \A i \in 1..Len(p), j \in 1..Len(q) : p[i] # q[j] BY <1>9, <1>3, <1>4
  <2>4. ASSUME NEW i \in 1..Len(c), NEW j \in 1..Len(c), i < j PROVE c[i] # c[j]
    <3>1. CASE i \in 1..Len(p) /\ c[i] = p[i]
      <4>1. CASE j \in 1..Len(p) /\ c[j] = p[j] BY <3>1, <4>1, <2>1, <2>4
      <4>2. CASE j - Len(p) \in 1..Len(q) /\ c[j] = q[j - Len(p)] BY <3>1, <4>2, <2>3
      <4> QED BY <4>1, <4>2, <1>5
    <3>2. CASE i - Len(p) \in 1..Len(q) /\ c[i] = q[i - Len(p)]
      <4>1. j - Len(p) \in 1..Len(q) /\ c[j] = q[j - Len(p)] /\ i - Len(p) < j - Len(p)
        BY <3>2, <2>4, <1>1
      <4> QED BY <3>2, <4>1, <2>2
    <3> QED BY <3>1, <3>2, <1>5
  <2> QED BY <1>1, <2>4, InjectiveSeq
<1> QED BY <1>1, <1>8, <1>9 DEF c

(* A sequence backwards.                                                   *)
LEMMA ReverseFacts ==
  ASSUME NEW X, NEW q \in Seq(X)
  PROVE  /\ Reverse(q) \in Seq(X) /\ Len(Reverse(q)) = Len(q)
         /\ \A i \in 1..Len(q) : Reverse(q)[i] = q[Len(q) + 1 - i]
<1>1. Len(q) \in Nat OBVIOUS
<1>2. \A i \in 1..Len(q) : (Len(q) - i) + 1 \in 1..Len(q) /\ (Len(q) - i) + 1 = Len(q) + 1 - i BY <1>1
<1>3. \A i \in 1..Len(q) : q[(Len(q) - i) + 1] \in X BY <1>2
<1>4. Reverse(q) = [i \in 1..Len(q) |-> q[(Len(q) - i) + 1]] BY DEF Reverse
<1>5. Reverse(q) \in [1..Len(q) -> X] BY <1>3, <1>4
<1>6. Reverse(q) \in Seq(X) /\ Len(Reverse(q)) = Len(q) BY <1>1, <1>5, IsASeq, LenProperties
<1> QED BY <1>2, <1>4, <1>6

(* A finite set in some order.                                             *)
LEMMA SetInOrder ==
  ASSUME NEW S, IsFiniteSet(S)
  PROVE  SetToSeq(S) \in Seq(S) /\ ToSet(SetToSeq(S)) = S /\ IsInjective(SetToSeq(S))
<1> DEFINE n == Cardinality(S)
           q == SetToSeq(S)
<1>1. n \in Nat BY FS_CardinalityType
<1>2. \E f \in [1..n -> S] : IsInjective(f)
  <2>1. ExistsBijection(1..n, S) BY FS_CardinalityType
  <2> QED BY <2>1 DEF ExistsBijection, Bijection, Injection
<1>3. q \in [1..n -> S] /\ IsInjective(q) BY <1>2 DEF SetToSeq
<1> HIDE DEF q
<1>4. q \in Seq(S) /\ Len(q) = n BY <1>1, <1>3, IsASeq, LenProperties
<1>5. Cardinality(ToSet(q)) = Cardinality(S) /\ ToSet(q) \subseteq S
  BY <1>3, <1>4, DistinctLength, MembersOfSeq
<1>6. ToSet(q) = S BY <1>5, FS_Subset
<1> QED BY <1>3, <1>4, <1>6 DEF q

(* A filter keeps the first element in its place when it keeps it.         *)
LEMMA OnlyFirst ==
  ASSUME NEW X, NEW q \in Seq(X), NEW S, q # <<>>, q[1] \in S
  PROVE  Only(q, S) # <<>> /\ Only(q, S)[1] = q[1]
<1> DEFINE n == Len(q)
<1>1. n \in Nat \ {0} /\ \A k \in 1..n : q[k] \in X BY EmptySeq
<1>2. PICK f : IsFilter(f, q, S, X) /\ Only(q, S) = f[n] BY OnlyRecursion
<1>3. /\ f \in [0..n -> Seq(X)] /\ f[0] = <<>>
      /\ \A k \in 1..n : f[k] = IF q[k] \in S THEN Append(f[k - 1], q[k]) ELSE f[k - 1]
  BY <1>2 DEF IsFilter
<1> HIDE DEF n
<1> DEFINE T == {k \in 0..n : k > 0 => Len(f[k]) > 0 /\ f[k][1] = q[1]}
<1>4. 0 \in T BY <1>1
<1>5. ASSUME NEW k \in 0..n - 1, k \in T PROVE k + 1 \in T
  <2>1. k + 1 \in 1..n /\ k + 1 \in 0..n /\ k + 1 - 1 = k /\ k \in 0..n BY <1>1
  <2>2. f[k] \in Seq(X) /\ q[k + 1] \in X BY <1>1, <1>3, <2>1
  <2>3. f[k + 1] = IF q[k + 1] \in S THEN Append(f[k], q[k + 1]) ELSE f[k] BY <1>3, <2>1
  <2>4. Len(f[k + 1]) > 0 /\ f[k + 1][1] = q[1]
    <3> DEFINE g == f[k]
               e == q[k + 1]
               a == Append(g, e)
    <3>1. /\ a \in Seq(X) /\ Len(a) = Len(g) + 1 /\ Len(g) \in Nat
          /\ \A i \in 1..Len(g) : a[i] = g[i]
          /\ a[Len(g) + 1] = e
      <4> HIDE DEF g, e
      <4> QED BY <2>2, AppendProperties DEF g, e
    <3>2. CASE k = 0
      <4>1. e = q[1] /\ Len(g) = 0 BY <3>2, <1>3
      <4>2. f[k + 1] = a BY <2>3, <3>2, <4>1
      <4> DEFINE u == Len(g)
                 v == Len(a)
      <4>3. u = 0 /\ v = u + 1 /\ a[u + 1] = e BY <3>1, <4>1
      <4> HIDE DEF a, g, e, u, v
      <4>4. v > 0 /\ a[1] = e BY <4>3
      <4> QED BY <4>1, <4>2, <4>4 DEF v
    <3>3. CASE k > 0
      <4>1. Len(g) > 0 /\ g[1] = q[1] BY <1>5, <3>3
      <4>2. f[k + 1] = a \/ f[k + 1] = g BY <2>3
      <4> HIDE DEF a, g, e
      <4>3. Len(a) > 0 /\ a[1] = q[1] BY <3>1, <4>1
      <4> QED BY <4>1, <4>2, <4>3
    <3> QED BY <2>1, <3>2, <3>3
  <2> QED BY <2>1, <2>4
<1>6. T = 0..n
  <2>1. T \subseteq 0..n OBVIOUS
  <2> HIDE DEF T
  <2> QED BY <1>1, <1>4, <1>5, <2>1, UpToAll
<1>7. Len(f[n]) > 0 /\ f[n][1] = q[1] BY <1>1, <1>6
<1>8. f[n] # <<>> BY <1>7
<1> QED BY <1>2, <1>7, <1>8

-----------------------------------------------------------------------------
(* When "before" is a strict total order of the places, each rank has its  *)
(* place.                                                                  *)
LEMMA RankedPlaces ==
  ASSUME NEW n \in Nat, NEW before, DOMAIN before = 1..n,
         \A j \in 1..n : before[j] \subseteq 1..n /\ j \notin before[j],
         \A i, j, k \in 1..n : i \in before[j] /\ j \in before[k] => i \in before[k],
         \A i, j \in 1..n : i = j \/ i \in before[j] \/ j \in before[i]
  PROVE  /\ DOMAIN Ranked(before) = 1..n
         /\ \A k \in 1..n : /\ Ranked(before)[k] \in 1..n
                            /\ Cardinality(before[Ranked(before)[k]]) = k - 1
         /\ \A k, l \in 1..n : Ranked(before)[k] = Ranked(before)[l] => k = l
         /\ \A k, l \in 1..n : Ranked(before)[k] \in before[Ranked(before)[l]] <=> k < l
         /\ \A j \in 1..n : \E k \in 1..n : Ranked(before)[k] = j
<1> DEFINE c == [j \in 1..n |-> Cardinality(before[j])]
           r == Ranked(before)
<1>1. IsFiniteSet(1..n) /\ Cardinality(1..n) = n BY FS_Interval
<1>2. \A j \in 1..n : IsFiniteSet(before[j]) /\ c[j] \in 0..n - 1
  <2> TAKE j \in 1..n
  <2>1. before[j] \subseteq (1..n) \ {j} OBVIOUS
  <2>2. IsFiniteSet((1..n) \ {j}) /\ Cardinality((1..n) \ {j}) = n - 1 BY <1>1, FS_RemoveElement
  <2>3. IsFiniteSet(before[j]) /\ Cardinality(before[j]) <= Cardinality((1..n) \ {j})
    BY <2>1, <2>2, FS_Subset
  <2>4. Cardinality(before[j]) \in Nat BY <2>3, FS_CardinalityType
  <2> DEFINE x == Cardinality(before[j])
             y == Cardinality((1..n) \ {j})
  <2>5. x \in Nat /\ x <= y /\ y = n - 1 BY <2>2, <2>3, <2>4
  <2> HIDE DEF x, y
  <2>6. x \in 0..n - 1 BY <2>5
  <2>7. c[j] = x BY DEF x
  <2> QED BY <2>3, <2>6, <2>7
<1>3. ASSUME NEW i \in 1..n, NEW j \in 1..n, i \in before[j] PROVE c[i] < c[j]
  <2>1. before[i] \subseteq before[j] /\ before[i] # before[j] BY <1>3
  <2>2. Cardinality(before[i]) <= Cardinality(before[j])
        /\ Cardinality(before[i]) # Cardinality(before[j])
    BY <1>2, <2>1, FS_Subset
  <2>3. c[i] \in Nat /\ c[j] \in Nat BY <1>2
  <2>4. c[i] <= c[j] /\ c[i] # c[j] BY <2>2
  <2> HIDE DEF c
  <2> QED BY <2>3, <2>4
<1>4. \A i, j \in 1..n : c[i] = c[j] => i = j
  <2> TAKE i, j \in 1..n
  <2>1. c[i] \in Nat /\ c[j] \in Nat BY <1>2
  <2>2. i \in before[j] => c[i] < c[j] BY <1>3
  <2>3. j \in before[i] => c[j] < c[i] BY <1>3
  <2>4. i = j \/ i \in before[j] \/ j \in before[i] OBVIOUS
  <2> HIDE DEF c
  <2> QED BY <2>1, <2>2, <2>3, <2>4
<1>5. c \in Surjection(1..n, 0..n - 1)
  <2>1. c \in Injection(1..n, 0..n - 1)
    <3>1. c \in [1..n -> 0..n - 1] BY <1>2
    <3> HIDE DEF c
    <3> QED BY <3>1, <1>4 DEF Injection, IsInjective
  <2>2. IsFiniteSet(0..n - 1) /\ Cardinality(0..n - 1) = n
    <3>1. 0 \in Int /\ n - 1 \in Int OBVIOUS
    <3>2. IsFiniteSet(0..n - 1) /\ Cardinality(0..n - 1) = IF 0 > n - 1 THEN 0 ELSE (n - 1) - 0 + 1
      BY <3>1, FS_Interval
    <3> DEFINE z == Cardinality(0..n - 1)
    <3>3. z = IF 0 > n - 1 THEN 0 ELSE (n - 1) - 0 + 1 BY <3>2
    <3> HIDE DEF z
    <3>4. z = n BY <3>3
    <3> QED BY <3>2, <3>4 DEF z
  <2> HIDE DEF c
  <2>3. Cardinality(1..n) = Cardinality(0..n - 1) BY <1>1, <2>2
  <2> QED BY <2>1, <2>2, <2>3, FS_Injection
<1>6. DOMAIN r = 1..n /\ \A k \in 1..n : r[k] = CHOOSE j \in 1..n : Cardinality(before[j]) = k - 1
  BY DEF Ranked
<1>7. \A k \in 1..n : r[k] \in 1..n /\ c[r[k]] = k - 1
  <2> TAKE k \in 1..n
  <2>1. k - 1 \in 0..n - 1 OBVIOUS
  <2>2. \E j \in 1..n : c[j] = k - 1
    <3> HIDE DEF c
    <3> QED BY <1>5, <2>1 DEF Surjection
  <2>3. \E j \in 1..n : Cardinality(before[j]) = k - 1 BY <2>2
  <2>4. r[k] \in 1..n /\ Cardinality(before[r[k]]) = k - 1
    <3> HIDE DEF r
    <3> QED BY <1>6, <2>3
  <2> HIDE DEF r
  <2> QED BY <2>4
<1>8. \A j \in 1..n : c[j] = Cardinality(before[j]) OBVIOUS
<1> HIDE DEF c, r
<1>9. \A k, l \in 1..n : r[k] = r[l] => k = l
  <2> TAKE k, l \in 1..n
  <2>1. c[r[k]] = k - 1 /\ c[r[l]] = l - 1 BY <1>7
  <2>2. r[k] = r[l] => k - 1 = l - 1 BY <2>1
  <2> QED BY <2>2
<1>10. \A k, l \in 1..n : r[k] \in before[r[l]] <=> k < l
  <2> TAKE k, l \in 1..n
  <2>1. r[k] \in 1..n /\ r[l] \in 1..n /\ c[r[k]] = k - 1 /\ c[r[l]] = l - 1 BY <1>7
  <2>2. r[k] \in before[r[l]] => c[r[k]] < c[r[l]] BY <1>3, <2>1
  <2>3. r[l] \in before[r[k]] => c[r[l]] < c[r[k]] BY <1>3, <2>1
  <2>4. r[k] = r[l] \/ r[k] \in before[r[l]] \/ r[l] \in before[r[k]] BY <2>1
  <2>5. r[k] = r[l] => k = l BY <1>9
  <2> QED BY <2>1, <2>2, <2>3, <2>4, <2>5
<1>11. ASSUME NEW j \in 1..n PROVE \E k \in 1..n : r[k] = j
  <2>1. c[j] \in 0..n - 1 BY <1>2
  <2>2. c[j] + 1 \in 1..n /\ (c[j] + 1) - 1 = c[j] BY <2>1
  <2>3. r[c[j] + 1] \in 1..n /\ c[r[c[j] + 1]] = c[j] BY <1>7, <2>2
  <2>4. r[c[j] + 1] = j BY <1>4, <2>3
  <2> QED BY <2>2, <2>4
<1>12. \A k \in 1..n : r[k] \in 1..n /\ Cardinality(before[r[k]]) = k - 1 BY <1>7, <1>8
<1> QED BY <1>6, <1>9, <1>10, <1>11, <1>12 DEF r

-----------------------------------------------------------------------------
(* One request more adds its energy to the joules outstanding.             *)
LEMMA JoulesAdd ==
  ASSUME NEW S, NEW e, NEW r, e[r] \in Nat, r \notin S,
         IsFiniteSet(JouleUnits(S, e))
  PROVE  /\ IsFiniteSet(JouleUnits(S \cup {r}, e))
         /\ Cardinality(JouleUnits(S \cup {r}, e)) = Cardinality(JouleUnits(S, e)) + e[r]
<1> DEFINE A == JouleUnits(S, e)
           B == {r} \X (1..e[r])
<1>1. e[r] \in Nat
  OBVIOUS
<1>2. JouleUnits(S \cup {r}, e) = A \cup B
  BY DEF JouleUnits
<1>3. A \cap B = {}
  BY DEF JouleUnits
<1>4. IsFiniteSet(1..e[r]) /\ Cardinality(1..e[r]) = e[r]
  BY <1>1, FS_Interval
<1>5. IsFiniteSet({r}) /\ Cardinality({r}) = 1
  BY FS_Singleton
<1>6. IsFiniteSet(B) /\ Cardinality(B) = e[r]
  <2>1. IsFiniteSet(B) /\ Cardinality(B) = Cardinality({r}) * Cardinality(1..e[r])
    BY <1>4, <1>5, FS_Product
  <2>2. \A n \in Nat : 1 * n = n
    OBVIOUS
  <2>3. QED BY <1>1, <1>4, <1>5, <2>1, <2>2
<1>7. Cardinality(A \cap B) = 0
  BY <1>3, FS_EmptySet
<1>8. /\ IsFiniteSet(A \cup B)
      /\ Cardinality(A \cup B) = Cardinality(A) + Cardinality(B) - Cardinality(A \cap B)
  BY <1>6, FS_Union
<1>9. Cardinality(A) \in Nat
  BY FS_CardinalityType
<1>10. Cardinality(A \cup B) = Cardinality(A) + e[r]
  BY <1>1, <1>6, <1>7, <1>8, <1>9
<1>11. QED BY <1>2, <1>8, <1>10

(* One request less takes exactly its energy away, so the ledger of the    *)
(* code can subtract without reaching its floor.                           *)
LEMMA JoulesRemove ==
  ASSUME NEW S, NEW e, NEW r \in S, e[r] \in Nat, IsFiniteSet(JouleUnits(S, e))
  PROVE  /\ IsFiniteSet(JouleUnits(S \ {r}, e))
         /\ Cardinality(JouleUnits(S \ {r}, e)) \in Nat
         /\ Cardinality(JouleUnits(S, e)) = Cardinality(JouleUnits(S \ {r}, e)) + e[r]
<1> DEFINE T == S \ {r}
<1>1. JouleUnits(T, e) \subseteq JouleUnits(S, e)
  BY DEF JouleUnits
<1>2. IsFiniteSet(JouleUnits(T, e))
  BY <1>1, FS_Subset
<1>3. T \cup {r} = S /\ r \notin T
  OBVIOUS
<1>4. Cardinality(JouleUnits(T \cup {r}, e)) = Cardinality(JouleUnits(T, e)) + e[r]
  BY <1>2, <1>3, JoulesAdd
<1>5. QED BY <1>2, <1>3, <1>4, FS_CardinalityType

(* The joules outstanding depend only on the energies of those requests.   *)
LEMMA JoulesSame ==
  ASSUME NEW S, NEW e, NEW f, \A r \in S : e[r] = f[r]
  PROVE  JouleUnits(S, e) = JouleUnits(S, f)
BY DEF JouleUnits
=============================================================================
