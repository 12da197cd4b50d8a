--------------------------- MODULE EvictionProofs ---------------------------
(* What TLAPS proves about EvictionFreeList, for any blocks, requests and  *)
(* prompts.                                                                *)
EXTENDS EvictionFreeList, DataLemmas

Links == Nodes \cup {None}

(* The links nx and pv hold the nodes t[0], ..., t[n + 1] in a row.        *)
Chained(nx, pv, t, n) ==
  /\ n \in Nat /\ t \in [0..n + 1 -> Nodes]
  /\ \A i, j \in 0..n + 1 : t[i] = t[j] => i = j
  /\ t[0] = FakeHead /\ t[n + 1] = FakeTail
  /\ nx \in [Nodes -> Links] /\ pv \in [Nodes -> Links]
  /\ \A k \in 0..n : nx[t[k]] = t[k + 1] /\ pv[t[k + 1]] = t[k]
  /\ nx[FakeTail] = None /\ pv[FakeHead] = None

(* The blocks among them.                                                  *)
Inner(t, n) == {t[k] : k \in 1..n}

(* The nodes: the blocks and the two fake ones.                            *)
LEMMA NodeFacts ==
  /\ IsFiniteSet(Nodes) /\ Cardinality(Nodes) = Cardinality(Blocks) + 2
  /\ IsFiniteSet(Blocks) /\ Cardinality(Blocks) \in Nat
  /\ FakeHead \in Nodes /\ FakeTail \in Nodes /\ None \notin Nodes /\ FakeHead # FakeTail
  /\ FakeHead \notin Blocks /\ FakeTail \notin Blocks
<1>1. IsFiniteSet(Blocks) /\ FakeHead \notin Blocks /\ FakeTail \notin Blocks /\ None \notin Blocks
  BY EvictionAssumption
<1>2. FakeHead # FakeTail /\ FakeHead # None /\ FakeTail # None
  BY DEF FakeHead, FakeTail, None
<1>3. Nodes = (Blocks \cup {FakeHead}) \cup {FakeTail} BY DEF Nodes
<1> DEFINE A == Blocks \cup {FakeHead}
<1>4. IsFiniteSet(A) /\ Cardinality(A) = Cardinality(Blocks) + 1 BY <1>1, FS_AddElement
<1>5. FakeTail \notin A BY <1>1, <1>2
<1> HIDE DEF A
<1>6. IsFiniteSet(A \cup {FakeTail}) /\ Cardinality(A \cup {FakeTail}) = Cardinality(A) + 1
  BY <1>4, <1>5, FS_AddElement
<1>7. Nodes = A \cup {FakeTail} BY <1>3 DEF A
<1>8. Cardinality(Blocks) \in Nat BY <1>1, FS_CardinalityType
<1>9. Cardinality(Nodes) = Cardinality(Blocks) + 2
  <2> DEFINE a == Cardinality(A)
             b == Cardinality(Blocks)
             c == Cardinality(Nodes)
  <2>1. a = b + 1 /\ c = a + 1 /\ b \in Nat BY <1>4, <1>6, <1>7, <1>8
  <2> HIDE DEF a, b, c
  <2>2. c = b + 2 BY <2>1
  <2> QED BY <2>2 DEF b, c
<1> QED BY <1>1, <1>2, <1>6, <1>7, <1>8, <1>9 DEF Nodes

(* The inner nodes of a chain are as many blocks.                          *)
LEMMA InnerFacts ==
  ASSUME NEW nx, NEW pv, NEW t, NEW n \in Nat, Chained(nx, pv, t, n)
  PROVE  /\ Inner(t, n) \subseteq Blocks
         /\ IsFiniteSet(Inner(t, n)) /\ Cardinality(Inner(t, n)) = n
         /\ n + 2 <= Cardinality(Nodes)
         /\ \A q : q = [k \in 1..n |-> t[k]] =>
              q \in Seq(Blocks) /\ IsInjective(q) /\ Len(q) = n /\ ToSet(q) = Inner(t, n)
<1> DEFINE q == [k \in 1..n |-> t[k]]
<1>1. /\ n \in Nat /\ t \in [0..n + 1 -> Nodes] /\ t[0] = FakeHead /\ t[n + 1] = FakeTail
      /\ \A i, j \in 0..n + 1 : t[i] = t[j] => i = j
  BY DEF Chained
<1>2. \A k \in 1..n : t[k] \in Blocks
  <2> TAKE k \in 1..n
  <2>1. k \in 0..n + 1 /\ 0 \in 0..n + 1 /\ n + 1 \in 0..n + 1 /\ k # 0 /\ k # n + 1 BY <1>1
  <2>2. t[k] \in Nodes /\ t[k] # FakeHead /\ t[k] # FakeTail BY <1>1, <2>1
  <2> QED BY <2>2 DEF Nodes
<1>3. q \in [1..n -> Blocks] /\ q \in Seq(Blocks) /\ Len(q) = n
  <2>1. q \in [1..n -> Blocks] BY <1>2
  <2> QED BY <1>1, <2>1, IsASeq, LenProperties
<1>4. IsInjective(q)
  <2>1. ASSUME NEW i \in 1..n, NEW j \in 1..n, q[i] = q[j] PROVE i = j
    <3>1. i \in 0..n + 1 /\ j \in 0..n + 1 BY <1>1
    <3> QED BY <1>1, <2>1, <3>1
  <2> QED BY <2>1 DEF IsInjective
<1>5. ToSet(q) = Inner(t, n) BY DEF ToSet, Inner
<1>6. IsFiniteSet(ToSet(q)) /\ Cardinality(ToSet(q)) = n
  <2> HIDE DEF q
  <2> QED BY <1>3, <1>4, DistinctLength
<1>7. n + 2 <= Cardinality(Nodes)
  <2>1. Inner(t, n) \subseteq Blocks BY <1>2 DEF Inner
  <2>2. Cardinality(Inner(t, n)) <= Cardinality(Blocks) BY <2>1, NodeFacts, FS_Subset
  <2> DEFINE b == Cardinality(Blocks)
             c == Cardinality(Nodes)
  <2>3. n <= b /\ c = b + 2 /\ b \in Nat BY <2>2, <1>5, <1>6, NodeFacts
  <2> HIDE DEF b, c
  <2>4. n + 2 <= c BY <2>3, <1>1
  <2> QED BY <2>4 DEF c
<1> QED BY <1>2, <1>3, <1>4, <1>5, <1>6, <1>7 DEF Inner

-----------------------------------------------------------------------------
(* The places of a sequence of blocks between the fake nodes.              *)
Along(q) ==
  [k \in 0..Len(q) + 1 |->
     IF k = 0 THEN FakeHead ELSE IF k = Len(q) + 1 THEN FakeTail ELSE q[k]]

(* NextIn and PrevIn link a sequence without repetitions.                  *)
LEMMA InARow ==
  ASSUME NEW q \in Seq(Blocks), IsInjective(q)
  PROVE  /\ Chained(NextIn(q), PrevIn(q), Along(q), Len(q))
         /\ Inner(Along(q), Len(q)) = ToSet(q)
         /\ \A k \in 1..Len(q) : Along(q)[k] = q[k]
<1> DEFINE n == Len(q)
           a == Along(q)
           t == <<FakeHead>> \o q \o <<FakeTail>>
<1>1. n \in Nat /\ \A k \in 1..n : q[k] \in Blocks OBVIOUS
<1>2. \A k \in 0..n + 1 : a[k] = IF k = 0 THEN FakeHead ELSE IF k = n + 1 THEN FakeTail ELSE q[k]
  BY DEF Along
<1>3. /\ t \in Seq(Nodes) /\ Len(t) = n + 2
      /\ \A k \in 0..n + 1 : t[k + 1] = a[k]
  <2>1. q \in Seq(Nodes) /\ <<FakeHead>> \in Seq(Nodes) /\ <<FakeTail>> \in Seq(Nodes)
    BY <1>1, NodeFacts DEF Nodes
  <2> DEFINE r == <<FakeHead>> \o q
  <2>2. /\ r \in Seq(Nodes) /\ Len(r) = n + 1
        /\ \A i \in 1..n + 1 : r[i] = IF i <= 1 THEN FakeHead ELSE q[i - 1]
    <3>1. Len(<<FakeHead>>) = 1 /\ <<FakeHead>>[1] = FakeHead OBVIOUS
    <3>2. /\ r \in Seq(Nodes) /\ Len(r) = Len(<<FakeHead>>) + Len(q)
          /\ \A i \in 1..Len(<<FakeHead>>) + Len(q) : r[i] =
               IF i <= Len(<<FakeHead>>) THEN <<FakeHead>>[i] ELSE q[i - Len(<<FakeHead>>)]
      BY <2>1, ConcatProperties
    <3>3. \A i \in 1..n + 1 : i <= 1 => i = 1 OBVIOUS
    <3> HIDE DEF r
    <3> QED BY <3>1, <3>2, <3>3, <1>1
  <2> HIDE DEF r
  <2>3. /\ t \in Seq(Nodes) /\ Len(t) = n + 2
        /\ \A i \in 1..n + 2 : t[i] = IF i <= n + 1 THEN r[i] ELSE FakeTail
    <3>0. t = r \o <<FakeTail>> BY DEF r
    <3>1. Len(<<FakeTail>>) = 1 /\ <<FakeTail>>[1] = FakeTail OBVIOUS
    <3> DEFINE l == <<FakeTail>>
    <3> HIDE DEF l
    <3>2. /\ r \o l \in Seq(Nodes) /\ Len(r \o l) = Len(r) + Len(l)
          /\ \A i \in 1..Len(r) + Len(l) : (r \o l)[i] =
               IF i <= Len(r) THEN r[i] ELSE l[i - Len(r)]
      BY <2>1, <2>2, ConcatProperties DEF l
    <3>3. t = r \o l /\ Len(l) = 1 /\ l[1] = FakeTail BY <3>0, <3>1 DEF l
    <3> HIDE DEF t
    <3>4. Len(t) = n + 2 /\ t \in Seq(Nodes) BY <3>2, <3>3, <2>2, <1>1
    <3>5. ASSUME NEW i \in 1..n + 2 PROVE t[i] = IF i <= n + 1 THEN r[i] ELSE FakeTail
      <4>1. i \in 1..Len(r) + Len(l) /\ (~(i <= n + 1) => i - Len(r) = 1)
        BY <2>2, <3>3, <1>1
      <4> QED BY <3>2, <3>3, <2>2, <4>1
    <3> QED BY <3>4, <3>5
  <2>4. ASSUME NEW k \in 0..n + 1 PROVE t[k + 1] = a[k]
    <3> HIDE DEF t, a
    <3>1. k + 1 \in 1..n + 2 /\ (k + 1) - 1 = k BY <1>1
    <3>2. t[k + 1] = IF k + 1 <= n + 1 THEN r[k + 1] ELSE FakeTail BY <3>1, <2>3
    <3>3. CASE k = 0 BY <3>2, <3>3, <1>1, <1>2, <2>2
    <3>4. CASE k = n + 1 BY <3>2, <3>4, <1>1, <1>2
    <3>5. CASE k \in 1..n
      <4>1. k + 1 \in 1..n + 1 /\ ~(k + 1 <= 1) /\ k # 0 /\ k # n + 1 /\ k + 1 <= n + 1
        BY <3>5, <1>1
      <4> QED BY <3>1, <3>2, <4>1, <1>2, <2>2
    <3> QED BY <3>3, <3>4, <3>5, <1>1
  <2> QED BY <2>3, <2>4
<1>4. \A i, j \in 0..n + 1 : a[i] = a[j] => i = j
  <2>1. \A i, j \in 1..n : q[i] = q[j] => i = j BY DEF IsInjective
  <2>2. \A i \in 1..n : q[i] # FakeHead /\ q[i] # FakeTail BY <1>1, NodeFacts
  <2>3. \A i \in 0..n + 1 : i = 0 \/ i = n + 1 \/ i \in 1..n BY <1>1
  <2>4. \A i \in 1..n : i # 0 /\ i # n + 1 /\ i \in 0..n + 1 BY <1>1
  <2>5. 0 # n + 1 /\ 0 \in 0..n + 1 /\ n + 1 \in 0..n + 1 BY <1>1
  <2> HIDE DEF a
  <2> QED BY <1>2, <2>1, <2>2, <2>3, <2>4, <2>5, NodeFacts
<1>5. a \in [0..n + 1 -> Nodes]
  <2>1. \A k \in 1..n : q[k] \in Nodes BY <1>1 DEF Nodes
  <2>2. \A k \in 0..n + 1 : k = 0 \/ k = n + 1 \/ k \in 1..n BY <1>1
  <2>3. \A k \in 0..n + 1 : a[k] \in Nodes BY <1>2, <2>1, <2>2, NodeFacts
  <2>4. a = [k \in 0..n + 1 |-> a[k]] BY DEF Along
  <2> HIDE DEF a
  <2> QED BY <2>3, <2>4
<1>6. ASSUME NEW k \in 1..n + 2, NEW j \in 1..n + 2, t[k] = t[j] PROVE k = j
  <2> HIDE DEF t, a
  <2>1. k - 1 \in 0..n + 1 /\ j - 1 \in 0..n + 1 /\ (k - 1) + 1 = k /\ (j - 1) + 1 = j BY <1>1
  <2>2. t[k] = a[k - 1] /\ t[j] = a[j - 1] BY <1>3, <2>1
  <2>3. k - 1 = j - 1 BY <2>1, <2>2, <1>4, <1>6
  <2> QED BY <2>3, <1>1
<1>7. /\ NextIn(q) \in [Nodes -> Links]
      /\ \A k \in 1..n + 1 : NextIn(q)[t[k]] = t[k + 1]
      /\ NextIn(q)[FakeTail] = None
  <2> DEFINE m == Len(t) - 1
             nx == [b \in Nodes |-> IF \E k \in 1..m : t[k] = b
                                      THEN t[(CHOOSE k \in 1..m : t[k] = b) + 1] ELSE None]
  <2>0. NextIn(q) = nx BY DEF NextIn
  <2>1. m = n + 1 /\ \A k \in 1..n + 2 : t[k] \in Nodes
    <3> HIDE DEF t
    <3> QED BY <1>1, <1>3
  <2> HIDE DEF t, m
  <2>2. ASSUME NEW k \in 1..n + 1 PROVE nx[t[k]] = t[k + 1]
    <3>1. k \in 1..m /\ k \in 1..n + 2 BY <2>1, <1>1
    <3>2. t[k] \in Nodes /\ \A j \in 1..m : j \in 1..n + 2 BY <2>1, <3>1, <1>1
    <3>3. (CHOOSE j \in 1..m : t[j] = t[k]) = k BY <3>1, <3>2, <1>6
    <3> QED BY <3>1, <3>2, <3>3
  <2>3. ASSUME NEW b \in Nodes PROVE nx[b] \in Links
    <3>1. CASE \E k \in 1..m : t[k] = b
      <4>1. PICK k \in 1..n + 1 : t[k] = b BY <3>1, <2>1
      <4>2. k + 1 \in 1..n + 2 BY <1>1
      <4> QED BY <4>1, <4>2, <2>1, <2>2 DEF Links
    <3>2. CASE ~ \E k \in 1..m : t[k] = b BY <3>2 DEF Links
    <3> QED BY <3>1, <3>2
  <2>4. nx[FakeTail] = None
    <3>1. FakeTail = t[n + 2] /\ n + 2 \in 1..n + 2
      <4>1. n + 1 \in 0..n + 1 /\ n + 1 # 0 /\ (n + 1) + 1 = n + 2 /\ n + 2 \in 1..n + 2 BY <1>1
      <4> HIDE DEF a
      <4>2. t[(n + 1) + 1] = a[n + 1] /\ a[n + 1] = FakeTail BY <4>1, <1>2, <1>3
      <4> QED BY <4>1, <4>2
    <3>2. \A k \in 1..m : k \in 1..n + 2 /\ k # n + 2 BY <2>1, <1>1
    <3>3. ~ \E k \in 1..m : t[k] = FakeTail BY <3>1, <3>2, <1>6
    <3> QED BY <3>3, NodeFacts
  <2>5. nx \in [Nodes -> Links] BY <2>3
  <2> HIDE DEF nx
  <2> QED BY <2>0, <2>2, <2>4, <2>5
<1>8. /\ PrevIn(q) \in [Nodes -> Links]
      /\ \A k \in 2..n + 2 : PrevIn(q)[t[k]] = t[k - 1]
      /\ PrevIn(q)[FakeHead] = None
  <2> DEFINE m == Len(t)
             pv == [b \in Nodes |-> IF \E k \in 2..m : t[k] = b
                                      THEN t[(CHOOSE k \in 2..m : t[k] = b) - 1] ELSE None]
  <2>0. PrevIn(q) = pv BY DEF PrevIn
  <2>1. m = n + 2 /\ \A k \in 1..n + 2 : t[k] \in Nodes
    <3> HIDE DEF t
    <3> QED BY <1>1, <1>3
  <2> HIDE DEF t, m
  <2>2. ASSUME NEW k \in 2..n + 2 PROVE pv[t[k]] = t[k - 1]
    <3>1. k \in 2..m /\ k \in 1..n + 2 BY <2>1, <1>1
    <3>2. t[k] \in Nodes /\ \A j \in 2..m : j \in 1..n + 2 BY <2>1, <3>1, <1>1
    <3>3. (CHOOSE j \in 2..m : t[j] = t[k]) = k BY <3>1, <3>2, <1>6
    <3> QED BY <3>1, <3>2, <3>3
  <2>3. ASSUME NEW b \in Nodes PROVE pv[b] \in Links
    <3>1. CASE \E k \in 2..m : t[k] = b
      <4>1. PICK k \in 2..n + 2 : t[k] = b BY <3>1, <2>1
      <4>2. k - 1 \in 1..n + 2 BY <1>1
      <4> QED BY <4>1, <4>2, <2>1, <2>2 DEF Links
    <3>2. CASE ~ \E k \in 2..m : t[k] = b BY <3>2 DEF Links
    <3> QED BY <3>1, <3>2
  <2>4. pv[FakeHead] = None
    <3>1. FakeHead = t[1] /\ 1 \in 1..n + 2
      <4>1. 0 \in 0..n + 1 /\ 0 + 1 = 1 /\ 1 \in 1..n + 2 BY <1>1
      <4> HIDE DEF a
      <4>2. t[0 + 1] = a[0] /\ a[0] = FakeHead BY <4>1, <1>2, <1>3
      <4> QED BY <4>1, <4>2
    <3>2. \A k \in 2..m : k \in 1..n + 2 /\ k # 1 BY <2>1, <1>1
    <3>3. ~ \E k \in 2..m : t[k] = FakeHead BY <3>1, <3>2, <1>6
    <3> QED BY <3>3, NodeFacts
  <2>5. pv \in [Nodes -> Links] BY <2>3
  <2> HIDE DEF pv
  <2> QED BY <2>0, <2>2, <2>4, <2>5
<1>9. \A k \in 0..n : NextIn(q)[a[k]] = a[k + 1] /\ PrevIn(q)[a[k + 1]] = a[k]
  <2> HIDE DEF t, a
  <2> TAKE k \in 0..n
  <2>1. k + 1 \in 1..n + 1 /\ (k + 1) + 1 \in 2..n + 2 /\ ((k + 1) + 1) - 1 = k + 1
        /\ k \in 0..n + 1 /\ k + 1 \in 0..n + 1
    BY <1>1
  <2>2. t[k + 1] = a[k] /\ t[(k + 1) + 1] = a[k + 1] BY <2>1, <1>3
  <2>3. NextIn(q)[t[k + 1]] = t[(k + 1) + 1] BY <2>1, <1>7
  <2>4. PrevIn(q)[t[(k + 1) + 1]] = t[((k + 1) + 1) - 1] BY <2>1, <1>8
  <2> QED BY <2>1, <2>2, <2>3, <2>4
<1>10. a[0] = FakeHead /\ a[n + 1] = FakeTail /\ \A k \in 1..n : a[k] = q[k]
  <2>1. 0 \in 0..n + 1 /\ n + 1 \in 0..n + 1 /\ n + 1 # 0 BY <1>1
  <2>2. \A k \in 1..n : k \in 0..n + 1 /\ k # 0 /\ k # n + 1 BY <1>1
  <2> HIDE DEF a
  <2> QED BY <1>2, <2>1, <2>2
<1>11. Inner(a, n) = ToSet(q)
  <2>1. DOMAIN q = 1..n OBVIOUS
  <2> HIDE DEF a
  <2> QED BY <1>10, <2>1 DEF Inner, ToSet
<1> QED BY <1>1, <1>4, <1>5, <1>7, <1>8, <1>9, <1>10, <1>11 DEF Chained

-----------------------------------------------------------------------------
(* Walk goes along the links, one node for each number.                    *)
LEMMA WalkSteps ==
  ASSUME NEW link \in [Nodes -> Links], NEW start \in Links
  PROVE  LET w == Walk(link, start)
         IN  /\ w \in [0..Cardinality(Nodes) -> Links] /\ w[0] = start
             /\ \A k \in 1..Cardinality(Nodes) :
                  w[k] = IF w[k - 1] = None THEN None ELSE link[w[k - 1]]
<1> DEFINE N == Cardinality(Nodes)
           step == [k \in 1..N |-> [x \in Links |-> IF x = None THEN None ELSE link[x]]]
           Def(f) == [k \in 0..N |-> IF k = 0 THEN start
                       ELSE IF f[k - 1] = None THEN None ELSE link[f[k - 1]]]
           F == CHOOSE f : f = Def(f)
<1>1. N \in Nat BY NodeFacts, FS_CardinalityType
<1>2. \A x \in Links : (IF x = None THEN None ELSE link[x]) \in Links BY DEF Links
<1>3. step \in [1..N -> [Links -> Links]] BY <1>2
<1>4. PICK g \in [0..N -> Links] : g[0] = start /\ \A k \in 1..N : g[k] = step[k][g[k - 1]]
  <2> HIDE DEF N, step
  <2>1. \E f : IsChain(f, Links, start, N, step) BY <1>1, <1>3, RecursiveChain, Zenon
  <2> QED BY <2>1 DEF IsChain
<1>5. \A k \in 1..N : g[k] = IF g[k - 1] = None THEN None ELSE link[g[k - 1]]
  <2> TAKE k \in 1..N
  <2>1. k - 1 \in 0..N BY <1>1
  <2>2. g[k - 1] \in Links BY <2>1, <1>4
  <2> QED BY <1>4, <2>2
<1>6. g = Def(g)
  <2>1. g = [k \in 0..N |-> g[k]] BY <1>4
  <2>2. ASSUME NEW k \in 0..N PROVE g[k] = Def(g)[k]
    <3> HIDE DEF N, step
    <3>1. Def(g)[k] = IF k = 0 THEN start ELSE IF g[k - 1] = None THEN None ELSE link[g[k - 1]]
      OBVIOUS
    <3>2. k = 0 \/ (k \in 1..N /\ k # 0) BY <1>1
    <3> HIDE DEF Def
    <3> QED BY <1>4, <1>5, <3>1, <3>2
  <2> QED BY <2>1, <2>2
<1>7. F = Def(F)
  <2> HIDE DEF Def
  <2> QED BY <1>6
<1>8. Walk(link, start) = F BY Zenon DEF Walk
<1>9. F[0] = start /\ \A k \in 1..N : F[k] = IF F[k - 1] = None THEN None ELSE link[F[k - 1]]
  <2> HIDE DEF F, N
  <2>1. 0 \in 0..N BY <1>1
  <2>2. Def(F)[0] = start BY <2>1
  <2>3. ASSUME NEW k \in 1..N
        PROVE Def(F)[k] = IF F[k - 1] = None THEN None ELSE link[F[k - 1]]
    <3>1. k \in 0..N /\ k # 0 BY <1>1
    <3> QED BY <3>1
  <2> HIDE DEF Def
  <2> QED BY <1>7, <2>2, <2>3
<1> DEFINE T == {k \in 0..N : F[k] = g[k]}
<1>10. T = 0..N
  <2> HIDE DEF F, N, step
  <2>1. T \subseteq 0..N OBVIOUS
  <2>2. 0 \in T BY <1>1, <1>4, <1>9
  <2>3. ASSUME NEW k \in 0..N - 1, k \in T PROVE k + 1 \in T
    <3>1. k + 1 \in 1..N /\ (k + 1) - 1 = k /\ k + 1 \in 0..N BY <1>1
    <3>2. F[k] = g[k] BY <2>3
    <3>3. F[k + 1] = g[k + 1] BY <3>1, <3>2, <1>5, <1>9
    <3> QED BY <3>1, <3>3
  <2> HIDE DEF T
  <2> QED BY <1>1, <2>1, <2>2, <2>3, UpToAll
<1>11. F \in [0..N -> Links]
  <2>1. F = [k \in 0..N |-> F[k]]
    <3>1. Def(F) = [k \in 0..N |-> Def(F)[k]] OBVIOUS
    <3> HIDE DEF Def, F
    <3> QED BY <1>7, <3>1
  <2>2. \A k \in 0..N : F[k] \in Links
    <3>1. \A k \in 0..N : F[k] = g[k] BY <1>10
    <3> HIDE DEF F, N, step
    <3> QED BY <3>1, <1>4
  <2> HIDE DEF F, N
  <2> QED BY <2>1, <2>2
<1> HIDE DEF F
<1> QED BY <1>8, <1>9, <1>11

(* Where the links lead along u, so does the walk, and no further.         *)
LEMMA WalkAlong ==
  ASSUME NEW link \in [Nodes -> Links], NEW m \in Nat, m <= Cardinality(Nodes),
         NEW u \in [0..m -> Nodes], \A k \in 0..m - 1 : link[u[k]] = u[k + 1]
  PROVE  /\ \A k \in 0..m : Walk(link, u[0])[k] = u[k]
         /\ link[u[m]] = None =>
              \A k \in m + 1..Cardinality(Nodes) : Walk(link, u[0])[k] = None
<1> DEFINE N == Cardinality(Nodes)
           w == Walk(link, u[0])
<1>1. N \in Nat BY NodeFacts, FS_CardinalityType
<1>2. u[0] \in Nodes /\ u[0] \in Links BY DEF Links
<1>3. /\ w[0] = u[0]
      /\ \A k \in 1..N : w[k] = IF w[k - 1] = None THEN None ELSE link[w[k - 1]]
  BY <1>2, WalkSteps
<1> HIDE DEF w, N
<1>4. m <= N BY DEF N
<1> DEFINE T == {k \in 0..m : w[k] = u[k]}
<1>5. T = 0..m
  <2>1. T \subseteq 0..m /\ 0 \in T BY <1>3
  <2>2. ASSUME NEW k \in 0..m - 1, k \in T PROVE k + 1 \in T
    <3>1. k + 1 \in 1..N /\ (k + 1) - 1 = k /\ k + 1 \in 0..m /\ k \in 0..m BY <1>1, <1>4
    <3>2. w[k] = u[k] /\ u[k] \in Nodes /\ u[k] # None BY <2>2, <3>1, NodeFacts
    <3>3. w[k + 1] = link[u[k]] BY <1>3, <3>1, <3>2
    <3> QED BY <3>1, <3>3
  <2> HIDE DEF T
  <2> QED BY <2>1, <2>2, UpToAll
<1>6. ASSUME link[u[m]] = None, NEW j \in m + 1..N PROVE w[j] = None
  <2> DEFINE D == {k \in 0..N : k <= m \/ w[k] = None}
  <2>1. D \subseteq 0..N /\ 0 \in D BY <1>1
  <2>2. ASSUME NEW k \in 0..N - 1, k \in D PROVE k + 1 \in D
    <3>1. k + 1 \in 1..N /\ (k + 1) - 1 = k /\ k + 1 \in 0..N BY <1>1
    <3>2. w[k + 1] = IF w[k] = None THEN None ELSE link[w[k]] BY <1>3, <3>1
    <3>3. k < m \/ k = m \/ k > m BY <1>1
    <3>4. CASE k < m BY <3>1, <3>4, <1>1
    <3>5. CASE k = m
      <4>1. w[k] = u[m]
        <5>1. \A i \in 0..m : w[i] = u[i] BY <1>5
        <5> QED BY <5>1, <3>5
      <4>2. w[k + 1] = None BY <3>2, <4>1, <1>6
      <4> QED BY <3>1, <4>2
    <3>6. CASE k > m
      <4>1. w[k] = None BY <2>2, <3>6, <1>1
      <4> QED BY <3>1, <3>2, <4>1
    <3> QED BY <3>3, <3>4, <3>5, <3>6
  <2>3. D = 0..N
    <3> HIDE DEF D
    <3> QED BY <1>1, <2>1, <2>2, UpToAll
  <2>4. j \in D /\ ~(j <= m)
    <3> HIDE DEF D
    <3> QED BY <1>1, <2>3
  <2> QED BY <2>4
<1>7. \A k \in 0..m : w[k] = u[k] BY <1>5
<1> QED BY <1>6, <1>7 DEF w, N

(* From the front and from the back.                                       *)
LEMMA WalkBothWays ==
  ASSUME NEW nx, NEW pv, NEW t, NEW n \in Nat, Chained(nx, pv, t, n)
  PROVE  /\ \A k \in 0..n + 1 : Walk(nx, FakeHead)[k] = t[k]
         /\ \A k \in 0..n + 1 : Walk(pv, FakeTail)[k] = t[n + 1 - k]
         /\ \A k \in 0..n : Walk(nx, nx[FakeHead])[k] = t[k + 1]
         /\ \A k \in n + 1..Cardinality(Nodes) : Walk(nx, nx[FakeHead])[k] = None
<1>1. /\ n \in Nat /\ t \in [0..n + 1 -> Nodes] /\ t[0] = FakeHead /\ t[n + 1] = FakeTail
      /\ nx \in [Nodes -> Links] /\ pv \in [Nodes -> Links]
      /\ \A k \in 0..n : nx[t[k]] = t[k + 1] /\ pv[t[k + 1]] = t[k]
      /\ nx[FakeTail] = None
  BY DEF Chained
<1> DEFINE N == Cardinality(Nodes)
<1>2. N \in Nat /\ n + 2 <= N BY InnerFacts, NodeFacts, FS_CardinalityType
<1> HIDE DEF N
<1>3. \A k \in 0..n + 1 : Walk(nx, t[0])[k] = t[k]
  <2> DEFINE m == n + 1
  <2>1. m \in Nat /\ m <= N /\ t \in [0..m -> Nodes] /\ \A k \in 0..m - 1 : nx[t[k]] = t[k + 1]
    BY <1>1, <1>2
  <2> HIDE DEF m
  <2>2. \A k \in 0..m : Walk(nx, t[0])[k] = t[k] BY <1>1, <2>1, WalkAlong DEF N
  <2> QED BY <2>2 DEF m
<1>4. \A k \in 0..n + 1 : Walk(pv, FakeTail)[k] = t[n + 1 - k]
  <2> DEFINE m == n + 1
             u == [k \in 0..m |-> t[m - k]]
  <2>1. m \in Nat /\ m <= N BY <1>1, <1>2
  <2>2. \A k \in 0..m : m - k \in 0..n + 1 BY <1>1
  <2>3. u \in [0..m -> Nodes] BY <1>1, <2>2
  <2>4. ASSUME NEW k \in 0..m - 1 PROVE pv[u[k]] = u[k + 1]
    <3>1. n - k \in 0..n /\ (n - k) + 1 = m - k /\ m - (k + 1) = n - k /\ k \in 0..m /\ k + 1 \in 0..m
      BY <1>1
    <3>2. pv[t[(n - k) + 1]] = t[n - k] BY <1>1, <3>1
    <3>3. u[k] = t[m - k] /\ u[k + 1] = t[m - (k + 1)]
      <4> HIDE DEF m
      <4> QED BY <3>1
    <3> HIDE DEF u, m
    <3> QED BY <3>1, <3>2, <3>3
  <2>5. u[0] = FakeTail
    <3>1. 0 \in 0..m /\ m - 0 = n + 1 BY <1>1
    <3> QED BY <3>1, <1>1
  <2> HIDE DEF u, m
  <2>6. \A k \in 0..m : Walk(pv, u[0])[k] = u[k] BY <1>1, <2>1, <2>3, <2>4, WalkAlong DEF N
  <2>7. \A k \in 0..m : u[k] = t[m - k] BY DEF u
  <2>8. m = n + 1 /\ \A k \in 0..n + 1 : n + 1 - k = m - k BY <1>1 DEF m
  <2> QED BY <2>5, <2>6, <2>7, <2>8
<1>5. /\ \A k \in 0..n : Walk(nx, nx[FakeHead])[k] = t[k + 1]
      /\ \A k \in n + 1..N : Walk(nx, nx[FakeHead])[k] = None
  <2> DEFINE u == [k \in 0..n |-> t[k + 1]]
  <2>1. n <= N /\ \A k \in 0..n : k + 1 \in 0..n + 1 BY <1>1, <1>2
  <2>2. u \in [0..n -> Nodes] BY <1>1, <2>1
  <2>3. ASSUME NEW k \in 0..n - 1 PROVE nx[u[k]] = u[k + 1]
    <3>1. k \in 0..n /\ k + 1 \in 0..n BY <1>1
    <3> QED BY <1>1, <3>1
  <2>4. u[0] = nx[FakeHead] /\ u[n] = FakeTail
    <3>1. 0 \in 0..n /\ n \in 0..n /\ 0 + 1 = 1 BY <1>1
    <3> QED BY <1>1, <3>1
  <2>5. \A k \in 0..n : u[k] = t[k + 1] OBVIOUS
  <2> HIDE DEF u
  <2>6. \A k \in 0..n : Walk(nx, u[0])[k] = u[k] BY <1>1, <2>1, <2>2, <2>3, WalkAlong DEF N
  <2>7. \A k \in n + 1..N : Walk(nx, u[0])[k] = None
    <3>1. nx[u[n]] = None BY <1>1, <2>4
    <3> QED BY <1>1, <2>1, <2>2, <2>3, <3>1, WalkAlong DEF N
  <2> QED BY <2>4, <2>5, <2>6, <2>7
<1> QED BY <1>1, <1>3, <1>4, <1>5 DEF N

-----------------------------------------------------------------------------
(* The scan of pop_scored_n reads the blocks of the list in their order.   *)
LEMMA ScanReads ==
  ASSUME NEW t, NEW n \in Nat, Chained(next, prev, t, n)
  PROVE  Scan = [k \in 1..n |-> t[k]]
<1> DEFINE N == Cardinality(Nodes)
           at == Walk(next, next[FakeHead])
           here(k) == at[k] # None /\ next[at[k]] # None
           H == {j \in DOMAIN at : here(j)}
           whole == [k \in 1..N |-> at[k - 1]]
<1>1. /\ n \in Nat /\ t \in [0..n + 1 -> Nodes] /\ t[0] = FakeHead /\ t[n + 1] = FakeTail
      /\ next \in [Nodes -> Links]
      /\ \A k \in 0..n : next[t[k]] = t[k + 1]
      /\ next[FakeTail] = None
  BY DEF Chained
<1>2. N \in Nat /\ n + 2 <= N BY InnerFacts, NodeFacts, FS_CardinalityType
<1>3. next[FakeHead] \in Links BY <1>1, NodeFacts
<1>4. DOMAIN at = 0..N BY <1>1, <1>3, WalkSteps
<1>5. (\A k \in 0..n : at[k] = t[k + 1]) /\ \A k \in n + 1..N : at[k] = None BY WalkBothWays
<1>6. Scan = SubSeq(whole, 1, Cardinality(H)) BY DEF Scan
<1> HIDE DEF at, N
<1>7. H = 0..n - 1
  <2>1. ASSUME NEW k \in 0..N PROVE here(k) <=> k \in 0..n - 1
    <3>1. CASE k \in 0..n - 1
      <4>1. k \in 0..n /\ k + 1 \in 0..n /\ k + 1 \in 0..n + 1 /\ (k + 1) + 1 \in 0..n + 1 BY <1>1, <3>1
      <4>2. at[k] = t[k + 1] /\ t[k + 1] \in Nodes BY <1>1, <1>5, <4>1
      <4>3. next[t[k + 1]] = t[(k + 1) + 1] /\ t[(k + 1) + 1] \in Nodes BY <1>1, <4>1
      <4> QED BY <3>1, <4>2, <4>3, NodeFacts
    <3>2. CASE k = n
      <4>1. n \in 0..n /\ ~(n \in 0..n - 1) BY <1>1
      <4>2. at[k] = FakeTail BY <1>1, <1>5, <3>2, <4>1
      <4> QED BY <3>2, <4>1, <4>2, <1>1
    <3>3. CASE k \in n + 1..N
      <4>1. ~(k \in 0..n - 1) BY <3>3, <1>1
      <4> QED BY <1>5, <3>3, <4>1
    <3> QED BY <3>1, <3>2, <3>3, <1>1, <1>2
  <2>2. 0..n - 1 \subseteq 0..N BY <1>1, <1>2
  <2> HIDE DEF here
  <2> QED BY <2>1, <2>2, <1>4
<1> HIDE DEF H
<1>8. Cardinality(H) = n
  <2>1. 0 \in Int /\ n - 1 \in Int BY <1>1
  <2>2. Cardinality(0..n - 1) = IF 0 > n - 1 THEN 0 ELSE (n - 1) - 0 + 1 BY <2>1, FS_Interval
  <2> DEFINE c == Cardinality(0..n - 1)
  <2>3. c = n
    <3>1. c = IF 0 > n - 1 THEN 0 ELSE (n - 1) - 0 + 1 BY <2>2
    <3> HIDE DEF c
    <3> QED BY <3>1, <1>1
  <2> HIDE DEF c
  <2> QED BY <2>3, <1>7 DEF c
<1>9. SubSeq(whole, 1, n) = [k \in 1..n |-> t[k]]
  <2>1. ASSUME NEW i \in 1..n PROVE whole[i] = t[i]
    <3>1. i \in 1..N /\ i - 1 \in 0..n /\ (i - 1) + 1 = i BY <1>1, <1>2
    <3> QED BY <3>1, <1>5
  <2>2. \A i \in 1..n : t[i] \in Nodes BY <1>1
  <2> HIDE DEF whole
  <2> DEFINE x == SubSeq(whole, 1, n)
  <2>3. /\ x \in Seq(Nodes) /\ Len(x) = IF 1 <= n THEN n - 1 + 1 ELSE 0
        /\ \A i \in 1..n - 1 + 1 : x[i] = whole[1 + i - 1]
    <3>1. 1 \in Int /\ n \in Int /\ \A i \in 1..n : whole[i] \in Nodes BY <1>1, <2>1, <2>2
    <3> QED BY <3>1, SubSeqProperties
  <2> HIDE DEF x
  <2>4. Len(x) = n /\ n - 1 + 1 = n BY <1>1, <2>3
  <2>5. \A i \in 1..n : 1 + i - 1 = i OBVIOUS
  <2>6. x = [k \in 1..n |-> x[k]]
    <3>1. DOMAIN x = 1..n BY <2>3, <2>4
    <3> QED BY <2>3, <3>1
  <2>7. \A i \in 1..n : x[i] = t[i] BY <2>1, <2>3, <2>4, <2>5
  <2>8. x = [k \in 1..n |-> t[k]] BY <2>6, <2>7
  <2> QED BY <2>8 DEF x
<1> HIDE DEF whole
<1> QED BY <1>6, <1>8, <1>9

-----------------------------------------------------------------------------
(* b comes before c.                                                       *)
Before(t, n, b, c) == \E i, j \in 1..n : i < j /\ t[i] = b /\ t[j] = c

(* The chain without its i-th block.                                       *)
Without(t, n, i) == [k \in 0..n |-> IF k < i THEN t[k] ELSE t[k + 1]]

(* The links l hold the chain t without the block e, in its order.         *)
Shortened(l, t, n, e) ==
  \E u : /\ Chained(l[1], l[2], u, n - 1)
        /\ Inner(u, n - 1) = Inner(t, n) \ {e}
        /\ \A b, c : Before(u, n - 1, b, c) => Before(t, n, b, c)

(* One block is unlinked: the others keep their order.                     *)
LEMMA UnlinkOne ==
  ASSUME NEW links, NEW t, NEW n \in Nat, Chained(links[1], links[2], t, n), NEW i \in 1..n
  PROVE  Shortened(Unlink(links, t[i]), t, n, t[i])
<1> DEFINE nx == links[1]
           pv == links[2]
           b == t[i]
           p == t[i - 1]
           q == t[i + 1]
           f == [nx EXCEPT ![p] = q, ![b] = None]
           g == [pv EXCEPT ![q] = p, ![b] = None]
           u == Without(t, n, i)
           m == n - 1
<1>1. /\ n \in Nat /\ t \in [0..n + 1 -> Nodes] /\ t[0] = FakeHead /\ t[n + 1] = FakeTail
      /\ \A k, j \in 0..n + 1 : t[k] = t[j] => k = j
      /\ nx \in [Nodes -> Links] /\ pv \in [Nodes -> Links]
      /\ \A k \in 0..n : nx[t[k]] = t[k + 1] /\ pv[t[k + 1]] = t[k]
      /\ nx[FakeTail] = None /\ pv[FakeHead] = None
  BY DEF Chained
<1> HIDE DEF nx, pv
<1>2. i - 1 \in 0..n /\ i \in 0..n /\ (i - 1) + 1 = i /\ i + 1 \in 0..n + 1 /\ i \in 0..n + 1
      /\ i - 1 \in 0..n + 1 /\ n \in Nat \ {0}
  BY <1>1
<1>3. nx[b] = q /\ pv[b] = p /\ p \in Nodes /\ q \in Nodes /\ b \in Nodes BY <1>1, <1>2
<1>4. p # b /\ q # b
  <2>1. i - 1 # i /\ i + 1 # i BY <1>2
  <2> QED BY <1>1, <1>2, <2>1
<1>5. Unlink(links, b) = <<f, g>> BY <1>3 DEF Unlink, nx, pv
<1>6. \A k \in 0..n : u[k] = IF k < i THEN t[k] ELSE t[k + 1] BY DEF Without
<1>7. DOMAIN u = 0..n BY DEF Without
<1> HIDE DEF u
<1>8. f \in [Nodes -> Links] /\ g \in [Nodes -> Links]
  <2>1. p \in Links /\ q \in Links /\ None \in Links BY <1>3 DEF Links
  <2> QED BY <1>1, <2>1
<1>9. \A x \in Nodes : /\ f[x] = IF x = b THEN None ELSE IF x = p THEN q ELSE nx[x]
                       /\ g[x] = IF x = b THEN None ELSE IF x = q THEN p ELSE pv[x]
  BY <1>1, <1>3, <1>4
<1> HIDE DEF f, g
<1>10. u \in [0..n -> Nodes]
  <2>1. \A k \in 0..n : k \in 0..n + 1 /\ k + 1 \in 0..n + 1 BY <1>1
  <2>2. \A k \in 0..n : u[k] \in Nodes BY <1>1, <1>6, <2>1
  <2>3. u = [k \in 0..n |-> u[k]]
    <3>1. u = [k \in 0..n |-> IF k < i THEN t[k] ELSE t[k + 1]] BY DEF u, Without
    <3> HIDE DEF u
    <3> QED BY <1>6, <3>1
  <2> QED BY <2>2, <2>3
<1>11. \A k \in 0..n : \E a \in 0..n + 1 : u[k] = t[a] /\ a # i /\ (k < i <=> a < i) /\ a = IF k < i THEN k ELSE k + 1
  <2> TAKE k \in 0..n
  <2> DEFINE a == IF k < i THEN k ELSE k + 1
  <2>1. a \in 0..n + 1 /\ a # i /\ (k < i <=> a < i) BY <1>1
  <2> QED BY <2>1, <1>6
<1>12. \A k, j \in 0..n : u[k] = u[j] => k = j
  <2> TAKE k, j \in 0..n
  <2>1. PICK a \in 0..n + 1 : u[k] = t[a] /\ a = IF k < i THEN k ELSE k + 1 BY <1>11
  <2>2. PICK c \in 0..n + 1 : u[j] = t[c] /\ c = IF j < i THEN j ELSE j + 1 BY <1>11
  <2>3. u[k] = u[j] => a = c BY <1>1, <2>1, <2>2
  <2>4. a = c => k = j BY <1>1, <2>1, <2>2
  <2> QED BY <2>3, <2>4
<1>13. u[0] = FakeHead /\ u[n] = FakeTail
  <2>1. 0 \in 0..n /\ n \in 0..n /\ 0 < i /\ ~(n < i) BY <1>1
  <2> QED BY <1>1, <1>6, <2>1
<1>14. ASSUME NEW k \in 0..n - 1 PROVE f[u[k]] = u[k + 1] /\ g[u[k + 1]] = u[k]
  <2>1. k \in 0..n /\ k + 1 \in 0..n /\ k + 1 \in 0..n + 1 /\ (k + 1) + 1 \in 0..n + 1 /\ k \in 0..n + 1 BY <1>1
  <2>2. CASE k + 1 < i
    <3>1. k < i /\ k # i - 1 /\ k # i /\ k + 1 # i /\ k + 1 # i + 1 BY <2>2, <1>1
    <3>2. u[k] = t[k] /\ u[k + 1] = t[k + 1] BY <1>6, <2>1, <2>2, <3>1
    <3>3. t[k] # b /\ t[k] # p /\ t[k + 1] # b /\ t[k + 1] # q BY <1>1, <1>2, <2>1, <3>1
    <3>4. t[k] \in Nodes /\ t[k + 1] \in Nodes BY <1>1, <2>1
    <3> QED BY <1>1, <1>9, <2>1, <3>2, <3>3, <3>4
  <2>3. CASE k + 1 = i
    <3>1. k < i /\ ~(k + 1 < i) /\ k = i - 1 BY <2>3, <1>1
    <3>2. u[k] = p /\ u[k + 1] = q BY <1>6, <2>1, <2>3, <3>1
    <3> QED BY <1>3, <1>4, <1>9, <3>2
  <2>4. CASE k + 1 > i
    <3>1. ~(k < i) /\ ~(k + 1 < i) /\ k + 1 # i - 1 /\ (k + 1) + 1 # i /\ (k + 1) + 1 # i + 1 /\ k + 1 # i
      BY <2>4, <1>1
    <3>2. u[k] = t[k + 1] /\ u[k + 1] = t[(k + 1) + 1] BY <1>6, <2>1, <3>1
    <3>3. t[k + 1] # b /\ t[k + 1] # p /\ t[(k + 1) + 1] # b /\ t[(k + 1) + 1] # q
      BY <1>1, <1>2, <2>1, <3>1
    <3>4. t[k + 1] \in Nodes /\ t[(k + 1) + 1] \in Nodes BY <1>1, <2>1
    <3> QED BY <1>1, <1>9, <2>1, <3>2, <3>3, <3>4
  <2> QED BY <2>2, <2>3, <2>4, <1>1
<1>15. f[FakeTail] = None /\ g[FakeHead] = None
  <2>1. n + 1 \in 0..n + 1 /\ 0 \in 0..n + 1 /\ n + 1 # i /\ n + 1 # i - 1 /\ 0 # i /\ 0 # i + 1 BY <1>1
  <2>2. FakeTail # b /\ FakeTail # p /\ FakeHead # b /\ FakeHead # q BY <1>1, <1>2, <2>1
  <2> QED BY <1>1, <1>9, <2>2, NodeFacts
<1>16. Chained(f, g, u, m)
  <2>1. m \in Nat /\ m + 1 = n /\ 0..m = 0..n - 1 BY <1>1, <1>2
  <2> HIDE DEF m
  <2> QED BY <2>1, <1>8, <1>10, <1>12, <1>13, <1>14, <1>15 DEF Chained
<1>17. Inner(u, m) = Inner(t, n) \ {b}
  <2>1. ASSUME NEW k \in 1..n - 1 PROVE u[k] \in Inner(t, n) \ {b}
    <3>1. k \in 0..n BY <1>1
    <3>2. PICK a \in 0..n + 1 : u[k] = t[a] /\ a # i /\ a = IF k < i THEN k ELSE k + 1 BY <1>11, <3>1
    <3>3. a \in 1..n BY <3>2, <1>1
    <3>4. t[a] # b BY <1>1, <1>2, <3>2
    <3> QED BY <3>2, <3>3, <3>4 DEF Inner
  <2>2. ASSUME NEW a \in 1..n, t[a] # b PROVE \E k \in 1..n - 1 : u[k] = t[a]
    <3>1. a < i \/ a > i BY <2>2, <1>1
    <3>2. CASE a < i
      <4>1. a \in 1..n - 1 /\ a \in 0..n BY <3>2, <1>1
      <4> QED BY <1>6, <3>2, <4>1
    <3>3. CASE a > i
      <4>1. a - 1 \in 1..n - 1 /\ a - 1 \in 0..n /\ ~(a - 1 < i) /\ (a - 1) + 1 = a BY <3>3, <1>1
      <4> QED BY <1>6, <4>1
    <3> QED BY <3>1, <3>2, <3>3
  <2> QED BY <2>1, <2>2 DEF Inner
<1>18. ASSUME NEW x, NEW y, Before(u, m, x, y) PROVE Before(t, n, x, y)
  <2>1. PICK k \in 1..n - 1, j \in 1..n - 1 : k < j /\ u[k] = x /\ u[j] = y BY <1>18 DEF Before
  <2>2. k \in 0..n /\ j \in 0..n BY <1>1
  <2>3. PICK a \in 0..n + 1 : u[k] = t[a] /\ a = IF k < i THEN k ELSE k + 1 BY <1>11, <2>2
  <2>4. PICK c \in 0..n + 1 : u[j] = t[c] /\ c = IF j < i THEN j ELSE j + 1 BY <1>11, <2>2
  <2>5. a \in 1..n /\ c \in 1..n /\ a < c BY <2>1, <2>3, <2>4, <1>1
  <2> QED BY <2>1, <2>3, <2>4, <2>5 DEF Before
<1> DEFINE l == Unlink(links, b)
<1>19. l[1] = f /\ l[2] = g BY <1>5
<1> HIDE DEF u, f, g, l
<1>20. Shortened(l, t, n, b) BY <1>16, <1>17, <1>18, <1>19 DEF Shortened
<1> QED BY <1>20 DEF l

-----------------------------------------------------------------------------
(* Unlinked unlinks one after the other.                                   *)
LEMMA UnlinkedSteps ==
  ASSUME NEW s \in Seq(Blocks), next \in [Nodes -> Links], prev \in [Nodes -> Links]
  PROVE  \E f : /\ f[0] = <<next, prev>>
                /\ \A k \in 1..Len(s) : f[k] = Unlink(f[k - 1], s[k])
                /\ Unlinked(s) = f[Len(s)]
<1> DEFINE n == Len(s)
           V == [Nodes -> Links] \X [Nodes -> Links]
           v == <<next, prev>>
           step == [k \in 1..n |-> [x \in V |-> Unlink(x, s[k])]]
           Def(f) == [k \in 0..n |-> IF k = 0 THEN v ELSE Unlink(f[k - 1], s[k])]
           F == CHOOSE f : f = Def(f)
<1>1. n \in Nat /\ v \in V /\ \A k \in 1..n : s[k] \in Blocks /\ s[k] \in Nodes BY DEF Nodes
<1>2. ASSUME NEW x \in V, NEW b \in Nodes PROVE Unlink(x, b) \in V
  <2>1. x[1] \in [Nodes -> Links] /\ x[2] \in [Nodes -> Links] OBVIOUS
  <2>2. x[2][b] \in Links /\ x[1][b] \in Links /\ None \in Links BY <2>1 DEF Links
  <2>3. [x[1] EXCEPT ![x[2][b]] = x[1][b], ![b] = None] \in [Nodes -> Links] BY <2>1, <2>2
  <2>4. [x[2] EXCEPT ![x[1][b]] = x[2][b], ![b] = None] \in [Nodes -> Links] BY <2>1, <2>2
  <2> QED BY <2>3, <2>4 DEF Unlink
<1>3. step \in [1..n -> [V -> V]]
  <2> HIDE DEF V, n
  <2> QED BY <1>1, <1>2
<1>4. PICK g \in [0..n -> V] : g[0] = v /\ \A k \in 1..n : g[k] = step[k][g[k - 1]]
  <2> HIDE DEF n, V, v, step
  <2>1. \E f : IsChain(f, V, v, n, step) BY <1>1, <1>3, RecursiveChain, Zenon
  <2> QED BY <2>1 DEF IsChain
<1>5. \A k \in 1..n : g[k] = Unlink(g[k - 1], s[k])
  <2> TAKE k \in 1..n
  <2> HIDE DEF V, n
  <2>1. k - 1 \in 0..n BY <1>1
  <2>2. g[k - 1] \in V BY <2>1, <1>4
  <2> QED BY <1>4, <2>2
<1>6. g = Def(g)
  <2> HIDE DEF V, n, step, v
  <2>1. g = [k \in 0..n |-> g[k]] BY <1>4
  <2>2. ASSUME NEW k \in 0..n PROVE g[k] = Def(g)[k]
    <3>1. Def(g)[k] = IF k = 0 THEN v ELSE Unlink(g[k - 1], s[k]) OBVIOUS
    <3>2. k = 0 \/ (k \in 1..n /\ k # 0) BY <1>1
    <3> HIDE DEF Def
    <3> QED BY <1>4, <1>5, <3>1, <3>2
  <2> QED BY <2>1, <2>2
<1>7. F = Def(F)
  <2> HIDE DEF Def
  <2> QED BY <1>6
<1>8. Unlinked(s) = F[n] BY Zenon DEF Unlinked
<1>9. F[0] = v /\ \A k \in 1..n : F[k] = Unlink(F[k - 1], s[k])
  <2> HIDE DEF F, n, v
  <2>1. 0 \in 0..n BY <1>1
  <2>2. Def(F)[0] = v BY <2>1
  <2>3. ASSUME NEW k \in 1..n PROVE Def(F)[k] = Unlink(F[k - 1], s[k])
    <3>1. k \in 0..n /\ k # 0 BY <1>1
    <3> QED BY <3>1
  <2> HIDE DEF Def
  <2> QED BY <1>7, <2>2, <2>3
<1> HIDE DEF F
<1> QED BY <1>8, <1>9

(* Blocks of the list, each once, can be taken out in any order: the rest  *)
(* stays linked, in its order.                                             *)
LEMMA UnlinkedKeepsRest ==
  ASSUME NEW t, NEW n \in Nat, Chained(next, prev, t, n),
         NEW s \in Seq(Blocks), IsInjective(s), ToSet(s) \subseteq Inner(t, n)
  PROVE  /\ Len(s) <= n
         /\ \E u : /\ Chained(Unlinked(s)[1], Unlinked(s)[2], u, n - Len(s))
                   /\ Inner(u, n - Len(s)) = Inner(t, n) \ ToSet(s)
                   /\ \A b, c : Before(u, n - Len(s), b, c) => Before(t, n, b, c)
<1> DEFINE m == Len(s)
           Taken(k) == {s[j] : j \in 1..k}
           Rest(x, k, u) == /\ Chained(x[1], x[2], u, n - k)
                            /\ Inner(u, n - k) = Inner(t, n) \ Taken(k)
                            /\ \A b, c : Before(u, n - k, b, c) => Before(t, n, b, c)
<1>1. n \in Nat /\ next \in [Nodes -> Links] /\ prev \in [Nodes -> Links] BY DEF Chained
<1>2. m \in Nat /\ DOMAIN s = 1..m OBVIOUS
<1>3. PICK f : /\ f[0] = <<next, prev>>
               /\ \A k \in 1..m : f[k] = Unlink(f[k - 1], s[k])
               /\ Unlinked(s) = f[m]
  BY <1>1, UnlinkedSteps
<1>4. Taken(m) = ToSet(s) BY <1>2 DEF ToSet
<1>5. m <= n
  <2>1. IsFiniteSet(ToSet(s)) /\ Cardinality(ToSet(s)) = m BY DistinctLength
  <2>2. IsFiniteSet(Inner(t, n)) /\ Cardinality(Inner(t, n)) = n
    <3> HIDE DEF Rest, Taken, m
    <3> QED BY InnerFacts
  <2> QED BY <2>1, <2>2, FS_Subset
<1> DEFINE T == {k \in 0..m : \E u : Rest(f[k], k, u)}
<1>6. 0 \in T
  <2>1. Taken(0) = {} OBVIOUS
  <2>2. n - 0 = n /\ 0 \in 0..m BY <1>1, <1>2
  <2>3. f[0][1] = next /\ f[0][2] = prev BY <1>3
  <2>4. Rest(f[0], 0, t)
    <3> HIDE DEF Taken
    <3> QED BY <2>1, <2>2, <2>3
  <2> HIDE DEF Rest
  <2> QED BY <2>2, <2>4
<1>7. ASSUME NEW k \in 0..m - 1, k \in T PROVE k + 1 \in T
  <2>1. PICK u : Rest(f[k], k, u) BY <1>7
  <2>2. k + 1 \in 1..m /\ (k + 1) - 1 = k /\ k + 1 \in 0..m /\ n - k \in Nat /\ (n - k) - 1 = n - (k + 1)
    BY <1>1, <1>2, <1>5
  <2>3. s[k + 1] \in Inner(t, n) \ Taken(k)
    <3>1. s[k + 1] \in Inner(t, n) BY <1>2, <2>2 DEF ToSet
    <3>2. \A j \in 1..k : j \in 1..m /\ j # k + 1 BY <1>2
    <3>3. \A j \in 1..k : s[j] # s[k + 1] BY <1>2, <2>2, <3>2 DEF IsInjective
    <3> QED BY <3>1, <3>3
  <2> HIDE DEF m
  <2>4. PICK i \in 1..n - k : s[k + 1] = u[i]
    <3>1. s[k + 1] \in Inner(u, n - k) BY <2>1, <2>3
    <3> QED BY <3>1 DEF Inner
  <2> DEFINE x == f[k]
             l == Unlink(x, u[i])
             h == n - k
  <2>5. Chained(x[1], x[2], u, h) BY <2>1
  <2> HIDE DEF x
  <2>6. PICK w : /\ Chained(l[1], l[2], w, h - 1)
                 /\ Inner(w, h - 1) = Inner(u, h) \ {u[i]}
                 /\ \A b, c : Before(w, h - 1, b, c) => Before(u, h, b, c)
    <3>1. i \in 1..h /\ h \in Nat BY <2>2, <2>4
    <3> HIDE DEF h, Rest, Taken
    <3>2. Shortened(l, u, h, u[i]) BY <2>5, <3>1, UnlinkOne
    <3> HIDE DEF l
    <3> QED BY <3>2 DEF Shortened
  <2>7. f[k + 1] = l BY <1>3, <2>2, <2>4 DEF x
  <2> HIDE DEF l
  <2>8. Taken(k + 1) = Taken(k) \cup {s[k + 1]}
    <3>1. \A j \in 1..k + 1 : j \in 1..k \/ j = k + 1 OBVIOUS
    <3>2. \A j \in 1..k : j \in 1..k + 1 OBVIOUS
    <3>3. k + 1 \in 1..k + 1 OBVIOUS
    <3> QED BY <3>1, <3>2, <3>3
  <2>9. Rest(f[k + 1], k + 1, w)
    <3>1. h - 1 = n - (k + 1) /\ h = n - k BY <2>2
    <3>2. Inner(w, n - (k + 1)) = Inner(t, n) \ Taken(k + 1)
      <4> HIDE DEF Taken, h
      <4> QED BY <2>1, <2>4, <2>6, <2>8, <3>1
    <3> HIDE DEF Taken, h
    <3> QED BY <2>1, <2>6, <2>7, <3>1, <3>2
  <2> HIDE DEF Rest
  <2> QED BY <2>2, <2>9
<1>8. T = 0..m
  <2>1. T \subseteq 0..m OBVIOUS
  <2> HIDE DEF T, m
  <2> QED BY <1>2, <1>6, <1>7, <2>1, UpToAll
<1>9. \E u : Rest(f[m], m, u)
  <2>1. m \in T
    <3> HIDE DEF T
    <3> QED BY <1>2, <1>8
  <2> HIDE DEF Rest
  <2> QED BY <2>1
<1> QED BY <1>3, <1>4, <1>5, <1>9

-----------------------------------------------------------------------------
(* A ratio of natural numbers compared by multiplying out.                 *)
LEMMA RatiosCompare ==
  ASSUME NEW a \in Nat, NEW b \in Nat, NEW c \in Nat,
         NEW x \in Nat \ {0}, NEW y \in Nat \ {0}, NEW z \in Nat \ {0}
  PROVE  /\ a * y < b * x /\ b * z < c * y => a * z < c * x
         /\ ~(a * y < b * x) /\ ~(b * z < c * y) => ~(a * z < c * x)
<1>1. \A i, j \in Nat : i * j \in Nat OBVIOUS
<1>2. ASSUME NEW i \in Nat, NEW j \in Nat, NEW k \in Nat \ {0} PROVE i < j <=> i * k < j * k
  BY <1>2
<1> DEFINE p == a * y
           q == b * x
           r == b * z
           s == c * y
           u == a * z
           v == c * x
<1>3. p * z = u * y /\ q * z = r * x /\ s * x = v * y BY <1>1
<1>4. p \in Nat /\ q \in Nat /\ r \in Nat /\ s \in Nat /\ u \in Nat /\ v \in Nat BY <1>1
<1> HIDE DEF p, q, r, s, u, v
<1>5. (p < q <=> p * z < q * z) /\ (r < s <=> r * x < s * x) /\ (u < v <=> u * y < v * y)
  BY <1>2, <1>4
<1> DEFINE P == p * z
           Q == q * z
           S == s * x
           U == u * y
<1>6. P \in Nat /\ Q \in Nat /\ S \in Nat BY <1>1, <1>4
<1>7. (p < q <=> P < Q) /\ (r < s <=> Q < S) /\ (u < v <=> P < S) BY <1>3, <1>5
<1> HIDE DEF P, Q, S
<1>8. p < q /\ r < s => u < v BY <1>6, <1>7
<1>9. ~(p < q) /\ ~(r < s) => ~(u < v) BY <1>6, <1>7
<1> QED BY <1>8, <1>9 DEF p, q, r, s, u, v

Scored ==
  /\ hits \in [Blocks -> Nat] /\ stamp \in [Blocks -> Nat] /\ depth \in [Blocks -> Nat]

(* The scores are ordered.                                                 *)
LEMMA ScoresOrdered ==
  ASSUME Scored, NEW a \in Blocks, NEW b \in Blocks, NEW c \in Blocks
  PROVE  /\ ~Below(a, a)
         /\ Below(a, b) /\ Below(b, c) => Below(a, c)
         /\ ~Below(a, b) /\ ~Below(b, c) => ~Below(a, c)
<1>1. CASE policy = "cf"
  <2> DEFINE num(i) == hits[i] + 1
             den(i) == depth[i] + 1
  <2>1. \A i, j : Below(i, j) <=> num(i) * den(j) < num(j) * den(i) BY <1>1 DEF Below
  <2>2. \A i \in Blocks : num(i) \in Nat /\ den(i) \in Nat \ {0} BY DEF Scored
  <2> HIDE DEF num, den
  <2>3. num(a) * den(a) \in Nat BY <2>2
  <2>4. ~(num(a) * den(a) < num(a) * den(a)) BY <2>3
  <2>5. /\ num(a) * den(b) < num(b) * den(a) /\ num(b) * den(c) < num(c) * den(b)
             => num(a) * den(c) < num(c) * den(a)
        /\ ~(num(a) * den(b) < num(b) * den(a)) /\ ~(num(b) * den(c) < num(c) * den(b))
             => ~(num(a) * den(c) < num(c) * den(a))
    BY <2>2, RatiosCompare
  <2> QED BY <2>1, <2>4, <2>5
<1>2. CASE policy # "cf"
  <2> DEFINE val(i) == (hits[i] + 1) * 2 ^ stamp[i]
  <2>1. \A i, j : Below(i, j) <=> val(i) < val(j) BY <1>2 DEF Below
  <2>2. \A i \in Blocks : val(i) \in Int
    <3> TAKE i \in Blocks
    <3>1. hits[i] + 1 \in Int /\ stamp[i] \in Nat BY DEF Scored
    <3>2. \A n \in Nat : 2 ^ n \in Int OBVIOUS
    <3>3. 2 ^ stamp[i] \in Int BY <3>1, <3>2
    <3> QED BY <3>1, <3>3
  <2> HIDE DEF val
  <2> QED BY <2>1, <2>2
<1> QED BY <1>1, <1>2

(* What pop_scored_n takes: blocks of the list, each once; under lru the   *)
(* first ones, under the other policies those that come before the others  *)
(* by their scores and places.                                             *)
LEMMA SelectedBlocks ==
  ASSUME Scored, NEW t, NEW n \in Nat, Chained(next, prev, t, n), NEW m \in 0..n
  PROVE  LET s == Selected(m)
         IN  /\ s \in Seq(Blocks) /\ Len(s) = m /\ IsInjective(s)
             /\ ToSet(s) \subseteq Inner(t, n)
             /\ \A i, j \in 1..n :
                  /\ t[i] \notin ToSet(s) /\ t[j] \in ToSet(s)
                  /\ policy # "lru" => ~Below(t[j], t[i])
                  => j < i /\ (policy # "lru" => ~Below(t[i], t[j]))
<1> DEFINE q == [k \in 1..n |-> t[k]]
           earlier(i, j) == \/ Below(q[i], q[j])
                            \/ ~Below(q[j], q[i]) /\ i < j
           before == [j \in 1..n |-> {i \in 1..n : earlier(i, j)}]
           r == Ranked(before)
           s == Selected(m)
<1>1. q \in Seq(Blocks) /\ IsInjective(q) /\ Len(q) = n /\ ToSet(q) = Inner(t, n) /\ DOMAIN q = 1..n
  BY InnerFacts
<1>2. Scan = q BY ScanReads
<1> HIDE DEF q
<1>3. s = [k \in 1..m |-> IF policy = "lru" THEN q[k] ELSE q[r[k]]]
  BY <1>1, <1>2 DEF Selected
<1>4. \A i \in 1..n : q[i] \in Blocks BY <1>1
<1>5. \A i, j, k \in 1..n : /\ ~Below(q[i], q[i])
                            /\ Below(q[i], q[j]) /\ Below(q[j], q[k]) => Below(q[i], q[k])
                            /\ ~Below(q[i], q[j]) /\ ~Below(q[j], q[k]) => ~Below(q[i], q[k])
  BY <1>4, ScoresOrdered
<1>6. /\ DOMAIN before = 1..n
      /\ \A j \in 1..n : before[j] \subseteq 1..n /\ j \notin before[j]
      /\ \A i, j, k \in 1..n : i \in before[j] /\ j \in before[k] => i \in before[k]
      /\ \A i, j \in 1..n : i = j \/ i \in before[j] \/ j \in before[i]
  <2>1. \A i, j \in 1..n : i \in before[j] <=> earlier(i, j) OBVIOUS
  <2>2. \A j \in 1..n : ~earlier(j, j) BY <1>5
  <2>3. \A i, j, k \in 1..n : earlier(i, j) /\ earlier(j, k) => earlier(i, k)
    <3> TAKE i, j, k \in 1..n
    <3>1. i < j /\ j < k => i < k OBVIOUS
    <3> QED BY <1>5, <3>1
  <2>4. \A i, j \in 1..n : i = j \/ earlier(i, j) \/ earlier(j, i)
    <3> TAKE i, j \in 1..n
    <3>1. i = j \/ i < j \/ j < i OBVIOUS
    <3> QED BY <3>1
  <2>5. DOMAIN before = 1..n /\ \A j \in 1..n : before[j] \subseteq 1..n OBVIOUS
  <2> HIDE DEF before, earlier
  <2> QED BY <2>1, <2>2, <2>3, <2>4, <2>5
<1>7. /\ \A k \in 1..n : r[k] \in 1..n
      /\ \A k, l \in 1..n : r[k] = r[l] => k = l
      /\ \A k, l \in 1..n : r[k] \in before[r[l]] <=> k < l
      /\ \A j \in 1..n : \E k \in 1..n : r[k] = j
  <2> HIDE DEF before
  <2> QED BY <1>6, RankedPlaces
<1>8. \A i, j \in 1..n : i \in before[j] <=> earlier(i, j) OBVIOUS
<1> HIDE DEF r, before
<1> DEFINE pl(k) == IF policy = "lru" THEN k ELSE r[k]
<1>9. \A k \in 1..m : k \in 1..n /\ pl(k) \in 1..n /\ s[k] = q[pl(k)]
  <2> TAKE k \in 1..m
  <2>1. k \in 1..n OBVIOUS
  <2> HIDE DEF s
  <2> QED BY <2>1, <1>3, <1>7
<1>10. s \in Seq(Blocks) /\ Len(s) = m /\ DOMAIN s = 1..m
  <2>1. m \in Nat OBVIOUS
  <2>2. DOMAIN s = 1..m /\ s = [k \in 1..m |-> s[k]] BY <1>3
  <2> HIDE DEF s
  <2>3. \A k \in 1..m : s[k] \in Blocks BY <1>4, <1>9
  <2>4. s \in [1..m -> Blocks] BY <2>2, <2>3
  <2> QED BY <2>1, <2>2, <2>4, IsASeq, LenProperties
<1> HIDE DEF s
<1>11. \A i, j \in 1..n : q[i] = q[j] => i = j BY <1>1 DEF IsInjective
<1>12. IsInjective(s)
  <2>1. ASSUME NEW k \in 1..m, NEW l \in 1..m, s[k] = s[l] PROVE k = l
    <3>1. pl(k) = pl(l) BY <1>9, <1>11, <2>1
    <3>2. k \in 1..n /\ l \in 1..n BY <1>9
    <3> QED BY <3>1, <3>2, <1>7
  <2> QED BY <2>1, <1>10 DEF IsInjective
<1>13. ToSet(s) \subseteq Inner(t, n)
  <2>1. \A k \in 1..m : q[pl(k)] \in ToSet(q)
    <3> HIDE DEF pl
    <3> QED BY <1>1, <1>9 DEF ToSet
  <2> HIDE DEF pl
  <2> QED BY <1>1, <1>9, <1>10, <2>1 DEF ToSet
<1>14. \A i \in 1..n : t[i] = q[i] BY DEF q
<1>15. ASSUME NEW i \in 1..n, NEW j \in 1..n, t[i] \notin ToSet(s), t[j] \in ToSet(s),
              policy # "lru" => ~Below(t[j], t[i])
       PROVE  j < i /\ (policy # "lru" => ~Below(t[i], t[j]))
  <2>1. PICK k \in 1..m : s[k] = t[j] BY <1>10, <1>15 DEF ToSet
  <2>2. pl(k) = j /\ k \in 1..n
    <3> HIDE DEF pl
    <3> QED BY <1>9, <1>11, <1>14, <2>1
  <2>3. CASE policy = "lru"
    <3>1. j = k BY <2>2, <2>3
    <3>2. ~(i \in 1..m)
      <4>1. SUFFICES ASSUME i \in 1..m PROVE FALSE OBVIOUS
      <4>2. s[i] = t[i] BY <1>9, <1>14, <2>3, <4>1
      <4> QED BY <1>10, <1>15, <4>1, <4>2 DEF ToSet
    <3> QED BY <2>3, <3>1, <3>2
  <2>4. CASE policy # "lru"
    <3>1. r[k] = j BY <2>2, <2>4
    <3>2. PICK l \in 1..n : r[l] = i BY <1>7
    <3>3. ~(l \in 1..m)
      <4>1. SUFFICES ASSUME l \in 1..m PROVE FALSE OBVIOUS
      <4>2. s[l] = t[i] BY <1>9, <1>14, <2>4, <3>2, <4>1
      <4> QED BY <1>10, <1>15, <4>1, <4>2 DEF ToSet
    <3>4. k < l BY <3>3
    <3>5. earlier(j, i) BY <1>7, <1>8, <2>2, <3>1, <3>2, <3>4
    <3>6. ~Below(q[j], q[i]) BY <1>14, <1>15, <2>4
    <3>7. ~Below(q[i], q[j]) /\ j < i BY <3>5, <3>6
    <3> QED BY <1>14, <3>7
  <2> QED BY <2>3, <2>4
<1> HIDE DEF q
<1> QED BY <1>10, <1>12, <1>13, <1>15 DEF s

-----------------------------------------------------------------------------
(* The invariant.                                                          *)

Types ==
  /\ policy \in Policies /\ Scored
  /\ numFree \in Nat /\ ref \in [Blocks -> Nat]
  /\ hash \in [Blocks -> Hashes \cup {<<>>}]
  /\ cached \in [Hashes -> Seq(Blocks)]
  /\ table \in [Requests -> Seq(Blocks)]
  /\ now \in Nat

(* The list from the front, with the fake nodes, and its order.            *)
Row == [k \in 0..numFree + 1 |-> Walk(next, FakeHead)[k]]
Ahead(b, c) == Before(Row, numFree, b, c)

(* The links hold what nobody uses.                                        *)
Linked == Chained(next, prev, Row, numFree) /\ Inner(Row, numFree) = Free

(* A block is used by as many requests as its count says.                  *)
Users(b) == {r \in Requests : b \in ToSet(table[r])}
Counted ==
  /\ \A r \in Requests : IsInjective(table[r])
  /\ \A b \in Blocks : ref[b] = Cardinality(Users(b))

(* A cached block carries the hash it is cached under.                     *)
Hashed == \A k \in Hashes : \A b \in ToSet(cached[k]) : hash[b] = k

(* What is left to do for a request can be done.                           *)
Working ==
  task # NoTask =>
    /\ task \in [prompt : Prompts, request : Requests, new : 0..numFree, hit : Nat]
    /\ task.hit < Len(task.prompt)
    /\ task.new > 0 => /\ Len(table[task.request]) = task.hit
                       /\ task.hit + task.new >= Len(task.prompt)
    /\ task.new = 0 => /\ Len(table[task.request]) >= Len(task.prompt)
                       /\ \A k \in task.hit + 1..Len(task.prompt) :
                            hash[table[task.request][k]] = <<>>

IInv == Types /\ Linked /\ Counted /\ Hashed /\ Working

-----------------------------------------------------------------------------
(* The list.                                                               *)

(* The row that a walk reads is the one that the links hold.               *)
LEMMA RowIs ==
  ASSUME NEW nx, NEW pv, NEW t, NEW n \in Nat, Chained(nx, pv, t, n)
  PROVE  [k \in 0..n + 1 |-> Walk(nx, FakeHead)[k]] = t
<1>1. \A k \in 0..n + 1 : Walk(nx, FakeHead)[k] = t[k] BY WalkBothWays
<1>2. t = [k \in 0..n + 1 |-> t[k]] BY DEF Chained
<1> QED BY <1>1, <1>2

(* Blocks taken out leave the rest linked in its order.                    *)
LEMMA TakeOutStep ==
  ASSUME Types, Linked, NEW s \in Seq(Blocks), IsInjective(s), ToSet(s) \subseteq Free,
         TakeOut(s), Free' = Free \ ToSet(s)
  PROVE  /\ Linked' /\ numFree' \in Nat /\ numFree' = numFree - Len(s)
         /\ \A b, c : Ahead(b, c)' => Ahead(b, c)
<1>1. numFree \in Nat /\ Chained(next, prev, Row, numFree) /\ Inner(Row, numFree) = Free
  BY DEF Types, Linked
<1> DEFINE m == numFree - Len(s)
           f == Unlinked(s)[1]
           g == Unlinked(s)[2]
<1>2. next' = f /\ prev' = g /\ numFree' = m BY DEF TakeOut
<1> HIDE DEF f, g
<1>3. Len(s) <= numFree
      /\ \E u : /\ Chained(f, g, u, m)
                /\ Inner(u, m) = Inner(Row, numFree) \ ToSet(s)
                /\ \A b, c : Before(u, m, b, c) => Before(Row, numFree, b, c)
  <2> DEFINE t == Row
             n == numFree
  <2>1. n \in Nat /\ Chained(next, prev, t, n) /\ ToSet(s) \subseteq Inner(t, n) BY <1>1
  <2> HIDE DEF t, n
  <2>2. Len(s) <= n
        /\ \E u : /\ Chained(Unlinked(s)[1], Unlinked(s)[2], u, n - Len(s))
                  /\ Inner(u, n - Len(s)) = Inner(t, n) \ ToSet(s)
                  /\ \A b, c : Before(u, n - Len(s), b, c) => Before(t, n, b, c)
    BY <2>1, UnlinkedKeepsRest
  <2> QED BY <2>2 DEF t, n, f, g
<1>4. PICK u : /\ Chained(f, g, u, m)
               /\ Inner(u, m) = Inner(Row, numFree) \ ToSet(s)
               /\ \A b, c : Before(u, m, b, c) => Before(Row, numFree, b, c)
  BY <1>3
<1>5. m \in Nat BY <1>1, <1>3
<1>6. Row' = u
  <2>1. Row' = [k \in 0..m + 1 |-> Walk(f, FakeHead)[k]] BY <1>2 DEF Row
  <2> HIDE DEF m
  <2>2. [k \in 0..m + 1 |-> Walk(f, FakeHead)[k]] = u BY <1>4, <1>5, RowIs
  <2> QED BY <2>1, <2>2
<1> HIDE DEF m
<1>7. Linked' BY <1>1, <1>2, <1>4, <1>6 DEF Linked
<1>8. \A b, c : Ahead(b, c)' => Ahead(b, c) BY <1>2, <1>4, <1>6 DEF Ahead
<1> QED BY <1>2, <1>5, <1>7, <1>8 DEF m

(* Blocks put back follow the rest, in the order they are given in.        *)
LEMMA PutBackStep ==
  ASSUME Types, Linked, NEW s \in Seq(Blocks), IsInjective(s), ToSet(s) \cap Free = {},
         PutBack(s), Free' = Free \cup ToSet(s)
  PROVE  /\ Linked' /\ numFree' \in Nat
         /\ \A b, c : Ahead(b, c)' =>
              \/ Ahead(b, c)
              \/ b \in Free /\ c \in ToSet(s)
              \/ \E i, j \in 1..Len(s) : i < j /\ s[i] = b /\ s[j] = c
<1>1. numFree \in Nat /\ Chained(next, prev, Row, numFree) /\ Inner(Row, numFree) = Free
  BY DEF Types, Linked
<1> DEFINE n == numFree
           q == [k \in 1..n |-> Row[k]]
           t == q \o s
           m == n + Len(s)
<1>2. q \in Seq(Blocks) /\ IsInjective(q) /\ Len(q) = n /\ ToSet(q) = Free /\ Scan = q
  BY <1>1, InnerFacts, ScanReads
<1>3. \A k \in 1..n : Row[k] = q[k] OBVIOUS
<1> HIDE DEF q
<1>4. /\ t \in Seq(Blocks) /\ Len(t) = m /\ IsInjective(t) /\ ToSet(t) = Free \cup ToSet(s)
      /\ \A i \in 1..m : t[i] = IF i <= n THEN q[i] ELSE s[i - n]
  <2>1. ToSet(q) \cap ToSet(s) = {} BY <1>2
  <2> HIDE DEF n, m
  <2>2. /\ t \in Seq(Blocks) /\ Len(t) = Len(q) + Len(s)
        /\ \A i \in 1..Len(q) + Len(s) : t[i] = IF i <= Len(q) THEN q[i] ELSE s[i - Len(q)]
        /\ ToSet(t) = ToSet(q) \cup ToSet(s)
        /\ IsInjective(t)
    BY <1>2, <2>1, ConcatSet
  <2> HIDE DEF t
  <2> QED BY <1>2, <2>2 DEF m
<1>5. next' = NextIn(t) /\ prev' = PrevIn(t) /\ numFree' = m BY <1>2 DEF PutBack
<1>6. m \in Nat BY <1>1
<1> HIDE DEF t
<1>7. /\ Chained(NextIn(t), PrevIn(t), Along(t), m)
      /\ Inner(Along(t), m) = Free \cup ToSet(s)
      /\ \A k \in 1..m : Along(t)[k] = t[k]
  BY <1>4, InARow
<1>8. Row' = Along(t)
  <2>1. Row' = [k \in 0..m + 1 |-> Walk(NextIn(t), FakeHead)[k]] BY <1>5 DEF Row
  <2> HIDE DEF m
  <2>2. [k \in 0..m + 1 |-> Walk(NextIn(t), FakeHead)[k]] = Along(t) BY <1>6, <1>7, RowIs
  <2> QED BY <2>1, <2>2
<1>9. Linked'
  <2> HIDE DEF m
  <2> QED BY <1>5, <1>7, <1>8 DEF Linked
<1>10. ASSUME NEW b, NEW c, Ahead(b, c)'
       PROVE \/ Ahead(b, c)
             \/ b \in Free /\ c \in ToSet(s)
             \/ \E i, j \in 1..Len(s) : i < j /\ s[i] = b /\ s[j] = c
  <2>1. Before(Along(t), m, b, c)
    <3> HIDE DEF m
    <3> QED BY <1>5, <1>8, <1>10 DEF Ahead
  <2>2. PICK i \in 1..m, j \in 1..m : i < j /\ t[i] = b /\ t[j] = c BY <1>7, <2>1 DEF Before
  <2>3. Len(s) \in Nat /\ DOMAIN s = 1..Len(s) OBVIOUS
  <2>4. CASE j <= n
    <3>1. i \in 1..n /\ j \in 1..n /\ i <= n BY <2>2, <2>4, <1>1, <2>3
    <3>2. Row[i] = b /\ Row[j] = c BY <1>3, <1>4, <2>2, <2>4, <3>1
    <3>3. Ahead(b, c) BY <2>2, <3>1, <3>2 DEF Ahead, Before
    <3> QED BY <3>3
  <2>5. CASE i <= n /\ ~(j <= n)
    <3>1. i \in 1..n /\ j - n \in 1..Len(s) BY <2>2, <2>5, <1>1, <2>3
    <3>2. q[i] = b /\ s[j - n] = c BY <1>4, <2>2, <2>5
    <3>3. b \in ToSet(q)
      <4>1. DOMAIN q = 1..n BY <1>2
      <4> QED BY <3>1, <3>2, <4>1 DEF ToSet
    <3>4. c \in ToSet(s) BY <2>3, <3>1, <3>2 DEF ToSet
    <3> QED BY <1>2, <3>3, <3>4
  <2>6. CASE ~(i <= n)
    <3>1. i - n \in 1..Len(s) /\ j - n \in 1..Len(s) /\ i - n < j - n /\ ~(j <= n)
      BY <2>2, <2>6, <1>1, <2>3
    <3>2. s[i - n] = b /\ s[j - n] = c BY <1>4, <2>2, <2>6, <3>1
    <3> QED BY <3>1, <3>2
  <2> QED BY <2>4, <2>5, <2>6
<1> QED BY <1>5, <1>6, <1>9, <1>10

-----------------------------------------------------------------------------
(* The prompts and their hashes.                                           *)
LEMMA PromptFacts ==
  ASSUME NEW p \in Prompts
  PROVE  /\ Len(p) \in Nat \ {0} /\ p \in Seq(ToSet(p))
         /\ \A k \in 1..Len(p) : /\ SubSeq(p, 1, k) \in Hashes /\ Len(SubSeq(p, 1, k)) = k
                                 /\ SubSeq(p, 1, k) # <<>>
         /\ \A j, k \in 1..Len(p) : SubSeq(p, 1, j) = SubSeq(p, 1, k) => j = k
<1>1. p \in Seq(ToSet(p)) /\ p # <<>> BY EvictionAssumption
<1>2. Len(p) \in Nat \ {0}
  <2>1. Len(p) \in Nat /\ (Len(p) = 0 => p = <<>>) BY <1>1
  <2> QED BY <1>1, <2>1
<1>3. ASSUME NEW k \in 1..Len(p) PROVE SubSeq(p, 1, k) \in Hashes /\ Len(SubSeq(p, 1, k)) = k
                                       /\ SubSeq(p, 1, k) # <<>>
  <2>1. SubSeq(p, 1, k) \in Hashes BY DEF Hashes
  <2>2. k \in Nat \ {0} /\ 1 \in Int /\ k \in Int /\ 1 <= k BY <1>2
  <2>3. \A i \in 1..k : p[i] \in ToSet(p)
    <3>1. \A i \in 1..k : i \in 1..Len(p) BY <1>2
    <3>2. DOMAIN p = 1..Len(p) BY <1>1
    <3> QED BY <3>1, <3>2 DEF ToSet
  <2>4. Len(SubSeq(p, 1, k)) = IF 1 <= k THEN k - 1 + 1 ELSE 0 BY <2>2, <2>3, SubSeqProperties
  <2> DEFINE l == Len(SubSeq(p, 1, k))
  <2>5. l = k
    <3>1. l = IF 1 <= k THEN k - 1 + 1 ELSE 0 BY <2>4
    <3> HIDE DEF l
    <3> QED BY <2>2, <3>1
  <2>6. Len(<<>>) = 0 OBVIOUS
  <2>7. SubSeq(p, 1, k) # <<>>
    <3>1. SUFFICES ASSUME SubSeq(p, 1, k) = <<>> PROVE FALSE OBVIOUS
    <3>2. l = 0 BY <2>6, <3>1
    <3> HIDE DEF l
    <3> QED BY <2>2, <2>5, <3>2
  <2> QED BY <2>1, <2>5, <2>7
<1>4. ASSUME NEW j \in 1..Len(p), NEW k \in 1..Len(p), SubSeq(p, 1, j) = SubSeq(p, 1, k) PROVE j = k
  <2>1. Len(SubSeq(p, 1, j)) = j /\ Len(SubSeq(p, 1, k)) = k BY <1>3
  <2> QED BY <1>4, <2>1
<1> QED BY <1>1, <1>2, <1>3, <1>4

(* No hash is empty.                                                       *)
LEMMA HashesAreNot == <<>> \notin Hashes
<1>1. \A p \in Prompts : \A k \in 1..Len(p) : SubSeq(p, 1, k) # <<>> BY PromptFacts
<1> QED BY <1>1 DEF Hashes

(* The longest cached prefix.                                              *)
LEMMA HitFacts ==
  ASSUME NEW p \in Prompts
  PROVE  /\ Hit(p) \in 0..Len(p) - 1
         /\ \A j \in 1..Hit(p) : cached[SubSeq(p, 1, j)] # <<>>
         /\ \A k \in 0..Len(p) - 1 :
              (\A j \in 1..k : cached[SubSeq(p, 1, j)] # <<>>) => k <= Hit(p)
<1> DEFINE S == {k \in 0..Len(p) - 1 : \A j \in 1..k : cached[SubSeq(p, 1, j)] # <<>>}
<1>1. Len(p) \in Nat \ {0} BY PromptFacts
<1>2. S \subseteq 0..Len(p) - 1 /\ S \subseteq Int /\ 0 \in S BY <1>1
<1>3. IsFiniteSet(S)
  <2>1. 0 \in Int /\ Len(p) - 1 \in Int BY <1>1
  <2>2. IsFiniteSet(0..Len(p) - 1) BY <2>1, FS_Interval
  <2> HIDE DEF S
  <2> QED BY <1>2, <2>2, FS_Subset
<1>4. Max(S) \in S /\ \A k \in S : k <= Max(S)
  <2> HIDE DEF S
  <2> QED BY <1>2, <1>3, FiniteMax
<1>5. Hit(p) = Max(S) BY DEF Hit
<1> QED BY <1>4, <1>5

(* The blocks a prompt touches.                                            *)
Touched(p) == [k \in 1..Hit(p) |-> cached[SubSeq(p, 1, k)][1]]

(* They are different cached blocks, one for each prefix.                  *)
LEMMA TouchedFacts ==
  ASSUME Types, Hashed, NEW p \in Prompts
  PROVE  /\ Touched(p) \in Seq(Blocks) /\ Len(Touched(p)) = Hit(p) /\ IsInjective(Touched(p))
         /\ \A k \in 1..Hit(p) : /\ SubSeq(p, 1, k) \in Hashes
                                 /\ Touched(p)[k] \in ToSet(cached[SubSeq(p, 1, k)])
                                 /\ hash[Touched(p)[k]] = SubSeq(p, 1, k)
<1> DEFINE h == Hit(p)
           q == Touched(p)
<1>1. h \in Nat /\ h < Len(p) /\ \A k \in 1..h : cached[SubSeq(p, 1, k)] # <<>>
  BY HitFacts, PromptFacts
<1> HIDE DEF h
<1>2. \A k \in 1..h : k \in 1..Len(p) BY <1>1, PromptFacts
<1>3. ASSUME NEW k \in 1..h
      PROVE  /\ SubSeq(p, 1, k) \in Hashes
             /\ q[k] \in ToSet(cached[SubSeq(p, 1, k)])
             /\ hash[q[k]] = SubSeq(p, 1, k) /\ q[k] \in Blocks
  <2> DEFINE x == SubSeq(p, 1, k)
  <2>1. x \in Hashes BY <1>2, PromptFacts
  <2>2. q[k] = cached[x][1] BY DEF Touched, h
  <2>3. cached[x] \in Seq(Blocks) /\ cached[x] # <<>> BY <1>1, <2>1 DEF Types
  <2> HIDE DEF x, q
  <2>4. 1 \in DOMAIN cached[x] /\ cached[x][1] \in Blocks BY <2>3
  <2>5. cached[x][1] \in ToSet(cached[x]) BY <2>4 DEF ToSet
  <2>6. hash[q[k]] = x BY <2>1, <2>2, <2>5 DEF Hashed
  <2> QED BY <2>1, <2>2, <2>4, <2>5, <2>6 DEF x
<1>4. q \in Seq(Blocks) /\ Len(q) = h /\ DOMAIN q = 1..h
  <2>1. DOMAIN q = 1..h /\ q = [k \in 1..h |-> q[k]] BY DEF Touched, h
  <2> HIDE DEF q
  <2>2. q \in [1..h -> Blocks] BY <1>3, <2>1
  <2> QED BY <1>1, <2>1, <2>2, IsASeq, LenProperties
<1> HIDE DEF q
<1>5. IsInjective(q)
  <2>1. ASSUME NEW i \in 1..h, NEW j \in 1..h, q[i] = q[j] PROVE i = j
    <3>1. SubSeq(p, 1, i) = SubSeq(p, 1, j) BY <1>3, <2>1
    <3> QED BY <1>2, <3>1, PromptFacts
  <2> QED BY <1>4, <2>1 DEF IsInjective
<1> QED BY <1>3, <1>4, <1>5 DEF q, h

-----------------------------------------------------------------------------
(* The counts.                                                             *)
LEMMA UsersFinite ==
  ASSUME NEW b PROVE IsFiniteSet(Users(b)) /\ Cardinality(Users(b)) \in Nat
<1>1. IsFiniteSet(Requests) /\ Users(b) \subseteq Requests BY EvictionAssumption DEF Users
<1> QED BY <1>1, FS_Subset, FS_CardinalityType

(* Who uses a block when one request's blocks change.                      *)
LEMMA UsersChange ==
  ASSUME Types, NEW r \in Requests, NEW q \in Seq(Blocks), table' = [table EXCEPT ![r] = q], NEW b
  PROVE  Users(b)' = IF b \in ToSet(q) THEN Users(b) \cup {r} ELSE Users(b) \ {r}
<1>1. \A x \in Requests : table'[x] = IF x = r THEN q ELSE table[x] BY DEF Types
<1>2. Users(b)' = {x \in Requests : b \in ToSet(table'[x])} BY DEF Users
<1> QED BY <1>1, <1>2 DEF Users

(* A used block is not free, and a free one not used.                      *)
LEMMA UsedOrFree ==
  ASSUME Types, Counted
  PROVE  /\ \A r \in Requests : \A b \in ToSet(table[r]) : b \in Blocks /\ ref[b] > 0 /\ b \notin Free
         /\ \A b \in Free : Users(b) = {}
         /\ Free \subseteq Blocks
<1>1. ASSUME NEW r \in Requests, NEW b \in ToSet(table[r])
      PROVE b \in Blocks /\ ref[b] > 0 /\ b \notin Free
  <2>1. table[r] \in Seq(Blocks) BY DEF Types
  <2>2. b \in Blocks BY <2>1, MembersOfSeq
  <2>3. r \in Users(b) BY <1>1 DEF Users
  <2>4. Cardinality(Users(b)) # 0 BY <2>3, UsersFinite, FS_EmptySet
  <2>5. ref[b] = Cardinality(Users(b)) /\ ref[b] \in Nat BY <2>2 DEF Counted, Types
  <2> QED BY <2>2, <2>4, <2>5 DEF Free
<1>2. \A b \in Free : Users(b) = {}
  <2> TAKE b \in Free
  <2>1. b \in Blocks /\ ref[b] = 0 BY DEF Free
  <2>2. Cardinality(Users(b)) = 0 BY <2>1 DEF Counted
  <2> QED BY <2>2, UsersFinite, FS_EmptySet
<1> QED BY <1>1, <1>2 DEF Free

-----------------------------------------------------------------------------
(* At first every block is free.                                           *)
LEMMA InitIInv ==
  ASSUME Init PROVE IInv
<1> DEFINE n == Cardinality(Blocks)
<1>1. PICK s \in SetToSeqs(Blocks) : next = NextIn(s) /\ prev = PrevIn(s) BY DEF Init
<1>2. n \in Nat /\ numFree = n BY NodeFacts DEF Init
<1>3. s \in [1..n -> Blocks] /\ \A i, j \in 1..n : i # j => s[i] # s[j]
  BY <1>1 DEF SetToSeqs
<1>4. s \in Seq(Blocks) /\ Len(s) = n /\ IsInjective(s)
  <2>1. IsInjective(s) BY <1>3 DEF IsInjective
  <2> HIDE DEF n
  <2>2. s \in Seq(Blocks) /\ Len(s) = n BY <1>2, <1>3, IsASeq, LenProperties
  <2> QED BY <2>1, <2>2
<1>5. ToSet(s) = Blocks
  <2>1. Cardinality(ToSet(s)) = Cardinality(Blocks) /\ ToSet(s) \subseteq Blocks
    BY <1>4, DistinctLength, MembersOfSeq
  <2> QED BY <2>1, NodeFacts, FS_Subset
<1>6. Free = Blocks BY DEF Init, Free
<1>7. Types
  <2>1. Scored BY DEF Init, Scored
  <2>2. <<>> \in Seq(Blocks) /\ 0 \in Nat /\ 1 \in Nat OBVIOUS
  <2>3. policy \in Policies /\ now \in Nat /\ ref \in [Blocks -> Nat] BY <2>2 DEF Init
  <2>4. hash \in [Blocks -> Hashes \cup {<<>>}] BY DEF Init
  <2>5. cached \in [Hashes -> Seq(Blocks)] /\ table \in [Requests -> Seq(Blocks)] BY <2>2 DEF Init
  <2> QED BY <1>2, <2>1, <2>3, <2>4, <2>5 DEF Types
<1>8. Linked
  <2>1. Chained(next, prev, Along(s), n) /\ Inner(Along(s), n) = Blocks
    BY <1>1, <1>4, <1>5, InARow
  <2>2. Row = Along(s)
    <3>1. Row = [k \in 0..n + 1 |-> Walk(next, FakeHead)[k]] BY <1>2 DEF Row
    <3> HIDE DEF n
    <3> QED BY <1>2, <2>1, <3>1, RowIs
  <2> HIDE DEF n
  <2> QED BY <1>2, <1>6, <2>1, <2>2 DEF Linked
<1>9. Counted
  <2>1. \A r \in Requests : table[r] = <<>> BY DEF Init
  <2>2. IsInjective(<<>>) BY DEF IsInjective
  <2>3. \A b : Users(b) = {}
    <3>1. \A b : b \notin ToSet(<<>>) BY DEF ToSet
    <3> QED BY <2>1, <3>1 DEF Users
  <2>4. \A b \in Blocks : ref[b] = 0 BY DEF Init
  <2> QED BY <2>1, <2>2, <2>3, <2>4, FS_EmptySet DEF Counted
<1>10. Hashed
  <2>1. \A k \in Hashes : ToSet(cached[k]) = {}
    <3>1. ToSet(<<>>) = {} BY DEF ToSet
    <3> QED BY <3>1 DEF Init
  <2> QED BY <2>1 DEF Hashed
<1>11. Working BY DEF Init, Working
<1> QED BY <1>7, <1>8, <1>9, <1>10, <1>11 DEF IInv

-----------------------------------------------------------------------------
(* A request uses more blocks, which it did not use.                       *)
LEMMA MoreUsed ==
  ASSUME Types, Counted, NEW r \in Requests, NEW q \in Seq(Blocks), IsInjective(q),
         table' = [table EXCEPT ![r] = q],
         NEW A, A \cap ToSet(table[r]) = {}, ToSet(q) = ToSet(table[r]) \cup A,
         ref' = [b \in Blocks |-> IF b \in A THEN ref[b] + 1 ELSE ref[b]]
  PROVE  /\ Counted' /\ Free' = Free \ A
         /\ ref' \in [Blocks -> Nat] /\ table' \in [Requests -> Seq(Blocks)]
<1>1. table' \in [Requests -> Seq(Blocks)]
      /\ \A x \in Requests : table'[x] = IF x = r THEN q ELSE table[x]
  BY DEF Types
<1>2. ref \in [Blocks -> Nat] BY DEF Types
<1>3. ref' \in [Blocks -> Nat] BY <1>2
<1>4. Free' = Free \ A
  <2>1. Free' = {b \in Blocks : ref'[b] = 0} BY DEF Free
  <2>2. \A b \in Blocks : ref'[b] = 0 <=> ref[b] = 0 /\ b \notin A BY <1>2
  <2> QED BY <2>1, <2>2 DEF Free
<1>5. \A x \in Requests : IsInjective(table'[x]) BY <1>1 DEF Counted
<1>6. ASSUME NEW b \in Blocks PROVE ref'[b] = Cardinality(Users(b)')
  <2>1. Users(b)' = IF b \in ToSet(q) THEN Users(b) \cup {r} ELSE Users(b) \ {r} BY UsersChange
  <2>2. r \in Users(b) <=> b \in ToSet(table[r]) BY DEF Users
  <2>3. ref[b] = Cardinality(Users(b)) /\ ref[b] \in Nat BY <1>2 DEF Counted
  <2>4. IsFiniteSet(Users(b)) BY UsersFinite
  <2>5. CASE b \in A
    <3>1. r \notin Users(b) /\ Users(b)' = Users(b) \cup {r} BY <2>1, <2>2, <2>5
    <3>2. Cardinality(Users(b) \cup {r}) = Cardinality(Users(b)) + 1 BY <2>4, <3>1, FS_AddElement
    <3> QED BY <2>3, <2>5, <3>1, <3>2
  <2>6. CASE b \notin A
    <3>1. Users(b)' = Users(b) BY <2>1, <2>2, <2>6
    <3> QED BY <2>3, <2>6, <3>1
  <2> QED BY <2>5, <2>6
<1>7. Counted' BY <1>5, <1>6 DEF Counted
<1> QED BY <1>1, <1>3, <1>4, <1>7

(* A request uses nothing any more.                                        *)
LEMMA LessUsed ==
  ASSUME Types, Counted, NEW r \in Requests, table' = [table EXCEPT ![r] = <<>>],
         ref' = [b \in Blocks |-> IF b \in ToSet(table[r]) THEN ref[b] - 1 ELSE ref[b]]
  PROVE  /\ Counted' /\ Free' = Free \cup {b \in ToSet(table[r]) : ref[b] = 1}
         /\ ref' \in [Blocks -> Nat] /\ table' \in [Requests -> Seq(Blocks)]
<1>0. <<>> \in Seq(Blocks) /\ ToSet(<<>>) = {} /\ IsInjective(<<>>) BY DEF ToSet, IsInjective
<1>1. table' \in [Requests -> Seq(Blocks)]
      /\ \A x \in Requests : table'[x] = IF x = r THEN <<>> ELSE table[x]
  BY <1>0 DEF Types
<1>2. ref \in [Blocks -> Nat] BY DEF Types
<1>3. \A b \in ToSet(table[r]) : b \in Blocks /\ ref[b] > 0 BY UsedOrFree
<1>4. ref' \in [Blocks -> Nat]
  <2>1. \A b \in Blocks : (IF b \in ToSet(table[r]) THEN ref[b] - 1 ELSE ref[b]) \in Nat BY <1>2, <1>3
  <2> QED BY <2>1
<1>5. Free' = Free \cup {b \in ToSet(table[r]) : ref[b] = 1}
  <2>1. Free' = {b \in Blocks : ref'[b] = 0} BY DEF Free
  <2>2. \A b \in Blocks : ref'[b] = 0 <=> ref[b] = 0 \/ (b \in ToSet(table[r]) /\ ref[b] = 1)
    BY <1>2, <1>3
  <2> QED BY <1>3, <2>1, <2>2 DEF Free
<1>6. \A x \in Requests : IsInjective(table'[x]) BY <1>0, <1>1 DEF Counted
<1>7. ASSUME NEW b \in Blocks PROVE ref'[b] = Cardinality(Users(b)')
  <2>1. Users(b)' = Users(b) \ {r}
    <3>1. Users(b)' = IF b \in ToSet(<<>>) THEN Users(b) \cup {r} ELSE Users(b) \ {r}
      BY <1>0, UsersChange
    <3> QED BY <1>0, <3>1
  <2>2. r \in Users(b) <=> b \in ToSet(table[r]) BY DEF Users
  <2>3. ref[b] = Cardinality(Users(b)) /\ ref[b] \in Nat BY <1>2 DEF Counted
  <2>4. IsFiniteSet(Users(b)) BY UsersFinite
  <2>5. Cardinality(Users(b) \ {r}) = IF r \in Users(b) THEN Cardinality(Users(b)) - 1
                                      ELSE Cardinality(Users(b))
    BY <2>4, FS_RemoveElement
  <2> QED BY <2>1, <2>2, <2>3, <2>5
<1>8. Counted' BY <1>6, <1>7 DEF Counted
<1> QED BY <1>1, <1>4, <1>5, <1>8

-----------------------------------------------------------------------------
(* A request touches its cached blocks.                                    *)
LEMMA TouchIInv ==
  ASSUME IInv, NEW r \in Requests, NEW p \in Prompts, NEW extra \in 0..1, Touch(r, p, extra)
  PROVE  IInv' /\ (\A b, c : Ahead(b, c)' => Ahead(b, c)) /\ Free' = Free \ ToSet(Touched(p))
<1> DEFINE q == Touched(p)
           s == Only(q, Free)
           n == Len(p) - Hit(p) + extra
<1>1. Types /\ Linked /\ Counted /\ Hashed /\ Working BY DEF IInv
<1>2. /\ task = NoTask /\ table[r] = <<>>
      /\ n + Len(s) <= numFree
      /\ TakeOut(s)
      /\ ref' = [b \in Blocks |-> IF b \in ToSet(q) THEN ref[b] + 1 ELSE ref[b]]
      /\ hits' = [b \in Blocks |-> IF b \in ToSet(q) THEN hits[b] + 1 ELSE hits[b]]
      /\ table' = [table EXCEPT ![r] = q]
      /\ task' = [prompt |-> p, request |-> r, new |-> n, hit |-> Hit(p)]
      /\ UNCHANGED <<policy, hash, cached, stamp, depth, now>>
  BY DEF Touch, Touched
<1>3. q \in Seq(Blocks) /\ Len(q) = Hit(p) /\ IsInjective(q) BY <1>1, TouchedFacts
<1> HIDE DEF q
<1>4. s \in Seq(Blocks) /\ IsInjective(s) /\ ToSet(s) = ToSet(q) \cap Free /\ Len(s) \in Nat
  BY <1>3, OnlySet
<1> HIDE DEF s
<1>5. /\ Counted' /\ Free' = Free \ ToSet(q)
      /\ ref' \in [Blocks -> Nat] /\ table' \in [Requests -> Seq(Blocks)]
  <2>1. ToSet(table[r]) = {} BY <1>2 DEF ToSet
  <2> DEFINE A == ToSet(q)
  <2>2. A \cap ToSet(table[r]) = {} /\ ToSet(q) = ToSet(table[r]) \cup A BY <2>1
  <2>3. ref' = [b \in Blocks |-> IF b \in A THEN ref[b] + 1 ELSE ref[b]] BY <1>2
  <2> HIDE DEF A
  <2>4. /\ Counted' /\ Free' = Free \ A
        /\ ref' \in [Blocks -> Nat] /\ table' \in [Requests -> Seq(Blocks)]
    BY <1>1, <1>2, <1>3, <2>2, <2>3, MoreUsed
  <2> QED BY <2>4 DEF A
<1>6. Linked' /\ numFree' \in Nat /\ numFree' = numFree - Len(s)
      /\ \A b, c : Ahead(b, c)' => Ahead(b, c)
  <2>1. ToSet(s) \subseteq Free /\ Free' = Free \ ToSet(s) BY <1>4, <1>5
  <2> QED BY <1>1, <1>2, <1>4, <2>1, TakeOutStep
<1>7. Types'
  <2>1. Scored'
    <3>1. \A b \in Blocks : (IF b \in ToSet(q) THEN hits[b] + 1 ELSE hits[b]) \in Nat
      BY <1>1 DEF Types, Scored
    <3> QED BY <1>1, <1>2, <3>1 DEF Types, Scored
  <2> QED BY <1>1, <1>2, <1>5, <1>6, <2>1 DEF Types
<1>8. Hashed' BY <1>1, <1>2 DEF Hashed
<1>9. Working'
  <2>1. Hit(p) \in Nat /\ Hit(p) < Len(p) /\ Len(p) \in Nat /\ n \in Nat /\ n > 0
        /\ Hit(p) + n >= Len(p)
    <3>1. Len(p) \in Nat \ {0} /\ Hit(p) \in 0..Len(p) - 1 BY PromptFacts, HitFacts
    <3> DEFINE l == Len(p)
               h == Hit(p)
    <3>2. l \in Nat \ {0} /\ h \in 0..l - 1 BY <3>1
    <3> HIDE DEF l, h
    <3>3. h \in Nat /\ h < l /\ l \in Nat /\ l - h + extra \in Nat /\ l - h + extra > 0
          /\ h + (l - h + extra) >= l BY <3>2
    <3> QED BY <3>3 DEF l, h
  <2> HIDE DEF n
  <2>2. n <= numFree'
    <3> DEFINE a == Len(s)
    <3>1. a \in Nat /\ n + a <= numFree /\ numFree' = numFree - a /\ numFree \in Nat
      BY <1>1, <1>2, <1>4, <1>6 DEF Types
    <3> HIDE DEF a
    <3> QED BY <2>1, <3>1
  <2>3. task' \in [prompt : Prompts, request : Requests, new : 0..numFree', hit : Nat]
    <3>1. n \in 0..numFree' BY <1>6, <2>1, <2>2
    <3> QED BY <1>2, <2>1, <3>1
  <2>4. task'.prompt = p /\ task'.request = r /\ task'.new = n /\ task'.hit = Hit(p) BY <1>2
  <2>5. Len(table'[r]) = Hit(p) BY <1>1, <1>2, <1>3 DEF Types
  <2> QED BY <2>1, <2>3, <2>4, <2>5 DEF Working
<1> QED BY <1>5, <1>6, <1>7, <1>8, <1>9 DEF IInv, q

(* A request gets new blocks; those that were cached are evicted.          *)
LEMMA GetNewBlocksIInv ==
  ASSUME IInv, GetNewBlocks
  PROVE  /\ IInv' /\ (\A b, c : Ahead(b, c)' => Ahead(b, c))
         /\ \E s : /\ s = Selected(task.new) /\ s \in Seq(Blocks) /\ IsInjective(s)
                   /\ ToSet(s) \subseteq Free /\ Free' = Free \ ToSet(s)
                   /\ hash' = [b \in Blocks |-> IF b \in ToSet(s) THEN <<>> ELSE hash[b]]
                   /\ \A k \in Hashes : ToSet(cached'[k]) = ToSet(cached[k]) \ ToSet(s)
                   /\ table' = [table EXCEPT ![task.request] = table[task.request] \o s]
                   /\ \A k \in Hashes : cached[k] # <<>> /\ cached[k][1] \notin ToSet(s) =>
                        cached'[k] # <<>> /\ cached'[k][1] = cached[k][1]
                   /\ \A b \in Blocks : hits'[b] = IF b \in ToSet(s) /\ hash[b] # <<>> THEN 0 ELSE hits[b]
                   /\ \A b \in Blocks : b \notin ToSet(s) => depth'[b] = depth[b]
<1> DEFINE s == Selected(task.new)
           r == task.request
           E == {b \in ToSet(s) : hash[b] # <<>>}
           q == table[r] \o s
<1>1. Types /\ Linked /\ Counted /\ Hashed /\ Working BY DEF IInv
<1>2. /\ task # NoTask /\ task.new > 0
      /\ TakeOut(s)
      /\ ref' = [b \in Blocks |-> IF b \in ToSet(s) THEN ref[b] + 1 ELSE ref[b]]
      /\ cached' = [k \in Hashes |-> Only(cached[k], Blocks \ E)]
      /\ hash' = [b \in Blocks |-> IF b \in E THEN <<>> ELSE hash[b]]
      /\ Reset(E)
      /\ table' = [table EXCEPT ![r] = @ \o s]
      /\ task' = [task EXCEPT !.new = 0]
      /\ UNCHANGED <<policy, now>>
  BY DEF GetNewBlocks
<1>3. /\ task \in [prompt : Prompts, request : Requests, new : 0..numFree, hit : Nat]
      /\ task.hit < Len(task.prompt)
      /\ Len(table[task.request]) = task.hit
      /\ task.hit + task.new >= Len(task.prompt)
  BY <1>1, <1>2 DEF Working
<1>4. r \in Requests /\ task.new \in 0..numFree /\ task.hit \in Nat /\ task.prompt \in Prompts BY <1>3
<1>5. s \in Seq(Blocks) /\ Len(s) = task.new /\ IsInjective(s) /\ ToSet(s) \subseteq Free
  <2>1. Scored /\ numFree \in Nat /\ Chained(next, prev, Row, numFree)
        /\ Inner(Row, numFree) = Free
    BY <1>1 DEF Types, Linked
  <2> DEFINE m == task.new
             t == Row
             n == numFree
  <2>2. m \in 0..n /\ n \in Nat /\ Chained(next, prev, t, n) BY <1>4, <2>1
  <2> HIDE DEF m, t, n
  <2>3. LET x == Selected(m)
        IN  x \in Seq(Blocks) /\ Len(x) = m /\ IsInjective(x) /\ ToSet(x) \subseteq Inner(t, n)
    BY <2>1, <2>2, SelectedBlocks
  <2> QED BY <2>1, <2>3 DEF m, t, n
<1> HIDE DEF s
<1>6. table[r] \in Seq(Blocks) /\ IsInjective(table[r]) /\ ToSet(table[r]) \cap Free = {}
  <2>1. \A b \in ToSet(table[r]) : b \notin Free BY <1>1, <1>4, UsedOrFree
  <2> QED BY <1>1, <1>4, <2>1 DEF Types, Counted
<1>7. /\ q \in Seq(Blocks) /\ IsInjective(q) /\ ToSet(q) = ToSet(table[r]) \cup ToSet(s)
      /\ Len(q) = Len(table[r]) + Len(s)
      /\ \A i \in 1..Len(table[r]) + Len(s) :
           q[i] = IF i <= Len(table[r]) THEN table[r][i] ELSE s[i - Len(table[r])]
  <2> DEFINE a == table[r]
  <2>1. a \in Seq(Blocks) /\ IsInjective(a) /\ ToSet(a) \cap ToSet(s) = {} BY <1>5, <1>6
  <2> HIDE DEF a
  <2>2. /\ a \o s \in Seq(Blocks) /\ IsInjective(a \o s) /\ ToSet(a \o s) = ToSet(a) \cup ToSet(s)
        /\ Len(a \o s) = Len(a) + Len(s)
        /\ \A i \in 1..Len(a) + Len(s) : (a \o s)[i] = IF i <= Len(a) THEN a[i] ELSE s[i - Len(a)]
    BY <1>5, <2>1, ConcatSet
  <2> QED BY <2>2 DEF a
<1>8. table' = [table EXCEPT ![r] = q] BY <1>1, <1>2, <1>4 DEF Types
<1> HIDE DEF q
<1>9. /\ Counted' /\ Free' = Free \ ToSet(s)
      /\ ref' \in [Blocks -> Nat] /\ table' \in [Requests -> Seq(Blocks)]
  <2> DEFINE A == ToSet(s)
  <2>1. A \cap ToSet(table[r]) = {} /\ ToSet(q) = ToSet(table[r]) \cup A BY <1>5, <1>6, <1>7
  <2>2. ref' = [b \in Blocks |-> IF b \in A THEN ref[b] + 1 ELSE ref[b]] BY <1>2
  <2> HIDE DEF A, r
  <2>3. /\ Counted' /\ Free' = Free \ A
        /\ ref' \in [Blocks -> Nat] /\ table' \in [Requests -> Seq(Blocks)]
    BY <1>1, <1>4, <1>7, <1>8, <2>1, <2>2, MoreUsed
  <2> QED BY <2>3 DEF A
<1>10. Linked' /\ numFree' \in Nat /\ numFree' = numFree - Len(s)
       /\ \A b, c : Ahead(b, c)' => Ahead(b, c)
  BY <1>1, <1>2, <1>5, <1>9, TakeOutStep
<1>11. E \subseteq ToSet(s) /\ \A b \in ToSet(s) \ E : hash[b] = <<>> OBVIOUS
<1>12. \A b \in Blocks : hash'[b] = IF b \in ToSet(s) THEN <<>> ELSE hash[b] BY <1>2, <1>11
<1>13. \A k \in Hashes : cached'[k] \in Seq(Blocks) /\ ToSet(cached'[k]) = ToSet(cached[k]) \ E
  <2> TAKE k \in Hashes
  <2> DEFINE x == cached[k]
             S == Blocks \ E
  <2>1. x \in Seq(Blocks) /\ cached'[k] = Only(x, S) BY <1>1, <1>2 DEF Types
  <2> HIDE DEF x, S
  <2>2. Only(x, S) \in Seq(Blocks) /\ ToSet(Only(x, S)) = ToSet(x) \cap S /\ ToSet(x) \subseteq Blocks
    BY <2>1, OnlySet, MembersOfSeq
  <2> QED BY <2>1, <2>2 DEF x, S
<1>14. \A k \in Hashes : ToSet(cached'[k]) = ToSet(cached[k]) \ ToSet(s)
  <2> TAKE k \in Hashes
  <2>1. \A b \in ToSet(cached[k]) : hash[b] # <<>> BY <1>1, HashesAreNot DEF Hashed
  <2> QED BY <1>11, <1>13, <2>1
<1>22. ASSUME NEW k \in Hashes, cached[k] # <<>>, cached[k][1] \notin ToSet(s)
       PROVE  cached'[k] # <<>> /\ cached'[k][1] = cached[k][1]
  <2> DEFINE x == cached[k]
             S == Blocks \ E
  <2>1. x \in Seq(Blocks) /\ cached'[k] = Only(x, S) /\ x # <<>> BY <1>1, <1>2, <1>22 DEF Types
  <2>2. x[1] \notin ToSet(s) BY <1>22
  <2> HIDE DEF x
  <2>3. x[1] \in Blocks BY <2>1
  <2>4. x[1] \in S BY <1>11, <2>2, <2>3
  <2> HIDE DEF S
  <2>5. Only(x, S) # <<>> /\ Only(x, S)[1] = x[1] BY <2>1, <2>4, OnlyFirst
  <2> QED BY <2>1, <2>5 DEF x
<1>23. \A b \in Blocks : hits'[b] = IF b \in ToSet(s) /\ hash[b] # <<>> THEN 0 ELSE hits[b]
  BY <1>2 DEF Reset
<1> HIDE DEF E
<1>15. Scored' /\ \A b \in Blocks : b \notin ToSet(s) => depth'[b] = depth[b]
  <2>1. 0 \in Nat /\ Scored BY <1>1 DEF Types
  <2> QED BY <1>2, <1>11, <2>1 DEF Reset, Scored
<1>16. Types'
  <2>1. hash' \in [Blocks -> Hashes \cup {<<>>}] BY <1>1, <1>2 DEF Types
  <2>2. cached' \in [Hashes -> Seq(Blocks)]
    <3>1. cached' = [k \in Hashes |-> cached'[k]] BY <1>2
    <3> QED BY <1>13, <3>1
  <2> QED BY <1>1, <1>2, <1>9, <1>10, <1>15, <2>1, <2>2 DEF Types
<1>17. Hashed'
  <2>1. ASSUME NEW k \in Hashes, NEW b \in ToSet(cached'[k]) PROVE hash'[b] = k
    <3>1. b \in ToSet(cached[k]) /\ b \notin ToSet(s) BY <1>14, <2>1
    <3>2. hash[b] = k BY <1>1, <3>1 DEF Hashed
    <3>3. b \in Blocks BY <1>1, <3>1, MembersOfSeq DEF Types
    <3> QED BY <1>12, <3>1, <3>2, <3>3
  <2> QED BY <2>1 DEF Hashed
<1>18. Working'
  <2> DEFINE l == Len(task.prompt)
             h == task.hit
             w == Len(table[r])
             m == Len(s)
  <2>1. task' = [prompt |-> task.prompt, request |-> r, new |-> 0, hit |-> h] BY <1>2, <1>3
  <2>2. task'.prompt = task.prompt /\ task'.request = r /\ task'.new = 0 /\ task'.hit = h BY <2>1
  <2>3. 0 \in 0..numFree' BY <1>10
  <2>4. task' \in [prompt : Prompts, request : Requests, new : 0..numFree', hit : Nat]
    BY <1>4, <2>1, <2>3
  <2>5. table'[r] = q BY <1>1, <1>4, <1>8 DEF Types
  <2>6. w = h /\ m = task.new /\ h + m >= l /\ h < l /\ h \in Nat /\ m \in Nat /\ l \in Nat
    BY <1>3, <1>4, <1>5, PromptFacts
  <2>7. Len(q) = w + m BY <1>7
  <2>8. \A i \in 1..w + m : q[i] = IF i <= w THEN table[r][i] ELSE s[i - w] BY <1>7
  <2> HIDE DEF l, h, w, m
  <2>9. ASSUME NEW k \in h + 1..l PROVE hash'[table'[r][k]] = <<>>
    <3>1. k \in 1..w + m /\ ~(k <= w) /\ k - w \in 1..m BY <2>6
    <3>2. q[k] = s[k - w] BY <2>8, <3>1
    <3>3. s[k - w] \in ToSet(s) /\ s[k - w] \in Blocks
      <4>1. k - w \in DOMAIN s BY <1>5, <3>1 DEF m
      <4> QED BY <1>5, <4>1 DEF ToSet
    <3> QED BY <1>12, <2>5, <3>2, <3>3
  <2>10. Len(table'[r]) >= l BY <2>5, <2>6, <2>7
  <2>11. task'.hit < Len(task'.prompt) BY <2>2, <2>6 DEF l
  <2> QED BY <2>2, <2>4, <2>9, <2>10, <2>11 DEF Working, l
<1>19. IInv' BY <1>9, <1>10, <1>16, <1>17, <1>18 DEF IInv
<1>20. hash' = [b \in Blocks |-> IF b \in ToSet(s) THEN <<>> ELSE hash[b]]
  BY <1>2, <1>12
<1>21. table' = [table EXCEPT ![task.request] = table[task.request] \o s] BY <1>8 DEF q
<1> QED BY <1>5, <1>9, <1>10, <1>14, <1>15, <1>19, <1>20, <1>21, <1>22, <1>23 DEF s

-----------------------------------------------------------------------------
(* The blocks that enter the cache, and their places in the prompt.        *)
Entered == {table[task.request][k] : k \in task.hit + 1..Len(task.prompt)}
Place(b) == CHOOSE k \in task.hit + 1..Len(task.prompt) : table[task.request][k] = b
Entering(k) == {b \in Entered : SubSeq(task.prompt, 1, Place(b)) = k}

(* They are blocks of the request, not cached yet, each in its place.      *)
LEMMA EnteredFacts ==
  ASSUME IInv, CacheFullBlocks
  PROVE  /\ task.request \in Requests /\ task.prompt \in Prompts
         /\ task.hit \in Nat /\ task.hit < Len(task.prompt)
         /\ Len(task.prompt) <= Len(table[task.request])
         /\ \A k \in task.hit + 1..Len(task.prompt) :
              /\ table[task.request][k] \in Entered /\ Place(table[task.request][k]) = k
              /\ k \in 1..Len(task.prompt) /\ k \in 1..Len(table[task.request])
         /\ \A b \in Entered :
              /\ b \in Blocks /\ hash[b] = <<>> /\ b \in ToSet(table[task.request])
              /\ Place(b) \in task.hit + 1..Len(task.prompt) /\ table[task.request][Place(b)] = b
         /\ IsFiniteSet(Entered)
<1> DEFINE r == task.request
           p == task.prompt
           h == task.hit
           l == Len(p)
           w == Len(table[r])
<1>1. Types /\ Counted /\ Working BY DEF IInv
<1>2. task # NoTask /\ task.new = 0 BY DEF CacheFullBlocks
<1>3. /\ task \in [prompt : Prompts, request : Requests, new : 0..numFree, hit : Nat]
      /\ h < l /\ w >= l
      /\ \A k \in h + 1..l : hash[table[r][k]] = <<>>
  BY <1>1, <1>2 DEF Working
<1>4. r \in Requests /\ p \in Prompts /\ h \in Nat /\ l \in Nat BY <1>3, PromptFacts
<1>5. table[r] \in Seq(Blocks) /\ IsInjective(table[r]) /\ w \in Nat /\ DOMAIN table[r] = 1..w
  BY <1>1, <1>4 DEF Types, Counted
<1>6. \A k \in h + 1..l : k \in 1..l /\ k \in 1..w
  <2> HIDE DEF h, l, w
  <2> QED BY <1>3, <1>4, <1>5
<1>7. ASSUME NEW k \in h + 1..l PROVE table[r][k] \in Entered /\ Place(table[r][k]) = k
  <2>1. table[r][k] \in Entered BY DEF Entered
  <2>2. \E i \in h + 1..l : table[r][i] = table[r][k] OBVIOUS
  <2>3. Place(table[r][k]) \in h + 1..l /\ table[r][Place(table[r][k])] = table[r][k]
    BY <2>2 DEF Place
  <2>4. Place(table[r][k]) \in 1..w /\ k \in 1..w BY <1>6, <2>3
  <2> QED BY <1>5, <2>1, <2>3, <2>4 DEF IsInjective
<1>8. ASSUME NEW b \in Entered
      PROVE  /\ b \in Blocks /\ hash[b] = <<>> /\ b \in ToSet(table[r])
             /\ Place(b) \in h + 1..l /\ table[r][Place(b)] = b
  <2>1. PICK k \in h + 1..l : b = table[r][k] BY DEF Entered
  <2>2. k \in DOMAIN table[r] /\ b \in Blocks BY <1>5, <1>6, <2>1
  <2>3. Place(b) = k BY <1>7, <2>1
  <2> QED BY <1>3, <2>1, <2>2, <2>3 DEF ToSet
<1>9. IsFiniteSet(Entered)
  <2>1. Entered \subseteq Blocks BY <1>8
  <2> QED BY <2>1, NodeFacts, FS_Subset
<1> QED BY <1>3, <1>4, <1>6, <1>7, <1>8, <1>9

(* The new full blocks enter the cache.                                    *)
LEMMA CacheFullBlocksIInv ==
  ASSUME IInv, CacheFullBlocks
  PROVE  /\ IInv' /\ (\A b, c : Ahead(b, c)' => Ahead(b, c)) /\ Free' = Free
         /\ \A b \in Blocks : hash'[b] = IF b \in Entered THEN SubSeq(task.prompt, 1, Place(b))
                                         ELSE hash[b]
         /\ \A b \in Blocks : depth'[b] = IF b \in Entered THEN Place(b) - 1 ELSE depth[b]
         /\ \A k \in Hashes : \E q \in Seq(Blocks) :
              cached'[k] = cached[k] \o q /\ ToSet(q) = Entering(k) /\ IsInjective(q)
<1> DEFINE p == task.prompt
<1>1. Types /\ Linked /\ Counted /\ Hashed /\ Working BY DEF IInv
<1>2. /\ task' = NoTask
      /\ UNCHANGED <<policy, list, ref, hits, table, now>>
      /\ hash' = [b \in Blocks |-> IF b \in Entered THEN SubSeq(p, 1, Place(b)) ELSE hash[b]]
      /\ stamp' = [b \in Blocks |-> IF b \in Entered THEN now ELSE stamp[b]]
      /\ depth' = [b \in Blocks |-> IF b \in Entered THEN Place(b) - 1 ELSE depth[b]]
      /\ cached' = [k \in Hashes |-> cached[k] \o SetToSeq(Entering(k))]
  BY DEF CacheFullBlocks, Entered, Place, Entering
<1>3. p \in Prompts /\ IsFiniteSet(Entered) /\ Entered \subseteq Blocks BY EnteredFacts
<1>4. \A b \in Entered : /\ hash[b] = <<>> /\ Place(b) \in Nat /\ Place(b) - 1 \in Nat
                         /\ SubSeq(p, 1, Place(b)) \in Hashes
  <2> TAKE b \in Entered
  <2>1. hash[b] = <<>> /\ Place(b) \in task.hit + 1..Len(p) BY EnteredFacts
  <2>2. Place(b) \in 1..Len(p) BY <2>1, EnteredFacts
  <2>3. Len(p) \in Nat BY <1>3, PromptFacts
  <2>4. SubSeq(p, 1, Place(b)) \in Hashes BY <1>3, <2>2, PromptFacts
  <2> QED BY <2>1, <2>2, <2>3, <2>4
<1>5. \A k \in Hashes : \E q \in Seq(Blocks) :
        cached'[k] = cached[k] \o q /\ ToSet(q) = Entering(k) /\ IsInjective(q)
  <2> TAKE k \in Hashes
  <2> DEFINE S == Entering(k)
             q == SetToSeq(S)
  <2>1. S \subseteq Entered BY DEF Entering
  <2>2. IsFiniteSet(S) /\ S \subseteq Blocks BY <1>3, <2>1, FS_Subset
  <2>3. cached'[k] = cached[k] \o q BY <1>2
  <2> HIDE DEF S
  <2>4. q \in Seq(S) /\ ToSet(q) = S /\ IsInjective(q) BY <2>2, SetInOrder
  <2> HIDE DEF q
  <2>5. q \in Seq(Blocks) BY <2>2, <2>4
  <2> QED BY <2>3, <2>4, <2>5 DEF S
<1>6. \A k \in Hashes : cached'[k] \in Seq(Blocks)
                        /\ ToSet(cached'[k]) = ToSet(cached[k]) \cup Entering(k)
  <2> TAKE k \in Hashes
  <2>1. cached[k] \in Seq(Blocks) BY <1>1 DEF Types
  <2>2. PICK q \in Seq(Blocks) : cached'[k] = cached[k] \o q /\ ToSet(q) = Entering(k) BY <1>5
  <2> DEFINE a == cached[k]
  <2>3. a \in Seq(Blocks) BY <2>1
  <2> HIDE DEF a
  <2>4. a \o q \in Seq(Blocks) /\ ToSet(a \o q) = ToSet(a) \cup ToSet(q) BY <2>3, ConcatSet
  <2> QED BY <2>2, <2>4 DEF a
<1>7. Types'
  <2>1. Scored'
    <3>1. now \in Nat /\ Scored BY <1>1 DEF Types
    <3> QED BY <1>2, <1>4, <3>1 DEF Scored
  <2>2. hash' \in [Blocks -> Hashes \cup {<<>>}] BY <1>1, <1>2, <1>4 DEF Types
  <2>3. cached' \in [Hashes -> Seq(Blocks)]
    <3>1. cached' = [k \in Hashes |-> cached'[k]] BY <1>2
    <3> QED BY <1>6, <3>1
  <2> QED BY <1>1, <1>2, <2>1, <2>2, <2>3 DEF Types, list
<1>8. Hashed'
  <2>1. ASSUME NEW k \in Hashes, NEW b \in ToSet(cached'[k]) PROVE hash'[b] = k
    <3>1. CASE b \in Entering(k) BY <1>2, <1>3, <3>1 DEF Entering
    <3>2. CASE b \in ToSet(cached[k])
      <4>1. hash[b] = k /\ b \in Blocks BY <1>1, <3>2, MembersOfSeq DEF Hashed, Types
      <4>2. b \notin Entered BY <1>4, <4>1, HashesAreNot
      <4> QED BY <1>2, <4>1, <4>2
    <3> QED BY <1>6, <2>1, <3>1, <3>2
  <2> QED BY <2>1 DEF Hashed
<1>9. Row' = Row /\ Free' = Free /\ numFree' = numFree BY <1>2 DEF Row, Free, list
<1>10. Linked' BY <1>1, <1>2, <1>9 DEF Linked, list
<1>11. \A b, c : Ahead(b, c)' => Ahead(b, c) BY <1>9 DEF Ahead
<1>12. Counted' BY <1>1, <1>2 DEF Counted, Users
<1>13. Working' BY <1>2 DEF Working
<1> QED BY <1>2, <1>5, <1>7, <1>8, <1>9, <1>10, <1>11, <1>12, <1>13 DEF IInv

-----------------------------------------------------------------------------
(* A request ends.                                                         *)
LEMMA FreeBlocksIInv ==
  ASSUME IInv, NEW r \in Requests, FreeBlocks(r)
  PROVE  /\ IInv'
         /\ Free' = Free \cup {b \in ToSet(table[r]) : ref[b] = 1}
         /\ \A b, c : Ahead(b, c)' =>
              \/ Ahead(b, c)
              \/ b \in Free /\ c \in ToSet(table[r])
              \/ \E i, j \in 1..Len(table[r]) : j < i /\ table[r][i] = b /\ table[r][j] = c
<1> DEFINE q == table[r]
           v == Reverse(q)
           S == {b \in Blocks : ref[b] = 1}
           s == Only(v, S)
<1>1. Types /\ Linked /\ Counted /\ Hashed /\ Working BY DEF IInv
<1>2. /\ task = NoTask
      /\ ref' = [b \in Blocks |-> IF b \in ToSet(table[r]) THEN ref[b] - 1 ELSE ref[b]]
      /\ PutBack(s)
      /\ table' = [table EXCEPT ![r] = <<>>]
      /\ UNCHANGED <<policy, hash, cached, scores, task, now>>
  BY DEF FreeBlocks
<1>3. q \in Seq(Blocks) /\ IsInjective(q) /\ Len(q) \in Nat BY <1>1 DEF Types, Counted
<1>4. /\ Counted' /\ Free' = Free \cup {b \in ToSet(table[r]) : ref[b] = 1}
      /\ ref' \in [Blocks -> Nat] /\ table' \in [Requests -> Seq(Blocks)]
  BY <1>1, <1>2, LessUsed
<1>5. \A b \in ToSet(q) : b \in Blocks /\ b \notin Free BY <1>1, UsedOrFree
<1>6. /\ v \in Seq(Blocks) /\ Len(v) = Len(q)
      /\ \A i \in 1..Len(q) : v[i] = q[Len(q) + 1 - i]
  <2> HIDE DEF q
  <2> QED BY <1>3, ReverseFacts
<1> HIDE DEF q
<1>7. IsInjective(v) /\ ToSet(v) = ToSet(q)
  <2> DEFINE n == Len(q)
  <2>1. n \in Nat /\ DOMAIN v = 1..n /\ DOMAIN q = 1..n BY <1>3, <1>6
  <2>2. \A i \in 1..n : v[i] = q[n + 1 - i] BY <1>6
  <2> HIDE DEF n, v
  <2>3. IsInjective(v)
    <3>1. ASSUME NEW i \in 1..n, NEW j \in 1..n, v[i] = v[j] PROVE i = j
      <4>1. n + 1 - i \in 1..n /\ n + 1 - j \in 1..n BY <2>1
      <4>2. n + 1 - i = n + 1 - j BY <1>3, <2>1, <2>2, <3>1, <4>1 DEF IsInjective
      <4> QED BY <2>1, <4>2
    <3> QED BY <2>1, <3>1 DEF IsInjective
  <2>4. ASSUME NEW b \in ToSet(v) PROVE b \in ToSet(q)
    <3>1. PICK i \in 1..n : v[i] = b BY <2>1, <2>4 DEF ToSet
    <3>2. n + 1 - i \in 1..n BY <2>1
    <3> QED BY <2>1, <2>2, <3>1, <3>2 DEF ToSet
  <2>5. ASSUME NEW b \in ToSet(q) PROVE b \in ToSet(v)
    <3>1. PICK i \in 1..n : q[i] = b BY <2>1, <2>5 DEF ToSet
    <3>2. n + 1 - i \in 1..n /\ n + 1 - (n + 1 - i) = i BY <2>1
    <3>3. v[n + 1 - i] = b BY <2>2, <3>1, <3>2
    <3> QED BY <2>1, <3>2, <3>3 DEF ToSet
  <2> QED BY <2>3, <2>4, <2>5
<1> HIDE DEF v
<1>8. s \in Seq(Blocks) /\ IsInjective(s) /\ ToSet(s) = ToSet(q) \cap S /\ FilterFacts(s, v, S)
  <2> HIDE DEF S
  <2> QED BY <1>6, <1>7, OnlySet, OnlyFacts
<1> HIDE DEF s
<1>9. ToSet(s) \cap Free = {} /\ Free' = Free \cup ToSet(s)
  <2>1. ToSet(s) = {b \in ToSet(q) : ref[b] = 1} BY <1>5, <1>8
  <2> QED BY <1>4, <1>5, <2>1 DEF q
<1>10. Linked' /\ numFree' \in Nat
       /\ \A b, c : Ahead(b, c)' =>
              \/ Ahead(b, c)
              \/ b \in Free /\ c \in ToSet(s)
              \/ \E i, j \in 1..Len(s) : i < j /\ s[i] = b /\ s[j] = c
  BY <1>1, <1>2, <1>8, <1>9, PutBackStep
<1>11. ASSUME NEW i \in 1..Len(s), NEW j \in 1..Len(s), i < j
       PROVE  \E a, b \in 1..Len(q) : b < a /\ q[a] = s[i] /\ q[b] = s[j]
  <2>1. PICK a \in 1..Len(v), b \in 1..Len(v) : a < b /\ s[i] = v[a] /\ s[j] = v[b]
    BY <1>8, <1>11 DEF FilterFacts
  <2> DEFINE n == Len(q)
  <2>2. n \in Nat /\ a \in 1..n /\ b \in 1..n BY <1>3, <1>6
  <2>3. v[a] = q[n + 1 - a] /\ v[b] = q[n + 1 - b] BY <1>6, <2>2
  <2> HIDE DEF n
  <2>4. n + 1 - a \in 1..n /\ n + 1 - b \in 1..n /\ n + 1 - b < n + 1 - a BY <2>1, <2>2
  <2> QED BY <2>1, <2>3, <2>4 DEF n
<1>12. \A b, c : Ahead(b, c)' =>
              \/ Ahead(b, c)
              \/ b \in Free /\ c \in ToSet(q)
              \/ \E i, j \in 1..Len(q) : j < i /\ q[i] = b /\ q[j] = c
  <2>1. SUFFICES ASSUME NEW b, NEW c, Ahead(b, c)', ~Ahead(b, c),
                        ~(b \in Free /\ c \in ToSet(q))
                 PROVE  \E i, j \in 1..Len(q) : j < i /\ q[i] = b /\ q[j] = c
    OBVIOUS
  <2>2. ToSet(s) \subseteq ToSet(q) BY <1>8
  <2>3. PICK i \in 1..Len(s), j \in 1..Len(s) : i < j /\ s[i] = b /\ s[j] = c
    BY <1>10, <2>1, <2>2
  <2>4. PICK x \in 1..Len(q), y \in 1..Len(q) : y < x /\ q[x] = s[i] /\ q[y] = s[j]
    BY <1>11, <2>3
  <2> QED BY <2>3, <2>4
<1>13. Types'
  <2>1. Scored' BY <1>1, <1>2 DEF Types, Scored, scores
  <2> QED BY <1>1, <1>2, <1>4, <1>10, <2>1 DEF Types
<1>14. Hashed' BY <1>1, <1>2 DEF Hashed
<1>15. Working' BY <1>2 DEF Working
<1> QED BY <1>4, <1>10, <1>12, <1>13, <1>14, <1>15 DEF IInv, q

-----------------------------------------------------------------------------
(* The clock, and steps that change nothing.                               *)
LEMMA SameIInv ==
  ASSUME IInv, UNCHANGED <<policy, list, ref, hash, cached, scores, table, task>>, now' \in Nat
  PROVE  IInv' /\ (\A b, c : Ahead(b, c)' => Ahead(b, c)) /\ Free' = Free
<1>1. Row' = Row /\ Free' = Free /\ numFree' = numFree /\ next' = next /\ prev' = prev
  BY DEF Row, Free, list
<1>2. Linked' /\ \A b, c : Ahead(b, c)' => Ahead(b, c) BY <1>1 DEF Linked, IInv, Ahead
<1>3. Types' BY <1>1 DEF Types, Scored, scores, IInv
<1>4. Counted' /\ Hashed' BY DEF Counted, Users, Hashed, IInv
<1>5. Working' BY <1>1 DEF Working, IInv
<1> QED BY <1>1, <1>2, <1>3, <1>4, <1>5 DEF IInv

(* Every step preserves the invariant.                                     *)
LEMMA NextIInv ==
  ASSUME IInv, [Next]_vars PROVE IInv'
<1>1. CASE \E r \in Requests, p \in Prompts, extra \in 0..1 : Touch(r, p, extra)
  BY <1>1, TouchIInv
<1>2. CASE GetNewBlocks BY <1>2, GetNewBlocksIInv
<1>3. CASE CacheFullBlocks BY <1>3, CacheFullBlocksIInv
<1>4. CASE \E r \in Requests : FreeBlocks(r) BY <1>4, FreeBlocksIInv
<1>5. CASE Tick
  <2>1. now' \in Nat BY <1>5 DEF Tick, IInv, Types
  <2> QED BY <1>5, <2>1, SameIInv DEF Tick
<1>6. CASE UNCHANGED vars
  <2>1. now' \in Nat BY <1>6 DEF vars, IInv, Types
  <2> QED BY <1>6, <2>1, SameIInv DEF vars
<1> QED BY <1>1, <1>2, <1>3, <1>4, <1>5, <1>6 DEF Next

(* What the chain of the links says of the walks.                          *)
LEMMA IInvList ==
  ASSUME IInv PROVE ListIsPool
<1> DEFINE n == numFree
           t == Row
<1>1. n \in Nat /\ Chained(next, prev, t, n) /\ Inner(t, n) = Free BY DEF IInv, Types, Linked
<1> HIDE DEF t
<1>2. Cardinality(Free) = n BY <1>1, InnerFacts
<1>3. /\ \A k \in 0..n + 1 : Walk(next, FakeHead)[k] = t[k]
      /\ \A k \in 0..n + 1 : Walk(prev, FakeTail)[k] = t[n + 1 - k]
  BY <1>1, WalkBothWays
<1>4. {Walk(next, FakeHead)[k] : k \in 1..n} = Free
  <2>1. \A k \in 1..n : k \in 0..n + 1 BY <1>1
  <2> QED BY <1>1, <1>3, <2>1 DEF Inner
<1>5. \A k \in 0..n + 1 : Walk(prev, FakeTail)[k] = Walk(next, FakeHead)[n + 1 - k]
  <2>1. \A k \in 0..n + 1 : n + 1 - k \in 0..n + 1 BY <1>1
  <2> QED BY <1>3, <2>1
<1> QED BY <1>2, <1>4, <1>5 DEF ListIsPool

(* Whatever is taken from its middle, the free list read either way holds  *)
(* the blocks that no request uses, each once, and num_free_blocks counts  *)
(* them.                                                                   *)
THEOREM FreeListIsPool == Spec => []ListIsPool
<1>1. Init => IInv BY InitIInv
<1>2. IInv /\ [Next]_vars => IInv' BY NextIInv
<1>3. IInv => ListIsPool BY IInvList
<1> QED BY <1>1, <1>2, <1>3, PTL DEF Spec

-----------------------------------------------------------------------------
(* The prefix of a block's hash without the block, and the block that ends *)
(* it: the one a request that uses both has before it.                     *)
Prefix(k) == SubSeq(k, 1, Len(k) - 1)
Parent(b) == cached[Prefix(hash[b])][1]

(* A block that is not cached has no hits and one user; a cached one is    *)
(* listed under its hash, at its depth.                                    *)
Known ==
  \A b \in Blocks :
    /\ hash[b] = <<>> => hits[b] = 0 /\ \A r, x \in Users(b) : r = x
    /\ hash[b] # <<>> => depth[b] = Len(hash[b]) - 1 /\ b \in ToSet(cached[hash[b]])

(* A parent is cached, has no fewer hits and does not leave first.         *)
Chains ==
  \A b \in Blocks : Len(hash[b]) > 1 =>
    /\ cached[Prefix(hash[b])] # <<>>
    /\ policy = "lru" => ~Ahead(Parent(b), b)
    /\ hits[b] <= hits[Parent(b)]

(* The cached blocks of a request follow their parents.                    *)
Tables ==
  \A r \in Requests : \A i \in 1..Len(table[r]) : hash[table[r][i]] # <<>> =>
    /\ Len(hash[table[r][i]]) = i
    /\ i > 1 => table[r][i - 1] = Parent(table[r][i])

(* The request that starts uses the first blocks of its cached prefixes,   *)
(* and no longer prefix that it will enter is cached.                      *)
Pending ==
  task # NoTask =>
    /\ Len(table[task.request]) >= task.hit
    /\ \A k \in 1..task.hit : /\ cached[SubSeq(task.prompt, 1, k)] # <<>>
                              /\ table[task.request][k] = cached[SubSeq(task.prompt, 1, k)][1]
    /\ \A k \in task.hit + 1..Len(task.prompt) - 1 : cached[SubSeq(task.prompt, 1, k)] = <<>>

Rooted == Known /\ Chains /\ Tables /\ Pending
CInv == IInv /\ (policy # "tdf" => Rooted)

-----------------------------------------------------------------------------
(* The prefix of a prompt's hash is the hash one block shorter.            *)
LEMMA PrefixOf ==
  ASSUME NEW p \in Prompts, NEW j \in 1..Len(p), j > 1
  PROVE  /\ Prefix(SubSeq(p, 1, j)) = SubSeq(p, 1, j - 1) /\ j - 1 \in 1..Len(p)
         /\ SubSeq(p, 1, j - 1) \in Hashes
<1> DEFINE X == ToSet(p)
           s == SubSeq(p, 1, j)
           u == SubSeq(p, 1, j - 1)
           v == SubSeq(s, 1, j - 1)
<1>1. Len(p) \in Nat \ {0} /\ p \in Seq(X) /\ Len(s) = j BY PromptFacts
<1>2. j \in Nat /\ j - 1 \in Nat /\ j - 1 \in 1..Len(p) BY <1>1
<1>3. \A i \in 1..j : p[i] \in X
  <2>1. \A i \in 1..j : i \in 1..Len(p) BY <1>1, <1>2
  <2> HIDE DEF X
  <2> QED BY <1>1, <2>1
<1>4. s \in Seq(X) /\ \A i \in 1..j : s[i] = p[i]
  <2> HIDE DEF X
  <2>1. /\ SubSeq(p, 1, j) \in Seq(X)
        /\ \A i \in 1..j - 1 + 1 : SubSeq(p, 1, j)[i] = p[1 + i - 1]
    BY <1>2, <1>3, SubSeqProperties
  <2>2. \A i \in 1..j : i \in 1..j - 1 + 1 /\ 1 + i - 1 = i BY <1>2
  <2> QED BY <2>1, <2>2
<1>5. /\ u \in Seq(X) /\ Len(u) = j - 1 /\ \A i \in 1..j - 1 : u[i] = p[i]
  <2> DEFINE m == j - 1
  <2>0. m \in Nat \ {0} /\ m \in Int /\ \A i \in 1..m : i \in 1..j BY <1>2
  <2>4. \A i \in 1..m : p[i] \in X BY <1>3, <2>0
  <2> HIDE DEF X, m
  <2>1. /\ SubSeq(p, 1, m) \in Seq(X)
        /\ Len(SubSeq(p, 1, m)) = IF 1 <= m THEN m - 1 + 1 ELSE 0
        /\ \A i \in 1..m - 1 + 1 : SubSeq(p, 1, m)[i] = p[1 + i - 1]
    BY <2>0, <2>4, SubSeqProperties
  <2>2. \A i \in 1..m : i \in 1..m - 1 + 1 /\ 1 + i - 1 = i BY <2>0
  <2>3. (IF 1 <= m THEN m - 1 + 1 ELSE 0) = m BY <2>0
  <2> QED BY <2>1, <2>2, <2>3 DEF m
<1>6. /\ v \in Seq(X) /\ Len(v) = j - 1 /\ \A i \in 1..j - 1 : v[i] = s[i]
  <2> DEFINE m == j - 1
  <2>0. m \in Nat \ {0} /\ m \in Int /\ \A i \in 1..m : i \in 1..j BY <1>2
  <2>4. \A i \in 1..m : s[i] \in X BY <1>3, <1>4, <2>0
  <2> HIDE DEF X, m, s
  <2>1. /\ SubSeq(s, 1, m) \in Seq(X)
        /\ Len(SubSeq(s, 1, m)) = IF 1 <= m THEN m - 1 + 1 ELSE 0
        /\ \A i \in 1..m - 1 + 1 : SubSeq(s, 1, m)[i] = s[1 + i - 1]
    BY <2>0, <2>4, SubSeqProperties
  <2>2. \A i \in 1..m : i \in 1..m - 1 + 1 /\ 1 + i - 1 = i BY <2>0
  <2>3. (IF 1 <= m THEN m - 1 + 1 ELSE 0) = m BY <2>0
  <2> QED BY <2>1, <2>2, <2>3 DEF m
<1>7. v = u
  <2>1. \A i \in 1..j - 1 : i \in 1..j BY <1>2
  <2>2. \A i \in 1..j - 1 : v[i] = u[i] BY <1>4, <1>5, <1>6, <2>1
  <2> HIDE DEF u, v, X
  <2> QED BY <1>5, <1>6, <2>2, SeqEqual
<1>8. Prefix(s) = v BY <1>1 DEF Prefix
<1>9. u \in Hashes BY <1>2, PromptFacts
<1> QED BY <1>2, <1>7, <1>8, <1>9

(* The parent of a cached block.                                           *)
LEMMA ParentFacts ==
  ASSUME IInv, NEW b \in Blocks, Len(hash[b]) > 1
  PROVE  /\ Prefix(hash[b]) \in Hashes
         /\ cached[Prefix(hash[b])] # <<>> =>
              Parent(b) \in Blocks /\ hash[Parent(b)] = Prefix(hash[b])
              /\ Prefix(hash[b]) # <<>> /\ Len(Prefix(hash[b])) = Len(hash[b]) - 1
              /\ Len(hash[b]) \in Nat
<1>1. Types /\ Hashed BY DEF IInv
<1>2. hash[b] \in Hashes
  <2>1. hash[b] # <<>> BY HashesAreNot
  <2> QED BY <1>1, <2>1 DEF Types
<1>3. PICK p \in Prompts : \E j \in 1..Len(p) : hash[b] = SubSeq(p, 1, j) BY <1>2 DEF Hashes
<1>9. PICK j \in 1..Len(p) : hash[b] = SubSeq(p, 1, j) BY <1>3
<1>4. Len(hash[b]) = j /\ j > 1 BY <1>9, PromptFacts
<1> DEFINE F == Prefix(hash[b])
<1>5. F = SubSeq(p, 1, j - 1) /\ j - 1 \in 1..Len(p) /\ F \in Hashes BY <1>9, <1>4, PrefixOf
<1>6. ASSUME cached[F] # <<>> PROVE Parent(b) \in Blocks /\ hash[Parent(b)] = F
  <2>1. cached[F] \in Seq(Blocks) /\ Parent(b) = cached[F][1] BY <1>1, <1>5 DEF Types, Parent
  <2> HIDE DEF F
  <2>2. cached[F][1] \in Blocks /\ cached[F][1] \in ToSet(cached[F]) BY <1>6, <2>1 DEF ToSet
  <2> QED BY <1>1, <1>5, <2>1, <2>2 DEF Hashed
<1>7. F # <<>> /\ Len(F) = j - 1 BY <1>5, PromptFacts
<1>8. j \in Nat BY PromptFacts
<1> QED BY <1>4, <1>5, <1>6, <1>7, <1>8

(* Who uses a block uses its parent.                                       *)
LEMMA ParentUsed ==
  ASSUME IInv, Tables, NEW b \in Blocks, Len(hash[b]) > 1, b \notin Free
  PROVE  Parent(b) \notin Free
<1>1. Types /\ Counted BY DEF IInv
<1>2. ref[b] # 0 /\ ref[b] = Cardinality(Users(b)) BY <1>1 DEF Free, Counted
<1>3. Users(b) # {} BY <1>2, FS_EmptySet
<1>4. PICK r \in Requests : b \in ToSet(table[r]) BY <1>3 DEF Users
<1>5. table[r] \in Seq(Blocks) BY <1>1 DEF Types
<1>6. PICK i \in 1..Len(table[r]) : table[r][i] = b BY <1>4, <1>5, MembersOfSeq
<1>7. hash[b] # <<>> BY HashesAreNot
<1>8. Len(hash[b]) = i /\ table[r][i - 1] = Parent(b) BY <1>6, <1>7 DEF Tables
<1>9. i - 1 \in 1..Len(table[r]) /\ DOMAIN table[r] = 1..Len(table[r]) BY <1>5, <1>8
<1>10. Parent(b) \in ToSet(table[r]) BY <1>8, <1>9 DEF ToSet
<1> QED BY <1>1, <1>10, UsedOrFree

(* The order of the list is one of free blocks.                            *)
LEMMA AheadFree ==
  ASSUME IInv, NEW b, NEW c, Ahead(b, c) PROVE b \in Free /\ c \in Free
BY DEF IInv, Linked, Ahead, Before, Inner

(* At first nothing is cached.                                             *)
LEMMA InitCInv ==
  ASSUME Init PROVE CInv
<1>1. IInv BY InitIInv
<1>2. \A b \in Blocks : hash[b] = <<>> /\ hits[b] = 0 BY DEF Init
<1>3. \A r \in Requests : table[r] = <<>> BY DEF Init
<1>4. \A b : Users(b) = {}
  <2>1. \A b : b \notin ToSet(<<>>) BY DEF ToSet
  <2> QED BY <1>3, <2>1 DEF Users
<1>5. Known BY <1>2, <1>4 DEF Known
<1>6. Chains BY <1>2 DEF Chains
<1>7. Tables BY <1>3 DEF Tables
<1>8. Pending BY DEF Init, Pending
<1> QED BY <1>1, <1>5, <1>6, <1>7, <1>8 DEF CInv, Rooted

-----------------------------------------------------------------------------
(* A request touches its cached blocks.                                    *)
LEMMA TouchRooted ==
  ASSUME IInv, Rooted, NEW r \in Requests, NEW p \in Prompts, NEW extra \in 0..1,
         Touch(r, p, extra)
  PROVE  Rooted'
<1> DEFINE q == Touched(p)
           h == Hit(p)
<1>1. Types /\ Counted /\ Hashed /\ Known /\ Chains /\ Tables BY DEF IInv, Rooted
<1>2. /\ hits' = [b \in Blocks |-> IF b \in ToSet(q) THEN hits[b] + 1 ELSE hits[b]]
      /\ table' = [table EXCEPT ![r] = q]
      /\ task' = [prompt |-> p, request |-> r, new |-> Len(p) - Hit(p) + extra, hit |-> h]
      /\ UNCHANGED <<policy, hash, cached, depth>>
  BY DEF Touch, Touched
<1>3. q \in Seq(Blocks) /\ Len(q) = h /\ IsInjective(q) /\ DOMAIN q = 1..h
      /\ \A k \in 1..h : hash[q[k]] = SubSeq(p, 1, k) /\ q[k] = cached[SubSeq(p, 1, k)][1]
  <2>1. \A k \in 1..h : q[k] = cached[SubSeq(p, 1, k)][1] BY DEF Touched
  <2>2. q \in Seq(Blocks) /\ Len(q) = h BY <1>1, TouchedFacts
  <2>3. DOMAIN q = 1..h BY DEF Touched
  <2> QED BY <1>1, <2>1, <2>2, <2>3, TouchedFacts
<1>4. h \in Nat /\ h < Len(p) /\ Len(p) \in Nat BY HitFacts, PromptFacts
<1>5. \A b, c : Ahead(b, c)' => Ahead(b, c) BY TouchIInv
<1> HIDE DEF q
<1>6. ASSUME NEW k \in 1..h
      PROVE  /\ hash[q[k]] # <<>> /\ Len(hash[q[k]]) = k /\ q[k] \in Blocks
             /\ k > 1 => q[k - 1] = Parent(q[k]) /\ k - 1 \in 1..h
  <2>1. k \in 1..Len(p)
    <3> DEFINE l == Len(p)
    <3>1. l \in Nat /\ h < l BY <1>4
    <3> HIDE DEF l, h
    <3>2. k \in 1..l BY <1>4, <3>1
    <3> QED BY <3>2 DEF l
  <2>2. hash[q[k]] = SubSeq(p, 1, k) BY <1>3
  <2>3. hash[q[k]] # <<>> /\ Len(hash[q[k]]) = k BY <2>1, <2>2, PromptFacts
  <2>4. q[k] \in Blocks BY <1>3
  <2>5. ASSUME k > 1 PROVE q[k - 1] = Parent(q[k]) /\ k - 1 \in 1..h
    <3>1. Prefix(hash[q[k]]) = SubSeq(p, 1, k - 1) BY <2>1, <2>2, <2>5, PrefixOf
    <3>2. k - 1 \in 1..h BY <1>4, <2>5
    <3>3. q[k - 1] = cached[SubSeq(p, 1, k - 1)][1] BY <1>3, <3>2
    <3> QED BY <3>1, <3>2, <3>3 DEF Parent
  <2> QED BY <2>3, <2>4, <2>5
<1>7. \A b : Parent(b)' = Parent(b) BY <1>2 DEF Parent
<1>8. Known'
  <2> SUFFICES ASSUME NEW b \in Blocks
               PROVE  /\ hash'[b] = <<>> => hits'[b] = 0 /\ \A x, y \in Users(b)' : x = y
                      /\ hash'[b] # <<>> => depth'[b] = Len(hash'[b]) - 1 /\ b \in ToSet(cached'[hash'[b]])
    BY DEF Known
  <2>1. ASSUME hash'[b] = <<>> PROVE hits'[b] = 0 /\ \A x, y \in Users(b)' : x = y
    <3>1. hash[b] = <<>> /\ hits[b] = 0 /\ \A x, y \in Users(b) : x = y BY <1>1, <1>2, <2>1 DEF Known
    <3>2. b \notin ToSet(q) BY <1>3, <1>6, <3>1 DEF ToSet
    <3>3. Users(b)' = Users(b) \ {r}
      <4>1. Users(b)' = IF b \in ToSet(q) THEN Users(b) \cup {r} ELSE Users(b) \ {r}
        BY <1>1, <1>2, <1>3, UsersChange
      <4> QED BY <3>2, <4>1
    <3> QED BY <1>2, <3>1, <3>2, <3>3
  <2>2. ASSUME hash'[b] # <<>>
        PROVE depth'[b] = Len(hash'[b]) - 1 /\ b \in ToSet(cached'[hash'[b]])
    BY <1>1, <1>2, <2>2 DEF Known
  <2> QED BY <2>1, <2>2
<1>9. Chains'
  <2> SUFFICES ASSUME NEW b \in Blocks, Len(hash'[b]) > 1
               PROVE  /\ cached'[Prefix(hash'[b])] # <<>>
                      /\ policy' = "lru" => ~(Ahead(Parent(b), b)')
                      /\ hits'[b] <= hits'[Parent(b)']
    BY DEF Chains
  <2>1. /\ cached[Prefix(hash[b])] # <<>> /\ (policy = "lru" => ~Ahead(Parent(b), b))
        /\ hits[b] <= hits[Parent(b)]
    BY <1>1, <1>2 DEF Chains
  <2>2. Len(hash[b]) > 1 BY <1>2
  <2>3. Parent(b) \in Blocks BY <2>1, <2>2, ParentFacts
  <2>4. hits[b] \in Nat /\ hits[Parent(b)] \in Nat BY <1>1, <2>3 DEF Types, Scored
  <2>5. b \in ToSet(q) => Parent(b) \in ToSet(q)
    <3> SUFFICES ASSUME b \in ToSet(q) PROVE Parent(b) \in ToSet(q) OBVIOUS
    <3>1. PICK k \in 1..h : b = q[k] BY <1>3 DEF ToSet
    <3>2. Len(hash[b]) = k /\ q[k - 1] = Parent(b) /\ k - 1 \in 1..h BY <1>6, <2>2, <3>1
    <3> QED BY <1>3, <3>2 DEF ToSet
  <2>6. hits'[b] <= hits'[Parent(b)] BY <1>2, <2>1, <2>3, <2>4, <2>5
  <2>7. policy' = "lru" => ~(Ahead(Parent(b), b)') BY <1>2, <1>5, <1>7, <2>1 DEF Ahead
  <2> QED BY <1>2, <1>7, <2>1, <2>6, <2>7
<1>10. Tables'
  <2> SUFFICES ASSUME NEW x \in Requests, NEW i \in 1..Len(table'[x]), hash'[table'[x][i]] # <<>>
               PROVE  /\ Len(hash'[table'[x][i]]) = i
                      /\ i > 1 => table'[x][i - 1] = cached'[Prefix(hash'[table'[x][i]])][1]
    BY DEF Tables, Parent
  <2>1. table'[x] = IF x = r THEN q ELSE table[x] BY <1>1, <1>2 DEF Types
  <2>2. CASE x = r
    <3>1. i \in 1..h /\ table'[x] = q BY <1>3, <2>1, <2>2
    <3>2. /\ Len(hash[q[i]]) = i
          /\ i > 1 => q[i - 1] = cached[Prefix(hash[q[i]])][1]
      BY <1>6, <3>1 DEF Parent
    <3> QED BY <1>2, <3>1, <3>2
  <2>3. CASE x # r
    <3>1. table'[x] = table[x] /\ i \in 1..Len(table[x]) /\ hash[table[x][i]] # <<>>
      BY <1>2, <2>1, <2>3
    <3>2. /\ Len(hash[table[x][i]]) = i
          /\ i > 1 => table[x][i - 1] = cached[Prefix(hash[table[x][i]])][1]
      BY <1>1, <3>1 DEF Tables, Parent
    <3> QED BY <1>2, <3>1, <3>2
  <2> QED BY <2>2, <2>3
<1>11. Pending'
  <2>1. task'.prompt = p /\ task'.request = r /\ task'.hit = h BY <1>2
  <2>2. table'[r] = q BY <1>1, <1>2 DEF Types
  <2>3. \A k \in 1..h : cached[SubSeq(p, 1, k)] # <<>> /\ q[k] = cached[SubSeq(p, 1, k)][1]
    BY <1>3, HitFacts
  <2>4. \A k \in h + 1..Len(p) - 1 : cached[SubSeq(p, 1, k)] = <<>>
    <3> DEFINE l == Len(p)
               T == {k \in h + 1..l - 1 : cached[SubSeq(p, 1, k)] # <<>>}
    <3>1. l \in Nat /\ h < l /\ \A k \in 0..l - 1 :
              (\A j \in 1..k : cached[SubSeq(p, 1, j)] # <<>>) => k <= h
      BY <1>4, HitFacts
    <3>5. \A j \in 1..h : cached[SubSeq(p, 1, j)] # <<>> BY HitFacts
    <3>9. \A k \in 1..l : SubSeq(p, 1, k) \in Hashes /\ Len(SubSeq(p, 1, k)) = k BY PromptFacts
    <3>10. \A k \in 1..l : k > 1 => Prefix(SubSeq(p, 1, k)) = SubSeq(p, 1, k - 1) BY PrefixOf
    <3> HIDE DEF l, h
    <3>2. SUFFICES ASSUME T # {} PROVE FALSE BY DEF l
    <3>3. T \subseteq Nat BY <1>4, <3>1
    <3>4. PICK k \in T : \A m \in T : k <= m
      <4> HIDE DEF T
      <4> QED BY <3>2, <3>3, LeastElement
    <3>6. k \in h + 1..l - 1 /\ cached[SubSeq(p, 1, k)] # <<>> /\ k \in 1..l /\ k - 1 \in 0..l - 1
      BY <1>4, <3>1
    <3>7. CASE k = h + 1
      <4>1. \A j \in 1..k : j \in 1..h \/ j = k BY <1>4, <3>7
      <4>2. \A j \in 1..k : cached[SubSeq(p, 1, j)] # <<>> BY <3>5, <3>6, <4>1
      <4>3. k \in 0..l - 1 BY <1>4, <3>1, <3>6
      <4>4. k <= h BY <3>1, <4>2, <4>3
      <4> QED BY <1>4, <3>7, <4>4
    <3>8. CASE k # h + 1
      <4> DEFINE f == SubSeq(p, 1, k)
      <4>1. k > 1 /\ k - 1 \in h + 1..l - 1 BY <1>4, <3>1, <3>6, <3>8
      <4>2. f \in Hashes /\ Len(f) = k /\ Prefix(f) = SubSeq(p, 1, k - 1) BY <3>6, <3>9, <3>10, <4>1
      <4>3. cached[f] \in Seq(Blocks) /\ cached[f] # <<>> BY <1>1, <3>6, <4>2 DEF Types
      <4> DEFINE b == cached[f][1]
      <4> HIDE DEF f
      <4>4. b \in Blocks /\ b \in ToSet(cached[f]) BY <4>3 DEF ToSet
      <4>5. hash[b] = f BY <1>1, <4>2, <4>4 DEF Hashed
      <4> HIDE DEF b
      <4>6. cached[Prefix(f)] # <<>> BY <1>1, <4>1, <4>2, <4>4, <4>5 DEF Chains
      <4>7. k - 1 \in T BY <4>1, <4>2, <4>6
      <4> HIDE DEF T
      <4> QED BY <3>4, <3>6, <4>7
    <3> QED BY <3>7, <3>8
  <2>5. Len(table'[r]) >= h BY <1>3, <1>4, <2>2
  <2> HIDE DEF h
  <2> QED BY <1>2, <2>1, <2>2, <2>3, <2>4, <2>5 DEF Pending
<1> QED BY <1>8, <1>9, <1>10, <1>11 DEF Rooted

(* Of two numbers of hits and two depths, the deeper block with no more    *)
(* hits has the lower score.                                               *)
LEMMA DeeperIsLower ==
  ASSUME NEW a \in Nat, NEW b \in Nat, NEW d \in Nat, a <= b
  PROVE  (a + 1) * (d + 1) < (b + 1) * (d + 1 + 1)
<1> DEFINE x == a + 1
           y == b + 1
           z == d + 1
<1>1. x \in Nat /\ y \in Nat \ {0} /\ z \in Nat /\ x <= y OBVIOUS
<1> HIDE DEF x, y, z
<1>2. x * z <= y * z BY <1>1
<1>3. y * (z + 1) = y * z + y BY <1>1
<1>4. x * z < y * (z + 1)
  <2> DEFINE u == x * z
             v == y * z
             w == y * (z + 1)
  <2>1. u \in Nat /\ v \in Nat /\ u <= v /\ w = v + y BY <1>1, <1>2, <1>3
  <2> HIDE DEF u, v, w
  <2> QED BY <1>1, <2>1 DEF u, w
<1> QED BY <1>4 DEF x, y, z

(* Under cf a block's score is below its parent's.                         *)
LEMMA ParentIsHigher ==
  ASSUME IInv, Known, Chains, policy = "cf", NEW b \in Blocks, Len(hash[b]) > 1
  PROVE  Below(b, Parent(b)) /\ ~Below(Parent(b), b)
<1> DEFINE f == Parent(b)
           l == Len(hash[b])
<1>1. cached[Prefix(hash[b])] # <<>> /\ hits[b] <= hits[f] BY DEF Chains
<1>2. f \in Blocks /\ hash[f] # <<>> /\ Len(hash[f]) = l - 1 /\ l \in Nat BY <1>1, ParentFacts
<1>3. hash[b] # <<>> BY HashesAreNot
<1>4. depth[b] = l - 1 /\ depth[f] = l - 1 - 1 BY <1>2, <1>3 DEF Known
<1>5. Scored BY DEF IInv, Types
<1>6. hits[b] \in Nat /\ hits[f] \in Nat /\ depth[f] \in Nat /\ depth[b] = depth[f] + 1
  <2>1. hits[b] \in Nat /\ hits[f] \in Nat /\ depth[f] \in Nat BY <1>2, <1>5 DEF Scored
  <2> HIDE DEF f, l
  <2> QED BY <1>2, <1>4, <2>1
<1> HIDE DEF f
<1>7. (hits[b] + 1) * (depth[f] + 1) < (hits[f] + 1) * (depth[f] + 1 + 1)
  BY <1>1, <1>6, DeeperIsLower
<1>8. Below(b, f) BY <1>6, <1>7 DEF Below
<1>9. ~Below(f, b)
  <2>1. ~Below(b, b) /\ (Below(b, f) /\ Below(f, b) => Below(b, b)) BY <1>2, <1>5, ScoresOrdered
  <2> QED BY <1>8, <2>1
<1> QED BY <1>8, <1>9 DEF f

(* No block leaves before one that continues it.                           *)
LEMMA ParentStays ==
  ASSUME IInv, Rooted, policy # "tdf", task # NoTask, task.new > 0,
         NEW b \in Blocks, Len(hash[b]) > 1, b \notin ToSet(Selected(task.new))
  PROVE  Parent(b) \notin ToSet(Selected(task.new))
<1> DEFINE f == Parent(b)
           m == task.new
           s == Selected(m)
           t == Row
           n == numFree
<1>1. Types /\ Linked /\ Working /\ Known /\ Chains /\ Tables BY DEF IInv, Rooted
<1>2. m \in 0..n /\ n \in Nat BY <1>1 DEF Working, Types
<1>3. Scored /\ Chained(next, prev, t, n) /\ Inner(t, n) = Free BY <1>1 DEF Types, Linked
<1>4. policy = "lru" => ~Ahead(f, b) BY <1>1 DEF Chains
<1>5. policy # "lru" => Below(b, f) /\ ~Below(f, b)
  <2>1. policy # "lru" => policy = "cf" BY <1>1 DEF Types, Policies
  <2> QED BY <1>1, <2>1, ParentIsHigher
<1>6. b \notin Free => f \notin Free BY <1>1, ParentUsed
<1> HIDE DEF f, m, t, n
<1>7. /\ ToSet(s) \subseteq Inner(t, n)
      /\ \A i, j \in 1..n :
           /\ t[i] \notin ToSet(s) /\ t[j] \in ToSet(s)
           /\ policy # "lru" => ~Below(t[j], t[i])
           => j < i /\ (policy # "lru" => ~Below(t[i], t[j]))
  BY <1>2, <1>3, SelectedBlocks
<1> HIDE DEF s
<1>8. SUFFICES ASSUME f \in ToSet(s) PROVE FALSE BY DEF s, m, f
<1>9. b \in Free /\ b \notin ToSet(s) BY <1>3, <1>6, <1>7, <1>8 DEF s, m
<1>10. PICK i \in 1..n : t[i] = b BY <1>3, <1>9 DEF Inner
<1>11. PICK j \in 1..n : t[j] = f BY <1>3, <1>7, <1>8 DEF Inner
<1>12. j < i /\ (policy # "lru" => ~Below(b, f)) BY <1>5, <1>7, <1>8, <1>9, <1>10, <1>11
<1>13. Ahead(f, b) BY <1>10, <1>11, <1>12 DEF Ahead, Before, t, n
<1> QED BY <1>4, <1>5, <1>12, <1>13

-----------------------------------------------------------------------------
(* A request gets new blocks.                                              *)
LEMMA GetNewBlocksRooted ==
  ASSUME IInv, Rooted, policy # "tdf", GetNewBlocks
  PROVE  Rooted'
<1> DEFINE r == task.request
<1>1. Types /\ Counted /\ Hashed /\ Working /\ Known /\ Chains /\ Tables /\ Pending
  BY DEF IInv, Rooted
<1>2. /\ task # NoTask /\ task.new > 0 /\ task' = [task EXCEPT !.new = 0] /\ policy' = policy
  BY DEF GetNewBlocks
<1>3. /\ task \in [prompt : Prompts, request : Requests, new : 0..numFree, hit : Nat]
      /\ Len(table[r]) = task.hit
  BY <1>1, <1>2 DEF Working
<1>4. PICK s : /\ s = Selected(task.new) /\ s \in Seq(Blocks) /\ IsInjective(s)
               /\ ToSet(s) \subseteq Free /\ Free' = Free \ ToSet(s)
               /\ hash' = [b \in Blocks |-> IF b \in ToSet(s) THEN <<>> ELSE hash[b]]
               /\ \A k \in Hashes : ToSet(cached'[k]) = ToSet(cached[k]) \ ToSet(s)
               /\ table' = [table EXCEPT ![r] = table[r] \o s]
               /\ \A k \in Hashes : cached[k] # <<>> /\ cached[k][1] \notin ToSet(s) =>
                    cached'[k] # <<>> /\ cached'[k][1] = cached[k][1]
               /\ \A b \in Blocks : hits'[b] = IF b \in ToSet(s) /\ hash[b] # <<>> THEN 0 ELSE hits[b]
               /\ \A b \in Blocks : b \notin ToSet(s) => depth'[b] = depth[b]
  BY GetNewBlocksIInv
<1>5. \A b, c : Ahead(b, c)' => Ahead(b, c) BY GetNewBlocksIInv
<1>6. r \in Requests /\ table[r] \in Seq(Blocks) BY <1>1, <1>3 DEF Types
<1> DEFINE q == table[r] \o s
<1>7. /\ q \in Seq(Blocks) /\ ToSet(q) = ToSet(table[r]) \cup ToSet(s)
      /\ Len(q) = Len(table[r]) + Len(s) /\ Len(table[r]) \in Nat /\ Len(s) \in Nat
      /\ \A i \in 1..Len(q) : \/ i <= Len(table[r]) /\ q[i] = table[r][i]
                              \/ ~(i <= Len(table[r])) /\ q[i] \in ToSet(s)
  <2> DEFINE a == table[r]
  <2>1. a \in Seq(Blocks) /\ Len(a) \in Nat /\ Len(s) \in Nat /\ DOMAIN s = 1..Len(s) BY <1>4, <1>6
  <2> HIDE DEF a
  <2>2. /\ a \o s \in Seq(Blocks) /\ ToSet(a \o s) = ToSet(a) \cup ToSet(s)
        /\ Len(a \o s) = Len(a) + Len(s)
        /\ \A i \in 1..Len(a) + Len(s) : (a \o s)[i] = IF i <= Len(a) THEN a[i] ELSE s[i - Len(a)]
    BY <1>4, <2>1, ConcatSet
  <2>3. ASSUME NEW i \in 1..Len(a) + Len(s), ~(i <= Len(a)) PROVE s[i - Len(a)] \in ToSet(s)
    <3>1. i - Len(a) \in 1..Len(s) BY <2>1, <2>3
    <3> QED BY <2>1, <3>1 DEF ToSet
  <2>4. \A i \in 1..Len(a \o s) : \/ i <= Len(a) /\ (a \o s)[i] = a[i]
                                  \/ ~(i <= Len(a)) /\ (a \o s)[i] \in ToSet(s)
    BY <2>2, <2>3
  <2> QED BY <2>1, <2>2, <2>4 DEF a
<1>8. table' = [table EXCEPT ![r] = q] /\ table'[r] = q BY <1>1, <1>4, <1>6 DEF Types
<1> HIDE DEF q
<1>9. \A x \in Requests : \A b \in ToSet(table[x]) : b \in Blocks /\ b \notin ToSet(s)
  BY <1>1, <1>4, UsedOrFree
<1>10. ASSUME NEW b \in Blocks, Len(hash[b]) > 1, b \notin ToSet(s)
       PROVE  /\ Parent(b) \notin ToSet(s) /\ Parent(b) \in Blocks
              /\ cached'[Prefix(hash[b])] # <<>> /\ cached'[Prefix(hash[b])][1] = Parent(b)
  <2>1. Parent(b) \notin ToSet(s) BY <1>2, <1>4, <1>10, ParentStays
  <2>2. cached[Prefix(hash[b])] # <<>> BY <1>1, <1>10 DEF Chains
  <2>3. Prefix(hash[b]) \in Hashes /\ Parent(b) \in Blocks BY <1>10, <2>2, ParentFacts
  <2>4. Parent(b) = cached[Prefix(hash[b])][1] BY DEF Parent
  <2> QED BY <1>4, <2>1, <2>2, <2>3, <2>4
<1>11. Known'
  <2> SUFFICES ASSUME NEW b \in Blocks
               PROVE  /\ hash'[b] = <<>> => hits'[b] = 0 /\ \A x, y \in Users(b)' : x = y
                      /\ hash'[b] # <<>> => depth'[b] = Len(hash'[b]) - 1 /\ b \in ToSet(cached'[hash'[b]])
    BY DEF Known
  <2>1. Users(b)' = IF b \in ToSet(q) THEN Users(b) \cup {r} ELSE Users(b) \ {r}
    BY <1>1, <1>6, <1>7, <1>8, UsersChange
  <2>2. CASE b \in ToSet(s)
    <3>1. hash'[b] = <<>> /\ hits'[b] = 0
      <4>1. hash[b] = <<>> => hits[b] = 0 BY <1>1 DEF Known
      <4> QED BY <1>4, <2>2, <4>1
    <3>2. Users(b) = {} BY <1>1, <1>4, <2>2, UsedOrFree
    <3> QED BY <2>1, <3>1, <3>2
  <2>3. CASE b \notin ToSet(s)
    <3>1. hash'[b] = hash[b] /\ hits'[b] = hits[b] /\ depth'[b] = depth[b] BY <1>4, <2>3
    <3>2. ASSUME hash[b] = <<>> PROVE hits[b] = 0 /\ \A x, y \in Users(b)' : x = y
      <4>1. hits[b] = 0 /\ \A x, y \in Users(b) : x = y BY <1>1, <3>2 DEF Known
      <4>2. b \in ToSet(q) => r \in Users(b) BY <1>6, <1>7, <2>3 DEF Users
      <4> QED BY <2>1, <4>1, <4>2
    <3>3. ASSUME hash[b] # <<>> PROVE depth[b] = Len(hash[b]) - 1 /\ b \in ToSet(cached'[hash[b]])
      <4>1. depth[b] = Len(hash[b]) - 1 /\ b \in ToSet(cached[hash[b]]) BY <1>1, <3>3 DEF Known
      <4>2. hash[b] \in Hashes BY <1>1, <3>3 DEF Types
      <4> QED BY <1>4, <2>3, <4>1, <4>2
    <3> QED BY <3>1, <3>2, <3>3
  <2> QED BY <2>2, <2>3
<1>12. Chains'
  <2> SUFFICES ASSUME NEW b \in Blocks, Len(hash'[b]) > 1
               PROVE  /\ cached'[Prefix(hash'[b])] # <<>>
                      /\ policy' = "lru" => ~(Ahead(Parent(b), b)')
                      /\ hits'[b] <= hits'[cached'[Prefix(hash'[b])][1]]
    BY DEF Chains, Parent
  <2>1. b \notin ToSet(s) /\ hash'[b] = hash[b]
    <3>1. Len(<<>>) = 0 OBVIOUS
    <3> QED BY <1>4, <3>1
  <2>2. /\ Parent(b) \notin ToSet(s) /\ Parent(b) \in Blocks
        /\ cached'[Prefix(hash[b])] # <<>> /\ cached'[Prefix(hash[b])][1] = Parent(b)
    BY <1>10, <2>1
  <2>3. (policy = "lru" => ~Ahead(Parent(b), b)) /\ hits[b] <= hits[Parent(b)]
    BY <1>1, <2>1 DEF Chains
  <2>4. hits'[b] = hits[b] /\ hits'[Parent(b)] = hits[Parent(b)] BY <1>4, <2>1, <2>2
  <2>5. Parent(b)' = Parent(b) BY <2>1, <2>2 DEF Parent
  <2>6. policy' = "lru" => ~(Ahead(Parent(b), b)') BY <1>2, <1>5, <2>3, <2>5 DEF Ahead
  <2> QED BY <2>1, <2>2, <2>3, <2>4, <2>6
<1>13. Tables'
  <2> SUFFICES ASSUME NEW x \in Requests, NEW i \in 1..Len(table'[x]), hash'[table'[x][i]] # <<>>
               PROVE  /\ Len(hash'[table'[x][i]]) = i
                      /\ i > 1 => table'[x][i - 1] = cached'[Prefix(hash'[table'[x][i]])][1]
    BY DEF Tables, Parent
  <2> DEFINE b == table[x][i]
  <2>1. table[x] \in Seq(Blocks) /\ DOMAIN table[x] = 1..Len(table[x]) BY <1>1 DEF Types
  <2>2. i \in 1..Len(table[x]) /\ table'[x][i] = b /\ (i > 1 => table'[x][i - 1] = table[x][i - 1])
    <3>1. CASE x = r
      <4>1. i \in 1..Len(q) /\ table'[x] = q BY <1>8, <3>1
      <4>2. q[i] \notin ToSet(s)
        <5>1. hash'[q[i]] # <<>> BY <4>1
        <5> QED BY <1>4, <1>7, <4>1, <5>1, MembersOfSeq
      <4>3. i <= Len(table[r]) /\ q[i] = table[r][i] BY <1>7, <4>1, <4>2
      <4>4. i \in 1..Len(table[x]) BY <1>7, <3>1, <4>1, <4>3
      <4>5. ASSUME i > 1 PROVE q[i - 1] = table[r][i - 1]
        <5>1. i - 1 \in 1..Len(q) /\ i - 1 <= Len(table[r]) BY <1>7, <4>1, <4>3, <4>5
        <5> QED BY <1>7, <5>1
      <4> QED BY <3>1, <4>1, <4>3, <4>4, <4>5
    <3>2. CASE x # r
      <4>1. table'[x] = table[x] BY <1>1, <1>8, <3>2 DEF Types
      <4> QED BY <4>1
    <3> QED BY <3>1, <3>2
  <2>3. b \in ToSet(table[x]) BY <2>1, <2>2 DEF ToSet
  <2>4. b \in Blocks /\ b \notin ToSet(s) BY <1>9, <2>3
  <2>5. hash'[table'[x][i]] = hash[b] /\ hash[b] # <<>> BY <1>4, <2>2, <2>4
  <2>6. Len(hash[b]) = i /\ (i > 1 => table[x][i - 1] = Parent(b)) BY <1>1, <2>2, <2>5 DEF Tables
  <2>7. i > 1 => cached'[Prefix(hash[b])][1] = Parent(b) BY <1>10, <2>4, <2>6
  <2> QED BY <2>2, <2>5, <2>6, <2>7
<1>14. Pending'
  <2> DEFINE p == task.prompt
             h == task.hit
  <2>1. task'.prompt = p /\ task'.request = r /\ task'.hit = h BY <1>2, <1>3
  <2>2. p \in Prompts /\ h \in Nat /\ Len(table[r]) = h BY <1>3
  <2>3. /\ \A k \in 1..h : cached[SubSeq(p, 1, k)] # <<>> /\ table[r][k] = cached[SubSeq(p, 1, k)][1]
        /\ \A k \in h + 1..Len(p) - 1 : cached[SubSeq(p, 1, k)] = <<>>
    BY <1>1, <1>2 DEF Pending
  <2>4. h < Len(p) /\ Len(p) \in Nat BY <1>1, <1>2, <2>2, PromptFacts DEF Working
  <2>0. \A k \in 1..h : k \in 1..Len(p) BY <2>2, <2>4
  <2>10. \A k \in h + 1..Len(p) - 1 : k \in 1..Len(p) BY <2>2, <2>4
  <2>5. ASSUME NEW k \in 1..h
        PROVE cached'[SubSeq(p, 1, k)] # <<>> /\ table'[r][k] = cached'[SubSeq(p, 1, k)][1]
    <3>1. SubSeq(p, 1, k) \in Hashes BY <2>0, <2>2, PromptFacts
    <3>2. table[r][k] \in ToSet(table[r]) BY <1>6, <2>2 DEF ToSet
    <3>3. table[r][k] \notin ToSet(s) BY <1>6, <1>9, <3>2
    <3>4. table'[r][k] = table[r][k]
      <4>1. k \in 1..Len(q) /\ k <= Len(table[r]) BY <1>7, <2>2
      <4> QED BY <1>7, <1>8, <4>1
    <3> QED BY <1>4, <2>3, <3>1, <3>3, <3>4
  <2>6. ASSUME NEW k \in h + 1..Len(p) - 1 PROVE cached'[SubSeq(p, 1, k)] = <<>>
    <3>1. SubSeq(p, 1, k) \in Hashes BY <2>10, <2>2, PromptFacts
    <3>2. ToSet(cached'[SubSeq(p, 1, k)]) = {}
      <4>1. ToSet(<<>>) = {} BY DEF ToSet
      <4> QED BY <1>4, <2>3, <3>1, <4>1
    <3>3. cached'[SubSeq(p, 1, k)] \in Seq(Blocks)
      <4>1. cached' \in [Hashes -> Seq(Blocks)] BY GetNewBlocksIInv DEF IInv, Types
      <4> QED BY <3>1, <4>1
    <3> QED BY <3>2, <3>3, MembersOfSeq
  <2>7. Len(table'[r]) >= h BY <1>7, <1>8, <2>2
  <2> HIDE DEF p, h
  <2> QED BY <2>1, <2>5, <2>6, <2>7 DEF Pending
<1> QED BY <1>11, <1>12, <1>13, <1>14 DEF Rooted

-----------------------------------------------------------------------------
(* The new full blocks enter the cache.                                    *)
LEMMA CacheFullBlocksRooted ==
  ASSUME IInv, Rooted, CacheFullBlocks
  PROVE  Rooted'
<1> DEFINE r == task.request
           p == task.prompt
           h == task.hit
<1>1. Types /\ Counted /\ Hashed /\ Working /\ Known /\ Chains /\ Tables /\ Pending
  BY DEF IInv, Rooted
<1>2. task # NoTask /\ task' = NoTask /\ UNCHANGED <<policy, list, ref, hits, table, now>>
  BY DEF CacheFullBlocks
<1>3. /\ r \in Requests /\ p \in Prompts /\ h \in Nat /\ h < Len(p) /\ Len(p) <= Len(table[r])
      /\ \A k \in h + 1..Len(p) : /\ table[r][k] \in Entered /\ Place(table[r][k]) = k
                                  /\ k \in 1..Len(p) /\ k \in 1..Len(table[r])
      /\ \A b \in Entered : /\ b \in Blocks /\ hash[b] = <<>> /\ b \in ToSet(table[r])
                            /\ Place(b) \in h + 1..Len(p) /\ table[r][Place(b)] = b
  BY EnteredFacts
<1>4. /\ \A b, c : Ahead(b, c)' => Ahead(b, c)
      /\ \A b \in Blocks : hash'[b] = IF b \in Entered THEN SubSeq(p, 1, Place(b)) ELSE hash[b]
      /\ \A b \in Blocks : depth'[b] = IF b \in Entered THEN Place(b) - 1 ELSE depth[b]
      /\ \A k \in Hashes : \E q \in Seq(Blocks) :
           cached'[k] = cached[k] \o q /\ ToSet(q) = Entering(k) /\ IsInjective(q)
  BY CacheFullBlocksIInv
<1>5. Len(p) \in Nat /\ \A k \in h + 1..Len(p) : k \in Nat BY <1>3, PromptFacts
<1>6. \A k \in 1..Len(p) : SubSeq(p, 1, k) \in Hashes /\ Len(SubSeq(p, 1, k)) = k
                           /\ SubSeq(p, 1, k) # <<>>
  BY <1>3, PromptFacts
<1>7. ASSUME NEW k \in Hashes
      PROVE  /\ ToSet(cached'[k]) = ToSet(cached[k]) \cup Entering(k)
             /\ cached'[k] \in Seq(Blocks)
             /\ cached[k] # <<>> => cached'[k] # <<>> /\ cached'[k][1] = cached[k][1]
  <2> DEFINE a == cached[k]
  <2>1. PICK q \in Seq(Blocks) : cached'[k] = a \o q /\ ToSet(q) = Entering(k) BY <1>4
  <2>2. a \in Seq(Blocks) BY <1>1 DEF Types
  <2> HIDE DEF a
  <2>3. /\ a \o q \in Seq(Blocks) /\ Len(a \o q) = Len(a) + Len(q)
        /\ \A i \in 1..Len(a) + Len(q) : (a \o q)[i] = IF i <= Len(a) THEN a[i] ELSE q[i - Len(a)]
        /\ ToSet(a \o q) = ToSet(a) \cup ToSet(q)
    BY <2>2, ConcatSet
  <2>4. ASSUME a # <<>> PROVE a \o q # <<>> /\ (a \o q)[1] = a[1]
    <3>1. Len(a) \in Nat \ {0} /\ Len(q) \in Nat BY <2>2, <2>4, EmptySeq
    <3>2. 1 \in 1..Len(a) + Len(q) /\ 1 <= Len(a) BY <3>1
    <3>3. (a \o q)[1] = a[1] BY <2>3, <3>2
    <3>4. Len(a \o q) # 0 BY <2>3, <3>1
    <3> QED BY <3>3, <3>4
  <2> QED BY <2>1, <2>3, <2>4 DEF a
<1>8. ASSUME NEW j \in 1..Len(p) - 1
      PROVE cached'[SubSeq(p, 1, j)] # <<>> /\ cached'[SubSeq(p, 1, j)][1] = table[r][j]
  <2> DEFINE k == SubSeq(p, 1, j)
  <2>1. j \in 1..Len(p) BY <1>5
  <2>2. k \in Hashes BY <1>6, <2>1
  <2>3. CASE j \in 1..h
    <3>1. cached[k] # <<>> /\ table[r][j] = cached[k][1] BY <1>1, <1>2, <2>3 DEF Pending
    <3> HIDE DEF k
    <3> QED BY <1>7, <2>2, <3>1 DEF k
  <2>4. CASE j \notin 1..h
    <3>1. j \in h + 1..Len(p) - 1 /\ j \in h + 1..Len(p) BY <1>3, <1>5, <2>4
    <3>2. cached[k] = <<>> BY <1>1, <1>2, <3>1 DEF Pending
    <3>3. ToSet(cached'[k]) = Entering(k) /\ cached'[k] \in Seq(Blocks)
      <4>1. ToSet(<<>>) = {} BY DEF ToSet
      <4> HIDE DEF k
      <4> QED BY <1>7, <2>2, <3>2, <4>1
    <3>4. Entering(k) = {table[r][j]}
      <4>1. table[r][j] \in Entered /\ Place(table[r][j]) = j BY <1>3, <3>1
      <4>2. table[r][j] \in Entering(k) BY <4>1 DEF Entering
      <4>3. ASSUME NEW b \in Entering(k) PROVE b = table[r][j]
        <5>1. b \in Entered /\ SubSeq(p, 1, Place(b)) = SubSeq(p, 1, j) BY <4>3 DEF Entering
        <5>2. Place(b) \in 1..Len(p) /\ table[r][Place(b)] = b BY <1>3, <5>1
        <5>3. Place(b) = j BY <1>3, <2>1, <5>1, <5>2, PromptFacts
        <5> QED BY <5>2, <5>3
      <4> QED BY <4>2, <4>3
    <3> DEFINE c == cached'[k]
    <3>5. c \in Seq(Blocks) /\ ToSet(c) = {table[r][j]} BY <3>3, <3>4
    <3> HIDE DEF c
    <3>6. c # <<>>
      <4>1. c = <<>> <=> ToSet(c) = {} BY <3>5, MembersOfSeq
      <4>2. ToSet(c) # {} BY <3>5
      <4> QED BY <4>1, <4>2
    <3>7. c[1] \in ToSet(c) BY <3>5, <3>6 DEF ToSet
    <3> QED BY <3>5, <3>6, <3>7 DEF c
  <2> QED BY <2>3, <2>4
<1>9. ASSUME NEW b \in Blocks, b \notin Entered, Len(hash[b]) > 1
      PROVE /\ hash'[b] = hash[b] /\ cached[Prefix(hash[b])] # <<>>
            /\ cached'[Prefix(hash[b])] # <<>> /\ cached'[Prefix(hash[b])][1] = Parent(b)
  <2>1. cached[Prefix(hash[b])] # <<>> BY <1>1, <1>9 DEF Chains
  <2>2. Prefix(hash[b]) \in Hashes BY <1>9, ParentFacts
  <2> QED BY <1>4, <1>7, <1>9, <2>1, <2>2 DEF Parent
<1>10. ASSUME NEW b \in Entered
       PROVE /\ hash'[b] = SubSeq(p, 1, Place(b)) /\ Len(hash'[b]) = Place(b)
             /\ hash'[b] # <<>> /\ hash'[b] \in Hashes
             /\ Place(b) > 1 =>
                  /\ Place(b) - 1 \in 1..Len(p) - 1
                  /\ Prefix(hash'[b]) = SubSeq(p, 1, Place(b) - 1)
                  /\ cached'[Prefix(hash'[b])] # <<>>
                  /\ cached'[Prefix(hash'[b])][1] = table[r][Place(b) - 1]
  <2> DEFINE j == Place(b)
  <2>1. hash'[b] = SubSeq(p, 1, j) /\ j \in 1..Len(p) BY <1>3, <1>4
  <2>2. Len(hash'[b]) = j /\ hash'[b] # <<>> /\ hash'[b] \in Hashes BY <1>6, <2>1
  <2>3. ASSUME j > 1
        PROVE  /\ j - 1 \in 1..Len(p) - 1 /\ Prefix(hash'[b]) = SubSeq(p, 1, j - 1)
    <3> HIDE DEF j
    <3> QED BY <1>3, <1>5, <2>1, <2>3, PrefixOf
  <2> HIDE DEF j
  <2>4. j > 1 => /\ cached'[Prefix(hash'[b])] # <<>>
                 /\ cached'[Prefix(hash'[b])][1] = table[r][j - 1]
    BY <1>8, <2>3
  <2> QED BY <2>1, <2>2, <2>3, <2>4 DEF j
<1>11. Known'
  <2> SUFFICES ASSUME NEW b \in Blocks
               PROVE  /\ hash'[b] = <<>> => hits'[b] = 0 /\ \A x, y \in Users(b)' : x = y
                      /\ hash'[b] # <<>> => depth'[b] = Len(hash'[b]) - 1 /\ b \in ToSet(cached'[hash'[b]])
    BY DEF Known
  <2>1. CASE b \in Entered
    <3>1. depth'[b] = Place(b) - 1 /\ hash'[b] # <<>> /\ Len(hash'[b]) = Place(b) BY <1>4, <1>10, <2>1
    <3>2. b \in Entering(hash'[b]) BY <1>10, <2>1 DEF Entering
    <3>3. b \in ToSet(cached'[hash'[b]])
      <4> DEFINE k == hash'[b]
      <4>1. k \in Hashes /\ b \in Entering(k) BY <1>10, <2>1, <3>2
      <4> HIDE DEF k
      <4>2. b \in ToSet(cached'[k]) BY <1>7, <4>1
      <4> QED BY <4>2 DEF k
    <3> QED BY <3>1, <3>3
  <2>2. CASE b \notin Entered
    <3>1. hash'[b] = hash[b] /\ depth'[b] = depth[b] /\ hits'[b] = hits[b] /\ Users(b)' = Users(b)
      BY <1>2, <1>4, <2>2 DEF Users
    <3>2. hash[b] = <<>> => hits[b] = 0 /\ \A x, y \in Users(b) : x = y BY <1>1 DEF Known
    <3>3. ASSUME hash[b] # <<>> PROVE depth[b] = Len(hash[b]) - 1 /\ b \in ToSet(cached'[hash[b]])
      <4>1. hash[b] \in Hashes BY <1>1, <3>3 DEF Types
      <4>2. depth[b] = Len(hash[b]) - 1 /\ b \in ToSet(cached[hash[b]]) BY <1>1, <3>3 DEF Known
      <4> QED BY <1>7, <4>1, <4>2
    <3> QED BY <3>1, <3>2, <3>3
  <2> QED BY <2>1, <2>2
<1>12. Chains'
  <2> SUFFICES ASSUME NEW b \in Blocks, Len(hash'[b]) > 1
               PROVE  /\ cached'[Prefix(hash'[b])] # <<>>
                      /\ policy' = "lru" => ~(Ahead(Parent(b), b)')
                      /\ hits'[b] <= hits'[cached'[Prefix(hash'[b])][1]]
    BY DEF Chains, Parent
  <2>1. CASE b \in Entered
    <3>1. Place(b) > 1 BY <1>10, <2>1
    <3>2. /\ cached'[Prefix(hash'[b])] # <<>>
          /\ cached'[Prefix(hash'[b])][1] = table[r][Place(b) - 1]
          /\ Place(b) - 1 \in 1..Len(p) - 1
      BY <1>10, <2>1, <3>1
    <3>3. table[r][Place(b) - 1] \in Blocks
      <4> DEFINE i == Place(b) - 1
                 w == Len(table[r])
      <4>1. table[r] \in Seq(Blocks) /\ w \in Nat BY <1>1, <1>3 DEF Types
      <4>2. i \in 1..w
        <5>1. i \in 1..Len(p) - 1 /\ Len(p) <= w BY <1>3, <3>2
        <5> HIDE DEF i, w
        <5> QED BY <1>5, <4>1, <5>1
      <4> HIDE DEF i
      <4>3. table[r][i] \in Blocks BY <4>1, <4>2
      <4> QED BY <4>3 DEF i
    <3>4. hits'[b] = 0 BY <1>1, <1>2, <1>3, <2>1 DEF Known
    <3>5. hits'[table[r][Place(b) - 1]] \in Nat BY <1>1, <1>2, <3>3 DEF Types, Scored
    <3>6. ~(Ahead(Parent(b), b)')
      <4>1. b \notin Free BY <1>1, <1>3, <2>1, UsedOrFree
      <4>2. \A c : ~(Ahead(c, b)') BY <1>4, <4>1, AheadFree
      <4> QED BY <4>2 DEF Ahead
    <3> QED BY <3>2, <3>4, <3>5, <3>6
  <2>2. CASE b \notin Entered
    <3>1. hash'[b] = hash[b] /\ Len(hash[b]) > 1 BY <1>4, <2>2
    <3>2. /\ cached'[Prefix(hash[b])] # <<>> /\ cached'[Prefix(hash[b])][1] = Parent(b)
      BY <1>9, <2>2, <3>1
    <3>3. (policy = "lru" => ~Ahead(Parent(b), b)) /\ hits[b] <= hits[Parent(b)]
      BY <1>1, <3>1 DEF Chains
    <3>4. Parent(b)' = Parent(b) BY <3>1, <3>2 DEF Parent
    <3>5. policy' = "lru" => ~(Ahead(Parent(b), b)') BY <1>2, <1>4, <3>3, <3>4 DEF Ahead
    <3> QED BY <1>2, <3>1, <3>2, <3>3, <3>5
  <2> QED BY <2>1, <2>2
<1>13. Tables'
  <2> SUFFICES ASSUME NEW x \in Requests, NEW i \in 1..Len(table[x]), hash'[table[x][i]] # <<>>
               PROVE  /\ Len(hash'[table[x][i]]) = i
                      /\ i > 1 => table[x][i - 1] = cached'[Prefix(hash'[table[x][i]])][1]
    BY <1>2 DEF Tables, Parent
  <2> DEFINE b == table[x][i]
  <2>1. table[x] \in Seq(Blocks) /\ IsInjective(table[x]) /\ DOMAIN table[x] = 1..Len(table[x])
    BY <1>1 DEF Types, Counted
  <2>2. b \in Blocks /\ b \in ToSet(table[x]) BY <2>1 DEF ToSet
  <2>3. CASE b \in Entered
    <3>1. x \in Users(b) /\ r \in Users(b) BY <1>3, <2>2, <2>3 DEF Users
    <3>2. hash[b] = <<>> BY <1>3, <2>3
    <3>3. x = r BY <1>1, <2>2, <3>1, <3>2 DEF Known
    <3>4. Place(b) \in 1..Len(table[x]) /\ table[x][Place(b)] = b
      <4>1. Place(b) \in h + 1..Len(p) /\ table[r][Place(b)] = b BY <1>3, <2>3
      <4>2. Place(b) \in 1..Len(table[r])
        <5>1. table[r][Place(b)] \in Entered BY <2>3, <4>1
        <5> QED BY <1>3, <4>1
      <4> QED BY <3>3, <4>1, <4>2
    <3>5. Place(b) = i BY <2>1, <3>4 DEF IsInjective
    <3> HIDE DEF b
    <3>6. Len(hash'[b]) = i /\ (i > 1 => cached'[Prefix(hash'[b])][1] = table[r][i - 1])
      BY <1>10, <2>3, <3>5
    <3> QED BY <3>3, <3>6 DEF b
  <2>4. CASE b \notin Entered
    <3>1. hash'[b] = hash[b] BY <1>4, <2>2, <2>4
    <3>2. Len(hash[b]) = i /\ (i > 1 => table[x][i - 1] = Parent(b)) BY <1>1, <3>1 DEF Tables
    <3>3. i > 1 => cached'[Prefix(hash[b])][1] = Parent(b) BY <1>9, <2>2, <2>4, <3>2
    <3> QED BY <3>1, <3>2, <3>3
  <2> QED BY <2>3, <2>4
<1>14. Pending' BY <1>2 DEF Pending
<1> QED BY <1>11, <1>12, <1>13, <1>14 DEF Rooted

-----------------------------------------------------------------------------
(* A request ends.                                                         *)
LEMMA FreeBlocksRooted ==
  ASSUME IInv, Rooted, NEW r \in Requests, FreeBlocks(r)
  PROVE  Rooted'
<1>1. Types /\ Counted /\ Known /\ Chains /\ Tables BY DEF IInv, Rooted
<1>2. /\ task = NoTask /\ table' = [table EXCEPT ![r] = <<>>]
      /\ UNCHANGED <<policy, hash, cached, hits, depth, task>>
  BY DEF FreeBlocks, scores
<1>3. \A b, c : Ahead(b, c)' =>
        \/ Ahead(b, c)
        \/ b \in Free /\ c \in ToSet(table[r])
        \/ \E i, j \in 1..Len(table[r]) : j < i /\ table[r][i] = b /\ table[r][j] = c
  BY FreeBlocksIInv
<1>4. \A x \in Requests : table'[x] = IF x = r THEN <<>> ELSE table[x] BY <1>1, <1>2 DEF Types
<1>5. Known'
  <2>1. ToSet(<<>>) = {} BY DEF ToSet
  <2>2. \A b : Users(b)' \subseteq Users(b) BY <1>4, <2>1 DEF Users
  <2> QED BY <1>1, <1>2, <2>2 DEF Known
<1>6. Chains'
  <2> SUFFICES ASSUME NEW b \in Blocks, Len(hash'[b]) > 1
               PROVE  /\ cached'[Prefix(hash'[b])] # <<>>
                      /\ policy' = "lru" => ~(Ahead(Parent(b), b)')
                      /\ hits'[b] <= hits'[cached'[Prefix(hash'[b])][1]]
    BY DEF Chains, Parent
  <2> DEFINE f == Parent(b)
  <2>1. Len(hash[b]) > 1 BY <1>2
  <2>2. /\ cached[Prefix(hash[b])] # <<>> /\ (policy = "lru" => ~Ahead(f, b))
        /\ hits[b] <= hits[f]
    BY <1>1, <2>1 DEF Chains
  <2>3. b \notin Free => f \notin Free BY <1>1, <2>1, ParentUsed
  <2>4. policy = "lru" => ~(Ahead(f, b)')
    <3>1. Parent(b)' = f BY <1>2 DEF Parent
    <3> HIDE DEF f
    <3>2. ASSUME policy = "lru", NEW c, c = f, Ahead(c, b)' PROVE FALSE
      <4>1. CASE Ahead(c, b) BY <2>2, <3>2, <4>1
      <4>2. CASE c \in Free /\ b \in ToSet(table[r])
        <5>1. b \notin Free BY <1>1, <4>2, UsedOrFree
        <5> QED BY <2>3, <3>2, <4>2, <5>1
      <4>3. CASE \E i, j \in 1..Len(table[r]) : j < i /\ table[r][i] = c /\ table[r][j] = b
        <5>1. PICK i \in 1..Len(table[r]), j \in 1..Len(table[r]) :
                j < i /\ table[r][i] = c /\ table[r][j] = b
          BY <4>3
        <5>2. hash[b] # <<>> BY <2>1, HashesAreNot
        <5>3. Len(hash[b]) = j /\ j > 1 /\ table[r][j - 1] = f BY <1>1, <2>1, <5>1, <5>2 DEF Tables, f
        <5>4. table[r] \in Seq(Blocks) /\ IsInjective(table[r]) BY <1>1 DEF Types, Counted
        <5>5. j - 1 \in 1..Len(table[r]) /\ j - 1 # i /\ DOMAIN table[r] = 1..Len(table[r])
          BY <5>1, <5>3, <5>4
        <5> QED BY <3>2, <5>1, <5>3, <5>4, <5>5 DEF IsInjective
      <4> QED BY <1>3, <3>2, <4>1, <4>2, <4>3
    <3>3. \A c : policy = "lru" /\ c = f => ~(Ahead(c, b)') BY <3>2
    <3> QED BY <3>1, <3>3 DEF Ahead, f
  <2> QED BY <1>2, <2>2, <2>4 DEF Parent
<1>7. Tables'
  <2> SUFFICES ASSUME NEW x \in Requests, NEW i \in 1..Len(table'[x]), hash'[table'[x][i]] # <<>>
               PROVE  /\ Len(hash'[table'[x][i]]) = i
                      /\ i > 1 => table'[x][i - 1] = cached'[Prefix(hash'[table'[x][i]])][1]
    BY DEF Tables, Parent
  <2>1. x # r
    <3>1. Len(<<>>) = 0 OBVIOUS
    <3> QED BY <1>4, <3>1
  <2>2. table'[x] = table[x] BY <1>4, <2>1
  <2> QED BY <1>1, <1>2, <2>2 DEF Tables, Parent
<1>8. Pending' BY <1>2 DEF Pending
<1> QED BY <1>5, <1>6, <1>7, <1>8 DEF Rooted

(* Every step preserves the invariant.                                     *)
LEMMA NextCInv ==
  ASSUME CInv, [Next]_vars PROVE CInv'
<1>1. IInv /\ IInv' BY NextIInv DEF CInv
<1>2. SUFFICES ASSUME policy' # "tdf" PROVE Rooted' BY <1>1 DEF CInv
<1>3. policy' = policy
  BY DEF Next, vars, Touch, GetNewBlocks, CacheFullBlocks, FreeBlocks, Tick
<1>4. Rooted BY <1>2, <1>3 DEF CInv
<1>5. CASE \E r \in Requests, p \in Prompts, extra \in 0..1 : Touch(r, p, extra)
  BY <1>1, <1>4, <1>5, TouchRooted
<1>6. CASE GetNewBlocks BY <1>1, <1>2, <1>3, <1>4, <1>6, GetNewBlocksRooted
<1>7. CASE CacheFullBlocks BY <1>1, <1>4, <1>7, CacheFullBlocksRooted
<1>8. CASE \E r \in Requests : FreeBlocks(r) BY <1>1, <1>4, <1>8, FreeBlocksRooted
<1>9. CASE Tick BY <1>2, <1>3, <1>9 DEF Tick
<1>10. CASE UNCHANGED vars
  <2>1. UNCHANGED <<policy, next, prev, numFree, hash, cached, hits, depth, table, task>>
    BY <1>10 DEF vars, list, scores
  <2>2. Known' BY <1>4, <2>1 DEF Known, Users, Rooted
  <2>3. Chains'
    <3>1. Row' = Row BY <2>1 DEF Row
    <3> QED BY <1>4, <2>1, <3>1 DEF Chains, Parent, Ahead, Rooted
  <2>4. Tables' BY <1>4, <2>1 DEF Tables, Parent, Rooted
  <2>5. Pending' BY <1>4, <2>1 DEF Pending, Rooted
  <2> QED BY <2>2, <2>3, <2>4, <2>5 DEF Rooted
<1> QED BY <1>5, <1>6, <1>7, <1>8, <1>9, <1>10 DEF Next

(* A cached block has its parent, so a prefix that is cached has the one   *)
(* that it continues.                                                      *)
LEMMA RootedChains ==
  ASSUME CInv PROVE ChainsKeptFromTheRoot
<1> SUFFICES ASSUME policy # "tdf", NEW k \in Hashes, cached[k] # <<>>, Len(k) > 1
             PROVE  cached[SubSeq(k, 1, Len(k) - 1)] # <<>>
  BY DEF ChainsKeptFromTheRoot
<1>1. Types /\ Hashed /\ Chains BY DEF CInv, IInv, Rooted
<1>2. cached[k] \in Seq(Blocks) BY <1>1 DEF Types
<1> DEFINE b == cached[k][1]
<1>3. b \in Blocks /\ b \in ToSet(cached[k]) BY <1>2 DEF ToSet
<1>4. hash[b] = k BY <1>1, <1>3 DEF Hashed
<1> HIDE DEF b
<1> QED BY <1>1, <1>3, <1>4 DEF Chains, Prefix

(* Under lru and cf no prefix is evicted before what continues it, so that *)
(* no cached block is out of reach: a parent is touched whenever its child *)
(* is, is freed after it, and has the higher score.                        *)
THEOREM PrefixOutlivesWhatContinuesIt == Spec => []ChainsKeptFromTheRoot
<1>1. Init => CInv BY InitCInv
<1>2. CInv /\ [Next]_vars => CInv' BY NextCInv
<1>3. CInv => ChainsKeptFromTheRoot BY RootedChains
<1> QED BY <1>1, <1>2, <1>3, PTL DEF Spec
=============================================================================
