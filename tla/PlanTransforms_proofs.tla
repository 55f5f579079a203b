------------------------ MODULE PlanTransforms_proofs ------------------------
(***************************************************************************)
(* What PlanSpec and PlanTransforms compute, for plans of any size: when   *)
(* the search for cycles finds one, which keys are made up, that the plans *)
(* the runtime makes itself are valid, and what the rewriting of a plan    *)
(* does to its dependencies.                                               *)
(*                                                                         *)
(* The inductions are over sets: a set of natural numbers that has 0 and,  *)
(* with each member, the next one, has them all, because what it lacks     *)
(* would have a least member.                                              *)
(***************************************************************************)
EXTENDS PlanTransforms, FiniteSetTheorems, SequenceTheorems, WellFoundedInduction, TLAPS

-----------------------------------------------------------------------------
(* Numbers.                                                                  *)

\* A nonempty set of natural numbers has a least member.
LEMMA MinExists ==
  ASSUME NEW S \in SUBSET Nat, S # {}
  PROVE  Min(S) \in S /\ \A y \in S : Min(S) <= y
<1>1. \E x \in S : \A y \in S : <<y, x>> \notin OpToRel(<, Nat)
  BY WFMin, NatLessThanWellFounded, Zenon
<1>2. PICK x \in S : \A y \in S : <<y, x>> \notin OpToRel(<, Nat)
  BY <1>1
<1>3. \A y \in S : x <= y
  <2> SUFFICES ASSUME NEW y \in S PROVE x <= y
    OBVIOUS
  <2>1. ~(y < x)
    BY <1>2, Zenon DEF OpToRel
  <2> QED
    BY <2>1
<1> QED
  BY <1>3 DEF Min

\* A nonempty set of natural numbers that are at most n has a greatest member.
LEMMA MaxExists ==
  ASSUME NEW n \in Nat, NEW S \in SUBSET (0..n), S # {}
  PROVE  Max(S) \in S /\ \A y \in S : y <= Max(S)
<1> DEFINE T == {n - x : x \in S}
<1>1. T \in SUBSET Nat /\ T # {}
  <2>1. \A x \in S : n - x \in Nat
    OBVIOUS
  <2> QED
    BY <2>1
<1>2. Min(T) \in T /\ \A y \in T : Min(T) <= y
  BY <1>1, MinExists
<1>3. PICK x \in S : Min(T) = n - x
  BY <1>2
<1>4. \A y \in S : y <= x
  <2> SUFFICES ASSUME NEW y \in S PROVE y <= x
    OBVIOUS
  <2>1. n - y \in T
    OBVIOUS
  <2>2. n - x <= n - y
    BY <1>2, <1>3, <2>1
  <2> QED
    BY <2>2
<1> QED
  BY <1>4 DEF Max

\* Induction, for a set of natural numbers.
LEMMA SetInduction ==
  ASSUME NEW P, 0 \in P, \A n \in Nat : n \in P => n + 1 \in P
  PROVE  \A n \in Nat : n \in P
<1>1. SUFFICES ASSUME \E n \in Nat : n \notin P
               PROVE  FALSE
  OBVIOUS
<1> DEFINE T == {n \in Nat : n \notin P}
<1>2. Min(T) \in T /\ \A y \in T : Min(T) <= y
  <2>1. T \in SUBSET Nat /\ T # {}
    BY <1>1
  <2> HIDE DEF T
  <2>2. QED
    BY <2>1, MinExists
<1>3. PICK m \in T : \A y \in T : m <= y
  BY <1>2
<1>4. m # 0
  BY <1>3
<1>5. m - 1 \in Nat /\ m - 1 \notin T
  BY <1>3, <1>4
<1>6. m - 1 + 1 \in P
  BY <1>5
<1>7. QED
  BY <1>3, <1>6

\* A function on 0..n that is given at 0, and at each i by its value at i - 1.
Iterates(g, n, S, base, step) ==
  g \in [0..n -> S] /\ g[0] = base /\ \A i \in 1..n : g[i] = step[i][g[i - 1]]

\* There is one, when each step has a value.
LEMMA Recursion ==
  ASSUME NEW n \in Nat, NEW S, NEW base \in S, NEW step, step \in [1..n -> [S -> S]]
  PROVE  \E g : Iterates(g, n, S, base, step)
<1> USE DEF Iterates
<1> DEFINE Defined(m, g) == Iterates(g, m, S, base, step)
           P == {m \in Nat : m <= n => \E g : Defined(m, g)}
<1>1. 0 \in P
  <2>1. Defined(0, [i \in 0..0 |-> base])
    OBVIOUS
  <2>2. QED
    BY <2>1
<1>2. ASSUME NEW m \in Nat, m \in P
      PROVE  m + 1 \in P
  <2>1. SUFFICES ASSUME m + 1 <= n
                 PROVE  \E g : Defined(m + 1, g)
    OBVIOUS
  <2>2. PICK g : Defined(m, g)
    BY <1>2, <2>1
  <2> DEFINE h == [i \in 0..(m + 1) |-> IF i <= m THEN g[i] ELSE step[i][g[m]]]
  <2>3. \A i \in 0..m : h[i] = g[i] /\ h[i] \in S
    BY <2>2
  <2>4. m + 1 \in 1..n /\ g[m] \in S
    BY <2>1, <2>2
  <2>5. h[m + 1] = step[m + 1][h[m]] /\ h[m + 1] \in S
    BY <2>3, <2>4
  <2>6. h = [i \in 0..(m + 1) |-> h[i]]
    OBVIOUS
  <2> HIDE DEF h
  <2>7. \A i \in 1..m : h[i] = step[i][h[i - 1]]
    BY <2>2, <2>3
  <2>8. \A i \in 0..(m + 1) : i = m + 1 \/ i \in 0..m
    OBVIOUS
  <2>9. h \in [0..(m + 1) -> S]
    BY <2>3, <2>5, <2>6, <2>8
  <2>10. h[0] = base
    BY <2>2, <2>3
  <2>11. \A i \in 1..(m + 1) : h[i] = step[i][h[i - 1]]
    <3>1. \A i \in 1..(m + 1) : i = m + 1 \/ i \in 1..m
      OBVIOUS
    <3>2. m + 1 - 1 = m
      OBVIOUS
    <3>3. QED
      BY <2>5, <2>7, <3>1, <3>2
  <2>12. QED
    BY <2>9, <2>10, <2>11
<1>3. n \in P
  <2> HIDE DEF P
  <2>1. QED
    BY <1>1, <1>2, SetInduction
<1>4. PICK g : Defined(n, g)
  BY <1>3
<1>5. QED
  BY <1>4

\* The greater and the lesser of two numbers.
LEMMA MaxOfTwo == ASSUME NEW x \in Int, NEW y \in Int PROVE Max({x, y}) = IF x >= y THEN x ELSE y
<1> DEFINE m == IF x >= y THEN x ELSE y
<1>1. m \in {x, y} /\ \A z \in {x, y} : m >= z
  OBVIOUS
<1>2. \A n \in {x, y} : (\A z \in {x, y} : n >= z) => n = m
  OBVIOUS
<1> HIDE DEF m
<1>3. Max({x, y}) = m
  BY <1>1, <1>2 DEF Max
<1> QED
  BY <1>3 DEF m

\* The lesser of two numbers.
LEMMA MinOfTwo == ASSUME NEW x \in Int, NEW y \in Int PROVE Min({x, y}) = IF x <= y THEN x ELSE y
<1> DEFINE m == IF x <= y THEN x ELSE y
<1>1. m \in {x, y} /\ \A z \in {x, y} : m <= z
  OBVIOUS
<1>2. \A n \in {x, y} : (\A z \in {x, y} : n <= z) => n = m
  OBVIOUS
<1> HIDE DEF m
<1>3. Min({x, y}) = m
  BY <1>1, <1>2 DEF Min
<1> QED
  BY <1>3 DEF m

\* The members of a finite set in some order.
LEMMA SetToSeqTypes ==
  ASSUME NEW S, IsFiniteSet(S)
  PROVE  /\ SetToSeq(S) \in Seq(S) /\ DOMAIN SetToSeq(S) = 1..Cardinality(S)
         /\ Len(SetToSeq(S)) = Cardinality(S) /\ Cardinality(S) \in Nat
         /\ SetToSeq(S) \in [1..Cardinality(S) -> S] /\ IsInjective(SetToSeq(S))
<1>1. Cardinality(S) \in Nat /\ ExistsBijection(1..Cardinality(S), S)
  BY FS_CardinalityType
<1>2. PICK f \in Bijection(1..Cardinality(S), S) : TRUE
  BY <1>1 DEF ExistsBijection
<1>3. f \in [1..Cardinality(S) -> S] /\ IsInjective(f)
  BY <1>2 DEF Bijection, Injection, Surjection, IsInjective
<1>4. SetToSeq(S) \in [1..Cardinality(S) -> S] /\ IsInjective(SetToSeq(S))
  BY <1>3 DEF SetToSeq
<1> QED
  BY <1>1, <1>4

-----------------------------------------------------------------------------
(* The search for cycles.                                                    *)

\* What is left after each of n rounds of HasCycle.
Rounds(keys, F, n, g) ==
  g = [i \in 0..n |-> IF i = 0 THEN keys ELSE {k \in g[i - 1] : F[k] \intersect g[i - 1] # {}}]

\* There are such rounds.
LEMMA RoundsExist ==
  ASSUME NEW keys, NEW F, NEW n \in Nat
  PROVE  \E g : Rounds(keys, F, n, g)
<1> DEFINE step == [i \in 1..n |-> [x \in SUBSET keys |-> {k \in x : F[k] \intersect x # {}}]]
<1>1. step \in [1..n -> [SUBSET keys -> SUBSET keys]]
  OBVIOUS
<1>2. keys \in SUBSET keys
  OBVIOUS
<1>3. PICK g : Iterates(g, n, SUBSET keys, keys, step)
  <2> DEFINE S == SUBSET keys
  <2>1. step \in [1..n -> [S -> S]] /\ keys \in S
    BY <1>1, <1>2
  <2> HIDE DEF step, S
  <2>2. \E g : Iterates(g, n, S, keys, step)
    BY <2>1, Recursion
  <2>3. QED
    BY <2>2 DEF S
<1>4. ASSUME NEW i \in 0..n
      PROVE  g[i] = IF i = 0 THEN keys ELSE {k \in g[i - 1] : F[k] \intersect g[i - 1] # {}}
  <2>1. CASE i = 0
    BY <1>3, <2>1 DEF Iterates
  <2>2. CASE i # 0
    <3>1. i \in 1..n /\ i - 1 \in 0..n
      BY <2>2
    <3>2. g[i] = step[i][g[i - 1]] /\ g[i - 1] \in SUBSET keys
      BY <1>3, <3>1 DEF Iterates
    <3>3. QED
      BY <2>2, <3>1, <3>2
  <2>3. QED
    BY <2>1, <2>2
<1>5. g = [i \in 0..n |-> g[i]]
  BY <1>3 DEF Iterates
<1> DEFINE h == [i \in 0..n |-> IF i = 0 THEN keys
                                ELSE {k \in g[i - 1] : F[k] \intersect g[i - 1] # {}}]
<1>6. g = h
  <2>1. \A i \in 0..n : g[i] = h[i]
    BY <1>4
  <2>2. h = [i \in 0..n |-> h[i]]
    OBVIOUS
  <2> HIDE DEF h
  <2>3. QED
    BY <1>5, <2>1, <2>2
<1>7. Rounds(keys, F, n, g)
  BY <1>6 DEF Rounds
<1>8. QED
  BY <1>7

\* HasCycle looks at what the last round leaves.
LEMMA HasCycleRounds ==
  ASSUME NEW keys, NEW F, IsFiniteSet(keys)
  PROVE  \E g : /\ Rounds(keys, F, Cardinality(keys), g)
                /\ HasCycle(keys, F) <=> g[Cardinality(keys)] # {}
<1> DEFINE n == Cardinality(keys)
           Body(g) == [i \in 0..n |-> IF i = 0 THEN keys
                                       ELSE {k \in g[i - 1] : F[k] \intersect g[i - 1] # {}}]
           left == CHOOSE g : g = Body(g)
<1>1. n \in Nat
  BY FS_CardinalityType
<1>2. \E g : g = Body(g)
  <2>1. \E g : Rounds(keys, F, n, g)
    <3> HIDE DEF n
    <3> QED BY <1>1, RoundsExist
  <2>2. QED
    BY <2>1 DEF Rounds
<1>3. left = Body(left)
  BY <1>2
<1>4. HasCycle(keys, F) <=> left[n] # {}
  BY DEF HasCycle
<1>5. QED
  BY <1>3, <1>4 DEF Rounds
\* A set of keys each of which points into it: the keys of a cycle, and others that lead there.
Circle(keys, F, T) == T \in SUBSET keys /\ T # {} /\ \A k \in T : F[k] \intersect T # {}

\* The search finds a cycle when there is one: nothing of it is ever taken away, and when there is
\* none each round takes something away.
LEMMA CycleIsCircle ==
  ASSUME NEW keys, NEW F, IsFiniteSet(keys)
  PROVE  HasCycle(keys, F) <=> \E T : Circle(keys, F, T)
<1> DEFINE n == Cardinality(keys)
<1>1. n \in Nat
  BY FS_CardinalityType
<1>2. PICK g : Rounds(keys, F, n, g) /\ (HasCycle(keys, F) <=> g[n] # {})
  BY HasCycleRounds
<1> HIDE DEF n
<1>3. g[0] = keys
  BY <1>1, <1>2 DEF Rounds
<1>4. \A i \in 0..n : i + 1 \in 0..n => g[i + 1] = {k \in g[i] : F[k] \intersect g[i] # {}}
  <2>1. SUFFICES ASSUME NEW i \in 0..n, i + 1 \in 0..n
                 PROVE  g[i + 1] = {k \in g[i] : F[k] \intersect g[i] # {}}
    OBVIOUS
  <2> DEFINE j == i + 1
  <2>2. j \in 0..n /\ j # 0 /\ j - 1 = i
    BY <2>1
  <2> HIDE DEF j
  <2>3. g[j] = {k \in g[j - 1] : F[k] \intersect g[j - 1] # {}}
    BY <1>2, <2>2 DEF Rounds
  <2>4. QED
    BY <2>2, <2>3 DEF j
<1>5. ASSUME NEW T, Circle(keys, F, T)
      PROVE  g[n] # {}
  <2> DEFINE P == {i \in Nat : i \in 0..n => T \subseteq g[i]}
  <2>1. 0 \in P
    BY <1>3, <1>5 DEF Circle
  <2>2. ASSUME NEW i \in Nat, i \in P
        PROVE  i + 1 \in P
    <3>1. SUFFICES ASSUME i + 1 \in 0..n
                   PROVE  T \subseteq g[i + 1]
      OBVIOUS
    <3>2. i \in 0..n /\ T \subseteq g[i]
      BY <1>1, <2>2, <3>1
    <3>3. QED
      BY <1>4, <1>5, <3>1, <3>2 DEF Circle
  <2>3. \A i \in Nat : i \in P
    <3> HIDE DEF P
    <3> QED BY <2>1, <2>2, SetInduction
  <2>4. T \subseteq g[n]
    BY <1>1, <2>3
  <2>5. QED
    BY <2>4, <1>5 DEF Circle
<1>6. ASSUME ~ \E T : Circle(keys, F, T)
      PROVE  g[n] = {}
  <2> DEFINE P == {i \in Nat : i \in 0..n =>
                     g[i] \subseteq keys /\ IsFiniteSet(g[i]) /\ Cardinality(g[i]) <= n - i}
  <2>1. 0 \in P
    BY <1>1, <1>3 DEF n
  <2>2. ASSUME NEW i \in Nat, i \in P
        PROVE  i + 1 \in P
    <3>1. SUFFICES ASSUME i + 1 \in 0..n
                   PROVE  /\ g[i + 1] \subseteq keys /\ IsFiniteSet(g[i + 1])
                          /\ Cardinality(g[i + 1]) <= n - (i + 1)
      OBVIOUS
    <3>2. i \in 0..n /\ g[i] \subseteq keys /\ IsFiniteSet(g[i]) /\ Cardinality(g[i]) <= n - i
      BY <1>1, <2>2, <3>1
    <3>3. g[i + 1] = {k \in g[i] : F[k] \intersect g[i] # {}}
      BY <1>4, <3>1, <3>2
    <3>4. g[i + 1] \subseteq g[i]
      BY <3>3
    <3>5. IsFiniteSet(g[i + 1]) /\ Cardinality(g[i + 1]) \in Nat /\ Cardinality(g[i]) \in Nat
      BY <3>2, <3>4, FS_Subset, FS_CardinalityType
    <3>6. CASE g[i] = {}
      <4>1. Cardinality(g[i + 1]) = 0
        BY <3>4, <3>6, FS_EmptySet
      <4>2. QED
        BY <1>1, <3>1, <3>2, <3>4, <3>5, <4>1
    <3>7. CASE g[i] # {}
      <4>1. g[i + 1] # g[i]
        BY <1>6, <3>2, <3>3, <3>7 DEF Circle
      <4>2. Cardinality(g[i + 1]) < Cardinality(g[i])
        <5>1. Cardinality(g[i + 1]) <= Cardinality(g[i])
              /\ (Cardinality(g[i + 1]) = Cardinality(g[i]) => g[i + 1] = g[i])
          BY <3>2, <3>4, FS_Subset
        <5>2. QED
          BY <3>5, <4>1, <5>1
      <4>3. QED
        BY <1>1, <3>2, <3>4, <3>5, <4>2
    <3>8. QED
      BY <3>6, <3>7
  <2>3. \A i \in Nat : i \in P
    <3> HIDE DEF P
    <3> QED BY <2>1, <2>2, SetInduction
  <2>4. IsFiniteSet(g[n]) /\ Cardinality(g[n]) <= 0 /\ Cardinality(g[n]) \in Nat
    BY <1>1, <2>3, FS_CardinalityType
  <2>5. QED
    BY <2>4, FS_EmptySet
<1>7. QED
  BY <1>2, <1>5, <1>6

\* A round adds the keys that are pointed at.
Further(x, keys, F) == x \union ((UNION {F[k] : k \in x}) \intersect keys)

\* What that is.
LEMMA FurtherKeys ==
  ASSUME NEW keys, NEW F, NEW x
  PROVE  /\ x \subseteq Further(x, keys, F)
         /\ x \subseteq keys => Further(x, keys, F) \subseteq keys
         /\ \A k \in x : F[k] \intersect keys \subseteq Further(x, keys, F)
<1> DEFINE U == UNION {F[k] : k \in x}
<1>1. \A k \in x : F[k] \subseteq U
  OBVIOUS
<1>2. Further(x, keys, F) = x \union (U \intersect keys)
  BY DEF Further
<1> HIDE DEF U
<1>3. QED
  BY <1>1, <1>2

\* What is reached after each of n rounds of ReachedFrom.
Reaches(start, keys, F, n, g) ==
  g = [i \in 0..n |-> IF i = 0 THEN {start} ELSE Further(g[i - 1], keys, F)]

\* There are such rounds.
LEMMA ReachesExist ==
  ASSUME NEW keys, NEW start \in keys, NEW F, NEW n \in Nat
  PROVE  \E g : Reaches(start, keys, F, n, g) /\ \A i \in 0..n : g[i] \in SUBSET keys
<1> DEFINE S == SUBSET keys
           Step(x) == Further(x, keys, F)
           step == [i \in 1..n |-> [x \in S |-> Step(x)]]
<1>1. step \in [1..n -> [S -> S]] /\ {start} \in S
  <2>1. \A x \in S : Step(x) \in S
    BY FurtherKeys
  <2>2. {start} \in S
    OBVIOUS
  <2> HIDE DEF S, Step
  <2>3. QED
    BY <2>1, <2>2
<1>2. PICK g : Iterates(g, n, S, {start}, step)
  <2>1. \E g : Iterates(g, n, S, {start}, step)
    <3> HIDE DEF step, S
    <3>1. QED
      BY <1>1, Recursion
  <2>2. QED
    BY <2>1
<1>3. \A i \in 0..n : g[i] \in S
  BY <1>2 DEF Iterates
<1>4. ASSUME NEW i \in 0..n
      PROVE  g[i] = IF i = 0 THEN {start} ELSE Step(g[i - 1])
  <2>1. CASE i = 0
    BY <1>2, <2>1 DEF Iterates
  <2>2. CASE i # 0
    <3>1. i \in 1..n /\ i - 1 \in 0..n
      BY <2>2
    <3>2. g[i] = step[i][g[i - 1]] /\ g[i - 1] \in S
      BY <1>2, <1>3, <3>1 DEF Iterates
    <3>3. step[i] = [x \in S |-> Step(x)]
      BY <3>1
    <3> HIDE DEF step, S, Step
    <3>4. QED
      BY <2>2, <3>2, <3>3
  <2>3. QED
    BY <2>1, <2>2
<1>5. g = [i \in 0..n |-> g[i]]
  BY <1>2 DEF Iterates
<1> DEFINE h == [i \in 0..n |-> IF i = 0 THEN {start} ELSE Step(g[i - 1])]
<1>6. g = h
  <2>1. \A i \in 0..n : g[i] = h[i]
    BY <1>4
  <2>2. h = [i \in 0..n |-> h[i]]
    OBVIOUS
  <2> HIDE DEF h
  <2>3. QED
    BY <1>5, <2>1, <2>2
<1>7. Reaches(start, keys, F, n, g)
  BY <1>6 DEF Reaches
<1>8. QED
  BY <1>3, <1>7

\* What is reached contains the start and, with each key, the keys it points at: a round adds
\* something or is the last that could, and there are as many rounds as keys.
LEMMA ReachedClosed ==
  ASSUME NEW keys, IsFiniteSet(keys), NEW start \in keys, NEW F
  PROVE  /\ start \in ReachedFrom(start, keys, F)
         /\ ReachedFrom(start, keys, F) \subseteq keys
         /\ \A k \in ReachedFrom(start, keys, F) :
              F[k] \intersect keys \subseteq ReachedFrom(start, keys, F)
<1> DEFINE n == Cardinality(keys)
           Step(x) == Further(x, keys, F)
           Body(g) == [i \in 0..n |-> IF i = 0 THEN {start} ELSE Step(g[i - 1])]
           r == CHOOSE g : g = Body(g)
<1>1. n \in Nat
  BY FS_CardinalityType
<1>2. PICK f : f = Body(f) /\ \A i \in 0..n : f[i] \in SUBSET keys
  <2>1. \E g : Reaches(start, keys, F, n, g) /\ \A i \in 0..n : g[i] \in SUBSET keys
    <3> HIDE DEF n
    <3>1. QED
      BY <1>1, ReachesExist
  <2>2. QED
    BY <2>1 DEF Reaches
<1>3. r = Body(r)
  BY <1>2
<1>4. ReachedFrom(start, keys, F) = r[n]
  BY DEF ReachedFrom, Further
<1> HIDE DEF r, n
<1>5. r[0] = {start}
  <2>1. 0 \in 0..n
    BY <1>1
  <2>2. QED
    BY <1>3, <2>1
<1>6. \A i \in 1..n : r[i] = Step(r[i - 1])
  <2>1. \A i \in 1..n : i \in 0..n /\ i # 0
    BY <1>1
  <2> HIDE DEF Step
  <2>2. QED
    BY <1>3, <2>1
<1> DEFINE P == {i \in Nat : i \in 0..n =>
                   /\ start \in r[i] /\ r[i] \subseteq keys
                   /\ \/ Step(r[i]) = r[i]
                      \/ Cardinality(r[i]) >= i + 1}
<1>7. 0 \in P
  <2>1. Cardinality({start}) = 1
    BY FS_Singleton
  <2>2. QED
    BY <1>5, <2>1
<1>8. ASSUME NEW i \in Nat, i \in P
      PROVE  i + 1 \in P
  <2>1. SUFFICES ASSUME i + 1 \in 0..n
                 PROVE  /\ start \in r[i + 1] /\ r[i + 1] \subseteq keys
                        /\ \/ Step(r[i + 1]) = r[i + 1]
                           \/ Cardinality(r[i + 1]) >= (i + 1) + 1
    OBVIOUS
  <2>2. i \in 0..n /\ i + 1 \in 1..n /\ (i + 1) - 1 = i
    BY <1>1, <2>1
  <2>3. r[i + 1] = Step(r[i])
    <3> HIDE DEF Step
    <3>1. r[i + 1] = Step(r[(i + 1) - 1])
      BY <1>6, <2>2
    <3>2. QED
      BY <2>2, <3>1
  <2>4. /\ start \in r[i] /\ r[i] \subseteq keys
        /\ Step(r[i]) = r[i] \/ Cardinality(r[i]) >= i + 1
    BY <1>8, <2>2
  <2>5. r[i] \subseteq r[i + 1] /\ r[i + 1] \subseteq keys
    BY <2>3, <2>4, FurtherKeys
  <2>6. CASE Step(r[i]) = r[i]
    BY <2>3, <2>4, <2>6
  <2>7. CASE Cardinality(r[i]) >= i + 1 /\ r[i + 1] # r[i]
    <3>1. IsFiniteSet(r[i + 1]) /\ IsFiniteSet(r[i])
      BY <2>4, <2>5, FS_Subset
    <3>2. /\ Cardinality(r[i]) <= Cardinality(r[i + 1])
          /\ Cardinality(r[i + 1]) = Cardinality(r[i]) => r[i + 1] = r[i]
      BY <2>5, <3>1, FS_Subset
    <3>3. Cardinality(r[i]) \in Nat /\ Cardinality(r[i + 1]) \in Nat
      BY <3>1, FS_CardinalityType
    <3>4. Cardinality(r[i + 1]) >= (i + 1) + 1
      BY <2>7, <3>2, <3>3
    <3>5. QED
      BY <2>4, <2>5, <3>4
  <2>8. QED
    BY <2>3, <2>4, <2>6, <2>7
<1>9. n \in P
  <2> HIDE DEF P
  <2>1. QED
    BY <1>1, <1>7, <1>8, SetInduction
<1>10. start \in r[n] /\ r[n] \subseteq keys /\ Step(r[n]) = r[n]
  <2>1. /\ start \in r[n] /\ r[n] \subseteq keys
        /\ Step(r[n]) = r[n] \/ Cardinality(r[n]) >= n + 1
    BY <1>1, <1>9
  <2>2. Cardinality(r[n]) <= n /\ Cardinality(r[n]) \in Nat
    BY <2>1, FS_Subset, FS_CardinalityType DEF n
  <2>3. QED
    BY <1>1, <2>1, <2>2
<1>11. \A k \in r[n] : F[k] \intersect keys \subseteq Step(r[n])
  BY FurtherKeys
<1>12. QED
  BY <1>4, <1>10, <1>11

\* Keys in an order in which each points only at keys before it are on no cycle.
LEMMA OrderedAcyclic ==
  ASSUME NEW n \in Nat, NEW key, NEW keys, keys = {key[i] : i \in 1..n}, IsFiniteSet(keys), NEW F,
         \A i \in 1..n : F[key[i]] \intersect keys \subseteq {key[j] : j \in 1..(i - 1)}
  PROVE  ~HasCycle(keys, F)
<1>1. SUFFICES ASSUME NEW T, Circle(keys, F, T)
               PROVE  FALSE
  BY CycleIsCircle
<1> DEFINE I == {i \in 1..n : key[i] \in T}
<1>2. I \in SUBSET Nat /\ I # {}
  BY <1>1 DEF Circle
<1>3. PICK m \in I : \A i \in I : m <= i
  <2> HIDE DEF I
  <2>1. QED
    BY <1>2, MinExists
<1>4. PICK t \in F[key[m]] : t \in T
  BY <1>1, <1>3 DEF Circle
<1>5. PICK j \in 1..(m - 1) : t = key[j]
  BY <1>1, <1>3, <1>4 DEF Circle
<1>6. j \in I
  BY <1>3, <1>4, <1>5
<1>7. QED
  BY <1>3, <1>5, <1>6

\* What points at less than an acyclic set is acyclic too.
LEMMA FewerAcyclic ==
  ASSUME NEW keys, IsFiniteSet(keys), NEW F, ~HasCycle(keys, F),
         NEW few \in SUBSET keys, NEW G, \A k \in few : G[k] \intersect few \subseteq F[k]
  PROVE  ~HasCycle(few, G)
<1>1. IsFiniteSet(few)
  BY FS_Subset
<1>2. ASSUME NEW T, Circle(few, G, T)
      PROVE  Circle(keys, F, T)
  BY <1>2 DEF Circle
<1>3. QED
  BY <1>1, <1>2, CycleIsCircle

-----------------------------------------------------------------------------
(* Lists of tasks.                                                           *)

\* The places of a list are the first n numbers.
Listed(tasks, n) == n \in Nat /\ DOMAIN tasks = 1..n

\* In a list with distinct keys a key leads to its task.
LEMMA ByKeyOf ==
  ASSUME NEW tasks, NEW n, Listed(tasks, n), KeysDistinct(tasks), NEW i \in 1..n
  PROVE  ByKey(tasks, tasks[i].key) = tasks[i]
<1> DEFINE I == {j \in DOMAIN tasks : tasks[j].key = tasks[i].key}
<1>1. I = {i}
  BY DEF Listed, KeysDistinct
<1>2. Max({i}) = i
  BY DEF Max, Listed
<1>3. QED
  BY <1>1, <1>2 DEF ByKey

\* The keys of a list are finitely many.
LEMMA TaskKeysFinite ==
  ASSUME NEW tasks, NEW n, Listed(tasks, n)
  PROVE  IsFiniteSet(TaskKeys(tasks)) /\ Cardinality(TaskKeys(tasks)) <= n
         /\ TaskKeys(tasks) = {tasks[i].key : i \in 1..n}
<1> DEFINE f == [i \in 1..n |-> tasks[i].key]
<1>1. f \in Surjection(1..n, TaskKeys(tasks))
  <2>1. f \in [1..n -> TaskKeys(tasks)] /\ \A k \in TaskKeys(tasks) : \E i \in 1..n : f[i] = k
    BY DEF TaskKeys, Listed
  <2> HIDE DEF f
  <2>2. QED
    BY <2>1 DEF Surjection
<1>2. IsFiniteSet(1..n) /\ Cardinality(1..n) = n
  BY FS_Interval DEF Listed
<1>3. IsFiniteSet(TaskKeys(tasks)) /\ Cardinality(TaskKeys(tasks)) <= Cardinality(1..n)
  <2> HIDE DEF f
  <2>1. QED
    BY <1>1, <1>2, FS_Surjection
<1>4. QED
  BY <1>2, <1>3 DEF TaskKeys, Listed

\* A list in which each task names tasks before it only is valid as far as its structure goes.
LEMMA OrderedPlanValid ==
  ASSUME NEW p, NEW n, Listed(p.tasks, n), n # 0, p.maxWaves \in 1..100, KeysDistinct(p.tasks),
         \A i \in 1..n : /\ TaskFieldsValid(p.tasks[i], p.maxWaves)
                         /\ p.tasks[i].dependsOn \subseteq {p.tasks[j].key : j \in 1..(i - 1)}
                         /\ \/ p.tasks[i].parentKey = NoKey
                            \/ \E j \in 1..(i - 1) : p.tasks[i].parentKey = p.tasks[j].key
  PROVE  validatePlanSpec(p)
<1> DEFINE tasks == p.tasks
           keys == TaskKeys(tasks)
           key == [i \in 1..n |-> tasks[i].key]
           deps == [k \in keys |-> ByKey(tasks, k).dependsOn]
           parents == [k \in keys |-> {ByKey(tasks, k).parentKey}]
<1>1. keys = {key[i] : i \in 1..n} /\ IsFiniteSet(keys)
  BY TaskKeysFinite DEF TaskKeys, Listed
<1>2. \A i \in 1..n : tasks[i].key \in keys /\ tasks[i].key # NoKey
  BY DEF TaskKeys, Listed, TaskFieldsValid, MalformedKeys
<1>3. \A i \in 1..n : \A j \in 1..(i - 1) :
        j \in 1..n /\ tasks[j].key \in keys /\ tasks[j].key # tasks[i].key
  BY <1>2 DEF Listed, KeysDistinct
<1>4. ~detectCycles(tasks)
  <2>1. \A i \in 1..n : deps[key[i]] = tasks[i].dependsOn
    BY <1>2, ByKeyOf
  <2>2. \A i \in 1..n : deps[key[i]] \intersect keys \subseteq {key[j] : j \in 1..(i - 1)}
    BY <1>3, <2>1
  <2>3. n \in Nat
    BY DEF Listed
  <2> HIDE DEF key, keys, deps, tasks
  <2>4. ~HasCycle(keys, deps)
    BY <1>1, <2>2, <2>3, OrderedAcyclic
  <2>5. QED
    BY <2>4 DEF detectCycles, keys, deps
<1>5. validateParentHierarchy(tasks, {})
  <2>1. \A i \in 1..n : parents[key[i]] = {tasks[i].parentKey}
    BY <1>2, ByKeyOf
  <2>2. \A i \in 1..n : parents[key[i]] \intersect keys \subseteq {key[j] : j \in 1..(i - 1)}
    <3>1. NoKey \notin keys
      BY <1>2 DEF TaskKeys, Listed
    <3>2. SUFFICES ASSUME NEW i \in 1..n, tasks[i].parentKey \in keys
                   PROVE  tasks[i].parentKey \in {key[j] : j \in 1..(i - 1)}
      <4> HIDE DEF key, keys, parents, tasks
      <4>1. QED
        BY <2>1
    <3>3. PICK j \in 1..(i - 1) : tasks[i].parentKey = tasks[j].key
      BY <3>1, <3>2
    <3>4. key[j] = tasks[j].key
      BY <1>3, <3>3
    <3>5. QED
      BY <3>3, <3>4
  <2>3. n \in Nat
    BY DEF Listed
  <2>4. ~HasCycle(keys, parents)
    <3> HIDE DEF key, keys, parents, tasks
    <3>1. QED
      BY <1>1, <2>2, <2>3, OrderedAcyclic
  <2>5. \A i \in DOMAIN tasks :
          tasks[i].parentKey # NoKey =>
            tasks[i].parentKey # tasks[i].key /\ tasks[i].parentKey \in keys \union {}
    BY <1>3 DEF Listed
  <2>6. QED
    BY <2>4, <2>5 DEF validateParentHierarchy
<1>6. DependenciesKnown(tasks, keys)
  BY <1>3 DEF DependenciesKnown, Listed
<1>7. tasks # <<>>
  BY DEF Listed
<1>8. QED
  BY <1>4, <1>5, <1>6, <1>7 DEF validatePlanSpec, Listed

-----------------------------------------------------------------------------
(* The plans the runtime makes up itself.                                    *)

\* What the first i of some sequences are together.
Joined(seqs, n, g) ==
  g = [i \in 1..n |-> IF i = 1 THEN seqs[i] ELSE g[i - 1] \o seqs[i]]

\* There is such a function.
LEMMA JoinedExists ==
  ASSUME NEW S, NEW n \in Nat, n # 0, NEW seqs \in [1..n -> Seq(S)]
  PROVE  \E g : Joined(seqs, n, g)
<1> DEFINE Q == Seq(S)
           step == [i \in 1..(n - 1) |-> [x \in Q |-> x \o seqs[i + 1]]]
<1>1. seqs[1] \in Q
  OBVIOUS
<1>2. step \in [1..(n - 1) -> [Q -> Q]]
  <2>1. \A i \in 1..(n - 1) : \A x \in Q : x \o seqs[i + 1] \in Q
    <3>1. SUFFICES ASSUME NEW i \in 1..(n - 1), NEW x \in Seq(S)
                   PROVE  x \o seqs[i + 1] \in Seq(S)
      OBVIOUS
    <3>2. i + 1 \in 1..n
      OBVIOUS
    <3>3. seqs[i + 1] \in Seq(S)
      BY <3>2
    <3>4. QED
      BY <3>3, ConcatProperties
  <2> HIDE DEF Q
  <2>2. QED
    BY <2>1
<1>3. PICK h : Iterates(h, n - 1, Q, seqs[1], step)
  <2> HIDE DEF step, Q
  <2>1. n - 1 \in Nat
    OBVIOUS
  <2>2. QED
    BY <1>1, <1>2, <2>1, Recursion
<1> DEFINE g == [i \in 1..n |-> h[i - 1]]
           b == [i \in 1..n |-> IF i = 1 THEN seqs[i] ELSE g[i - 1] \o seqs[i]]
<1>4. ASSUME NEW i \in 1..n
      PROVE  g[i] = b[i]
  <2>1. CASE i = 1
    BY <1>3, <2>1 DEF Iterates
  <2>2. CASE i # 1
    <3>1. i - 1 \in 1..(n - 1) /\ i - 1 \in 1..n /\ i - 1 - 1 \in 0..(n - 1) /\ (i - 1) + 1 = i
      BY <2>2
    <3>2. h[i - 1] = step[i - 1][h[i - 1 - 1]] /\ h[i - 1 - 1] \in Q
      BY <1>3, <3>1 DEF Iterates
    <3>3. h[i - 1] = h[i - 1 - 1] \o seqs[i]
      BY <3>1, <3>2
    <3>4. QED
      BY <2>2, <3>1, <3>3
  <2>3. QED
    BY <2>1, <2>2
<1>5. g = b
  <2>1. g = [i \in 1..n |-> g[i]] /\ b = [i \in 1..n |-> b[i]]
    OBVIOUS
  <2> HIDE DEF g, b
  <2>2. QED
    BY <1>4, <2>1
<1>6. Joined(seqs, n, g)
  BY <1>5 DEF Joined
<1>7. QED
  BY <1>6

\* Sequences of three members each, one after the other.
LEMMA FlattenThrees ==
  ASSUME NEW S, NEW n \in Nat, n # 0, NEW seqs \in [1..n -> Seq(S)], \A i \in 1..n : Len(seqs[i]) = 3
  PROVE  /\ FlattenSeq(seqs) \in Seq(S) /\ Len(FlattenSeq(seqs)) = 3 * n
         /\ \A i \in 1..n : \A j \in 1..3 : FlattenSeq(seqs)[3 * (i - 1) + j] = seqs[i][j]
<1> DEFINE Body(g) == [i \in 1..Len(seqs) |-> IF i = 1 THEN seqs[i] ELSE g[i - 1] \o seqs[i]]
           f == CHOOSE g : g = Body(g)
<1>1. Len(seqs) = n
  OBVIOUS
<1>2. f = Body(f)
  <2>1. PICK g : Joined(seqs, n, g)
    BY JoinedExists
  <2>2. g = Body(g)
    BY <1>1, <2>1 DEF Joined
  <2>3. QED
    BY <2>2
<1>3. FlattenSeq(seqs) = f[n]
  BY <1>1 DEF FlattenSeq
<1> HIDE DEF f
<1>4. f[1] = seqs[1]
  BY <1>1, <1>2
<1>5. ASSUME NEW i \in 1..(n - 1)
      PROVE  f[i + 1] = f[i] \o seqs[i + 1]
  <2> DEFINE k == i + 1
  <2>1. k \in 1..n /\ k # 1 /\ k - 1 = i
    OBVIOUS
  <2> HIDE DEF k
  <2>2. f[k] = f[k - 1] \o seqs[k]
    BY <1>1, <1>2, <2>1
  <2>3. QED
    BY <2>1, <2>2 DEF k
<1> DEFINE Good(m) == /\ f[m] \in Seq(S) /\ Len(f[m]) = 3 * m
                      /\ \A i \in 1..m : \A j \in 1..3 : f[m][3 * (i - 1) + j] = seqs[i][j]
           P == {m \in Nat : m + 1 <= n => Good(m + 1)}
<1>6. 0 \in P
  <2>1. 0 + 1 = 1
    OBVIOUS
  <2>2. Good(1)
    <3>1. seqs[1] \in Seq(S) /\ Len(seqs[1]) = 3
      OBVIOUS
    <3>2. \A i \in 1..1 : \A j \in 1..3 : 3 * (i - 1) + j = j /\ i = 1
      OBVIOUS
    <3>3. QED
      BY <1>4, <3>1, <3>2
  <2> HIDE DEF Good
  <2>3. QED
    BY <2>1, <2>2
<1>7. ASSUME NEW k \in Nat, k \in P
      PROVE  k + 1 \in P
  <2> DEFINE m == k + 1
  <2>1. SUFFICES ASSUME m + 1 <= n
                 PROVE  Good(m + 1)
    OBVIOUS
  <2>2. m \in 1..(n - 1) /\ m + 1 \in 1..n
    BY <2>1
  <2>3. Good(m)
    <3> HIDE DEF Good
    <3>1. QED
      BY <1>7, <2>2
  <2> HIDE DEF m
  <2>4. f[m + 1] = f[m] \o seqs[m + 1] /\ seqs[m + 1] \in Seq(S) /\ Len(seqs[m + 1]) = 3
    BY <1>5, <2>2
  <2>5. /\ f[m + 1] \in Seq(S) /\ Len(f[m + 1]) = 3 * m + 3
        /\ \A l \in 1..(3 * m + 3) : f[m + 1][l] = IF l <= 3 * m THEN f[m][l]
                                                   ELSE seqs[m + 1][l - 3 * m]
    <3> DEFINE s == f[m]
               t == seqs[m + 1]
    <3>1. s \in Seq(S) /\ t \in Seq(S) /\ Len(s) = 3 * m /\ Len(t) = 3
      BY <2>3, <2>4
    <3>2. f[m + 1] = s \o t
      BY <2>4
    <3> HIDE DEF s, t
    <3>3. /\ s \o t \in Seq(S) /\ Len(s \o t) = Len(s) + Len(t)
          /\ \A l \in 1..(Len(s) + Len(t)) : (s \o t)[l] = IF l <= Len(s) THEN s[l] ELSE t[l - Len(s)]
      BY <3>1, ConcatProperties
    <3>4. QED
      BY <3>1, <3>2, <3>3 DEF s, t
  <2>6. ASSUME NEW i \in 1..(m + 1), NEW j \in 1..3
        PROVE  f[m + 1][3 * (i - 1) + j] = seqs[i][j]
    <3>1. m \in Nat
      BY <2>2
    <3>2. CASE i = m + 1
      <4> DEFINE l == 3 * (i - 1) + j
      <4>1. l \in 1..(3 * m + 3) /\ ~(l <= 3 * m) /\ l - 3 * m = j
        BY <3>1, <3>2
      <4> HIDE DEF l
      <4>2. f[m + 1][l] = seqs[m + 1][l - 3 * m]
        BY <2>5, <4>1
      <4>3. f[m + 1][l] = seqs[i][j]
        BY <3>2, <4>1, <4>2
      <4>4. QED
        BY <4>3 DEF l
    <3>3. CASE i # m + 1
      <4>1. i \in 1..m
        BY <3>1, <3>3
      <4> DEFINE l == 3 * (i - 1) + j
      <4>2. l \in 1..(3 * m + 3) /\ l <= 3 * m
        BY <3>1, <4>1
      <4>3. f[m][l] = seqs[i][j]
        BY <2>3, <4>1
      <4> HIDE DEF l
      <4>4. f[m + 1][l] = seqs[i][j]
        BY <2>5, <4>2, <4>3
      <4>5. QED
        BY <4>4 DEF l
    <3>4. QED
      BY <3>2, <3>3
  <2>7. 3 * m + 3 = 3 * (m + 1)
    BY <2>2
  <2>8. QED
    BY <2>5, <2>6, <2>7
<1>8. n - 1 \in P
  <2> HIDE DEF P
  <2>1. n - 1 \in Nat
    OBVIOUS
  <2>2. QED
    BY <1>6, <1>7, <2>1, SetInduction
<1>9. Good(n)
  <2> HIDE DEF Good
  <2>1. n - 1 + 1 = n
    OBVIOUS
  <2>2. QED
    BY <1>8, <2>1
<1>10. QED
  BY <1>3, <1>9

\* A function on the first n numbers is a sequence.
LEMMA SeqOfFunction ==
  ASSUME NEW n \in Nat, NEW S, NEW f \in [1..n -> S]
  PROVE  f \in Seq(S) /\ Len(f) = n
OBVIOUS

\* m templates of two leaves each.
Templates(T, m) ==
  m \in Nat /\ m # 0 /\ DOMAIN T = 1..m /\ \A i \in 1..m : DOMAIN T[i].leaves = 1..2

\* The j-th key of the i-th template, its own first.
PartKey(T, i, j) == IF j = 1 THEN T[i].key ELSE T[i].leaves[j - 1].key

PartRole(T, i, j) == IF j = 1 THEN T[i].role ELSE T[i].leaves[j - 1].role

\* The keys that are not the last of a template.
PartBefore(T, i) == IF i = 1 THEN "goal" ELSE T[i - 1].key

\* The task of that key.
Part(T, i, j) ==
  IF j = 1 THEN planTask(PartKey(T, i, j), PartRole(T, i, j), "goal", {PartBefore(T, i)})
  ELSE [planTask(PartKey(T, i, j), PartRole(T, i, j), T[i].key,
                 {T[i].key} \union T[i].leaves[j - 1].dependsOn) EXCEPT !.wave = 2]

\* A template makes three tasks.
LEMMA ModuleTasksAre ==
  ASSUME NEW T, NEW m, Templates(T, m), NEW i \in 1..m
  PROVE  /\ ModuleTasks(T[i], PartBefore(T, i)) \in Seq({Part(T, i, j) : j \in 1..3})
         /\ Len(ModuleTasks(T[i], PartBefore(T, i))) = 3
         /\ \A j \in 1..3 : ModuleTasks(T[i], PartBefore(T, i))[j] = Part(T, i, j)
<1> DEFINE S == {Part(T, i, j) : j \in 1..3}
           head == <<planTask(T[i].key, T[i].role, "goal", {PartBefore(T, i)})>>
           leaf(l) == [planTask(T[i].leaves[l].key, T[i].leaves[l].role, T[i].key,
                                {T[i].key} \union T[i].leaves[l].dependsOn) EXCEPT !.wave = 2]
           rest == [l \in DOMAIN T[i].leaves |-> leaf(l)]
<1>1. DOMAIN T[i].leaves = 1..2
  BY DEF Templates
<1>2. ModuleTasks(T[i], PartBefore(T, i)) = head \o rest
  BY DEF ModuleTasks
<1>3. head[1] = Part(T, i, 1)
  BY DEF Part, PartKey, PartRole
<1>4. \A l \in 1..2 : leaf(l) = Part(T, i, l + 1)
  <2>1. SUFFICES ASSUME NEW l \in 1..2
                 PROVE  leaf(l) = Part(T, i, l + 1)
    OBVIOUS
  <2> DEFINE j == l + 1
  <2>2. j # 1 /\ j - 1 = l
    OBVIOUS
  <2> HIDE DEF j
  <2>3. leaf(l) = Part(T, i, j)
    BY <2>2 DEF Part, PartKey, PartRole
  <2>4. QED
    BY <2>3 DEF j
<1>5. head \in Seq(S) /\ Len(head) = 1
  <2>1. Part(T, i, 1) \in S
    OBVIOUS
  <2>2. head = <<Part(T, i, 1)>>
    BY <1>3
  <2> HIDE DEF S, head
  <2>3. QED
    BY <2>1, <2>2
<1>6. rest \in Seq(S) /\ Len(rest) = 2 /\ \A l \in 1..2 : rest[l] = Part(T, i, l + 1)
  <2>1. \A l \in 1..2 : Part(T, i, l + 1) \in S
    OBVIOUS
  <2>2. rest = [l \in 1..2 |-> leaf(l)]
    BY <1>1
  <2> HIDE DEF S, leaf, rest
  <2>3. rest \in [1..2 -> S] /\ \A l \in 1..2 : rest[l] = Part(T, i, l + 1)
    BY <1>4, <2>1, <2>2
  <2>4. rest \in Seq(S) /\ Len(rest) = 2
    <3>1. rest \in [1..2 -> S]
      BY <2>3
    <3>2. QED
      BY <3>1, SeqOfFunction
  <2>5. QED
    BY <2>3, <2>4
<1> HIDE DEF S, head, rest, leaf
<1>7. /\ head \o rest \in Seq(S) /\ Len(head \o rest) = 3
      /\ \A l \in 1..3 : (head \o rest)[l] = IF l <= 1 THEN head[l] ELSE rest[l - 1]
  BY <1>5, <1>6, ConcatProperties
<1>8. \A j \in 1..3 : (head \o rest)[j] = Part(T, i, j)
  <2>1. SUFFICES ASSUME NEW j \in 1..3
                 PROVE  (head \o rest)[j] = Part(T, i, j)
    OBVIOUS
  <2>2. CASE j = 1
    BY <1>3, <1>7, <2>2
  <2>3. CASE j # 1
    <3>1. j - 1 \in 1..2 /\ j - 1 + 1 = j /\ ~(j <= 1)
      BY <2>3
    <3>2. rest[j - 1] = Part(T, i, j)
      BY <1>6, <3>1
    <3>3. QED
      BY <1>7, <3>1, <3>2
  <2>4. QED
    BY <2>2, <2>3
<1>9. QED
  BY <1>2, <1>7, <1>8 DEF S

\* The goal's task, then those of the templates.
DraftTasks(T) ==
  <<planTask("goal", "planner", NoKey, {})>>
  \o FlattenSeq([i \in DOMAIN T |-> ModuleTasks(T[i], PartBefore(T, i))])

\* The task at each place of a draft.
LEMMA DraftTasksAre ==
  ASSUME NEW T, NEW m, Templates(T, m)
  PROVE  /\ Listed(DraftTasks(T), 3 * m + 1)
         /\ DraftTasks(T)[1] = planTask("goal", "planner", NoKey, {})
         /\ \A i \in 1..m : \A j \in 1..3 : DraftTasks(T)[3 * (i - 1) + j + 1] = Part(T, i, j)
<1> DEFINE goal == planTask("goal", "planner", NoKey, {})
           head == <<goal>>
           U == {goal} \union UNION {{Part(T, i, j) : j \in 1..3} : i \in 1..m}
           seqs == [i \in DOMAIN T |-> ModuleTasks(T[i], PartBefore(T, i))]
           flat == FlattenSeq(seqs)
<1>1. DOMAIN T = 1..m /\ m \in Nat /\ m # 0
  BY DEF Templates
<1>2. /\ seqs \in [1..m -> Seq(U)]
      /\ \A i \in 1..m : Len(seqs[i]) = 3
      /\ \A i \in 1..m : \A j \in 1..3 : seqs[i][j] = Part(T, i, j)
  <2>1. ASSUME NEW i \in 1..m
        PROVE  ModuleTasks(T[i], PartBefore(T, i)) \in Seq(U)
    <3> DEFINE s == ModuleTasks(T[i], PartBefore(T, i))
               V == {Part(T, i, j) : j \in 1..3}
    <3>1. s \in Seq(V)
      BY ModuleTasksAre
    <3>2. V \subseteq U
      OBVIOUS
    <3> HIDE DEF s, U, V
    <3>3. s \in Seq(U)
      BY <3>1, <3>2
    <3>4. QED
      BY <3>3 DEF s
  <2>2. seqs \in [1..m -> Seq(U)]
    <3> HIDE DEF U
    <3>1. QED
      BY <1>1, <2>1
  <2>3. \A i \in 1..m : seqs[i] = ModuleTasks(T[i], PartBefore(T, i))
    BY <1>1
  <2>4. \A i \in 1..m : Len(ModuleTasks(T[i], PartBefore(T, i))) = 3
        /\ \A j \in 1..3 : ModuleTasks(T[i], PartBefore(T, i))[j] = Part(T, i, j)
    BY ModuleTasksAre
  <2> HIDE DEF seqs, U
  <2>5. QED
    BY <2>2, <2>3, <2>4
<1>3. head \in Seq(U) /\ Len(head) = 1 /\ head[1] = goal
  <2>1. goal \in U
    OBVIOUS
  <2> HIDE DEF U, goal
  <2>2. QED
    BY <2>1
<1> HIDE DEF head, U, seqs, goal
<1>4. /\ flat \in Seq(U) /\ Len(flat) = 3 * m
      /\ \A i \in 1..m : \A j \in 1..3 : flat[3 * (i - 1) + j] = Part(T, i, j)
  <2>1. m \in Nat /\ m # 0 /\ seqs \in [1..m -> Seq(U)] /\ \A i \in 1..m : Len(seqs[i]) = 3
    BY <1>1, <1>2
  <2>2. /\ flat \in Seq(U) /\ Len(flat) = 3 * m
        /\ \A i \in 1..m : \A j \in 1..3 : flat[3 * (i - 1) + j] = seqs[i][j]
    BY <2>1, FlattenThrees
  <2>3. QED
    BY <1>2, <2>2
<1> HIDE DEF flat
<1>5. DraftTasks(T) = head \o flat
  BY DEF DraftTasks, head, flat, seqs, goal
<1>6. /\ head \o flat \in Seq(U) /\ Len(head \o flat) = 1 + 3 * m
      /\ \A l \in 1..(1 + 3 * m) : (head \o flat)[l] = IF l <= 1 THEN head[l] ELSE flat[l - 1]
  <2>1. head \in Seq(U) /\ flat \in Seq(U) /\ Len(head) = 1 /\ Len(flat) = 3 * m
    BY <1>3, <1>4
  <2>2. /\ head \o flat \in Seq(U) /\ Len(head \o flat) = Len(head) + Len(flat)
        /\ \A l \in 1..(Len(head) + Len(flat)) :
             (head \o flat)[l] = IF l <= Len(head) THEN head[l] ELSE flat[l - Len(head)]
    BY <2>1, ConcatProperties
  <2>3. QED
    BY <2>1, <2>2
<1>7. ASSUME NEW i \in 1..m, NEW j \in 1..3
      PROVE  (head \o flat)[3 * (i - 1) + j + 1] = Part(T, i, j)
  <2> DEFINE l == 3 * (i - 1) + j + 1
  <2>1. l \in 1..(1 + 3 * m) /\ ~(l <= 1) /\ l - 1 = 3 * (i - 1) + j
    BY <1>1
  <2> HIDE DEF l
  <2>2. flat[l - 1] = Part(T, i, j)
    BY <1>4, <2>1
  <2>3. (head \o flat)[l] = Part(T, i, j)
    BY <1>6, <2>1, <2>2
  <2>4. QED
    BY <2>3 DEF l
<1>8. (head \o flat)[1] = goal
  BY <1>1, <1>3, <1>6
<1>9. Listed(head \o flat, 3 * m + 1)
  BY <1>1, <1>6 DEF Listed
<1>10. QED
  BY <1>5, <1>7, <1>8, <1>9 DEF goal

\* The default timeout is in the range that validation asks for.
LEMMA DefaultTimeoutInRange == DefaultTimeoutMs \in 1000..MaxTimeoutMs
<1>1. MaxTimeoutMs \in Int /\ DefaultTimeoutMs \in Int
  BY DEF DefaultTimeoutMs, MaxTimeoutMs
<1>2. 1000 <= DefaultTimeoutMs /\ DefaultTimeoutMs <= MaxTimeoutMs
  BY SMT DEF DefaultTimeoutMs, MaxTimeoutMs
<1>3. QED
  BY <1>1, <1>2

\* The other fields that are not given are in their ranges too.
LEMMA PlanTaskFieldsValid ==
  ASSUME NEW key, NEW role, key \notin MalformedKeys, role \notin MalformedKeys,
         NEW parentKey, NEW dependsOn, NEW maxWave, NEW t, t.wave \in 1..maxWave,
         \/ t = planTask(key, role, parentKey, dependsOn)
         \/ t = [planTask(key, role, parentKey, dependsOn) EXCEPT !.wave = 2]
  PROVE  TaskFieldsValid(t, maxWave)
<1>1. t.key = key /\ t.role = role /\ t.timeoutMs = DefaultTimeoutMs /\ t.maxRetries = 1
      /\ t.maxExpansionDepth = 0
  BY DEF planTask
<1>2. t.timeoutMs \in 1000..MaxTimeoutMs /\ t.maxRetries \in 0..5 /\ t.maxExpansionDepth \in 0..20
  BY <1>1, DefaultTimeoutInRange
<1>3. QED
  BY <1>1, <1>2 DEF TaskFieldsValid

\* The place of the j-th task of the i-th template.
Place(i, j) == 3 * (i - 1) + j + 1

\* Templates with keys of their own, whose leaves wait for tasks before them.
TemplatesApart(T, m) ==
  /\ \A i, k \in 1..m : \A j, l \in 1..3 : PartKey(T, i, j) = PartKey(T, k, l) => i = k /\ j = l
  /\ \A i \in 1..m : \A j \in 1..3 :
       /\ PartKey(T, i, j) \notin MalformedKeys \union {"goal"}
       /\ PartRole(T, i, j) \notin MalformedKeys
  /\ \A i \in 1..m : \A l \in 1..2 : \A key \in T[i].leaves[l].dependsOn :
       \E k \in 1..m, j \in 1..3 : key = PartKey(T, k, j) /\ Place(k, j) < Place(i, l + 1)

\* The plan made of such templates is valid.
LEMMA TemplatesValid ==
  ASSUME NEW T, NEW m, Templates(T, m), TemplatesApart(T, m),
         NEW p, p.tasks = DraftTasks(T), p.maxWaves = 2
  PROVE  validatePlanSpec(p)
<1> DEFINE tasks == p.tasks
           n == 3 * m + 1
           goal == planTask("goal", "planner", NoKey, {})
<1>1. m \in Nat /\ m # 0 /\ n \in Nat /\ n # 0
  BY DEF Templates
<1>2. Listed(tasks, n) /\ tasks[1] = goal
      /\ \A i \in 1..m : \A j \in 1..3 : tasks[Place(i, j)] = Part(T, i, j)
  BY DraftTasksAre DEF Place
<1>3. \A i \in 1..m : \A j \in 1..3 : Place(i, j) \in 2..n
  BY <1>1 DEF Place
<1>4. ASSUME NEW q \in 2..n
      PROVE  \E i \in 1..m : \E j \in 1..3 : q = Place(i, j)
  <2> DEFINE i == (q - 2) \div 3 + 1
             j == ((q - 2) % 3) + 1
  <2>1. i \in 1..m /\ j \in 1..3 /\ q = Place(i, j)
    BY <1>1 DEF Place
  <2>2. QED
    BY <2>1
<1>5. \A i \in 1..m : \A j \in 1..3 : Part(T, i, j).key = PartKey(T, i, j)
  BY DEF Part, planTask
<1>6. goal.key = "goal" /\ goal.dependsOn = {} /\ goal.parentKey = NoKey
  BY DEF planTask
<1> HIDE DEF n, tasks, goal
<1>7. \A q \in 1..n : q = 1 \/ q \in 2..n
  BY <1>1
<1>8. KeysDistinct(tasks)
  <2>1. SUFFICES ASSUME NEW q \in 1..n, NEW r \in 1..n, tasks[q].key = tasks[r].key
                 PROVE  q = r
    BY <1>2 DEF KeysDistinct, Listed
  <2>2. \A s \in 2..n : \E i \in 1..m : \E j \in 1..3 : s = Place(i, j) /\ tasks[s].key = PartKey(T, i, j)
    BY <1>2, <1>4, <1>5
  <2>3. \A s \in 2..n : tasks[s].key # "goal"
    BY <2>2 DEF TemplatesApart
  <2>4. tasks[1].key = "goal"
    BY <1>2, <1>6
  <2>5. CASE q \in 2..n /\ r \in 2..n
    BY <2>1, <2>2, <2>5 DEF TemplatesApart
  <2>6. QED
    BY <1>7, <2>1, <2>3, <2>4, <2>5
<1> DEFINE Fits(q) == /\ TaskFieldsValid(tasks[q], 2)
                      /\ tasks[q].dependsOn \subseteq {tasks[r].key : r \in 1..(q - 1)}
                      /\ \/ tasks[q].parentKey = NoKey
                         \/ \E r \in 1..(q - 1) : tasks[q].parentKey = tasks[r].key
<1>9. Fits(1)
  <2>1. TaskFieldsValid(tasks[1], 2)
    <3>1. "goal" \notin MalformedKeys /\ "planner" \notin MalformedKeys
      BY DEF MalformedKeys, NoKey
    <3>2. goal.wave \in 1..2 /\ goal = planTask("goal", "planner", NoKey, {})
      BY DEF goal, planTask
    <3>3. TaskFieldsValid(goal, 2)
      BY <3>1, <3>2, PlanTaskFieldsValid
    <3>4. QED
      BY <1>2, <3>3
  <2>2. QED
    BY <1>2, <1>6, <2>1
<1>10. ASSUME NEW i \in 1..m, NEW j \in 1..3
       PROVE  Fits(Place(i, j))
  <2> DEFINE q == Place(i, j)
             Before == {tasks[r].key : r \in 1..(q - 1)}
  <2>1. q \in 2..n /\ tasks[q] = Part(T, i, j)
    BY <1>2, <1>3
  <2>2. \A k \in 1..m : \A l \in 1..3 : Place(k, l) < q => PartKey(T, k, l) \in Before
    <3>1. SUFFICES ASSUME NEW k \in 1..m, NEW l \in 1..3, Place(k, l) < q
                   PROVE  PartKey(T, k, l) \in Before
      OBVIOUS
    <3>2. Place(k, l) \in 1..(q - 1)
      BY <1>1, <1>3, <2>1, <3>1
    <3>3. tasks[Place(k, l)].key = PartKey(T, k, l)
      BY <1>2, <1>5
    <3>4. QED
      BY <3>2, <3>3
  <2>3. "goal" \in Before
    <3>1. 1 \in 1..(q - 1) /\ tasks[1].key = "goal"
      BY <1>1, <1>2, <1>6, <2>1
    <3>2. QED
      BY <3>1
  <2>4. TaskFieldsValid(tasks[q], 2)
    <3>1. PartKey(T, i, j) \notin MalformedKeys /\ PartRole(T, i, j) \notin MalformedKeys
      BY DEF TemplatesApart
    <3>2. QED
      <4> DEFINE key == PartKey(T, i, j)
                 role == PartRole(T, i, j)
                 parentKey == IF j = 1 THEN "goal" ELSE T[i].key
                 dependsOn == IF j = 1 THEN {PartBefore(T, i)}
                              ELSE {T[i].key} \union T[i].leaves[j - 1].dependsOn
                 t == tasks[q]
      <4>1. \/ t = planTask(key, role, parentKey, dependsOn)
            \/ t = [planTask(key, role, parentKey, dependsOn) EXCEPT !.wave = 2]
        BY <2>1 DEF Part
      <4>2. key \notin MalformedKeys /\ role \notin MalformedKeys
        BY <3>1
      <4>3. t.wave \in 1..2
        BY <2>1 DEF Part, planTask
      <4> HIDE DEF key, role, parentKey, dependsOn, t
      <4>4. TaskFieldsValid(t, 2)
        BY <4>1, <4>2, <4>3, PlanTaskFieldsValid
      <4>5. QED
        BY <4>4 DEF t
  <2>5. tasks[q].dependsOn \subseteq Before /\ tasks[q].parentKey \in Before
    <3>1. CASE j = 1
      <4>1. PartBefore(T, i) \in Before
        <5>1. CASE i = 1
          BY <2>3, <5>1 DEF PartBefore
        <5>2. CASE i # 1
          <6>1. i - 1 \in 1..m /\ Place(i - 1, 1) < q /\ PartKey(T, i - 1, 1) = T[i - 1].key
            <7>1. i - 1 \in 1..m
              BY <1>1, <5>2
            <7>2. 3 * ((i - 1) - 1) + 1 + 1 < 3 * (i - 1) + 1 + 1
              BY <1>1
            <7>3. QED
              BY <3>1, <7>1, <7>2 DEF Place, PartKey
          <6>2. PartKey(T, i - 1, 1) \in Before
            BY <2>2, <6>1
          <6>3. QED
            BY <5>2, <6>1, <6>2 DEF PartBefore
        <5>3. QED
          BY <5>1, <5>2
      <4>2. tasks[q].dependsOn = {PartBefore(T, i)} /\ tasks[q].parentKey = "goal"
        BY <2>1, <3>1 DEF Part, planTask
      <4> HIDE DEF Before, q
      <4>3. QED
        BY <2>3, <4>1, <4>2
    <3>2. CASE j # 1
      <4>1. T[i].key \in Before
        <5>1. Place(i, 1) < q /\ PartKey(T, i, 1) = T[i].key
          BY <3>2 DEF Place, PartKey
        <5>2. QED
          BY <2>2, <5>1
      <4>2. T[i].leaves[j - 1].dependsOn \subseteq Before
        <5> DEFINE l == j - 1
        <5>1. l \in 1..2 /\ l + 1 = j
          BY <3>2
        <5> HIDE DEF l, Before
        <5>2. ASSUME NEW key \in T[i].leaves[l].dependsOn
              PROVE  key \in Before
          <6>1. PICK k \in 1..m, h \in 1..3 : key = PartKey(T, k, h) /\ Place(k, h) < Place(i, l + 1)
            BY <5>1 DEF TemplatesApart
          <6>2. QED
            BY <2>2, <5>1, <6>1
        <5>3. QED
          BY <5>2 DEF l
      <4>3. /\ tasks[q].dependsOn = {T[i].key} \union T[i].leaves[j - 1].dependsOn
            /\ tasks[q].parentKey = T[i].key
        BY <2>1, <3>2 DEF Part, planTask
      <4> HIDE DEF Before, q
      <4>4. QED
        BY <4>1, <4>2, <4>3
    <3>3. QED
      BY <3>1, <3>2
  <2>6. QED
    BY <2>4, <2>5
<1>11. \A q \in 1..n : Fits(q)
  <2> HIDE DEF Fits
  <2>1. QED
    BY <1>4, <1>7, <1>9, <1>10
<1>12. p.maxWaves \in 1..100
  OBVIOUS
<1>13. Listed(p.tasks, n) /\ KeysDistinct(p.tasks)
  BY <1>2, <1>8 DEF tasks
<1>14. \A q \in 1..n : /\ TaskFieldsValid(p.tasks[q], p.maxWaves)
                       /\ p.tasks[q].dependsOn \subseteq {p.tasks[r].key : r \in 1..(q - 1)}
                       /\ \/ p.tasks[q].parentKey = NoKey
                          \/ \E r \in 1..(q - 1) : p.tasks[q].parentKey = p.tasks[r].key
  BY <1>11 DEF tasks
<1>15. QED
  BY <1>1, <1>12, <1>13, <1>14, OrderedPlanValid

\* What a chain's templates hold.
LEMMA ChainTemplatesAre ==
  ASSUME NEW mods, NEW m \in Nat, m # 0, DOMAIN mods = 1..m
  PROVE  /\ Templates(Chain(mods), m)
         /\ \A i \in 1..m : /\ PartKey(Chain(mods), i, 1) = mods[i][1]
                            /\ PartKey(Chain(mods), i, 2) = defineKey(mods[i][1])
                            /\ PartKey(Chain(mods), i, 3) = verifyKey(mods[i][1])
                            /\ PartRole(Chain(mods), i, 1) = mods[i][2]
                            /\ PartRole(Chain(mods), i, 2) = mods[i][2]
                            /\ PartRole(Chain(mods), i, 3) = "reviewer"
                            /\ Chain(mods)[i].leaves[1].dependsOn = {}
                            /\ Chain(mods)[i].leaves[2].dependsOn = {defineKey(mods[i][1])}
<1> DEFINE T == Chain(mods)
<1>1. DOMAIN T = 1..m /\ \A i \in 1..m : T[i] = simpleTemplate(mods[i][1], mods[i][2])
  BY DEF Chain
<1>2. \A key, role, deps : LET l == Leaf(key, role, deps)
                           IN  l.key = key /\ l.role = role /\ l.dependsOn = deps
  BY DEF Leaf
<1> HIDE DEF T
<1>3. ASSUME NEW i \in 1..m
      PROVE  /\ DOMAIN T[i].leaves = 1..2
             /\ T[i].key = mods[i][1] /\ T[i].role = mods[i][2]
             /\ T[i].leaves[1].key = defineKey(mods[i][1]) /\ T[i].leaves[1].role = mods[i][2]
             /\ T[i].leaves[1].dependsOn = {}
             /\ T[i].leaves[2].key = verifyKey(mods[i][1]) /\ T[i].leaves[2].role = "reviewer"
             /\ T[i].leaves[2].dependsOn = {defineKey(mods[i][1])}
  <2> DEFINE key == mods[i][1]
             role == mods[i][2]
             one == Leaf(defineKey(key), role, {})
             two == Leaf(verifyKey(key), "reviewer", {defineKey(key)})
  <2>1. T[i].key = key /\ T[i].role = role /\ T[i].leaves = <<one, two>>
    <3>1. T[i] = simpleTemplate(key, role)
      BY <1>1
    <3>2. QED
      BY <3>1 DEF simpleTemplate
  <2>2. /\ one.key = defineKey(key) /\ one.role = role /\ one.dependsOn = {}
        /\ two.key = verifyKey(key) /\ two.role = "reviewer" /\ two.dependsOn = {defineKey(key)}
    BY <1>2
  <2> HIDE DEF one, two
  <2>3. DOMAIN T[i].leaves = 1..2 /\ T[i].leaves[1] = one /\ T[i].leaves[2] = two
    BY <2>1
  <2>4. QED
    BY <2>1, <2>2, <2>3
<1>4. \A i \in 1..m :
        /\ PartKey(T, i, 1) = T[i].key /\ PartRole(T, i, 1) = T[i].role
        /\ PartKey(T, i, 2) = T[i].leaves[1].key /\ PartRole(T, i, 2) = T[i].leaves[1].role
        /\ PartKey(T, i, 3) = T[i].leaves[2].key /\ PartRole(T, i, 3) = T[i].leaves[2].role
  BY DEF PartKey, PartRole
<1>5. Templates(T, m)
  BY <1>1, <1>3 DEF Templates
<1>6. QED
  BY <1>3, <1>4, <1>5 DEF T

\* A chain of modules with names of their own.
LEMMA ChainTemplatesApart ==
  ASSUME NEW mods, NEW m \in Nat, m # 0, DOMAIN mods = 1..m,
         \A i \in 1..m : mods[i][1] \in ChainKeys /\ mods[i][2] \in {"planner", "researcher",
                                                                     "developer", "reviewer"},
         \A i, k \in 1..m : mods[i][1] = mods[k][1] => i = k
  PROVE  Templates(Chain(mods), m) /\ TemplatesApart(Chain(mods), m)
<1> DEFINE T == Chain(mods)
           name == [i \in 1..m |-> mods[i][1]]
<1>1. Templates(T, m)
      /\ \A i \in 1..m : /\ PartKey(T, i, 1) = name[i]
                         /\ PartKey(T, i, 2) = defineKey(name[i])
                         /\ PartKey(T, i, 3) = verifyKey(name[i])
                         /\ PartRole(T, i, 1) = mods[i][2]
                         /\ PartRole(T, i, 2) = mods[i][2]
                         /\ PartRole(T, i, 3) = "reviewer"
                         /\ T[i].leaves[1].dependsOn = {}
                         /\ T[i].leaves[2].dependsOn = {defineKey(name[i])}
  BY ChainTemplatesAre
<1>2. (\A i \in 1..m : name[i] \in ChainKeys) /\ \A i, k \in 1..m : name[i] = name[k] => i = k
  OBVIOUS
<1>3. \A i \in 1..m : mods[i][2] \notin MalformedKeys /\ "reviewer" \notin MalformedKeys
  BY DEF MalformedKeys, NoKey
<1> HIDE DEF T, name
<1>4. \A k \in ChainKeys : k \notin MalformedKeys \union {"goal"}
  BY DEF ChainKeys, MalformedKeys, NoKey
<1>5. /\ \A k \in ChainKeys : \A l \in ChainKeys :
           /\ defineKey(k) # l /\ verifyKey(k) # l /\ defineKey(k) # verifyKey(l)
           /\ defineKey(k) = defineKey(l) => k = l
           /\ verifyKey(k) = verifyKey(l) => k = l
      /\ \A k \in ChainKeys : /\ defineKey(k) \notin MalformedKeys \union {"goal"}
                              /\ verifyKey(k) \notin MalformedKeys \union {"goal"}
  <2> HIDE DEF ChainKeys
  <2>1. QED
    BY LeafKeysApart
<1>6. ASSUME NEW i \in 1..m, NEW k \in 1..m, NEW j \in 1..3, NEW l \in 1..3,
             PartKey(T, i, j) = PartKey(T, k, l)
      PROVE  i = k /\ j = l
  <2>1. name[i] \in ChainKeys /\ name[k] \in ChainKeys
    BY <1>2
  <2>2. CASE j = 1
    BY <1>1, <1>2, <1>5, <1>6, <2>1, <2>2
  <2>3. CASE j = 2
    BY <1>1, <1>2, <1>5, <1>6, <2>1, <2>3
  <2>4. CASE j = 3
    BY <1>1, <1>2, <1>5, <1>6, <2>1, <2>4
  <2>5. QED
    BY <2>2, <2>3, <2>4
<1>7. ASSUME NEW i \in 1..m, NEW j \in 1..3
      PROVE  /\ PartKey(T, i, j) \notin MalformedKeys \union {"goal"}
             /\ PartRole(T, i, j) \notin MalformedKeys
  <2>1. name[i] \in ChainKeys
    BY <1>2
  <2>2. j = 1 \/ j = 2 \/ j = 3
    OBVIOUS
  <2>3. QED
    BY <1>1, <1>3, <1>4, <1>5, <2>1, <2>2
<1>8. ASSUME NEW i \in 1..m, NEW l \in 1..2, NEW key \in T[i].leaves[l].dependsOn
      PROVE  \E k \in 1..m, j \in 1..3 : key = PartKey(T, k, j) /\ Place(k, j) < Place(i, l + 1)
  <2>1. l = 2 /\ key = PartKey(T, i, 2)
    BY <1>1, <1>8
  <2>2. Place(i, 2) < Place(i, 3)
    BY DEF Place
  <2>3. QED
    BY <2>1, <2>2
<1>9. TemplatesApart(T, m)
  BY <1>6, <1>7, <1>8 DEF TemplatesApart
<1>10. QED
  BY <1>1, <1>9 DEF T

\* The templates of a todo list's command line.
LEMMA TodoTemplatesApart ==
  Templates(todoCliPlanningTemplates, 5) /\ TemplatesApart(todoCliPlanningTemplates, 5)
<1> DEFINE T == todoCliPlanningTemplates
           Key(i, j) == PartKey(T, i, j)
<1>1. DOMAIN T = 1..5
  BY DEF todoCliPlanningTemplates
<1>2. ASSUME NEW key, NEW role, NEW one, NEW two
      PROVE  LET t == Module(key, role, <<one, two>>)
             IN  /\ t.key = key /\ t.role = role /\ DOMAIN t.leaves = 1..2
                 /\ t.leaves[1] = one /\ t.leaves[2] = two
  BY DEF Module
<1>3. ASSUME NEW key, NEW role, NEW deps
      PROVE  LET l == Leaf(key, role, deps)
             IN  l.key = key /\ l.role = role /\ l.dependsOn = deps
  BY DEF Leaf
<1>4. /\ T[1] = Module("requirements_scope", "planner",
                      <<Leaf("requirements_core_flows", "researcher", {}),
                        Leaf("requirements_poc_limits", "researcher", {})>>)
      /\ T[2] = Module("data_model", "developer",
                      <<Leaf("data_model_todo_entity", "developer", {}),
                        Leaf("data_model_storage_shape", "developer", {})>>)
      /\ T[3] = Module("cli_commands", "developer",
                      <<Leaf("cli_add_list", "developer", {"data_model_storage_shape"}),
                        Leaf("cli_complete_delete", "developer", {"data_model_todo_entity"})>>)
      /\ T[4] = Module("persistence", "developer",
                      <<Leaf("persistence_load_save", "developer", {"data_model_storage_shape"}),
                        Leaf("persistence_error_paths", "developer", {"persistence_load_save"})>>)
      /\ T[5] = Module("validation", "reviewer",
                      <<Leaf("validation_manual_flow", "reviewer",
                             {"cli_add_list", "cli_complete_delete", "persistence_load_save"}),
                        Leaf("validation_storage_file", "reviewer", {"validation_manual_flow"})>>)
  BY DEF todoCliPlanningTemplates
<1> HIDE DEF T
<1>5. /\ \A i \in 1..5 : DOMAIN T[i].leaves = 1..2
      /\ T[1].leaves[1].dependsOn = {} /\ T[1].leaves[2].dependsOn = {}
      /\ T[2].leaves[1].dependsOn = {} /\ T[2].leaves[2].dependsOn = {}
      /\ T[3].leaves[1].dependsOn = {"data_model_storage_shape"}
      /\ T[3].leaves[2].dependsOn = {"data_model_todo_entity"}
      /\ T[4].leaves[1].dependsOn = {"data_model_storage_shape"}
      /\ T[4].leaves[2].dependsOn = {"persistence_load_save"}
      /\ T[5].leaves[1].dependsOn = {"cli_add_list", "cli_complete_delete", "persistence_load_save"}
      /\ T[5].leaves[2].dependsOn = {"validation_manual_flow"}
  BY <1>4 DEF Module, Leaf
<1>6. /\ Key(1, 1) = "requirements_scope" /\ Key(1, 2) = "requirements_core_flows"
      /\ Key(1, 3) = "requirements_poc_limits"
      /\ Key(2, 1) = "data_model" /\ Key(2, 2) = "data_model_todo_entity"
      /\ Key(2, 3) = "data_model_storage_shape"
      /\ Key(3, 1) = "cli_commands" /\ Key(3, 2) = "cli_add_list"
      /\ Key(3, 3) = "cli_complete_delete"
      /\ Key(4, 1) = "persistence" /\ Key(4, 2) = "persistence_load_save"
      /\ Key(4, 3) = "persistence_error_paths"
      /\ Key(5, 1) = "validation" /\ Key(5, 2) = "validation_manual_flow"
      /\ Key(5, 3) = "validation_storage_file"
  BY <1>4 DEF PartKey, Module, Leaf
<1>7. \A i \in 1..5 : \A j \in 1..3 :
        PartRole(T, i, j) \in {"planner", "researcher", "developer", "reviewer"}
  BY <1>4 DEF PartRole, Module, Leaf
<1>8. \A i \in 1..5 : i = 1 \/ i = 2 \/ i = 3 \/ i = 4 \/ i = 5
  OBVIOUS
<1>9. \A j \in 1..3 : j = 1 \/ j = 2 \/ j = 3
  OBVIOUS
<1>10. \A i, k \in 1..5 : \A j, l \in 1..3 : PartKey(T, i, j) = PartKey(T, k, l) => i = k /\ j = l
  BY <1>6, <1>8, <1>9
<1>11. \A i \in 1..5 : \A j \in 1..3 :
         /\ PartKey(T, i, j) \notin MalformedKeys \union {"goal"}
         /\ PartRole(T, i, j) \notin MalformedKeys
  BY <1>6, <1>7, <1>8, <1>9 DEF MalformedKeys, NoKey
<1>12. ASSUME NEW i \in 1..5, NEW l \in 1..2, NEW key \in T[i].leaves[l].dependsOn
       PROVE  \E k \in 1..5, j \in 1..3 : key = PartKey(T, k, j) /\ Place(k, j) < Place(i, l + 1)
  <2>1. l = 1 \/ l = 2
    OBVIOUS
  <2>2. \/ i = 3 /\ l = 1 /\ key = Key(2, 3)
        \/ i = 3 /\ l = 2 /\ key = Key(2, 2)
        \/ i = 4 /\ l = 1 /\ key = Key(2, 3)
        \/ i = 4 /\ l = 2 /\ key = Key(4, 2)
        \/ i = 5 /\ l = 1 /\ (key = Key(3, 2) \/ key = Key(3, 3) \/ key = Key(4, 2))
        \/ i = 5 /\ l = 2 /\ key = Key(5, 2)
    BY <1>5, <1>6, <1>8, <1>12, <2>1
  <2>3. QED
    BY <2>2 DEF Place
<1>13. Templates(T, 5)
  BY <1>1, <1>5 DEF Templates, T
<1>14. QED
  BY <1>10, <1>11, <1>12, <1>13 DEF TemplatesApart, T

\* The templates of every goal.
LEMMA PlanningTemplatesApart ==
  ASSUME NEW words, NEW developer
  PROVE  \E m : /\ Templates(planningTemplatesFor(words, developer), m)
                /\ TemplatesApart(planningTemplatesFor(words, developer), m)
<1> DEFINE Good(T) == \E m : Templates(T, m) /\ TemplatesApart(T, m)
           Roles == {"planner", "researcher", "developer", "reviewer"}
           Chained(mods, m) ==
             /\ m \in Nat /\ m # 0 /\ DOMAIN mods = 1..m
             /\ \A i \in 1..m : mods[i][1] \in ChainKeys /\ mods[i][2] \in Roles
             /\ \A i, k \in 1..m : mods[i][1] = mods[k][1] => i = k
<1>1. ASSUME NEW mods, NEW m, Chained(mods, m)
      PROVE  Good(Chain(mods))
  BY <1>1, ChainTemplatesApart
<1>2. ASSUME NEW role \in Roles
      PROVE  /\ Good(ChainedTemplates("comparison", role)) /\ Good(ChainedTemplates("research", role))
             /\ Good(ChainedTemplates("fix", role)) /\ Good(ChainedTemplates("application", role))
             /\ Good(ChainedTemplates("general", role))
  <2> HIDE DEF Good
  <2>1. Good(ChainedTemplates("comparison", role))
    <3> DEFINE mods == <<<<"comparison_scope", "planner">>, <<"source_inventory", "researcher">>,
                         <<"subject_profiles", "researcher">>, <<"comparison_matrix", "researcher">>,
                         <<"synthesis_validation", "reviewer">>>>
    <3>1. DOMAIN mods = 1..5 /\ \A i \in 1..5 : i = 1 \/ i = 2 \/ i = 3 \/ i = 4 \/ i = 5
      OBVIOUS
    <3>2. \A i \in 1..5 : mods[i][1] \in ChainKeys /\ mods[i][2] \in Roles
      BY <3>1 DEF ChainKeys
    <3>3. \A i, k \in 1..5 : mods[i][1] = mods[k][1] => i = k
      BY <3>1
    <3>4. ChainedTemplates("comparison", role) = Chain(mods)
      BY DEF ChainedTemplates
    <3>5. Chained(mods, 5)
      BY <3>1, <3>2, <3>3
    <3> HIDE DEF mods, Chained
    <3>6. QED
      BY <1>1, <3>4, <3>5
  <2>2. Good(ChainedTemplates("research", role))
    <3> DEFINE mods == <<<<"research_questions", "researcher">>, <<"source_strategy", "researcher">>,
                         <<"synthesis", "researcher">>, <<"validation", "reviewer">>>>
    <3>1. DOMAIN mods = 1..4 /\ \A i \in 1..4 : i = 1 \/ i = 2 \/ i = 3 \/ i = 4
      OBVIOUS
    <3>2. \A i \in 1..4 : mods[i][1] \in ChainKeys /\ mods[i][2] \in Roles
      BY <3>1 DEF ChainKeys
    <3>3. \A i, k \in 1..4 : mods[i][1] = mods[k][1] => i = k
      BY <3>1
    <3>4. ChainedTemplates("research", role) = Chain(mods)
      BY DEF ChainedTemplates
    <3>5. Chained(mods, 4)
      BY <3>1, <3>2, <3>3
    <3> HIDE DEF mods, Chained
    <3>6. QED
      BY <1>1, <3>4, <3>5
  <2>3. Good(ChainedTemplates("fix", role))
    <3> DEFINE mods == <<<<"reproduce", "developer">>, <<"isolate", "developer">>,
                         <<"patch_plan", "developer">>, <<"regression_validation", "reviewer">>>>
    <3>1. DOMAIN mods = 1..4 /\ \A i \in 1..4 : i = 1 \/ i = 2 \/ i = 3 \/ i = 4
      OBVIOUS
    <3>2. \A i \in 1..4 : mods[i][1] \in ChainKeys /\ mods[i][2] \in Roles
      BY <3>1 DEF ChainKeys
    <3>3. \A i, k \in 1..4 : mods[i][1] = mods[k][1] => i = k
      BY <3>1
    <3>4. ChainedTemplates("fix", role) = Chain(mods)
      BY DEF ChainedTemplates
    <3>5. Chained(mods, 4)
      BY <3>1, <3>2, <3>3
    <3> HIDE DEF mods, Chained
    <3>6. QED
      BY <1>1, <3>4, <3>5
  <2>4. Good(ChainedTemplates("application", role))
    <3> DEFINE mods == <<<<"requirements_scope", "planner">>, <<"domain_model", role>>,
                         <<"interface_surface", role>>, <<"implementation_slices", role>>,
                         <<"validation", "reviewer">>>>
    <3>1. DOMAIN mods = 1..5 /\ \A i \in 1..5 : i = 1 \/ i = 2 \/ i = 3 \/ i = 4 \/ i = 5
      OBVIOUS
    <3>2. \A i \in 1..5 : mods[i][1] \in ChainKeys /\ mods[i][2] \in Roles
      BY <3>1 DEF ChainKeys
    <3>3. \A i, k \in 1..5 : mods[i][1] = mods[k][1] => i = k
      BY <3>1
    <3>4. ChainedTemplates("application", role) = Chain(mods)
      BY DEF ChainedTemplates
    <3>5. Chained(mods, 5)
      BY <3>1, <3>2, <3>3
    <3> HIDE DEF mods, Chained
    <3>6. QED
      BY <1>1, <3>4, <3>5
  <2>5. Good(ChainedTemplates("general", role))
    <3> DEFINE mods == <<<<"scope", "planner">>, <<"workstreams", role>>,
                         <<"execution_leaves", role>>, <<"validation", "reviewer">>>>
    <3>1. DOMAIN mods = 1..4 /\ \A i \in 1..4 : i = 1 \/ i = 2 \/ i = 3 \/ i = 4
      OBVIOUS
    <3>2. \A i \in 1..4 : mods[i][1] \in ChainKeys /\ mods[i][2] \in Roles
      BY <3>1 DEF ChainKeys
    <3>3. \A i, k \in 1..4 : mods[i][1] = mods[k][1] => i = k
      BY <3>1
    <3>4. ChainedTemplates("general", role) = Chain(mods)
      BY DEF ChainedTemplates
    <3>5. Chained(mods, 4)
      BY <3>1, <3>2, <3>3
    <3> HIDE DEF mods, Chained
    <3>6. QED
      BY <1>1, <3>4, <3>5
  <2>6. QED
    BY <2>1, <2>2, <2>3, <2>4, <2>5
<1>3. Good(todoCliPlanningTemplates)
  BY TodoTemplatesApart
<1>4. Good(planningTemplatesFor(words, developer))
  <2> DEFINE kind == assessTaskComplexity(words, "none").kind
             role == IF developer THEN "developer" ELSE "researcher"
             name == CASE kind = "research_comparison" -> "comparison"
                       [] kind \in {"research", "fix"} -> kind
                       [] OTHER -> IF "product" \in words THEN "application" ELSE "general"
  <2>1. planningTemplatesFor(words, developer) =
          IF "todo" \in words THEN todoCliPlanningTemplates ELSE ChainedTemplates(name, role)
    BY DEF planningTemplatesFor
  <2>2. role \in Roles
    OBVIOUS
  <2>3. name = "comparison" \/ name = "research" \/ name = "fix" \/ name = "application"
        \/ name = "general"
    <3> HIDE DEF kind
    <3>1. QED
      OBVIOUS
  <2> HIDE DEF Good, name, role, kind
  <2>4. QED
    BY <1>2, <1>3, <2>1, <2>2, <2>3
<1>5. QED
  BY <1>4

\* The plan for a request to plan only is valid, whatever the request says.
LEMMA PlanningOnlyPlanValid ==
  ASSUME NEW words, NEW developer
  PROVE  validatePlanSpec(createPlanningOnlyPlanSpec(words, developer))
<1> DEFINE T == planningTemplatesFor(words, developer)
           p == createPlanningOnlyPlanSpec(words, developer)
<1>1. PICK m : Templates(T, m) /\ TemplatesApart(T, m)
  BY PlanningTemplatesApart
<1>2. p.maxWaves = 2 /\ p.tasks = DraftTasks(T)
  BY DEF createPlanningOnlyPlanSpec, DraftTasks, PartBefore
<1> HIDE DEF p, T
<1>3. validatePlanSpec(p)
  BY <1>1, <1>2, TemplatesValid
<1>4. QED
  BY <1>3 DEF p

\* The plan used when the planner's is of no use is valid, whatever the request says.
LEMMA FallbackPlanValid ==
  ASSUME NEW words, NEW level, NEW developer
  PROVE  validatePlanSpec(createFallbackPlanSpec(words, level, developer))
<1> DEFINE p == createFallbackPlanSpec(words, level, developer)
           long == assessTaskComplexity(words, level).longTask
           target == IF developer THEN "developer" ELSE "researcher"
           n == IF long THEN 2 ELSE 4
           scope == planTask("scope", "researcher", NoKey, {})
           architecture == [planTask("architecture", "planner", "scope", {"scope"})
                              EXCEPT !.expandable = long, !.maxExpansionDepth = IF long THEN 3 ELSE 0]
           implementation == planTask("implementation", target, "architecture", {"architecture"})
           verification == [planTask("verification", "reviewer", "implementation", {"implementation"})
                              EXCEPT !.dependencyType = "finished"]
           fields(t, key, role, parentKey, deps, depth) ==
             /\ t.key = key /\ t.role = role /\ t.parentKey = parentKey /\ t.dependsOn = deps
             /\ t.timeoutMs = DefaultTimeoutMs /\ t.maxRetries = 1 /\ t.wave = 1
             /\ t.maxExpansionDepth = depth
<1>1. /\ p.maxWaves = IF long THEN 12 ELSE 1
      /\ p.tasks = IF long THEN <<scope, architecture>>
                   ELSE <<scope, architecture, implementation, verification>>
  BY DEF createFallbackPlanSpec
<1>2. /\ fields(scope, "scope", "researcher", NoKey, {}, 0)
      /\ fields(architecture, "architecture", "planner", "scope", {"scope"}, IF long THEN 3 ELSE 0)
      /\ fields(implementation, "implementation", target, "architecture", {"architecture"}, 0)
      /\ fields(verification, "verification", "reviewer", "implementation", {"implementation"}, 0)
  <2> HIDE DEF long, target
  <2>1. QED
    BY DEF planTask
<1> HIDE DEF p, long, scope, architecture, implementation, verification
<1>3. n \in Nat /\ n # 0 /\ Listed(p.tasks, n) /\ p.maxWaves \in 1..100
  <2>1. CASE long
    <3>1. p.tasks = <<scope, architecture>>
      BY <1>1, <2>1
    <3>2. QED
      BY <1>1, <2>1, <3>1 DEF Listed
  <2>2. CASE ~long
    <3>1. p.tasks = <<scope, architecture, implementation, verification>>
      BY <1>1, <2>2
    <3>2. QED
      BY <1>1, <2>2, <3>1 DEF Listed
  <2>3. QED
    BY <2>1, <2>2
<1>4. /\ p.tasks[1] = scope /\ p.tasks[2] = architecture
      /\ ~long => p.tasks[3] = implementation /\ p.tasks[4] = verification
  BY <1>1
<1>5. \A i \in 1..n : i = 1 \/ i = 2 \/ (~long /\ i = 3) \/ (~long /\ i = 4)
  OBVIOUS
<1>6. KeysDistinct(p.tasks)
  BY <1>2, <1>3, <1>4, <1>5 DEF KeysDistinct, Listed
<1>7. \A i \in 1..n : TaskFieldsValid(p.tasks[i], p.maxWaves)
  <2>1. SUFFICES ASSUME NEW i \in 1..n
                 PROVE  TaskFieldsValid(p.tasks[i], p.maxWaves)
    OBVIOUS
  <2> DEFINE t == p.tasks[i]
  <2>2. /\ t.timeoutMs = DefaultTimeoutMs /\ t.maxRetries = 1 /\ t.wave = 1
        /\ t.maxExpansionDepth = 0 \/ t.maxExpansionDepth = 3
    BY <1>2, <1>4, <1>5
  <2>3. t.key \notin MalformedKeys /\ t.role \notin MalformedKeys
    BY <1>2, <1>4, <1>5 DEF MalformedKeys, NoKey
  <2>4. t.timeoutMs \in 1000..MaxTimeoutMs /\ t.maxRetries \in 0..5
        /\ t.maxExpansionDepth \in 0..20 /\ t.wave \in 1..p.maxWaves
    BY <1>3, <2>2, DefaultTimeoutInRange
  <2>5. QED
    BY <2>3, <2>4 DEF TaskFieldsValid
<1>8. \A i \in 1..n : /\ p.tasks[i].dependsOn \subseteq {p.tasks[j].key : j \in 1..(i - 1)}
                      /\ \/ p.tasks[i].parentKey = NoKey
                         \/ \E j \in 1..(i - 1) : p.tasks[i].parentKey = p.tasks[j].key
  <2>1. SUFFICES ASSUME NEW i \in 1..n
                 PROVE  \/ p.tasks[i].dependsOn = {} /\ p.tasks[i].parentKey = NoKey
                        \/ \E j \in 1..(i - 1) : /\ p.tasks[i].dependsOn = {p.tasks[j].key}
                                                 /\ p.tasks[i].parentKey = p.tasks[j].key
    OBVIOUS
  <2>2. CASE i = 1
    BY <1>2, <1>4, <2>2
  <2>3. CASE i = 2
    BY <1>2, <1>4, <2>3
  <2>4. CASE ~long /\ i = 3
    BY <1>2, <1>4, <2>4
  <2>5. CASE ~long /\ i = 4
    BY <1>2, <1>4, <2>5
  <2>6. QED
    BY <1>5, <2>2, <2>3, <2>4, <2>5
<1>9. validatePlanSpec(p)
  BY <1>3, <1>6, <1>7, <1>8, OrderedPlanValid
<1>10. QED
  BY <1>9 DEF p

-----------------------------------------------------------------------------
(* Keys that are made up.                                                    *)

\* uniqueKey finds a key that is not taken: there are more to try than are taken.
LEMMA UniqueKey ==
  ASSUME NEW base, NEW existing, IsFiniteSet(existing), NEW n \in Nat,
         Cardinality(existing) < n, NumberedApart(base, n)
  PROVE  \E i \in 1..n : /\ uniqueKey(base, existing) = numberedKey(base, i)
                         /\ numberedKey(base, i) \in (STRING \ MalformedKeys) \ existing
<1> DEFINE m == Cardinality(existing)
           free == {i \in 1..(m + 1) : numberedKey(base, i) \notin existing}
<1>1. m \in Nat /\ 1..(m + 1) \subseteq 1..n
  BY FS_CardinalityType
<1>2. \A i, j \in 1..(m + 1) : numberedKey(base, i) = numberedKey(base, j) => i = j
  BY <1>1 DEF NumberedApart
<1>3. \A i \in 1..n : numberedKey(base, i) \in STRING \ MalformedKeys
  BY DEF NumberedApart
<1>4. free # {}
  <2> SUFFICES ASSUME free = {} PROVE FALSE
    OBVIOUS
  <2> DEFINE f == [i \in 1..(m + 1) |-> numberedKey(base, i)]
  <2>1. f \in Injection(1..(m + 1), existing)
    <3>1. f \in [1..(m + 1) -> existing]
      OBVIOUS
    <3>2. \A i, j \in 1..(m + 1) : f[i] = f[j] => i = j
      BY <1>2
    <3> HIDE DEF f, m
    <3> QED
      BY <3>1, <3>2 DEF Injection, IsInjective
  <2>2. Cardinality(1..(m + 1)) = m + 1
    BY <1>1, FS_Interval
  <2> HIDE DEF f
  <2>3. Cardinality(1..(m + 1)) <= m
    BY <2>1, FS_Injection
  <2> QED
    BY <1>1, <2>2, <2>3
<1>5. free \in SUBSET Nat
  BY <1>1
<1>6. Min(free) \in free
  BY <1>4, <1>5, MinExists
<1>7. uniqueKey(base, existing) = numberedKey(base, Min(free))
  BY DEF uniqueKey
<1> HIDE DEF m
<1> QED
  BY <1>1, <1>3, <1>6, <1>7

-----------------------------------------------------------------------------
(* Cycles among the tasks of a list.                                         *)

\* Places of tasks each of which depends on the task of one.
IndexCircle(tasks, n, T) ==
  /\ T \in SUBSET (1..n) /\ T # {}
  /\ \A i \in T : \E j \in T : tasks[j].key \in tasks[i].dependsOn

\* detectCycles finds a cycle exactly when there are such places.
LEMMA CyclesOfTasks ==
  ASSUME NEW tasks, NEW n, Listed(tasks, n), KeysDistinct(tasks)
  PROVE  detectCycles(tasks) <=> \E T : IndexCircle(tasks, n, T)
<1> DEFINE keys == TaskKeys(tasks)
           deps == [k \in TaskKeys(tasks) |-> ByKey(tasks, k).dependsOn]
<1>1. IsFiniteSet(keys) /\ keys = {tasks[i].key : i \in 1..n}
  BY TaskKeysFinite
<1>2. \A i \in 1..n : tasks[i].key \in keys /\ deps[tasks[i].key] = tasks[i].dependsOn
  BY <1>1, ByKeyOf
<1>3. detectCycles(tasks) <=> HasCycle(keys, deps)
  BY DEF detectCycles
<1> HIDE DEF keys, deps
<1>4. detectCycles(tasks) <=> \E T : Circle(keys, deps, T)
  BY <1>1, <1>3, CycleIsCircle
<1>5. ASSUME NEW T, Circle(keys, deps, T)
      PROVE  \E I : IndexCircle(tasks, n, I)
  <2> DEFINE I == {i \in 1..n : tasks[i].key \in T}
  <2>1. I # {}
    BY <1>1, <1>5 DEF Circle
  <2>2. ASSUME NEW i \in I
        PROVE  \E j \in I : tasks[j].key \in tasks[i].dependsOn
    <3>1. PICK k \in T : k \in tasks[i].dependsOn
      BY <1>2, <1>5 DEF Circle
    <3>2. PICK j \in 1..n : tasks[j].key = k
      BY <1>1, <1>5 DEF Circle
    <3>3. QED
      BY <3>1, <3>2
  <2>3. IndexCircle(tasks, n, I)
    BY <2>1, <2>2 DEF IndexCircle
  <2>4. QED
    BY <2>3
<1>6. ASSUME NEW I, IndexCircle(tasks, n, I)
      PROVE  \E T : Circle(keys, deps, T)
  <2> DEFINE T == {tasks[i].key : i \in I}
  <2>1. T \in SUBSET keys /\ T # {}
    BY <1>2, <1>6 DEF IndexCircle
  <2>2. ASSUME NEW k \in T
        PROVE  deps[k] \intersect T # {}
    <3>1. PICK i \in I : k = tasks[i].key
      OBVIOUS
    <3>2. PICK j \in I : tasks[j].key \in tasks[i].dependsOn
      BY <1>6 DEF IndexCircle
    <3>3. deps[k] = tasks[i].dependsOn
      BY <1>2, <1>6, <3>1 DEF IndexCircle
    <3>4. QED
      BY <3>2, <3>3
  <2>3. Circle(keys, deps, T)
    BY <2>1, <2>2 DEF Circle
  <2>4. QED
    BY <2>3
<1>7. QED
  BY <1>4, <1>5, <1>6

\* Lists that agree in keys and dependencies agree in what is asked of these.
LEMMA SameDependencies ==
  ASSUME NEW tasks, NEW rows, NEW n, Listed(tasks, n), Listed(rows, n),
         \A i \in 1..n : rows[i].key = tasks[i].key /\ rows[i].dependsOn = tasks[i].dependsOn
  PROVE  /\ TaskKeys(rows) = TaskKeys(tasks)
         /\ KeysDistinct(rows) <=> KeysDistinct(tasks)
         /\ DependenciesKnown(rows, TaskKeys(rows)) <=> DependenciesKnown(tasks, TaskKeys(tasks))
         /\ KeysDistinct(tasks) => (detectCycles(rows) <=> detectCycles(tasks))
<1>1. TaskKeys(rows) = TaskKeys(tasks)
  BY DEF TaskKeys, Listed
<1>2. KeysDistinct(rows) <=> KeysDistinct(tasks)
  BY DEF KeysDistinct, Listed
<1>3. DependenciesKnown(rows, TaskKeys(rows)) <=> DependenciesKnown(tasks, TaskKeys(tasks))
  BY <1>1 DEF DependenciesKnown, Listed
<1>4. ASSUME KeysDistinct(tasks)
      PROVE  detectCycles(rows) <=> detectCycles(tasks)
  <2>1. \A T : IndexCircle(rows, n, T) <=> IndexCircle(tasks, n, T)
    <3>1. SUFFICES ASSUME NEW T \in SUBSET (1..n)
                   PROVE  IndexCircle(rows, n, T) <=> IndexCircle(tasks, n, T)
      BY DEF IndexCircle
    <3>2. \A i, j \in T : rows[j].key \in rows[i].dependsOn <=> tasks[j].key \in tasks[i].dependsOn
      OBVIOUS
    <3>3. QED
      BY <3>2 DEF IndexCircle
  <2>2. QED
    BY <1>2, <1>4, <2>1, CyclesOfTasks
<1>5. QED
  BY <1>1, <1>2, <1>3, <1>4

-----------------------------------------------------------------------------
(* The nodes added to reach the number that a request asks for.              *)

\* There are as many supplemental keys as asked for, and they are new.
LEMMA SupplementalKeysNew ==
  ASSUME NEW existing, IsFiniteSet(existing), NEW n \in Nat, Cardinality(existing) <= n,
         NEW d \in 0..MaxRequestedTaskNodes, SupplementalApart(n)
  PROVE  /\ IsFiniteSet(SupplementalKeys(existing, d))
         /\ Cardinality(SupplementalKeys(existing, d)) = d
         /\ SupplementalKeys(existing, d) \intersect (existing \union MalformedKeys) = {}
<1> DEFINE S == SupplementalKeys(existing, d)
           f == [i \in 1..d |-> uniqueKey(requestedNodeKey(i), existing)]
<1>1. d \in Nat /\ 1..d \subseteq 1..MaxRequestedTaskNodes /\ Cardinality(existing) \in Nat
  BY FS_CardinalityType DEF MaxRequestedTaskNodes
<1>2. ASSUME NEW i \in 1..d
      PROVE  \E j \in 1..(n + 1) : /\ f[i] = numberedKey(requestedNodeKey(i), j)
                                  /\ f[i] \notin existing \union MalformedKeys
  <2> DEFINE base == requestedNodeKey(i)
  <2>1. NumberedApart(base, n + 1)
    BY <1>1 DEF NumberedApart, SupplementalApart
  <2> HIDE DEF base
  <2>2. \E j \in 1..(n + 1) : /\ uniqueKey(base, existing) = numberedKey(base, j)
                              /\ numberedKey(base, j) \in (STRING \ MalformedKeys) \ existing
    BY <1>1, <2>1, UniqueKey
  <2>3. QED
    BY <2>2 DEF base
<1>3. S = {f[i] : i \in 1..d}
  BY DEF SupplementalKeys
<1>4. f = [i \in 1..d |-> f[i]]
  OBVIOUS
<1> HIDE DEF f, S
<1>5. f \in Surjection(1..d, S) /\ f \in Injection(1..d, S)
  <2>1. f \in [1..d -> S]
    BY <1>3, <1>4
  <2>2. \A i, k \in 1..d : f[i] = f[k] => i = k
    <3>1. SUFFICES ASSUME NEW i \in 1..d, NEW k \in 1..d, f[i] = f[k]
                   PROVE  i = k
      OBVIOUS
    <3>2. PICK j \in 1..(n + 1) : f[i] = numberedKey(requestedNodeKey(i), j)
      BY <1>2
    <3>3. PICK l \in 1..(n + 1) : f[k] = numberedKey(requestedNodeKey(k), l)
      BY <1>2
    <3>4. QED
      BY <1>1, <3>1, <3>2, <3>3 DEF SupplementalApart
  <2>3. QED
    BY <1>3, <2>1, <2>2 DEF Surjection, Injection, IsInjective
<1>6. IsFiniteSet(1..d) /\ Cardinality(1..d) = d
  BY <1>1, FS_Interval
<1>7. IsFiniteSet(S) /\ Cardinality(S) = d
  BY <1>5, <1>6, FS_Surjection
<1>8. S \intersect (existing \union MalformedKeys) = {}
  BY <1>2, <1>3
<1>9. QED
  BY <1>7, <1>8 DEF S

\* A plan with the fields of one, and n tasks with the fields of one.
TaskFieldNames == DOMAIN planTask(NoKey, NoKey, NoKey, {})

PlanShaped(p, n) ==
  /\ Listed(p.tasks, n) /\ p.tasks = [i \in 1..n |-> p.tasks[i]]
  /\ \A i \in 1..n : p.tasks[i] = [f \in TaskFieldNames |-> p.tasks[i][f]]
  /\ DOMAIN p = {"goal", "planningMode", "maxWaves", "failureStrategy", "tasks"}

\* The tasks of such a plan are a sequence.
LEMMA PlanTasksSeq ==
  ASSUME NEW p, NEW n, PlanShaped(p, n), NEW S, \A i \in 1..n : p.tasks[i] \in S
  PROVE  p.tasks \in Seq(S) /\ Len(p.tasks) = n
<1>1. p.tasks \in [1..n -> S] /\ n \in Nat
  BY DEF PlanShaped, Listed
<1>2. QED
  BY <1>1, SeqOfFunction

\* The parent that is preferred: one of the preferred keys, or the key of the first of the
\* tasks that suit.
ParentFrom(tasks, preferred, held, hits) ==
  IF held # {} THEN preferred[Min(held)]
  ELSE IF hits = {} THEN NoKey ELSE tasks[Min(hits)].key

\* It is the key of a task, if it is one.
LEMMA ParentKnown ==
  ASSUME NEW tasks, NEW n, Listed(tasks, n), NEW preferred, NEW held \in SUBSET Nat,
         \A i \in held : preferred[i] \in TaskKeys(tasks), NEW hits \in SUBSET (1..n)
  PROVE  ParentFrom(tasks, preferred, held, hits) \in TaskKeys(tasks) \union {NoKey}
<1>1. held # {} => Min(held) \in held
  BY MinExists
<1>2. hits # {} => Min(hits) \in hits
  <2>1. hits \in SUBSET Nat
    BY DEF Listed
  <2>2. QED
    BY <2>1, MinExists
<1>3. QED
  BY <1>1, <1>2 DEF ParentFrom, TaskKeys, Listed

\* q has the n tasks of p, and then others, up to m: those wait for tasks of p only.
Extended(p, q, n, m) ==
  /\ n <= m /\ PlanShaped(q, m) /\ KeysDistinct(q.tasks)
  /\ \A i \in 1..n : q.tasks[i] = p.tasks[i]
  /\ \A i \in (n + 1)..m : /\ q.tasks[i].key \notin TaskKeys(p.tasks) \union MalformedKeys
                           /\ q.tasks[i].dependsOn \subseteq TaskKeys(p.tasks)

\* After nodes were added to a valid plan there are as many as asked for, their keys are
\* distinct, and no task of the plan waits for an added one.
LEMMA MinimumPlan ==
  ASSUME NEW p, NEW n, PlanShaped(p, n), KeysDistinct(p.tasks), NEW requested \in Nat,
         SupplementalApart(n)
  PROVE  LET q == ensureMinimumTaskNodePlan(p, requested)
         IN  \E m \in Nat : /\ Extended(p, q, n, m)
                            /\ requestedMinimumTaskNodes(requested) <= m
                            /\ m <= n \/ m <= MaxRequestedTaskNodes
<1> DEFINE tasks == p.tasks
           minimum == requestedMinimumTaskNodes(requested)
           q == ensureMinimumTaskNodePlan(p, requested)
           preferred == <<"implementation_slices", "interface_surface", "architecture",
                          "domain_model", "requirements_scope", "scope", "goal">>
           worker(t) == ~IsReviewer(t) /\ ~t.materialization
           held == {i \in DOMAIN preferred :
                      \E j \in DOMAIN tasks : tasks[j].key = preferred[i] /\ worker(tasks[j])}
           hits == {i \in DOMAIN tasks : worker(tasks[i])}
           anchor == ParentFrom(tasks, preferred, held, hits)
           wave == Min({Max({2} \union {tasks[i].wave : i \in DOMAIN tasks}), Max({p.maxWaves, 2})})
           node(key) == [planTask(key, "developer", anchor, {anchor} \ {NoKey}) EXCEPT !.wave = wave]
           K == SupplementalKeys(TaskKeys(tasks), minimum - n)
           keys == SetToSeq(K)
           S == {tasks[i] : i \in 1..n}
<1>1. minimum \in Nat /\ minimum <= MaxRequestedTaskNodes
  BY MinOfTwo DEF requestedMinimumTaskNodes, MaxRequestedTaskNodes
<1>2. /\ n \in Nat /\ Listed(tasks, n) /\ DOMAIN tasks = 1..n
      /\ tasks \in Seq(S) /\ Len(tasks) = n
  <2>1. \A i \in 1..n : tasks[i] \in S
    OBVIOUS
  <2> HIDE DEF S
  <2>2. QED
    BY <2>1, PlanTasksSeq DEF PlanShaped, Listed
<1>3. q = IF n >= minimum THEN p
          ELSE [p EXCEPT !.maxWaves = Max({@, wave}),
                         !.tasks = @ \o [i \in DOMAIN keys |-> node(keys[i])]]
  BY <1>2 DEF ensureMinimumTaskNodePlan, PreferredParent, KeyOfFirst, ParentFrom
<1>4. CASE n >= minimum
  <2>1. q = p
    BY <1>3, <1>4
  <2>2. Extended(p, q, n, n)
    BY <1>2, <2>1 DEF Extended
  <2>3. QED
    BY <1>2, <1>4, <2>2
<1>5. CASE ~(n >= minimum)
  <2> DEFINE d == minimum - n
             more == [i \in DOMAIN keys |-> node(keys[i])]
  <2>1. d \in 0..MaxRequestedTaskNodes /\ d \in Nat /\ n + d = minimum
    <3>1. MaxRequestedTaskNodes \in Nat
      BY DEF MaxRequestedTaskNodes
    <3>2. n \in Nat
      BY <1>2
    <3> HIDE DEF minimum
    <3>3. QED
      BY <1>1, <1>5, <3>1, <3>2
  <2>2. IsFiniteSet(TaskKeys(tasks)) /\ Cardinality(TaskKeys(tasks)) <= n
    BY <1>2, TaskKeysFinite
  <2>3. /\ IsFiniteSet(K) /\ Cardinality(K) = d
        /\ K \intersect (TaskKeys(tasks) \union MalformedKeys) = {}
    <3> HIDE DEF d, tasks
    <3>1. /\ IsFiniteSet(SupplementalKeys(TaskKeys(tasks), d))
          /\ Cardinality(SupplementalKeys(TaskKeys(tasks), d)) = d
          /\ SupplementalKeys(TaskKeys(tasks), d)
               \intersect (TaskKeys(tasks) \union MalformedKeys) = {}
      BY <1>2, <2>1, <2>2, SupplementalKeysNew
    <3>2. QED
      BY <3>1 DEF d
  <2>4. anchor \in TaskKeys(tasks) \union {NoKey}
    <3> HIDE DEF tasks
    <3>1. held \in SUBSET Nat /\ hits \in SUBSET (1..n)
      BY <1>2
    <3>2. \A i \in held : preferred[i] \in TaskKeys(tasks)
      BY DEF TaskKeys
    <3> HIDE DEF held, hits, preferred
    <3>3. QED
      BY <1>2, <3>1, <3>2, ParentKnown
  <2> HIDE DEF tasks, minimum, q, anchor, wave, K, d, S
  <2>5. /\ keys \in [1..d -> K] /\ IsInjective(keys) /\ DOMAIN keys = 1..d
    BY <2>3, SetToSeqTypes
  <2> HIDE DEF keys
  <2>6. \A i \in 1..d : /\ more[i] = [f \in TaskFieldNames |-> more[i][f]]
                        /\ more[i].key = keys[i] /\ more[i].dependsOn = {anchor} \ {NoKey}
    <3>1. \A i \in 1..d : more[i] = node(keys[i])
      BY <2>5
    <3> HIDE DEF more
    <3>2. \A key : /\ node(key) = [f \in TaskFieldNames |-> node(key)[f]]
                  /\ node(key).key = key /\ node(key).dependsOn = {anchor} \ {NoKey}
      <4>1. SUFFICES ASSUME NEW key
                     PROVE  /\ node(key) = [f \in TaskFieldNames |-> node(key)[f]]
                            /\ node(key).key = key /\ node(key).dependsOn = {anchor} \ {NoKey}
        OBVIOUS
      <4>2. QED
        BY DEF planTask, TaskFieldNames
    <3> HIDE DEF node
    <3>3. QED
      BY <3>1, <3>2
  <2>7. more \in Seq({more[i] : i \in 1..d}) /\ Len(more) = d /\ DOMAIN more = 1..d
    <3> DEFINE R == {more[i] : i \in 1..d}
    <3>1. more \in [1..d -> R]
      BY <2>5
    <3> HIDE DEF more, R
    <3>2. QED
      BY <2>1, <3>1, SeqOfFunction DEF R
  <2>8. q.tasks = tasks \o more /\ DOMAIN q = DOMAIN p
    <3> HIDE DEF more
    <3>1. q = [p EXCEPT !.maxWaves = Max({@, wave}), !.tasks = @ \o more]
      BY <1>3, <1>5 DEF more
    <3>2. "tasks" \in DOMAIN p
      BY DEF PlanShaped
    <3>3. QED
      BY <3>1, <3>2 DEF tasks
  <2> HIDE DEF more
  <2>9. /\ q.tasks = [i \in 1..(n + d) |-> IF i <= n THEN tasks[i] ELSE more[i - n]]
    <3> DEFINE R == S \union {more[i] : i \in 1..d}
    <3>1. tasks \in Seq(R) /\ more \in Seq(R)
      BY <1>2, <2>7
    <3> HIDE DEF R
    <3>2. tasks \o more = [i \in 1..(n + d) |-> IF i <= n THEN tasks[i] ELSE more[i - n]]
      <4>1. DOMAIN tasks = 1..n /\ Len(tasks) = n /\ Len(more) = d /\ n \in Nat /\ d \in Nat
        BY <1>2, <2>1, <2>7
      <4>2. /\ tasks \o more \in Seq(R) /\ Len(tasks \o more) = n + d
            /\ \A i \in 1..(n + d) :
                 (tasks \o more)[i] = IF i <= n THEN tasks[i] ELSE more[i - n]
        BY <3>1, <4>1, ConcatProperties
      <4> DEFINE all == tasks \o more
      <4>3. all \in Seq(R) /\ Len(all) = n + d
        BY <4>2
      <4> HIDE DEF all
      <4>4. all = [i \in 1..(n + d) |-> all[i]]
        BY <4>3
      <4>5. \A i \in 1..(n + d) : all[i] = IF i <= n THEN tasks[i] ELSE more[i - n]
        BY <4>2 DEF all
      <4>6. all = [i \in 1..(n + d) |-> IF i <= n THEN tasks[i] ELSE more[i - n]]
        BY <4>4, <4>5
      <4>7. QED
        BY <4>6 DEF all
    <3>3. QED
      BY <2>8, <3>2
  <2>10. /\ DOMAIN q.tasks = 1..minimum
         /\ \A i \in 1..n : q.tasks[i] = tasks[i]
         /\ \A i \in (n + 1)..minimum : q.tasks[i] = more[i - n] /\ i - n \in 1..d
    BY <1>2, <2>1, <2>9
  <2>11. \A i \in 1..minimum : i \in 1..n \/ i \in (n + 1)..minimum
    BY <1>1, <1>2
  <2>12. \A i \in (n + 1)..minimum :
           /\ q.tasks[i].key = keys[i - n] /\ keys[i - n] \in K
           /\ q.tasks[i].key \notin TaskKeys(tasks) \union MalformedKeys
           /\ q.tasks[i].dependsOn \subseteq TaskKeys(tasks)
    <3>1. SUFFICES ASSUME NEW i \in (n + 1)..minimum
                   PROVE  /\ q.tasks[i].key = keys[i - n] /\ keys[i - n] \in K
                          /\ q.tasks[i].key \notin TaskKeys(tasks) \union MalformedKeys
                          /\ q.tasks[i].dependsOn \subseteq TaskKeys(tasks)
      OBVIOUS
    <3> DEFINE l == i - n
    <3>2. q.tasks[i] = more[l] /\ l \in 1..d
      BY <2>10
    <3> HIDE DEF l
    <3>3. more[l].key = keys[l] /\ keys[l] \in K /\ more[l].dependsOn = {anchor} \ {NoKey}
      BY <2>5, <2>6, <3>2
    <3>4. QED
      BY <2>3, <2>4, <3>2, <3>3 DEF l
  <2>13. \A i \in 1..n : tasks[i].key \in TaskKeys(tasks)
    BY <1>2 DEF TaskKeys
  <2>14. KeysDistinct(q.tasks)
    <3>1. SUFFICES ASSUME NEW i \in 1..minimum, NEW j \in 1..minimum,
                          q.tasks[i].key = q.tasks[j].key
                   PROVE  i = j
      BY <2>10 DEF KeysDistinct
    <3>2. CASE i \in 1..n /\ j \in 1..n
      BY <1>2, <2>10, <3>1, <3>2 DEF KeysDistinct, tasks
    <3>3. CASE i \in (n + 1)..minimum /\ j \in (n + 1)..minimum
      <4>1. keys[i - n] = keys[j - n]
        BY <2>12, <3>1, <3>3
      <4>2. i - n \in 1..d /\ j - n \in 1..d
        BY <2>10, <3>3
      <4>3. i - n = j - n
        BY <2>5, <4>1, <4>2 DEF IsInjective
      <4>4. QED
        BY <1>1, <1>2, <4>3
    <3>4. QED
      BY <2>10, <2>11, <2>12, <2>13, <3>1, <3>2, <3>3
  <2>15. PlanShaped(q, minimum)
    <3>1. q.tasks = [i \in 1..minimum |-> q.tasks[i]]
      BY <2>9, <2>10
    <3>2. \A i \in 1..minimum : q.tasks[i] = [f \in TaskFieldNames |-> q.tasks[i][f]]
      <4>1. \A i \in 1..n : tasks[i] = [f \in TaskFieldNames |-> tasks[i][f]]
        BY DEF PlanShaped, tasks
      <4>2. QED
        BY <2>6, <2>10, <2>11, <4>1
    <3>3. QED
      BY <1>1, <2>8, <2>10, <3>1, <3>2 DEF PlanShaped, Listed
  <2>16. Extended(p, q, n, minimum)
    BY <1>1, <1>2, <1>5, <2>10, <2>12, <2>14, <2>15 DEF Extended, tasks
  <2>17. QED
    BY <1>1, <2>16 DEF q, minimum
<1>6. QED
  BY <1>4, <1>5

\* The added tasks wait for tasks of the plan, which wait for none of them: the dependencies
\* lead to tasks and make no cycle, as before.
LEMMA ExtendedAcyclic ==
  ASSUME NEW p, NEW q, NEW n, NEW m, PlanShaped(p, n), Extended(p, q, n, m),
         KeysDistinct(p.tasks), DependenciesKnown(p.tasks, TaskKeys(p.tasks)),
         ~detectCycles(p.tasks)
  PROVE  DependenciesKnown(q.tasks, TaskKeys(q.tasks)) /\ ~detectCycles(q.tasks)
<1> DEFINE old == TaskKeys(p.tasks)
<1>1. Listed(p.tasks, n) /\ Listed(q.tasks, m) /\ n \in Nat /\ m \in Nat /\ n <= m
  BY DEF PlanShaped, Extended, Listed
<1>2. \A i \in 1..n : q.tasks[i] = p.tasks[i] /\ p.tasks[i].key \in old
  BY <1>1 DEF Extended, TaskKeys, Listed
<1>3. \A i \in (n + 1)..m : q.tasks[i].key \notin old /\ q.tasks[i].dependsOn \subseteq old
  BY DEF Extended
<1>4. \A i \in 1..m : i \in 1..n \/ i \in (n + 1)..m
  BY <1>1
<1>5. \A i \in 1..n : i \in 1..m
  BY <1>1
<1>6. \A i \in 1..n : p.tasks[i].dependsOn \subseteq old \ {p.tasks[i].key}
  BY <1>1 DEF DependenciesKnown, Listed
<1>7. \A i \in 1..m : q.tasks[i].dependsOn \subseteq old \ {q.tasks[i].key}
  BY <1>2, <1>3, <1>4, <1>6
<1>8. old \subseteq TaskKeys(q.tasks)
  <2>1. \A i \in 1..n : p.tasks[i].key \in TaskKeys(q.tasks)
    BY <1>1, <1>2, <1>5 DEF TaskKeys, Listed
  <2>2. QED
    BY <1>1, <2>1 DEF TaskKeys, Listed
<1>9. DependenciesKnown(q.tasks, TaskKeys(q.tasks))
  BY <1>1, <1>7, <1>8 DEF DependenciesKnown, Listed
<1>10. ASSUME NEW T, IndexCircle(q.tasks, m, T)
       PROVE  IndexCircle(p.tasks, n, T \intersect (1..n))
  <2> DEFINE I == T \intersect (1..n)
  <2>1. ASSUME NEW i \in T
        PROVE  \E j \in I : p.tasks[j].key \in q.tasks[i].dependsOn
    <3>1. PICK j \in T : q.tasks[j].key \in q.tasks[i].dependsOn
      BY <1>10 DEF IndexCircle
    <3>2. i \in 1..m /\ j \in 1..m
      BY <1>10 DEF IndexCircle
    <3>3. j \in 1..n
      BY <1>3, <1>4, <1>7, <3>1, <3>2
    <3>4. QED
      BY <1>2, <3>1, <3>3
  <2>2. I # {} /\ I \in SUBSET (1..n)
    BY <1>10, <2>1 DEF IndexCircle
  <2>3. \A i \in I : \E j \in I : p.tasks[j].key \in p.tasks[i].dependsOn
    BY <1>2, <2>1
  <2>4. QED
    BY <2>2, <2>3 DEF IndexCircle
<1>11. ~detectCycles(q.tasks)
  <2>1. KeysDistinct(q.tasks)
    BY DEF Extended
  <2>2. QED
    BY <1>1, <1>10, <2>1, CyclesOfTasks
<1>12. QED
  BY <1>9, <1>11

-----------------------------------------------------------------------------
(* The task that writes the requested files.                                 *)

\* r is p with the task at f, which waits for all work, and with reviewers that wait for it.
Rewritten(p, r, n, f) ==
  LET e == existingIndex(p.tasks)
      t == r.tasks
      Writes == t[f].key
  IN  /\ f = IF e = 0 THEN n + 1 ELSE e
      /\ Listed(t, IF e = 0 THEN n + 1 ELSE n)
      /\ IF e = 0 THEN Writes \notin TaskKeys(p.tasks) \union MalformedKeys
         ELSE e \in 1..n /\ Writes = p.tasks[e].key
      /\ t[f].materialization
      /\ t[f].dependsOn = ((IF e = 0 THEN {} ELSE p.tasks[e].dependsOn)
                           \union {p.tasks[i].key : i \in {j \in 1..n : ~IsReviewer(p.tasks[j])}})
                          \ {Writes}
      /\ \A i \in (1..n) \ {f} :
           /\ t[i].key = p.tasks[i].key
           /\ t[i].dependsOn = IF ~IsReviewer(p.tasks[i]) THEN p.tasks[i].dependsOn
                               ELSE (p.tasks[i].dependsOn \union {Writes}) \ {p.tasks[i].key}

\* That is what ensureArtifactMaterializationPlan makes of a plan when files are to be written.
LEMMA ArtifactPlan ==
  ASSUME NEW p, NEW n, PlanShaped(p, n), KeysDistinct(p.tasks),
         NumberedApart("final_materialization", n + 1)
  PROVE  \E f : Rewritten(p, ensureArtifactMaterializationPlan(p, TRUE), n, f)
<1> DEFINE tasks == p.tasks
           e == existingIndex(tasks)
           unique == uniqueKey("final_materialization", TaskKeys(tasks))
           finalKey == IF e = 0 THEN unique ELSE tasks[e].key
           final == materializationTask(p, finalKey, e)
           placed == IF e = 0 THEN Append(tasks, final) ELSE [tasks EXCEPT ![e] = final]
           review(t) == IF t.key = finalKey \/ ~IsReviewer(t) THEN t
                        ELSE [t EXCEPT !.dependsOn = (@ \union {finalKey}) \ {t.key}]
           r == ensureArtifactMaterializationPlan(p, TRUE)
           f == IF e = 0 THEN n + 1 ELSE e
           N == IF e = 0 THEN n + 1 ELSE n
           base == IF e = 0 THEN planTask(finalKey, "developer", NoKey, {}) ELSE tasks[e]
           others == {tasks[i].key : i \in {j \in 1..n : ~IsReviewer(tasks[j])}}
           S == {tasks[i] : i \in 1..n}
<1>1. /\ n \in Nat /\ Listed(tasks, n) /\ DOMAIN tasks = 1..n
      /\ tasks \in Seq(S) /\ Len(tasks) = n
  <2>1. \A i \in 1..n : tasks[i] \in S
    OBVIOUS
  <2> HIDE DEF S
  <2>2. QED
    BY <2>1, PlanTasksSeq DEF PlanShaped, Listed
<1>2. e = 0 \/ e \in 1..n
  <2> DEFINE marked == {i \in DOMAIN tasks :
                          tasks[i].key = "final_materialization" \/ tasks[i].materialization}
  <2>1. marked \in SUBSET Nat /\ marked \subseteq 1..n
    BY <1>1
  <2>2. e = IF marked = {} THEN 0 ELSE Min(marked)
    BY DEF existingIndex
  <2> HIDE DEF marked, e
  <2>3. QED
    BY <2>1, <2>2, MinExists
<1>3. unique \notin TaskKeys(tasks) \union MalformedKeys
  <2> DEFINE K == TaskKeys(tasks)
  <2>1. IsFiniteSet(K) /\ Cardinality(K) <= n /\ Cardinality(K) \in Nat
    BY <1>1, TaskKeysFinite, FS_CardinalityType
  <2>2. Cardinality(K) < n + 1 /\ n + 1 \in Nat
    BY <1>1, <2>1
  <2> HIDE DEF K, tasks
  <2>3. \E i \in 1..(n + 1) : /\ uniqueKey("final_materialization", K) =
                                   numberedKey("final_materialization", i)
                              /\ numberedKey("final_materialization", i)
                                   \in (STRING \ MalformedKeys) \ K
    BY <2>1, <2>2, UniqueKey
  <2>4. QED
    BY <2>3 DEF K
<1>4. r = [p EXCEPT !.maxWaves = Max({@, final.wave}),
                    !.tasks = [i \in DOMAIN placed |-> review(placed[i])]]
  BY DEF ensureArtifactMaterializationPlan
<1>5. r.tasks = [i \in DOMAIN placed |-> review(placed[i])]
  <2>1. "tasks" \in DOMAIN p
    BY DEF PlanShaped
  <2> HIDE DEF r, placed, review, final
  <2>2. QED
    BY <1>4, <2>1
<1>6. /\ base.key = finalKey /\ base = [x \in TaskFieldNames |-> base[x]]
      /\ base.dependsOn = IF e = 0 THEN {} ELSE tasks[e].dependsOn
  <2>1. CASE e = 0
    BY <2>1 DEF planTask, TaskFieldNames
  <2>2. CASE e # 0
    BY <1>2, <2>2 DEF PlanShaped
  <2>3. QED
    BY <2>1, <2>2
<1>7. /\ final.key = finalKey /\ final.dependsOn = (base.dependsOn \union others) \ {finalKey}
      /\ final.materialization
  <2> DEFINE parent == PreferredParent(tasks,
                  <<"implementation_slices", "implementation", "interface_surface", "architecture",
                    "scope", "goal">>,
                  LAMBDA t : t.key # finalKey, LAMBDA t : t.key # finalKey /\ ~IsReviewer(t))
             top == Max({base.wave} \union {tasks[i].wave : i \in DOMAIN tasks})
             all == {tasks[i].key : i \in {j \in DOMAIN tasks : ~IsReviewer(tasks[j])}}
  <2>1. final = [base EXCEPT !.role = "developer", !.dependencyType = "finished",
                   !.parentKey = IF @ = NoKey THEN parent ELSE @,
                   !.dependsOn = (@ \union all) \ {finalKey},
                   !.maxRetries = Max({@, 1}),
                   !.wave = IF e = 0 THEN top + 1 ELSE top,
                   !.expandable = FALSE, !.maxExpansionDepth = 0, !.materialization = TRUE,
                   !.permissionMode = IF @ = Absent THEN "danger_full_access" ELSE @]
    BY DEF materializationTask
  <2>2. all = others
    BY <1>1
  <2>3. {"key", "dependsOn", "materialization"} \subseteq DOMAIN base
    <3>1. {"key", "dependsOn", "materialization"} \subseteq TaskFieldNames
      BY DEF TaskFieldNames, planTask
    <3> HIDE DEF base
    <3>2. QED
      BY <1>6, <3>1
  <2> HIDE DEF base, final, parent, top, all, others
  <2>4. QED
    BY <1>6, <2>1, <2>2, <2>3
<1> HIDE DEF final, r, base
<1>8. /\ DOMAIN placed = 1..N /\ f \in 1..N /\ placed[f] = final
      /\ \A i \in (1..n) \ {f} : placed[i] = tasks[i]
  <2> HIDE DEF tasks, e
  <2>1. CASE e = 0
    <3> DEFINE R == S \union {final}
    <3>1. tasks \in Seq(R) /\ final \in R
      BY <1>1
    <3> HIDE DEF R, S
    <3>2. /\ Append(tasks, final) \in Seq(R) /\ Len(Append(tasks, final)) = n + 1
          /\ \A i \in 1..n : Append(tasks, final)[i] = tasks[i]
          /\ Append(tasks, final)[n + 1] = final
      BY <1>1, <3>1, AppendProperties
    <3>3. placed = Append(tasks, final) /\ f = n + 1 /\ N = n + 1
      BY <2>1
    <3>4. DOMAIN placed = 1..(n + 1)
      BY <3>2, <3>3
    <3> HIDE DEF placed
    <3>5. QED
      BY <1>1, <3>2, <3>3, <3>4
  <2>2. CASE e # 0
    BY <1>1, <1>2, <2>2
  <2>3. QED
    BY <2>1, <2>2
<1> HIDE DEF placed
<1>9. /\ DOMAIN r.tasks = 1..N
      /\ \A i \in 1..N : r.tasks[i] = review(placed[i])
  BY <1>5, <1>8
<1>10. r.tasks[f] = final
  BY <1>7, <1>8, <1>9
<1>11. ASSUME NEW i \in (1..n) \ {f}
       PROVE  /\ r.tasks[i].key = tasks[i].key
              /\ r.tasks[i].dependsOn =
                   IF ~IsReviewer(tasks[i]) THEN tasks[i].dependsOn
                   ELSE (tasks[i].dependsOn \union {finalKey}) \ {tasks[i].key}
  <2>1. i \in 1..N /\ placed[i] = tasks[i]
    BY <1>1, <1>8
  <2>2. tasks[i].key # finalKey
    <3>1. CASE e = 0
      BY <1>1, <1>3, <3>1 DEF TaskKeys
    <3>2. CASE e # 0
      BY <1>1, <1>2, <3>2 DEF KeysDistinct
    <3>3. QED
      BY <3>1, <3>2
  <2>3. {"key", "dependsOn"} \subseteq DOMAIN tasks[i]
    <3>1. {"key", "dependsOn"} \subseteq TaskFieldNames
      BY DEF TaskFieldNames, planTask
    <3>2. tasks[i] = [x \in TaskFieldNames |-> tasks[i][x]]
      BY <1>11 DEF PlanShaped
    <3> HIDE DEF tasks
    <3>3. QED
      BY <3>1, <3>2
  <2>4. r.tasks[i] = review(tasks[i])
    BY <1>9, <2>1
  <2> HIDE DEF tasks, finalKey, f, N
  <2>5. QED
    BY <2>2, <2>3, <2>4
<1>12. Rewritten(p, r, n, f)
  <2> HIDE DEF e, finalKey
  <2>1. Listed(r.tasks, N)
    BY <1>1, <1>9 DEF Listed
  <2>2. r.tasks[f].key = finalKey /\ r.tasks[f].materialization
    BY <1>7, <1>10
  <2>3. r.tasks[f].dependsOn = ((IF e = 0 THEN {} ELSE tasks[e].dependsOn) \union others)
                               \ {finalKey}
    BY <1>6, <1>7, <1>10
  <2>4. IF e = 0 THEN finalKey \notin TaskKeys(tasks) \union MalformedKeys
        ELSE e \in 1..n /\ finalKey = tasks[e].key
    BY <1>2, <1>3 DEF finalKey
  <2>5. QED
    BY <1>11, <2>1, <2>2, <2>3, <2>4 DEF Rewritten, e
<1>13. QED
  BY <1>12 DEF r

\* The task at i waits for the one at j.
Waits(tasks, i, j) == tasks[j].key \in tasks[i].dependsOn

\* What waits for what in a plan that is rewritten so.
LEMMA RewrittenWaits ==
  ASSUME NEW p, NEW r, NEW n, NEW f, Listed(p.tasks, n), KeysDistinct(p.tasks),
         DependenciesKnown(p.tasks, TaskKeys(p.tasks)), Rewritten(p, r, n, f)
  PROVE  /\ \A i, j \in (1..n) \ {f} : Waits(r.tasks, i, j) <=> Waits(p.tasks, i, j)
         /\ \A i \in (1..n) \ {f} :
              Waits(r.tasks, i, f) <=> IsReviewer(p.tasks[i]) \/ (f \in 1..n /\ Waits(p.tasks, i, f))
         /\ ~Waits(r.tasks, f, f)
         /\ \A j \in (1..n) \ {f} :
              Waits(r.tasks, f, j) <=> ~IsReviewer(p.tasks[j]) \/ (f \in 1..n /\ Waits(p.tasks, f, j))
<1> DEFINE e == existingIndex(p.tasks)
           fk == r.tasks[f].key
           keys == TaskKeys(p.tasks)
           base == IF e = 0 THEN {} ELSE p.tasks[e].dependsOn
           others == {p.tasks[i].key : i \in {j \in 1..n : ~IsReviewer(p.tasks[j])}}
<1>1. /\ n \in Nat /\ f = (IF e = 0 THEN n + 1 ELSE e)
      /\ IF e = 0 THEN fk \notin keys ELSE e \in 1..n /\ fk = p.tasks[e].key
      /\ r.tasks[f].dependsOn = (base \union others) \ {fk}
  BY DEF Rewritten, Listed
<1>2. \A i \in (1..n) \ {f} :
        /\ r.tasks[i].key = p.tasks[i].key
        /\ r.tasks[i].dependsOn = IF ~IsReviewer(p.tasks[i]) THEN p.tasks[i].dependsOn
                                  ELSE (p.tasks[i].dependsOn \union {fk}) \ {p.tasks[i].key}
  BY DEF Rewritten
<1>3. f \in 1..n <=> e # 0
  BY <1>1
<1>4. \A i \in 1..n : /\ p.tasks[i].key \in keys
                      /\ p.tasks[i].dependsOn \subseteq keys \ {p.tasks[i].key}
  BY DEF TaskKeys, Listed, DependenciesKnown
<1>5. \A i, j \in 1..n : p.tasks[i].key = p.tasks[j].key => i = j
  BY DEF KeysDistinct, Listed
<1>6. \A i \in (1..n) \ {f} : p.tasks[i].key # fk
  BY <1>1, <1>4, <1>5
<1>7. \A j \in 1..n : p.tasks[j].key \in others <=> ~IsReviewer(p.tasks[j])
  BY <1>5
<1>8. \A i, j \in (1..n) \ {f} : Waits(r.tasks, i, j) <=> Waits(p.tasks, i, j)
  <2>1. SUFFICES ASSUME NEW i \in (1..n) \ {f}, NEW j \in (1..n) \ {f}
                 PROVE  p.tasks[j].key \in r.tasks[i].dependsOn
                          <=> p.tasks[j].key \in p.tasks[i].dependsOn
    BY <1>2 DEF Waits
  <2>2. p.tasks[i].key \notin p.tasks[i].dependsOn
    BY <1>4
  <2>3. p.tasks[j].key # fk
    BY <1>6
  <2> HIDE DEF fk
  <2>4. QED
    BY <1>2, <2>2, <2>3
<1>9. ASSUME NEW i \in (1..n) \ {f}
      PROVE  Waits(r.tasks, i, f) <=> IsReviewer(p.tasks[i]) \/ (f \in 1..n /\ Waits(p.tasks, i, f))
  <2>1. fk \in p.tasks[i].dependsOn <=> f \in 1..n /\ Waits(p.tasks, i, f)
    BY <1>1, <1>3, <1>4, <1>9 DEF Waits
  <2>2. Waits(r.tasks, i, f) <=> IsReviewer(p.tasks[i]) \/ fk \in p.tasks[i].dependsOn
    BY <1>2, <1>6, <1>9 DEF Waits
  <2>3. QED
    BY <2>1, <2>2
<1>10. ~Waits(r.tasks, f, f)
  BY <1>1 DEF Waits
<1>11. ASSUME NEW j \in (1..n) \ {f}
       PROVE  Waits(r.tasks, f, j) <=> ~IsReviewer(p.tasks[j]) \/ (f \in 1..n /\ Waits(p.tasks, f, j))
  <2>1. p.tasks[j].key \in base <=> f \in 1..n /\ Waits(p.tasks, f, j)
    BY <1>1, <1>3 DEF Waits
  <2> HIDE DEF base, others
  <2>2. Waits(r.tasks, f, j) <=> p.tasks[j].key \in base \union others
    BY <1>1, <1>2, <1>6, <1>11 DEF Waits
  <2>3. QED
    BY <1>7, <1>11, <2>1, <2>2
<1>12. QED
  BY <1>8, <1>9, <1>10, <1>11

\* A task that is not a reviewer's, or is to write the files, waits for a reviewer's or for the
\* one that is to write them.
Misplaced(tasks) ==
  \E i, j \in DOMAIN tasks :
    /\ ~IsReviewer(tasks[i]) \/ i = existingIndex(tasks)
    /\ IsReviewer(tasks[j]) \/ j = existingIndex(tasks)
    /\ tasks[j].key \in tasks[i].dependsOn

\* The rewritten plan has distinct keys and its dependencies lead to tasks.
LEMMA RewrittenKnown ==
  ASSUME NEW p, NEW r, NEW n, NEW f, Listed(p.tasks, n), KeysDistinct(p.tasks),
         DependenciesKnown(p.tasks, TaskKeys(p.tasks)), Rewritten(p, r, n, f)
  PROVE  KeysDistinct(r.tasks) /\ DependenciesKnown(r.tasks, TaskKeys(r.tasks))
<1> DEFINE e == existingIndex(p.tasks)
           fk == r.tasks[f].key
           keys == TaskKeys(p.tasks)
           new == TaskKeys(r.tasks)
           N == IF e = 0 THEN n + 1 ELSE n
<1>1. /\ n \in Nat /\ f = (IF e = 0 THEN n + 1 ELSE e)
      /\ IF e = 0 THEN fk \notin keys ELSE e \in 1..n /\ fk = p.tasks[e].key
      /\ r.tasks[f].dependsOn = ((IF e = 0 THEN {} ELSE p.tasks[e].dependsOn)
                           \union {p.tasks[i].key : i \in {j \in 1..n : ~IsReviewer(p.tasks[j])}})
                          \ {fk}
      /\ DOMAIN r.tasks = 1..N
  BY DEF Rewritten, Listed
<1>2. \A i \in (1..n) \ {f} :
        /\ r.tasks[i].key = p.tasks[i].key
        /\ r.tasks[i].dependsOn = IF ~IsReviewer(p.tasks[i]) THEN p.tasks[i].dependsOn
                                  ELSE (p.tasks[i].dependsOn \union {fk}) \ {p.tasks[i].key}
  BY DEF Rewritten
<1>3. \A i \in 1..n : /\ p.tasks[i].key \in keys
                      /\ p.tasks[i].dependsOn \subseteq keys \ {p.tasks[i].key}
  BY DEF TaskKeys, Listed, DependenciesKnown
<1>4. \A i, j \in 1..n : p.tasks[i].key = p.tasks[j].key => i = j
  BY DEF KeysDistinct, Listed
<1>5. \A i \in 1..N : i = f \/ i \in (1..n) \ {f}
  BY <1>1
<1>6. f \in 1..N /\ (1..n) \ {f} \subseteq 1..N
  BY <1>1
<1>7. \A i \in (1..n) \ {f} : p.tasks[i].key # fk
  BY <1>1, <1>3, <1>4
<1>8. KeysDistinct(r.tasks)
  <2>1. SUFFICES ASSUME NEW i \in 1..N, NEW j \in 1..N, r.tasks[i].key = r.tasks[j].key
                 PROVE  i = j
    BY <1>1 DEF KeysDistinct
  <2>2. CASE i \in (1..n) \ {f} /\ j \in (1..n) \ {f}
    BY <1>2, <1>4, <2>1, <2>2
  <2>3. CASE i = f \/ j = f
    BY <1>2, <1>5, <1>7, <2>1, <2>3
  <2>4. QED
    BY <1>5, <2>2, <2>3
<1>9. keys \union {fk} \subseteq new
  <2>1. fk \in new
    BY <1>1, <1>6 DEF TaskKeys
  <2>2. \A i \in (1..n) \ {f} : p.tasks[i].key \in new
    BY <1>1, <1>2, <1>6 DEF TaskKeys
  <2>3. f \in 1..n => p.tasks[f].key = fk
    BY <1>1
  <2>4. \A i \in 1..n : p.tasks[i].key \in new
    BY <2>1, <2>2, <2>3
  <2>5. keys = {p.tasks[i].key : i \in 1..n}
    BY DEF TaskKeys, Listed
  <2> HIDE DEF keys, new
  <2>6. QED
    BY <2>1, <2>4, <2>5
<1>10. \A i \in 1..N : r.tasks[i].dependsOn \subseteq new \ {r.tasks[i].key}
  <2>1. \A i \in (1..n) \ {f} : r.tasks[i].dependsOn \subseteq new \ {r.tasks[i].key}
    <3> HIDE DEF keys, new, fk
    <3>1. QED
      BY <1>2, <1>3, <1>9, <1>7
  <2>2. r.tasks[f].dependsOn \subseteq keys \ {fk}
    BY <1>1, <1>3
  <2> HIDE DEF keys, new
  <2>3. QED
    BY <1>5, <1>9, <2>1, <2>2
<1>11. QED
  BY <1>1, <1>8, <1>10 DEF DependenciesKnown

\* A rewritten plan has a cycle exactly when some such task waits for some such task, if the
\* plan has none itself.
LEMMA RewrittenCycle ==
  ASSUME NEW p, NEW r, NEW n, NEW f, Listed(p.tasks, n), KeysDistinct(p.tasks),
         DependenciesKnown(p.tasks, TaskKeys(p.tasks)), ~detectCycles(p.tasks),
         Rewritten(p, r, n, f)
  PROVE  detectCycles(r.tasks) <=> Misplaced(p.tasks)
<1> DEFINE e == existingIndex(p.tasks)
           N == IF e = 0 THEN n + 1 ELSE n
           review(i) == IsReviewer(p.tasks[i])
           pw(i, j) == Waits(p.tasks, i, j)
           rw(i, j) == Waits(r.tasks, i, j)
<1>1. /\ n \in Nat /\ f = (IF e = 0 THEN n + 1 ELSE e) /\ (e = 0 \/ e \in 1..n)
      /\ Listed(r.tasks, N) /\ DOMAIN p.tasks = 1..n
  BY DEF Rewritten, Listed
<1>2. f \in 1..N /\ 1..n \subseteq 1..N /\ \A i \in 1..N : i = f \/ i \in (1..n) \ {f}
  BY <1>1
<1>3. \A i \in 1..n : i = e <=> i = f
  BY <1>1
<1>4. /\ \A i, j \in (1..n) \ {f} : rw(i, j) <=> pw(i, j)
      /\ \A i \in (1..n) \ {f} : rw(i, f) <=> review(i) \/ (f \in 1..n /\ pw(i, f))
      /\ ~rw(f, f)
      /\ \A j \in (1..n) \ {f} : rw(f, j) <=> ~review(j) \/ (f \in 1..n /\ pw(f, j))
  BY RewrittenWaits
<1>5. \A i \in 1..n : ~pw(i, i)
  BY DEF Waits, DependenciesKnown, Listed
<1>6. Misplaced(p.tasks) <=>
        \E i, j \in 1..n : (~review(i) \/ i = f) /\ (review(j) \/ j = f) /\ pw(i, j)
  <2>1. Misplaced(p.tasks) <=>
          \E i, j \in 1..n : (~review(i) \/ i = e) /\ (review(j) \/ j = e) /\ pw(i, j)
    BY <1>1 DEF Misplaced, Waits
  <2> HIDE DEF e, review, pw
  <2>2. QED
    BY <1>3, <2>1
<1>7. detectCycles(r.tasks) <=> \E T : IndexCircle(r.tasks, N, T)
  BY <1>1, CyclesOfTasks, RewrittenKnown
<1>8. \A T : IndexCircle(r.tasks, N, T) <=>
               T \in SUBSET (1..N) /\ T # {} /\ \A i \in T : \E j \in T : rw(i, j)
  BY DEF IndexCircle, Waits
<1>9. \A T : ~(T \in SUBSET (1..n) /\ T # {} /\ \A i \in T : \E j \in T : pw(i, j))
  BY CyclesOfTasks DEF IndexCircle, Waits
<1> HIDE DEF e, N, review, pw, rw
<1>10. ASSUME NEW i \in 1..n, NEW j \in 1..n, ~review(i) \/ i = f, review(j) \/ j = f, pw(i, j)
       PROVE  \E T : IndexCircle(r.tasks, N, T)
  <2>1. i # j
    BY <1>5, <1>10
  <2> DEFINE T == {i, j, f}
  <2>2. T \in SUBSET (1..N) /\ T # {}
    BY <1>2
  <2>3. \E k \in T : rw(i, k)
    <3>1. CASE i = f
      BY <1>4, <1>10, <2>1, <3>1
    <3>2. CASE i # f
      <4>1. rw(i, j)
        BY <1>4, <1>10, <3>2
      <4>2. QED
        BY <4>1
    <3>3. QED
      BY <3>1, <3>2
  <2>4. \E k \in T : rw(j, k)
    <3>1. CASE j = f
      <4>1. i # f /\ ~review(i)
        BY <1>10, <2>1, <3>1
      <4>2. rw(f, i)
        BY <1>4, <4>1
      <4>3. QED
        BY <3>1, <4>2
    <3>2. CASE j # f
      <4>1. rw(j, f)
        BY <1>4, <1>10, <3>2
      <4>2. QED
        BY <4>1
    <3>3. QED
      BY <3>1, <3>2
  <2>5. \E k \in T : rw(f, k)
    <3>1. CASE i = f
      BY <2>3, <3>1
    <3>2. CASE i # f
      <4>1. rw(f, i)
        BY <1>4, <1>10, <3>2
      <4>2. QED
        BY <4>1
    <3>3. QED
      BY <3>1, <3>2
  <2>6. \A k \in T : \E l \in T : rw(k, l)
    BY <2>3, <2>4, <2>5
  <2> HIDE DEF T
  <2>7. QED
    BY <1>8, <2>2, <2>6
<1>11. ASSUME NEW T, IndexCircle(r.tasks, N, T),
              ~ \E i, j \in 1..n : (~review(i) \/ i = f) /\ (review(j) \/ j = f) /\ pw(i, j)
       PROVE  FALSE
  <2>1. T \in SUBSET (1..N) /\ T # {} /\ \A i \in T : \E j \in T : rw(i, j)
    BY <1>8, <1>11
  <2> DEFINE W == {i \in T : i \in (1..n) \ {f} /\ ~review(i)}
  <2>2. W = {}
    <3>1. \A i \in W : \E j \in W : pw(i, j)
      <4>1. SUFFICES ASSUME NEW i \in W
                     PROVE  \E j \in W : pw(i, j)
        OBVIOUS
      <4>2. PICK j \in T : rw(i, j)
        BY <2>1
      <4>3. j # f
        BY <1>4, <1>11, <4>2
      <4>4. j \in (1..n) \ {f}
        BY <1>2, <2>1, <4>2, <4>3
      <4>5. pw(i, j)
        BY <1>4, <4>2, <4>4
      <4>6. ~review(j)
        BY <1>11, <4>4, <4>5
      <4>7. QED
        BY <4>2, <4>4, <4>5, <4>6
    <3>2. W \in SUBSET (1..n)
      OBVIOUS
    <3> HIDE DEF W
    <3>3. QED
      BY <1>9, <3>1, <3>2
  <2>3. \A j \in T : j = f \/ (j \in (1..n) \ {f} /\ review(j))
    BY <1>2, <2>1, <2>2
  <2>4. f \notin T
    <3>1. SUFFICES ASSUME f \in T PROVE FALSE
      OBVIOUS
    <3>2. PICK j \in T : rw(f, j)
      BY <2>1, <3>1
    <3>3. j # f
      BY <1>4, <3>2
    <3>4. j \in (1..n) \ {f} /\ review(j)
      BY <2>3, <3>2, <3>3
    <3>5. f \in 1..n /\ pw(f, j)
      BY <1>4, <3>2, <3>4
    <3>6. QED
      BY <1>11, <3>4, <3>5
  <2>5. T \in SUBSET (1..n) /\ \A i \in T : \E j \in T : pw(i, j)
    BY <1>4, <2>1, <2>3, <2>4
  <2>6. QED
    BY <1>9, <2>1, <2>5
<1>12. Misplaced(p.tasks) => \E T : IndexCircle(r.tasks, N, T)
  <2>1. SUFFICES ASSUME Misplaced(p.tasks)
                 PROVE  \E T : IndexCircle(r.tasks, N, T)
    OBVIOUS
  <2>2. PICK i \in 1..n, j \in 1..n : (~review(i) \/ i = f) /\ (review(j) \/ j = f) /\ pw(i, j)
    BY <1>6, <2>1
  <2>3. QED
    BY <1>10, <2>2
<1>13. (\E T : IndexCircle(r.tasks, N, T)) => Misplaced(p.tasks)
  BY <1>6, <1>11
<1>14. QED
  BY <1>7, <1>12, <1>13

\* In a rewritten plan work waits for itself through the task that writes the files only.
LEMMA RewrittenWork ==
  ASSUME NEW p, NEW r, NEW n, NEW f, Listed(p.tasks, n), KeysDistinct(p.tasks),
         DependenciesKnown(p.tasks, TaskKeys(p.tasks)), ~detectCycles(p.tasks),
         Rewritten(p, r, n, f), NEW T \in SUBSET (DOMAIN r.tasks), T # {},
         \A i \in T : \E j \in T : Waits(r.tasks, i, j)
  PROVE  \E i \in T : r.tasks[i].materialization
<1>1. SUFFICES ASSUME f \notin T PROVE FALSE
  BY DEF Rewritten
<1>2. T \subseteq (1..n) \ {f}
  <2>1. DOMAIN r.tasks \subseteq 1..n \union {f}
    BY DEF Rewritten, Listed
  <2>2. QED
    BY <1>1, <2>1
<1>3. \A i \in T : \E j \in T : Waits(p.tasks, i, j)
  BY <1>2, RewrittenWaits
<1>4. IndexCircle(p.tasks, n, T)
  BY <1>2, <1>3 DEF IndexCircle, Waits
<1>5. QED
  BY <1>4, CyclesOfTasks

\* No task of work waits for itself, when in each circle of tasks there is one that writes files.
LEMMA WorkOf ==
  ASSUME NEW tasks, NEW n, Listed(tasks, n),
         \A T \in SUBSET (1..n) :
           T # {} /\ (\A i \in T : \E j \in T : Waits(tasks, i, j)) =>
             \E i \in T : tasks[i].materialization
  PROVE  WorkAcyclic(tasks)
<1> DEFINE F == [i \in DOMAIN tasks |->
                   IF tasks[i].materialization THEN {}
                   ELSE {j \in DOMAIN tasks : tasks[j].key \in tasks[i].dependsOn}]
<1>1. DOMAIN tasks = 1..n /\ n \in Nat /\ IsFiniteSet(1..n)
  BY FS_Interval DEF Listed
<1>2. ASSUME NEW T, Circle(1..n, F, T)
      PROVE  FALSE
  <2>1. T \in SUBSET (1..n) /\ T # {} /\ \A i \in T : F[i] \intersect T # {}
    BY <1>2 DEF Circle
  <2>2. ASSUME NEW i \in T
        PROVE  ~tasks[i].materialization /\ \E j \in T : Waits(tasks, i, j)
    <3>1. F[i] = IF tasks[i].materialization THEN {}
                 ELSE {j \in DOMAIN tasks : tasks[j].key \in tasks[i].dependsOn}
      BY <1>1, <2>1
    <3>2. PICK j \in T : j \in F[i]
      BY <2>1
    <3>3. QED
      BY <3>1, <3>2 DEF Waits
  <2>3. QED
    BY <2>1, <2>2
<1>3. WorkAcyclic(tasks) <=> ~HasCycle(1..n, F)
  BY <1>1 DEF WorkAcyclic
<1> HIDE DEF F
<1>4. QED
  BY <1>1, <1>2, <1>3, CycleIsCircle

\* A task that is added or rewritten has a well-formed key, like those of a valid plan.
LEMMA RewrittenKeys ==
  ASSUME NEW p, NEW r, NEW n, NEW f, Listed(p.tasks, n),
         TaskKeys(p.tasks) \intersect MalformedKeys = {}, Rewritten(p, r, n, f)
  PROVE  TaskKeys(r.tasks) \intersect MalformedKeys = {}
<1>1. DOMAIN p.tasks = 1..n /\ DOMAIN r.tasks \subseteq 1..n \union {f}
  BY DEF Rewritten, Listed
<1>2. r.tasks[f].key \notin MalformedKeys
  BY <1>1 DEF Rewritten, TaskKeys
<1>3. \A i \in (1..n) \ {f} : r.tasks[i].key = p.tasks[i].key /\ p.tasks[i].key \in TaskKeys(p.tasks)
  BY <1>1 DEF Rewritten, TaskKeys
<1>4. QED
  BY <1>1, <1>2, <1>3 DEF TaskKeys

\* MinimumTaskNodes, ArtifactMaterialization: what a valid plan is rewritten into is a plan
\* TaskGraphExecutor may be given: its keys are distinct and well-formed, its dependencies lead
\* to its tasks, and no task waits for itself but through a task that writes files.
THEOREM ExecutablePlans ==
  ASSUME NEW p, NEW n, PlanShaped(p, n), validatePlanSpec(p), MadeUpKeysApart(n),
         NEW requested \in Nat, NEW writes \in BOOLEAN
  PROVE  LET tasks == ensureArtifactMaterializationPlan(
                        ensureMinimumTaskNodePlan(p, requested), writes).tasks
         IN  /\ KeysDistinct(tasks) /\ TaskKeys(tasks) \intersect MalformedKeys = {}
             /\ DependenciesKnown(tasks, TaskKeys(tasks))
             /\ WorkAcyclic(tasks)
<1> DEFINE q == ensureMinimumTaskNodePlan(p, requested)
           r == ensureArtifactMaterializationPlan(q, writes)
<1>1. /\ n \in Nat /\ Listed(p.tasks, n)
      /\ KeysDistinct(p.tasks) /\ DependenciesKnown(p.tasks, TaskKeys(p.tasks))
      /\ ~detectCycles(p.tasks) /\ \A i \in DOMAIN p.tasks : p.tasks[i].key \notin MalformedKeys
  BY DEF validatePlanSpec, TaskFieldsValid, PlanShaped, Listed
<1>2. PICK m \in Nat : Extended(p, q, n, m) /\ (m <= n \/ m <= MaxRequestedTaskNodes)
  <2>1. SupplementalApart(n)
    BY DEF MadeUpKeysApart
  <2>2. QED
    BY <1>1, <2>1, MinimumPlan
<1> HIDE DEF q
<1>3. PlanShaped(q, m) /\ Listed(q.tasks, m) /\ KeysDistinct(q.tasks)
  BY <1>2 DEF Extended, PlanShaped
<1>4. DependenciesKnown(q.tasks, TaskKeys(q.tasks)) /\ ~detectCycles(q.tasks)
  BY <1>1, <1>2, ExtendedAcyclic
<1>5. TaskKeys(q.tasks) \intersect MalformedKeys = {}
  <2>1. DOMAIN q.tasks = 1..m /\ \A i \in 1..m : i \in 1..n \/ i \in (n + 1)..m
    BY <1>1, <1>3 DEF Listed
  <2>2. \A i \in 1..n : q.tasks[i].key \notin MalformedKeys
    BY <1>1, <1>2 DEF Extended, Listed
  <2>3. \A i \in (n + 1)..m : q.tasks[i].key \notin MalformedKeys
    BY <1>2 DEF Extended
  <2>4. QED
    BY <2>1, <2>2, <2>3 DEF TaskKeys
<1>6. CASE writes
  <2>1. r = ensureArtifactMaterializationPlan(q, TRUE)
    BY <1>6 DEF ensureArtifactMaterializationPlan
  <2>2. NumberedApart("final_materialization", m + 1)
    <3>1. NumberedApart("final_materialization", n + MaxRequestedTaskNodes + 1)
      BY DEF MadeUpKeysApart
    <3>2. MaxRequestedTaskNodes \in Nat
      BY DEF MaxRequestedTaskNodes
    <3>3. 1..(m + 1) \subseteq 1..(n + MaxRequestedTaskNodes + 1)
      BY <1>1, <1>2, <3>2
    <3>4. QED
      BY <3>1, <3>3 DEF NumberedApart
  <2>3. PICK f : Rewritten(q, r, m, f)
    BY <1>3, <2>1, <2>2, ArtifactPlan
  <2> HIDE DEF r
  <2>4. KeysDistinct(r.tasks) /\ DependenciesKnown(r.tasks, TaskKeys(r.tasks))
    BY <1>3, <1>4, <2>3, RewrittenKnown
  <2>5. TaskKeys(r.tasks) \intersect MalformedKeys = {}
    BY <1>3, <1>5, <2>3, RewrittenKeys
  <2>6. Listed(r.tasks, m) \/ Listed(r.tasks, m + 1)
    BY <2>3 DEF Rewritten
  <2>7. PICK k : Listed(r.tasks, k)
    BY <2>6
  <2>8. DOMAIN r.tasks = 1..k
    BY <2>7 DEF Listed
  <2>9. \A T \in SUBSET (1..k) :
          T # {} /\ (\A i \in T : \E j \in T : Waits(r.tasks, i, j)) =>
            \E i \in T : r.tasks[i].materialization
    BY <1>3, <1>4, <2>3, <2>8, RewrittenWork
  <2>10. WorkAcyclic(r.tasks)
    BY <2>7, <2>9, WorkOf
  <2>11. QED
    BY <2>4, <2>5, <2>10 DEF q, r
<1>7. CASE ~writes
  <2>1. r = q
    BY <1>7 DEF ensureArtifactMaterializationPlan
  <2>2. \A T \in SUBSET (1..m) :
          T # {} /\ (\A i \in T : \E j \in T : Waits(q.tasks, i, j)) =>
            \E i \in T : q.tasks[i].materialization
    BY <1>3, <1>4, CyclesOfTasks DEF IndexCircle, Waits
  <2>3. WorkAcyclic(q.tasks)
    BY <1>3, <2>2, WorkOf
  <2>4. QED
    BY <1>3, <1>4, <1>5, <2>1, <2>3 DEF q, r
<1>8. QED
  BY <1>6, <1>7
=============================================================================
