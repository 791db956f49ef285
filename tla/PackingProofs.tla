---- MODULE PackingProofs ----
EXTENDS Packing, FiniteSetTheorems, WellFoundedInduction, TLAPS

\* A set of numbers has a least one.
LEMMA Least ==
    ASSUME NEW T \in SUBSET Nat, T # {}
    PROVE  \E n \in T : \A m \in T : n <= m
<1> DEFINE R == {ss \in Nat \X Nat : ss[1] < ss[2]}
<1>1. IsWellFoundedOn(R, Nat)
  <2>1. OpToRel(<, Nat) = R
    BY DEF OpToRel
  <2> QED
    BY <2>1, NatLessThanWellFounded, Zenon
<1> HIDE DEF R
<1>2. PICK n \in T : \A m \in T : ~(<<m, n>> \in R)
  BY <1>1, WFMin
<1>3. \A m \in T : m \in Nat /\ ~(m < n)
  BY <1>2 DEF R
<1>4. \A m \in T : n <= m
  BY <1>2, <1>3
<1> QED
  BY <1>4

\* Induction, about a set instead of a predicate.
LEMMA Induction ==
    ASSUME NEW T, 0 \in T, \A n \in Nat : n \in T => n + 1 \in T
    PROVE  Nat \subseteq T
<1> DEFINE U == Nat \ T
<1> SUFFICES ASSUME U # {}
             PROVE  FALSE
  OBVIOUS
<1>1. PICK n \in U : \A m \in U : n <= m
  <2>1. U \in SUBSET Nat
    OBVIOUS
  <2> HIDE DEF U
  <2> QED
    BY <2>1, Least
<1>2. n \in Nat /\ n # 0 /\ n - 1 \in Nat
  OBVIOUS
<1>3. n - 1 \in T
  BY <1>1, <1>2
<1>4. n \in T
  BY <1>2, <1>3
<1> QED
  BY <1>4

-----------------------------------------------------------------------------
(* Folding over a finite set.                                              *)

\* g folds h over the sets of P, whose elements c chooses.
Folds(g, base, h, c, P) ==
    \A s \in P : g[s] = IF s = {} THEN base ELSE h[c[s]][g[s \ {c[s]}]]

\* What may be folded over the finite set D, with results in A.
Foldable(D, A, base, h, c) ==
    /\ IsFiniteSet(D)
    /\ base \in A
    /\ h \in [D -> [A -> A]]
    /\ \A s \in SUBSET D : s # {} => c[s] \in s

\* Every such set has a fold.
LEMMA FoldExists ==
    ASSUME NEW D, NEW A, NEW base, NEW h, NEW c, Foldable(D, A, base, h, c)
    PROVE  \E g \in [SUBSET D -> A] : Folds(g, base, h, c, SUBSET D)
<1> USE DEF Foldable
<1> DEFINE Small(n) == {s \in SUBSET D : Cardinality(s) <= n}
           Solved(n) == \E g \in [Small(n) -> A] : Folds(g, base, h, c, Small(n))
           T == {n \in Nat : Solved(n)}
<1>1. \A s \in SUBSET D : IsFiniteSet(s) /\ Cardinality(s) \in Nat
  BY FS_Subset, FS_CardinalityType
<1>2. Solved(0)
  <2> DEFINE g == [s \in Small(0) |-> base]
  <2>1. \A s \in Small(0) : s = {}
    BY <1>1, FS_EmptySet
  <2>2. g \in [Small(0) -> A] /\ \A s \in Small(0) : g[s] = base
    OBVIOUS
  <2> HIDE DEF g
  <2>3. Folds(g, base, h, c, Small(0))
    BY <2>1, <2>2 DEF Folds
  <2> QED
    BY <2>2, <2>3
<1>3. ASSUME NEW n \in Nat, Solved(n)
      PROVE  Solved(n + 1)
  <2>1. PICK g \in [Small(n) -> A] : Folds(g, base, h, c, Small(n))
    BY <1>3
  <2>2. Small(n) \subseteq Small(n + 1)
    BY <1>1
  <2>3. ASSUME NEW s \in Small(n + 1), s # {}
        PROVE  c[s] \in s /\ s \ {c[s]} \in Small(n)
    <3>1. c[s] \in s /\ IsFiniteSet(s) /\ Cardinality(s) \in Nat /\ Cardinality(s) <= n + 1
      BY <1>1, <2>3
    <3>2. Cardinality(s \ {c[s]}) = Cardinality(s) - 1
      BY <3>1, FS_RemoveElement
    <3> QED
      BY <3>1, <3>2
  <2>4. Small(n) \in SUBSET (SUBSET D) /\ Small(n + 1) \in SUBSET (SUBSET D)
    OBVIOUS
  <2> DEFINE P == Small(n)
             Q == Small(n + 1)
  <2>5. /\ P \in SUBSET (SUBSET D) /\ Q \in SUBSET (SUBSET D) /\ P \subseteq Q
        /\ \A s \in Q : s # {} => c[s] \in s /\ s \ {c[s]} \in P
        /\ g \in [P -> A] /\ Folds(g, base, h, c, P)
    BY <2>1, <2>2, <2>3, <2>4
  <2> DEFINE next(s) == IF s = {} THEN base ELSE h[c[s]][g[s \ {c[s]}]]
             k == [s \in Q |-> next(s)]
  <2> HIDE DEF P, Q
  <2>6. \A s \in Q : next(s) \in A
    <3> SUFFICES ASSUME NEW s \in Q, s # {}
                 PROVE  h[c[s]][g[s \ {c[s]}]] \in A
      OBVIOUS
    <3>1. c[s] \in D /\ g[s \ {c[s]}] \in A
      BY <2>5
    <3>2. h[c[s]] \in [A -> A]
      BY <3>1
    <3> QED
      BY <3>1, <3>2
  <2>7. k \in [Q -> A]
    BY <2>6
  <2>8. \A s \in P : k[s] = g[s]
    BY <2>5 DEF Folds
  <2>9. \A s \in Q : k[s] = next(s)
    OBVIOUS
  <2> HIDE DEF k
  <2>10. \A s \in Q : k[s] = IF s = {} THEN base ELSE h[c[s]][k[s \ {c[s]}]]
    BY <2>5, <2>8, <2>9
  <2> QED
    BY <2>7, <2>10 DEF Folds, Q
<1>4. Nat \subseteq T
  <2> HIDE DEF Solved
  <2>1. 0 \in T /\ \A n \in Nat : n \in T => n + 1 \in T
    BY <1>2, <1>3
  <2> HIDE DEF T
  <2> QED
    BY <2>1, Induction
<1>5. Cardinality(D) \in Nat
  BY FS_CardinalityType
<1>6. Small(Cardinality(D)) = SUBSET D
  BY FS_Subset
<1>7. Solved(Cardinality(D))
  BY <1>4, <1>5
<1>8. PICK g \in [Small(Cardinality(D)) -> A] : Folds(g, base, h, c, Small(Cardinality(D)))
  BY <1>7
<1> QED
  BY <1>6, <1>8 DEF Folds

-----------------------------------------------------------------------------
(* Sums.                                                                   *)

SumOver(f, K) == MapThenSumSet(LAMBDA x : f[x], K)

\* g is the sum of f over the sets of P, in the order in which CHOOSE takes their
\* elements.
Sums(g, f, P) ==
    \A s \in P : g[s] = IF s = {} THEN 0
                        ELSE f[CHOOSE x \in s : TRUE] + g[s \ {CHOOSE x \in s : TRUE}]

LEMMA SumsExist ==
    ASSUME NEW K, IsFiniteSet(K), NEW f \in [K -> Nat]
    PROVE  \E g \in [SUBSET K -> Nat] : Sums(g, f, SUBSET K)
<1> DEFINE h == [x \in K |-> [a \in Nat |-> f[x] + a]]
           c == [s \in SUBSET K |-> CHOOSE x \in s : TRUE]
<1>1. h \in [K -> [Nat -> Nat]]
  OBVIOUS
<1>2. \A s \in SUBSET K : c[s] = CHOOSE x \in s : TRUE
  OBVIOUS
<1>3. \A s \in SUBSET K : s # {} => (CHOOSE x \in s : TRUE) \in s
  OBVIOUS
<1>4. \A s \in SUBSET K : s # {} => c[s] \in s
  BY <1>2, <1>3
<1>5. \A x \in K, a \in Nat : h[x][a] = f[x] + a
  OBVIOUS
<1> HIDE DEF h, c
<1>6. PICK g \in [SUBSET K -> Nat] : Folds(g, 0, h, c, SUBSET K)
  <2>1. Foldable(K, Nat, 0, h, c)
    BY <1>1, <1>4 DEF Foldable
  <2> QED
    BY <2>1, FoldExists
<1>7. ASSUME NEW s \in SUBSET K, s # {}
      PROVE  g[s] = f[c[s]] + g[s \ {c[s]}]
  <2>1. c[s] \in K /\ g[s \ {c[s]}] \in Nat
    BY <1>4, <1>7
  <2> QED
    BY <1>5, <1>6, <1>7, <2>1 DEF Folds
<1>8. Sums(g, f, SUBSET K)
  BY <1>2, <1>6, <1>7 DEF Sums, Folds
<1> QED
  BY <1>8

LEMMA SumsAgree ==
    ASSUME NEW K, IsFiniteSet(K), NEW f,
           NEW g, Sums(g, f, SUBSET K), NEW k, Sums(k, f, SUBSET K)
    PROVE  g[K] = k[K]
<1> DEFINE Agree(n) == \A s \in SUBSET K : Cardinality(s) = n => g[s] = k[s]
           T == {n \in Nat : Agree(n)}
<1>1. \A s \in SUBSET K : IsFiniteSet(s) /\ Cardinality(s) \in Nat
  BY FS_Subset, FS_CardinalityType
<1>2. Agree(0)
  <2>1. \A s \in SUBSET K : Cardinality(s) = 0 => s = {}
    BY <1>1, FS_EmptySet
  <2> QED
    BY <2>1 DEF Sums
<1>3. ASSUME NEW n \in Nat, Agree(n)
      PROVE  Agree(n + 1)
  <2> SUFFICES ASSUME NEW s \in SUBSET K, Cardinality(s) = n + 1
               PROVE  g[s] = k[s]
    OBVIOUS
  <2> DEFINE c == CHOOSE x \in s : TRUE
  <2>1. s # {} /\ IsFiniteSet(s)
    BY <1>1, FS_EmptySet
  <2>2. c \in s
    BY <2>1
  <2>3. g[s] = f[c] + g[s \ {c}] /\ k[s] = f[c] + k[s \ {c}]
    BY <2>1 DEF Sums
  <2> HIDE DEF c
  <2>4. Cardinality(s \ {c}) = n
    <3>1. Cardinality(s \ {c}) = Cardinality(s) - 1
      BY <2>1, <2>2, FS_RemoveElement
    <3> QED
      BY <3>1
  <2> QED
    BY <1>3, <2>3, <2>4
<1>4. Nat \subseteq T
  <2> HIDE DEF Agree
  <2>1. 0 \in T /\ \A n \in Nat : n \in T => n + 1 \in T
    BY <1>2, <1>3
  <2> HIDE DEF T
  <2> QED
    BY <2>1, Induction
<1>5. Agree(Cardinality(K))
  BY <1>1, <1>4
<1> QED
  BY <1>5

\* Over any finite set of its domain, the operator is that sum.
LEMMA SumOverIs ==
    ASSUME NEW D, NEW f \in [D -> Nat], NEW K \in SUBSET D, IsFiniteSet(K),
           NEW g, Sums(g, f, SUBSET K)
    PROVE  SumOver(f, K) = g[K]
<1> DEFINE Equation(k) ==
               k = [s \in SUBSET K |-> IF s = {} THEN 0
                       ELSE f[CHOOSE x \in s : TRUE] + k[s \ {CHOOSE x \in s : TRUE}]]
           chosen == CHOOSE k : Equation(k)
<1>1. SumOver(f, K) = chosen[K]
  BY DEF SumOver, MapThenSumSet, MapThenFoldSet
<1>2. \E k : Equation(k)
  <2> DEFINE r == [x \in K |-> f[x]]
  <2>1. r \in [K -> Nat] /\ \A x \in K : r[x] = f[x]
    OBVIOUS
  <2> HIDE DEF r
  <2>2. PICK k \in [SUBSET K -> Nat] : Sums(k, r, SUBSET K)
    BY <2>1, SumsExist
  <2>3. ASSUME NEW s \in SUBSET K
        PROVE  k[s] = IF s = {} THEN 0
                      ELSE f[CHOOSE x \in s : TRUE] + k[s \ {CHOOSE x \in s : TRUE}]
    <3>1. s # {} => (CHOOSE x \in s : TRUE) \in K
      OBVIOUS
    <3> QED
      BY <2>1, <2>2, <3>1 DEF Sums
  <2>4. Equation(k)
    BY <2>2, <2>3
  <2> QED
    BY <2>4
<1>3. Equation(chosen)
  <2> HIDE DEF Equation
  <2> QED
    BY <1>2
<1> HIDE DEF chosen
<1>4. Sums(chosen, f, SUBSET K)
  BY <1>3 DEF Sums
<1> QED
  BY <1>1, <1>4, SumsAgree

\* The order does not matter: any element may be taken first.
LEMMA SumsAnyOrder ==
    ASSUME NEW K, IsFiniteSet(K), NEW f \in [K -> Nat],
           NEW g \in [SUBSET K -> Nat], Sums(g, f, SUBSET K)
    PROVE  \A s \in SUBSET K : \A y \in s : g[s] = f[y] + g[s \ {y}]
<1> DEFINE AnyFirst(n) == \A s \in SUBSET K : Cardinality(s) = n =>
                        \A y \in s : g[s] = f[y] + g[s \ {y}]
           T == {n \in Nat : AnyFirst(n)}
<1>1. \A s \in SUBSET K : IsFiniteSet(s) /\ Cardinality(s) \in Nat
  BY FS_Subset, FS_CardinalityType
<1>2. AnyFirst(0)
  <2>1. \A s \in SUBSET K : Cardinality(s) = 0 => s = {}
    BY <1>1, FS_EmptySet
  <2> QED
    BY <2>1
<1>3. ASSUME NEW n \in Nat, AnyFirst(n)
      PROVE  AnyFirst(n + 1)
  <2> SUFFICES ASSUME NEW s \in SUBSET K, Cardinality(s) = n + 1, NEW y \in s
               PROVE  g[s] = f[y] + g[s \ {y}]
    OBVIOUS
  <2> DEFINE c == CHOOSE x \in s : TRUE
  <2>1. c \in s
    OBVIOUS
  <2>2. g[s] = f[c] + g[s \ {c}]
    BY DEF Sums
  <2> HIDE DEF c
  <2>3. CASE y = c
    BY <2>2, <2>3
  <2>4. CASE y # c
    <3>1. Cardinality(s \ {c}) = n /\ Cardinality(s \ {y}) = n
      <4>1. Cardinality(s \ {c}) = Cardinality(s) - 1
        BY <1>1, <2>1, FS_RemoveElement
      <4>2. Cardinality(s \ {y}) = Cardinality(s) - 1
        BY <1>1, FS_RemoveElement
      <4> QED
        BY <4>1, <4>2
    <3> DEFINE rest == (s \ {c}) \ {y}
    <3>2. g[s \ {c}] = f[y] + g[rest]
      BY <1>3, <2>4, <3>1
    <3>3. g[s \ {y}] = f[c] + g[rest]
      <4>1. (s \ {y}) \ {c} = rest
        OBVIOUS
      <4>2. g[s \ {y}] = f[c] + g[(s \ {y}) \ {c}]
        BY <1>3, <2>1, <2>4, <3>1
      <4> QED
        BY <4>1, <4>2
    <3>4. f[c] \in Nat /\ f[y] \in Nat /\ g[rest] \in Nat
      BY <2>1
    <3> HIDE DEF rest
    <3> QED
      BY <2>2, <3>2, <3>3, <3>4
  <2> QED
    BY <2>3, <2>4
<1>4. Nat \subseteq T
  <2> HIDE DEF AnyFirst
  <2>1. 0 \in T /\ \A n \in Nat : n \in T => n + 1 \in T
    BY <1>2, <1>3
  <2> HIDE DEF T
  <2> QED
    BY <2>1, Induction
<1> QED
  BY <1>1, <1>4

\* What a sum is, whatever the order.
LEMMA SumFacts ==
    ASSUME NEW D, NEW f \in [D -> Nat], NEW K \in SUBSET D, IsFiniteSet(K)
    PROVE  /\ SumOver(f, K) \in Nat
           /\ K = {} => SumOver(f, K) = 0
           /\ \A x \in K : SumOver(f, K) = f[x] + SumOver(f, K \ {x})
<1> DEFINE r == [x \in K |-> f[x]]
<1>1. r \in [K -> Nat] /\ \A x \in K : r[x] = f[x]
  OBVIOUS
<1> HIDE DEF r
<1>2. PICK g \in [SUBSET K -> Nat] : Sums(g, r, SUBSET K)
  BY <1>1, SumsExist
<1>3. Sums(g, f, SUBSET K)
  <2>1. ASSUME NEW s \in SUBSET K, s # {}
        PROVE  (CHOOSE x \in s : TRUE) \in K
    BY <2>1
  <2> QED
    BY <1>1, <1>2, <2>1 DEF Sums
<1>4. \A s \in SUBSET K : SumOver(f, s) = g[s]
  <2> SUFFICES ASSUME NEW s \in SUBSET K
               PROVE  SumOver(f, s) = g[s]
    OBVIOUS
  <2>1. IsFiniteSet(s)
    BY FS_Subset
  <2>2. Sums(g, f, SUBSET s)
    BY <1>3 DEF Sums
  <2> QED
    BY <2>1, <2>2, SumOverIs
<1>5. \A x \in K : g[K] = r[x] + g[K \ {x}]
  BY <1>1, <1>2, SumsAnyOrder
<1>6. K = {} => g[K] = 0
  BY <1>2 DEF Sums
<1> QED
  BY <1>1, <1>2, <1>4, <1>5, <1>6

LEMMA SumWithOneMore ==
    ASSUME NEW D, NEW f \in [D -> Nat], NEW K \in SUBSET D, IsFiniteSet(K),
           NEW x \in D, x \notin K
    PROVE  SumOver(f, K \cup {x}) = f[x] + SumOver(f, K)
<1>1. IsFiniteSet(K \cup {x}) /\ (K \cup {x}) \ {x} = K
  BY FS_AddElement
<1> QED
  BY <1>1, SumFacts

\* A part and the rest of a finite set sum up to the whole.
LEMMA SumSplit ==
    ASSUME NEW D, NEW f \in [D -> Nat], NEW K \in SUBSET D, IsFiniteSet(K), NEW C \in SUBSET K
    PROVE  SumOver(f, K) = SumOver(f, C) + SumOver(f, K \ C)
<1> DEFINE Split(n) == \A s \in SUBSET K : Cardinality(s) = n =>
                          SumOver(f, K) = SumOver(f, s) + SumOver(f, K \ s)
           T == {n \in Nat : Split(n)}
<1>1. \A s \in SUBSET K : IsFiniteSet(s) /\ Cardinality(s) \in Nat
  BY FS_Subset, FS_CardinalityType
<1>2. \A s \in SUBSET K : SumOver(f, s) \in Nat
  BY <1>1, SumFacts
<1>3. 0 \in T
  <2>1. \A s \in SUBSET K : Cardinality(s) = 0 => s = {}
    BY <1>1, FS_EmptySet
  <2>2. SumOver(f, {}) = 0 /\ K \ {} = K
    BY FS_EmptySet, SumFacts
  <2>3. SumOver(f, K) = SumOver(f, {}) + SumOver(f, K \ {})
    BY <1>2, <2>2
  <2> QED
    BY <2>1, <2>3
<1>4. ASSUME NEW n \in Nat, Split(n)
      PROVE  Split(n + 1)
  <2> SUFFICES ASSUME NEW s \in SUBSET K, Cardinality(s) = n + 1
               PROVE  SumOver(f, K) = SumOver(f, s) + SumOver(f, K \ s)
    OBVIOUS
  <2>1. PICK x \in s : TRUE
    BY FS_EmptySet
  <2> DEFINE rest == s \ {x}
  <2>2. rest \in SUBSET K /\ IsFiniteSet(rest)
    BY <1>1
  <2>3. Cardinality(rest) = n
    BY <1>1, <2>1, FS_RemoveElement
  <2>4. SumOver(f, K) = SumOver(f, rest) + SumOver(f, K \ rest)
    BY <1>4, <2>2, <2>3
  <2>5. SumOver(f, s) = f[x] + SumOver(f, rest)
    BY <1>1, <2>1, SumFacts
  <2>6. SumOver(f, K \ rest) = f[x] + SumOver(f, K \ s)
    <3>1. /\ K \ rest \in SUBSET K /\ IsFiniteSet(K \ rest)
          /\ x \in K \ rest /\ (K \ rest) \ {x} = K \ s
      BY <1>1, <2>1
    <3> HIDE DEF rest
    <3>2. SumOver(f, K \ rest) = f[x] + SumOver(f, (K \ rest) \ {x})
      BY <3>1, SumFacts
    <3> QED
      BY <3>1, <3>2
  <2>7. /\ f[x] \in Nat /\ SumOver(f, rest) \in Nat /\ SumOver(f, K \ s) \in Nat
        /\ SumOver(f, K) \in Nat
    BY <1>2, <2>1, <2>2
  <2> HIDE DEF rest
  <2> QED
    BY <2>4, <2>5, <2>6, <2>7
<1>5. Nat \subseteq T
  <2>1. \A n \in Nat : n \in T => n + 1 \in T
    BY <1>4
  <2> HIDE DEF T
  <2> QED
    BY <1>3, <2>1, Induction
<1> QED
  BY <1>1, <1>5

-----------------------------------------------------------------------------
(* Packing.                                                                *)

LEMMA Greatest ==
    ASSUME NEW n \in Nat, NEW S \in SUBSET (1 .. n), S # {}
    PROVE  Max(S) \in S /\ \A y \in S : y <= Max(S)
<1> DEFINE T == {n - y : y \in S}
<1>1. PICK t \in T : \A u \in T : t <= u
  <2>1. \A y \in S : n - y \in Nat
    OBVIOUS
  <2>2. T \in SUBSET Nat
    BY <2>1
  <2>3. T # {}
    OBVIOUS
  <2> HIDE DEF T
  <2> QED
    BY <2>2, <2>3, Least
<1>2. PICK x \in S : t = n - x
  OBVIOUS
<1>3. \A y \in S : x >= y
  <2> SUFFICES ASSUME NEW y \in S
               PROVE  x >= y
    OBVIOUS
  <2>1. n - y \in T
    OBVIOUS
  <2>2. n - x <= n - y
    BY <1>1, <1>2, <2>1
  <2> QED
    BY <2>2
<1>4. \A y \in S : y \in Int
  OBVIOUS
<1>5. Max(S) \in S /\ \A y \in S : Max(S) >= y
  BY <1>3 DEF Max
<1> QED
  BY <1>4, <1>5

\* n candidates of D in an order, and what packing them needs.
Candidates(D, n, ordered, cost, budget) ==
    /\ n \in Nat
    /\ ordered \in [1 .. n -> D]
    /\ \A i, j \in 1 .. n : ordered[i] = ordered[j] => i = j
    /\ cost \in [D -> Nat]
    /\ budget \in Nat

\* What the loop does with one candidate.
Taken(acc, i, cost) ==
    IF cost[i] <= acc.left
    THEN [acc EXCEPT !.kept = @ \cup {i}, !.left = @ - cost[i]]
    ELSE acc

\* The loop, candidate by candidate.
LEMMA PackRuns ==
    ASSUME NEW D, NEW n, NEW ordered, NEW cost, NEW budget,
           Candidates(D, n, ordered, cost, budget)
    PROVE  \E run \in [0 .. n -> [kept : SUBSET D, left : Nat]] :
              /\ run[0] = [kept |-> {}, left |-> budget]
              /\ \A i \in 1 .. n : run[i] = Taken(run[i - 1], ordered[i], cost)
              /\ GreedyPack(ordered, cost, budget) = run[n].kept
<1> DEFINE A == [kept : SUBSET D, left : Nat]
           base == [kept |-> {}, left |-> budget]
           h == [i \in 1 .. n |-> [a \in A |-> Taken(a, ordered[i], cost)]]
           c == [s \in SUBSET (1 .. n) |-> Max(s)]
           Equation(k) ==
               k = [s \in SUBSET (1 .. n) |-> IF s = {} THEN base
                       ELSE Taken(k[s \ {Max(s)}], ordered[Max(s)], cost)]
           chosen == CHOOSE k : Equation(k)
<1>1. n \in Nat /\ ordered \in [1 .. n -> D] /\ cost \in [D -> Nat] /\ budget \in Nat
  BY DEF Candidates
<1>2. GreedyPack(ordered, cost, budget) = chosen[1 .. n].kept
  <2>1. DOMAIN ordered = 1 .. n
    BY <1>1
  <2> QED
    BY <2>1 DEF GreedyPack, FoldLeft, MapThenFoldSet, Taken
<1>3. \A i \in D, a \in A : Taken(a, i, cost) \in A
  <2> SUFFICES ASSUME NEW i \in D, NEW a \in A
               PROVE  Taken(a, i, cost) \in A
    OBVIOUS
  <2>1. a.kept \cup {i} \in SUBSET D /\ a.left \in Nat /\ cost[i] \in Nat
    BY <1>1
  <2>2. CASE cost[i] <= a.left
    <3>1. a.left - cost[i] \in Nat
      BY <2>1, <2>2
    <3> QED
      BY <2>1, <2>2, <3>1 DEF Taken
  <2>3. CASE ~(cost[i] <= a.left)
    BY <2>3 DEF Taken
  <2> QED
    BY <2>2, <2>3
<1>4. \A s \in SUBSET (1 .. n) : s # {} => Max(s) \in s
  BY <1>1, Greatest
<1>5. PICK k \in [SUBSET (1 .. n) -> A] : Equation(k)
  <2>1. Foldable(1 .. n, A, base, h, c)
    <3>1. IsFiniteSet(1 .. n)
      BY <1>1, FS_Interval
    <3>2. base \in A
      BY <1>1
    <3>3. h \in [1 .. n -> [A -> A]]
      BY <1>1, <1>3
    <3>4. \A s \in SUBSET (1 .. n) : s # {} => c[s] \in s
      BY <1>4
    <3> HIDE DEF A, h, c
    <3> QED
      BY <3>1, <3>2, <3>3, <3>4 DEF Foldable
  <2>2. PICK k \in [SUBSET (1 .. n) -> A] : Folds(k, base, h, c, SUBSET (1 .. n))
    <3> HIDE DEF A, base, h, c
    <3> QED
      BY <2>1, FoldExists
  <2>3. ASSUME NEW s \in SUBSET (1 .. n), s # {}
        PROVE  k[s] = Taken(k[s \ {Max(s)}], ordered[Max(s)], cost)
    <3>1. Max(s) \in 1 .. n /\ k[s \ {Max(s)}] \in A /\ c[s] = Max(s)
      BY <1>4, <2>2, <2>3
    <3>2. k[s] = h[c[s]][k[s \ {c[s]}]]
      BY <2>2, <2>3 DEF Folds
    <3>3. \A i \in 1 .. n, a \in A : h[i][a] = Taken(a, ordered[i], cost)
      OBVIOUS
    <3> HIDE DEF A, h, c
    <3> QED
      BY <3>1, <3>2, <3>3
  <2>4. k[{}] = base
    BY <2>2 DEF Folds
  <2> HIDE DEF A, base
  <2>5. k = [s \in SUBSET (1 .. n) |-> IF s = {} THEN base
                ELSE Taken(k[s \ {Max(s)}], ordered[Max(s)], cost)]
    BY <2>2, <2>3, <2>4
  <2> QED
    BY <2>2, <2>5
<1>6. Equation(chosen)
  <2> HIDE DEF Equation
  <2> QED
    BY <1>5
<1> HIDE DEF chosen
<1> DEFINE run == [i \in 0 .. n |-> chosen[1 .. i]]
<1>7. \A i \in 1 .. n : 1 .. i # {} /\ Max(1 .. i) = i /\ (1 .. i) \ {i} = 1 .. i - 1
  <2> SUFFICES ASSUME NEW i \in 1 .. n
               PROVE  1 .. i # {} /\ Max(1 .. i) = i /\ (1 .. i) \ {i} = 1 .. i - 1
    OBVIOUS
  <2>1. i \in Nat /\ i \in 1 .. i /\ 1 .. i # {}
    <3>1. n \in Nat
      BY <1>1
    <3>2. i \in Nat /\ 1 <= i
      BY <3>1
    <3>3. i \in 1 .. i
      BY <3>2
    <3> QED
      BY <3>2, <3>3
  <2>2. Max(1 .. i) \in 1 .. i /\ i <= Max(1 .. i)
    BY <2>1, Greatest
  <2> QED
    BY <1>1, <2>1, <2>2
<1>8. chosen[{}] = base
  BY <1>6
<1>9. \A i \in 1 .. n : chosen[1 .. i] = Taken(chosen[1 .. i - 1], ordered[i], cost)
  <2> SUFFICES ASSUME NEW i \in 1 .. n
               PROVE  chosen[1 .. i] = Taken(chosen[1 .. i - 1], ordered[i], cost)
    OBVIOUS
  <2>1. 1 .. i \in SUBSET (1 .. n)
    BY <1>1
  <2> DEFINE s == 1 .. i
  <2>2. s # {} /\ Max(s) = i /\ s \ {i} = 1 .. i - 1 /\ s \in SUBSET (1 .. n)
    BY <1>7, <2>1
  <2> HIDE DEF s, base
  <2>3. chosen[s] = Taken(chosen[s \ {Max(s)}], ordered[Max(s)], cost)
    BY <1>6, <2>2
  <2>4. chosen[s] = Taken(chosen[1 .. i - 1], ordered[i], cost)
    BY <2>2, <2>3
  <2> QED
    BY <2>4 DEF s
<1>10. run[0] = base
  BY <1>1, <1>8
<1>11. \A i \in 1 .. n : run[i] = Taken(run[i - 1], ordered[i], cost)
  BY <1>1, <1>9
<1>12. run[n] = chosen[1 .. n]
  BY <1>1
<1>13. \A i \in 0 .. n : run[i] \in A
  <2> DEFINE T == {i \in Nat : i <= n => run[i] \in A}
  <2>1. 0 \in T
    BY <1>1, <1>10
  <2>2. ASSUME NEW i \in Nat, i \in T
        PROVE  i + 1 \in T
    <3> HIDE DEF run, A
    <3>1. CASE i + 1 <= n
      <4>1. i + 1 \in 1 .. n /\ (i + 1) - 1 = i /\ i <= n
        BY <1>1, <3>1
      <4>2. run[i + 1] = Taken(run[i], ordered[i + 1], cost)
        BY <1>11, <4>1
      <4>3. run[i] \in A /\ ordered[i + 1] \in D
        BY <1>1, <2>2, <4>1
      <4> QED
        BY <1>3, <4>2, <4>3
    <3> QED
      BY <3>1
  <2>3. Nat \subseteq T
    <3> HIDE DEF T
    <3> QED
      BY <2>1, <2>2, Induction
  <2> HIDE DEF run, A
  <2> QED
    BY <1>1, <2>3
<1>14. run \in [0 .. n -> A]
  BY <1>13
<1> HIDE DEF run
<1> QED
  BY <1>2, <1>10, <1>11, <1>12, <1>14

\* What fits is kept: within the budget, and nothing is left out that would fit
\* beside what was kept before it; what costs no more than an earlier candidate
\* is kept only if that one is.
LEMMA PackingFits ==
    ASSUME NEW D, NEW n, NEW ordered, NEW cost, NEW budget,
           Candidates(D, n, ordered, cost, budget),
           NEW kept, kept = GreedyPack(ordered, cost, budget)
    PROVE  /\ kept \subseteq {ordered[i] : i \in 1 .. n}
           /\ SumOver(cost, kept) <= budget
           /\ \A p \in 1 .. n : ordered[p] \notin kept =>
                 /\ SumOver(cost, kept \cap {ordered[i] : i \in 1 .. p - 1})
                       + cost[ordered[p]] > budget
                 /\ SumOver(cost, kept) + cost[ordered[p]] > budget
           /\ \A p, q \in 1 .. n :
                 p < q /\ ordered[p] \notin kept /\ ordered[q] \in kept =>
                    cost[ordered[q]] < cost[ordered[p]]
<1>1. /\ n \in Nat /\ ordered \in [1 .. n -> D] /\ cost \in [D -> Nat] /\ budget \in Nat
      /\ \A i, j \in 1 .. n : ordered[i] = ordered[j] => i = j
  BY DEF Candidates
<1>2. PICK run \in [0 .. n -> [kept : SUBSET D, left : Nat]] :
              /\ run[0] = [kept |-> {}, left |-> budget]
              /\ \A i \in 1 .. n : run[i] = Taken(run[i - 1], ordered[i], cost)
              /\ GreedyPack(ordered, cost, budget) = run[n].kept
  BY PackRuns
<1> DEFINE K(i) == run[i].kept
           L(i) == run[i].left
           First(i) == {ordered[j] : j \in 1 .. i}
           Good(i) == /\ K(i) \subseteq First(i)
                      /\ IsFiniteSet(K(i))
                      /\ SumOver(cost, K(i)) + L(i) = budget
           Later(i, j) == L(j) <= L(i) /\ K(j) \cap First(i) = K(i)
<1>3. \A i \in 0 .. n : K(i) \in SUBSET D /\ L(i) \in Nat
  BY <1>2
<1>4. ASSUME NEW i \in Nat, i + 1 <= n
      PROVE  LET x == ordered[i + 1]
             IN  /\ x \in D /\ x \notin First(i) /\ First(i + 1) = First(i) \cup {x}
                 /\ i \in 0 .. n /\ i + 1 \in 1 .. n
                 /\ \/ /\ cost[x] <= L(i)
                       /\ K(i + 1) = K(i) \cup {x} /\ L(i + 1) = L(i) - cost[x]
                    \/ /\ ~(cost[x] <= L(i))
                       /\ K(i + 1) = K(i) /\ L(i + 1) = L(i)
  <2>1. i \in 0 .. n /\ i + 1 \in 1 .. n /\ (i + 1) - 1 = i
    BY <1>1, <1>4
  <2>2. ordered[i + 1] \in D
    BY <1>1, <2>1
  <2>3. ordered[i + 1] \notin First(i)
    <3>1. \A j \in 1 .. i : j \in 1 .. n /\ j # i + 1
      BY <1>1, <1>4
    <3> QED
      BY <1>1, <2>1, <3>1
  <2>4. First(i + 1) = First(i) \cup {ordered[i + 1]}
    <3>1. 1 .. i + 1 = (1 .. i) \cup {i + 1}
      BY <1>4
    <3> QED
      BY <3>1
  <2>5. run[i + 1] = Taken(run[i], ordered[i + 1], cost) /\ run[i] \in [kept : SUBSET D, left : Nat]
    BY <1>2, <2>1
  <2>6. CASE cost[ordered[i + 1]] <= L(i)
    <3>1. K(i + 1) = K(i) \cup {ordered[i + 1]} /\ L(i + 1) = L(i) - cost[ordered[i + 1]]
      BY <2>5, <2>6 DEF Taken
    <3> HIDE DEF K, L, First
    <3> QED
      BY <2>1, <2>2, <2>3, <2>4, <2>6, <3>1
  <2>7. CASE ~(cost[ordered[i + 1]] <= L(i))
    <3>1. K(i + 1) = K(i) /\ L(i + 1) = L(i)
      BY <2>5, <2>7 DEF Taken
    <3> HIDE DEF K, L, First
    <3> QED
      BY <2>1, <2>2, <2>3, <2>4, <2>7, <3>1
  <2> QED
    BY <2>6, <2>7
<1>5. K(0) = {} /\ L(0) = budget /\ First(0) = {}
  BY <1>2
<1> HIDE DEF K, L, First
<1>6. \A i \in 0 .. n : Good(i)
  <2> DEFINE T == {i \in Nat : i <= n => Good(i)}
  <2>1. 0 \in T
    <3>1. {} \in SUBSET D /\ IsFiniteSet({})
      BY FS_EmptySet
    <3>2. SumOver(cost, {}) = 0
      BY <1>1, <3>1, SumFacts
    <3>3. K(0) \subseteq First(0) /\ IsFiniteSet(K(0))
      BY <1>5, <3>1
    <3>4. SumOver(cost, K(0)) + L(0) = budget
      <4>1. SumOver(cost, K(0)) = 0
        BY <1>5, <3>2, Zenon
      <4> QED
        BY <1>1, <1>5, <4>1
    <3> QED
      BY <3>3, <3>4
  <2>2. ASSUME NEW i \in Nat, i \in T
        PROVE  i + 1 \in T
    <3> SUFFICES ASSUME i + 1 <= n
                 PROVE  Good(i + 1)
      OBVIOUS
    <3> DEFINE x == ordered[i + 1]
    <3>1. /\ x \in D /\ x \notin First(i) /\ First(i + 1) = First(i) \cup {x}
          /\ i \in 0 .. n /\ i + 1 \in 1 .. n
          /\ \/ /\ cost[x] <= L(i)
                /\ K(i + 1) = K(i) \cup {x} /\ L(i + 1) = L(i) - cost[x]
             \/ /\ ~(cost[x] <= L(i))
                /\ K(i + 1) = K(i) /\ L(i + 1) = L(i)
      BY <1>4
    <3>2. Good(i)
      BY <1>1, <2>2
    <3>3. K(i) \in SUBSET D /\ L(i) \in Nat /\ cost[x] \in Nat
      BY <1>1, <1>3, <3>1
    <3>4. SumOver(cost, K(i)) \in Nat
      BY <1>1, <3>2, <3>3, SumFacts
    <3>5. x \notin K(i)
      BY <3>1, <3>2
    <3> HIDE DEF x
    <3>6. SumOver(cost, K(i) \cup {x}) = cost[x] + SumOver(cost, K(i))
      <4>1. IsFiniteSet(K(i)) /\ x \in D /\ cost \in [D -> Nat]
        BY <1>1, <3>1, <3>2
      <4> QED
        BY <3>3, <3>5, <4>1, SumWithOneMore
    <3>7. IsFiniteSet(K(i) \cup {x})
      BY <3>2, FS_AddElement
    <3>8. CASE cost[x] <= L(i) /\ K(i + 1) = K(i) \cup {x} /\ L(i + 1) = L(i) - cost[x]
      <4>1. K(i + 1) \subseteq First(i + 1) /\ IsFiniteSet(K(i + 1))
        BY <3>1, <3>2, <3>7, <3>8
      <4>2. SumOver(cost, K(i + 1)) = cost[x] + SumOver(cost, K(i))
        BY <3>6, <3>8
      <4>3. SumOver(cost, K(i)) + L(i) = budget /\ L(i + 1) = L(i) - cost[x]
        BY <3>2, <3>8
      <4>4. SumOver(cost, K(i + 1)) + L(i + 1) = budget
        BY <1>1, <3>3, <3>4, <4>2, <4>3
      <4> QED
        BY <4>1, <4>4
    <3>9. CASE K(i + 1) = K(i) /\ L(i + 1) = L(i)
      BY <3>1, <3>2, <3>9
    <3> QED
      BY <3>1, <3>8, <3>9
  <2>3. Nat \subseteq T
    <3> HIDE DEF T
    <3> QED
      BY <2>1, <2>2, Induction
  <2> QED
    BY <1>1, <2>3
<1>7. \A j \in 0 .. n : \A i \in 0 .. j : Later(i, j)
  <2> DEFINE U(j) == \A i \in 0 .. j : Later(i, j)
             T == {j \in Nat : j <= n => U(j)}
  <2>0. ASSUME NEW i \in 0 .. n
        PROVE  Later(i, i)
    BY <1>3, <1>6
  <2>1. 0 \in T
    BY <1>1, <2>0
  <2>2. ASSUME NEW j \in Nat, j \in T
        PROVE  j + 1 \in T
    <3> SUFFICES ASSUME j + 1 <= n, NEW i \in 0 .. j + 1
                 PROVE  Later(i, j + 1)
      OBVIOUS
    <3>1. CASE i = j + 1
      BY <1>1, <2>0, <3>1
    <3>2. CASE i # j + 1
      <4> DEFINE x == ordered[j + 1]
      <4>1. /\ x \in D /\ x \notin First(j) /\ First(j + 1) = First(j) \cup {x}
            /\ j \in 0 .. n /\ j + 1 \in 1 .. n
            /\ \/ /\ cost[x] <= L(j)
                  /\ K(j + 1) = K(j) \cup {x} /\ L(j + 1) = L(j) - cost[x]
               \/ /\ ~(cost[x] <= L(j))
                  /\ K(j + 1) = K(j) /\ L(j + 1) = L(j)
        BY <1>4
      <4>2. i \in 0 .. j /\ i \in 0 .. n
        BY <1>1, <3>2
      <4>3. Later(i, j)
        BY <1>1, <2>2, <4>2
      <4>4. First(i) \subseteq First(j)
        BY <4>2 DEF First
      <4>5. L(i) \in Nat /\ L(j) \in Nat /\ cost[x] \in Nat
        BY <1>1, <1>3, <4>1, <4>2
      <4> HIDE DEF x
      <4> QED
        BY <4>1, <4>3, <4>4, <4>5
    <3> QED
      BY <3>1, <3>2
  <2>3. Nat \subseteq T
    <3> HIDE DEF T
    <3> QED
      BY <2>1, <2>2, Induction
  <2> HIDE DEF Later
  <2> QED
    BY <1>1, <2>3
<1>8. kept = K(n)
  BY <1>2 DEF K
<1>9. n \in 0 .. n
  BY <1>1
<1>10. ASSUME NEW p \in 1 .. n
       PROVE  /\ p - 1 \in 0 .. n /\ Later(p - 1, n) /\ Later(p, n)
              /\ ordered[p] \in kept => cost[ordered[p]] <= L(p - 1)
              /\ ordered[p] \notin kept => cost[ordered[p]] > L(p - 1)
  <2>1. p - 1 \in Nat /\ (p - 1) + 1 = p /\ p <= n /\ p - 1 \in 0 .. n /\ p \in 0 .. n
    BY <1>1
  <2> DEFINE x == ordered[p]
  <2>2. /\ x \in D /\ x \notin First(p - 1) /\ First(p) = First(p - 1) \cup {x}
        /\ \/ cost[x] <= L(p - 1) /\ K(p) = K(p - 1) \cup {x}
           \/ ~(cost[x] <= L(p - 1)) /\ K(p) = K(p - 1)
    BY <1>4, <2>1
  <2>3. Later(p - 1, n) /\ Later(p, n)
    BY <1>1, <1>7, <1>9, <2>1
  <2>4. K(p - 1) \subseteq First(p - 1)
    BY <1>6, <2>1
  <2>5. x \in kept <=> x \in K(p)
    BY <1>8, <2>2, <2>3
  <2>6. cost[x] \in Nat /\ L(p - 1) \in Nat
    BY <1>1, <1>3, <2>1, <2>2
  <2> HIDE DEF x, Later
  <2>7. x \in kept => cost[x] <= L(p - 1)
    BY <2>2, <2>4, <2>5
  <2>8. x \notin kept => cost[x] > L(p - 1)
    BY <2>2, <2>5, <2>6
  <2> QED
    BY <2>1, <2>3, <2>7, <2>8 DEF x
<1>11. kept \subseteq {ordered[i] : i \in 1 .. n}
  BY <1>6, <1>8, <1>9 DEF First
<1>12. SumOver(cost, kept) \in Nat /\ SumOver(cost, kept) + L(n) = budget /\ L(n) \in Nat
  <2>1. IsFiniteSet(K(n)) /\ K(n) \in SUBSET D
    BY <1>3, <1>6, <1>9
  <2> QED
    BY <1>1, <1>3, <1>6, <1>8, <1>9, <2>1, SumFacts
<1>13. ASSUME NEW p \in 1 .. n, ordered[p] \notin kept
       PROVE  /\ SumOver(cost, kept \cap {ordered[i] : i \in 1 .. p - 1})
                       + cost[ordered[p]] > budget
              /\ SumOver(cost, kept) + cost[ordered[p]] > budget
  <2>1. p - 1 \in 0 .. n /\ Later(p - 1, n) /\ cost[ordered[p]] > L(p - 1)
    BY <1>10, <1>13
  <2>2. kept \cap {ordered[i] : i \in 1 .. p - 1} = K(p - 1)
    BY <1>8, <2>1 DEF First
  <2>3. SumOver(cost, K(p - 1)) \in Nat /\ L(p - 1) \in Nat /\ cost[ordered[p]] \in Nat
    <3>1. IsFiniteSet(K(p - 1)) /\ K(p - 1) \in SUBSET D /\ L(p - 1) \in Nat
      BY <1>3, <1>6, <2>1
    <3>2. ordered[p] \in D
      BY <1>1
    <3> QED
      BY <1>1, <3>1, <3>2, SumFacts
  <2>4. SumOver(cost, K(p - 1)) + L(p - 1) = budget
    BY <1>6, <2>1
  <2>5. SumOver(cost, K(p - 1)) + cost[ordered[p]] > budget
    BY <1>1, <2>1, <2>3, <2>4
  <2>6. SumOver(cost, kept) + cost[ordered[p]] > budget
    <3>1. L(n) <= L(p - 1)
      BY <2>1
    <3> HIDE DEF Later
    <3> QED
      BY <1>1, <1>12, <2>1, <2>3, <3>1
  <2>7. SumOver(cost, kept \cap {ordered[i] : i \in 1 .. p - 1}) = SumOver(cost, K(p - 1))
    BY <2>2
  <2> QED
    BY <2>5, <2>6, <2>7
<1>14. ASSUME NEW p \in 1 .. n, NEW q \in 1 .. n, p < q, ordered[p] \notin kept,
              ordered[q] \in kept
       PROVE  cost[ordered[q]] < cost[ordered[p]]
  <2>1. cost[ordered[p]] > L(p - 1) /\ cost[ordered[q]] <= L(q - 1)
    BY <1>10, <1>14
  <2>2. p - 1 \in 0 .. q - 1 /\ q - 1 \in 0 .. n /\ p - 1 \in 0 .. n
    BY <1>1, <1>14
  <2>3. L(q - 1) <= L(p - 1)
    BY <1>7, <2>2
  <2>4. L(q - 1) \in Nat /\ L(p - 1) \in Nat
    BY <1>3, <2>2
  <2>5. cost[ordered[p]] \in Nat /\ cost[ordered[q]] \in Nat
    BY <1>1
  <2> QED
    BY <2>1, <2>3, <2>4, <2>5
<1>15. SumOver(cost, kept) <= budget
  BY <1>1, <1>12
<1> HIDE DEF Good, Later
<1> QED
  BY <1>11, <1>13, <1>14, <1>15

-----------------------------------------------------------------------------
(* Ordering.                                                               *)

StrictOrder(D, R) ==
    /\ \A i \in D : <<i, i>> \notin R
    /\ \A i, j \in D : i # j => <<i, j>> \in R \/ <<j, i>> \in R
    /\ \A i, j, k \in D : <<i, j>> \in R /\ <<j, k>> \in R => <<i, k>> \in R

Before(D, R, j) == {i \in D : <<i, j>> \in R}

\* To count what comes before an element gives every element a place of its own,
\* and leaves no place free.
LEMMA Places ==
    ASSUME NEW D, IsFiniteSet(D), NEW R, StrictOrder(D, R)
    PROVE  /\ \A j \in D : Cardinality(Before(D, R, j)) + 1 \in 1 .. Cardinality(D)
           /\ \A i, j \in D : <<i, j>> \in R <=>
                 Cardinality(Before(D, R, i)) < Cardinality(Before(D, R, j))
           /\ \A i, j \in D :
                 Cardinality(Before(D, R, i)) = Cardinality(Before(D, R, j)) => i = j
           /\ \A k \in 1 .. Cardinality(D) :
                 \E j \in D : Cardinality(Before(D, R, j)) + 1 = k
<1> DEFINE n == Cardinality(D)
           rank(j) == Cardinality(Before(D, R, j))
           f == [j \in D |-> rank(j) + 1]
<1>1. n \in Nat
  BY FS_CardinalityType
<1>2. ASSUME NEW j \in D
      PROVE  IsFiniteSet(Before(D, R, j)) /\ rank(j) \in Nat
  <2>1. Before(D, R, j) \in SUBSET D
    BY DEF Before
  <2> QED
    BY <2>1, FS_Subset, FS_CardinalityType
<1>3. ASSUME NEW j \in D
      PROVE  rank(j) + 1 \in 1 .. n
  <2>1. Before(D, R, j) \in SUBSET (D \ {j})
    BY DEF Before, StrictOrder
  <2>2. IsFiniteSet(D \ {j}) /\ Cardinality(D \ {j}) = n - 1
    BY FS_RemoveElement
  <2>3. rank(j) <= Cardinality(D \ {j})
    BY <2>1, <2>2, FS_Subset
  <2> HIDE DEF n, rank
  <2> QED
    BY <1>1, <1>2, <2>2, <2>3
<1>4. ASSUME NEW i \in D, NEW j \in D, <<i, j>> \in R
      PROVE  rank(i) < rank(j)
  <2>1. Before(D, R, i) \cup {i} \in SUBSET Before(D, R, j)
    BY <1>4 DEF Before, StrictOrder
  <2>2. i \notin Before(D, R, i)
    BY DEF Before, StrictOrder
  <2>3. Cardinality(Before(D, R, i) \cup {i}) = rank(i) + 1
    BY <1>2, <2>2, FS_AddElement
  <2>4. Cardinality(Before(D, R, i) \cup {i}) <= rank(j)
    BY <1>2, <2>1, FS_Subset
  <2> HIDE DEF rank
  <2> QED
    BY <1>2, <2>3, <2>4
<1> HIDE DEF rank
<1>5. \A i, j \in D : rank(i) = rank(j) => i = j
  <2> SUFFICES ASSUME NEW i \in D, NEW j \in D, i # j
               PROVE  rank(i) # rank(j)
    OBVIOUS
  <2>1. <<i, j>> \in R \/ <<j, i>> \in R
    BY DEF StrictOrder
  <2> QED
    BY <1>2, <1>4, <2>1
<1>6. \A i, j \in D : <<i, j>> \in R <=> rank(i) < rank(j)
  <2> SUFFICES ASSUME NEW i \in D, NEW j \in D, rank(i) < rank(j)
               PROVE  <<i, j>> \in R
    BY <1>4
  <2>1. i # j
    BY <1>2
  <2>2. ~(<<j, i>> \in R)
    BY <1>2, <1>4
  <2> QED
    BY <2>1, <2>2 DEF StrictOrder
<1>7. \A k \in 1 .. n : \E j \in D : rank(j) + 1 = k
  <2>1. f \in [D -> 1 .. n] /\ \A j \in D : f[j] = rank(j) + 1
    BY <1>3
  <2> HIDE DEF f
  <2>2. f \in Injection(D, 1 .. n)
    BY <1>2, <1>5, <2>1 DEF Injection, IsInjective
  <2>3. IsFiniteSet(1 .. n) /\ Cardinality(1 .. n) = n
    BY <1>1, FS_Interval
  <2>4. f \in Surjection(D, 1 .. n)
    BY <2>2, <2>3, FS_Injection
  <2> QED
    BY <2>1, <2>4 DEF Surjection
<1> QED
  BY <1>3, <1>5, <1>6, <1>7 DEF rank

\* Keys: fractions of naturals.
Fractions == [num : Nat, den : Nat \ {0}]

LEMMA TimesLeq ==
    ASSUME NEW a \in Nat, NEW b \in Nat, NEW c \in Nat, a <= b
    PROVE  a * c <= b * c
OBVIOUS

LEMMA TimesCancels ==
    ASSUME NEW a \in Nat, NEW b \in Nat, NEW c \in Nat \ {0}, a * c <= b * c
    PROVE  a <= b
OBVIOUS

LEMMA NotHigherIsTransitive ==
    ASSUME NEW x \in Fractions, NEW y \in Fractions, NEW z \in Fractions,
           ~Higher(x, y), ~Higher(y, z)
    PROVE  ~Higher(x, z)
<1> DEFINE a == x.num
           b == x.den
           c == y.num
           d == y.den
           e == z.num
           f == z.den
<1>1. /\ a \in Nat /\ b \in Nat \ {0} /\ c \in Nat /\ d \in Nat \ {0}
      /\ e \in Nat /\ f \in Nat \ {0}
  BY DEF Fractions
<1>2. ~(a * d > c * b) /\ ~(c * f > e * d)
  BY DEF Higher
<1>3. Higher(x, z) <=> a * f > e * b
  BY DEF Higher
<1> HIDE DEF a, b, c, d, e, f
<1>4. /\ a * d \in Nat /\ c * b \in Nat /\ c * f \in Nat /\ e * d \in Nat
      /\ a * f \in Nat /\ e * b \in Nat
  BY <1>1
<1>5. (a * d) * f <= (c * b) * f
  <2>1. a * d <= c * b
    BY <1>2, <1>4
  <2> QED
    BY <1>1, <1>4, <2>1, TimesLeq
<1>6. (c * f) * b <= (e * d) * b
  <2>1. c * f <= e * d
    BY <1>2, <1>4
  <2> QED
    BY <1>1, <1>4, <2>1, TimesLeq
<1>7. (a * d) * f = (a * f) * d /\ (c * b) * f = (c * f) * b /\ (e * d) * b = (e * b) * d
  BY <1>1
<1>8. (a * f) * d <= (e * b) * d
  <2>1. (a * d) * f \in Nat /\ (c * b) * f \in Nat /\ (e * d) * b \in Nat
    BY <1>1, <1>4
  <2> QED
    BY <1>5, <1>6, <1>7, <2>1
<1>9. a * f <= e * b
  BY <1>1, <1>4, <1>8, TimesCancels
<1> QED
  BY <1>3, <1>4, <1>9

LEMMA NotBothHigher ==
    ASSUME NEW x \in Fractions, NEW y \in Fractions, Higher(x, y)
    PROVE  ~Higher(y, x)
BY DEF Higher, Fractions

\* The i-th of the listed items comes before the j-th.
Precedes(items, key, i, j) ==
    \/ Higher(key[items[i]], key[items[j]])
    \/ ~Higher(key[items[j]], key[items[i]]) /\ i < j

Sortable(D, n, items, key) ==
    /\ n \in Nat
    /\ items \in [1 .. n -> D]
    /\ key \in [D -> Fractions]

Precedence(n, items, key) == {p \in (1 .. n) \X (1 .. n) : Precedes(items, key, p[1], p[2])}

LEMMA PrecedesIsStrict ==
    ASSUME NEW D, NEW n, NEW items, NEW key, Sortable(D, n, items, key)
    PROVE  StrictOrder(1 .. n, Precedence(n, items, key))
<1> DEFINE x(i) == key[items[i]]
           R == Precedence(n, items, key)
<1>1. n \in Nat /\ \A i \in 1 .. n : x(i) \in Fractions /\ i \in Nat
  BY DEF Sortable
<1>2. \A i, j \in 1 .. n : <<i, j>> \in R <=> Higher(x(i), x(j)) \/ (~Higher(x(j), x(i)) /\ i < j)
  BY DEF Precedence, Precedes
<1>3. \A i, j, k \in 1 .. n : ~Higher(x(i), x(j)) /\ ~Higher(x(j), x(k)) => ~Higher(x(i), x(k))
  BY <1>1, NotHigherIsTransitive
<1>4. \A i, j \in 1 .. n : Higher(x(i), x(j)) => ~Higher(x(j), x(i))
  BY <1>1, NotBothHigher
<1> HIDE DEF x, R
<1>5. \A i \in 1 .. n : <<i, i>> \notin R
  BY <1>1, <1>2, <1>4
<1>6. \A i, j \in 1 .. n : i # j => <<i, j>> \in R \/ <<j, i>> \in R
  BY <1>1, <1>2
<1>7. ASSUME NEW i \in 1 .. n, NEW j \in 1 .. n, NEW k \in 1 .. n,
             <<i, j>> \in R, <<j, k>> \in R
      PROVE  <<i, k>> \in R
  <2>1. Higher(x(i), x(j)) \/ (~Higher(x(j), x(i)) /\ i < j)
    BY <1>2, <1>7
  <2>2. Higher(x(j), x(k)) \/ (~Higher(x(k), x(j)) /\ j < k)
    BY <1>2, <1>7
  <2>3. ~Higher(x(j), x(i)) /\ ~Higher(x(k), x(j))
    BY <1>4, <2>1, <2>2
  <2>4. ~Higher(x(k), x(i))
    BY <1>3, <2>3
  <2>5. CASE Higher(x(i), x(k))
    BY <1>2, <2>5
  <2>6. CASE ~Higher(x(i), x(k))
    <3>1. ~Higher(x(i), x(j)) /\ ~Higher(x(j), x(k))
      BY <1>3, <2>3, <2>6
    <3>2. i < k
      BY <1>1, <2>1, <2>2, <3>1
    <3> QED
      BY <1>2, <2>4, <3>2
  <2> QED
    BY <2>5, <2>6
<1> QED
  BY <1>5, <1>6, <1>7 DEF StrictOrder, R

\* Sorting the items by their keys, p[k] is the one that comes to place k: each
\* item comes to one place, in the order of Precedes.
Sorts(p, n, items, key) ==
    /\ Ordered(items, key) = [k \in 1 .. n |-> items[p[k]]]
    /\ \A j \in 1 .. n : \E k \in 1 .. n : p[k] = j
    /\ \A k, l \in 1 .. n : p[k] = p[l] => k = l
    /\ \A k, l \in 1 .. n : k < l => Precedes(items, key, p[k], p[l])

\* Sorting arranges the items anew, each once, in the order of Precedes.
LEMMA OrderedFacts ==
    ASSUME NEW D, NEW n, NEW items, NEW key, Sortable(D, n, items, key)
    PROVE  \E p \in [1 .. n -> 1 .. n] : Sorts(p, n, items, key)
<1> DEFINE N == 1 .. n
           R == Precedence(n, items, key)
           rank(j) == Cardinality(Before(N, R, j))
           place(j) == 1 + Cardinality({i \in DOMAIN items :
                          \/ Higher(key[items[i]], key[items[j]])
                          \/ ~Higher(key[items[j]], key[items[i]]) /\ i < j})
           chosen(k) == CHOOSE j \in DOMAIN items : place(j) = k
           p == [k \in N |-> chosen(k)]
<1>1. n \in Nat /\ DOMAIN items = N
  BY DEF Sortable
<1>2. IsFiniteSet(N) /\ Cardinality(N) = n
  BY <1>1, FS_Interval
<1>3. StrictOrder(N, R)
  BY PrecedesIsStrict
<1>4. /\ \A j \in N : rank(j) + 1 \in N
      /\ \A i, j \in N : <<i, j>> \in R <=> rank(i) < rank(j)
      /\ \A i, j \in N : rank(i) = rank(j) => i = j
      /\ \A k \in N : \E j \in N : rank(j) + 1 = k
  <2> HIDE DEF R, N
  <2>1. /\ \A j \in N : rank(j) + 1 \in 1 .. Cardinality(N)
        /\ \A i, j \in N : <<i, j>> \in R <=> rank(i) < rank(j)
        /\ \A i, j \in N : rank(i) = rank(j) => i = j
        /\ \A k \in 1 .. Cardinality(N) : \E j \in N : rank(j) + 1 = k
    BY <1>2, <1>3, Places
  <2>2. 1 .. Cardinality(N) = N
    BY <1>2 DEF N
  <2> HIDE DEF rank
  <2> QED
    BY <2>1, <2>2
<1>5. \A j \in N : place(j) = 1 + rank(j)
  <2> SUFFICES ASSUME NEW j \in N
               PROVE  {i \in DOMAIN items :
                          \/ Higher(key[items[i]], key[items[j]])
                          \/ ~Higher(key[items[j]], key[items[i]]) /\ i < j} = Before(N, R, j)
    OBVIOUS
  <2> QED
    BY <1>1 DEF Before, Precedence, Precedes
<1>6. \A j \in N : rank(j) \in Nat
  <2> SUFFICES ASSUME NEW j \in N
               PROVE  rank(j) \in Nat
    OBVIOUS
  <2>1. Before(N, R, j) \in SUBSET N
    BY DEF Before
  <2> HIDE DEF N, R
  <2>2. IsFiniteSet(Before(N, R, j))
    BY <1>2, <2>1, FS_Subset
  <2> QED
    BY <2>2, FS_CardinalityType
<1>7. Ordered(items, key) = [k \in DOMAIN items |-> items[chosen(k)]]
  BY DEF Ordered
<1> HIDE DEF rank, place, N
<1>8. \A k \in N : chosen(k) \in N /\ rank(chosen(k)) + 1 = k
  <2> SUFFICES ASSUME NEW k \in N
               PROVE  chosen(k) \in N /\ rank(chosen(k)) + 1 = k
    OBVIOUS
  <2>1. \E j \in DOMAIN items : place(j) = k
    <3>1. PICK j \in N : rank(j) + 1 = k
      BY <1>4
    <3>2. place(j) = k
      BY <1>5, <1>6, <3>1
    <3> QED
      BY <1>1, <3>2
  <2>2. chosen(k) \in DOMAIN items /\ place(chosen(k)) = k
    BY <2>1
  <2> HIDE DEF chosen
  <2> QED
    BY <1>1, <1>5, <1>6, <2>2
<1> HIDE DEF chosen
<1>9. Ordered(items, key) = [k \in N |-> items[p[k]]]
  <2>1. \A k \in N : p[k] = chosen(k)
    OBVIOUS
  <2> QED
    BY <1>1, <1>7, <2>1
<1>10. p \in [N -> N] /\ \A k \in N : p[k] \in N /\ rank(p[k]) + 1 = k
  BY <1>8
<1> HIDE DEF p
<1>11. \A j \in N : \E k \in N : p[k] = j
  <2> SUFFICES ASSUME NEW j \in N
               PROVE  p[rank(j) + 1] = j
    BY <1>4
  <2>1. rank(j) + 1 \in N
    BY <1>4
  <2>2. p[rank(j) + 1] \in N /\ rank(p[rank(j) + 1]) + 1 = rank(j) + 1
    BY <1>10, <2>1
  <2>3. rank(p[rank(j) + 1]) = rank(j)
    BY <1>6, <2>2
  <2> QED
    BY <1>4, <2>2, <2>3
<1>12. \A k, l \in N : p[k] = p[l] => k = l
  BY <1>10
<1>13. ASSUME NEW k \in N, NEW l \in N, k < l
       PROVE  Precedes(items, key, p[k], p[l])
  <2>1. p[k] \in N /\ p[l] \in N /\ rank(p[k]) + 1 = k /\ rank(p[l]) + 1 = l
    BY <1>10
  <2>2. rank(p[k]) < rank(p[l])
    BY <1>6, <1>13, <2>1
  <2>3. <<p[k], p[l]>> \in R
    BY <1>4, <2>1, <2>2
  <2> QED
    BY <2>3 DEF Precedence
<1>14. Sorts(p, n, items, key)
  BY <1>9, <1>11, <1>12, <1>13 DEF N, Sorts
<1>15. p \in [1 .. n -> 1 .. n]
  BY <1>10 DEF N
<1> QED
  BY <1>14, <1>15

-----------------------------------------------------------------------------
(* Packing what has been ordered.                                          *)

\* items lists the candidates S, which have keys and costs.
Selectable(D, S, n, items, key, cost, budget) ==
    /\ n \in Nat /\ budget \in Nat
    /\ S \subseteq D /\ cost \in [D -> Nat]
    /\ items \in [1 .. n -> S]
    /\ \A i, j \in 1 .. n : items[i] = items[j] => i = j
    /\ \A x \in S : \E i \in 1 .. n : items[i] = x
    /\ key \in [S -> Fractions]

\* What is kept fits the budget, nothing that would fit beside it is left out, a
\* candidate is passed over for a lower one only if that costs less, and where all
\* keys differ from a candidate's, it is passed over only for higher ones.
LEMMA SelectionFacts ==
    ASSUME NEW D, NEW S, NEW n, NEW items, NEW key, NEW cost, NEW budget,
           Selectable(D, S, n, items, key, cost, budget),
           NEW kept, kept = GreedyPack(Ordered(items, key), cost, budget)
    PROVE  /\ kept \subseteq S
           /\ SumOver(cost, kept) <= budget
           /\ \A x \in S \ kept : SumOver(cost, kept) + cost[x] > budget
           /\ \A x \in S \ kept, y \in kept :
                 Higher(key[x], key[y]) => cost[y] < cost[x]
           /\ \A x \in S \ kept :
                 (\A y \in S \ {x} : Higher(key[x], key[y]) \/ Higher(key[y], key[x])) =>
                    SumOver(cost, {y \in kept : Higher(key[y], key[x])}) + cost[x] > budget
<1> DEFINE ordered == Ordered(items, key)
<1>1. /\ n \in Nat /\ budget \in Nat /\ S \subseteq D /\ cost \in [D -> Nat]
      /\ items \in [1 .. n -> S] /\ key \in [S -> Fractions]
      /\ \A i, j \in 1 .. n : items[i] = items[j] => i = j
      /\ \A x \in S : \E i \in 1 .. n : items[i] = x
  BY DEF Selectable
<1>sortable. Sortable(S, n, items, key)
  BY <1>1 DEF Sortable
<1>sorted. PICK p \in [1 .. n -> 1 .. n] : Sorts(p, n, items, key)
  BY <1>sortable, OrderedFacts
<1>2. /\ p \in [1 .. n -> 1 .. n]
      /\ ordered = [k \in 1 .. n |-> items[p[k]]]
      /\ \A j \in 1 .. n : \E k \in 1 .. n : p[k] = j
      /\ \A k, l \in 1 .. n : p[k] = p[l] => k = l
      /\ \A k, l \in 1 .. n : k < l => Precedes(items, key, p[k], p[l])
  BY <1>sorted DEF Sorts
<1> HIDE DEF ordered
<1>3. ordered \in [1 .. n -> S] /\ \A k \in 1 .. n : p[k] \in 1 .. n /\ ordered[k] = items[p[k]]
  BY <1>1, <1>2
<1>4. \A k, l \in 1 .. n : ordered[k] = ordered[l] => k = l
  BY <1>1, <1>2, <1>3
<1>5. \A x \in S : \E k \in 1 .. n : ordered[k] = x
  <2> SUFFICES ASSUME NEW x \in S
               PROVE  \E k \in 1 .. n : ordered[k] = x
    OBVIOUS
  <2>1. PICK i \in 1 .. n : items[i] = x
    BY <1>1
  <2>2. PICK k \in 1 .. n : p[k] = i
    BY <1>2
  <2> QED
    BY <1>3, <2>1, <2>2
<1>6. \A k, l \in 1 .. n : k < l => ~Higher(key[ordered[l]], key[ordered[k]])
  <2> SUFFICES ASSUME NEW k \in 1 .. n, NEW l \in 1 .. n, k < l
               PROVE  ~Higher(key[ordered[l]], key[ordered[k]])
    OBVIOUS
  <2>1. Precedes(items, key, p[k], p[l])
    BY <1>2
  <2>2. key[ordered[k]] \in Fractions /\ key[ordered[l]] \in Fractions
    BY <1>1, <1>3
  <2> QED
    BY <1>3, <2>1, <2>2, NotBothHigher DEF Precedes
<1>7. \A k, l \in 1 .. n : Higher(key[ordered[k]], key[ordered[l]]) => k < l
  <2> SUFFICES ASSUME NEW k \in 1 .. n, NEW l \in 1 .. n, Higher(key[ordered[k]], key[ordered[l]])
               PROVE  k < l
    OBVIOUS
  <2>1. key[ordered[k]] \in Fractions /\ key[ordered[l]] \in Fractions
    BY <1>1, <1>3
  <2>2. ~Higher(key[ordered[l]], key[ordered[k]])
    BY <2>1, NotBothHigher
  <2>3. k # l
    BY <2>2
  <2>4. ~(l < k)
    BY <1>6
  <2> QED
    BY <1>1, <2>3, <2>4
<1>8. Candidates(D, n, ordered, cost, budget)
  BY <1>1, <1>3, <1>4 DEF Candidates
<1>9. /\ kept \subseteq {ordered[i] : i \in 1 .. n}
      /\ SumOver(cost, kept) <= budget
      /\ \A k \in 1 .. n : ordered[k] \notin kept =>
            /\ SumOver(cost, kept \cap {ordered[i] : i \in 1 .. k - 1})
                  + cost[ordered[k]] > budget
            /\ SumOver(cost, kept) + cost[ordered[k]] > budget
      /\ \A k, l \in 1 .. n :
            k < l /\ ordered[k] \notin kept /\ ordered[l] \in kept =>
               cost[ordered[l]] < cost[ordered[k]]
  <2>1. kept = GreedyPack(ordered, cost, budget)
    BY DEF ordered
  <2> QED
    BY <1>8, <2>1, PackingFits
<1>10. kept \subseteq S
  BY <1>3, <1>9
<1>11. ASSUME NEW x \in S \ kept
       PROVE  SumOver(cost, kept) + cost[x] > budget
  <2>1. PICK k \in 1 .. n : ordered[k] = x
    BY <1>5
  <2> QED
    BY <1>9, <2>1
<1>12. ASSUME NEW x \in S \ kept, NEW y \in kept, Higher(key[x], key[y])
       PROVE  cost[y] < cost[x]
  <2>1. PICK k \in 1 .. n : ordered[k] = x
    BY <1>5
  <2>2. PICK l \in 1 .. n : ordered[l] = y
    BY <1>5, <1>10
  <2>3. k < l
    BY <1>7, <1>12, <2>1, <2>2
  <2> QED
    BY <1>9, <2>1, <2>2, <2>3
<1>13. ASSUME NEW x \in S \ kept,
              \A y \in S \ {x} : Higher(key[x], key[y]) \/ Higher(key[y], key[x])
       PROVE  SumOver(cost, {y \in kept : Higher(key[y], key[x])}) + cost[x] > budget
  <2>1. PICK k \in 1 .. n : ordered[k] = x
    BY <1>5
  <2>2. {y \in kept : Higher(key[y], key[x])} \subseteq kept \cap {ordered[i] : i \in 1 .. k - 1}
    <3> SUFFICES ASSUME NEW y \in kept, Higher(key[y], key[x])
                 PROVE  y \in {ordered[i] : i \in 1 .. k - 1}
      OBVIOUS
    <3>1. PICK i \in 1 .. n : ordered[i] = y
      BY <1>5, <1>10
    <3>2. i < k
      BY <1>7, <2>1, <3>1
    <3>3. i \in 1 .. k - 1
      BY <1>1, <3>2
    <3> QED
      BY <3>1, <3>3
  <2>3. kept \cap {ordered[i] : i \in 1 .. k - 1} \subseteq {y \in kept : Higher(key[y], key[x])}
    <3> SUFFICES ASSUME NEW i \in 1 .. k - 1, ordered[i] \in kept
                 PROVE  Higher(key[ordered[i]], key[x])
      OBVIOUS
    <3>1. i \in 1 .. n /\ i < k /\ i # k
      BY <1>1
    <3>2. ordered[i] \in S \ {x}
      BY <1>3, <1>4, <2>1, <3>1
    <3>3. ~Higher(key[x], key[ordered[i]])
      BY <1>6, <2>1, <3>1
    <3> QED
      BY <1>13, <3>2, <3>3
  <2>4. {y \in kept : Higher(key[y], key[x])} = kept \cap {ordered[i] : i \in 1 .. k - 1}
    BY <2>2, <2>3
  <2>5. SumOver(cost, kept \cap {ordered[i] : i \in 1 .. k - 1}) + cost[ordered[k]] > budget
    BY <1>9, <2>1
  <2>6. SumOver(cost, {y \in kept : Higher(key[y], key[x])})
           = SumOver(cost, kept \cap {ordered[i] : i \in 1 .. k - 1})
    BY <2>4, Zenon
  <2> QED
    BY <2>1, <2>5, <2>6
<1> QED
  BY <1>9, <1>10, <1>11, <1>12, <1>13

-----------------------------------------------------------------------------
(* Normalizing.                                                            *)

\* A finite set of numbers has a greatest one, too.
LEMMA FiniteHasGreatest ==
    ASSUME NEW S \in SUBSET Nat, IsFiniteSet(S), S # {}
    PROVE  \E x \in S : \A y \in S : y <= x
<1> DEFINE Has(n) == \A s \in SUBSET S : Cardinality(s) = n + 1 =>
                        \E x \in s : \A y \in s : y <= x
           T == {n \in Nat : Has(n)}
<1>1. \A s \in SUBSET S : IsFiniteSet(s) /\ Cardinality(s) \in Nat
  BY FS_Subset, FS_CardinalityType
<1>2. Has(0)
  <2> SUFFICES ASSUME NEW s \in SUBSET S, Cardinality(s) = 0 + 1
               PROVE  \E x \in s : \A y \in s : y <= x
    OBVIOUS
  <2>1. Cardinality(s) = 1
    OBVIOUS
  <2>2. PICK x : s = {x}
    BY <1>1, <2>1, FS_Singleton
  <2> QED
    BY <2>2
<1>3. ASSUME NEW n \in Nat, Has(n)
      PROVE  Has(n + 1)
  <2> SUFFICES ASSUME NEW s \in SUBSET S, Cardinality(s) = (n + 1) + 1
               PROVE  \E x \in s : \A y \in s : y <= x
    OBVIOUS
  <2>1. PICK z \in s : TRUE
    <3>1. s # {}
      BY FS_EmptySet
    <3> QED
      BY <3>1
  <2>2. Cardinality(s \ {z}) = n + 1
    <3>1. Cardinality(s \ {z}) = Cardinality(s) - 1
      BY <1>1, FS_RemoveElement
    <3> QED
      BY <3>1
  <2>3. PICK x \in s \ {z} : \A y \in s \ {z} : y <= x
    BY <1>3, <2>2
  <2>4. x \in Nat /\ z \in Nat
    OBVIOUS
  <2>5. CASE z <= x
    BY <2>3, <2>5
  <2>6. CASE ~(z <= x)
    <3>1. \A y \in s : y <= z
      BY <2>3, <2>4, <2>6
    <3> QED
      BY <3>1
  <2> QED
    BY <2>5, <2>6
<1>4. Nat \subseteq T
  <2> HIDE DEF Has
  <2>1. 0 \in T /\ \A n \in Nat : n \in T => n + 1 \in T
    BY <1>2, <1>3
  <2> HIDE DEF T
  <2> QED
    BY <2>1, Induction
<1>5. Cardinality(S) \in Nat /\ Cardinality(S) # 0
  BY <1>1, FS_EmptySet
<1>6. Cardinality(S) - 1 \in Nat /\ (Cardinality(S) - 1) + 1 = Cardinality(S)
  BY <1>5
<1>7. Has(Cardinality(S) - 1)
  BY <1>4, <1>6
<1> QED
  BY <1>6, <1>7

\* Normalizing keeps the order, in one unit for all of the set.
LEMMA NormalizedFacts ==
    ASSUME NEW S \in SUBSET Nat, IsFiniteSet(S), S # {}
    PROVE  \E d \in Nat \ {0} :
              /\ \A v \in S : Normalized(v, S).den = d /\ Normalized(v, S).num \in Nat
              /\ \A v, w \in S : v < w => Normalized(v, S).num < Normalized(w, S).num
<1> DEFINE lo == Min(S)
           hi == Max(S)
<1>1. lo \in S /\ \A y \in S : lo <= y
  <2>1. \E x \in S : \A y \in S : x <= y
    BY Least
  <2> QED
    BY <2>1 DEF Min
<1>2. hi \in S /\ \A y \in S : y <= hi
  <2>1. \E x \in S : \A y \in S : x >= y
    BY FiniteHasGreatest
  <2>2. hi \in S /\ \A y \in S : hi >= y
    BY <2>1 DEF Max
  <2> QED
    BY <2>2
<1>3. \A v \in S : Normalized(v, S) = IF lo = hi THEN Fraction(1, 1) ELSE Fraction(v - lo, hi - lo)
  BY DEF Normalized
<1> HIDE DEF lo, hi
<1>4. lo \in Nat /\ hi \in Nat /\ lo <= hi
  BY <1>1, <1>2
<1>5. CASE lo = hi
  <2>1. \A v \in S : Normalized(v, S).den = 1 /\ Normalized(v, S).num = 1
    BY <1>3, <1>5 DEF Fraction
  <2>2. \A v, w \in S : ~(v < w)
    <3> SUFFICES ASSUME NEW v \in S, NEW w \in S
                 PROVE  ~(v < w)
      OBVIOUS
    <3>1. lo <= v /\ v <= hi /\ lo <= w /\ w <= hi /\ v \in Nat /\ w \in Nat
      BY <1>1, <1>2
    <3> QED
      BY <1>4, <1>5, <3>1
  <2> QED
    BY <2>1, <2>2
<1>6. CASE lo # hi
  <2>1. hi - lo \in Nat \ {0}
    BY <1>4, <1>6
  <2>2. \A v \in S : Normalized(v, S).den = hi - lo /\ Normalized(v, S).num = v - lo
    BY <1>3, <1>6 DEF Fraction
  <2>3. \A v \in S : v \in Nat /\ v - lo \in Nat
    BY <1>1, <1>4
  <2>4. \A v, w \in S : v < w => v - lo < w - lo
    BY <1>4, <2>3
  <2> QED
    BY <2>1, <2>2, <2>3, <2>4
<1> QED
  BY <1>5, <1>6
=============================================================================
