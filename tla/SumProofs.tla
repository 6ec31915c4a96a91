------------------------------ MODULE SumProofs ------------------------------
(***************************************************************************)
(* Lemmas about sums over finite sets and about powers of two, for proofs  *)
(* about totals and measures.                                              *)
(*                                                                         *)
(* What a fold computes is a statement about data, to be shown by          *)
(* induction; here by a smallest counterexample, which exists because the  *)
(* subsets of a finite set are well-founded.                               *)
(***************************************************************************)
EXTENDS FiniteSetsExt, FiniteSetTheorems, TLAPS

\* The sum of e over S.
Total(e, S) == MapThenSumSet(LAMBDA a : e[a], S)

\* f is the sum of e over each subset of S, whichever element is taken first.
IsSum(f, e, S) ==
    /\ f \in [SUBSET S -> Nat]
    /\ f[{}] = 0
    /\ \A s \in SUBSET S : \A x \in s : f[s] = e[x] + f[s \ {x}]

\* Among subsets of a finite set there is one that contains no other.
LEMMA MinimalSubset ==
    ASSUME NEW S, IsFiniteSet(S), NEW T \in SUBSET (SUBSET S), T # {}
    PROVE  \E m \in T : \A s \in T : s \subseteq m => s = m
<1>1. IsWellFoundedOn(StrictSubsetOrdering(S), SUBSET S)
  BY FS_StrictSubsetOrderingWellFounded, FS_FiniteSubsetsOfFinite
<1>2. PICK m \in T : \A s \in T : ~(<<s, m>> \in StrictSubsetOrdering(S)) BY <1>1, WFMin
<1>3. \A s \in T : s \subseteq m => s = m BY <1>2 DEF StrictSubsetOrdering
<1> QED BY <1>3

LEMMA SumExists ==
    ASSUME NEW S, IsFiniteSet(S), NEW e \in [S -> Nat] PROVE \E f : IsSum(f, e, S)
<1> DEFINE Bad == {U \in SUBSET S : ~\E f : IsSum(f, e, U)}
<1> SUFFICES Bad = {} OBVIOUS
<1> SUFFICES ASSUME Bad # {} PROVE FALSE OBVIOUS
<1>1. PICK U \in Bad : \A s \in Bad : s \subseteq U => s = U
  <2>1. Bad \in SUBSET (SUBSET S) OBVIOUS
  <2> HIDE DEF Bad
  <2> QED BY <2>1, MinimalSubset
<1>2. CASE U = {}
  <2>1. IsSum([s \in SUBSET U |-> 0], e, U) BY <1>2 DEF IsSum
  <2> QED BY <2>1
<1>3. CASE U # {}
  <2>1. PICK x \in U : TRUE BY <1>3
  <2>2. U \ {x} \notin Bad BY <1>1, <2>1
  <2>3. PICK g : IsSum(g, e, U \ {x}) BY <2>2
  <2> DEFINE f == [s \in SUBSET U |-> g[s \ {x}] + IF x \in s THEN e[x] ELSE 0]
  <2>4. \A s \in SUBSET U : s \ {x} \in SUBSET (U \ {x}) /\ g[s \ {x}] \in Nat
    BY <2>3 DEF IsSum
  <2>5. x \in S /\ e[x] \in Nat BY <2>1
  <2>6. f \in [SUBSET U -> Nat] BY <2>4, <2>5
  <2>7. f[{}] = 0
    <3>1. {} \ {x} = {} OBVIOUS
    <3> QED BY <2>3, <3>1 DEF IsSum
  <2>8. ASSUME NEW s \in SUBSET U, NEW y \in s PROVE f[s] = e[y] + f[s \ {y}]
    <3>1. f[s] = g[s \ {x}] + IF x \in s THEN e[x] ELSE 0 OBVIOUS
    <3>2. f[s \ {y}] = g[(s \ {y}) \ {x}] + IF x \in s \ {y} THEN e[x] ELSE 0 OBVIOUS
    <3>3. s \ {x} \in SUBSET (U \ {x}) /\ s \ {y} \in SUBSET U OBVIOUS
    <3>4. e[y] \in Nat OBVIOUS
    <3> HIDE DEF f
    <3>5. CASE y = x
      <4>1. (s \ {y}) \ {x} = s \ {x} /\ x \in s /\ x \notin s \ {y} BY <3>5
      <4>2. g[s \ {x}] \in Nat BY <2>4
      <4> QED BY <2>5, <3>1, <3>2, <3>5, <4>1, <4>2
    <3>6. CASE y # x
      <4>1. g[s \ {x}] = e[y] + g[(s \ {x}) \ {y}] BY <2>3, <3>3, <3>6 DEF IsSum
      <4>2. (s \ {x}) \ {y} = (s \ {y}) \ {x} OBVIOUS
      <4>3. x \in s \ {y} <=> x \in s BY <3>6
      <4>4. g[(s \ {y}) \ {x}] \in Nat BY <2>4, <3>3
      <4>5. g[s \ {x}] = e[y] + g[(s \ {y}) \ {x}] BY <4>1, <4>2
      <4>6. CASE x \in s BY <2>5, <3>1, <3>2, <3>4, <4>3, <4>4, <4>5, <4>6
      <4>7. CASE x \notin s BY <3>1, <3>2, <3>4, <4>3, <4>4, <4>5, <4>7
      <4> QED BY <4>6, <4>7
    <3> QED BY <3>5, <3>6
  <2>9. IsSum(f, e, U) BY <2>6, <2>7, <2>8 DEF IsSum
  <2> QED BY <2>9
<1> QED BY <1>2, <1>3

\* The fold computes that sum.
LEMMA TotalIsSum ==
    ASSUME NEW S, IsFiniteSet(S), NEW e \in [S -> Nat], NEW f, IsSum(f, e, S)
    PROVE  Total(e, S) = f[S]
<1> DEFINE Eq(g) == g = [s \in SUBSET S |->
                            IF s = {} THEN 0
                            ELSE e[CHOOSE x \in s : TRUE] + g[s \ {CHOOSE x \in s : TRUE}]]
           g == CHOOSE h : Eq(h)
<1>1. Total(e, S) = g[S] BY DEF Total, MapThenSumSet, MapThenFoldSet
<1>2. \A s \in SUBSET S : s # {} => (CHOOSE x \in s : TRUE) \in s OBVIOUS
<1>3. Eq(f)
  <2>1. \A s \in SUBSET S :
          f[s] = IF s = {} THEN 0
                 ELSE e[CHOOSE x \in s : TRUE] + f[s \ {CHOOSE x \in s : TRUE}]
    BY <1>2 DEF IsSum
  <2>2. f = [s \in SUBSET S |-> f[s]] BY DEF IsSum
  <2> QED BY <2>1, <2>2
<1>4. Eq(g)
  <2> HIDE DEF Eq
  <2> QED BY <1>3
<1> DEFINE Bad == {s \in SUBSET S : g[s] # f[s]}
<1>5. Bad = {}
  <2> SUFFICES ASSUME Bad # {} PROVE FALSE OBVIOUS
  <2>1. PICK s \in Bad : \A t \in Bad : t \subseteq s => t = s
    <3>1. Bad \in SUBSET (SUBSET S) OBVIOUS
    <3> HIDE DEF Bad
    <3> QED BY <3>1, MinimalSubset
  <2> HIDE DEF g
  <2>2. s # {}
    <3>1. g[{}] = 0 BY <1>4
    <3> QED BY <2>1, <3>1 DEF IsSum
  <2> DEFINE x == CHOOSE y \in s : TRUE
  <2>3. x \in s BY <2>2
  <2>4. g[s] = e[x] + g[s \ {x}] BY <1>4, <2>1, <2>2
  <2>5. f[s] = e[x] + f[s \ {x}] BY <2>1, <2>3 DEF IsSum
  <2>6. s \ {x} \notin Bad BY <2>1, <2>3
  <2> QED BY <2>1, <2>4, <2>5, <2>6
<1> QED BY <1>1, <1>5

-----------------------------------------------------------------------------

LEMMA TotalType ==
    ASSUME NEW S, IsFiniteSet(S), NEW e \in [S -> Nat] PROVE Total(e, S) \in Nat
<1>1. PICK f : IsSum(f, e, S) BY SumExists
<1>2. f[S] \in Nat BY <1>1 DEF IsSum
<1> QED BY <1>1, <1>2, TotalIsSum

LEMMA TotalZero ==
    ASSUME NEW S, IsFiniteSet(S), NEW e \in [S -> Nat], \A x \in S : e[x] = 0
    PROVE  Total(e, S) = 0
<1> DEFINE f == [s \in SUBSET S |-> 0]
<1>1. IsSum(f, e, S) BY DEF IsSum
<1>2. f[S] = 0 OBVIOUS
<1> HIDE DEF f
<1> QED BY <1>1, <1>2, TotalIsSum

\* Twice the values, and n more in one place.
LEMMA TotalDoubled ==
    ASSUME NEW S, IsFiniteSet(S), NEW e \in [S -> Nat], NEW d \in [S -> Nat],
           NEW c \in S, NEW n \in Nat,
           \A x \in S : d[x] = 2 * e[x] + IF x = c THEN n ELSE 0
    PROVE  Total(d, S) = 2 * Total(e, S) + n
<1>1. PICK f : IsSum(f, e, S) BY SumExists
<1> DEFINE h == [s \in SUBSET S |-> 2 * f[s] + IF c \in s THEN n ELSE 0]
<1>2. h \in [SUBSET S -> Nat] BY <1>1 DEF IsSum
<1>3. h[{}] = 0 BY <1>1 DEF IsSum
<1>4. ASSUME NEW s \in SUBSET S, NEW x \in s PROVE h[s] = d[x] + h[s \ {x}]
  <2>1. f[s] = e[x] + f[s \ {x}] /\ f[s \ {x}] \in Nat /\ e[x] \in Nat BY <1>1 DEF IsSum
  <2>2. c \in s \ {x} <=> c \in s /\ x # c OBVIOUS
  <2>3. h[s] = 2 * f[s] + IF c \in s THEN n ELSE 0 OBVIOUS
  <2>4. h[s \ {x}] = 2 * f[s \ {x}] + IF c \in s \ {x} THEN n ELSE 0 OBVIOUS
  <2>5. d[x] = 2 * e[x] + IF x = c THEN n ELSE 0 OBVIOUS
  <2> HIDE DEF h
  <2>6. CASE x = c BY <2>1, <2>2, <2>3, <2>4, <2>5, <2>6
  <2>7. CASE x # c BY <2>1, <2>2, <2>3, <2>4, <2>5, <2>7
  <2> QED BY <2>6, <2>7
<1>5. IsSum(h, d, S) BY <1>2, <1>3, <1>4 DEF IsSum
<1>6. h[S] = 2 * f[S] + n OBVIOUS
<1> HIDE DEF h
<1> QED BY <1>1, <1>5, <1>6, TotalIsSum

\* One value changed.
LEMMA TotalChanged ==
    ASSUME NEW S, IsFiniteSet(S), NEW e \in [S -> Nat], NEW d \in [S -> Nat], NEW c \in S,
           \A x \in S \ {c} : d[x] = e[x]
    PROVE  Total(d, S) + e[c] = Total(e, S) + d[c]
<1>1. PICK f : IsSum(f, e, S) BY SumExists
<1>2. PICK g : IsSum(g, d, S) BY SumExists
<1> DEFINE Bad == {s \in SUBSET (S \ {c}) : g[s] # f[s]}
<1>3. Bad = {}
  <2> SUFFICES ASSUME Bad # {} PROVE FALSE OBVIOUS
  <2>1. PICK s \in Bad : \A t \in Bad : t \subseteq s => t = s
    <3>1. Bad \in SUBSET (SUBSET S) OBVIOUS
    <3> HIDE DEF Bad
    <3> QED BY <3>1, MinimalSubset
  <2>2. s # {} BY <1>1, <1>2, <2>1 DEF IsSum
  <2>3. PICK x \in s : TRUE BY <2>2
  <2>4. g[s] = d[x] + g[s \ {x}] /\ f[s] = e[x] + f[s \ {x}] BY <1>1, <1>2, <2>1, <2>3 DEF IsSum
  <2>5. d[x] = e[x] BY <2>1, <2>3
  <2>6. s \ {x} \notin Bad BY <2>1, <2>3
  <2> QED BY <2>1, <2>4, <2>5, <2>6
<1>4. g[S \ {c}] = f[S \ {c}] BY <1>3
<1>5. f[S] = e[c] + f[S \ {c}] /\ g[S] = d[c] + g[S \ {c}] BY <1>1, <1>2 DEF IsSum
<1>6. f[S \ {c}] \in Nat BY <1>1 DEF IsSum
<1> QED BY <1>1, <1>2, <1>4, <1>5, <1>6, TotalIsSum

-----------------------------------------------------------------------------
(* Powers of two, from the number of subsets of an interval.               *)

LEMMA PowerOfTwo ==
    ASSUME NEW n \in Nat PROVE 2 ^ n \in Nat /\ 2 ^ n >= 1 /\ 2 ^ (n + 1) = 2 * 2 ^ n
<1> DEFINE S == 1 .. n
           S1 == 1 .. (n + 1)
           Old == SUBSET S
           New == {T \union {n + 1} : T \in SUBSET S}
<1>1. IsFiniteSet(S) /\ Cardinality(S) = n
  <2>1. IsFiniteSet(S) /\ Cardinality(S) = IF 1 > n THEN 0 ELSE n - 1 + 1 BY FS_Interval
  <2> QED BY <2>1
<1>2. IsFiniteSet(S1) /\ Cardinality(S1) = n + 1
  <2>1. IsFiniteSet(S1) /\ Cardinality(S1) = IF 1 > n + 1 THEN 0 ELSE (n + 1) - 1 + 1 BY FS_Interval
  <2> QED BY <2>1
<1>3. S1 = S \union {n + 1} /\ n + 1 \notin S OBVIOUS
<1> DEFINE m == n + 1
<1> HIDE DEF S, S1, m
<1>4. IsFiniteSet(Old) /\ Cardinality(Old) = 2 ^ n BY <1>1, FS_SUBSET
<1>5. IsFiniteSet(SUBSET S1) /\ Cardinality(SUBSET S1) = 2 ^ (n + 1) BY <1>2, FS_SUBSET
<1>6. IsFiniteSet(New) /\ Cardinality(New) = Cardinality(Old)
  <2> DEFINE g == [T \in Old |-> T \union {n + 1}]
  <2>1. \A T, U \in Old : T \union {n + 1} = U \union {n + 1} => T = U
    <3>1. \A T \in Old : (T \union {n + 1}) \ {n + 1} = T BY <1>3
    <3> QED BY <3>1
  <2>2. g \in [Old -> New] OBVIOUS
  <2>3. g \in Injection(Old, New) BY <2>1, <2>2 DEF Injection, IsInjective
  <2>4. \A U \in New : \E T \in Old : g[T] = U OBVIOUS
  <2>5. g \in Surjection(Old, New) BY <2>2, <2>4 DEF Surjection
  <2>6. ExistsBijection(Old, New) BY <2>3, <2>5 DEF ExistsBijection, Bijection
  <2> QED BY <1>4, <2>6, FS_Bijection
<1>7. SUBSET S1 = Old \union New
  <2>1. ASSUME NEW U \in SUBSET S1 PROVE U \in Old \union New
    <3>1. CASE n + 1 \in U
      <4>1. U = (U \ {n + 1}) \union {n + 1} BY <3>1
      <4>2. U \ {n + 1} \in SUBSET S BY <1>3
      <4> QED BY <4>1, <4>2
    <3>2. CASE n + 1 \notin U BY <1>3, <3>2
    <3> QED BY <3>1, <3>2
  <2>2. ASSUME NEW U \in Old \union New PROVE U \in SUBSET S1 BY <1>3
  <2> QED BY <2>1, <2>2
<1>8. Old \intersect New = {} BY <1>3
<1>9. Cardinality(Old) \in Nat BY <1>4, FS_CardinalityType
<1>10. Cardinality(SUBSET S1) = Cardinality(Old) + Cardinality(New) - 0
  <2> HIDE DEF Old, New
  <2> QED BY <1>4, <1>6, <1>7, <1>8, FS_Union, FS_EmptySet
<1>11. Cardinality(Old) # 0 BY <1>4, FS_EmptySet
<1> HIDE DEF Old, New
<1> QED BY <1>4, <1>5, <1>6, <1>9, <1>10, <1>11
=============================================================================
