---------------------------- MODULE SumTheorems ----------------------------
(***************************************************************************)
(* Sums over finite sets: what MapThenSumSet of the community modules      *)
(* computes.  Its recursion takes the elements of the set in an order of   *)
(* its own; these lemmas say that the order does not matter.               *)
(***************************************************************************)
EXTENDS Integers, FiniteSetsExt, FiniteSetTheorems, WellFoundedInduction, TLAPS

\* The sum of w[x] over the elements x of S.
SumOver(w, S) == MapThenSumSet(LAMBDA x : w[x], S)

(***************************************************************************)
(* Induction, over sets instead of predicates.                             *)
(***************************************************************************)
LEMMA NatSetInduction ==
    ASSUME NEW T \in SUBSET Nat, 0 \in T, \A n \in T : n + 1 \in T
    PROVE  T = Nat
  <1> DEFINE U == Nat \ T
  <1> SUFFICES ASSUME U # {} PROVE FALSE
    OBVIOUS
  <1>1. PICK m \in U : \A y \in U : <<y, m>> \notin OpToRel(<, Nat)
    <2> U \subseteq Nat
      OBVIOUS
    <2> HIDE DEF U
    <2> QED BY NatLessThanWellFounded, WFMin
  <1>2. m \in Nat /\ m \notin T
    OBVIOUS
  <1>3. m # 0 /\ m - 1 \in Nat /\ m - 1 < m /\ (m - 1) + 1 = m
    BY <1>2
  <1>4. <<m - 1, m>> \in OpToRel(<, Nat)
    BY <1>2, <1>3 DEF OpToRel
  <1>5. m - 1 \in T
    BY <1>1, <1>3, <1>4
  <1> QED BY <1>2, <1>3, <1>5

LEMMA FiniteSetInduction ==
    ASSUME NEW S, IsFiniteSet(S), NEW C \in SUBSET SUBSET S, {} \in C,
           \A T \in C : \A x \in S \ T : T \cup {x} \in C
    PROVE  C = SUBSET S
  <1> DEFINE N == {n \in Nat : \A T \in SUBSET S : Cardinality(T) = n => T \in C}
  <1>1. \A T \in SUBSET S : IsFiniteSet(T) /\ Cardinality(T) \in Nat
    BY FS_Subset, FS_CardinalityType
  <1>2. 0 \in N
    BY <1>1, FS_EmptySet
  <1>3. ASSUME NEW n \in N, NEW T \in SUBSET S, Cardinality(T) = n + 1
        PROVE  T \in C
    <2>1. n \in Nat /\ Cardinality(T) # 0 /\ IsFiniteSet(T)
      BY <1>1, <1>3
    <2>2. T # {}
      BY <2>1, FS_EmptySet
    <2>3. PICK x \in T : TRUE
      BY <2>2
    <2>4. Cardinality(T \ {x}) = Cardinality(T) - 1
      BY <2>1, <2>3, FS_RemoveElement
    <2>5. Cardinality(T \ {x}) = n /\ T \ {x} \in SUBSET S
      BY <1>3, <2>1, <2>4
    <2>6. T \ {x} \in C /\ x \in S \ (T \ {x})
      BY <2>3, <2>5
    <2>7. (T \ {x}) \cup {x} = T
      BY <2>3
    <2> QED BY <2>6, <2>7
  <1>4. N \in SUBSET Nat /\ \A n \in N : n + 1 \in N
    BY <1>3
  <1> HIDE DEF N
  <1>5. N = Nat
    BY <1>2, <1>4, NatSetInduction
  <1> QED BY <1>1, <1>5 DEF N

(***************************************************************************)
(* The recursion of MapThenSumSet.  It takes Pick(s) out of s.             *)
(***************************************************************************)
Pick(s) == CHOOSE x \in s : TRUE

Step(f, w, s) == IF s = {} THEN 0 ELSE w[Pick(s)] + f[s \ {Pick(s)}]

Unfolds(f, w, S) == f = [s \in SUBSET S |-> Step(f, w, s)]

LEMMA SumIsRecursion ==
    ASSUME NEW w, NEW S
    PROVE  SumOver(w, S) = (CHOOSE f : Unfolds(f, w, S))[S]
  BY DEF SumOver, MapThenSumSet, MapThenFoldSet, Unfolds, Step, Pick

LEMMA PickIn == ASSUME NEW s, s # {} PROVE Pick(s) \in s
  BY DEF Pick

\* A function that unfolds on all subsets of at most n elements.
UnfoldsUpTo(f, w, S, n) ==
    /\ f \in [SUBSET S -> Int]
    /\ \A s \in SUBSET S : Cardinality(s) <= n => f[s] = Step(f, w, s)

LEMMA OneStepFurther ==
    ASSUME NEW S, IsFiniteSet(S), NEW w, \A x \in S : w[x] \in Int,
           NEW n \in Nat, NEW f, UnfoldsUpTo(f, w, S, n)
    PROVE  \E g : UnfoldsUpTo(g, w, S, n + 1)
  <1> DEFINE g == [s \in SUBSET S |-> IF Cardinality(s) <= n THEN f[s] ELSE Step(f, w, s)]
  <1>1. \A s \in SUBSET S : IsFiniteSet(s) /\ Cardinality(s) \in Nat
    BY FS_Subset, FS_CardinalityType
  <1>2. \A s \in SUBSET S : f[s] \in Int /\ Step(f, w, s) \in Int
    <2> TAKE s \in SUBSET S
    <2>1. \A t \in SUBSET S : f[t] \in Int
      BY DEF UnfoldsUpTo
    <2>2. CASE s = {}
      BY <2>1, <2>2 DEF Step
    <2>3. CASE s # {}
      <3>1. Pick(s) \in S /\ s \ {Pick(s)} \in SUBSET S
        BY <2>3, PickIn
      <3> QED BY <2>1, <2>3, <3>1 DEF Step
    <2> QED BY <2>1, <2>2, <2>3
  <1>3. g \in [SUBSET S -> Int]
    BY <1>2
  <1>4. ASSUME NEW s \in SUBSET S, Cardinality(s) <= n + 1
        PROVE  g[s] = Step(g, w, s)
    <2>1. g[s] = Step(f, w, s)
      BY <1>4 DEF UnfoldsUpTo
    <2>2. CASE s = {}
      BY <2>1, <2>2 DEF Step
    <2>3. CASE s # {}
      <3>1. Pick(s) \in s /\ s \ {Pick(s)} \in SUBSET S
        BY <2>3, PickIn
      <3>2. Cardinality(s \ {Pick(s)}) = Cardinality(s) - 1
        BY <1>1, <3>1, FS_RemoveElement
      <3>3. Cardinality(s \ {Pick(s)}) <= n
        BY <1>1, <1>4, <3>2
      <3>4. g[s \ {Pick(s)}] = f[s \ {Pick(s)}]
        BY <3>1, <3>3
      <3> HIDE DEF g
      <3> QED BY <2>1, <2>3, <3>4 DEF Step
    <2> QED BY <2>2, <2>3
  <1> HIDE DEF g
  <1> QED BY <1>3, <1>4 DEF UnfoldsUpTo

LEMMA RecursionExists ==
    ASSUME NEW S, IsFiniteSet(S), NEW w, \A x \in S : w[x] \in Int
    PROVE  \E f : Unfolds(f, w, S)
  <1> DEFINE N == {n \in Nat : \E f : UnfoldsUpTo(f, w, S, n)}
  <1>1. \A s \in SUBSET S : IsFiniteSet(s) /\ Cardinality(s) \in Nat /\ Cardinality(s) <= Cardinality(S)
    BY FS_Subset, FS_CardinalityType
  <1>2. 0 \in N
    <2> DEFINE f == [s \in SUBSET S |-> 0]
    <2>1. \A s \in SUBSET S : Cardinality(s) <= 0 => s = {}
      BY <1>1, FS_EmptySet
    <2>2. UnfoldsUpTo(f, w, S, 0)
      BY <2>1 DEF UnfoldsUpTo, Step
    <2> HIDE DEF f
    <2> QED BY <2>2
  <1>3. N \in SUBSET Nat /\ \A n \in N : n + 1 \in N
    BY OneStepFurther
  <1> HIDE DEF N
  <1>4. Cardinality(S) \in N
    BY <1>2, <1>3, NatSetInduction, FS_CardinalityType
  <1>5. PICK f : UnfoldsUpTo(f, w, S, Cardinality(S))
    BY <1>4 DEF N
  <1>6. f \in [SUBSET S -> Int] /\ \A s \in SUBSET S : f[s] = Step(f, w, s)
    BY <1>1, <1>5 DEF UnfoldsUpTo
  <1>7. f = [s \in SUBSET S |-> Step(f, w, s)]
    BY <1>6
  <1> QED BY <1>7 DEF Unfolds

(***************************************************************************)
(* What every function that unfolds does, by induction over the subsets.   *)
(***************************************************************************)
SumsUp(f, w, S) ==
    /\ f[{}] = 0
    /\ \A s \in SUBSET S : f[s] \in Int
    /\ \A s \in SUBSET S : s # {} => f[s] = w[Pick(s)] + f[s \ {Pick(s)}]

LEMMA UnfoldedSumsUp ==
    ASSUME NEW S, IsFiniteSet(S), NEW w, \A x \in S : w[x] \in Int,
           NEW f, Unfolds(f, w, S)
    PROVE  SumsUp(f, w, S)
  <1>1. \A s \in SUBSET S :
          IsFiniteSet(s) /\ Cardinality(s) \in Nat /\ (Cardinality(s) = 0 <=> s = {})
    BY FS_Subset, FS_CardinalityType, FS_EmptySet
  <1>2. f[{}] = 0 /\ \A s \in SUBSET S : s # {} => f[s] = w[Pick(s)] + f[s \ {Pick(s)}]
    <2>1. \A s \in SUBSET S : f[s] = Step(f, w, s)
      BY DEF Unfolds
    <2> QED BY <2>1 DEF Step
  <1> DEFINE N == {n \in Nat : \A s \in SUBSET S : Cardinality(s) = n => f[s] \in Int}
  <1>3. 0 \in N
    <2>1. \A s \in SUBSET S : Cardinality(s) = 0 => f[s] = 0
      BY <1>1, <1>2
    <2> QED BY <2>1
  <1>4. ASSUME NEW n \in N, NEW s \in SUBSET S, Cardinality(s) = n + 1
        PROVE  f[s] \in Int
    <2>1. n \in Nat /\ s # {}
      <3>1. n \in Nat
        OBVIOUS
      <3> QED BY <1>1, <1>4, <3>1
    <2>2. Pick(s) \in s /\ s \ {Pick(s)} \in SUBSET S
      BY <2>1, PickIn
    <2>3. Cardinality(s \ {Pick(s)}) = Cardinality(s) - 1
      BY <1>1, <2>2, FS_RemoveElement
    <2>4. f[s \ {Pick(s)}] \in Int
      BY <1>4, <2>1, <2>2, <2>3
    <2>5. f[s] = w[Pick(s)] + f[s \ {Pick(s)}] /\ w[Pick(s)] \in Int
      BY <1>2, <2>1, <2>2
    <2> QED BY <2>4, <2>5
  <1>5. N \in SUBSET Nat /\ \A n \in N : n + 1 \in N
    BY <1>4
  <1> HIDE DEF N
  <1>6. N = Nat
    BY <1>3, <1>5, NatSetInduction
  <1>7. \A s \in SUBSET S : f[s] \in Int
    BY <1>1, <1>6 DEF N
  <1> QED BY <1>2, <1>7 DEF SumsUp

\* Whichever element is taken out first.
InAnyOrder(f, w, S) == \A s \in SUBSET S : \A x \in s : f[s] = w[x] + f[s \ {x}]

LEMMA AnyElementFirst ==
    ASSUME NEW S, IsFiniteSet(S), NEW w, \A x \in S : w[x] \in Int,
           NEW f, Unfolds(f, w, S)
    PROVE  InAnyOrder(f, w, S)
  <1>1. \A s \in SUBSET S :
          IsFiniteSet(s) /\ Cardinality(s) \in Nat /\ (Cardinality(s) = 0 <=> s = {})
    BY FS_Subset, FS_CardinalityType, FS_EmptySet
  <1>2. /\ \A s \in SUBSET S : f[s] \in Int
        /\ \A s \in SUBSET S : s # {} => f[s] = w[Pick(s)] + f[s \ {Pick(s)}]
    <2>1. SumsUp(f, w, S)
      BY UnfoldedSumsUp
    <2> QED BY <2>1 DEF SumsUp
  <1> DEFINE N == {n \in Nat : \A s \in SUBSET S : Cardinality(s) = n =>
                                  \A x \in s : f[s] = w[x] + f[s \ {x}]}
  <1>3. 0 \in N
    BY <1>1
  <1>4. ASSUME NEW n \in N, NEW s \in SUBSET S, Cardinality(s) = n + 1, NEW x \in s
        PROVE  f[s] = w[x] + f[s \ {x}]
    <2> DEFINE p == Pick(s)
               q == s \ {p}
               r == s \ {x}
    <2>1. n \in Nat /\ p \in s /\ q \in SUBSET S /\ r \in SUBSET S
      BY <1>4, PickIn
    <2>2. Cardinality(q) = n /\ Cardinality(r) = n
      <3>1. IsFiniteSet(s) /\ Cardinality(s) = n + 1
        BY <1>1, <1>4
      <3>2. Cardinality(q) = Cardinality(s) - 1
        BY <2>1, <3>1, FS_RemoveElement
      <3>3. Cardinality(r) = Cardinality(s) - 1
        BY <2>1, <3>1, FS_RemoveElement
      <3> QED BY <2>1, <3>1, <3>2, <3>3
    <2>3. f[s] = w[p] + f[q]
      BY <1>2, <2>1
    <2>4. CASE x # p
      <3>1. x \in q /\ p \in r /\ q \ {x} = r \ {p} /\ q \ {x} \in SUBSET S
        BY <2>1, <2>4
      <3>2. f[q] = w[x] + f[q \ {x}] /\ f[r] = w[p] + f[r \ {p}]
        BY <1>4, <2>1, <2>2, <3>1
      <3>3. w[x] \in Int /\ w[p] \in Int /\ f[q \ {x}] \in Int
        BY <1>2, <2>1, <3>1
      <3> DEFINE a == f[q \ {x}]
      <3>4. f[q] = w[x] + a /\ f[r] = w[p] + a /\ a \in Int
        BY <3>1, <3>2, <3>3
      <3> HIDE DEF a, p, q, r
      <3>5. w[p] + f[q] = w[x] + f[r]
        BY <3>3, <3>4
      <3> QED BY <2>3, <3>5 DEF r
    <2> QED BY <2>3, <2>4
  <1>5. N \in SUBSET Nat
    OBVIOUS
  <1>6. ASSUME NEW n \in N PROVE n + 1 \in N
    <2>1. n + 1 \in Nat
      OBVIOUS
    <2>2. \A s \in SUBSET S : Cardinality(s) = n + 1 => \A x \in s : f[s] = w[x] + f[s \ {x}]
      BY <1>4
    <2> QED BY <2>1, <2>2
  <1> HIDE DEF N
  <1>7. N = Nat
    BY <1>3, <1>5, <1>6, NatSetInduction
  <1> QED BY <1>1, <1>7 DEF N, InAnyOrder

\* Two recursions agree where their weights do.
LEMMA RecursionsAgree ==
    ASSUME NEW S, IsFiniteSet(S), NEW w, \A x \in S : w[x] \in Int,
           NEW T \in SUBSET S, NEW v, \A x \in T : v[x] = w[x],
           NEW f, Unfolds(f, w, S), NEW g, Unfolds(g, v, T)
    PROVE  g[T] = f[T]
  <1> DEFINE C == {s \in SUBSET T : g[s] = f[s]}
  <1>1. IsFiniteSet(T) /\ \A x \in T : v[x] \in Int /\ v[x] = w[x]
    BY FS_Subset
  <1>2. f[{}] = 0 /\ g[{}] = 0
    BY <1>1, UnfoldedSumsUp DEF SumsUp
  <1>3. ASSUME NEW s \in C, NEW x \in T \ s
        PROVE  s \cup {x} \in C
    <2> DEFINE t == s \cup {x}
    <2>1. t \in SUBSET T /\ t \in SUBSET S /\ x \in t /\ t \ {x} = s
      OBVIOUS
    <2> HIDE DEF t
    <2>2. f[t] = w[x] + f[t \ {x}]
      BY <2>1, AnyElementFirst DEF InAnyOrder
    <2>3. g[t] = v[x] + g[t \ {x}]
      BY <1>1, <2>1, AnyElementFirst DEF InAnyOrder
    <2>4. g[t] = f[t]
      BY <1>1, <2>1, <2>2, <2>3
    <2> QED BY <2>1, <2>4 DEF t
  <1>4. C \in SUBSET SUBSET T /\ {} \in C
    BY <1>2
  <1> HIDE DEF C
  <1>5. C = SUBSET T
    BY <1>1, <1>3, <1>4, FiniteSetInduction
  <1> QED BY <1>5 DEF C

(***************************************************************************)
(* Sums.                                                                   *)
(***************************************************************************)
\* One recursion has the sums of all subsets, also for weights that agree.
LEMMA SumsOfSubsets ==
    ASSUME NEW S, IsFiniteSet(S), NEW w, \A x \in S : w[x] \in Int
    PROVE  \E f : /\ Unfolds(f, w, S)
                  /\ \A T \in SUBSET S : \A v : (\A x \in T : v[x] = w[x]) => SumOver(v, T) = f[T]
  <1>1. PICK f : Unfolds(f, w, S)
    BY RecursionExists
  <1>2. ASSUME NEW T \in SUBSET S, NEW v, \A x \in T : v[x] = w[x]
        PROVE  SumOver(v, T) = f[T]
    <2>1. IsFiniteSet(T) /\ \A x \in T : v[x] \in Int
      BY <1>2, FS_Subset
    <2> DEFINE g == CHOOSE h : Unfolds(h, v, T)
    <2>2. Unfolds(g, v, T)
      BY <2>1, RecursionExists
    <2>3. SumOver(v, T) = g[T]
      BY SumIsRecursion
    <2> HIDE DEF g
    <2> QED BY <1>1, <1>2, <2>2, <2>3, RecursionsAgree
  <1> QED BY <1>1, <1>2

LEMMA SumEmpty == ASSUME NEW w PROVE SumOver(w, {}) = 0
  <1>1. IsFiniteSet({})
    BY FS_EmptySet
  <1>2. PICK f : Unfolds(f, w, {}) /\ SumOver(w, {}) = f[{}]
    BY <1>1, SumsOfSubsets
  <1> QED BY <1>1, <1>2, UnfoldedSumsUp DEF SumsUp

LEMMA SumType ==
    ASSUME NEW S, IsFiniteSet(S), NEW w, \A x \in S : w[x] \in Int
    PROVE  SumOver(w, S) \in Int
  <1>1. PICK f : Unfolds(f, w, S) /\ SumOver(w, S) = f[S]
    BY SumsOfSubsets
  <1> QED BY <1>1, UnfoldedSumsUp DEF SumsUp

\* Only the weights of the elements matter.
LEMMA SumSame ==
    ASSUME NEW S, IsFiniteSet(S), NEW w, \A x \in S : w[x] \in Int,
           NEW v, \A x \in S : v[x] = w[x]
    PROVE  SumOver(v, S) = SumOver(w, S)
  <1>1. PICK f : \A u : (\A x \in S : u[x] = w[x]) => SumOver(u, S) = f[S]
    BY SumsOfSubsets
  <1> QED BY <1>1

LEMMA SumRemove ==
    ASSUME NEW S, IsFiniteSet(S), NEW w, \A x \in S : w[x] \in Int, NEW x \in S
    PROVE  SumOver(w, S) = w[x] + SumOver(w, S \ {x})
  <1>1. PICK f : /\ Unfolds(f, w, S)
                 /\ \A T \in SUBSET S : \A v : (\A y \in T : v[y] = w[y]) => SumOver(v, T) = f[T]
    BY SumsOfSubsets
  <1>2. SumOver(w, S) = f[S] /\ SumOver(w, S \ {x}) = f[S \ {x}]
    BY <1>1
  <1>3. InAnyOrder(f, w, S)
    BY <1>1, AnyElementFirst
  <1> QED BY <1>2, <1>3 DEF InAnyOrder

LEMMA SumAdd ==
    ASSUME NEW S, IsFiniteSet(S), NEW x, x \notin S,
           NEW w, w[x] \in Int, \A y \in S : w[y] \in Int
    PROVE  SumOver(w, S \cup {x}) = w[x] + SumOver(w, S)
  <1> DEFINE T == S \cup {x}
  <1>1. IsFiniteSet(T) /\ T \ {x} = S /\ x \in T /\ \A y \in T : w[y] \in Int
    BY FS_AddElement
  <1> HIDE DEF T
  <1>2. SumOver(w, T) = w[x] + SumOver(w, T \ {x})
    BY <1>1, SumRemove
  <1> QED BY <1>1, <1>2 DEF T

\* A sum of naturals is one.
LEMMA SumNat ==
    ASSUME NEW S, IsFiniteSet(S), NEW w, \A x \in S : w[x] \in Nat
    PROVE  SumOver(w, S) \in Nat
  <1> DEFINE C == {T \in SUBSET S : SumOver(w, T) \in Nat}
  <1>1. C \in SUBSET SUBSET S /\ {} \in C
    BY SumEmpty
  <1>2. ASSUME NEW T \in C, NEW x \in S \ T
        PROVE  T \cup {x} \in C
    <2>1. /\ IsFiniteSet(T) /\ T \in SUBSET S /\ SumOver(w, T) \in Nat
          /\ x \notin T /\ w[x] \in Nat /\ w[x] \in Int /\ \A y \in T : w[y] \in Int
      BY FS_Subset
    <2>2. SumOver(w, T \cup {x}) = w[x] + SumOver(w, T)
      BY <2>1, SumAdd
    <2> QED BY <2>1, <2>2
  <1> HIDE DEF C
  <1>3. C = SUBSET S
    BY <1>1, <1>2, FiniteSetInduction
  <1> QED BY <1>3 DEF C

\* The parts of a set.
LEMMA SumDisjoint ==
    ASSUME NEW S, IsFiniteSet(S), NEW w, \A x \in S : w[x] \in Int, NEW T \in SUBSET S
    PROVE  SumOver(w, S) = SumOver(w, T) + SumOver(w, S \ T)
  <1> DEFINE C == {U \in SUBSET T : SumOver(w, S) = SumOver(w, U) + SumOver(w, S \ U)}
  <1>0. IsFiniteSet(T) /\ \A U \in SUBSET S : IsFiniteSet(U) /\ SumOver(w, U) \in Int
    <2>1. \A U \in SUBSET S : IsFiniteSet(U)
      BY FS_Subset
    <2>2. ASSUME NEW U \in SUBSET S PROVE SumOver(w, U) \in Int
      BY <2>1, SumType
    <2> QED BY <2>1, <2>2
  <1>1. C \in SUBSET SUBSET T /\ {} \in C
    <2>1. SumOver(w, {}) = 0 /\ S \ {} = S /\ SumOver(w, S) \in Int
      BY <1>0, SumEmpty
    <2> QED BY <2>1
  <1>2. ASSUME NEW U \in C, NEW x \in T \ U
        PROVE  U \cup {x} \in C
    <2> DEFINE V == U \cup {x}
               R == S \ U
    <2>1. /\ U \in SUBSET S /\ R \in SUBSET S /\ V \in SUBSET T /\ x \in R /\ x \notin U
          /\ S \ V = R \ {x} /\ R \ {x} \in SUBSET S /\ w[x] \in Int
      OBVIOUS
    <2>2. SumOver(w, V) = w[x] + SumOver(w, U)
      BY <1>0, <2>1, SumAdd
    <2>3. SumOver(w, S) = SumOver(w, U) + SumOver(w, R)
      BY <1>2
    <2> HIDE DEF V, R
    <2>4. SumOver(w, R) = w[x] + SumOver(w, R \ {x})
      BY <1>0, <2>1, SumRemove
    <2>5. SumOver(w, S) = SumOver(w, V) + SumOver(w, S \ V)
      <3> DEFINE u == SumOver(w, U)
                 r == SumOver(w, R \ {x})
      <3>1. u \in Int /\ r \in Int /\ w[x] \in Int
        BY <1>0, <2>1
      <3>2. SumOver(w, S) = u + (w[x] + r) /\ SumOver(w, V) = w[x] + u /\ SumOver(w, S \ V) = r
        BY <2>1, <2>2, <2>3, <2>4
      <3> HIDE DEF u, r
      <3> QED BY <3>1, <3>2
    <2> QED BY <2>1, <2>5 DEF V
  <1> HIDE DEF C
  <1>3. C = SUBSET T
    BY <1>0, <1>1, <1>2, FiniteSetInduction
  <1> QED BY <1>3 DEF C

\* Changing one weight.
LEMMA SumUpdate ==
    ASSUME NEW S, IsFiniteSet(S), NEW w, NEW v, NEW x \in S,
           \A z \in S : w[z] \in Int /\ v[z] \in Int, \A z \in S \ {x} : v[z] = w[z]
    PROVE  SumOver(v, S) = SumOver(w, S) - w[x] + v[x]
  <1> DEFINE R == S \ {x}
  <1>1. IsFiniteSet(R) /\ (\A z \in R : w[z] \in Int) /\ w[x] \in Int /\ v[x] \in Int
    BY FS_Subset
  <1>2. SumOver(v, S) = v[x] + SumOver(v, R) /\ SumOver(w, S) = w[x] + SumOver(w, R)
    BY SumRemove
  <1>3. \A z \in R : v[z] = w[z]
    OBVIOUS
  <1> HIDE DEF R
  <1>4. SumOver(v, R) = SumOver(w, R) /\ SumOver(w, R) \in Int
    BY <1>1, <1>3, SumSame, SumType
  <1> QED BY <1>1, <1>2, <1>4

\* The sum of nothing but zeros.
LEMMA SumZero ==
    ASSUME NEW S, IsFiniteSet(S), NEW w, \A x \in S : w[x] = 0
    PROVE  SumOver(w, S) = 0
  <1> DEFINE C == {T \in SUBSET S : SumOver(w, T) = 0}
  <1>1. C \in SUBSET SUBSET S /\ {} \in C
    BY SumEmpty
  <1>2. ASSUME NEW T \in C, NEW x \in S \ T
        PROVE  T \cup {x} \in C
    <2>1. /\ IsFiniteSet(T) /\ T \in SUBSET S /\ SumOver(w, T) = 0
          /\ x \notin T /\ w[x] = 0 /\ w[x] \in Int /\ \A y \in T : w[y] \in Int
      BY FS_Subset
    <2>2. SumOver(w, T \cup {x}) = w[x] + SumOver(w, T)
      BY <2>1, SumAdd
    <2> QED BY <2>1, <2>2
  <1> HIDE DEF C
  <1>3. C = SUBSET S
    BY <1>1, <1>2, FiniteSetInduction
  <1> QED BY <1>3 DEF C

\* Summing over the values of a one-to-one function.
LEMMA SumImage ==
    ASSUME NEW P, IsFiniteSet(P), NEW g, \A x, y \in P : g[x] = g[y] => x = y,
           NEW w, NEW d, \A x \in P : w[x] \in Int /\ w[x] = d[g[x]]
    PROVE  SumOver(w, P) = SumOver(d, {g[x] : x \in P})
  <1> DEFINE I(T) == {g[x] : x \in T}
             C == {T \in SUBSET P : IsFiniteSet(I(T)) /\ SumOver(w, T) = SumOver(d, I(T))}
  <1>1. C \in SUBSET SUBSET P /\ {} \in C
    <2>1. I({}) = {}
      OBVIOUS
    <2>2. SumOver(w, {}) = 0 /\ SumOver(d, {}) = 0 /\ IsFiniteSet({})
      BY SumEmpty, FS_EmptySet
    <2> QED BY <2>1, <2>2
  <1>2. ASSUME NEW T \in C, NEW x \in P \ T
        PROVE  T \cup {x} \in C
    <2>1. /\ IsFiniteSet(T) /\ T \in SUBSET P /\ SumOver(w, T) = SumOver(d, I(T))
          /\ x \notin T /\ w[x] \in Int /\ \A y \in T : w[y] \in Int
      BY FS_Subset
    <2>2. SumOver(w, T \cup {x}) = w[x] + SumOver(w, T)
      BY <2>1, SumAdd
    <2>3. IsFiniteSet(I(T))
      BY <1>2
    <2>4. g[x] \notin I(T) /\ I(T \cup {x}) = I(T) \cup {g[x]}
      BY <2>1
    <2>5. d[g[x]] = w[x] /\ d[g[x]] \in Int /\ \A z \in I(T) : d[z] \in Int
      BY <2>1
    <2> HIDE DEF I
    <2>6. SumOver(d, I(T) \cup {g[x]}) = d[g[x]] + SumOver(d, I(T))
      BY <2>3, <2>4, <2>5, SumAdd
    <2>7. IsFiniteSet(I(T) \cup {g[x]})
      BY <2>3, FS_AddElement
    <2> QED BY <2>1, <2>2, <2>4, <2>5, <2>6, <2>7
  <1> HIDE DEF C
  <1>3. C = SUBSET P
    BY <1>1, <1>2, FiniteSetInduction
  <1> QED BY <1>3 DEF C

\* Two disjoint parts of a set weigh no more than the set.
LEMMA SumParts ==
    ASSUME NEW S, IsFiniteSet(S), NEW w, \A x \in S : w[x] \in Nat,
           NEW T \in SUBSET S, NEW U \in SUBSET S, T \cap U = {}
    PROVE  /\ SumOver(w, T) \in Nat /\ SumOver(w, U) \in Nat /\ SumOver(w, S) \in Nat
           /\ SumOver(w, T) + SumOver(w, U) <= SumOver(w, S)
  <1> DEFINE R == S \ T
             Q == R \ U
  <1>1. IsFiniteSet(R) /\ U \in SUBSET R /\ \A x \in S : w[x] \in Int
    BY FS_Subset
  <1>2. SumOver(w, S) = SumOver(w, T) + SumOver(w, R)
    BY <1>1, SumDisjoint
  <1>3. SumOver(w, R) = SumOver(w, U) + SumOver(w, Q)
    <2>1. \A x \in R : w[x] \in Int
      OBVIOUS
    <2> HIDE DEF R
    <2> QED BY <1>1, <2>1, SumDisjoint
  <1>4. ASSUME NEW V \in SUBSET S PROVE SumOver(w, V) \in Nat
    <2>1. IsFiniteSet(V) /\ \A x \in V : w[x] \in Nat
      BY FS_Subset
    <2> QED BY <2>1, SumNat
  <1>5. /\ SumOver(w, T) \in Nat /\ SumOver(w, U) \in Nat
        /\ SumOver(w, Q) \in Nat /\ SumOver(w, S) \in Nat
    BY <1>4
  <1> HIDE DEF R, Q
  <1> QED BY <1>2, <1>3, <1>5
====
