-------------------------- MODULE StaticFilesProofs --------------------------
(***************************************************************************)
(* Proofs about StaticFiles and the LRUCache below it, for any keys, sizes *)
(* and paths.                                                              *)
(***************************************************************************)
EXTENDS StaticFiles, FiniteSetTheorems, SequenceTheorems, TLAPS

-----------------------------------------------------------------------------
(* Induction                                                                *)

\* Natural numbers have least elements, so a set that holds 0 and is closed
\* under successor holds them all.
LEMMA Induction ==
    ASSUME NEW S, 0 \in S, \A n \in Nat : n \in S => n + 1 \in S
    PROVE  Nat \subseteq S
<1> DEFINE R == OpToRel(<, Nat)
<1> SUFFICES ASSUME Nat \ S # {} PROVE FALSE
  OBVIOUS
<1>1. IsWellFoundedOn(R, Nat)
  BY NatLessThanWellFounded
<1> HIDE DEF R
<1>2. PICK x \in Nat \ S : \A y \in Nat \ S : ~ (<<y, x>> \in R)
  BY <1>1, WFMin
<1>3. x # 0 /\ x - 1 \in Nat /\ x - 1 \notin S
  OBVIOUS
<1>4. <<x - 1, x>> \in R
  BY <1>3 DEF R, OpToRel
<1> QED
  BY <1>2, <1>3, <1>4

\* A set of natural numbers with a bound has a greatest element.
LEMMA Greatest ==
    ASSUME NEW n \in Nat, NEW S \in SUBSET (0..n), S # {}
    PROVE  Max(S) \in S /\ \A m \in S : m <= Max(S)
<1> DEFINE Bounded == {b \in Nat : \A T \in SUBSET (0..b) :
                          T # {} => \E x \in T : \A y \in T : x >= y}
<1>1. 0 \in Bounded
  <2>1. ASSUME NEW T \in SUBSET (0..0), T # {} PROVE \E x \in T : \A y \in T : x >= y
    <3>1. \A y \in T : y = 0
      OBVIOUS
    <3>2. 0 \in T
      BY <2>1, <3>1
    <3>3. \A y \in T : 0 >= y
      BY <3>1
    <3> QED
      BY <3>2, <3>3
  <2> QED
    BY <2>1
<1>2. \A b \in Nat : b \in Bounded => b + 1 \in Bounded
  <2> SUFFICES ASSUME NEW b \in Nat, b \in Bounded, NEW T \in SUBSET (0..(b + 1)), T # {}
               PROVE  \E x \in T : \A y \in T : x >= y
    OBVIOUS
  <2>1. CASE b + 1 \in T
    BY <2>1
  <2>2. CASE b + 1 \notin T
    <3>1. T \in SUBSET (0..b)
      BY <2>2
    <3> QED
      BY <3>1
  <2> QED
    BY <2>1, <2>2
<1>3. n \in Bounded
  <2> HIDE DEF Bounded
  <2> QED
    BY <1>1, <1>2, Induction
<1>4. \E x \in S : \A y \in S : x >= y
  BY <1>3
<1> QED
  BY <1>4 DEF Max

\* A family of sets that holds the empty set, and every subset of S from which
\* some element can be taken such that the rest is in the family, holds S.
LEMMA SetInduction ==
    ASSUME NEW S, IsFiniteSet(S), NEW F, {} \in F,
           \A T \in SUBSET S : T # {} => \E x \in T : T \ {x} \in F => T \in F
    PROVE  S \in F
<1> DEFINE D == {n \in Nat : \A T \in SUBSET S : Cardinality(T) = n => T \in F}
<1>1. \A T \in SUBSET S : IsFiniteSet(T) /\ Cardinality(T) \in Nat
  BY FS_Subset, FS_CardinalityType
<1>2. 0 \in D
  BY <1>1, FS_EmptySet
<1>3. ASSUME NEW n \in Nat, n \in D PROVE n + 1 \in D
  <2> SUFFICES ASSUME NEW T \in SUBSET S, Cardinality(T) = n + 1 PROVE T \in F
    OBVIOUS
  <2>1. T # {}
    <3>1. Cardinality({}) = 0
      BY FS_EmptySet
    <3>2. n + 1 # 0
      OBVIOUS
    <3> QED
      BY <3>1, <3>2
  <2>2. PICK x \in T : T \ {x} \in F => T \in F
    BY <2>1
  <2>3. Cardinality(T \ {x}) = n
    <3>1. IsFiniteSet(T)
      BY <1>1
    <3>2. Cardinality(T \ {x}) = Cardinality(T) - 1
      BY <3>1, FS_RemoveElement
    <3> QED
      BY <3>2
  <2> QED
    BY <1>3, <2>2, <2>3
<1>4. Cardinality(S) \in D
  <2> HIDE DEF D
  <2> QED
    BY <1>1, <1>2, <1>3, Induction
<1> QED
  BY <1>4

-----------------------------------------------------------------------------
(* Sums over finite sets                                                    *)

\* One step of the recursion that SumFunctionOnSet stands for.
Pick(s) == CHOOSE x \in s : TRUE
SumStep(f, g, s) == IF s = {} THEN 0 ELSE f[Pick(s)] + g[s \ {Pick(s)}]

\* g follows that recursion below s.
Solves(f, g, s) == \A t \in SUBSET s : g[t] = SumStep(f, g, t)

\* The subsets of S with at most n elements.
UpTo(S, n) == {s \in SUBSET S : Cardinality(s) <= n}

\* The recursion has a solution.
LEMMA SumExists ==
    ASSUME NEW f, NEW S, IsFiniteSet(S)
    PROVE  \E g : g = [s \in SUBSET S |-> SumStep(f, g, s)]
<1> DEFINE Solved == {n \in Nat : \E g : g = [s \in UpTo(S, n) |-> SumStep(f, g, s)]}
<1>0. \A s \in SUBSET S : Cardinality(s) \in Nat /\ Cardinality(s) <= Cardinality(S)
  BY FS_Subset, FS_CardinalityType
<1>5. \A s \in SUBSET S : s # {} =>
         Cardinality(s) > 0 /\ Cardinality(s \ {Pick(s)}) = Cardinality(s) - 1
  <2> SUFFICES ASSUME NEW s \in SUBSET S, s # {}
               PROVE  Cardinality(s) > 0 /\ Cardinality(s \ {Pick(s)}) = Cardinality(s) - 1
    OBVIOUS
  <2>1. IsFiniteSet(s) /\ Cardinality(s) \in Nat
    BY FS_Subset, FS_CardinalityType
  <2>2. Pick(s) \in s
    BY DEF Pick
  <2> QED
    BY <2>1, <2>2, FS_EmptySet, FS_RemoveElement
<1>1. 0 \in Solved
  <2>1. ASSUME NEW s \in UpTo(S, 0) PROVE s = {}
    <3>1. s \in SUBSET S /\ Cardinality(s) <= 0
      BY DEF UpTo
    <3>2. Cardinality(s) \in Nat /\ ~(Cardinality(s) > 0)
      BY <1>0, <3>1
    <3> QED
      BY <1>5, <3>1, <3>2
  <2> DEFINE g == [s \in UpTo(S, 0) |-> 0]
  <2>2. g = [s \in UpTo(S, 0) |-> SumStep(f, g, s)]
    BY <2>1 DEF SumStep
  <2> QED
    BY <2>2
<1>2. \A n \in Nat : n \in Solved => n + 1 \in Solved
  <2> SUFFICES ASSUME NEW n \in Nat, n \in Solved PROVE n + 1 \in Solved
    OBVIOUS
  <2>1. PICK g : g = [s \in UpTo(S, n) |-> SumStep(f, g, s)]
    OBVIOUS
  <2> DEFINE h == [s \in UpTo(S, n + 1) |-> SumStep(f, g, s)]
  <2>2. UpTo(S, n) \subseteq UpTo(S, n + 1)
    <3> SUFFICES ASSUME NEW s \in UpTo(S, n) PROVE s \in UpTo(S, n + 1)
      OBVIOUS
    <3>1. s \in SUBSET S /\ Cardinality(s) \in Nat /\ Cardinality(s) <= n
      BY <1>0 DEF UpTo
    <3> QED
      BY <3>1 DEF UpTo
  <2>3. \A s \in UpTo(S, n) : h[s] = g[s]
    BY <2>1, <2>2
  <2>4. \A s \in UpTo(S, n + 1) : s # {} => s \ {Pick(s)} \in UpTo(S, n)
    <3> SUFFICES ASSUME NEW s \in UpTo(S, n + 1), s # {} PROVE s \ {Pick(s)} \in UpTo(S, n)
      OBVIOUS
    <3>1. s \in SUBSET S /\ Cardinality(s) <= n + 1 /\ Cardinality(s) \in Nat
      BY <1>0 DEF UpTo
    <3>2. s \ {Pick(s)} \in SUBSET S /\ Cardinality(s \ {Pick(s)}) <= n
      BY <1>5, <3>1
    <3> QED
      BY <3>2 DEF UpTo
  <2>5. \A s \in UpTo(S, n + 1) : SumStep(f, g, s) = SumStep(f, h, s)
    BY <2>3, <2>4 DEF SumStep
  <2>6. h = [s \in UpTo(S, n + 1) |-> SumStep(f, h, s)]
    BY <2>5
  <2> HIDE DEF h
  <2> QED
    BY <2>6
<1>3. Cardinality(S) \in Solved
  <2> HIDE DEF Solved
  <2> QED
    BY <1>0, <1>1, <1>2, Induction
<1>4. UpTo(S, Cardinality(S)) = SUBSET S
  BY <1>0 DEF UpTo
<1> QED
  BY <1>3, <1>4

\* SumFunctionOnSet is such a solution.
LEMMA SumSolved ==
    ASSUME NEW f, NEW S, IsFiniteSet(S)
    PROVE  \E g : /\ g = [s \in SUBSET S |-> SumStep(f, g, s)]
                  /\ SumFunctionOnSet(f, S) = g[S]
<1> DEFINE iter == CHOOSE g : g = [s \in SUBSET S |-> SumStep(f, g, s)]
<1>1. SumFunctionOnSet(f, S) = iter[S]
  BY DEF SumFunctionOnSet, FoldFunctionOnSet, MapThenFoldSet, SumStep, Pick
<1>2. iter = [s \in SUBSET S |-> SumStep(f, iter, s)]
  BY SumExists
<1> QED
  BY <1>1, <1>2

\* Any two solutions agree.
LEMMA SumUnique ==
    ASSUME NEW f, NEW g, NEW h, NEW s, IsFiniteSet(s),
           Solves(f, g, s), Solves(f, h, s)
    PROVE  g[s] = h[s]
<1> DEFINE F == {t \in SUBSET s : g[t] = h[t]}
<1>2. {} \in F
  BY DEF SumStep, Solves
<1>3. ASSUME NEW t \in SUBSET s, t # {} PROVE Pick(t) \in t /\ (t \ {Pick(t)} \in F => t \in F)
  <2>1. Pick(t) \in t
    BY <1>3 DEF Pick
  <2> QED
    BY <1>3, <2>1 DEF SumStep, Solves
<1>4. s \in F
  <2> HIDE DEF F
  <2> QED
    BY <1>2, <1>3, SetInduction
<1> QED
  BY <1>4

\* The recursion, for SumFunctionOnSet itself.
LEMMA SumUnfold ==
    ASSUME NEW f, NEW S, IsFiniteSet(S)
    PROVE  /\ SumFunctionOnSet(f, {}) = 0
           /\ S # {} => /\ Pick(S) \in S
                        /\ SumFunctionOnSet(f, S) =
                             f[Pick(S)] + SumFunctionOnSet(f, S \ {Pick(S)})
<1>1. SumFunctionOnSet(f, {}) = 0
  <2>1. IsFiniteSet({})
    BY FS_EmptySet
  <2>2. PICK g : g = [s \in SUBSET {} |-> SumStep(f, g, s)] /\ SumFunctionOnSet(f, {}) = g[{}]
    BY <2>1, SumSolved
  <2>3. g[{}] = SumStep(f, g, {})
    BY <2>2
  <2> QED
    BY <2>2, <2>3 DEF SumStep
<1>2. ASSUME S # {}
      PROVE  /\ Pick(S) \in S
             /\ SumFunctionOnSet(f, S) = f[Pick(S)] + SumFunctionOnSet(f, S \ {Pick(S)})
  <2> DEFINE T == S \ {Pick(S)}
  <2>1. IsFiniteSet(T)
    BY FS_Subset
  <2>2. PICK g : g = [s \in SUBSET S |-> SumStep(f, g, s)] /\ SumFunctionOnSet(f, S) = g[S]
    BY SumSolved
  <2>3. PICK h : h = [s \in SUBSET T |-> SumStep(f, h, s)] /\ SumFunctionOnSet(f, T) = h[T]
    BY <2>1, SumSolved
  <2>4. g[T] = h[T]
    <3>1. Solves(f, g, T) /\ Solves(f, h, T)
      BY <2>2, <2>3 DEF Solves
    <3> HIDE DEF T
    <3> QED
      BY <2>1, <3>1, SumUnique
  <2>5. g[S] = f[Pick(S)] + g[T]
    <3>1. g[S] = SumStep(f, g, S)
      BY <2>2
    <3> QED
      BY <1>2, <3>1 DEF SumStep
  <2>6. Pick(S) \in S
    BY <1>2 DEF Pick
  <2> QED
    BY <2>2, <2>3, <2>4, <2>5, <2>6
<1> QED
  BY <1>1, <1>2

\* Functions that agree on a set have the same sum over it.
LEMMA SumSame ==
    ASSUME NEW f, NEW g, NEW S, IsFiniteSet(S), \A x \in S : f[x] = g[x]
    PROVE  SumFunctionOnSet(f, S) = SumFunctionOnSet(g, S)
<1> DEFINE F == {T \in SUBSET S : SumFunctionOnSet(f, T) = SumFunctionOnSet(g, T)}
<1>1. {} \in F
  BY SumUnfold, FS_EmptySet
<1>2. ASSUME NEW T \in SUBSET S, T # {} PROVE \E x \in T : T \ {x} \in F => T \in F
  <2>1. IsFiniteSet(T)
    BY FS_Subset
  <2>2. /\ Pick(T) \in T
        /\ SumFunctionOnSet(f, T) = f[Pick(T)] + SumFunctionOnSet(f, T \ {Pick(T)})
    BY <1>2, <2>1, SumUnfold
  <2>3. SumFunctionOnSet(g, T) = g[Pick(T)] + SumFunctionOnSet(g, T \ {Pick(T)})
    BY <1>2, <2>1, SumUnfold
  <2>4. T \ {Pick(T)} \in F => T \in F
    BY <2>2, <2>3
  <2> HIDE DEF F
  <2> QED
    BY <2>2, <2>4
<1> QED
  <2> HIDE DEF F
  <2>1. S \in F
    BY <1>1, <1>2, SetInduction
  <2> QED
    BY <2>1 DEF F

\* A sum of naturals is one.
LEMMA SumNat ==
    ASSUME NEW f, NEW S, IsFiniteSet(S), \A x \in S : f[x] \in Nat
    PROVE  SumFunctionOnSet(f, S) \in Nat
<1> DEFINE F == {T \in SUBSET S : SumFunctionOnSet(f, T) \in Nat}
<1>1. {} \in F
  <2>1. IsFiniteSet({})
    BY FS_EmptySet
  <2>2. SumFunctionOnSet(f, {}) = 0
    BY <2>1, SumUnfold
  <2> QED
    BY <2>2
<1>2. ASSUME NEW T \in SUBSET S, T # {} PROVE \E x \in T : T \ {x} \in F => T \in F
  <2>1. IsFiniteSet(T)
    BY FS_Subset
  <2>2. /\ Pick(T) \in T
        /\ SumFunctionOnSet(f, T) = f[Pick(T)] + SumFunctionOnSet(f, T \ {Pick(T)})
    BY <1>2, <2>1, SumUnfold
  <2>3. f[Pick(T)] \in Nat
    BY <2>2
  <2>4. T \ {Pick(T)} \in F => T \in F
    BY <2>2, <2>3
  <2> HIDE DEF F
  <2> QED
    BY <2>2, <2>4
<1> QED
  <2> HIDE DEF F
  <2>1. S \in F
    BY <1>1, <1>2, SetInduction
  <2> QED
    BY <2>1 DEF F

\* An element can be added in any order.
LEMMA SumAdd ==
    ASSUME NEW f, NEW S, IsFiniteSet(S), \A x \in S : f[x] \in Nat, NEW x \in S
    PROVE  SumFunctionOnSet(f, S) = f[x] + SumFunctionOnSet(f, S \ {x})
<1> DEFINE D == {n \in Nat : \A T \in SUBSET S : Cardinality(T) = n => \A y \in T :
                    SumFunctionOnSet(f, T) = f[y] + SumFunctionOnSet(f, T \ {y})}
<1>0. \A T \in SUBSET S : /\ IsFiniteSet(T) /\ Cardinality(T) \in Nat
                          /\ SumFunctionOnSet(f, T) \in Nat
  <2> SUFFICES ASSUME NEW T \in SUBSET S
               PROVE  /\ IsFiniteSet(T) /\ Cardinality(T) \in Nat
                      /\ SumFunctionOnSet(f, T) \in Nat
    OBVIOUS
  <2>1. IsFiniteSet(T) /\ Cardinality(T) \in Nat
    BY FS_Subset, FS_CardinalityType
  <2>2. \A y \in T : f[y] \in Nat
    OBVIOUS
  <2> QED
    BY <2>1, <2>2, SumNat
<1>1. \A T \in SUBSET S : \A y \in T : Cardinality(T \ {y}) = Cardinality(T) - 1
  BY <1>0, FS_RemoveElement
<1>2. 0 \in D
  <2>1. ASSUME NEW T \in SUBSET S, Cardinality(T) = 0 PROVE T = {}
    BY <1>0, <2>1, FS_EmptySet
  <2> QED
    BY <2>1
<1>3. ASSUME NEW n \in Nat, n \in D PROVE n + 1 \in D
  <2> SUFFICES ASSUME NEW T \in SUBSET S, Cardinality(T) = n + 1, NEW y \in T
               PROVE  SumFunctionOnSet(f, T) = f[y] + SumFunctionOnSet(f, T \ {y})
    OBVIOUS
  <2>1. /\ Pick(T) \in T
        /\ SumFunctionOnSet(f, T) = f[Pick(T)] + SumFunctionOnSet(f, T \ {Pick(T)})
    BY <1>0, SumUnfold
  <2>2. ASSUME y # Pick(T)
        PROVE  SumFunctionOnSet(f, T) = f[y] + SumFunctionOnSet(f, T \ {y})
    <3> DEFINE P == T \ {Pick(T)}
               Y == T \ {y}
               U == T \ {Pick(T), y}
    <3>1. P \in SUBSET S /\ y \in P /\ P \ {y} = U /\ Cardinality(P) = n
      BY <1>1, <2>1, <2>2
    <3>2. Y \in SUBSET S /\ Pick(T) \in Y /\ Y \ {Pick(T)} = U /\ Cardinality(Y) = n
      BY <1>1, <2>1, <2>2
    <3>3. SumFunctionOnSet(f, P) = f[y] + SumFunctionOnSet(f, U)
      BY <1>3, <3>1
    <3>4. SumFunctionOnSet(f, Y) = f[Pick(T)] + SumFunctionOnSet(f, U)
      BY <1>3, <3>2
    <3>5. f[y] \in Nat /\ f[Pick(T)] \in Nat /\ SumFunctionOnSet(f, U) \in Nat
      BY <1>0, <2>1
    <3>6. SumFunctionOnSet(f, T) = f[Pick(T)] + SumFunctionOnSet(f, P)
      BY <2>1
    <3> HIDE DEF P, Y, U
    <3>7. SumFunctionOnSet(f, T) = f[y] + SumFunctionOnSet(f, Y)
      BY <3>3, <3>4, <3>5, <3>6
    <3> QED
      BY <3>7 DEF Y
  <2> QED
    BY <2>1, <2>2
<1>4. Cardinality(S) \in D
  <2> HIDE DEF D
  <2> QED
    BY <1>0, <1>2, <1>3, Induction
<1> QED
  BY <1>4

\* The sum over a set is that over a part of it and over the rest.
LEMMA SumSplit ==
    ASSUME NEW f, NEW S, IsFiniteSet(S), \A x \in S : f[x] \in Nat, NEW T \in SUBSET S
    PROVE  SumFunctionOnSet(f, S) = SumFunctionOnSet(f, T) + SumFunctionOnSet(f, S \ T)
<1> DEFINE R == S \ T
           F == {U \in SUBSET T : SumFunctionOnSet(f, U \cup R)
                                    = SumFunctionOnSet(f, U) + SumFunctionOnSet(f, R)}
<1>0. \A U \in SUBSET S : /\ IsFiniteSet(U) /\ \A x \in U : f[x] \in Nat
                          /\ SumFunctionOnSet(f, U) \in Nat
  <2> SUFFICES ASSUME NEW U \in SUBSET S
               PROVE  /\ IsFiniteSet(U) /\ \A x \in U : f[x] \in Nat
                      /\ SumFunctionOnSet(f, U) \in Nat
    OBVIOUS
  <2>1. IsFiniteSet(U) /\ \A x \in U : f[x] \in Nat
    BY FS_Subset
  <2> QED
    BY <2>1, SumNat
<1>1. {} \in F
  <2>1. SumFunctionOnSet(f, {}) = 0
    BY SumUnfold
  <2>2. {} \cup R = R /\ SumFunctionOnSet(f, R) \in Nat
    BY <1>0
  <2> QED
    BY <2>1, <2>2
<1>2. ASSUME NEW U \in SUBSET T, U # {} PROVE \E x \in U : U \ {x} \in F => U \in F
  <2>1. PICK x \in U : TRUE
    BY <1>2
  <2>2. U \in SUBSET S /\ U \cup R \in SUBSET S /\ R \in SUBSET S
    OBVIOUS
  <2>3. SumFunctionOnSet(f, U) = f[x] + SumFunctionOnSet(f, U \ {x})
    BY <1>0, <2>1, <2>2, SumAdd
  <2>4. SumFunctionOnSet(f, U \cup R) = f[x] + SumFunctionOnSet(f, (U \ {x}) \cup R)
    <3>1. SumFunctionOnSet(f, U \cup R) = f[x] + SumFunctionOnSet(f, (U \cup R) \ {x})
      BY <1>0, <2>1, <2>2, SumAdd
    <3>2. (U \cup R) \ {x} = (U \ {x}) \cup R
      BY <2>1
    <3> QED
      BY <3>1, <3>2, Zenon
  <2>6. f[x] \in Nat /\ SumFunctionOnSet(f, U \ {x}) \in Nat /\ SumFunctionOnSet(f, R) \in Nat
    BY <1>0, <2>1, <2>2
  <2>7. ASSUME SumFunctionOnSet(f, (U \ {x}) \cup R)
                 = SumFunctionOnSet(f, U \ {x}) + SumFunctionOnSet(f, R)
        PROVE  SumFunctionOnSet(f, U \cup R)
                 = SumFunctionOnSet(f, U) + SumFunctionOnSet(f, R)
    <3> HIDE DEF R
    <3> QED
      BY <2>3, <2>4, <2>6, <2>7
  <2>8. U \ {x} \in F => U \in F
    BY <2>7
  <2> HIDE DEF F
  <2> QED
    BY <2>1, <2>8
<1>3. T \in F
  <2>1. IsFiniteSet(T)
    BY FS_Subset
  <2> HIDE DEF F
  <2> QED
    BY <2>1, <1>1, <1>2, SetInduction
<1>4. T \cup R = S
  OBVIOUS
<1> QED
  BY <1>3, <1>4

-----------------------------------------------------------------------------
(* The recency list                                                         *)

\* What a sequence holds.
LEMMA Holds ==
    ASSUME NEW K, NEW list \in Seq(K)
    PROVE  /\ Len(list) \in Nat /\ DOMAIN list = 1..Len(list)
           /\ \A m \in 1..Len(list) : list[m] \in K /\ list[m] \in Range(list)
           /\ \A k \in Range(list) : k \in K /\ \E m \in 1..Len(list) : k = list[m]
           /\ IsFiniteSet(Range(list))
<1>1. Len(list) \in Nat /\ DOMAIN list = 1..Len(list)
  OBVIOUS
<1>2. \A m \in 1..Len(list) : list[m] \in K
  OBVIOUS
<1>3. list \in Surjection(1..Len(list), Range(list))
  BY <1>1 DEF Surjection, Range
<1>4. IsFiniteSet(1..Len(list))
  BY <1>1, FS_Interval
<1>5. IsFiniteSet(Range(list))
  BY <1>3, <1>4, FS_Surjection
<1> QED
  BY <1>1, <1>2, <1>5 DEF Range

\* The place of a key in the list, taken out: the rest moves up.
LEMMA WithoutMember ==
    ASSUME NEW K, NEW list \in Seq(K), IsInjective(list), NEW i \in 1..Len(list)
    PROVE  /\ Without(list, list[i]) \in Seq(K)
           /\ Len(Without(list, list[i])) = Len(list) - 1
           /\ \A m \in 1..(Len(list) - 1) :
                 Without(list, list[i])[m] = IF m < i THEN list[m] ELSE list[m + 1]
<1> DEFINE a == SubSeq(list, 1, i - 1)
           b == SubSeq(list, i + 1, Len(list))
           I == {j \in 1..Len(list) : list[j] = list[i]}
<1>1. I = {i}
  BY DEF IsInjective
<1>2. Min(I) = i
  BY <1>1 DEF Min
<1>3. SelectInSeq(list, LAMBDA v : v = list[i]) = i
  BY <1>1, <1>2 DEF SelectInSeq
<1>4. Without(list, list[i]) = a \o b
  BY <1>3 DEF Without, RemoveFirst, RemoveAt
<1>5. a \in Seq(K) /\ Len(a) = i - 1 /\ \A m \in 1..(i - 1) : a[m] = list[m]
  <2>1. \A m \in 1..(i - 1) : list[m] \in K
    OBVIOUS
  <2> QED
    BY <2>1, SubSeqProperties
<1>6. b \in Seq(K) /\ Len(b) = Len(list) - i /\ \A m \in 1..(Len(list) - i) : b[m] = list[m + i]
  <2>1. \A m \in (i + 1)..Len(list) : list[m] \in K
    OBVIOUS
  <2> QED
    BY <2>1, SubSeqProperties
<1> HIDE DEF a, b
<1>7. /\ a \o b \in Seq(K) /\ Len(a \o b) = Len(list) - 1
      /\ \A m \in 1..(Len(list) - 1) : (a \o b)[m] = IF m <= i - 1 THEN a[m] ELSE b[m - (i - 1)]
  <2>1. /\ a \o b \in Seq(K) /\ Len(a \o b) = Len(a) + Len(b)
        /\ \A m \in 1..(Len(a) + Len(b)) :
              (a \o b)[m] = IF m <= Len(a) THEN a[m] ELSE b[m - Len(a)]
    BY <1>5, <1>6, ConcatProperties
  <2>2. Len(a) + Len(b) = Len(list) - 1 /\ Len(a) = i - 1
    BY <1>5, <1>6
  <2> QED
    BY <2>1, <2>2, Zenon
<1>8. ASSUME NEW m \in 1..(Len(list) - 1)
      PROVE  (a \o b)[m] = IF m < i THEN list[m] ELSE list[m + 1]
  <2>1. CASE m < i
    BY <1>5, <1>7, <2>1
  <2>2. CASE ~(m < i)
    <3>1. m - (i - 1) \in 1..(Len(list) - i) /\ m - (i - 1) + i = m + 1
      BY <2>2
    <3>2. b[m - (i - 1)] = list[m - (i - 1) + i]
      BY <1>6, <3>1
    <3>3. b[m - (i - 1)] = list[m + 1]
      BY <3>1, <3>2
    <3>4. ~(m <= i - 1)
      BY <2>2
    <3>5. (a \o b)[m] = b[m - (i - 1)]
      BY <1>7, <3>4, Zenon
    <3> QED
      BY <2>2, <3>3, <3>5
  <2> QED
    BY <2>1, <2>2
<1> QED
  BY <1>4, <1>7, <1>8

\* Whatever the key, the list without it holds the others, once each.
LEMMA WithoutHolds ==
    ASSUME NEW K, NEW list \in Seq(K), IsInjective(list), NEW k
    PROVE  /\ Without(list, k) \in Seq(K)
           /\ IsInjective(Without(list, k))
           /\ Range(Without(list, k)) = Range(list) \ {k}
<1>1. CASE k \notin Range(list)
  <2>1. Without(list, k) = list
    BY <1>1, Holds DEF Without, RemoveFirst
  <2> QED
    BY <1>1, <2>1
<1>2. CASE k \in Range(list)
  <2> DEFINE r == Without(list, k)
  <2>1. PICK i \in 1..Len(list) : k = list[i]
    BY <1>2, Holds
  <2>2. /\ r \in Seq(K) /\ Len(r) = Len(list) - 1
        /\ \A m \in 1..(Len(list) - 1) : r[m] = IF m < i THEN list[m] ELSE list[m + 1]
    BY <2>1, WithoutMember
  <2> HIDE DEF r
  <2>3. DOMAIN r = 1..(Len(list) - 1) /\ DOMAIN list = 1..Len(list) /\ Len(list) \in Nat
    BY <2>2
  <2>4. \A a, b \in 1..Len(list) : list[a] = list[b] => a = b
    BY <2>3 DEF IsInjective
  <2>5. IsInjective(r)
    <3> SUFFICES ASSUME NEW a \in 1..(Len(list) - 1), NEW b \in 1..(Len(list) - 1), r[a] = r[b]
                 PROVE  a = b
      BY <2>3 DEF IsInjective
    <3> DEFINE p == IF a < i THEN a ELSE a + 1
               q == IF b < i THEN b ELSE b + 1
    <3>1. p \in 1..Len(list) /\ q \in 1..Len(list) /\ r[a] = list[p] /\ r[b] = list[q]
      BY <2>2, <2>3
    <3>2. p = q
      BY <2>4, <3>1
    <3> QED
      BY <2>3, <3>2
  <2>6. \A x \in Range(r) : x \in Range(list) \ {k}
    <3> SUFFICES ASSUME NEW m \in 1..(Len(list) - 1) PROVE r[m] \in Range(list) \ {k}
      BY <2>3 DEF Range
    <3> DEFINE p == IF m < i THEN m ELSE m + 1
    <3>1. p \in 1..Len(list) /\ p # i /\ r[m] = list[p]
      BY <2>2, <2>3
    <3> HIDE DEF p
    <3> QED
      BY <2>1, <2>3, <2>4, <3>1 DEF Range
  <2>7. \A x \in Range(list) \ {k} : x \in Range(r)
    <3> SUFFICES ASSUME NEW m \in 1..Len(list), list[m] # k PROVE list[m] \in Range(r)
      BY <2>3 DEF Range
    <3> DEFINE p == IF m < i THEN m ELSE m - 1
    <3>1. p \in 1..(Len(list) - 1) /\ r[p] = list[m]
      BY <2>1, <2>2, <2>3
    <3> HIDE DEF p
    <3> QED
      BY <2>3, <3>1 DEF Range
  <2>8. Range(r) = Range(list) \ {k}
    BY <2>6, <2>7
  <2> QED
    BY <2>2, <2>5, <2>8 DEF r
<1> QED
  BY <1>1, <1>2

\* The first n keys of the list and the rest of it.
LEMMA CutHolds ==
    ASSUME NEW K, NEW list \in Seq(K), IsInjective(list), NEW n \in 0..Len(list)
    PROVE  /\ SubSeq(list, 1, n) \in Seq(K) /\ Len(SubSeq(list, 1, n)) = n
           /\ \A m \in 1..n : SubSeq(list, 1, n)[m] = list[m]
           /\ IsInjective(SubSeq(list, 1, n))
           /\ Range(SubSeq(list, 1, n)) = {list[m] : m \in 1..n}
           /\ Range(SubSeq(list, n + 1, Len(list))) = Range(list) \ Range(SubSeq(list, 1, n))
<1> DEFINE a == SubSeq(list, 1, n)
           b == SubSeq(list, n + 1, Len(list))
<1>1. a \in Seq(K) /\ Len(a) = n /\ \A m \in 1..n : a[m] = list[m]
  <2>1. \A m \in 1..n : list[m] \in K
    OBVIOUS
  <2> QED
    BY <2>1, SubSeqProperties
<1>2. b \in Seq(K) /\ Len(b) = Len(list) - n /\ \A m \in 1..(Len(list) - n) : b[m] = list[m + n]
  <2>1. \A m \in (n + 1)..Len(list) : list[m] \in K
    OBVIOUS
  <2> QED
    BY <2>1, SubSeqProperties
<1> HIDE DEF a, b
<1>3. DOMAIN a = 1..n /\ DOMAIN b = 1..(Len(list) - n) /\ DOMAIN list = 1..Len(list)
      /\ Len(list) \in Nat
  BY <1>1, <1>2
<1>4. \A x, y \in 1..Len(list) : list[x] = list[y] => x = y
  BY <1>3 DEF IsInjective
<1>5. IsInjective(a)
  BY <1>1, <1>3, <1>4 DEF IsInjective
<1>6. Range(a) = {list[m] : m \in 1..n}
  BY <1>1, <1>3 DEF Range
<1>7. \A x \in Range(b) : x \in Range(list) \ Range(a)
  <2> SUFFICES ASSUME NEW m \in 1..(Len(list) - n) PROVE b[m] \in Range(list) \ Range(a)
    BY <1>3 DEF Range
  <2>1. b[m] = list[m + n] /\ m + n \in 1..Len(list) /\ m + n \notin 1..n
    BY <1>2, <1>3
  <2>2. \A y \in 1..n : list[y] # list[m + n]
    BY <1>3, <1>4, <2>1
  <2>3. b[m] \notin Range(a)
    BY <1>6, <2>1, <2>2
  <2>4. b[m] \in Range(list)
    BY <1>3, <2>1 DEF Range
  <2> QED
    BY <2>3, <2>4
<1>8. \A x \in Range(list) \ Range(a) : x \in Range(b)
  <2> SUFFICES ASSUME NEW m \in 1..Len(list), list[m] \notin Range(a) PROVE list[m] \in Range(b)
    BY <1>3 DEF Range
  <2>1. m \notin 1..n
    BY <1>6
  <2>2. m - n \in 1..(Len(list) - n) /\ b[m - n] = list[m]
    <3>1. m - n \in 1..(Len(list) - n) /\ (m - n) + n = m
      BY <1>3, <2>1
    <3>2. b[m - n] = list[(m - n) + n]
      BY <1>2, <3>1
    <3> QED
      BY <3>1, <3>2
  <2> QED
    BY <1>3, <2>2 DEF Range
<1> QED
  BY <1>1, <1>5, <1>6, <1>7, <1>8 DEF a, b

\* A key in front of a list that does not hold it.
LEMMA InFrontHolds ==
    ASSUME NEW K, NEW list \in Seq(K), IsInjective(list), NEW k \in K, k \notin Range(list)
    PROVE  /\ <<k>> \o list \in Seq(K) /\ Len(<<k>> \o list) = Len(list) + 1
           /\ (<<k>> \o list)[1] = k
           /\ \A m \in 1..Len(list) : (<<k>> \o list)[m + 1] = list[m]
           /\ IsInjective(<<k>> \o list)
           /\ Range(<<k>> \o list) = {k} \cup Range(list)
<1> DEFINE r == <<k>> \o list
<1>1. <<k>> \in Seq(K) /\ Len(<<k>>) = 1 /\ <<k>>[1] = k
  OBVIOUS
<1>2. /\ r \in Seq(K) /\ Len(r) = Len(list) + 1
      /\ \A m \in 1..(Len(list) + 1) : r[m] = IF m <= 1 THEN <<k>>[m] ELSE list[m - 1]
  BY <1>1, ConcatProperties
<1> HIDE DEF r
<1>3. DOMAIN r = 1..(Len(list) + 1) /\ DOMAIN list = 1..Len(list) /\ Len(list) \in Nat
  BY <1>2
<1>4. r[1] = k /\ \A m \in 1..Len(list) : r[m + 1] = list[m]
  BY <1>1, <1>2, <1>3
<1>5. \A m \in 1..(Len(list) + 1) :
         (m = 1 /\ r[m] = k) \/ (m - 1 \in 1..Len(list) /\ r[m] = list[m - 1])
  BY <1>1, <1>2, <1>3
<1>6. \A x, y \in 1..Len(list) : list[x] = list[y] => x = y
  BY <1>3 DEF IsInjective
<1>7. \A m \in 1..Len(list) : list[m] # k
  BY <1>3 DEF Range
<1>8. IsInjective(r)
  <2> SUFFICES ASSUME NEW x \in 1..(Len(list) + 1), NEW y \in 1..(Len(list) + 1), r[x] = r[y]
               PROVE  x = y
    BY <1>3 DEF IsInjective
  <2> QED
    BY <1>5, <1>6, <1>7
<1>9. Range(r) = {k} \cup Range(list)
  <2>1. \A x \in Range(r) : x \in {k} \cup Range(list)
    BY <1>3, <1>5 DEF Range
  <2>2. \A m \in 1..Len(list) : list[m] \in Range(r)
    <3> SUFFICES ASSUME NEW m \in 1..Len(list) PROVE list[m] \in Range(r)
      OBVIOUS
    <3>1. m + 1 \in DOMAIN r /\ r[m + 1] = list[m]
      BY <1>3, <1>4
    <3> QED
      BY <3>1 DEF Range
  <2>3. k \in Range(r)
    BY <1>3, <1>4 DEF Range
  <2> QED
    BY <1>3, <2>1, <2>2, <2>3 DEF Range
<1> QED
  BY <1>2, <1>4, <1>8, <1>9 DEF r

-----------------------------------------------------------------------------
(* The cache                                                                *)

Entries == [data : Contents, age : Nat]

CacheType ==
    /\ cache_ \in [Keys -> Entries \cup {Absent}]
    /\ lru_list_ \in Seq(Keys)

CacheInv == CacheType /\ Consistent

\* The sizes in a map, and their sum over some keys.
SizesIn(map) == [k \in Keys |-> IF map[k] = Absent THEN 0 ELSE map[k].data.size]
SumIn(map, keys) == SumFunctionOnSet(SizesIn(map), keys)

\* An entry is no Absent and its size is a number.
LEMMA EntryFacts ==
    ASSUME NEW e \in Entries
    PROVE  e # Absent /\ e.data \in Contents /\ e.age \in Nat /\ e.data.size \in Nat
BY CacheAssumption DEF Entries

\* Sizes are numbers.
LEMMA SizesNat ==
    ASSUME NEW map \in [Keys -> Entries \cup {Absent}], NEW S \in SUBSET Keys
    PROVE  \A k \in S : SizesIn(map)[k] \in Nat
<1> SUFFICES ASSUME NEW k \in S PROVE SizesIn(map)[k] \in Nat
  OBVIOUS
<1>1. map[k] # Absent => map[k].data.size \in Nat
  BY EntryFacts
<1> QED
  BY <1>1 DEF SizesIn

\* Adding sizes up: a key, a part and the rest.
LEMMA SumInFacts ==
    ASSUME NEW map \in [Keys -> Entries \cup {Absent}],
           NEW S \in SUBSET Keys, IsFiniteSet(S)
    PROVE  /\ SumIn(map, {}) = 0
           /\ SumIn(map, S) \in Nat
           /\ \A k \in S : SumIn(map, S) = SizesIn(map)[k] + SumIn(map, S \ {k})
           /\ \A T \in SUBSET S : /\ SumIn(map, T) \in Nat /\ SumIn(map, S \ T) \in Nat
                                  /\ SumIn(map, S) = SumIn(map, T) + SumIn(map, S \ T)
<1>1. ASSUME NEW T \in SUBSET S PROVE SumIn(map, T) \in Nat
  <2>1. IsFiniteSet(T) /\ T \in SUBSET Keys
    BY FS_Subset
  <2> QED
    BY <2>1, SizesNat, SumNat DEF SumIn
<1>2. \A k \in S : SumIn(map, S) = SizesIn(map)[k] + SumIn(map, S \ {k})
  BY SizesNat, SumAdd DEF SumIn
<1>3. \A T \in SUBSET S : SumIn(map, S) = SumIn(map, T) + SumIn(map, S \ T)
  BY SizesNat, SumSplit DEF SumIn
<1>4. SumIn(map, {}) = 0
  BY SumUnfold DEF SumIn
<1> QED
  BY <1>1, <1>2, <1>3, <1>4

\* Maps that agree on some keys have the same sum over them.
LEMMA SumInSame ==
    ASSUME NEW map, NEW other, NEW S \in SUBSET Keys, IsFiniteSet(S),
           \A k \in S : map[k] # Absent /\ other[k] # Absent /\ map[k].data = other[k].data
    PROVE  SumIn(map, S) = SumIn(other, S)
<1>1. \A k \in S : SizesIn(map)[k] = SizesIn(other)[k]
  BY DEF SizesIn
<1> QED
  BY <1>1, SumSame DEF SumIn

\* What Bytes adds up.
LEMMA BytesAre ==
    ASSUME IsFiniteSet(Cached), NEW A
    PROVE  Bytes(A) = SumIn(cache_, A \cap Cached)
<1> DEFINE g == [k \in A \cap Cached |-> cache_[k].data.size]
<1>1. IsFiniteSet(A \cap Cached)
  BY FS_Subset
<1>2. DOMAIN g = A \cap Cached /\ \A k \in A \cap Cached : g[k] = SizesIn(cache_)[k]
  BY DEF SizesIn, Cached
<1>3. Bytes(A) = SumFunctionOnSet(g, A \cap Cached)
  BY <1>2 DEF Bytes, SumFunction
<1> HIDE DEF g
<1> QED
  BY <1>1, <1>2, <1>3, SumSame DEF SumIn

\* The same in the next state.
LEMMA BytesNext ==
    ASSUME IsFiniteSet(Cached')
    PROVE  Bytes(Cached)' = SumIn(cache_', Cached')
<1> DEFINE g == [k \in Cached' |-> cache_'[k].data.size]
<1>2. DOMAIN g = Cached' /\ \A k \in Cached' : g[k] = SizesIn(cache_')[k]
  BY DEF SizesIn, Cached
<1>3. Bytes(Cached)' = SumFunctionOnSet(g, Cached')
  <2>1. Cached' \cap Cached' = Cached'
    OBVIOUS
  <2> QED
    BY <1>2, <2>1 DEF Bytes, SumFunction
<1> HIDE DEF g
<1> QED
  BY <1>2, <1>3, SumSame DEF SumIn

\* What Consistent says, in sums.
LEMMA ConsistentFacts ==
    ASSUME CacheInv
    PROVE  /\ Cached \in SUBSET Keys /\ IsFiniteSet(Cached)
           /\ \A k \in Cached : cache_[k] \in Entries
           /\ current_size_ = SumIn(cache_, Cached)
           /\ current_size_ \in Nat /\ current_size_ <= max_size_bytes_
           /\ \A k \in Cached : /\ SizesIn(cache_)[k] = cache_[k].data.size
                                /\ SizesIn(cache_)[k] \in Nat
                                /\ SizeWithout(k) = SumIn(cache_, Cached \ {k})
<1>1. Cached \in SUBSET Keys /\ \A k \in Cached : cache_[k] \in Entries
  BY DEF Cached, CacheInv, CacheType
<1>2. IsFiniteSet(Cached)
  BY Holds DEF CacheInv, CacheType, Consistent
<1>3. current_size_ = SumIn(cache_, Cached)
  <2>1. Cached \cap Cached = Cached
    OBVIOUS
  <2>2. Bytes(Cached) = SumIn(cache_, Cached \cap Cached)
    BY <1>2, BytesAre
  <2> QED
    BY <2>1, <2>2 DEF CacheInv, Consistent
<1>4. cache_ \in [Keys -> Entries \cup {Absent}] /\ current_size_ <= max_size_bytes_
  BY DEF CacheInv, CacheType, Consistent
<1>5. current_size_ \in Nat
  BY <1>1, <1>2, <1>3, <1>4, SumInFacts
<1>6. ASSUME NEW k \in Cached
      PROVE  /\ SizesIn(cache_)[k] = cache_[k].data.size
             /\ SizesIn(cache_)[k] \in Nat
             /\ SizeWithout(k) = SumIn(cache_, Cached \ {k})
  <2>1. SizesIn(cache_)[k] = cache_[k].data.size
    BY <1>1 DEF Cached, SizesIn
  <2>2. SizesIn(cache_)[k] \in Nat
    BY <1>1, <2>1, EntryFacts
  <2>3. SumIn(cache_, Cached) = SizesIn(cache_)[k] + SumIn(cache_, Cached \ {k})
    BY <1>1, <1>2, <1>4, SumInFacts
  <2>4. SumIn(cache_, Cached \ {k}) \in Nat
    <3>1. Cached \ {k} \in SUBSET Cached
      OBVIOUS
    <3> QED
      BY <1>1, <1>2, <1>4, <3>1, SumInFacts
  <2> QED
    BY <1>3, <2>1, <2>2, <2>3, <2>4 DEF SizeWithout
<1> QED
  BY <1>1, <1>2, <1>3, <1>4, <1>5, <1>6

\* A next state that keeps some entries and nothing else is consistent.
LEMMA KeptConsistent ==
    ASSUME CacheInv, NEW S \in SUBSET Cached,
           cache_' \in [Keys -> Entries \cup {Absent}],
           lru_list_' \in Seq(Keys), IsInjective(lru_list_'),
           Range(lru_list_') = S, Cached' = S,
           \A k \in S : cache_'[k].data = cache_[k].data,
           current_size_' = SumIn(cache_, S)
    PROVE  CacheInv'
<1>1. Cached \in SUBSET Keys /\ IsFiniteSet(Cached) /\ cache_ \in [Keys -> Entries \cup {Absent}]
      /\ current_size_ = SumIn(cache_, Cached) /\ current_size_ <= max_size_bytes_
  BY ConsistentFacts DEF CacheInv, CacheType
<1>2. S \in SUBSET Keys /\ IsFiniteSet(S)
  BY <1>1, FS_Subset
<1>3. \A k \in S : cache_[k] # Absent /\ cache_'[k] # Absent
  BY DEF Cached
<1>4. SumIn(cache_', S) = SumIn(cache_, S)
  BY <1>2, <1>3, SumInSame
<1>5. SumIn(cache_, Cached) = SumIn(cache_, S) + SumIn(cache_, Cached \ S)
      /\ SumIn(cache_, S) \in Nat /\ SumIn(cache_, Cached \ S) \in Nat
  BY <1>1, SumInFacts
<1>6. current_size_' <= max_size_bytes_
  BY <1>1, <1>5, CacheAssumption
<1>7. Bytes(Cached)' = SumIn(cache_', S)
  BY <1>2, BytesNext
<1> QED
  BY <1>4, <1>6, <1>7 DEF CacheInv, CacheType, Consistent

\* An entry is erased.
LEMMA EraseConsistent ==
    ASSUME CacheInv, NEW k \in Cached, Erase(k)
    PROVE  CacheInv' /\ Cached' = Cached \ {k}
<1>1. CacheType /\ IsInjective(lru_list_) /\ Range(lru_list_) = Cached /\ k \in Keys
  BY DEF CacheInv, Consistent, Cached
<1>2. cache_' = [cache_ EXCEPT ![k] = Absent]
      /\ lru_list_' = Without(lru_list_, k) /\ current_size_' = SizeWithout(k)
  BY DEF Erase
<1>3. Cached' = Cached \ {k}
  BY <1>1, <1>2 DEF Cached, CacheType
<1>4. cache_' \in [Keys -> Entries \cup {Absent}]
  BY <1>1, <1>2 DEF CacheType
<1>5. lru_list_' \in Seq(Keys) /\ IsInjective(lru_list_') /\ Range(lru_list_') = Cached \ {k}
  BY <1>1, <1>2, WithoutHolds DEF CacheType
<1>6. \A j \in Cached \ {k} : cache_'[j].data = cache_[j].data
  BY <1>1, <1>2 DEF Cached, CacheType
<1>7. current_size_' = SumIn(cache_, Cached \ {k})
  BY <1>2, ConsistentFacts
<1>8. Cached \ {k} \in SUBSET Cached
  OBVIOUS
<1> QED
  BY <1>3, <1>4, <1>5, <1>6, <1>7, <1>8, KeptConsistent

\* Time passes.
LEMMA AgeConsistent ==
    ASSUME CacheInv, Age
    PROVE  CacheInv' /\ Cached' = Cached /\ \A k \in Cached : cache_'[k].data = cache_[k].data
<1>1. CacheType /\ IsInjective(lru_list_) /\ Range(lru_list_) = Cached
  BY DEF CacheInv, Consistent
<1>2. cache_' = [k \in Keys |->
          IF k \in Cached THEN [cache_[k] EXCEPT !.age = Older(k)] ELSE Absent]
      /\ UNCHANGED <<lru_list_, current_size_>>
  BY DEF Age
<1>3. ASSUME NEW k \in Cached
      PROVE  cache_'[k] \in Entries /\ cache_'[k].data = cache_[k].data
  <2>1. cache_[k] \in Entries /\ k \in Keys
    BY ConsistentFacts DEF Cached
  <2>2. Older(k) \in Nat
    <3> DEFINE a == cache_[k].age + 1
               b == ExpiredAge
    <3>1. a \in Nat /\ b \in Nat
      BY <2>1, CacheAssumption DEF Entries, ExpiredAge
    <3>2. \E x \in {a, b} : \A y \in {a, b} : x =< y
      <4> HIDE DEF a, b
      <4>1. CASE a <= b
        BY <3>1, <4>1
      <4>2. CASE b <= a
        BY <3>1, <4>2
      <4> QED
        BY <3>1, <4>1, <4>2
    <3>3. Min({a, b}) \in {a, b}
      <4> HIDE DEF a, b
      <4> QED
        BY <3>2 DEF Min
    <3>4. Older(k) = Min({a, b})
      BY DEF Older
    <3> HIDE DEF a, b
    <3> QED
      BY <3>1, <3>3, <3>4
  <2>3. cache_'[k] = [cache_[k] EXCEPT !.age = Older(k)]
    BY <1>2, <2>1
  <2> QED
    BY <2>1, <2>2, <2>3 DEF Entries
<1>4. \A k \in Keys : k \notin Cached => cache_'[k] = Absent
  BY <1>2
<1>5. Cached \in SUBSET Keys
  BY DEF Cached
<1>6. Cached' = Cached
  <2>1. \A k \in Keys : k \in Cached' <=> cache_'[k] # Absent
    BY DEF Cached
  <2>2. \A k \in Cached : cache_'[k] # Absent
    BY <1>3, EntryFacts
  <2>3. Cached' \in SUBSET Keys
    BY DEF Cached
  <2> QED
    BY <1>4, <1>5, <2>1, <2>2, <2>3
<1>7. cache_' \in [Keys -> Entries \cup {Absent}]
  <2>1. \A k \in Keys : cache_'[k] \in Entries \cup {Absent}
    BY <1>3, <1>4
  <2>2. cache_' = [k \in Keys |-> cache_'[k]]
    BY <1>2
  <2> QED
    BY <2>1, <2>2
<1>8. lru_list_' \in Seq(Keys) /\ IsInjective(lru_list_') /\ Range(lru_list_') = Cached
  BY <1>1, <1>2 DEF CacheType
<1>9. current_size_' = SumIn(cache_, Cached)
  BY <1>2, ConsistentFacts
<1> QED
  BY <1>3, <1>6, <1>7, <1>8, <1>9, KeptConsistent

\* A hit moves its key to the front.
LEMMA HitConsistent ==
    ASSUME CacheInv, NEW k, GetHit(k)
    PROVE  CacheInv' /\ Cached' = Cached
<1>1. CacheType /\ IsInjective(lru_list_) /\ Range(lru_list_) = Cached
  BY DEF CacheInv, Consistent
<1>2. k \in Cached /\ k \in Keys /\ lru_list_' = <<k>> \o Without(lru_list_, k)
      /\ UNCHANGED <<cache_, current_size_>>
  BY DEF GetHit, Touched, Cached
<1>3. Cached' = Cached
  BY <1>2 DEF Cached
<1> DEFINE list == Without(lru_list_, k)
<1>4. list \in Seq(Keys) /\ IsInjective(list) /\ Range(list) = Cached \ {k}
  BY <1>1, WithoutHolds DEF CacheType
<1>5. lru_list_' \in Seq(Keys) /\ IsInjective(lru_list_') /\ Range(lru_list_') = {k} \cup Range(list)
  <2> HIDE DEF list
  <2>1. k \notin Range(list)
    BY <1>4
  <2> QED
    BY <1>2, <1>4, <2>1, InFrontHolds DEF list
<1>6. Range(lru_list_') = Cached
  BY <1>2, <1>4, <1>5
<1>7. current_size_' = SumIn(cache_, Cached)
  BY <1>2, ConsistentFacts
<1>8. cache_' \in [Keys -> Entries \cup {Absent}]
  BY <1>1, <1>2 DEF CacheType
<1> QED
  BY <1>2, <1>3, <1>5, <1>6, <1>7, <1>8, KeptConsistent

\* Everything goes.
LEMMA ClearConsistent ==
    ASSUME CacheInv, Clear
    PROVE  CacheInv' /\ Cached' = {}
<1>1. cache_' = [k \in Keys |-> Absent] /\ lru_list_' = <<>> /\ current_size_' = 0
  BY DEF Clear
<1>2. Cached' = {} /\ cache_' \in [Keys -> Entries \cup {Absent}]
  BY <1>1 DEF Cached
<1>3. lru_list_' \in Seq(Keys) /\ IsInjective(lru_list_') /\ Range(lru_list_') = {}
  BY <1>1 DEF IsInjective, Range
<1>4. current_size_' = SumIn(cache_, {})
  BY <1>1, SumUnfold, FS_EmptySet DEF SumIn
<1> QED
  BY <1>2, <1>3, <1>4, KeptConsistent

\* The keys at the first n places of a list.
First(list, n) == Range(SubSeq(list, 1, n))

\* put keeps the longest first part of the list that fits beside the new data:
\* a first part fits if and only if it is no longer.
LEMMA PutFacts ==
    ASSUME CacheInv, NEW k \in Keys, NEW data \in Contents, Put(k, data)
    PROVE  \E n \in 0..Len(Without(lru_list_, k)) :
              /\ lru_list_' = <<k>> \o SubSeq(Without(lru_list_, k), 1, n)
              /\ cache_' = [j \in Keys |->
                    IF j = k THEN [data |-> data, age |-> 0]
                    ELSE IF j \in Range(Without(lru_list_, k)) \ First(Without(lru_list_, k), n)
                    THEN Absent ELSE cache_[j]]
              /\ current_size_' = SumIn(cache_, First(Without(lru_list_, k), n)) + data.size
              /\ \A m \in 0..Len(Without(lru_list_, k)) :
                    m <= n <=> SumIn(cache_, First(Without(lru_list_, k), m)) + data.size
                                  <= max_size_bytes_
<1> DEFINE list  == Without(lru_list_, k)
           total == IF k \in Cached THEN SizeWithout(k) ELSE current_size_
           fits  == {n \in 0..Len(list) :
                       total - Bytes(Range(SubSeq(list, n + 1, Len(list)))) + data.size
                          <= max_size_bytes_}
           n     == IF fits = {} THEN 0 ELSE Max(fits)
           kept  == SubSeq(list, 1, n)
           gone  == Range(SubSeq(list, Len(kept) + 1, Len(list)))
<1>1. /\ data.size <= max_size_bytes_
      /\ lru_list_' = <<k>> \o kept
      /\ cache_' = [j \in Keys |->
             IF j = k THEN [data |-> data, age |-> 0]
             ELSE IF j \in gone THEN Absent ELSE cache_[j]]
      /\ current_size_' = total - Bytes(gone) + data.size
  BY DEF Put, Survivors
<1>2. CacheType /\ IsInjective(lru_list_) /\ Range(lru_list_) = Cached
  BY DEF CacheInv, Consistent
<1>3. list \in Seq(Keys) /\ IsInjective(list) /\ Range(list) = Cached \ {k}
  BY <1>2, WithoutHolds DEF CacheType
<1>4. /\ Cached \in SUBSET Keys /\ IsFiniteSet(Cached)
      /\ cache_ \in [Keys -> Entries \cup {Absent}]
      /\ max_size_bytes_ \in Nat /\ data.size \in Nat
  BY <1>2, ConsistentFacts, CacheAssumption DEF CacheType
<1>5. total = SumIn(cache_, Range(list))
  <2>1. k \notin Cached => Cached \ {k} = Cached
    OBVIOUS
  <2>2. k \in Cached => total = SumIn(cache_, Cached \ {k})
    BY ConsistentFacts
  <2>3. k \notin Cached => total = SumIn(cache_, Cached)
    BY ConsistentFacts
  <2>4. total = SumIn(cache_, Cached \ {k})
    BY <2>1, <2>2, <2>3, Zenon
  <2> HIDE DEF total, list
  <2> QED
    BY <1>3, <2>4, Zenon
<1> HIDE DEF list, total
<1>6. Len(list) \in Nat
  BY <1>3
<1>7. Range(list) \in SUBSET Keys /\ IsFiniteSet(Range(list)) /\ Range(list) \in SUBSET Cached
  BY <1>3, <1>4, FS_Subset
<1>8. ASSUME NEW m \in 0..Len(list)
      PROVE  /\ First(list, m) \in SUBSET Range(list)
             /\ Range(SubSeq(list, m + 1, Len(list))) = Range(list) \ First(list, m)
             /\ SumIn(cache_, First(list, m)) \in Nat
             /\ total - Bytes(Range(SubSeq(list, m + 1, Len(list)))) = SumIn(cache_, First(list, m))
  <2> DEFINE rest == Range(SubSeq(list, m + 1, Len(list)))
  <2>1. rest = Range(list) \ First(list, m)
    BY <1>3, CutHolds DEF First
  <2>2. First(list, m) \in SUBSET Range(list)
    <3>1. First(list, m) = {list[j] : j \in 1..m}
      BY <1>3, CutHolds DEF First
    <3>2. \A j \in 1..m : list[j] \in Range(list)
      BY <1>3, <1>6, Holds
    <3> QED
      BY <3>1, <3>2
  <2>3. Bytes(rest) = SumIn(cache_, rest)
    <3>1. rest \cap Cached = rest
      BY <1>7, <2>1
    <3>2. Bytes(rest) = SumIn(cache_, rest \cap Cached)
      BY <1>4, BytesAre
    <3> QED
      BY <3>1, <3>2, Zenon
  <2>4. /\ SumIn(cache_, First(list, m)) \in Nat
        /\ SumIn(cache_, Range(list) \ First(list, m)) \in Nat
        /\ SumIn(cache_, Range(list))
             = SumIn(cache_, First(list, m)) + SumIn(cache_, Range(list) \ First(list, m))
    BY <1>4, <1>7, <2>2, SumInFacts
  <2>5. Bytes(rest) = SumIn(cache_, Range(list) \ First(list, m))
    BY <2>1, <2>3, Zenon
  <2>6. total - Bytes(rest) = SumIn(cache_, First(list, m))
    <3> HIDE DEF rest
    <3> QED
      BY <1>5, <2>4, <2>5
  <2> QED
    BY <2>1, <2>2, <2>4, <2>6
<1>9. \A m \in 0..Len(list) :
         m \in fits <=> SumIn(cache_, First(list, m)) + data.size <= max_size_bytes_
  <2> SUFFICES ASSUME NEW m \in 0..Len(list)
               PROVE  m \in fits <=> SumIn(cache_, First(list, m)) + data.size <= max_size_bytes_
    OBVIOUS
  <2>1. m \in fits <=> total - Bytes(Range(SubSeq(list, m + 1, Len(list)))) + data.size
                          <= max_size_bytes_
    OBVIOUS
  <2> HIDE DEF fits
  <2> QED
    BY <1>8, <2>1
<1>10. fits \in SUBSET (0..Len(list))
  OBVIOUS
<1>11. ASSUME NEW m \in 0..Len(list), NEW j \in 0..m PROVE First(list, j) \in SUBSET First(list, m)
  <2>1. j \in 0..Len(list)
    BY <1>6
  <2>2. First(list, m) = {list[i] : i \in 1..m} /\ First(list, j) = {list[i] : i \in 1..j}
    BY <1>3, <2>1, CutHolds DEF First
  <2>3. \A i \in 1..j : i \in 1..m
    OBVIOUS
  <2> QED
    BY <2>2, <2>3
<1>12. ASSUME NEW m \in fits, NEW j \in 0..m PROVE j \in fits
  <2>1. m \in 0..Len(list) /\ j \in 0..Len(list)
    BY <1>6, <1>10
  <2>2. First(list, j) \in SUBSET First(list, m)
    BY <1>11, <2>1
  <2>3. First(list, m) \in SUBSET Keys /\ IsFiniteSet(First(list, m))
    BY <1>7, <1>8, <2>1, FS_Subset
  <2>4. /\ SumIn(cache_, First(list, j)) \in Nat
        /\ SumIn(cache_, First(list, m) \ First(list, j)) \in Nat
        /\ SumIn(cache_, First(list, m))
             = SumIn(cache_, First(list, j)) + SumIn(cache_, First(list, m) \ First(list, j))
    BY <1>4, <2>2, <2>3, SumInFacts
  <2>5. SumIn(cache_, First(list, m)) + data.size <= max_size_bytes_
    BY <1>9, <2>1
  <2>6. SumIn(cache_, First(list, j)) + data.size <= max_size_bytes_
    BY <1>4, <2>4, <2>5
  <2> QED
    BY <1>9, <2>1, <2>6
<1>13. 0 \in fits
  <2>1. First(list, 0) = {}
    <3>1. 0 \in 0..Len(list)
      BY <1>6
    <3>2. First(list, 0) = {list[i] : i \in 1..0}
      BY <1>3, <3>1, CutHolds DEF First
    <3> QED
      BY <3>2
  <2>2. SumIn(cache_, First(list, 0)) = 0
    <3>1. SumIn(cache_, {}) = 0
      BY <1>4, SumInFacts
    <3> QED
      BY <2>1, <3>1, Zenon
  <2>3. SumIn(cache_, First(list, 0)) + data.size <= max_size_bytes_
    BY <1>1, <1>4, <2>2
  <2> HIDE DEF fits
  <2> QED
    BY <1>6, <1>9, <2>3
<1> HIDE DEF fits
<1>14. n \in fits /\ \A m \in fits : m <= n
  BY <1>6, <1>10, <1>13, Greatest
<1> HIDE DEF n
<1>15. n \in 0..Len(list)
  BY <1>10, <1>14
<1>16. Len(kept) = n
  BY <1>3, <1>15, CutHolds
<1>17. gone = Range(list) \ First(list, n)
  <2>1. gone = Range(SubSeq(list, n + 1, Len(list)))
    BY <1>16
  <2> HIDE DEF gone
  <2> QED
    BY <1>8, <1>15, <2>1
<1>18. current_size_' = SumIn(cache_, First(list, n)) + data.size
  <2>1. gone = Range(SubSeq(list, n + 1, Len(list)))
    BY <1>16
  <2>2. total - Bytes(gone) = SumIn(cache_, First(list, n))
    <3> HIDE DEF gone
    <3> QED
      BY <1>8, <1>15, <2>1, Zenon
  <2> HIDE DEF gone
  <2> QED
    BY <1>1, <2>2
<1>19. \A m \in 0..Len(list) :
          m <= n <=> SumIn(cache_, First(list, m)) + data.size <= max_size_bytes_
  <2> SUFFICES ASSUME NEW m \in 0..Len(list) PROVE m <= n <=> m \in fits
    BY <1>9
  <2>1. m <= n => m \in 0..n
    BY <1>6, <1>15
  <2> QED
    BY <1>12, <1>14, <2>1
<1>20. cache_' = [j \in Keys |->
          IF j = k THEN [data |-> data, age |-> 0]
          ELSE IF j \in Range(list) \ First(list, n) THEN Absent ELSE cache_[j]]
  <2> HIDE DEF gone
  <2> QED
    BY <1>1, <1>17, Zenon
<1> QED
  BY <1>1, <1>15, <1>18, <1>19, <1>20 DEF list

\* A new entry, what is left beside it and nothing else.
LEMMA PutConsistent ==
    ASSUME CacheInv, NEW k \in Keys, NEW data \in Contents, Put(k, data)
    PROVE  /\ CacheInv' /\ cache_'[k].data = data
           /\ \A j \in Cached' : j # k => j \in Cached /\ cache_'[j] = cache_[j]
<1> DEFINE list == Without(lru_list_, k)
<1>1. PICK n \in 0..Len(list) :
         /\ lru_list_' = <<k>> \o SubSeq(list, 1, n)
         /\ cache_' = [j \in Keys |->
               IF j = k THEN [data |-> data, age |-> 0]
               ELSE IF j \in Range(list) \ First(list, n) THEN Absent ELSE cache_[j]]
         /\ current_size_' = SumIn(cache_, First(list, n)) + data.size
         /\ \A m \in 0..Len(list) :
               m <= n <=> SumIn(cache_, First(list, m)) + data.size <= max_size_bytes_
  BY PutFacts
<1> DEFINE kept == SubSeq(list, 1, n)
           S == Range(kept)
<1>2. CacheType /\ IsInjective(lru_list_) /\ Range(lru_list_) = Cached
  BY DEF CacheInv, Consistent
<1>3. list \in Seq(Keys) /\ IsInjective(list) /\ Range(list) = Cached \ {k}
  BY <1>2, WithoutHolds DEF CacheType
<1>4. /\ Cached \in SUBSET Keys /\ IsFiniteSet(Cached)
      /\ cache_ \in [Keys -> Entries \cup {Absent}]
      /\ \A j \in Cached : cache_[j] \in Entries
      /\ max_size_bytes_ \in Nat /\ data.size \in Nat
  BY <1>2, ConsistentFacts, CacheAssumption DEF CacheType
<1> HIDE DEF list
<1>5. /\ First(list, n) = S /\ kept \in Seq(Keys) /\ IsInjective(kept)
      /\ Range(kept) = {list[m] : m \in 1..n}
  BY <1>3, CutHolds DEF First
<1>6. S \in SUBSET (Cached \ {k})
  <2>1. Len(list) \in Nat /\ \A m \in 1..Len(list) : list[m] \in Range(list)
    BY <1>3, Holds
  <2>2. \A m \in 1..n : list[m] \in Range(list)
    BY <2>1
  <2> QED
    BY <1>3, <1>5, <2>2
<1>7. cache_' = [j \in Keys |->
         IF j = k THEN [data |-> data, age |-> 0]
         ELSE IF j \in Range(list) \ S THEN Absent ELSE cache_[j]]
      /\ current_size_' = SumIn(cache_, S) + data.size
      /\ SumIn(cache_, S) + data.size <= max_size_bytes_
  <2>1. n \in 0..Len(list) /\ n <= n
    OBVIOUS
  <2>2. SumIn(cache_, First(list, n)) + data.size <= max_size_bytes_
    BY <1>1, <2>1
  <2> HIDE DEF S
  <2>3. First(list, n) = S
    BY <1>5
  <2> QED
    BY <1>1, <2>2, <2>3, Zenon
<1> HIDE DEF S, kept
<1>8. [data |-> data, age |-> 0] \in Entries
  BY DEF Entries
<1>9. cache_' \in [Keys -> Entries \cup {Absent}]
  BY <1>4, <1>7, <1>8
<1>10. /\ cache_'[k] = [data |-> data, age |-> 0]
       /\ \A j \in S : cache_'[j] = cache_[j]
       /\ \A j \in Keys : j # k /\ j \notin S => cache_'[j] = Absent
  <2>1. \A j \in S : j \in Keys /\ j # k
    BY <1>4, <1>6
  <2>2. \A j \in Keys : j # k /\ j \notin S => cache_'[j] = Absent
    <3> SUFFICES ASSUME NEW j \in Keys, j # k, j \notin S PROVE cache_'[j] = Absent
      OBVIOUS
    <3>1. CASE j \in Cached
      BY <1>3, <1>7, <3>1
    <3>2. CASE j \notin Cached
      BY <1>3, <1>7, <3>2 DEF Cached
    <3> QED
      BY <3>1, <3>2
  <2> QED
    BY <1>7, <2>1, <2>2
<1>11. Cached' = {k} \cup S
  <2>1. \A j \in S : j \in Keys /\ cache_'[j] # Absent
    BY <1>4, <1>6, <1>10, EntryFacts
  <2>2. cache_'[k] # Absent
    BY <1>8, <1>10, EntryFacts
  <2>3. \A j \in Keys : cache_'[j] # Absent => j \in {k} \cup S
    BY <1>10
  <2> QED
    BY <2>1, <2>2, <2>3 DEF Cached
<1>12. /\ lru_list_' \in Seq(Keys) /\ IsInjective(lru_list_') /\ Range(lru_list_') = {k} \cup S
  <2>1. k \notin Range(kept)
    BY <1>6 DEF S
  <2>2. lru_list_' = <<k>> \o kept
    BY <1>1 DEF kept
  <2> QED
    BY <1>5, <2>1, <2>2, InFrontHolds DEF S
<1>13. current_size_' = Bytes(Cached)'
  <2>1. IsFiniteSet(S) /\ S \in SUBSET Keys /\ k \notin S
    BY <1>4, <1>6, FS_Subset
  <2>2. IsFiniteSet(Cached') /\ Cached' \in SUBSET Keys
    BY <1>4, <1>6, <1>11, <2>1, FS_AddElement
  <2>3. Bytes(Cached)' = SumIn(cache_', Cached')
    BY <2>2, BytesNext
  <2>4. SumIn(cache_', Cached') = SizesIn(cache_')[k] + SumIn(cache_', Cached' \ {k})
    BY <1>9, <1>11, <2>2, SumInFacts
  <2>5. SizesIn(cache_')[k] = data.size
    <3>1. cache_'[k] # Absent /\ cache_'[k].data.size = data.size
      BY <1>8, <1>10, EntryFacts
    <3> QED
      BY <3>1 DEF SizesIn
  <2>6. Cached' \ {k} = S
    BY <1>11, <2>1
  <2>7. SumIn(cache_', S) = SumIn(cache_, S)
    <3>1. \A j \in S : cache_[j] # Absent /\ cache_'[j] # Absent /\ cache_'[j].data = cache_[j].data
      BY <1>6, <1>10 DEF Cached
    <3> QED
      BY <2>1, <3>1, SumInSame
  <2>8. SumIn(cache_', Cached') = data.size + SumIn(cache_, S)
    BY <2>4, <2>5, <2>6, <2>7, Zenon
  <2>9. SumIn(cache_, S) \in Nat
    BY <1>4, <2>1, SumInFacts
  <2> QED
    BY <1>4, <1>7, <2>3, <2>8, <2>9
<1>14. CacheInv'
  <2>1. Consistent'
    BY <1>7, <1>11, <1>12, <1>13 DEF Consistent
  <2> QED
    BY <1>9, <1>12, <2>1 DEF CacheInv, CacheType
<1> QED
  BY <1>6, <1>10, <1>11, <1>14

-----------------------------------------------------------------------------
(* The order of use                                                         *)

\* The keys in front of the m-th.
Ahead(list, m) == {list[j] : j \in 1..(m - 1)}

\* The history has no order of its own to keep: what has been answered from
\* since a key was is what is in front of it.
SinceInv ==
    /\ since \in [Keys -> SUBSET Keys]
    /\ \A m \in 1..Len(lru_list_) : since[lru_list_[m]] = Ahead(lru_list_, m)

\* Taking a key out of the list takes it out of what is in front of others.
LEMMA AheadWithout ==
    ASSUME NEW K, NEW list \in Seq(K), IsInjective(list), NEW k,
           NEW q \in 1..Len(Without(list, k))
    PROVE  \E m \in 1..Len(list) :
              /\ list[m] = Without(list, k)[q]
              /\ Ahead(list, m) \ {k} = Ahead(Without(list, k), q)
<1>1. CASE k \notin Range(list)
  <2>1. Without(list, k) = list
    BY <1>1, Holds DEF Without, RemoveFirst
  <2>2. Ahead(list, q) \ {k} = Ahead(list, q)
    <3>1. \A j \in 1..(q - 1) : j \in 1..Len(list)
      BY <2>1
    <3> QED
      BY <1>1, <3>1, Holds DEF Ahead
  <2> QED
    BY <2>1, <2>2
<1>2. CASE k \in Range(list)
  <2> DEFINE r == Without(list, k)
  <2>1. PICK i \in 1..Len(list) : k = list[i]
    BY <1>2, Holds
  <2>2. /\ r \in Seq(K) /\ Len(r) = Len(list) - 1
        /\ \A m \in 1..(Len(list) - 1) : r[m] = IF m < i THEN list[m] ELSE list[m + 1]
    BY <2>1, WithoutMember
  <2>3. q \in 1..Len(r)
    OBVIOUS
  <2> HIDE DEF r
  <2>4. DOMAIN list = 1..Len(list) /\ Len(list) \in Nat
    OBVIOUS
  <2>5. \A a, b \in 1..Len(list) : list[a] = list[b] => a = b
    BY <2>4 DEF IsInjective
  <2> DEFINE m == IF q < i THEN q ELSE q + 1
  <2>6. m \in 1..Len(list) /\ r[q] = list[m] /\ m # i
    BY <2>2, <2>3, <2>4
  <2>7. \A x \in Ahead(list, m) \ {k} : x \in Ahead(r, q)
    <3> SUFFICES ASSUME NEW j \in 1..(m - 1), list[j] # k PROVE list[j] \in Ahead(r, q)
      BY DEF Ahead
    <3> DEFINE p == IF j < i THEN j ELSE j - 1
    <3>1. p \in 1..(q - 1) /\ p \in 1..(Len(list) - 1) /\ r[p] = list[j]
      BY <2>1, <2>2, <2>3, <2>4
    <3> HIDE DEF p
    <3> QED
      BY <3>1 DEF Ahead
  <2>8. \A x \in Ahead(r, q) : x \in Ahead(list, m) \ {k}
    <3> SUFFICES ASSUME NEW j \in 1..(q - 1) PROVE r[j] \in Ahead(list, m) \ {k}
      BY DEF Ahead
    <3> DEFINE p == IF j < i THEN j ELSE j + 1
    <3>1. p \in 1..(m - 1) /\ p \in 1..Len(list) /\ p # i /\ r[j] = list[p]
      BY <2>2, <2>3, <2>4
    <3> HIDE DEF p, m
    <3> QED
      BY <2>1, <2>5, <3>1 DEF Ahead
  <2> HIDE DEF m
  <2>9. Ahead(list, m) \ {k} = Ahead(r, q)
    BY <2>7, <2>8
  <2> QED
    BY <2>6, <2>9 DEF r
<1> QED
  BY <1>1, <1>2

\* What is in front of a cached key is cached.
LEMMA AheadCached ==
    ASSUME CacheInv, NEW m \in 1..Len(lru_list_)
    PROVE  Ahead(lru_list_, m) \in SUBSET Cached /\ lru_list_[m] \in Cached
<1>1. lru_list_ \in Seq(Keys) /\ Range(lru_list_) = Cached
  BY DEF CacheInv, CacheType, Consistent
<1>2. \A j \in 1..(m - 1) : j \in 1..Len(lru_list_)
  BY <1>1
<1>3. \A j \in 1..Len(lru_list_) : lru_list_[j] \in Cached
  BY <1>1, Holds
<1> QED
  BY <1>2, <1>3 DEF Ahead

\* The history loses what is no longer cached, as the list does.
LEMMA SinceErased ==
    ASSUME CacheInv, SinceInv, NEW k \in Cached, Erase(k), since' = StillCached(since)
    PROVE  SinceInv'
<1>1. lru_list_ \in Seq(Keys) /\ IsInjective(lru_list_) /\ Range(lru_list_) = Cached
  BY DEF CacheInv, CacheType, Consistent
<1>2. lru_list_' = Without(lru_list_, k) /\ Cached' = Cached \ {k} /\ CacheInv'
  BY EraseConsistent DEF Erase
<1>3. since' = [j \in Keys |-> IF j \in Cached' THEN since[j] \cap Cached' ELSE {}]
  BY DEF StillCached, Cached
<1>4. since' \in [Keys -> SUBSET Keys]
  BY <1>3 DEF SinceInv
<1>5. ASSUME NEW q \in 1..Len(lru_list_') PROVE since'[lru_list_'[q]] = Ahead(lru_list_', q)
  <2>1. PICK m \in 1..Len(lru_list_) :
           /\ lru_list_[m] = lru_list_'[q]
           /\ Ahead(lru_list_, m) \ {k} = Ahead(lru_list_', q)
    BY <1>1, <1>2, AheadWithout
  <2>2. lru_list_'[q] \in Cached' /\ lru_list_'[q] \in Keys
    <3>1. lru_list_' \in Seq(Keys) /\ Range(lru_list_') = Cached'
      BY <1>2 DEF CacheInv, CacheType, Consistent
    <3> QED
      BY <3>1, Holds
  <2>3. since[lru_list_[m]] = Ahead(lru_list_, m)
    BY DEF SinceInv
  <2>4. Ahead(lru_list_, m) \in SUBSET Cached
    BY AheadCached
  <2> QED
    BY <1>2, <1>3, <2>1, <2>2, <2>3, <2>4
<1> QED
  BY <1>4, <1>5 DEF SinceInv

\* A key that is answered from moves to the front and is then in front of all
\* that stays.
LEMMA SinceServed ==
    ASSUME CacheInv, CacheInv', SinceInv, NEW k \in Keys, NEW n \in 0..Len(Without(lru_list_, k)),
           lru_list_' = <<k>> \o SubSeq(Without(lru_list_, k), 1, n),
           since' = StillCached(Serving(k))
    PROVE  SinceInv'
<1> DEFINE list == Without(lru_list_, k)
           kept == SubSeq(list, 1, n)
<1>1. lru_list_ \in Seq(Keys) /\ IsInjective(lru_list_) /\ Range(lru_list_) = Cached
  BY DEF CacheInv, CacheType, Consistent
<1>2. list \in Seq(Keys) /\ IsInjective(list) /\ Range(list) = Cached \ {k}
  BY <1>1, WithoutHolds
<1>0. n \in 0..Len(list) /\ Len(list) \in Nat /\ n \in Nat
  BY <1>2
<1> HIDE DEF list
<1>3. /\ kept \in Seq(Keys) /\ Len(kept) = n /\ IsInjective(kept)
      /\ \A m \in 1..n : kept[m] = list[m]
  BY <1>0, <1>2, CutHolds
<1>4. k \notin Range(kept)
  <2>1. Range(kept) = {list[m] : m \in 1..n}
    BY <1>0, <1>2, CutHolds
  <2>2. \A m \in 1..n : m \in 1..Len(list)
    BY <1>0
  <2>3. \A m \in 1..Len(list) : list[m] # k
    BY <1>2, Holds
  <2> QED
    BY <2>1, <2>2, <2>3
<1>5. lru_list_' = <<k>> \o kept
  BY DEF list
<1> HIDE DEF kept
<1>6. /\ Len(lru_list_') = n + 1 /\ lru_list_'[1] = k
      /\ \A m \in 1..n : lru_list_'[m + 1] = kept[m]
  <2>1. /\ Len(<<k>> \o kept) = Len(kept) + 1 /\ (<<k>> \o kept)[1] = k
        /\ \A m \in 1..Len(kept) : (<<k>> \o kept)[m + 1] = kept[m]
    <3>1. \A l \in Seq(Keys) : IsInjective(l) /\ k \notin Range(l) =>
             /\ Len(<<k>> \o l) = Len(l) + 1 /\ (<<k>> \o l)[1] = k
             /\ \A m \in 1..Len(l) : (<<k>> \o l)[m + 1] = l[m]
      BY InFrontHolds
    <3> QED
      BY <1>3, <1>4, <3>1, Zenon
  <2> QED
    BY <1>3, <1>5, <2>1, Zenon
<1>7. lru_list_' \in Seq(Keys) /\ Range(lru_list_') = Cached'
  BY DEF CacheInv, CacheType, Consistent
<1>8. /\ \A m \in 1..(n + 1) : lru_list_'[m] \in Cached'
      /\ \A m \in 2..(n + 1) : m - 1 \in 1..n /\ m - 1 \in 1..Len(list)
                               /\ lru_list_'[m] = list[m - 1]
  <2>1. \A m \in 1..(n + 1) : lru_list_'[m] \in Cached'
    <3> SUFFICES ASSUME NEW m \in 1..Len(lru_list_') PROVE lru_list_'[m] \in Cached'
      BY <1>6
    <3>1. lru_list_' \in Seq(Keys)
      BY <1>7
    <3>2. lru_list_'[m] \in Range(lru_list_')
      <4>1. m \in DOMAIN lru_list_'
        BY <3>1
      <4> QED
        BY <4>1 DEF Range
    <3> QED
      BY <1>7, <3>2
  <2>2. ASSUME NEW m \in 2..(n + 1)
        PROVE  m - 1 \in 1..n /\ m - 1 \in 1..Len(list) /\ lru_list_'[m] = list[m - 1]
    <3>1. m - 1 \in 1..n /\ m - 1 \in 1..Len(list) /\ (m - 1) + 1 = m
      BY <1>0
    <3>2. lru_list_'[(m - 1) + 1] = kept[m - 1] /\ kept[m - 1] = list[m - 1]
      BY <1>3, <1>6, <3>1
    <3> QED
      BY <3>1, <3>2
  <2> QED
    BY <2>1, <2>2
<1>9. since' = [j \in Keys |-> IF j \in Cached'
                               THEN (IF j = k THEN {} ELSE since[j] \cup {k}) \cap Cached'
                               ELSE {}]
  <2>1. since' = [j \in Keys |-> IF j \in Cached' THEN Serving(k)[j] \cap Cached' ELSE {}]
    BY DEF StillCached, Cached
  <2>2. \A j \in Keys : Serving(k)[j] = IF j = k THEN {} ELSE since[j] \cup {k}
    BY DEF Serving
  <2> QED
    BY <2>1, <2>2
<1>10. since' \in [Keys -> SUBSET Keys]
  BY <1>9 DEF SinceInv
<1>11. ASSUME NEW q \in 1..(n + 1) PROVE since'[lru_list_'[q]] = Ahead(lru_list_', q)
  <2>1. CASE q = 1
    <3>1. since'[k] = {}
      BY <1>9
    <3>2. Ahead(lru_list_', 1) = {}
      BY DEF Ahead
    <3> QED
      BY <1>6, <2>1, <3>1, <3>2
  <2>2. CASE q # 1
    <3>1. q \in 2..(n + 1)
      BY <2>2
    <3>2. q - 1 \in 1..Len(list) /\ lru_list_'[q] = list[q - 1]
      BY <1>8, <3>1
    <3>3. PICK m \in 1..Len(lru_list_) :
             /\ lru_list_[m] = list[q - 1]
             /\ Ahead(lru_list_, m) \ {k} = Ahead(list, q - 1)
      BY <1>1, <3>2, AheadWithout DEF list
    <3>4. list[q - 1] # k /\ list[q - 1] \in Keys
      <4>1. \A i \in 1..Len(list) : list[i] \in Keys /\ list[i] \in Range(list)
        BY <1>2, Holds, Zenon
      <4> QED
        BY <1>2, <3>2, <4>1, Zenon
    <3>5. since[list[q - 1]] = Ahead(lru_list_, m)
      BY <3>3 DEF SinceInv
    <3>6. since'[list[q - 1]] = (Ahead(lru_list_, m) \cup {k}) \cap Cached'
      BY <1>8, <1>9, <3>2, <3>4, <3>5
    <3>7. Ahead(lru_list_', q) = {k} \cup Ahead(list, q - 1)
      <4>1. \A x \in Ahead(lru_list_', q) : x \in {k} \cup Ahead(list, q - 1)
        <5> SUFFICES ASSUME NEW j \in 1..(q - 1)
                     PROVE  lru_list_'[j] \in {k} \cup Ahead(list, q - 1)
          BY DEF Ahead
        <5>1. CASE j = 1
          BY <1>6, <5>1
        <5>2. CASE j # 1
          <6>1. j \in 2..(n + 1) /\ j - 1 \in 1..((q - 1) - 1)
            BY <3>1, <5>2
          <6>2. lru_list_'[j] = list[j - 1]
            BY <1>8, <6>1
          <6> QED
            BY <6>1, <6>2 DEF Ahead
        <5> QED
          BY <5>1, <5>2
      <4>2. k \in Ahead(lru_list_', q)
        <5>1. 1 \in 1..(q - 1)
          BY <3>1
        <5> QED
          BY <1>6, <5>1 DEF Ahead
      <4>3. \A x \in Ahead(list, q - 1) : x \in Ahead(lru_list_', q)
        <5> SUFFICES ASSUME NEW j \in 1..((q - 1) - 1) PROVE list[j] \in Ahead(lru_list_', q)
          BY DEF Ahead
        <5>1. j + 1 \in 2..(n + 1) /\ j + 1 \in 1..(q - 1) /\ (j + 1) - 1 = j
          BY <3>1
        <5>2. lru_list_'[j + 1] = list[j]
          BY <1>8, <5>1
        <5> QED
          BY <5>1, <5>2 DEF Ahead
      <4> QED
        BY <4>1, <4>2, <4>3
    <3>8. Ahead(lru_list_', q) \in SUBSET Cached'
      <4>1. \A j \in 1..(q - 1) : j \in 1..(n + 1)
        OBVIOUS
      <4> QED
        BY <1>8, <4>1 DEF Ahead
    <3>9. (Ahead(lru_list_, m) \cup {k}) \cap Cached' = Ahead(lru_list_', q)
      BY <3>3, <3>7, <3>8
    <3> QED
      BY <3>2, <3>6, <3>9, Zenon
  <2> QED
    BY <2>1, <2>2
<1> QED
  BY <1>6, <1>10, <1>11 DEF SinceInv

\* The entries that stay under a new one are those that fit beside it together
\* with all that was answered from since.
LEMMA PutEvicts ==
    ASSUME CacheInv, SinceInv, NEW k \in Keys, NEW data \in Contents, Put(k, data),
           NEW j \in Cached \ {k}
    PROVE  cache_'[j] = Absent
              <=> Bytes((since[j] \cup {j}) \ {k}) + data.size > max_size_bytes_
<1> DEFINE list == Without(lru_list_, k)
<1>1. PICK n \in 0..Len(list) :
         /\ lru_list_' = <<k>> \o SubSeq(list, 1, n)
         /\ cache_' = [i \in Keys |->
               IF i = k THEN [data |-> data, age |-> 0]
               ELSE IF i \in Range(list) \ First(list, n) THEN Absent ELSE cache_[i]]
         /\ current_size_' = SumIn(cache_, First(list, n)) + data.size
         /\ \A m \in 0..Len(list) :
               m <= n <=> SumIn(cache_, First(list, m)) + data.size <= max_size_bytes_
  BY PutFacts
<1>2. lru_list_ \in Seq(Keys) /\ IsInjective(lru_list_) /\ Range(lru_list_) = Cached
  BY DEF CacheInv, CacheType, Consistent
<1>3. list \in Seq(Keys) /\ IsInjective(list) /\ Range(list) = Cached \ {k}
  BY <1>2, WithoutHolds
<1>4. \A q \in 1..Len(list) : \E m \in 1..Len(lru_list_) :
         lru_list_[m] = list[q] /\ Ahead(lru_list_, m) \ {k} = Ahead(list, q)
  BY <1>2, AheadWithout
<1> HIDE DEF list
<1>5. PICK q \in 1..Len(list) : j = list[q]
  BY <1>3, Holds
<1>6. PICK m \in 1..Len(lru_list_) :
         lru_list_[m] = list[q] /\ Ahead(lru_list_, m) \ {k} = Ahead(list, q)
  BY <1>4
<1>7. since[j] = Ahead(lru_list_, m)
  BY <1>5, <1>6 DEF SinceInv
<1>8. Len(list) \in Nat /\ n \in 0..Len(list) /\ q \in 0..Len(list)
  BY <1>3
<1>9. First(list, q) = {list[i] : i \in 1..q} /\ First(list, n) = {list[i] : i \in 1..n}
  <2>1. \A x \in 0..Len(list) : First(list, x) = {list[i] : i \in 1..x}
    BY <1>3, CutHolds DEF First
  <2> QED
    BY <1>8, <2>1
<1>10. (since[j] \cup {j}) \ {k} = First(list, q)
  <2>1. (since[j] \cup {j}) \ {k} = Ahead(list, q) \cup {j}
    BY <1>6, <1>7
  <2>2. \A x \in Ahead(list, q) \cup {j} : x \in First(list, q)
    <3>1. q \in 1..q /\ \A i \in 1..(q - 1) : i \in 1..q
      BY <1>8
    <3> QED
      BY <1>5, <1>9, <3>1 DEF Ahead
  <2>3. \A x \in First(list, q) : x \in Ahead(list, q) \cup {j}
    <3> SUFFICES ASSUME NEW i \in 1..q PROVE list[i] \in Ahead(list, q) \cup {j}
      BY <1>9
    <3>1. i = q \/ i \in 1..(q - 1)
      BY <1>8
    <3> QED
      BY <1>5, <3>1 DEF Ahead
  <2> QED
    BY <2>1, <2>2, <2>3
<1>11. First(list, q) \in SUBSET Cached
  <2>1. \A i \in 1..q : i \in 1..Len(list)
    BY <1>8
  <2>2. \A i \in 1..Len(list) : list[i] \in Cached
    BY <1>3, Holds
  <2> QED
    BY <1>9, <2>1, <2>2
<1>12. Bytes((since[j] \cup {j}) \ {k}) = SumIn(cache_, First(list, q))
  <2>1. IsFiniteSet(Cached)
    BY ConsistentFacts
  <2>2. First(list, q) \cap Cached = First(list, q)
    BY <1>11
  <2>3. Bytes(First(list, q)) = SumIn(cache_, First(list, q) \cap Cached)
    BY <2>1, BytesAre
  <2> QED
    BY <1>10, <2>2, <2>3, Zenon
<1>13. cache_'[j] = Absent <=> ~(q <= n)
  <2>1. j \in Keys /\ j # k /\ cache_[j] # Absent /\ j \in Range(list)
    BY <1>3 DEF Cached
  <2>2. cache_'[j] = Absent <=> j \notin First(list, n)
    BY <1>1, <2>1
  <2>3. j \in First(list, n) <=> q <= n
    <3>1. q <= n => q \in 1..n
      BY <1>8
    <3>2. \A i \in 1..n : i \in 1..Len(list)
      BY <1>8
    <3>3. \A a, b \in 1..Len(list) : list[a] = list[b] => a = b
      BY <1>3 DEF IsInjective
    <3> QED
      BY <1>5, <1>8, <1>9, <3>1, <3>2, <3>3
  <2> QED
    BY <2>2, <2>3
<1>14. q <= n <=> SumIn(cache_, First(list, q)) + data.size <= max_size_bytes_
  BY <1>1, <1>8
<1>15. SumIn(cache_, First(list, q)) \in Nat /\ data.size \in Nat /\ max_size_bytes_ \in Nat
  <2>1. Cached \in SUBSET Keys /\ IsFiniteSet(Cached) /\ cache_ \in [Keys -> Entries \cup {Absent}]
    BY ConsistentFacts DEF CacheInv, CacheType
  <2> QED
    BY <1>11, <2>1, SumInFacts, CacheAssumption
<1> QED
  BY <1>12, <1>13, <1>14, <1>15

-----------------------------------------------------------------------------
(* sanitize_path                                                            *)

\* What a segment does to the depth, and what places i to j do.
Delta(segment) == IF segment \in {"", "."} THEN 0 ELSE IF segment = ".." THEN -1 ELSE 1
Balance(p, i, j) == Downs(p, i, j) - Ups(p, i, j)

\* Counting place by place.
LEMMA CountStep ==
    ASSUME NEW p, NEW S, NEW i \in Nat, NEW j \in Nat
    PROVE  /\ Count(p, i, j, S) \in Nat
           /\ j < i => Count(p, i, j, S) = 0
           /\ i <= j + 1 => Count(p, i, j + 1, S)
                              = Count(p, i, j, S) + (IF p[j + 1] \in S THEN 1 ELSE 0)
<1> DEFINE C == {n \in i..j : p[n] \in S}
<1>1. IsFiniteSet(C)
  <2>1. IsFiniteSet(i..j) /\ C \in SUBSET (i..j)
    BY FS_Interval
  <2> QED
    BY <2>1, FS_Subset
<1>2. Count(p, i, j, S) \in Nat
  BY <1>1, FS_CardinalityType DEF Count
<1>3. ASSUME j < i PROVE Count(p, i, j, S) = 0
  <2>1. C = {}
    BY <1>3
  <2> QED
    BY <2>1, FS_EmptySet DEF Count
<1>4. ASSUME i <= j + 1
      PROVE  Count(p, i, j + 1, S) = Count(p, i, j, S) + (IF p[j + 1] \in S THEN 1 ELSE 0)
  <2> DEFINE N == {n \in i..(j + 1) : p[n] \in S}
  <2>1. CASE p[j + 1] \in S
    <3>1. N = C \cup {j + 1} /\ j + 1 \notin C
      BY <1>4, <2>1
    <3> HIDE DEF C
    <3>2. Cardinality(C \cup {j + 1}) = Cardinality(C) + 1
      BY <1>1, <3>1, FS_AddElement
    <3>3. Cardinality(N) = Cardinality(C) + 1
      <4> HIDE DEF N
      <4> QED
        BY <3>1, <3>2, Zenon
    <3> QED
      BY <2>1, <3>3 DEF Count, C
  <2>2. CASE p[j + 1] \notin S
    <3>1. N = C
      BY <1>4, <2>2
    <3>2. Count(p, i, j + 1, S) = Count(p, i, j, S)
      <4>1. Count(p, i, j + 1, S) = Cardinality(N) /\ Count(p, i, j, S) = Cardinality(C)
        BY DEF Count
      <4> HIDE DEF N, C
      <4> QED
        BY <3>1, <4>1, Zenon
    <3> QED
      BY <1>2, <2>2, <3>2
  <2> QED
    BY <2>1, <2>2
<1> QED
  BY <1>2, <1>3, <1>4

\* The balance place by place.
LEMMA BalanceStep ==
    ASSUME NEW p, NEW i \in Nat, NEW j \in Nat
    PROVE  /\ i <= j + 1 => Balance(p, i, j) \in Int
           /\ i = j + 1 => Balance(p, i, j) = 0
           /\ i <= j + 1 => Balance(p, i, j + 1) = Balance(p, i, j) + Delta(p[j + 1])
           /\ Balance(p, i, j) < 0 <=> Ups(p, i, j) > Downs(p, i, j)
           /\ Balance(p, i, j) >= 0 <=> Ups(p, i, j) <= Downs(p, i, j)
<1> DEFINE up   == {".."}
           stay == {"", ".", ".."}
           U(n) == Count(p, i, n, up)
           A(n) == Count(p, i, n, stay)
<1>0. /\ p[j + 1] \in up <=> p[j + 1] = ".."
      /\ p[j + 1] \in stay <=> p[j + 1] \in {"", "."} \/ p[j + 1] = ".."
      /\ ".." \notin {"", "."}
  OBVIOUS
<1>3. /\ Balance(p, i, j) = (j - i + 1) - A(j) - U(j)
      /\ Balance(p, i, j + 1) = (j + 1 - i + 1) - A(j + 1) - U(j + 1)
      /\ Ups(p, i, j) = U(j) /\ Downs(p, i, j) = (j - i + 1) - A(j)
  BY DEF Balance, Ups, Downs
<1> HIDE DEF up, stay
<1>1. /\ U(j) \in Nat /\ A(j) \in Nat
      /\ j < i => U(j) = 0 /\ A(j) = 0
  BY CountStep
<1>2. i <= j + 1 => /\ U(j + 1) = U(j) + (IF p[j + 1] \in up THEN 1 ELSE 0)
                    /\ A(j + 1) = A(j) + (IF p[j + 1] \in stay THEN 1 ELSE 0)
  BY CountStep
<1> HIDE DEF U, A
<1>4. i <= j + 1 => Balance(p, i, j + 1) = Balance(p, i, j) + Delta(p[j + 1])
  <2> SUFFICES ASSUME i <= j + 1
               PROVE  Balance(p, i, j + 1) = Balance(p, i, j) + Delta(p[j + 1])
    OBVIOUS
  <2>1. CASE p[j + 1] \in {"", "."}
    <3>1. Delta(p[j + 1]) = 0 /\ U(j + 1) = U(j) /\ A(j + 1) = A(j) + 1
      <4>1. p[j + 1] # ".." /\ Delta(p[j + 1]) = 0
        BY <2>1 DEF Delta
      <4>2. p[j + 1] \notin up /\ p[j + 1] \in stay
        BY <1>0, <2>1, <4>1, Zenon
      <4> QED
        BY <1>1, <1>2, <4>1, <4>2
    <3> QED
      BY <1>1, <1>3, <3>1
  <2>2. CASE p[j + 1] = ".."
    <3>1. Delta(p[j + 1]) = -1 /\ U(j + 1) = U(j) + 1 /\ A(j + 1) = A(j) + 1
      BY <1>0, <1>1, <1>2, <2>2 DEF Delta
    <3> QED
      BY <1>1, <1>3, <3>1
  <2>3. CASE p[j + 1] \notin {"", "."} /\ p[j + 1] # ".."
    <3>1. Delta(p[j + 1]) = 1 /\ U(j + 1) = U(j) /\ A(j + 1) = A(j)
      <4>1. Delta(p[j + 1]) = 1
        BY <2>3 DEF Delta
      <4>2. p[j + 1] \notin up /\ p[j + 1] \notin stay
        BY <1>0, <2>3, Zenon
      <4> QED
        BY <1>1, <1>2, <4>1, <4>2
    <3> QED
      BY <1>1, <1>3, <3>1
  <2> QED
    BY <2>1, <2>2, <2>3
<1> QED
  BY <1>1, <1>3, <1>4

Start == [depth |-> 0, parts |-> <<>>]

\* The loop has a run.
LEMMA LoopExists ==
    ASSUME NEW p, NEW l \in Nat
    PROVE  \E g : g = [n \in 0..l |-> IF n = 0 THEN Start ELSE PathStep(g[n - 1], p[n])]
<1> DEFINE Turn(g, n) == IF n = 0 THEN Start ELSE PathStep(g[n - 1], p[n])
           D == {m \in Nat : \E g : g = [n \in 0..m |-> Turn(g, n)]}
<1>1. 0 \in D
  <2> DEFINE g == [n \in 0..0 |-> Start]
  <2>1. g = [n \in 0..0 |-> Turn(g, n)]
    OBVIOUS
  <2> QED
    BY <2>1
<1>2. ASSUME NEW m \in Nat, m \in D PROVE m + 1 \in D
  <2>1. PICK g : g = [n \in 0..m |-> Turn(g, n)]
    BY <1>2
  <2> DEFINE h == [n \in 0..(m + 1) |-> Turn(g, n)]
  <2>2. \A n \in 0..m : h[n] = g[n] /\ n \in 0..(m + 1)
    BY <2>1
  <2>3. ASSUME NEW n \in 0..(m + 1) PROVE Turn(g, n) = Turn(h, n)
    <3>1. n # 0 => n - 1 \in 0..m
      OBVIOUS
    <3>2. n # 0 => g[n - 1] = h[n - 1]
      BY <2>2, <3>1
    <3> QED
      BY <3>2
  <2>4. h = [n \in 0..(m + 1) |-> Turn(h, n)]
    BY <2>3
  <2> HIDE DEF h
  <2> QED
    BY <2>4
<1>3. l \in D
  <2> HIDE DEF D
  <2> QED
    BY <1>1, <1>2, Induction
<1> QED
  BY <1>3

\* sanitize_path is where its loop ends.
LEMMA LoopRuns ==
    ASSUME NEW p \in Seq(STRING)
    PROVE  \E g : /\ g[0] = Start
                  /\ \A n \in 1..Len(p) : g[n] = PathStep(g[n - 1], p[n])
                  /\ sanitize_path(p) = g[Len(p)]
<1> DEFINE g == CHOOSE g : g = [n \in 0..Len(p) |->
                                  IF n = 0 THEN Start ELSE PathStep(g[n - 1], p[n])]
<1>1. sanitize_path(p) = g[Len(p)]
  BY DEF sanitize_path, Start
<1>2. g = [n \in 0..Len(p) |-> IF n = 0 THEN Start ELSE PathStep(g[n - 1], p[n])]
  <2>1. Len(p) \in Nat
    OBVIOUS
  <2> QED
    BY <2>1, LoopExists
<1> HIDE DEF g
<1>3. Len(p) \in Nat
  OBVIOUS
<1>4. g[0] = Start /\ \A n \in 1..Len(p) : g[n] = PathStep(g[n - 1], p[n])
  BY <1>2, <1>3
<1> QED
  BY <1>1, <1>4

\* Q holds, in order, the places of the names that the loop has kept after n
\* segments; the m-th of them is followed by a surplus of as many names as
\* come after it.
Tracks(p, n, acc, Q) ==
    /\ Q \in Seq(1..n)
    /\ \A i, j \in 1..Len(Q) : i < j => Q[i] < Q[j]
    /\ \A i \in 1..Len(Q) : Q[i] \in Stay(p, n) /\ Balance(p, Q[i] + 1, n) = Len(Q) - i
    /\ \A x \in Stay(p, n) : \E i \in 1..Len(Q) : Q[i] = x
    /\ Balance(p, 1, n) = Len(Q)
    /\ acc.depth = Len(Q)
    /\ acc.parts \in Seq(STRING) /\ Len(acc.parts) = Len(Q)
    /\ \A i \in 1..Len(Q) : acc.parts[i] = p[Q[i]]

\* The loop is blocked if some first part went up too often; else it is at
\* such places.
Follows(p, n, acc) ==
    /\ acc.depth \in Int
    /\ acc.depth < 0 <=> \E j \in 1..n : Balance(p, 1, j) < 0
    /\ acc.depth >= 0 => \E Q : Tracks(p, n, acc, Q)

\* A segment that is kept.
IsName(segment) == segment \notin {"", ".", ".."}

\* A name stays kept if nothing takes it back at the next place.
LEMMA StayStep ==
    ASSUME NEW p, NEW n \in Nat, NEW x \in 1..n
    PROVE  x \in Stay(p, n + 1) <=> x \in Stay(p, n) /\ Balance(p, x + 1, n + 1) >= 0
<1>1. \A j \in Nat : Ups(p, x + 1, j) <= Downs(p, x + 1, j) <=> Balance(p, x + 1, j) >= 0
  <2>1. x + 1 \in Nat
    OBVIOUS
  <2> QED
    BY <2>1, BalanceStep
<1>2. x..(n + 1) = (x..n) \cup {n + 1}
  OBVIOUS
<1>3. \A j \in x..n : j \in Nat
  OBVIOUS
<1>4. (\A j \in x..(n + 1) : Ups(p, x + 1, j) <= Downs(p, x + 1, j))
         <=> /\ \A j \in x..n : Ups(p, x + 1, j) <= Downs(p, x + 1, j)
             /\ Balance(p, x + 1, n + 1) >= 0
  BY <1>1, <1>2, <1>3
<1>5. \A m \in Nat : x \in Stay(p, m) <=>
         /\ x \in 1..m /\ IsName(p[x])
         /\ \A j \in x..m : Ups(p, x + 1, j) <= Downs(p, x + 1, j)
  BY Zenon DEF Stay, IsName
<1>6. x \in 1..(n + 1) /\ n + 1 \in Nat
  OBVIOUS
<1> QED
  BY <1>4, <1>5, <1>6

\* The last place stays kept if it is a name.
LEMMA StayLast ==
    ASSUME NEW p, NEW n \in Nat
    PROVE  n + 1 \in Stay(p, n + 1) <=> IsName(p[n + 1])
<1>1. \A j \in (n + 1)..(n + 1) : j = n + 1
  OBVIOUS
<1>2. Ups(p, n + 2, n + 1) <= Downs(p, n + 2, n + 1)
  <2>1. n + 2 \in Nat /\ n + 1 \in Nat /\ n + 2 = (n + 1) + 1
    OBVIOUS
  <2>2. Balance(p, n + 2, n + 1) = 0
    BY <2>1, BalanceStep
  <2> QED
    BY <2>1, <2>2, BalanceStep
<1>3. (n + 1) + 1 = n + 2 /\ n + 1 \in 1..(n + 1)
  OBVIOUS
<1> QED
  BY <1>1, <1>2, <1>3 DEF Stay, IsName

\* The loop starts so.
LEMMA FollowsStart ==
    ASSUME NEW p
    PROVE  Follows(p, 0, Start)
<1>1. Balance(p, 1, 0) = 0
  <2>1. 1 \in Nat /\ 0 \in Nat /\ 1 = 0 + 1
    OBVIOUS
  <2> QED
    BY <2>1, BalanceStep
<1>2. Stay(p, 0) = {}
  BY DEF Stay
<1>3. Tracks(p, 0, Start, <<>>)
  BY <1>1, <1>2 DEF Tracks, Start
<1>4. Start.depth = 0
  BY DEF Start
<1> QED
  BY <1>3, <1>4 DEF Follows

\* A segment that does nothing, keeps what there is.
LEMMA TracksNothing ==
    ASSUME NEW p \in Seq(STRING), NEW n \in Nat, n + 1 \in 1..Len(p),
           NEW acc, NEW Q, Tracks(p, n, acc, Q), Delta(p[n + 1]) = 0, ~IsName(p[n + 1])
    PROVE  Tracks(p, n + 1, acc, Q) /\ Balance(p, 1, n + 1) = Balance(p, 1, n)
<1>1. Q \in Seq(1..n) /\ Len(Q) \in Nat /\ \A i \in 1..Len(Q) : Q[i] \in 1..n
  BY DEF Tracks
<1>2. \A x \in 0..n : x + 1 \in Nat /\ x + 1 <= n + 1
  OBVIOUS
<1>3. \A x \in 0..n : Balance(p, x + 1, n + 1) = Balance(p, x + 1, n) /\ Balance(p, x + 1, n) \in Int
  <2> SUFFICES ASSUME NEW x \in 0..n
               PROVE  /\ Balance(p, x + 1, n + 1) = Balance(p, x + 1, n)
                      /\ Balance(p, x + 1, n) \in Int
    OBVIOUS
  <2>1. Balance(p, x + 1, n) \in Int
        /\ Balance(p, x + 1, n + 1) = Balance(p, x + 1, n) + Delta(p[n + 1])
    BY <1>2, BalanceStep
  <2> QED
    BY <2>1
<1>4. \A i \in 1..Len(Q) : Q[i] \in Stay(p, n) /\ Balance(p, Q[i] + 1, n) = Len(Q) - i
  BY DEF Tracks
<1>5. \A i \in 1..Len(Q) : Balance(p, Q[i] + 1, n + 1) = Len(Q) - i /\ Len(Q) - i >= 0
  <2>1. \A i \in 1..Len(Q) : Q[i] \in 0..n
    BY <1>1
  <2> QED
    BY <1>1, <1>3, <1>4, <2>1
<1>6. ASSUME NEW i \in 1..Len(Q) PROVE Q[i] \in Stay(p, n + 1)
  <2>1. Q[i] \in 1..n
    BY <1>1
  <2>2. Q[i] \in Stay(p, n)
    BY <1>4
  <2>3. Balance(p, Q[i] + 1, n + 1) >= 0
    BY <1>5
  <2> QED
    BY <2>1, <2>2, <2>3, StayStep
<1>7. ASSUME NEW x \in Stay(p, n + 1) PROVE \E i \in 1..Len(Q) : Q[i] = x
  <2>1. x \in 1..(n + 1)
    BY DEF Stay
  <2>2. x # n + 1
    BY StayLast
  <2>3. x \in Stay(p, n)
    BY <2>1, <2>2, StayStep
  <2> QED
    BY <2>3 DEF Tracks
<1>8. Q \in Seq(1..(n + 1))
  BY <1>1
<1>9. Balance(p, 1, n + 1) = Balance(p, 1, n)
  <2>1. 0 \in 0..n /\ 0 + 1 = 1
    OBVIOUS
  <2> QED
    BY <1>3, <2>1
<1> QED
  BY <1>5, <1>6, <1>7, <1>8, <1>9 DEF Tracks

\* A name is kept.
LEMMA TracksName ==
    ASSUME NEW p \in Seq(STRING), NEW n \in Nat, n + 1 \in 1..Len(p),
           NEW acc, NEW Q, Tracks(p, n, acc, Q), Delta(p[n + 1]) = 1, IsName(p[n + 1])
    PROVE  Tracks(p, n + 1, [depth |-> acc.depth + 1, parts |-> Append(acc.parts, p[n + 1])],
                  Append(Q, n + 1))
<1> DEFINE R == Append(Q, n + 1)
           L == Len(Q)
           parts == Append(acc.parts, p[n + 1])
<1>1. /\ Q \in Seq(1..n) /\ L \in Nat /\ \A i \in 1..L : Q[i] \in 1..n
      /\ \A i, j \in 1..L : i < j => Q[i] < Q[j]
      /\ \A i \in 1..L : Q[i] \in Stay(p, n) /\ Balance(p, Q[i] + 1, n) = L - i
      /\ \A x \in Stay(p, n) : \E i \in 1..L : Q[i] = x
      /\ Balance(p, 1, n) = L
      /\ acc.depth = L /\ acc.parts \in Seq(STRING) /\ Len(acc.parts) = L
      /\ \A i \in 1..L : acc.parts[i] = p[Q[i]]
  BY DEF Tracks
<1> HIDE DEF L
<1>2. /\ R \in Seq(1..(n + 1)) /\ Len(R) = L + 1
      /\ R[L + 1] = n + 1 /\ \A i \in 1..L : R[i] = Q[i]
  <2>1. Q \in Seq(1..(n + 1)) /\ n + 1 \in 1..(n + 1)
    BY <1>1
  <2> QED
    BY <2>1, AppendProperties DEF L
<1>3. /\ parts \in Seq(STRING) /\ Len(parts) = L + 1
      /\ parts[L + 1] = p[n + 1] /\ \A i \in 1..L : parts[i] = p[Q[i]]
  <2>1. p[n + 1] \in STRING
    OBVIOUS
  <2>2. /\ parts \in Seq(STRING) /\ Len(parts) = Len(acc.parts) + 1
        /\ parts[Len(acc.parts) + 1] = p[n + 1]
        /\ \A i \in 1..Len(acc.parts) : parts[i] = acc.parts[i]
    BY <1>1, <2>1, AppendProperties
  <2> HIDE DEF parts
  <2> QED
    BY <1>1, <2>2
<1> HIDE DEF R, parts
<1>4. \A i \in 1..(L + 1) : i = L + 1 \/ i \in 1..L
  BY <1>1
<1>5. \A x \in 0..n : Balance(p, x + 1, n + 1) = Balance(p, x + 1, n) + 1
  <2>1. \A x \in 0..n : x + 1 \in Nat /\ x + 1 <= n + 1
    OBVIOUS
  <2> QED
    BY <2>1, BalanceStep
<1>6. Balance(p, (n + 1) + 1, n + 1) = 0
  <2>1. n + 1 \in Nat /\ (n + 1) + 1 \in Nat
    OBVIOUS
  <2> QED
    BY <2>1, BalanceStep
<1>7. ASSUME NEW i \in 1..(L + 1)
      PROVE  R[i] \in Stay(p, n + 1) /\ Balance(p, R[i] + 1, n + 1) = (L + 1) - i
  <2>1. CASE i = L + 1
    <3>1. R[i] = n + 1
      BY <1>2, <2>1
    <3> QED
      BY <1>1, <1>6, <2>1, <3>1, StayLast
  <2>2. CASE i \in 1..L
    <3>0. \A x \in 1..n : x \in 0..n
      OBVIOUS
    <3>1. R[i] = Q[i] /\ Q[i] \in 1..n /\ Q[i] \in 0..n
      BY <1>1, <1>2, <2>2, <3>0, Zenon
    <3>2. Balance(p, Q[i] + 1, n + 1) = (L - i) + 1
      BY <1>1, <1>5, <2>2, <3>1
    <3>3. Balance(p, Q[i] + 1, n + 1) >= 0 /\ (L - i) + 1 = (L + 1) - i
      BY <1>1, <2>2, <3>2
    <3> QED
      BY <1>1, <2>2, <3>1, <3>2, <3>3, StayStep
  <2> QED
    BY <1>4, <2>1, <2>2
<1>8. ASSUME NEW x \in Stay(p, n + 1) PROVE \E i \in 1..(L + 1) : R[i] = x
  <2>1. x \in 1..(n + 1)
    BY DEF Stay
  <2>2. CASE x = n + 1
    BY <1>1, <1>2, <2>2
  <2>3. CASE x # n + 1
    <3>1. x \in Stay(p, n)
      BY <2>1, <2>3, StayStep
    <3>2. PICK i \in 1..L : Q[i] = x
      BY <1>1, <3>1
    <3> QED
      BY <1>1, <1>2, <3>2
  <2> QED
    BY <2>2, <2>3
<1>9. ASSUME NEW i \in 1..(L + 1), NEW j \in 1..(L + 1), i < j PROVE R[i] < R[j]
  <2>0. L \in Nat
    BY <1>1
  <2>4. i \in 1..L
    BY <1>9, <2>0
  <2>1. i \in 1..L /\ R[i] = Q[i] /\ Q[i] \in 1..n
    BY <1>1, <1>2, <2>4, Zenon
  <2>2. CASE j = L + 1
    BY <1>2, <2>1, <2>2
  <2>3. CASE j \in 1..L
    BY <1>1, <1>2, <1>9, <2>1, <2>3
  <2> QED
    BY <1>4, <2>2, <2>3
<1>10. Balance(p, 1, n + 1) = L + 1
  <2>1. 0 \in 0..n /\ 0 + 1 = 1
    OBVIOUS
  <2> QED
    BY <1>1, <1>5, <2>1
<1>11. \A i \in 1..(L + 1) : parts[i] = p[R[i]]
  BY <1>1, <1>2, <1>3, <1>4
<1>12. Tracks(p, n + 1, [depth |-> acc.depth + 1, parts |-> parts], R)
  BY <1>1, <1>2, <1>3, <1>7, <1>8, <1>9, <1>10, <1>11 DEF Tracks
<1> QED
  BY <1>12 DEF R, parts

\* A ".." takes the last name back.
LEMMA TracksUp ==
    ASSUME NEW p \in Seq(STRING), NEW n \in Nat, n + 1 \in 1..Len(p),
           NEW acc, NEW Q, Tracks(p, n, acc, Q), Delta(p[n + 1]) = -1, ~IsName(p[n + 1]), Q # <<>>
    PROVE  Tracks(p, n + 1, [depth |-> acc.depth - 1, parts |-> Front(acc.parts)], Front(Q))
<1> DEFINE R == Front(Q)
           L == Len(Q)
           parts == Front(acc.parts)
<1>1. /\ Q \in Seq(1..n) /\ L \in Nat /\ \A i \in 1..L : Q[i] \in 1..n
      /\ \A i, j \in 1..L : i < j => Q[i] < Q[j]
      /\ \A i \in 1..L : Q[i] \in Stay(p, n) /\ Balance(p, Q[i] + 1, n) = L - i
      /\ \A x \in Stay(p, n) : \E i \in 1..L : Q[i] = x
      /\ Balance(p, 1, n) = L
      /\ acc.depth = L /\ acc.parts \in Seq(STRING) /\ Len(acc.parts) = L
      /\ \A i \in 1..L : acc.parts[i] = p[Q[i]]
  <2>1. Q \in Seq(1..n)
    BY Zenon DEF Tracks
  <2>2. L \in Nat /\ \A i \in 1..L : Q[i] \in 1..n
    BY <2>1
  <2>3. /\ \A i, j \in 1..L : i < j => Q[i] < Q[j]
        /\ \A i \in 1..L : Q[i] \in Stay(p, n) /\ Balance(p, Q[i] + 1, n) = L - i
        /\ \A x \in Stay(p, n) : \E i \in 1..L : Q[i] = x
        /\ Balance(p, 1, n) = L
        /\ acc.depth = L /\ acc.parts \in Seq(STRING) /\ Len(acc.parts) = L
        /\ \A i \in 1..L : acc.parts[i] = p[Q[i]]
    BY Zenon DEF Tracks
  <2> QED
    BY <2>1, <2>2, <2>3, Zenon
<1>0. L > 0
  BY <1>1
<1>2. R \in Seq(1..(n + 1)) /\ Len(R) = L - 1 /\ \A i \in 1..(L - 1) : R[i] = Q[i]
  <2>1. ASSUME NEW i \in 1..(L - 1) PROVE Q[i] \in 1..(n + 1)
    <3>1. L \in Nat
      BY <1>1, Zenon
    <3>2. i \in 1..L
      BY <3>1
    <3>3. Q[i] \in 1..n
      BY <1>1, <3>2, Zenon
    <3> QED
      BY <3>3
  <2>2. L - 1 \in Int /\ 1 \in Int
    BY <1>1
  <2> HIDE DEF L
  <2>3. /\ SubSeq(Q, 1, L - 1) \in Seq(1..(n + 1))
        /\ Len(SubSeq(Q, 1, L - 1)) = IF 1 <= L - 1 THEN (L - 1) - 1 + 1 ELSE 0
        /\ \A i \in 1..((L - 1) - 1 + 1) : SubSeq(Q, 1, L - 1)[i] = Q[1 + i - 1]
    BY <2>1, <2>2, SubSeqProperties
  <2>4. R = SubSeq(Q, 1, L - 1)
    BY DEF Front, L
  <2> HIDE DEF R
  <2> QED
    BY <1>0, <1>1, <2>3, <2>4
<1>3. parts \in Seq(STRING) /\ Len(parts) = L - 1 /\ \A i \in 1..(L - 1) : parts[i] = p[Q[i]]
  <2>1. \A i \in 1..(L - 1) : i \in 1..Len(acc.parts) /\ acc.parts[i] \in STRING
    <3>1. \A i \in 1..(L - 1) : i \in 1..Len(acc.parts)
      BY <1>1
    <3>2. acc.parts \in Seq(STRING)
      BY <1>1
    <3> QED
      BY <3>1, <3>2
  <2>2. L - 1 \in Int /\ 1 \in Int
    BY <1>1
  <2> HIDE DEF L
  <2>3. /\ SubSeq(acc.parts, 1, L - 1) \in Seq(STRING)
        /\ Len(SubSeq(acc.parts, 1, L - 1)) = IF 1 <= L - 1 THEN (L - 1) - 1 + 1 ELSE 0
        /\ \A i \in 1..((L - 1) - 1 + 1) : SubSeq(acc.parts, 1, L - 1)[i] = acc.parts[1 + i - 1]
    BY <2>1, <2>2, SubSeqProperties
  <2>4. parts = SubSeq(acc.parts, 1, L - 1)
    BY <1>1 DEF Front
  <2> HIDE DEF parts
  <2>5. parts \in Seq(STRING) /\ Len(parts) = L - 1
    BY <1>0, <1>1, <2>3, <2>4
  <2>6. ASSUME NEW i \in 1..(L - 1) PROVE parts[i] = p[Q[i]]
    <3>1. i \in 1..((L - 1) - 1 + 1) /\ 1 + i - 1 = i /\ i \in 1..L
      BY <1>1
    <3>2. parts[i] = acc.parts[i]
      BY <2>3, <2>4, <3>1
    <3> QED
      BY <1>1, <3>1, <3>2
  <2> QED
    BY <2>5, <2>6
<1> HIDE DEF R, parts, L
<1>5. \A x \in 0..n : Balance(p, x + 1, n + 1) = Balance(p, x + 1, n) - 1
                      /\ Balance(p, x + 1, n) \in Int
  <2>1. \A x \in 0..n : x + 1 \in Nat /\ x + 1 <= n + 1
    OBVIOUS
  <2> QED
    BY <2>1, BalanceStep
<1>6. ASSUME NEW i \in 1..L
      PROVE  Q[i] \in 1..n /\ Balance(p, Q[i] + 1, n + 1) = (L - 1) - i
  <2>0. \A x \in 1..n : x \in 0..n
    OBVIOUS
  <2>1. Q[i] \in 0..n /\ Q[i] \in 1..n
    BY <1>1, <2>0, Zenon
  <2>2. Balance(p, Q[i] + 1, n + 1) = (L - i) - 1
    BY <1>1, <1>5, <2>1
  <2> QED
    BY <1>1, <2>1, <2>2
<1>7. ASSUME NEW i \in 1..(L - 1)
      PROVE  R[i] \in Stay(p, n + 1) /\ Balance(p, R[i] + 1, n + 1) = (L - 1) - i
  <2>1. i \in 1..L /\ R[i] = Q[i] /\ (L - 1) - i >= 0
    BY <1>1, <1>2
  <2>2. Q[i] \in Stay(p, n)
    BY <1>1, <2>1
  <2> QED
    BY <1>6, <2>1, <2>2, StayStep
<1>8. ASSUME NEW x \in Stay(p, n + 1) PROVE \E i \in 1..(L - 1) : R[i] = x
  <2>1. x \in 1..n
    <3>1. x \in 1..(n + 1)
      BY DEF Stay
    <3>2. x # n + 1
      BY StayLast
    <3> QED
      BY <3>1, <3>2
  <2>2. x \in Stay(p, n) /\ Balance(p, x + 1, n + 1) >= 0
    BY <2>1, StayStep
  <2>3. PICK i \in 1..L : Q[i] = x
    BY <1>1, <2>2
  <2>4. i # L
    BY <1>1, <1>6, <2>2, <2>3
  <2>5. i \in 1..(L - 1)
    BY <1>1, <2>4
  <2> QED
    BY <1>2, <2>3, <2>5
<1>9. ASSUME NEW i \in 1..(L - 1), NEW j \in 1..(L - 1), i < j PROVE R[i] < R[j]
  <2>1. i \in 1..L /\ j \in 1..L
    BY <1>1
  <2> QED
    BY <1>1, <1>2, <1>9, <2>1
<1>10. Balance(p, 1, n + 1) = L - 1
  <2>1. 0 \in 0..n /\ 0 + 1 = 1
    OBVIOUS
  <2> QED
    BY <1>1, <1>5, <2>1
<1>11. \A i \in 1..(L - 1) : parts[i] = p[R[i]]
  BY <1>2, <1>3
<1>12. Tracks(p, n + 1, [depth |-> acc.depth - 1, parts |-> parts], R)
  BY <1>1, <1>2, <1>3, <1>7, <1>8, <1>9, <1>10, <1>11 DEF Tracks
<1> QED
  BY <1>12 DEF R, parts

\* One turn, by what it does to the depth.
LEMMA Turns ==
    ASSUME NEW acc, NEW segment, acc.depth \in Int
    PROVE  /\ acc.depth < 0 => PathStep(acc, segment) = acc
           /\ \/ /\ Delta(segment) = 0 /\ ~IsName(segment)
                 /\ PathStep(acc, segment) = acc
              \/ /\ Delta(segment) = -1 /\ ~IsName(segment)
                 /\ acc.depth >= 0 =>
                       PathStep(acc, segment) =
                          [depth |-> acc.depth - 1,
                           parts |-> IF acc.parts = <<>> THEN <<>> ELSE Front(acc.parts)]
              \/ /\ Delta(segment) = 1 /\ IsName(segment)
                 /\ acc.depth >= 0 =>
                       PathStep(acc, segment) =
                          [depth |-> acc.depth + 1, parts |-> Append(acc.parts, segment)]
<1>1. CASE segment \in {"", "."}
  <2>1. Delta(segment) = 0 /\ ~IsName(segment)
    BY <1>1 DEF Delta, IsName
  <2>2. PathStep(acc, segment) = acc
    BY <1>1 DEF PathStep
  <2> QED
    BY <2>1, <2>2
<1>2. CASE segment = ".."
  <2>1. Delta(segment) = -1 /\ ~IsName(segment)
    BY <1>2 DEF Delta, IsName
  <2>2. acc.depth < 0 => PathStep(acc, segment) = acc
    BY DEF PathStep
  <2>3. ASSUME acc.depth >= 0
        PROVE  PathStep(acc, segment) =
                  [depth |-> acc.depth - 1,
                   parts |-> IF acc.parts = <<>> THEN <<>> ELSE Front(acc.parts)]
    <3>1. ~(acc.depth < 0) /\ segment \notin {"", "."}
      BY <1>2, <2>3
    <3> QED
      BY <1>2, <3>1, Zenon DEF PathStep
  <2> QED
    BY <2>1, <2>2, <2>3
<1>3. CASE segment \notin {"", "."} /\ segment # ".."
  <2>1. Delta(segment) = 1 /\ IsName(segment)
    BY <1>3 DEF Delta, IsName
  <2>2. acc.depth < 0 => PathStep(acc, segment) = acc
    BY DEF PathStep
  <2>3. ASSUME acc.depth >= 0
        PROVE  PathStep(acc, segment) =
                  [depth |-> acc.depth + 1, parts |-> Append(acc.parts, segment)]
    <3>1. ~(acc.depth < 0)
      BY <2>3
    <3> QED
      BY <1>3, <3>1, Zenon DEF PathStep
  <2> QED
    BY <2>1, <2>2, <2>3
<1> QED
  BY <1>1, <1>2, <1>3

\* At such places, the loop is not blocked.
LEMMA TracksFollows ==
    ASSUME NEW p, NEW n \in Nat, NEW acc, NEW Q, Tracks(p, n + 1, acc, Q),
           \A j \in 1..n : ~(Balance(p, 1, j) < 0)
    PROVE  Follows(p, n + 1, acc)
<1>1. Len(Q) \in Nat /\ acc.depth = Len(Q) /\ Balance(p, 1, n + 1) = Len(Q)
  BY DEF Tracks
<1>2. \A j \in 1..(n + 1) : j = n + 1 \/ j \in 1..n
  OBVIOUS
<1>3. \A j \in 1..(n + 1) : ~(Balance(p, 1, j) < 0)
  BY <1>1, <1>2
<1> QED
  BY <1>1, <1>3 DEF Follows

\* Every turn keeps it so.
LEMMA FollowsStep ==
    ASSUME NEW p \in Seq(STRING), NEW n \in Nat, n + 1 \in 1..Len(p),
           NEW acc, Follows(p, n, acc)
    PROVE  Follows(p, n + 1, PathStep(acc, p[n + 1]))
<1> DEFINE s == p[n + 1]
<1>1. /\ acc.depth \in Int
      /\ acc.depth < 0 <=> \E j \in 1..n : Balance(p, 1, j) < 0
      /\ acc.depth >= 0 => \E Q : Tracks(p, n, acc, Q)
  BY DEF Follows
<1>2. CASE acc.depth < 0
  <2>1. PathStep(acc, s) = acc
    BY <1>1, <1>2, Turns
  <2>2. \E j \in 1..(n + 1) : Balance(p, 1, j) < 0
    <3>1. \A j \in 1..n : j \in 1..(n + 1)
      OBVIOUS
    <3> QED
      BY <1>1, <1>2, <3>1
  <2>3. Follows(p, n + 1, acc)
    BY <1>1, <1>2, <2>2 DEF Follows
  <2> QED
    BY <2>1, <2>3, Zenon
<1>3. CASE acc.depth >= 0
  <2>1. \A j \in 1..n : ~(Balance(p, 1, j) < 0)
    BY <1>1, <1>3
  <2>2. PICK Q : Tracks(p, n, acc, Q)
    BY <1>1, <1>3
  <2>3. /\ Len(Q) \in Nat /\ acc.depth = Len(Q) /\ Balance(p, 1, n) = Len(Q)
        /\ acc.parts \in Seq(STRING) /\ Len(acc.parts) = Len(Q) /\ Q \in Seq(1..n)
    BY <2>2 DEF Tracks
  <2>4. CASE Delta(s) = 0 /\ ~IsName(s) /\ PathStep(acc, s) = acc
    <3>1. Tracks(p, n + 1, acc, Q)
      BY <2>2, <2>4, TracksNothing
    <3>2. Follows(p, n + 1, acc)
      BY <2>1, <3>1, TracksFollows
    <3> QED
      BY <2>4, <3>2, Zenon
  <2>5. CASE /\ Delta(s) = 1 /\ IsName(s)
             /\ PathStep(acc, s) = [depth |-> acc.depth + 1, parts |-> Append(acc.parts, s)]
    <3> DEFINE next == [depth |-> acc.depth + 1, parts |-> Append(acc.parts, s)]
    <3>1. Tracks(p, n + 1, next, Append(Q, n + 1))
      BY <2>2, <2>5, TracksName
    <3> HIDE DEF next
    <3>2. Follows(p, n + 1, next)
      BY <2>1, <3>1, TracksFollows
    <3> QED
      BY <2>5, <3>2, Zenon DEF next
  <2>6. CASE /\ Delta(s) = -1 /\ ~IsName(s)
             /\ PathStep(acc, s) = [depth |-> acc.depth - 1,
                    parts |-> IF acc.parts = <<>> THEN <<>> ELSE Front(acc.parts)]
    <3>1. CASE Q # <<>>
      <4> DEFINE next == [depth |-> acc.depth - 1, parts |-> Front(acc.parts)]
      <4>1. Tracks(p, n + 1, next, Front(Q))
        BY <2>2, <2>6, <3>1, TracksUp
      <4>2. acc.parts # <<>>
        BY <2>3, <3>1
      <4>3. PathStep(acc, s) = next
        BY <2>6, <4>2
      <4> HIDE DEF next
      <4>4. Follows(p, n + 1, next)
        BY <2>1, <4>1, TracksFollows
      <4> QED
        BY <4>3, <4>4, Zenon
    <3>2. CASE Q = <<>>
      <4> DEFINE next == PathStep(acc, s)
      <4>1. next.depth = -1
        BY <2>3, <2>6, <3>2
      <4>2. Balance(p, 1, n + 1) = -1
        <5>1. 1 \in Nat /\ 1 <= n + 1
          OBVIOUS
        <5>2. Balance(p, 1, n + 1) = Balance(p, 1, n) + Delta(p[n + 1])
          BY <5>1, BalanceStep
        <5> QED
          BY <2>3, <2>6, <3>2, <5>2
      <4>3. \E j \in 1..(n + 1) : Balance(p, 1, j) < 0
        <5>1. n + 1 \in 1..(n + 1) /\ Balance(p, 1, n + 1) < 0
          BY <4>2
        <5> QED
          BY <5>1
      <4> HIDE DEF next
      <4>4. Follows(p, n + 1, next)
        BY <4>1, <4>3 DEF Follows
      <4> QED
        BY <4>4 DEF next
    <3> QED
      BY <3>1, <3>2
  <2> QED
    BY <1>1, <1>3, <2>4, <2>5, <2>6, Turns
<1> QED
  BY <1>1, <1>2, <1>3

\* So it is at the end.
LEMMA LoopFollows ==
    ASSUME NEW p \in Seq(STRING)
    PROVE  Follows(p, Len(p), sanitize_path(p))
<1>1. PICK g : /\ g[0] = Start
               /\ \A n \in 1..Len(p) : g[n] = PathStep(g[n - 1], p[n])
               /\ sanitize_path(p) = g[Len(p)]
  BY LoopRuns
<1> DEFINE D == {n \in Nat : n <= Len(p) => Follows(p, n, g[n])}
<1>2. 0 \in D
  BY <1>1, FollowsStart
<1>3. ASSUME NEW n \in Nat, n \in D PROVE n + 1 \in D
  <2> SUFFICES ASSUME n + 1 <= Len(p) PROVE Follows(p, n + 1, g[n + 1])
    OBVIOUS
  <2>1. n + 1 \in 1..Len(p) /\ (n + 1) - 1 = n /\ n <= Len(p)
    OBVIOUS
  <2>2. Follows(p, n, g[n])
    BY <1>3, <2>1
  <2>3. g[n + 1] = PathStep(g[n], p[n + 1])
    BY <1>1, <2>1
  <2>4. Follows(p, n + 1, PathStep(g[n], p[n + 1]))
    BY <2>1, <2>2, FollowsStep
  <2> QED
    BY <2>3, <2>4, Zenon
<1>4. Len(p) \in Nat /\ Len(p) \in D
  <2>1. Len(p) \in Nat
    OBVIOUS
  <2> HIDE DEF D
  <2> QED
    BY <1>2, <1>3, <2>1, Induction
<1>5. Follows(p, Len(p), g[Len(p)])
  BY <1>4
<1> QED
  BY <1>1, <1>5, Zenon

\* A set with its elements in order: how many they are and which is the i-th.
LEMMA InOrder ==
    ASSUME NEW Q \in Seq(Nat), \A i, j \in 1..Len(Q) : i < j => Q[i] < Q[j],
           NEW S, \A i \in 1..Len(Q) : Q[i] \in S,
           \A x \in S : \E i \in 1..Len(Q) : Q[i] = x
    PROVE  Cardinality(S) = Len(Q) /\ \A i \in 1..Len(Q) : Nth(S, i) = Q[i]
<1>0. S = {Q[i] : i \in 1..Len(Q)}
  OBVIOUS
<1>1. Len(Q) \in Nat /\ \A i \in 1..Len(Q) : Q[i] \in Nat
  OBVIOUS
<1>2. \A i, j \in 1..Len(Q) : Q[i] = Q[j] => i = j
  BY <1>1
<1>3. ASSUME NEW i \in 0..Len(Q) PROVE Cardinality({Q[j] : j \in 1..i}) = i
  <2> DEFINE T == {Q[j] : j \in 1..i}
             f == [j \in 1..i |-> Q[j]]
  <2>1. f \in Bijection(1..i, T)
    <3>1. f \in [1..i -> T]
      OBVIOUS
    <3>2. \A a, b \in 1..i : f[a] = f[b] => a = b
      <4>1. \A a \in 1..i : f[a] = Q[a]
        OBVIOUS
      <4>2. \A a \in 1..i : a \in 1..Len(Q)
        BY <1>1
      <4> QED
        BY <1>2, <4>1, <4>2, Zenon
    <3>3. \A t \in T : \E a \in 1..i : f[a] = t
      OBVIOUS
    <3> QED
      BY <3>1, <3>2, <3>3 DEF Bijection, Injection, Surjection, IsInjective
  <2>2. IsFiniteSet(1..i) /\ Cardinality(1..i) = i
    BY <1>1, FS_Interval
  <2>3. ExistsBijection(1..i, T)
    BY <2>1 DEF ExistsBijection
  <2> HIDE DEF T
  <2>4. Cardinality(T) = i
    BY <2>2, <2>3, FS_Bijection
  <2> QED
    BY <2>4 DEF T
<1>4. ASSUME NEW i \in 1..Len(Q) PROVE Cardinality({m \in S : m <= Q[i]}) = i
  <2>1. \A x \in S : x <= Q[i] => x \in {Q[j] : j \in 1..i}
    <3> SUFFICES ASSUME NEW j \in 1..Len(Q), Q[j] <= Q[i] PROVE Q[j] \in {Q[k] : k \in 1..i}
      OBVIOUS
    <3>1. ~(i < j)
      BY <1>1
    <3>2. j \in 1..i
      BY <1>1, <3>1
    <3> QED
      BY <3>2
  <2>2. \A j \in 1..i : Q[j] \in S /\ Q[j] <= Q[i]
    <3> SUFFICES ASSUME NEW j \in 1..i PROVE Q[j] \in S /\ Q[j] <= Q[i]
      OBVIOUS
    <3>1. j \in 1..Len(Q) /\ (j = i \/ j < i)
      BY <1>1
    <3> QED
      BY <1>1, <3>1
  <2>3. {m \in S : m <= Q[i]} = {Q[j] : j \in 1..i}
    BY <2>1, <2>2
  <2>4. Cardinality({Q[j] : j \in 1..i}) = i
    BY <1>1, <1>3
  <2> QED
    BY <2>3, <2>4, Zenon
<1>5. ASSUME NEW i \in 1..Len(Q) PROVE Nth(S, i) = Q[i]
  <2>1. \A n \in S : Cardinality({m \in S : m <= n}) = i <=> n = Q[i]
    <3> SUFFICES ASSUME NEW j \in 1..Len(Q)
                 PROVE  Cardinality({m \in S : m <= Q[j]}) = i <=> Q[j] = Q[i]
      OBVIOUS
    <3>1. Cardinality({m \in S : m <= Q[j]}) = j
      BY <1>4
    <3>2. Q[j] = Q[i] <=> j = i
      BY <1>2
    <3> QED
      BY <3>1, <3>2, Zenon
  <2>2. Q[i] \in S
    OBVIOUS
  <2>3. Nth(S, i) \in S /\ Cardinality({m \in S : m <= Nth(S, i)}) = i
    BY <2>1, <2>2, Zenon DEF Nth
  <2> QED
    BY <2>1, <2>3
<1>6. Cardinality(S) = Len(Q)
  <2>1. Len(Q) \in 0..Len(Q)
    BY <1>1
  <2>2. Cardinality({Q[j] : j \in 1..Len(Q)}) = Len(Q)
    BY <1>3, <2>1
  <2> QED
    BY <1>0, <2>2, Zenon
<1> QED
  BY <1>5, <1>6

\* What the loop computes, blocked or not, is what the path denotes.
THEOREM SanitizeDenotes ==
    ASSUME NEW p \in Seq(STRING)
    PROVE  /\ sanitize_path(p).depth \in Int
           /\ sanitize_path(p).depth < 0 <=> Escapes(p)
           /\ ~Escapes(p) => sanitize_path(p).parts = Denotes(p)
           /\ ~Escapes(p) => sanitize_path(p).parts \in Seq(STRING)
           /\ ~Escapes(p) => \A i \in 1..Len(sanitize_path(p).parts) :
                                IsName(sanitize_path(p).parts[i])
<1> DEFINE safe == sanitize_path(p)
<1>1. Follows(p, Len(p), safe)
  BY LoopFollows
<1> HIDE DEF safe
<1>2. Len(p) \in Nat
  OBVIOUS
<1>3. Escapes(p) <=> \E j \in 1..Len(p) : Balance(p, 1, j) < 0
  <2>1. ASSUME NEW j \in 1..Len(p) PROVE Balance(p, 1, j) < 0 <=> Ups(p, 1, j) > Downs(p, 1, j)
    <3>1. j \in Nat /\ 1 \in Nat
      BY <1>2
    <3> QED
      BY <3>1, BalanceStep
  <2> QED
    BY <2>1 DEF Escapes
<1>4. safe.depth \in Int /\ (safe.depth < 0 <=> Escapes(p))
  BY <1>1, <1>3 DEF Follows
<1>5. ASSUME ~Escapes(p)
      PROVE  /\ safe.parts = Denotes(p) /\ safe.parts \in Seq(STRING)
             /\ \A i \in 1..Len(safe.parts) : IsName(safe.parts[i])
  <2>1. PICK Q : Tracks(p, Len(p), safe, Q)
    BY <1>1, <1>4, <1>5 DEF Follows
  <2> DEFINE S == Stay(p, Len(p))
  <2>2. /\ Q \in Seq(1..Len(p))
        /\ \A i, j \in 1..Len(Q) : i < j => Q[i] < Q[j]
        /\ \A i \in 1..Len(Q) : Q[i] \in S
        /\ \A x \in S : \E i \in 1..Len(Q) : Q[i] = x
        /\ safe.parts \in Seq(STRING) /\ Len(safe.parts) = Len(Q)
        /\ \A i \in 1..Len(Q) : safe.parts[i] = p[Q[i]]
    BY <2>1 DEF Tracks
  <2>3. \A x \in S : IsName(p[x])
    BY Zenon DEF Stay, IsName
  <2>6. Denotes(p) = [i \in 1..Cardinality(S) |-> p[Nth(S, i)]]
    BY DEF Denotes
  <2> HIDE DEF S
  <2>5. Cardinality(S) = Len(Q) /\ \A i \in 1..Len(Q) : Nth(S, i) = Q[i]
    <3>1. Q \in Seq(Nat)
      <4>1. \A x \in 1..Len(p) : x \in Nat
        OBVIOUS
      <4> QED
        BY <2>2, <4>1
    <3>2. /\ \A i, j \in 1..Len(Q) : i < j => Q[i] < Q[j]
          /\ \A i \in 1..Len(Q) : Q[i] \in S
          /\ \A x \in S : \E i \in 1..Len(Q) : Q[i] = x
      BY <2>2, Zenon
    <3> QED
      BY <3>1, <3>2, InOrder
  <2>7. safe.parts = [i \in 1..Len(Q) |-> p[Q[i]]]
    <3>1. safe.parts \in [1..Len(Q) -> STRING]
      BY <2>2, LenProperties
    <3> QED
      BY <2>2, <3>1
  <2>8. Denotes(p) = [i \in 1..Len(Q) |-> p[Q[i]]]
    BY <2>5, <2>6
  <2>9. \A i \in 1..Len(safe.parts) : IsName(safe.parts[i])
    BY <2>2, <2>3
  <2> QED
    BY <2>2, <2>7, <2>8, <2>9
<1> QED
  BY <1>4, <1>5 DEF safe

\* The file looked for is the one wanted, whatever its cache key.
LEMMA TargetIsWanted ==
    ASSUME NEW p \in Requests, ~Escapes(p)
    PROVE  NameOf(Target(p)) = Wanted(p)
<1> DEFINE parts == sanitize_path(p).parts
           dir == IsDirectory(CString(parts))
           name == IF dir THEN Append(parts, index_file) ELSE parts
<1>1. /\ parts = Denotes(p) /\ parts \in Seq(STRING)
      /\ \A i \in 1..Len(parts) : IsName(parts[i])
  BY SanitizeDenotes, FilesAssumption
<1>2. Target(p) = IF dir THEN Append(Clean(parts), index_file) ELSE Clean(parts)
  BY DEF Target
<1>3. Wanted(p) = CString(name)
  BY <1>1, Zenon DEF Wanted, DenotesDirectory
<1>6. ASSUME parts = <<>> PROVE dir
  <2>1. Nuls(<<>>) = {}
    BY DEF Nuls
  <2>2. CString(<<>>) = <<>>
    BY <2>1, Zenon DEF CString
  <2>3. IsDirectory(<<>>)
    BY FilesAssumption, Zenon DEF IsDirectory
  <2> QED
    BY <1>6, <2>2, <2>3, Zenon
<1> HIDE DEF parts, dir
<1>4. CASE parts = <<>>
  <2>1. Target(p) = Append(<<"">>, index_file) /\ name = Append(<<>>, index_file)
    BY <1>2, <1>4, <1>6 DEF Clean
  <2>2. <<"">> \in Seq({""}) /\ <<"">> # <<>> /\ Head(<<"">>) = "" /\ Tail(<<"">>) = <<>>
    OBVIOUS
  <2>3. Head(Append(<<"">>, index_file)) = ""
        /\ Tail(Append(<<"">>, index_file)) = Append(<<>>, index_file)
    BY <2>2, HeadTailAppend
  <2>4. NameOf(Target(p)) = CString(name)
    BY <2>1, <2>3, Zenon DEF NameOf
  <2> QED
    BY <1>3, <2>4, Zenon
<1>5. CASE parts # <<>>
  <2>1. Len(parts) \in Nat /\ Len(parts) # 0 /\ Head(parts) = parts[1]
    BY <1>1, <1>5
  <2>2. Head(parts) # ""
    <3>1. IsName(parts[1])
      BY <1>1, <2>1
    <3> QED
      BY <2>1, <3>1 DEF IsName
  <2>3. Head(Append(parts, index_file)) = Head(parts)
    BY <1>1, <1>5, HeadTailAppend
  <2>4. Clean(parts) = parts
    BY <1>5 DEF Clean
  <2>5. Target(p) = name /\ Head(Target(p)) # ""
    BY <1>2, <2>2, <2>3, <2>4
  <2>6. NameOf(Target(p)) = CString(name)
    BY <2>5, Zenon DEF NameOf
  <2> QED
    BY <1>3, <2>6, Zenon
<1> QED
  BY <1>4, <1>5

-----------------------------------------------------------------------------
(* The workers                                                              *)

Steps == {"idle", "get", "stat", "read", "put", "answered"}

\* k is the file that p asks for.
Leads(p, k) == sanitize_path(p).depth >= 0 /\ ~Redirected(p) /\ k = Target(p)

\* The answer to p, in terms of what the worker has computed.
Verdict(p, data, s) ==
    /\ s = 403 <=> sanitize_path(p).depth < 0
    /\ s = 301 <=> sanitize_path(p).depth >= 0 /\ Redirected(p)
    /\ s = 200 => data.file = NameOf(Target(p))
    /\ sanitize_path(p).depth >= 0 /\ ~Redirected(p) /\ NameOf(Target(p)) \notin Files => s = 404

\* What a worker knows at each step.
WorkerOk(step, p, k, data, s) ==
    /\ step # "idle" => p \in Requests
    /\ step \in {"get", "stat", "read", "put"} => Leads(p, k)
    /\ step \in {"read", "put"} => NameOf(k) \in Files
    /\ step = "put" => data \in Contents /\ data.file = NameOf(k)
    /\ step = "answered" => Verdict(p, data, s)

HandleType ==
    /\ disk \in [Files -> Contents \cup {Absent}]
    /\ at \in [Workers -> Steps]
    /\ path \in [Workers -> Requests \cup {None}]
    /\ fs_path \in [Workers -> Keys \cup {None}]
    /\ content \in [Workers -> Contents \cup {None}]
    /\ status \in [Workers -> {None, 200, 301, 403, 404, 500}]

\* The workers, the files and the cache are about the files they should be.
HandleInv ==
    /\ HandleType
    /\ \A w \in Workers : WorkerOk(at[w], path[w], fs_path[w], content[w], status[w])
    /\ \A f \in Files : disk[f] # Absent => disk[f].file = f
    /\ \A k \in Cached : cache_[k].data.file = NameOf(k)

Inv == CacheInv /\ SinceInv /\ HandleInv

\* The program starts so.
LEMMA InitInv == Init => Inv
<1> SUFFICES ASSUME Init PROVE Inv
  OBVIOUS
<1>1. /\ cache_ = [k \in Keys |-> Absent] /\ lru_list_ = <<>> /\ current_size_ = 0
      /\ since = [k \in Keys |-> {}]
  BY DEF Init, CacheInit
<1>2. Cached = {}
  BY <1>1 DEF Cached
<1>3. Bytes(Cached) = 0
  <2>1. IsFiniteSet(Cached) /\ Cached \cap Cached = {}
    BY <1>2, FS_EmptySet
  <2>2. Bytes(Cached) = SumIn(cache_, Cached \cap Cached)
    BY <2>1, BytesAre
  <2>3. SumIn(cache_, {}) = 0
    BY SumUnfold, FS_EmptySet DEF SumIn
  <2> QED
    BY <2>1, <2>2, <2>3, Zenon
<1>4. CacheInv
  <2>1. IsInjective(lru_list_) /\ Range(lru_list_) = Cached
    BY <1>1, <1>2 DEF IsInjective, Range
  <2>2. cache_ \in [Keys -> Entries \cup {Absent}] /\ lru_list_ \in Seq(Keys)
    BY <1>1
  <2>3. current_size_ <= max_size_bytes_
    BY <1>1, CacheAssumption
  <2> QED
    BY <1>1, <1>3, <2>1, <2>2, <2>3 DEF CacheInv, CacheType, Consistent
<1>5. SinceInv
  BY <1>1 DEF SinceInv
<1>6. HandleType
  BY DEF Init, HandleType, Steps
<1>7. \A w \in Workers : at[w] = "idle"
  BY DEF Init
<1>8. HandleInv
  BY <1>2, <1>6, <1>7 DEF HandleInv, WorkerOk, Init
<1> QED
  BY <1>4, <1>5, <1>8 DEF Inv

\* A step of one worker keeps what the others know.
LEMMA OneWorker ==
    ASSUME HandleInv, HandleType', NEW w \in Workers,
           \A v \in Workers : v # w => /\ at'[v] = at[v] /\ path'[v] = path[v]
                                       /\ fs_path'[v] = fs_path[v]
                                       /\ content'[v] = content[v] /\ status'[v] = status[v],
           WorkerOk(at'[w], path'[w], fs_path'[w], content'[w], status'[w]),
           UNCHANGED disk,
           \A k \in Cached' : cache_'[k].data.file = NameOf(k)
    PROVE  HandleInv'
<1>1. \A v \in Workers : WorkerOk(at'[v], path'[v], fs_path'[v], content'[v], status'[v])
  <2> SUFFICES ASSUME NEW v \in Workers, v # w
               PROVE  WorkerOk(at'[v], path'[v], fs_path'[v], content'[v], status'[v])
    OBVIOUS
  <2>1. WorkerOk(at[v], path[v], fs_path[v], content[v], status[v])
    BY DEF HandleInv
  <2> QED
    BY <2>1, Zenon
<1>2. \A f \in Files : disk'[f] # Absent => disk'[f].file = f
  BY DEF HandleInv
<1> QED
  BY <1>1, <1>2 DEF HandleInv

\* A step that leaves the cache alone.
LEMMA CacheAlone ==
    ASSUME CacheInv, SinceInv, UNCHANGED <<cache_, lru_list_, current_size_, since>>
    PROVE  CacheInv' /\ SinceInv' /\ Cached' = Cached
<1>1. CacheInv'
  BY DEF CacheInv, CacheType, Consistent, Bytes, Cached
<1>2. SinceInv'
  BY DEF SinceInv, Ahead
<1>3. Cached' = Cached
  BY DEF Cached
<1> QED
  BY <1>1, <1>2, <1>3

\* The keys of those that are looking for a file.
LEMMA Looking ==
    ASSUME HandleInv, NEW w \in Workers, at[w] \in {"get", "stat", "read", "put"}
    PROVE  /\ path[w] \in Requests /\ Leads(path[w], fs_path[w])
           /\ fs_path[w] \in Keys /\ fs_path[w] = Target(path[w])
           /\ sanitize_path(path[w]).depth >= 0 /\ ~(sanitize_path(path[w]).depth < 0)
<1>1. WorkerOk(at[w], path[w], fs_path[w], content[w], status[w])
  BY DEF HandleInv
<1>2. path[w] \in Requests /\ Leads(path[w], fs_path[w])
  BY <1>1 DEF WorkerOk
<1>3. /\ fs_path[w] = Target(path[w]) /\ sanitize_path(path[w]).depth >= 0
      /\ ~Redirected(path[w])
  BY <1>2 DEF Leads
<1>4. sanitize_path(path[w]).depth \in Int
  BY <1>2, SanitizeDenotes, FilesAssumption
<1> QED
  BY <1>2, <1>3, <1>4, KeysAssumption

\* Some answers are right for whoever looks for a file.
LEMMA Verdicts ==
    ASSUME NEW p \in Requests, NEW k, Leads(p, k), NEW data, NEW s
    PROVE  /\ s = 200 /\ data \in Contents /\ data.file = NameOf(k) => Verdict(p, data, s)
           /\ s = 404 => Verdict(p, data, s)
           /\ s = 500 /\ NameOf(k) \in Files => Verdict(p, data, s)
<1>1. sanitize_path(p).depth \in Int
  BY SanitizeDenotes, FilesAssumption
<1>2. k = Target(p) /\ sanitize_path(p).depth >= 0 /\ ~Redirected(p) /\ ~(sanitize_path(p).depth < 0)
  BY <1>1 DEF Leads
<1>3. \A d \in Contents : d.file \in Files
  BY FilesAssumption
<1> QED
  BY <1>2, <1>3 DEF Verdict

\* A path is resolved.
LEMMA ResolveInv ==
    ASSUME Inv, NEW w \in Workers, NEW p \in Requests, Resolve(w, p)
    PROVE  Inv'
<1> DEFINE safe == sanitize_path(p)
<1>1. CacheInv' /\ SinceInv' /\ Cached' = Cached
  BY CacheAlone DEF Inv, Resolve
<1>2. HandleInv /\ HandleType
  BY DEF Inv, HandleInv
<1>3. safe.depth \in Int
  BY SanitizeDenotes, FilesAssumption
<1>4. /\ path' = [path EXCEPT ![w] = p] /\ UNCHANGED <<cache_, disk>>
      /\ \/ /\ safe.depth < 0
            /\ Answer(w, 403, None)
            /\ UNCHANGED fs_path
         \/ /\ safe.depth >= 0 /\ Redirected(p)
            /\ Answer(w, 301, None)
            /\ UNCHANGED fs_path
         \/ /\ safe.depth >= 0 /\ ~Redirected(p)
            /\ fs_path' = [fs_path EXCEPT ![w] = Target(p)]
            /\ GoOn(w, "get")
            /\ UNCHANGED content
  BY DEF Resolve
<1>5. \A k \in Cached' : cache_'[k].data.file = NameOf(k)
  BY <1>1, <1>2, <1>4 DEF HandleInv
<1>6. CASE safe.depth < 0 /\ Answer(w, 403, None) /\ UNCHANGED fs_path
  <2>1. /\ at' = [at EXCEPT ![w] = "answered"] /\ status' = [status EXCEPT ![w] = 403]
        /\ content' = [content EXCEPT ![w] = None] /\ UNCHANGED fs_path
    BY <1>6 DEF Answer
  <2>2. HandleType'
    BY <1>2, <1>4, <2>1 DEF HandleType, Steps
  <2>3. at'[w] = "answered" /\ path'[w] = p /\ status'[w] = 403
    BY <1>2, <1>4, <2>1 DEF HandleType
  <2>4. Verdict(p, content'[w], 403)
    BY <1>3, <1>6 DEF Verdict
  <2>5. WorkerOk(at'[w], path'[w], fs_path'[w], content'[w], status'[w])
    BY <2>3, <2>4 DEF WorkerOk
  <2>6. HandleInv'
    BY <1>2, <1>4, <1>5, <2>1, <2>2, <2>5, OneWorker DEF HandleType
  <2> QED
    BY <1>1, <2>6 DEF Inv
<1>7. CASE safe.depth >= 0 /\ Redirected(p) /\ Answer(w, 301, None) /\ UNCHANGED fs_path
  <2>1. /\ at' = [at EXCEPT ![w] = "answered"] /\ status' = [status EXCEPT ![w] = 301]
        /\ content' = [content EXCEPT ![w] = None] /\ UNCHANGED fs_path
    BY <1>7 DEF Answer
  <2>2. HandleType'
    BY <1>2, <1>4, <2>1 DEF HandleType, Steps
  <2>3. at'[w] = "answered" /\ path'[w] = p /\ status'[w] = 301
    BY <1>2, <1>4, <2>1 DEF HandleType
  <2>4. Verdict(p, content'[w], 301)
    BY <1>3, <1>7 DEF Verdict
  <2>5. WorkerOk(at'[w], path'[w], fs_path'[w], content'[w], status'[w])
    BY <2>3, <2>4 DEF WorkerOk
  <2>6. HandleInv'
    BY <1>2, <1>4, <1>5, <2>1, <2>2, <2>5, OneWorker DEF HandleType
  <2> QED
    BY <1>1, <2>6 DEF Inv
<1>8. CASE /\ safe.depth >= 0 /\ ~Redirected(p)
           /\ fs_path' = [fs_path EXCEPT ![w] = Target(p)] /\ GoOn(w, "get") /\ UNCHANGED content
  <2>1. /\ at' = [at EXCEPT ![w] = "get"] /\ fs_path' = [fs_path EXCEPT ![w] = Target(p)]
        /\ UNCHANGED <<status, content>>
    BY <1>8 DEF GoOn
  <2>2. Target(p) \in Keys
    BY <1>8, KeysAssumption
  <2>3. HandleType'
    BY <1>2, <1>4, <2>1, <2>2 DEF HandleType, Steps
  <2>4. at'[w] = "get" /\ path'[w] = p /\ fs_path'[w] = Target(p)
    BY <1>2, <1>4, <2>1 DEF HandleType
  <2>5. WorkerOk(at'[w], path'[w], fs_path'[w], content'[w], status'[w])
    BY <1>8, <2>4 DEF WorkerOk, Leads
  <2>6. HandleInv'
    BY <1>2, <1>4, <1>5, <2>1, <2>3, <2>5, OneWorker DEF HandleType
  <2> QED
    BY <1>1, <2>6 DEF Inv
<1> QED
  BY <1>4, <1>6, <1>7, <1>8

\* A worker that has looked for a file answers.
LEMMA AnswerInv ==
    ASSUME HandleInv, NEW w \in Workers, path[w] \in Requests,
           NEW s \in {200, 404, 500}, NEW data \in Contents \cup {None}, Answer(w, s, data),
           UNCHANGED <<path, fs_path, disk>>,
           Verdict(path[w], data, s),
           \A k \in Cached' : cache_'[k].data.file = NameOf(k)
    PROVE  HandleInv'
<1>1. HandleType
  BY DEF HandleInv
<1>2. /\ at' = [at EXCEPT ![w] = "answered"] /\ status' = [status EXCEPT ![w] = s]
      /\ content' = [content EXCEPT ![w] = data] /\ UNCHANGED <<path, fs_path, disk>>
  BY DEF Answer
<1>3. HandleType'
  BY <1>1, <1>2 DEF HandleType, Steps
<1>4. at'[w] = "answered" /\ path'[w] = path[w] /\ status'[w] = s /\ content'[w] = data
  BY <1>1, <1>2 DEF HandleType
<1>5. WorkerOk(at'[w], path'[w], fs_path'[w], content'[w], status'[w])
  BY <1>4 DEF WorkerOk
<1> QED
  BY <1>1, <1>2, <1>3, <1>5, OneWorker DEF HandleType

\* A worker that looks for a file takes another step.
LEMMA GoOnInv ==
    ASSUME HandleInv, NEW w \in Workers, at[w] \in {"get", "stat", "read"},
           NEW step \in {"stat", "read", "put"}, GoOn(w, step), HandleType',
           UNCHANGED <<path, fs_path, disk>>,
           \A v \in Workers : v # w => content'[v] = content[v],
           step \in {"read", "put"} => NameOf(fs_path[w]) \in Files,
           step = "put" => content'[w] \in Contents /\ content'[w].file = NameOf(fs_path[w]),
           \A k \in Cached' : cache_'[k].data.file = NameOf(k)
    PROVE  HandleInv'
<1>1. HandleType
  BY DEF HandleInv
<1>2. at' = [at EXCEPT ![w] = step] /\ UNCHANGED status
  BY DEF GoOn
<1>3. at'[w] = step /\ path'[w] = path[w] /\ fs_path'[w] = fs_path[w]
  BY <1>1, <1>2 DEF HandleType
<1>4. path[w] \in Requests /\ Leads(path[w], fs_path[w])
  BY Looking
<1>5. WorkerOk(at'[w], path'[w], fs_path'[w], content'[w], status'[w])
  BY <1>3, <1>4 DEF WorkerOk
<1> QED
  BY <1>1, <1>2, <1>5, OneWorker DEF HandleType

\* What is cached and stays is still about the same file.
LEMMA SameFiles ==
    ASSUME HandleInv, \A k \in Cached' : k \in Cached /\ cache_'[k].data = cache_[k].data
    PROVE  \A k \in Cached' : cache_'[k].data.file = NameOf(k)
<1> SUFFICES ASSUME NEW k \in Cached' PROVE cache_'[k].data.file = NameOf(k)
  OBVIOUS
<1>1. k \in Cached /\ cache_'[k].data = cache_[k].data
  OBVIOUS
<1>2. cache_[k].data.file = NameOf(k)
  BY <1>1 DEF HandleInv
<1> QED
  BY <1>1, <1>2

\* An entry is erased, whoever asks for it.
LEMMA ErasedInv ==
    ASSUME CacheInv, SinceInv, HandleInv, NEW k \in Cached, Erase(k), since' = StillCached(since)
    PROVE  CacheInv' /\ SinceInv' /\ \A j \in Cached' : cache_'[j].data.file = NameOf(j)
<1>1. CacheInv' /\ Cached' = Cached \ {k}
  BY EraseConsistent
<1>2. SinceInv'
  BY SinceErased
<1>3. \A j \in Cached' : j \in Cached /\ cache_'[j].data = cache_[j].data
  <2>1. cache_' = [cache_ EXCEPT ![k] = Absent]
    BY DEF Erase
  <2>2. cache_ \in [Keys -> Entries \cup {Absent}]
    BY DEF CacheInv, CacheType
  <2> QED
    BY <1>1, <2>1, <2>2 DEF Cached
<1> QED
  BY <1>1, <1>2, <1>3, SameFiles

\* The history is about what is cached.
LEMMA SinceStays ==
    ASSUME CacheInv, SinceInv, UNCHANGED cacheVars, since' = StillCached(since)
    PROVE  CacheInv' /\ SinceInv' /\ Cached' = Cached
<1>1. CacheInv' /\ Cached' = Cached
  BY DEF CacheInv, CacheType, Consistent, Bytes, Cached, cacheVars
<1>2. UNCHANGED lru_list_
  BY DEF cacheVars
<1>3. since' = [j \in Keys |-> IF j \in Cached' THEN since[j] \cap Cached' ELSE {}]
  BY DEF StillCached, Cached
<1>4. since' \in [Keys -> SUBSET Keys]
  BY <1>3 DEF SinceInv
<1>5. ASSUME NEW m \in 1..Len(lru_list_) PROVE since'[lru_list_[m]] = Ahead(lru_list_, m)
  <2>1. Ahead(lru_list_, m) \in SUBSET Cached /\ lru_list_[m] \in Cached
    BY AheadCached
  <2>2. since[lru_list_[m]] = Ahead(lru_list_, m)
    BY DEF SinceInv
  <2>3. lru_list_[m] \in Keys
    BY <2>1 DEF Cached
  <2> QED
    BY <1>1, <1>3, <2>1, <2>2, <2>3
<1>6. SinceInv'
  <2>1. \A m \in 1..Len(lru_list_') : since'[lru_list_'[m]] = Ahead(lru_list_, m)
    BY <1>2, <1>5
  <2> QED
    BY <1>2, <1>4, <2>1 DEF SinceInv, Ahead
<1> QED
  BY <1>1, <1>6

\* The cache has the file.
LEMMA HitInv ==
    ASSUME Inv, NEW w \in Workers, Hit(w)
    PROVE  Inv'
<1> DEFINE k == fs_path[w]
<1>1. CacheInv /\ SinceInv /\ HandleInv /\ at[w] = "get"
  BY DEF Inv, Hit
<1>2. /\ GetHit(k) /\ Answer(w, 200, cache_[k].data) /\ since' = StillCached(Serving(k))
      /\ UNCHANGED <<disk, path, fs_path>>
  BY DEF Hit
<1>3. path[w] \in Requests /\ Leads(path[w], k) /\ k \in Keys
  BY <1>1, Looking
<1>4. k \in Cached /\ lru_list_' = <<k>> \o Without(lru_list_, k) /\ UNCHANGED cache_
  BY <1>2 DEF GetHit, Touched
<1>5. CacheInv' /\ Cached' = Cached
  BY <1>1, <1>2, HitConsistent
<1>6. SinceInv'
  <2> DEFINE list == Without(lru_list_, k)
  <2>1. list \in Seq(Keys)
    BY <1>1, WithoutHolds DEF CacheInv, CacheType, Consistent
  <2>2. Len(list) \in 0..Len(list) /\ SubSeq(list, 1, Len(list)) = list
    <3> HIDE DEF list
    <3> QED
      BY <2>1, SubSeqFull
  <2>3. lru_list_' = <<k>> \o SubSeq(list, 1, Len(list))
    <3>1. lru_list_' = <<k>> \o list
      BY <1>4
    <3> HIDE DEF list
    <3> QED
      BY <2>2, <3>1, Zenon
  <2>4. Len(Without(lru_list_, k)) \in 0..Len(Without(lru_list_, k))
    BY <2>2
  <2> HIDE DEF k
  <2> QED
    BY <1>1, <1>2, <1>3, <1>5, <2>3, <2>4, SinceServed
<1>7. \A j \in Cached' : cache_'[j].data.file = NameOf(j)
  BY <1>1, <1>4, <1>5, SameFiles
<1>8. cache_[k].data \in Contents /\ cache_[k].data.file = NameOf(k)
  BY <1>1, <1>4, ConsistentFacts, EntryFacts DEF HandleInv
<1>9. Verdict(path[w], cache_[k].data, 200)
  BY <1>3, <1>8, Verdicts
<1>10. HandleInv'
  <2> DEFINE data == cache_[k].data
  <2>1. data \in Contents \cup {None} /\ Answer(w, 200, data) /\ Verdict(path[w], data, 200)
    BY <1>2, <1>8, <1>9
  <2> HIDE DEF data
  <2> QED
    BY <1>1, <1>2, <1>3, <1>7, <2>1, AnswerInv
<1> QED
  BY <1>5, <1>6, <1>10 DEF Inv

\* The cache does not have it, or no longer.
LEMMA MissInv ==
    ASSUME Inv, NEW w \in Workers, Miss(w)
    PROVE  Inv'
<1> DEFINE k == fs_path[w]
<1>1. CacheInv /\ SinceInv /\ HandleInv /\ at[w] = "get"
  BY DEF Inv, Miss
<1>2. /\ GetMiss(k) \/ GetExpired(k)
      /\ GoOn(w, "stat") /\ since' = StillCached(since)
      /\ UNCHANGED <<disk, path, fs_path, content>>
  BY DEF Miss
<1>3. CacheInv' /\ SinceInv' /\ \A j \in Cached' : cache_'[j].data.file = NameOf(j)
  <2>1. CASE GetMiss(k)
    <3>1. UNCHANGED cacheVars
      BY <2>1 DEF GetMiss
    <3>2. CacheInv' /\ SinceInv' /\ Cached' = Cached
      BY <1>1, <1>2, <3>1, SinceStays
    <3>3. UNCHANGED cache_
      BY <3>1 DEF cacheVars
    <3> QED
      BY <1>1, <3>2, <3>3, SameFiles
  <2>2. CASE GetExpired(k)
    <3>1. k \in Cached /\ Erase(k)
      BY <2>2 DEF GetExpired
    <3> QED
      BY <1>1, <1>2, <3>1, ErasedInv
  <2> QED
    BY <1>2, <2>1, <2>2
<1>4. HandleType'
  <2>1. at' = [at EXCEPT ![w] = "stat"] /\ UNCHANGED status
    BY <1>2 DEF GoOn
  <2> QED
    BY <1>1, <1>2, <2>1 DEF HandleInv, HandleType, Steps
<1>5. HandleInv'
  BY <1>1, <1>2, <1>3, <1>4, GoOnInv
<1> QED
  BY <1>3, <1>5 DEF Inv

\* What is on disk.
LEMMA OnDiskFacts ==
    ASSUME HandleInv, NEW w \in Workers, OnDisk(w) # Absent
    PROVE  /\ NameOf(fs_path[w]) \in Files
           /\ OnDisk(w) \in Contents /\ OnDisk(w).file = NameOf(fs_path[w])
BY DEF OnDisk, HandleInv, HandleType

\* The file is looked for.
LEMMA FileExistsInv ==
    ASSUME Inv, NEW w \in Workers, FileExists(w)
    PROVE  Inv'
<1>1. CacheInv /\ SinceInv /\ HandleInv /\ at[w] = "stat"
  BY DEF Inv, FileExists
<1>2. UNCHANGED <<cache_, lru_list_, current_size_, disk, path, fs_path, since>>
  BY DEF FileExists
<1>3. CacheInv' /\ SinceInv' /\ Cached' = Cached
  BY <1>1, <1>2, CacheAlone
<1>4. \A k \in Cached' : cache_'[k].data.file = NameOf(k)
  BY <1>1, <1>2, <1>3, SameFiles
<1>5. path[w] \in Requests /\ Leads(path[w], fs_path[w])
  BY <1>1, Looking
<1>6. CASE OnDisk(w) = Absent /\ Answer(w, 404, None)
  <2>1. Verdict(path[w], None, 404)
    BY <1>5, Verdicts
  <2>2. HandleInv'
    BY <1>1, <1>2, <1>4, <1>5, <1>6, <2>1, AnswerInv
  <2> QED
    BY <1>3, <2>2 DEF Inv
<1>7. CASE OnDisk(w) # Absent /\ GoOn(w, "read") /\ UNCHANGED content
  <2>1. NameOf(fs_path[w]) \in Files
    BY <1>1, <1>7, OnDiskFacts
  <2>2. HandleType'
    <3>1. at' = [at EXCEPT ![w] = "read"] /\ UNCHANGED status
      BY <1>7 DEF GoOn
    <3> QED
      BY <1>1, <1>2, <1>7, <3>1 DEF HandleInv, HandleType, Steps
  <2>3. HandleInv'
    BY <1>1, <1>2, <1>4, <1>7, <2>1, <2>2, GoOnInv
  <2> QED
    BY <1>3, <2>3 DEF Inv
<1> QED
  BY <1>6, <1>7 DEF FileExists

\* The file is read, if it is still there.
LEMMA ReadFileInv ==
    ASSUME Inv, NEW w \in Workers, ReadFile(w)
    PROVE  Inv'
<1>1. CacheInv /\ SinceInv /\ HandleInv /\ at[w] = "read"
  BY DEF Inv, ReadFile
<1>2. UNCHANGED <<cache_, lru_list_, current_size_, disk, path, fs_path, since>>
  BY DEF ReadFile
<1>3. CacheInv' /\ SinceInv' /\ Cached' = Cached
  BY <1>1, <1>2, CacheAlone
<1>4. \A k \in Cached' : cache_'[k].data.file = NameOf(k)
  BY <1>1, <1>2, <1>3, SameFiles
<1>5. path[w] \in Requests /\ Leads(path[w], fs_path[w])
  BY <1>1, Looking
<1>6. NameOf(fs_path[w]) \in Files
  BY <1>1 DEF HandleInv, WorkerOk
<1>7. CASE OnDisk(w) = Absent /\ Answer(w, 500, None)
  <2>1. Verdict(path[w], None, 500)
    BY <1>5, <1>6, Verdicts
  <2>2. HandleInv'
    BY <1>1, <1>2, <1>4, <1>5, <1>7, <2>1, AnswerInv
  <2> QED
    BY <1>3, <2>2 DEF Inv
<1>8. CASE /\ OnDisk(w) # Absent
           /\ content' = [content EXCEPT ![w] = OnDisk(w)] /\ GoOn(w, "put")
  <2> DEFINE data == OnDisk(w)
  <2>1. data \in Contents /\ data.file = NameOf(fs_path[w])
    BY <1>1, <1>8, OnDiskFacts
  <2>2. content' = [content EXCEPT ![w] = data] /\ at' = [at EXCEPT ![w] = "put"]
        /\ UNCHANGED status
    BY <1>8 DEF GoOn
  <2> HIDE DEF data
  <2>3. HandleType'
    BY <1>1, <1>2, <2>1, <2>2 DEF HandleInv, HandleType, Steps
  <2>4. content'[w] = data /\ \A v \in Workers : v # w => content'[v] = content[v]
    BY <1>1, <2>2 DEF HandleInv, HandleType
  <2>5. HandleInv'
    BY <1>1, <1>2, <1>4, <1>6, <1>8, <2>1, <2>3, <2>4, GoOnInv
  <2> QED
    BY <1>3, <2>5 DEF Inv
<1> QED
  BY <1>7, <1>8 DEF ReadFile

\* It goes into the cache, if it is not too large, and out.
LEMMA FillInv ==
    ASSUME Inv, NEW w \in Workers, Fill(w)
    PROVE  Inv'
<1> DEFINE k == fs_path[w]
           data == content[w]
<1>1. CacheInv /\ SinceInv /\ HandleInv /\ at[w] = "put"
  BY DEF Inv, Fill
<1>2. Answer(w, 200, data) /\ UNCHANGED <<disk, path, fs_path>>
  BY DEF Fill
<1>3. path[w] \in Requests /\ Leads(path[w], k) /\ k \in Keys
  BY <1>1, Looking
<1>4. data \in Contents /\ data.file = NameOf(k)
  BY <1>1 DEF HandleInv, WorkerOk
<1>5. Verdict(path[w], data, 200)
  BY <1>3, <1>4, Verdicts
<1>6. CacheInv' /\ SinceInv' /\ \A j \in Cached' : cache_'[j].data.file = NameOf(j)
  <2>1. CASE Put(k, data) /\ since' = StillCached(Serving(k))
    <3> HIDE DEF k, data
    <3>1. /\ CacheInv' /\ cache_'[k].data = data
          /\ \A j \in Cached' : j # k => j \in Cached /\ cache_'[j] = cache_[j]
      BY <1>1, <1>3, <1>4, <2>1, PutConsistent
    <3>2. PICK n \in 0..Len(Without(lru_list_, k)) :
             lru_list_' = <<k>> \o SubSeq(Without(lru_list_, k), 1, n)
      BY <1>1, <1>3, <1>4, <2>1, PutFacts
    <3>3. SinceInv'
      BY <1>1, <1>3, <2>1, <3>1, <3>2, SinceServed
    <3>4. ASSUME NEW j \in Cached' PROVE cache_'[j].data.file = NameOf(j)
      <4>1. CASE j = k
        BY <1>4, <3>1, <4>1
      <4>2. CASE j # k
        BY <1>1, <3>1, <4>2 DEF HandleInv
      <4> QED
        BY <4>1, <4>2
    <3> QED
      BY <3>1, <3>3, <3>4
  <2>2. CASE PutTooLarge(k, data) /\ UNCHANGED since
    <3>1. UNCHANGED <<cache_, lru_list_, current_size_, since>>
      BY <2>2 DEF PutTooLarge, cacheVars
    <3>2. CacheInv' /\ SinceInv' /\ Cached' = Cached
      BY <1>1, <3>1, CacheAlone
    <3> QED
      BY <1>1, <3>1, <3>2, SameFiles
  <2> QED
    BY <2>1, <2>2 DEF Fill
<1>7. HandleInv'
  <2> HIDE DEF data
  <2> QED
    BY <1>1, <1>2, <1>3, <1>4, <1>5, <1>6, AnswerInv
<1> QED
  BY <1>6, <1>7 DEF Inv

\* The worker is free.
LEMMA ReturnInv ==
    ASSUME Inv, NEW w \in Workers, Return(w)
    PROVE  Inv'
<1>1. CacheInv /\ SinceInv /\ HandleInv
  BY DEF Inv
<1>2. /\ at' = [at EXCEPT ![w] = "idle"] /\ path' = [path EXCEPT ![w] = None]
      /\ fs_path' = [fs_path EXCEPT ![w] = None] /\ content' = [content EXCEPT ![w] = None]
      /\ status' = [status EXCEPT ![w] = None]
      /\ UNCHANGED <<cache_, lru_list_, current_size_, disk, since>>
  BY DEF Return
<1>3. CacheInv' /\ SinceInv' /\ Cached' = Cached
  BY <1>1, <1>2, CacheAlone
<1>4. \A k \in Cached' : cache_'[k].data.file = NameOf(k)
  BY <1>1, <1>2, <1>3, SameFiles
<1>5. HandleType'
  BY <1>1, <1>2 DEF HandleInv, HandleType, Steps
<1>6. at'[w] = "idle"
  BY <1>1, <1>2 DEF HandleInv, HandleType
<1>7. WorkerOk(at'[w], path'[w], fs_path'[w], content'[w], status'[w])
  BY <1>6 DEF WorkerOk
<1>8. HandleInv'
  BY <1>1, <1>2, <1>4, <1>5, <1>7, OneWorker DEF HandleInv, HandleType
<1> QED
  BY <1>3, <1>8 DEF Inv

\* Nothing that a worker knows is about the content of a file.
LEMMA WorkersAlone ==
    ASSUME HandleInv, UNCHANGED handleVars, HandleType',
           \A f \in Files : disk'[f] # Absent => disk'[f].file = f,
           \A k \in Cached' : cache_'[k].data.file = NameOf(k)
    PROVE  HandleInv'
BY DEF HandleInv, handleVars

\* Files are deployed.
LEMMA DeployInv ==
    ASSUME Inv, NEW f \in Files, NEW data \in Contents \cup {Absent}, Deploy(f, data)
    PROVE  Inv'
<1>1. CacheInv /\ SinceInv /\ HandleInv
  BY DEF Inv
<1>2. /\ data # Absent => data.file = f
      /\ disk' = [disk EXCEPT ![f] = data]
      /\ UNCHANGED <<cache_, lru_list_, current_size_, since, handleVars>>
  BY DEF Deploy
<1>3. CacheInv' /\ SinceInv' /\ Cached' = Cached
  BY <1>1, <1>2, CacheAlone
<1>4. \A k \in Cached' : cache_'[k].data.file = NameOf(k)
  BY <1>1, <1>2, <1>3, SameFiles
<1>5. HandleType' /\ \A g \in Files : disk'[g] # Absent => disk'[g].file = g
  BY <1>1, <1>2 DEF HandleInv, HandleType, handleVars
<1>6. HandleInv'
  BY <1>1, <1>2, <1>4, <1>5, WorkersAlone
<1> QED
  BY <1>3, <1>6 DEF Inv

\* Time passes.
LEMMA TickInv ==
    ASSUME Inv, Tick
    PROVE  Inv'
<1>1. CacheInv /\ SinceInv /\ HandleInv
  BY DEF Inv
<1>2. Age /\ UNCHANGED <<disk, since, handleVars>> /\ UNCHANGED lru_list_
  BY DEF Tick, Age
<1>3. CacheInv' /\ Cached' = Cached /\ \A k \in Cached : cache_'[k].data = cache_[k].data
  BY <1>1, <1>2, AgeConsistent
<1>4. SinceInv'
  BY <1>1, <1>2 DEF SinceInv, Ahead
<1>5. \A k \in Cached' : cache_'[k].data.file = NameOf(k)
  BY <1>1, <1>3, SameFiles
<1>6. HandleInv'
  BY <1>1, <1>2, <1>5, WorkersAlone DEF HandleInv, HandleType, handleVars
<1> QED
  BY <1>3, <1>4, <1>6 DEF Inv

\* Entries are removed.
LEMMA MaintainInv ==
    ASSUME Inv, Maintain
    PROVE  Inv'
<1>1. CacheInv /\ SinceInv /\ HandleInv
  BY DEF Inv
<1>2. /\ Clear \/ \E k \in Keys : RemoveKey(k)
      /\ since' = StillCached(since) /\ UNCHANGED <<disk, handleVars>>
  BY DEF Maintain
<1>3. CacheInv' /\ SinceInv' /\ \A j \in Cached' : cache_'[j].data.file = NameOf(j)
  <2>1. CASE Clear
    <3>1. CacheInv' /\ Cached' = {}
      BY <1>1, <2>1, ClearConsistent
    <3>2. since' = [j \in Keys |-> {}]
      BY <1>2, <3>1 DEF StillCached, Cached
    <3>3. SinceInv'
      BY <2>1, <3>2 DEF SinceInv, Clear
    <3> QED
      BY <3>1, <3>3
  <2>2. ASSUME NEW k \in Keys, RemoveKey(k)
        PROVE  CacheInv' /\ SinceInv' /\ \A j \in Cached' : cache_'[j].data.file = NameOf(j)
    <3>1. k \in Cached /\ Erase(k)
      BY <2>2 DEF RemoveKey
    <3> QED
      BY <1>1, <1>2, <3>1, ErasedInv
  <2> QED
    BY <1>2, <2>1, <2>2
<1>4. HandleInv'
  BY <1>1, <1>2, <1>3, WorkersAlone DEF HandleInv, HandleType, handleVars
<1> QED
  BY <1>3, <1>4 DEF Inv

\* Nothing happens.
LEMMA StutterInv ==
    ASSUME Inv, UNCHANGED vars
    PROVE  Inv'
<1>1. CacheInv' /\ SinceInv' /\ Cached' = Cached
  BY CacheAlone DEF Inv, vars
<1>2. HandleInv'
  BY <1>1, WorkersAlone DEF Inv, HandleInv, HandleType, vars, handleVars
<1> QED
  BY <1>1, <1>2 DEF Inv

\* Every step keeps the invariant.
LEMMA NextInv == Inv /\ [Next]_vars => Inv'
<1> SUFFICES ASSUME Inv, [Next]_vars PROVE Inv'
  OBVIOUS
<1>1. ASSUME NEW w \in Workers, Handle(w) PROVE Inv'
  BY <1>1, HitInv, MissInv, FileExistsInv, ReadFileInv, FillInv, ReturnInv DEF Handle
<1>2. ASSUME NEW w \in Workers, NEW p \in Requests, Resolve(w, p) PROVE Inv'
  BY <1>2, ResolveInv
<1>3. ASSUME NEW f \in Files, NEW data \in Contents \cup {Absent}, Deploy(f, data) PROVE Inv'
  BY <1>3, DeployInv
<1>4. CASE Tick
  BY <1>4, TickInv
<1>5. CASE Maintain
  BY <1>5, MaintainInv
<1>6. CASE UNCHANGED vars
  BY <1>6, StutterInv
<1> QED
  BY <1>1, <1>2, <1>3, <1>4, <1>5, <1>6 DEF Next

\* The invariant holds of every behaviour.
LEMMA InvHolds == Spec => []Inv
<1> QED
  BY InitInv, NextInv, PTL DEF Spec

-----------------------------------------------------------------------------
(* Theorems                                                                 *)

\* Map, recency list and running total of the cache agree after any sequence
\* of get, put, remove and clear by any number of workers.
THEOREM CacheConsistent == Spec => []Consistent
<1>1. Inv => Consistent
  BY DEF Inv, CacheInv
<1> QED
  BY <1>1, InvHolds, PTL

\* Whatever the path, the answer is about what it denotes: its segments with
\* "..", "." and empty ones resolved, as the file system reads them, that is up
\* to the first NUL.
THEOREM AnswersAreRight == Spec => []AnswersTheRequest
<1>1. ASSUME Inv PROVE AnswersTheRequest
  <2> SUFFICES ASSUME NEW w \in Workers, at[w] = "answered"
               PROVE  LET p == path[w]
                          bare == DenotesDirectory(p) /\ Last(p) # ""
                      IN  /\ status[w] = 403 <=> Escapes(p)
                          /\ status[w] = 301 <=> ~Escapes(p) /\ bare
                          /\ status[w] = 200 => content[w].file = Wanted(p)
                          /\ ~Escapes(p) /\ ~bare /\ Wanted(p) \notin Files => status[w] = 404
    BY DEF AnswersTheRequest
  <2> DEFINE p == path[w]
  <2>1. p \in Requests /\ Verdict(p, content[w], status[w])
    BY <1>1 DEF Inv, HandleInv, WorkerOk
  <2> HIDE DEF p
  <2>2. /\ sanitize_path(p).depth \in Int
        /\ sanitize_path(p).depth < 0 <=> Escapes(p)
        /\ ~Escapes(p) => sanitize_path(p).parts = Denotes(p)
    BY <2>1, SanitizeDenotes, FilesAssumption
  <2>3. sanitize_path(p).depth >= 0 <=> ~Escapes(p)
    BY <2>2
  <2>4. ~Escapes(p) => NameOf(Target(p)) = Wanted(p)
    BY <2>1, TargetIsWanted
  <2>5. ~Escapes(p) => (Redirected(p) <=> DenotesDirectory(p) /\ Last(p) # "")
    BY <2>2 DEF Redirected, DenotesDirectory
  <2>6. status[w] = 403 <=> Escapes(p)
    BY <2>1, <2>2 DEF Verdict
  <2>7. status[w] = 301 <=> ~Escapes(p) /\ DenotesDirectory(p) /\ Last(p) # ""
    BY <2>1, <2>3, <2>5 DEF Verdict
  <2>8. status[w] = 200 => content[w].file = Wanted(p)
    <3> SUFFICES ASSUME status[w] = 200 PROVE content[w].file = Wanted(p)
      OBVIOUS
    <3>1. ~Escapes(p)
      BY <2>6
    <3> QED
      BY <2>1, <2>4, <3>1 DEF Verdict
  <2>9. ~Escapes(p) /\ ~(DenotesDirectory(p) /\ Last(p) # "") /\ Wanted(p) \notin Files
           => status[w] = 404
    <3> SUFFICES ASSUME ~Escapes(p), ~(DenotesDirectory(p) /\ Last(p) # ""), Wanted(p) \notin Files
                 PROVE  status[w] = 404
      OBVIOUS
    <3>1. NameOf(Target(p)) \notin Files
      BY <2>4, Zenon
    <3>2. sanitize_path(p).depth >= 0 /\ ~Redirected(p)
      BY <2>3, <2>5
    <3> QED
      BY <2>1, <3>1, <3>2 DEF Verdict
  <2> QED
    BY <2>6, <2>7, <2>8, <2>9 DEF p
<1> QED
  BY <1>1, InvHolds, PTL

\* put evicts the entries that do not fit beside the new one together with all
\* that was answered from since they were, and no others.
THEOREM EvictionIsExact == Spec => EvictsWhatItMust
<1> DEFINE Exact == \A w \in Workers : Fill(w) /\ content[w].size <= max_size_bytes_ =>
              \A k \in Cached \ {fs_path[w]} :
                 cache_'[k] = Absent
                    <=> Bytes((since[k] \cup {k}) \ {fs_path[w]}) + content[w].size
                           > max_size_bytes_
<1>1. Inv /\ [Next]_vars => [Exact]_vars
  <2> SUFFICES ASSUME Inv, NEW w \in Workers, Fill(w), content[w].size <= max_size_bytes_,
                      NEW k \in Cached \ {fs_path[w]}
               PROVE  cache_'[k] = Absent
                         <=> Bytes((since[k] \cup {k}) \ {fs_path[w]}) + content[w].size
                                > max_size_bytes_
    OBVIOUS
  <2>1. CacheInv /\ SinceInv /\ HandleInv /\ at[w] = "put"
    BY DEF Inv, Fill
  <2>2. fs_path[w] \in Keys
    BY <2>1, Looking
  <2>3. content[w] \in Contents
    BY <2>1 DEF HandleInv, WorkerOk
  <2>4. Put(fs_path[w], content[w])
    <3>1. ~PutTooLarge(fs_path[w], content[w])
      BY <2>3, CacheAssumption DEF PutTooLarge
    <3> QED
      BY <3>1 DEF Fill
  <2> DEFINE j == fs_path[w]
             data == content[w]
  <2>5. j \in Keys /\ data \in Contents /\ Put(j, data) /\ k \in Cached \ {j}
    BY <2>2, <2>3, <2>4
  <2> HIDE DEF j, data
  <2>6. cache_'[k] = Absent <=> Bytes((since[k] \cup {k}) \ {j}) + data.size > max_size_bytes_
    BY <2>1, <2>5, PutEvicts
  <2> QED
    BY <2>6 DEF j, data
<1>2. Spec => [][Exact]_vars
  <2> HIDE DEF Exact
  <2> QED
    BY <1>1, InvHolds, PTL DEF Spec
<1> QED
  BY <1>2 DEF EvictsWhatItMust
=============================================================================
