----------------------------- MODULE FoldLemmas -----------------------------
(***************************************************************************)
(* Facts about the folds of the community modules, for sets and sequences of *)
(* any size.  An induction theorem with an operator for its parameter cannot   *)
(* be used here; these are stated with sets: what holds of a finite set is      *)
(* that a set G of its subsets has them all.                                  *)
(***************************************************************************)
EXTENDS Integers, SequencesExt, FiniteSetTheorems, TLAPS

\* G has every subset of S if it has a set whenever it has what is left of that
\* set without one element, whichever.
LEMMA SubsetInduction ==
  ASSUME NEW S, IsFiniteSet(S), NEW G,
         \A T \in SUBSET S : (\A x \in T : T \ {x} \in G) => T \in G
  PROVE  \A T \in SUBSET S : T \in G
<1> DEFINE bad == {T \in SUBSET S : T \notin G}
<1> SUFFICES ASSUME bad # {} PROVE FALSE
  OBVIOUS
<1>1. bad \subseteq FiniteSubsetsOf(S)
  BY FS_FiniteSubsetsOfFinite
<1>2. PICK T \in bad : \A U \in bad : ~(<<U, T>> \in StrictSubsetOrdering(S))
  <2> HIDE DEF bad
  <2> QED
    BY <1>1, FS_StrictSubsetOrderingWellFounded, WFMin
<1>3. ASSUME NEW x \in T PROVE T \ {x} \in G
  <2>1. <<T \ {x}, T>> \in StrictSubsetOrdering(S)
    BY <1>3 DEF StrictSubsetOrdering
  <2> QED
    BY <1>2, <2>1
<1> QED
  BY <1>3

\* A finite set of integers has its greatest member.
LEMMA MaxMember ==
  ASSUME NEW S, IsFiniteSet(S), S \subseteq Int
  PROVE  \A T \in SUBSET S : T # {} => Max(T) \in T /\ \A y \in T : Max(T) >= y
<1> DEFINE G == {T \in SUBSET S : T # {} => \E m \in T : \A y \in T : m >= y}
<1>1. ASSUME NEW T \in SUBSET S, \A x \in T : T \ {x} \in G PROVE T \in G
  <2>1. CASE T = {}
    BY <2>1
  <2>2. CASE T # {}
    <3>1. PICK x \in T : TRUE
      BY <2>2
    <3>2. CASE T \ {x} = {}
      <4>1. \A y \in T : x >= y
        BY <3>2
      <4> QED
        BY <4>1
    <3>3. CASE T \ {x} # {}
      <4>1. PICK m \in T \ {x} : \A y \in T \ {x} : m >= y
        BY <1>1, <3>3
      <4>2. IF m >= x THEN \A y \in T : m >= y ELSE \A y \in T : x >= y
        BY <4>1
      <4> QED
        BY <4>1, <4>2
    <3> QED
      BY <3>2, <3>3
  <2> QED
    BY <2>1, <2>2
<1>2. \A T \in SUBSET S : T \in G
  <2> HIDE DEF G
  <2> QED
    BY <1>1, SubsetInduction
<1> QED
  BY <1>2 DEF Max

\* And its least.
LEMMA MinMember ==
  ASSUME NEW S, IsFiniteSet(S), S \subseteq Int
  PROVE  \A T \in SUBSET S : T # {} => Min(T) \in T /\ \A y \in T : Min(T) <= y
<1> DEFINE G == {T \in SUBSET S : T # {} => \E m \in T : \A y \in T : m <= y}
<1>1. ASSUME NEW T \in SUBSET S, \A x \in T : T \ {x} \in G PROVE T \in G
  <2>1. CASE T = {}
    BY <2>1
  <2>2. CASE T # {}
    <3>1. PICK x \in T : TRUE
      BY <2>2
    <3>2. CASE T \ {x} = {}
      <4>1. \A y \in T : x <= y
        BY <3>2
      <4> QED
        BY <4>1
    <3>3. CASE T \ {x} # {}
      <4>1. PICK m \in T \ {x} : \A y \in T \ {x} : m <= y
        BY <1>1, <3>3
      <4>2. IF m <= x THEN \A y \in T : m <= y ELSE \A y \in T : x <= y
        BY <4>1
      <4> QED
        BY <4>1, <4>2
    <3> QED
      BY <3>2, <3>3
  <2> QED
    BY <2>1, <2>2
<1>2. \A T \in SUBSET S : T \in G
  <2> HIDE DEF G
  <2> QED
    BY <1>1, SubsetInduction
<1> QED
  BY <1>2 DEF Min

\* A fold takes the elements of a set one by one: c says which is next, and step
\* what is made of the fold of the others.
Chooses(c, S) == \A T \in SUBSET S : T # {} => c[T] \in T
FoldsTo(g, S, base, step, c) ==
  \A T \in SUBSET S : g[T] = IF T = {} THEN base ELSE step[T][g[T \ {c[T]}]]

\* What a fold computes is defined, and is where the values of step are.
LEMMA Recursion ==
  ASSUME NEW S, IsFiniteSet(S), NEW V, NEW base, base \in V,
         NEW step, step \in [SUBSET S -> [V -> V]], NEW c, Chooses(c, S)
  PROVE  \E g \in [SUBSET S -> V] : FoldsTo(g, S, base, step, c)
<1> DEFINE upto(n) == {T \in SUBSET S : Cardinality(T) <= n}
           Sol(n) ==
             {g \in [upto(n) -> V] : \A T \in upto(n) :
                g[T] = IF T = {} THEN base ELSE step[T][g[T \ {c[T]}]]}
<1> USE DEF Chooses
<1>1. Sol(0) # {}
  <2>1. \A T \in upto(0) : T = {}
    BY FS_EmptySet, FS_Subset, FS_CardinalityType
  <2>2. [T \in upto(0) |-> base] \in Sol(0)
    BY <2>1
  <2> QED
    BY <2>2
<1>2. ASSUME NEW n \in Nat, Sol(n) # {} PROVE Sol(n + 1) # {}
  <2>1. PICK g : g \in Sol(n)
    BY <1>2
  <2> DEFINE h == [T \in upto(n+1) |-> IF T \in upto(n) THEN g[T] ELSE step[T][g[T \ {c[T]}]]]
  <2>2. \A T \in upto(n+1) : T # {} => T \ {c[T]} \in upto(n)
    <3> TAKE T \in upto(n+1)
    <3> HAVE T # {}
    <3>1. IsFiniteSet(T) /\ c[T] \in T
      BY FS_Subset
    <3>2. Cardinality(T \ {c[T]}) = Cardinality(T) - 1 /\ Cardinality(T) \in Nat
      BY <3>1, FS_RemoveElement, FS_CardinalityType
    <3> QED
      BY <3>2
  <2>3. \A T \in upto(n) : T \in upto(n+1)
    BY FS_Subset, FS_CardinalityType
  <2>4. {} \in upto(n)
    BY FS_EmptySet
  <2>5. \A T \in upto(n+1) : h[T] = IF T = {} THEN base ELSE step[T][h[T \ {c[T]}]]
    <3> HIDE DEF upto
    <3> QED
      BY <2>1, <2>2, <2>3, <2>4
  <2>6. h \in [upto(n+1) -> V]
    <3>1. \A T \in upto(n+1) : T \in SUBSET S
      OBVIOUS
    <3>2. g \in [upto(n) -> V]
      BY <2>1
    <3>3. ASSUME NEW T \in upto(n+1), T \notin upto(n) PROVE step[T][g[T \ {c[T]}]] \in V
      <4>1. T \ {c[T]} \in upto(n)
        BY <2>2, <2>4, <3>3
      <4> HIDE DEF upto
      <4>2. g[T \ {c[T]}] \in V
        BY <3>2, <4>1
      <4>3. step[T] \in [V -> V]
        BY <3>1
      <4> QED
        BY <4>2, <4>3
    <3> HIDE DEF upto
    <3> QED
      BY <3>2, <3>3
  <2> QED
    BY <2>5, <2>6
<1> DEFINE G == {T \in SUBSET S : Sol(Cardinality(T)) # {}}
<1>3. ASSUME NEW T \in SUBSET S, \A x \in T : T \ {x} \in G PROVE T \in G
  <2>1. IsFiniteSet(T)
    BY FS_Subset
  <2>2. CASE T = {}
    <3>1. Cardinality(T) = 0
      BY <2>2, FS_EmptySet
    <3> HIDE DEF Sol
    <3> QED
      BY <1>1, <3>1
  <2>3. CASE T # {}
    <3>1. PICK x \in T : TRUE
      BY <2>3
    <3>2. /\ Cardinality(T \ {x}) \in Nat
          /\ Cardinality(T) = Cardinality(T \ {x}) + 1
      <4>1. IsFiniteSet(T \ {x}) /\ Cardinality(T \ {x}) = Cardinality(T) - 1
        BY <2>1, <3>1, FS_RemoveElement
      <4>2. Cardinality(T \ {x}) \in Nat /\ Cardinality(T) \in Nat
        BY <2>1, <4>1, FS_CardinalityType
      <4> QED
        BY <4>1, <4>2
    <3>3. Sol(Cardinality(T \ {x})) # {}
      BY <1>3
    <3> HIDE DEF Sol
    <3> QED
      BY <1>2, <3>2, <3>3
  <2> QED
    BY <2>2, <2>3
<1>4. S \in G
  <2> HIDE DEF G
  <2> QED
    BY <1>3, SubsetInduction
<1>5. upto(Cardinality(S)) = SUBSET S
  BY FS_Subset
<1>6. PICK g : g \in Sol(Cardinality(S))
  BY <1>4
<1> QED
  BY <1>5, <1>6 DEF FoldsTo
-----------------------------------------------------------------------------
(* Sums, as FoldFunction makes them.                                        *)

Total(f) == FoldFunction(+, 0, f)
AnyOf(T) == CHOOSE x \in T : TRUE

\* The partial sums of f: those of the sets that the fold of all of f goes through.
IsPartial(g, f, S) ==
  g = [T \in SUBSET S |-> IF T = {} THEN 0 ELSE f[AnyOf(T)] + g[T \ {AnyOf(T)}]]
Partial(f, S) == CHOOSE g : IsPartial(g, f, S)

LEMMA TotalIsPartial == ASSUME NEW f PROVE Total(f) = Partial(f, DOMAIN f)[DOMAIN f]
  BY Zenon DEF Total, Partial, IsPartial, AnyOf, FoldFunction, FoldFunctionOnSet, MapThenFoldSet

LEMMA PartialSums ==
  ASSUME NEW S, IsFiniteSet(S), NEW f, \A x \in S : f[x] \in Int
  PROVE  LET g == Partial(f, S)
         IN /\ g \in [SUBSET S -> Int] /\ g[{}] = 0
            /\ \A T \in SUBSET S : T # {} =>
                 /\ AnyOf(T) \in T /\ g[T] = f[AnyOf(T)] + g[T \ {AnyOf(T)}]
<1> DEFINE step == [T \in SUBSET S |-> [t \in Int |-> IF T = {} THEN t ELSE f[AnyOf(T)] + t]]
           c == [T \in SUBSET S |-> AnyOf(T)]
<1>1. \A T \in SUBSET S : T # {} => AnyOf(T) \in T
  BY DEF AnyOf
<1>2. \A T \in SUBSET S : T # {} => f[AnyOf(T)] \in Int
  BY <1>1
<1>3. step \in [SUBSET S -> [Int -> Int]]
  BY <1>2
<1>4. Chooses(c, S)
  BY <1>1 DEF Chooses
<1>5. PICK h \in [SUBSET S -> Int] : FoldsTo(h, S, 0, step, c)
  <2>1. 0 \in Int
    OBVIOUS
  <2> HIDE DEF step, c
  <2> QED
    BY <1>3, <1>4, <2>1, Recursion, Zenon
<1>6. \A T \in SUBSET S : h[T] = IF T = {} THEN 0 ELSE f[AnyOf(T)] + h[T \ {AnyOf(T)}]
  <2>1. ASSUME NEW T \in SUBSET S
        PROVE  h[T] = IF T = {} THEN 0 ELSE f[AnyOf(T)] + h[T \ {AnyOf(T)}]
    <3>1. c[T] = AnyOf(T)
      OBVIOUS
    <3>2. h[T \ {c[T]}] \in Int
      BY <1>5
    <3>3. h[T] = IF T = {} THEN 0 ELSE step[T][h[T \ {c[T]}]]
      BY <1>5 DEF FoldsTo
    <3>4. step[T][h[T \ {c[T]}]] = IF T = {} THEN h[T \ {c[T]}] ELSE f[AnyOf(T)] + h[T \ {c[T]}]
      BY <3>2
    <3> QED
      BY <3>1, <3>3, <3>4
  <2> QED
    BY <2>1
<1>7. IsPartial(h, f, S)
  BY <1>6 DEF IsPartial
<1>8. IsPartial(Partial(f, S), f, S)
  BY <1>7, Zenon DEF Partial
<1> DEFINE g == Partial(f, S)
           G == {T \in SUBSET S : g[T] \in Int}
<1>9. \A T \in SUBSET S : g[T] = IF T = {} THEN 0 ELSE f[AnyOf(T)] + g[T \ {AnyOf(T)}]
  BY <1>8 DEF IsPartial
<1>10. ASSUME NEW T \in SUBSET S, \A x \in T : T \ {x} \in G PROVE T \in G
  <2>1. T = {} \/ T \ {AnyOf(T)} \in G
    BY <1>1, <1>10
  <2>2. g[T] = IF T = {} THEN 0 ELSE f[AnyOf(T)] + g[T \ {AnyOf(T)}]
    BY <1>9
  <2>3. T # {} => f[AnyOf(T)] \in Int /\ g[T \ {AnyOf(T)}] \in Int
    BY <1>2, <2>1
  <2>4. g[T] \in Int
    <3> HIDE DEF g
    <3> QED
      BY <2>2, <2>3
  <2> QED
    BY <2>4
<1>11. \A T \in SUBSET S : T \in G
  <2> HIDE DEF G
  <2> QED
    BY <1>10, SubsetInduction
<1>12. g = [T \in SUBSET S |-> g[T]]
  BY <1>8 DEF IsPartial
<1> QED
  BY <1>1, <1>9, <1>11, <1>12
\* The order of the elements is of no matter.
IntOn(f, S) == \A x \in S : f[x] \in Int
Adds(g, f, S) == \A T \in SUBSET S : \A x \in T : g[T] = f[x] + g[T \ {x}]

LEMMA AnyOrder ==
  ASSUME NEW S, IsFiniteSet(S), NEW f, IntOn(f, S)
  PROVE  Adds(Partial(f, S), f, S)
<1> USE DEF IntOn
<1> DEFINE g == Partial(f, S)
           G == {T \in SUBSET S : \A x \in T : g[T] = f[x] + g[T \ {x}]}
<1>1. /\ g \in [SUBSET S -> Int]
      /\ \A T \in SUBSET S : T # {} => AnyOf(T) \in T /\ g[T] = f[AnyOf(T)] + g[T \ {AnyOf(T)}]
  BY PartialSums
<1> HIDE DEF g
<1>2. ASSUME NEW T \in SUBSET S, \A x \in T : T \ {x} \in G PROVE T \in G
  <2> SUFFICES ASSUME NEW x \in T PROVE g[T] = f[x] + g[T \ {x}]
    OBVIOUS
  <2> DEFINE y == AnyOf(T)
  <2>1. y \in T /\ g[T] = f[y] + g[T \ {y}]
    BY <1>1
  <2> HIDE DEF y
  <2>2. CASE x = y
    BY <2>1, <2>2
  <2>3. CASE x # y
    <3>1. g[T \ {y}] = f[x] + g[(T \ {y}) \ {x}]
      BY <1>2, <2>1, <2>3
    <3>2. g[T \ {x}] = f[y] + g[(T \ {x}) \ {y}]
      BY <1>2, <2>1, <2>3
    <3>3. (T \ {y}) \ {x} = (T \ {x}) \ {y}
      OBVIOUS
    <3>4. f[x] \in Int /\ f[y] \in Int /\ g[(T \ {x}) \ {y}] \in Int
      BY <1>1, <2>1
    <3>5. g[T] = f[y] + (f[x] + g[(T \ {x}) \ {y}]) /\ g[T \ {x}] = f[y] + g[(T \ {x}) \ {y}]
      BY <2>1, <3>1, <3>2, <3>3
    <3> QED
      BY <3>4, <3>5
  <2> QED
    BY <2>2, <2>3
<1>3. \A T \in SUBSET S : T \in G
  <2> HIDE DEF G
  <2> QED
    BY <1>2, SubsetInduction
<1> QED
  BY <1>3 DEF g, Adds

\* A sum of fewer and smaller summands is no greater.
LEMMA TotalSmaller ==
  ASSUME NEW S, IsFiniteSet(S), NEW D \in SUBSET S, NEW f, NEW g,
         DOMAIN f = D, DOMAIN g = S,
         \A x \in S : g[x] \in Nat, \A x \in D : f[x] \in Int /\ f[x] <= g[x]
  PROVE  /\ Total(f) \in Int /\ Total(g) \in Nat /\ Total(f) <= Total(g)
<1> DEFINE F == Partial(f, D)
           H == Partial(g, S)
           G == {T \in SUBSET S : H[T] \in Nat /\ F[T \cap D] <= H[T]}
<1>1. IsFiniteSet(D) /\ (\A x \in S : g[x] \in Int)
  BY FS_Subset
<1>2. F \in [SUBSET D -> Int] /\ F[{}] = 0 /\ H \in [SUBSET S -> Int] /\ H[{}] = 0
  BY <1>1, PartialSums
<1>3. Adds(F, f, D) /\ Adds(H, g, S)
  <2>1. IntOn(f, D) /\ IntOn(g, S)
    BY <1>1 DEF IntOn
  <2> QED
    BY <1>1, <2>1, AnyOrder
<1> HIDE DEF F, H
<1>4. \A T \in SUBSET S : \A x \in T : H[T] = g[x] + H[T \ {x}]
  BY <1>3 DEF Adds
<1>5. ASSUME NEW T \in SUBSET S, \A x \in T : T \ {x} \in G PROVE T \in G
  <2>1. CASE T = {}
    BY <1>2, <2>1
  <2>2. CASE T # {}
    <3>1. PICK x \in T : TRUE
      BY <2>2
    <3>2. /\ H[T \ {x}] \in Nat /\ F[(T \ {x}) \cap D] <= H[T \ {x}]
      BY <1>5
    <3>3. H[T] = g[x] + H[T \ {x}] /\ g[x] \in Nat
      BY <1>4
    <3>4. F[T \cap D] \in Int /\ F[(T \ {x}) \cap D] \in Int
      BY <1>2
    <3>5. CASE x \in D
      <4>1. F[T \cap D] = f[x] + F[(T \cap D) \ {x}]
        BY <1>3, <3>5 DEF Adds
      <4>2. (T \cap D) \ {x} = (T \ {x}) \cap D
        OBVIOUS
      <4>3. f[x] \in Int /\ f[x] <= g[x]
        BY <3>5
      <4>4. F[T \cap D] <= H[T] /\ H[T] \in Nat
        BY <3>2, <3>3, <3>4, <4>1, <4>2, <4>3
      <4> QED
        BY <4>4
    <3>6. CASE x \notin D
      <4>1. T \cap D = (T \ {x}) \cap D
        BY <3>6
      <4>2. F[T \cap D] <= H[T] /\ H[T] \in Nat
        BY <3>2, <3>3, <3>4, <4>1
      <4> QED
        BY <4>2
    <3> QED
      BY <3>5, <3>6
  <2> QED
    BY <2>1, <2>2
<1>6. \A T \in SUBSET S : T \in G
  <2> HIDE DEF G
  <2> QED
    BY <1>5, SubsetInduction
<1>7. S \in G /\ S \cap D = D
  BY <1>6
<1>8. Total(f) = F[D] /\ Total(g) = H[S]
  BY TotalIsPartial DEF F, H
<1>9. H[S] \in Nat /\ F[D] <= H[S]
  BY <1>7
<1>10. F[D] \in Int
  BY <1>2
<1> QED
  BY <1>8, <1>9, <1>10

\* A factor may be taken out of a sum.
LEMMA TotalScaled ==
  ASSUME NEW S, IsFiniteSet(S), NEW k \in Int, NEW f, DOMAIN f = S,
         \A x \in S : f[x] \in Int
  PROVE  /\ Total(f) \in Int
         /\ Total([x \in S |-> k*f[x]]) = k*Total(f)
<1> DEFINE kf == [x \in S |-> k*f[x]]
           F == Partial(f, S)
           H == Partial(kf, S)
           G == {T \in SUBSET S : H[T] = k*F[T]}
<1>1. \A x \in S : kf[x] \in Int
  OBVIOUS
<1>2. F \in [SUBSET S -> Int] /\ F[{}] = 0 /\ H[{}] = 0
  <2> HIDE DEF kf
  <2> QED
    BY <1>1, PartialSums
<1>3. \A T \in SUBSET S : \A x \in T : F[T] = f[x] + F[T \ {x}]
  <2>1. IntOn(f, S)
    BY DEF IntOn
  <2>2. Adds(F, f, S)
    BY <2>1, AnyOrder
  <2> QED
    BY <2>2 DEF Adds
<1>4. \A T \in SUBSET S : \A x \in T : H[T] = k*f[x] + H[T \ {x}]
  <2>1. Adds(H, kf, S)
    <3>1. IntOn(kf, S)
      BY <1>1 DEF IntOn
    <3> HIDE DEF kf
    <3> QED
      BY <3>1, AnyOrder
  <2> HIDE DEF H
  <2> QED
    BY <2>1 DEF Adds
<1>5. Total(f) = F[S] /\ Total(kf) = H[S]
  BY TotalIsPartial
<1> HIDE DEF F, H
<1>6. ASSUME NEW T \in SUBSET S, \A x \in T : T \ {x} \in G PROVE T \in G
  <2>1. CASE T = {}
    BY <1>2, <2>1
  <2>2. CASE T # {}
    <3>1. PICK x \in T : TRUE
      BY <2>2
    <3>2. /\ H[T \ {x}] = k*F[T \ {x}] /\ H[T] = k*f[x] + H[T \ {x}]
          /\ F[T] = f[x] + F[T \ {x}] /\ f[x] \in Int /\ F[T \ {x}] \in Int
      BY <1>2, <1>3, <1>4, <1>6
    <3>3. k*(f[x] + F[T \ {x}]) = k*f[x] + k*F[T \ {x}]
      BY <3>2
    <3> QED
      BY <3>2, <3>3
  <2> QED
    BY <2>1, <2>2
<1>7. S \in G
  <2>1. \A T \in SUBSET S : (\A x \in T : T \ {x} \in G) => T \in G
    BY <1>6
  <2> HIDE DEF G
  <2>2. \A T \in SUBSET S : T \in G
    BY <2>1, SubsetInduction
  <2> QED
    BY <2>2
<1> QED
  BY <1>2, <1>5, <1>7
\* No summand is greater than the sum.
LEMMA TotalMember ==
  ASSUME NEW S, IsFiniteSet(S), NEW f, DOMAIN f = S, \A x \in S : f[x] \in Nat, NEW x \in S
  PROVE  Total(f) \in Nat /\ f[x] <= Total(f)
<1> DEFINE F == Partial(f, S)
<1>1. IntOn(f, S) /\ \A y \in S : f[y] \in Int
  BY DEF IntOn
<1>2. Total(f) = F[S] /\ F \in [SUBSET S -> Int] /\ Adds(F, f, S)
  BY <1>1, TotalIsPartial, PartialSums, AnyOrder
<1> HIDE DEF F
<1> DEFINE G == {T \in SUBSET S : F[T] \in Nat}
<1>3. F[{}] = 0
  BY <1>1, PartialSums DEF F
<1>4. ASSUME NEW T \in SUBSET S, \A y \in T : T \ {y} \in G PROVE T \in G
  <2>1. CASE T = {}
    BY <1>3, <2>1
  <2>2. CASE T # {}
    <3>1. PICK y \in T : TRUE
      BY <2>2
    <3>2. F[T] = f[y] + F[T \ {y}] /\ F[T \ {y}] \in Nat /\ f[y] \in Nat
      BY <1>2, <1>4 DEF Adds
    <3>3. F[T] \in Nat
      BY <3>2
    <3> QED
      BY <3>3
  <2> QED
    BY <2>1, <2>2
<1>5. \A T \in SUBSET S : T \in G
  <2> HIDE DEF G
  <2> QED
    BY <1>4, SubsetInduction
<1>6. F[S] = f[x] + F[S \ {x}] /\ F[S \ {x}] \in Nat
  BY <1>2, <1>5 DEF Adds
<1> QED
  BY <1>2, <1>6

-----------------------------------------------------------------------------
(* What FoldLeft leaves of b when each element of a sequence of n takes d of it. *)

IsLeft(g, b, d, n) ==
  g = [T \in SUBSET (1..n) |-> IF T = {} THEN b ELSE g[T \ {Max(T)}] - d[Max(T)]]

LEMMA WhatIsLeft ==
  ASSUME NEW n \in Nat, NEW b \in Int, NEW d \in [1..n -> Int]
  PROVE  /\ \E g : IsLeft(g, b, d, n)
         /\ \E r \in Int : \A g : IsLeft(g, b, d, n) => g[1..n] = r
<1> DEFINE S == 1..n
           step == [T \in SUBSET S |-> [t \in Int |-> IF T = {} THEN t ELSE t - d[Max(T)]]]
           c == [T \in SUBSET S |-> Max(T)]
<1>1. IsFiniteSet(S) /\ S \subseteq Int
  BY FS_Interval
<1>2. \A T \in SUBSET S : T # {} => Max(T) \in T /\ d[Max(T)] \in Int
  BY <1>1, MaxMember
<1>3. step \in [SUBSET S -> [Int -> Int]]
  BY <1>2
<1>4. Chooses(c, S)
  BY <1>2 DEF Chooses
<1>5. PICK h \in [SUBSET S -> Int] : FoldsTo(h, S, b, step, c)
  <2> HIDE DEF step, c, S
  <2> QED
    BY <1>1, <1>3, <1>4, Recursion, Zenon
<1>6. ASSUME NEW T \in SUBSET S
      PROVE  h[T] = IF T = {} THEN b ELSE h[T \ {Max(T)}] - d[Max(T)]
  <2>1. c[T] = Max(T)
    OBVIOUS
  <2>2. h[T \ {c[T]}] \in Int
    BY <1>5
  <2>3. h[T] = IF T = {} THEN b ELSE step[T][h[T \ {c[T]}]]
    BY <1>5 DEF FoldsTo
  <2>4. step[T][h[T \ {c[T]}]] = IF T = {} THEN h[T \ {c[T]}] ELSE h[T \ {c[T]}] - d[Max(T)]
    BY <2>2
  <2> QED
    BY <2>1, <2>3, <2>4
<1>7. IsLeft(h, b, d, n)
  BY <1>6 DEF IsLeft
<1>8. ASSUME NEW g, IsLeft(g, b, d, n) PROVE g[S] = h[S]
  <2> DEFINE G == {T \in SUBSET S : g[T] = h[T]}
  <2>1. ASSUME NEW T \in SUBSET S, \A x \in T : T \ {x} \in G PROVE T \in G
    <3>1. g[T] = IF T = {} THEN b ELSE g[T \ {Max(T)}] - d[Max(T)]
      BY <1>8 DEF IsLeft
    <3>2. T # {} => g[T \ {Max(T)}] = h[T \ {Max(T)}]
      BY <1>2, <2>1
    <3> QED
      BY <1>6, <3>1, <3>2
  <2>2. \A T \in SUBSET S : T \in G
    <3> HIDE DEF G, S
    <3> QED
      BY <1>1, <2>1, SubsetInduction
  <2> QED
    BY <2>2
<1>9. h[S] \in Int
  BY <1>5
<1> QED
  BY <1>7, <1>8, <1>9

-----------------------------------------------------------------------------
(* Folds from the left, and induction along a sequence.                      *)

\* S has all numbers up to n if it has each with the one before it.
LEMMA NaturalSteps ==
  ASSUME NEW n \in Nat, NEW S, 0 \in S, \A k \in 1..n : k - 1 \in S => k \in S
  PROVE  \A k \in 0..n : k \in S
<1> DEFINE G == {T \in SUBSET (1..n) : \A k \in 0..n : T = 1..k => k \in S}
<1>1. IsFiniteSet(1..n)
  BY FS_Interval
<1>2. ASSUME NEW T \in SUBSET (1..n), \A x \in T : T \ {x} \in G PROVE T \in G
  <2> SUFFICES ASSUME NEW k \in 0..n, T = 1..k PROVE k \in S
    OBVIOUS
  <2>1. CASE k = 0
    BY <2>1
  <2>2. CASE k # 0
    <3>1. k \in T /\ k - 1 \in 0..n /\ T \ {k} = 1..(k - 1)
      BY <2>2
    <3>2. k - 1 \in S
      BY <1>2, <3>1
    <3> QED
      BY <2>2, <3>2
  <2> QED
    BY <2>1, <2>2
<1>3. \A T \in SUBSET (1..n) : T \in G
  <2>1. \A T \in SUBSET (1..n) : (\A x \in T : T \ {x} \in G) => T \in G
    BY <1>2, Zenon
  <2> HIDE DEF G
  <2> QED
    BY <1>1, <2>1, SubsetInduction, Zenon
<1>4. ASSUME NEW k \in 0..n PROVE k \in S
  <2>1. 1..k \in SUBSET (1..n)
    OBVIOUS
  <2> QED
    BY <1>3, <2>1
<1> QED
  BY <1>4

\* G has all sequences if it has the empty one and each with that without its
\* last element.
LEMMA SequenceSteps ==
  ASSUME NEW S, NEW G, <<>> \in G, \A q \in Seq(S), x \in S : q \in G => Append(q, x) \in G
  PROVE  \A q \in Seq(S) : q \in G
<1> SUFFICES ASSUME NEW q \in Seq(S) PROVE q \in G
  OBVIOUS
<1> DEFINE n == Len(q)
           K == {k \in 0..n : SubSeq(q, 1, k) \in G}
<1>1. n \in Nat /\ SubSeq(q, 1, 0) = <<>> /\ SubSeq(q, 1, n) = q
  OBVIOUS
<1>2. 0 \in K
  <2>1. SubSeq(q, 1, 0) \in G
    BY <1>1, Zenon
  <2> HIDE DEF n
  <2> QED
    BY <1>1, <2>1
<1>3. ASSUME NEW k \in 1..n, k - 1 \in K PROVE k \in K
  <2>1. SubSeq(q, 1, k - 1) \in Seq(S) /\ q[k] \in S
    OBVIOUS
  <2>2. SubSeq(q, 1, k) = Append(SubSeq(q, 1, k - 1), q[k])
    OBVIOUS
  <2>3. SubSeq(q, 1, k) \in G
    <3>1. SubSeq(q, 1, k - 1) \in G
      BY <1>3
    <3> QED
      BY <2>1, <2>2, <3>1, Zenon
  <2> HIDE DEF n
  <2> QED
    BY <1>1, <2>3
<1>4. n \in K
  <2>1. \A k \in 1..n : k - 1 \in K => k \in K
    BY <1>3
  <2> HIDE DEF K, n
  <2>2. \A k \in 0..n : k \in K
    BY <1>1, <1>2, <2>1, NaturalSteps, Zenon
  <2> QED
    BY <1>1, <2>2
<1> QED
  BY <1>1, <1>4

\* What FoldLeft computes for a sequence of n elements, if step[k] is what it does
\* with the k-th: h[k] is what it has made of the first k.
LeftFold(g, n, V, base, step) ==
  /\ g[{}] = base
  /\ \A T \in SUBSET (1..n) :
       T # {} /\ g[T \ {Max(T)}] \in V => g[T] = step[Max(T)][g[T \ {Max(T)}]]
LeftFolded(g, n, base, step) ==
  \A T \in SUBSET (1..n) :
    g[T] = IF T = {} THEN base ELSE step[Max(T)][g[T \ {Max(T)}]]
LeftSteps(h, n, base, step) ==
  /\ h[0] = base
  /\ \A k \in 1..n : h[k] = step[k][h[k - 1]]

LEMMA MaxUpTo ==
  ASSUME NEW n \in Nat
  PROVE  /\ \A T \in SUBSET (1..n) : T # {} => Max(T) \in T
         /\ \A k \in 1..n : Max(1..k) = k
<1>1. IsFiniteSet(1..n) /\ 1..n \subseteq Int
  BY FS_Interval
<1>2. \A T \in SUBSET (1..n) : T # {} => Max(T) \in T /\ \A y \in T : Max(T) >= y
  BY <1>1, MaxMember
<1>3. ASSUME NEW k \in 1..n PROVE Max(1..k) = k
  <2>1. 1..k \in SUBSET (1..n) /\ k \in 1..k
    OBVIOUS
  <2>2. Max(1..k) \in 1..k /\ Max(1..k) >= k
    BY <1>2, <2>1
  <2> DEFINE m == Max(1..k)
  <2> HIDE DEF m
  <2>3. m \in 1..k /\ m >= k => m = k
    OBVIOUS
  <2> QED
    BY <2>2, <2>3 DEF m
<1> QED
  BY <1>2, <1>3

LEMMA LeftFoldExists ==
  ASSUME NEW n \in Nat, NEW V, NEW base \in V, NEW step \in [1..n -> [V -> V]]
  PROVE  \E g \in [SUBSET (1..n) -> V] : LeftFolded(g, n, base, step)
<1> DEFINE S == 1..n
           turn == [T \in SUBSET S |-> [v \in V |-> IF T = {} THEN v ELSE step[Max(T)][v]]]
           c == [T \in SUBSET S |-> Max(T)]
<1>1. IsFiniteSet(S)
  BY FS_Interval
<1>2. \A T \in SUBSET S : T # {} => Max(T) \in S /\ Max(T) \in T
  BY MaxUpTo
<1>3. turn \in [SUBSET S -> [V -> V]]
  BY <1>2
<1>4. Chooses(c, S)
  BY <1>2 DEF Chooses
<1>5. PICK h \in [SUBSET S -> V] : FoldsTo(h, S, base, turn, c)
  <2>1. base \in V
    OBVIOUS
  <2> HIDE DEF turn, c, S
  <2> QED
    BY <1>1, <1>3, <1>4, <2>1, Recursion, Zenon
<1>6. ASSUME NEW T \in SUBSET S
      PROVE  h[T] = IF T = {} THEN base ELSE step[Max(T)][h[T \ {Max(T)}]]
  <2>1. c[T] = Max(T)
    OBVIOUS
  <2>2. h[T \ {c[T]}] \in V
    BY <1>5
  <2>3. h[T] = IF T = {} THEN base ELSE turn[T][h[T \ {c[T]}]]
    BY <1>5 DEF FoldsTo
  <2>4. T # {} => turn[T][h[T \ {c[T]}]] = step[Max(T)][h[T \ {c[T]}]]
    BY <2>2
  <2> QED
    BY <2>1, <2>3, <2>4
<1>7. LeftFolded(h, n, base, step)
  BY <1>6 DEF LeftFolded
<1> QED
  BY <1>5, <1>7

LEMMA LeftFoldSteps ==
  ASSUME NEW n \in Nat, NEW V, NEW base \in V, NEW step \in [1..n -> [V -> V]],
         NEW g, LeftFold(g, n, V, base, step)
  PROVE  /\ \A T \in SUBSET (1..n) : g[T] \in V
         /\ \E h \in [0..n -> V] : LeftSteps(h, n, base, step) /\ g[1..n] = h[n]
<1> DEFINE S == 1..n
           G == {T \in SUBSET S : g[T] \in V}
           h == [k \in 0..n |-> g[1..k]]
<1>1. IsFiniteSet(S)
  BY FS_Interval
<1>2. ASSUME NEW T \in SUBSET S, \A x \in T : T \ {x} \in G PROVE T \in G
  <2>1. CASE T = {}
    BY <2>1 DEF LeftFold
  <2>2. CASE T # {}
    <3>1. Max(T) \in T /\ Max(T) \in S
      BY <2>2, MaxUpTo
    <3>2. g[T \ {Max(T)}] \in V
      BY <1>2, <3>1
    <3>3. g[T] = step[Max(T)][g[T \ {Max(T)}]]
      BY <2>2, <3>2 DEF LeftFold
    <3>4. step[Max(T)] \in [V -> V]
      BY <3>1
    <3>5. g[T] \in V
      BY <3>2, <3>3, <3>4
    <3> QED
      BY <3>5
  <2> QED
    BY <2>1, <2>2
<1>3. \A T \in SUBSET S : T \in G
  <2>1. \A T \in SUBSET S : (\A x \in T : T \ {x} \in G) => T \in G
    BY <1>2, Zenon
  <2> HIDE DEF G, S
  <2> QED
    BY <1>1, <2>1, SubsetInduction, Zenon
<1>4. h \in [0..n -> V]
  <2>1. \A k \in 0..n : 1..k \in SUBSET S
    OBVIOUS
  <2> QED
    BY <1>3, <2>1
<1>5. h[0] = base
  <2>1. 1..0 = {}
    OBVIOUS
  <2> QED
    BY <2>1 DEF LeftFold
<1>6. ASSUME NEW k \in 1..n PROVE h[k] = step[k][h[k - 1]]
  <2>1. 1..k \in SUBSET S /\ 1..k # {} /\ (1..k) \ {k} = 1..(k - 1)
        /\ k - 1 \in 0..n /\ k \in 0..n /\ 1..(k - 1) \in SUBSET S
    <3>1. k \in Nat /\ k >= 1 /\ k <= n /\ k \in 1..k
      OBVIOUS
    <3>2. (1..k) \ {k} = 1..(k - 1)
      BY <3>1
    <3>3. 1..k \in SUBSET S /\ 1..(k - 1) \in SUBSET S
      OBVIOUS
    <3>4. k - 1 \in 0..n /\ k \in 0..n
      BY <3>1
    <3>5. 1..k # {}
      BY <3>1
    <3> QED
      BY <3>2, <3>3, <3>4, <3>5
  <2>4. Max(1..k) = k
    BY MaxUpTo
  <2>2. g[1..(k - 1)] \in V
    BY <1>3, <2>1
  <2>3. g[1..k] = step[k][g[1..(k - 1)]]
    BY <2>1, <2>2, <2>4 DEF LeftFold
  <2> QED
    BY <2>1, <2>3
<1>7. g[1..n] = h[n]
  OBVIOUS
<1>8. LeftSteps(h, n, base, step)
  BY <1>5, <1>6 DEF LeftSteps
<1> HIDE DEF h
<1> QED
  BY <1>3, <1>4, <1>7, <1>8

\* It is the only one, and the same for the first elements of a longer sequence.
LEMMA LeftStepsUnique ==
  ASSUME NEW n \in Nat, NEW m \in n..(n + 1), NEW base, NEW step, NEW more,
         \A k \in 1..n : more[k] = step[k],
         NEW h, LeftSteps(h, n, base, step), NEW j, LeftSteps(j, m, base, more)
  PROVE  j[n] = h[n]
<1> DEFINE K == {k \in 0..n : j[k] = h[k]}
<1>1. 0 \in K
  BY DEF LeftSteps
<1>2. \A k \in 1..n : k - 1 \in K => k \in K
  BY DEF LeftSteps
<1> HIDE DEF K
<1>3. \A k \in 0..n : k \in K
  BY <1>1, <1>2, NaturalSteps, Zenon
<1> QED
  BY <1>3 DEF K
=============================================================================
