-------------------------------- MODULE Sums ---------------------------------
(***************************************************************************)
(* Sums of natural numbers filed under the elements of a finite set, as    *)
(* FoldFunction computes them: no matter which element is taken first, and *)
(* no matter what the numbers are filed under.                             *)
(*                                                                         *)
(* Inductions are over a set that stands for the predicate: a least number *)
(* outside of it, which WFMin gives, would be in it.                       *)
(***************************************************************************)
EXTENDS Naturals, FiniteSets, Functions, FiniteSetTheorems, WellFoundedInduction, TLAPS

\* Induction over the naturals, with a set in the place of a predicate.
LEMMA NatSetInduction ==
  ASSUME NEW S, 0 \in S, \A n \in Nat : n \in S => n + 1 \in S
  PROVE  Nat \subseteq S
<1> SUFFICES ASSUME Nat \ S # {} PROVE FALSE
  OBVIOUS
<1> DEFINE less == OpToRel(<, Nat)
<1>1. \A i, j \in Nat : <<i, j>> \in less <=> i < j
  BY DEF OpToRel
<1>2. IsWellFoundedOn(less, Nat)
  BY NatLessThanWellFounded
<1> HIDE DEF less
<1>3. PICK m \in Nat \ S : \A n \in Nat \ S : <<n, m>> \notin less
  BY <1>2, WFMin
<1>4. m # 0 /\ m - 1 \in Nat /\ m - 1 < m
  BY <1>3
<1>5. m - 1 \in S
  BY <1>1, <1>3, <1>4
<1> QED
  BY <1>3, <1>4, <1>5

-----------------------------------------------------------------------------
(* What FoldFunction unfolds to: the recursive function over the subsets.   *)

Chosen(s) == CHOOSE x \in s : TRUE
Summing(iter, fun, s) == IF s = {} THEN 0 ELSE fun[Chosen(s)] + iter[s \ {Chosen(s)}]
IterOf(fun, S) == CHOOSE iter : iter = [s \in SUBSET S |-> Summing(iter, fun, s)]

\* The sum of all values of a function.
Total(fun) == FoldFunction(+, 0, fun)

\* It is what the recursive function gives for the whole domain.
LEMMA TotalIsIter == ASSUME NEW fun PROVE Total(fun) = IterOf(fun, DOMAIN fun)[DOMAIN fun]
BY DEF Total, FoldFunction, FoldFunctionOnSet, MapThenFoldSet, IterOf, Summing, Chosen

\* Induction over the subsets of a finite set, with a set in the place of a predicate.
LEMMA SubsetInduction ==
  ASSUME NEW A, IsFiniteSet(A), NEW F,
         \A s \in SUBSET A : (\A x \in s : s \ {x} \in F) => s \in F
  PROVE  SUBSET A \subseteq F
<1> DEFINE small(n) == {s \in SUBSET A : Cardinality(s) <= n}
           good == {n \in Nat : small(n) \subseteq F}
<1>1. \A s \in SUBSET A : IsFiniteSet(s) /\ Cardinality(s) \in Nat
  BY FS_Subset, FS_CardinalityType
<1>2. 0 \in good
  <2>1. \A s \in small(0) : s = {}
    BY <1>1, FS_EmptySet
  <2>2. {} \in F
    OBVIOUS
  <2> QED
    BY <2>1, <2>2
<1>3. ASSUME NEW n \in Nat, n \in good PROVE n + 1 \in good
  <2> SUFFICES ASSUME NEW s \in SUBSET A, Cardinality(s) <= n + 1 PROVE s \in F
    OBVIOUS
  <2>1. ASSUME NEW x \in s PROVE s \ {x} \in F
    <3>1. Cardinality(s \ {x}) = Cardinality(s) - 1
      BY <1>1, FS_RemoveElement
    <3>2. s \ {x} \in small(n)
      BY <1>1, <3>1
    <3> QED
      BY <1>3, <3>2
  <2> QED
    BY <2>1
<1>4. Nat \subseteq good
  <2> HIDE DEF good
  <2> QED
    BY <1>2, <1>3, NatSetInduction
<1> QED
  <2> SUFFICES ASSUME NEW s \in SUBSET A PROVE s \in F
    OBVIOUS
  <2>1. Cardinality(s) \in Nat
    BY <1>1
  <2>2. s \in small(Cardinality(s))
    BY <2>1
  <2> QED
    BY <1>4, <2>1, <2>2

\* The recursive function behind a sum exists.
LEMMA IterExists ==
  ASSUME NEW fun, NEW A, IsFiniteSet(A)
  PROVE  IterOf(fun, A) = [s \in SUBSET A |-> Summing(IterOf(fun, A), fun, s)]
<1> DEFINE small(n) == {s \in SUBSET A : Cardinality(s) <= n}
           good == {n \in Nat : \E f : f = [s \in small(n) |-> Summing(f, fun, s)]}
<1>1. \A s \in SUBSET A : IsFiniteSet(s) /\ Cardinality(s) \in Nat
  BY FS_Subset, FS_CardinalityType
<1>2. \A s \in SUBSET A : s # {} =>
        /\ Chosen(s) \in s
        /\ Cardinality(s \ {Chosen(s)}) = Cardinality(s) - 1
  BY <1>1, FS_RemoveElement DEF Chosen
<1>3. 0 \in good
  <2> DEFINE f == [s \in small(0) |-> 0]
  <2>1. \A s \in small(0) : s = {}
    BY <1>1, FS_EmptySet
  <2>2. f = [s \in small(0) |-> Summing(f, fun, s)]
    BY <2>1 DEF Summing
  <2> QED
    BY <2>2
<1>4. ASSUME NEW n \in Nat, n \in good PROVE n + 1 \in good
  <2>1. PICK f : f = [s \in small(n) |-> Summing(f, fun, s)]
    BY <1>4
  <2> DEFINE g == [s \in small(n + 1) |-> Summing(f, fun, s)]
  <2>2. \A s \in small(n + 1) : s # {} => s \ {Chosen(s)} \in small(n)
    BY <1>1, <1>2
  <2>3. \A s \in small(n) : s \in small(n + 1) /\ g[s] = f[s]
    <3>1. \A s \in small(n) : s \in small(n + 1)
      BY <1>1
    <3> QED
      BY <2>1, <3>1
  <2>4. \A s \in small(n + 1) : Summing(f, fun, s) = Summing(g, fun, s)
    <3> HIDE DEF g, small
    <3> QED
      BY <2>2, <2>3 DEF Summing
  <2>5. g = [s \in small(n + 1) |-> Summing(g, fun, s)]
    <3> HIDE DEF small
    <3> QED
      BY <2>4
  <2> HIDE DEF g
  <2> QED
    BY <2>5
<1>5. Nat \subseteq good
  <2> HIDE DEF good
  <2> QED
    BY <1>3, <1>4, NatSetInduction
<1>6. Cardinality(A) \in Nat /\ small(Cardinality(A)) = SUBSET A
  BY FS_CardinalityType, FS_Subset
<1>7. \E f : f = [s \in SUBSET A |-> Summing(f, fun, s)]
  BY <1>5, <1>6
<1> QED
  BY <1>7, Zenon DEF IterOf

\* The sum of the values of fun over a set of its arguments, the chosen one first.
SumOver(fun, A, s) == IterOf(fun, A)[s]

\* One step of the recursion.
LEMMA SumChosen ==
  ASSUME NEW fun, NEW A, IsFiniteSet(A), NEW s \in SUBSET A
  PROVE  /\ s = {} => SumOver(fun, A, s) = 0
         /\ s # {} => /\ Chosen(s) \in s
                      /\ SumOver(fun, A, s) = fun[Chosen(s)] + SumOver(fun, A, s \ {Chosen(s)})
<1>1. SumOver(fun, A, s) = Summing(IterOf(fun, A), fun, s)
  <2> DEFINE iter == IterOf(fun, A)
  <2>1. iter = [t \in SUBSET A |-> Summing(iter, fun, t)]
    BY IterExists
  <2> HIDE DEF iter
  <2>2. iter[s] = Summing(iter, fun, s)
    BY <2>1
  <2> QED
    BY <2>2 DEF SumOver, iter
<1> QED
  BY <1>1 DEF Summing, SumOver, Chosen

\* A sum of natural numbers is one.
LEMMA SumNat ==
  ASSUME NEW A, IsFiniteSet(A), NEW fun \in [A -> Nat]
  PROVE  \A s \in SUBSET A : SumOver(fun, A, s) \in Nat
<1> DEFINE F == {s \in SUBSET A : SumOver(fun, A, s) \in Nat}
<1>1. {} \in F
  <2>1. {} \in SUBSET A
    OBVIOUS
  <2>2. SumOver(fun, A, {}) = 0
    BY <2>1, SumChosen
  <2> QED
    BY <2>1, <2>2
<1>2. ASSUME NEW s \in SUBSET A, s # {}, \A y \in s : s \ {y} \in F
      PROVE  s \in F
  <2>1. Chosen(s) \in s /\ SumOver(fun, A, s) = fun[Chosen(s)] + SumOver(fun, A, s \ {Chosen(s)})
    BY <1>2, SumChosen
  <2>2. SumOver(fun, A, s \ {Chosen(s)}) \in Nat /\ fun[Chosen(s)] \in Nat
    BY <1>2, <2>1
  <2> QED
    BY <2>1, <2>2
<1>3. \A s \in SUBSET A : (\A y \in s : s \ {y} \in F) => s \in F
  BY <1>1, <1>2
<1>4. SUBSET A \subseteq F
  <2> HIDE DEF F
  <2> QED
    BY <1>3, SubsetInduction
<1> QED
  BY <1>4

\* It does not matter which argument is taken first.
LEMMA SumStep ==
  ASSUME NEW A, IsFiniteSet(A), NEW fun \in [A -> Nat]
  PROVE  \A s \in SUBSET A : \A x \in s : SumOver(fun, A, s) = fun[x] + SumOver(fun, A, s \ {x})
<1> DEFINE sum(t) == SumOver(fun, A, t)
           F == {t \in SUBSET A : \A y \in t : sum(t) = fun[y] + sum(t \ {y})}
<1>1. \A t \in SUBSET A : t # {} => /\ Chosen(t) \in t
                                    /\ sum(t) = fun[Chosen(t)] + sum(t \ {Chosen(t)})
  BY SumChosen
<1>2. \A t \in SUBSET A : sum(t) \in Nat
  BY SumNat
<1> HIDE DEF sum
<1>3. ASSUME NEW t \in SUBSET A, \A y \in t : t \ {y} \in F PROVE t \in F
  <2> SUFFICES ASSUME NEW y \in t PROVE sum(t) = fun[y] + sum(t \ {y})
    OBVIOUS
  <2> DEFINE c == Chosen(t)
  <2>1. c \in t /\ sum(t) = fun[c] + sum(t \ {c})
    BY <1>1
  <2> HIDE DEF c
  <2>2. CASE y = c
    BY <2>1, <2>2
  <2>3. CASE y # c
    <3>1. y \in t \ {c} /\ c \in t \ {y} /\ (t \ {c}) \ {y} = (t \ {y}) \ {c}
      BY <2>1, <2>3
    <3>2. sum(t \ {c}) = fun[y] + sum((t \ {c}) \ {y})
      BY <1>3, <2>1, <3>1
    <3>3. sum(t \ {y}) = fun[c] + sum((t \ {c}) \ {y})
      BY <1>3, <3>1
    <3>4. fun[c] \in Nat /\ fun[y] \in Nat /\ sum((t \ {c}) \ {y}) \in Nat
      BY <1>2, <2>1
    <3> QED
      BY <2>1, <3>2, <3>3, <3>4
  <2> QED
    BY <2>2, <2>3
<1>4. SUBSET A \subseteq F
  <2>1. \A t \in SUBSET A : (\A y \in t : t \ {y} \in F) => t \in F
    BY <1>3
  <2> HIDE DEF F
  <2> QED
    BY <2>1, SubsetInduction
<1> QED
  BY <1>4 DEF sum

\* Sums of the same numbers are the same, whatever the numbers are filed under.
LEMMA SameSum ==
  ASSUME NEW A, IsFiniteSet(A), NEW f \in [A -> Nat],
         NEW B, IsFiniteSet(B), NEW g \in [B -> Nat],
         NEW h \in [A -> B],
         \A x, y \in A : h[x] = h[y] => x = y,
         \A b \in B : \E x \in A : h[x] = b,
         \A x \in A : g[h[x]] = f[x]
  PROVE  Total(f) = Total(g)
<1> DEFINE image(s) == {h[x] : x \in s}
           F == {s \in SUBSET A : SumOver(f, A, s) = SumOver(g, B, image(s))}
<1>1. {} \in F
  <2>1. image({}) = {}
    OBVIOUS
  <2> QED
    BY <2>1, SumChosen
<1>2. ASSUME NEW s \in SUBSET A, NEW x \in s, s \ {x} \in F PROVE s \in F
  <2>1. image(s) \in SUBSET B /\ h[x] \in image(s) /\ image(s) \ {h[x]} = image(s \ {x})
    OBVIOUS
  <2>2. SumOver(f, A, s) = f[x] + SumOver(f, A, s \ {x})
    BY SumStep
  <2> HIDE DEF image
  <2>3. SumOver(g, B, image(s)) = g[h[x]] + SumOver(g, B, image(s) \ {h[x]})
    BY <2>1, SumStep
  <2> QED
    BY <1>2, <2>1, <2>2, <2>3
<1>3. SUBSET A \subseteq F
  <2>1. \A s \in SUBSET A : (\A x \in s : s \ {x} \in F) => s \in F
    BY <1>1, <1>2
  <2> HIDE DEF F
  <2> QED
    BY <2>1, SubsetInduction
<1>4. image(A) = B
  OBVIOUS
<1>5. SumOver(f, A, A) = SumOver(g, B, B)
  BY <1>3, <1>4
<1>6. Total(f) = SumOver(f, A, A) /\ Total(g) = SumOver(g, B, B)
  BY TotalIsIter DEF SumOver
<1> QED
  BY <1>5, <1>6
=============================================================================
