--------------------------- MODULE OrderLifeProofs ---------------------------
(***************************************************************************)
(* Proofs about the profit engine, for every input, and about the orders   *)
(* it is run on: the money kernel rounds and allocates to the halala, the  *)
(* engine loses and makes up nothing between an order and its lines, and   *)
(* so `EveryHalalaIsBooked` holds at every moment of an order's life; and  *)
(* the confidence it states is earned, so `GradesAreEarned` holds too.     *)
(*                                                                         *)
(* The argument goes upwards: sums over finite sets; the allocator; the    *)
(* terms of the margin; the lines and the totals; the life of an order,    *)
(* of which only the shape of the engine's input has to be invariant; and  *)
(* what the basis of each term says about where its figures come from.     *)
(***************************************************************************)
EXTENDS OrderLife, FiniteSetTheorems, WellFoundedInduction, NaturalsInduction, SequenceTheorems, TLAPS

-----------------------------------------------------------------------------
(* Sums.  SumFunction is a fold, defined by recursion over the subsets of     *)
(* its domain.  Every set of naturals has a least element, hence induction on *)
(* the size of a finite set, hence that the recursion has a solution and what *)
(* it sums.                                                                   *)

\* Every set of naturals that is not empty has a least element.
LEMMA NatLeast ==
    ASSUME NEW T \in SUBSET Nat, T # {}
    PROVE  \E m \in T : \A n \in T : m <= n
<1>1. PICK x \in T : \A y \in T : ~ (<<y, x>> \in OpToRel(<, Nat))
  BY NatLessThanWellFounded, WFMin, Zenon
<1>2. \A y \in T : y < x => <<y, x>> \in OpToRel(<, Nat)
  BY Zenon DEF OpToRel
<1>3. \A y \in T : ~(y < x)
  BY <1>1, <1>2
<1>4. \A y \in T : x <= y
  BY <1>3
<1> QED
  BY <1>4

\* A set of naturals that has 0 and the successor of each of its members has all.
LEMMA NatAll ==
    ASSUME NEW T \in SUBSET Nat, 0 \in T, \A n \in T : n + 1 \in T
    PROVE  T = Nat
<1> SUFFICES ASSUME Nat \ T # {} PROVE FALSE
  OBVIOUS
<1>1. PICK m \in Nat \ T : \A n \in Nat \ T : m <= n
  BY NatLeast
<1>2. m - 1 \in Nat /\ m - 1 \notin Nat \ T
  BY <1>1
<1> QED
  BY <1>1, <1>2

\* The fold behind SumFunction: an element is taken from the set, and the rest is summed.
AnyOf(s) == CHOOSE x \in s : TRUE

SumStep(f, g, s) == IF s = {} THEN 0 ELSE f[AnyOf(s)] + g[s \ {AnyOf(s)}]

SumsOver(f, S) == CHOOSE g : g = [s \in SUBSET S |-> SumStep(f, g, s)]

LEMMA SumIs ==
    ASSUME NEW f, NEW S
    PROVE  SumFunctionOnSet(f, S) = SumsOver(f, S)[S]
  BY DEF SumFunctionOnSet, FoldFunctionOnSet, MapThenFoldSet, SumsOver, SumStep, AnyOf

LEMMA Picked ==
    ASSUME NEW s, IsFiniteSet(s), s # {}
    PROVE  /\ AnyOf(s) \in s
           /\ IsFiniteSet(s \ {AnyOf(s)})
           /\ Cardinality(s) \in Nat /\ Cardinality(s \ {AnyOf(s)}) = Cardinality(s) - 1
           /\ Cardinality(s) > 0
<1>1. AnyOf(s) \in s
  BY DEF AnyOf
<1>2. Cardinality(s) \in Nat /\ Cardinality(s) # 0
  BY FS_CardinalityType, FS_EmptySet
<1> QED
  BY <1>1, <1>2, FS_RemoveElement

\* The recursion has a solution: one for the subsets of at most n elements gives one for n + 1.
LEMMA SumsExist ==
    ASSUME NEW f, NEW S, IsFiniteSet(S)
    PROVE  \E g : g = [s \in SUBSET S |-> SumStep(f, g, s)]
<1> DEFINE Upto(n) == {s \in SUBSET S : Cardinality(s) <= n}
           Good(n, g) == \A s \in Upto(n) : g[s] = SumStep(f, g, s)
           T == {n \in Nat : \E g : Good(n, g)}
<1>0. \A s \in SUBSET S : IsFiniteSet(s) /\ Cardinality(s) \in Nat
  BY FS_Subset, FS_CardinalityType
<1>1. 0 \in T
  <2>1. \A s \in Upto(0) : s = {}
    BY <1>0, FS_EmptySet
  <2>2. Good(0, [s \in SUBSET S |-> 0])
    BY <2>1 DEF SumStep
  <2> QED
    BY <2>2
<1>2. ASSUME NEW n \in T PROVE n + 1 \in T
  <2>1. PICK g : Good(n, g)
    OBVIOUS
  <2> DEFINE h == [s \in SUBSET S |-> IF Cardinality(s) <= n THEN g[s] ELSE SumStep(f, g, s)]
  <2>2. ASSUME NEW s \in Upto(n + 1) PROVE h[s] = SumStep(f, h, s)
    <3>1. CASE s = {}
      BY <3>1, <2>1, <1>0, FS_EmptySet DEF SumStep
    <3>2. CASE s # {}
      <4> DEFINE r == s \ {AnyOf(s)}
      <4>1. r \in SUBSET S /\ Cardinality(r) <= n
        BY <1>0, <3>2, Picked
      <4>2. h[r] = g[r]
        BY <4>1
      <4>3. h[s] = SumStep(f, g, s)
        BY <2>1
      <4> HIDE DEF h
      <4> QED
        BY <4>2, <4>3 DEF SumStep
    <3> QED
      BY <3>1, <3>2
  <2> HIDE DEF h
  <2>3. Good(n + 1, h)
    BY <2>2
  <2> QED
    BY <2>3
<1>3. Cardinality(S) \in T
  <2> HIDE DEF T
  <2>1. T = Nat
    BY <1>1, <1>2, NatAll DEF T
  <2> QED
    BY <2>1, FS_CardinalityType
<1>4. PICK g : Good(Cardinality(S), g)
  BY <1>3
<1> DEFINE h == [s \in SUBSET S |-> g[s]]
<1>5. ASSUME NEW s \in SUBSET S PROVE h[s] = SumStep(f, h, s)
  <2>1. Cardinality(s) <= Cardinality(S)
    BY FS_Subset
  <2>2. g[s] = SumStep(f, g, s)
    BY <1>4, <2>1
  <2>3. CASE s = {}
    BY <2>2, <2>3 DEF SumStep
  <2>4. CASE s # {}
    <3>1. s \ {AnyOf(s)} \in SUBSET S
      OBVIOUS
    <3> QED
      BY <3>1, <2>2, <2>4 DEF SumStep
  <2> QED
    BY <2>3, <2>4
<1>6. h = [s \in SUBSET S |-> SumStep(f, h, s)]
  <2> DEFINE k == [s \in SUBSET S |-> SumStep(f, h, s)]
  <2>1. \A s \in SUBSET S : h[s] = k[s]
    BY <1>5
  <2> QED
    BY <2>1
<1> QED
  BY <1>6

LEMMA SumsAre ==
    ASSUME NEW f, NEW S, IsFiniteSet(S), NEW s \in SUBSET S
    PROVE  SumsOver(f, S)[s] = IF s = {} THEN 0 ELSE f[AnyOf(s)] + SumsOver(f, S)[s \ {AnyOf(s)}]
<1> DEFINE g == SumsOver(f, S)
<1>1. g = [r \in SUBSET S |-> SumStep(f, g, r)]
  BY SumsExist DEF SumsOver
<1> HIDE DEF g
<1>2. g[s] = SumStep(f, g, s)
  BY <1>1
<1> QED
  BY <1>2 DEF SumStep, g

\* Induction on a finite set, one element taken away at a time.
LEMMA SubsetsAll ==
    ASSUME NEW S, IsFiniteSet(S), NEW T \in SUBSET (SUBSET S), {} \in T,
           \A s \in SUBSET S : s # {} /\ s \ {AnyOf(s)} \in T => s \in T
    PROVE  T = SUBSET S
<1> DEFINE N == {n \in Nat : \A s \in SUBSET S : Cardinality(s) = n => s \in T}
<1>0. \A s \in SUBSET S : IsFiniteSet(s) /\ Cardinality(s) \in Nat
  BY FS_Subset, FS_CardinalityType
<1>1. 0 \in N
  BY <1>0, FS_EmptySet
<1>2. ASSUME NEW n \in N PROVE n + 1 \in N
  <2> SUFFICES ASSUME NEW s \in SUBSET S, Cardinality(s) = n + 1 PROVE s \in T
    OBVIOUS
  <2>1. s # {}
    BY FS_EmptySet
  <2>2. Cardinality(s \ {AnyOf(s)}) = n
    BY <1>0, <2>1, Picked
  <2> QED
    BY <2>1, <2>2
<1>3. N = Nat
  <2> HIDE DEF N
  <2> QED
    BY <1>1, <1>2, NatAll DEF N
<1> QED
  BY <1>0, <1>3

\* The same, as the inductions below use it.
AddsUp(F, f, S) ==
    /\ F[{}] = 0
    /\ \A s \in SUBSET S : s # {} => F[s] = f[AnyOf(s)] + F[s \ {AnyOf(s)}]

LEMMA SumsRule ==
    ASSUME NEW f, NEW S, IsFiniteSet(S)
    PROVE  AddsUp(SumsOver(f, S), f, S)
<1>1. SumsOver(f, S)[{}] = 0
  BY SumsAre
<1>2. ASSUME NEW s \in SUBSET S, s # {} PROVE SumsOver(f, S)[s] = f[AnyOf(s)] + SumsOver(f, S)[s \ {AnyOf(s)}]
  BY <1>2, SumsAre
<1> QED
  BY <1>1, <1>2 DEF AddsUp

LEMMA PickedIn == ASSUME NEW S, NEW s \in SUBSET S, s # {} PROVE AnyOf(s) \in s /\ AnyOf(s) \in S
  BY DEF AnyOf

LEMMA SumsInt ==
    ASSUME NEW f, NEW S, IsFiniteSet(S), \A x \in S : f[x] \in Int
    PROVE  \A s \in SUBSET S : SumsOver(f, S)[s] \in Int
<1> DEFINE F == SumsOver(f, S)
           T == {s \in SUBSET S : F[s] \in Int}
<1>0. AddsUp(F, f, S)
  BY SumsRule
<1> HIDE DEF F
<1>1. {} \in T
  BY <1>0 DEF AddsUp
<1>2. ASSUME NEW s \in SUBSET S, s # {}, s \ {AnyOf(s)} \in T PROVE s \in T
  <2>1. f[AnyOf(s)] \in Int
    BY <1>2, PickedIn
  <2> QED
    BY <1>0, <1>2, <2>1 DEF AddsUp
<1>3. T \in SUBSET (SUBSET S)
  OBVIOUS
<1> HIDE DEF T
<1>4. T = SUBSET S
  BY <1>1, <1>2, <1>3, SubsetsAll
<1> QED
  BY <1>4 DEF T, F

\* The term of any element can be split off, not just of the one the fold takes first.
SplitsAnywhere(F, f, S) == \A s \in SUBSET S : \A x \in s : F[s] = f[x] + F[s \ {x}]

LEMMA SumsSplit ==
    ASSUME NEW f, NEW S, IsFiniteSet(S), \A x \in S : f[x] \in Int
    PROVE  SplitsAnywhere(SumsOver(f, S), f, S)
<1> DEFINE F == SumsOver(f, S)
           N == {n \in Nat : \A s \in SUBSET S : Cardinality(s) = n => \A x \in s : F[s] = f[x] + F[s \ {x}]}
<1>0. AddsUp(F, f, S)
  BY SumsRule
<1>t. \A s \in SUBSET S : F[s] \in Int
  BY SumsInt
<1> HIDE DEF F
<1>s. \A s \in SUBSET S : IsFiniteSet(s) /\ Cardinality(s) \in Nat
  BY FS_Subset, FS_CardinalityType
<1>1. 0 \in N
  BY <1>s, FS_EmptySet
<1>2. ASSUME NEW n \in N PROVE n + 1 \in N
  <2> SUFFICES ASSUME NEW s \in SUBSET S, Cardinality(s) = n + 1, NEW x \in s PROVE F[s] = f[x] + F[s \ {x}]
    OBVIOUS
  <2> DEFINE c == AnyOf(s)
  <2>1. c \in s /\ F[s] = f[c] + F[s \ {c}]
    BY <1>0, PickedIn DEF AddsUp
  <2>r. ASSUME NEW y \in s PROVE Cardinality(s \ {y}) = n /\ s \ {y} \in SUBSET S
    <3>1. IsFiniteSet(s)
      BY <1>s
    <3>2. Cardinality(s \ {y}) = Cardinality(s) - 1
      BY <3>1, FS_RemoveElement
    <3> QED
      BY <3>2
  <2> HIDE DEF c
  <2>2. CASE x = c
    BY <2>1, <2>2
  <2>3. CASE x # c
    <3> DEFINE p == s \ {c}
               q == s \ {x}
               t == p \ {x}
    <3>1. F[p] = f[x] + F[t]
      BY <2>1, <2>3, <2>r
    <3>2. q \ {c} = t
      OBVIOUS
    <3>3. F[q] = f[c] + F[q \ {c}]
      BY <2>1, <2>3, <2>r
    <3>4. F[q] = f[c] + F[t]
      BY <3>2, <3>3, Zenon
    <3>5. f[c] \in Int /\ f[x] \in Int /\ F[t] \in Int
      BY <1>t, <2>1
    <3>6. F[s] = f[c] + F[p]
      BY <2>1
    <3> HIDE DEF p, q, t, N
    <3>7. F[s] = f[x] + F[q]
      BY <3>1, <3>4, <3>5, <3>6
    <3> QED
      BY <3>7 DEF q
  <2> QED
    BY <2>2, <2>3
<1>3. N = Nat
  <2>1. N \in SUBSET Nat
    OBVIOUS
  <2> HIDE DEF N
  <2> QED
    BY <1>1, <1>2, <2>1, NatAll
<1> QED
  BY <1>s, <1>3 DEF F, SplitsAnywhere

LEMMA SumsPlus ==
    ASSUME NEW f, NEW g, NEW h, NEW S, IsFiniteSet(S),
           \A x \in S : f[x] \in Int /\ g[x] \in Int /\ h[x] = f[x] + g[x]
    PROVE  \A s \in SUBSET S : SumsOver(h, S)[s] = SumsOver(f, S)[s] + SumsOver(g, S)[s]
<1> DEFINE F == SumsOver(f, S)
           G == SumsOver(g, S)
           H == SumsOver(h, S)
           T == {s \in SUBSET S : H[s] = F[s] + G[s]}
<1>f. AddsUp(F, f, S)
  BY SumsRule
<1>g. AddsUp(G, g, S)
  BY SumsRule
<1>h. AddsUp(H, h, S)
  BY SumsRule
<1>t. \A s \in SUBSET S : F[s] \in Int /\ G[s] \in Int
  BY SumsInt
<1> HIDE DEF F, G, H
<1>1. {} \in T
  BY <1>f, <1>g, <1>h DEF AddsUp
<1>2. ASSUME NEW s \in SUBSET S, s # {}, s \ {AnyOf(s)} \in T PROVE s \in T
  <2> DEFINE c == AnyOf(s)
             r == s \ {c}
  <2>1. c \in S /\ r \in SUBSET S
    BY <1>2, PickedIn
  <2>2. H[s] = h[c] + H[r] /\ F[s] = f[c] + F[r] /\ G[s] = g[c] + G[r]
    BY <1>2, <1>f, <1>g, <1>h DEF AddsUp
  <2>3. H[r] = F[r] + G[r] /\ F[r] \in Int /\ G[r] \in Int
    BY <1>2, <2>1, <1>t
  <2> HIDE DEF c, r
  <2>4. H[s] = F[s] + G[s]
    BY <2>1, <2>2, <2>3
  <2> QED
    BY <2>4
<1>3. T \in SUBSET (SUBSET S)
  OBVIOUS
<1> HIDE DEF T
<1>4. T = SUBSET S
  BY <1>1, <1>2, <1>3, SubsetsAll
<1> QED
  BY <1>4 DEF T, F, G, H

LEMMA SumsMonotone ==
    ASSUME NEW f, NEW g, NEW S, IsFiniteSet(S),
           \A x \in S : f[x] \in Int /\ g[x] \in Int /\ f[x] <= g[x]
    PROVE  \A s \in SUBSET S : SumsOver(f, S)[s] <= SumsOver(g, S)[s]
<1> DEFINE F == SumsOver(f, S)
           G == SumsOver(g, S)
           T == {s \in SUBSET S : F[s] <= G[s]}
<1>f. AddsUp(F, f, S)
  BY SumsRule
<1>g. AddsUp(G, g, S)
  BY SumsRule
<1>t. \A s \in SUBSET S : F[s] \in Int /\ G[s] \in Int
  BY SumsInt
<1> HIDE DEF F, G
<1>1. {} \in T
  BY <1>f, <1>g DEF AddsUp
<1>2. ASSUME NEW s \in SUBSET S, s # {}, s \ {AnyOf(s)} \in T PROVE s \in T
  <2> DEFINE c == AnyOf(s)
             r == s \ {c}
  <2>1. c \in S /\ r \in SUBSET S
    BY <1>2, PickedIn
  <2>2. F[s] = f[c] + F[r] /\ G[s] = g[c] + G[r]
    BY <1>2, <1>f, <1>g DEF AddsUp
  <2>3. F[r] <= G[r] /\ F[r] \in Int /\ G[r] \in Int
    BY <1>2, <2>1, <1>t
  <2> HIDE DEF c, r
  <2>4. F[s] <= G[s]
    BY <2>1, <2>2, <2>3
  <2> QED
    BY <2>4
<1>3. T \in SUBSET (SUBSET S)
  OBVIOUS
<1> HIDE DEF T
<1>4. T = SUBSET S
  BY <1>1, <1>2, <1>3, SubsetsAll
<1> QED
  BY <1>4 DEF T, F, G

LEMMA SumsScale ==
    ASSUME NEW f, NEW h, NEW a \in Int, NEW S, IsFiniteSet(S),
           \A x \in S : f[x] \in Int /\ h[x] = a * f[x]
    PROVE  \A s \in SUBSET S : SumsOver(h, S)[s] = a * SumsOver(f, S)[s]
<1> DEFINE F == SumsOver(f, S)
           H == SumsOver(h, S)
           T == {s \in SUBSET S : H[s] = a * F[s]}
<1>f. AddsUp(F, f, S)
  BY SumsRule
<1>h. AddsUp(H, h, S)
  BY SumsRule
<1>t. \A s \in SUBSET S : F[s] \in Int
  BY SumsInt
<1> HIDE DEF F, H
<1>1. {} \in T
  BY <1>f, <1>h DEF AddsUp
<1>2. ASSUME NEW s \in SUBSET S, s # {}, s \ {AnyOf(s)} \in T PROVE s \in T
  <2> DEFINE c == AnyOf(s)
             r == s \ {c}
  <2>1. c \in S /\ r \in SUBSET S
    BY <1>2, PickedIn
  <2>2. H[s] = h[c] + H[r] /\ F[s] = f[c] + F[r]
    BY <1>2, <1>f, <1>h DEF AddsUp
  <2>3. H[r] = a * F[r] /\ F[r] \in Int /\ f[c] \in Int /\ h[c] = a * f[c]
    BY <1>2, <2>1, <1>t
  <2> HIDE DEF c, r
  <2>4. a * (f[c] + F[r]) = a * f[c] + a * F[r]
    BY <2>3
  <2>5. H[s] = a * F[s]
    BY <2>2, <2>3, <2>4
  <2> QED
    BY <2>5
<1>3. T \in SUBSET (SUBSET S)
  OBVIOUS
<1> HIDE DEF T
<1>4. T = SUBSET S
  BY <1>1, <1>2, <1>3, SubsetsAll
<1> QED
  BY <1>4 DEF T, F, H

\* A sum of ones and zeroes counts the ones.
Marks(f, A, S) == \A x \in S : f[x] = IF x \in A THEN 1 ELSE 0

LEMMA SumsCount ==
    ASSUME NEW f, NEW A, NEW S, IsFiniteSet(S), Marks(f, A, S)
    PROVE  \A s \in SUBSET S : SumsOver(f, S)[s] = Cardinality(A \cap s)
<1> DEFINE F == SumsOver(f, S)
           T == {s \in SUBSET S : F[s] = Cardinality(A \cap s)}
<1>f. AddsUp(F, f, S)
  BY SumsRule
<1> HIDE DEF F
<1>1. {} \in T
  <2>1. A \cap {} = {}
    OBVIOUS
  <2> QED
    BY <1>f, <2>1, FS_EmptySet DEF AddsUp
<1>2. ASSUME NEW s \in SUBSET S, s # {}, s \ {AnyOf(s)} \in T PROVE s \in T
  <2> DEFINE c == AnyOf(s)
             r == s \ {c}
  <2>1. c \in s /\ c \in S /\ r \in SUBSET S
    BY <1>2, PickedIn
  <2>2. F[s] = f[c] + F[r] /\ F[r] = Cardinality(A \cap r)
    BY <1>2, <1>f DEF AddsUp
  <2>3. A \cap r = (A \cap s) \ {c}
    OBVIOUS
  <2>4. IsFiniteSet(A \cap s)
    <3>1. A \cap s \in SUBSET S
      OBVIOUS
    <3> QED
      BY <3>1, FS_Subset
  <2>5. Cardinality(A \cap r) = IF c \in A THEN Cardinality(A \cap s) - 1 ELSE Cardinality(A \cap s)
    <3>1. CASE c \in A
      <4> DEFINE B == A \cap s
      <4>1. c \in B /\ IsFiniteSet(B) /\ A \cap r = B \ {c}
        BY <2>1, <2>3, <2>4, <3>1
      <4> HIDE DEF B, c, r
      <4>2. Cardinality(B \ {c}) = Cardinality(B) - 1
        BY <4>1, FS_RemoveElement
      <4> QED
        BY <3>1, <4>1, <4>2 DEF B
    <3>2. CASE c \notin A
      BY <2>3, <3>2
    <3> QED
      BY <3>1, <3>2
  <2>6. Cardinality(A \cap s) \in Int
    BY <2>4, FS_CardinalityType
  <2>7. f[c] = IF c \in A THEN 1 ELSE 0
    BY <2>1 DEF Marks
  <2> HIDE DEF c, r
  <2>8. F[s] = Cardinality(A \cap s)
    BY <2>2, <2>5, <2>6, <2>7
  <2> QED
    BY <2>8
<1>3. T \in SUBSET (SUBSET S)
  OBVIOUS
<1> HIDE DEF T
<1>4. T = SUBSET S
  BY <1>1, <1>2, <1>3, SubsetsAll
<1> QED
  BY <1>4 DEF T, F

\* A sum depends on nothing but its terms.
LEMMA SumsWithin ==
    ASSUME NEW f, NEW g, NEW S, NEW R \in SUBSET S, IsFiniteSet(S),
           \A x \in R : f[x] = g[x]
    PROVE  \A s \in SUBSET R : SumsOver(f, S)[s] = SumsOver(g, R)[s]
<1> DEFINE F == SumsOver(f, S)
           G == SumsOver(g, R)
           T == {s \in SUBSET R : F[s] = G[s]}
<1>0. IsFiniteSet(R)
  BY FS_Subset
<1>f. AddsUp(F, f, S)
  BY SumsRule
<1>g. AddsUp(G, g, R)
  BY <1>0, SumsRule
<1> HIDE DEF F, G
<1>1. {} \in T
  BY <1>f, <1>g DEF AddsUp
<1>2. ASSUME NEW s \in SUBSET R, s # {}, s \ {AnyOf(s)} \in T PROVE s \in T
  <2> DEFINE c == AnyOf(s)
             r == s \ {c}
  <2>1. c \in R /\ s \in SUBSET S
    BY <1>2, PickedIn
  <2>2. F[s] = f[c] + F[r] /\ G[s] = g[c] + G[r]
    BY <1>2, <1>f, <1>g, <2>1 DEF AddsUp
  <2>3. F[r] = G[r] /\ f[c] = g[c]
    BY <1>2, <2>1
  <2> HIDE DEF c, r
  <2>4. F[s] = G[s]
    BY <2>2, <2>3
  <2> QED
    BY <2>4
<1>3. T \in SUBSET (SUBSET R)
  OBVIOUS
<1> HIDE DEF T
<1>4. T = SUBSET R
  BY <1>0, <1>1, <1>2, <1>3, SubsetsAll DEF AddsUp
<1> QED
  BY <1>4 DEF T, F, G

-----------------------------------------------------------------------------
(* What the model says with SumFunction, in those terms.                     *)

LEMMA SumOf ==
    ASSUME NEW S, NEW f, DOMAIN f = S
    PROVE  SumFunction(f) = SumsOver(f, S)[S]
  BY SumIs DEF SumFunction

LEMMA SumType ==
    ASSUME NEW S, IsFiniteSet(S), NEW f \in [S -> Int]
    PROVE  SumFunction(f) \in Int
<1>1. SumsOver(f, S)[S] \in Int
  BY SumsInt
<1> QED
  BY <1>1, SumOf

\* Tables of integers over S, related term by term.
Table(f, S) == f \in [S -> Int]
Adds(h, f, g, S) == Table(h, S) /\ Table(f, S) /\ Table(g, S) /\ \A x \in S : h[x] = f[x] + g[x]
Scales(h, a, f, S) == Table(h, S) /\ Table(f, S) /\ a \in Int /\ \A x \in S : h[x] = a * f[x]
Below(f, g, S) == Table(f, S) /\ Table(g, S) /\ \A x \in S : f[x] <= g[x]

LEMMA SumPlus ==
    ASSUME NEW S, IsFiniteSet(S), NEW f, NEW g, NEW h, Adds(h, f, g, S)
    PROVE  SumFunction(h) = SumFunction(f) + SumFunction(g)
<1>1. \A x \in S : f[x] \in Int /\ g[x] \in Int /\ h[x] = f[x] + g[x]
  BY DEF Adds, Table
<1>2. DOMAIN h = S /\ DOMAIN f = S /\ DOMAIN g = S /\ S \in SUBSET S
  BY DEF Adds, Table
<1>3. \A s \in SUBSET S : SumsOver(h, S)[s] = SumsOver(f, S)[s] + SumsOver(g, S)[s]
  BY <1>1, SumsPlus
<1>4. SumFunction(h) = SumsOver(h, S)[S] /\ SumFunction(f) = SumsOver(f, S)[S] /\ SumFunction(g) = SumsOver(g, S)[S]
  BY <1>2, SumOf
<1> QED
  BY <1>2, <1>3, <1>4

LEMMA SumScale ==
    ASSUME NEW S, IsFiniteSet(S), NEW f, NEW a, NEW h, Scales(h, a, f, S)
    PROVE  SumFunction(h) = a * SumFunction(f)
<1>1. \A x \in S : f[x] \in Int /\ h[x] = a * f[x]
  BY DEF Scales, Table
<1>2. DOMAIN h = S /\ DOMAIN f = S /\ S \in SUBSET S /\ a \in Int
  BY DEF Scales, Table
<1>3. \A s \in SUBSET S : SumsOver(h, S)[s] = a * SumsOver(f, S)[s]
  BY <1>1, <1>2, SumsScale
<1>4. SumFunction(h) = SumsOver(h, S)[S] /\ SumFunction(f) = SumsOver(f, S)[S]
  BY <1>2, SumOf
<1> QED
  BY <1>2, <1>3, <1>4

LEMMA SumMonotone ==
    ASSUME NEW S, IsFiniteSet(S), NEW f, NEW g, Below(f, g, S)
    PROVE  SumFunction(f) <= SumFunction(g)
<1>1. \A x \in S : f[x] \in Int /\ g[x] \in Int /\ f[x] <= g[x]
  BY DEF Below, Table
<1>2. \A s \in SUBSET S : SumsOver(f, S)[s] <= SumsOver(g, S)[s]
  BY <1>1, SumsMonotone
<1>3. SumFunction(f) = SumsOver(f, S)[S] /\ SumFunction(g) = SumsOver(g, S)[S] /\ S \in SUBSET S
  BY SumOf DEF Below, Table
<1> QED
  BY <1>2, <1>3

LEMMA SumCount ==
    ASSUME NEW S, IsFiniteSet(S), NEW A \in SUBSET S
    PROVE  SumFunction([x \in S |-> IF x \in A THEN 1 ELSE 0]) = Cardinality(A)
<1> DEFINE h == [x \in S |-> IF x \in A THEN 1 ELSE 0]
<1>1. Marks(h, A, S)
  BY DEF Marks
<1>d. DOMAIN h = S
  OBVIOUS
<1> HIDE DEF h
<1>2. \A s \in SUBSET S : SumsOver(h, S)[s] = Cardinality(A \cap s)
  BY <1>1, SumsCount
<1>3. S \in SUBSET S /\ A \cap S = A
  OBVIOUS
<1>4. SumFunction(h) = Cardinality(A)
  BY <1>d, <1>2, <1>3, SumOf
<1> QED
  BY <1>4 DEF h

LEMMA SumZero ==
    ASSUME NEW S, IsFiniteSet(S)
    PROVE  SumFunction([x \in S |-> 0]) = 0
<1>1. [x \in S |-> 0] = [x \in S |-> IF x \in {} THEN 1 ELSE 0]
  OBVIOUS
<1> QED
  BY <1>1, SumCount, FS_EmptySet

\* Terms that are zero may be left out.
LEMMA SumPart ==
    ASSUME NEW S, IsFiniteSet(S), NEW R \in SUBSET S, NEW f \in [R -> Int]
    PROVE  SumFunction([x \in S |-> IF x \in R THEN f[x] ELSE 0]) = SumFunction(f)
<1> DEFINE h == [x \in S |-> IF x \in R THEN f[x] ELSE 0]
           H == SumsOver(h, S)
           T == {s \in SUBSET S : H[s] = H[s \cap R]}
<1>1. /\ DOMAIN h = S
      /\ \A x \in R : h[x] = f[x]
      /\ \A x \in S \ R : h[x] = 0
  OBVIOUS
<1>i. \A x \in S : h[x] \in Int
  OBVIOUS
<1> HIDE DEF h
<1>a. AddsUp(H, h, S)
  BY SumsRule
<1>b. SplitsAnywhere(H, h, S)
  BY <1>i, SumsSplit
<1>c. \A s \in SUBSET S : H[s] \in Int
  BY <1>i, SumsInt
<1>d. \A s \in SUBSET R : H[s] = SumsOver(f, R)[s]
  BY <1>1, SumsWithin
<1>e. SumFunction(h) = H[S]
  BY <1>1, SumOf
<1> HIDE DEF H
<1>2. {} \in T
  <2>1. {} \cap R = {}
    OBVIOUS
  <2> QED
    BY <2>1
<1>3. ASSUME NEW s \in SUBSET S, s # {}, s \ {AnyOf(s)} \in T PROVE s \in T
  <2> DEFINE c == AnyOf(s)
             r == s \ {c}
             p == s \cap R
  <2>1. c \in s /\ c \in S /\ H[s] = h[c] + H[r] /\ r \in SUBSET S
    BY <1>3, <1>a, PickedIn DEF AddsUp
  <2>2. H[r] = H[r \cap R] /\ H[r \cap R] \in Int
    BY <1>3, <1>c, <2>1
  <2>3. CASE c \in R
    <3>1. p \ {c} = r \cap R /\ c \in p /\ p \in SUBSET S
      BY <2>1, <2>3
    <3> HIDE DEF c, r, p
    <3>2. H[p] = h[c] + H[p \ {c}]
      BY <1>b, <3>1 DEF SplitsAnywhere
    <3>3. H[p] = h[c] + H[r \cap R]
      BY <3>1, <3>2, Zenon
    <3>4. H[s] = H[p]
      BY <2>1, <2>2, <3>3
    <3> QED
      BY <3>4 DEF p
  <2>4. CASE c \notin R
    <3>1. p = r \cap R /\ h[c] = 0
      BY <1>1, <2>1, <2>4
    <3> HIDE DEF c, r, p
    <3>2. H[s] = H[p]
      BY <2>1, <2>2, <3>1
    <3> QED
      BY <3>2 DEF p
  <2> QED
    BY <2>3, <2>4
<1>4. T \in SUBSET (SUBSET S)
  OBVIOUS
<1> HIDE DEF T
<1>5. T = SUBSET S
  BY <1>2, <1>3, <1>4, SubsetsAll
<1>6. H[S] = H[S \cap R] /\ S \cap R = R
  BY <1>5 DEF T
<1>7. SumFunction(f) = SumsOver(f, R)[R]
  BY SumOf
<1>8. SumFunction(h) = SumFunction(f)
  BY <1>d, <1>e, <1>6, <1>7
<1> QED
  BY <1>8 DEF h

LEMMA SumSingle ==
    ASSUME NEW x, NEW a \in Int
    PROVE  SumFunction([y \in {x} |-> a]) = a
<1> DEFINE f == [y \in {x} |-> a]
           F == SumsOver(f, {x})
<1>0. IsFiniteSet({x})
  BY FS_Singleton
<1>1. AddsUp(F, f, {x})
  BY <1>0, SumsRule
<1>2. AnyOf({x}) = x /\ {x} \ {x} = {} /\ {x} \in SUBSET {x} /\ {x} # {} /\ f[x] = a
  BY DEF AnyOf
<1>3. SumFunction(f) = F[{x}]
  BY SumOf
<1> HIDE DEF F, f
<1>4. F[{x}] = f[x] + F[{}] /\ F[{}] = 0
  BY <1>1, <1>2 DEF AddsUp
<1>5. SumFunction(f) = a
  BY <1>2, <1>3, <1>4
<1> QED
  BY <1>5 DEF f

\* One term among zeroes.
LEMMA SumOne ==
    ASSUME NEW S, IsFiniteSet(S), NEW x \in S, NEW a \in Int
    PROVE  SumFunction([y \in S |-> IF y = x THEN a ELSE 0]) = a
<1> DEFINE f == [y \in {x} |-> a]
<1>1. f \in [{x} -> Int] /\ {x} \in SUBSET S
  OBVIOUS
<1>2. [y \in S |-> IF y = x THEN a ELSE 0] = [y \in S |-> IF y \in {x} THEN f[y] ELSE 0]
  OBVIOUS
<1>3. SumFunction(f) = a
  BY SumSingle
<1> HIDE DEF f
<1>4. SumFunction([y \in S |-> IF y \in {x} THEN f[y] ELSE 0]) = SumFunction(f)
  BY <1>1, SumPart
<1> QED
  BY <1>2, <1>3, <1>4

Lone(h, x, a, S) == h = [y \in S |-> IF y = x THEN a ELSE 0]

LEMMA SumLone == ASSUME NEW S, IsFiniteSet(S), NEW x \in S, NEW a \in Int, NEW h, Lone(h, x, a, S) PROVE SumFunction(h) = a
<1>1. SumFunction([y \in S |-> IF y = x THEN a ELSE 0]) = a
  BY SumOne
<1> QED
  BY <1>1 DEF Lone

\* Rows first or columns first.
LEMMA SumSwap ==
    ASSUME NEW S, IsFiniteSet(S), NEW R, IsFiniteSet(R), NEW f \in [S -> [R -> Int]]
    PROVE  SumFunction([x \in S |-> SumFunction(f[x])])
           = SumFunction([y \in R |-> SumFunction([x \in S |-> f[x][y]])])
<1> DEFINE row == [x \in S |-> SumFunction(f[x])]
           col == [y \in R |-> [x \in S |-> f[x][y]]]
           W == SumsOver(row, S)
           part(s) == [y \in R |-> SumsOver(col[y], S)[s]]
           T == {s \in SUBSET S : W[s] = SumFunction(part(s))}
<1>1. row \in [S -> Int]
  <2>1. \A x \in S : f[x] \in [R -> Int]
    OBVIOUS
  <2>2. \A x \in S : SumFunction(f[x]) \in Int
    BY <2>1, SumType
  <2> QED
    BY <2>2
<1>2. \A y \in R : col[y] \in [S -> Int] /\ \A x \in S : col[y][x] = f[x][y]
  OBVIOUS
<1>r. \A x \in S : row[x] = SumFunction(f[x]) /\ f[x] = [y \in R |-> f[x][y]] /\ f[x] \in [R -> Int]
  OBVIOUS
<1>d. DOMAIN row = S /\ \A y \in R : DOMAIN col[y] = S
  OBVIOUS
<1>e. [y \in R |-> SumFunction([x \in S |-> f[x][y]])] = [y \in R |-> SumFunction(col[y])]
  OBVIOUS
<1> HIDE DEF row, col
<1>a. AddsUp(W, row, S)
  BY SumsRule
<1>b. \A y \in R : AddsUp(SumsOver(col[y], S), col[y], S)
  BY SumsRule
<1>c. \A s \in SUBSET S : part(s) \in [R -> Int]
  <2> SUFFICES ASSUME NEW s \in SUBSET S, NEW y \in R PROVE SumsOver(col[y], S)[s] \in Int
    OBVIOUS
  <2>1. \A x \in S : col[y][x] \in Int
    BY <1>2
  <2> QED
    BY <2>1, SumsInt
<1>w. SumFunction(row) = W[S]
  BY <1>d, SumOf
<1>p. [y \in R |-> SumFunction(col[y])] = part(S)
  BY <1>d, SumOf
<1> HIDE DEF W
<1>3. {} \in T
  <2>1. part({}) = [y \in R |-> 0]
    BY <1>b DEF AddsUp
  <2> HIDE DEF part
  <2> QED
    BY <1>a, <2>1, SumZero DEF AddsUp
<1>4. ASSUME NEW s \in SUBSET S, s # {}, s \ {AnyOf(s)} \in T PROVE s \in T
  <2> DEFINE c == AnyOf(s)
             r == s \ {c}
             q == part(r)
             u == f[c]
  <2>1. c \in S /\ r \in SUBSET S
    BY <1>4, PickedIn
  <2>2. W[s] = row[c] + W[r]
    BY <1>4, <1>a DEF AddsUp
  <2>3. part(s) = [y \in R |-> u[y] + q[y]]
    <3>1. ASSUME NEW y \in R PROVE SumsOver(col[y], S)[s] = col[y][c] + SumsOver(col[y], S)[r]
      BY <1>4, <1>b DEF AddsUp
    <3>2. ASSUME NEW y \in R PROVE col[y][c] = u[y]
      BY <1>2, <2>1
    <3> HIDE DEF c, r, u
    <3> QED
      BY <3>1, <3>2
  <2>4. q \in [R -> Int] /\ u \in [R -> Int]
    BY <1>c, <1>r, <2>1
  <2>5. W[r] = SumFunction(q) /\ row[c] = SumFunction(u)
    BY <1>4, <1>r, <2>1
  <2> HIDE DEF part, c, r, q, u
  <2>6. Adds(part(s), u, q, R)
    BY <2>3, <2>4 DEF Adds, Table
  <2>7. SumFunction(part(s)) = SumFunction(u) + SumFunction(q)
    BY <2>6, SumPlus
  <2>8. W[s] = SumFunction(part(s))
    BY <2>2, <2>5, <2>7
  <2> QED
    BY <2>8
<1>5. T \in SUBSET (SUBSET S)
  OBVIOUS
<1> HIDE DEF T
<1>6. T = SUBSET S
  BY <1>3, <1>4, <1>5, SubsetsAll
<1>7. W[S] = SumFunction(part(S))
  BY <1>6 DEF T
<1> QED
  BY <1>e, <1>p, <1>w, <1>7, Zenon DEF row

-----------------------------------------------------------------------------
(* The money kernel: rounding and the VAT split.                             *)

LEMMA Quotient ==
    ASSUME NEW a \in Nat, NEW d \in Nat \ {0}
    PROVE  /\ a \div d \in Nat /\ a % d \in Nat /\ a % d < d
           /\ a = d * (a \div d) + (a % d)
  OBVIOUS

\* Rounding is symmetric about zero and never more than half a unit away; a tie
\* goes away from zero.
THEOREM RoundingCorrect ==
    ASSUME NEW n \in Int, NEW d \in Nat \ {0}
    PROVE  LET q == divRoundHalfAwayFromZero(n, d)
           IN  /\ q \in Int
               /\ 2 * Magnitude(n - q * d) <= d
               /\ 2 * Magnitude(n - q * d) = d => Magnitude(q * d) > Magnitude(n)
               /\ divRoundHalfAwayFromZero(-n, d) = -q
<1> DEFINE a == Magnitude(n)
           w == a \div d
           r == a % d
           up == IF r * 2 >= d THEN w + 1 ELSE w
           q == divRoundHalfAwayFromZero(n, d)
<1>1. a \in Nat /\ (n < 0 => a = -n) /\ (n >= 0 => a = n) /\ Magnitude(-n) = a
  BY DEF Magnitude
<1> HIDE DEF a
<1>2. w \in Nat /\ r \in Nat /\ r < d /\ a = d * w + r
  BY <1>1, Quotient
<1> HIDE DEF w, r
<1>3. up \in Nat /\ up * d \in Nat /\ (r * 2 >= d => up * d = d * w + d) /\ (r * 2 < d => up * d = d * w)
  BY <1>2
<1>4. /\ r * 2 >= d => up * d - a = d - r
      /\ r * 2 < d => a - up * d = r
  BY <1>2, <1>3
<1> HIDE DEF up
<1>5. 2 * Magnitude(a - up * d) <= d /\ (2 * Magnitude(a - up * d) = d => up * d > a)
  BY <1>1, <1>2, <1>3, <1>4 DEF Magnitude
<1>6. q = IF n < 0 THEN -up ELSE up
  BY DEF divRoundHalfAwayFromZero, a, w, r, up
<1>7. divRoundHalfAwayFromZero(-n, d) = IF -n < 0 THEN -up ELSE up
  BY <1>1 DEF divRoundHalfAwayFromZero, a, w, r, up
<1> HIDE DEF q
<1>8. q * d = (IF n < 0 THEN -(up * d) ELSE up * d) /\ q \in Int
  BY <1>3, <1>6
<1>9. n = 0 => up = 0
  BY <1>1, <1>2, <1>3, <1>4 DEF up
<1> QED
  BY <1>1, <1>3, <1>5, <1>6, <1>7, <1>8, <1>9 DEF Magnitude, q

LEMMA Product == ASSUME NEW x \in Int, NEW y \in Nat, x >= 0 PROVE x * y \in Nat
  OBVIOUS

\* A VAT-inclusive amount splits into two parts of its own sign that add up to
\* it, the net within half a halala of the exact one.
THEOREM VatSplitCorrect ==
    ASSUME NEW gross \in Int, NEW rate \in Nat
    PROVE  LET split == splitVatInclusive(gross, rate)
           IN  /\ split.net \in Int /\ split.vat \in Int /\ split.net + split.vat = gross
               /\ 2 * Magnitude(gross * BpsUnit - split.net * (BpsUnit + rate)) <= BpsUnit + rate
               /\ gross >= 0 => split.net >= 0 /\ split.vat >= 0
               /\ gross <= 0 => split.net <= 0 /\ split.vat <= 0
<1> DEFINE d == BpsUnit + rate
           n == gross * BpsUnit
           net == divRoundHalfAwayFromZero(n, d)
           g == gross * rate
<1>1. d \in Nat \ {0} /\ n \in Int /\ g \in Int /\ d > 0
  BY DEF BpsUnit
<1>2. splitVatInclusive(gross, rate) = [net |-> net, vat |-> gross - net]
  BY DEF splitVatInclusive
<1>3. gross * d = n + g
  BY DEF BpsUnit
<1>4. (gross >= 0 => n >= 0 /\ g >= 0) /\ (gross <= 0 => n <= 0 /\ g <= 0)
  <2>1. CASE gross >= 0
    BY <2>1, Product DEF BpsUnit
  <2>2. CASE gross <= 0
    <3>1. (-gross) * rate \in Nat /\ (-gross) * rate = -g
      BY <2>2, Product
    <3> QED
      BY <1>1, <2>2, <3>1 DEF BpsUnit
  <2> QED
    BY <2>1, <2>2
<1> HIDE DEF d, n, g
<1>5. net \in Int /\ 2 * Magnitude(n - net * d) <= d
  BY <1>1, RoundingCorrect
<1> HIDE DEF net
<1>6. net * d \in Int /\ 2 * (n - net * d) <= d /\ 2 * (net * d - n) <= d
  BY <1>1, <1>5 DEF Magnitude
<1>7. ASSUME gross >= 0 PROVE net >= 0 /\ net <= gross
  <2>1. net < 0 => net * d <= -d
    <3>1. SUFFICES ASSUME net < 0 PROVE net * d <= -d
      OBVIOUS
    <3>2. (-net - 1) * d \in Nat /\ (-net - 1) * d = -(net * d) - d
      BY <1>1, <1>5, <3>1, Product
    <3> QED
      BY <1>1, <1>6, <3>2
  <2>2. net > gross => net * d >= n + g + d
    <3>1. SUFFICES ASSUME net > gross PROVE net * d >= n + g + d
      OBVIOUS
    <3>2. (net - gross - 1) * d \in Nat /\ (net - gross - 1) * d = net * d - gross * d - d
      BY <1>1, <1>5, <3>1, Product
    <3> QED
      BY <1>1, <1>3, <1>6, <3>2
  <2> QED
    BY <1>1, <1>4, <1>5, <1>6, <1>7, <2>1, <2>2
<1>8. ASSUME gross <= 0 PROVE net <= 0 /\ net >= gross
  <2>1. net > 0 => net * d >= d
    <3>1. SUFFICES ASSUME net > 0 PROVE net * d >= d
      OBVIOUS
    <3>2. (net - 1) * d \in Nat /\ (net - 1) * d = net * d - d
      BY <1>1, <1>5, <3>1, Product
    <3> QED
      BY <1>1, <1>6, <3>2
  <2>2. net < gross => net * d <= n + g - d
    <3>1. SUFFICES ASSUME net < gross PROVE net * d <= n + g - d
      OBVIOUS
    <3>2. (gross - net - 1) * d \in Nat /\ (gross - net - 1) * d = gross * d - net * d - d
      BY <1>1, <1>5, <3>1, Product
    <3> QED
      BY <1>1, <1>3, <1>6, <3>2
  <2> QED
    BY <1>1, <1>4, <1>5, <1>6, <1>8, <2>1, <2>2
<1> QED
  BY <1>2, <1>5, <1>7, <1>8 DEF d, n

-----------------------------------------------------------------------------
(* The allocator.                                                            *)

\* No bucket is more than a unit away from its exact share, whatever is dealt.
THEOREM QuotaCorrect ==
    ASSUME NEW K, NEW weight \in [K -> Nat], NEW amount \in Nat, NEW den \in Nat \ {0}, NEW k \in K
    PROVE  LET share == roundedDown(amount, weight, den)[k]
           IN  /\ share \in Nat
               /\ share * den <= amount * weight[k] + den
               /\ share * den > amount * weight[k] - den
<1> DEFINE a == amount * weight[k]
           share == roundedDown(amount, weight, den)[k]
           w == a \div den
           r == a % den
<1>1. a \in Nat
  BY Product
<1>2. share = w \/ share = w + 1
  BY DEF roundedDown, dealtByRemainder
<1> HIDE DEF a, share
<1>3. w \in Nat /\ r \in Nat /\ r < den /\ a = den * w + r
  BY <1>1, Quotient
<1> HIDE DEF w, r
<1>4. share * den = den * w \/ share * den = den * w + den
  BY <1>2, <1>3
<1>5. share \in Nat /\ den * w \in Nat
  BY <1>2, <1>3
<1> QED
  BY <1>3, <1>4, <1>5 DEF a, share

LEMMA LargerProduct == ASSUME NEW m \in Nat, NEW x \in Nat, NEW y \in Nat, x <= y PROVE m * x <= m * y
<1>1. m * (y - x) \in Nat
  BY Product
<1>2. m * (y - x) = m * y - m * x /\ m * x \in Nat /\ m * y \in Nat
  OBVIOUS
<1> QED
  BY <1>1, <1>2

\* Of two numbers the larger has the larger quotient, or the same and the larger
\* remainder.
LEMMA LargerQuotient ==
    ASSUME NEW a \in Nat, NEW b \in Nat, NEW d \in Nat \ {0}, a <= b
    PROVE  \/ a \div d < b \div d
           \/ a \div d = b \div d /\ a % d <= b % d
<1> DEFINE v == a \div d
           w == b \div d
           r == a % d
           t == b % d
<1>1. v \in Nat /\ r \in Nat /\ r < d /\ a = d * v + r
  BY Quotient
<1>2. w \in Nat /\ t \in Nat /\ t < d /\ b = d * w + t
  BY Quotient
<1> HIDE DEF v, w, r, t
<1>3. d * v \in Nat /\ d * w \in Nat
  BY <1>1, <1>2, Product
<1>4. CASE v > w
  <2>1. d * (v - w - 1) \in Nat /\ d * (v - w - 1) = d * v - d * w - d
    BY <1>1, <1>2, <1>4, Product
  <2> QED
    BY <1>1, <1>2, <1>3, <2>1
<1>5. CASE v = w
  BY <1>1, <1>2, <1>3, <1>5
<1> QED
  BY <1>1, <1>2, <1>4, <1>5 DEF v, w, r, t

\* A larger weight never gets the smaller share, and of two equal ones the
\* earlier key does not: the order in which the units left over are dealt out
\* agrees with the weights.
THEOREM SharesFollowWeights ==
    ASSUME NEW K \in SUBSET Int, IsFiniteSet(K), NEW weight \in [K -> Nat], NEW amount \in Nat,
           NEW den \in Nat \ {0},
           NEW j \in K, NEW k \in K, weight[j] > weight[k] \/ (weight[j] = weight[k] /\ j < k)
    PROVE  roundedDown(amount, weight, den)[j] >= roundedDown(amount, weight, den)[k]
<1> DEFINE base == [x \in DOMAIN weight |-> (amount * weight[x]) \div den]
           rest == [x \in DOMAIN weight |-> (amount * weight[x]) % den]
           left == amount - SumFunction(base)
           Before(x, y) == \/ rest[x] > rest[y]
                           \/ rest[x] = rest[y] /\ weight[x] > weight[y]
                           \/ rest[x] = rest[y] /\ weight[x] = weight[y] /\ x < y
           ahead(x) == {y \in K : Before(y, x)}
           share == roundedDown(amount, weight, den)
<1>0. base \in [K -> Int] /\ DOMAIN weight = K
  <2>1. \A x \in K : amount * weight[x] \in Nat
    BY Product
  <2> QED
    BY <2>1, Quotient
<1>1. DOMAIN weight = K /\ DOMAIN base = K /\ left \in Int
  <2> HIDE DEF base
  <2>1. SumFunction(base) \in Int
    BY <1>0, SumType
  <2> QED
    BY <1>0, <2>1
<1>2. \A x \in K : share[x] = IF Cardinality(ahead(x)) < left THEN base[x] + 1 ELSE base[x]
  BY <1>1, Zenon DEF roundedDown, dealtByRemainder
<1>3. \A x \in K : amount * weight[x] \in Nat
  BY Product
<1>4. \A x \in K : base[x] = (amount * weight[x]) \div den /\ rest[x] = (amount * weight[x]) % den
  OBVIOUS
<1>5. \A x \in K : base[x] \in Nat /\ rest[x] \in Nat /\ weight[x] \in Nat
  BY <1>3, <1>4, Quotient
<1>6. base[k] < base[j] \/ (base[k] = base[j] /\ rest[k] <= rest[j])
  <2>1. weight[k] <= weight[j]
    BY <1>5
  <2>2. amount * weight[k] <= amount * weight[j]
    BY <1>5, <2>1, LargerProduct
  <2> QED
    BY <1>3, <1>4, <2>2, LargerQuotient
<1> SUFFICES share[j] >= share[k]
  OBVIOUS
<1> HIDE DEF base, rest, left, share
<1>7. CASE base[k] < base[j]
  <2> HIDE DEF ahead
  <2>1. (share[j] = base[j] \/ share[j] = base[j] + 1) /\ (share[k] = base[k] \/ share[k] = base[k] + 1)
    BY <1>2, Zenon
  <2> QED
    BY <1>5, <1>7, <2>1
<1>8. CASE base[k] = base[j] /\ rest[k] <= rest[j]
  <2>1. Before(j, k)
    BY <1>5, <1>8
  <2>2. ahead(j) \subseteq ahead(k)
    <3>1. ASSUME NEW y \in K, Before(y, j) PROVE Before(y, k)
      <4>1. y \in Int /\ j \in Int /\ k \in Int
        OBVIOUS
      <4> QED
        BY <1>5, <2>1, <3>1, <4>1
    <3> QED
      BY <3>1
  <2> HIDE DEF Before
  <2>3. IsFiniteSet(ahead(k))
    BY FS_Subset
  <2>4. IsFiniteSet(ahead(j)) /\ Cardinality(ahead(j)) <= Cardinality(ahead(k))
    BY <2>2, <2>3, FS_Subset
  <2>5. Cardinality(ahead(j)) \in Nat /\ Cardinality(ahead(k)) \in Nat
    BY <2>3, <2>4, FS_CardinalityType
  <2> HIDE DEF ahead
  <2> QED
    BY <1>1, <1>2, <1>5, <1>8, <2>4, <2>5
<1> QED
  BY <1>6, <1>7, <1>8

\* Keys ranked one after another: as many have a rank below n as there are ranks below n.
LEMMA RankedBelow ==
    ASSUME NEW K, IsFiniteSet(K), NEW rank \in Injection(K, 0 .. Cardinality(K) - 1), NEW n \in 0 .. Cardinality(K)
    PROVE  Cardinality({x \in K : rank[x] < n}) = n
<1> DEFINE c == Cardinality(K)
           A == {x \in K : rank[x] < n}
           r == [x \in A |-> rank[x]]
<1>1. c \in Nat
  BY FS_CardinalityType
<1>2. IsFiniteSet(0 .. c - 1) /\ Cardinality(0 .. c - 1) = c
  BY <1>1, FS_Interval
<1>3. rank \in Surjection(K, 0 .. c - 1)
  BY <1>2, FS_Injection
<1>4. rank \in [K -> 0 .. c - 1] /\ (\A x, y \in K : rank[x] = rank[y] => x = y)
  BY DEF Injection, IsInjective
<1>5. \A t \in 0 .. c - 1 : \E x \in K : rank[x] = t
  BY <1>3 DEF Surjection
<1> HIDE DEF c
<1>6. r \in Injection(A, 0 .. n - 1)
  <2>1. \A x \in A : rank[x] \in 0 .. n - 1
    BY <1>1, <1>4
  <2> QED
    BY <1>4, <2>1 DEF Injection, IsInjective
<1>7. r \in Surjection(A, 0 .. n - 1)
  <2>1. ASSUME NEW t \in 0 .. n - 1 PROVE \E x \in A : r[x] = t
    <3>1. t \in 0 .. c - 1 /\ t < n
      BY <1>1 DEF c
    <3> QED
      BY <1>5, <3>1
  <2>2. r \in [A -> 0 .. n - 1]
    BY <1>6 DEF Injection
  <2> QED
    BY <2>1, <2>2 DEF Surjection
<1>8. IsFiniteSet(0 .. n - 1) /\ Cardinality(0 .. n - 1) = n
  <2>1. n \in Nat /\ n - 1 \in Int
    BY <1>1 DEF c
  <2> HIDE DEF A, r
  <2>2. IsFiniteSet(0 .. n - 1) /\ Cardinality(0 .. n - 1) = IF 0 > n - 1 THEN 0 ELSE (n - 1) - 0 + 1
    BY <2>1, FS_Interval
  <2> QED
    BY <2>1, <2>2
<1> HIDE DEF A, r
<1>9. Cardinality(A) = Cardinality(0 .. n - 1)
  BY <1>6, <1>7, <1>8, FS_Injection
<1> QED
  BY <1>8, <1>9 DEF A

\* However the keys compare, the deal hands out exactly what is left over.
LEMMA DealtSum ==
    ASSUME NEW K \in SUBSET Int, IsFiniteSet(K), NEW base \in [K -> Int], NEW rest \in [K -> Nat],
           NEW weight \in [K -> Nat], NEW n \in 0 .. Cardinality(K)
    PROVE  /\ dealtByRemainder(base, rest, weight, n) \in [K -> Int]
           /\ SumFunction(dealtByRemainder(base, rest, weight, n)) = SumFunction(base) + n
<1> DEFINE Before(x, y) == \/ rest[x] > rest[y]
                           \/ rest[x] = rest[y] /\ weight[x] > weight[y]
                           \/ rest[x] = rest[y] /\ weight[x] = weight[y] /\ x < y
           ahead(x) == {y \in K : Before(y, x)}
           rank == [x \in K |-> Cardinality(ahead(x))]
           dealt == dealtByRemainder(base, rest, weight, n)
           A == {x \in K : rank[x] < n}
           one == [x \in K |-> IF x \in A THEN 1 ELSE 0]
<1>1. dealt = [x \in K |-> IF Cardinality(ahead(x)) < n THEN base[x] + 1 ELSE base[x]]
  BY Zenon DEF dealtByRemainder
<1>2. \A x \in K : rest[x] \in Nat /\ weight[x] \in Nat /\ x \in Int
  OBVIOUS
<1>3. ASSUME NEW x \in K, NEW y \in K, NEW z \in K
      PROVE  /\ ~Before(x, x)
             /\ Before(x, y) /\ Before(y, z) => Before(x, z)
             /\ x # y => Before(x, y) \/ Before(y, x)
  BY <1>2
<1> HIDE DEF Before
<1>4. \A x \in K : IsFiniteSet(ahead(x)) /\ Cardinality(ahead(x)) \in Nat /\ x \notin ahead(x)
  BY <1>3, FS_Subset, FS_CardinalityType
<1>5. ASSUME NEW x \in K, NEW y \in K, Before(x, y) PROVE Cardinality(ahead(x)) < Cardinality(ahead(y))
  <2>1. ahead(x) \in SUBSET ahead(y) /\ x \in ahead(y) /\ x \notin ahead(x)
    BY <1>3, <1>5
  <2>2. Cardinality(ahead(x)) <= Cardinality(ahead(y)) /\ Cardinality(ahead(x)) # Cardinality(ahead(y))
    BY <1>4, <2>1, FS_Subset
  <2> HIDE DEF ahead
  <2> QED
    BY <1>4, <2>2
<1>6. \A x \in K : Cardinality(ahead(x)) < Cardinality(K) /\ Cardinality(K) \in Nat
  <2> SUFFICES ASSUME NEW x \in K PROVE Cardinality(ahead(x)) < Cardinality(K) /\ Cardinality(K) \in Nat
    OBVIOUS
  <2>1. ahead(x) \in SUBSET K /\ ahead(x) # K
    BY <1>4
  <2>2. Cardinality(ahead(x)) <= Cardinality(K) /\ Cardinality(ahead(x)) # Cardinality(K) /\ Cardinality(K) \in Nat
    BY <2>1, FS_Subset, FS_CardinalityType
  <2> HIDE DEF ahead
  <2> QED
    BY <1>4, <2>2
<1>7. rank \in Injection(K, 0 .. Cardinality(K) - 1)
  <2>1. \A x \in K : rank[x] = Cardinality(ahead(x))
    OBVIOUS
  <2>2. ASSUME NEW x \in K, NEW y \in K, x # y PROVE Cardinality(ahead(x)) # Cardinality(ahead(y))
    <3>1. Before(x, y) \/ Before(y, x)
      BY <1>3, <2>2
    <3> HIDE DEF ahead
    <3> QED
      BY <1>4, <1>5, <3>1
  <2>3. \A x \in K : Cardinality(ahead(x)) \in 0 .. Cardinality(K) - 1
    <3> HIDE DEF ahead
    <3> QED
      BY <1>4, <1>6
  <2>4. rank \in [K -> 0 .. Cardinality(K) - 1]
    BY <2>3
  <2> HIDE DEF ahead, rank
  <2> QED
    BY <2>1, <2>2, <2>4 DEF Injection, IsInjective
<1>8. \A x \in K : x \in A <=> Cardinality(ahead(x)) < n
  OBVIOUS
<1> HIDE DEF rank
<1>9. Cardinality(A) = n
  BY <1>7, RankedBelow
<1>10. A \in SUBSET K
  OBVIOUS
<1> HIDE DEF A, ahead
<1>11. one \in [K -> Int]
  OBVIOUS
<1>12. dealt = [x \in K |-> base[x] + one[x]]
  BY <1>1, <1>8
<1>13. SumFunction(one) = Cardinality(A)
  BY <1>10, SumCount
<1> HIDE DEF one
<1>14. Adds(dealt, base, one, K)
  BY <1>11, <1>12 DEF Adds, Table
<1> HIDE DEF dealt
<1>15. SumFunction(dealt) = SumFunction(base) + SumFunction(one)
  BY <1>14, SumPlus
<1>16. SumFunction(dealt) = SumFunction(base) + n
  BY <1>9, <1>13, <1>15
<1> QED
  BY <1>14, <1>16 DEF dealt, Adds, Table

\* Whatever the amount and the weights, no unit is lost or made up.
LEMMA RoundedDownSum ==
    ASSUME NEW K \in SUBSET Int, IsFiniteSet(K), K # {}, NEW weight \in [K -> Nat], NEW amount \in Nat,
           NEW den \in Nat \ {0}
    PROVE  den = SumFunction(weight) =>
               /\ roundedDown(amount, weight, den) \in [K -> Int]
               /\ SumFunction(roundedDown(amount, weight, den)) = amount
<1>0. SUFFICES ASSUME den = SumFunction(weight)
               PROVE  /\ roundedDown(amount, weight, den) \in [K -> Int]
                      /\ SumFunction(roundedDown(amount, weight, den)) = amount
  OBVIOUS
<1> DEFINE base == [x \in K |-> (amount * weight[x]) \div den]
           rest == [x \in K |-> (amount * weight[x]) % den]
           left == amount - SumFunction(base)
           whole == [x \in K |-> den * base[x]]
           full == [x \in K |-> amount * weight[x]]
           card == Cardinality(K)
<1>1. roundedDown(amount, weight, den) = dealtByRemainder(base, rest, weight, left)
  <2>1. DOMAIN weight = K
    OBVIOUS
  <2> QED
    BY <2>1, Zenon DEF roundedDown
<1>2. \A x \in K : /\ base[x] \in Nat /\ rest[x] \in Nat /\ rest[x] < den /\ amount * weight[x] \in Nat
                   /\ amount * weight[x] = den * base[x] + rest[x]
  <2> SUFFICES ASSUME NEW x \in K
               PROVE  /\ base[x] \in Nat /\ rest[x] \in Nat /\ rest[x] < den /\ amount * weight[x] \in Nat
                      /\ amount * weight[x] = den * base[x] + rest[x]
    OBVIOUS
  <2>1. weight[x] \in Nat
    OBVIOUS
  <2>2. amount * weight[x] \in Nat
    BY <2>1, Product
  <2> QED
    BY <2>2, Quotient
<1>3. base \in [K -> Nat] /\ rest \in [K -> Nat] /\ rest \in [K -> 0 .. den - 1]
  BY <1>2
<1> HIDE DEF base, rest
<1>4. base \in [K -> Int] /\ rest \in [K -> Int] /\ weight \in [K -> Int]
  BY <1>3
<1>w. Scales(whole, den, base, K)
  BY <1>4 DEF Scales, Table
<1>f. Scales(full, amount, weight, K)
  BY <1>2, <1>4 DEF Scales, Table
<1>6. Adds(full, whole, rest, K)
  BY <1>2, <1>4 DEF Adds, Table
<1> HIDE DEF whole, full
<1>5. SumFunction(whole) = den * SumFunction(base) /\ SumFunction(full) = amount * den
  <2>1. SumFunction(whole) = den * SumFunction(base)
    BY <1>w, SumScale
  <2>2. SumFunction(full) = amount * SumFunction(weight)
    BY <1>f, SumScale
  <2> QED
    BY <1>0, <2>1, <2>2
<1>7. SumFunction(full) = SumFunction(whole) + SumFunction(rest)
  BY <1>6, SumPlus
<1>8. SumFunction(base) \in Int /\ SumFunction(rest) \in Int /\ left \in Int /\ card \in Nat /\ card > 0
  <2>1. card \in Nat /\ card # 0
    BY FS_CardinalityType, FS_EmptySet
  <2>2. SumFunction(base) \in Int
    BY <1>4, SumType
  <2>3. SumFunction(rest) \in Int
    BY <1>4, SumType
  <2> HIDE DEF card
  <2> QED
    BY <2>1, <2>2, <2>3
<1>9. 0 <= SumFunction(rest)
  <2> DEFINE zero == [x \in K |-> 0]
  <2>1. Below(zero, rest, K)
    BY <1>3 DEF Below, Table
  <2>2. SumFunction(zero) = 0
    BY SumZero
  <2> HIDE DEF zero
  <2> QED
    BY <2>1, <2>2, SumMonotone
<1>10. SumFunction(rest) <= (den - 1) * card
  <2> DEFINE ones == [x \in K |-> IF x \in K THEN 1 ELSE 0]
             most == [x \in K |-> (den - 1) * ones[x]]
  <2>1. Below(rest, most, K) /\ Scales(most, den - 1, ones, K)
    BY <1>3 DEF Below, Scales, Table
  <2>2. SumFunction(ones) = card
    BY SumCount
  <2> HIDE DEF ones, most
  <2>4. SumFunction(most) = (den - 1) * SumFunction(ones)
    BY <2>1, SumScale
  <2>5. SumFunction(rest) <= SumFunction(most)
    BY <2>1, SumMonotone
  <2> QED
    BY <2>2, <2>4, <2>5
<1>11. den * left = SumFunction(rest)
  <2> DEFINE b == SumFunction(base)
  <2>1. amount * den = den * b + SumFunction(rest)
    BY <1>5, <1>7
  <2> HIDE DEF b
  <2>2. den * (amount - b) = amount * den - den * b
    BY <1>8 DEF b
  <2>3. amount * den \in Int /\ den * b \in Int
    BY <1>8 DEF b
  <2> QED
    BY <1>8, <2>1, <2>2, <2>3 DEF b
<1>12. left \in 0 .. card
  <2> HIDE DEF left, card
  <2>1. left >= 0
    <3>1. CASE left < 0
      <4>1. den * (-left - 1) \in Nat /\ den * (-left - 1) = -(den * left) - den
        BY <1>8, <3>1, Product
      <4>2. den * left \in Int
        BY <1>8
      <4> QED
        BY <1>8, <1>9, <1>11, <4>1, <4>2
    <3> QED
      BY <1>8, <3>1
  <2>2. left <= card
    <3>1. CASE left > card
      <4>1. den * (left - card - 1) \in Nat /\ den * (left - card - 1) = den * left - den * card - den
        BY <1>8, <3>1, Product
      <4>2. (den - 1) * card = den * card - card /\ den * card \in Nat /\ den * left \in Int
        BY <1>8
      <4> QED
        BY <1>8, <1>10, <1>11, <4>1, <4>2
    <3> QED
      BY <1>8, <3>1
  <2> QED
    BY <1>8, <2>1, <2>2
<1> HIDE DEF left
<1>13. /\ dealtByRemainder(base, rest, weight, left) \in [K -> Int]
       /\ SumFunction(dealtByRemainder(base, rest, weight, left)) = SumFunction(base) + left
  BY <1>3, <1>4, <1>12, DealtSum
<1>14. SumFunction(base) + left = amount
  BY <1>8 DEF left
<1> QED
  BY <1>1, <1>13, <1>14

\* What is allocated is what there was to allocate, to the halala: for every total, positive or
\* not, and all weights, zero, negative or lopsided, over any number of lines.
THEOREM AllocationIsExact ==
    ASSUME NEW K \in SUBSET Int, IsFiniteSet(K), K # {}, NEW weights \in [K -> Int], NEW total \in Int
    PROVE  /\ allocateMinor(total, weights) \in [K -> Int]
           /\ SumFunction(allocateMinor(total, weights)) = total
<1> DEFINE even == Unweighted(weights)
           weight == [k \in K |-> IF even THEN 1 ELSE IF weights[k] > 0 THEN weights[k] ELSE 0]
           den == SumFunction(weight)
           share == roundedDown(Magnitude(total), weight, den)
           signed == [k \in K |-> IF total < 0 THEN -share[k] ELSE share[k]]
<1>1. allocateMinor(total, weights) = signed
  <2>1. DOMAIN weights = K
    OBVIOUS
  <2> QED
    BY <2>1, Zenon DEF allocateMinor
<1>2. weight \in [K -> Nat] /\ weight \in [K -> Int]
  OBVIOUS
<1>3. den \in Nat \ {0}
  <2>1. PICK k \in K : weight[k] > 0
    <3>1. CASE even
      <4>1. PICK k \in K : TRUE
        OBVIOUS
      <4>2. weight[k] = 1
        BY <3>1
      <4> QED
        BY <4>2
    <3>2. CASE ~even
      <4>1. PICK k \in K : ~(weights[k] <= 0)
        BY <3>2 DEF Unweighted
      <4>2. weights[k] > 0
        BY <4>1
      <4> QED
        BY <3>2, <4>2
    <3> QED
      BY <3>1, <3>2
  <2>w. PICK w \in Int : w = weight[k]
    BY <1>2
  <2> DEFINE one == [x \in K |-> IF x = k THEN w ELSE 0]
  <2> HIDE DEF weight
  <2>2. Below(one, weight, K)
    <3>1. one \in [K -> Int] /\ weight \in [K -> Int]
      BY <1>2
    <3>2. ASSUME NEW x \in K PROVE one[x] <= weight[x]
      <4>1. weight[x] \in Nat /\ one[x] = IF x = k THEN w ELSE 0
        BY <1>2
      <4> HIDE DEF one
      <4> QED
        BY <2>w, <4>1
    <3> HIDE DEF one
    <3> QED
      BY <3>1, <3>2 DEF Below, Table
  <2>3. SumFunction(one) = w
    <3>1. Lone(one, k, w, K)
      BY DEF Lone
    <3> HIDE DEF one
    <3> QED
      BY <3>1, SumLone
  <2> HIDE DEF one
  <2>4. SumFunction(one) <= SumFunction(weight)
    BY <2>2, SumMonotone
  <2>5. SumFunction(weight) \in Int
    BY <1>2, SumType
  <2> QED
    BY <2>1, <2>w, <2>3, <2>4, <2>5
<1> HIDE DEF weight
<1>4. Magnitude(total) \in Nat
  BY DEF Magnitude
<1>5. share \in [K -> Int] /\ SumFunction(share) = Magnitude(total)
  <2> HIDE DEF share
  <2>1. den = SumFunction(weight)
    OBVIOUS
  <2> HIDE DEF den
  <2> QED
    BY <1>2, <1>3, <1>4, <2>1, RoundedDownSum DEF share
<1> HIDE DEF share
<1>6. signed \in [K -> Int]
  BY <1>5
<1>7. SumFunction(signed) = total
  <2>1. CASE total < 0
    <3>a. PICK a \in Int : a = -1
      OBVIOUS
    <3>1. Scales(signed, a, share, K)
      BY <1>5, <1>6, <2>1, <3>a DEF Scales, Table
    <3> HIDE DEF signed
    <3>2. SumFunction(signed) = a * SumFunction(share)
      BY <3>1, SumScale
    <3> QED
      BY <1>5, <2>1, <3>a, <3>2 DEF Magnitude
  <2>2. CASE ~(total < 0)
    <3>1. signed = share
      BY <1>5, <2>2
    <3> HIDE DEF signed
    <3> QED
      BY <1>5, <2>2, <3>1 DEF Magnitude
  <2> QED
    BY <2>1, <2>2
<1> HIDE DEF signed
<1> QED
  BY <1>1, <1>6, <1>7

-----------------------------------------------------------------------------
(* Valid inputs, lists, and records by id.                                   *)

LEMMA MinorIsInt == ASSUME NEW m, validMinor(m) PROVE m \in Int
  BY MaxMinorAssumption DEF validMinor

\* What is left of an input that passes the engine's own validation.
LEMMA ValidInput ==
    ASSUME NEW in, normalizeAndValidate(in) = {}
    PROVE  /\ in.order # Null
           /\ in.order.shipping \in Int /\ in.order.codFee \in Int
           /\ \A item \in ToSet(in.items) : item.lineTotal \in Int
           /\ \A reversal \in ToSet(in.reversals) : \A line \in ToSet(ReversalLines(reversal)) : line.amount \in Int
           /\ \A s \in ToSet(in.shipments) : s.carrierCost = Null \/ s.carrierCost \in Int
           /\ \A r \in ToSet(in.rules.shipping) : r.cost \in Int
<1> DEFINE order == in.order
<1>1. Null \notin {in.order, in.store, in.rules}
  BY DEF normalizeAndValidate, onOrder
<1>2. /\ validateFeeRuleSet(in.rules) = {}
      /\ MoneyFault({order.subtotal, order.vat, order.shipping, order.codFee, order.total}, "order", 0) = {}
      /\ ItemFaults(order, in.items) = {}
      /\ ReversalFaults(order, in.reversals) = {}
      /\ ShipmentFaults(in.shipments) = {}
  BY <1>1 DEF normalizeAndValidate
<1>3. \A amounts, kind, id : MoneyFault(amounts, kind, id) = {} => \A m \in amounts : m \in Int
  BY MinorIsInt DEF MoneyFault, When, diagnostic
<1>4. in.order.shipping \in Int /\ in.order.codFee \in Int
  BY <1>2, <1>3
<1>5. ASSUME NEW item \in ToSet(in.items) PROVE item.lineTotal \in Int
  <2>1. PICK n \in DOMAIN in.items : item = in.items[n]
    BY DEF ToSet
  <2>2. MoneyFault({item.unitPrice, item.gross, item.lineDiscount, item.lineTotal}, "line", item.id) = {}
    <3> DEFINE faults(m) ==
                   When(in.items[m].orderId # order.id, diagnostic("ITEM_ORDER_ID_MISMATCH", "line", in.items[m].id))
                   \union QuantityFault(in.items[m].quantity, "line", in.items[m].id)
                   \union MoneyFault({in.items[m].unitPrice, in.items[m].gross, in.items[m].lineDiscount,
                                      in.items[m].lineTotal}, "line", in.items[m].id)
    <3>1. UNION {faults(m) : m \in DOMAIN in.items} = {}
      BY <1>2 DEF ItemFaults
    <3>2. faults(n) = {}
      <4> HIDE DEF faults
      <4> QED
        BY <3>1
    <3> QED
      BY <2>1, <3>2
  <2> QED
    BY <1>3, <2>2
<1>6. ASSUME NEW reversal \in ToSet(in.reversals), NEW line \in ToSet(ReversalLines(reversal)) PROVE line.amount \in Int
  <2>1. PICK n \in DOMAIN in.reversals : reversal = in.reversals[n]
    BY DEF ToSet
  <2>2. MoneyFault({line.amount}, "reversal", reversal.id) = {}
    <3> DEFINE ofLine(m, l) == QuantityFault(l.quantity, "reversal", in.reversals[m].id)
                               \union MoneyFault({l.amount}, "reversal", in.reversals[m].id)
               faults(m) == When(in.reversals[m].orderId # order.id,
                                 diagnostic("REVERSAL_ORDER_ID_MISMATCH", "reversal", in.reversals[m].id))
                            \union UNION {ofLine(m, l) : l \in ToSet(ReversalLines(in.reversals[m]))}
    <3>1. UNION {faults(m) : m \in DOMAIN in.reversals} = {}
      BY <1>2 DEF ReversalFaults
    <3>2. faults(n) = {}
      <4> HIDE DEF faults
      <4> QED
        BY <3>1
    <3>3. ofLine(n, line) = {}
      <4> HIDE DEF ofLine
      <4> QED
        BY <2>1, <3>2
    <3> QED
      BY <2>1, <3>3
  <2> QED
    BY <1>3, <2>2
<1>7. ASSUME NEW s \in ToSet(in.shipments) PROVE s.carrierCost = Null \/ s.carrierCost \in Int
  <2>1. PICK n \in DOMAIN in.shipments : s = in.shipments[n]
    BY DEF ToSet
  <2>2. MoneyFault({s.carrierCost} \ {Null}, "shipment", s.id) = {}
    BY <1>2, <2>1 DEF ShipmentFaults
  <2> QED
    BY <1>3, <2>2
<1>8. ASSUME NEW r \in ToSet(in.rules.shipping) PROVE r.cost \in Int
  <2>1. NonNegative(r.cost)
    BY <1>2 DEF validateFeeRuleSet, When, onOrder
  <2> QED
    BY <2>1, MinorIsInt DEF NonNegative
<1> QED
  BY <1>1, <1>4, <1>5, <1>6, <1>7, <1>8

\* The image of a finite set is finite.
LEMMA ImageFinite ==
    ASSUME NEW S, IsFiniteSet(S), NEW f, DOMAIN f = S
    PROVE  IsFiniteSet({f[x] : x \in S})
<1> DEFINE g == [x \in S |-> f[x]]
           T == {f[x] : x \in S}
<1>1. g \in Surjection(S, T)
  BY DEF Surjection
<1> QED
  BY <1>1, FS_Surjection

\* A list is a function on finitely many positions.
LEMMA ListIs ==
    ASSUME NEW s, IsList(s)
    PROVE  /\ IsFiniteSet(DOMAIN s) /\ DOMAIN s \in SUBSET Nat /\ DOMAIN s = 1 .. Len(s) /\ Len(s) \in Nat
           /\ \A n \in DOMAIN s : s[n] \in ToSet(s)
           /\ IsFiniteSet(ToSet(s))
           /\ s \in [DOMAIN s -> ToSet(s)]
<1>1. s \in Seq(ToSet(s))
  BY DEF IsList
<1>2. Len(s) \in Nat /\ DOMAIN s = 1 .. Len(s)
  BY <1>1
<1>3. IsFiniteSet(DOMAIN s)
  BY <1>2, FS_Interval
<1>4. ToSet(s) = {s[n] : n \in DOMAIN s}
  BY DEF ToSet
<1>5. IsFiniteSet({s[n] : n \in DOMAIN s})
  BY <1>3, ImageFinite
<1> QED
  BY <1>1, <1>2, <1>3, <1>4, <1>5

\* Records by id.
LEMMA ByIdIs ==
    ASSUME NEW s, IsList(s)
    PROVE  /\ IsFiniteSet(DOMAIN ById(s))
           /\ \A i \in DOMAIN ById(s) : ById(s)[i] \in ToSet(s) /\ ById(s)[i].id = i
<1> DEFINE ids == {r.id : r \in ToSet(s)}
<1>1. DOMAIN ById(s) = ids
  BY DEF ById
<1>2. IsFiniteSet(ids)
  <2> DEFINE f == [r \in ToSet(s) |-> r.id]
  <2>1. ids = {f[r] : r \in ToSet(s)} /\ DOMAIN f = ToSet(s)
    OBVIOUS
  <2> HIDE DEF f
  <2>2. IsFiniteSet({f[r] : r \in ToSet(s)})
    BY <2>1, ListIs, ImageFinite
  <2> QED
    BY <2>1, <2>2
<1>3. ASSUME NEW i \in ids PROVE ById(s)[i] \in ToSet(s) /\ ById(s)[i].id = i
  BY DEF ById
<1> QED
  BY <1>1, <1>2, <1>3

-----------------------------------------------------------------------------
(* Courier cost.                                                             *)

\* The first of the best: what the loops over a rule table keep exists.
LEMMA BestExists ==
    ASSUME NEW fit \in SUBSET Nat, fit # {}, NEW top \in Nat, NEW score \in [fit -> 0 .. top]
    PROVE  \E i \in fit : \A j \in fit : score[j] < score[i] \/ (score[j] = score[i] /\ i <= j)
<1> DEFINE short == {top - score[i] : i \in fit}
<1>1. short \in SUBSET Nat /\ short # {}
  <2>1. \A i \in fit : top - score[i] \in Nat
    OBVIOUS
  <2>2. PICK i \in fit : TRUE
    OBVIOUS
  <2> QED
    BY <2>1, <2>2
<1>2. PICK low \in short : \A n \in short : low <= n
  <2> HIDE DEF short
  <2> QED
    BY <1>1, NatLeast
<1> DEFINE best == {i \in fit : top - score[i] = low}
<1>3. best \in SUBSET Nat /\ best # {}
  OBVIOUS
<1>4. PICK i \in best : \A j \in best : i <= j
  <2> HIDE DEF best
  <2> QED
    BY <1>3, NatLeast
<1>5. ASSUME NEW j \in fit PROVE score[j] < score[i] \/ (score[j] = score[i] /\ i <= j)
  <2>1. low <= top - score[j] /\ score[j] \in Int /\ score[i] \in Int /\ top - score[i] = low
    BY <1>2, <1>4
  <2>2. CASE top - score[j] = low
    BY <1>4, <2>1, <2>2
  <2>3. CASE top - score[j] # low
    BY <2>1, <2>3
  <2> QED
    BY <2>2, <2>3
<1> QED
  BY <1>4, <1>5

\* The rule that applies, when one does, is one of the table's.
LEMMA MatchedRule ==
    ASSUME NEW rules, IsList(rules), NEW order, NEW carrier, NEW direction
    PROVE  LET rule == matchShippingRule(rules, order, carrier, direction)
           IN  rule = Null \/ rule \in ToSet(rules)
<1> DEFINE Matches(rule) == /\ AgreesWith(rule.country, order.country)
                            /\ AgreesWith(rule.region, order.region)
                            /\ AgreesWith(rule.carrier, carrier)
           Score(rule) == Set(rule.country, 4) + Set(rule.region, 2) + Set(rule.carrier, 1)
           fit(dir) == {i \in DOMAIN rules : rules[i].direction = dir /\ Matches(rules[i])}
           Best(dir, i) == \A j \in fit(dir) :
                               Score(rules[j]) < Score(rules[i]) \/ (Score(rules[j]) = Score(rules[i]) /\ i <= j)
           Pick(dir) == IF fit(dir) = {} THEN Null ELSE rules[CHOOSE i \in fit(dir) : Best(dir, i)]
<1>1. matchShippingRule(rules, order, carrier, direction) = IF Pick(direction) # Null THEN Pick(direction) ELSE Pick("any")
  BY Zenon DEF matchShippingRule, BestOf
<1>2. ASSUME NEW dir PROVE Pick(dir) = Null \/ Pick(dir) \in ToSet(rules)
  <2>1. SUFFICES ASSUME fit(dir) # {} PROVE \E i \in fit(dir) : Best(dir, i)
    <3>1. CASE fit(dir) = {}
      BY <3>1
    <3>2. CASE fit(dir) # {}
      <4>1. PICK i \in fit(dir) : i = CHOOSE k \in fit(dir) : Best(dir, k)
        BY <2>1, <3>2
      <4>2. i \in DOMAIN rules
        OBVIOUS
      <4> QED
        BY <3>2, <4>1, <4>2, ListIs
    <3> QED
      BY <3>1, <3>2
  <2> DEFINE F == fit(dir)
             score == [i \in F |-> Score(rules[i])]
  <2>2. F \in SUBSET Nat
    BY ListIs
  <2>3. score \in [F -> 0 .. 7]
    BY DEF Set
  <2>4. \A i \in F : score[i] = Score(rules[i])
    OBVIOUS
  <2> HIDE DEF F, score, Score
  <2>5. \E i \in F : \A j \in F : score[j] < score[i] \/ (score[j] = score[i] /\ i <= j)
    BY <2>1, <2>2, <2>3, BestExists DEF F
  <2> QED
    BY <2>4, <2>5 DEF F
<1> HIDE DEF Pick
<1> QED
  BY <1>1, <1>2

\* A parcel costs a whole number, its own or its rule's, and the parcels make up the cost.
ParcelsTie(c) ==
    /\ IsFiniteSet(DOMAIN c.parcels)
    /\ \A n \in DOMAIN c.parcels : c.parcels[n].cost \in Int
    /\ DOMAIN c.parcels # {} => c.cost = SumFunction([n \in DOMAIN c.parcels |-> c.parcels[n].cost])

LEMMA ParcelsCost ==
    ASSUME NEW order, NEW shipments, NEW rules, NEW direction,
           IsFiniteSet(DOMAIN shipments), IsList(rules),
           \A n \in DOMAIN shipments : shipments[n].carrierCost = Null \/ shipments[n].carrierCost \in Int,
           \A r \in ToSet(rules) : r.cost \in Int
    PROVE  ParcelsTie(computeShippingCost(order, shipments, rules, direction))
<1> DEFINE legs == LiveLegs(shipments, direction)
           Rule(n) == matchShippingRule(rules, order, shipments[n].carrier, direction)
           known == {n \in legs : shipments[n].carrierCost # Null}
           used == {n \in legs \ known : order.fulfillmentMethod = "carrier" /\ Rule(n) # Null}
           parcels == [n \in known \union used |->
                         [ cost    |-> IF n \in known THEN shipments[n].carrierCost ELSE Rule(n).cost,
                           lineIds |-> shipments[n].lineIds ]]
           c == computeShippingCost(order, shipments, rules, direction)
<1>1. CASE legs = {}
  <2>1. c = NoLeg(order, rules, direction)
    BY <1>1 DEF computeShippingCost
  <2>2. c.parcels = <<>>
    BY <2>1 DEF NoLeg
  <2>3. DOMAIN c.parcels = {}
    BY <2>2
  <2> HIDE DEF c
  <2> QED
    BY <2>3, FS_EmptySet DEF c, ParcelsTie
<1>2. CASE legs # {}
  <2>1. /\ c.parcels = parcels
        /\ c.cost = SumFunction([n \in DOMAIN parcels |-> parcels[n].cost])
    BY <1>2 DEF computeShippingCost, SumOver
  <2>2. DOMAIN parcels = known \union used /\ known \union used \in SUBSET DOMAIN shipments
    BY DEF LiveLegs
  <2>3. ASSUME NEW n \in known \union used PROVE parcels[n].cost \in Int
    <3>1. parcels[n].cost = IF n \in known THEN shipments[n].carrierCost ELSE Rule(n).cost
      OBVIOUS
    <3>2. n \notin known => Rule(n) # Null
      OBVIOUS
    <3>3. Rule(n) # Null => Rule(n) \in ToSet(rules)
      BY MatchedRule
    <3>4. n \in DOMAIN shipments /\ (n \in known => shipments[n].carrierCost # Null)
      BY <2>2
    <3> HIDE DEF parcels, known, Rule
    <3> QED
      BY <3>1, <3>2, <3>3, <3>4
  <2>4. IsFiniteSet(DOMAIN parcels)
    BY <2>2, FS_Subset
  <2> HIDE DEF parcels, c
  <2> QED
    BY <2>1, <2>2, <2>3, <2>4 DEF c, ParcelsTie
<1> QED
  BY <1>1, <1>2

-----------------------------------------------------------------------------
(* Amounts shared between lines.                                             *)

\* The same facts with their tables named, for use among other hypotheses.
Extends(h, f, R, S) == R \in SUBSET S /\ Table(f, R) /\ h = [x \in S |-> IF x \in R THEN f[x] ELSE 0]
Grid(f, S, R) == IsFiniteSet(S) /\ IsFiniteSet(R) /\ f \in [S -> [R -> Int]]
RowSums(rows, f, S) == rows = [x \in S |-> SumFunction(f[x])]
ColumnSums(cols, f, S, R) == cols = [y \in R |-> SumFunction([x \in S |-> f[x][y]])]

LEMMA SumExtended ==
    ASSUME NEW S, IsFiniteSet(S), NEW R, NEW f, NEW h, Extends(h, f, R, S)
    PROVE  SumFunction(h) = SumFunction(f)
<1>1. R \in SUBSET S /\ f \in [R -> Int]
  BY DEF Extends, Table
<1>2. SumFunction([x \in S |-> IF x \in R THEN f[x] ELSE 0]) = SumFunction(f)
  BY <1>1, SumPart
<1> QED
  BY <1>2 DEF Extends

LEMMA SumExchanged ==
    ASSUME NEW S, NEW R, NEW f, Grid(f, S, R), NEW rows, NEW cols, RowSums(rows, f, S), ColumnSums(cols, f, S, R)
    PROVE  SumFunction(rows) = SumFunction(cols)
  BY SumSwap DEF Grid, RowSums, ColumnSums

\* Lines to share an amount between, and a sharing of all of it.
Buckets(weights, K) == K \in SUBSET Int /\ IsFiniteSet(K) /\ K # {} /\ weights \in [K -> Int]
Shares(f, total, K) == f \in [K -> Int] /\ SumFunction(f) = total

LEMMA Allocated ==
    ASSUME NEW K, NEW weights, Buckets(weights, K), NEW total \in Int
    PROVE  Shares(allocateMinor(total, weights), total, K)
  BY AllocationIsExact DEF Buckets, Shares

\* Freight is on the lines in full, whether parcel by parcel or as one sum.
LEMMA ParcelsSpreadExactly ==
    ASSUME NEW K \in SUBSET Int, IsFiniteSet(K), K # {}, NEW weights \in [K -> Int], NEW total \in Int,
           NEW parcels, IsFiniteSet(DOMAIN parcels), \A n \in DOMAIN parcels : parcels[n].cost \in Int
    PROVE  (DOMAIN parcels # {} => total = SumFunction([n \in DOMAIN parcels |-> parcels[n].cost])) =>
               /\ spreadParcels(parcels, total, weights) \in [K -> Int]
               /\ SumFunction(spreadParcels(parcels, total, weights)) = total
<1> DEFINE P == DOMAIN parcels
           costs == [n \in P |-> parcels[n].cost]
           carried == [n \in P |-> parcels[n].lineIds \intersect K]
           share == [n \in P |-> allocateMinor(parcels[n].cost, [i \in carried[n] |-> weights[i]])]
           f == [i \in K |-> [n \in P |-> IF i \in carried[n] THEN share[n][i] ELSE 0]]
           out == spreadParcels(parcels, total, weights)
<1>0. SUFFICES ASSUME P # {} => total = SumFunction(costs)
               PROVE  out \in [K -> Int] /\ SumFunction(out) = total
  OBVIOUS
<1>1. DOMAIN weights = K
  OBVIOUS
<1>2. CASE P = {} \/ \E n \in P : carried[n] = {}
  <2>1. out = allocateMinor(total, weights)
    BY <1>1, <1>2, Zenon DEF spreadParcels
  <2> HIDE DEF out
  <2> QED
    BY <2>1, AllocationIsExact
<1>3. CASE ~(P = {} \/ \E n \in P : carried[n] = {})
  <2>1. out = [i \in K |-> SumFunction([n \in P |-> IF i \in carried[n] THEN share[n][i] ELSE 0])]
    BY <1>1, <1>3, Zenon DEF spreadParcels
  <2>2. ASSUME NEW n \in P
        PROVE  /\ carried[n] \in SUBSET K
               /\ share[n] \in [carried[n] -> Int]
               /\ SumFunction(share[n]) = costs[n] /\ costs[n] \in Int
    <3> DEFINE C == carried[n]
               w == [i \in C |-> weights[i]]
    <3>1. C \in SUBSET K /\ C \in SUBSET Int /\ C # {} /\ w \in [C -> Int] /\ costs[n] \in Int
      BY <1>3
    <3>2. IsFiniteSet(C)
      BY <3>1, FS_Subset
    <3>3. share[n] = allocateMinor(costs[n], w)
      OBVIOUS
    <3> HIDE DEF C, w, costs, share
    <3>4. share[n] \in [C -> Int] /\ SumFunction(share[n]) = costs[n]
      BY <3>1, <3>2, <3>3, AllocationIsExact
    <3> QED
      BY <3>1, <3>4 DEF C
  <2>c. costs \in [P -> Int] /\ costs = [n \in P |-> costs[n]]
    OBVIOUS
  <2>p. IsFiniteSet(P)
    OBVIOUS
  <2> HIDE DEF P, carried, share, costs, out
  <2>3. f \in [K -> [P -> Int]]
    BY <2>2
  <2>4. out = [i \in K |-> SumFunction(f[i])]
    BY <2>1
  <2>5. \A n \in P : [i \in K |-> f[i][n]] = [i \in K |-> IF i \in carried[n] THEN share[n][i] ELSE 0]
    OBVIOUS
  <2>6. \A i \in K : SumFunction(f[i]) \in Int
    <3>1. \A i \in K : f[i] \in [P -> Int]
      BY <2>3
    <3> HIDE DEF f
    <3> QED
      BY <2>p, <3>1, SumType
  <2> HIDE DEF f
  <2>7. ASSUME NEW n \in P PROVE SumFunction([i \in K |-> f[i][n]]) = costs[n]
    <3> DEFINE C == carried[n]
               g == share[n]
    <3>1. C \in SUBSET K /\ g \in [C -> Int]
      BY <2>2
    <3>2. [i \in K |-> f[i][n]] = [i \in K |-> IF i \in C THEN g[i] ELSE 0]
      BY <2>5
    <3>3. SumFunction(g) = costs[n]
      BY <2>2
    <3> HIDE DEF C, g
    <3>4. Extends([i \in K |-> f[i][n]], g, C, K)
      BY <3>1, <3>2 DEF Extends, Table
    <3> QED
      BY <3>3, <3>4, SumExtended
  <2>8. [n \in P |-> SumFunction([i \in K |-> f[i][n]])] = costs
    BY <2>7, <2>c
  <2>9. SumFunction(out) = SumFunction(costs)
    <3>1. Grid(f, K, P) /\ RowSums(out, f, K) /\ ColumnSums(costs, f, K, P)
      BY <2>3, <2>4, <2>8, <2>p DEF Grid, RowSums, ColumnSums
    <3> QED
      BY <3>1, SumExchanged
  <2> QED
    BY <1>0, <1>3, <2>4, <2>6, <2>9
<1> QED
  BY <1>2, <1>3

LEMMA ParcelsShared ==
    ASSUME NEW K, NEW weights, Buckets(weights, K), NEW c, ParcelsTie(c), c.cost \in Int
    PROVE  Shares(spreadParcels(c.parcels, c.cost, weights), c.cost, K)
<1>1. (DOMAIN c.parcels # {} => c.cost = SumFunction([n \in DOMAIN c.parcels |-> c.parcels[n].cost]))
      /\ IsFiniteSet(DOMAIN c.parcels) /\ \A n \in DOMAIN c.parcels : c.parcels[n].cost \in Int
  BY DEF ParcelsTie
<1>2. K \in SUBSET Int /\ IsFiniteSet(K) /\ K # {} /\ weights \in [K -> Int]
  BY DEF Buckets
<1> QED
  BY <1>1, <1>2, ParcelsSpreadExactly DEF Shares

-----------------------------------------------------------------------------
(* Refunds.                                                                  *)

\* A tally grows by exactly what is spread over it.
LEMMA SpreadAdds ==
    ASSUME NEW K \in SUBSET Int, IsFiniteSet(K), K # {}, NEW weights \in [K -> Int], NEW total \in Int,
           NEW tally \in [K -> Int]
    PROVE  /\ spread(total, tally, weights) \in [K -> Int]
           /\ SumFunction(spread(total, tally, weights)) = SumFunction(tally) + total
<1> DEFINE share == allocateMinor(total, weights)
           sum == Plus(tally, share)
<1>1. share \in [K -> Int] /\ SumFunction(share) = total
  BY AllocationIsExact
<1>2. SumFunction(tally) \in Int
  BY SumType
<1>3. CASE total = 0
  <2>1. spread(total, tally, weights) = tally
    BY <1>3 DEF spread
  <2> QED
    BY <1>2, <1>3, <2>1
<1>4. CASE total # 0
  <2>1. spread(total, tally, weights) = sum
    BY <1>4 DEF spread
  <2> HIDE DEF share
  <2>2. Adds(sum, tally, share, K)
    BY <1>1 DEF Adds, Table, Plus
  <2> HIDE DEF sum
  <2>3. SumFunction(sum) = SumFunction(tally) + SumFunction(share)
    BY <2>2, SumPlus
  <2> QED
    BY <1>1, <2>1, <2>2, <2>3 DEF Adds, Table
<1> QED
  BY <1>3, <1>4

\* What the lines of a reversal claim is on lines of the order or on none of them.
LEMMA ClaimsAddUp ==
    ASSUME NEW K, IsFiniteSet(K), NEW reversal, IsFiniteSet(DOMAIN ReversalLines(reversal)),
           \A line \in ToSet(ReversalLines(reversal)) : line.amount \in Int
    PROVE  /\ ClaimedOf(reversal, K) \in [K -> Int]
           /\ ClaimedTotal(reversal) \in Int
           /\ SumOver(ReversalLines(reversal), LAMBDA l : IF l.item \in K THEN 0 ELSE l.amount) \in Int
           /\ SumFunction(ClaimedOf(reversal, K))
               + SumOver(ReversalLines(reversal), LAMBDA l : IF l.item \in K THEN 0 ELSE l.amount)
               = ClaimedTotal(reversal)
<1> DEFINE lines == ReversalLines(reversal)
           N == DOMAIN lines
           amount == [n \in N |-> lines[n].amount]
           item == [n \in N |-> lines[n].item]
           f == [i \in K |-> [n \in N |-> IF item[n] = i THEN amount[n] ELSE 0]]
           inside == [n \in N |-> IF item[n] \in K THEN amount[n] ELSE 0]
           outside == [n \in N |-> IF item[n] \in K THEN 0 ELSE amount[n]]
<1>1. amount \in [N -> Int]
  BY DEF ToSet
<1>2. ClaimedTotal(reversal) = SumFunction(amount)
  BY DEF ClaimedTotal, SumOver
<1>3. SumOver(lines, LAMBDA l : IF l.item \in K THEN 0 ELSE l.amount) = SumFunction(outside)
  <2>1. [n \in N |-> IF lines[n].item \in K THEN 0 ELSE lines[n].amount] = outside
    OBVIOUS
  <2> QED
    BY <2>1 DEF SumOver
<1>4. ClaimedOf(reversal, K) = [i \in K |-> SumFunction(f[i])]
  <2>1. \A i \in K : [n \in N |-> IF lines[n].item = i THEN lines[n].amount ELSE 0] = f[i]
    OBVIOUS
  <2>2. ClaimedOf(reversal, K) = [i \in K |-> SumFunction([n \in N |-> IF lines[n].item = i THEN lines[n].amount ELSE 0])]
    BY DEF ClaimedOf, SumOver
  <2> HIDE DEF f
  <2> QED
    BY <2>1, <2>2
<1>n. IsFiniteSet(N)
  OBVIOUS
<1> HIDE DEF lines, N, amount, item
<1>5. f \in [K -> [N -> Int]]
  BY <1>1
<1>6. inside \in [N -> Int] /\ outside \in [N -> Int]
  BY <1>1
<1>7. Adds(amount, inside, outside, N)
  BY <1>1, <1>6 DEF Adds, Table
<1>8. ASSUME NEW n \in N PROVE SumFunction([i \in K |-> f[i][n]]) = inside[n]
  <2>1. [i \in K |-> f[i][n]] = [i \in K |-> IF i = item[n] THEN amount[n] ELSE 0]
    OBVIOUS
  <2>a. PICK a \in Int : a = amount[n]
    BY <1>1
  <2>2. CASE item[n] \in K
    <3>1. SumFunction([i \in K |-> IF i = item[n] THEN a ELSE 0]) = a
      BY <2>2, SumOne
    <3> QED
      BY <2>1, <2>2, <2>a, <3>1
  <2>3. CASE item[n] \notin K
    <3>1. [i \in K |-> IF i = item[n] THEN amount[n] ELSE 0] = [i \in K |-> 0]
      BY <2>3
    <3> QED
      BY <2>1, <2>3, <3>1, SumZero
  <2> QED
    BY <2>2, <2>3
<1>9. \A i \in K : SumFunction(f[i]) \in Int
  <2>1. \A i \in K : f[i] \in [N -> Int]
    BY <1>5
  <2> HIDE DEF f
  <2> QED
    BY <1>n, <2>1, SumType
<1> HIDE DEF f, inside, outside
<1>10. SumFunction([i \in K |-> SumFunction(f[i])]) = SumFunction([n \in N |-> SumFunction([i \in K |-> f[i][n]])])
  BY <1>n, <1>5, SumSwap
<1>11. [n \in N |-> SumFunction([i \in K |-> f[i][n]])] = inside
  <2>1. inside = [n \in N |-> inside[n]]
    BY <1>6
  <2> QED
    BY <1>8, <2>1
<1>12. SumFunction(amount) = SumFunction(inside) + SumFunction(outside)
  BY <1>n, <1>7, SumPlus
<1>13. SumFunction(amount) \in Int /\ SumFunction(outside) \in Int
  BY <1>n, <1>1, <1>6, SumType
<1> QED
  BY <1>2, <1>3, <1>4, <1>9, <1>10, <1>11, <1>12, <1>13 DEF lines

\* The revenue a reversal takes back: its order-level parts, and the larger of its item revenue
\* and what its lines claim.
Booked(r) == OrderLevelRefund(r) + IF r.lines # Null /\ ClaimedTotal(r) > r.amount THEN ClaimedTotal(r) ELSE r.amount

\* Whether or not it has lines, and whether or not they add up or name lines of the order, what
\* the order's lines give back for a reversal is all of it.
LEMMA ReversalIsBooked ==
    ASSUME NEW K \in SUBSET Int, IsFiniteSet(K), K # {}, NEW weights \in [K -> Int], NEW r, HasAmounts(r),
           \A line \in ToSet(ReversalLines(r)) : line.amount \in Int
    PROVE  /\ ReversedRevenue(r, weights) \in [K -> Int]
           /\ SumFunction(ReversedRevenue(r, weights)) = Booked(r)
           /\ Booked(r) \in Int
<1> DEFINE claimed == ClaimedOf(r, K)
           others == SumOver(ReversalLines(r), LAMBDA l : IF l.item \in K THEN 0 ELSE l.amount)
           total == ClaimedTotal(r)
           level == OrderLevelRefund(r)
           loose == unmatched(r, K)
<1>1. r.amount \in Int /\ level \in Int /\ DOMAIN weights = K
  BY DEF HasAmounts, OrderLevelRefund
<1>2. IsFiniteSet(DOMAIN ReversalLines(r))
  <2>1. CASE r.lines = Null
    BY <2>1, FS_EmptySet DEF ReversalLines
  <2>2. CASE r.lines # Null
    BY <2>2, ListIs DEF ReversalLines, HasAmounts
  <2> QED
    BY <2>1, <2>2
<1>3. claimed \in [K -> Int] /\ total \in Int /\ others \in Int /\ SumFunction(claimed) + others = total
  BY <1>2, ClaimsAddUp
<1>s. SumFunction(claimed) \in Int
  BY <1>3, SumType
<1>4. loose = AtLeastZero(r.amount - total) + others
  BY DEF unmatched
<1>b. Booked(r) = level + IF r.lines # Null /\ total > r.amount THEN total ELSE r.amount
  BY DEF Booked
<1>5. CASE r.lines = Null
  <2>1. ReversedRevenue(r, weights) = spread(r.amount + level, claimed, weights)
    BY <1>1, <1>5 DEF ReversedRevenue
  <2>2. total = 0 /\ others = 0
    <3>1. DOMAIN ReversalLines(r) = {}
      BY <1>5 DEF ReversalLines
    <3>2. SumFunction([n \in DOMAIN ReversalLines(r) |-> 0]) = 0
      BY <1>2, SumZero
    <3>3. total = SumFunction([n \in DOMAIN ReversalLines(r) |-> ReversalLines(r)[n].amount])
      BY DEF ClaimedTotal, SumOver
    <3>4. others = SumFunction([n \in DOMAIN ReversalLines(r) |-> IF ReversalLines(r)[n].item \in K THEN 0 ELSE ReversalLines(r)[n].amount])
      BY DEF SumOver
    <3>5. [n \in DOMAIN ReversalLines(r) |-> ReversalLines(r)[n].amount] = [n \in DOMAIN ReversalLines(r) |-> 0]
      BY <3>1
    <3>6. [n \in DOMAIN ReversalLines(r) |-> IF ReversalLines(r)[n].item \in K THEN 0 ELSE ReversalLines(r)[n].amount]
          = [n \in DOMAIN ReversalLines(r) |-> 0]
      BY <3>1
    <3> HIDE DEF total, others
    <3> QED
      BY <3>2, <3>3, <3>4, <3>5, <3>6
  <2> HIDE DEF claimed, others, total, level
  <2>3. r.amount + level \in Int
    BY <1>1
  <2>4. /\ spread(r.amount + level, claimed, weights) \in [K -> Int]
        /\ SumFunction(spread(r.amount + level, claimed, weights)) = SumFunction(claimed) + (r.amount + level)
    BY <1>3, <2>3, SpreadAdds
  <2> QED
    BY <1>1, <1>3, <1>5, <1>b, <1>s, <2>1, <2>2, <2>4
<1>6. CASE r.lines # Null
  <2> DEFINE first == spread(loose, claimed, weights)
  <2>1. ReversedRevenue(r, weights) = spread(level, first, weights)
    BY <1>1, <1>6 DEF ReversedRevenue
  <2> HIDE DEF claimed, others, total, level, loose
  <2>2. loose \in Int
    BY <1>1, <1>3, <1>4 DEF AtLeastZero
  <2>3. first \in [K -> Int] /\ SumFunction(first) = SumFunction(claimed) + loose
    BY <1>3, <2>2, SpreadAdds
  <2> HIDE DEF first
  <2>4. /\ spread(level, first, weights) \in [K -> Int]
        /\ SumFunction(spread(level, first, weights)) = SumFunction(first) + level
    BY <1>1, <2>3, SpreadAdds
  <2>5. SumFunction(claimed) + loose = total + AtLeastZero(r.amount - total)
    BY <1>1, <1>3, <1>4, <1>s DEF AtLeastZero
  <2>6. total + AtLeastZero(r.amount - total) = IF total > r.amount THEN total ELSE r.amount
    BY <1>1, <1>3 DEF AtLeastZero
  <2> QED
    BY <1>1, <1>3, <1>6, <1>b, <2>1, <2>3, <2>4, <2>5, <2>6
<1> QED
  BY <1>5, <1>6

\* What every branch of computeReversalImpact has in common.
SumsItsLines(t, K) ==
    /\ DOMAIN t.lines = K
    /\ t.reversed = SumFunction([i \in K |-> t.lines[i].reversed])
    /\ t.restocked = SumFunction([i \in K |-> t.lines[i].restocked])
    /\ t.impact = SumFunction([i \in K |-> t.lines[i].impact])

LEMMA ImpactIs ==
    ASSUME NEW reversals, NEW items, NEW cogs, NEW recognition, NEW shipments, NEW dispatched
    PROVE  SumsItsLines(computeReversalImpact(reversals, items, cogs, recognition, shipments, dispatched), DOMAIN items)
<1> DEFINE t == computeReversalImpact(reversals, items, cogs, recognition, shipments, dispatched)
           whole == [i \in DOMAIN items |-> LineReversal(items[i].quantity, 0, cogs[i].cogs)]
           empty == [i \in DOMAIN items |-> LineReversal(0, 0, 0)]
           tallied == TalliedLines(reversals, items, cogs, recognition.kind = "recognized")
<1>1. \E L, a, b, d : t = ReversalImpact(L, a, b, d) /\ DOMAIN L = DOMAIN items
  <2>1. DOMAIN whole = DOMAIN items /\ DOMAIN empty = DOMAIN items /\ DOMAIN tallied = DOMAIN items
    BY DEF TalliedLines
  <2>2. \/ t = ReversalImpact(whole, FALSE, TRUE, {})
        \/ t = ReversalImpact(empty, FALSE, FALSE, onOrder("RESTOCK_UNKNOWN"))
        \/ t = ReversalImpact(empty, FALSE, FALSE, {})
        \/ t = TalliedImpact(reversals, items, cogs, recognition.kind = "recognized")
    BY Zenon DEF computeReversalImpact
  <2>3. \E a, b, d : TalliedImpact(reversals, items, cogs, recognition.kind = "recognized") = ReversalImpact(tallied, a, b, d)
    BY Zenon DEF TalliedImpact
  <2> HIDE DEF t, whole, empty, tallied
  <2>4. CASE t = ReversalImpact(whole, FALSE, TRUE, {})
    <3> WITNESS whole, FALSE, TRUE, {}
    <3> QED
      BY <2>1, <2>4
  <2>5. CASE t = ReversalImpact(empty, FALSE, FALSE, onOrder("RESTOCK_UNKNOWN"))
    <3> WITNESS empty, FALSE, FALSE, onOrder("RESTOCK_UNKNOWN")
    <3> QED
      BY <2>1, <2>5
  <2>6. CASE t = ReversalImpact(empty, FALSE, FALSE, {})
    <3> WITNESS empty, FALSE, FALSE, {}
    <3> QED
      BY <2>1, <2>6
  <2>7. CASE t = TalliedImpact(reversals, items, cogs, recognition.kind = "recognized")
    <3>1. PICK a, b, d : TalliedImpact(reversals, items, cogs, recognition.kind = "recognized") = ReversalImpact(tallied, a, b, d)
      BY <2>3, Zenon
    <3> WITNESS tallied, a, b, d
    <3> QED
      BY <2>1, <2>7, <3>1
  <2> QED
    BY <2>2, <2>4, <2>5, <2>6, <2>7
<1>2. PICK L, a, b, d : t = ReversalImpact(L, a, b, d) /\ DOMAIN L = DOMAIN items
  BY <1>1
<1> HIDE DEF t
<1>3. t.lines = L
  BY <1>2 DEF ReversalImpact
<1> QED
  BY <1>2, <1>3 DEF ReversalImpact, SumsItsLines, t

\* On an order that earns, every refund is booked in full.
LEMMA RefundsSum ==
    ASSUME NEW items, Buckets(LineTotals(items), DOMAIN items),
           NEW reversals, IsList(reversals), \A r \in ToSet(reversals) : HasAmounts(r),
           \A r \in ToSet(reversals) : \A line \in ToSet(ReversalLines(r)) : line.amount \in Int,
           NEW cogs, NEW recognition, NEW shipments, NEW dispatched, recognition.kind = "recognized"
    PROVE  computeReversalImpact(reversals, items, cogs, recognition, shipments, dispatched).reversed
           = SumFunction([n \in DOMAIN reversals |-> Booked(reversals[n])])
<1> DEFINE t == computeReversalImpact(reversals, items, cogs, recognition, shipments, dispatched)
           K == DOMAIN items
           N == DOMAIN reversals
           weights == LineTotals(items)
           money == [n \in N |-> ReversedRevenue(reversals[n], weights)]
           booked == [n \in N |-> Booked(reversals[n])]
           back == [i \in K |-> t.lines[i].reversed]
           f == [i \in K |-> [n \in N |-> money[n][i]]]
<1>b. K \in SUBSET Int /\ IsFiniteSet(K) /\ K # {} /\ weights \in [K -> Int]
  BY DEF Buckets
<1>1. t.reversed = SumFunction(back)
  <2>1. SumsItsLines(t, DOMAIN items)
    BY ImpactIs
  <2> HIDE DEF t
  <2> QED
    BY <2>1 DEF SumsItsLines
<1>2. IsFiniteSet(N) /\ \A n \in N : reversals[n] \in ToSet(reversals)
  BY ListIs
<1>3. CASE reversals = <<>>
  <2>1. t = ReversalImpact([i \in DOMAIN items |-> LineReversal(0, 0, 0)], FALSE, FALSE, {})
    BY <1>3 DEF computeReversalImpact
  <2>2. t.lines = [i \in K |-> LineReversal(0, 0, 0)]
    BY <2>1 DEF ReversalImpact
  <2>3. back = [i \in K |-> 0]
    BY <2>2 DEF LineReversal
  <2>4. N = {}
    BY <1>3
  <2>5. booked = [n \in N |-> 0]
    BY <2>4
  <2> HIDE DEF back, booked, t, N
  <2>6. SumFunction(back) = 0
    BY <1>b, <2>3, SumZero
  <2>7. SumFunction(booked) = 0
    BY <1>2, <2>5, SumZero
  <2> QED
    BY <1>1, <2>6, <2>7 DEF booked, N, t
<1>4. CASE reversals # <<>>
  <2>1. t = TalliedImpact(reversals, items, cogs, TRUE)
    BY <1>4 DEF computeReversalImpact
  <2>2. \A i \in K : t.lines[i].reversed = SumFunction([n \in N |-> money[n][i]])
    <3> DEFINE goods == GoodsBack(reversals, items, cogs)
               Line(i) == LineReversal(Smaller(goods.quantity[i], items[i].quantity),
                                       IF TRUE THEN SumFunction([n \in N |-> money[n][i]]) ELSE 0,
                                       CogsBack(goods.restocked[i], cogs[i].cogs))
    <3>1. t.lines = TalliedLines(reversals, items, cogs, TRUE)
      BY <2>1 DEF TalliedImpact, ReversalImpact
    <3>2. TalliedLines(reversals, items, cogs, TRUE) = [i \in K |-> Line(i)]
      BY DEF TalliedLines
    <3>3. \A q, x, g : LineReversal(q, x, g).reversed = x
      BY DEF LineReversal
    <3>4. \A i \in K : Line(i).reversed = SumFunction([n \in N |-> money[n][i]])
      <4> HIDE DEF money, goods, t
      <4> QED
        BY <3>3
    <3> HIDE DEF Line, t, money
    <3>5. \A i \in K : t.lines[i] = Line(i)
      BY <3>1, <3>2
    <3> QED
      BY <3>4, <3>5, Zenon
  <2>3. ASSUME NEW n \in N PROVE /\ money[n] \in [K -> Int] /\ SumFunction(money[n]) = booked[n]
    <3>1. reversals[n] \in ToSet(reversals)
      BY <1>2
    <3>2. HasAmounts(reversals[n]) /\ \A line \in ToSet(ReversalLines(reversals[n])) : line.amount \in Int
      BY <3>1
    <3>3. money[n] = ReversedRevenue(reversals[n], weights) /\ booked[n] = Booked(reversals[n])
      OBVIOUS
    <3> HIDE DEF money, booked, weights, f, back, t, K
    <3> QED
      BY <1>b, <3>2, <3>3, ReversalIsBooked
  <2>b. booked = [n \in N |-> booked[n]]
    OBVIOUS
  <2> HIDE DEF money, booked, weights, t, N, K
  <2>4. Grid(f, K, N)
    BY <1>2, <1>b, <2>3 DEF Grid
  <2>5. RowSums(back, f, K)
    BY <2>2 DEF RowSums
  <2>6. ASSUME NEW n \in N PROVE [i \in K |-> f[i][n]] = money[n]
    BY <2>3
  <2>7. ColumnSums(booked, f, K, N)
    <3> HIDE DEF f
    <3> QED
      BY <2>3, <2>6, <2>b DEF ColumnSums
  <2> HIDE DEF f, back
  <2>8. SumFunction(back) = SumFunction(booked)
    BY <2>4, <2>5, <2>7, SumExchanged
  <2> QED
    BY <1>1, <2>8 DEF booked, t, N
<1> QED
  BY <1>3, <1>4

-----------------------------------------------------------------------------
(* Revenue, and the lines.                                                   *)

LEMMA UnreflectedIsInt ==
    ASSUME NEW order, IsFiniteSet(DOMAIN order.discounts),
           \A d \in ToSet(order.discounts) : d.amount \in Int, NEW target
    PROVE  unreflected(order, target) \in Int
<1> DEFINE f == [n \in DOMAIN order.discounts |->
                    IF order.discounts[n].target = target /\ ~order.discounts[n].reflected
                    THEN order.discounts[n].amount ELSE 0]
<1>1. unreflected(order, target) = SumFunction(f)
  BY DEF unreflected, SumOver
<1>2. f \in [DOMAIN order.discounts -> Int]
  BY DEF ToSet
<1> HIDE DEF f
<1> QED
  BY <1>1, <1>2, SumType

\* The lines' net revenue, with the shipping and the fee the order charged, is its revenue.
NetOf(lines) == [i \in DOMAIN lines |-> lines[i].net]
RevenueTies(revenue, K) ==
    /\ DOMAIN revenue.lines = K /\ NetOf(revenue.lines) \in [K -> Int]
    /\ revenue.shipping - revenue.shippingDiscount \in Int /\ revenue.codFee - revenue.codFeeDiscount \in Int
    /\ revenue.revenue = SumFunction(NetOf(revenue.lines))
                         + (revenue.shipping - revenue.shippingDiscount) + (revenue.codFee - revenue.codFeeDiscount)

LEMMA RevenueIs ==
    ASSUME NEW order, NEW items, NEW recognition, Buckets(LineTotals(items), DOMAIN items), order.shipping \in Int, order.codFee \in Int,
           IsFiniteSet(DOMAIN order.discounts), \A d \in ToSet(order.discounts) : d.amount \in Int
    PROVE  RevenueTies(computeRevenue(order, items, recognition), DOMAIN items)
<1> DEFINE K == DOMAIN items
           weights == LineTotals(items)
           d1 == unreflected(order, "items")
           d2 == unreflected(order, "shipping")
           d3 == unreflected(order, "cod_fee")
           share == allocateMinor(d1, weights)
           rev == computeRevenue(order, items, recognition)
           net == NetOf(rev.lines)
<1>b. Buckets(weights, K) /\ K \in SUBSET Int /\ IsFiniteSet(K) /\ K # {} /\ weights \in [K -> Int]
  BY DEF Buckets
<1>1. d1 \in Int /\ d2 \in Int /\ d3 \in Int
  BY UnreflectedIsInt
<1>2. CASE recognition.kind # "recognized"
  <2>1. /\ rev.lines = [i \in K |-> [discount |-> 0, net |-> 0]]
        /\ rev.shipping = 0 /\ rev.shippingDiscount = 0 /\ rev.codFee = 0 /\ rev.codFeeDiscount = 0 /\ rev.revenue = 0
    BY <1>2 DEF computeRevenue
  <2> HIDE DEF rev
  <2>2. DOMAIN rev.lines = K /\ NetOf(rev.lines) = [i \in K |-> 0]
    BY <2>1 DEF NetOf
  <2>3. SumFunction(NetOf(rev.lines)) = 0
    BY <1>b, <2>2, SumZero
  <2> QED
    BY <2>1, <2>2, <2>3 DEF RevenueTies, rev
<1>3. CASE recognition.kind = "recognized"
  <2>1. /\ rev.lines = computeLineRevenue(items, d1)
        /\ rev.shipping = order.shipping /\ rev.shippingDiscount = d2
        /\ rev.codFee = order.codFee /\ rev.codFeeDiscount = d3
        /\ rev.revenue = SumFunction(weights) + order.shipping + order.codFee - (d1 + d2 + d3)
    BY <1>3 DEF computeRevenue
  <2>2. share \in [K -> Int] /\ SumFunction(share) = d1
    <3> HIDE DEF d1, weights, K
    <3>1. Shares(share, d1, K)
      BY <1>b, <1>1, Allocated
    <3> QED
      BY <3>1 DEF Shares
  <2>3. computeLineRevenue(items, d1) = [i \in K |-> [discount |-> share[i], net |-> items[i].lineTotal - share[i]]]
    BY DEF computeLineRevenue
  <2>4. \A i \in K : weights[i] = items[i].lineTotal
    BY DEF LineTotals
  <2>5. SumFunction(weights) \in Int
    BY <1>b, SumType
  <2> HIDE DEF rev, share, d1, d2, d3
  <2>6. DOMAIN rev.lines = K /\ net = [i \in K |-> weights[i] - share[i]]
    BY <2>1, <2>3, <2>4 DEF NetOf
  <2>7. Adds(weights, net, share, K)
    <3> HIDE DEF weights, net, K
    <3> QED
      BY <1>b, <2>2, <2>6 DEF Adds, Table
  <2>8. SumFunction(weights) = SumFunction(net) + SumFunction(share)
    <3> HIDE DEF weights, net, K
    <3> QED
      BY <1>b, <2>7, SumPlus
  <2>9. net \in [K -> Int] /\ SumFunction(net) \in Int
    <3>1. net \in [K -> Int]
      BY <2>7 DEF Adds, Table
    <3> HIDE DEF net
    <3> QED
      BY <1>b, <3>1, SumType
  <2> HIDE DEF weights, net, K
  <2>10. rev.revenue = SumFunction(net) + (order.shipping - d2) + (order.codFee - d3)
    BY <1>1, <2>1, <2>2, <2>5, <2>8, <2>9
  <2> QED
    BY <1>1, <2>1, <2>6, <2>9, <2>10 DEF RevenueTies, rev, net, K
<1> QED
  BY <1>2, <1>3

\* Nine columns and the margin made of them.
MadeOf(m, a, b, c, d, e, g, h, p, q, K) ==
    /\ Table(m, K) /\ Table(a, K) /\ Table(b, K) /\ Table(c, K) /\ Table(d, K)
    /\ Table(e, K) /\ Table(g, K) /\ Table(h, K) /\ Table(p, K) /\ Table(q, K)
    /\ \A i \in K : m[i] = a[i] + b[i] + c[i] + d[i] - (e[i] + g[i] + h[i] + p[i] + q[i])

LEMMA MarginAddsUp ==
    ASSUME NEW K, IsFiniteSet(K), NEW m, NEW a, NEW b, NEW c, NEW d, NEW e, NEW g, NEW h, NEW p, NEW q,
           MadeOf(m, a, b, c, d, e, g, h, p, q, K)
    PROVE  SumFunction(m) = SumFunction(a) + SumFunction(b) + SumFunction(c) + SumFunction(d)
               - (SumFunction(e) + SumFunction(g) + SumFunction(h) + SumFunction(p) + SumFunction(q))
<1>0. /\ m \in [K -> Int] /\ a \in [K -> Int] /\ b \in [K -> Int] /\ c \in [K -> Int] /\ d \in [K -> Int]
      /\ e \in [K -> Int] /\ g \in [K -> Int] /\ h \in [K -> Int] /\ p \in [K -> Int] /\ q \in [K -> Int]
  BY DEF MadeOf, Table
<1> DEFINE ab == [i \in K |-> a[i] + b[i]]
           abc == [i \in K |-> ab[i] + c[i]]
           abcd == [i \in K |-> abc[i] + d[i]]
           eg == [i \in K |-> e[i] + g[i]]
           egh == [i \in K |-> eg[i] + h[i]]
           eghp == [i \in K |-> egh[i] + p[i]]
           eghpq == [i \in K |-> eghp[i] + q[i]]
<1>1. Adds(ab, a, b, K) /\ Adds(abc, ab, c, K) /\ Adds(abcd, abc, d, K)
  BY <1>0 DEF Adds, Table
<1>2. Adds(eg, e, g, K) /\ Adds(egh, eg, h, K) /\ Adds(eghp, egh, p, K) /\ Adds(eghpq, eghp, q, K)
  BY <1>0 DEF Adds, Table
<1>3. Adds(abcd, m, eghpq, K)
  <2>1. ASSUME NEW i \in K PROVE abcd[i] = m[i] + eghpq[i]
    <3>1. abcd[i] = a[i] + b[i] + c[i] + d[i] /\ eghpq[i] = e[i] + g[i] + h[i] + p[i] + q[i]
      OBVIOUS
    <3>2. m[i] = a[i] + b[i] + c[i] + d[i] - (e[i] + g[i] + h[i] + p[i] + q[i])
      BY DEF MadeOf
    <3>3. /\ a[i] \in Int /\ b[i] \in Int /\ c[i] \in Int /\ d[i] \in Int /\ e[i] \in Int /\ g[i] \in Int
          /\ h[i] \in Int /\ p[i] \in Int /\ q[i] \in Int
      BY <1>0
    <3> HIDE DEF abcd, eghpq
    <3> QED
      BY <3>1, <3>2, <3>3
  <2> HIDE DEF abcd, eghpq
  <2> QED
    BY <1>0, <1>1, <1>2, <2>1 DEF Adds, Table
<1> HIDE DEF ab, abc, abcd, eg, egh, eghp, eghpq
<1>4. /\ SumFunction(ab) = SumFunction(a) + SumFunction(b)
      /\ SumFunction(abc) = SumFunction(ab) + SumFunction(c)
      /\ SumFunction(abcd) = SumFunction(abc) + SumFunction(d)
  BY <1>1, SumPlus
<1>5. /\ SumFunction(eg) = SumFunction(e) + SumFunction(g)
      /\ SumFunction(egh) = SumFunction(eg) + SumFunction(h)
      /\ SumFunction(eghp) = SumFunction(egh) + SumFunction(p)
      /\ SumFunction(eghpq) = SumFunction(eghp) + SumFunction(q)
  BY <1>2, SumPlus
<1>6. SumFunction(abcd) = SumFunction(m) + SumFunction(eghpq)
  BY <1>3, SumPlus
<1>7. /\ SumFunction(m) \in Int /\ SumFunction(a) \in Int /\ SumFunction(b) \in Int /\ SumFunction(c) \in Int
      /\ SumFunction(d) \in Int /\ SumFunction(e) \in Int /\ SumFunction(g) \in Int /\ SumFunction(h) \in Int
      /\ SumFunction(p) \in Int /\ SumFunction(q) \in Int
  BY <1>0, SumType
<1> QED
  BY <1>4, <1>5, <1>6, <1>7

Column(lines, field) == [i \in DOMAIN lines |-> lines[i][field]]

LineAmounts(cogs, reversal, K) ==
    \A i \in K : cogs[i].cogs \in Int /\ reversal[i].reversed \in Int /\ reversal[i].impact \in Int

\* Every term is on the lines in full, and so is the margin.
TermsTie(L, K, revenue, cogs, reversal, outbound, returned, gateway, cod) ==
    /\ DOMAIN L = K
    /\ Column(L, "cogs") = [i \in K |-> cogs[i].cogs]
    /\ Column(L, "reversed") = [i \in K |-> reversal[i].reversed]
    /\ Column(L, "restocked") = [i \in K |-> reversal[i].restocked]
    /\ Column(L, "impact") = [i \in K |-> reversal[i].impact]
    /\ SumFunction(Column(L, "outbound")) = outbound.cost
    /\ SumFunction(Column(L, "returned")) = returned.cost
    /\ SumFunction(Column(L, "gateway")) = gateway.cost
    /\ SumFunction(Column(L, "cod")) = cod.cost
    /\ SumFunction(Column(L, "net")) + SumFunction(Column(L, "shipping"))
        + SumFunction(Column(L, "codFee")) = revenue.revenue
    /\ SumFunction(Column(L, "margin")) =
           revenue.revenue + SumFunction(Column(L, "impact"))
           - (SumFunction(Column(L, "cogs")) + outbound.cost + returned.cost + gateway.cost + cod.cost)

LEMMA LinesTie ==
    ASSUME NEW items, Buckets(LineTotals(items), DOMAIN items),
           NEW revenue, RevenueTies(revenue, DOMAIN items), NEW cogs, NEW reversal,
           NEW outbound, ParcelsTie(outbound), outbound.cost \in Int,
           NEW returned, ParcelsTie(returned), returned.cost \in Int,
           NEW gateway, gateway.cost \in Int, NEW cod, cod.cost \in Int,
           LineAmounts(cogs, reversal, DOMAIN items)
    PROVE  TermsTie(allocateOrderCostsToLines(items, revenue, cogs, reversal, outbound, returned, gateway, cod),
                    DOMAIN items, revenue, cogs, reversal, outbound, returned, gateway, cod)
<1> DEFINE K == DOMAIN items
           weights == LineTotals(items)
           x1 == revenue.shipping - revenue.shippingDiscount
           x2 == revenue.codFee - revenue.codFeeDiscount
           y1 == gateway.cost
           y2 == cod.cost
           reversed == [i \in K |-> reversal[i].reversed]
           impact == [i \in K |-> reversal[i].impact]
           cost == [i \in K |-> cogs[i].cogs]
           net == NetOf(revenue.lines)
           shipping == allocateMinor(x1, weights)
           codFee == allocateMinor(x2, weights)
           out == spreadParcels(outbound.parcels, outbound.cost, weights)
           back == IF \E i \in K : reversed[i] > 0 THEN allocateMinor(returned.cost, reversed)
                   ELSE spreadParcels(returned.parcels, returned.cost, weights)
           fee == allocateMinor(y1, weights)
           codCost == allocateMinor(y2, weights)
           L == allocateOrderCostsToLines(items, revenue, cogs, reversal, outbound, returned, gateway, cod)
           line(i) == [ net |-> revenue.lines[i].net, shipping |-> shipping[i], codFee |-> codFee[i], cogs |-> cogs[i].cogs,
              outbound |-> out[i], returned |-> back[i], gateway |-> fee[i], cod |-> codCost[i],
              reversedQuantity |-> reversal[i].quantity, reversed |-> reversed[i],
              restocked |-> reversal[i].restocked, impact |-> reversal[i].impact,
              margin |-> revenue.lines[i].net + shipping[i] + codFee[i] + reversal[i].impact
                         - (cogs[i].cogs + out[i] + back[i] + fee[i] + codCost[i]),
              covered |-> IF cogs[i].covered THEN revenue.lines[i].net ELSE 0 ]
<1>b. Buckets(weights, K)
  OBVIOUS
<1>k. IsFiniteSet(K)
  BY DEF Buckets
<1>l. L = [i \in K |-> line(i)]
  BY Zenon DEF allocateOrderCostsToLines
<1>x. /\ x1 \in Int /\ x2 \in Int /\ net \in [K -> Int] /\ DOMAIN revenue.lines = K
      /\ revenue.revenue = SumFunction(net) + x1 + x2
  BY DEF RevenueTies
<1>c. /\ cost \in [K -> Int] /\ reversed \in [K -> Int] /\ impact \in [K -> Int]
  BY DEF LineAmounts
<1>r. Buckets(reversed, K)
  BY <1>b, <1>c DEF Buckets
<1>y. y1 \in Int /\ y2 \in Int
  OBVIOUS
<1> HIDE DEF K, weights, x1, x2, y1, y2, reversed, impact, cost, net
<1>1. Shares(shipping, x1, K)
  BY <1>b, <1>x, Allocated
<1>2. Shares(codFee, x2, K)
  BY <1>b, <1>x, Allocated
<1>3. Shares(fee, y1, K)
  BY <1>b, <1>y, Allocated
<1>4. Shares(codCost, y2, K)
  BY <1>b, <1>y, Allocated
<1>5. Shares(out, outbound.cost, K)
  BY <1>b, ParcelsShared
<1>6. Shares(back, returned.cost, K)
  <2>1. CASE \E i \in K : reversed[i] > 0
    <3>1. back = allocateMinor(returned.cost, reversed)
      BY <2>1
    <3> HIDE DEF back
    <3> QED
      BY <1>r, <3>1, Allocated
  <2>2. CASE ~ \E i \in K : reversed[i] > 0
    <3>1. back = spreadParcels(returned.parcels, returned.cost, weights)
      BY <2>2
    <3> HIDE DEF back
    <3> QED
      BY <1>b, <3>1, ParcelsShared
  <2> QED
    BY <2>1, <2>2
<1> HIDE DEF shipping, codFee, fee, codCost, out, back, L
<1>7. DOMAIN L = K
  BY <1>l
<1>8. ASSUME NEW i \in K
      PROVE  /\ L[i].net = net[i] /\ L[i].shipping = shipping[i] /\ L[i].codFee = codFee[i] /\ L[i].cogs = cost[i]
             /\ L[i].outbound = out[i] /\ L[i].returned = back[i] /\ L[i].gateway = fee[i] /\ L[i].cod = codCost[i]
             /\ L[i].reversed = reversed[i] /\ L[i].restocked = reversal[i].restocked /\ L[i].impact = impact[i]
             /\ L[i].margin = net[i] + shipping[i] + codFee[i] + impact[i]
                              - (cost[i] + out[i] + back[i] + fee[i] + codCost[i])
  <2>1. L[i] = line(i)
    BY <1>l
  <2>2. net[i] = revenue.lines[i].net /\ cost[i] = cogs[i].cogs /\ impact[i] = reversal[i].impact
    BY <1>x DEF net, NetOf, cost, impact
  <2> QED
    BY <2>1, <2>2
<1>9. /\ Column(L, "net") = net /\ Column(L, "shipping") = shipping /\ Column(L, "codFee") = codFee
      /\ Column(L, "cogs") = cost /\ Column(L, "outbound") = out /\ Column(L, "returned") = back
      /\ Column(L, "gateway") = fee /\ Column(L, "cod") = codCost /\ Column(L, "reversed") = reversed
      /\ Column(L, "impact") = impact /\ Column(L, "restocked") = [i \in K |-> reversal[i].restocked]
  BY <1>x, <1>c, <1>1, <1>2, <1>3, <1>4, <1>5, <1>6, <1>7, <1>8 DEF Column, Shares
<1> DEFINE m == Column(L, "margin")
<1>10. m \in [K -> Int] /\ MadeOf(m, net, shipping, codFee, impact, cost, out, back, fee, codCost, K)
  <2>1. DOMAIN m = K /\ m = [i \in K |-> m[i]] /\ \A i \in K : m[i] = L[i].margin
    BY <1>7 DEF Column
  <2> HIDE DEF m
  <2>2. ASSUME NEW i \in K
        PROVE  /\ m[i] = net[i] + shipping[i] + codFee[i] + impact[i] - (cost[i] + out[i] + back[i] + fee[i] + codCost[i])
               /\ m[i] \in Int
    <3>1. /\ net[i] \in Int /\ shipping[i] \in Int /\ codFee[i] \in Int /\ impact[i] \in Int /\ cost[i] \in Int
          /\ out[i] \in Int /\ back[i] \in Int /\ fee[i] \in Int /\ codCost[i] \in Int
      BY <1>x, <1>c, <1>1, <1>2, <1>3, <1>4, <1>5, <1>6 DEF Shares
    <3> QED
      BY <1>8, <2>1, <3>1
  <2>3. m \in [K -> Int]
    BY <2>1, <2>2
  <2> QED
    BY <1>x, <1>c, <1>1, <1>2, <1>3, <1>4, <1>5, <1>6, <2>2, <2>3 DEF MadeOf, Table, Shares
<1> HIDE DEF m
<1>11. SumFunction(m) = SumFunction(net) + SumFunction(shipping) + SumFunction(codFee) + SumFunction(impact)
           - (SumFunction(cost) + SumFunction(out) + SumFunction(back) + SumFunction(fee) + SumFunction(codCost))
  BY <1>k, <1>10, MarginAddsUp
<1>12. SumFunction(net) \in Int
  BY <1>k, <1>x, SumType
<1>13. SumFunction(net) + SumFunction(shipping) + SumFunction(codFee) = revenue.revenue
  BY <1>x, <1>1, <1>2, <1>12 DEF Shares
<1>14. SumFunction(m) = revenue.revenue + SumFunction(impact)
           - (SumFunction(cost) + outbound.cost + returned.cost + gateway.cost + cod.cost)
  BY <1>3, <1>4, <1>5, <1>6, <1>11, <1>13 DEF y1, y2, Shares
<1> QED
  BY <1>3, <1>4, <1>5, <1>6, <1>7, <1>9, <1>13, <1>14 DEF L, m, K, cost, reversed, impact, y1, y2, Shares, TermsTie

-----------------------------------------------------------------------------
(* The engine.                                                               *)

\* What every input has, whatever else is wrong with it.
WellFormed(in) ==
    /\ IsList(in.items) /\ \A item \in ToSet(in.items) : HasId(item)
    /\ IsList(in.shipments)
    /\ IsList(in.reversals) /\ \A r \in ToSet(in.reversals) : HasAmounts(r)
    /\ in.order = Null \/ (IsList(in.order.discounts) /\ \A d \in ToSet(in.order.discounts) : d.amount \in Int)
    /\ IsList(in.rules.shipping)

\* The lines of a result add up to its totals, and its totals to what the reversals gave back.
TiesToTotals(lines, totals) ==
    /\ \A field \in {"margin", "cogs", "outbound", "returned", "gateway", "cod", "reversed", "restocked"} :
           SumFunction(Column(lines, field)) = totals[field]
    /\ SumFunction(Column(lines, "net")) + SumFunction(Column(lines, "shipping"))
        + SumFunction(Column(lines, "codFee")) = totals.revenue

BooksAll(reversals, totals) == totals.reversed = SumFunction([n \in DOMAIN reversals |-> Booked(reversals[n])])

\* The lines carry the very amounts the terms have for them.
LEMMA LineCarries ==
    ASSUME NEW items, NEW revenue, NEW cogs, NEW reversal, NEW outbound, NEW returned, NEW gateway, NEW cod
    PROVE  LET L == allocateOrderCostsToLines(items, revenue, cogs, reversal, outbound, returned, gateway, cod)
           IN  /\ DOMAIN L = DOMAIN items
               /\ \A i \in DOMAIN items : {cogs[i].cogs, reversal[i].reversed, reversal[i].impact} \subseteq Range(L[i])
<1> DEFINE L == allocateOrderCostsToLines(items, revenue, cogs, reversal, outbound, returned, gateway, cod)
<1>1. DOMAIN L = DOMAIN items
  BY Zenon DEF allocateOrderCostsToLines
<1>2. ASSUME NEW i \in DOMAIN items
      PROVE  {cogs[i].cogs, reversal[i].reversed, reversal[i].impact} \subseteq Range(L[i])
  <2> DEFINE weights == LineTotals(items)
             reversed == [n \in DOMAIN items |-> reversal[n].reversed]
             shipping == allocateMinor(revenue.shipping - revenue.shippingDiscount, weights)
             codFee == allocateMinor(revenue.codFee - revenue.codFeeDiscount, weights)
             out == spreadParcels(outbound.parcels, outbound.cost, weights)
             back == IF \E n \in DOMAIN items : reversed[n] > 0 THEN allocateMinor(returned.cost, reversed)
                     ELSE spreadParcels(returned.parcels, returned.cost, weights)
             fee == allocateMinor(gateway.cost, weights)
             codCost == allocateMinor(cod.cost, weights)
             line(n) == [ net |-> revenue.lines[n].net, shipping |-> shipping[n], codFee |-> codFee[n], cogs |-> cogs[n].cogs,
                outbound |-> out[n], returned |-> back[n], gateway |-> fee[n], cod |-> codCost[n],
                reversedQuantity |-> reversal[n].quantity, reversed |-> reversed[n],
                restocked |-> reversal[n].restocked, impact |-> reversal[n].impact,
                margin |-> revenue.lines[n].net + shipping[n] + codFee[n] + reversal[n].impact
                           - (cogs[n].cogs + out[n] + back[n] + fee[n] + codCost[n]),
                covered |-> IF cogs[n].covered THEN revenue.lines[n].net ELSE 0 ]
  <2>0. L = [n \in DOMAIN items |-> line(n)]
    BY Zenon DEF allocateOrderCostsToLines
  <2>1. reversed[i] = reversal[i].reversed
    OBVIOUS
  <2> HIDE DEF L, shipping, codFee, out, back, fee, codCost, reversed
  <2>2. L[i] = line(i)
    BY <2>0
  <2>3. /\ "cogs" \in DOMAIN L[i] /\ "reversed" \in DOMAIN L[i] /\ "impact" \in DOMAIN L[i]
        /\ L[i]["cogs"] = cogs[i].cogs /\ L[i]["reversed"] = reversal[i].reversed /\ L[i]["impact"] = reversal[i].impact
    BY <2>1, <2>2
  <2> QED
    BY <2>3 DEF Range
<1> QED
  BY <1>1, <1>2

\* The terms of a computed order, on an order with lines.
LEMMA ComputedTerms ==
    ASSUME NEW in, computeOrderProfit(in).status = "computed"
    PROVE  LET res   == computeOrderProfit(in)
               items == ById(in.items)
               t     == termsOf(in, items, ById(in.shipments), computeRecognition(in.order, ById(in.shipments)),
                                computeCogs(items, in.costs))
           IN  /\ normalizeAndValidate(in) = {}
               /\ res.lines = linesOf(t, items) /\ res.totals = totalsOf(t, linesOf(t, items))
               /\ res.recognition = t.recognition /\ res.diagnostics = diagnosticsOf(t)
               /\ res.confidence = deriveConfidence(basesOf(t, items, in.reversals), {d[1] : d \in diagnosticsOf(t)})
               /\ ~Overflows(in, t, totalsOf(t, linesOf(t, items)), linesOf(t, items))
<1> DEFINE res   == computeOrderProfit(in)
           items == ById(in.items)
           t     == termsOf(in, items, ById(in.shipments), computeRecognition(in.order, ById(in.shipments)),
                            computeCogs(items, in.costs))
           L     == linesOf(t, items)
           T     == totalsOf(t, L)
<1>0. \A d : Rejected(d).status # "computed"
  BY DEF Rejected
<1>1. normalizeAndValidate(in) = {} /\ res = compute(in)
  <2>1. CASE normalizeAndValidate(in) # {}
    <3>1. res = Rejected(normalizeAndValidate(in))
      BY <2>1 DEF computeOrderProfit
    <3> HIDE DEF res
    <3> QED
      BY <1>0, <3>1 DEF res
  <2>2. CASE normalizeAndValidate(in) = {} /\ in.store.timezone \notin DOMAIN ZoneOffset
    <3>1. res = Rejected(onOrder("INVALID_TIMEZONE"))
      BY <2>2 DEF computeOrderProfit
    <3> HIDE DEF res
    <3> QED
      BY <1>0, <3>1 DEF res
  <2>3. CASE normalizeAndValidate(in) = {} /\ in.store.timezone \in DOMAIN ZoneOffset
    BY <2>3 DEF computeOrderProfit
  <2> QED
    BY <2>1, <2>2, <2>3
<1>2. compute(in) = resultOf(in, items, t, T, L, diagnosticsOf(t))
  BY Zenon DEF compute, computeInOrder, pushedDown, summedUp
<1>3. res = resultOf(in, items, t, T, L, diagnosticsOf(t)) /\ res.status = "computed"
  BY <1>1, <1>2
<1> HIDE DEF res, t, L, T, items
<1>4. ~Overflows(in, t, T, L)
  BY <1>0, <1>3 DEF resultOf
<1>5. /\ res.lines = L /\ res.totals = T /\ res.recognition = t.recognition /\ res.diagnostics = diagnosticsOf(t)
      /\ res.confidence = deriveConfidence(basesOf(t, items, in.reversals), {d[1] : d \in diagnosticsOf(t)})
  BY <1>3, <1>4 DEF resultOf
<1> QED
  BY <1>1, <1>4, <1>5 DEF res, t, L, T, items

\* The ids of a valid input's items, weighed by their line totals, can take an allocation.
LEMMA ItemsAreBuckets ==
    ASSUME NEW in, WellFormed(in), normalizeAndValidate(in) = {}, DOMAIN ById(in.items) # {}
    PROVE  Buckets(LineTotals(ById(in.items)), DOMAIN ById(in.items))
<1> DEFINE items == ById(in.items)
<1>1. IsFiniteSet(DOMAIN items) /\ \A i \in DOMAIN items : items[i] \in ToSet(in.items) /\ items[i].id = i
  BY ByIdIs DEF WellFormed
<1>2. \A item \in ToSet(in.items) : item.id \in Int /\ item.lineTotal \in Int
  BY ValidInput DEF WellFormed, HasId
<1>3. DOMAIN items # {}
  OBVIOUS
<1> HIDE DEF items
<1>4. DOMAIN items \in SUBSET Int
  BY <1>1, <1>2
<1>5. LineTotals(items) \in [DOMAIN items -> Int]
  BY <1>1, <1>2 DEF LineTotals
<1> QED
  BY <1>1, <1>3, <1>4, <1>5 DEF Buckets, items

\* Whatever passes the overflow guard is a whole number.
LEMMA GuardedAreInts ==
    ASSUME NEW in, NEW t, NEW totals, NEW lines, ~Overflows(in, t, totals, lines)
    PROVE  /\ \A f \in DOMAIN totals : totals[f] \in Int
           /\ \A i \in DOMAIN lines : \A m \in Range(lines[i]) : m \in Int
           /\ t.gateway.cost \in Int /\ t.cod.cost \in Int
<1> DEFINE S == Range(totals) \union (UNION {Range(lines[i]) : i \in DOMAIN lines})
                \union {t.revenue.expectedTotal, CapturedTotal(in.order), t.gateway.cost, t.cod.cost, t.cogs.cogs}
<1>1. ASSUME NEW m \in S PROVE m \in Int
  <2>1. validMinor(m)
    BY Zenon DEF Overflows
  <2> QED
    BY <2>1, MinorIsInt
<1>2. t.gateway.cost \in S /\ t.cod.cost \in S
  BY Zenon
<1>3. ASSUME NEW f \in DOMAIN totals PROVE totals[f] \in S
  BY DEF Range
<1>4. ASSUME NEW i \in DOMAIN lines, NEW m \in Range(lines[i]) PROVE m \in S
  <2>1. m \in UNION {Range(lines[j]) : j \in DOMAIN lines}
    BY Zenon
  <2> QED
    BY <2>1
<1> HIDE DEF S
<1> QED
  BY <1>1, <1>2, <1>3, <1>4

\* The totals of an order that is not left out.
LEMMA TotalsAre ==
    ASSUME NEW t, ~Excluded(t), NEW lines
    PROVE  LET T == totalsOf(t, lines)
           IN  /\ {"outbound", "returned", "cogs", "gateway", "cod", "impact", "reversed", "restocked"} \subseteq DOMAIN T
               /\ T.cogs = t.cogs.cogs /\ T.outbound = t.outbound.cost /\ T.returned = t.returned.cost
               /\ T.gateway = t.gateway.cost /\ T.cod = t.cod.cost /\ T.revenue = t.revenue.revenue
               /\ T.reversed = t.reversal.reversed /\ T.restocked = t.reversal.restocked
               /\ T.impact = t.reversal.impact
               /\ T.margin = t.revenue.revenue + t.reversal.impact
                             - (t.cogs.cogs + t.outbound.cost + t.returned.cost + t.gateway.cost + t.cod.cost)
  BY DEF totalsOf

(***************************************************************************)
(* Whatever an order went through, when the engine computes it nothing is  *)
(* lost or made up between the order and its lines, and every halala its   *)
(* refunds gave back is booked.                                            *)
(***************************************************************************)
THEOREM EngineBooksEverything ==
    ASSUME NEW in, WellFormed(in), computeOrderProfit(in).status = "computed"
    PROVE  LET res == computeOrderProfit(in)
           IN  /\ res.lines # <<>> => TiesToTotals(res.lines, res.totals)
               /\ res.recognition.kind = "recognized" /\ DOMAIN res.lines # {} => BooksAll(in.reversals, res.totals)
<1> DEFINE res       == computeOrderProfit(in)
           items     == ById(in.items)
           shipments == ById(in.shipments)
           recog     == computeRecognition(in.order, shipments)
           cogs      == computeCogs(items, in.costs)
           t         == termsOf(in, items, shipments, recog, cogs)
           K         == DOMAIN items
           L         == linesOf(t, items)
           T         == totalsOf(t, L)
<1>1. /\ normalizeAndValidate(in) = {} /\ res.lines = L /\ res.totals = T
      /\ res.recognition = t.recognition /\ ~Overflows(in, t, T, L)
  BY ComputedTerms
<1>2. /\ t.revenue = computeRevenue(in.order, items, recog) /\ t.cogs = cogs /\ t.recognition = recog
      /\ t.outbound = computeShippingCost(in.order, shipments, in.rules.shipping, "outbound")
      /\ t.returned = computeShippingCost(in.order, shipments, in.rules.shipping, "return")
      /\ t.reversal = computeReversalImpact(in.reversals, items, cogs.lines, recog, shipments,
                                            in.order.fulfillmentState \in DISPATCHED)
  BY DEF termsOf
<1>3. cogs.cogs = SumFunction([i \in K |-> cogs.lines[i].cogs])
  BY DEF computeCogs
<1>4. L # <<>> => ~Excluded(t) /\ K # {}
  BY DEF linesOf
<1> HIDE DEF res, items, shipments, recog, cogs, t, K, L, T
<1>5. SUFFICES ASSUME L # <<>>
               PROVE  TiesToTotals(L, T) /\ (recog.kind = "recognized" => BooksAll(in.reversals, T))
  <2>1. DOMAIN L # {} => L # <<>>
    OBVIOUS
  <2> QED
    BY <1>1, <1>2, <1>5, <2>1 DEF res
<1>6. ~Excluded(t) /\ K # {}
  BY <1>4, <1>5
<1>7. L = allocateOrderCostsToLines(items, t.revenue, t.cogs.lines, t.reversal.lines, t.outbound, t.returned,
                                    t.gateway, t.cod)
  BY <1>6 DEF linesOf, L, K
<1>8. Buckets(LineTotals(items), K)
  BY <1>1, <1>6, ItemsAreBuckets DEF items, K
<1>9. in.order # Null /\ in.order.shipping \in Int /\ in.order.codFee \in Int
  BY <1>1, ValidInput
<1>10. IsFiniteSet(DOMAIN in.order.discounts) /\ \A d \in ToSet(in.order.discounts) : d.amount \in Int
  BY <1>9, ListIs DEF WellFormed
<1>11. RevenueTies(t.revenue, K)
  BY <1>2, <1>8, <1>9, <1>10, RevenueIs DEF K
<1>12. ParcelsTie(t.outbound) /\ ParcelsTie(t.returned)
  <2>1. IsFiniteSet(DOMAIN shipments) /\ \A n \in DOMAIN shipments : shipments[n] \in ToSet(in.shipments)
    BY ByIdIs DEF WellFormed, shipments
  <2>2. \A n \in DOMAIN shipments : shipments[n].carrierCost = Null \/ shipments[n].carrierCost \in Int
    BY <1>1, <2>1, ValidInput
  <2>3. IsList(in.rules.shipping) /\ \A r \in ToSet(in.rules.shipping) : r.cost \in Int
    BY <1>1, ValidInput DEF WellFormed
  <2> QED
    BY <1>2, <2>1, <2>2, <2>3, ParcelsCost
<1>13. SumsItsLines(t.reversal, K)
  BY <1>2, ImpactIs DEF K
<1>14. /\ {"outbound", "returned", "cogs", "gateway", "cod", "impact", "reversed", "restocked"} \subseteq DOMAIN T
       /\ T.cogs = t.cogs.cogs /\ T.outbound = t.outbound.cost /\ T.returned = t.returned.cost
       /\ T.gateway = t.gateway.cost /\ T.cod = t.cod.cost /\ T.revenue = t.revenue.revenue
       /\ T.reversed = t.reversal.reversed /\ T.restocked = t.reversal.restocked /\ T.impact = t.reversal.impact
       /\ T.margin = t.revenue.revenue + t.reversal.impact
                     - (t.cogs.cogs + t.outbound.cost + t.returned.cost + t.gateway.cost + t.cod.cost)
  BY <1>6, TotalsAre DEF T
<1>15. /\ \A f \in DOMAIN T : T[f] \in Int
       /\ \A i \in DOMAIN L : \A m \in Range(L[i]) : m \in Int
       /\ t.gateway.cost \in Int /\ t.cod.cost \in Int
  BY <1>1, GuardedAreInts
<1>16. t.outbound.cost \in Int /\ t.returned.cost \in Int
  <2>1. T["outbound"] \in Int /\ T["returned"] \in Int
    BY <1>14, <1>15
  <2> QED
    BY <1>14, <2>1
<1>17. LineAmounts(t.cogs.lines, t.reversal.lines, K)
  <2>1. /\ DOMAIN L = K
        /\ \A i \in K : {t.cogs.lines[i].cogs, t.reversal.lines[i].reversed, t.reversal.lines[i].impact} \subseteq Range(L[i])
    BY <1>7, LineCarries DEF K
  <2> QED
    BY <1>15, <2>1 DEF LineAmounts
<1>18. TiesToTotals(L, T)
  <2>1. TermsTie(L, K, t.revenue, t.cogs.lines, t.reversal.lines, t.outbound, t.returned, t.gateway, t.cod)
    <3>1. Buckets(LineTotals(items), DOMAIN items) /\ RevenueTies(t.revenue, DOMAIN items)
          /\ LineAmounts(t.cogs.lines, t.reversal.lines, DOMAIN items)
      BY <1>8, <1>11, <1>17 DEF K
    <3>2. t.gateway.cost \in Int /\ t.cod.cost \in Int
      BY <1>15
    <3> QED
      BY <1>7, <1>12, <1>16, <3>1, <3>2, LinesTie DEF K
  <2>2. /\ SumFunction(Column(L, "cogs")) = t.cogs.cogs
        /\ SumFunction(Column(L, "reversed")) = t.reversal.reversed
        /\ SumFunction(Column(L, "restocked")) = t.reversal.restocked
        /\ SumFunction(Column(L, "impact")) = t.reversal.impact
    BY <1>2, <1>3, <1>13, <2>1 DEF SumsItsLines, TermsTie
  <2> QED
    BY <1>14, <2>1, <2>2 DEF TiesToTotals, TermsTie
<1>19. ASSUME recog.kind = "recognized" PROVE BooksAll(in.reversals, T)
  <2>1. /\ IsList(in.reversals) /\ \A r \in ToSet(in.reversals) : HasAmounts(r)
        /\ \A r \in ToSet(in.reversals) : \A line \in ToSet(ReversalLines(r)) : line.amount \in Int
    BY <1>1, ValidInput DEF WellFormed
  <2>2. Buckets(LineTotals(items), DOMAIN items)
    BY <1>8 DEF K
  <2>3. t.reversal.reversed = SumFunction([n \in DOMAIN in.reversals |-> Booked(in.reversals[n])])
    BY <1>2, <1>19, <2>1, <2>2, RefundsSum
  <2> QED
    BY <1>14, <2>3 DEF BooksAll
<1> QED
  BY <1>18, <1>19

-----------------------------------------------------------------------------
(* The life of an order.                                                     *)

\* A sequence is a list, and the lists the actions build are lists of what they are built of.
LEMMA SeqIsList ==
    ASSUME NEW S, NEW t \in Seq(S)
    PROVE  IsList(t) /\ ToSet(t) \in SUBSET S
<1>1. Len(t) \in Nat /\ DOMAIN t = 1 .. Len(t) /\ t \in [1 .. Len(t) -> S]
  OBVIOUS
<1>2. \A n \in 1 .. Len(t) : t[n] \in ToSet(t) /\ t[n] \in S
  BY <1>1 DEF ToSet
<1>3. ToSet(t) \in SUBSET S
  BY <1>1 DEF ToSet
<1>4. t \in Seq(ToSet(t))
  BY <1>1, <1>2
<1> QED
  BY <1>3, <1>4 DEF IsList

\* A list of the elements of another, and of one more.
ListOf(t, s, x) == IsList(t) /\ ToSet(t) \in SUBSET (ToSet(s) \union {x})

LEMMA ListAppended == ASSUME NEW s, IsList(s), NEW x PROVE ListOf(Append(s, x), s, x)
<1> DEFINE S == ToSet(s) \union {x}
<1>1. Append(s, x) \in Seq(S)
  BY DEF IsList
<1> HIDE DEF S
<1> QED
  BY <1>1, SeqIsList DEF S, ListOf

LEMMA ListPrepended == ASSUME NEW s, IsList(s), NEW x PROVE ListOf(<<x>> \o s, s, x)
<1> DEFINE S == ToSet(s) \union {x}
<1>1. <<x>> \o s \in Seq(S)
  BY DEF IsList
<1> HIDE DEF S
<1> QED
  BY <1>1, SeqIsList DEF S, ListOf

LEMMA ListUpdated == ASSUME NEW s, IsList(s), NEW n \in DOMAIN s, NEW x PROVE ListOf([s EXCEPT ![n] = x], s, x)
<1> DEFINE S == ToSet(s) \union {x}
<1>1. [s EXCEPT ![n] = x] \in Seq(S)
  BY DEF IsList
<1> HIDE DEF S
<1> QED
  BY <1>1, SeqIsList DEF S, ListOf

LEMMA ListJoined == ASSUME NEW s, IsList(s), NEW t, IsList(t) PROVE IsList(s \o t)
<1> DEFINE S == ToSet(s) \union ToSet(t)
<1>1. s \in Seq(S) /\ t \in Seq(S)
  BY DEF IsList
<1> HIDE DEF S
<1>2. s \o t \in Seq(S)
  BY <1>1
<1> QED
  BY <1>2, SeqIsList

LEMMA FirstOf == ASSUME NEW s, IsList(s), s # <<>> PROVE 1 \in DOMAIN s /\ s[1] \in ToSet(s)
<1>1. s \in Seq(ToSet(s))
  BY DEF IsList
<1>2. Len(s) \in Nat /\ DOMAIN s = 1 .. Len(s) /\ Len(s) # 0
  BY <1>1
<1>3. 1 \in DOMAIN s
  BY <1>2
<1> QED
  BY <1>1, <1>3

\* An order the engine can add up, and an input with every part in its place.
OrderOK(order) ==
    "discounts" \in DOMAIN order /\ IsList(order.discounts) /\ \A d \in ToSet(order.discounts) : d.amount \in Int

RulesOK(rules) ==
    /\ {"gateway", "cod", "shipping"} \subseteq DOMAIN rules
    /\ IsList(rules.gateway) /\ IsList(rules.cod) /\ IsList(rules.shipping)
ShipmentsOK(shipments) == IsList(shipments) /\ \A s \in ToSet(shipments) : HasCourse(s)
ItemsOK(items) == IsList(items) /\ \A item \in ToSet(items) : HasId(item)
ReversalsOK(reversals) == IsList(reversals) /\ \A r \in ToSet(reversals) : HasAmounts(r)

Shaped(in) ==
    /\ {"store", "order", "items", "shipments", "reversals", "costs", "rules"} \subseteq DOMAIN in
    /\ ItemsOK(in.items) /\ ShipmentsOK(in.shipments) /\ ReversalsOK(in.reversals) /\ IsList(in.costs)
    /\ in.order = Null \/ OrderOK(in.order)
    /\ RulesOK(in.rules)

\* The inductive invariant: the input keeps its shape through every event and every fault, and a
\* result that is up to date is the engine's of that input.
LifeInv ==
    /\ Shaped(input)
    /\ refused = "no" => OrderOK(input.order)
    /\ UpToDate => result = computeOrderProfit(input)

LEMMA OrderKept ==
    ASSUME NEW o, OrderOK(o), NEW f, f # "discounts", NEW v
    PROVE  OrderOK([o EXCEPT ![f] = v])
<1>1. "discounts" \in DOMAIN [o EXCEPT ![f] = v] /\ [o EXCEPT ![f] = v]["discounts"] = o["discounts"]
  BY DEF OrderOK
<1> QED
  BY <1>1 DEF OrderOK

LEMMA NumberedAmounts ==
    ASSUME NEW r, HasAmounts(r), NEW id PROVE HasAmounts(Numbered(r, id))
  BY DEF HasAmounts, Numbered

LEMMA HasAmountsKept ==
    ASSUME NEW r, HasAmounts(r), NEW v PROVE HasAmounts([r EXCEPT !.orderId = v])
  BY DEF HasAmounts

LEMMA CourseKept ==
    ASSUME NEW s, HasCourse(s), NEW id, NEW status \in ShipmentStatuses
    PROVE  HasCourse(Numbered(s, id)) /\ HasCourse([s EXCEPT !.status = status])
<1>1. HasCourse(Numbered(s, id))
  BY DEF HasCourse, Numbered
<1>2. HasCourse([s EXCEPT !.status = status])
  BY DEF HasCourse
<1> QED
  BY <1>1, <1>2

LEMMA HasIdKept ==
    ASSUME NEW item, HasId(item), NEW f, f # "id", NEW v PROVE HasId([item EXCEPT ![f] = v])
  BY DEF HasId

\* Replacing one part of an input.
LEMMA OrderReplaced ==
    ASSUME NEW in, Shaped(in), NEW o, OrderOK(o)
    PROVE  Shaped([in EXCEPT !.order = o]) /\ [in EXCEPT !.order = o].order = o
  BY DEF Shaped

LEMMA OrderNulled == ASSUME NEW in, Shaped(in) PROVE Shaped([in EXCEPT !.order = Null])
  BY DEF Shaped

LEMMA ItemsReplaced == ASSUME NEW in, Shaped(in), NEW v, ItemsOK(v) PROVE Shaped([in EXCEPT !.items = v])
  BY DEF Shaped

LEMMA ShipmentsReplaced == ASSUME NEW in, Shaped(in), NEW v, ShipmentsOK(v) PROVE Shaped([in EXCEPT !.shipments = v])
  BY DEF Shaped

LEMMA ReversalsReplaced == ASSUME NEW in, Shaped(in), NEW v, ReversalsOK(v) PROVE Shaped([in EXCEPT !.reversals = v])
  BY DEF Shaped

LEMMA RulesReplaced == ASSUME NEW in, Shaped(in), NEW v, RulesOK(v) PROVE Shaped([in EXCEPT !.rules = v])
  BY DEF Shaped

LEMMA StoreReplaced == ASSUME NEW in, Shaped(in), NEW v PROVE Shaped([in EXCEPT !.store = v])
  BY DEF Shaped

LEMMA CostsReplaced == ASSUME NEW in, Shaped(in), NEW v, IsList(v) PROVE Shaped([in EXCEPT !.costs = v])
  BY DEF Shaped

\* Replacing one field of the order, of the first item, or of the rules.
LEMMA OrderField ==
    ASSUME NEW in, Shaped(in), OrderOK(in.order), NEW f, f # "discounts", NEW v
    PROVE  Shaped([in EXCEPT !.order = [in.order EXCEPT ![f] = v]])
<1>1. OrderOK([in.order EXCEPT ![f] = v])
  BY OrderKept
<1> QED
  BY <1>1, OrderReplaced

LEMMA ItemsKept ==
    ASSUME NEW items, ItemsOK(items), items # <<>>, NEW f, f # "id", NEW v
    PROVE  ItemsOK([items EXCEPT ![1] = [items[1] EXCEPT ![f] = v]])
<1> DEFINE item == [items[1] EXCEPT ![f] = v]
           list == [items EXCEPT ![1] = item]
<1>1. 1 \in DOMAIN items /\ items[1] \in ToSet(items)
  BY FirstOf DEF ItemsOK
<1>2. HasId(item)
  BY <1>1, HasIdKept DEF ItemsOK
<1> HIDE DEF item
<1>3. ListOf(list, items, item)
  BY <1>1, ListUpdated DEF ItemsOK
<1> HIDE DEF list
<1>4. ItemsOK(list)
  BY <1>2, <1>3 DEF ItemsOK, ListOf
<1> QED
  BY <1>4 DEF list, item

LEMMA RulesField ==
    ASSUME NEW in, Shaped(in), NEW f, NEW v, f # "shipping", f \in {"gateway", "cod"} => IsList(v)
    PROVE  Shaped([in EXCEPT !.rules = [in.rules EXCEPT ![f] = v]])
<1>1. RulesOK(in.rules)
  BY DEF Shaped
<1>2. /\ {"gateway", "cod", "shipping"} \subseteq DOMAIN [in.rules EXCEPT ![f] = v]
      /\ [in.rules EXCEPT ![f] = v]["shipping"] = in.rules["shipping"]
      /\ [in.rules EXCEPT ![f] = v]["gateway"] = IF f = "gateway" THEN v ELSE in.rules["gateway"]
      /\ [in.rules EXCEPT ![f] = v]["cod"] = IF f = "cod" THEN v ELSE in.rules["cod"]
  BY <1>1 DEF RulesOK
<1>3. RulesOK([in.rules EXCEPT ![f] = v])
  BY <1>1, <1>2 DEF RulesOK
<1> QED
  BY <1>3, RulesReplaced

\* Every order starts in shape.
LEMMA LifeInit == Init => LifeInv
<1>1. SUFFICES ASSUME Init PROVE LifeInv
  OBVIOUS
<1>2. PICK w \in Worlds :
           input = [ store |-> [currency |-> "SAR", timezone |-> "Asia/Riyadh", vatRateBps |-> 1500,
                                vatRegistered |-> w.registered],
                     order |-> NewOrder(w), items |-> w.items, shipments |-> <<>>, reversals |-> <<>>,
                     costs |-> w.costs, rules |-> w.rules ]
  BY <1>1, Zenon DEF Init
<1>3. "discounts" \in DOMAIN NewOrder(w) /\ NewOrder(w).discounts = w.discounts
  BY DEF NewOrder
<1>4. OrderOK(NewOrder(w)) /\ ItemsOK(w.items) /\ RulesOK(w.rules) /\ IsList(w.costs)
  BY <1>3, WorldsAssumption DEF OrderOK, ItemsOK, RulesOK
<1>5. ShipmentsOK(<<>>) /\ ReversalsOK(<<>>)
  <2>1. <<>> \in Seq({})
    OBVIOUS
  <2>2. IsList(<<>>) /\ ToSet(<<>>) \in SUBSET {}
    BY <2>1, SeqIsList
  <2> QED
    BY <2>2 DEF ReversalsOK, ShipmentsOK
<1>6. /\ {"store", "order", "items", "shipments", "reversals", "costs", "rules"} \subseteq DOMAIN input
      /\ input.order = NewOrder(w) /\ input.items = w.items /\ input.shipments = <<>> /\ input.reversals = <<>>
      /\ input.rules = w.rules /\ input.costs = w.costs
  <2> HIDE DEF NewOrder
  <2> QED
    BY <1>2
<1>7. event = "new"
  BY <1>1 DEF Init
<1> QED
  BY <1>4, <1>5, <1>6, <1>7 DEF LifeInv, Shaped, UpToDate

\* An event of the platform leaves the input in shape if what it writes is.
LEMMA EventStep ==
    ASSUME NEW name, name # "none", NEW next, Shaped(next), OrderOK(next.order), Event(name, next)
    PROVE  LifeInv'
  BY DEF LifeInv, Event, UpToDate

\* An event that only moves the order on.
LEMMA OrderEvent ==
    ASSUME LifeInv, refused = "no", NEW name, name # "none", NEW f, f # "discounts", NEW v,
           Event(name, [input EXCEPT !.order = [input.order EXCEPT ![f] = v]])
    PROVE  LifeInv'
<1> DEFINE o == [input.order EXCEPT ![f] = v]
           next == [input EXCEPT !.order = o]
<1>1. Shaped(input) /\ OrderOK(input.order)
  BY DEF LifeInv
<1>2. OrderOK(o)
  BY <1>1, OrderKept
<1>3. Shaped(next) /\ next.order = o
  <2> HIDE DEF o
  <2> QED
    BY <1>1, <1>2, OrderReplaced
<1>4. Event(name, next)
  OBVIOUS
<1> HIDE DEF next
<1> QED
  BY <1>2, <1>3, <1>4, EventStep

LEMMA PlaceStep == LifeInv /\ Place => LifeInv'
<1> SUFFICES ASSUME LifeInv, Place PROVE LifeInv'
  OBVIOUS
<1>1. refused = "no" /\ Event("place", [input EXCEPT !.order = [input.order EXCEPT !["lifecycle"] = "open"]])
  BY Zenon DEF Place
<1> QED
  BY <1>1, OrderEvent

LEMMA CancelStep == LifeInv /\ Cancel => LifeInv'
<1> SUFFICES ASSUME LifeInv, Cancel PROVE LifeInv'
  OBVIOUS
<1>1. refused = "no" /\ Event("cancel", [input EXCEPT !.order = [input.order EXCEPT !["lifecycle"] = "cancelled"]])
  BY Zenon DEF Cancel, Submitted
<1> QED
  BY <1>1, OrderEvent

LEMMA PaymentLostStep == ASSUME NEW state PROVE LifeInv /\ PaymentLost(state) => LifeInv'
<1> SUFFICES ASSUME LifeInv, PaymentLost(state) PROVE LifeInv'
  OBVIOUS
<1>1. refused = "no" /\ Event("lost", [input EXCEPT !.order = [input.order EXCEPT !["paymentState"] = state]])
  BY Zenon DEF PaymentLost, Submitted
<1> QED
  BY <1>1, OrderEvent

LEMMA PayStep == ASSUME NEW leg PROVE LifeInv /\ Pay(leg) => LifeInv'
<1> SUFFICES ASSUME LifeInv, Pay(leg) PROVE LifeInv'
  OBVIOUS
<1> DEFINE paid == [input.order EXCEPT !.payments = Append(@, leg)]
           state == IF CapturedTotal(paid) >= paid.total \/ leg.instrument # "cod" THEN "paid" ELSE "authorized"
           o == [paid EXCEPT !.paymentState = state]
           next == [input EXCEPT !.order = o]
<1>1. Event("pay", next)
  BY Zenon DEF Pay
<1>2. Shaped(input) /\ OrderOK(input.order)
  BY DEF LifeInv, Pay, NewEvent, Submitted
<1>3. OrderOK(paid)
  BY <1>2, OrderKept
<1> HIDE DEF paid, state
<1>4. OrderOK(o)
  BY <1>3, OrderKept
<1> HIDE DEF o
<1>5. Shaped(next) /\ next.order = o
  BY <1>2, <1>4, OrderReplaced
<1> HIDE DEF next
<1> QED
  BY <1>1, <1>4, <1>5, EventStep

\* An event that adds to a list of the input and moves the order on.
LEMMA BothReplaced ==
    ASSUME NEW in, Shaped(in), OrderOK(in.order), NEW list, NEW f, f # "discounts", NEW v
    PROVE  /\ ShipmentsOK(list) =>
                  LET next == [in EXCEPT !.shipments = list, !.order = [in.order EXCEPT ![f] = v]]
                  IN  Shaped(next) /\ OrderOK(next.order)
           /\ ReversalsOK(list) =>
                  LET next == [in EXCEPT !.reversals = list, !.order = [in.order EXCEPT ![f] = v]]
                  IN  Shaped(next) /\ OrderOK(next.order)
<1> DEFINE o == [in.order EXCEPT ![f] = v]
           one == [in EXCEPT !.shipments = list]
           two == [in EXCEPT !.reversals = list]
<1>1. OrderOK(o)
  BY OrderKept
<1>2. [in EXCEPT !.shipments = list, !.order = o] = [one EXCEPT !.order = o]
  BY DEF Shaped
<1>3. [in EXCEPT !.reversals = list, !.order = o] = [two EXCEPT !.order = o]
  BY DEF Shaped
<1>4. (ShipmentsOK(list) => Shaped(one)) /\ (ReversalsOK(list) => Shaped(two))
  BY ShipmentsReplaced, ReversalsReplaced
<1> HIDE DEF o, one, two
<1>5. ASSUME ShipmentsOK(list) PROVE Shaped([one EXCEPT !.order = o]) /\ [one EXCEPT !.order = o].order = o
  BY <1>1, <1>4, <1>5, OrderReplaced
<1>6. ASSUME ReversalsOK(list) PROVE Shaped([two EXCEPT !.order = o]) /\ [two EXCEPT !.order = o].order = o
  BY <1>1, <1>4, <1>6, OrderReplaced
<1> QED
  BY <1>1, <1>2, <1>3, <1>5, <1>6 DEF o

LEMMA ShipStep == ASSUME NEW parcel \in Parcels PROVE LifeInv /\ Ship(parcel) => LifeInv'
<1> SUFFICES ASSUME LifeInv, Ship(parcel) PROVE LifeInv'
  OBVIOUS
<1> DEFINE record == Numbered(parcel, Len(input.shipments) + 1)
           list == <<record>> \o input.shipments
           state == IF parcel.direction = "return" THEN "returned" ELSE "in_transit"
           next == [input EXCEPT !.shipments = list, !.order = [input.order EXCEPT !.fulfillmentState = state]]
<1>1. Shaped(input) /\ OrderOK(input.order)
  BY DEF LifeInv, Ship, NewEvent, Submitted
<1>2. Event("ship", next)
  <2>1. [input EXCEPT !.shipments = <<Numbered(parcel, Len(input.shipments) + 1)>> \o @,
                      !.order.fulfillmentState = IF parcel.direction = "return" THEN "returned" ELSE "in_transit"]
        = next
    BY <1>1 DEF Shaped
  <2> HIDE DEF next
  <2> QED
    BY <2>1 DEF Ship
<1>3. HasCourse(record)
  <2>1. HasCourse(parcel)
    BY ParcelsAssumption
  <2> QED
    BY <2>1, CourseKept DEF HasCourse
<1> HIDE DEF record
<1>4. ShipmentsOK(list)
  BY <1>1, <1>3, ListPrepended DEF Shaped, ShipmentsOK, ListOf
<1> HIDE DEF list, state
<1>5. Shaped(next) /\ OrderOK(next.order)
  BY <1>1, <1>4, BothReplaced
<1> HIDE DEF next
<1> QED
  BY <1>2, <1>5, EventStep

LEMMA TrackStep ==
    ASSUME NEW n \in DOMAIN input.shipments, NEW status \in {"delivered", "lost", "returned_to_origin", "cancelled"}
    PROVE  LifeInv /\ Track(n, status) => LifeInv'
<1> SUFFICES ASSUME LifeInv, Track(n, status) PROVE LifeInv'
  OBVIOUS
<1> DEFINE record == [input.shipments[n] EXCEPT !.status = status]
           list == [input.shipments EXCEPT ![n] = record]
           state == IF status = "returned_to_origin" THEN "rto" ELSE input.order.fulfillmentState
           next == [input EXCEPT !.shipments = list, !.order = [input.order EXCEPT !.fulfillmentState = state]]
<1>1. Shaped(input) /\ OrderOK(input.order)
  BY DEF LifeInv, Track, Submitted
<1>2. Event("track", next)
  <2>1. [input EXCEPT !.shipments[n].status = status,
                      !.order.fulfillmentState = IF status = "returned_to_origin" THEN "rto" ELSE @] = next
    BY <1>1 DEF Shaped
  <2> HIDE DEF next
  <2> QED
    BY <2>1 DEF Track
<1>3. HasCourse(record)
  <2>1. HasCourse(input.shipments[n])
    BY <1>1, ListIs DEF Shaped, ShipmentsOK
  <2>2. status \in ShipmentStatuses
    BY DEF ShipmentStatuses
  <2> QED
    BY <2>1, <2>2, CourseKept
<1> HIDE DEF record
<1>4. ShipmentsOK(list)
  BY <1>1, <1>3, ListUpdated DEF Shaped, ShipmentsOK, ListOf
<1> HIDE DEF list, state
<1>5. Shaped(next) /\ OrderOK(next.order)
  BY <1>1, <1>4, BothReplaced
<1> HIDE DEF next
<1> QED
  BY <1>2, <1>5, EventStep

LEMMA RefundStep == ASSUME NEW reversal \in Refunds PROVE LifeInv /\ Refund(reversal) => LifeInv'
<1> SUFFICES ASSUME LifeInv, Refund(reversal) PROVE LifeInv'
  OBVIOUS
<1> DEFINE record == Numbered(reversal, Len(input.reversals) + 1)
           list == <<record>> \o input.reversals
           next == [input EXCEPT !.reversals = list, !.order = [input.order EXCEPT !.paymentState = "partially_refunded"]]
<1>1. Shaped(input) /\ OrderOK(input.order)
  BY DEF LifeInv, Refund, NewEvent, Submitted
<1>2. Event("refund", next)
  <2>1. [input EXCEPT !.reversals = <<Numbered(reversal, Len(input.reversals) + 1)>> \o @,
                      !.order.paymentState = "partially_refunded"] = next
    BY <1>1 DEF Shaped
  <2> HIDE DEF next
  <2> QED
    BY <2>1 DEF Refund
<1>3. HasAmounts(record)
  BY RefundsAssumption, NumberedAmounts
<1> HIDE DEF record
<1>4. ReversalsOK(list)
  BY <1>1, <1>3, ListPrepended DEF Shaped, ReversalsOK, ListOf
<1> HIDE DEF list
<1>5. Shaped(next) /\ OrderOK(next.order)
  BY <1>1, <1>4, BothReplaced
<1> HIDE DEF next
<1> QED
  BY <1>2, <1>5, EventStep

LEMMA RecomputeStep == LifeInv /\ Recompute => LifeInv'
  BY DEF LifeInv, Recompute, UpToDate

\* No single fault takes an input out of shape.
LEMMA CorruptStep == ASSUME NEW fault \in Faults PROVE LifeInv /\ Corrupt(fault) => LifeInv'
<1> SUFFICES ASSUME LifeInv, Corrupt(fault) PROVE Shaped(Corrupted(fault))
  <2>1. fault # "no"
    BY FaultsAssumption
  <2>2. Corrupt(fault) => input' = Corrupted(fault) /\ refused' = fault /\ event' = "fault"
    BY Zenon DEF Corrupt
  <2> HIDE DEF Corrupted
  <2> QED
    BY <2>1, <2>2 DEF LifeInv, UpToDate
<1>1. Shaped(input) /\ OrderOK(input.order) /\ Applicable(fault)
  BY DEF LifeInv, Corrupt
<1>p. {"store", "order", "items", "shipments", "reversals", "costs", "rules"} \subseteq DOMAIN input
  BY <1>1 DEF Shaped
<1>a. CASE fault = "null_order"
  <2>1. Corrupted(fault) = [input EXCEPT !.order = Null]
    BY <1>a DEF Corrupted
  <2> QED
    BY <1>1, <2>1, OrderNulled
<1>b. CASE fault = "currency"
  <2>1. Corrupted(fault) = [input EXCEPT !.order = [input.order EXCEPT !["currency"] = "USD"]]
    BY <1>b DEF Corrupted
  <2> QED
    BY <1>1, <2>1, OrderField
<1>c. CASE fault = "no_currency"
  <2> DEFINE one == [input EXCEPT !.order = [input.order EXCEPT !["currency"] = "XXX"]]
             two == [one EXCEPT !.store = [input.store EXCEPT !["currency"] = "XXX"]]
             three == [two EXCEPT !.rules = [two.rules EXCEPT !["currency"] = "XXX"]]
  <2>1. Corrupted(fault) = three
    BY <1>c, <1>p DEF Corrupted
  <2>2. Shaped(one)
    BY <1>1, OrderField
  <2> HIDE DEF one
  <2>3. Shaped(two)
    BY <2>2, StoreReplaced
  <2> HIDE DEF two
  <2>4. Shaped(three)
    BY <2>3, RulesField
  <2> HIDE DEF three
  <2> QED
    BY <2>1, <2>4
<1>d. CASE fault \in {"timezone", "no_timezone"}
  <2>1. \E v : Corrupted(fault) = [input EXCEPT !.store = v]
    BY <1>d DEF Corrupted
  <2> QED
    BY <1>1, <2>1, StoreReplaced
<1>e. CASE fault = "placed_at"
  <2>1. Corrupted(fault) = [input EXCEPT !.order = [input.order EXCEPT !["placedAt"] = Null]]
    BY <1>e DEF Corrupted
  <2> QED
    BY <1>1, <2>1, OrderField
<1>f. CASE fault = "item_twice"
  <2> DEFINE list == Append(input.items, input.items[1])
  <2>1. Corrupted(fault) = [input EXCEPT !.items = list]
    BY <1>f DEF Corrupted
  <2>2. ItemsOK(input.items) /\ input.items # <<>>
    BY <1>1, <1>f DEF Shaped, Applicable
  <2>3. HasId(input.items[1])
    BY <2>2, FirstOf DEF ItemsOK
  <2>4. ItemsOK(list)
    BY <2>2, <2>3, ListAppended DEF ItemsOK, ListOf
  <2> HIDE DEF list
  <2> QED
    BY <1>1, <2>1, <2>4, ItemsReplaced
<1>g. CASE fault \in {"stray_item", "quantity", "fraction"}
  <2>1. ItemsOK(input.items) /\ input.items # <<>>
    BY <1>1, <1>g DEF Applicable, Shaped
  <2>2. CASE fault = "stray_item"
    <3> DEFINE list == [input.items EXCEPT ![1] = [input.items[1] EXCEPT !["orderId"] = 2]]
    <3>1. Corrupted(fault) = [input EXCEPT !.items = list]
      BY <2>2 DEF Corrupted
    <3>2. ItemsOK(list)
      BY <2>1, ItemsKept
    <3> HIDE DEF list
    <3> QED
      BY <1>1, <3>1, <3>2, ItemsReplaced
  <2>3. CASE fault = "quantity"
    <3> DEFINE list == [input.items EXCEPT ![1] = [input.items[1] EXCEPT !["quantity"] = -1]]
    <3>1. Corrupted(fault) = [input EXCEPT !.items = list]
      BY <2>3 DEF Corrupted
    <3>2. ItemsOK(list)
      BY <2>1, ItemsKept
    <3> HIDE DEF list
    <3> QED
      BY <1>1, <3>1, <3>2, ItemsReplaced
  <2>4. CASE fault = "fraction"
    <3> DEFINE list == [input.items EXCEPT ![1] = [input.items[1] EXCEPT !["lineTotal"] = Null]]
    <3>1. Corrupted(fault) = [input EXCEPT !.items = list]
      BY <2>4 DEF Corrupted
    <3>2. ItemsOK(list)
      BY <2>1, ItemsKept
    <3> HIDE DEF list
    <3> QED
      BY <1>1, <3>1, <3>2, ItemsReplaced
  <2> QED
    BY <1>g, <2>2, <2>3, <2>4
<1>h. CASE fault = "huge"
  <2>1. Corrupted(fault) = [input EXCEPT !.order = [input.order EXCEPT !["total"] = MaxMinor + 1]]
    BY <1>h DEF Corrupted
  <2> QED
    BY <1>1, <2>1, OrderField
<1>i. CASE fault = "overflow"
  <2> DEFINE one == [input.order EXCEPT !["shipping"] = MaxMinor]
             two == [one EXCEPT !["codFee"] = MaxMinor]
  <2>1. Corrupted(fault) = [input EXCEPT !.order = two]
    BY <1>i, <1>p DEF Corrupted
  <2>2. OrderOK(one)
    BY <1>1, OrderKept
  <2> HIDE DEF one
  <2>3. OrderOK(two)
    BY <2>2, OrderKept
  <2> HIDE DEF two
  <2> QED
    BY <1>1, <2>1, <2>3, OrderReplaced
<1>j. CASE fault = "cost_twice"
  <2> DEFINE list == input.costs \o input.costs
  <2>1. Corrupted(fault) = [input EXCEPT !.costs = list]
    BY <1>j DEF Corrupted
  <2>2. IsList(list)
    BY <1>1, ListJoined DEF Shaped
  <2> HIDE DEF list
  <2> QED
    BY <1>1, <2>1, <2>2, CostsReplaced
<1>k. CASE fault = "rule_twice"
  <2> DEFINE gateway == input.rules.gateway
             others == [n \in DOMAIN gateway |-> [gateway[n] EXCEPT !.percentBps = 0]]
             list == gateway \o others
  <2>1. Corrupted(fault) = [input EXCEPT !.rules = [input.rules EXCEPT !["gateway"] = list]]
    BY <1>k DEF Corrupted
  <2>2. IsList(gateway)
    BY <1>1 DEF Shaped, RulesOK
  <2>3. IsList(others)
    <3> DEFINE S == {[gateway[n] EXCEPT !.percentBps = 0] : n \in DOMAIN gateway}
    <3>1. others \in Seq(S)
      <4>1. \A n \in DOMAIN gateway : others[n] \in S
        OBVIOUS
      <4>2. Len(gateway) \in Nat /\ DOMAIN gateway = 1 .. Len(gateway) /\ DOMAIN others = DOMAIN gateway
        BY <2>2, ListIs
      <4>3. others \in [1 .. Len(gateway) -> S]
        BY <4>1, <4>2
      <4> HIDE DEF S, others
      <4> QED
        BY <4>2, <4>3, SeqDef
    <3> HIDE DEF S, others
    <3> QED
      BY <3>1, SeqIsList
  <2>4. IsList(list)
    <3> HIDE DEF gateway, others
    <3> QED
      BY <2>2, <2>3, ListJoined
  <2> HIDE DEF list
  <2> QED
    BY <1>1, <2>1, <2>4, RulesField
<1>r. CASE fault = "rule_bounds"
  <2> DEFINE list == input.rules.cod \o
                         <<[input.rules.gateway[1] EXCEPT !.min = 9, !.max = 1] @@ [carrier |-> 7]>>
  <2>1. Corrupted(fault) = [input EXCEPT !.rules = [input.rules EXCEPT !["cod"] = list]]
    BY <1>r DEF Corrupted
  <2>2. IsList(list)
    <3>1. \A x : IsList(<<x>>)
      <4>1. \A x : <<x>> \in Seq({x})
        OBVIOUS
      <4> QED
        BY <4>1, SeqIsList
    <3>2. IsList(input.rules.cod)
      BY <1>1 DEF Shaped, RulesOK
    <3> QED
      BY <3>1, <3>2, ListJoined
  <2> HIDE DEF list
  <2> QED
    BY <1>1, <2>1, <2>2, RulesField
<1>l. CASE fault = "stray_refund"
  <2> DEFINE record == [input.reversals[1] EXCEPT !.orderId = 2]
             list == [input.reversals EXCEPT ![1] = record]
  <2>1. Corrupted(fault) = [input EXCEPT !.reversals = list]
    BY <1>l DEF Corrupted
  <2>2. ReversalsOK(input.reversals) /\ input.reversals # <<>>
    BY <1>1, <1>l DEF Shaped, Applicable
  <2>3. 1 \in DOMAIN input.reversals /\ input.reversals[1] \in ToSet(input.reversals)
    BY <2>2, FirstOf DEF ReversalsOK
  <2>4. HasAmounts(record)
    BY <2>2, <2>3, HasAmountsKept DEF ReversalsOK
  <2> HIDE DEF record
  <2>5. ReversalsOK(list)
    BY <2>2, <2>3, <2>4, ListUpdated DEF ReversalsOK, ListOf
  <2> HIDE DEF list
  <2> QED
    BY <1>1, <2>1, <2>5, ReversalsReplaced
<1>m. CASE fault = "refund_twice"
  <2> DEFINE list == <<input.reversals[1]>> \o input.reversals
  <2>1. Corrupted(fault) = [input EXCEPT !.reversals = list]
    BY <1>m DEF Corrupted
  <2>2. ReversalsOK(input.reversals) /\ input.reversals # <<>>
    BY <1>1, <1>m DEF Shaped, Applicable
  <2>3. HasAmounts(input.reversals[1])
    BY <2>2, FirstOf DEF ReversalsOK
  <2>4. ReversalsOK(list)
    BY <2>2, <2>3, ListPrepended DEF ReversalsOK, ListOf
  <2> HIDE DEF list
  <2> QED
    BY <1>1, <2>1, <2>4, ReversalsReplaced
<1>n. CASE fault = "parcel_twice"
  <2> DEFINE list == <<input.shipments[1]>> \o input.shipments
  <2>1. Corrupted(fault) = [input EXCEPT !.shipments = list]
    BY <1>n DEF Corrupted
  <2>2. ShipmentsOK(input.shipments) /\ input.shipments # <<>>
    BY <1>1, <1>n DEF Shaped, Applicable
  <2>3. HasCourse(input.shipments[1])
    BY <2>2, FirstOf DEF ShipmentsOK
  <2>4. ShipmentsOK(list)
    BY <2>2, <2>3, ListPrepended DEF ShipmentsOK, ListOf
  <2> HIDE DEF list
  <2> QED
    BY <1>1, <2>1, <2>4, ShipmentsReplaced
<1>z. fault \in {"null_order", "currency", "no_currency", "timezone", "no_timezone", "placed_at", "item_twice",
                 "stray_item", "quantity", "fraction", "huge", "overflow", "cost_twice", "rule_twice",
                 "rule_bounds", "stray_refund", "refund_twice", "parcel_twice"}
  BY FaultsAssumption
<1> QED
  BY <1>a, <1>b, <1>c, <1>d, <1>e, <1>f, <1>g, <1>h, <1>i, <1>j, <1>k, <1>l, <1>m, <1>n, <1>r, <1>z

LEMMA LifeNext == LifeInv /\ [Next]_vars => LifeInv'
<1> SUFFICES ASSUME LifeInv, [Next]_vars PROVE LifeInv'
  OBVIOUS
<1>1. CASE Next
  <2>1. ASSUME NEW n \in DOMAIN input.shipments, NEW status \in {"delivered", "lost", "returned_to_origin", "cancelled"},
               Track(n, status)
        PROVE  LifeInv'
    BY <2>1, TrackStep
  <2> QED
    BY <1>1, <2>1, PlaceStep, PayStep, PaymentLostStep, ShipStep, RefundStep, CancelStep, CorruptStep, RecomputeStep
       DEF Next
<1>2. CASE UNCHANGED vars
  BY <1>2 DEF vars, LifeInv, UpToDate
<1> QED
  BY <1>1, <1>2

\* At every moment of every order's life, whatever it started from and whatever the platform, the
\* couriers and the merchant did to it since, an order that is computed has lines that add up to its
\* totals term by term, and every halala its refunds gave back is on one of them.
THEOREM LifeIsBooked == Spec => []EveryHalalaIsBooked
<1>1. LifeInv => EveryHalalaIsBooked
  <2> SUFFICES ASSUME LifeInv, Computed PROVE EveryHalalaIsBooked
    BY DEF EveryHalalaIsBooked, LinesTieToTotals, RefundsAreBookedInFull
  <2>1. result = computeOrderProfit(input) /\ computeOrderProfit(input).status = "computed" /\ WellFormed(input)
    BY DEF LifeInv, Computed, Shaped, WellFormed, ItemsOK, ShipmentsOK, ReversalsOK, OrderOK, RulesOK
  <2>2. /\ result.lines # <<>> => TiesToTotals(result.lines, result.totals)
        /\ result.recognition.kind = "recognized" /\ DOMAIN result.lines # {} => BooksAll(input.reversals, result.totals)
    BY <2>1, EngineBooksEverything
  <2>3. LinesTieToTotals
    BY <2>2 DEF LinesTieToTotals, TiesToTotals, SumLines, Column
  <2>4. RefundsAreBookedInFull
    BY <2>2 DEF RefundsAreBookedInFull, BooksAll, Booked, SumOver
  <2> QED
    BY <2>3, <2>4 DEF EveryHalalaIsBooked
<1> QED
  BY <1>1, LifeInit, LifeNext, PTL DEF Spec

-----------------------------------------------------------------------------
(* Grades: what a level of confidence says about where the figures come from. *)

\* No two records of a list have the same id.
Distinct(s) == \A n \in DOMAIN s : \A m \in 1 .. n - 1 : s[m].id # s[n].id

\* Then every record is the one its id stands for.
LEMMA ByIdHasAll ==
    ASSUME NEW s, IsList(s), Distinct(s), NEW r \in ToSet(s)
    PROVE  r.id \in DOMAIN ById(s) /\ ById(s)[r.id] = r
<1>1. r.id \in DOMAIN ById(s)
  BY DEF ById
<1>2. PICK q \in ToSet(s) : q = ById(s)[r.id] /\ q.id = r.id
  BY <1>1, ByIdIs
<1>3. PICK n \in DOMAIN s : r = s[n]
  BY DEF ToSet
<1>4. PICK m \in DOMAIN s : q = s[m]
  BY DEF ToSet
<1>5. m \in Nat /\ n \in Nat /\ m >= 1 /\ n >= 1
  BY ListIs
<1>6. ~(m < n) /\ ~(n < m)
  <2>1. m < n => m \in 1 .. n - 1
    BY <1>5
  <2>2. n < m => n \in 1 .. m - 1
    BY <1>5
  <2> QED
    BY <1>2, <1>3, <1>4, <2>1, <2>2 DEF Distinct
<1>7. m = n
  BY <1>5, <1>6
<1> QED
  BY <1>1, <1>2, <1>3, <1>4, <1>7

\* What the engine's validation adds to this: ids are not repeated.
LEMMA DistinctIds ==
    ASSUME NEW in, normalizeAndValidate(in) = {}
    PROVE  Distinct(in.items) /\ Distinct(in.shipments) /\ in.order.total \in Int
<1>1. /\ ItemFaults(in.order, in.items) = {} /\ ShipmentFaults(in.shipments) = {}
      /\ MoneyFault({in.order.subtotal, in.order.vat, in.order.shipping, in.order.codFee, in.order.total}, "order", 0) = {}
  <2>1. Null \notin {in.order, in.store, in.rules}
    BY DEF normalizeAndValidate, onOrder
  <2> QED
    BY <2>1 DEF normalizeAndValidate
<1>2. in.order.total \in Int
  BY <1>1, MinorIsInt DEF MoneyFault, When, diagnostic
<1>3. ASSUME NEW n \in DOMAIN in.items, NEW m \in 1 .. n - 1 PROVE in.items[m].id # in.items[n].id
  <2>1. {<<"DUPLICATE_ITEM_ID", "line", in.items[k].id>> :
             k \in Repeated(in.items, LAMBDA i : i.id) \union Repeated(in.items, LAMBDA i : i.lineId)} = {}
    BY <1>1 DEF ItemFaults
  <2>2. n \notin Repeated(in.items, LAMBDA i : i.id)
    BY <2>1
  <2> QED
    BY <2>2 DEF Repeated
<1>4. ASSUME NEW n \in DOMAIN in.shipments, NEW m \in 1 .. n - 1 PROVE in.shipments[m].id # in.shipments[n].id
  <2>1. {<<"DUPLICATE_ITEM_ID", "shipment", in.shipments[k].id>> : k \in Repeated(in.shipments, LAMBDA s : s.id)} = {}
    BY <1>1 DEF ShipmentFaults
  <2>2. n \notin Repeated(in.shipments, LAMBDA s : s.id)
    BY <2>1
  <2> QED
    BY <2>2 DEF Repeated
<1> QED
  BY <1>2, <1>3, <1>4 DEF Distinct

\* What is asked of the terms before an order is graded exact, and before it is graded at all.
LEMMA GradeIs ==
    ASSUME NEW b, NEW codes
    PROVE  LET c == deriveConfidence(b, codes)
           IN  /\ c.level = "exact" =>
                      /\ {b.cogs, b.outbound, b.returned, b.gateway, b.cod} \subseteq SETTLED
                      /\ b.reversal # "allocated" /\ b.reconciles
                      /\ codes \intersect {"RESTOCK_UNKNOWN", "REVERSAL_LINE_UNMATCHED", "ORDER_HAS_NO_ITEMS"} = {}
               /\ c.level # "incomplete" =>
                      /\ "missing" \notin {b.cogs, b.outbound, b.returned, b.gateway, b.cod}
                      /\ "ORDER_HAS_NO_ITEMS" \notin codes
<1> DEFINE cogs     == IF "RESTOCK_UNKNOWN" \in codes /\ b.cogs \in SETTLED THEN "estimated" ELSE b.cogs
           reversal == IF codes \intersect {"REVERSAL_LINE_UNMATCHED", "REVERSAL_TOTAL_MISMATCH"} # {}
                       THEN "allocated" ELSE b.reversal
           revenue  == IF b.reconciles /\ "ORDER_HAS_NO_ITEMS" \notin codes THEN "reported" ELSE "unreconciled"
           bases    == {cogs, b.outbound, b.returned, b.gateway, b.cod}
           level    == IF "missing" \in bases \/ revenue = "unreconciled" THEN "incomplete"
                       ELSE IF bases \subseteq SETTLED /\ reversal # "allocated" THEN "exact" ELSE "estimated"
<1>1. deriveConfidence(b, codes).level = level
  BY DEF deriveConfidence
<1>2. ASSUME level # "incomplete"
      PROVE  /\ "missing" \notin {b.cogs, b.outbound, b.returned, b.gateway, b.cod}
             /\ "ORDER_HAS_NO_ITEMS" \notin codes /\ b.reconciles
  <2>1. "missing" \notin bases /\ revenue # "unreconciled"
    BY <1>2
  <2>2. b.cogs # "missing"
    BY <2>1 DEF SETTLED
  <2> QED
    BY <2>1, <2>2
<1>3. ASSUME level = "exact"
      PROVE  /\ {b.cogs, b.outbound, b.returned, b.gateway, b.cod} \subseteq SETTLED
             /\ b.reversal # "allocated"
             /\ codes \intersect {"RESTOCK_UNKNOWN", "REVERSAL_LINE_UNMATCHED"} = {}
  <2>1. bases \subseteq SETTLED /\ reversal # "allocated"
    BY <1>3
  <2>2. b.cogs \in SETTLED /\ "RESTOCK_UNKNOWN" \notin codes
    BY <2>1 DEF SETTLED
  <2>3. b.reversal # "allocated" /\ "REVERSAL_LINE_UNMATCHED" \notin codes
    BY <2>1
  <2> QED
    BY <2>1, <2>2, <2>3
<1> HIDE DEF level
<1> QED
  BY <1>1, <1>2, <1>3

\* The cost an item resolves to is one of the costs, by its key or by its SKU.
LEMMA CostIs ==
    ASSUME NEW item, NEW costs, IsList(costs), ResolvedCost(item, costs) # Null
    PROVE  LET c == ResolvedCost(item, costs)
           IN  /\ c \in ToSet(costs)
               /\ <<c.product, c.variant>> = <<item.product, item.variant>> \/ (item.sku # Null /\ c.sku = item.sku)
<1> DEFINE keyed == {i \in DOMAIN costs : costs[i].product = item.product /\ costs[i].variant = item.variant}
           named == {i \in DOMAIN costs : item.sku # Null /\ costs[i].sku = item.sku}
           First(fit) == CHOOSE i \in fit : \A j \in fit : 0 < 0 \/ (0 = 0 /\ i <= j)
           Of(fit) == IF fit = {} THEN Null ELSE costs[First(fit)]
<1>1. ResolvedCost(item, costs) = IF Of(keyed) # Null THEN Of(keyed) ELSE Of(named)
  BY Zenon DEF ResolvedCost, BestOf
<1>2. ASSUME NEW fit \in SUBSET DOMAIN costs, Of(fit) # Null PROVE \E i \in fit : Of(fit) = costs[i]
  <2>1. fit # {} /\ fit \in SUBSET Nat
    BY <1>2, ListIs
  <2>2. PICK k \in fit : \A j \in fit : k <= j
    BY <2>1, NatLeast
  <2>3. First(fit) \in fit
    BY <2>2
  <2> HIDE DEF First
  <2> QED
    BY <2>1, <2>3
<1>3. keyed \in SUBSET DOMAIN costs /\ named \in SUBSET DOMAIN costs
  OBVIOUS
<1> HIDE DEF Of
<1>4. CASE Of(keyed) # Null
  <2>1. PICK i \in keyed : Of(keyed) = costs[i]
    BY <1>2, <1>3, <1>4
  <2> QED
    BY <1>1, <1>4, <2>1, ListIs
<1>5. CASE Of(keyed) = Null
  <2>1. PICK i \in named : Of(named) = costs[i]
    BY <1>1, <1>2, <1>3, <1>5
  <2> QED
    BY <1>1, <1>5, <2>1, ListIs
<1> QED
  BY <1>4, <1>5

\* A courier rule is found only where one matches.
LEMMA CourierRuleIs ==
    ASSUME NEW rules, NEW order, NEW carrier, NEW direction, matchShippingRule(rules, order, carrier, direction) # Null
    PROVE  \E r \in ToSet(rules) :
               /\ r.direction \in {direction, "any"} /\ AgreesWith(r.carrier, carrier)
               /\ AgreesWith(r.country, order.country) /\ AgreesWith(r.region, order.region)
<1> DEFINE Matches(rule) == /\ AgreesWith(rule.country, order.country)
                            /\ AgreesWith(rule.region, order.region)
                            /\ AgreesWith(rule.carrier, carrier)
           Score(rule) == Set(rule.country, 4) + Set(rule.region, 2) + Set(rule.carrier, 1)
           fit(dir) == {i \in DOMAIN rules : rules[i].direction = dir /\ Matches(rules[i])}
           Best(dir, i) == \A j \in fit(dir) :
                               Score(rules[j]) < Score(rules[i]) \/ (Score(rules[j]) = Score(rules[i]) /\ i <= j)
           Pick(dir) == IF fit(dir) = {} THEN Null ELSE rules[CHOOSE i \in fit(dir) : Best(dir, i)]
<1>1. matchShippingRule(rules, order, carrier, direction) = IF Pick(direction) # Null THEN Pick(direction) ELSE Pick("any")
  BY Zenon DEF matchShippingRule, BestOf
<1>2. \A dir : Pick(dir) # Null => fit(dir) # {}
  BY Zenon
<1> HIDE DEF Pick
<1>3. PICK dir \in {direction, "any"} : fit(dir) # {}
  BY <1>1, <1>2
<1>4. PICK i \in DOMAIN rules : rules[i].direction = dir /\ Matches(rules[i])
  BY <1>3
<1>5. rules[i] \in ToSet(rules)
  BY DEF ToSet
<1> QED
  BY <1>3, <1>4, <1>5

\* A fee rule is found only where one matches, and is one that does where the scheme is known.
LEMMA FeeRuleIs ==
    ASSUME NEW payment, NEW rules, NEW registered, GatewayRule(payment, rules, registered) # Null
    PROVE  LET fits == {r \in ToSet(rules) :
                           /\ AgreesWith(r.instrument, payment.instrument) /\ AgreesWith(r.provider, payment.provider)
                           /\ SchemeUnknown(payment) \/ AgreesWith(r.scheme, payment.scheme)}
           IN  /\ fits # {}
               /\ IsList(rules) /\ ~SchemeUnknown(payment) => GatewayRule(payment, rules, registered) \in fits
<1> DEFINE fits == {r \in ToSet(rules) :
                       /\ AgreesWith(r.instrument, payment.instrument) /\ AgreesWith(r.provider, payment.provider)
                       /\ SchemeUnknown(payment) \/ AgreesWith(r.scheme, payment.scheme)}
           rule == GatewayRule(payment, rules, registered)
<1>1. CASE SchemeUnknown(payment)
  <2> DEFINE candidates == schemeCandidates(rules, payment)
             Score(r) == applyFeeFormula(payment.amount, r, registered).cost
             fit == {i \in DOMAIN rules : rules[i] \in candidates}
             Best(i) == \A j \in fit : Score(rules[j]) < Score(rules[i]) \/ (Score(rules[j]) = Score(rules[i]) /\ i <= j)
  <2>1. rule = IF fit = {} THEN Null ELSE rules[CHOOSE i \in fit : Best(i)]
    BY <1>1, Zenon DEF GatewayRule, BestOf
  <2>2. fit # {}
    BY <2>1, Zenon
  <2>3. candidates \subseteq fits
    BY <1>1 DEF schemeCandidates
  <2> HIDE DEF candidates
  <2> QED
    BY <1>1, <2>2, <2>3
<1>2. CASE ~SchemeUnknown(payment)
  <2> DEFINE fit == {i \in DOMAIN rules : /\ AgreesWith(rules[i].instrument, payment.instrument)
                                          /\ AgreesWith(rules[i].scheme, payment.scheme)
                                          /\ AgreesWith(rules[i].provider, payment.provider)}
             Best(i) == \A j \in fit : \/ specificity(rules[j]) < specificity(rules[i])
                                       \/ specificity(rules[j]) = specificity(rules[i]) /\ i <= j
             first == CHOOSE i \in fit : Best(i)
  <2>1. rule = IF fit = {} THEN Null ELSE rules[first]
    BY <1>2, Zenon DEF GatewayRule, bestRule, BestOf
  <2>2. fit # {} /\ rule = rules[first]
    BY <2>1, Zenon
  <2>3. \A i \in fit : rules[i] \in fits
    BY DEF ToSet
  <2>4. ASSUME IsList(rules) PROVE first \in fit
    <3> DEFINE score == [i \in fit |-> specificity(rules[i])]
    <3>1. fit \in SUBSET Nat
      BY <2>4, ListIs
    <3>2. score \in [fit -> 0 .. 7]
      BY DEF Set, specificity
    <3>3. \A i \in fit : score[i] = specificity(rules[i])
      OBVIOUS
    <3> HIDE DEF fit, score
    <3>4. \E i \in fit : \A j \in fit : score[j] < score[i] \/ (score[j] = score[i] /\ i <= j)
      BY <2>2, <3>1, <3>2, BestExists
    <3>5. \E i \in fit : Best(i)
      BY <3>3, <3>4
    <3> HIDE DEF Best
    <3> QED
      BY <3>5
  <2> HIDE DEF fit, first, fits, rule
  <2> QED
    BY <1>2, <2>2, <2>3, <2>4 DEF fits, rule
<1> QED
  BY <1>1, <1>2

\* The codes of a set of diagnostics, and the term that says an order does not reconcile.
Codes(diagnostics) == {d[1] : d \in diagnostics}
Unreconciled == "TOTALS_DO_NOT_RECONCILE"

\* What a courier term's basis says of the parcels.
LEMMA ShippingGrade ==
    ASSUME NEW order, NEW shipments, NEW rules, NEW direction
    PROVE  LET c    == computeShippingCost(order, shipments, rules, direction)
               legs == LiveLegs(shipments, direction)
           IN  /\ c.basis \in SETTLED =>
                      /\ \A n \in legs : shipments[n].carrierCost # Null
                      /\ direction = "outbound" /\ order.fulfillmentMethod = "carrier" =>
                             legs # {} \/ order.lifecycle = "cancelled"
               /\ c.basis # "missing" =>
                      \A n \in legs :
                          \/ shipments[n].carrierCost # Null
                          \/ /\ order.fulfillmentMethod = "carrier"
                             /\ matchShippingRule(rules, order, shipments[n].carrier, direction) # Null
               /\ Unreconciled \notin Codes(c.diagnostics)
<1> DEFINE c           == computeShippingCost(order, shipments, rules, direction)
           legs        == LiveLegs(shipments, direction)
           mayEstimate == order.fulfillmentMethod = "carrier"
           Rule(n)     == matchShippingRule(rules, order, shipments[n].carrier, direction)
           known       == {n \in legs : shipments[n].carrierCost # Null}
           used        == {n \in legs \ known : mayEstimate /\ Rule(n) # Null}
           absent      == legs \ (known \union used)
           Raise(code, S) == {<<code, "shipment", shipments[n].id>> : n \in S}
<1>1. CASE legs = {}
  <2>1. c = NoLeg(order, rules, direction)
    BY <1>1, Zenon DEF computeShippingCost
  <2> HIDE DEF c
  <2>2. /\ c.basis \in SETTLED =>
              (direction = "outbound" /\ order.fulfillmentMethod = "carrier" => order.lifecycle = "cancelled")
        /\ Unreconciled \notin Codes(c.diagnostics)
    BY <2>1 DEF NoLeg, SETTLED, onOrder, Codes, Unreconciled
  <2> HIDE DEF legs
  <2> QED
    BY <1>1, <2>2 DEF c, legs
<1>2. CASE legs # {}
  <2>1. /\ c.basis = WorstBasis(absent # {}, used # {})
        /\ c.diagnostics = Raise("CARRIER_COST_MISSING", legs \ known)
                           \union Raise("SHIPPING_FALLBACK_USED", used)
                           \union When(mayEstimate, Raise("SHIPPING_FALLBACK_MISSING", absent))
    BY <1>2 DEF computeShippingCost
  <2>2. Unreconciled \notin Codes(c.diagnostics)
    BY <2>1 DEF Codes, Unreconciled, When
  <2>3. c.basis # "missing" => absent = {}
    BY <2>1 DEF WorstBasis
  <2>4. c.basis \in SETTLED => absent = {} /\ used = {}
    BY <2>1 DEF WorstBasis, SETTLED
  <2> HIDE DEF c, legs
  <2> QED
    BY <1>2, <2>2, <2>3, <2>4 DEF c, legs
<1> QED
  BY <1>1, <1>2

\* What the gateway term's basis says of the payment legs.
LEMMA FeeGrade ==
    ASSUME NEW order, NEW rules, NEW registered
    PROVE  LET g     == computeGatewayFees(order, rules, registered)
               Rule(n) == GatewayRule(order.payments[n], rules, registered)
           IN  /\ g.basis # "missing" =>
                      /\ \A n \in DOMAIN order.payments : CHARGEABLE(order.payments[n]) => Rule(n) # Null
                      /\ ~(order.paymentState = "paid" /\ CapturedTotal(order) < order.total)
               /\ g.basis \in SETTLED =>
                      \A n \in DOMAIN order.payments :
                          CHARGEABLE(order.payments[n]) =>
                              ~SchemeUnknown(order.payments[n]) /\ Rule(n).source = "gateway_statement"
               /\ Unreconciled \notin Codes(g.diagnostics)
<1> DEFINE g           == computeGatewayFees(order, rules, registered)
           underMapped == order.paymentState = "paid" /\ CapturedTotal(order) < order.total
           legs        == {n \in DOMAIN order.payments : CHARGEABLE(order.payments[n])}
           Pay1(n)     == order.payments[n]
           Rule(n)     == GatewayRule(Pay1(n), rules, registered)
           Estimated(n) == SchemeUnknown(Pay1(n)) \/ basisOfFeeSource(Rule(n).source) = "estimated"
           unruled     == {n \in legs : Rule(n) = Null}
           basis       == IF legs = {} THEN IF underMapped THEN "missing" ELSE "not_applicable"
                          ELSE WorstBasis(unruled # {} \/ underMapped, \E n \in legs \ unruled : Estimated(n))
           Raise(code, S) == {<<code, "payment", n>> : n \in S}
           unknown     == {n \in legs : Pay1(n).instrument \in {"unknown", "other"}}
           schemeless  == {n \in legs : SchemeUnknown(Pay1(n))}
           default     == {n \in legs \ unruled : Rule(n).source = "default_table"}
<1>1. /\ g.basis = basis
      /\ g.diagnostics = When(underMapped, onOrder("PAYMENT_LEGS_UNDER_TOTAL"))
                         \union Raise("UNKNOWN_PAYMENT_INSTRUMENT", unknown)
                         \union Raise("CARD_SCHEME_UNKNOWN", schemeless)
                         \union Raise("FEE_RULE_MISSING", unruled)
                         \union Raise("FEE_RULE_DEFAULT_USED", default)
  BY DEF computeGatewayFees, FeeTotal
<1> HIDE DEF g
<1>2. Unreconciled \notin Codes(g.diagnostics)
  <2> HIDE DEF unknown, schemeless, unruled, default, underMapped
  <2> QED
    BY <1>1 DEF Codes, Unreconciled, When, onOrder
<1> HIDE DEF Rule
<1>3. g.basis # "missing" => unruled = {} /\ ~underMapped
  BY <1>1 DEF WorstBasis
<1>4. g.basis \in SETTLED => \A n \in legs \ unruled : ~Estimated(n)
  BY <1>1 DEF WorstBasis, SETTLED
<1>5. g.basis \in SETTLED => g.basis # "missing"
  BY DEF SETTLED
<1>6. g.basis \in SETTLED => \A n \in legs : ~SchemeUnknown(Pay1(n)) /\ Rule(n).source = "gateway_statement"
  BY <1>3, <1>4, <1>5 DEF basisOfFeeSource
<1> QED
  BY <1>2, <1>3, <1>6 DEF g, Rule

\* What the cash term's basis says of the carriers that collected it.
LEMMA CashGrade ==
    ASSUME NEW order, NEW shipments, NEW rules, IsList(rules), NEW registered
    PROVE  LET cod      == computeCodCost(order, shipments, rules, registered)
               legs     == {n \in DOMAIN order.payments :
                               order.payments[n].instrument = "cod" /\ order.payments[n].state = "captured"}
               carriers == {shipments[n].carrier : n \in LiveLegs(shipments, "outbound")}
               charged  == IF carriers = {} THEN {Null} ELSE carriers
               Fits(c)  == {r \in ToSet(rules) : AgreesWith(r.carrier, c)}
           IN  /\ legs # {} /\ cod.basis # "missing" => \A c \in charged : Fits(c) # {}
               /\ legs # {} /\ cod.basis \in SETTLED =>
                      \A c \in charged : \E r \in Fits(c) : r.source = "gateway_statement"
               /\ Unreconciled \notin Codes(cod.diagnostics)
<1> DEFINE cod      == computeCodCost(order, shipments, rules, registered)
           legs     == {n \in DOMAIN order.payments :
                           order.payments[n].instrument = "cod" /\ order.payments[n].state = "captured"}
           carriers == {shipments[n].carrier : n \in LiveLegs(shipments, "outbound")}
           charged  == IF carriers = {} THEN {Null} ELSE carriers
           Fits(c)  == {r \in ToSet(rules) : AgreesWith(r.carrier, c)}
           fit(c)   == {i \in DOMAIN rules : AgreesWith(rules[i].carrier, c)}
           Best(c, i) == \A j \in fit(c) : \/ Set(rules[j].carrier, 1) < Set(rules[i].carrier, 1)
                                           \/ Set(rules[j].carrier, 1) = Set(rules[i].carrier, 1) /\ i <= j
           ruleFor(c) == IF fit(c) = {} THEN Null ELSE rules[CHOOSE i \in fit(c) : Best(c, i)]
           unruled  == {c \in charged : ruleFor(c) = Null}
           Sourced(source) == {c \in charged \ unruled : ruleFor(c).source = source}
<1>1. /\ cod.basis = IF legs = {} THEN "not_applicable"
                     ELSE WorstBasis(unruled # {}, charged \ unruled # Sourced("gateway_statement"))
      /\ cod.diagnostics = When(unruled # {}, {<<"COD_FEE_RULE_MISSING", "payment", n>> : n \in legs})
                           \union When(Sourced("default_table") # {}, {<<"FEE_RULE_DEFAULT_USED", "payment", n>> : n \in legs})
  BY DEF computeCodCost, FeeTotal, BestOf
<1>2. ASSUME NEW c, ruleFor(c) # Null PROVE ruleFor(c) \in Fits(c)
  <2> DEFINE F == fit(c)
             score == [i \in F |-> Set(rules[i].carrier, 1)]
             first == CHOOSE i \in F : Best(c, i)
  <2>1. F # {} /\ ruleFor(c) = rules[first]
    BY <1>2, Zenon
  <2>2. F \in SUBSET Nat
    BY ListIs
  <2>3. score \in [F -> 0 .. 1]
    BY DEF Set
  <2>4. \A i \in F : score[i] = Set(rules[i].carrier, 1)
    OBVIOUS
  <2>5. \A i \in F : rules[i] \in Fits(c)
    BY DEF ToSet
  <2>6. ASSUME NEW i \in F, \A j \in F : score[j] < score[i] \/ (score[j] = score[i] /\ i <= j) PROVE Best(c, i)
    <3> HIDE DEF score
    <3> QED
      BY <2>4, <2>6
  <2> HIDE DEF F, score, Best
  <2>7. \E i \in F : \A j \in F : score[j] < score[i] \/ (score[j] = score[i] /\ i <= j)
    BY <2>1, <2>2, <2>3, BestExists
  <2>8. \E i \in F : Best(c, i)
    BY <2>6, <2>7
  <2>9. first \in F
    BY <2>8
  <2> HIDE DEF first, ruleFor, Fits
  <2> QED
    BY <2>1, <2>5, <2>9
<1> HIDE DEF cod, ruleFor, Fits, charged
<1>3. Unreconciled \notin Codes(cod.diagnostics)
  <2> HIDE DEF unruled, Sourced, legs
  <2> QED
    BY <1>1 DEF Codes, Unreconciled, When
<1>4. legs # {} /\ cod.basis # "missing" => unruled = {}
  BY <1>1 DEF WorstBasis
<1>5. legs # {} /\ cod.basis \in SETTLED => unruled = {} /\ charged = Sourced("gateway_statement")
  BY <1>1 DEF WorstBasis, SETTLED
<1>6. legs # {} /\ cod.basis # "missing" => \A c \in charged : Fits(c) # {}
  BY <1>2, <1>4
<1>7. legs # {} /\ cod.basis \in SETTLED => \A c \in charged : \E r \in Fits(c) : r.source = "gateway_statement"
  BY <1>2, <1>5
<1> QED
  BY <1>3, <1>6, <1>7 DEF cod, Fits, charged

\* What the cost of goods says of the items.
LEMMA CogsGrade ==
    ASSUME NEW items, NEW costs
    PROVE  LET c == computeCogs(items, costs)
           IN  /\ ~c.anyMissing => \A i \in DOMAIN items : ResolvedCost(items[i], costs) # Null
               /\ ~c.anyMissing /\ ~c.anyEstimated =>
                      \A i \in DOMAIN items : ResolvedCost(items[i], costs).source \in EXACT_COST_SOURCES
               /\ Unreconciled \notin Codes(c.diagnostics)
<1> DEFINE c         == computeCogs(items, costs)
           lines     == [i \in DOMAIN items |-> LineCogs(items[i], costs)]
           missing   == {i \in DOMAIN items : lines[i].source = "none"}
           estimated == {i \in DOMAIN items \ missing : ~lines[i].covered}
<1>1. /\ c.anyMissing = (missing # {}) /\ c.anyEstimated = (estimated # {})
      /\ c.diagnostics = {<<"COST_MISSING", "line", i>> : i \in missing}
                         \union {<<"COST_ESTIMATED", "line", i>> : i \in estimated}
  BY DEF computeCogs
<1>2. ASSUME NEW i \in DOMAIN items
      PROVE  LET cost == ResolvedCost(items[i], costs)
             IN  /\ cost = Null => lines[i].source = "none"
                 /\ cost # Null => lines[i].source = cost.source /\ (lines[i].covered <=> cost.source \in EXACT_COST_SOURCES)
  BY DEF LineCogs
<1> HIDE DEF c, lines
<1>3. Unreconciled \notin Codes(c.diagnostics)
  <2> HIDE DEF missing, estimated
  <2> QED
    BY <1>1 DEF Codes, Unreconciled
<1>4. ~c.anyMissing => \A i \in DOMAIN items : ResolvedCost(items[i], costs) # Null
  BY <1>1, <1>2
<1>5. ~c.anyMissing /\ ~c.anyEstimated => \A i \in DOMAIN items : lines[i].covered
  BY <1>1
<1>6. ~c.anyMissing /\ ~c.anyEstimated =>
          \A i \in DOMAIN items : ResolvedCost(items[i], costs).source \in EXACT_COST_SOURCES
  BY <1>2, <1>4, <1>5
<1> QED
  BY <1>3, <1>4, <1>6 DEF c

\* What the revenue says of the order.
LEMMA RevenueGrade ==
    ASSUME NEW order, NEW items, NEW recognition
    PROVE  LET r == computeRevenue(order, items, recognition)
           IN  /\ r.reconciles => Unreconciled \notin Codes(r.diagnostics)
               /\ "ORDER_HAS_NO_ITEMS" \notin Codes(r.diagnostics) => DOMAIN items # {}
<1> DEFINE r == computeRevenue(order, items, recognition)
           d == When(~r.reconciles, onOrder("TOTALS_DO_NOT_RECONCILE"))
                \union When(DOMAIN items = {}, onOrder("ORDER_HAS_NO_ITEMS"))
                \union When(recognition.kind = "cost_only", onOrder("RECOGNITION_COST_ONLY"))
                \union When(recognition.kind = "excluded", onOrder("ORDER_EXCLUDED"))
<1>1. r.diagnostics = d
  BY DEF computeRevenue
<1> HIDE DEF r
<1>2. r.reconciles => Unreconciled \notin Codes(d)
  BY DEF Codes, Unreconciled, When, onOrder
<1>3. DOMAIN items = {} => <<"ORDER_HAS_NO_ITEMS", "order", 0>> \in d
  BY DEF When, onOrder
<1> HIDE DEF d
<1>4. DOMAIN items = {} => "ORDER_HAS_NO_ITEMS" \in Codes(d)
  BY <1>3 DEF Codes
<1> QED
  BY <1>1, <1>2, <1>4 DEF r

\* What the reversals' impact says of the refunds.
LEMMA ReversalGrade ==
    ASSUME NEW reversals, NEW items, NEW cogs, NEW recognition, NEW shipments, NEW dispatched
    PROVE  LET v == computeReversalImpact(reversals, items, cogs, recognition, shipments, dispatched)
           IN  /\ Unreconciled \notin Codes(v.diagnostics)
               /\ recognition.kind = "recognized" /\ (reversals = <<>> \/ ~v.allocated) =>
                      \A r \in ToSet(reversals) : r.lines # Null
<1> DEFINE v       == computeReversalImpact(reversals, items, cogs, recognition, shipments, dispatched)
           ids     == DOMAIN items
           reasons == UNION {AllocatedBecause(r, ids) : r \in ToSet(reversals)}
           unknown == UNION {RestockUnknown(r, ids) : r \in ToSet(reversals)}
<1>1. \/ v.diagnostics \in {{}, onOrder("RESTOCK_UNKNOWN")} /\ (recognition.kind = "recognized" => reversals = <<>>)
      \/ v.diagnostics = reasons \union unknown /\ (v.allocated <=> reasons # {})
  <2> DEFINE kept == /\ recognition.kind = "cost_only"
                     /\ recognition.reason \in {"cancelled_after_capture", "cancelled_after_dispatch", "payment_not_settled"}
                     /\ ~dispatched
             rto == recognition.kind = "cost_only" /\ recognition.reason = "rto_uncollected"
             empty == [i \in ids |-> LineReversal(0, 0, 0)]
             whole == [i \in ids |-> LineReversal(items[i].quantity, 0, cogs[i].cogs)]
             back == rtoGoodsRecovered(shipments)
             tallied == TalliedImpact(reversals, items, cogs, recognition.kind = "recognized")
  <2>1. v = IF kept THEN ReversalImpact(whole, FALSE, TRUE, {})
            ELSE IF rto THEN IF back THEN ReversalImpact(whole, FALSE, TRUE, {})
                             ELSE ReversalImpact(empty, FALSE, FALSE, onOrder("RESTOCK_UNKNOWN"))
            ELSE IF reversals = <<>> THEN ReversalImpact(empty, FALSE, FALSE, {}) ELSE tallied
    BY Zenon DEF computeReversalImpact
  <2>0. (kept \/ rto) => recognition.kind # "recognized"
    OBVIOUS
  <2>2. \/ v.diagnostics \in {{}, onOrder("RESTOCK_UNKNOWN")} /\ (recognition.kind = "recognized" => reversals = <<>>)
        \/ v = tallied
    <3>1. ReversalImpact(whole, FALSE, TRUE, {}).diagnostics = {}
      BY DEF ReversalImpact
    <3>2. ReversalImpact(empty, FALSE, FALSE, onOrder("RESTOCK_UNKNOWN")).diagnostics = onOrder("RESTOCK_UNKNOWN")
      BY DEF ReversalImpact
    <3>3. ReversalImpact(empty, FALSE, FALSE, {}).diagnostics = {}
      BY DEF ReversalImpact
    <3> HIDE DEF v, kept, rto, empty, whole, back, tallied
    <3> QED
      BY <2>0, <2>1, <3>1, <3>2, <3>3
  <2>3. tallied.diagnostics = reasons \union unknown /\ (tallied.allocated <=> reasons # {})
    <3> HIDE DEF reasons, unknown
    <3>1. \A lines : /\ ReversalImpact(lines, reasons # {}, FALSE, reasons \union unknown).diagnostics = reasons \union unknown
                     /\ ReversalImpact(lines, reasons # {}, FALSE, reasons \union unknown).allocated <=> reasons # {}
      BY DEF ReversalImpact
    <3>2. tallied = ReversalImpact(TalliedLines(reversals, items, cogs, recognition.kind = "recognized"), reasons # {}, FALSE,
                                   reasons \union unknown)
      BY Zenon DEF TalliedImpact, reasons, unknown
    <3> QED
      BY <3>1, <3>2, Zenon
  <2> HIDE DEF v, reasons, unknown, tallied
  <2> QED
    BY <2>2, <2>3
<1>2. ASSUME NEW d \in reasons \union unknown PROVE d[1] # Unreconciled
  <2>1. PICK r \in ToSet(reversals) : d \in AllocatedBecause(r, ids) \/ d \in RestockUnknown(r, ids)
    BY <1>2
  <2> QED
    BY <2>1 DEF AllocatedBecause, RestockUnknown, When, diagnostic, Unreconciled
<1>3. ASSUME NEW r \in ToSet(reversals), r.lines = Null PROVE reasons # {}
  <2>1. <<"REVERSAL_LINES_ALLOCATED", "reversal", r.id>> \in AllocatedBecause(r, ids)
    BY <1>3 DEF AllocatedBecause, When, diagnostic
  <2> QED
    BY <2>1
<1>4. reversals = <<>> => ToSet(reversals) = {}
  BY DEF ToSet
<1> HIDE DEF v, reasons, unknown
<1>5. Unreconciled \notin Codes(v.diagnostics)
  <2>1. CASE v.diagnostics \in {{}, onOrder("RESTOCK_UNKNOWN")}
    BY <2>1 DEF Codes, onOrder, Unreconciled
  <2>2. CASE v.diagnostics = reasons \union unknown
    BY <1>2, <2>2 DEF Codes
  <2> QED
    BY <1>1, <2>1, <2>2
<1> QED
  BY <1>1, <1>3, <1>4, <1>5 DEF v

\* The collectors of the cash are the carriers charged for it.
LEMMA CollectorsAre ==
    ASSUME ShipmentsOK(input.shipments), Distinct(input.shipments)
    PROVE  LET shipments == ById(input.shipments)
               carriers  == {shipments[n].carrier : n \in LiveLegs(shipments, "outbound")}
               legs      == {n \in DOMAIN input.order.payments :
                                input.order.payments[n].instrument = "cod" /\ input.order.payments[n].state = "captured"}
           IN  Collectors = IF legs = {} THEN {} ELSE IF carriers = {} THEN {Null} ELSE carriers
<1> DEFINE shipments == ById(input.shipments)
           carriers  == {shipments[n].carrier : n \in LiveLegs(shipments, "outbound")}
           listed    == {input.shipments[n].carrier : n \in LiveLegs(input.shipments, "outbound")}
           legs      == {n \in DOMAIN input.order.payments :
                            input.order.payments[n].instrument = "cod" /\ input.order.payments[n].state = "captured"}
           none      == \A p \in ToSet(input.order.payments) : ~(p.instrument = "cod" /\ p.state = "captured")
<1>1. \A s \in ToSet(input.shipments) : s.id \in DOMAIN shipments /\ shipments[s.id] = s
  BY ByIdHasAll DEF ShipmentsOK
<1>2. \A n \in DOMAIN shipments : shipments[n] \in ToSet(input.shipments)
  BY ByIdIs DEF ShipmentsOK
<1>3. ToSet(input.shipments) = {input.shipments[n] : n \in DOMAIN input.shipments}
  BY DEF ToSet
<1>4. none <=> legs = {}
  BY DEF ToSet
<1>5. Collectors = IF none THEN {} ELSE IF listed = {} THEN {Null} ELSE listed
  BY Zenon DEF Collectors
<1> HIDE DEF shipments, legs, none
<1>6. listed \subseteq carriers
  <2> SUFFICES ASSUME NEW n \in LiveLegs(input.shipments, "outbound") PROVE input.shipments[n].carrier \in carriers
    OBVIOUS
  <2> DEFINE s == input.shipments[n]
  <2>1. s \in ToSet(input.shipments) /\ s.direction = "outbound" /\ s.status \in LIVE
    BY <1>3 DEF LiveLegs
  <2>2. s.id \in LiveLegs(shipments, "outbound") /\ shipments[s.id] = s
    BY <1>1, <2>1 DEF LiveLegs
  <2> QED
    BY <2>2
<1>7. carriers \subseteq listed
  <2> SUFFICES ASSUME NEW n \in LiveLegs(shipments, "outbound") PROVE shipments[n].carrier \in listed
    OBVIOUS
  <2>1. shipments[n] \in ToSet(input.shipments) /\ shipments[n].direction = "outbound" /\ shipments[n].status \in LIVE
    BY <1>2 DEF LiveLegs
  <2>2. PICK m \in DOMAIN input.shipments : shipments[n] = input.shipments[m]
    BY <1>3, <2>1
  <2>3. m \in LiveLegs(input.shipments, "outbound")
    BY <2>1, <2>2 DEF LiveLegs
  <2> QED
    BY <2>2, <2>3
<1> HIDE DEF carriers, listed
<1>8. listed = carriers
  BY <1>6, <1>7
<1> QED
  BY <1>4, <1>5, <1>8 DEF shipments, carriers, legs

\* An order that is graded at all has, for everything it costs, a figure from somewhere.
Sourced ==
    /\ input.items # <<>>
    /\ \A item \in ToSet(input.items) : CostsOf(item) # {}
    /\ \A s \in ToSet(input.shipments) :
           s.status # "cancelled" /\ s.carrierCost = Null =>
               input.order.fulfillmentMethod = "carrier" /\ CourierRulesOf(s) # {}
    /\ \A p \in ToSet(input.order.payments) : CHARGEABLE(p) => FeeRulesOf(p) # {}
    /\ \A c \in Collectors : CashRulesOf(c) # {}

\* An order that is graded exact has, for everything it costs, the figure of who knows it.
Known ==
    /\ \A i \in DOMAIN result.lines : \E c \in CostsOf(ById(input.items)[i]) : c.source \in EXACT_COST_SOURCES
    /\ \A s \in ToSet(input.shipments) : s.status # "cancelled" => s.carrierCost # Null
    /\ input.order.fulfillmentMethod = "carrier" =>
           input.order.lifecycle = "cancelled" \/ LiveLegs(input.shipments, "outbound") # {}
    /\ \A p \in ToSet(input.order.payments) :
           CHARGEABLE(p) => ~SchemeUnknown(p) /\ \E r \in FeeRulesOf(p) : r.source = "gateway_statement"
    /\ \A c \in Collectors : \E r \in CashRulesOf(c) : r.source = "gateway_statement"
    /\ input.order.paymentState = "paid" => CapturedTotal(input.order) >= input.order.total
    /\ \A r \in ToSet(input.reversals) : r.lines # Null \/ result.recognition.kind # "recognized"
    /\ \A d \in result.diagnostics :
           d[1] \notin {"RESTOCK_UNKNOWN", "REVERSAL_LINE_UNMATCHED", "TOTALS_DO_NOT_RECONCILE"}

LEMMA GradesHold == ASSUME LifeInv, Computed, result.recognition.kind # "excluded"
                    PROVE  /\ result.confidence.level # "incomplete" => Sourced
                           /\ result.confidence.level = "exact" => Known
<1> DEFINE items     == ById(input.items)
           shipments == ById(input.shipments)
           order     == input.order
           recog     == computeRecognition(input.order, shipments)
           cogs      == computeCogs(items, input.costs)
           t         == termsOf(input, items, shipments, recog, cogs)
           b         == basesOf(t, items, input.reversals)
           D         == diagnosticsOf(t)
           level     == result.confidence.level
<1>1. /\ result = computeOrderProfit(input) /\ computeOrderProfit(input).status = "computed"
      /\ Shaped(input)
  BY DEF LifeInv, Computed
<1>2. /\ normalizeAndValidate(input) = {} /\ result.recognition = recog /\ result.diagnostics = D
      /\ result.confidence = deriveConfidence(b, Codes(D))
      /\ result.lines = linesOf(t, items)
      /\ ~Overflows(input, t, totalsOf(t, linesOf(t, items)), linesOf(t, items))
  <2>1. t.recognition = recog
    BY DEF termsOf
  <2> HIDE DEF t
  <2> QED
    BY <1>1, <2>1, ComputedTerms DEF Codes, t
<1>3. /\ t.revenue = computeRevenue(order, items, recog) /\ t.cogs = cogs /\ t.recognition = recog
      /\ t.outbound = computeShippingCost(order, shipments, input.rules.shipping, "outbound")
      /\ t.returned = computeShippingCost(order, shipments, input.rules.shipping, "return")
      /\ t.gateway = computeGatewayFees(order, input.rules.gateway, input.store.vatRegistered)
      /\ t.cod = computeCodCost(order, shipments, input.rules.cod, input.store.vatRegistered)
      /\ t.reversal = computeReversalImpact(input.reversals, items, cogs.lines, recog, shipments,
                                            order.fulfillmentState \in DISPATCHED)
  BY DEF termsOf
<1> HIDE DEF recog, cogs, t, b, D
<1>4. ~Excluded(t)
  BY <1>2, <1>3 DEF Excluded
<1>5. /\ b.outbound = t.outbound.basis /\ b.returned = t.returned.basis /\ b.gateway = t.gateway.basis
      /\ b.cod = t.cod.basis /\ b.reconciles = t.revenue.reconciles
      /\ DOMAIN items # {} => b.cogs = WorstBasis(cogs.anyMissing, cogs.anyEstimated \/ t.reversal.inferredRestock)
      /\ b.reversal # "allocated" => input.reversals = <<>> \/ ~t.reversal.allocated
  BY <1>3, <1>4 DEF b, basesOf
<1>6. /\ level = "exact" =>
             /\ {b.cogs, b.outbound, b.returned, b.gateway, b.cod} \subseteq SETTLED
             /\ b.reversal # "allocated" /\ b.reconciles
             /\ Codes(D) \intersect {"RESTOCK_UNKNOWN", "REVERSAL_LINE_UNMATCHED", "ORDER_HAS_NO_ITEMS"} = {}
      /\ level # "incomplete" =>
             /\ "missing" \notin {b.cogs, b.outbound, b.returned, b.gateway, b.cod}
             /\ "ORDER_HAS_NO_ITEMS" \notin Codes(D)
  BY <1>2, GradeIs
<1>7. Distinct(input.items) /\ Distinct(input.shipments) /\ order.total \in Int
  BY <1>2, DistinctIds
<1>8. /\ IsList(input.items) /\ IsList(input.costs) /\ ShipmentsOK(input.shipments) /\ IsList(input.shipments)
      /\ IsList(input.rules.gateway) /\ IsList(input.rules.cod)
  BY <1>1 DEF Shaped, ItemsOK, ShipmentsOK, RulesOK
<1>9. /\ \A item \in ToSet(input.items) : item.id \in DOMAIN items /\ items[item.id] = item
      /\ \A s \in ToSet(input.shipments) : s.id \in DOMAIN shipments /\ shipments[s.id] = s
      /\ \A n \in DOMAIN shipments : shipments[n] \in ToSet(input.shipments)
  BY <1>7, <1>8, ByIdHasAll, ByIdIs
<1>10. ASSUME NEW s \in ToSet(input.shipments), s.status # "cancelled"
       PROVE  /\ s.direction \in {"outbound", "return"}
              /\ s.id \in LiveLegs(shipments, s.direction) /\ shipments[s.id] = s
  <2>1. HasCourse(s)
    BY <1>8 DEF ShipmentsOK
  <2> QED
    BY <1>9, <1>10, <2>1 DEF HasCourse, LiveLegs, LIVE
<1>11. CapturedTotal(order) \in Int
  <2>1. validMinor(CapturedTotal(order))
    BY <1>2, Zenon DEF Overflows
  <2> QED
    BY <2>1, MinorIsInt
<1>12. \A p \in ToSet(order.payments) : \E n \in DOMAIN order.payments : p = order.payments[n]
  BY DEF ToSet
<1> DEFINE legs     == {n \in DOMAIN order.payments :
                           order.payments[n].instrument = "cod" /\ order.payments[n].state = "captured"}
           carriers == {shipments[n].carrier : n \in LiveLegs(shipments, "outbound")}
           charged  == IF carriers = {} THEN {Null} ELSE carriers
<1>13. Collectors = IF legs = {} THEN {} ELSE charged
  BY <1>7, <1>8, CollectorsAre
<1> DEFINE cash == computeCodCost(order, shipments, input.rules.cod, input.store.vatRegistered)
<1>14. /\ legs # {} /\ cash.basis # "missing" => \A c \in charged : CashRulesOf(c) # {}
       /\ legs # {} /\ cash.basis \in SETTLED =>
              \A c \in charged : \E r \in CashRulesOf(c) : r.source = "gateway_statement"
       /\ Unreconciled \notin Codes(cash.diagnostics)
  <2> HIDE DEF shipments
  <2> QED
    BY <1>8, CashGrade, Zenon DEF CashRulesOf
<1>15. t.cod = cash
  BY <1>3
<1> HIDE DEF items, shipments, level, legs, charged, cash
<1>16. ASSUME level # "incomplete" PROVE Sourced
  <2>1. /\ b.cogs # "missing" /\ b.outbound # "missing" /\ b.returned # "missing" /\ b.gateway # "missing"
        /\ b.cod # "missing" /\ "ORDER_HAS_NO_ITEMS" \notin Codes(D)
    BY <1>6, <1>16
  <2>2. DOMAIN items # {}
    <3>1. "ORDER_HAS_NO_ITEMS" \notin Codes(t.revenue.diagnostics)
      BY <2>1 DEF D, diagnosticsOf, Codes
    <3> QED
      BY <1>3, <3>1, RevenueGrade
  <2>3. input.items # <<>>
    BY <2>2 DEF items, ById, ToSet
  <2>4. ASSUME NEW item \in ToSet(input.items) PROVE CostsOf(item) # {}
    <3>1. ~cogs.anyMissing
      BY <1>5, <2>1, <2>2 DEF WorstBasis
    <3>2. ResolvedCost(item, input.costs) # Null
      BY <1>9, <3>1, CogsGrade DEF cogs
    <3> QED
      BY <1>8, <3>2, CostIs DEF CostsOf
  <2>5. ASSUME NEW s \in ToSet(input.shipments), s.status # "cancelled", s.carrierCost = Null
        PROVE  order.fulfillmentMethod = "carrier" /\ CourierRulesOf(s) # {}
    <3>1. /\ order.fulfillmentMethod = "carrier"
          /\ matchShippingRule(input.rules.shipping, order, s.carrier, s.direction) # Null
      BY <1>3, <1>5, <1>10, <2>1, <2>5, ShippingGrade
    <3> QED
      BY <3>1, CourierRuleIs DEF CourierRulesOf
  <2>6. ASSUME NEW p \in ToSet(order.payments), CHARGEABLE(p) PROVE FeeRulesOf(p) # {}
    <3>1. GatewayRule(p, input.rules.gateway, input.store.vatRegistered) # Null
      BY <1>3, <1>5, <1>12, <2>1, <2>6, FeeGrade
    <3> QED
      BY <3>1, FeeRuleIs DEF FeeRulesOf
  <2>7. ASSUME NEW c \in Collectors PROVE CashRulesOf(c) # {}
    BY <1>5, <1>13, <1>14, <1>15, <2>1
  <2> QED
    BY <2>3, <2>4, <2>5, <2>6, <2>7 DEF Sourced
<1>17. ASSUME level = "exact" PROVE Known
  <2>1. /\ b.cogs \in SETTLED /\ b.outbound \in SETTLED /\ b.returned \in SETTLED /\ b.gateway \in SETTLED
        /\ b.cod \in SETTLED /\ b.reversal # "allocated" /\ b.reconciles
        /\ \A d \in D : d[1] \notin {"RESTOCK_UNKNOWN", "REVERSAL_LINE_UNMATCHED"}
    BY <1>6, <1>17 DEF Codes
  <2>2. ASSUME NEW i \in DOMAIN result.lines
        PROVE  \E c \in CostsOf(ById(input.items)[i]) : c.source \in EXACT_COST_SOURCES
    <3>1. i \in DOMAIN items
      BY <1>2, <1>4, <2>2, LineCarries DEF linesOf
    <3>2. ~cogs.anyMissing /\ ~cogs.anyEstimated
      BY <1>5, <2>1, <3>1 DEF WorstBasis, SETTLED
    <3>3. ResolvedCost(items[i], input.costs) # Null /\ ResolvedCost(items[i], input.costs).source \in EXACT_COST_SOURCES
      BY <3>1, <3>2, CogsGrade DEF cogs
    <3> QED
      BY <1>8, <3>3, CostIs DEF CostsOf, items
  <2>3. ASSUME NEW s \in ToSet(input.shipments), s.status # "cancelled" PROVE s.carrierCost # Null
    BY <1>3, <1>5, <1>10, <2>1, <2>3, ShippingGrade
  <2>4. ASSUME order.fulfillmentMethod = "carrier", order.lifecycle # "cancelled"
        PROVE  LiveLegs(input.shipments, "outbound") # {}
    <3>1. PICK n \in LiveLegs(shipments, "outbound") : TRUE
      BY <1>3, <1>5, <2>1, <2>4, ShippingGrade
    <3>2. n \in DOMAIN shipments /\ shipments[n].direction = "outbound" /\ shipments[n].status \in LIVE
      BY <3>1 DEF LiveLegs
    <3>3. PICK m \in DOMAIN input.shipments : shipments[n] = input.shipments[m]
      BY <1>9, <3>2 DEF ToSet
    <3> QED
      BY <3>2, <3>3 DEF LiveLegs
  <2>5. ASSUME NEW p \in ToSet(order.payments), CHARGEABLE(p)
        PROVE  ~SchemeUnknown(p) /\ \E r \in FeeRulesOf(p) : r.source = "gateway_statement"
    <3>1. b.gateway # "missing"
      BY <2>1 DEF SETTLED
    <3>2. LET rule == GatewayRule(p, input.rules.gateway, input.store.vatRegistered)
          IN  rule # Null /\ ~SchemeUnknown(p) /\ rule.source = "gateway_statement"
      BY <1>3, <1>5, <1>12, <2>1, <2>5, <3>1, FeeGrade
    <3> QED
      BY <1>8, <3>2, FeeRuleIs DEF FeeRulesOf
  <2>6. ASSUME NEW c \in Collectors PROVE \E r \in CashRulesOf(c) : r.source = "gateway_statement"
    BY <1>5, <1>13, <1>14, <1>15, <2>1
  <2>7. order.paymentState = "paid" => CapturedTotal(order) >= order.total
    <3>1. b.gateway # "missing"
      BY <2>1 DEF SETTLED
    <3>2. ~(order.paymentState = "paid" /\ CapturedTotal(order) < order.total)
      BY <1>3, <1>5, <3>1, FeeGrade
    <3> QED
      BY <1>7, <1>11, <3>2
  <2>8. ASSUME NEW r \in ToSet(input.reversals), result.recognition.kind = "recognized" PROVE r.lines # Null
    BY <1>2, <1>3, <1>5, <2>1, <2>8, ReversalGrade
  <2>9. ASSUME NEW d \in D PROVE d[1] # Unreconciled
    <3>1. Unreconciled \notin Codes(t.revenue.diagnostics)
      BY <1>3, <1>5, <2>1, RevenueGrade
    <3>2. /\ Unreconciled \notin Codes(t.cogs.diagnostics) /\ Unreconciled \notin Codes(t.outbound.diagnostics)
          /\ Unreconciled \notin Codes(t.returned.diagnostics) /\ Unreconciled \notin Codes(t.gateway.diagnostics)
          /\ Unreconciled \notin Codes(t.cod.diagnostics) /\ Unreconciled \notin Codes(t.reversal.diagnostics)
      <4>1. Unreconciled \notin Codes(t.cogs.diagnostics)
        BY <1>3, CogsGrade DEF cogs
      <4>2. Unreconciled \notin Codes(t.outbound.diagnostics) /\ Unreconciled \notin Codes(t.returned.diagnostics)
        BY <1>3, ShippingGrade
      <4>3. Unreconciled \notin Codes(t.gateway.diagnostics)
        BY <1>3, FeeGrade
      <4>4. Unreconciled \notin Codes(t.cod.diagnostics)
        BY <1>14, <1>15
      <4>5. Unreconciled \notin Codes(t.reversal.diagnostics)
        BY <1>3, ReversalGrade
      <4> QED
        BY <4>1, <4>2, <4>3, <4>4, <4>5
    <3> QED
      BY <3>1, <3>2 DEF D, diagnosticsOf, Codes
  <2> QED
    BY <1>2, <2>1, <2>2, <2>3, <2>4, <2>5, <2>6, <2>7, <2>8, <2>9 DEF Known, Unreconciled
<1> QED
  BY <1>16, <1>17 DEF level

\* At every moment of every order's life the engine is only as sure as its sources: what it calls
\* exact has nothing guessed, inferred or missing in it, and what may be ranked among the loss makers
\* has a cost, an invoice or a rule behind every item, parcel, payment and collection.
THEOREM LifeIsGradedRight == Spec => []GradesAreEarned
<1>1. LifeInv => GradesAreEarned
  <2> SUFFICES ASSUME LifeInv, Computed PROVE GradesAreEarned
    BY DEF GradesAreEarned, ExactMeansKnown, RankedMarginsAreNumbers
  <2>1. ExactMeansKnown
    BY GradesHold DEF ExactMeansKnown, Known
  <2>2. RankedMarginsAreNumbers
    BY GradesHold DEF RankedMarginsAreNumbers, Sourced, isRankableForLossMaker
  <2> QED
    BY <2>1, <2>2 DEF GradesAreEarned
<1> QED
  BY <1>1, LifeInit, LifeNext, PTL DEF Spec
=============================================================================
