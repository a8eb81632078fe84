------------------------------ MODULE SetFacts ------------------------------
(***************************************************************************)
(* Facts about finite sets and sums that the proofs of several modules     *)
(* rest on, whatever the sets hold.  An induction over data is stated with *)
(* a set of counterexamples: were there one, there would be a smallest.    *)
(***************************************************************************)
EXTENDS Integers, FiniteSetsExt, Functions, FiniteSetTheorems, WellFoundedInduction, TLAPS

(* A set of natural numbers has a least one.                               *)
LEMMA Least == ASSUME NEW T \in SUBSET Nat, T # {} PROVE \E m \in T : \A n \in T : m <= n
<1> DEFINE R == OpToRel(<, Nat)
<1>1. \A m, n \in Nat : <<m, n>> \in R <=> m < n
  BY DEF OpToRel
<1>2. IsWellFoundedOn(R, Nat)
  BY NatLessThanWellFounded
<1> HIDE DEF R
<1>3. PICK x \in T : \A y \in T : ~(<<y, x>> \in R)
  BY <1>2, WFMin
<1>4. \A y \in T : ~(y < x)
  BY <1>1, <1>3
<1> QED BY <1>4

-----------------------------------------------------------------------------
(* Sums.  SumFunctionOnSet is a fold: the function that its recursion      *)
(* defines on the subsets exists, and there is one.                        *)

Pick(s) == CHOOSE x \in s : TRUE
IsFold(g, f, S) ==
  g = [s \in SUBSET S |-> IF s = {} THEN 0 ELSE f[Pick(s)] + g[s \ {Pick(s)}]]
LEMMA SumIsFold == ASSUME NEW f, NEW S
 PROVE SumFunctionOnSet(f, S) = (CHOOSE g : IsFold(g, f, S))[S]
BY DEF SumFunctionOnSet, FoldFunctionOnSet, MapThenFoldSet, IsFold, Pick

(* Of any subsets of a finite set, one has no other of them within it.     *)
LEMMA SmallestSet ==
  ASSUME NEW S, IsFiniteSet(S), NEW B, B \subseteq SUBSET S, B # {}
  PROVE  \E s \in B : \A t \in B : t \subseteq s => t = s
<1>1. IsWellFoundedOn(StrictSubsetOrdering(S), SUBSET S)
  BY FS_StrictSubsetOrderingWellFounded, FS_FiniteSubsetsOfFinite
<1>2. PICK s \in B : \A t \in B : ~(<<t, s>> \in StrictSubsetOrdering(S))
  BY <1>1, WFMin
<1>3. \A t \in B : t \subseteq s /\ t # s => <<t, s>> \in StrictSubsetOrdering(S)
  BY DEF StrictSubsetOrdering
<1>4. \A t \in B : t \subseteq s => t = s
  BY <1>2, <1>3, Zenon
<1> QED
  BY <1>4

LEMMA PickIn == ASSUME NEW s, s # {} PROVE Pick(s) \in s
BY DEF Pick

LEMMA FoldAt ==
  ASSUME NEW f, NEW g, NEW S, IsFold(g, f, S)
  PROVE  /\ g[{}] = 0
         /\ \A s \in SUBSET S : s # {} => g[s] = f[Pick(s)] + g[s \ {Pick(s)}]
BY DEF IsFold

LEMMA FoldsAgree ==
  ASSUME NEW f, NEW g, NEW h, NEW S, NEW T, IsFold(g, f, S), IsFold(h, f, T),
         IsFiniteSet(S), S \subseteq T
  PROVE  g[S] = h[S]
<1> DEFINE B == {s \in SUBSET S : g[s] # h[s]}
<1> SUFFICES B = {}
  OBVIOUS
<1>1. SUFFICES ASSUME B # {} PROVE FALSE
  OBVIOUS
<1>2. PICK s \in B : \A t \in B : t \subseteq s => t = s
  <2>1. B \subseteq SUBSET S
    OBVIOUS
  <2> HIDE DEF B
  <2> QED
    BY <1>1, <2>1, SmallestSet
<1>3. s # {}
  BY <1>2, FoldAt
<1>4. Pick(s) \in s /\ s \ {Pick(s)} \notin B
  BY <1>2, <1>3, PickIn
<1>5. g[s \ {Pick(s)}] = h[s \ {Pick(s)}]
  BY <1>4
<1> QED
  BY <1>2, <1>3, <1>5, FoldAt

LEMMA FoldExists ==
  ASSUME NEW f, NEW S, IsFiniteSet(S)
  PROVE  \E g : IsFold(g, f, S)
<1> DEFINE B == {T \in SUBSET S : ~\E g : IsFold(g, f, T)}
<1> SUFFICES B = {}
  OBVIOUS
<1>1. SUFFICES ASSUME B # {} PROVE FALSE
  OBVIOUS
<1>2. PICK T \in B : \A U \in B : U \subseteq T => U = T
  <2>1. B \subseteq SUBSET S
    OBVIOUS
  <2> HIDE DEF B
  <2> QED
    BY <1>1, <2>1, SmallestSet
<1> DEFINE Fold(U) == CHOOSE g : IsFold(g, f, U)
           Less(U) == U \ {Pick(U)}
           h == [U \in SUBSET T |-> IF U = {} THEN 0 ELSE f[Pick(U)] + Fold(Less(U))[Less(U)]]
<1>3. \A U \in SUBSET T : U # T => IsFold(Fold(U), f, U)
  BY <1>2
<1>4. \A U \in SUBSET T : IsFiniteSet(U)
  BY FS_Subset
<1>5. ASSUME NEW U \in SUBSET T, U # {}
      PROVE  Less(U) \in SUBSET T /\ Less(U) # T
  BY <1>5, PickIn
<1>6. ASSUME NEW W \in SUBSET T, W # T PROVE Fold(W)[W] = h[W]
  <2>1. CASE W = {}
    BY <1>3, <1>6, <2>1, FoldAt
  <2>2. CASE W # {}
    <3>1. Less(W) \subseteq W /\ Less(W) \in SUBSET T /\ Less(W) # T
      BY <1>5, <2>2
    <3>2. Fold(Less(W))[Less(W)] = Fold(W)[Less(W)]
      <4> HIDE DEF Fold, Less
      <4> QED
        BY <1>3, <1>4, <1>6, <3>1, FoldsAgree
    <3>3. Fold(W)[W] = f[Pick(W)] + Fold(W)[Less(W)]
      <4> HIDE DEF Fold
      <4>1. IsFold(Fold(W), f, W)
        BY <1>3, <1>6
      <4> QED
        BY <2>2, <4>1, FoldAt
    <3> QED
      BY <2>2, <3>2, <3>3
  <2> QED
    BY <2>1, <2>2
<1>7. IsFold(h, f, T)
  <2>1. ASSUME NEW U \in SUBSET T, U # {} PROVE Fold(Less(U))[Less(U)] = h[Less(U)]
    <3> HIDE DEF Fold, Less, h
    <3> QED
      BY <1>5, <1>6, <2>1
  <2>2. h = [U \in SUBSET T |-> IF U = {} THEN 0 ELSE f[Pick(U)] + h[Less(U)]]
    <3> HIDE DEF Fold, Less
    <3> QED BY <2>1
  <2> QED
    BY <2>2 DEF IsFold
<1> QED
  BY <1>2, <1>7

(* The sum over no element, and over one that is picked and the rest.      *)
LEMMA SumEmpty == ASSUME NEW f PROVE SumFunctionOnSet(f, {}) = 0
<1>1. IsFiniteSet({})
  BY FS_EmptySet
<1> QED
  BY <1>1, SumIsFold, FoldExists, FoldAt

LEMMA SumPicked ==
  ASSUME NEW f, NEW S, IsFiniteSet(S), S # {}
  PROVE  SumFunctionOnSet(f, S) = f[Pick(S)] + SumFunctionOnSet(f, S \ {Pick(S)})
<1> DEFINE rest == S \ {Pick(S)}
<1>1. IsFiniteSet(rest)
  BY FS_Subset
<1>2. PICK g : IsFold(g, f, S) /\ SumFunctionOnSet(f, S) = g[S]
  BY SumIsFold, FoldExists
<1>3. PICK h : IsFold(h, f, rest) /\ SumFunctionOnSet(f, rest) = h[rest]
  BY <1>1, SumIsFold, FoldExists
<1>4. g[rest] = h[rest]
  <2> HIDE DEF rest
  <2>1. rest \subseteq S
    BY DEF rest
  <2> QED
    BY <1>1, <1>2, <1>3, <2>1, FoldsAgree
<1> QED
  BY <1>2, <1>3, <1>4, FoldAt

(* A sum of natural numbers is one.                                        *)
LEMMA SumType ==
  ASSUME NEW f, NEW S, IsFiniteSet(S), \A s \in S : f[s] \in Nat
  PROVE  SumFunctionOnSet(f, S) \in Nat
<1> DEFINE B == {T \in SUBSET S : SumFunctionOnSet(f, T) \notin Nat}
<1> SUFFICES B = {}
  OBVIOUS
<1>1. SUFFICES ASSUME B # {} PROVE FALSE
  OBVIOUS
<1>2. PICK T \in B : \A U \in B : U \subseteq T => U = T
  <2>1. B \subseteq SUBSET S
    OBVIOUS
  <2> HIDE DEF B
  <2> QED
    BY <1>1, <2>1, SmallestSet
<1>3. T # {}
  <2>1. SumFunctionOnSet(f, T) \notin Nat
    BY <1>2
  <2> QED
    BY <2>1, SumEmpty
<1>4. Pick(T) \in T /\ T \ {Pick(T)} \notin B /\ IsFiniteSet(T)
  BY <1>2, <1>3, PickIn, FS_Subset
<1>5. SumFunctionOnSet(f, T \ {Pick(T)}) \in Nat
  BY <1>4
<1>6. SumFunctionOnSet(f, T) = f[Pick(T)] + SumFunctionOnSet(f, T \ {Pick(T)})
  BY <1>3, <1>4, SumPicked
<1> QED
  BY <1>2, <1>4, <1>5, <1>6

(* Any element may be taken out first.                                     *)
LEMMA SumTakeOut ==
  ASSUME NEW f, NEW S, IsFiniteSet(S), \A s \in S : f[s] \in Nat, NEW x \in S
  PROVE  SumFunctionOnSet(f, S) = f[x] + SumFunctionOnSet(f, S \ {x})
<1> DEFINE TakesOut(T) == \A y \in T :
             SumFunctionOnSet(f, T) = f[y] + SumFunctionOnSet(f, T \ {y})
           B == {T \in SUBSET S : ~TakesOut(T)}
<1> SUFFICES B = {}
  OBVIOUS
<1>1. SUFFICES ASSUME B # {} PROVE FALSE
  OBVIOUS
<1>2. PICK T \in B : \A U \in B : U \subseteq T => U = T
  <2>1. B \subseteq SUBSET S
    OBVIOUS
  <2> HIDE DEF B
  <2> QED
    BY <1>1, <2>1, SmallestSet
<1>3. PICK y \in T : SumFunctionOnSet(f, T) # f[y] + SumFunctionOnSet(f, T \ {y})
  BY <1>2
<1> DEFINE p == Pick(T)
<1>4. p \in T /\ SumFunctionOnSet(f, T) = f[p] + SumFunctionOnSet(f, T \ {p})
  BY <1>3, PickIn, SumPicked, FS_Subset
<1>5. p # y
  BY <1>3, <1>4
<1> HIDE DEF p
<1>6. TakesOut(T \ {p}) /\ TakesOut(T \ {y})
  BY <1>2, <1>3, <1>4
<1>7. /\ SumFunctionOnSet(f, T \ {p}) = f[y] + SumFunctionOnSet(f, (T \ {p}) \ {y})
      /\ SumFunctionOnSet(f, T \ {y}) = f[p] + SumFunctionOnSet(f, (T \ {y}) \ {p})
  BY <1>3, <1>4, <1>5, <1>6
<1>8. (T \ {p}) \ {y} = (T \ {y}) \ {p}
  OBVIOUS
<1>9. SumFunctionOnSet(f, (T \ {p}) \ {y}) \in Nat
  BY SumType, FS_Subset
<1> QED
  BY <1>3, <1>4, <1>7, <1>8, <1>9

(* Where the functions agree, so do their sums.                            *)
LEMMA SumSame ==
  ASSUME NEW f, NEW g, NEW S, IsFiniteSet(S), \A s \in S : f[s] = g[s]
  PROVE  SumFunctionOnSet(f, S) = SumFunctionOnSet(g, S)
<1> DEFINE B == {T \in SUBSET S : SumFunctionOnSet(f, T) # SumFunctionOnSet(g, T)}
<1> SUFFICES B = {}
  OBVIOUS
<1>1. SUFFICES ASSUME B # {} PROVE FALSE
  OBVIOUS
<1>2. PICK T \in B : \A U \in B : U \subseteq T => U = T
  <2>1. B \subseteq SUBSET S
    OBVIOUS
  <2> HIDE DEF B
  <2> QED
    BY <1>1, <2>1, SmallestSet
<1>3. T # {} /\ IsFiniteSet(T)
  BY <1>2, SumEmpty, FS_Subset
<1>4. Pick(T) \in T /\ T \ {Pick(T)} \notin B
  BY <1>2, <1>3, PickIn
<1>5. SumFunctionOnSet(f, T \ {Pick(T)}) = SumFunctionOnSet(g, T \ {Pick(T)})
  BY <1>4
<1> QED
  BY <1>2, <1>3, <1>4, <1>5, SumPicked

(* No more than so much for each.                                          *)
LEMMA SumBound ==
  ASSUME NEW f, NEW S, IsFiniteSet(S), NEW k \in Nat,
         \A s \in S : f[s] \in Nat /\ f[s] <= k
  PROVE  SumFunctionOnSet(f, S) <= Cardinality(S) * k
<1> DEFINE B == {T \in SUBSET S : ~(SumFunctionOnSet(f, T) <= Cardinality(T) * k)}
<1> SUFFICES B = {}
  OBVIOUS
<1>1. SUFFICES ASSUME B # {} PROVE FALSE
  OBVIOUS
<1>2. PICK T \in B : \A U \in B : U \subseteq T => U = T
  <2>1. B \subseteq SUBSET S
    OBVIOUS
  <2> HIDE DEF B
  <2> QED
    BY <1>1, <2>1, SmallestSet
<1>3. T # {} /\ IsFiniteSet(T)
  BY <1>2, SumEmpty, FS_Subset, FS_EmptySet
<1> DEFINE rest == T \ {Pick(T)}
<1>4. Pick(T) \in T /\ rest \notin B
  BY <1>2, <1>3, PickIn
<1>5. /\ Cardinality(rest) \in Nat /\ Cardinality(T) = Cardinality(rest) + 1
      /\ IsFiniteSet(rest)
  <2>1. Cardinality(rest) = Cardinality(T) - 1 /\ IsFiniteSet(rest)
    BY <1>3, <1>4, FS_RemoveElement
  <2> QED
    BY <1>3, <2>1, FS_CardinalityType
<1>6. SumFunctionOnSet(f, rest) <= Cardinality(rest) * k
  BY <1>4
<1>7. SumFunctionOnSet(f, T) = f[Pick(T)] + SumFunctionOnSet(f, rest)
  BY <1>3, SumPicked
<1>8. SumFunctionOnSet(f, rest) \in Nat
  BY <1>5, SumType
<1>9. (Cardinality(rest) + 1) * k = Cardinality(rest) * k + k
  BY <1>5
<1>10. f[Pick(T)] \in Nat /\ f[Pick(T)] <= k
  BY <1>4
<1>11. Cardinality(rest) * k \in Nat
  BY <1>5
<1> HIDE DEF rest, B
<1>12. SumFunctionOnSet(f, T) <= Cardinality(T) * k
  BY <1>5, <1>6, <1>7, <1>8, <1>9, <1>10, <1>11
<1> QED
  BY <1>2, <1>12 DEF B

(* No less where each is no less.                                          *)
LEMMA SumLess ==
  ASSUME NEW f, NEW g, NEW S, IsFiniteSet(S),
         \A s \in S : f[s] \in Nat /\ g[s] \in Nat /\ f[s] <= g[s]
  PROVE  SumFunctionOnSet(f, S) <= SumFunctionOnSet(g, S)
<1> DEFINE B == {T \in SUBSET S : ~(SumFunctionOnSet(f, T) <= SumFunctionOnSet(g, T))}
<1> SUFFICES B = {}
  OBVIOUS
<1>1. SUFFICES ASSUME B # {} PROVE FALSE
  OBVIOUS
<1>2. PICK T \in B : \A U \in B : U \subseteq T => U = T
  <2>1. B \subseteq SUBSET S
    OBVIOUS
  <2> HIDE DEF B
  <2> QED
    BY <1>1, <2>1, SmallestSet
<1>3. T # {} /\ IsFiniteSet(T)
  <2>1. ~(SumFunctionOnSet(f, T) <= SumFunctionOnSet(g, T)) /\ T \subseteq S
    BY <1>2
  <2> QED
    <3>1. SumFunctionOnSet(f, {}) <= SumFunctionOnSet(g, {})
      BY SumEmpty
    <3> QED
      BY <2>1, <3>1, FS_Subset
<1> DEFINE rest == T \ {Pick(T)}
<1>4. Pick(T) \in T /\ rest \notin B /\ IsFiniteSet(rest)
  BY <1>2, <1>3, PickIn, FS_Subset
<1>5. SumFunctionOnSet(f, rest) <= SumFunctionOnSet(g, rest)
  BY <1>4
<1>6. /\ SumFunctionOnSet(f, T) = f[Pick(T)] + SumFunctionOnSet(f, rest)
      /\ SumFunctionOnSet(g, T) = g[Pick(T)] + SumFunctionOnSet(g, rest)
  BY <1>3, SumPicked
<1>7. SumFunctionOnSet(f, rest) \in Nat /\ SumFunctionOnSet(g, rest) \in Nat
  BY <1>4, SumType
<1>8. f[Pick(T)] \in Nat /\ g[Pick(T)] \in Nat /\ f[Pick(T)] <= g[Pick(T)]
  BY <1>2, <1>4
<1>9. ~(SumFunctionOnSet(f, T) <= SumFunctionOnSet(g, T))
  BY <1>2
<1> HIDE DEF rest, B
<1> QED
  BY <1>5, <1>6, <1>7, <1>8, <1>9

(* One summand changes, or one element is left out or put in.              *)
LEMMA SumChanged ==
  ASSUME NEW f, NEW g, NEW S, IsFiniteSet(S), NEW x \in S,
         \A s \in S : f[s] \in Nat /\ g[s] \in Nat,
         \A s \in S \ {x} : f[s] = g[s]
  PROVE  SumFunctionOnSet(g, S) + f[x] = SumFunctionOnSet(f, S) + g[x]
<1>1. IsFiniteSet(S \ {x})
  BY FS_Subset
<1>2. SumFunctionOnSet(f, S \ {x}) = SumFunctionOnSet(g, S \ {x})
  BY <1>1, SumSame
<1>3. SumFunctionOnSet(f, S \ {x}) \in Nat
  BY <1>1, SumType
<1>4. /\ SumFunctionOnSet(f, S) = f[x] + SumFunctionOnSet(f, S \ {x})
      /\ SumFunctionOnSet(g, S) = g[x] + SumFunctionOnSet(g, S \ {x})
  BY SumTakeOut
<1> QED
  BY <1>2, <1>3, <1>4

(* What some of them come to is no more than all do.                       *)
LEMMA SumOfPart ==
  ASSUME NEW f, NEW S, IsFiniteSet(S), NEW T \in SUBSET S, \A s \in S : f[s] \in Nat
  PROVE  SumFunctionOnSet(f, T) <= SumFunctionOnSet(f, S)
<1> DEFINE B == {U \in SUBSET S : ~(SumFunctionOnSet(f, T \cap U) <= SumFunctionOnSet(f, U))}
<1>1. B = {}
  <2>1. SUFFICES ASSUME B # {} PROVE FALSE
    OBVIOUS
  <2>2. PICK U \in B : \A V \in B : V \subseteq U => V = U
    <3>1. B \subseteq SUBSET S
      OBVIOUS
    <3> HIDE DEF B
    <3> QED
      BY <2>1, <3>1, SmallestSet
  <2>3. U \subseteq S /\ IsFiniteSet(U) /\ IsFiniteSet(T \cap U)
    BY <2>2, FS_Subset
  <2>4. U # {}
    <3>1. SUFFICES ASSUME U = {} PROVE FALSE
      OBVIOUS
    <3>2. T \cap U = {}
      BY <3>1
    <3>3. SumFunctionOnSet(f, T \cap U) = 0 /\ SumFunctionOnSet(f, U) = 0
      BY <3>1, <3>2, SumEmpty
    <3> QED
      BY <2>2, <3>3
  <2> DEFINE x == Pick(U)
             V == U \ {x}
  <2>5. x \in U /\ V \in SUBSET S /\ V \notin B
    BY <2>2, <2>3, <2>4, PickIn
  <2>6. SumFunctionOnSet(f, T \cap V) <= SumFunctionOnSet(f, V)
    BY <2>5
  <2>7. SumFunctionOnSet(f, U) = f[x] + SumFunctionOnSet(f, V)
    BY <2>3, <2>4, SumPicked
  <2> HIDE DEF x
  <2>8. f[x] \in Nat /\ SumFunctionOnSet(f, V) \in Nat /\ SumFunctionOnSet(f, T \cap V) \in Nat
    <3>1. IsFiniteSet(V) /\ IsFiniteSet(T \cap V)
      BY <2>3, FS_Subset
    <3> QED
      BY <2>3, <2>5, <3>1, SumType
  <2>9. SumFunctionOnSet(f, T \cap U) \in {SumFunctionOnSet(f, T \cap V), f[x] + SumFunctionOnSet(f, T \cap V)}
    <3>1. CASE x \in T
      <4>1. (T \cap U) \ {x} = T \cap V /\ x \in T \cap U
        BY <2>5, <3>1
      <4> HIDE DEF V
      <4> QED
        BY <2>3, <4>1, SumTakeOut
    <3>2. CASE x \notin T
      <4>1. T \cap U = T \cap V
        BY <3>2
      <4> QED
        BY <4>1
    <3> QED
      BY <3>1, <3>2
  <2> HIDE DEF V, B
  <2>10. SumFunctionOnSet(f, T \cap U) <= SumFunctionOnSet(f, U)
    BY <2>6, <2>7, <2>8, <2>9
  <2> QED
    BY <2>2, <2>10 DEF B
<1>2. SumFunctionOnSet(f, T \cap S) <= SumFunctionOnSet(f, S)
  BY <1>1
<1>3. T \cap S = T
  OBVIOUS
<1> QED
  BY <1>2, <1>3

(* If one summand is smaller and none is greater, so is the sum.           *)
LEMMA SumStrictlyLess ==
  ASSUME NEW f, NEW g, NEW S, IsFiniteSet(S), NEW x \in S,
         \A s \in S : f[s] \in Nat /\ g[s] \in Nat /\ f[s] <= g[s],
         f[x] < g[x]
  PROVE  SumFunctionOnSet(f, S) < SumFunctionOnSet(g, S)
<1>1. /\ SumFunctionOnSet(f, S) = f[x] + SumFunctionOnSet(f, S \ {x})
      /\ SumFunctionOnSet(g, S) = g[x] + SumFunctionOnSet(g, S \ {x})
  BY SumTakeOut
<1>2. IsFiniteSet(S \ {x})
  BY FS_RemoveElement
<1>3. /\ SumFunctionOnSet(f, S \ {x}) \in Nat
      /\ SumFunctionOnSet(g, S \ {x}) \in Nat
      /\ SumFunctionOnSet(f, S \ {x}) <= SumFunctionOnSet(g, S \ {x})
  BY <1>2, SumType, SumLess
<1> QED
  BY <1>1, <1>3

(* Where every summand is nothing, so is the sum.                          *)
LEMMA SumOfNothing ==
  ASSUME NEW f, NEW S, IsFiniteSet(S), \A s \in S : f[s] = 0
  PROVE  SumFunctionOnSet(f, S) = 0
<1>1. /\ SumFunctionOnSet(f, S) <= Cardinality(S) * 0
      /\ SumFunctionOnSet(f, S) \in Nat /\ Cardinality(S) \in Nat
  BY SumBound, SumType, FS_CardinalityType
<1> QED
  BY <1>1

(* Each summand multiplied, the sum is.                                    *)
LEMMA SumScale ==
  ASSUME NEW f, NEW g, NEW S, IsFiniteSet(S), NEW c \in Nat,
         \A s \in S : f[s] \in Nat /\ g[s] = f[s] * c
  PROVE  SumFunctionOnSet(g, S) = SumFunctionOnSet(f, S) * c
<1> DEFINE B == {T \in SUBSET S : SumFunctionOnSet(g, T) # SumFunctionOnSet(f, T) * c}
<1> SUFFICES B = {}
  OBVIOUS
<1>1. SUFFICES ASSUME B # {} PROVE FALSE
  OBVIOUS
<1>2. PICK T \in B : \A U \in B : U \subseteq T => U = T
  <2>1. B \subseteq SUBSET S
    OBVIOUS
  <2> HIDE DEF B
  <2> QED
    BY <1>1, <2>1, SmallestSet
<1>3. T # {}
  <2>1. SumFunctionOnSet(g, T) # SumFunctionOnSet(f, T) * c
    BY <1>2
  <2>2. 0 = 0 * c
    OBVIOUS
  <2>3. SumFunctionOnSet(g, {}) = 0 /\ SumFunctionOnSet(f, {}) = 0
    BY SumEmpty
  <2> QED
    BY <2>1, <2>2, <2>3
<1>4. IsFiniteSet(T)
  BY FS_Subset
<1> DEFINE p == Pick(T)
           rest == T \ {p}
<1>5. p \in T /\ rest \notin B /\ rest \subseteq S
  BY <1>2, <1>3, PickIn
<1>6. SumFunctionOnSet(g, rest) = SumFunctionOnSet(f, rest) * c
  BY <1>5
<1>7. /\ SumFunctionOnSet(f, T) = f[p] + SumFunctionOnSet(f, rest)
      /\ SumFunctionOnSet(g, T) = g[p] + SumFunctionOnSet(g, rest)
  BY <1>3, <1>4, SumPicked
<1> HIDE DEF p, rest
<1>8. SumFunctionOnSet(f, rest) \in Nat
  <2>1. IsFiniteSet(rest) /\ \A s \in rest : f[s] \in Nat
    BY <1>5, FS_Subset
  <2> QED
    BY <2>1, SumType
<1>9. f[p] \in Nat /\ g[p] = f[p] * c
  BY <1>5
<1>10. \A a, b \in Nat : a * c + b * c = (a + b) * c
  OBVIOUS
<1>11. SumFunctionOnSet(g, T) = SumFunctionOnSet(f, T) * c
  BY <1>6, <1>7, <1>8, <1>9, <1>10
<1> QED
  BY <1>2, <1>11

-----------------------------------------------------------------------------
(* Products, by the same recursion.                                        *)

Product(f, S) == FoldFunctionOnSet( *, 1, f, S)
IsProduct(g, f, S) ==
  g = [s \in SUBSET S |-> IF s = {} THEN 1 ELSE f[Pick(s)] * g[s \ {Pick(s)}]]
LEMMA ProductIsFold == ASSUME NEW f, NEW S
 PROVE Product(f, S) = (CHOOSE g : IsProduct(g, f, S))[S]
BY DEF Product, FoldFunctionOnSet, MapThenFoldSet, IsProduct, Pick

LEMMA ProductAt ==
  ASSUME NEW f, NEW g, NEW S, IsProduct(g, f, S)
  PROVE  /\ g[{}] = 1
         /\ \A s \in SUBSET S : s # {} => g[s] = f[Pick(s)] * g[s \ {Pick(s)}]
BY DEF IsProduct

LEMMA ProductsAgree ==
  ASSUME NEW f, NEW g, NEW h, NEW S, NEW T, IsProduct(g, f, S), IsProduct(h, f, T),
         IsFiniteSet(S), S \subseteq T
  PROVE  g[S] = h[S]
<1> DEFINE B == {s \in SUBSET S : g[s] # h[s]}
<1> SUFFICES B = {}
  OBVIOUS
<1>1. SUFFICES ASSUME B # {} PROVE FALSE
  OBVIOUS
<1>2. PICK s \in B : \A t \in B : t \subseteq s => t = s
  <2>1. B \subseteq SUBSET S
    OBVIOUS
  <2> HIDE DEF B
  <2> QED
    BY <1>1, <2>1, SmallestSet
<1>3. s # {}
  BY <1>2, ProductAt
<1>4. Pick(s) \in s /\ s \ {Pick(s)} \notin B
  BY <1>2, <1>3, PickIn
<1>5. g[s \ {Pick(s)}] = h[s \ {Pick(s)}]
  BY <1>4
<1> QED
  BY <1>2, <1>3, <1>5, ProductAt

LEMMA ProductExists ==
  ASSUME NEW f, NEW S, IsFiniteSet(S)
  PROVE  \E g : IsProduct(g, f, S)
<1> DEFINE B == {T \in SUBSET S : ~\E g : IsProduct(g, f, T)}
<1> SUFFICES B = {}
  OBVIOUS
<1>1. SUFFICES ASSUME B # {} PROVE FALSE
  OBVIOUS
<1>2. PICK T \in B : \A U \in B : U \subseteq T => U = T
  <2>1. B \subseteq SUBSET S
    OBVIOUS
  <2> HIDE DEF B
  <2> QED
    BY <1>1, <2>1, SmallestSet
<1> DEFINE Over(U) == CHOOSE g : IsProduct(g, f, U)
           Less(U) == U \ {Pick(U)}
           h == [U \in SUBSET T |-> IF U = {} THEN 1 ELSE f[Pick(U)] * Over(Less(U))[Less(U)]]
<1>3. \A U \in SUBSET T : U # T => IsProduct(Over(U), f, U)
  BY <1>2
<1>4. \A U \in SUBSET T : IsFiniteSet(U)
  BY FS_Subset
<1>5. ASSUME NEW U \in SUBSET T, U # {}
      PROVE  Less(U) \in SUBSET T /\ Less(U) # T
  BY <1>5, PickIn
<1>6. ASSUME NEW W \in SUBSET T, W # T PROVE Over(W)[W] = h[W]
  <2>1. CASE W = {}
    BY <1>3, <1>6, <2>1, ProductAt
  <2>2. CASE W # {}
    <3>1. Less(W) \subseteq W /\ Less(W) \in SUBSET T /\ Less(W) # T
      BY <1>5, <2>2
    <3>2. Over(Less(W))[Less(W)] = Over(W)[Less(W)]
      <4> HIDE DEF Over, Less
      <4> QED
        BY <1>3, <1>4, <1>6, <3>1, ProductsAgree
    <3>3. Over(W)[W] = f[Pick(W)] * Over(W)[Less(W)]
      <4> HIDE DEF Over
      <4>1. IsProduct(Over(W), f, W)
        BY <1>3, <1>6
      <4> QED
        BY <2>2, <4>1, ProductAt
    <3> QED
      BY <2>2, <3>2, <3>3
  <2> QED
    BY <2>1, <2>2
<1>7. IsProduct(h, f, T)
  <2>1. ASSUME NEW U \in SUBSET T, U # {} PROVE Over(Less(U))[Less(U)] = h[Less(U)]
    <3> HIDE DEF Over, Less, h
    <3> QED
      BY <1>5, <1>6, <2>1
  <2>2. h = [U \in SUBSET T |-> IF U = {} THEN 1 ELSE f[Pick(U)] * h[Less(U)]]
    <3> HIDE DEF Over, Less
    <3> QED BY <2>1
  <2> QED
    BY <2>2 DEF IsProduct
<1> QED
  BY <1>2, <1>7

(* The product over no element, and over one that is picked and the rest.      *)
LEMMA ProductEmpty == ASSUME NEW f PROVE Product(f, {}) = 1
<1>1. IsFiniteSet({})
  BY FS_EmptySet
<1> QED
  BY <1>1, ProductIsFold, ProductExists, ProductAt

LEMMA ProductPicked ==
  ASSUME NEW f, NEW S, IsFiniteSet(S), S # {}
  PROVE  Product(f, S) = f[Pick(S)] * Product(f, S \ {Pick(S)})
<1> DEFINE rest == S \ {Pick(S)}
<1>1. IsFiniteSet(rest)
  BY FS_Subset
<1>2. PICK g : IsProduct(g, f, S) /\ Product(f, S) = g[S]
  BY ProductIsFold, ProductExists
<1>3. PICK h : IsProduct(h, f, rest) /\ Product(f, rest) = h[rest]
  BY <1>1, ProductIsFold, ProductExists
<1>4. g[rest] = h[rest]
  <2> HIDE DEF rest
  <2>1. rest \subseteq S
    BY DEF rest
  <2> QED
    BY <1>1, <1>2, <1>3, <2>1, ProductsAgree
<1> QED
  BY <1>2, <1>3, <1>4, ProductAt

(* A product of natural numbers is a natural number.                                        *)
LEMMA ProductType ==
  ASSUME NEW f, NEW S, IsFiniteSet(S), \A s \in S : f[s] \in Nat
  PROVE  Product(f, S) \in Nat
<1> DEFINE B == {T \in SUBSET S : Product(f, T) \notin Nat}
<1> SUFFICES B = {}
  OBVIOUS
<1>1. SUFFICES ASSUME B # {} PROVE FALSE
  OBVIOUS
<1>2. PICK T \in B : \A U \in B : U \subseteq T => U = T
  <2>1. B \subseteq SUBSET S
    OBVIOUS
  <2> HIDE DEF B
  <2> QED
    BY <1>1, <2>1, SmallestSet
<1>3. T # {}
  <2>1. Product(f, T) \notin Nat
    BY <1>2
  <2> QED
    BY <2>1, ProductEmpty
<1>4. Pick(T) \in T /\ T \ {Pick(T)} \notin B /\ IsFiniteSet(T)
  BY <1>2, <1>3, PickIn, FS_Subset
<1>5. Product(f, T \ {Pick(T)}) \in Nat
  BY <1>4
<1>6. Product(f, T) = f[Pick(T)] * Product(f, T \ {Pick(T)})
  BY <1>3, <1>4, ProductPicked
<1> QED
  BY <1>2, <1>4, <1>5, <1>6

LEMMA FactorsCommute ==
  ASSUME NEW a \in Nat, NEW b \in Nat, NEW c \in Nat
  PROVE  a * (b * c) = b * (a * c)
OBVIOUS

(* Any element may be taken out first.                                     *)
LEMMA ProductTakeOut ==
  ASSUME NEW f, NEW S, IsFiniteSet(S), \A s \in S : f[s] \in Nat, NEW x \in S
  PROVE  Product(f, S) = f[x] * Product(f, S \ {x})
<1> DEFINE TakesOut(T) == \A y \in T :
             Product(f, T) = f[y] * Product(f, T \ {y})
           B == {T \in SUBSET S : ~TakesOut(T)}
<1> SUFFICES B = {}
  OBVIOUS
<1>1. SUFFICES ASSUME B # {} PROVE FALSE
  OBVIOUS
<1>2. PICK T \in B : \A U \in B : U \subseteq T => U = T
  <2>1. B \subseteq SUBSET S
    OBVIOUS
  <2> HIDE DEF B
  <2> QED
    BY <1>1, <2>1, SmallestSet
<1>3. PICK y \in T : Product(f, T) # f[y] * Product(f, T \ {y})
  BY <1>2
<1> DEFINE p == Pick(T)
<1>4. p \in T /\ Product(f, T) = f[p] * Product(f, T \ {p})
  BY <1>3, PickIn, ProductPicked, FS_Subset
<1>5. p # y
  BY <1>3, <1>4
<1> HIDE DEF p
<1>6. TakesOut(T \ {p}) /\ TakesOut(T \ {y})
  BY <1>2, <1>3, <1>4
<1>7. /\ Product(f, T \ {p}) = f[y] * Product(f, (T \ {p}) \ {y})
      /\ Product(f, T \ {y}) = f[p] * Product(f, (T \ {y}) \ {p})
  BY <1>3, <1>4, <1>5, <1>6
<1>8. (T \ {p}) \ {y} = (T \ {y}) \ {p}
  OBVIOUS
<1>9. Product(f, (T \ {p}) \ {y}) \in Nat
  <2>1. (T \ {p}) \ {y} \subseteq S
    BY <1>2
  <2>2. IsFiniteSet((T \ {p}) \ {y})
    BY <2>1, FS_Subset
  <2>3. \A s \in (T \ {p}) \ {y} : f[s] \in Nat
    BY <2>1
  <2> QED
    BY <2>2, <2>3, ProductType
<1>10. f[p] \in Nat /\ f[y] \in Nat
  BY <1>2, <1>3, <1>4
<1>11. Product(f, T) = f[p] * (f[y] * Product(f, (T \ {p}) \ {y}))
  BY <1>4, <1>7
<1>12. f[y] * Product(f, T \ {y}) = f[y] * (f[p] * Product(f, (T \ {p}) \ {y}))
  BY <1>7, <1>8
<1>13. f[p] * (f[y] * Product(f, (T \ {p}) \ {y})) = f[y] * (f[p] * Product(f, (T \ {p}) \ {y}))
  BY <1>9, <1>10, FactorsCommute
<1> QED
  BY <1>3, <1>11, <1>12, <1>13

(* Where the functions agree, so do their products.                            *)
LEMMA ProductSame ==
  ASSUME NEW f, NEW g, NEW S, IsFiniteSet(S), \A s \in S : f[s] = g[s]
  PROVE  Product(f, S) = Product(g, S)
<1> DEFINE B == {T \in SUBSET S : Product(f, T) # Product(g, T)}
<1> SUFFICES B = {}
  OBVIOUS
<1>1. SUFFICES ASSUME B # {} PROVE FALSE
  OBVIOUS
<1>2. PICK T \in B : \A U \in B : U \subseteq T => U = T
  <2>1. B \subseteq SUBSET S
    OBVIOUS
  <2> HIDE DEF B
  <2> QED
    BY <1>1, <2>1, SmallestSet
<1>3. T # {} /\ IsFiniteSet(T)
  BY <1>2, ProductEmpty, FS_Subset
<1>4. Pick(T) \in T /\ T \ {Pick(T)} \notin B
  BY <1>2, <1>3, PickIn
<1>5. Product(f, T \ {Pick(T)}) = Product(g, T \ {Pick(T)})
  BY <1>4
<1> QED
  BY <1>2, <1>3, <1>4, <1>5, ProductPicked

-----------------------------------------------------------------------------
(* Of finitely many natural numbers Max is the greatest.                   *)
LEMMA MaxIsGreatest ==
  ASSUME NEW S \in SUBSET Nat, S # {}, NEW k \in Nat, \A n \in S : n <= k
  PROVE  Max(S) \in S /\ \A n \in S : n <= Max(S)
<1> DEFINE T == {n \in Nat : k - n \in S}
<1>1. PICK n \in S : TRUE
  OBVIOUS
<1>2. k - n \in T
  BY <1>1
<1>3. PICK m \in T : \A i \in T : m <= i
  BY <1>2, Least
<1>4. k - m \in S /\ m \in Nat
  BY <1>3
<1>5. ASSUME NEW i \in S PROVE i <= k - m
  <2>1. k - i \in T
    OBVIOUS
  <2>2. m <= k - i
    BY <1>3, <2>1
  <2> QED
    BY <1>4, <2>2
<1>6. \A i \in S : k - m >= i
  BY <1>4, <1>5
<1>7. \E x \in S : \A y \in S : x >= y
  BY <1>4, <1>6
<1>8. Max(S) \in S /\ \A y \in S : Max(S) >= y
  BY <1>7 DEF Max
<1> QED
  BY <1>8

(* Of the members of a finite set, one is as great as any other.           *)
LEMMA Greatest ==
  ASSUME NEW S, IsFiniteSet(S), S # {}, NEW f, \A s \in S : f[s] \in Int
  PROVE  \E x \in S : \A y \in S : f[y] <= f[x]
<1> DEFINE Tops(T) == \E x \in T : \A y \in T : f[y] <= f[x]
           B == {T \in SUBSET S : T # {} /\ ~Tops(T)}
<1> SUFFICES B = {}
  OBVIOUS
<1>1. SUFFICES ASSUME B # {} PROVE FALSE
  OBVIOUS
<1>2. PICK T \in B : \A U \in B : U \subseteq T => U = T
  <2>1. B \subseteq SUBSET S
    OBVIOUS
  <2> HIDE DEF B
  <2> QED
    BY <1>1, <2>1, SmallestSet
<1>3. PICK x \in T : TRUE
  OBVIOUS
<1>4. CASE T \ {x} = {}
  BY <1>2, <1>3, <1>4
<1>5. CASE T \ {x} # {}
  <2>1. Tops(T \ {x})
    <3>1. T \ {x} \notin B
      BY <1>2, <1>3
    <3>2. T \ {x} \in SUBSET S
      BY <1>2
    <3> HIDE DEF Tops
    <3> QED
      BY <1>5, <3>1, <3>2
  <2>2. PICK m \in T \ {x} : \A y \in T \ {x} : f[y] <= f[m]
    BY <2>1
  <2>3. f[m] \in Int /\ f[x] \in Int /\ \A y \in T : f[y] \in Int
    BY <1>2, <1>3
  <2>4. CASE f[x] <= f[m]
    BY <1>2, <1>3, <2>2, <2>4
  <2>5. CASE ~(f[x] <= f[m])
    BY <1>2, <1>3, <2>2, <2>3, <2>5
  <2> QED
    BY <2>4, <2>5
<1> QED
  BY <1>4, <1>5

LEMMA MaxOfFinite ==
  ASSUME NEW S \in SUBSET Nat, IsFiniteSet(S), S # {}
  PROVE  Max(S) \in S /\ \A n \in S : n <= Max(S)
<1> DEFINE f == [n \in S |-> n]
<1>1. \A n \in S : f[n] = n /\ f[n] \in Int
  OBVIOUS
<1>2. PICK x \in S : \A y \in S : f[y] <= f[x]
  <2> HIDE DEF f
  <2> QED
    BY <1>1, Greatest
<1>3. \A y \in S : x >= y
  BY <1>1, <1>2
<1>4. Max(S) \in S /\ \A y \in S : Max(S) >= y
  BY <1>3 DEF Max
<1> QED
  BY <1>4

LEMMA MaxOfTwo == ASSUME NEW a \in Nat, NEW b \in Nat PROVE Max({a, b}) \in {a, b}
<1>1. IsFiniteSet({a} \union {b})
  BY FS_Singleton, FS_Union
<1>2. {a, b} = {a} \union {b}
  OBVIOUS
<1>3. IsFiniteSet({a, b})
  BY <1>1, <1>2
<1> QED
  BY <1>3, MaxOfFinite
=============================================================================
