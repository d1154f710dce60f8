------------------------- MODULE BudgetLedgerProofs -------------------------
(***************************************************************************)
(* What the ledger guarantees for every number of workers and sub-leads    *)
(* and every budget: the counters stay natural numbers, reservations fit   *)
(* the layer's budget, a lead's recorded spend never drops, and the ledger *)
(* adds up: what is reserved is held, and what was spent is counted once,  *)
(* apart from resumed worker sessions, which nobody charges.               *)
(*                                                                         *)
(* Inductive invariant: LedgerInv.  Its last part ties the recorded spend  *)
(* of a lead to baseline and running iteration; without it a new iteration *)
(* could store less than the one before.  What the observers have summed   *)
(* plays no part: reservations and counters do not depend on it.           *)
(*                                                                         *)
(* Exactness needs ExactInv: it adds, to the equation between reserved_usd *)
(* and its holders, one between all the spent_usd counters and the books   *)
(* they were paid from (SpentIsBooked), which is true in the middle of a   *)
(* worker's or a sub-lead's end too; the watcher's total follows from it.  *)
(***************************************************************************)
EXTENDS BudgetLedger, FiniteSetTheorems, WellFoundedInduction, TLAPS

(* Sums of natural numbers over a finite set: SumFunctionOnSet(f, S) adds  *)
(* up f[x] for x \in S.  Counters kept by differences need to take an      *)
(* element out, add one, change one value.  Inductions are by a least      *)
(* counterexample, a subset with no smaller one.                           *)

\* The body of the recursive function that SumFunctionOnSet applies.
SumStep(f, g, T) == IF T = {} THEN 0 ELSE f[CHOOSE x \in T : TRUE] + g[T \ {CHOOSE x \in T : TRUE}]

Sums(f, S, g) == g = [T \in SUBSET S |-> SumStep(f, g, T)]

\* SumFunctionOnSet applies a function that satisfies the recursion, if there is one.
LEMMA SumUnfolds ==
    ASSUME NEW f, NEW S
    PROVE  SumFunctionOnSet(f, S) = (CHOOSE g : Sums(f, S, g))[S]
BY DEF SumFunctionOnSet, FoldFunctionOnSet, MapThenFoldSet, Sums, SumStep

\* A set of subsets of a finite set has a member that includes no other.
LEMMA LeastSubset ==
    ASSUME NEW D, IsFiniteSet(D), NEW X \in SUBSET (SUBSET D), X # {}
    PROVE  \E x \in X : \A y \in X : y \subseteq x => y = x
<1>1. \A y \in X : IsFiniteSet(y) BY FS_Subset
<1>2. X \subseteq FiniteSubsetsOf(D) BY <1>1 DEF FiniteSubsetsOf
<1>3. \E x \in X : \A y \in X : ~ (<<y, x>> \in StrictSubsetOrdering(D))
  BY <1>2, FS_StrictSubsetOrderingWellFounded, WFMin
<1>4. PICK x \in X : \A y \in X : ~ (<<y, x>> \in StrictSubsetOrdering(D)) BY <1>3
<1>5. ASSUME NEW y \in X, y \subseteq x, y # x PROVE FALSE
  BY <1>4, <1>5 DEF StrictSubsetOrdering
<1> QED BY <1>5

Pick(T) == CHOOSE x \in T : TRUE

LEMMA PickIsIn == ASSUME NEW T, T # {} PROVE Pick(T) \in T
BY DEF Pick

\* Two functions that satisfy the recursion agree where both are defined.
LEMMA SumsAgree ==
    ASSUME NEW D, IsFiniteSet(D), NEW f, NEW S \in SUBSET D, NEW U \in SUBSET S,
           NEW g, Sums(f, S, g), NEW h, Sums(f, U, h)
    PROVE  \A T \in SUBSET U : g[T] = h[T]
<1> DEFINE X == {T \in SUBSET U : g[T] # h[T]}
<1>1. \A T \in SUBSET S : g[T] = SumStep(f, g, T) BY DEF Sums
<1>2. \A T \in SUBSET U : h[T] = SumStep(f, h, T) BY DEF Sums
<1>3. X = {}
  <2> SUFFICES ASSUME X # {} PROVE FALSE OBVIOUS
  <2>1. X \in SUBSET (SUBSET D) OBVIOUS
  <2> HIDE DEF X
  <2>a. \E x \in X : \A y \in X : y \subseteq x => y = x BY <2>1, LeastSubset
  <2> USE DEF X
  <2>2. PICK x \in X : \A y \in X : y \subseteq x => y = x BY <2>a
  <2>3. g[x] = SumStep(f, g, x) /\ h[x] = SumStep(f, h, x) BY <1>1, <1>2
  <2>4. CASE x = {} BY <2>3, <2>4 DEF SumStep
  <2>5. CASE x # {}
    <3>1. Pick(x) \in x BY <2>5, PickIsIn
    <3>2. x \ {Pick(x)} \in SUBSET U /\ x \ {Pick(x)} \notin X BY <2>2, <3>1
    <3>3. g[x \ {Pick(x)}] = h[x \ {Pick(x)}] BY <3>2
    <3> QED BY <2>2, <2>3, <2>5, <3>3 DEF SumStep, Pick
  <2> QED BY <2>4, <2>5
<1> QED BY <1>3

\* There is such a function for every finite set.
LEMMA SumsExist ==
    ASSUME NEW D, IsFiniteSet(D), NEW f
    PROVE  \A S \in SUBSET D : \E g : Sums(f, S, g)
<1> DEFINE X == {S \in SUBSET D : ~ \E g : Sums(f, S, g)}
           V(T) == (CHOOSE g : Sums(f, T, g))[T]
<1> SUFFICES ASSUME X # {} PROVE FALSE OBVIOUS
<1>a. X \in SUBSET (SUBSET D) OBVIOUS
<1> HIDE DEF X
<1>b. \E S \in X : \A y \in X : y \subseteq S => y = S BY <1>a, LeastSubset
<1> USE DEF X
<1>1. PICK S \in X : \A y \in X : y \subseteq S => y = S BY <1>b
<1>2. ASSUME NEW T \in SUBSET S, T # S
      PROVE  Sums(f, T, CHOOSE g : Sums(f, T, g))
  BY <1>1, <1>2
<1>3. ASSUME NEW T \in SUBSET S, T # S, NEW U \in SUBSET T
      PROVE  (CHOOSE g : Sums(f, T, g))[U] = V(U)
  <2>1. U # S BY <1>3
  <2>2. Sums(f, T, CHOOSE g : Sums(f, T, g)) /\ Sums(f, U, CHOOSE g : Sums(f, U, g))
    BY <1>2, <1>3, <2>1
  <2>3. T \in SUBSET D OBVIOUS
  <2> QED BY <2>2, <2>3, SumsAgree
<1> DEFINE G == [T \in SUBSET S |-> IF T = {} THEN 0 ELSE f[Pick(T)] + V(T \ {Pick(T)})]
<1> HIDE DEF V
<1>4. ASSUME NEW T \in SUBSET S, T # S PROVE G[T] = V(T)
  <2> DEFINE h == CHOOSE g : Sums(f, T, g)
  <2>2. h[T] = V(T) BY DEF V
  <2>5. Sums(f, T, h) BY <1>2, <1>4
  <2> HIDE DEF h
  <2>1. h[T] = SumStep(f, h, T) BY <2>5 DEF Sums
  <2> USE DEF h
  <2>3. CASE T = {} BY <2>1, <2>2, <2>3 DEF SumStep
  <2>4. CASE T # {}
    <3>1. T \ {Pick(T)} \in SUBSET T OBVIOUS
    <3>2. h[T \ {Pick(T)}] = V(T \ {Pick(T)}) BY <1>3, <1>4, <3>1
    <3> HIDE DEF h
    <3> QED BY <2>1, <2>2, <2>4, <3>2 DEF SumStep, Pick
  <2> QED BY <2>3, <2>4
<1>5. ASSUME NEW T \in SUBSET S PROVE G[T] = SumStep(f, G, T)
  <2>1. CASE T = {} BY <2>1 DEF SumStep
  <2>2. CASE T # {}
    <3>1. Pick(T) \in T BY <2>2, PickIsIn
    <3>2. T \ {Pick(T)} \in SUBSET S /\ T \ {Pick(T)} # S BY <3>1
    <3>3. G[T \ {Pick(T)}] = V(T \ {Pick(T)}) BY <1>4, <3>2
    <3>4. G[T] = f[Pick(T)] + V(T \ {Pick(T)}) BY <2>2
    <3> HIDE DEF G
    <3> QED BY <2>2, <3>3, <3>4 DEF SumStep, Pick
  <2> QED BY <2>1, <2>2
<1>6. G = [T \in SUBSET S |-> G[T]] OBVIOUS
<1> HIDE DEF G
<1>7. Sums(f, S, G) BY <1>5, <1>6 DEF Sums
<1> QED BY <1>1, <1>7

\* The sum over a set takes its picked element first; the empty sum is 0.
LEMMA SumPicks ==
    ASSUME NEW D, IsFiniteSet(D), NEW f, NEW S \in SUBSET D
    PROVE  /\ S = {} => SumFunctionOnSet(f, S) = 0
           /\ S # {} => SumFunctionOnSet(f, S)
                        = f[Pick(S)] + SumFunctionOnSet(f, S \ {Pick(S)})
<1> DEFINE g == CHOOSE g : Sums(f, S, g)
           h == CHOOSE h : Sums(f, S \ {Pick(S)}, h)
<1>1. Sums(f, S, g) BY SumsExist
<1>2. S \ {Pick(S)} \in SUBSET D OBVIOUS
<1>3. Sums(f, S \ {Pick(S)}, h) BY <1>2, SumsExist
<1>4. SumFunctionOnSet(f, S) = g[S] BY SumUnfolds
<1>5. SumFunctionOnSet(f, S \ {Pick(S)}) = h[S \ {Pick(S)}] BY SumUnfolds
<1> HIDE DEF g, h
<1>6. g[S] = SumStep(f, g, S) BY <1>1 DEF Sums
<1>7. S \ {Pick(S)} \in SUBSET S /\ S \ {Pick(S)} \in SUBSET (S \ {Pick(S)}) OBVIOUS
<1>8. g[S \ {Pick(S)}] = h[S \ {Pick(S)}] BY <1>1, <1>3, <1>7, SumsAgree
<1> QED BY <1>4, <1>5, <1>6, <1>8 DEF SumStep, Pick

\* A sum of natural numbers is one, and any element can be taken out of it.
LEMMA SumRemoves ==
    ASSUME NEW D, IsFiniteSet(D), NEW f, \A x \in D : f[x] \in Nat
    PROVE  \A S \in SUBSET D :
              /\ SumFunctionOnSet(f, S) \in Nat
              /\ \A x \in S : SumFunctionOnSet(f, S) = f[x] + SumFunctionOnSet(f, S \ {x})
<1> DEFINE Sm(S) == SumFunctionOnSet(f, S)
           Good(S) == Sm(S) \in Nat /\ \A x \in S : Sm(S) = f[x] + Sm(S \ {x})
           X == {S \in SUBSET D : ~ Good(S)}
<1>0. ASSUME NEW S \in SUBSET D
      PROVE  /\ S = {} => Sm(S) = 0
             /\ S # {} => Sm(S) = f[Pick(S)] + Sm(S \ {Pick(S)})
  <2>1. ASSUME S = {} PROVE Sm(S) = 0 BY <2>1, SumPicks
  <2>2. ASSUME S # {}
        PROVE  SumFunctionOnSet(f, S) = f[Pick(S)] + SumFunctionOnSet(f, S \ {Pick(S)})
    BY <2>2, SumPicks
  <2> QED BY <2>1, <2>2
<1> HIDE DEF Sm
<1> SUFFICES ASSUME X # {} PROVE FALSE BY DEF Sm
<1>a. X \in SUBSET (SUBSET D) OBVIOUS
<1> HIDE DEF X
<1>b. \E S \in X : \A y \in X : y \subseteq S => y = S BY <1>a, LeastSubset
<1> USE DEF X
<1>1. PICK S \in X : \A y \in X : y \subseteq S => y = S BY <1>b
<1>2. \A T \in SUBSET S : T # S => Good(T) BY <1>1
<1>3. CASE S = {}
  <2>1. Sm(S) = 0 BY <1>0, <1>3
  <2>2. Good(S) BY <1>3, <2>1
  <2> QED BY <1>1, <2>2
<1>4. CASE S # {}
  <2> DEFINE p == Pick(S)
  <2>1. p \in S /\ p \in D BY <1>4, PickIsIn
  <2>2. Sm(S) = f[p] + Sm(S \ {p}) BY <1>0, <1>4
  <2> HIDE DEF p
  <2>3. Good(S \ {p}) BY <1>2, <2>1
  <2>4. Sm(S) \in Nat BY <2>1, <2>2, <2>3
  <2>5. ASSUME NEW x \in S PROVE Sm(S) = f[x] + Sm(S \ {x})
    <3>1. CASE x = p BY <2>2, <3>1
    <3>2. CASE x # p
      <4>1. Good(S \ {x}) BY <1>2
      <4>2. (S \ {x}) \ {p} = (S \ {p}) \ {x} OBVIOUS
      <4>3. Sm(S \ {x}) = f[p] + Sm((S \ {x}) \ {p}) BY <2>1, <3>2, <4>1
      <4>4. Sm(S \ {p}) = f[x] + Sm((S \ {p}) \ {x}) BY <2>3, <3>2
      <4>5. Good((S \ {p}) \ {x}) BY <1>2, <2>1
      <4>6. Sm((S \ {p}) \ {x}) \in Nat /\ f[x] \in Nat /\ f[p] \in Nat BY <2>1, <4>5
      <4> HIDE DEF Good
      <4> QED BY <2>2, <4>2, <4>3, <4>4, <4>6
    <3> QED BY <3>1, <3>2
  <2> QED BY <1>1, <2>4, <2>5
<1> QED BY <1>3, <1>4

\* A sum depends on the values at its elements only.
LEMMA SumFrame ==
    ASSUME NEW D, IsFiniteSet(D), NEW f, NEW g, \A x \in D : f[x] = g[x]
    PROVE  \A S \in SUBSET D : SumFunctionOnSet(f, S) = SumFunctionOnSet(g, S)
<1> DEFINE X == {S \in SUBSET D : SumFunctionOnSet(f, S) # SumFunctionOnSet(g, S)}
<1> SUFFICES ASSUME X # {} PROVE FALSE OBVIOUS
<1>a. X \in SUBSET (SUBSET D) OBVIOUS
<1> HIDE DEF X
<1>b. \E S \in X : \A y \in X : y \subseteq S => y = S BY <1>a, LeastSubset
<1> USE DEF X
<1>1. PICK S \in X : \A y \in X : y \subseteq S => y = S BY <1>b
<1>2. CASE S = {} BY <1>1, <1>2, SumPicks
<1>3. CASE S # {}
  <2>1. Pick(S) \in S /\ S \ {Pick(S)} \in SUBSET D BY <1>3, PickIsIn
  <2>2. SumFunctionOnSet(f, S \ {Pick(S)}) = SumFunctionOnSet(g, S \ {Pick(S)}) BY <1>1, <2>1
  <2>3. /\ SumFunctionOnSet(f, S) = f[Pick(S)] + SumFunctionOnSet(f, S \ {Pick(S)})
        /\ SumFunctionOnSet(g, S) = g[Pick(S)] + SumFunctionOnSet(g, S \ {Pick(S)})
    BY <1>3, SumPicks
  <2>4. f[Pick(S)] = g[Pick(S)] BY <2>1
  <2> QED BY <1>1, <2>2, <2>3, <2>4
<1> QED BY <1>2, <1>3

\* A set split in two, and a set that lacks only elements whose value is 0.
LEMMA SumSplits ==
    ASSUME NEW D, IsFiniteSet(D), NEW f, \A x \in D : f[x] \in Nat, NEW A \in SUBSET D
    PROVE  /\ \A B \in SUBSET D : A \cap B = {} =>
                 SumFunctionOnSet(f, A \cup B) = SumFunctionOnSet(f, A) + SumFunctionOnSet(f, B)
           /\ \A B \in SUBSET D : (\A x \in B : f[x] = 0) => SumFunctionOnSet(f, B) = 0
<1> DEFINE Sm(S) == SumFunctionOnSet(f, S)
           Good(B) == /\ A \cap B = {} => Sm(A \cup B) = Sm(A) + Sm(B)
                      /\ (\A x \in B : f[x] = 0) => Sm(B) = 0
           X == {B \in SUBSET D : ~ Good(B)}
<1>0. ASSUME NEW S \in SUBSET D
      PROVE  Sm(S) \in Nat /\ \A x \in S : Sm(S) = f[x] + Sm(S \ {x})
  BY SumRemoves
<1>1. ASSUME NEW S \in SUBSET D, S = {} PROVE Sm(S) = 0 BY <1>1, SumPicks
<1> HIDE DEF Sm
<1> SUFFICES ASSUME X # {} PROVE FALSE BY DEF Sm
<1>a. X \in SUBSET (SUBSET D) OBVIOUS
<1> HIDE DEF X
<1>b. \E B \in X : \A y \in X : y \subseteq B => y = B BY <1>a, LeastSubset
<1> USE DEF X
<1>2. PICK B \in X : \A y \in X : y \subseteq B => y = B BY <1>b
<1>3. CASE B = {}
  <2>1. Sm(B) = 0 BY <1>1, <1>3
  <2>2. A \cup B = A BY <1>3
  <2>3. Sm(A) \in Nat BY <1>0
  <2>5. Sm(A \cup B) = Sm(A) BY <2>2
  <2>6. Sm(A \cup B) = Sm(A) + Sm(B) BY <2>1, <2>3, <2>5
  <2>4. Good(B) BY <2>1, <2>6
  <2> QED BY <1>2, <2>4
<1>4. CASE B # {}
  <2>1. PICK x \in B : TRUE BY <1>4
  <2>8. B \ {x} \in SUBSET D /\ B \ {x} \notin X
    <3> HIDE DEF Good
    <3> QED BY <1>2, <2>1
  <2>2. B \ {x} \in SUBSET D /\ Good(B \ {x})
    <3> HIDE DEF Good
    <3> QED BY <2>8
  <2>3. Sm(B) = f[x] + Sm(B \ {x}) BY <1>0, <2>1
  <2>4. Sm(B) \in Nat /\ Sm(B \ {x}) \in Nat /\ Sm(A) \in Nat /\ f[x] \in Nat BY <1>0, <2>1, <2>2
  <2>5. ASSUME A \cap B = {} PROVE Sm(A \cup B) = Sm(A) + Sm(B)
    <3>1. (A \cup B) \ {x} = A \cup (B \ {x}) /\ A \cap (B \ {x}) = {} BY <2>1, <2>5
    <3>2. A \cup B \in SUBSET D /\ x \in A \cup B BY <2>1
    <3>3. Sm(A \cup B) = f[x] + Sm(A \cup (B \ {x})) BY <1>0, <3>1, <3>2
    <3>4. Sm(A \cup (B \ {x})) = Sm(A) + Sm(B \ {x}) BY <2>2, <3>1
    <3> QED BY <2>3, <2>4, <3>3, <3>4
  <2>6. ASSUME \A y \in B : f[y] = 0 PROVE Sm(B) = 0
    <3>1. Sm(B \ {x}) = 0 BY <2>2, <2>6
    <3>2. f[x] = 0 BY <2>1, <2>6
    <3> QED BY <2>3, <3>1, <3>2
  <2>7. Good(B) BY <2>5, <2>6
  <2> QED BY <1>2, <2>7
<1> QED BY <1>3, <1>4

\* The sum of a pointwise sum.
LEMMA SumAdds ==
    ASSUME NEW D, IsFiniteSet(D), NEW f, NEW g, NEW h,
           \A x \in D : f[x] \in Nat /\ g[x] \in Nat /\ h[x] = f[x] + g[x]
    PROVE  \A S \in SUBSET D :
              SumFunctionOnSet(h, S) = SumFunctionOnSet(f, S) + SumFunctionOnSet(g, S)
<1> DEFINE F(S) == SumFunctionOnSet(f, S)
           G(S) == SumFunctionOnSet(g, S)
           H(S) == SumFunctionOnSet(h, S)
           X == {S \in SUBSET D : H(S) # F(S) + G(S)}
<1>0. ASSUME NEW S \in SUBSET D
      PROVE  /\ F(S) \in Nat /\ \A x \in S : F(S) = f[x] + F(S \ {x})
             /\ G(S) \in Nat /\ \A x \in S : G(S) = g[x] + G(S \ {x})
             /\ H(S) \in Nat /\ \A x \in S : H(S) = h[x] + H(S \ {x})
  <2>1. F(S) \in Nat /\ \A x \in S : F(S) = f[x] + F(S \ {x}) BY SumRemoves
  <2>2. G(S) \in Nat /\ \A x \in S : G(S) = g[x] + G(S \ {x}) BY SumRemoves
  <2>3. \A x \in D : h[x] \in Nat OBVIOUS
  <2>4. H(S) \in Nat /\ \A x \in S : H(S) = h[x] + H(S \ {x}) BY <2>3, SumRemoves
  <2> HIDE DEF F, G, H
  <2> QED BY <2>1, <2>2, <2>4
<1>1. ASSUME NEW S \in SUBSET D, S = {} PROVE F(S) = 0 /\ G(S) = 0 /\ H(S) = 0
  BY <1>1, SumPicks
<1> HIDE DEF F, G, H
<1> SUFFICES ASSUME X # {} PROVE FALSE BY DEF F, G, H
<1>a. X \in SUBSET (SUBSET D) OBVIOUS
<1> HIDE DEF X
<1>b. \E S \in X : \A y \in X : y \subseteq S => y = S BY <1>a, LeastSubset
<1> USE DEF X
<1>2. PICK S \in X : \A y \in X : y \subseteq S => y = S BY <1>b
<1>3. CASE S = {}
  <2>1. F(S) = 0 /\ G(S) = 0 /\ H(S) = 0 BY <1>1, <1>3
  <2> QED BY <1>2, <2>1
<1>4. CASE S # {}
  <2>1. PICK x \in S : TRUE BY <1>4
  <2>2. S \ {x} \in SUBSET D /\ S \ {x} \notin X BY <1>2, <2>1
  <2>3. H(S \ {x}) = F(S \ {x}) + G(S \ {x}) BY <2>2
  <2>4. F(S \ {x}) \in Nat /\ G(S \ {x}) \in Nat BY <1>0, <2>2
  <2>5. F(S) = f[x] + F(S \ {x}) /\ G(S) = g[x] + G(S \ {x}) /\ H(S) = h[x] + H(S \ {x})
    BY <1>0, <2>1
  <2>6. f[x] \in Nat /\ g[x] \in Nat /\ h[x] = f[x] + g[x] BY <2>1
  <2> QED BY <1>2, <2>3, <2>4, <2>5, <2>6
<1> QED BY <1>3, <1>4

\* What becomes of a sum when one value changes.
LEMMA SumChanges ==
    ASSUME NEW D, IsFiniteSet(D), NEW f, NEW g, NEW x \in D,
           \A y \in D : f[y] \in Nat, g[x] \in Nat, \A y \in D \ {x} : g[y] = f[y],
           NEW S \in SUBSET D
    PROVE  /\ x \notin S => SumFunctionOnSet(g, S) = SumFunctionOnSet(f, S)
           /\ x \in S => SumFunctionOnSet(g, S) + f[x] = SumFunctionOnSet(f, S) + g[x]
<1>0. S \ {x} \in SUBSET (D \ {x}) /\ IsFiniteSet(D \ {x}) BY FS_Subset
<1>1. SumFunctionOnSet(g, S \ {x}) = SumFunctionOnSet(f, S \ {x}) BY <1>0, SumFrame
<1>2. CASE x \notin S
  <2>1. S \ {x} = S BY <1>2
  <2> QED BY <1>1, <1>2, <2>1
<1>3. CASE x \in S
  <2>1. \A y \in D : g[y] \in Nat OBVIOUS
  <2>2. SumFunctionOnSet(f, S) = f[x] + SumFunctionOnSet(f, S \ {x}) BY <1>3, SumRemoves
  <2>3. SumFunctionOnSet(g, S) = g[x] + SumFunctionOnSet(g, S \ {x}) BY <1>3, <2>1, SumRemoves
  <2>4. S \ {x} \in SUBSET D OBVIOUS
  <2>5. SumFunctionOnSet(f, S \ {x}) \in Nat BY <2>4, SumRemoves
  <2> QED BY <1>1, <1>3, <2>2, <2>3, <2>5
<1> QED BY <1>2, <1>3

\* A value that rises by n raises the sum by n.
LEMMA SumRises ==
    ASSUME NEW D, IsFiniteSet(D), NEW f, NEW g, NEW x \in D, NEW n \in Nat,
           \A y \in D : f[y] \in Nat, g[x] = f[x] + n, \A y \in D \ {x} : g[y] = f[y]
    PROVE  SumFunctionOnSet(g, D) = SumFunctionOnSet(f, D) + n
<1>1. f[x] \in Nat /\ g[x] \in Nat /\ D \in SUBSET D OBVIOUS
<1>2. \A y \in D : g[y] \in Nat BY <1>1
<1>3. SumFunctionOnSet(f, D) = f[x] + SumFunctionOnSet(f, D \ {x}) BY <1>1, SumRemoves
<1>4. SumFunctionOnSet(g, D) = g[x] + SumFunctionOnSet(g, D \ {x}) BY <1>1, <1>2, SumRemoves, SMTT(60)
<1>5. SumFunctionOnSet(f, D \ {x}) = SumFunctionOnSet(g, D \ {x})
  <2>1. IsFiniteSet(D \ {x}) /\ D \ {x} \in SUBSET (D \ {x}) BY FS_Subset
  <2> QED BY <2>1, SumFrame
<1>6. D \ {x} \in SUBSET D OBVIOUS
<1>7. SumFunctionOnSet(f, D \ {x}) \in Nat BY <1>6, SumRemoves
<1> QED BY <1>1, <1>3, <1>4, <1>5, <1>7

\* A new member adds its value; the others may only keep theirs.
LEMMA SumGains ==
    ASSUME NEW D, IsFiniteSet(D), NEW f, NEW g, \A y \in D : g[y] \in Nat,
           NEW A \in SUBSET D, NEW x \in D \ A, \A y \in A : g[y] = f[y]
    PROVE  SumFunctionOnSet(g, A \cup {x}) = SumFunctionOnSet(f, A) + g[x]
<1>1. A \cup {x} \in SUBSET D /\ (A \cup {x}) \ {x} = A /\ x \in A \cup {x} OBVIOUS
<1>2. SumFunctionOnSet(g, A \cup {x}) = g[x] + SumFunctionOnSet(g, A)
  <2>1. SumFunctionOnSet(g, A \cup {x}) = g[x] + SumFunctionOnSet(g, (A \cup {x}) \ {x})
    BY <1>1, SumRemoves
  <2> QED BY <1>1, <2>1
<1>3. IsFiniteSet(A) /\ A \in SUBSET A BY FS_Subset
<1>4. SumFunctionOnSet(f, A) = SumFunctionOnSet(g, A) BY <1>3, SumFrame
<1>5. SumFunctionOnSet(g, A) \in Nat /\ g[x] \in Nat BY SumRemoves
<1> QED BY <1>2, <1>4, <1>5
-----------------------------------------------------------------------------

LeadSpendIsCommitted == \A l \in Layers : leadSpent[l] <= base[l] + iter[l]

LedgerInv == /\ menu \in Menus /\ CountersOK /\ ResumedOK
             /\ ReservationsFitBudget /\ LeadSpendIsCommitted

-----------------------------------------------------------------------------
\* Releasing a reservation leaves a natural number that is no larger.
LEMMA MinusShrinks ==
    ASSUME NEW a \in Nat, NEW b \in Nat
    PROVE  Minus(a, b) \in Nat /\ Minus(a, b) <= a
BY DEF Minus

\* Every estimate is the initial one or the cost in a Done worker's record.
LEMMA EstimatesAreNat ==
    ASSUME ResumedOK, NEW l, NEW e \in Estimates(l)
    PROVE  e \in Nat
<1>1. e \in {InitialEstimate} \cup {rec[w] : w \in Workers}
  BY DEF Estimates, InLayer
<1>2. \A w \in Workers : rec[w] \in Nat
  BY DEF ResumedOK
<1> QED BY <1>1, <1>2, BudgetAssumption

\* A run starts with empty counters.
LEMMA InitLedger == Init => LedgerInv
<1> SUFFICES ASSUME Init PROVE LedgerInv
  OBVIOUS
<1>1. CountersOK
  BY DEF Init, CountersOK
<1>2. ReservationsFitBudget
  BY BudgetAssumption DEF Init, ReservationsFitBudget, LayerCap
<1>3. LeadSpendIsCommitted
  BY DEF Init, LeadSpendIsCommitted
<1>4. ResumedOK
  BY DEF Init, ResumedOK
<1> QED BY <1>1, <1>2, <1>3, <1>4 DEF Init, LedgerInv

-----------------------------------------------------------------------------
(* Resumed sessions: they touch no counter of the ledger *)

Resuming(w) == AskResume(w) \/ SpawnResume(w) \/ (\E c \in Costs : ResumedEnds(w, c))

\* continue, reprompt and the tail of a resumed session leave the ledger alone.
LEMMA ResumingLeaves ==
    ASSUME NEW w \in Workers, Resuming(w)
    PROVE  UNCHANGED <<spent, reserved, leads, trees, wpc, hold, cost>>
BY DEF Resuming, AskResume, SpawnResume, ResumedEnds

\* A step changes what is kept of resumed sessions only where it says so.
LEMMA ResumedFrame ==
    ASSUME Next
    PROVE  \/ UNCHANGED resumed
           \/ \E w \in Workers : MarkDone(w) \/ Resuming(w)
<1>1. ASSUME NEW w \in Workers, WorkerStep(w)
      PROVE  UNCHANGED resumed \/ MarkDone(w) \/ Resuming(w)
  BY <1>1 DEF WorkerStep, Resuming, Admit, ReserveNothing, InsertPending, ReserveEstimate,
     RefuseWorker, WorkerExit, Release, Charge
<1>2. ASSUME NEW s \in Subs, SpawnStep(s) \/ EndStep(s) PROVE UNCHANGED resumed
  BY <1>2 DEF SpawnStep, EndStep, ResolveEnvelope, ReadSpent, ReserveEnvelope, RefuseSublead,
     SpawnSubleadFails, RegisterSublead, SessionEnds, Remove, ListEnded, ReturnEnvelope,
     RollUp, pool
<1>3. ASSUME NEW l \in Layers, LeadStep(l) \/ ObserverStep(l) PROVE UNCHANGED resumed
  BY <1>3 DEF LeadStep, ObserverStep, LeadTurn, CommitIteration, ObserveRoot, ObserveLive,
     ObserveEnded, pool
<1> QED BY <1>1, <1>2, <1>3 DEF Next

\* The books of resumed sessions stay natural numbers.
LEMMA ResumedStep ==
    ASSUME CountersOK, ResumedOK, [Next]_vars
    PROVE  ResumedOK'
<1>1. CASE UNCHANGED resumed BY <1>1 DEF resumed, ResumedOK
<1>2. ASSUME NEW w \in Workers, MarkDone(w) PROVE ResumedOK'
  BY <1>2 DEF MarkDone, ResumedOK, CountersOK
<1>3. ASSUME NEW w \in Workers, AskResume(w) PROVE ResumedOK'
  BY <1>3 DEF AskResume, ResumedOK
<1>4. ASSUME NEW w \in Workers, SpawnResume(w) PROVE ResumedOK'
  BY <1>4 DEF SpawnResume, ResumedOK
<1>5. ASSUME NEW w \in Workers, NEW c \in Costs, ResumedEnds(w, c) PROVE ResumedOK'
  <2>1. c \in Nat BY BudgetAssumption
  <2> QED BY <1>5, <2>1 DEF ResumedEnds, ResumedOK
<1>6. CASE UNCHANGED vars BY <1>1, <1>6 DEF vars, resumed
<1>7. CASE Next BY <1>1, <1>2, <1>3, <1>4, <1>5, <1>7, ResumedFrame DEF Resuming
<1> QED BY <1>6, <1>7

-----------------------------------------------------------------------------
\* A step of a worker keeps the ledger.
LEMMA WorkerKeepsLedger ==
    ASSUME LedgerInv, NEW w \in Workers, WorkerStep(w),
           UNCHANGED menu, ResumedOK'
    PROVE  LedgerInv'
<1> USE BudgetAssumption
<1>0. /\ CountersOK /\ ResumedOK /\ ReservationsFitBudget /\ LeadSpendIsCommitted
      /\ LayerOf[w] \in Layers
  BY DEF LedgerInv
<1>1. CASE Admit(w) \/ ReserveNothing(w) \/ InsertPending(w) \/ MarkDone(w)
             \/ \E e \in Estimates(LayerOf[w]) : RefuseWorker(w, e)
  <2>1. UNCHANGED <<spent, reserved, leads, trees, hold, cost>>
    BY <1>1 DEF Admit, ReserveNothing, InsertPending, MarkDone, RefuseWorker
  <2> QED BY <1>0, <2>1 DEF LedgerInv, CountersOK, ReservationsFitBudget,
               LeadSpendIsCommitted, Capped, LayerCap, Owned, leads, trees
<1>2. ASSUME NEW e \in Estimates(LayerOf[w]), ReserveEstimate(w, e)
      PROVE  LedgerInv'
  <2>1. e \in Nat
    BY <1>0, EstimatesAreNat
  <2>2. CountersOK'
    BY <1>0, <1>2, <2>1 DEF ReserveEstimate, CountersOK, leads, trees
  <2>3. ReservationsFitBudget'
    <3>1. spent[LayerOf[w]] + reserved[LayerOf[w]] + leadSpent[LayerOf[w]] + e
            <= LayerCap(LayerOf[w])
      BY <1>2 DEF ReserveEstimate, Fits
    <3>2. LayerCap(LayerOf[w]) \in Nat
      BY DEF LayerCap, Owned
    <3>3. reserved[LayerOf[w]] + e <= LayerCap(LayerOf[w])
      BY <1>0, <2>1, <3>1, <3>2 DEF CountersOK
    <3>4. reserved' = [reserved EXCEPT ![LayerOf[w]] = @ + e]
      BY <1>2 DEF ReserveEstimate
    <3> QED BY <1>0, <3>3, <3>4 DEF CountersOK, ReservationsFitBudget, Capped, LayerCap, Owned
  <2>4. LeadSpendIsCommitted'
    BY <1>0, <1>2 DEF ReserveEstimate, LeadSpendIsCommitted, leads
  <2> QED BY <2>2, <2>3, <2>4 DEF LedgerInv
<1>3. ASSUME NEW c \in Costs, WorkerExit(w, c)
      PROVE  LedgerInv'
  <2>1. c \in Nat
    OBVIOUS
  <2> QED BY <1>0, <1>3, <2>1 DEF WorkerExit, LedgerInv, CountersOK, ReservationsFitBudget,
               LeadSpendIsCommitted, Capped, LayerCap, Owned, leads, trees
<1>4. CASE Release(w)
  <2>1. /\ Minus(reserved[LayerOf[w]], hold[w]) \in Nat
        /\ Minus(reserved[LayerOf[w]], hold[w]) <= reserved[LayerOf[w]]
    BY <1>0, MinusShrinks DEF CountersOK
  <2>2. CountersOK'
    BY <1>0, <1>4, <2>1 DEF Release, CountersOK, leads, trees
  <2>3. ReservationsFitBudget'
    <3>1. \A l \in Layers : reserved'[l] <= reserved[l]
      BY <1>0, <1>4, <2>1 DEF Release, CountersOK
    <3>2. \A l \in Layers : LayerCap(l) \in Nat
      BY DEF LayerCap, Owned
    <3> QED BY <1>0, <2>2, <3>1, <3>2 DEF CountersOK, ReservationsFitBudget, Capped, LayerCap, Owned
  <2>4. LeadSpendIsCommitted'
    BY <1>0, <1>4 DEF Release, LeadSpendIsCommitted, leads
  <2> QED BY <2>2, <2>3, <2>4 DEF LedgerInv
<1>5. CASE Charge(w)
  BY <1>0, <1>5 DEF Charge, LedgerInv, CountersOK, ReservationsFitBudget,
     LeadSpendIsCommitted, Capped, LayerCap, Owned, leads, trees
<1>6. CASE Resuming(w)
  BY <1>0, <1>6, ResumingLeaves DEF LedgerInv, CountersOK, ReservationsFitBudget,
     LeadSpendIsCommitted, Capped, LayerCap, Owned, leads, trees
<1> QED BY <1>1, <1>2, <1>3, <1>4, <1>5, <1>6 DEF WorkerStep, Resuming

\* A step of a sub-lead, from its spawn to its roll-up, keeps the ledger.
LEMMA SubleadKeepsLedger ==
    ASSUME LedgerInv, NEW s \in Subs, SpawnStep(s) \/ EndStep(s),
           UNCHANGED menu, ResumedOK'
    PROVE  LedgerInv'
<1> USE BudgetAssumption
<1>0. /\ CountersOK /\ ReservationsFitBudget /\ LeadSpendIsCommitted
      /\ Root \in Layers /\ s \in Layers
  BY DEF LedgerInv, Layers
<1>r. Reservation(s) \in Nat
  BY DEF Reservation
<1>1. CASE ResolveEnvelope(s) \/ RefuseSublead(s) \/ RegisterSublead(s) \/ Remove(s)
  <2>1. UNCHANGED <<spent, reserved, leads, pool, snap>>
    BY <1>1 DEF ResolveEnvelope, RefuseSublead, RegisterSublead, Remove
  <2> QED BY <1>0, <2>1 DEF LedgerInv, CountersOK, ReservationsFitBudget,
               LeadSpendIsCommitted, Capped, LayerCap, Owned, leads, pool
<1>2. CASE ReadSpent(s) \/ ListEnded(s)
  <2>1. /\ UNCHANGED <<spent, reserved, leads, pool>>
        /\ \E l \in Layers : snap' = [snap EXCEPT ![s] = spent[l]]
    BY <1>0, <1>2 DEF ReadSpent, ListEnded
  <2> QED BY <1>0, <2>1 DEF LedgerInv, CountersOK, ReservationsFitBudget,
               LeadSpendIsCommitted, Capped, LayerCap, Owned, leads, pool
<1>3. CASE ReserveEnvelope(s)
  <2>1. CountersOK'
    BY <1>0, <1>r, <1>3 DEF ReserveEnvelope, CountersOK, leads, pool
  <2>2. ASSUME menu.capped PROVE reserved[Root] + Reservation(s) <= Budget
    <3>b. menu.capped
      BY <2>2
    <3>1. CASE s \in Shared
      <4>1. reserved[Root] <= Budget
        BY <1>0, <3>b DEF ReservationsFitBudget, Capped, LayerCap, Owned
      <4> QED BY <1>0, <3>1, <4>1 DEF Reservation, CountersOK
    <3>2. CASE s \notin Shared
      <4>1. snap[s] + reserved[Root] + Envelope <= Budget
        BY <1>3, <3>b, <3>2 DEF ReserveEnvelope
      <4>2. snap[s] \in Nat /\ reserved[Root] \in Nat
        BY <1>0 DEF CountersOK
      <4> QED BY <3>2, <4>1, <4>2 DEF Reservation
    <3> QED BY <3>1, <3>2
  <2>3. ReservationsFitBudget'
    <3>1. reserved' = [reserved EXCEPT ![Root] = @ + Reservation(s)]
      BY <1>3 DEF ReserveEnvelope
    <3> QED BY <1>0, <2>2, <3>1 DEF CountersOK, ReservationsFitBudget, Capped, LayerCap, Owned
  <2>4. LeadSpendIsCommitted'
    BY <1>0, <1>3 DEF ReserveEnvelope, LeadSpendIsCommitted, leads
  <2> QED BY <2>1, <2>3, <2>4 DEF LedgerInv
<1>4. CASE SpawnSubleadFails(s) \/ ReturnEnvelope(s)
  <2>1. /\ Minus(reserved[Root], Reservation(s)) \in Nat
        /\ Minus(reserved[Root], Reservation(s)) <= reserved[Root]
    BY <1>0, <1>r, MinusShrinks DEF CountersOK
  <2>2. /\ reserved' = [reserved EXCEPT ![Root] = Minus(@, Reservation(s))]
        /\ UNCHANGED <<spent, leads, pool, snap>>
    BY <1>4 DEF SpawnSubleadFails, ReturnEnvelope
  <2>3. CountersOK'
    BY <1>0, <2>1, <2>2 DEF CountersOK, leads, pool
  <2>4. ReservationsFitBudget'
    <3>1. \A l \in Layers : reserved'[l] <= reserved[l]
      BY <1>0, <2>1, <2>2 DEF CountersOK
    <3>2. \A l \in Layers : LayerCap(l) \in Nat
      BY DEF LayerCap, Owned
    <3> QED BY <1>0, <2>3, <3>1, <3>2 DEF CountersOK, ReservationsFitBudget, Capped, LayerCap, Owned
  <2>5. LeadSpendIsCommitted'
    BY <1>0, <2>2 DEF LeadSpendIsCommitted, leads
  <2> QED BY <2>3, <2>4, <2>5 DEF LedgerInv
<1>5. CASE SessionEnds(s)
  BY <1>0, <1>5 DEF SessionEnds, LedgerInv, CountersOK, ReservationsFitBudget,
     LeadSpendIsCommitted, Capped, LayerCap, Owned, pool
<1>6. CASE RollUp(s)
  BY <1>0, <1>6 DEF RollUp, LedgerInv, CountersOK, ReservationsFitBudget,
     LeadSpendIsCommitted, Capped, LayerCap, Owned, leads, pool
<1> QED BY <1>1, <1>2, <1>3, <1>4, <1>5, <1>6 DEF SpawnStep, EndStep

\* A step of a lead or of its observer keeps the ledger.
LEMMA LeadKeepsLedger ==
    ASSUME LedgerInv, NEW l \in Layers, LeadStep(l) \/ ObserverStep(l),
           UNCHANGED menu, ResumedOK'
    PROVE  LedgerInv'
<1> USE BudgetAssumption
<1>0. CountersOK /\ ReservationsFitBudget /\ LeadSpendIsCommitted
  BY DEF LedgerInv
<1>1. ASSUME NEW c \in 1..menu.lead, LeadTurn(l, c)
      PROVE  LedgerInv'
  BY <1>0, <1>1 DEF LeadTurn, LedgerInv, CountersOK, ReservationsFitBudget,
     LeadSpendIsCommitted, Capped, LayerCap, Owned, trees, pool
<1>2. CASE CommitIteration(l)
  BY <1>0, <1>2 DEF CommitIteration, LedgerInv, CountersOK, ReservationsFitBudget,
     LeadSpendIsCommitted, Capped, LayerCap, Owned, trees, pool
<1>3. CASE ObserverStep(l)
  <2>1. UNCHANGED <<spent, reserved, leadSpent, base, iter, trees, pool>>
    BY <1>3 DEF ObserverStep, ObserveRoot, ObserveLive, ObserveEnded
  <2> QED BY <1>0, <2>1 DEF LedgerInv, CountersOK, ReservationsFitBudget,
               LeadSpendIsCommitted, Capped, LayerCap, Owned, trees, pool
<1> QED BY <1>1, <1>2, <1>3 DEF LeadStep

\* Every step keeps the ledger.
LEMMA NextKeepsLedger == LedgerInv /\ [Next]_vars => LedgerInv'
<1> SUFFICES ASSUME LedgerInv, [Next]_vars PROVE LedgerInv'
  OBVIOUS
<1>0. ResumedOK' BY ResumedStep DEF LedgerInv
<1>1. CASE UNCHANGED vars
  BY <1>0, <1>1 DEF vars, LedgerInv, CountersOK, ReservationsFitBudget, LeadSpendIsCommitted,
     Capped, LayerCap, Owned
<1> QED BY <1>0, <1>1, WorkerKeepsLedger, SubleadKeepsLedger, LeadKeepsLedger DEF Next

\* The counters of every layer stay natural numbers, reservations fit, and what is
\* recorded for a lead is covered by the committed baseline and the running iteration
\* (budget_watch.rs: the observer stores their sum).
THEOREM LedgerInvariant == Spec => []LedgerInv
BY InitLedger, NextKeepsLedger, PTL DEF Spec

-----------------------------------------------------------------------------
\* handle_spawn_worker and spawn_sublead check and reserve under the lock on
\* reserved_usd: for any number of concurrent spawns, no capped layer ever
\* reserves more than its budget.
THEOREM ReservationsFit == Spec => []ReservationsFitBudget
<1>1. LedgerInv => ReservationsFitBudget
  BY DEF LedgerInv
<1> QED BY <1>1, LedgerInvariant, PTL

\* The observer stores baseline plus iteration and commit_iteration folds the one
\* into the other: no reprompt, reconcile or abort lowers a lead's recorded spend.
THEOREM LeadSpendMonotone == Spec => LeadSpendNeverDrops
<1>1. LedgerInv /\ [Next]_vars => [\A l \in Layers : leadSpent'[l] >= leadSpent[l]]_vars
  <2> SUFFICES ASSUME LedgerInv, Next
               PROVE  \A l \in Layers : leadSpent'[l] >= leadSpent[l]
    OBVIOUS
  <2>0. CountersOK /\ LeadSpendIsCommitted
    BY DEF LedgerInv
  <2>1. CASE \E k \in Layers : \E c \in 1..menu.lead : LeadTurn(k, c)
    <3>1. PICK k \in Layers, c \in 1..menu.lead : LeadTurn(k, c)
      BY <2>1
    <3>2. leadSpent' = [leadSpent EXCEPT ![k] = base[k] + iter[k] + c]
      BY <3>1 DEF LeadTurn
    <3> QED BY <2>0, <3>2, BudgetAssumption DEF CountersOK, LeadSpendIsCommitted
  <2>2. CASE UNCHANGED leadSpent
    BY <2>0, <2>2 DEF CountersOK
  <2>3. UNCHANGED leadSpent \/ \E k \in Layers : \E c \in 1..menu.lead : LeadTurn(k, c)
    BY DEF Next, WorkerStep, SpawnStep, EndStep, LeadStep, ObserverStep, leads,
       Admit, ReserveEstimate, RefuseWorker, ReserveNothing, InsertPending, WorkerExit,
       Release, Charge, MarkDone, AskResume, SpawnResume, ResumedEnds,
       ResolveEnvelope, ReadSpent, ReserveEnvelope, RefuseSublead, SpawnSubleadFails, RegisterSublead, SessionEnds, Remove, ListEnded,
       ReturnEnvelope, RollUp, CommitIteration, ObserveRoot, ObserveLive, ObserveEnded
  <2> QED BY <2>1, <2>2, <2>3
<1> QED BY <1>1, LedgerInvariant, PTL DEF Spec, LeadSpendNeverDrops

-----------------------------------------------------------------------------
(* Exactness: every dollar is counted once *)

\* Where a sub-lead's own session is over and charged to its layer, and where its layer
\* has been seen by a worker that asks for it.
Past == {"charged", "removed", "listed", "returned", "done"}
Seen(s) == s \in live \/ spc[s] \in Past \ {"charged"}

\* A worker holds a reservation only while it is reserved for and running, and has a cost
\* only once it has exited; its layer was in the map when it was admitted.
WorkerBook ==
    \A w \in Workers :
        /\ wpc[w] \notin {"reserved", "active", "exited"} => hold[w] = 0
        /\ wpc[w] \in {"idle", "admitted", "reserved", "active"} => cost[w] = 0
        /\ wpc[w] # "idle" => LayerOf[w] = Root \/ Seen(LayerOf[w])

\* What a sub-lead's stage says of its layer: before it runs nothing is spent there, and
\* after its session only workers add to it.
SubBook ==
    \A s \in Subs :
        /\ s \in live => spc[s] \in {"running", "charged", "failed"}
        /\ spc[s] \in {"running", "charged"} => s \in live
        /\ s \in ended <=> spc[s] \in {"listed", "returned", "done"}
        /\ spc[s] \notin Past \cup {"running"} => base[s] = 0 /\ iter[s] = 0
        /\ spc[s] \in Past => iter[s] = 0
        /\ spent[s] = 0 \/ Seen(s)

LeadBook == \A l \in Layers : leadSpent[l] = base[l] + iter[l]

\* The counters together: workers that have been charged, sub-leads' own sessions, and
\* what was rolled up to the root and is therefore there twice.
Paid == {w \in Workers : wpc[w] \in {"charged", "done"}}
Over == {s \in Subs : spc[s] \in Past}
SpentIsBooked == Sum(spent, Layers) = Sum(cost, Paid) + Sum(base, Over) + Sum(snap, Rolled)

ExactInv ==
    /\ LedgerInv /\ TypeOK /\ WorkerBook /\ SubBook /\ LeadBook
    /\ ReservedIsHeld /\ SpentIsBooked

LEMMA SetsAreFinite == IsFiniteSet(Workers) /\ IsFiniteSet(Subs) /\ IsFiniteSet(Layers)
<1>1. IsFiniteSet({Root}) BY FS_Singleton
<1> QED BY <1>1, BudgetAssumption, FS_Union DEF Layers

Obs == [at : ObsAt, workers : Nat, lead : Nat, self : Nat, all : Nat]

\* Types.
LEMMA TypeStep == ExactInv /\ [Next]_vars => TypeOK'
<1> SUFFICES ASSUME ExactInv, [Next]_vars PROVE TypeOK'
  OBVIOUS
<1> LedgerInv' /\ TypeOK /\ menu \in Menus BY NextKeepsLedger DEF ExactInv, LedgerInv
<1> CountersOK /\ CountersOK' /\ ResumedOK' /\ menu' \in Menus BY DEF LedgerInv, TypeOK
<1> Subs \subseteq Layers /\ Root \in Layers BY DEF Layers
<1> USE DEF TypeOK, WorkerAt, SubAt, ObsAt
<1>1. ASSUME NEW w \in Workers, Admit(w) PROVE TypeOK'
  BY <1>1 DEF Admit, leads, trees, pool
<1>2. ASSUME NEW w \in Workers, ReserveNothing(w) PROVE TypeOK'
  BY <1>2 DEF ReserveNothing, leads, trees, pool
<1>3. ASSUME NEW w \in Workers, InsertPending(w) PROVE TypeOK'
  BY <1>3 DEF InsertPending, leads, trees, pool
<1>4. ASSUME NEW w \in Workers, NEW e \in Estimates(LayerOf[w]), ReserveEstimate(w, e) PROVE TypeOK'
  BY <1>4 DEF ReserveEstimate, leads, trees, pool
<1>5. ASSUME NEW w \in Workers, NEW e \in Estimates(LayerOf[w]), RefuseWorker(w, e) PROVE TypeOK'
  BY <1>5 DEF RefuseWorker, leads, trees, pool
<1>6. ASSUME NEW w \in Workers, NEW c \in Costs, WorkerExit(w, c) PROVE TypeOK'
  BY <1>6 DEF WorkerExit, leads, trees, pool
<1>7. ASSUME NEW w \in Workers, Release(w) PROVE TypeOK'
  BY <1>7 DEF Release, leads, trees, pool
<1>8. ASSUME NEW w \in Workers, Charge(w) PROVE TypeOK'
  BY <1>8 DEF Charge, leads, trees, pool
<1>9. ASSUME NEW w \in Workers, MarkDone(w) PROVE TypeOK'
  BY <1>9 DEF MarkDone, leads, trees, pool
<1>10. ASSUME NEW s \in Subs, ResolveEnvelope(s) PROVE TypeOK'
  BY <1>10 DEF ResolveEnvelope, leads, pool, Move, trees
<1>11. ASSUME NEW s \in Subs, ReadSpent(s) PROVE TypeOK'
  BY <1>11 DEF ReadSpent, leads, pool, Move, trees
<1>12. ASSUME NEW s \in Subs, ReserveEnvelope(s) PROVE TypeOK'
  BY <1>12 DEF ReserveEnvelope, leads, pool, Move, trees
<1>13. ASSUME NEW s \in Subs, RefuseSublead(s) PROVE TypeOK'
  BY <1>13 DEF RefuseSublead, leads, pool, Move, trees
<1>14. ASSUME NEW s \in Subs, SpawnSubleadFails(s) PROVE TypeOK'
  BY <1>14 DEF SpawnSubleadFails, leads, pool, Move, trees
<1>15. ASSUME NEW s \in Subs, RegisterSublead(s) PROVE TypeOK'
  BY <1>15 DEF RegisterSublead, leads, pool, Move, trees
<1>16. ASSUME NEW s \in Subs, SessionEnds(s) PROVE TypeOK'
  BY <1>16 DEF SessionEnds, pool, Move, leads, trees
<1>17. ASSUME NEW s \in Subs, Remove(s) PROVE TypeOK'
  BY <1>17 DEF Remove, leads, pool, Move, trees
<1>18. ASSUME NEW s \in Subs, ListEnded(s) PROVE TypeOK'
  BY <1>18 DEF ListEnded, leads, pool, Move, trees
<1>19. ASSUME NEW s \in Subs, ReturnEnvelope(s) PROVE TypeOK'
  BY <1>19 DEF ReturnEnvelope, leads, pool, Move, trees
<1>20. ASSUME NEW s \in Subs, RollUp(s) PROVE TypeOK'
  BY <1>20 DEF RollUp, leads, pool, Move, trees
<1>21. ASSUME NEW l \in Layers, NEW c \in 1..menu.lead, LeadTurn(l, c) PROVE TypeOK'
  <2>1. obs' = obs \/ obs' = [obs EXCEPT ![l] = [obs[l] EXCEPT !.at = "root"]]
    BY <1>21 DEF LeadTurn
  <2>2. obs' \in [Layers -> Obs] BY <2>1 DEF Obs
  <2> QED BY <1>21, <2>2 DEF LeadTurn, Obs, LeadTurn, trees, pool, leads
<1>22. ASSUME NEW l \in Layers, CommitIteration(l) PROVE TypeOK'
  BY <1>22 DEF CommitIteration, trees, pool, leads
<1>23. ASSUME NEW l \in Layers, ObserveRoot(l) PROVE TypeOK'
  <2>1. obs' = [obs EXCEPT ![l] = [obs[l] EXCEPT !.at = "live", !.workers = spent[Root],
                                                 !.lead = leadSpent[Root]]]
    BY <1>23 DEF ObserveRoot
  <2>2. spent[Root] \in Nat /\ leadSpent[Root] \in Nat BY DEF CountersOK
  <2>3. obs' \in [Layers -> Obs] BY <2>1, <2>2 DEF Obs
  <2> QED BY <1>23, <2>3 DEF Obs, ObserveRoot, trees, pool, leads
<1>24. ASSUME NEW l \in Layers, ObserveLive(l) PROVE TypeOK'
  <2>1. PICK S \in SUBSET Subs :
           obs' = [obs EXCEPT ![l] = [obs[l] EXCEPT !.at = "ended",
                                                    !.workers = obs[l].workers + Sum(spent, S),
                                                    !.self = Sum(leadSpent, S),
                                                    !.all = Sum(leadSpent, S)]]
    BY <1>24 DEF ObserveLive
  <2>2. \A x \in Layers : spent[x] \in Nat /\ leadSpent[x] \in Nat BY DEF CountersOK
  <2>3. S \in SUBSET Layers OBVIOUS
  <2>4. Sum(spent, S) \in Nat /\ Sum(leadSpent, S) \in Nat
    BY <2>2, <2>3, SetsAreFinite, SumRemoves DEF Sum
  <2> DEFINE r == [obs[l] EXCEPT !.at = "ended", !.workers = obs[l].workers + Sum(spent, S),
                                 !.self = Sum(leadSpent, S), !.all = Sum(leadSpent, S)]
  <2>5. obs \in [Layers -> Obs] BY DEF Obs
  <2>6. r \in Obs
    <3>1. obs[l].workers \in Nat BY <2>5 DEF Obs
    <3> HIDE DEF TypeOK
    <3>2. obs[l].workers + Sum(spent, S) \in Nat BY <3>1, <2>4
    <3> QED BY <3>2, <2>4, <2>5 DEF Obs, ObsAt
  <2>7. obs' \in [Layers -> Obs]
    <3> HIDE DEF r, TypeOK
    <3> QED BY <2>1, <2>5, <2>6 DEF r
  <2> QED BY <1>24, <2>7 DEF Obs, ObserveLive, trees, pool, leads
<1>25. ASSUME NEW l \in Layers, ObserveEnded(l) PROVE TypeOK'
  <2>1. obs' = [obs EXCEPT ![l] = NoObs] /\ abort' \subseteq abort \cup {l}
    BY <1>25 DEF ObserveEnded
  <2>2. obs' \in [Layers -> Obs] BY <2>1 DEF Obs, NoObs
  <2> QED BY <1>25, <2>1, <2>2 DEF Obs, ObserveEnded, trees, pool, leads
<1>26. CASE UNCHANGED vars BY <1>26 DEF vars
<1>27. ASSUME NEW w \in Workers, Resuming(w) PROVE TypeOK'
  BY <1>27, ResumingLeaves DEF leads, trees
<1> HIDE DEF TypeOK, WorkerAt, SubAt, ObsAt
<1> QED BY <1>1, <1>2, <1>3, <1>4, <1>5, <1>6, <1>7, <1>8, <1>9, <1>10, <1>11,
    <1>12, <1>13, <1>14, <1>15, <1>16, <1>17, <1>18, <1>19, <1>20, <1>21, <1>22,
    <1>23, <1>24, <1>25, <1>26, <1>27 DEF Next, WorkerStep, Resuming, SpawnStep, EndStep, LeadStep, ObserverStep

\* What a worker's stage says of it.
LEMMA WorkerBookStep == ExactInv /\ [Next]_vars => WorkerBook'
<1> SUFFICES ASSUME ExactInv, [Next]_vars PROVE WorkerBook'
  OBVIOUS
<1> TypeOK /\ TypeOK' BY TypeStep DEF ExactInv
<1> CountersOK /\ CountersOK' BY DEF TypeOK
<1> WorkerBook /\ SubBook /\ LeadBook BY DEF ExactInv
<1> Root \notin Subs /\ \A w \in Workers : LayerOf[w] \in Layers BY BudgetAssumption
<1> Subs \subseteq Layers /\ Root \in Layers BY DEF Layers
<1> USE DEF WorkerBook, Seen, Past, TypeOK, CountersOK, WorkerAt, SubAt
<1>1. ASSUME NEW w \in Workers, Admit(w) PROVE WorkerBook'
  BY <1>1 DEF Admit, leads, trees, pool
<1>2. ASSUME NEW w \in Workers, ReserveNothing(w) PROVE WorkerBook'
  BY <1>2 DEF ReserveNothing, leads, trees, pool
<1>3. ASSUME NEW w \in Workers, InsertPending(w) PROVE WorkerBook'
  BY <1>3 DEF InsertPending, leads, trees, pool
<1>4. ASSUME NEW w \in Workers, NEW e \in Estimates(LayerOf[w]), ReserveEstimate(w, e) PROVE WorkerBook'
  BY <1>4 DEF ReserveEstimate, leads, trees, pool
<1>5. ASSUME NEW w \in Workers, NEW e \in Estimates(LayerOf[w]), RefuseWorker(w, e) PROVE WorkerBook'
  BY <1>5 DEF RefuseWorker, leads, trees, pool
<1>6. ASSUME NEW w \in Workers, NEW c \in Costs, WorkerExit(w, c) PROVE WorkerBook'
  BY <1>6 DEF WorkerExit, leads, trees, pool
<1>7. ASSUME NEW w \in Workers, Release(w) PROVE WorkerBook'
  BY <1>7 DEF Release, leads, trees, pool
<1>8. ASSUME NEW w \in Workers, Charge(w) PROVE WorkerBook'
  BY <1>8 DEF Charge, leads, trees, pool
<1>9. ASSUME NEW w \in Workers, MarkDone(w) PROVE WorkerBook'
  BY <1>9 DEF MarkDone, leads, trees, pool
<1>10. ASSUME NEW s \in Subs, ResolveEnvelope(s) PROVE WorkerBook'
  BY <1>10 DEF ResolveEnvelope, leads, pool, Move, trees
<1>11. ASSUME NEW s \in Subs, ReadSpent(s) PROVE WorkerBook'
  BY <1>11 DEF ReadSpent, leads, pool, Move, trees
<1>12. ASSUME NEW s \in Subs, ReserveEnvelope(s) PROVE WorkerBook'
  BY <1>12 DEF ReserveEnvelope, leads, pool, Move, trees
<1>13. ASSUME NEW s \in Subs, RefuseSublead(s) PROVE WorkerBook'
  BY <1>13 DEF RefuseSublead, leads, pool, Move, trees
<1>14. ASSUME NEW s \in Subs, SpawnSubleadFails(s) PROVE WorkerBook'
  BY <1>14 DEF SpawnSubleadFails, leads, pool, Move, trees
<1>15. ASSUME NEW s \in Subs, RegisterSublead(s) PROVE WorkerBook'
  BY <1>15 DEF RegisterSublead, leads, pool, Move, trees
<1>16. ASSUME NEW s \in Subs, SessionEnds(s) PROVE WorkerBook'
  BY <1>16 DEF SessionEnds, pool, Move, leads, trees
<1>17. ASSUME NEW s \in Subs, Remove(s) PROVE WorkerBook'
  BY <1>17 DEF Remove, leads, pool, Move, trees
<1>18. ASSUME NEW s \in Subs, ListEnded(s) PROVE WorkerBook'
  BY <1>18 DEF ListEnded, leads, pool, Move, trees
<1>19. ASSUME NEW s \in Subs, ReturnEnvelope(s) PROVE WorkerBook'
  BY <1>19 DEF ReturnEnvelope, leads, pool, Move, trees
<1>20. ASSUME NEW s \in Subs, RollUp(s) PROVE WorkerBook'
  BY <1>20 DEF RollUp, leads, pool, Move, trees
<1>21. ASSUME NEW l \in Layers, NEW c \in 1..menu.lead, LeadTurn(l, c) PROVE WorkerBook'
  BY <1>21 DEF LeadTurn, trees, pool, leads
<1>22. ASSUME NEW l \in Layers, CommitIteration(l) PROVE WorkerBook'
  BY <1>22 DEF CommitIteration, trees, pool, leads
<1>23. ASSUME NEW l \in Layers, ObserveRoot(l) PROVE WorkerBook'
  BY <1>23 DEF ObserveRoot, trees, pool, leads
<1>24. ASSUME NEW l \in Layers, ObserveLive(l) PROVE WorkerBook'
  BY <1>24 DEF ObserveLive, trees, pool, leads
<1>25. ASSUME NEW l \in Layers, ObserveEnded(l) PROVE WorkerBook'
  BY <1>25 DEF ObserveEnded, trees, pool, leads
<1>26. CASE UNCHANGED vars BY <1>26 DEF vars
<1>27. ASSUME NEW w \in Workers, Resuming(w) PROVE WorkerBook'
  BY <1>27, ResumingLeaves DEF leads, trees
<1> HIDE DEF WorkerBook, Seen, Past, TypeOK, CountersOK, WorkerAt, SubAt
<1> QED BY <1>1, <1>2, <1>3, <1>4, <1>5, <1>6, <1>7, <1>8, <1>9, <1>10, <1>11,
    <1>12, <1>13, <1>14, <1>15, <1>16, <1>17, <1>18, <1>19, <1>20, <1>21, <1>22,
    <1>23, <1>24, <1>25, <1>26, <1>27 DEF Next, WorkerStep, Resuming, SpawnStep, EndStep, LeadStep, ObserverStep

\* What a sub-lead's stage says of its layer.
LEMMA SubBookStep == ExactInv /\ [Next]_vars => SubBook'
<1> SUFFICES ASSUME ExactInv, [Next]_vars PROVE SubBook'
  OBVIOUS
<1> TypeOK /\ TypeOK' BY TypeStep DEF ExactInv
<1> CountersOK /\ CountersOK' BY DEF TypeOK
<1> WorkerBook /\ SubBook /\ LeadBook BY DEF ExactInv
<1> Root \notin Subs /\ \A w \in Workers : LayerOf[w] \in Layers BY BudgetAssumption
<1> Subs \subseteq Layers /\ Root \in Layers BY DEF Layers
<1> USE DEF SubBook, WorkerBook, Seen, Past, TypeOK, CountersOK, SubAt
<1>1. ASSUME NEW w \in Workers, Admit(w) PROVE SubBook'
  BY <1>1 DEF Admit, leads, trees, pool
<1>2. ASSUME NEW w \in Workers, ReserveNothing(w) PROVE SubBook'
  BY <1>2 DEF ReserveNothing, leads, trees, pool
<1>3. ASSUME NEW w \in Workers, InsertPending(w) PROVE SubBook'
  BY <1>3 DEF InsertPending, leads, trees, pool
<1>4. ASSUME NEW w \in Workers, NEW e \in Estimates(LayerOf[w]), ReserveEstimate(w, e) PROVE SubBook'
  BY <1>4 DEF ReserveEstimate, leads, trees, pool
<1>5. ASSUME NEW w \in Workers, NEW e \in Estimates(LayerOf[w]), RefuseWorker(w, e) PROVE SubBook'
  BY <1>5 DEF RefuseWorker, leads, trees, pool
<1>6. ASSUME NEW w \in Workers, NEW c \in Costs, WorkerExit(w, c) PROVE SubBook'
  BY <1>6 DEF WorkerExit, leads, trees, pool
<1>7. ASSUME NEW w \in Workers, Release(w) PROVE SubBook'
  BY <1>7 DEF Release, leads, trees, pool
<1>8. ASSUME NEW w \in Workers, Charge(w) PROVE SubBook'
  BY <1>8 DEF Charge, leads, trees, pool
<1>9. ASSUME NEW w \in Workers, MarkDone(w) PROVE SubBook'
  BY <1>9 DEF MarkDone, leads, trees, pool
<1>10. ASSUME NEW s \in Subs, ResolveEnvelope(s) PROVE SubBook'
  BY <1>10 DEF ResolveEnvelope, leads, pool, Move, trees
<1>11. ASSUME NEW s \in Subs, ReadSpent(s) PROVE SubBook'
  BY <1>11 DEF ReadSpent, leads, pool, Move, trees
<1>12. ASSUME NEW s \in Subs, ReserveEnvelope(s) PROVE SubBook'
  BY <1>12 DEF ReserveEnvelope, leads, pool, Move, trees
<1>13. ASSUME NEW s \in Subs, RefuseSublead(s) PROVE SubBook'
  BY <1>13 DEF RefuseSublead, leads, pool, Move, trees
<1>14. ASSUME NEW s \in Subs, SpawnSubleadFails(s) PROVE SubBook'
  BY <1>14 DEF SpawnSubleadFails, leads, pool, Move, trees
<1>15. ASSUME NEW s \in Subs, RegisterSublead(s) PROVE SubBook'
  BY <1>15 DEF RegisterSublead, leads, pool, Move, trees
<1>16. ASSUME NEW s \in Subs, SessionEnds(s) PROVE SubBook'
  BY <1>16 DEF SessionEnds, pool, Move, leads, trees
<1>17. ASSUME NEW s \in Subs, Remove(s) PROVE SubBook'
  BY <1>17 DEF Remove, leads, pool, Move, trees
<1>18. ASSUME NEW s \in Subs, ListEnded(s) PROVE SubBook'
  BY <1>18 DEF ListEnded, leads, pool, Move, trees
<1>19. ASSUME NEW s \in Subs, ReturnEnvelope(s) PROVE SubBook'
  BY <1>19 DEF ReturnEnvelope, leads, pool, Move, trees
<1>20. ASSUME NEW s \in Subs, RollUp(s) PROVE SubBook'
  BY <1>20 DEF RollUp, leads, pool, Move, trees
<1>21. ASSUME NEW l \in Layers, NEW c \in 1..menu.lead, LeadTurn(l, c) PROVE SubBook'
  BY <1>21 DEF LeadTurn, trees, pool, leads, LeadRuns
<1>22. ASSUME NEW l \in Layers, CommitIteration(l) PROVE SubBook'
  BY <1>22 DEF CommitIteration, trees, pool, leads
<1>23. ASSUME NEW l \in Layers, ObserveRoot(l) PROVE SubBook'
  BY <1>23 DEF ObserveRoot, trees, pool, leads
<1>24. ASSUME NEW l \in Layers, ObserveLive(l) PROVE SubBook'
  BY <1>24 DEF ObserveLive, trees, pool, leads
<1>25. ASSUME NEW l \in Layers, ObserveEnded(l) PROVE SubBook'
  BY <1>25 DEF ObserveEnded, trees, pool, leads
<1>26. CASE UNCHANGED vars BY <1>26 DEF vars
<1>27. ASSUME NEW w \in Workers, Resuming(w) PROVE SubBook'
  BY <1>27, ResumingLeaves DEF leads, trees
<1> HIDE DEF SubBook, WorkerBook, Seen, Past, TypeOK, CountersOK, SubAt
<1> QED BY <1>1, <1>2, <1>3, <1>4, <1>5, <1>6, <1>7, <1>8, <1>9, <1>10, <1>11,
    <1>12, <1>13, <1>14, <1>15, <1>16, <1>17, <1>18, <1>19, <1>20, <1>21, <1>22,
    <1>23, <1>24, <1>25, <1>26, <1>27 DEF Next, WorkerStep, Resuming, SpawnStep, EndStep, LeadStep, ObserverStep

\* lead_spent_usd is the baseline and the running iteration.
LEMMA LeadBookStep == ExactInv /\ [Next]_vars => LeadBook'
<1> SUFFICES ASSUME ExactInv, [Next]_vars PROVE LeadBook'
  OBVIOUS
<1> TypeOK /\ TypeOK' BY TypeStep DEF ExactInv
<1> CountersOK /\ CountersOK' BY DEF TypeOK
<1> WorkerBook /\ SubBook /\ LeadBook BY DEF ExactInv
<1> Root \notin Subs /\ \A w \in Workers : LayerOf[w] \in Layers BY BudgetAssumption
<1> Subs \subseteq Layers /\ Root \in Layers BY DEF Layers
<1> USE DEF LeadBook, TypeOK, CountersOK
<1>1. ASSUME NEW w \in Workers, Admit(w) PROVE LeadBook'
  BY <1>1 DEF Admit, leads, trees, pool
<1>2. ASSUME NEW w \in Workers, ReserveNothing(w) PROVE LeadBook'
  BY <1>2 DEF ReserveNothing, leads, trees, pool
<1>3. ASSUME NEW w \in Workers, InsertPending(w) PROVE LeadBook'
  BY <1>3 DEF InsertPending, leads, trees, pool
<1>4. ASSUME NEW w \in Workers, NEW e \in Estimates(LayerOf[w]), ReserveEstimate(w, e) PROVE LeadBook'
  BY <1>4 DEF ReserveEstimate, leads, trees, pool
<1>5. ASSUME NEW w \in Workers, NEW e \in Estimates(LayerOf[w]), RefuseWorker(w, e) PROVE LeadBook'
  BY <1>5 DEF RefuseWorker, leads, trees, pool
<1>6. ASSUME NEW w \in Workers, NEW c \in Costs, WorkerExit(w, c) PROVE LeadBook'
  BY <1>6 DEF WorkerExit, leads, trees, pool
<1>7. ASSUME NEW w \in Workers, Release(w) PROVE LeadBook'
  BY <1>7 DEF Release, leads, trees, pool
<1>8. ASSUME NEW w \in Workers, Charge(w) PROVE LeadBook'
  BY <1>8 DEF Charge, leads, trees, pool
<1>9. ASSUME NEW w \in Workers, MarkDone(w) PROVE LeadBook'
  BY <1>9 DEF MarkDone, leads, trees, pool
<1>10. ASSUME NEW s \in Subs, ResolveEnvelope(s) PROVE LeadBook'
  BY <1>10 DEF ResolveEnvelope, leads, pool, Move, trees
<1>11. ASSUME NEW s \in Subs, ReadSpent(s) PROVE LeadBook'
  BY <1>11 DEF ReadSpent, leads, pool, Move, trees
<1>12. ASSUME NEW s \in Subs, ReserveEnvelope(s) PROVE LeadBook'
  BY <1>12 DEF ReserveEnvelope, leads, pool, Move, trees
<1>13. ASSUME NEW s \in Subs, RefuseSublead(s) PROVE LeadBook'
  BY <1>13 DEF RefuseSublead, leads, pool, Move, trees
<1>14. ASSUME NEW s \in Subs, SpawnSubleadFails(s) PROVE LeadBook'
  BY <1>14 DEF SpawnSubleadFails, leads, pool, Move, trees
<1>15. ASSUME NEW s \in Subs, RegisterSublead(s) PROVE LeadBook'
  BY <1>15 DEF RegisterSublead, leads, pool, Move, trees
<1>16. ASSUME NEW s \in Subs, SessionEnds(s) PROVE LeadBook'
  BY <1>16 DEF SessionEnds, pool, Move, leads, trees
<1>17. ASSUME NEW s \in Subs, Remove(s) PROVE LeadBook'
  BY <1>17 DEF Remove, leads, pool, Move, trees
<1>18. ASSUME NEW s \in Subs, ListEnded(s) PROVE LeadBook'
  BY <1>18 DEF ListEnded, leads, pool, Move, trees
<1>19. ASSUME NEW s \in Subs, ReturnEnvelope(s) PROVE LeadBook'
  BY <1>19 DEF ReturnEnvelope, leads, pool, Move, trees
<1>20. ASSUME NEW s \in Subs, RollUp(s) PROVE LeadBook'
  BY <1>20 DEF RollUp, leads, pool, Move, trees
<1>21. ASSUME NEW l \in Layers, NEW c \in 1..menu.lead, LeadTurn(l, c) PROVE LeadBook'
  BY <1>21 DEF LeadTurn, trees, pool, leads, LeadRuns
<1>22. ASSUME NEW l \in Layers, CommitIteration(l) PROVE LeadBook'
  BY <1>22 DEF CommitIteration, trees, pool, leads
<1>23. ASSUME NEW l \in Layers, ObserveRoot(l) PROVE LeadBook'
  BY <1>23 DEF ObserveRoot, trees, pool, leads
<1>24. ASSUME NEW l \in Layers, ObserveLive(l) PROVE LeadBook'
  BY <1>24 DEF ObserveLive, trees, pool, leads
<1>25. ASSUME NEW l \in Layers, ObserveEnded(l) PROVE LeadBook'
  BY <1>25 DEF ObserveEnded, trees, pool, leads
<1>26. CASE UNCHANGED vars BY <1>26 DEF vars
<1>27. ASSUME NEW w \in Workers, Resuming(w) PROVE LeadBook'
  BY <1>27, ResumingLeaves DEF leads, trees
<1> HIDE DEF LeadBook, TypeOK, CountersOK
<1> QED BY <1>1, <1>2, <1>3, <1>4, <1>5, <1>6, <1>7, <1>8, <1>9, <1>10, <1>11,
    <1>12, <1>13, <1>14, <1>15, <1>16, <1>17, <1>18, <1>19, <1>20, <1>21, <1>22,
    <1>23, <1>24, <1>25, <1>26, <1>27 DEF Next, WorkerStep, Resuming, SpawnStep, EndStep, LeadStep, ObserverStep

-----------------------------------------------------------------------------
(* Reservations *)

Res == [s \in Subs |-> Reservation(s)]
Reserving == {s \in Subs : spc[s] \in {"reserved", "running", "charged", "removed", "listed"}}

\* What the layer's workers and, at the root, its sub-leads hold.
LEMMA HeldSays ==
    ReservedIsHeld <=> \A l \in Layers : reserved[l] = Sum(hold, InLayer(l))
                                           + (IF l # Root THEN 0 ELSE Sum(Res, Reserving))
BY DEF ReservedIsHeld, Res, Reserving

\* Sums of what is held are natural numbers.
LEMMA HoldsAreNat ==
    ASSUME TypeOK
    PROVE  /\ \A A \in SUBSET Workers : Sum(hold, A) \in Nat
           /\ \A A \in SUBSET Subs : Sum(Res, A) \in Nat
           /\ \A s \in Subs : Res[s] \in Nat /\ Res[s] = Reservation(s)
<1>1. \A w \in Workers : hold[w] \in Nat BY DEF TypeOK, CountersOK
<1>2. \A s \in Subs : Res[s] \in Nat /\ Res[s] = Reservation(s)
  BY BudgetAssumption DEF Res, Reservation
<1>3. \A A \in SUBSET Workers : Sum(hold, A) \in Nat
  BY <1>1, SetsAreFinite, SumRemoves DEF Sum
<1>4. \A A \in SUBSET Subs : Sum(Res, A) \in Nat BY <1>2, SetsAreFinite, SumRemoves DEF Sum
<1> QED BY <1>2, <1>3, <1>4

\* A step of one worker: its layer's counter moves as its own reservation does.
LEMMA WorkerMovesHold ==
    ASSUME TypeOK, TypeOK', ReservedIsHeld, NEW w \in Workers, NEW n \in Nat,
           hold' = [hold EXCEPT ![w] = n], UNCHANGED spc,
           \A l \in Layers \ {LayerOf[w]} : reserved'[l] = reserved[l],
           reserved'[LayerOf[w]] + hold[w] = reserved[LayerOf[w]] + n
    PROVE  ReservedIsHeld'
<1>1. hold \in [Workers -> Nat] /\ reserved \in [Layers -> Nat] /\ reserved' \in [Layers -> Nat]
  BY DEF TypeOK, CountersOK
<1>2. Reserving' = Reserving /\ \A l \in Layers : InLayer(l) \in SUBSET Workers
  BY DEF Reserving, InLayer
<1>3. ASSUME NEW l \in Layers
      PROVE  reserved'[l] = Sum(hold', InLayer(l)) + (IF l # Root THEN 0 ELSE Sum(Res, Reserving))
  <2> DEFINE more == IF l # Root THEN 0 ELSE Sum(Res, Reserving)
  <2>1. more \in Nat
    <3>1. Reserving \in SUBSET Subs BY DEF Reserving
    <3> QED BY <3>1, HoldsAreNat
  <2>2. reserved[l] = Sum(hold, InLayer(l)) + more BY HeldSays
  <2>3. Sum(hold, InLayer(l)) \in Nat /\ Sum(hold', InLayer(l)) \in Nat
    <3>1. \A x \in Workers : hold'[x] \in Nat BY DEF TypeOK, CountersOK
    <3>2. Sum(hold', InLayer(l)) \in Nat BY <1>2, <3>1, SetsAreFinite, SumRemoves DEF Sum
    <3> QED BY <1>2, <3>2, HoldsAreNat
  <2>4. /\ w \notin InLayer(l) => Sum(hold', InLayer(l)) = Sum(hold, InLayer(l))
        /\ w \in InLayer(l) => Sum(hold', InLayer(l)) + hold[w] = Sum(hold, InLayer(l)) + hold'[w]
    <3> DEFINE h == hold'
    <3>1. \A y \in Workers : hold[y] \in Nat BY <1>1
    <3>2. h[w] \in Nat /\ \A y \in Workers \ {w} : h[y] = hold[y] BY <1>1
    <3>3. InLayer(l) \in SUBSET Workers BY <1>2
    <3>4. IsFiniteSet(Workers) BY SetsAreFinite
    <3> HIDE DEF h
    <3>5. /\ w \notin InLayer(l) => SumFunctionOnSet(h, InLayer(l)) = SumFunctionOnSet(hold, InLayer(l))
          /\ w \in InLayer(l) => SumFunctionOnSet(h, InLayer(l)) + hold[w]
                                   = SumFunctionOnSet(hold, InLayer(l)) + h[w]
      BY <3>1, <3>2, <3>3, <3>4, SumChanges
    <3> QED BY <3>5 DEF h, Sum
  <2>5. hold'[w] = n /\ hold[w] \in Nat BY <1>1
  <2>6. w \in InLayer(l) <=> l = LayerOf[w] BY DEF InLayer
  <2> HIDE DEF more
  <2>7. ASSUME l = LayerOf[w] PROVE reserved'[l] = Sum(hold', InLayer(l)) + more
    BY <1>1, <2>1, <2>2, <2>3, <2>4, <2>5, <2>6, <2>7
  <2>8. ASSUME l # LayerOf[w] PROVE reserved'[l] = Sum(hold', InLayer(l)) + more
    BY <1>1, <2>1, <2>2, <2>3, <2>4, <2>6, <2>8
  <2>9. reserved'[l] = Sum(hold', InLayer(l)) + more BY <2>7, <2>8
  <2> QED BY <2>9 DEF more
<1>4. \A l \in Layers : reserved'[l] = Sum(hold', InLayer(l))
                          + (IF l # Root THEN 0 ELSE Sum(Res, Reserving'))
  BY <1>2, <1>3
<1> QED BY <1>4 DEF ReservedIsHeld, Res, Reserving, InLayer, Reservation

\* A step of one sub-lead: the root's counter moves as the envelope comes or goes.
LEMMA SubMovesHold ==
    ASSUME TypeOK, TypeOK', ReservedIsHeld, UNCHANGED hold,
           \A l \in Subs : reserved'[l] = reserved[l],
           reserved'[Root] + Sum(Res, Reserving) = reserved[Root] + Sum(Res, Reserving')
    PROVE  ReservedIsHeld'
<1>1. reserved \in [Layers -> Nat] /\ reserved' \in [Layers -> Nat] /\ Root \in Layers
  BY DEF TypeOK, CountersOK, Layers
<1>2. \A l \in Layers : InLayer(l) \in SUBSET Workers /\ Sum(hold, InLayer(l)) \in Nat
  BY HoldsAreNat DEF InLayer
<1>3. Sum(Res, Reserving) \in Nat /\ Sum(Res, Reserving') \in Nat
  BY HoldsAreNat DEF Reserving
<1>4. ASSUME NEW l \in Layers
      PROVE  reserved'[l] = Sum(hold, InLayer(l)) + (IF l # Root THEN 0 ELSE Sum(Res, Reserving'))
  <2>1. CASE l = Root
    <3>1. reserved[Root] = Sum(hold, InLayer(Root)) + Sum(Res, Reserving) BY <1>1, HeldSays
    <3>2. reserved'[Root] = Sum(hold, InLayer(Root)) + Sum(Res, Reserving')
      BY <1>1, <1>2, <1>3, <3>1
    <3> QED BY <2>1, <3>2
  <2>2. CASE l # Root
    <3>1. l \in Subs BY <2>2 DEF Layers
    <3>2. reserved[l] = Sum(hold, InLayer(l)) + 0 BY <2>2, HeldSays
    <3> QED BY <2>2, <3>1, <3>2
  <2> QED BY <2>1, <2>2
<1> QED BY <1>4 DEF ReservedIsHeld, Res, Reserving, InLayer, Reservation

\* One envelope more or less.
LEMMA EnvelopeCounts ==
    ASSUME TypeOK, NEW s \in Subs, NEW A \in SUBSET Subs
    PROVE  /\ s \in A => Sum(Res, A) = Reservation(s) + Sum(Res, A \ {s})
           /\ s \notin A => Sum(Res, A \cup {s}) = Reservation(s) + Sum(Res, A)
<1>1. \A x \in Subs : Res[x] \in Nat /\ Res[x] = Reservation(x) BY HoldsAreNat
<1>a. (\A x \in Subs : Res[x] \in Nat) /\ IsFiniteSet(Subs) BY <1>1, SetsAreFinite
<1>b. \A B \in SUBSET Subs :
         /\ SumFunctionOnSet(Res, B) \in Nat
         /\ \A x \in B : SumFunctionOnSet(Res, B) = Res[x] + SumFunctionOnSet(Res, B \ {x})
  BY <1>a, SumRemoves
<1>2. \A B \in SUBSET Subs : \A x \in B : Sum(Res, B) = Res[x] + Sum(Res, B \ {x})
  BY <1>b DEF Sum
<1>3. s \notin A => (A \cup {s}) \ {s} = A OBVIOUS
<1>4. A \cup {s} \in SUBSET Subs OBVIOUS
<1> QED BY <1>1, <1>2, <1>3, <1>4

\* Neither the counters nor the holders move.
LEMMA HeldFrame ==
    ASSUME TypeOK, TypeOK', ReservedIsHeld, UNCHANGED <<hold, reserved>>, Reserving' = Reserving
    PROVE  ReservedIsHeld'
<1>1. reserved'[Root] + Sum(Res, Reserving) = reserved[Root] + Sum(Res, Reserving') OBVIOUS
<1> QED BY <1>1, SubMovesHold

\* A release never meets the floor at zero: what is held is part of what is reserved.
LEMMA HoldIsReserved ==
    ASSUME TypeOK, ReservedIsHeld
    PROVE  /\ \A w \in Workers : hold[w] <= reserved[LayerOf[w]]
           /\ \A s \in Reserving : Reservation(s) <= reserved[Root]
<1>1. hold \in [Workers -> Nat] /\ reserved \in [Layers -> Nat] /\ Root \in Layers
  BY DEF TypeOK, CountersOK, Layers
<1>2. Sum(Res, Reserving) \in Nat /\ \A l \in Layers : Sum(hold, InLayer(l)) \in Nat
  BY HoldsAreNat DEF Reserving, InLayer
<1>3. ASSUME NEW w \in Workers PROVE hold[w] <= reserved[LayerOf[w]]
  <2> DEFINE A == InLayer(LayerOf[w])
             more == IF LayerOf[w] # Root THEN 0 ELSE Sum(Res, Reserving)
  <2>1. LayerOf[w] \in Layers BY BudgetAssumption
  <2>2. A \in SUBSET Workers /\ w \in A /\ A \ {w} \in SUBSET Workers BY DEF InLayer
  <2>3. \A x \in Workers : hold[x] \in Nat BY <1>1
  <2>4. \A B \in SUBSET Workers :
           /\ SumFunctionOnSet(hold, B) \in Nat
           /\ \A x \in B : SumFunctionOnSet(hold, B) = hold[x] + SumFunctionOnSet(hold, B \ {x})
    BY <2>3, SetsAreFinite, SumRemoves
  <2>5. reserved[LayerOf[w]] = Sum(hold, A) + more BY <2>1, HeldSays
  <2>6. more \in Nat BY <1>2
  <2> HIDE DEF A, more
  <2>7. Sum(hold, A) = hold[w] + Sum(hold, A \ {w}) /\ Sum(hold, A \ {w}) \in Nat
    BY <2>2, <2>4 DEF Sum
  <2>8. hold[w] \in Nat BY <2>3
  <2> QED BY <2>5, <2>6, <2>7, <2>8
<1>4. ASSUME NEW s \in Reserving PROVE Reservation(s) <= reserved[Root]
  <2>1. s \in Subs /\ Reserving \in SUBSET Subs /\ Reserving \ {s} \in SUBSET Subs
    BY DEF Reserving
  <2>2. Sum(Res, Reserving) = Reservation(s) + Sum(Res, Reserving \ {s})
    BY <2>1, EnvelopeCounts
  <2>3. Sum(Res, Reserving \ {s}) \in Nat /\ Reservation(s) \in Nat BY <2>1, HoldsAreNat
  <2>4. reserved[Root] = Sum(hold, InLayer(Root)) + Sum(Res, Reserving) BY <1>1, HeldSays
  <2> QED BY <1>1, <1>2, <2>2, <2>3, <2>4
<1> QED BY <1>3, <1>4

\* No reservation leaks and none is returned twice.
LEMMA ReservedStep == ExactInv /\ [Next]_vars => ReservedIsHeld'
<1> SUFFICES ASSUME ExactInv, [Next]_vars PROVE ReservedIsHeld'
  OBVIOUS
<1> TypeOK /\ TypeOK' BY TypeStep DEF ExactInv
<1> WorkerBook /\ ReservedIsHeld BY DEF ExactInv
<1>c. /\ hold \in [Workers -> Nat] /\ reserved \in [Layers -> Nat] /\ spc \in [Subs -> SubAt]
      /\ CountersOK
  BY DEF TypeOK, CountersOK
<1>d. Root \in Layers /\ Root \notin Subs /\ \A w \in Workers : LayerOf[w] \in Layers
  BY BudgetAssumption DEF Layers
<1>1. ASSUME NEW w \in Workers, Admit(w) PROVE ReservedIsHeld'
  <2>1. UNCHANGED <<hold, reserved>> /\ Reserving' = Reserving
    BY <1>1, <1>c DEF Reserving, Admit, leads, trees, pool
  <2> QED BY <2>1, HeldFrame
<1>2. ASSUME NEW w \in Workers, ReserveNothing(w) PROVE ReservedIsHeld'
  <2>1. UNCHANGED <<hold, reserved>> /\ Reserving' = Reserving
    BY <1>2, <1>c DEF Reserving, ReserveNothing, leads, trees, pool
  <2> QED BY <2>1, HeldFrame
<1>3. ASSUME NEW w \in Workers, InsertPending(w) PROVE ReservedIsHeld'
  <2>1. UNCHANGED <<hold, reserved>> /\ Reserving' = Reserving
    BY <1>3, <1>c DEF Reserving, InsertPending, leads, trees, pool
  <2> QED BY <2>1, HeldFrame
<1>4. ASSUME NEW w \in Workers, NEW e \in Estimates(LayerOf[w]), ReserveEstimate(w, e) PROVE ReservedIsHeld'
  <2>1. e \in Nat BY EstimatesAreNat DEF TypeOK
  <2>2. hold[w] = 0 BY <1>4 DEF ReserveEstimate, WorkerBook
  <2>3. /\ hold' = [hold EXCEPT ![w] = e] /\ UNCHANGED spc
        /\ reserved' = [reserved EXCEPT ![LayerOf[w]] = @ + e]
    BY <1>4 DEF ReserveEstimate, trees
  <2>4. \A l \in Layers \ {LayerOf[w]} : reserved'[l] = reserved[l] BY <1>c, <2>3
  <2>5. reserved'[LayerOf[w]] + hold[w] = reserved[LayerOf[w]] + e
    BY <1>c, <1>d, <2>1, <2>2, <2>3
  <2> QED BY <2>1, <2>3, <2>4, <2>5, WorkerMovesHold
<1>5. ASSUME NEW w \in Workers, NEW e \in Estimates(LayerOf[w]), RefuseWorker(w, e) PROVE ReservedIsHeld'
  <2>1. UNCHANGED <<hold, reserved>> /\ Reserving' = Reserving
    BY <1>5, <1>c DEF Reserving, RefuseWorker, leads, trees, pool
  <2> QED BY <2>1, HeldFrame
<1>6. ASSUME NEW w \in Workers, NEW c \in Costs, WorkerExit(w, c) PROVE ReservedIsHeld'
  <2>1. UNCHANGED <<hold, reserved>> /\ Reserving' = Reserving
    BY <1>6, <1>c DEF Reserving, WorkerExit, leads, trees, pool
  <2> QED BY <2>1, HeldFrame
<1>7. ASSUME NEW w \in Workers, Release(w) PROVE ReservedIsHeld'
  <2>1. hold[w] <= reserved[LayerOf[w]] BY HoldIsReserved
  <2>2. /\ hold' = [hold EXCEPT ![w] = 0] /\ UNCHANGED spc
        /\ reserved' = [reserved EXCEPT ![LayerOf[w]] = Minus(@, hold[w])]
    BY <1>7 DEF Release, trees
  <2>3. \A l \in Layers \ {LayerOf[w]} : reserved'[l] = reserved[l] BY <1>c, <2>2
  <2>4. reserved'[LayerOf[w]] + hold[w] = reserved[LayerOf[w]] + 0
    BY <1>c, <1>d, <2>1, <2>2 DEF Minus
  <2> QED BY <2>2, <2>3, <2>4, WorkerMovesHold
<1>8. ASSUME NEW w \in Workers, Charge(w) PROVE ReservedIsHeld'
  <2>1. UNCHANGED <<hold, reserved>> /\ Reserving' = Reserving
    BY <1>8, <1>c DEF Reserving, Charge, leads, trees, pool
  <2> QED BY <2>1, HeldFrame
<1>9. ASSUME NEW w \in Workers, MarkDone(w) PROVE ReservedIsHeld'
  <2>1. UNCHANGED <<hold, reserved>> /\ Reserving' = Reserving
    BY <1>9, <1>c DEF Reserving, MarkDone, leads, trees, pool
  <2> QED BY <2>1, HeldFrame
<1>10. ASSUME NEW s \in Subs, ResolveEnvelope(s) PROVE ReservedIsHeld'
  <2>1. UNCHANGED <<hold, reserved>> /\ Reserving' = Reserving
    BY <1>10, <1>c DEF Reserving, ResolveEnvelope, leads, pool, Move, trees
  <2> QED BY <2>1, HeldFrame
<1>11. ASSUME NEW s \in Subs, ReadSpent(s) PROVE ReservedIsHeld'
  <2>1. UNCHANGED <<hold, reserved>> /\ Reserving' = Reserving
    BY <1>11, <1>c DEF Reserving, ReadSpent, leads, pool, Move, trees
  <2> QED BY <2>1, HeldFrame
<1>12. ASSUME NEW s \in Subs, ReserveEnvelope(s) PROVE ReservedIsHeld'
  <2>1. /\ spc[s] = "read" /\ spc' = [spc EXCEPT ![s] = "reserved"] /\ UNCHANGED hold
        /\ reserved' = [reserved EXCEPT ![Root] = @ + Reservation(s)]
    BY <1>12 DEF ReserveEnvelope, Move, pool
  <2>2. s \notin Reserving /\ Reserving' = Reserving \cup {s} /\ Reserving \in SUBSET Subs
    BY <1>c, <2>1 DEF Reserving
  <2>3. Sum(Res, Reserving') = Reservation(s) + Sum(Res, Reserving) BY <2>2, EnvelopeCounts
  <2>4. Sum(Res, Reserving) \in Nat /\ Reservation(s) \in Nat BY <2>2, HoldsAreNat
  <2>5. reserved'[Root] + Sum(Res, Reserving) = reserved[Root] + Sum(Res, Reserving')
    <3>1. reserved'[Root] = reserved[Root] + Reservation(s) /\ reserved[Root] \in Nat
      BY <1>c, <1>d, <2>1
    <3> QED BY <2>3, <2>4, <3>1
  <2>6. \A l \in Subs : reserved'[l] = reserved[l] BY <1>c, <1>d, <2>1 DEF Layers
  <2> QED BY <2>1, <2>5, <2>6, SubMovesHold
<1>13. ASSUME NEW s \in Subs, RefuseSublead(s) PROVE ReservedIsHeld'
  <2>1. UNCHANGED <<hold, reserved>> /\ Reserving' = Reserving
    BY <1>13, <1>c DEF Reserving, RefuseSublead, leads, pool, Move, trees
  <2> QED BY <2>1, HeldFrame
<1>14. ASSUME NEW s \in Subs, SpawnSubleadFails(s) PROVE ReservedIsHeld'
  <2>1. /\ spc[s] = "reserved" /\ spc' = [spc EXCEPT ![s] = "failed"] /\ UNCHANGED hold
        /\ reserved' = [reserved EXCEPT ![Root] = Minus(@, Reservation(s))]
    BY <1>14 DEF SpawnSubleadFails, Move, pool
  <2>2. s \in Reserving /\ Reserving' = Reserving \ {s} /\ Reserving \in SUBSET Subs
    BY <1>c, <2>1 DEF Reserving
  <2>3. Sum(Res, Reserving) = Reservation(s) + Sum(Res, Reserving') BY <2>2, EnvelopeCounts
  <2>4. Sum(Res, Reserving') \in Nat /\ Reservation(s) \in Nat BY <2>2, HoldsAreNat
  <2>5. reserved'[Root] + Sum(Res, Reserving) = reserved[Root] + Sum(Res, Reserving')
    <3>1. Reservation(s) <= reserved[Root] BY <2>2, HoldIsReserved
    <3>2. reserved'[Root] = reserved[Root] - Reservation(s) /\ reserved[Root] \in Nat
      BY <1>c, <1>d, <2>1, <2>4, <3>1 DEF Minus
    <3> QED BY <2>3, <2>4, <3>2
  <2>6. \A l \in Subs : reserved'[l] = reserved[l] BY <1>c, <1>d, <2>1 DEF Layers
  <2> QED BY <2>1, <2>5, <2>6, SubMovesHold
<1>15. ASSUME NEW s \in Subs, RegisterSublead(s) PROVE ReservedIsHeld'
  <2>1. UNCHANGED <<hold, reserved>> /\ Reserving' = Reserving
    BY <1>15, <1>c DEF Reserving, RegisterSublead, leads, pool, Move, trees
  <2> QED BY <2>1, HeldFrame
<1>16. ASSUME NEW s \in Subs, SessionEnds(s) PROVE ReservedIsHeld'
  <2>1. UNCHANGED <<hold, reserved>> /\ Reserving' = Reserving
    BY <1>16, <1>c DEF Reserving, SessionEnds, pool, Move, leads, trees
  <2> QED BY <2>1, HeldFrame
<1>17. ASSUME NEW s \in Subs, Remove(s) PROVE ReservedIsHeld'
  <2>1. UNCHANGED <<hold, reserved>> /\ Reserving' = Reserving
    BY <1>17, <1>c DEF Reserving, Remove, leads, pool, Move, trees
  <2> QED BY <2>1, HeldFrame
<1>18. ASSUME NEW s \in Subs, ListEnded(s) PROVE ReservedIsHeld'
  <2>1. UNCHANGED <<hold, reserved>> /\ Reserving' = Reserving
    BY <1>18, <1>c DEF Reserving, ListEnded, leads, pool, Move, trees
  <2> QED BY <2>1, HeldFrame
<1>19. ASSUME NEW s \in Subs, ReturnEnvelope(s) PROVE ReservedIsHeld'
  <2>1. /\ spc[s] = "listed" /\ spc' = [spc EXCEPT ![s] = "returned"] /\ UNCHANGED hold
        /\ reserved' = [reserved EXCEPT ![Root] = Minus(@, Reservation(s))]
    BY <1>19 DEF ReturnEnvelope, Move, pool
  <2>2. s \in Reserving /\ Reserving' = Reserving \ {s} /\ Reserving \in SUBSET Subs
    BY <1>c, <2>1 DEF Reserving
  <2>3. Sum(Res, Reserving) = Reservation(s) + Sum(Res, Reserving') BY <2>2, EnvelopeCounts
  <2>4. Sum(Res, Reserving') \in Nat /\ Reservation(s) \in Nat BY <2>2, HoldsAreNat
  <2>5. reserved'[Root] + Sum(Res, Reserving) = reserved[Root] + Sum(Res, Reserving')
    <3>1. Reservation(s) <= reserved[Root] BY <2>2, HoldIsReserved
    <3>2. reserved'[Root] = reserved[Root] - Reservation(s) /\ reserved[Root] \in Nat
      BY <1>c, <1>d, <2>1, <2>4, <3>1 DEF Minus
    <3> QED BY <2>3, <2>4, <3>2
  <2>6. \A l \in Subs : reserved'[l] = reserved[l] BY <1>c, <1>d, <2>1 DEF Layers
  <2> QED BY <2>1, <2>5, <2>6, SubMovesHold
<1>20. ASSUME NEW s \in Subs, RollUp(s) PROVE ReservedIsHeld'
  <2>1. UNCHANGED <<hold, reserved>> /\ Reserving' = Reserving
    BY <1>20, <1>c DEF Reserving, RollUp, leads, pool, Move, trees
  <2> QED BY <2>1, HeldFrame
<1>21. ASSUME NEW l \in Layers, NEW c \in 1..menu.lead, LeadTurn(l, c) PROVE ReservedIsHeld'
  <2>1. UNCHANGED <<hold, reserved>> /\ Reserving' = Reserving
    BY <1>21, <1>c DEF Reserving, LeadTurn, trees, pool, leads
  <2> QED BY <2>1, HeldFrame
<1>22. ASSUME NEW l \in Layers, CommitIteration(l) PROVE ReservedIsHeld'
  <2>1. UNCHANGED <<hold, reserved>> /\ Reserving' = Reserving
    BY <1>22, <1>c DEF Reserving, CommitIteration, trees, pool, leads
  <2> QED BY <2>1, HeldFrame
<1>23. ASSUME NEW l \in Layers, ObserveRoot(l) PROVE ReservedIsHeld'
  <2>1. UNCHANGED <<hold, reserved>> /\ Reserving' = Reserving
    BY <1>23, <1>c DEF Reserving, ObserveRoot, trees, pool, leads
  <2> QED BY <2>1, HeldFrame
<1>24. ASSUME NEW l \in Layers, ObserveLive(l) PROVE ReservedIsHeld'
  <2>1. UNCHANGED <<hold, reserved>> /\ Reserving' = Reserving
    BY <1>24, <1>c DEF Reserving, ObserveLive, trees, pool, leads
  <2> QED BY <2>1, HeldFrame
<1>25. ASSUME NEW l \in Layers, ObserveEnded(l) PROVE ReservedIsHeld'
  <2>1. UNCHANGED <<hold, reserved>> /\ Reserving' = Reserving
    BY <1>25, <1>c DEF Reserving, ObserveEnded, trees, pool, leads
  <2> QED BY <2>1, HeldFrame
<1>26. CASE UNCHANGED vars BY <1>26, HeldFrame DEF vars, Reserving
<1>27. ASSUME NEW w \in Workers, Resuming(w) PROVE ReservedIsHeld'
  <2>1. UNCHANGED <<hold, reserved>> /\ Reserving' = Reserving
    BY <1>27, ResumingLeaves DEF Reserving, trees
  <2> QED BY <2>1, HeldFrame
<1> QED BY <1>1, <1>2, <1>3, <1>4, <1>5, <1>6, <1>7, <1>8, <1>9, <1>10, <1>11,
    <1>12, <1>13, <1>14, <1>15, <1>16, <1>17, <1>18, <1>19, <1>20, <1>21, <1>22,
    <1>23, <1>24, <1>25, <1>26, <1>27 DEF Next, WorkerStep, Resuming, SpawnStep, EndStep, LeadStep, ObserverStep

-----------------------------------------------------------------------------
(* Spending *)

\* Each of the three books keeps its sum while its members and their amounts stay.
LEMMA BookKept ==
    ASSUME NEW D, IsFiniteSet(D), NEW A \in SUBSET D, NEW f, NEW g, \A x \in A : g[x] = f[x]
    PROVE  Sum(g, A) = Sum(f, A)
<1>1. IsFiniteSet(A) /\ A \in SUBSET A BY FS_Subset
<1>2. SumFunctionOnSet(f, A) = SumFunctionOnSet(g, A) BY <1>1, SumFrame
<1> QED BY <1>2 DEF Sum

\* Sums of natural numbers.
LEMMA BookIsNat ==
    ASSUME NEW D, IsFiniteSet(D), NEW f \in [D -> Nat], NEW A \in SUBSET D
    PROVE  Sum(f, A) \in Nat
<1>1. \A x \in D : f[x] \in Nat OBVIOUS
<1>2. SumFunctionOnSet(f, A) \in Nat BY <1>1, SumRemoves
<1> QED BY <1>2 DEF Sum

\* Where the books are.
LEMMA BooksAre ==
    ASSUME TypeOK
    PROVE  /\ Paid \in SUBSET Workers /\ Over \in SUBSET Layers /\ Rolled \in SUBSET Subs
           /\ cost \in [Workers -> Nat] /\ base \in [Layers -> Nat] /\ iter \in [Layers -> Nat]
           /\ snap \in [Subs -> Nat] /\ spent \in [Layers -> Nat] /\ leadSpent \in [Layers -> Nat]
           /\ wpc \in [Workers -> WorkerAt] /\ spc \in [Subs -> SubAt]
           /\ Subs \subseteq Layers /\ Root \in Layers /\ live \subseteq Subs
           /\ Sum(cost, Paid) \in Nat /\ Sum(base, Over) \in Nat /\ Sum(snap, Rolled) \in Nat
           /\ Sum(spent, Layers) \in Nat
<1>1. Paid \in SUBSET Workers /\ Over \in SUBSET Layers /\ Rolled \in SUBSET Subs
  BY DEF Paid, Over, Rolled, Layers
<1>2. /\ cost \in [Workers -> Nat] /\ base \in [Layers -> Nat] /\ iter \in [Layers -> Nat]
      /\ snap \in [Subs -> Nat] /\ spent \in [Layers -> Nat] /\ leadSpent \in [Layers -> Nat]
      /\ wpc \in [Workers -> WorkerAt] /\ spc \in [Subs -> SubAt] /\ live \subseteq Subs
  BY DEF TypeOK, CountersOK
<1>3. Sum(cost, Paid) \in Nat BY <1>1, <1>2, BookIsNat, SetsAreFinite
<1>4. Sum(base, Over) \in Nat BY <1>1, <1>2, BookIsNat, SetsAreFinite
<1>5. Sum(snap, Rolled) \in Nat BY <1>1, <1>2, BookIsNat, SetsAreFinite
<1>6. Layers \in SUBSET Layers OBVIOUS
<1>7. Sum(spent, Layers) \in Nat BY <1>6, <1>2, BookIsNat, SetsAreFinite
<1> QED BY <1>1, <1>2, <1>3, <1>4, <1>5, <1>7 DEF Layers

\* No counter moves, or one that is in no book.
LEMMA BookedFrame ==
    ASSUME TypeOK, SpentIsBooked, UNCHANGED spent, Paid' = Paid, Over' = Over, Rolled' = Rolled,
           \A w \in Paid : cost'[w] = cost[w], \A s \in Over : base'[s] = base[s],
           \A s \in Rolled : snap'[s] = snap[s]
    PROVE  SpentIsBooked'
<1>1. Sum(cost', Paid) = Sum(cost, Paid) BY BookKept, BooksAre, SetsAreFinite
<1>2. Sum(base', Over) = Sum(base, Over) BY BookKept, BooksAre, SetsAreFinite
<1>3. Sum(snap', Rolled) = Sum(snap, Rolled) BY BookKept, BooksAre, SetsAreFinite
<1> QED BY <1>1, <1>2, <1>3 DEF SpentIsBooked

\* Every dollar is booked once.
LEMMA BookedStep == ExactInv /\ [Next]_vars => SpentIsBooked'
<1> SUFFICES ASSUME ExactInv, [Next]_vars PROVE SpentIsBooked'
  OBVIOUS
<1> TypeOK /\ TypeOK' BY TypeStep DEF ExactInv
<1> SpentIsBooked BY DEF ExactInv
<1>c. /\ cost \in [Workers -> Nat] /\ base \in [Layers -> Nat] /\ iter \in [Layers -> Nat]
      /\ snap \in [Subs -> Nat] /\ spent \in [Layers -> Nat] /\ Subs \subseteq Layers
      /\ wpc \in [Workers -> WorkerAt] /\ spc \in [Subs -> SubAt] /\ Root \in Layers
  BY BooksAre
<1>d. Root \notin Subs /\ \A w \in Workers : LayerOf[w] \in Layers
  BY BudgetAssumption
<1>1. ASSUME NEW w \in Workers, Admit(w) PROVE SpentIsBooked'
  <2>1. UNCHANGED spent /\ Paid' = Paid /\ Over' = Over /\ Rolled' = Rolled
    BY <1>1, <1>c DEF Paid, Over, Rolled, Past, Admit, leads, trees, pool
  <2>2. /\ \A w2 \in Paid : cost'[w2] = cost[w2]
        /\ \A s2 \in Over : base'[s2] = base[s2]
        /\ \A s2 \in Rolled : snap'[s2] = snap[s2]
    BY <1>1, <1>c, <1>d DEF Paid, Over, Rolled, Past, Admit, leads, trees, pool
  <2> QED BY <2>1, <2>2, BookedFrame
<1>2. ASSUME NEW w \in Workers, ReserveNothing(w) PROVE SpentIsBooked'
  <2>1. UNCHANGED spent /\ Paid' = Paid /\ Over' = Over /\ Rolled' = Rolled
    BY <1>2, <1>c DEF Paid, Over, Rolled, Past, ReserveNothing, leads, trees, pool
  <2>2. /\ \A w2 \in Paid : cost'[w2] = cost[w2]
        /\ \A s2 \in Over : base'[s2] = base[s2]
        /\ \A s2 \in Rolled : snap'[s2] = snap[s2]
    BY <1>2, <1>c, <1>d DEF Paid, Over, Rolled, Past, ReserveNothing, leads, trees, pool
  <2> QED BY <2>1, <2>2, BookedFrame
<1>3. ASSUME NEW w \in Workers, InsertPending(w) PROVE SpentIsBooked'
  <2>1. UNCHANGED spent /\ Paid' = Paid /\ Over' = Over /\ Rolled' = Rolled
    BY <1>3, <1>c DEF Paid, Over, Rolled, Past, InsertPending, leads, trees, pool
  <2>2. /\ \A w2 \in Paid : cost'[w2] = cost[w2]
        /\ \A s2 \in Over : base'[s2] = base[s2]
        /\ \A s2 \in Rolled : snap'[s2] = snap[s2]
    BY <1>3, <1>c, <1>d DEF Paid, Over, Rolled, Past, InsertPending, leads, trees, pool
  <2> QED BY <2>1, <2>2, BookedFrame
<1>4. ASSUME NEW w \in Workers, NEW e \in Estimates(LayerOf[w]), ReserveEstimate(w, e) PROVE SpentIsBooked'
  <2>1. UNCHANGED spent /\ Paid' = Paid /\ Over' = Over /\ Rolled' = Rolled
    BY <1>4, <1>c DEF Paid, Over, Rolled, Past, ReserveEstimate, leads, trees, pool
  <2>2. /\ \A w2 \in Paid : cost'[w2] = cost[w2]
        /\ \A s2 \in Over : base'[s2] = base[s2]
        /\ \A s2 \in Rolled : snap'[s2] = snap[s2]
    BY <1>4, <1>c, <1>d DEF Paid, Over, Rolled, Past, ReserveEstimate, leads, trees, pool
  <2> QED BY <2>1, <2>2, BookedFrame
<1>5. ASSUME NEW w \in Workers, NEW e \in Estimates(LayerOf[w]), RefuseWorker(w, e) PROVE SpentIsBooked'
  <2>1. UNCHANGED spent /\ Paid' = Paid /\ Over' = Over /\ Rolled' = Rolled
    BY <1>5, <1>c DEF Paid, Over, Rolled, Past, RefuseWorker, leads, trees, pool
  <2>2. /\ \A w2 \in Paid : cost'[w2] = cost[w2]
        /\ \A s2 \in Over : base'[s2] = base[s2]
        /\ \A s2 \in Rolled : snap'[s2] = snap[s2]
    BY <1>5, <1>c, <1>d DEF Paid, Over, Rolled, Past, RefuseWorker, leads, trees, pool
  <2> QED BY <2>1, <2>2, BookedFrame
<1>6. ASSUME NEW w \in Workers, NEW c \in Costs, WorkerExit(w, c) PROVE SpentIsBooked'
  <2>1. UNCHANGED spent /\ Paid' = Paid /\ Over' = Over /\ Rolled' = Rolled
    BY <1>6, <1>c DEF Paid, Over, Rolled, Past, WorkerExit, leads, trees, pool
  <2>2. /\ \A w2 \in Paid : cost'[w2] = cost[w2]
        /\ \A s2 \in Over : base'[s2] = base[s2]
        /\ \A s2 \in Rolled : snap'[s2] = snap[s2]
    BY <1>6, <1>c, <1>d DEF Paid, Over, Rolled, Past, WorkerExit, leads, trees, pool
  <2> QED BY <2>1, <2>2, BookedFrame
<1>7. ASSUME NEW w \in Workers, Release(w) PROVE SpentIsBooked'
  <2>1. UNCHANGED spent /\ Paid' = Paid /\ Over' = Over /\ Rolled' = Rolled
    BY <1>7, <1>c DEF Paid, Over, Rolled, Past, Release, leads, trees, pool
  <2>2. /\ \A w2 \in Paid : cost'[w2] = cost[w2]
        /\ \A s2 \in Over : base'[s2] = base[s2]
        /\ \A s2 \in Rolled : snap'[s2] = snap[s2]
    BY <1>7, <1>c, <1>d DEF Paid, Over, Rolled, Past, Release, leads, trees, pool
  <2> QED BY <2>1, <2>2, BookedFrame
<1>8. ASSUME NEW w \in Workers, Charge(w) PROVE SpentIsBooked'
  <2>1. /\ spent' = [spent EXCEPT ![LayerOf[w]] = @ + cost[w]] /\ wpc[w] = "released"
        /\ wpc' = [wpc EXCEPT ![w] = "charged"] /\ UNCHANGED <<cost, base, snap, spc>>
    BY <1>8 DEF Charge, leads, trees
  <2>2. /\ Paid' = Paid \cup {w} /\ w \notin Paid /\ Over' = Over /\ Rolled' = Rolled
        /\ Paid \in SUBSET Workers
    BY <1>c, <2>1 DEF Paid, Over, Rolled
  <2> DEFINE g == spent'
  <2>3. /\ g[LayerOf[w]] = spent[LayerOf[w]] + cost[w] /\ cost[w] \in Nat
        /\ \A y \in Layers \ {LayerOf[w]} : g[y] = spent[y]
    BY <1>c, <1>d, <2>1
  <2> HIDE DEF g
  <2>4. SumFunctionOnSet(g, Layers) = SumFunctionOnSet(spent, Layers) + cost[w]
    <3>1. (\A y \in Layers : spent[y] \in Nat) /\ LayerOf[w] \in Layers BY <1>c, <1>d
    <3>2. IsFiniteSet(Layers) BY SetsAreFinite
    <3> QED BY <2>3, <3>1, <3>2, SumRises, ZenonT(60)
  <2>5. SumFunctionOnSet(cost, Paid \cup {w}) = SumFunctionOnSet(cost, Paid) + cost[w]
    BY <1>c, <2>2, SetsAreFinite, SumGains
  <2>6. /\ Sum(cost, Paid) \in Nat /\ Sum(base, Over) \in Nat /\ Sum(snap, Rolled) \in Nat
        /\ Sum(spent, Layers) \in Nat
    BY BooksAre
  <2>7. Sum(g, Layers) = Sum(spent, Layers) + cost[w] BY <2>4 DEF Sum
  <2>8. Sum(cost, Paid') = Sum(cost, Paid) + cost[w] BY <2>2, <2>5 DEF Sum
  <2>9. Sum(g, Layers) = Sum(cost, Paid') + Sum(base, Over) + Sum(snap, Rolled)
    BY <2>3, <2>6, <2>7, <2>8 DEF SpentIsBooked
  <2> QED BY <2>1, <2>2, <2>9 DEF SpentIsBooked, g
<1>9. ASSUME NEW w \in Workers, MarkDone(w) PROVE SpentIsBooked'
  <2>1. UNCHANGED spent /\ Paid' = Paid /\ Over' = Over /\ Rolled' = Rolled
    BY <1>9, <1>c DEF Paid, Over, Rolled, Past, MarkDone, leads, trees, pool
  <2>2. /\ \A w2 \in Paid : cost'[w2] = cost[w2]
        /\ \A s2 \in Over : base'[s2] = base[s2]
        /\ \A s2 \in Rolled : snap'[s2] = snap[s2]
    BY <1>9, <1>c, <1>d DEF Paid, Over, Rolled, Past, MarkDone, leads, trees, pool
  <2> QED BY <2>1, <2>2, BookedFrame
<1>10. ASSUME NEW s \in Subs, ResolveEnvelope(s) PROVE SpentIsBooked'
  <2>1. UNCHANGED spent /\ Paid' = Paid /\ Over' = Over /\ Rolled' = Rolled
    BY <1>10, <1>c DEF Paid, Over, Rolled, Past, ResolveEnvelope, leads, pool, Move, trees
  <2>2. /\ \A w2 \in Paid : cost'[w2] = cost[w2]
        /\ \A s2 \in Over : base'[s2] = base[s2]
        /\ \A s2 \in Rolled : snap'[s2] = snap[s2]
    BY <1>10, <1>c, <1>d DEF Paid, Over, Rolled, Past, ResolveEnvelope, leads, pool, Move, trees
  <2> QED BY <2>1, <2>2, BookedFrame
<1>11. ASSUME NEW s \in Subs, ReadSpent(s) PROVE SpentIsBooked'
  <2>1. UNCHANGED spent /\ Paid' = Paid /\ Over' = Over /\ Rolled' = Rolled
    BY <1>11, <1>c DEF Paid, Over, Rolled, Past, ReadSpent, leads, pool, Move, trees
  <2>2. /\ \A w2 \in Paid : cost'[w2] = cost[w2]
        /\ \A s2 \in Over : base'[s2] = base[s2]
        /\ \A s2 \in Rolled : snap'[s2] = snap[s2]
    BY <1>11, <1>c, <1>d DEF Paid, Over, Rolled, Past, ReadSpent, leads, pool, Move, trees
  <2> QED BY <2>1, <2>2, BookedFrame
<1>12. ASSUME NEW s \in Subs, ReserveEnvelope(s) PROVE SpentIsBooked'
  <2>1. UNCHANGED spent /\ Paid' = Paid /\ Over' = Over /\ Rolled' = Rolled
    BY <1>12, <1>c DEF Paid, Over, Rolled, Past, ReserveEnvelope, leads, pool, Move, trees
  <2>2. /\ \A w2 \in Paid : cost'[w2] = cost[w2]
        /\ \A s2 \in Over : base'[s2] = base[s2]
        /\ \A s2 \in Rolled : snap'[s2] = snap[s2]
    BY <1>12, <1>c, <1>d DEF Paid, Over, Rolled, Past, ReserveEnvelope, leads, pool, Move, trees
  <2> QED BY <2>1, <2>2, BookedFrame
<1>13. ASSUME NEW s \in Subs, RefuseSublead(s) PROVE SpentIsBooked'
  <2>1. UNCHANGED spent /\ Paid' = Paid /\ Over' = Over /\ Rolled' = Rolled
    BY <1>13, <1>c DEF Paid, Over, Rolled, Past, RefuseSublead, leads, pool, Move, trees
  <2>2. /\ \A w2 \in Paid : cost'[w2] = cost[w2]
        /\ \A s2 \in Over : base'[s2] = base[s2]
        /\ \A s2 \in Rolled : snap'[s2] = snap[s2]
    BY <1>13, <1>c, <1>d DEF Paid, Over, Rolled, Past, RefuseSublead, leads, pool, Move, trees
  <2> QED BY <2>1, <2>2, BookedFrame
<1>14. ASSUME NEW s \in Subs, SpawnSubleadFails(s) PROVE SpentIsBooked'
  <2>1. UNCHANGED spent /\ Paid' = Paid /\ Over' = Over /\ Rolled' = Rolled
    BY <1>14, <1>c DEF Paid, Over, Rolled, Past, SpawnSubleadFails, leads, pool, Move, trees
  <2>2. /\ \A w2 \in Paid : cost'[w2] = cost[w2]
        /\ \A s2 \in Over : base'[s2] = base[s2]
        /\ \A s2 \in Rolled : snap'[s2] = snap[s2]
    BY <1>14, <1>c, <1>d DEF Paid, Over, Rolled, Past, SpawnSubleadFails, leads, pool, Move, trees
  <2> QED BY <2>1, <2>2, BookedFrame
<1>15. ASSUME NEW s \in Subs, RegisterSublead(s) PROVE SpentIsBooked'
  <2>1. UNCHANGED spent /\ Paid' = Paid /\ Over' = Over /\ Rolled' = Rolled
    BY <1>15, <1>c DEF Paid, Over, Rolled, Past, RegisterSublead, leads, pool, Move, trees
  <2>2. /\ \A w2 \in Paid : cost'[w2] = cost[w2]
        /\ \A s2 \in Over : base'[s2] = base[s2]
        /\ \A s2 \in Rolled : snap'[s2] = snap[s2]
    BY <1>15, <1>c, <1>d DEF Paid, Over, Rolled, Past, RegisterSublead, leads, pool, Move, trees
  <2> QED BY <2>1, <2>2, BookedFrame
<1>16. ASSUME NEW s \in Subs, SessionEnds(s) PROVE SpentIsBooked'
  <2>1. /\ spent' = [spent EXCEPT ![s] = @ + base[s] + iter[s]] /\ spc[s] = "running"
        /\ base' = [base EXCEPT ![s] = @ + iter[s]] /\ spc' = [spc EXCEPT ![s] = "charged"]
        /\ UNCHANGED <<cost, snap, wpc>>
    BY <1>16 DEF SessionEnds, Move, pool
  <2>2. /\ Over' = Over \cup {s} /\ s \notin Over /\ Paid' = Paid /\ Rolled' = Rolled
        /\ Over \in SUBSET Layers /\ s \in Layers
    BY <1>c, <2>1 DEF Paid, Over, Rolled, Past
  <2> DEFINE g == spent'
             b == base'
             n == base[s] + iter[s]
  <2>3. n \in Nat /\ b[s] = n /\ (\A y \in Layers : b[y] \in Nat) /\ \A y \in Over : b[y] = base[y]
    BY <1>c, <2>1, <2>2
  <2>4. g[s] = spent[s] + n /\ \A y \in Layers \ {s} : g[y] = spent[y]
    <3>1. base[s] \in Nat /\ iter[s] \in Nat /\ spent[s] \in Nat BY <1>c, <2>2
    <3>2. spent[s] + base[s] + iter[s] = spent[s] + n BY <3>1
    <3> HIDE DEF n
    <3> QED BY <1>c, <2>1, <2>2, <3>2
  <2> HIDE DEF g, b, n
  <2>5. SumFunctionOnSet(g, Layers) = SumFunctionOnSet(spent, Layers) + n
    <3>1. (\A y \in Layers : spent[y] \in Nat) /\ s \in Layers /\ n \in Nat
      BY <1>c, <2>2, <2>3
    <3>2. IsFiniteSet(Layers) BY SetsAreFinite
    <3> QED BY <2>4, <3>1, <3>2, SumRises
  <2>6. SumFunctionOnSet(b, Over \cup {s}) = SumFunctionOnSet(base, Over) + b[s]
    <3>1. Over \in SUBSET Layers /\ s \in Layers \ Over BY <2>2
    <3>2. (\A y \in Layers : b[y] \in Nat) /\ \A y \in Over : b[y] = base[y] BY <2>3
    <3>3. IsFiniteSet(Layers) BY SetsAreFinite
    <3> QED BY <3>1, <3>2, <3>3, SumGains
  <2>7. /\ Sum(cost, Paid) \in Nat /\ Sum(base, Over) \in Nat /\ Sum(snap, Rolled) \in Nat
        /\ Sum(spent, Layers) \in Nat
    BY BooksAre
  <2>8. Sum(g, Layers) = Sum(spent, Layers) + n BY <2>5 DEF Sum
  <2>9. Sum(b, Over') = Sum(base, Over) + n BY <2>2, <2>3, <2>6 DEF Sum
  <2>10. Sum(g, Layers) = Sum(cost, Paid) + Sum(b, Over') + Sum(snap, Rolled)
    BY <2>3, <2>7, <2>8, <2>9 DEF SpentIsBooked
  <2> QED BY <2>1, <2>2, <2>10 DEF SpentIsBooked, g, b
<1>17. ASSUME NEW s \in Subs, Remove(s) PROVE SpentIsBooked'
  <2>1. UNCHANGED spent /\ Paid' = Paid /\ Over' = Over /\ Rolled' = Rolled
    BY <1>17, <1>c DEF Paid, Over, Rolled, Past, Remove, leads, pool, Move, trees
  <2>2. /\ \A w2 \in Paid : cost'[w2] = cost[w2]
        /\ \A s2 \in Over : base'[s2] = base[s2]
        /\ \A s2 \in Rolled : snap'[s2] = snap[s2]
    BY <1>17, <1>c, <1>d DEF Paid, Over, Rolled, Past, Remove, leads, pool, Move, trees
  <2> QED BY <2>1, <2>2, BookedFrame
<1>18. ASSUME NEW s \in Subs, ListEnded(s) PROVE SpentIsBooked'
  <2>1. UNCHANGED spent /\ Paid' = Paid /\ Over' = Over /\ Rolled' = Rolled
    BY <1>18, <1>c DEF Paid, Over, Rolled, Past, ListEnded, leads, pool, Move, trees
  <2>2. /\ \A w2 \in Paid : cost'[w2] = cost[w2]
        /\ \A s2 \in Over : base'[s2] = base[s2]
        /\ \A s2 \in Rolled : snap'[s2] = snap[s2]
    BY <1>18, <1>c, <1>d DEF Paid, Over, Rolled, Past, ListEnded, leads, pool, Move, trees
  <2> QED BY <2>1, <2>2, BookedFrame
<1>19. ASSUME NEW s \in Subs, ReturnEnvelope(s) PROVE SpentIsBooked'
  <2>1. UNCHANGED spent /\ Paid' = Paid /\ Over' = Over /\ Rolled' = Rolled
    BY <1>19, <1>c DEF Paid, Over, Rolled, Past, ReturnEnvelope, leads, pool, Move, trees
  <2>2. /\ \A w2 \in Paid : cost'[w2] = cost[w2]
        /\ \A s2 \in Over : base'[s2] = base[s2]
        /\ \A s2 \in Rolled : snap'[s2] = snap[s2]
    BY <1>19, <1>c, <1>d DEF Paid, Over, Rolled, Past, ReturnEnvelope, leads, pool, Move, trees
  <2> QED BY <2>1, <2>2, BookedFrame
<1>20. ASSUME NEW s \in Subs, RollUp(s) PROVE SpentIsBooked'
  <2>1. /\ spent' = [spent EXCEPT ![Root] = @ + snap[s]] /\ spc[s] = "returned"
        /\ spc' = [spc EXCEPT ![s] = "done"] /\ UNCHANGED <<cost, base, snap, wpc>>
    BY <1>20 DEF RollUp, Move, pool, leads
  <2>2. /\ Rolled' = Rolled \cup {s} /\ s \notin Rolled /\ Over' = Over /\ Paid' = Paid
        /\ Rolled \in SUBSET Subs
    BY <1>c, <2>1 DEF Paid, Over, Rolled, Past
  <2> DEFINE g == spent'
  <2>3. /\ g[Root] = spent[Root] + snap[s] /\ snap[s] \in Nat
        /\ \A y \in Layers \ {Root} : g[y] = spent[y]
    BY <1>c, <1>d, <2>1
  <2> HIDE DEF g
  <2>4. SumFunctionOnSet(g, Layers) = SumFunctionOnSet(spent, Layers) + snap[s]
    <3>1. (\A y \in Layers : spent[y] \in Nat) /\ Root \in Layers BY <1>c, <1>d
    <3>2. IsFiniteSet(Layers) BY SetsAreFinite
    <3> QED BY <2>3, <3>1, <3>2, SumRises
  <2>5. SumFunctionOnSet(snap, Rolled \cup {s}) = SumFunctionOnSet(snap, Rolled) + snap[s]
    BY <1>c, <2>2, SetsAreFinite, SumGains
  <2>6. /\ Sum(cost, Paid) \in Nat /\ Sum(base, Over) \in Nat /\ Sum(snap, Rolled) \in Nat
        /\ Sum(spent, Layers) \in Nat
    BY BooksAre
  <2>7. Sum(g, Layers) = Sum(spent, Layers) + snap[s] BY <2>4 DEF Sum
  <2>8. Sum(snap, Rolled') = Sum(snap, Rolled) + snap[s] BY <2>2, <2>5 DEF Sum
  <2>9. Sum(g, Layers) = Sum(cost, Paid) + Sum(base, Over) + Sum(snap, Rolled')
    BY <2>3, <2>6, <2>7, <2>8 DEF SpentIsBooked
  <2> QED BY <2>1, <2>2, <2>9 DEF SpentIsBooked, g
<1>21. ASSUME NEW l \in Layers, NEW c \in 1..menu.lead, LeadTurn(l, c) PROVE SpentIsBooked'
  <2>1. UNCHANGED spent /\ Paid' = Paid /\ Over' = Over /\ Rolled' = Rolled
    BY <1>21, <1>c DEF Paid, Over, Rolled, Past, LeadTurn, trees, pool, leads
  <2>2. /\ \A w2 \in Paid : cost'[w2] = cost[w2]
        /\ \A s2 \in Over : base'[s2] = base[s2]
        /\ \A s2 \in Rolled : snap'[s2] = snap[s2]
    BY <1>21, <1>c, <1>d DEF Paid, Over, Rolled, Past, LeadTurn, trees, pool, leads
  <2> QED BY <2>1, <2>2, BookedFrame
<1>22. ASSUME NEW l \in Layers, CommitIteration(l) PROVE SpentIsBooked'
  <2>1. UNCHANGED spent /\ Paid' = Paid /\ Over' = Over /\ Rolled' = Rolled
    BY <1>22, <1>c DEF Paid, Over, Rolled, Past, CommitIteration, trees, pool, leads, LeadRuns
  <2>2. /\ \A w2 \in Paid : cost'[w2] = cost[w2]
        /\ \A s2 \in Over : base'[s2] = base[s2]
        /\ \A s2 \in Rolled : snap'[s2] = snap[s2]
    BY <1>22, <1>c, <1>d DEF Paid, Over, Rolled, Past, CommitIteration, trees, pool, leads, LeadRuns
  <2> QED BY <2>1, <2>2, BookedFrame
<1>23. ASSUME NEW l \in Layers, ObserveRoot(l) PROVE SpentIsBooked'
  <2>1. UNCHANGED spent /\ Paid' = Paid /\ Over' = Over /\ Rolled' = Rolled
    BY <1>23, <1>c DEF Paid, Over, Rolled, Past, ObserveRoot, trees, pool, leads
  <2>2. /\ \A w2 \in Paid : cost'[w2] = cost[w2]
        /\ \A s2 \in Over : base'[s2] = base[s2]
        /\ \A s2 \in Rolled : snap'[s2] = snap[s2]
    BY <1>23, <1>c, <1>d DEF Paid, Over, Rolled, Past, ObserveRoot, trees, pool, leads
  <2> QED BY <2>1, <2>2, BookedFrame
<1>24. ASSUME NEW l \in Layers, ObserveLive(l) PROVE SpentIsBooked'
  <2>1. UNCHANGED spent /\ Paid' = Paid /\ Over' = Over /\ Rolled' = Rolled
    BY <1>24, <1>c DEF Paid, Over, Rolled, Past, ObserveLive, trees, pool, leads
  <2>2. /\ \A w2 \in Paid : cost'[w2] = cost[w2]
        /\ \A s2 \in Over : base'[s2] = base[s2]
        /\ \A s2 \in Rolled : snap'[s2] = snap[s2]
    BY <1>24, <1>c, <1>d DEF Paid, Over, Rolled, Past, ObserveLive, trees, pool, leads
  <2> QED BY <2>1, <2>2, BookedFrame
<1>25. ASSUME NEW l \in Layers, ObserveEnded(l) PROVE SpentIsBooked'
  <2>1. UNCHANGED spent /\ Paid' = Paid /\ Over' = Over /\ Rolled' = Rolled
    BY <1>25, <1>c DEF Paid, Over, Rolled, Past, ObserveEnded, trees, pool, leads
  <2>2. /\ \A w2 \in Paid : cost'[w2] = cost[w2]
        /\ \A s2 \in Over : base'[s2] = base[s2]
        /\ \A s2 \in Rolled : snap'[s2] = snap[s2]
    BY <1>25, <1>c, <1>d DEF Paid, Over, Rolled, Past, ObserveEnded, trees, pool, leads
  <2> QED BY <2>1, <2>2, BookedFrame
<1>26. CASE UNCHANGED vars BY <1>26, BookedFrame DEF vars, Paid, Over, Rolled
<1>27. ASSUME NEW w \in Workers, Resuming(w) PROVE SpentIsBooked'
  BY <1>27, ResumingLeaves, BookedFrame DEF Paid, Over, Rolled, leads, trees
<1> QED BY <1>1, <1>2, <1>3, <1>4, <1>5, <1>6, <1>7, <1>8, <1>9, <1>10, <1>11,
    <1>12, <1>13, <1>14, <1>15, <1>16, <1>17, <1>18, <1>19, <1>20, <1>21, <1>22,
    <1>23, <1>24, <1>25, <1>26, <1>27 DEF Next, WorkerStep, Resuming, SpawnStep, EndStep, LeadStep, ObserverStep

-----------------------------------------------------------------------------
\* A sum over the layers: the root, two groups of sub-leads and the others.
LEMMA LayersSplit ==
    ASSUME NEW f \in [Layers -> Nat], NEW A \in SUBSET Subs, NEW B \in SUBSET Subs, A \cap B = {}
    PROVE  /\ Sum(f, Layers) = f[Root] + Sum(f, A) + Sum(f, B) + Sum(f, Subs \ (A \cup B))
           /\ Sum(f, A) \in Nat /\ Sum(f, B) \in Nat /\ Sum(f, Subs \ (A \cup B)) \in Nat
<1> DEFINE C == Subs \ (A \cup B)
<1>1. (\A x \in Layers : f[x] \in Nat) /\ IsFiniteSet(Layers) BY SetsAreFinite
<1>2. /\ A \in SUBSET Layers /\ B \in SUBSET Layers /\ C \in SUBSET Layers
      /\ A \cup B \in SUBSET Layers /\ Layers \in SUBSET Layers
  BY DEF Layers
<1>3. Layers \ {Root} = (A \cup B) \cup C /\ (A \cup B) \cap C = {} /\ Root \in Layers
  BY BudgetAssumption DEF Layers
<1> HIDE DEF C
<1>4. \A S \in SUBSET Layers :
         /\ SumFunctionOnSet(f, S) \in Nat
         /\ \A x \in S : SumFunctionOnSet(f, S) = f[x] + SumFunctionOnSet(f, S \ {x})
  BY <1>1, SumRemoves
<1>5. SumFunctionOnSet(f, Layers) = f[Root] + SumFunctionOnSet(f, Layers \ {Root})
  BY <1>2, <1>3, <1>4
<1>6. SumFunctionOnSet(f, A \cup B) = SumFunctionOnSet(f, A) + SumFunctionOnSet(f, B)
  BY <1>1, <1>2, SumSplits
<1>7. SumFunctionOnSet(f, (A \cup B) \cup C) = SumFunctionOnSet(f, A \cup B) + SumFunctionOnSet(f, C)
  BY <1>1, <1>2, <1>3, SumSplits
<1>8. /\ SumFunctionOnSet(f, A) \in Nat /\ SumFunctionOnSet(f, B) \in Nat
      /\ SumFunctionOnSet(f, C) \in Nat /\ f[Root] \in Nat
  BY <1>1, <1>2, <1>3, <1>4
<1>a. SumFunctionOnSet(f, Layers \ {Root}) = SumFunctionOnSet(f, (A \cup B) \cup C)
  BY <1>3, Zenon
<1>b. SumFunctionOnSet(f, Layers)
        = f[Root] + SumFunctionOnSet(f, A) + SumFunctionOnSet(f, B) + SumFunctionOnSet(f, C)
  BY <1>a, <1>5, <1>6, <1>7, <1>8
<1>9. Sum(f, Layers) = f[Root] + Sum(f, A) + Sum(f, B) + Sum(f, C) BY <1>b DEF Sum
<1> QED BY <1>8, <1>9 DEF C, Sum

\* A sum of zeros.
LEMMA ZeroBook ==
    ASSUME NEW D, IsFiniteSet(D), NEW f \in [D -> Nat], NEW A \in SUBSET D, \A x \in A : f[x] = 0
    PROVE  Sum(f, A) = 0
<1>1. \A x \in D : f[x] \in Nat OBVIOUS
<1>2. SumFunctionOnSet(f, A) = 0 BY <1>1, SumSplits
<1> QED BY <1>2 DEF Sum

\* A book split in two.
LEMMA BookSplits ==
    ASSUME NEW D, IsFiniteSet(D), NEW f \in [D -> Nat], NEW A \in SUBSET D, NEW B \in SUBSET D,
           A \cap B = {}
    PROVE  Sum(f, A \cup B) = Sum(f, A) + Sum(f, B)
<1>1. \A x \in D : f[x] \in Nat OBVIOUS
<1>2. SumFunctionOnSet(f, A \cup B) = SumFunctionOnSet(f, A) + SumFunctionOnSet(f, B)
  BY <1>1, SumSplits
<1> QED BY <1>2 DEF Sum

Leaving == {w \in Workers : wpc[w] \in {"exited", "released"}}
Charged == {s \in Subs : spc[s] = "charged"}

\* The watcher's total is what the run has spent, but for what is on its way.
LEMMA ExactTotal == ExactInv => TotalIsExact
<1> SUFFICES ASSUME ExactInv PROVE TotalIsExact
  OBVIOUS
<1> TypeOK /\ WorkerBook /\ SubBook /\ LeadBook /\ SpentIsBooked BY DEF ExactInv
<1> DEFINE Out == Moving \cup Rolled
           O == Subs \ (live \cup Out)
           V == Workers \ (Paid \cup Leaving)
<1>1. /\ cost \in [Workers -> Nat] /\ base \in [Layers -> Nat] /\ iter \in [Layers -> Nat]
      /\ snap \in [Subs -> Nat] /\ spent \in [Layers -> Nat] /\ leadSpent \in [Layers -> Nat]
      /\ wpc \in [Workers -> WorkerAt] /\ spc \in [Subs -> SubAt]
      /\ Subs \subseteq Layers /\ Root \in Layers /\ live \in SUBSET Subs
      /\ Rolled \in SUBSET Subs /\ Paid \in SUBSET Workers
      /\ Sum(cost, Paid) \in Nat /\ Sum(snap, Rolled) \in Nat
  BY BooksAre
<1>2. /\ Over = Charged \cup Out /\ Charged \cap Out = {} /\ Moving \cap Rolled = {}
      /\ live \cap Out = {} /\ Charged \in SUBSET Subs /\ Moving \in SUBSET Subs
      /\ Out \in SUBSET Subs
  BY <1>1 DEF Over, Rolled, Moving, Charged, Past, SubBook, SubAt
<1>3. \A s \in Out : iter[s] = 0 BY DEF Rolled, Moving, SubBook, Past
<1>4. \A s \in O : spent[s] = 0 /\ base[s] = 0 /\ iter[s] = 0
  BY <1>1, <1>2 DEF SubBook, Seen, Over, Rolled, Moving, Past
<1>5. \A w \in V : cost[w] = 0
  BY <1>1 DEF WorkerBook, Paid, Leaving, WorkerAt
<1>6. IsFiniteSet(Workers) /\ IsFiniteSet(Subs) /\ IsFiniteSet(Layers) BY SetsAreFinite
<1>7. /\ O \in SUBSET Layers /\ live \in SUBSET Layers /\ Rolled \in SUBSET Layers
      /\ Moving \in SUBSET Layers /\ Charged \in SUBSET Layers /\ Out \in SUBSET Layers
  BY <1>1, <1>2
<1>8. Sum(spent, Out) = Sum(spent, Moving) + Sum(spent, Rolled)
  BY <1>1, <1>2, <1>6, <1>7, BookSplits
<1>9. Sum(base, Over) = Sum(base, Charged) + Sum(base, Out)
  <2>1. Sum(base, Charged \cup Out) = Sum(base, Charged) + Sum(base, Out)
    <3> HIDE DEF Out
    <3> QED BY <1>1, <1>2, <1>6, <1>7, BookSplits
  <2> QED BY <1>2, <2>1, Zenon
<1>10. Sum(spent, Moving) \in Nat /\ Sum(spent, Rolled) \in Nat /\ Sum(base, Charged) \in Nat
  BY <1>1, <1>6, <1>7, BookIsNat
<1>a. /\ spent \in [Layers -> Nat] /\ base \in [Layers -> Nat] /\ iter \in [Layers -> Nat]
      /\ live \in SUBSET Subs /\ Out \in SUBSET Subs /\ live \cap Out = {}
  BY <1>1, <1>2
<1> HIDE DEF Out
<1>11. /\ Sum(spent, Layers) = spent[Root] + Sum(spent, live) + Sum(spent, Out) + Sum(spent, O)
       /\ Sum(spent, live) \in Nat /\ Sum(spent, Out) \in Nat /\ Sum(spent, O) \in Nat
  BY <1>a, LayersSplit, Zenon
<1>12. /\ Sum(base, Layers) = base[Root] + Sum(base, live) + Sum(base, Out) + Sum(base, O)
       /\ Sum(base, live) \in Nat /\ Sum(base, Out) \in Nat /\ Sum(base, O) \in Nat
  BY <1>a, LayersSplit, Zenon
<1>13. /\ Sum(iter, Layers) = iter[Root] + Sum(iter, live) + Sum(iter, Out) + Sum(iter, O)
       /\ Sum(iter, live) \in Nat /\ Sum(iter, Out) \in Nat /\ Sum(iter, O) \in Nat
  BY <1>a, LayersSplit, Zenon
<1> HIDE DEF O
<1>14. Sum(spent, O) = 0 BY <1>1, <1>4, <1>6, <1>7, ZeroBook
<1>15. Sum(base, O) = 0 BY <1>1, <1>4, <1>6, <1>7, ZeroBook
<1>16. Sum(iter, O) = 0 BY <1>1, <1>4, <1>6, <1>7, ZeroBook
<1>17. Sum(iter, Out) = 0 BY <1>1, <1>3, <1>6, <1>7, ZeroBook
<1>18. /\ Sum(cost, Workers) = Sum(cost, Paid) + Sum(cost, Leaving)
       /\ Sum(cost, Leaving) \in Nat
  <2>1. /\ V \in SUBSET Workers /\ Leaving \in SUBSET Workers /\ Paid \cap Leaving = {}
        /\ (Paid \cup Leaving) \cap V = {} /\ (Paid \cup Leaving) \cup V = Workers
        /\ Paid \cup Leaving \in SUBSET Workers
    BY <1>1 DEF Paid, Leaving
  <2> HIDE DEF V
  <2>2. Sum(cost, V) = 0 BY <1>1, <1>5, <1>6, <2>1, ZeroBook
  <2>3. Sum(cost, Paid \cup Leaving) = Sum(cost, Paid) + Sum(cost, Leaving)
    BY <1>1, <1>6, <2>1, BookSplits
  <2>4. Sum(cost, (Paid \cup Leaving) \cup V) = Sum(cost, Paid \cup Leaving) + Sum(cost, V)
    BY <1>1, <1>6, <2>1, BookSplits
  <2>5. Sum(cost, Workers) = Sum(cost, Paid \cup Leaving) + Sum(cost, V)
    BY <2>1, <2>4, Zenon
  <2>6. Sum(cost, Leaving) \in Nat BY <1>1, <1>6, <2>1, BookIsNat
  <2> QED BY <1>1, <2>2, <2>3, <2>5, <2>6
<1>19. Sum(leadSpent, live) = Sum(base, live) + Sum(iter, live)
  <2>1. \A l \in Layers : base[l] \in Nat /\ iter[l] \in Nat /\ leadSpent[l] = base[l] + iter[l]
    BY <1>1 DEF LeadBook
  <2>2. SumFunctionOnSet(leadSpent, live)
          = SumFunctionOnSet(base, live) + SumFunctionOnSet(iter, live)
    BY <1>6, <1>7, <2>1, SumAdds
  <2> QED BY <2>2 DEF Sum
<1>20. leadSpent[Root] = base[Root] + iter[Root] /\ base[Root] \in Nat /\ iter[Root] \in Nat
       /\ spent[Root] \in Nat
  BY <1>1 DEF LeadBook
<1>21. Sum(extra, Workers) \in Nat
  <2>1. extra \in [Workers -> Nat] /\ Workers \in SUBSET Workers BY DEF TypeOK, ResumedOK
  <2> QED BY <1>6, <2>1, BookIsNat
<1>22. Sum(spent, Layers) = Sum(cost, Paid) + Sum(base, Over) + Sum(snap, Rolled)
  BY DEF SpentIsBooked
<1> DEFINE a == spent[Root]
           b == Sum(spent, live)
           m == Sum(spent, Moving)
           r == Sum(spent, Rolled)
           z == Sum(snap, Rolled)
           p == Sum(cost, Paid)
           q == Sum(cost, Leaving)
           h == Sum(base, Charged)
           o == Sum(base, Out)
           x == base[Root]
           y == iter[Root]
           u == Sum(base, live)
           v == Sum(iter, live)
           e == Sum(extra, Workers)
<1>23. /\ a \in Nat /\ b \in Nat /\ m \in Nat /\ r \in Nat /\ z \in Nat /\ p \in Nat /\ q \in Nat
       /\ h \in Nat /\ o \in Nat /\ x \in Nat /\ y \in Nat /\ u \in Nat /\ v \in Nat /\ e \in Nat
  BY <1>1, <1>10, <1>11, <1>12, <1>13, <1>18, <1>20, <1>21
<1>24. a + b + (m + r) = p + (h + o) + z
  <2>1. Sum(spent, Layers) = a + b + (m + r)
    <3>1. Sum(spent, Layers) = a + b + Sum(spent, Out) + 0 BY <1>11, <1>14
    <3>2. Sum(spent, Out) = m + r BY <1>8
    <3> HIDE DEF a, b, m, r
    <3> QED BY <1>23, <3>1, <3>2
  <2>2. Sum(spent, Layers) = p + (h + o) + z BY <1>9, <1>22
  <2> QED BY <2>1, <2>2
<1>25. Sum(base, Layers) = x + u + o
  <2>1. Sum(base, Layers) = x + u + o + 0 BY <1>12, <1>15
  <2> HIDE DEF x, u, o
  <2> QED BY <1>23, <2>1
<1>26. Sum(iter, Layers) = y + v
  <2>1. Sum(iter, Layers) = y + v + 0 + 0 BY <1>13, <1>16, <1>17
  <2> HIDE DEF y, v
  <2> QED BY <1>23, <2>1
<1>27. Total = a + (x + y) + b + (u + v) BY <1>19, <1>20 DEF Total
<1>28. Missing = e + q + m + (r - z) BY DEF Missing, Uncharged, Leaving
<1>29. Actual = (p + q) + e + (x + u + o) + (y + v) BY <1>18, <1>25, <1>26 DEF Actual
<1>30. Twice = h BY DEF Twice, Charged
<1> HIDE DEF a, b, m, r, z, p, q, h, o, x, y, u, v, e
<1>31. (a + (x + y) + b + (u + v)) + (e + q + m + (r - z))
         = ((p + q) + e + (x + u + o) + (y + v)) + h
  BY <1>23, <1>24
<1> QED BY <1>27, <1>28, <1>29, <1>30, <1>31 DEF TotalIsExact

-----------------------------------------------------------------------------
\* A run starts with empty books.
LEMMA InitExact == Init => ExactInv
<1> SUFFICES ASSUME Init PROVE ExactInv
  OBVIOUS
<1>1. LedgerInv BY InitLedger
<1>2. TypeOK BY <1>1 DEF Init, TypeOK, LedgerInv, WorkerAt, SubAt, ObsAt, NoObs
<1>3. WorkerBook BY DEF Init, WorkerBook
<1>4. SubBook BY DEF Init, SubBook, Past, Layers
<1>5. LeadBook BY DEF Init, LeadBook
<1>6. ReservedIsHeld
  <2>1. Reserving = {} BY DEF Init, Reserving
  <2>2. {} \in SUBSET Subs /\ IsFiniteSet(Subs) BY SetsAreFinite
  <2>3. Res \in [Subs -> Nat] BY BudgetAssumption DEF Res, Reservation
  <2>4. Sum(Res, {}) = 0 BY <2>2, <2>3, ZeroBook
  <2>5. ASSUME NEW l \in Layers PROVE Sum(hold, InLayer(l)) = 0
    <3>1. hold \in [Workers -> Nat] /\ \A x \in InLayer(l) : hold[x] = 0
      BY DEF Init, InLayer
    <3>2. InLayer(l) \in SUBSET Workers /\ IsFiniteSet(Workers) BY SetsAreFinite DEF InLayer
    <3> QED BY <3>1, <3>2, ZeroBook
  <2>6. \A l \in Layers : reserved[l] = 0 BY DEF Init
  <2> QED BY <2>1, <2>4, <2>5, <2>6, HeldSays
<1>7. SpentIsBooked
  <2>1. Paid = {} /\ Over = {} /\ Rolled = {} BY DEF Init, Paid, Over, Rolled, Past
  <2>2. IsFiniteSet(Workers) /\ IsFiniteSet(Subs) /\ IsFiniteSet(Layers) BY SetsAreFinite
  <2>3. /\ cost \in [Workers -> Nat] /\ base \in [Layers -> Nat] /\ snap \in [Subs -> Nat]
        /\ spent \in [Layers -> Nat] /\ \A l \in Layers : spent[l] = 0
    BY DEF Init
  <2>4. Sum(cost, {}) = 0 BY <2>2, <2>3, ZeroBook
  <2>5. Sum(base, {}) = 0 BY <2>2, <2>3, ZeroBook
  <2>6. Sum(snap, {}) = 0 BY <2>2, <2>3, ZeroBook
  <2>7. Sum(spent, Layers) = 0
    <3>1. Layers \in SUBSET Layers OBVIOUS
    <3> QED BY <2>2, <2>3, <3>1, ZeroBook
  <2> QED BY <2>1, <2>4, <2>5, <2>6, <2>7 DEF SpentIsBooked
<1> QED BY <1>1, <1>2, <1>3, <1>4, <1>5, <1>6, <1>7 DEF ExactInv

\* The books are inductive: workers, sub-leads, leads, reservations and spending.
THEOREM ExactInvariant == Spec => []ExactInv
<1>1. ExactInv /\ [Next]_vars => ExactInv'
  <2> SUFFICES ASSUME ExactInv, [Next]_vars PROVE ExactInv'
    OBVIOUS
  <2>1. LedgerInv' BY NextKeepsLedger DEF ExactInv
  <2> QED BY <2>1, TypeStep, WorkerBookStep, SubBookStep, LeadBookStep, ReservedStep, BookedStep
        DEF ExactInv
<1> QED BY <1>1, InitExact, PTL DEF Spec

\* Whatever spawns fail, whichever sub-leads end and however their steps interleave, what is
\* reserved is what somebody holds, and the watcher's total differs from what was spent by
\* exactly the sessions that Missing and Twice name: resumed ones, which nobody charges, and
\* the ones half way through their end
\* (release_worker_reservation, reconcile_terminated_sublead, total_usd).
THEOREM LedgerStaysExact == Spec => []LedgerIsExact
<1>1. ExactInv => LedgerIsExact
  BY ExactTotal DEF ExactInv, LedgerIsExact
<1> QED BY <1>1, ExactInvariant, PTL
=============================================================================
