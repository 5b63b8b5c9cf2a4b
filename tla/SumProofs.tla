----------------------------- MODULE SumProofs -----------------------------
(***************************************************************************)
(* Sums over finite sets, for the proofs about what was executed.  The sum *)
(* of the community modules takes an operator and picks the elements one   *)
(* after the other; here it is shown not to depend on the order in which   *)
(* they are picked.                                                        *)
(*                                                                         *)
(* The induction is over sets of subsets: a set of subsets of S that has   *)
(* every subset whose own subsets it has is all of SUBSET S.               *)
(***************************************************************************)
EXTENDS Integers, FiniteSets, FiniteSetTheorems, WellFoundedInduction, TLAPS

(* A finite set is reached from its subsets. *)
LEMMA SubsetInduction ==
  ASSUME NEW S, IsFiniteSet(S), NEW good \in SUBSET SUBSET S,
         \A s \in SUBSET S : (\A r \in SUBSET s : r # s => r \in good) => s \in good
  PROVE  good = SUBSET S
<1> DEFINE R == StrictSubsetOrdering(S)
           bad == (SUBSET S) \ good
<1>1. IsWellFoundedOn(R, SUBSET S)
  BY FS_StrictSubsetOrderingWellFounded, FS_FiniteSubsetsOfFinite
<1>2. \A r, s \in SUBSET S : r \subseteq s /\ r # s => <<r, s>> \in R
  BY DEF StrictSubsetOrdering
<1> HIDE DEF R
<1>3. ASSUME bad # {} PROVE FALSE
  <2>1. PICK s \in bad : \A r \in bad : ~(<<r, s>> \in R)
    <3>1. bad \subseteq SUBSET S OBVIOUS
    <3> HIDE DEF bad
    <3> QED BY <1>1, <1>3, <3>1, WFMin
  <2>2. ASSUME NEW r \in SUBSET s, r # s PROVE r \in good
    <3>1. r \in SUBSET S /\ s \in SUBSET S /\ r \subseteq s BY <2>1
    <3>2. <<r, s>> \in R BY <1>2, <2>2, <3>1
    <3> QED BY <2>1, <3>1, <3>2
  <2> QED BY <2>1, <2>2
<1> QED BY <1>3

-----------------------------------------------------------------------------

Pick(s) == CHOOSE x \in s : TRUE

\* total gives the sum of g over each subset of S.
IsTotal(total, g, S) ==
  total = [s \in SUBSET S |->
             IF s = {} THEN 0 ELSE g[Pick(s)] + total[s \ {Pick(s)}]]

Totals(g, S) == CHOOSE total : IsTotal(total, g, S)

\* The sum of g over S.
Total(g, S) == Totals(g, S)[S]

(* What is picked of a set is one of its elements. *)
LEMMA PickIsElement == ASSUME NEW s, s # {} PROVE Pick(s) \in s BY DEF Pick

(* The two cases of a sum. *)
LEMMA TotalUnfolds ==
  ASSUME NEW S, NEW g, NEW total, IsTotal(total, g, S), NEW s \in SUBSET S
  PROVE  total[s] = IF s = {} THEN 0 ELSE g[Pick(s)] + total[s \ {Pick(s)}]
<1> DEFINE F(x) == IF x = {} THEN 0 ELSE g[Pick(x)] + total[x \ {Pick(x)}]
<1>1. total = [x \in SUBSET S |-> F(x)] BY DEF IsTotal
<1> HIDE DEF F
<1>2. total[s] = F(s) BY <1>1
<1> QED BY <1>2 DEF F

(* Sums of functions that agree are equal. *)
LEMMA TotalsAgree ==
  ASSUME NEW S, IsFiniteSet(S), NEW g, NEW h, \A x \in S : g[x] = h[x],
         NEW T, S \subseteq T, NEW U, S \subseteq U,
         NEW t, IsTotal(t, g, T), NEW u, IsTotal(u, h, U)
  PROVE  t[S] = u[S]
<1> DEFINE good == {s \in SUBSET S : t[s] = u[s]}
<1>1. ASSUME NEW s \in SUBSET S, \A r \in SUBSET s : r # s => r \in good
      PROVE  s \in good
  <2>1. /\ t[s] = IF s = {} THEN 0 ELSE g[Pick(s)] + t[s \ {Pick(s)}]
        /\ u[s] = IF s = {} THEN 0 ELSE h[Pick(s)] + u[s \ {Pick(s)}]
    <3>1. s \in SUBSET T /\ s \in SUBSET U OBVIOUS
    <3> HIDE DEF good
    <3>2. t[s] = IF s = {} THEN 0 ELSE g[Pick(s)] + t[s \ {Pick(s)}]
      BY <3>1, TotalUnfolds
    <3>3. u[s] = IF s = {} THEN 0 ELSE h[Pick(s)] + u[s \ {Pick(s)}]
      BY <3>1, TotalUnfolds
    <3> QED BY <3>2, <3>3
  <2>2. CASE s = {} BY <2>1, <2>2
  <2>3. CASE s # {}
    <3>1. Pick(s) \in s BY <2>3, PickIsElement
    <3>2. s \ {Pick(s)} \in good BY <1>1, <3>1
    <3> QED BY <2>1, <2>3, <3>1, <3>2
  <2> QED BY <2>2, <2>3
<1>2. good \in SUBSET SUBSET S OBVIOUS
<1> HIDE DEF good
<1>3. good = SUBSET S BY <1>1, <1>2, SubsetInduction
<1> QED BY <1>3 DEF good

(* Every finite set has a sum. *)
LEMMA TotalsExist ==
  ASSUME NEW S, IsFiniteSet(S), NEW g PROVE IsTotal(Totals(g, S), g, S)
<1> DEFINE good == {s \in SUBSET S : \E t : IsTotal(t, g, s)}
<1>1. ASSUME NEW s \in SUBSET S, \A r \in SUBSET s : r # s => r \in good
      PROVE  s \in good
  <2> DEFINE of(r) == Totals(g, r)[r]
             F(r) == IF r = {} THEN 0 ELSE g[Pick(r)] + of(r \ {Pick(r)})
             t == [r \in SUBSET s |-> F(r)]
             G(r) == IF r = {} THEN 0 ELSE g[Pick(r)] + t[r \ {Pick(r)}]
  <2>1. ASSUME NEW r \in SUBSET s, r # s PROVE IsTotal(Totals(g, r), g, r)
    BY <1>1, <2>1 DEF Totals
  <2>2. ASSUME NEW r \in SUBSET s, r # s PROVE of(r) = F(r)
    <3>1. of(r) = IF r = {} THEN 0
                  ELSE g[Pick(r)] + Totals(g, r)[r \ {Pick(r)}]
      BY <2>1, <2>2, TotalUnfolds
    <3>2. CASE r # {}
      <4> DEFINE q == r \ {Pick(r)}
      <4>1. Pick(r) \in r BY <3>2, PickIsElement
      <4>2. q \in SUBSET s /\ q # s /\ q \subseteq r BY <2>2, <4>1
      <4>3. IsFiniteSet(q) BY <4>2, FS_Subset
      <4>4. Totals(g, r)[q] = Totals(g, q)[q]
        <5>1. IsTotal(Totals(g, r), g, r) /\ IsTotal(Totals(g, q), g, q)
          BY <2>1, <2>2, <4>2
        <5> HIDE DEF q
        <5> QED BY <4>2, <4>3, <5>1, TotalsAgree
      <4> QED BY <3>1, <3>2, <4>4
    <3> QED BY <3>1, <3>2
  <2>3. ASSUME NEW r \in SUBSET s PROVE F(r) = G(r)
    <3>1. CASE r # {}
      <4> DEFINE q == r \ {Pick(r)}
      <4>1. Pick(r) \in r BY <3>1, PickIsElement
      <4>2. q \in SUBSET s /\ q # s BY <4>1
      <4>3. t[q] = F(q)
        <5> HIDE DEF F, q
        <5> QED BY <4>2
      <4>4. t[q] = of(q)
        <5> HIDE DEF F, t, of, q
        <5> QED BY <2>2, <4>2, <4>3
      <4> HIDE DEF t, of
      <4> QED BY <3>1, <4>4
    <3> QED BY <3>1
  <2>4. t = [r \in SUBSET s |-> G(r)]
    <3> HIDE DEF F, G
    <3> QED BY <2>3
  <2>5. IsTotal(t, g, s) BY <2>4 DEF IsTotal
  <2> HIDE DEF t
  <2> QED BY <2>5
<1>2. good \in SUBSET SUBSET S OBVIOUS
<1> HIDE DEF good
<1>3. good = SUBSET S BY <1>1, <1>2, SubsetInduction
<1>4. \E t : IsTotal(t, g, S) BY <1>3 DEF good
<1> QED BY <1>4 DEF Totals

(* The sum over nothing. *)
LEMMA TotalOfNothing == ASSUME NEW g PROVE Total(g, {}) = 0
<1>1. IsTotal(Totals(g, {}), g, {}) BY TotalsExist, FS_EmptySet
<1> QED BY <1>1, TotalUnfolds DEF Total

(* Only the values on the set count. *)
LEMMA TotalAgrees ==
  ASSUME NEW S, IsFiniteSet(S), NEW g, NEW h, \A x \in S : g[x] = h[x]
  PROVE  Total(g, S) = Total(h, S)
<1>1. IsTotal(Totals(g, S), g, S) /\ IsTotal(Totals(h, S), h, S)
  BY TotalsExist
<1> QED BY <1>1, TotalsAgree DEF Total

(* Any element may be taken out first. *)
LEMMA TotalSplits ==
  ASSUME NEW S, IsFiniteSet(S), NEW g, \A x \in S : g[x] \in Int
  PROVE  /\ Total(g, S) \in Int
         /\ \A x \in S : Total(g, S) = g[x] + Total(g, S \ {x})
<1> DEFINE t == Totals(g, S)
           good == {s \in SUBSET S : /\ t[s] \in Int
                                     /\ \A x \in s : t[s] = g[x] + t[s \ {x}]}
<1>1. IsTotal(t, g, S) BY TotalsExist
<1> HIDE DEF t
<1>2. ASSUME NEW s \in SUBSET S, \A r \in SUBSET s : r # s => r \in good
      PROVE  s \in good
  <2>1. t[s] = IF s = {} THEN 0 ELSE g[Pick(s)] + t[s \ {Pick(s)}]
    BY <1>1, TotalUnfolds
  <2>2. CASE s = {} BY <2>1, <2>2
  <2>3. CASE s # {}
    <3> DEFINE p == Pick(s)
    <3>1. p \in s BY <2>3, PickIsElement
    <3>2. t[s] = g[p] + t[s \ {p}] BY <2>1, <2>3
    <3> HIDE DEF p
    <3>3. s \ {p} \in good BY <1>2, <3>1
    <3>4. t[s] \in Int BY <3>1, <3>2, <3>3
    <3>5. ASSUME NEW x \in s, x # p PROVE t[s] = g[x] + t[s \ {x}]
      <4>1. s \ {x} \in good BY <1>2
      <4> DEFINE q == (s \ {p}) \ {x}
      <4>2. q \in good BY <1>2, <3>1
      <4>3. t[s \ {p}] = g[x] + t[q] BY <3>3, <3>5
      <4>4. (s \ {x}) \ {p} = q /\ p \in s \ {x} BY <3>1, <3>5
      <4>5. t[s \ {x}] = g[p] + t[q] BY <4>1, <4>4
      <4>6. t[q] \in Int /\ g[x] \in Int /\ g[p] \in Int BY <3>1, <4>2
      <4> HIDE DEF q, good
      <4> QED BY <3>2, <4>3, <4>5, <4>6
    <3> QED BY <3>2, <3>4, <3>5
  <2> QED BY <2>2, <2>3
<1>3. good \in SUBSET SUBSET S OBVIOUS
<1> HIDE DEF good
<1>4. good = SUBSET S BY <1>2, <1>3, SubsetInduction
<1>5. t[S] \in Int /\ \A x \in S : t[S] = g[x] + t[S \ {x}] BY <1>4 DEF good
<1>6. ASSUME NEW x \in S PROVE t[S \ {x}] = Total(g, S \ {x})
  <2> DEFINE r == S \ {x}
  <2>1. r \subseteq S /\ IsFiniteSet(r) BY FS_Subset
  <2> HIDE DEF r
  <2>2. IsTotal(Totals(g, r), g, r) BY <2>1, TotalsExist
  <2>3. t[r] = Totals(g, r)[r] BY <1>1, <2>1, <2>2, TotalsAgree
  <2> QED BY <2>3 DEF Total, r
<1> QED BY <1>5, <1>6 DEF Total, t

(* When one value moves, the sums it is part of move with it. *)
LEMMA TotalMoves ==
  ASSUME NEW S, IsFiniteSet(S), NEW g, NEW h, NEW k,
         \A x \in S : g[x] \in Int /\ h[x] \in Int,
         \A x \in S \ {k} : h[x] = g[x]
  PROVE  /\ Total(g, S) \in Int /\ Total(h, S) \in Int
         /\ Total(h, S) = IF k \in S THEN Total(g, S) + h[k] - g[k] ELSE Total(g, S)
<1>1. Total(g, S) \in Int /\ Total(h, S) \in Int BY TotalSplits
<1>2. CASE k \notin S BY <1>1, <1>2, TotalAgrees
<1>3. CASE k \in S
  <2> DEFINE r == S \ {k}
  <2>1. IsFiniteSet(r) BY FS_Subset
  <2>2. Total(g, r) \in Int /\ Total(g, r) = Total(h, r)
    <3>1. \A x \in r : g[x] \in Int /\ g[x] = h[x] OBVIOUS
    <3> HIDE DEF r
    <3> QED BY <2>1, <3>1, TotalSplits, TotalAgrees
  <2>3. Total(g, S) = g[k] + Total(g, r) BY <1>3, TotalSplits
  <2>4. Total(h, S) = h[k] + Total(h, r) BY <1>3, TotalSplits
  <2> HIDE DEF r
  <2> QED BY <1>1, <1>3, <2>2, <2>3, <2>4
<1> QED BY <1>2, <1>3

(* An element of value 0 adds nothing. *)
LEMMA TotalGrows ==
  ASSUME NEW S, IsFiniteSet(S), NEW g, NEW h, NEW k, k \notin S,
         \A x \in S : g[x] \in Int /\ h[x] = g[x], h[k] = 0
  PROVE  Total(h, S \cup {k}) = Total(g, S)
<1> DEFINE T == S \cup {k}
<1>1. IsFiniteSet(T) BY FS_AddElement
<1>2. k \in T /\ \A x \in T : h[x] \in Int OBVIOUS
<1>3. T \ {k} = S OBVIOUS
<1>4. Total(g, S) \in Int /\ Total(h, S) = Total(g, S)
  BY TotalSplits, TotalAgrees
<1> HIDE DEF T
<1>5. Total(h, T) = h[k] + Total(h, T \ {k}) BY <1>1, <1>2, TotalSplits
<1>6. Total(h, T) = Total(g, S) BY <1>3, <1>4, <1>5
<1> QED BY <1>6 DEF T
=============================================================================
