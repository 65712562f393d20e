-------------------------- MODULE StressPickProofs --------------------------
(***************************************************************************)
(* Proof that the weighted choice of stress_test.py sends every request to *)
(* the target whose band of the cumulative weights holds the point drawn  *)
(* (PickMatchesWeights), for any list of positive weights.                 *)
(*                                                                         *)
(* cum_weights is strictly increasing, as every weight is at least 1; so   *)
(* the indices bisect_right counts, those whose cumulative weight is at    *)
(* most the point, form an initial segment 1..k of the targets, and k is   *)
(* their number.  Target k + 1 is then the one whose band holds the point, *)
(* unless k is the last target, which happens only at the end point       *)
(* total_weight, where the clamp picks the last target.                    *)
(***************************************************************************)
EXTENDS StressReportProofs, FiniteSetTheorems

NT == Len(Weight)

\* A request in the history carries the target picked from its own point.
PickInv ==
    \A i \in DOMAIN sent : sent[i].h \in Points /\ sent[i].t = PickTarget(sent[i].h)

-----------------------------------------------------------------------------
(***************************************************************************)
(* cum_weights.                                                            *)
(***************************************************************************)

(* The weights are a nonempty list of positive naturals. *)
LEMMA WeightFacts ==
    /\ NT \in Nat \ {0}
    /\ \A i \in 1..NT : Weight[i] \in Nat \ {0}
BY StressAssumption DEF NT

(* Cum is the function the recursive definition of cum_weights describes. *)
LEMMA CumDef ==
    Cum = [i \in 0..NT |-> IF i = 0 THEN 0 ELSE Cum[i - 1] + Weight[i]]
<1> DEFINE Ex(k) == \E g : g = [i \in 0..k |-> IF i = 0 THEN 0
                                                ELSE g[i - 1] + Weight[i]]
           T == {k \in 0..NT : ~Ex(k)}
<1>0. NT \in Nat
  BY WeightFacts
<1>1. 0 \notin T
  <2>1. [i \in 0..0 |-> 0] = [i \in 0..0 |-> IF i = 0 THEN 0
                               ELSE [i2 \in 0..0 |-> 0][i - 1] + Weight[i]]
    OBVIOUS
  <2> QED
    BY <2>1
<1>2. ASSUME NEW k \in 1..NT, Ex(k - 1) PROVE Ex(k)
  <2>1. PICK g : g = [i \in 0..(k - 1) |-> IF i = 0 THEN 0
                                           ELSE g[i - 1] + Weight[i]]
    BY <1>2
  <2> DEFINE h == [i \in 0..k |-> IF i = k THEN g[k - 1] + Weight[k] ELSE g[i]]
  <2>2. h = [i \in 0..k |-> IF i = 0 THEN 0 ELSE h[i - 1] + Weight[i]]
    BY <1>0, <2>1
  <2> QED
    BY <2>2
<1>3. \A k \in 1..NT : k \in T => k - 1 \in T
  <2> SUFFICES ASSUME NEW k \in 1..NT, k \in T PROVE k - 1 \in T
    OBVIOUS
  <2>1. k - 1 \in 0..NT
    BY <1>0
  <2>2. ~Ex(k)
    BY Zenon DEF T
  <2>3. ~Ex(k - 1)
    BY <1>2, <2>2, Zenon
  <2> QED
    BY <2>1, <2>3, Zenon DEF T
<1>4. T = {}
  <2>1. NT \in Nat /\ T \in SUBSET (0..NT)
    BY <1>0 DEF T
  <2> QED
    BY <1>1, <1>3, <2>1, NoCounterexample
<1>5. Ex(NT)
  <2>1. NT \in 0..NT
    BY <1>0
  <2> QED
    BY <1>4, <2>1, Zenon DEF T
<1> QED
  BY <1>5 DEF Cum, Ex, NT

(* The cumulative weights are naturals, each above the one before. *)
LEMMA CumStep ==
    /\ \A i \in 0..NT : Cum[i] \in Nat
    /\ \A i \in 1..NT : Cum[i - 1] < Cum[i]
<1> DEFINE T == {k \in 0..NT : Cum[k] \notin Nat}
<1>0. NT \in Nat /\ \A i \in 1..NT : Weight[i] \in Nat \ {0}
  BY WeightFacts
<1>1. 0 \notin T
  BY CumDef DEF T
<1>2. \A k \in 1..NT : k \in T => k - 1 \in T
  <2> SUFFICES ASSUME NEW k \in 1..NT, k \in T PROVE k - 1 \in T
    OBVIOUS
  <2>1. Cum[k] = Cum[k - 1] + Weight[k]
    BY <1>0, CumDef
  <2> QED
    BY <1>0, <2>1 DEF T
<1>3. T = {}
  <2>1. NT \in Nat /\ T \in SUBSET (0..NT)
    BY <1>0 DEF T
  <2> QED
    BY <1>1, <1>2, <2>1, NoCounterexample
<1>4. \A i \in 0..NT : Cum[i] \in Nat
  BY <1>3 DEF T
<1>5. \A i \in 1..NT : Cum[i] = Cum[i - 1] + Weight[i]
  BY <1>0, CumDef
<1> QED
  BY <1>0, <1>4, <1>5

(* cum_weights is strictly increasing. *)
LEMMA CumMono ==
    ASSUME NEW i \in 0..NT, NEW j \in 0..NT, i < j
    PROVE  Cum[i] < Cum[j]
<1> DEFINE Good(k) == k <= i \/ Cum[i] < Cum[k]
           T == {k \in 0..NT : ~Good(k)}
<1>0. NT \in Nat
  BY WeightFacts
<1>1. 0 \notin T
  BY DEF T, Good
<1>2. \A k \in 1..NT : k \in T => k - 1 \in T
  <2> SUFFICES ASSUME NEW k \in 1..NT, k \in T PROVE k - 1 \in T
    OBVIOUS
  <2>1. k > i /\ Cum[k] <= Cum[i]
    BY CumStep DEF T, Good
  <2>2. Cum[k - 1] < Cum[k] /\ Cum[k - 1] \in Nat /\ Cum[k] \in Nat
        /\ Cum[i] \in Nat
    BY <1>0, CumStep
  <2> QED
    BY <1>0, <2>1, <2>2 DEF T, Good
<1>3. T = {}
  <2>1. NT \in Nat /\ T \in SUBSET (0..NT)
    BY <1>0 DEF T
  <2> QED
    BY <1>1, <1>2, <2>1, NoCounterexample
<1> QED
  BY <1>3 DEF T, Good

(* bisect_right(cum_weights, h / 2) is the number k of targets whose      *)
(* cumulative weight is at most the point: cum[k] <= h / 2, and the next  *)
(* one, if any, is above it.                                               *)
LEMMA Bisect ==
    ASSUME NEW h \in Nat
    PROVE  /\ BisectRight(h) \in 0..NT
           /\ 2 * Cum[BisectRight(h)] <= h
           /\ BisectRight(h) < NT => h < 2 * Cum[BisectRight(h) + 1]
<1> DEFINE S == {i \in Targets : 2 * Cum[i] <= h}
           U == {j \in 1..(NT + 1) : j = NT + 1 \/ h < 2 * Cum[j]}
<1>0. NT \in Nat /\ Targets = 1..NT
  BY WeightFacts DEF Targets, NT
<1>1. PICK m \in U : \A j \in U : m <= j
  <2>1. U \in SUBSET Nat /\ U # {}
    BY <1>0 DEF U
  <2> QED
    BY <2>1, NatLeast
<1>2. m \in 1..(NT + 1)
  BY <1>1 DEF U
<1>3. S = 1..(m - 1)
  <2>1. ASSUME NEW j \in 1..(m - 1) PROVE j \in S
    <3>1. j \notin U
      BY <1>1, <1>2
    <3>2. j \in 1..NT /\ Cum[j] \in Nat
      BY <1>0, <1>2, CumStep
    <3> QED
      BY <1>0, <3>1, <3>2 DEF U, S
  <2>2. ASSUME NEW j \in S PROVE j \in 1..(m - 1)
    <3> SUFFICES ASSUME m <= j PROVE FALSE
      BY <1>0, <1>2 DEF S
    <3>1. m \in 1..NT /\ h < 2 * Cum[m]
      BY <1>0, <1>1, <1>2 DEF S, U
    <3>2. Cum[m] <= Cum[j] /\ Cum[m] \in Nat /\ Cum[j] \in Nat
      <4>1. j \in 0..NT /\ m \in 0..NT
        BY <1>0, <3>1 DEF S
      <4> QED
        BY <4>1, CumMono, CumStep
    <3> QED
      BY <3>1, <3>2 DEF S
  <2> QED
    BY <2>1, <2>2
<1>4. BisectRight(h) = m - 1
  <2>1. Cardinality(1..(m - 1)) = m - 1
    BY <1>2, FS_Interval
  <2> QED
    BY <1>3, <2>1 DEF BisectRight
<1>5. 2 * Cum[m - 1] <= h
  <2>1. CASE m = 1
    BY <1>0, <2>1, CumDef
  <2>2. CASE m # 1
    BY <1>2, <1>3, <2>2 DEF S
  <2> QED
    BY <2>1, <2>2
<1>6. m - 1 < NT => h < 2 * Cum[m]
  BY <1>0, <1>1, <1>2 DEF U
<1> QED
  BY <1>0, <1>2, <1>4, <1>5, <1>6

(* The target picked for a point is the one whose band holds it, or the   *)
(* last one for the end point total_weight: the clamp of idx.              *)
LEMMA PickTargetBand ==
    ASSUME NEW h \in Points
    PROVE  /\ PickTarget(h) \in Targets
           /\ 2 * Cum[PickTarget(h) - 1] <= h
           /\ \/ h < 2 * Cum[PickTarget(h)]
              \/ PickTarget(h) = Len(Weight) /\ h = 2 * TotalWeight
<1> DEFINE k == BisectRight(h)
<1>0. /\ NT \in Nat \ {0} /\ Targets = 1..NT /\ Len(Weight) = NT
      /\ TotalWeight = Cum[NT] /\ TotalWeight \in Nat
      /\ h \in 0..2 * Cum[NT]
  BY WeightFacts, CumStep DEF Targets, NT, TotalWeight, Points
<1>1. /\ k \in 0..NT
      /\ 2 * Cum[k] <= h
      /\ k < NT => h < 2 * Cum[k + 1]
  BY <1>0, Bisect
<1>2. CASE k >= NT
  <2>1. k = NT /\ PickTarget(h) = NT
    BY <1>0, <1>1, <1>2 DEF PickTarget
  <2>2. Cum[NT - 1] < Cum[NT] /\ Cum[NT - 1] \in Nat
    BY <1>0, CumStep
  <2>3. h = 2 * TotalWeight
    BY <1>0, <1>1, <2>1
  <2> QED
    BY <1>0, <1>1, <2>1, <2>2, <2>3
<1>3. CASE k < NT
  <2>1. PickTarget(h) = k + 1
    BY <1>0, <1>1, <1>3 DEF PickTarget
  <2> QED
    BY <1>0, <1>1, <1>3, <2>1
<1> QED
  BY <1>0, <1>1, <1>2, <1>3

-----------------------------------------------------------------------------
(***************************************************************************)
(* The history of picks.                                                   *)
(***************************************************************************)

(* Only a send extends the history, with the target of its own point. *)
LEMMA NextPickInv == IInv /\ PickInv /\ [Next]_vars => PickInv'
<1> SUFFICES ASSUME IInv, PickInv, [Next]_vars PROVE PickInv'
  OBVIOUS
<1>1. sent \in Seq(SentI)
  BY DEF IInv, TypeI
<1>2. ASSUME NEW w \in Workers, Send(w) PROVE PickInv'
  <2>1. PICK h \in 0..2 * TotalWeight, o \in Outcomes :
           sent' = Append(sent, [id |-> req_id[w], h |-> h, t |-> PickTarget(h)])
    BY <1>2 DEF Send
  <2>2. h \in Points
    BY <2>1 DEF Points
  <2> QED
    BY <1>1, <2>1, <2>2 DEF PickInv
<1>3. CASE UNCHANGED sent
  BY <1>3 DEF PickInv
<1>4. ASSUME NEW w \in Workers, Worker(w) PROVE PickInv'
  BY <1>2, <1>4, <1>3 DEF Worker, Acquire, Increment, Bound, Publish
<1> QED
  BY <1>3, <1>4 DEF Next, Start, Join, Report, Exit, vars

(* Every request run_worker issued went to the target whose band          *)
(* [cum[t-1], cum[t]) holds the point uniform() drew, or to the last      *)
(* target for the end point total_weight, for every list of positive      *)
(* weights: bisect_right with the clamp of idx is the weighted choice.    *)
THEOREM PickCorrect == Spec => []PickMatchesWeights
<1>1. Init => IInv /\ PickInv
  BY InitIInv DEF Init, PickInv
<1>2. IInv /\ PickInv /\ [Next]_vars => (IInv /\ PickInv)'
  BY NextIInv, NextPickInv
<1>3. PickInv => PickMatchesWeights
  BY PickTargetBand DEF PickInv, PickMatchesWeights
<1> QED
  BY <1>1, <1>2, <1>3, PTL DEF Spec

=============================================================================
