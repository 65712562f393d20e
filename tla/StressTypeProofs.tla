-------------------------- MODULE StressTypeProofs --------------------------
(***************************************************************************)
(* Proof that every reachable state of the worker pool of stress_test.py  *)
(* is well typed (TypeOK), for any number of threads, any bound and any   *)
(* weights: in particular the report main writes is a WorkerResult, each   *)
(* of its sums a natural, and every request in the history carries a      *)
(* target among the targets.                                               *)
(***************************************************************************)
EXTENDS StressPickProofs

\* The report's count for target t sums this list of one-field records.
ByTarget(s, t) == [i \in 1..Len(s) |-> [v |-> s[i].by_target[t]]]

TInv ==
    /\ RInv
    /\ started \in 0..NWorkers
    /\ report \in Result
    /\ reported \in BOOLEAN

-----------------------------------------------------------------------------
(* The sum per target of the report is a sum over a list of records. *)
LEMMA SumByTarget ==
    ASSUME NEW s, Len(s) \in Nat, NEW t
    PROVE  SumOf(s, LAMBDA r : r.by_target[t]) = SumF(ByTarget(s, t), "v")
<1> DEFINE B == ByTarget(s, t)
<1>1. Len(B) = Len(s)
  BY LenFcn DEF ByTarget
<1>2. ASSUME NEW S
      PROVE  [i \in 0..Len(s) |-> IF i = 0 THEN 0
                                  ELSE S[i - 1] + s[i].by_target[t]]
             = [i \in 0..Len(B) |-> IF i = 0 THEN 0 ELSE S[i - 1] + B[i]["v"]]
  BY <1>1 DEF ByTarget
<1> QED
  BY <1>1, <1>2 DEF SumOf, SumF

(* The sums main() takes over a list of WorkerResults form a WorkerResult. *)
LEMMA AggregateResult ==
    ASSUME NEW s \in Seq(Result)
    PROVE  Aggregate(s) \in Result
<1>1. Len(s) \in Nat /\ \A i \in 1..Len(s) : s[i] \in Result
  BY ElementOfSeq
<1>2. /\ SumF(s, "requests") \in Nat /\ SumF(s, "ok") \in Nat
      /\ SumF(s, "samples") \in Nat
  BY <1>1, SumFNat DEF Result
<1>3. ASSUME NEW t \in Targets
      PROVE  SumOf(s, LAMBDA r : r.by_target[t]) \in Nat
  <2>1. Len(ByTarget(s, t)) = Len(s)
    BY <1>1, LenFcn DEF ByTarget
  <2>2. \A i \in 1..Len(s) : ByTarget(s, t)[i]["v"] \in Nat
    BY <1>1 DEF ByTarget, Result
  <2>3. SumF(ByTarget(s, t), "v") \in Nat
    BY <1>1, <2>1, <2>2, SumFNat
  <2> QED
    BY <1>1, <2>3, SumByTarget
<1>4. /\ SumOf(s, LAMBDA r : r.requests) = SumF(s, "requests")
      /\ SumOf(s, LAMBDA r : r.ok) = SumF(s, "ok")
      /\ SumOf(s, LAMBDA r : r.samples) = SumF(s, "samples")
  BY DEF SumF
<1>5. MaxErrorSamples \in Nat
  BY StressAssumption
<1> QED
  BY <1>2, <1>3, <1>4, <1>5 DEF Aggregate, Result

(* The requests of the history are Issued records: a target picked from a *)
(* point is a target.                                                      *)
LEMMA SentIssued == Seq(SentI) \subseteq Seq(Issued)
<1>1. ASSUME NEW p \in Points PROVE PickTarget(p) \in Nat
  <2>1. PickTarget(p) \in Targets
    BY PickTargetBand
  <2> QED
    BY <2>1 DEF Targets
<1>2. Points \subseteq Nat
  BY DEF Points
<1>3. SentI \subseteq Issued
  BY <1>1, <1>2 DEF SentI, Issued, Picks
<1> QED
  BY <1>3, SeqMonotonic

(* The initial state: nothing started or reported. *)
LEMMA InitTInv == Init => TInv
<1> SUFFICES ASSUME Init PROVE TInv
  OBVIOUS
<1>1. RInv
  BY InitRInv
<1>2. NWorkers \in Nat
  BY WorkersRange
<1>3. started = 0 /\ reported = FALSE
  BY DEF Init
<1>5. started \in 0..NWorkers
  BY <1>2, <1>3
<1>6. reported \in BOOLEAN
  BY <1>3
<1>4. report \in Result
  BY DEF Init, NoResult, Result
<1> QED
  BY <1>1, <1>5, <1>6, <1>4 DEF TInv

(* Every step keeps TInv: only main's start raises started, and only the *)
(* report writes report, with the sums over results.                      *)
LEMMA NextTInv == TInv /\ [Next]_vars => TInv'
<1> SUFFICES ASSUME TInv, [Next]_vars PROVE TInv'
  OBVIOUS
<1>1. RInv'
  BY NextRInv DEF TInv
<1>2. NWorkers \in Nat
  BY WorkersRange
<1>3. CASE Start
  BY <1>1, <1>2, <1>3 DEF Start, TInv, NWorkers
<1>4. CASE Report
  <2>1. results \in Seq(Result)
    BY DEF TInv, RInv, ResultInv
  <2>2. report' \in Result
    BY <1>4, <2>1, AggregateResult DEF Report
  <2> QED
    BY <1>1, <1>4, <2>2 DEF Report, TInv
<1>5. CASE Join \/ Exit \/ UNCHANGED vars
  BY <1>1, <1>5 DEF Join, Exit, vars, TInv
<1>6. ASSUME NEW w \in Workers, Worker(w) PROVE TInv'
  <2>1. UNCHANGED <<started, report, reported>>
    BY <1>6 DEF Worker, Acquire, Increment, Bound, Send, Publish
  <2> QED
    BY <1>1, <2>1 DEF TInv
<1> QED
  BY <1>3, <1>4, <1>5, <1>6 DEF Next

(* Every reachable state of the worker pool is well typed, for every     *)
(* number of threads, every bound and every list of weights: the report   *)
(* main writes is a WorkerResult of naturals, and every request issued    *)
(* went to one of the targets.                                            *)
THEOREM StressTypeCorrect == Spec => []TypeOK
<1>1. Init => TInv
  BY InitTInv
<1>2. TInv /\ [Next]_vars => TInv'
  BY NextTInv
<1>3. TInv => TypeOK
  <2> SUFFICES ASSUME TInv PROVE TypeOK
    OBVIOUS
  <2>1. sent \in Seq(Issued)
    BY SentIssued DEF TInv, RInv, IInv, TypeI
  <2> QED
    BY <2>1 DEF TInv, RInv, IInv, TypeI, ResultInv, JoinInv, NWorkers, TypeOK
<1> QED
  BY <1>1, <1>2, <1>3, PTL DEF Spec

=============================================================================
