------------------------- MODULE StressReportProofs -------------------------
(***************************************************************************)
(* Proof that the report main() of stress_test.py writes after joining    *)
(* its threads counts exactly max_requests requests, and no more ok ones   *)
(* than requests (ReportCountsAll), for any number of threads, any bound  *)
(* and any weights.                                                        *)
(*                                                                         *)
(* The report is the sum over the list results, which each thread appends *)
(* its WorkerResult to as it ends.  The invariant accounts for every id    *)
(* below max_requests at every moment: an id is either below the counter  *)
(* and sent, or held by a thread between its increment and its send; and   *)
(* a request sent is counted either in the WorkerResult of a running      *)
(* thread or in results.  Once every thread is joined, nothing is held or *)
(* running, and the sum over results is max_requests.                     *)
(*                                                                         *)
(* The sums are SumOf of the model, a recursive function over a sequence. *)
(* Its lemmas are proved by induction, as the least element of the set of *)
(* counterexamples, which WFMin of WellFoundedInduction gives for the      *)
(* naturals.                                                               *)
(***************************************************************************)
EXTENDS StressWorkersProofs, SequenceTheorems, WellFoundedInduction

\* The sum of field fld over the records of sequence s, as the report
\* computes it, and the partial sums SumOf builds.
SumF(s, fld) == SumOf(s, LAMBDA r : r[fld])
PSum(s, fld) ==
    CHOOSE S : S = [i \in 0..Len(s) |-> IF i = 0 THEN 0 ELSE S[i - 1] + s[i][fld]]

NWorkers == Cardinality(Workers)

\* The ids below max_requests taken so far: min(next_request_id[0], max).
IssuedBelow ==
    IF next_request_id < MaxRequests THEN next_request_id ELSE MaxRequests

\* The WorkerResult of each thread that has not yet appended it to results.
Live == [w \in 1..NWorkers |-> IF pc[w] = "done" THEN NoResult ELSE res[w]]

\* Whether each thread holds an id below max_requests that it has still to
\* send: past the increment, before the send.
Held == [w \in 1..NWorkers |->
           [c |-> IF pc[w] \in {"bound", "send"} /\ req_id[w] < MaxRequests
                  THEN 1 ELSE 0]]

\* The WorkerResults are records of naturals, with no more ok than requests.
ResultInv ==
    /\ res \in [Workers -> Result]
    /\ results \in Seq(Result)
    /\ \A w \in Workers : res[w].ok <= res[w].requests
    /\ SumF(results, "ok") <= SumF(results, "requests")

\* Every request sent is counted once, in results or in a running thread;
\* every id below max_requests taken is sent or held by a thread.
CountInv ==
    /\ SumF(results, "requests") + SumF(Live, "requests") = Len(sent)
    /\ Len(sent) + SumF(Held, "c") = IssuedBelow

\* A thread past its loop broke out on an id at or past max_requests.
PastInv ==
    \A w \in Workers :
        pc[w] \in {"publish", "done"} =>
            MaxRequests <= req_id[w] /\ req_id[w] < next_request_id

\* main joins the threads in order, and reports the sums over results
\* once all are joined.
JoinInv ==
    /\ joined \in 0..NWorkers
    /\ \A w \in 1..joined : pc[w] = "done"
    /\ reported => /\ joined = NWorkers
                   /\ report.requests = SumF(results, "requests")
                   /\ report.ok = SumF(results, "ok")

\* The places where a thread's id or WorkerResult is counted.
Counted == {"bound", "send", "publish", "done"}

RInv == IInv /\ ResultInv /\ CountInv /\ PastInv /\ JoinInv

-----------------------------------------------------------------------------
(***************************************************************************)
(* Induction over the naturals, first order: a set of counterexamples     *)
(* that holds no 0 and, with each element, its predecessor, is empty.     *)
(***************************************************************************)

(* Every nonempty set of naturals has a least element. *)
LEMMA NatLeast ==
    ASSUME NEW T \in SUBSET Nat, T # {}
    PROVE  \E m \in T : \A k \in T : m <= k
<1>1. PICK x \in T : \A y \in T : ~(<<y, x>> \in OpToRel(<, Nat))
  BY WFMin, NatLessThanWellFounded
<1>2. \A y \in T : y < x => <<y, x>> \in OpToRel(<, Nat)
  BY Zenon DEF OpToRel
<1>3. \A y \in T : ~(y < x)
  BY <1>1, <1>2, Zenon
<1> QED
  BY <1>3

(* A set of counterexamples in 0..n without 0, closed under predecessor,  *)
(* is empty: its least element would have a smaller one.                   *)
LEMMA NoCounterexample ==
    ASSUME NEW n \in Nat, NEW T \in SUBSET (0..n), 0 \notin T,
           \A k \in 1..n : k \in T => k - 1 \in T
    PROVE  T = {}
<1> SUFFICES ASSUME T # {} PROVE FALSE
  OBVIOUS
<1>1. PICK m \in T : \A k \in T : m <= k
  BY NatLeast
<1>2. m \in 1..n /\ m - 1 \in T
  BY <1>1
<1> QED
  BY <1>1, <1>2

-----------------------------------------------------------------------------
(***************************************************************************)
(* The partial sums of SumOf.                                              *)
(***************************************************************************)

(* SumOf is the last of its partial sums. *)
LEMMA SumFPSum ==
    ASSUME NEW s, NEW fld
    PROVE  SumF(s, fld) = PSum(s, fld)[Len(s)]
BY DEF SumF, SumOf, PSum

(* The partial sums exist: SumOf's recursive function is well defined.    *)
LEMMA PSumDef ==
    ASSUME NEW s, Len(s) \in Nat, NEW fld
    PROVE  PSum(s, fld) =
             [i \in 0..Len(s) |-> IF i = 0 THEN 0
                                  ELSE PSum(s, fld)[i - 1] + s[i][fld]]
<1> DEFINE Ex(k) == \E g : g = [i \in 0..k |-> IF i = 0 THEN 0
                                                ELSE g[i - 1] + s[i][fld]]
           T == {k \in 0..Len(s) : ~Ex(k)}
<1>1. 0 \notin T
  <2>1. [i \in 0..0 |-> 0] = [i \in 0..0 |-> IF i = 0 THEN 0
                               ELSE [i2 \in 0..0 |-> 0][i - 1] + s[i][fld]]
    OBVIOUS
  <2> QED
    BY <2>1
<1>2. ASSUME NEW k \in 1..Len(s), Ex(k - 1) PROVE Ex(k)
  <2>1. PICK g : g = [i \in 0..(k - 1) |-> IF i = 0 THEN 0
                                           ELSE g[i - 1] + s[i][fld]]
    BY <1>2
  <2> DEFINE h == [i \in 0..k |-> IF i = k THEN g[k - 1] + s[k][fld] ELSE g[i]]
  <2>2. h = [i \in 0..k |-> IF i = 0 THEN 0 ELSE h[i - 1] + s[i][fld]]
    BY <2>1
  <2> QED
    BY <2>2
<1>3. \A k \in 1..Len(s) : k \in T => k - 1 \in T
  <2> SUFFICES ASSUME NEW k \in 1..Len(s), k \in T PROVE k - 1 \in T
    OBVIOUS
  <2>1. k - 1 \in 0..Len(s)
    OBVIOUS
  <2>2. ~Ex(k)
    BY Zenon DEF T
  <2>3. ~Ex(k - 1)
    BY <1>2, <2>2, Zenon
  <2> QED
    BY <2>1, <2>3, Zenon DEF T
<1>4. T = {}
  <2>1. Len(s) \in Nat /\ T \in SUBSET (0..Len(s))
    BY DEF T
  <2> QED
    BY <1>1, <1>3, <2>1, NoCounterexample
<1>5. Ex(Len(s))
  BY <1>4 DEF T
<1> QED
  BY <1>5 DEF PSum, Ex

(* The partial sums of naturals are naturals. *)
LEMMA PSumNat ==
    ASSUME NEW s, Len(s) \in Nat, NEW fld,
           \A i \in 1..Len(s) : s[i][fld] \in Nat
    PROVE  \A i \in 0..Len(s) : PSum(s, fld)[i] \in Nat
<1> DEFINE P == PSum(s, fld)
           T == {k \in 0..Len(s) : P[k] \notin Nat}
<1>1. P = [i \in 0..Len(s) |-> IF i = 0 THEN 0 ELSE P[i - 1] + s[i][fld]]
  BY PSumDef
<1>2. 0 \notin T
  BY <1>1 DEF T
<1>3. \A k \in 1..Len(s) : k \in T => k - 1 \in T
  <2> SUFFICES ASSUME NEW k \in 1..Len(s), k \in T PROVE k - 1 \in T
    OBVIOUS
  <2>1. P[k] = P[k - 1] + s[k][fld]
    BY <1>1
  <2> QED
    BY <2>1 DEF T
<1>4. T = {}
  <2>1. Len(s) \in Nat /\ T \in SUBSET (0..Len(s))
    BY DEF T
  <2> QED
    BY <1>2, <1>3, <2>1, NoCounterexample
<1> QED
  BY <1>4 DEF T

(* A sum of naturals is a natural. *)
LEMMA SumFNat ==
    ASSUME NEW s, Len(s) \in Nat, NEW fld,
           \A i \in 1..Len(s) : s[i][fld] \in Nat
    PROVE  SumF(s, fld) \in Nat
BY PSumNat, SumFPSum

(* The sum over the empty list is 0. *)
LEMMA SumFEmpty ==
    ASSUME NEW fld
    PROVE  SumF(<<>>, fld) = 0
<1>1. PSum(<<>>, fld)[0] = 0
  <2>1. Len(<<>>) = 0
    OBVIOUS
  <2>2. PSum(<<>>, fld) = [i \in 0..Len(<<>>) |-> IF i = 0 THEN 0
                             ELSE PSum(<<>>, fld)[i - 1] + <<>>[i][fld]]
    BY <2>1, PSumDef
  <2> QED
    BY <2>1, <2>2
<1> QED
  BY <1>1, SumFPSum

(* results.append(x) adds x's field to the sum. *)
LEMMA SumFAppend ==
    ASSUME NEW S, NEW s \in Seq(S), NEW x \in S, NEW fld
    PROVE  SumF(Append(s, x), fld) = SumF(s, fld) + x[fld]
<1> DEFINE t == Append(s, x)
           P == PSum(s, fld)
           Q == PSum(t, fld)
           T == {k \in 0..Len(s) : Q[k] # P[k]}
<1>1. /\ t \in Seq(S) /\ Len(t) = Len(s) + 1
      /\ \A i \in 1..Len(s) : t[i] = s[i]
      /\ t[Len(s) + 1] = x
  BY AppendProperties
<1>0. Len(s) \in Nat /\ Len(t) \in Nat
  BY <1>1
<1>2. P = [i \in 0..Len(s) |-> IF i = 0 THEN 0 ELSE P[i - 1] + s[i][fld]]
  BY <1>0, PSumDef
<1>3. Q = [i \in 0..Len(t) |-> IF i = 0 THEN 0 ELSE Q[i - 1] + t[i][fld]]
  BY <1>0, PSumDef
<1>4. 0 \notin T
  BY <1>1, <1>2, <1>3 DEF T
<1>5. \A k \in 1..Len(s) : k \in T => k - 1 \in T
  <2> SUFFICES ASSUME NEW k \in 1..Len(s), k \in T PROVE k - 1 \in T
    OBVIOUS
  <2>1. P[k] = P[k - 1] + s[k][fld]
    BY <1>0, <1>2
  <2>2. k \in 0..Len(t) /\ k # 0 /\ t[k] = s[k]
    BY <1>0, <1>1
  <2>3. Q[k] = Q[k - 1] + t[k][fld]
    BY <1>3, <2>2, Zenon
  <2>4. Q[k] = Q[k - 1] + s[k][fld]
    BY <2>2, <2>3
  <2> QED
    BY <2>1, <2>4 DEF T
<1>6. T = {}
  <2>1. Len(s) \in Nat /\ T \in SUBSET (0..Len(s))
    BY DEF T
  <2> QED
    BY <1>4, <1>5, <2>1, NoCounterexample
<1>7. Q[Len(s) + 1] = Q[Len(s)] + x[fld]
  BY <1>1, <1>3
<1>8. Q[Len(s)] = P[Len(s)]
  BY <1>6 DEF T
<1> QED
  BY <1>1, <1>7, <1>8, SumFPSum

(* Changing one record of the list changes the sum by the change of its   *)
(* field: a thread's WorkerResult updated in place.                         *)
LEMMA SumFUpdate ==
    ASSUME NEW s, NEW t, Len(s) \in Nat, Len(t) = Len(s), NEW fld,
           NEW w \in 1..Len(s),
           \A i \in 1..Len(s) : s[i][fld] \in Nat /\ t[i][fld] \in Nat,
           \A i \in 1..Len(s) : i # w => t[i][fld] = s[i][fld]
    PROVE  SumF(t, fld) + s[w][fld] = SumF(s, fld) + t[w][fld]
<1> DEFINE P == PSum(s, fld)
           Q == PSum(t, fld)
           Good(k) == Q[k] + (IF w <= k THEN s[w][fld] ELSE 0)
                      = P[k] + (IF w <= k THEN t[w][fld] ELSE 0)
           T == {k \in 0..Len(s) : ~Good(k)}
<1>1. /\ P = [i \in 0..Len(s) |-> IF i = 0 THEN 0 ELSE P[i - 1] + s[i][fld]]
      /\ Q = [i \in 0..Len(s) |-> IF i = 0 THEN 0 ELSE Q[i - 1] + t[i][fld]]
  BY PSumDef
<1>2. \A i \in 0..Len(s) : P[i] \in Nat /\ Q[i] \in Nat
  BY PSumNat
<1>3. 0 \notin T
  BY <1>1 DEF T, Good
<1>4. ASSUME NEW k \in 1..Len(s), Good(k - 1) PROVE Good(k)
  <2>1. k \in 0..Len(s) /\ k # 0 /\ k - 1 \in 0..Len(s)
    OBVIOUS
  <2>2. P[k] = P[k - 1] + s[k][fld]
    BY <1>1, <2>1, Zenon
  <2>3. Q[k] = Q[k - 1] + t[k][fld]
    BY <1>1, <2>1, Zenon
  <2>4. /\ P[k - 1] \in Nat /\ Q[k - 1] \in Nat
        /\ s[k][fld] \in Nat /\ t[k][fld] \in Nat
        /\ s[w][fld] \in Nat /\ t[w][fld] \in Nat
    BY <1>2, <2>1
  <2>5. Q[k - 1] + (IF w <= k - 1 THEN s[w][fld] ELSE 0)
        = P[k - 1] + (IF w <= k - 1 THEN t[w][fld] ELSE 0)
    BY <1>4 DEF Good
  <2>6. k # w => t[k][fld] = s[k][fld]
    OBVIOUS
  <2>7. Q[k] + (IF w <= k THEN s[w][fld] ELSE 0)
        = P[k] + (IF w <= k THEN t[w][fld] ELSE 0)
    <3>1. CASE k < w
      <4>1. ~(w <= k) /\ ~(w <= k - 1) /\ t[k][fld] = s[k][fld]
        BY <3>1, <2>6
      <4> QED
        BY <2>2, <2>3, <2>4, <2>5, <4>1
    <3>2. CASE k = w
      <4>1. w <= k /\ ~(w <= k - 1)
        BY <3>2
      <4>2. Q[k - 1] = P[k - 1]
        BY <2>4, <2>5, <4>1
      <4> QED
        BY <2>2, <2>3, <2>4, <3>2, <4>1, <4>2
    <3>3. CASE k > w
      <4>1. w <= k /\ w <= k - 1 /\ t[k][fld] = s[k][fld]
        BY <3>3, <2>6
      <4>2. Q[k - 1] + s[w][fld] = P[k - 1] + t[w][fld]
        BY <2>5, <4>1
      <4>3. Q[k] + s[w][fld] = P[k] + t[w][fld]
        BY <2>2, <2>3, <2>4, <4>1, <4>2, SMTT(60)
      <4> QED
        BY <4>1, <4>3
    <3> QED
      BY <3>1, <3>2, <3>3
  <2> QED
    BY <2>7 DEF Good
<1>7. \A k \in 1..Len(s) : k \in T => k - 1 \in T
  <2> SUFFICES ASSUME NEW k \in 1..Len(s), k \in T PROVE k - 1 \in T
    OBVIOUS
  <2>1. ~Good(k)
    BY Zenon DEF T
  <2>2. ~Good(k - 1)
    BY <1>4, <2>1, Zenon
  <2>3. k - 1 \in 0..Len(s)
    OBVIOUS
  <2> QED
    BY <2>2, <2>3, Zenon DEF T
<1>5. T = {}
  <2>1. Len(s) \in Nat /\ T \in SUBSET (0..Len(s))
    BY DEF T
  <2> QED
    BY <1>3, <1>7, <2>1, NoCounterexample
<1>6. Good(Len(s))
  BY <1>5 DEF T
<1> QED
  BY <1>6, SumFPSum DEF Good

(* A list whose records all have 0 in the field sums to 0. *)
LEMMA SumFZero ==
    ASSUME NEW s, Len(s) \in Nat, NEW fld,
           \A i \in 1..Len(s) : s[i][fld] = 0
    PROVE  SumF(s, fld) = 0
<1> DEFINE P == PSum(s, fld)
           T == {k \in 0..Len(s) : P[k] # 0}
<1>1. P = [i \in 0..Len(s) |-> IF i = 0 THEN 0 ELSE P[i - 1] + s[i][fld]]
  BY PSumDef
<1>2. 0 \notin T
  BY <1>1 DEF T
<1>3. \A k \in 1..Len(s) : k \in T => k - 1 \in T
  <2> SUFFICES ASSUME NEW k \in 1..Len(s), k \in T PROVE k - 1 \in T
    OBVIOUS
  <2>1. P[k] = P[k - 1] + s[k][fld]
    BY <1>1
  <2> QED
    BY <2>1 DEF T
<1>4. T = {}
  <2>1. Len(s) \in Nat /\ T \in SUBSET (0..Len(s))
    BY DEF T
  <2> QED
    BY <1>2, <1>3, <2>1, NoCounterexample
<1> QED
  BY <1>4, SumFPSum DEF T

-----------------------------------------------------------------------------
(***************************************************************************)
(* The invariant RInv.                                                     *)
(***************************************************************************)

(* The threads are 1..args.concurrency, at least one. *)
LEMMA WorkersRange == NWorkers \in Nat \ {0} /\ Workers = 1..NWorkers
BY StressAssumption DEF NWorkers

(* A function over 1..n is a list of length n. *)
LEMMA LenFcn ==
    ASSUME NEW n \in Nat, NEW f, DOMAIN f = 1..n
    PROVE  Len(f) = n
OBVIOUS

(* Live and Held list every thread, with natural counts, in any state of   *)
(* the right types.                                                        *)
LEMMA LiveHeldTypes ==
    ASSUME res \in [Workers -> Result], pc \in [Workers -> PCs],
           req_id \in [Workers -> Nat]
    PROVE  /\ Len(Live) = NWorkers /\ Len(Held) = NWorkers
           /\ \A i \in 1..NWorkers : /\ Live[i]["requests"] \in Nat
                                     /\ Held[i]["c"] \in Nat
<1>1. NWorkers \in Nat /\ Workers = 1..NWorkers
  BY WorkersRange
<1>2. Len(Live) = NWorkers /\ Len(Held) = NWorkers
  BY <1>1, LenFcn DEF Live, Held
<1>3. \A i \in 1..NWorkers : Live[i]["requests"] \in Nat
  BY <1>1 DEF Live, Result, NoResult
<1> QED
  BY <1>2, <1>3, <1>1 DEF Held

(* The initial state: nothing issued, sent, running or published. *)
LEMMA InitRInv == Init => RInv
<1> SUFFICES ASSUME Init PROVE RInv
  OBVIOUS
<1>1. NWorkers \in Nat /\ Workers = 1..NWorkers
  BY WorkersRange
<1>2. res \in [Workers -> Result] /\ pc \in [Workers -> PCs]
      /\ req_id \in [Workers -> Nat]
  BY DEF Init, NoResult, Result, PCs
<1>3. SumF(Live, "requests") = 0
  <2>1. \A i \in 1..Len(Live) : Live[i]["requests"] = 0
    BY <1>1, <1>2, LiveHeldTypes DEF Init, Live, NoResult
  <2> QED
    BY <1>2, <2>1, LiveHeldTypes, SumFZero
<1>4. SumF(Held, "c") = 0
  <2>1. \A i \in 1..Len(Held) : Held[i]["c"] = 0
    BY <1>1, <1>2, LiveHeldTypes DEF Init, Held
  <2> QED
    BY <1>2, <2>1, LiveHeldTypes, SumFZero
<1>5. SumF(results, "ok") = 0 /\ SumF(results, "requests") = 0
  BY SumFEmpty DEF Init
<1>6. IssuedBelow = 0 /\ Len(sent) = 0
  BY StressAssumption DEF Init, IssuedBelow
<1>7. IInv
  BY InitIInv
<1> QED
  BY <1>1, <1>2, <1>3, <1>4, <1>5, <1>6, <1>7
  DEF Init, RInv, ResultInv, CountInv, PastInv, JoinInv, NoResult

(* A step that leaves the results, the history and the counter alone, and *)
(* moves threads only between places where nothing of theirs is counted,  *)
(* keeps the counts: a start, an acquire of next_lock, a join, the report. *)
LEMMA CountFrame ==
    ASSUME RInv,
           res' = res, results' = results, sent' = sent,
           next_request_id' = next_request_id,
           pc' \in [Workers -> PCs], req_id' \in [Workers -> Nat],
           \A v \in Workers : \/ pc'[v] = pc[v] /\ req_id'[v] = req_id[v]
                              \/ pc[v] \notin Counted /\ pc'[v] \notin Counted
    PROVE  ResultInv' /\ CountInv' /\ PastInv'
<1>1. Workers = 1..NWorkers
  BY WorkersRange
<1>2. Live' = Live
  BY <1>1 DEF Live, Counted
<1>3. Held' = Held
  BY <1>1 DEF Held, Counted
<1>4. ResultInv'
  BY DEF RInv, ResultInv
<1>5. CountInv'
  BY <1>2, <1>3 DEF RInv, CountInv, IssuedBelow
<1>6. PastInv'
  BY DEF RInv, PastInv, Counted
<1> QED
  BY <1>4, <1>5, <1>6

(* A step that leaves main alone, finishes no thread's run backwards, and *)
(* changes results only before the report, keeps main's joins.            *)
LEMMA JoinFrame ==
    ASSUME RInv, joined' = joined, report' = report, reported' = reported,
           results' = results \/ ~reported,
           \A w \in Workers : pc[w] = "done" => pc'[w] = "done"
    PROVE  JoinInv'
<1>1. Workers = 1..NWorkers /\ NWorkers \in Nat
  BY WorkersRange
<1> QED
  BY <1>1 DEF RInv, JoinInv

(* main's steps and the stutter keep RInv; the report takes the sums over  *)
(* results.                                                                 *)
LEMMA MainRInv ==
    ASSUME RInv, Start \/ Join \/ Report \/ Exit \/ UNCHANGED vars
    PROVE  RInv'
<1>1. IInv'
  BY MainKeeps DEF RInv
<1>2. pc' \in [Workers -> PCs] /\ req_id' \in [Workers -> Nat]
  BY <1>1 DEF IInv, TypeI
<1>3. Workers = 1..NWorkers /\ NWorkers \in Nat
  BY WorkersRange
<1>4. CASE Start
  <2>1. started + 1 \in Workers /\ pc[started + 1] = "idle"
    BY <1>3, <1>4 DEF Start, RInv, IInv, TypeI, StartInv, NWorkers
  <2>2. \A v \in Workers : \/ pc'[v] = pc[v] /\ req_id'[v] = req_id[v]
                           \/ pc[v] \notin Counted /\ pc'[v] \notin Counted
    BY <1>4, <2>1 DEF Start, Counted, RInv, IInv, TypeI
  <2>3. ResultInv' /\ CountInv' /\ PastInv'
    BY <1>2, <1>4, <2>2, CountFrame DEF Start
  <2>4. JoinInv'
    BY <1>4, <2>2, JoinFrame DEF Start, Counted
  <2> QED
    BY <1>1, <2>3, <2>4 DEF RInv
<1>5. CASE Join
  <2>1. ResultInv' /\ CountInv' /\ PastInv'
    BY <1>2, <1>5, CountFrame DEF Join
  <2>2. ~reported
    BY <1>5 DEF Join, RInv, JoinInv, NWorkers
  <2>3. JoinInv'
    BY <1>3, <1>5, <2>2 DEF Join, RInv, JoinInv, NWorkers
  <2> QED
    BY <1>1, <2>1, <2>3 DEF RInv
<1>6. CASE Report
  <2>1. ResultInv' /\ CountInv' /\ PastInv'
    BY <1>2, <1>6, CountFrame DEF Report
  <2>2. /\ report'.requests = SumF(results, "requests")
        /\ report'.ok = SumF(results, "ok")
    BY <1>6 DEF Report, Aggregate, SumF
  <2>3. JoinInv'
    BY <1>6, <2>2 DEF Report, RInv, JoinInv, NWorkers
  <2> QED
    BY <1>1, <2>1, <2>3 DEF RInv
<1>7. CASE Exit \/ UNCHANGED vars
  <2>1. UNCHANGED vars
    BY <1>7 DEF Exit
  <2>2. ResultInv' /\ CountInv' /\ PastInv'
    BY <1>2, <2>1, CountFrame DEF vars
  <2>3. JoinInv'
    BY <2>1, JoinFrame DEF vars
  <2> QED
    BY <1>1, <2>2, <2>3 DEF RInv
<1> QED
  BY <1>4, <1>5, <1>6, <1>7

(* "with next_lock: req_id = next_request_id[0]" counts nothing new. *)
LEMMA AcquireRInv ==
    ASSUME RInv, NEW w \in Workers, Acquire(w)
    PROVE  RInv'
<1>1. IInv'
  BY AcquireKeeps DEF RInv
<1>2. pc' \in [Workers -> PCs] /\ req_id' \in [Workers -> Nat]
  BY <1>1 DEF IInv, TypeI
<1>3. \A v \in Workers : \/ pc'[v] = pc[v] /\ req_id'[v] = req_id[v]
                         \/ pc[v] \notin Counted /\ pc'[v] \notin Counted
  BY DEF Acquire, Counted, RInv, IInv, TypeI
<1>4. ResultInv' /\ CountInv' /\ PastInv'
  BY <1>2, <1>3, CountFrame DEF Acquire
<1>5. JoinInv'
  BY <1>3, JoinFrame DEF Acquire, Counted
<1> QED
  BY <1>1, <1>4, <1>5 DEF RInv

(* The bound check moves an id below max_requests on to its send, and one *)
(* at or past it out of the loop: the count of held ids stays.             *)
LEMMA BoundRInv ==
    ASSUME RInv, NEW w \in Workers, Bound(w)
    PROVE  RInv'
<1>1. IInv'
  BY BoundKeeps DEF RInv
<1>2. Workers = 1..NWorkers
  BY WorkersRange
<1>3. /\ pc' = [pc EXCEPT ![w] = IF req_id[w] >= MaxRequests THEN "publish"
                                                             ELSE "send"]
      /\ pc[w] = "bound"
      /\ UNCHANGED <<next_request_id, req_id, res, results, sent, joined,
                     report, reported>>
  BY DEF Bound
<1>4. req_id[w] \in Nat /\ MaxRequests \in Nat /\ pc \in [Workers -> PCs]
  BY StressAssumption DEF RInv, IInv, TypeI
<1>5. Live' = Live
  BY <1>2, <1>3, <1>4 DEF Live
<1>6. Held' = Held
  BY <1>2, <1>3, <1>4 DEF Held
<1>7. ResultInv' /\ CountInv'
  BY <1>3, <1>5, <1>6 DEF RInv, ResultInv, CountInv, IssuedBelow
<1>8. PastInv'
  <2>1. req_id[w] < next_request_id
    BY <1>3 DEF RInv, IInv, FlightInv, Active
  <2> QED
    BY <1>3, <1>4, <2>1 DEF RInv, PastInv
<1>9. JoinInv'
  BY <1>3, <1>4, JoinFrame
<1> QED
  BY <1>1, <1>7, <1>8, <1>9 DEF RInv

(* "next_request_id[0] += 1": an id below max_requests taken is now held by *)
(* the thread until its send.                                               *)
LEMMA IncrementRInv ==
    ASSUME RInv, NEW w \in Workers, Increment(w)
    PROVE  RInv'
<1>1. IInv'
  BY IncrementKeeps DEF RInv
<1>2. Workers = 1..NWorkers /\ NWorkers \in Nat
  BY WorkersRange
<1>3. /\ pc' = [pc EXCEPT ![w] = "bound"]
      /\ pc[w] = "locked"
      /\ next_request_id' = next_request_id + 1
      /\ UNCHANGED <<req_id, res, results, sent, joined, report, reported>>
  BY DEF Increment
<1>4. /\ req_id[w] = next_request_id
      /\ next_request_id \in Nat /\ MaxRequests \in Nat
      /\ pc \in [Workers -> PCs] /\ req_id \in [Workers -> Nat]
      /\ res \in [Workers -> Result]
  BY StressAssumption DEF Increment, RInv, IInv, TypeI, LockInv, ResultInv
<1>5. Live' = Live
  BY <1>2, <1>3, <1>4 DEF Live
<1>6. /\ \A v \in 1..NWorkers : v # w => Held'[v]["c"] = Held[v]["c"]
      /\ Held[w]["c"] = 0
      /\ Held'[w]["c"] = IF next_request_id < MaxRequests THEN 1 ELSE 0
  BY <1>2, <1>3, <1>4 DEF Held
<1>7. SumF(Held', "c") = SumF(Held, "c")
                         + (IF next_request_id < MaxRequests THEN 1 ELSE 0)
  <2>1. Len(Held) = NWorkers /\ Len(Held') = NWorkers
    BY <1>2 DEF Held
  <2>2. \A i \in 1..NWorkers : Held[i]["c"] \in Nat /\ Held'[i]["c"] \in Nat
    BY DEF Held
  <2>3. SumF(Held', "c") + Held[w]["c"] = SumF(Held, "c") + Held'[w]["c"]
    <3>1. /\ Len(Held) \in Nat /\ Len(Held') = Len(Held)
          /\ w \in 1..Len(Held)
          /\ \A i \in 1..Len(Held) : Held[i]["c"] \in Nat /\ Held'[i]["c"] \in Nat
          /\ \A i \in 1..Len(Held) : i # w => Held'[i]["c"] = Held[i]["c"]
      BY <1>2, <1>6, <2>1, <2>2
    <3> QED
      BY <3>1, SumFUpdate, SMTT(30)
  <2>4. SumF(Held, "c") \in Nat /\ SumF(Held', "c") \in Nat
    BY <2>1, <2>2, <1>2, SumFNat
  <2> QED
    BY <1>6, <2>3, <2>4
<1>8. IssuedBelow' = IssuedBelow
                     + (IF next_request_id < MaxRequests THEN 1 ELSE 0)
  BY <1>3, <1>4 DEF IssuedBelow
<1>9. ResultInv' /\ CountInv'
  <2>1. ResultInv'
    BY <1>3 DEF RInv, ResultInv
  <2>2. SumF(Held, "c") \in Nat
    BY <1>2, SumFNat DEF Held
  <2>3. CountInv'
    BY <1>3, <1>5, <1>7, <1>8, <2>2 DEF RInv, CountInv
  <2> QED
    BY <2>1, <2>3
<1>10. PastInv'
  BY <1>3, <1>4 DEF RInv, PastInv
<1>11. JoinInv'
  BY <1>3, <1>4, JoinFrame
<1> QED
  BY <1>1, <1>9, <1>10, <1>11 DEF RInv

(* A WorkerResult with its counts replaced by naturals is a WorkerResult. *)
LEMMA ResultExcept ==
    ASSUME NEW r \in Result, NEW a \in Nat, NEW b \in Nat, NEW c \in Nat,
           NEW d \in [Targets -> Nat]
    PROVE  [r EXCEPT !.requests = a, !.ok = b, !.samples = c, !.by_target = d]
           \in Result
BY DEF Result

(* The outcome recorded in the thread's WorkerResult: one request more,   *)
(* and at most one ok more.                                                 *)
LEMMA RecordResult ==
    ASSUME NEW r \in Result, NEW t, NEW o, r.ok <= r.requests
    PROVE  /\ Record(r, t, o) \in Result
           /\ Record(r, t, o).requests = r.requests + 1
           /\ Record(r, t, o).ok <= Record(r, t, o).requests
<1>1. /\ r.requests + 1 \in Nat
      /\ (IF o = "ok" THEN r.ok + 1 ELSE r.ok) \in Nat
      /\ (IF o # "ok" /\ r.samples < MaxErrorSamples
          THEN r.samples + 1 ELSE r.samples) \in Nat
      /\ [u \in Targets |-> r.by_target[u] + (IF o # "exc" /\ u = t THEN 1 ELSE 0)]
         \in [Targets -> Nat]
  BY DEF Result
<1>2. Record(r, t, o) \in Result
  BY <1>1, ResultExcept DEF Record
<1>3. r = [requests |-> r.requests, ok |-> r.ok, samples |-> r.samples,
           by_target |-> r.by_target]
  BY DEF Result
<1>4. /\ Record(r, t, o).requests = r.requests + 1
      /\ Record(r, t, o).ok = IF o = "ok" THEN r.ok + 1 ELSE r.ok
  BY <1>3 DEF Record
<1> QED
  BY <1>2, <1>4 DEF Result

(* The records of results have natural counts. *)
LEMMA ResultsNat ==
    ASSUME NEW s \in Seq(Result)
    PROVE  /\ Len(s) \in Nat
           /\ \A i \in 1..Len(s) : s[i]["requests"] \in Nat /\ s[i]["ok"] \in Nat
<1>1. \A i \in 1..Len(s) : s[i] \in Result
  BY ElementOfSeq
<1> QED
  BY <1>1 DEF Result

(* The sums of the invariant are naturals. *)
LEMMA SumsNat ==
    ASSUME RInv
    PROVE  /\ SumF(results, "requests") \in Nat /\ SumF(results, "ok") \in Nat
           /\ SumF(Live, "requests") \in Nat /\ SumF(Held, "c") \in Nat
<1>1. res \in [Workers -> Result] /\ pc \in [Workers -> PCs]
      /\ req_id \in [Workers -> Nat] /\ results \in Seq(Result)
  BY DEF RInv, IInv, TypeI, ResultInv
<1>2. SumF(results, "requests") \in Nat /\ SumF(results, "ok") \in Nat
  BY <1>1, ResultsNat, SumFNat
<1>3. SumF(Live, "requests") \in Nat /\ SumF(Held, "c") \in Nat
  BY <1>1, LiveHeldTypes, SumFNat, WorkersRange
<1> QED
  BY <1>2, <1>3

(* A request sent moves its id from the thread's hold into the history    *)
(* and into the thread's WorkerResult.                                     *)
LEMMA SendRInv ==
    ASSUME RInv, NEW w \in Workers, Send(w)
    PROVE  RInv'
<1>1. IInv'
  BY SendKeeps DEF RInv
<1>2. Workers = 1..NWorkers /\ NWorkers \in Nat
  BY WorkersRange
<1>3. PICK h \in 0..2 * TotalWeight, o \in Outcomes :
         /\ res' = [res EXCEPT ![w] = Record(@, PickTarget(h), o)]
         /\ sent' = Append(sent, [id |-> req_id[w], h |-> h,
                                  t |-> PickTarget(h)])
  BY DEF Send
<1>4. /\ pc' = [pc EXCEPT ![w] = "loop"]
      /\ pc[w] = "send"
      /\ UNCHANGED <<next_request_id, req_id, results, joined, report,
                     reported>>
  BY DEF Send
<1>5. /\ req_id[w] < MaxRequests
      /\ pc \in [Workers -> PCs] /\ req_id \in [Workers -> Nat]
      /\ res \in [Workers -> Result] /\ res[w].ok <= res[w].requests
      /\ sent \in Seq(SentI)
  BY <1>4 DEF RInv, IInv, TypeI, FlightInv, ResultInv
<1>6. /\ res'[w] \in Result
      /\ res'[w].requests = res[w].requests + 1
      /\ res'[w].ok <= res'[w].requests
  BY <1>3, <1>5, RecordResult
<1>7. ResultInv'
  <2>1. res' \in [Workers -> Result]
    BY <1>3, <1>5, <1>6
  <2>2. \A v \in Workers : res'[v].ok <= res'[v].requests
    BY <1>3, <1>5, <1>6 DEF RInv, ResultInv
  <2> QED
    BY <1>4, <2>1, <2>2 DEF RInv, ResultInv
<1>8. /\ SumF(Live', "requests") = SumF(Live, "requests") + 1
      /\ SumF(Live', "requests") \in Nat
  <2>1. /\ \A v \in 1..NWorkers : v # w => Live'[v]["requests"] = Live[v]["requests"]
        /\ Live[w]["requests"] = res[w].requests
        /\ Live'[w]["requests"] = res[w].requests + 1
    BY <1>2, <1>3, <1>4, <1>5, <1>6 DEF Live
  <2>2. /\ Len(Live) \in Nat /\ Len(Live') = Len(Live)
        /\ w \in 1..Len(Live)
        /\ \A i \in 1..Len(Live) : Live[i]["requests"] \in Nat
                                   /\ Live'[i]["requests"] \in Nat
        /\ \A i \in 1..Len(Live) : i # w =>
              Live'[i]["requests"] = Live[i]["requests"]
    <3>1. Len(Live) = NWorkers /\ Len(Live') = NWorkers
      BY <1>2, LenFcn DEF Live
    <3>2. \A i \in 1..NWorkers : Live[i]["requests"] \in Nat
      BY <1>2, <1>5 DEF Live, NoResult, Result
    <3>3. \A i \in 1..NWorkers : Live'[i]["requests"] \in Nat
      BY <1>2, <1>7 DEF Live, NoResult, Result, ResultInv
    <3> QED
      BY <1>2, <2>1, <3>1, <3>2, <3>3
  <2>3. SumF(Live', "requests") + Live[w]["requests"]
        = SumF(Live, "requests") + Live'[w]["requests"]
    BY <2>2, SumFUpdate, SMTT(30)
  <2>4. /\ res[w].requests \in Nat
        /\ SumF(Live, "requests") \in Nat /\ SumF(Live', "requests") \in Nat
    BY <1>5, <2>2, SumFNat DEF Result
  <2> QED
    BY <2>1, <2>3, <2>4
<1>9. SumF(Held', "c") + 1 = SumF(Held, "c") /\ SumF(Held', "c") \in Nat
  <2>1. /\ \A v \in 1..NWorkers : v # w => Held'[v]["c"] = Held[v]["c"]
        /\ Held[w]["c"] = 1
        /\ Held'[w]["c"] = 0
    BY <1>2, <1>4, <1>5 DEF Held
  <2>2. /\ Len(Held) \in Nat /\ Len(Held') = Len(Held)
        /\ w \in 1..Len(Held)
        /\ \A i \in 1..Len(Held) : Held[i]["c"] \in Nat /\ Held'[i]["c"] \in Nat
        /\ \A i \in 1..Len(Held) : i # w => Held'[i]["c"] = Held[i]["c"]
    BY <1>2, <2>1 DEF Held
  <2>3. SumF(Held', "c") + Held[w]["c"] = SumF(Held, "c") + Held'[w]["c"]
    BY <2>2, SumFUpdate, SMTT(30)
  <2>4. SumF(Held, "c") \in Nat /\ SumF(Held', "c") \in Nat
    BY <2>2, SumFNat
  <2> QED
    BY <2>1, <2>3, <2>4
<1>10. CountInv'
  <2>1. Len(sent') = Len(sent) + 1
    BY <1>3, <1>5
  <2>2. /\ SumF(Live, "requests") \in Nat /\ SumF(Held, "c") \in Nat
        /\ SumF(results, "requests") \in Nat
    BY SumsNat
  <2>3. /\ SumF(results', "requests") = SumF(results, "requests")
        /\ IssuedBelow' = IssuedBelow
    BY <1>4 DEF IssuedBelow
  <2>4. CountInv
    BY DEF RInv
  <2>5. Len(sent) \in Nat
    BY <1>5
  <2>6. SumF(results', "requests") + SumF(Live', "requests") = Len(sent')
    BY <1>8, <2>1, <2>2, <2>3, <2>4, <2>5 DEF CountInv
  <2>7. Len(sent') + SumF(Held', "c") = IssuedBelow'
    BY <1>9, <2>1, <2>2, <2>3, <2>4, <2>5 DEF CountInv
  <2> QED
    BY <2>6, <2>7 DEF CountInv
<1>11. PastInv'
  BY <1>4, <1>5 DEF RInv, PastInv
<1>12. JoinInv'
  BY <1>4, <1>5, JoinFrame
<1> QED
  BY <1>1, <1>7, <1>10, <1>11, <1>12 DEF RInv

(* "results.append(res)" moves the thread's counts from its WorkerResult   *)
(* into results; no report has been written while a thread still runs.    *)
LEMMA PublishRInv ==
    ASSUME RInv, NEW w \in Workers, Publish(w)
    PROVE  RInv'
<1>1. IInv'
  BY PublishKeeps DEF RInv
<1>2. Workers = 1..NWorkers /\ NWorkers \in Nat
  BY WorkersRange
<1>3. /\ results' = Append(results, res[w])
      /\ pc' = [pc EXCEPT ![w] = "done"]
      /\ pc[w] = "publish"
      /\ UNCHANGED <<next_request_id, req_id, res, sent, joined, report,
                     reported>>
  BY DEF Publish
<1>4. /\ pc \in [Workers -> PCs] /\ req_id \in [Workers -> Nat]
      /\ res \in [Workers -> Result] /\ res[w].ok <= res[w].requests
      /\ results \in Seq(Result)
  BY DEF RInv, IInv, TypeI, ResultInv
<1>5. ~reported
  BY <1>2, <1>3 DEF RInv, JoinInv
<1>6. /\ SumF(results', "ok") = SumF(results, "ok") + res[w].ok
      /\ SumF(results', "requests") = SumF(results, "requests") + res[w].requests
  BY <1>3, <1>4, SumFAppend
<1>7. /\ SumF(results, "ok") \in Nat /\ SumF(results, "requests") \in Nat
      /\ SumF(Live, "requests") \in Nat
      /\ res[w].ok \in Nat /\ res[w].requests \in Nat
  BY <1>4, SumsNat DEF Result
<1>8. ResultInv'
  <2>1. results' \in Seq(Result)
    BY <1>3, <1>4
  <2>2. SumF(results', "ok") <= SumF(results', "requests")
    BY <1>4, <1>6, <1>7 DEF RInv, ResultInv
  <2> QED
    BY <1>3, <2>1, <2>2 DEF RInv, ResultInv
<1>9. /\ SumF(Live', "requests") + res[w].requests = SumF(Live, "requests")
      /\ SumF(Live', "requests") \in Nat
  <2>1. /\ \A v \in 1..NWorkers : v # w => Live'[v]["requests"] = Live[v]["requests"]
        /\ Live[w]["requests"] = res[w].requests
        /\ Live'[w]["requests"] = 0
    BY <1>2, <1>3, <1>4 DEF Live, NoResult
  <2>2. /\ Len(Live) \in Nat /\ Len(Live') = Len(Live)
        /\ w \in 1..Len(Live)
        /\ \A i \in 1..Len(Live) : Live[i]["requests"] \in Nat
                                   /\ Live'[i]["requests"] \in Nat
        /\ \A i \in 1..Len(Live) : i # w =>
              Live'[i]["requests"] = Live[i]["requests"]
    <3>1. Len(Live) = NWorkers /\ Len(Live') = NWorkers
      BY <1>2, LenFcn DEF Live
    <3>2. \A i \in 1..NWorkers : Live[i]["requests"] \in Nat
                                 /\ Live'[i]["requests"] \in Nat
      BY <1>2, <1>3, <1>4 DEF Live, NoResult, Result
    <3> QED
      BY <1>2, <2>1, <3>1, <3>2
  <2>3. SumF(Live', "requests") + Live[w]["requests"]
        = SumF(Live, "requests") + Live'[w]["requests"]
    BY <2>2, SumFUpdate, SMTT(30)
  <2>4. SumF(Live', "requests") \in Nat
    BY <2>2, SumFNat
  <2> QED
    BY <1>7, <2>1, <2>3, <2>4
<1>10. Held' = Held
  BY <1>2, <1>3, <1>4 DEF Held
<1>11. CountInv'
  <2>1. SumF(results', "requests") + SumF(Live', "requests") = Len(sent')
    BY <1>3, <1>6, <1>7, <1>9 DEF RInv, CountInv
  <2>2. Len(sent') + SumF(Held', "c") = IssuedBelow'
    BY <1>3, <1>10 DEF RInv, CountInv, IssuedBelow
  <2> QED
    BY <2>1, <2>2 DEF CountInv
<1>12. PastInv'
  BY <1>3, <1>4 DEF RInv, PastInv
<1>13. JoinInv'
  BY <1>3, <1>4, <1>5, JoinFrame
<1> QED
  BY <1>1, <1>8, <1>11, <1>12, <1>13 DEF RInv

(* Every step of the program keeps RInv. *)
LEMMA NextRInv == RInv /\ [Next]_vars => RInv'
<1> SUFFICES ASSUME RInv, [Next]_vars PROVE RInv'
  OBVIOUS
<1>1. CASE Start \/ Join \/ Report \/ Exit \/ UNCHANGED vars
  BY <1>1, MainRInv
<1>2. ASSUME NEW w \in Workers, Worker(w) PROVE RInv'
  <2>1. CASE Acquire(w)
    BY <2>1, AcquireRInv
  <2>2. CASE Increment(w)
    BY <2>2, IncrementRInv
  <2>3. CASE Bound(w)
    BY <2>3, BoundRInv
  <2>4. CASE Send(w)
    BY <2>4, SendRInv
  <2>5. CASE Publish(w)
    BY <2>5, PublishRInv
  <2> QED
    BY <1>2, <2>1, <2>2, <2>3, <2>4, <2>5 DEF Worker
<1> QED
  BY <1>1, <1>2 DEF Next

(* Once main has joined every thread, nothing is held or running: the sum *)
(* over results is every id below max_requests.                            *)
LEMMA RInvReport == RInv => ReportCountsAll
<1> SUFFICES ASSUME RInv, reported
             PROVE  /\ report.requests = MaxRequests
                    /\ report.ok <= report.requests
  BY DEF ReportCountsAll
<1>1. Workers = 1..NWorkers /\ NWorkers \in Nat \ {0}
  BY WorkersRange
<1>2. /\ joined = NWorkers
      /\ \A v \in Workers : pc[v] = "done"
      /\ report.requests = SumF(results, "requests")
      /\ report.ok = SumF(results, "ok")
  BY <1>1 DEF RInv, JoinInv
<1>3. /\ res \in [Workers -> Result] /\ pc \in [Workers -> PCs]
      /\ req_id \in [Workers -> Nat] /\ next_request_id \in Nat
  BY DEF RInv, IInv, TypeI, ResultInv
<1>4. SumF(Live, "requests") = 0
  <2>1. Len(Live) \in Nat /\ \A i \in 1..Len(Live) : Live[i]["requests"] = 0
    BY <1>1, <1>2, <1>3, LiveHeldTypes DEF Live, NoResult
  <2> QED
    BY <2>1, SumFZero
<1>5. SumF(Held, "c") = 0
  <2>1. Len(Held) \in Nat /\ \A i \in 1..Len(Held) : Held[i]["c"] = 0
    BY <1>1, <1>2, <1>3, LiveHeldTypes DEF Held
  <2> QED
    BY <2>1, SumFZero
<1>6. IssuedBelow = MaxRequests
  <2>1. MaxRequests <= req_id[1] /\ req_id[1] < next_request_id
    BY <1>1, <1>2 DEF RInv, PastInv
  <2> QED
    BY <1>3, <2>1, StressAssumption DEF IssuedBelow
<1>7. report.requests = MaxRequests
  BY <1>2, <1>4, <1>5, <1>6, SumsNat DEF RInv, CountInv
<1>8. report.ok <= report.requests
  BY <1>2 DEF RInv, ResultInv
<1> QED
  BY <1>7, <1>8

(* The report main writes after joining all threads counts exactly        *)
(* max_requests requests, and no more ok ones than requests, for every    *)
(* number of threads, every bound and every list of weights.              *)
THEOREM ReportCorrect == Spec => []ReportCountsAll
<1>1. Init => RInv
  BY InitRInv
<1>2. RInv /\ [Next]_vars => RInv'
  BY NextRInv
<1>3. RInv => ReportCountsAll
  BY RInvReport
<1> QED
  BY <1>1, <1>2, <1>3, PTL DEF Spec

=============================================================================
