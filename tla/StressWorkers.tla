--------------------------- MODULE StressWorkers ---------------------------
(***************************************************************************)
(* The worker pool of the load generator (scripts/stress_test.py) in its  *)
(* --requests mode: main() starts args.concurrency threads, each runs      *)
(* run_worker(), which takes request ids from the shared counter           *)
(* next_request_id under next_lock until an id reaches max_requests, picks *)
(* a target by weight, issues one HTTP call and records its outcome in its *)
(* own WorkerResult.  Each thread appends its result under results_lock;  *)
(* main joins the threads and sums the results into the report.            *)
(*                                                                         *)
(* The HTTP call is abstracted to its outcome: a status inside             *)
(* [ok_min, ok_max] ("ok"), outside it ("bad"), or an exception ("exc").   *)
(* uniform(0, total_weight) is abstracted to the half-integer points       *)
(* h / 2 for h in 0..2*total_weight: bisect_right gives the same index for *)
(* every real of an open interval (k, k+1) as for k + 1/2.                 *)
(***************************************************************************)
EXTENDS Naturals, Sequences, FiniteSets

CONSTANTS
    Workers,          \* the thread ids 1..args.concurrency
    MaxRequests,      \* args.requests
    Weight,           \* Weight[t]: weight of target t, targets 1..Len(Weight)
    MaxErrorSamples   \* args.max_error_samples

ASSUME StressAssumption ==
    /\ Cardinality(Workers) \in Nat /\ Workers = 1..Cardinality(Workers)
    /\ Workers # {}
    /\ MaxRequests \in Nat \ {0}
    /\ Weight \in Seq(Nat \ {0}) /\ Weight # <<>>
    /\ MaxErrorSamples \in Nat

Targets  == 1..Len(Weight)
Outcomes == {"ok", "bad", "exc"}

\* cum_weights: the running sums of the weights, cum[0] = 0.
Cum[i \in 0..Len(Weight)] == IF i = 0 THEN 0 ELSE Cum[i - 1] + Weight[i]
TotalWeight == Cum[Len(Weight)]

\* bisect_right(cum_weights, h / 2) and the clamp of idx into the targets;
\* the result is the 1-based target.
BisectRight(h) == Cardinality({i \in Targets : 2 * Cum[i] <= h})
\* Mutant: the clamp of idx dropped.
PickTargetNoClamp(h) == BisectRight(h) + 1
PickTarget(h) ==
    IF BisectRight(h) >= Len(Weight) THEN Len(Weight) ELSE BisectRight(h) + 1

\* A WorkerResult: request, ok and sample counts, requests per target.
Result == [requests : Nat, ok : Nat, samples : Nat, by_target : [Targets -> Nat]]
NoResult == [requests |-> 0, ok |-> 0, samples |-> 0,
             by_target |-> [t \in Targets |-> 0]]

\* A request issued: its id, the point h / 2 drawn and the target picked.
Issued == [id : Nat, h : Nat, t : Nat]

PCs == {"idle", "loop", "locked", "bound", "send", "publish", "done"}

VARIABLES
    next_request_id,  \* next_request_id[0]
    holder,           \* the thread holding next_lock, 0 if none
    pc,               \* pc[w]: where thread w is in _thread_main/run_worker
    req_id,           \* req_id[w]: the id thread w took last
    res,              \* res[w]: thread w's local WorkerResult
    results,          \* the shared list results
    started,          \* threads started by main
    joined,           \* threads joined by main
    report,           \* the aggregated report, NoResult until written
    reported,         \* whether main has written the report
    sent              \* history: the requests issued, in order: id, draw
                      \* point h and target t

vars == <<next_request_id, holder, pc, req_id, res, results, started,
          joined, report, reported, sent>>

TypeOK ==
    /\ next_request_id \in Nat
    /\ holder \in {0} \cup Workers
    /\ pc \in [Workers -> PCs]
    /\ req_id \in [Workers -> Nat]
    /\ res \in [Workers -> Result]
    /\ results \in Seq(Result)
    /\ started \in 0..Cardinality(Workers)
    /\ joined \in 0..Cardinality(Workers)
    /\ report \in Result
    /\ reported \in BOOLEAN
    /\ sent \in Seq(Issued)

Init ==
    /\ next_request_id = 0
    /\ holder = 0
    /\ pc = [w \in Workers |-> "idle"]
    /\ req_id = [w \in Workers |-> 0]
    /\ res = [w \in Workers |-> NoResult]
    /\ results = <<>>
    /\ started = 0
    /\ joined = 0
    /\ report = NoResult
    /\ reported = FALSE
    /\ sent = <<>>

\* Mutant: one thread more than args.concurrency started.
StartOffByOne ==
    /\ started' = started + 1
    /\ pc' = [pc EXCEPT ![started + 1] = "loop"]
    /\ UNCHANGED <<next_request_id, holder, req_id, res, results, joined,
                   report, reported, sent>>

(* main: "for t in workers: t.start()", in order. *)
Start ==
    /\ started < Cardinality(Workers)
    /\ started' = started + 1
    /\ pc' = [pc EXCEPT ![started + 1] = "loop"]
    /\ UNCHANGED <<next_request_id, holder, req_id, res, results, joined,
                   report, reported, sent>>

\* Mutant: the counter read without next_lock.
AcquireNoLock(w) ==
    /\ pc[w] = "loop"
    /\ req_id' = [req_id EXCEPT ![w] = next_request_id]
    /\ pc' = [pc EXCEPT ![w] = "locked"]
    /\ UNCHANGED <<next_request_id, holder, res, results, started, joined,
                   report, reported, sent>>

(* run_worker: "with next_lock: req_id = next_request_id[0]", entering   *)
(* the critical section.                                                   *)
Acquire(w) ==
    /\ pc[w] = "loop"
    /\ holder = 0
    /\ holder' = w
    /\ req_id' = [req_id EXCEPT ![w] = next_request_id]
    /\ pc' = [pc EXCEPT ![w] = "locked"]
    /\ UNCHANGED <<next_request_id, res, results, started, joined, report,
                   reported, sent>>

\* Mutant: next_lock acquired and never released.
IncrementNoRelease(w) ==
    /\ pc[w] = "locked"
    /\ next_request_id' = next_request_id + 1
    /\ pc' = [pc EXCEPT ![w] = "bound"]
    /\ UNCHANGED <<holder, req_id, res, results, started, joined, report,
                   reported, sent>>

(* "next_request_id[0] += 1" and the release of next_lock. *)
Increment(w) ==
    /\ pc[w] = "locked"
    /\ next_request_id' = next_request_id + 1
    /\ holder' = 0
    /\ pc' = [pc EXCEPT ![w] = "bound"]
    /\ UNCHANGED <<req_id, res, results, started, joined, report, reported,
                   sent>>

\* Mutant: "req_id > max_requests".
BoundGreater(w) ==
    /\ pc[w] = "bound"
    /\ pc' = [pc EXCEPT ![w] = IF req_id[w] > MaxRequests THEN "publish"
                                                           ELSE "send"]
    /\ UNCHANGED <<next_request_id, holder, req_id, res, results, started,
                   joined, report, reported, sent>>

(* "if max_requests is not None and req_id >= max_requests: break" *)
Bound(w) ==
    /\ pc[w] = "bound"
    /\ pc' = [pc EXCEPT ![w] = IF req_id[w] >= MaxRequests THEN "publish"
                                                            ELSE "send"]
    /\ UNCHANGED <<next_request_id, holder, req_id, res, results, started,
                   joined, report, reported, sent>>

\* The worker's result after one request to target t with outcome o: the
\* try branch counts it per target, the except branch only in the totals.
Record(r, t, o) ==
    [r EXCEPT !.requests = @ + 1,
              !.ok = IF o = "ok" THEN @ + 1 ELSE @,
              !.samples = IF o # "ok" /\ @ < MaxErrorSamples THEN @ + 1 ELSE @,
              !.by_target = [u \in Targets |->
                               @[u] + (IF o # "exc" /\ u = t THEN 1 ELSE 0)]]

(* Pick a target, issue the request and record its outcome. *)
Send(w) ==
    /\ pc[w] = "send"
    /\ \E h \in 0..2 * TotalWeight, o \in Outcomes :
          /\ res' = [res EXCEPT ![w] = Record(@, PickTarget(h), o)]
          /\ sent' = Append(sent, [id |-> req_id[w], h |-> h,
                                   t |-> PickTarget(h)])
    /\ pc' = [pc EXCEPT ![w] = "loop"]
    /\ UNCHANGED <<next_request_id, holder, req_id, results, started, joined,
                   report, reported>>

(* run_worker returns; _thread_main: "with results_lock:                  *)
(* results.append(res)", and the thread ends.                              *)
Publish(w) ==
    /\ pc[w] = "publish"
    /\ results' = Append(results, res[w])
    /\ pc' = [pc EXCEPT ![w] = "done"]
    /\ UNCHANGED <<next_request_id, holder, req_id, res, started, joined,
                   report, reported, sent>>

(* main: "for t in workers: t.join()", in order, after all are started. *)
Join ==
    /\ started = Cardinality(Workers)
    /\ joined < Cardinality(Workers)
    /\ pc[joined + 1] = "done"
    /\ joined' = joined + 1
    /\ UNCHANGED <<next_request_id, holder, pc, req_id, res, results, started,
                   report, reported, sent>>

\* Sums of a field over the list results, and the aggregate by target.
SumOf(s, f(_)) ==
    LET S[i \in 0..Len(s)] == IF i = 0 THEN 0 ELSE S[i - 1] + f(s[i])
    IN  S[Len(s)]

Aggregate(s) ==
    [requests |-> SumOf(s, LAMBDA r : r.requests),
     ok       |-> SumOf(s, LAMBDA r : r.ok),
     samples  |-> LET n == SumOf(s, LAMBDA r : r.samples)
                  IN  IF n < MaxErrorSamples THEN n ELSE MaxErrorSamples,
     by_target |-> [t \in Targets |-> SumOf(s, LAMBDA r : r.by_target[t])]]

(* main: the sums of the report, once every thread is joined. *)
Report ==
    /\ joined = Cardinality(Workers)
    /\ ~reported
    /\ report' = Aggregate(results)
    /\ reported' = TRUE
    /\ UNCHANGED <<next_request_id, holder, pc, req_id, res, results, started,
                   joined, sent>>

\* main returns: the process stops.
Exit == reported /\ UNCHANGED vars

Worker(w) == Acquire(w) \/ Increment(w) \/ Bound(w) \/ Send(w) \/ Publish(w)

Next == Start \/ Join \/ Report \/ Exit \/ \E w \in Workers : Worker(w)

(* Every started thread runs (each HTTP call ends by its timeout), and     *)
(* main keeps going while it can.                                          *)
Fairness ==
    /\ WF_vars(Start) /\ WF_vars(Join) /\ WF_vars(Report)
    /\ \A w \in Workers : WF_vars(Worker(w))

Spec     == Init /\ [][Next]_vars
FairSpec == Spec /\ Fairness

-----------------------------------------------------------------------------
(* Properties                                                              *)

(* Every request run_worker issued went to a target, and to the one whose  *)
(* band [cum[t-1], cum[t]) holds the point uniform() drew, or to the last  *)
(* target for the end point total_weight that uniform may also yield: the  *)
(* weighted choice of bisect_right and the clamp.                          *)
PickMatchesWeights ==
    \A i \in DOMAIN sent :
        LET h == sent[i].h
            t == sent[i].t
        IN  /\ t \in Targets
            /\ 2 * Cum[t - 1] <= h
            /\ h < 2 * Cum[t] \/ (t = Len(Weight) /\ h = 2 * TotalWeight)

(* The ids taken from next_request_id under next_lock are handed out once  *)
(* each: no two requests carry the same id, and none reaches max_requests. *)
IdsIssuedOnce ==
    /\ \A i, j \in DOMAIN sent : i # j => sent[i].id # sent[j].id
    /\ \A i \in DOMAIN sent : sent[i].id < MaxRequests

(* The report main writes after joining every thread counts every id below *)
(* max_requests exactly once, whatever the interleaving of the workers.    *)
ReportCountsAll ==
    reported => /\ report.requests = MaxRequests
                /\ report.ok <= report.requests

(* The run ends with the report written: every worker leaves its loop and *)
(* main's joins return.                                                    *)
Terminates == <>reported

=============================================================================
