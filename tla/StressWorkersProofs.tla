------------------------ MODULE StressWorkersProofs ------------------------
(***************************************************************************)
(* Proof that the worker pool of stress_test.py hands out every request id *)
(* at most once, and none at or past max_requests (IdsIssuedOnce), for any *)
(* number of threads, any bound and any weights.                           *)
(*                                                                         *)
(* IdsIssuedOnce is not inductive: a worker between "with next_lock" and   *)
(* its send carries an id that is not yet in the history sent.  The        *)
(* invariant IInv adds what next_lock guarantees about those ids: the      *)
(* lock holder is the only thread in the critical section and holds the   *)
(* current counter value; the ids of the threads past the lock are below  *)
(* the counter, pairwise distinct and not yet sent.                        *)
(***************************************************************************)
EXTENDS StressWorkers, TLAPS

\* The draw points and the targets picked from them.
Points == 0..2 * TotalWeight
Picks  == {PickTarget(x) : x \in Points}
SentI  == [id : Nat, h : Points, t : Picks]

\* A thread past the lock with an id it has not yet sent or given up.
Active(w) == pc[w] \in {"bound", "send"}

TypeI ==
    /\ next_request_id \in Nat
    /\ holder \in {0} \cup Workers
    /\ pc \in [Workers -> PCs]
    /\ req_id \in [Workers -> Nat]
    /\ sent \in Seq(SentI)
    /\ started \in Nat

\* main starts the threads in order: a thread not yet started is idle.
StartInv == \A w \in Workers : w > started => pc[w] = "idle"

\* next_lock: its holder is the one thread inside, and reads the counter.
LockInv ==
    /\ \A w \in Workers : pc[w] = "locked" => holder = w
                                              /\ req_id[w] = next_request_id
    /\ holder # 0 => pc[holder] = "locked"

\* The ids in flight: below the counter, unsent, pairwise distinct; a
\* thread about to send has passed the bound.
FlightInv ==
    /\ \A w \in Workers :
          Active(w) => /\ req_id[w] < next_request_id
                       /\ \A i \in DOMAIN sent : sent[i].id # req_id[w]
    /\ \A w \in Workers : pc[w] = "send" => req_id[w] < MaxRequests
    /\ \A w, v \in Workers :
          w # v /\ Active(w) /\ Active(v) => req_id[w] # req_id[v]
    /\ \A i \in DOMAIN sent : sent[i].id < next_request_id

IInv == TypeI /\ StartInv /\ LockInv /\ FlightInv /\ IdsIssuedOnce

-----------------------------------------------------------------------------
(* The initial state: no thread has taken an id, none is sent. *)
LEMMA InitIInv == Init => IInv
BY DEF Init, IInv, TypeI, StartInv, LockInv, FlightInv, IdsIssuedOnce, Active,
       PCs

(* A step of a started thread keeps the threads not yet started idle. *)
LEMMA StartKept ==
    ASSUME IInv, NEW w \in Workers, NEW x, pc[w] # "idle",
           pc' = [pc EXCEPT ![w] = x], started' = started
    PROVE  StartInv'
BY DEF IInv, TypeI, StartInv

(* main's steps and the stutter leave the counter, the lock, the threads  *)
(* and the history alone.                                                  *)
LEMMA MainKeeps ==
    ASSUME IInv, Start \/ Join \/ Report \/ Exit \/ UNCHANGED vars
    PROVE  IInv'
<1>1. CASE Start
  <2>1. /\ started' = started + 1
        /\ pc' = [pc EXCEPT ![started + 1] = "loop"]
        /\ UNCHANGED <<next_request_id, holder, req_id, sent>>
    BY <1>1 DEF Start
  <2>2. \A w \in Workers : pc'[w] = pc[w] \/ (pc[w] = "idle" /\ pc'[w] = "loop")
    BY <2>1 DEF IInv, TypeI, StartInv
  <2>3. TypeI'
    <3>1. pc' \in [Workers -> PCs]
      BY <2>1 DEF IInv, TypeI, PCs
    <3>2. started' \in Nat
      BY <2>1 DEF IInv, TypeI
    <3>. QED
      BY <2>1, <3>1, <3>2 DEF IInv, TypeI
  <2>4. StartInv'
    BY <2>1 DEF IInv, TypeI, StartInv
  <2>5. LockInv'
    BY <2>1, <2>2 DEF IInv, TypeI, LockInv
  <2>6. FlightInv'
    BY <2>1, <2>2 DEF IInv, FlightInv, Active
  <2>7. IdsIssuedOnce'
    BY <2>1 DEF IInv, IdsIssuedOnce
  <2>. QED
    BY <2>3, <2>4, <2>5, <2>6, <2>7 DEF IInv
<1>2. CASE Join \/ Report \/ Exit \/ UNCHANGED vars
  <2>1. UNCHANGED <<next_request_id, holder, pc, req_id, sent, started>>
    BY <1>2 DEF Join, Report, Exit, vars
  <2>. QED
    BY <2>1 DEF IInv, TypeI, StartInv, LockInv, FlightInv, IdsIssuedOnce,
                Active
<1>. QED
  BY <1>1, <1>2

(* "with next_lock: req_id = next_request_id[0]": the lock is free, so no *)
(* other thread is inside.                                                 *)
LEMMA AcquireKeeps ==
    ASSUME IInv, NEW w \in Workers, Acquire(w)
    PROVE  IInv'
<1>1. /\ pc' = [pc EXCEPT ![w] = "locked"]
      /\ req_id' = [req_id EXCEPT ![w] = next_request_id]
      /\ holder' = w /\ holder = 0 /\ pc[w] = "loop"
      /\ UNCHANGED <<next_request_id, sent, started>>
  BY DEF Acquire
<1>2. TypeI'
  BY <1>1 DEF IInv, TypeI, PCs
<1>3. LockInv'
  BY <1>1 DEF IInv, TypeI, LockInv
<1>4. FlightInv'
  BY <1>1 DEF IInv, TypeI, FlightInv, Active
<1>5. IdsIssuedOnce'
  BY <1>1 DEF IInv, IdsIssuedOnce
<1>6. StartInv'
  BY <1>1, StartKept
<1>. QED
  BY <1>2, <1>3, <1>4, <1>5, <1>6 DEF IInv

(* "next_request_id[0] += 1" and the release: the id taken is the old     *)
(* counter value, above every id in flight or sent.                        *)
LEMMA IncrementKeeps ==
    ASSUME IInv, NEW w \in Workers, Increment(w)
    PROVE  IInv'
<1>1. /\ pc' = [pc EXCEPT ![w] = "bound"]
      /\ next_request_id' = next_request_id + 1
      /\ holder' = 0 /\ pc[w] = "locked"
      /\ UNCHANGED <<req_id, sent, started>>
  BY DEF Increment
<1>2. holder = w /\ req_id[w] = next_request_id
  BY <1>1 DEF IInv, LockInv
<1>3. \A v \in Workers \ {w} : pc[v] # "locked"
  BY <1>2 DEF IInv, LockInv
<1>4. TypeI'
  BY <1>1 DEF IInv, TypeI, PCs
<1>5. LockInv'
  BY <1>1, <1>3 DEF IInv, TypeI, LockInv
<1>6. FlightInv'
  <2>1. \A v \in Workers : Active(v)' <=> Active(v) \/ v = w
    BY <1>1 DEF IInv, TypeI, Active
  <2>2. \A v \in Workers : Active(v)' =>
            /\ req_id[v] < next_request_id'
            /\ \A i \in DOMAIN sent : sent[i].id # req_id[v]
    BY <1>1, <1>2, <2>1 DEF IInv, TypeI, FlightInv
  <2>3. \A v \in Workers : pc'[v] = "send" => req_id[v] < MaxRequests
    BY <1>1 DEF IInv, TypeI, FlightInv
  <2>4. \A u, v \in Workers :
            u # v /\ Active(u)' /\ Active(v)' => req_id[u] # req_id[v]
    BY <1>2, <2>1 DEF IInv, TypeI, FlightInv
  <2>6. \A i \in DOMAIN sent : sent[i].id \in Nat
    <3>1. \A i \in DOMAIN sent : sent[i] \in SentI
      BY DEF IInv, TypeI
    <3>. QED
      BY <3>1 DEF SentI
  <2>5. \A i \in DOMAIN sent : sent[i].id < next_request_id'
    BY <1>1, <2>6 DEF IInv, TypeI, FlightInv
  <2>. QED
    BY <1>1, <2>2, <2>3, <2>4, <2>5 DEF FlightInv
<1>7. IdsIssuedOnce'
  BY <1>1 DEF IInv, IdsIssuedOnce
<1>8. StartInv'
  BY <1>1, StartKept
<1>. QED
  BY <1>4, <1>5, <1>6, <1>7, <1>8 DEF IInv

(* "if req_id >= max_requests: break": only an id below the bound goes on *)
(* to be sent.                                                             *)
LEMMA BoundKeeps ==
    ASSUME IInv, NEW w \in Workers, Bound(w)
    PROVE  IInv'
<1>1. /\ pc' = [pc EXCEPT ![w] = IF req_id[w] >= MaxRequests THEN "publish"
                                                             ELSE "send"]
      /\ pc[w] = "bound"
      /\ UNCHANGED <<next_request_id, holder, req_id, sent, started>>
  BY DEF Bound
<1>2. TypeI'
  BY <1>1 DEF IInv, TypeI, PCs
<1>3. LockInv'
  BY <1>1 DEF IInv, TypeI, LockInv
<1>4. FlightInv'
  <2>1. req_id[w] \in Nat /\ MaxRequests \in Nat
    BY StressAssumption DEF IInv, TypeI
  <2>. QED
    BY <1>1, <2>1 DEF IInv, TypeI, FlightInv, Active
<1>5. IdsIssuedOnce'
  BY <1>1 DEF IInv, IdsIssuedOnce
<1>6. StartInv'
  BY <1>1, StartKept
<1>. QED
  BY <1>2, <1>3, <1>4, <1>5, <1>6 DEF IInv

(* The request is issued and recorded: its id joins the history, distinct *)
(* from the ids sent before and from those of the other threads.           *)
LEMMA SendKeeps ==
    ASSUME IInv, NEW w \in Workers, Send(w)
    PROVE  IInv'
<1>1. PICK h \in Points, o \in Outcomes :
          sent' = Append(sent, [id |-> req_id[w], h |-> h, t |-> PickTarget(h)])
  BY DEF Send, Points
<1>2. /\ pc' = [pc EXCEPT ![w] = "loop"]
      /\ pc[w] = "send"
      /\ UNCHANGED <<next_request_id, holder, req_id, started>>
  BY DEF Send
<1>. DEFINE r == [id |-> req_id[w], h |-> h, t |-> PickTarget(h)]
<1>3. r \in SentI
  BY DEF IInv, TypeI, SentI, Picks
<1>4. /\ sent' \in Seq(SentI)
      /\ Len(sent') = Len(sent) + 1
      /\ \A i \in DOMAIN sent : sent'[i] = sent[i]
      /\ sent'[Len(sent) + 1] = r
      /\ DOMAIN sent' = DOMAIN sent \cup {Len(sent) + 1}
  BY <1>1, <1>3 DEF IInv, TypeI
<1>5. /\ req_id[w] < next_request_id
      /\ req_id[w] < MaxRequests
      /\ \A i \in DOMAIN sent : sent[i].id # req_id[w]
      /\ \A v \in Workers \ {w} : Active(v) => req_id[v] # req_id[w]
  BY <1>2 DEF IInv, FlightInv, Active
<1>6. TypeI'
  BY <1>2, <1>4 DEF IInv, TypeI, PCs
<1>7. LockInv'
  BY <1>2 DEF IInv, TypeI, LockInv
<1>8. FlightInv'
  BY <1>2, <1>4, <1>5 DEF IInv, TypeI, FlightInv, Active
<1>9. IdsIssuedOnce'
  BY <1>4, <1>5 DEF IInv, IdsIssuedOnce
<1>10. StartInv'
  BY <1>2, StartKept
<1>. QED
  BY <1>6, <1>7, <1>8, <1>9, <1>10 DEF IInv

(* "with results_lock: results.append(res)": the thread is done. *)
LEMMA PublishKeeps ==
    ASSUME IInv, NEW w \in Workers, Publish(w)
    PROVE  IInv'
<1>1. /\ pc' = [pc EXCEPT ![w] = "done"]
      /\ pc[w] = "publish"
      /\ UNCHANGED <<next_request_id, holder, req_id, sent, started>>
  BY DEF Publish
<1>2. StartInv'
  BY <1>1, StartKept
<1>. QED
  BY <1>1, <1>2 DEF IInv, TypeI, LockInv, FlightInv, IdsIssuedOnce, Active,
                    PCs

LEMMA NextIInv == IInv /\ [Next]_vars => IInv'
<1> SUFFICES ASSUME IInv, [Next]_vars PROVE IInv'
  OBVIOUS
<1>1. CASE Start \/ Join \/ Report \/ Exit \/ UNCHANGED vars
  BY <1>1, MainKeeps
<1>2. ASSUME NEW w \in Workers, Worker(w) PROVE IInv'
  <2>1. CASE Acquire(w)
    BY <2>1, AcquireKeeps
  <2>2. CASE Increment(w)
    BY <2>2, IncrementKeeps
  <2>3. CASE Bound(w)
    BY <2>3, BoundKeeps
  <2>4. CASE Send(w)
    BY <2>4, SendKeeps
  <2>5. CASE Publish(w)
    BY <2>5, PublishKeeps
  <2>. QED
    BY <1>2, <2>1, <2>2, <2>3, <2>4, <2>5 DEF Worker
<1>. QED
  BY <1>1, <1>2 DEF Next

(* run_worker's ids, taken under next_lock, are issued at most once and   *)
(* all below max_requests, in every run, for every number of threads.     *)
THEOREM IdsOnce == Spec => []IdsIssuedOnce
<1>1. Init => IInv
  BY InitIInv
<1>2. IInv /\ [Next]_vars => IInv'
  BY NextIInv
<1>3. IInv => IdsIssuedOnce
  BY DEF IInv
<1>. QED
  BY <1>1, <1>2, <1>3, PTL DEF Spec

=============================================================================
