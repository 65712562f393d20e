------------------------- MODULE DapServerSeqProofs -------------------------
(***************************************************************************)
(* Proof that the bridge never sends two messages with the same seq       *)
(* (SeqUnique), for every value of the constants, although the main       *)
(* thread and the watcher threads number and send their messages with no  *)
(* lock and in any interleaving.                                           *)
(*                                                                         *)
(* SeqUnique is not inductive: a message is numbered ("self.seq += 1" and *)
(* the dict) one step before its sendall, and in between other threads   *)
(* number and send.  SeqInv adds what holds of the messages numbered and  *)
(* not yet sent: the main thread's outbox and the event of each watcher   *)
(* at its sendall carry numbers at most self.seq, distinct from each      *)
(* other and from every number already on the wire.  A number is taken   *)
(* once, since every numbering step increments self.seq and takes the new *)
(* value.                                                                  *)
(***************************************************************************)
EXTENDS DapServerProofs

\* A watcher holding a numbered event, not yet sent.
Pending(w) == wst[w] = "sendall"

SeqInv ==
    /\ \A i \in DOMAIN wire : wire[i].seq \in 1..seq
    /\ outbox # NoMsg =>
          /\ outbox.seq \in 1..seq
          /\ \A i \in DOMAIN wire : wire[i].seq # outbox.seq
    /\ \A w \in Watchers :
          Pending(w) =>
             /\ wmsg[w].seq \in 1..seq
             /\ \A i \in DOMAIN wire : wire[i].seq # wmsg[w].seq
             /\ outbox # NoMsg => outbox.seq # wmsg[w].seq
    /\ \A w, v \in Watchers :
          w # v /\ Pending(w) /\ Pending(v) => wmsg[w].seq # wmsg[v].seq
    /\ SeqUnique

-----------------------------------------------------------------------------
(* A step that numbers nothing, sends nothing and brings no watcher to its *)
(* sendall keeps SeqInv; the main thread may drop its numbered message,    *)
(* as the finally block of handle_client does.                             *)
LEMMA SeqFrame ==
    ASSUME SeqInv, seq' = seq, wire' = wire, outbox' \in {outbox, NoMsg},
           \A w \in Watchers : Pending(w)' => Pending(w) /\ wmsg'[w] = wmsg[w]
    PROVE  SeqInv'
<1>1. CASE outbox' = outbox
  BY <1>1 DEF SeqInv, SeqUnique
<1>2. CASE outbox' = NoMsg
  BY <1>2 DEF SeqInv, SeqUnique
<1> QED
  BY <1>1, <1>2

(* sendall of a message m whose number is at most self.seq and on no      *)
(* message sent yet keeps the numbers on the wire distinct and at most    *)
(* self.seq; a number that was on neither is still not on the wire.       *)
LEMMA AppendSeqs ==
    ASSUME NEW w0 \in Seq(Msg), NEW m \in Msg, NEW n \in Nat,
           m.seq \in 1..n,
           \A i \in DOMAIN w0 : w0[i].seq \in 1..n /\ w0[i].seq # m.seq,
           \A i, j \in DOMAIN w0 : i # j => w0[i].seq # w0[j].seq
    PROVE  LET w1 == Append(w0, m) IN
           /\ \A i \in DOMAIN w1 : w1[i].seq \in 1..n
           /\ \A i, j \in DOMAIN w1 : i # j => w1[i].seq # w1[j].seq
           /\ \A k \in Nat : (\A i \in DOMAIN w0 : w0[i].seq # k) /\ k # m.seq
                 => \A i \in DOMAIN w1 : w1[i].seq # k
<1> DEFINE w1 == Append(w0, m)
<1>1. /\ DOMAIN w1 = 1..(Len(w0) + 1)
      /\ \A i \in 1..Len(w0) : w1[i] = w0[i]
      /\ w1[Len(w0) + 1] = m
      /\ DOMAIN w0 = 1..Len(w0)
  BY AppendProperties
<1> QED
  BY <1>1

-----------------------------------------------------------------------------
(* Nothing is numbered at the start: no message, no pending watcher.      *)
LEMMA InitSeqInv == Init => SeqInv
BY DEF Init, SeqInv, SeqUnique, Pending

(* An assignment of watcher w's state to anything but "sendall" brings no *)
(* watcher to its sendall.                                                 *)
LEMMA NoNewPending ==
    ASSUME NEW w \in Watchers, wst \in [Watchers -> WStates],
           NEW x \in WStates \ {"sendall"},
           wst' = [wst EXCEPT ![w] = x]
    PROVE  \A v \in Watchers : Pending(v)' => Pending(v) /\ v # w
BY DEF Pending

(* Every step of every thread keeps SeqInv. *)
LEMMA NextSeqInv == IInv /\ SeqInv /\ [Next]_vars => SeqInv'
<1> SUFFICES ASSUME IInv, SeqInv, [Next]_vars PROVE SeqInv'
  OBVIOUS
<1>0. TypeOK
  BY DEF IInv
<1> USE DEF srvVars, wVars
<1>1. CASE Accept
  BY <1>1, SeqFrame DEF Accept, Pending
<1>2. CASE Receive
  BY <1>2, SeqFrame DEF Receive, Pending
<1>3. CASE ClientHangup
  BY <1>3, SeqFrame DEF ClientHangup, EndClient, Pending
<1>4. CASE LoopExit
  BY <1>4, SeqFrame DEF LoopExit, EndClient, Pending
<1>5. CASE Spawn \/ SpawnFails \/ WriteNone \/ WriteCmd \/ ReadLine
           \/ ReadTimeout \/ Terminate \/ Halt
  BY <1>5, SeqFrame
  DEF Spawn, SpawnFails, WriteNone, WriteCmd, ReadLine, ReadTimeout,
      Terminate, Halt, Pending
<1>6. CASE WriteBroken
  BY <1>6, SeqFrame DEF WriteBroken, EndClient, Pending
<1>7. CASE Number
  <2> DEFINE m == MainMsg(Head(prog), seq + 1)
  <2>1. /\ m.seq = seq + 1
        /\ m # NoMsg
    BY DEF MainMsg, NoMsg
  <2>2. /\ outbox = NoMsg /\ outbox' = m /\ seq' = seq + 1
        /\ UNCHANGED <<wire, wst, wmsg>>
    BY <1>7 DEF Number
  <2>3. seq \in Nat
    BY <1>0 DEF TypeOK
  <2>4. outbox' # NoMsg => /\ outbox'.seq \in 1..seq'
                           /\ \A i \in DOMAIN wire' : wire'[i].seq # outbox'.seq
    BY <2>1, <2>2, <2>3 DEF SeqInv
  <2>5. \A w \in Watchers : Pending(w)' =>
             /\ wmsg'[w].seq \in 1..seq'
             /\ \A i \in DOMAIN wire' : wire'[i].seq # wmsg'[w].seq
             /\ outbox' # NoMsg => outbox'.seq # wmsg'[w].seq
    BY <2>1, <2>2, <2>3 DEF SeqInv, Pending
  <2> QED
    BY <2>2, <2>3, <2>4, <2>5 DEF SeqInv, SeqUnique, Pending
<1>8. CASE Send
  <2>1. outbox # NoMsg /\ outbox' = NoMsg /\ UNCHANGED <<seq, wst, wmsg>>
    BY <1>8 DEF Send
  <2>2. CASE ~sock
    BY <1>8, <2>1, <2>2, SeqFrame DEF Send, Pending
  <2>3. CASE sock
    <3> DEFINE m == [outbox EXCEPT !.conn = conn]
    <3>1. /\ m \in Msg /\ m.seq = outbox.seq
          /\ wire \in Seq(Msg) /\ seq \in Nat
      BY <1>0, MsgWithConn DEF TypeOK
    <3>2. wire' = Append(wire, m)
      BY <1>8, <2>3 DEF Send
    <3>3. LET w1 == Append(wire, m) IN
           /\ \A i \in DOMAIN w1 : w1[i].seq \in 1..seq
           /\ \A i, j \in DOMAIN w1 : i # j => w1[i].seq # w1[j].seq
           /\ \A k \in Nat : (\A i \in DOMAIN wire : wire[i].seq # k) /\ k # m.seq
                 => \A i \in DOMAIN w1 : w1[i].seq # k
      BY <2>1, <3>1, AppendSeqs DEF SeqInv, SeqUnique
    <3>4. \A w \in Watchers : Pending(w) =>
             /\ wmsg[w].seq \in Nat
             /\ \A i \in DOMAIN wire : wire[i].seq # wmsg[w].seq
             /\ wmsg[w].seq # m.seq
      BY <2>1, <3>1 DEF SeqInv
    <3> QED
      BY <2>1, <3>2, <3>3, <3>4 DEF SeqInv, SeqUnique, Pending
  <2> QED
    BY <2>2, <2>3
<1>9. CASE StartWatcher
  <2>1. \A w \in Watchers : Pending(w)' => Pending(w) /\ wmsg'[w] = wmsg[w]
    BY <1>0, <1>9 DEF StartWatcher, TypeOK, Pending
  <2> QED
    BY <1>9, <2>1, SeqFrame DEF StartWatcher
<1>10. ASSUME NEW w \in Watchers, WatcherStep(w)
       PROVE  SeqInv'
  <2>1. CASE WLoop(w)
    <3>1. \A v \in Watchers : Pending(v)' => Pending(v) /\ wmsg'[v] = wmsg[v]
      BY <1>0, <2>1 DEF WLoop, TypeOK, Pending
    <3> QED
      BY <2>1, <3>1, SeqFrame DEF WLoop
  <2>2. CASE WReadLine(w)
    <3>1. \A v \in Watchers : Pending(v)' => Pending(v) /\ v # w
      BY <1>0, <2>2 DEF WReadLine, TypeOK, Pending
    <3>2. \A v \in Watchers : v # w => wmsg'[v] = wmsg[v]
      BY <1>0, <2>2 DEF WReadLine, TypeOK
    <3> QED
      BY <2>2, <3>1, <3>2, SeqFrame DEF WReadLine
  <2>3. CASE WReadEOF(w)
    <3>1. \A v \in Watchers : Pending(v)' => Pending(v) /\ wmsg'[v] = wmsg[v]
      BY <1>0, <2>3 DEF WReadEOF, TypeOK, Pending
    <3> QED
      BY <2>3, <3>1, SeqFrame DEF WReadEOF
  <2>4. CASE WNumber(w)
    <3>1. /\ wst[w] = "assign" /\ seq \in Nat /\ seq' = seq + 1
          /\ wst' = [wst EXCEPT ![w] = "sendall"]
          /\ wmsg'[w].seq = seq + 1
          /\ \A v \in Watchers : v # w => wmsg'[v] = wmsg[v]
          /\ UNCHANGED <<wire, outbox>>
      BY <1>0, <2>4 DEF WNumber, TypeOK, Msg
    <3>2. \A v \in Watchers : Pending(v)' => v = w \/ (Pending(v) /\ v # w)
      BY <1>0, <3>1 DEF TypeOK, Pending
    <3> QED
      BY <3>1, <3>2 DEF SeqInv, SeqUnique, Pending
  <2>5. CASE WSend(w)
    <3>1. /\ Pending(w) /\ UNCHANGED <<seq, outbox, wmsg>>
           /\ wst' = [wst EXCEPT ![w] = "done"]
      BY <2>5 DEF WSend, Pending
    <3>2. \A v \in Watchers : Pending(v)' => Pending(v) /\ v # w
      BY <1>0, <3>1 DEF TypeOK, Pending
    <3>3. CASE ~sock
      BY <2>5, <3>1, <3>2, <3>3, SeqFrame DEF WSend
    <3>4. CASE sock
      <4> DEFINE m == [wmsg[w] EXCEPT !.conn = conn]
      <4>1. /\ m \in Msg /\ m.seq = wmsg[w].seq
            /\ wire \in Seq(Msg) /\ seq \in Nat
        BY <1>0, MsgWithConn DEF TypeOK
      <4>2. wire' = Append(wire, m)
        BY <2>5, <3>4 DEF WSend
      <4>3. LET w1 == Append(wire, m) IN
             /\ \A i \in DOMAIN w1 : w1[i].seq \in 1..seq
             /\ \A i, j \in DOMAIN w1 : i # j => w1[i].seq # w1[j].seq
             /\ \A k \in Nat : (\A i \in DOMAIN wire : wire[i].seq # k)
                                /\ k # m.seq
                   => \A i \in DOMAIN w1 : w1[i].seq # k
        BY <3>1, <4>1, AppendSeqs DEF SeqInv, SeqUnique
      <4>4. outbox # NoMsg => /\ outbox.seq \in Nat
                              /\ \A i \in DOMAIN wire : wire[i].seq # outbox.seq
                              /\ outbox.seq # m.seq
        BY <3>1, <4>1 DEF SeqInv
      <4>5. \A v \in Watchers : Pending(v) /\ v # w =>
               /\ wmsg[v].seq \in Nat
               /\ \A i \in DOMAIN wire : wire[i].seq # wmsg[v].seq
               /\ wmsg[v].seq # m.seq
        BY <3>1, <4>1 DEF SeqInv
      <4> QED
        BY <3>1, <3>2, <4>2, <4>3, <4>4, <4>5 DEF SeqInv, SeqUnique
    <3> QED
      BY <3>3, <3>4
  <2> QED
    BY <1>10, <2>1, <2>2, <2>3, <2>4, <2>5 DEF WatcherStep
<1>11. CASE GdbNext /\ UNCHANGED <<srvVars, wVars, wire>>
  BY <1>11, SeqFrame DEF Pending
<1>12. CASE UNCHANGED vars
  BY <1>12, SeqFrame DEF vars, Pending
<1> QED
  BY <1>1, <1>2, <1>3, <1>4, <1>5, <1>6, <1>7, <1>8, <1>9, <1>10, <1>11,
     <1>12 DEF Next, MainStep

(* No two messages the bridge sends, from the main thread or from any     *)
(* watcher thread, over any number of connections, carry the same seq:    *)
(* send_response and send_event never reuse a sequence number, for every  *)
(* choice of the constants.                                                *)
THEOREM SeqNeverReused == Spec => []SeqUnique
<1>1. Init => IInv /\ SeqInv
  BY InitIInv, InitSeqInv
<1>2. IInv /\ SeqInv /\ [Next]_vars => IInv' /\ SeqInv'
  BY NextIInv, NextSeqInv
<1>3. SeqInv => SeqUnique
  BY DEF SeqInv
<1> QED
  BY <1>1, <1>2, <1>3, PTL DEF Spec

=============================================================================
