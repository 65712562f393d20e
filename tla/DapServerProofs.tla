--------------------------- MODULE DapServerProofs ---------------------------
(***************************************************************************)
(* Proofs about the bridge of module DapServer, for every value of its     *)
(* constants.                                                              *)
(***************************************************************************)
EXTENDS DapServer, SequenceTheorems, TLAPS

\* The steps a handler can hold: a write names an MI command, an event an
\* event name.  These are what _send_gdb_command writes to gdb's stdin and
\* what send_event puts in the "event" field.
GoodOp == {o \in Op : /\ o.op = "write" => o.a \in MiOps
                      /\ o.op = "event" => o.a \in EventNames}

(***************************************************************************)
(* The inductive invariant behind TypeOK.  TypeOK alone is not inductive: *)
(* a write must carry an MI command for gdb's stdin to stay a sequence of *)
(* commands, an event an event name for the message built from it to be a *)
(* message; a handler runs only for a received request, whose id names   *)
(* the process it spawns; and a watcher reads only once self.gdb_process  *)
(* is set, which it stays.                                                 *)
(***************************************************************************)
IInv ==
    /\ TypeOK
    /\ prog \in Seq(GoodOp)
    /\ prog # <<>> => req.id \in 1..MaxRequests
    /\ \A w \in Watchers : wst[w] = "read" => gdb_process \in Procs

-----------------------------------------------------------------------------
(* Tuples of elements of S are sequences over S; the handlers' step lists  *)
(* are built from such tuples.                                             *)
LEMMA TupleSeq ==
    ASSUME NEW S, NEW a \in S, NEW b \in S, NEW c \in S, NEW d \in S
    PROVE  /\ <<a>> \in Seq(S)
           /\ <<a, b>> \in Seq(S)
           /\ <<a, b, c>> \in Seq(S)
           /\ <<a, b, c, d>> \in Seq(S)
  OBVIOUS

(* The steps of two handler parts run one after the other are the steps   *)
(* of both.                                                                *)
LEMMA ConcatSeq ==
    ASSUME NEW S, NEW a \in Seq(S), NEW b \in Seq(S)
    PROVE  a \o b \in Seq(S)
  BY ConcatProperties

(* Every handle_<command>, with any argument and any self.gdb_process,     *)
(* performs only steps of GoodOp.                                          *)
LEMMA HandlerGood ==
    ASSUME NEW r \in DapCommands, NEW x \in Params(r), NEW g
    PROVE  Handler(r, x, g) \in Seq(GoodOp)
<1>1. \A c \in MiOps : Write(c) \in GoodOp
  BY DEF Write, GoodOp, Op, OpNames, OpArgs
<1>2. \A u \in {"plain", "launch"} : Read(u) \in GoodOp
  BY DEF Read, GoodOp, Op, OpNames, OpArgs
<1>3. Respond(TRUE) \in GoodOp /\ Respond(FALSE) \in GoodOp
  BY DEF Respond, GoodOp, Op, OpNames, OpArgs
<1>4. Event("initialized", 0) \in GoodOp /\ Event("process", 0) \in GoodOp
  BY DEF Event, GoodOp, Op, OpNames, OpArgs, EventNames
<1>5. \A o \in {"spawn", "watch", "kill", "halt"} : Do(o) \in GoodOp
  BY DEF Do, GoodOp, Op, OpNames, OpArgs
<1>6. \A n \in Nat : InsertLoop(n) \in Seq(GoodOp)
  <2> SUFFICES ASSUME NEW n \in Nat PROVE InsertLoop(n) \in Seq(GoodOp)
    OBVIOUS
  <2>1. \A i \in 1..2 * n : InsertLoop(n)[i] \in GoodOp
    BY <1>1, <1>2 DEF InsertLoop, MiOps
  <2>2. InsertLoop(n) = [i \in 1..2 * n |-> InsertLoop(n)[i]]
    BY DEF InsertLoop
  <2> QED
    BY <2>1, <2>2
<1>7. CASE r = "launch"
  <2>1. x \in BOOLEAN
    BY <1>7 DEF Params
  <2>2. <<Do("spawn"), Read("plain")>> \in Seq(GoodOp)
    BY <1>2, <1>5, TupleSeq
  <2>3. (IF x THEN <<Write("break-insert"), Read("plain")>> ELSE <<>>)
          \in Seq(GoodOp)
    BY <1>1, <1>2, TupleSeq DEF MiOps
  <2>4. <<Write("exec-run"), Read("launch"), Respond(TRUE),
          Event("process", 0)>> \in Seq(GoodOp)
    BY <1>1, <1>2, <1>3, <1>4, TupleSeq DEF MiOps, EventNames
  <2>5. Handler(r, x, g) =
          <<Do("spawn"), Read("plain")>>
          \o (IF x THEN <<Write("break-insert"), Read("plain")>> ELSE <<>>)
          \o <<Write("exec-run"), Read("launch"), Respond(TRUE),
               Event("process", 0)>>
    BY <1>7, Zenon DEF Handler
  <2>6. <<Do("spawn"), Read("plain")>>
        \o (IF x THEN <<Write("break-insert"), Read("plain")>> ELSE <<>>)
          \in Seq(GoodOp)
    BY <2>2, <2>3, ConcatSeq
  <2> QED
    BY <2>4, <2>5, <2>6, ConcatSeq
<1>8. CASE r = "setBreakpoints"
  <2>1. x \in Nat
    BY <1>8 DEF Params
  <2>2. <<Write("break-delete"), Read("plain")>> \in Seq(GoodOp)
    BY <1>1, <1>2, TupleSeq DEF MiOps
  <2>3. <<Respond(TRUE)>> \in Seq(GoodOp)
    BY <1>3, TupleSeq
  <2>4. Handler(r, x, g) =
          <<Write("break-delete"), Read("plain")>> \o InsertLoop(x)
          \o <<Respond(TRUE)>>
    BY <1>8, Zenon DEF Handler
  <2>5. InsertLoop(x) \in Seq(GoodOp)
    BY <1>6, <2>1
  <2>6. <<Write("break-delete"), Read("plain")>> \o InsertLoop(x) \in Seq(GoodOp)
    BY <2>2, <2>5, ConcatSeq
  <2> QED
    BY <2>3, <2>4, <2>6, ConcatSeq
<1>9. CASE r = "disconnect"
  <2>1. (IF g # 0 THEN <<Write("gdb-exit"), Do("kill")>> ELSE <<>>)
          \in Seq(GoodOp)
    BY <1>1, <1>5, TupleSeq DEF MiOps
  <2>2. <<Do("halt"), Respond(TRUE)>> \in Seq(GoodOp)
    BY <1>3, <1>5, TupleSeq
  <2>3. Handler(r, x, g) =
          (IF g # 0 THEN <<Write("gdb-exit"), Do("kill")>> ELSE <<>>)
          \o <<Do("halt"), Respond(TRUE)>>
    BY <1>9, Zenon DEF Handler
  <2> QED
    BY <2>1, <2>2, <2>3, ConcatSeq
<1>10. CASE r = "terminate"
  <2>1. (IF g # 0 THEN <<Write("exec-abort"), Write("gdb-exit"),
                         Do("kill")>> ELSE <<>>) \in Seq(GoodOp)
    BY <1>1, <1>5, TupleSeq DEF MiOps
  <2>2. <<Respond(TRUE)>> \in Seq(GoodOp)
    BY <1>3, TupleSeq
  <2>3. Handler(r, x, g) =
          (IF g # 0 THEN <<Write("exec-abort"), Write("gdb-exit"),
                           Do("kill")>> ELSE <<>>)
          \o <<Respond(TRUE)>>
    BY <1>10, Zenon DEF Handler
  <2> QED
    BY <2>1, <2>2, <2>3, ConcatSeq
<1>11. CASE r \in {"continue", "next", "stepIn", "stepOut"}
  <2>1. StepOp(r) \in MiOps
    BY <1>11 DEF StepOp, MiOps, ResumeOps
  <2>2. Handler(r, x, g) = <<Write(StepOp(r)), Do("watch"), Respond(TRUE)>>
    BY <1>11, Zenon DEF Handler
  <2> QED
    BY <2>1, <2>2, <1>1, <1>3, <1>5, TupleSeq
<1>12. CASE r = "initialize"
  <2>1. Handler(r, x, g) = <<Respond(TRUE), Event("initialized", 0)>>
    BY <1>12, Zenon DEF Handler
  <2> QED
    BY <2>1, <1>3, <1>4, TupleSeq DEF EventNames
<1>13. CASE r \in {"configurationDone", "threads", "scopes"}
  <2>1. Handler(r, x, g) = <<Respond(TRUE)>>
    BY <1>13, Zenon DEF Handler
  <2> QED
    BY <2>1, <1>3, TupleSeq
<1>14. CASE r \in {"stackTrace", "evaluate"}
  <2>1. Handler(r, x, g) =
          <<Write(IF r = "stackTrace" THEN "stack-list-frames"
                                      ELSE "data-evaluate-expression"),
            Read("plain"), Respond(TRUE)>>
    BY <1>14, Zenon DEF Handler
  <2> QED
    BY <2>1, <1>1, <1>2, <1>3, TupleSeq DEF MiOps, InspectOps
<1>15. CASE r = "variables"
  <2>1. Handler(r, x, g) =
          <<Write(IF x = 1 THEN "stack-list-locals" ELSE "stack-list-arguments"),
            Read("plain"), Respond(TRUE)>>
    BY <1>15, Zenon DEF Handler
  <2> QED
    BY <2>1, <1>1, <1>2, <1>3, TupleSeq DEF MiOps, InspectOps
<1>16. CASE r = "unknown"
  <2>1. Handler(r, x, g) = <<Respond(FALSE)>>
    BY <1>16, Zenon DEF Handler
  <2> QED
    BY <2>1, <1>3, TupleSeq
<1> QED
  BY <1>7, <1>8, <1>9, <1>10, <1>11, <1>12, <1>13, <1>14, <1>15, <1>16
  DEF DapCommands

-----------------------------------------------------------------------------
(* A sequence of handler steps of GoodOp is a sequence of steps. *)
LEMMA GoodSeqOp == Seq(GoodOp) \subseteq Seq(Op)
BY SeqMonotonic DEF GoodOp

(* send_message stamps the connection on a message, send_event (from a    *)
(* watcher) its sequence number: both give messages.                       *)
LEMMA MsgWithConn ==
    ASSUME NEW m \in Msg, NEW c \in Nat
    PROVE  [m EXCEPT !.conn = c] \in Msg
BY DEF Msg

LEMMA MsgWithSeq ==
    ASSUME NEW m \in Msg, NEW c \in Nat
    PROVE  [m EXCEPT !.seq = c] \in Msg
BY DEF Msg

LEMMA WmsgWithSeq ==
    ASSUME NEW f \in [Watchers -> Msg], NEW w \in Watchers, NEW c \in Nat
    PROVE  [f EXCEPT ![w].seq = c] \in [Watchers -> Msg]
BY MsgWithSeq

(* The steps left after a read of _read_gdb_until_prompt, with the stop    *)
(* event handle_launch adds, are steps of GoodOp.                          *)
LEMMA AfterReadGood ==
    ASSUME NEW out \in Seq(Line), prog \in Seq(GoodOp), prog # <<>>
    PROVE  AfterRead(out) \in Seq(GoodOp)
<1>1. Tail(prog) \in Seq(GoodOp)
  BY HeadTailProperties
<1>2. ASSUME StopsIn(out) # {}
      PROVE  Event("stopped", out[CHOOSE i \in StopsIn(out) : TRUE].s) \in GoodOp
  <2> DEFINE i0 == CHOOSE i \in StopsIn(out) : TRUE
  <2>1. i0 \in 1..Len(out)
    BY <1>2 DEF StopsIn
  <2>2. out[i0] \in Line
    BY <2>1, ElementOfSeq
  <2>3. out[i0].s \in Nat
    BY <2>2 DEF Line
  <2> QED
    BY <2>3 DEF Event, GoodOp, Op, OpNames, OpArgs, EventNames
<1> QED
  BY <1>1, <1>2, AppendProperties DEF AfterRead

(* The message send_response or send_event builds from a respond or event *)
(* step is a message.                                                      *)
LEMMA MainMsgType ==
    ASSUME NEW o \in GoodOp, o.op \in {"respond", "event"}, NEW n \in Nat,
           req \in [id : 0..MaxRequests, command : DapCommands \cup {"none"}]
    PROVE  MainMsg(o, n) \in Msg
BY DEF MainMsg, Msg, GoodOp, Op

(* Popen.terminate() keeps every process in one of its states. *)
LEMMA KillType ==
    ASSUME NEW g \in {0} \cup Procs, pst \in [Procs -> ProcStates], Kill(g)
    PROVE  pst' \in [Procs -> ProcStates]
BY DEF Kill, ProcStates

(* The finally block of handle_client keeps the types. *)
LEMMA EndClientType ==
    ASSUME TypeOK, EndClient
    PROVE  /\ pst' \in [Procs -> ProcStates]
           /\ sock' \in BOOLEAN
           /\ srv' \in {"accepting", "serving", "exited"}
           /\ prog' = <<>>
           /\ outbox' \in Msg
<1>1. pst' \in [Procs -> ProcStates]
  BY KillType DEF EndClient, TypeOK, GdbTypeOK
<1> QED
  BY <1>1 DEF EndClient, TypeOK, NoMsg, Msg

(* A step of gdb or of the debugged program keeps the environment's types. *)
LEMMA GdbNextType ==
    ASSUME GdbTypeOK, GdbNext
    PROVE  GdbTypeOK'
<1> SUFFICES ASSUME NEW p \in Procs,
                    GdbStep(p) \/ InferiorStop(p) \/ GdbDies(p)
             PROVE  GdbTypeOK'
  BY DEF GdbNext
<1>1. CASE GdbStep(p)
  <2> DEFINE c == Head(inq[p])
  <2>1. c \in Cmd /\ Tail(inq[p]) \in Seq(Cmd)
    BY <1>1, HeadTailProperties DEF GdbStep, GdbTypeOK
  <2>2. inq' \in [Procs -> Seq(Cmd)] /\ stopLog' \in Seq(StopReasons)
    BY <1>1, <2>1 DEF GdbStep, GdbTypeOK
  <2>3. ASSUME NEW k \in LineKinds, Answer(p, c, k)
        PROVE  outq' \in [Procs -> Seq(Line)]
    <3>1. <<Ln(k, c.id, 0), Ln("prompt", c.id, 0)>> \in Seq(Line)
      BY <2>1, TupleSeq DEF Ln, Line, Cmd, LineKinds
    <3>2. outq[p] \o <<Ln(k, c.id, 0), Ln("prompt", c.id, 0)>> \in Seq(Line)
      BY <3>1, ConcatProperties DEF GdbTypeOK
    <3> QED
      BY <2>3, <3>2 DEF Answer, GdbTypeOK
  <2>4. CASE c.op = "gdb-exit"
    <3>1. Append(outq[p], Ln("exit", c.id, 0)) \in Seq(Line)
      BY <2>1, AppendProperties DEF GdbTypeOK, Ln, Line, Cmd, LineKinds
    <3>2. /\ outq' = [outq EXCEPT ![p] = Append(@, Ln("exit", c.id, 0))]
          /\ pst' = [pst EXCEPT ![p] = "dead"]
          /\ inf' = inf
      BY <1>1, <2>4 DEF GdbStep, ResumeOps, InspectOps
    <3> QED
      BY <2>2, <3>1, <3>2 DEF GdbTypeOK, ProcStates
  <2>5. CASE c.op \in ResumeOps \cup {"exec-run"} /\ CanResume(c.op, inf[p])
    <3>1. RunMode(c.op) \in InfStates
      BY DEF RunMode, InfStates
    <3>2. Answer(p, c, "running") /\ pst' = pst
          /\ inf' = [inf EXCEPT ![p] = RunMode(c.op)]
      BY <1>1, <2>5 DEF GdbStep, ResumeOps, InspectOps
    <3> QED
      BY <2>2, <2>3, <3>1, <3>2 DEF GdbTypeOK, LineKinds
  <2>6. CASE c.op \notin {"gdb-exit"}
             /\ ~(c.op \in ResumeOps \cup {"exec-run"} /\ CanResume(c.op, inf[p]))
    <3>1. \E k \in LineKinds : Answer(p, c, k) /\ UNCHANGED <<pst, inf>>
      BY <1>1, <2>6 DEF GdbStep, LineKinds, ResumeOps, InspectOps
    <3> QED
      BY <2>2, <2>3, <3>1 DEF GdbTypeOK
  <2> QED
    BY <2>4, <2>5, <2>6
<1>2. CASE InferiorStop(p)
  <2>1. \E r \in StopReasons :
          /\ stopLog' = Append(stopLog, r)
          /\ outq' = [outq EXCEPT ![p] =
                @ \o <<Ln("stopped", 0, Len(stopLog) + 1), Ln("prompt", 0, 0)>>]
          /\ inf' = [inf EXCEPT ![p] = IF r = "exited" THEN "exited"
                                                        ELSE "stopped"]
    BY <1>2 DEF InferiorStop
  <2>2. <<Ln("stopped", 0, Len(stopLog) + 1), Ln("prompt", 0, 0)>> \in Seq(Line)
    BY TupleSeq DEF GdbTypeOK, Ln, Line, LineKinds
  <2> QED
    BY <1>2, <2>1, <2>2, AppendProperties, ConcatProperties
    DEF InferiorStop, GdbTypeOK, InfStates
<1>3. CASE GdbDies(p)
  BY <1>3 DEF GdbDies, GdbTypeOK, ProcStates
<1> QED
  BY <1>1, <1>2, <1>3

-----------------------------------------------------------------------------
(* The bridge starts in a state of the invariant. *)
LEMMA InitIInv == Init => IInv
<1> SUFFICES ASSUME Init PROVE IInv
  OBVIOUS
<1>1. GdbTypeOK
  BY DEF Init, GdbInit, GdbTypeOK, ProcStates, InfStates
<1>2. outbox \in Msg /\ wmsg \in [Watchers -> Msg]
  BY DEF Init, NoMsg, Msg
<1>3. prog \in Seq(GoodOp) /\ prog \in Seq(Op) /\ acc \in Seq(Line)
      /\ wire \in Seq(Msg)
  BY DEF Init
<1>4. req \in [id : 0..MaxRequests, command : DapCommands \cup {"none"}]
  BY ServerAssumption DEF Init
<1>5. wst \in [Watchers -> WStates]
      /\ \A w \in Watchers : wst[w] = "read" => gdb_process \in Procs
  BY DEF Init, WStates
<1>6. conn \in 0..MaxConns /\ nreq \in 0..MaxRequests
  BY ServerAssumption DEF Init
<1>7. /\ running \in BOOLEAN /\ gdb_process \in {0} \cup Procs
      /\ seq \in Nat /\ nproc \in Nat /\ ncmd \in Nat /\ sock \in BOOLEAN
      /\ srv \in {"accepting", "serving", "exited"}
      /\ (prog # <<>> => req.id \in 1..MaxRequests)
  <2>1. /\ running = TRUE /\ gdb_process = 0 /\ seq = 0 /\ nproc = 0
        /\ ncmd = 0 /\ sock = FALSE /\ srv = "accepting" /\ prog = <<>>
    BY Zenon DEF Init
  <2> QED
    BY <2>1
<1>8. TypeOK
  BY <1>1, <1>2, <1>3, <1>4, <1>5, <1>6, <1>7 DEF TypeOK
<1> QED
  BY <1>3, <1>5, <1>7, <1>8 DEF IInv

(* Every step of the main thread, of a watcher thread, of the client, of   *)
(* gdb and of the debugged program keeps the invariant.                    *)
LEMMA NextIInv == IInv /\ [Next]_vars => IInv'
<1> SUFFICES ASSUME IInv, [Next]_vars PROVE IInv'
  OBVIOUS
<1> USE ServerAssumption, ProcsAssumption DEF gdbVars, srvVars, wVars, GdbTypeOK
<1>1. CASE Accept
  BY <1>1 DEF Accept, IInv, TypeOK
<1>2. CASE Receive
  <2>1. PICK r \in Requests : \E x \in Params(r) :
          /\ req' = [id |-> nreq + 1, command |-> r]
          /\ prog' = Handler(r, x, gdb_process)
    BY <1>2 DEF Receive
  <2>2. PICK x \in Params(r) :
          /\ req' = [id |-> nreq + 1, command |-> r]
          /\ prog' = Handler(r, x, gdb_process)
    BY <2>1
  <2>3. prog' \in Seq(GoodOp)
    BY <2>2, HandlerGood
  <2>4. req' \in [id : 0..MaxRequests, command : DapCommands \cup {"none"}]
    BY <1>2, <2>2 DEF Receive, IInv, TypeOK
  <2>5. nreq' \in 0..MaxRequests
    BY <1>2 DEF Receive, IInv, TypeOK
  <2> QED
    BY <1>2, <2>3, <2>4, <2>5, GoodSeqOp DEF Receive, IInv, TypeOK
<1>3. CASE ClientHangup
  BY <1>3, EndClientType DEF ClientHangup, IInv, TypeOK, GdbTypeOK
<1>4. CASE LoopExit
  BY <1>4, EndClientType DEF LoopExit, IInv, TypeOK, GdbTypeOK
<1>5. CASE Spawn
  <2>1. req.id \in Procs
    BY <1>5 DEF Spawn, Step, IInv
  <2>2. <<Ln("prompt", ncmd + 1, 0)>> \in Seq(Line)
    BY TupleSeq DEF Ln, Line, LineKinds, IInv, TypeOK
  <2>3. Tail(prog) \in Seq(GoodOp)
    BY <1>5, HeadTailProperties DEF Spawn, Step, IInv
  <2> QED
    BY <1>5, <2>1, <2>2, <2>3
    DEF Spawn, Step, IInv, TypeOK, GdbTypeOK, ProcStates
<1>6. CASE SpawnFails
  <2>1. <<Respond(FALSE)>> \in Seq(GoodOp)
    BY TupleSeq DEF Respond, GoodOp, Op, OpNames, OpArgs
  <2> QED
    BY <1>6, <2>1, GoodSeqOp DEF SpawnFails, Step, IInv, TypeOK
<1>7. CASE WriteNone
  BY <1>7, HeadTailProperties DEF WriteNone, Step, IInv, TypeOK
<1>8. CASE WriteCmd
  <2>1. Head(prog) \in GoodOp /\ Tail(prog) \in Seq(GoodOp)
    BY <1>8, HeadTailProperties DEF WriteCmd, Step, IInv
  <2>2. [id |-> ncmd + 1, op |-> Head(prog).a] \in Cmd
    BY <1>8, <2>1 DEF WriteCmd, Step, GoodOp, Cmd, IInv, TypeOK
  <2>3. Append(inq[gdb_process], [id |-> ncmd + 1, op |-> Head(prog).a])
          \in Seq(Cmd)
    BY <1>8, <2>2, AppendProperties DEF WriteCmd, IInv, TypeOK, GdbTypeOK
  <2>4. inq' \in [Procs -> Seq(Cmd)]
    BY <1>8, <2>3 DEF WriteCmd, IInv, TypeOK
  <2>5. Tail(prog) \in Seq(Op)
    BY <2>1, GoodSeqOp
  <2>6. /\ ncmd' = ncmd + 1 /\ acc' = <<>> /\ prog' = Tail(prog)
        /\ UNCHANGED <<pst, outq, inf, stopLog, running, gdb_process, seq,
                       nproc, conn, sock, srv, nreq, req, outbox, wst, wmsg,
                       wire>>
    BY <1>8 DEF WriteCmd
  <2>8. TypeOK'
    BY <2>4, <2>5, <2>6 DEF IInv, TypeOK
  <2>7. prog' \in Seq(GoodOp) /\ UNCHANGED <<req, wst, gdb_process>>
    BY <1>8, <2>1 DEF WriteCmd
  <2>9. prog # <<>>
    BY <1>8 DEF WriteCmd, Step
  <2> QED
    BY <2>7, <2>8, <2>9 DEF IInv
<1>9. CASE WriteBroken
  <2>1. EndClient /\ UNCHANGED <<inq, outq, inf, stopLog, running, gdb_process,
                                 seq, nproc, ncmd, conn, nreq, req, acc, wVars,
                                 wire>>
    BY <1>9 DEF WriteBroken
  <2>2. /\ pst' \in [Procs -> ProcStates]
        /\ sock' \in BOOLEAN
        /\ srv' \in {"accepting", "serving", "exited"}
        /\ prog' = <<>>
        /\ outbox' \in Msg
    BY <2>1, EndClientType DEF IInv
  <2>3. TypeOK'
    BY <2>1, <2>2 DEF IInv, TypeOK
  <2> QED
    BY <2>1, <2>2, <2>3 DEF IInv
<1>10. CASE ReadLine
  <2> DEFINE l == Head(outq[gdb_process])
  <2>1. gdb_process \in Procs
    BY <1>10 DEF ReadLine, IInv, TypeOK
  <2>2. l \in Line /\ Tail(outq[gdb_process]) \in Seq(Line)
    BY <1>10, <2>1, HeadTailProperties DEF ReadLine, IInv, TypeOK, GdbTypeOK
  <2>3. Append(acc, l) \in Seq(Line)
    BY <2>2, AppendProperties DEF IInv, TypeOK
  <2>4. AfterRead(Append(acc, l)) \in Seq(GoodOp)
    BY <1>10, <2>3, AfterReadGood DEF ReadLine, Step, IInv
  <2> QED
    BY <1>10, <2>1, <2>2, <2>3, <2>4, GoodSeqOp
    DEF ReadLine, Step, IInv, TypeOK
<1>11. CASE ReadTimeout
  <2>1. AfterRead(acc) \in Seq(GoodOp)
    BY <1>11, AfterReadGood DEF ReadTimeout, Step, IInv, TypeOK
  <2> QED
    BY <1>11, <2>1, GoodSeqOp DEF ReadTimeout, Step, IInv, TypeOK
<1>12. CASE Number
  <2>1. Head(prog) \in GoodOp /\ Head(prog).op \in {"respond", "event"}
    BY <1>12, HeadTailProperties DEF Number, Step, IInv
  <2>2. MainMsg(Head(prog), seq + 1) \in Msg
    BY <2>1, MainMsgType DEF IInv, TypeOK
  <2> QED
    BY <1>12, <2>2 DEF Number, IInv, TypeOK
<1>13. CASE Send
  <2>1. Tail(prog) \in Seq(GoodOp)
    BY <1>13, HeadTailProperties DEF Send, Step, IInv
  <2>2. [outbox EXCEPT !.conn = conn] \in Msg
    BY MsgWithConn DEF IInv, TypeOK
  <2>3. wire' \in Seq(Msg)
    BY <1>13, <2>2, AppendProperties DEF Send, IInv, TypeOK
  <2>4. NoMsg \in Msg
    BY DEF NoMsg, Msg
  <2> QED
    BY <1>13, <2>1, <2>3, <2>4, GoodSeqOp DEF Send, Step, IInv, TypeOK
<1>14. CASE StartWatcher
  <2>1. Tail(prog) \in Seq(GoodOp)
    BY <1>14, HeadTailProperties DEF StartWatcher, Step, IInv
  <2>a. wst' = [wst EXCEPT ![req.id] = "loop"] /\ wst \in [Watchers -> WStates]
    BY <1>14 DEF StartWatcher, IInv, TypeOK
  <2>2. /\ wst' \in [Watchers -> WStates]
        /\ \A w \in Watchers : wst'[w] = "read" => wst[w] = "read"
    BY <2>a DEF WStates
  <2>3. TypeOK'
    BY <1>14, <2>1, <2>2, GoodSeqOp DEF StartWatcher, IInv, TypeOK
  <2>4. prog' # <<>> => req'.id \in 1..MaxRequests
    BY <1>14 DEF StartWatcher, Step, IInv
  <2>5. \A w \in Watchers : wst'[w] = "read" => gdb_process' \in Procs
    BY <1>14, <2>2 DEF StartWatcher, IInv
  <2>6. prog' \in Seq(GoodOp)
    BY <1>14, <2>1 DEF StartWatcher
  <2> QED
    BY <2>3, <2>4, <2>5, <2>6 DEF IInv
<1>15. CASE Terminate
  BY <1>15, KillType, HeadTailProperties
  DEF Terminate, Step, IInv, TypeOK, GdbTypeOK
<1>16. CASE Halt
  BY <1>16, HeadTailProperties DEF Halt, Step, IInv, TypeOK
<1>17. ASSUME NEW w \in Watchers, WatcherStep(w)
       PROVE  IInv'
  <2>1. CASE WLoop(w)
    BY <2>1 DEF WLoop, IInv, TypeOK, WStates, srvVars, gdbVars
  <2>2. CASE WReadLine(w)
    <3> DEFINE l == Head(outq[gdb_process])
    <3>1. gdb_process \in Procs
      BY <2>2 DEF WReadLine, IInv
    <3>2. l \in Line /\ Tail(outq[gdb_process]) \in Seq(Line)
      BY <2>2, <3>1, HeadTailProperties DEF WReadLine, IInv, TypeOK, GdbTypeOK
    <3>3. [NoMsg EXCEPT !.type = "event",
             !.command = IF stopLog[l.s] = "exited" THEN "terminated"
                                                    ELSE "stopped",
             !.success = TRUE, !.cause = w, !.stop = l.s] \in Msg
      BY <3>2 DEF NoMsg, Msg, Line, EventNames, Watchers
    <3>4. outq' \in [Procs -> Seq(Line)]
      BY <2>2, <3>1, <3>2 DEF WReadLine, IInv, TypeOK
    <3>5. UNCHANGED <<pst, inq, inf, stopLog, running, gdb_process, seq, nproc,
                      ncmd, conn, sock, srv, nreq, req, prog, acc, outbox,
                      wire>>
      BY <2>2 DEF WReadLine
    <3>6. CASE l.k = "stopped"
      <4>1. wst' = [wst EXCEPT ![w] = "assign"]
            /\ wmsg' = [wmsg EXCEPT ![w] =
                     [NoMsg EXCEPT !.type = "event",
                        !.command = IF stopLog[l.s] = "exited" THEN "terminated"
                                                               ELSE "stopped",
                        !.success = TRUE, !.cause = w, !.stop = l.s]]
        BY <2>2, <3>6 DEF WReadLine
      <4> QED
        BY <3>3, <3>4, <3>5, <4>1 DEF IInv, TypeOK, WStates
    <3>7. CASE l.k # "stopped"
      <4>1. wst' = [wst EXCEPT ![w] = "loop"] /\ wmsg' = wmsg
        BY <2>2, <3>7 DEF WReadLine
      <4> QED
        BY <3>4, <3>5, <4>1 DEF IInv, TypeOK, WStates
    <3> QED
      BY <3>6, <3>7
  <2>3. CASE WReadEOF(w)
    BY <2>3 DEF WReadEOF, IInv, TypeOK, WStates, srvVars, gdbVars
  <2>4. CASE WNumber(w)
    <3>a. wmsg \in [Watchers -> Msg] /\ seq + 1 \in Nat
      BY DEF IInv, TypeOK
    <3>0. [wmsg EXCEPT ![w].seq = seq + 1] \in [Watchers -> Msg]
      BY <3>a, WmsgWithSeq, Zenon
    <3>1. wmsg' \in [Watchers -> Msg]
      BY <2>4, <3>0 DEF WNumber
    <3>2. TypeOK'
      BY <2>4, <3>1 DEF WNumber, IInv, TypeOK, WStates
    <3>3. \A v \in Watchers : wst'[v] = "read" => wst[v] = "read"
      BY <2>4 DEF WNumber, IInv, TypeOK
    <3> QED
      BY <2>4, <3>2, <3>3 DEF WNumber, IInv
  <2>5. CASE WSend(w)
    <3>1. [wmsg[w] EXCEPT !.conn = conn] \in Msg
      BY MsgWithConn DEF IInv, TypeOK
    <3> QED
      BY <2>5, <3>1, AppendProperties
      DEF WSend, IInv, TypeOK, WStates, srvVars, gdbVars
  <2> QED
    BY <1>17, <2>1, <2>2, <2>3, <2>4, <2>5 DEF WatcherStep
<1>18. CASE GdbNext /\ UNCHANGED <<srvVars, wVars, wire>>
  BY <1>18, GdbNextType DEF IInv, TypeOK, srvVars, wVars
<1>19. CASE UNCHANGED vars
  BY <1>19 DEF IInv, TypeOK, GdbTypeOK, vars, gdbVars, srvVars, wVars
<1> QED
  BY <1>1, <1>2, <1>3, <1>4, <1>5, <1>6, <1>7, <1>8, <1>9, <1>10, <1>11,
     <1>12, <1>13, <1>14, <1>15, <1>16, <1>17, <1>18, <1>19
  DEF Next, MainStep

(* The type invariant of the bridge holds in every reachable state: every *)
(* pipe holds well-formed lines and commands, every handler only valid    *)
(* steps, every message sent to the client is a response or an event with *)
(* its fields, for every choice of the constants.                          *)
THEOREM TypeCorrect == Spec => []TypeOK
<1>1. Init => IInv
  BY InitIInv
<1>2. IInv /\ [Next]_vars => IInv'
  BY NextIInv
<1>3. IInv => TypeOK
  BY DEF IInv
<1> QED
  BY <1>1, <1>2, <1>3, PTL DEF Spec

=============================================================================
