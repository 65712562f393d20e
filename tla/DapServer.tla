------------------------------ MODULE DapServer ------------------------------
(***************************************************************************)
(* GDBDAPServer of src/deployments/docker/runtimes/rust-gdb-dap-server.py: *)
(* the accept loop (start), the client loop (handle_client), the request  *)
(* handlers (handle_<command>), the gdb pipe helpers (_send_gdb_command,   *)
(* _read_gdb_until_prompt), the message senders (send_response,           *)
(* send_event, send_message) and the stop watcher threads                 *)
(* (_wait_for_stop), over the gdb process of module GdbMI.                 *)
(*                                                                         *)
(* Threads.  The main thread runs start/handle_client and one handler at a *)
(* time.  A handler is the sequence of steps its code performs ("prog"):   *)
(* one write of a command line under gdb_lock, one readline() of gdb's     *)
(* stdout, one seq assignment, one sendall, ... and the other threads and  *)
(* gdb may move between any two of them.  Each continue/next/stepIn/       *)
(* stepOut starts a watcher thread that reads the same stdout pipe.        *)
(*                                                                         *)
(* Atomicity.  readline() hands a whole line to one reader.  The          *)
(* statements "self.seq += 1" and the dict built from self.seq contain no *)
(* call, so CPython (3.10 and later) runs them without a thread switch: an *)
(* assignment of a sequence number is one step and the sendall of the     *)
(* message a later one.                                                    *)
(***************************************************************************)
EXTENDS GdbMI

CONSTANTS
    Requests,     \* the request commands the client may send
    MaxRequests,  \* bound on the requests received, over all connections
    MaxConns,     \* bound on the client connections accepted
    MaxLaunches,  \* bound on the gdb processes spawned
    MaxBps,       \* bound on the breakpoints of one setBreakpoints request
    SlowGdb       \* whether 5 s may pass while gdb prints one command's lines

\* The handle_<command> methods, and a command with no handler.
DapCommands == {"initialize", "launch", "setBreakpoints", "configurationDone",
                "threads", "stackTrace", "scopes", "variables", "continue",
                "next", "stepIn", "stepOut", "evaluate", "disconnect",
                "terminate", "unknown"}

ASSUME ServerAssumption ==
    /\ Requests \subseteq DapCommands
    /\ MaxRequests \in Nat \ {0}
    /\ MaxConns \in Nat \ {0}
    /\ MaxLaunches \in Nat
    /\ 1..MaxRequests \subseteq Procs
    /\ MaxBps \in Nat
    /\ SlowGdb \in BOOLEAN

\* A watcher thread is started by a request, and is named by the request's
\* id; a gdb process is named by the id of the launch request that spawns
\* it.
Watchers == 1..MaxRequests

EventNames == {"initialized", "process", "stopped", "terminated"}

(***************************************************************************)
(* The steps a handler performs.  a is the MI command of a write, the use  *)
(* of a read's output, the success flag of a response or the name of an   *)
(* event (a response carries "success" or "failure"); s is the stop       *)
(* record a "stopped" event reports.                                       *)
(***************************************************************************)
OpNames == {"spawn", "write", "read", "respond", "event", "watch", "kill",
            "halt"}
OpArgs  == MiOps \cup {"plain", "launch", "none", "success", "failure"}
           \cup EventNames
Op      == [op : OpNames, a : OpArgs, s : Nat]

Write(c)     == [op |-> "write", a |-> c, s |-> 0]
Read(u)      == [op |-> "read", a |-> u, s |-> 0]
Respond(ok)  == [op |-> "respond", a |-> IF ok THEN "success" ELSE "failure",
                 s |-> 0]
Event(e, s)  == [op |-> "event", a |-> e, s |-> s]
Do(o)        == [op |-> o, a |-> "none", s |-> 0]

\* One message of the client socket.  cause is the request whose handler
\* (or watcher) sent it, stop the stop record an event reports; conn is the
\* connection that carried it.  NoMsg stands for "no message".
Msg == [type : {"response", "event", "none"}, seq : Nat,
        command : DapCommands \cup EventNames \cup {"none"},
        request_seq : Nat, success : BOOLEAN, cause : Nat, stop : Nat,
        conn : Nat]
NoMsg == [type |-> "none", seq |-> 0, command |-> "none", request_seq |-> 0,
          success |-> FALSE, cause |-> 0, stop |-> 0, conn |-> 0]

\* The arguments of a request that change what its handler does.
Params(r) ==
    CASE r = "launch"         -> BOOLEAN        \* stopOnEntry
      [] r = "setBreakpoints" -> 0..MaxBps      \* len(breakpoints)
      [] r = "variables"      -> {1, 2}         \* variablesReference
      [] OTHER                -> {0}

\* The loop of handle_setBreakpoints: an insert and a read per breakpoint.
InsertLoop(n) ==
    [i \in 1..2 * n |-> IF i % 2 = 1 THEN Write("break-insert")
                                     ELSE Read("plain")]

\* The MI command a step request issues.
StepOp(r) ==
    CASE r = "continue" -> "exec-continue"
      [] r = "next"     -> "exec-next"
      [] r = "stepIn"   -> "exec-step"
      [] r = "stepOut"  -> "exec-finish"

\* handle_dap_message: the steps of the handler of request r with argument
\* x, when self.gdb_process is g.
Handler(r, x, g) ==
    CASE r = "initialize" ->
            <<Respond(TRUE), Event("initialized", 0)>>
      [] r = "launch" ->
            <<Do("spawn"), Read("plain")>>
            \o (IF x THEN <<Write("break-insert"), Read("plain")>> ELSE <<>>)
            \o <<Write("exec-run"), Read("launch"), Respond(TRUE),
                 Event("process", 0)>>
      [] r = "setBreakpoints" ->
            <<Write("break-delete"), Read("plain")>> \o InsertLoop(x)
            \o <<Respond(TRUE)>>
      [] r \in {"configurationDone", "threads", "scopes"} ->
            <<Respond(TRUE)>>
      [] r = "stackTrace" ->
            <<Write("stack-list-frames"), Read("plain"), Respond(TRUE)>>
      [] r = "variables" ->
            <<Write(IF x = 1 THEN "stack-list-locals"
                             ELSE "stack-list-arguments"),
              Read("plain"), Respond(TRUE)>>
      [] r \in {"continue", "next", "stepIn", "stepOut"} ->
            <<Write(StepOp(r)), Do("watch"), Respond(TRUE)>>
      [] r = "evaluate" ->
            <<Write("data-evaluate-expression"), Read("plain"), Respond(TRUE)>>
      [] r = "disconnect" ->
            (IF g # 0 THEN <<Write("gdb-exit"), Do("kill")>> ELSE <<>>)
            \o <<Do("halt"), Respond(TRUE)>>
      [] r = "terminate" ->
            (IF g # 0 THEN <<Write("exec-abort"), Write("gdb-exit"),
                             Do("kill")>> ELSE <<>>)
            \o <<Respond(TRUE)>>
      [] r = "unknown" ->
            <<Respond(FALSE)>>

\* A completion marker: "(gdb)", "^done" or "^error" in the line.
Marker(l) == l.k \in {"prompt", "done", "error"}

\* The stop records among the lines of an output.
StopsIn(out) == {i \in DOMAIN out : out[i].k = "stopped"}

WStates == {"none", "loop", "read", "assign", "sendall", "done"}

VARIABLES
    running,      \* self.running
    gdb_process,  \* self.gdb_process: 0 for None, else the process spawned
    seq,          \* self.seq
    nproc,        \* gdb processes spawned so far
    ncmd,         \* command lines written so far (the id of the last one)
    conn,         \* connections accepted so far (the current one)
    sock,         \* whether self.client_socket is open
    srv,          \* "accepting", "serving" (in handle_client) or "exited"
    nreq,         \* requests received so far (the id of the last one)
    req,          \* the request the main thread handles
    prog,         \* the steps its handler has still to perform
    acc,          \* the lines read since the last command was written
    outbox,       \* the message the main thread has numbered, not yet sent
    wst,          \* wst[w]: where watcher thread w is in _wait_for_stop
    wmsg,         \* wmsg[w]: the event watcher w is sending
    wire          \* the messages sent to clients, in order

srvVars == <<running, gdb_process, seq, nproc, ncmd, conn, sock, srv, nreq,
             req, prog, acc, outbox>>
wVars   == <<wst, wmsg>>
vars    == <<gdbVars, srvVars, wVars, wire>>

TypeOK ==
    /\ GdbTypeOK
    /\ running \in BOOLEAN
    /\ gdb_process \in {0} \cup Procs
    /\ seq \in Nat
    /\ nproc \in Nat
    /\ ncmd \in Nat
    /\ conn \in 0..MaxConns
    /\ sock \in BOOLEAN
    /\ srv \in {"accepting", "serving", "exited"}
    /\ nreq \in 0..MaxRequests
    /\ req \in [id : 0..MaxRequests, command : DapCommands \cup {"none"}]
    /\ prog \in Seq(Op)
    /\ acc \in Seq(Line)
    /\ outbox \in Msg
    /\ wst \in [Watchers -> WStates]
    /\ wmsg \in [Watchers -> Msg]
    /\ wire \in Seq(Msg)

Init ==
    /\ GdbInit
    /\ running = TRUE
    /\ gdb_process = 0
    /\ seq = 0
    /\ nproc = 0
    /\ ncmd = 0
    /\ conn = 0
    /\ sock = FALSE
    /\ srv = "accepting"
    /\ nreq = 0
    /\ req = [id |-> 0, command |-> "none"]
    /\ prog = <<>>
    /\ acc = <<>>
    /\ outbox = NoMsg
    /\ wst = [w \in Watchers |-> "none"]
    /\ wmsg = [w \in Watchers |-> NoMsg]
    /\ wire = <<>>

-----------------------------------------------------------------------------
(***************************************************************************)
(* The accept loop and the client loop.                                    *)
(***************************************************************************)

\* Popen.terminate() on process g: SIGTERM unless it has already exited.
Kill(g) ==
    pst' = IF g # 0 /\ pst[g] = "alive" THEN [pst EXCEPT ![g] = "killed"]
                                        ELSE pst

\* The finally block of handle_client, then the test of the accept loop.
EndClient ==
    /\ Kill(gdb_process)
    /\ sock' = FALSE
    /\ srv' = IF running THEN "accepting" ELSE "exited"
    /\ prog' = <<>>
    /\ outbox' = NoMsg

(* start: server.accept() returns the next client. *)
Accept ==
    /\ srv = "accepting"
    /\ running
    /\ conn < MaxConns
    /\ conn' = conn + 1
    /\ sock' = TRUE
    /\ srv' = "serving"
    /\ UNCHANGED <<gdbVars, running, gdb_process, seq, nproc, ncmd, nreq, req,
                   prog, acc, outbox, wVars, wire>>

(* handle_client decodes a request and handle_dap_message dispatches it.   *)
(* Once self.running is False, requests already in the buffer are still   *)
(* dispatched.                                                             *)
Receive ==
    /\ srv = "serving"
    /\ prog = <<>>
    /\ nreq < MaxRequests
    /\ \E r \in Requests : \E x \in Params(r) :
          /\ r = "launch" => nproc < MaxLaunches
          /\ req' = [id |-> nreq + 1, command |-> r]
          /\ prog' = Handler(r, x, gdb_process)
    /\ nreq' = nreq + 1
    /\ UNCHANGED <<gdbVars, running, gdb_process, seq, nproc, ncmd, conn,
                   sock, srv, acc, outbox, wVars, wire>>

(* recv() returns b"": the client closed the connection. *)
ClientHangup ==
    /\ srv = "serving"
    /\ prog = <<>>
    /\ running
    /\ EndClient
    /\ UNCHANGED <<inq, outq, inf, stopLog, running, gdb_process, seq, nproc,
                   ncmd, conn, nreq, req, acc, wVars, wire>>

(* "while self.running" fails after a disconnect: the client loop ends. *)
LoopExit ==
    /\ srv = "serving"
    /\ prog = <<>>
    /\ ~running
    /\ EndClient
    /\ UNCHANGED <<inq, outq, inf, stopLog, running, gdb_process, seq, nproc,
                   ncmd, conn, nreq, req, acc, wVars, wire>>

-----------------------------------------------------------------------------
(***************************************************************************)
(* The steps of a handler, performed by the main thread.                   *)
(***************************************************************************)

Step(o) == srv = "serving" /\ prog # <<>> /\ Head(prog).op = o

(* handle_launch: subprocess.Popen(["gdb", "--interpreter=mi", program]).  *)
(* gdb prints its banner and a prompt.                                     *)
Spawn ==
    /\ Step("spawn")
    /\ pst' = [pst EXCEPT ![req.id] = "alive"]
    /\ outq' = [outq EXCEPT ![req.id] = <<Ln("prompt", ncmd + 1, 0)>>]
    /\ gdb_process' = req.id
    /\ nproc' = nproc + 1
    /\ ncmd' = ncmd + 1
    /\ acc' = <<>>
    /\ prog' = Tail(prog)
    /\ UNCHANGED <<inq, inf, stopLog, running, seq, conn, sock, srv, nreq, req,
                   outbox, wVars, wire>>

(* Popen raises (no gdb binary, no such cwd): the except clause responds   *)
(* with success False.                                                     *)
SpawnFails ==
    /\ Step("spawn")
    /\ prog' = <<Respond(FALSE)>>
    /\ UNCHANGED <<gdbVars, running, gdb_process, seq, nproc, ncmd, conn, sock,
                   srv, nreq, req, acc, outbox, wVars, wire>>

(* _send_gdb_command with no gdb process: nothing is written. *)
WriteNone ==
    /\ Step("write")
    /\ gdb_process = 0
    /\ prog' = Tail(prog)
    /\ UNCHANGED <<gdbVars, running, gdb_process, seq, nproc, ncmd, conn, sock,
                   srv, nreq, req, acc, outbox, wVars, wire>>

(* _send_gdb_command: the line is written and flushed under gdb_lock. *)
WriteCmd ==
    /\ Step("write")
    /\ gdb_process # 0
    /\ pst[gdb_process] \in {"alive", "killed"}
    /\ inq' = [inq EXCEPT ![gdb_process] =
                 Append(@, [id |-> ncmd + 1, op |-> Head(prog).a])]
    /\ ncmd' = ncmd + 1
    /\ acc' = <<>>
    /\ prog' = Tail(prog)
    /\ UNCHANGED <<pst, outq, inf, stopLog, running, gdb_process, seq, nproc,
                   conn, sock, srv, nreq, req, outbox, wVars, wire>>

(* _send_gdb_command to a gdb that has exited: write/flush raise           *)
(* BrokenPipeError, which only handle_client catches: the connection ends  *)
(* without a response.                                                     *)
WriteBroken ==
    /\ Step("write")
    /\ gdb_process # 0
    /\ pst[gdb_process] = "dead"
    /\ EndClient
    /\ UNCHANGED <<inq, outq, inf, stopLog, running, gdb_process, seq, nproc,
                   ncmd, conn, nreq, req, acc, wVars, wire>>

\* What follows a read in the handler: handle_launch reports a stop when
\* "*stopped" is in the output of -exec-run, after its other messages.
AfterRead(out) ==
    IF Head(prog).a = "launch" /\ StopsIn(out) # {}
    THEN Append(Tail(prog),
                Event("stopped", out[CHOOSE i \in StopsIn(out) : TRUE].s))
    ELSE Tail(prog)

(* _read_gdb_until_prompt: readline() returns the next line; the read ends *)
(* at a completion marker.                                                 *)
ReadLine ==
    /\ Step("read")
    /\ gdb_process # 0
    /\ outq[gdb_process] # <<>>
    /\ LET l == Head(outq[gdb_process]) IN
       /\ outq' = [outq EXCEPT ![gdb_process] = Tail(@)]
       /\ acc' = Append(acc, l)
       /\ prog' = IF Marker(l) THEN AfterRead(Append(acc, l)) ELSE prog
    /\ UNCHANGED <<pst, inq, inf, stopLog, running, gdb_process, seq, nproc,
                   ncmd, conn, sock, srv, nreq, req, outbox, wVars, wire>>

(* _read_gdb_until_prompt: 5 s pass without a marker.  readline() blocks   *)
(* on a live gdb, so the loop only comes round to its time test when       *)
(* there is no process, at end of file, or after a line that came late.   *)
ReadTimeout ==
    /\ Step("read")
    /\ \/ gdb_process = 0
       \/ gdb_process # 0 /\ AtEOF(gdb_process)
       \/ SlowGdb /\ acc # <<>>
    /\ prog' = AfterRead(acc)
    /\ UNCHANGED <<gdbVars, running, gdb_process, seq, nproc, ncmd, conn, sock,
                   srv, nreq, req, acc, outbox, wVars, wire>>

\* Fault variant of MainMsg: the response is built from the handler's step
\* alone and names its outcome where the request's command belongs.
MainMsgRaw(o, n) ==
    IF o.op = "respond"
    THEN [type |-> "response", seq |-> n, command |-> o.a,
          request_seq |-> req.id, success |-> o.a = "success",
          cause |-> req.id, stop |-> 0, conn |-> 0]
    ELSE [type |-> "event", seq |-> n, command |-> o.a, request_seq |-> 0,
          success |-> TRUE, cause |-> req.id, stop |-> o.s, conn |-> 0]

\* The dict that send_response (for a "respond" step) or send_event builds
\* with sequence number n.
MainMsg(o, n) ==
    IF o.op = "respond"
    THEN [type |-> "response", seq |-> n, command |-> req.command,
          request_seq |-> req.id, success |-> o.a = "success",
          cause |-> req.id, stop |-> 0, conn |-> 0]
    ELSE [type |-> "event", seq |-> n, command |-> o.a, request_seq |-> 0,
          success |-> TRUE, cause |-> req.id, stop |-> o.s, conn |-> 0]

(* send_response / send_event: self.seq += 1 and the message is built. *)
Number ==
    /\ Step("respond") \/ Step("event")
    /\ outbox = NoMsg
    /\ seq' = seq + 1
    /\ outbox' = MainMsg(Head(prog), seq + 1)
    /\ UNCHANGED <<gdbVars, running, gdb_process, nproc, ncmd, conn, sock, srv,
                   nreq, req, prog, acc, wVars, wire>>

(* send_message: sendall on self.client_socket; an error is only printed. *)
Send ==
    /\ Step("respond") \/ Step("event")
    /\ outbox # NoMsg
    /\ wire' = IF sock THEN Append(wire, [outbox EXCEPT !.conn = conn])
                       ELSE wire
    /\ outbox' = NoMsg
    /\ prog' = Tail(prog)
    /\ UNCHANGED <<gdbVars, running, gdb_process, seq, nproc, ncmd, conn, sock,
                   srv, nreq, req, acc, wVars>>

(* threading.Thread(target=self._wait_for_stop).start() *)
StartWatcher ==
    /\ Step("watch")
    /\ wst' = [wst EXCEPT ![req.id] = "loop"]
    /\ prog' = Tail(prog)
    /\ UNCHANGED <<gdbVars, running, gdb_process, seq, nproc, ncmd, conn, sock,
                   srv, nreq, req, acc, outbox, wmsg, wire>>

(* self.gdb_process.terminate() in handle_disconnect / handle_terminate *)
Terminate ==
    /\ Step("kill")
    /\ Kill(gdb_process)
    /\ prog' = Tail(prog)
    /\ UNCHANGED <<inq, outq, inf, stopLog, running, gdb_process, seq, nproc,
                   ncmd, conn, sock, srv, nreq, req, acc, outbox, wVars, wire>>

(* self.running = False in handle_disconnect *)
Halt ==
    /\ Step("halt")
    /\ running' = FALSE
    /\ prog' = Tail(prog)
    /\ UNCHANGED <<gdbVars, gdb_process, seq, nproc, ncmd, conn, sock, srv,
                   nreq, req, acc, outbox, wVars, wire>>

-----------------------------------------------------------------------------
(***************************************************************************)
(* _wait_for_stop, run by watcher thread w.                                *)
(***************************************************************************)

\* Fault variant of WLoop: the loop tests only self.gdb_process.
WLoopNoRunning(w) ==
    /\ wst[w] = "loop"
    /\ wst' = [wst EXCEPT ![w] = IF gdb_process # 0 THEN "read" ELSE "done"]
    /\ UNCHANGED <<gdbVars, srvVars, wmsg, wire>>

(* "while self.running and self.gdb_process" *)
WLoop(w) ==
    /\ wst[w] = "loop"
    /\ wst' = [wst EXCEPT ![w] = IF running /\ gdb_process # 0 THEN "read"
                                                               ELSE "done"]
    /\ UNCHANGED <<gdbVars, srvVars, wmsg, wire>>

(* readline() returns a line: "*stopped" is reported, anything else is     *)
(* skipped.  reason="exited..." gives a terminated event.                  *)
WReadLine(w) ==
    /\ wst[w] = "read"
    /\ outq[gdb_process] # <<>>
    /\ LET l == Head(outq[gdb_process]) IN
       /\ outq' = [outq EXCEPT ![gdb_process] = Tail(@)]
       /\ IF l.k = "stopped"
          THEN /\ wst' = [wst EXCEPT ![w] = "assign"]
               /\ wmsg' = [wmsg EXCEPT ![w] =
                     [NoMsg EXCEPT !.type = "event",
                        !.command = IF stopLog[l.s] = "exited" THEN "terminated"
                                                               ELSE "stopped",
                        !.success = TRUE, !.cause = w, !.stop = l.s]]
          ELSE /\ wst' = [wst EXCEPT ![w] = "loop"]
               /\ UNCHANGED wmsg
    /\ UNCHANGED <<pst, inq, inf, stopLog, srvVars, wire>>

(* readline() at end of file returns "" at once: the loop goes round      *)
(* again, and spins as long as self.running holds.                         *)
WReadEOF(w) ==
    /\ wst[w] = "read"
    /\ AtEOF(gdb_process)
    /\ wst' = [wst EXCEPT ![w] = "loop"]
    /\ UNCHANGED <<gdbVars, srvVars, wmsg, wire>>

\* Fault variant of WNumber: the event takes the number before the
\* increment, the one the previous message got.
WNumberStale(w) ==
    /\ wst[w] = "assign"
    /\ seq' = seq + 1
    /\ wmsg' = [wmsg EXCEPT ![w].seq = seq]
    /\ wst' = [wst EXCEPT ![w] = "sendall"]
    /\ UNCHANGED <<gdbVars, running, gdb_process, nproc, ncmd, conn, sock, srv,
                   nreq, req, prog, acc, outbox, wire>>

(* send_event: self.seq += 1 and the event is built. *)
WNumber(w) ==
    /\ wst[w] = "assign"
    /\ seq' = seq + 1
    /\ wmsg' = [wmsg EXCEPT ![w].seq = seq + 1]
    /\ wst' = [wst EXCEPT ![w] = "sendall"]
    /\ UNCHANGED <<gdbVars, running, gdb_process, nproc, ncmd, conn, sock, srv,
                   nreq, req, prog, acc, outbox, wire>>

(* send_message, then return / break: the watcher ends. *)
WSend(w) ==
    /\ wst[w] = "sendall"
    /\ wire' = IF sock THEN Append(wire, [wmsg[w] EXCEPT !.conn = conn])
                       ELSE wire
    /\ wst' = [wst EXCEPT ![w] = "done"]
    /\ UNCHANGED <<gdbVars, srvVars, wmsg>>

-----------------------------------------------------------------------------

MainStep ==
    \/ Spawn \/ SpawnFails \/ WriteNone \/ WriteCmd \/ WriteBroken
    \/ ReadLine \/ ReadTimeout \/ Number \/ Send \/ StartWatcher
    \/ Terminate \/ Halt

WatcherStep(w) ==
    WLoop(w) \/ WReadLine(w) \/ WReadEOF(w) \/ WNumber(w) \/ WSend(w)

Next ==
    \/ Accept \/ Receive \/ ClientHangup \/ LoopExit
    \/ MainStep
    \/ \E w \in Watchers : WatcherStep(w)
    \/ GdbNext /\ UNCHANGED <<srvVars, wVars, wire>>

(* The main and watcher threads are scheduled fairly and so is gdb; the    *)
(* client and the debugged program are not: a client may stay silent and  *)
(* a program may run for ever.                                             *)
Fairness ==
    /\ WF_vars(MainStep)
    /\ WF_vars(LoopExit)
    /\ \A w \in Watchers : WF_vars(WatcherStep(w))
    /\ \A p \in Procs : WF_vars(GdbStep(p) /\ UNCHANGED <<srvVars, wVars, wire>>)
    /\ \A p \in Procs : WF_vars(GdbDies(p) /\ UNCHANGED <<srvVars, wVars, wire>>)

Spec == Init /\ [][Next]_vars

FairSpec == Spec /\ Fairness

-----------------------------------------------------------------------------
(***************************************************************************)
(* Properties.                                                             *)
(***************************************************************************)

\* A stop report: a stopped or terminated event.
IsStopEvent(m) == m.type = "event" /\ m.command \in {"stopped", "terminated"}

(* send_response and send_event, from the main thread and from watcher     *)
(* threads, never give two messages the same seq: the spec's "sequence     *)
(* numbers are never reused", under threads that number concurrently.      *)
SeqUnique ==
    \A i, j \in DOMAIN wire : i # j => wire[i].seq # wire[j].seq

(* The client receives the messages of a connection in increasing seq      *)
(* order (spec section 3 and 5: seq never assigned out of send order).     *)
WireSeqIncreasing ==
    \A i, j \in DOMAIN wire :
        i < j /\ wire[i].conn = wire[j].conn => wire[i].seq < wire[j].seq

(* The response to continue/next/stepIn/stepOut reaches the client before  *)
(* the stopped or terminated event its watcher thread reports, and on the *)
(* same connection (spec 4.4: responses precede the events their side     *)
(* effects trigger; spec 2: a session's events end with its connection).  *)
ResponseBeforeStopEvent ==
    \A i \in DOMAIN wire :
        IsStopEvent(wire[i]) =>
            \E j \in 1..(i - 1) : /\ wire[j].type = "response"
                                  /\ wire[j].request_seq = wire[i].cause
                                  /\ wire[j].conn = wire[i].conn

(* _read_gdb_until_prompt returns the text gdb printed for the command     *)
(* just written, up to its completion marker (spec 4.2): every line read   *)
(* since the last write came from that command or is an asynchronous      *)
(* record.                                                                 *)
ReadOwnOutput ==
    \A i \in DOMAIN acc : acc[i].c \in {ncmd, 0}

(* Once the accept loop has ended (after a disconnect), every watcher      *)
(* thread started by _wait_for_stop ends too, so the process can exit.     *)
WatchersReapedOnExit ==
    srv = "exited" ~> \A w \in Watchers : wst[w] \in {"none", "done"}

(* Every handler the main thread starts comes to its end: the spec's      *)
(* bounded wait of each synchronous read (section 5, "expiry yields        *)
(* whatever partial output was captured").                                 *)
HandlerCompletes ==
    \A q \in 1..MaxRequests :
        (req.id = q /\ prog # <<>>) ~> (req.id # q \/ prog = <<>>)

(* A watcher thread ends once the gdb it reads from has exited (spec 4.5:  *)
(* "the watcher terminates when the session terminates").                 *)
WatcherEndsWithGdb ==
    \A w \in Watchers :
        (wst[w] \notin {"none", "done"} /\ gdb_process # 0
            /\ pst[gdb_process] = "dead")
        ~> (wst[w] = "done")

(* No gdb process is left running once the client loop has ended (spec    *)
(* 4.6: on socket closure the debugger process is terminated; spec 1: at  *)
(* most one subprocess is supervised per bridge instance).                 *)
NoOrphanGdb ==
    srv # "serving" => \A p \in Procs : pst[p] # "alive"

(* Every request the main thread receives gets a response on the wire      *)
(* (spec section 7: "every request gets exactly one response"; section 8: *)
(* a repeated disconnect or terminate must not fail).  A handler whose     *)
(* _send_gdb_command raises ends handle_client before send_response.      *)
EveryRequestAnswered ==
    \A q \in 1..MaxRequests :
        (nreq >= q) ~> (\E i \in DOMAIN wire : /\ wire[i].type = "response"
                                              /\ wire[i].request_seq = q)

=============================================================================
