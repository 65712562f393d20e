------------------------------- MODULE GdbMI -------------------------------
(***************************************************************************)
(* The environment of the bridge: the native debugger started as          *)
(* "gdb --interpreter=mi <program>" (rust-gdb-dap-server.py, handle_launch) *)
(* and the program it debugs.  This is not code of the repository; it is  *)
(* what the bridge relies on, written from the GDB/MI output grammar:      *)
(*                                                                         *)
(*   - gdb reads one command line at a time from its stdin pipe and       *)
(*     answers with a result record (^done, ^error or ^running, or ^exit   *)
(*     for -gdb-exit) followed by the prompt line "(gdb)";                 *)
(*   - in the default synchronous MI mode gdb does not read a new command *)
(*     while the program runs; it reads again after the program stops;     *)
(*   - when the running program stops gdb prints "*stopped,reason=..."    *)
(*     followed by "(gdb)";                                                *)
(*   - SIGTERM (Popen.terminate) ends gdb some time later; -gdb-exit ends  *)
(*     it at once.  Lines already written stay readable from the pipe,    *)
(*     after them the pipe is at end of file.                              *)
(*                                                                         *)
(* An output line is abstracted to its kind, the command that produced it *)
(* (c, 0 for asynchronous records) and, for a stop record, the index of    *)
(* the stop in stopLog (s), where its reason is kept.                       *)
(***************************************************************************)
EXTENDS Naturals, Sequences

CONSTANT Procs   \* names of the gdb processes the bridge may spawn

ASSUME ProcsAssumption == Procs \subseteq Nat \ {0}

\* The MI commands the bridge issues (the "-..." strings of the source).
ResumeOps  == {"exec-continue", "exec-next", "exec-step", "exec-finish"}
InspectOps == {"stack-list-frames", "stack-list-locals",
               "stack-list-arguments", "data-evaluate-expression"}
MiOps == {"break-insert", "break-delete", "exec-run", "exec-abort",
          "gdb-exit"} \cup ResumeOps \cup InspectOps

LineKinds == {"prompt", "done", "error", "running", "stopped", "exit"}

\* reason="breakpoint-hit" (or function-finished), "end-stepping-range",
\* "exited..."
StopReasons == {"hit", "step", "exited"}

\* Life of a gdb process; "killed" = SIGTERM sent, not yet dead.
ProcStates == {"none", "alive", "killed", "dead"}

\* The debugged program: not started, stopped, exited, or running after a
\* run/continue/finish ("run") or after a next/step ("step").
InfStates == {"none", "stopped", "exited", "run", "step"}

Line == [k : LineKinds, c : Nat, s : Nat]
Cmd  == [id : Nat, op : MiOps]

Ln(k, c, s) == [k |-> k, c |-> c, s |-> s]

VARIABLES
    pst,      \* pst[p]: state of gdb process p
    inq,      \* inq[p]: command lines written to p's stdin, not yet read
    outq,     \* outq[p]: lines p has written to its stdout, not yet read
    inf,      \* inf[p]: state of the program debugged by p
    stopLog   \* reason of every stop record printed so far, by index

gdbVars == <<pst, inq, outq, inf, stopLog>>

GdbTypeOK ==
    /\ pst \in [Procs -> ProcStates]
    /\ inq \in [Procs -> Seq(Cmd)]
    /\ outq \in [Procs -> Seq(Line)]
    /\ inf \in [Procs -> InfStates]
    /\ stopLog \in Seq(StopReasons)

GdbInit ==
    /\ pst = [p \in Procs |-> "none"]
    /\ inq = [p \in Procs |-> <<>>]
    /\ outq = [p \in Procs |-> <<>>]
    /\ inf = [p \in Procs |-> "none"]
    /\ stopLog = <<>>

\* The state a resume command puts the program in, when gdb accepts it.
RunMode(op) == IF op \in {"exec-next", "exec-step"} THEN "step" ELSE "run"

\* Whether gdb accepts to start or resume the program in state i.
CanResume(op, i) ==
    IF op = "exec-run" THEN i \in {"none", "exited"} ELSE i = "stopped"

\* gdb answers command c with a result record of kind k and the prompt.
Answer(p, c, k) ==
    outq' = [outq EXCEPT ![p] = @ \o <<Ln(k, c.id, 0), Ln("prompt", c.id, 0)>>]

(* gdb reads the next command line and answers it. *)
GdbStep(p) ==
    /\ pst[p] = "alive"
    /\ inq[p] # <<>>
    /\ inf[p] \notin {"run", "step"}
    /\ inq' = [inq EXCEPT ![p] = Tail(@)]
    /\ LET c == Head(inq[p]) IN
       \/ /\ c.op = "gdb-exit"
          /\ outq' = [outq EXCEPT ![p] = Append(@, Ln("exit", c.id, 0))]
          /\ pst' = [pst EXCEPT ![p] = "dead"]
          /\ UNCHANGED inf
       \/ /\ c.op \in ResumeOps \cup {"exec-run"}
          /\ CanResume(c.op, inf[p])
          /\ Answer(p, c, "running")
          /\ inf' = [inf EXCEPT ![p] = RunMode(c.op)]
          /\ UNCHANGED pst
       \/ /\ c.op \in ResumeOps \cup {"exec-run"}
          /\ ~CanResume(c.op, inf[p])
          /\ Answer(p, c, "error")
          /\ UNCHANGED <<pst, inf>>
       \/ /\ c.op = "break-delete"
          /\ Answer(p, c, "done")
          /\ UNCHANGED <<pst, inf>>
       \* a location or expression gdb may accept or reject
       \/ /\ c.op \in {"break-insert"} \cup InspectOps
          /\ \E k \in {"done", "error"} : Answer(p, c, k)
          /\ UNCHANGED <<pst, inf>>
       \* gdb has no MI command -exec-abort: "Undefined MI command"
       \/ /\ c.op = "exec-abort"
          /\ Answer(p, c, "error")
          /\ UNCHANGED <<pst, inf>>
    /\ UNCHANGED stopLog

(* The running program stops: a breakpoint, the end of a step, or exit. *)
InferiorStop(p) ==
    /\ pst[p] = "alive"
    /\ inf[p] \in {"run", "step"}
    /\ \E r \in StopReasons :
          /\ r = "step" => inf[p] = "step"
          /\ stopLog' = Append(stopLog, r)
          /\ outq' = [outq EXCEPT ![p] =
                @ \o <<Ln("stopped", 0, Len(stopLog) + 1), Ln("prompt", 0, 0)>>]
          /\ inf' = [inf EXCEPT ![p] = IF r = "exited" THEN "exited"
                                                        ELSE "stopped"]
    /\ UNCHANGED <<pst, inq>>

(* A gdb that was sent SIGTERM terminates. *)
GdbDies(p) ==
    /\ pst[p] = "killed"
    /\ pst' = [pst EXCEPT ![p] = "dead"]
    /\ UNCHANGED <<inq, outq, inf, stopLog>>

GdbNext == \E p \in Procs : GdbStep(p) \/ InferiorStop(p) \/ GdbDies(p)

\* Whether a readline() on p's stdout returns at once with end of file.
AtEOF(p) == outq[p] = <<>> /\ pst[p] = "dead"

=============================================================================
