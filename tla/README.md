# TLA+ models of the debug bridge and the load generator

This directory holds TLA+ models of two concurrent programs in this repository. It also holds the TLC configurations that check the models and TLAPS proofs about them.

- `src/deployments/docker/runtimes/rust-gdb-dap-server.py` is the DAP bridge. A Debug Adapter Protocol server translates client requests into GDB/MI commands.
- `src/scripts/stress_test.py` is the load generator. A pool of worker threads shares a request-id counter, and `main` aggregates their results.

## Inventory

| Part | Source | Module | Status |
|---|---|---|---|
| Accept loop `start`, client loop `handle_client` (frame loop, `finally`) | rust-gdb-dap-server.py 33-85 | DapServer, FrameCodec, FrameChannel | modelled: DapServer at the level of whole requests, FrameCodec at the level of bytes on one connection |
| Dispatch `handle_dap_message` and the 15 `handle_<command>` handlers | 124-363 | DapServer | modelled |
| `_send_gdb_command`, `_read_gdb_until_prompt` | 365-390 | DapServer | modelled |
| `send_response`, `send_event`, `send_message` | 87-122 | DapServer | modelled (JSON and header left out) |
| Watcher threads `_wait_for_stop` | 392-414 | DapServer | modelled |
| gdb in MI mode, and the debugged program | not in the repository | GdbMI | modelled from the GDB/MI grammar |
| Workers `run_worker`, `_thread_main`; main's start, join and aggregate | stress_test.py 803-961, 1140-1240 | StressWorkers | modelled (`--requests` mode) |
| `--duration` mode and `--qps` pacing | stress_test.py 867-892 | none | not modelled: wall-clock only |
| HTTP client, build helpers, `ensure_function`, report layout, `_pct` | stress_test.py 477-760, 1241- | none | not modelled: sequential I/O and formatting |
| `handler`/`_xorshift32` (code shipped to the platform) | stress_test.py 30-475 | none | not modelled: run by the platform, not by the tool |
| `runtime-python.py`, `test_debugpy.py` | | none | not modelled: sequential, no shared state |

### How the bridge's parts interact

The main thread accepts one client at a time and runs one handler at a time. A handler writes MI commands to gdb's stdin and reads gdb's stdout line by line until a completion marker. It then numbers a response (`self.seq += 1`) and sends it.

`continue`, `next`, `stepIn` and `stepOut` each start a watcher thread. The watcher reads the same stdout pipe until a `*stopped` record. It then numbers and sends a `stopped` or `terminated` event.

Three actors therefore move between any two steps of a handler:
- the watchers;
- gdb, which in synchronous MI mode reads no command while the program runs;
- the program, which stops when it likes.

## Modules

- **GdbMI**: the environment.
  - `pst`, `inq`, `outq`, `inf` and `stopLog` are the process state, the stdin and stdout pipes, the program state and the stop reasons.
  - `GdbStep` reads a command and answers with a result record and a `(gdb)` prompt. `-exec-abort` gets `^error`, `-gdb-exit` gets `^exit` and ends gdb.
  - `InferiorStop` prints `*stopped` and a prompt. `GdbDies` is SIGTERM taking effect.
  - All of GdbMI is marked `spec_modelled` in PROJECT.json.
- **DapServer**: the bridge.
  - A handler is the sequence `prog` of its steps, built by `Handler(r, x, g)` from the code of `handle_<r>`.
  - Each kind of step is one action, in the code's order:
    - `Spawn` and `SpawnFails` (Popen);
    - `WriteCmd`, `WriteNone` and `WriteBroken` (`_send_gdb_command`);
    - `ReadLine` and `ReadTimeout` (`_read_gdb_until_prompt`);
    - `Number` and `Send` (send_response and send_event, then send_message);
    - `StartWatcher`, `Terminate` and `Halt`.
  - `Accept`, `Receive`, `ClientHangup` and `LoopExit` are the two loops. `EndClient` is the `finally` block.
  - Watcher `w` runs `WLoop`, `WReadLine`, `WReadEOF`, `WNumber` and `WSend`.
  - `self.seq += 1` and the dict built from it contain no call. CPython does not switch threads inside them, so numbering is one step and `sendall` another.
- **StressWorkers**: the worker pool.
  - `Acquire` and `Increment` are the `with next_lock` block. `Bound` is the `max_requests` test.
  - `Send` covers the pick, the HTTP call (abstracted to its outcome: ok, bad status or exception) and the result update `Record`.
  - `Publish` is the append under `results_lock`.
  - `Start`, `Join` and `Report` are main's loops and sums.
  - The weighted pick `uniform(0, total)`, `bisect_right` and the clamp is `PickTarget`, taken over the half-integer points `h/2`. Each issued request is recorded in the history `sent` with its id, draw point and target. `bisect_right` gives the same index on an open interval between integers as at its midpoint, so these points cover every case.
- **FrameCodec**: the byte level of `handle_client` on one connection (lines 51-85).
  - `net` holds the bytes the client has written and `recv` has not returned; `buf` is the decoded `str` buffer.
  - `Recv` takes the first 1..`MaxChunk` bytes. It decodes them on their own, like `data.decode('utf-8')`. A chunk that cuts a character raises, and the `except` clause ends the loop. `RecvEOF` is `if not data: break`. Both are guarded by the outer `while self.running` (line 55). `RecvStopped` is that test failing: the loop ends without reading what the client has sent since.
  - `Parse` is one round of the inner `while True`. If the buffer has no header at its head, or fewer characters than `header_length + content_length`, the loop goes back to `recv` (`HasFrame`). Otherwise it slices the message off, and `json.loads` (`ValidJson`) either passes it on or raises and ends the loop.
  - `Dispatch` is the call `handle_dap_message` (line 77), kept only for what the handler does to the loop. It returns. Or it returns having cleared `self.running`, as `handle_disconnect` does (line 354). Or it raises, and the `except` at 79-80 ends the loop; a write to an exited gdb does this (run lost_response). Or it never returns, a blocked read of gdb's output (run handler_hang). The inner `while True` does not test `self.running`, so frames already buffered are still handled after a disconnect.
  - The data is abstracted. A body is a flat JSON object over the characters `{`, `}`, `a` (ASCII) and `u` (two UTF-8 bytes `u1 u2`). The header `Content-Length: n\r\n\r\n` is one element `H(n)`: it is ASCII, and the regex only matches it whole, so a header split over chunks only waits, as a short body does.
  - The client (`ClientSend`, `ClientClose`) frames bodies as spec section 4.1 says: the header counts bytes. It is not code of the repository and is marked `spec_modelled`.
- **FrameChannel**: the abstract promise of the transport loop (spec 4.1, 4.4, 4.6 and 7).
  - Requests are handed on in order, each exactly once.
  - The server side closes with requests not yet handed on only when the session ends the connection: a handler that raises closes it at once (`Deliver` with `open' = FALSE`, spec 4.6), and a handler that asks the loop to stop (`stopped`, spec 4.4) allows a later `Close`. Otherwise it closes only once everything sent has been handed on.
  - FrameCodec implements it under the mapping `open <- (pc # "done")`, `stopped <- ~running`: `Channel == INSTANCE FrameChannel WITH ...`, with the property `Refines == Channel!Spec`.
- **MC_DapServer**, **MC_StressWorkers** and **MC_FrameCodec** give the constants for TLC.
- **DapServerProofs**, **DapServerSeqProofs**, **StressWorkersProofs**, **StressReportProofs**, **StressPickProofs** and **StressTypeProofs** hold the TLAPS proofs. Each one EXTENDS the one before it in its chain.

## Runs

| Run | Checks | Result |
|---|---|---|
| dap_safety | TypeOK, SeqUnique, WatchersReapedOnExit | pass under FairSpec, about 1.1 M distinct states, 2 connections, SlowGdb |
| stress | TypeOK, PickMatchesWeights, IdsIssuedOnce, ReportCountsAll, Terminates | pass, 106 k states, 2 workers, 2 requests, weights <<1, 2>> |
| wire_order | WireSeqIncreasing | violated: a watcher numbers and sends between a response's numbering and its sendall |
| continue_order | ResponseBeforeStopEvent | violated: the watcher starts before the continue response is sent. The property also requires the event on its request's connection, which a watcher outliving its connection breaks |
| read_desync | ReadOwnOutput | violated: the prompt after `^done` is read as the next command's answer |
| handler_hang | HandlerCompletes | violated: a command written while the program runs is never answered, and readline blocks past the 5 s timeout |
| watcher_spin | WatcherEndsWithGdb | violated: after a hang-up the watcher spins on EOF, because `running` and `gdb_process` are never reset |
| orphan_gdb | NoOrphanGdb | violated: a second launch leaves the first gdb alive |
| lost_response | EveryRequestAnswered | violated: a second disconnect (already in the buffer) writes `-gdb-exit` to the exited gdb; `BrokenPipeError` ends `handle_client` with no response |
| frame_channel | Refines, AllDelivered | pass, 1913 states: ASCII bodies, 3 requests, chunks of 1 to 6 bytes, every handler outcome; `handle_client` implements FrameChannel, and delivers every request unless the session stopped, raised or hung (`SessionEnded`) |
| frame_split | NoDecodeFailure | violated: a chunk ends between the two bytes of a character and `decode` raises |
| frame_length | NoJsonFailure | violated: `Content-Length` counts bytes but the slice counts characters, so the slice takes the next frame's header and `json.loads` fails |

The nine violations are code bugs against the spec's statements. PROJECT.json lists them under "findings". Every property of a passing run has a mutant: a plausible bug in the mapped code, which TLC shows violates it.

### Bounds

- **DAP runs.** `MaxRequests = 3` allows a launch, a step request and one more request that races the watcher. Three is the smallest number where a watcher, the main thread and gdb all act at once.
  - `MaxConns = 2` in the safety run lets a watcher of the first connection outlive it.
  - `MaxBps = 1` exercises the insert loop.
  - The safety run's requests (`MCRequestsSafety`) leave out two requests whose handlers take a path another one already takes. `continue` is covered by `next`: step mode allows every stop that run mode allows, plus the end of a step. `evaluate` is covered by `stackTrace`: one inspect command, its reply, then the response. This keeps the exhaustive run at about 1.1 M states. The full session set (2.9 M states) does not fit in the time limit with two runs sharing the machine. The violation runs use the full set.
  - `MaxLaunches = 1` (2 in orphan_gdb) bounds spawns.
- **CHECK_DEADLOCK FALSE in the DAP runs.** The bridge really stops: once the request bound is spent, the server blocks in `accept()` or `recv()` waiting for a client.
- **Stress run.** Two workers and `max_requests = 2` make both workers race for the lock and both of them see the bound. Every issued request is kept in the history `sent` with its draw point, which multiplies the states, so the bound stays at 2. Weights `<<1, 2>>` give two bands of different width and the end point `h = 2 * total`.
  - Deadlock is checked there: `Exit` is the only stop, after the report.
- **Frame runs.**
  - Three requests and chunks of up to 6 bytes: a chunk can end inside a header's body, cut a character, or hold the end of one frame and a whole next one. With 6 bytes, two complete frames can wait in the buffer at once, so dropping the inner `while` (one frame per `recv`) is caught.
  - Two bodies per run tell frames apart, and one is the empty object.
  - CHECK_DEADLOCK FALSE: the model is one connection, which really ends (`pc = "done"`) once the client has closed and the loop has returned.

### Fairness

- DapServer: weak fairness on the main thread's steps, on `LoopExit`, on each watcher, and on gdb's `GdbStep` and `GdbDies`. These are threads and a process the OS schedules.
  - The client (`Receive`, `ClientHangup`, `Accept`) gets no fairness: a client may stay silent.
  - The program gets none either (`InferiorStop`): it may run for ever.
- FrameCodec: weak fairness on `Recv`, `RecvEOF`, `RecvStopped` and `Parse`, i.e. on the server thread, which the OS schedules. A handler that blocks is a state (`pc = "hung"`) where none of them is enabled, so fairness does not assume handlers return; `AllDelivered` excuses exactly that case, a raising handler and a cleared `running` (`SessionEnded`). The client gets no fairness: it need not send or close.
- StressWorkers: weak fairness on each worker and on main's start, join and report. Each HTTP call ends at the latest by its timeout.

## Proofs

`DapServerProofs.TypeCorrect`: `Spec => []TypeOK`, for every value of the constants that satisfies `ServerAssumption` and `ProcsAssumption`.

`TypeOK` is not inductive on its own. A step takes `Head(prog)` and writes its argument to gdb as an MI command, so the proof needs the fact that every pending step is well formed. The inductive invariant `IInv` therefore adds three conjuncts:
- `prog \in Seq(GoodOp)`: a write carries an MI command, an event an event name;
- a pending handler has a request id in `1..MaxRequests`, the name of a watcher and of a process;
- a watcher that is reading has a gdb process to read from.

TLC checked `IInv` as an invariant of the dap_safety instance before the proof was written.

The proof has three parts:
- `InitIInv`;
- `NextIInv`, with one case per action and, under the watcher case, one per watcher step;
- the temporal step `PTL`.

The lemmas it rests on:
- `HandlerGood`: every handler's step sequence is in `Seq(GoodOp)`, one case per arm of `Handler`;
- `AfterReadGood`: the read's continuation, including the added stopped event, is well formed;
- `EndClientType` and `KillType`: the `finally` block keeps the types;
- record-update lemmas for `Msg`.

`StressWorkersProofs.IdsOnce`: `Spec => []IdsIssuedOnce`, for every set of workers, every `max_requests` and every weight vector allowed by `StressAssumption`.
- `IdsIssuedOnce` is not inductive: between the lock and its send, a worker carries an id that is not yet in the history.
- `IInv` adds what `next_lock` guarantees:
  - `StartInv`: a thread main has not started is idle.
  - `LockInv`: the holder of the lock is the one thread inside the critical section, and it reads the current counter.
  - `FlightInv`: the ids of threads past the lock are below the counter, pairwise distinct and not yet sent; a thread about to send has passed the bound.
- TLC checked `IInv` on 3 workers (3.1 M states) before the proof was written.
- There is one lemma per worker step (`AcquireKeeps`, `IncrementKeeps`, `BoundKeeps`, `SendKeeps`, `PublishKeeps`) and one for main's steps. `StartKept` is shared by the worker steps.
- The proof does not depend on the weights: the target of a send is only known to be a pick of `PickTarget`.

`DapServerSeqProofs.SeqNeverReused`: `Spec => []SeqUnique`, under the same assumptions. No two messages on the wire carry the same `seq`, over any number of connections and watcher threads.
- `SeqUnique` is not inductive. A message is numbered (`self.seq += 1` and the dict) one step before its `sendall`, and other threads number and send in between.
- `SeqInv` adds what holds of the numbered messages not yet sent: the main thread's `outbox` and the `wmsg` of each watcher at its `sendall`. Each carries a number in `1..seq`, none on the wire, all pairwise distinct. Every number on the wire is also in `1..seq`.
- Every numbering step increments `seq` and takes the new value, so a fresh number is above all of these.
- The proof uses `IInv` of DapServerProofs for the types, and `IInv /\ SeqInv` is the inductive invariant. TLC checked both before the proof was written, on two connections with the full session requests (2.9 M states) and with mixed requests (864 k states).
- `SeqFrame` covers every step that numbers and sends nothing, or that drops the outbox in `handle_client`'s `finally`. `AppendSeqs` covers a `sendall`. `NextSeqInv` has one case per action.
- Only `SeqUnique` is proved. The per-connection order `WireSeqIncreasing` is broken by the code (run wire_order).

`StressReportProofs.ReportCorrect`: `Spec => []ReportCountsAll`. The report main writes after the joins counts exactly `max_requests` requests, and no more ok ones than requests.
- `ReportCountsAll` speaks only of the final state, so the inductive invariant `RInv` accounts for every id at every moment. It adds to `IInv`:
  - `CountInv`, the two conservation laws:
    - `SumF(results, "requests") + SumF(Live, "requests") = Len(sent)`: every request sent is counted once, in `results` or in the WorkerResult of a thread that has not yet appended it (`Live`);
    - `Len(sent) + SumF(Held, "c") = IssuedBelow`: every id below `max_requests` taken from the counter is either sent or held by a thread between its increment and its send (`Held`).
  - `ResultInv`: the types, and no more ok than requests per WorkerResult and in the sum.
  - `PastInv`: a thread out of its loop broke on an id at or past `max_requests`, below the counter.
  - `JoinInv`: main joins in order, and its report holds the sums over `results`.
- Once every thread is joined, `Live` and `Held` sum to 0 and the counter has passed `max_requests`. So the sum over `results` is `max_requests`.
- TLC checked `RInv` on 3 workers and 2 requests (3.1 M states) before the proof.
- The sums are `SumOf` of the model, a recursive function over a sequence. Its lemmas are proved by first-order induction:
  - `NatLeast` obtains a least element of a nonempty set of naturals from `WFMin` and `NatLessThanWellFounded` of WellFoundedInduction;
  - `NoCounterexample` shows that a set of counterexamples holding no 0, and closed under predecessor, is empty.
  - This way the provers never instantiate an operator parameter, which they cannot do.
  - `PSumDef` shows that the partial sums satisfy their recursive equation. It does so by building the function step by step.
  - `SumFAppend` (`results.append`), `SumFUpdate` (one record changed in place), `SumFZero` and `SumFNat` are the facts the step proof uses.
- `StressAssumption` now states `Cardinality(Workers) \in Nat`. The threads are `range(args.concurrency)`, so this is true, and `Live` and `Held` need it to be sequences.

`StressPickProofs.PickCorrect`: `Spec => []PickMatchesWeights`, for any list of positive weights. Every request goes to the target whose band `[cum[t-1], cum[t])` holds the point drawn, or to the last target at the end point `total_weight`.
- `CumDef` and `CumStep` show that `cum_weights` satisfies its recursive equation and is strictly increasing, since every weight is at least 1. `CumMono` follows by induction.
- `Bisect`: the indices `bisect_right` counts are an initial segment `1..k` of the targets. `k` is found as the least index past the point, with `NatLeast`, and `FS_Interval` of FiniteSetTheorems gives its cardinality. So `cum[k] <= h/2 < cum[k+1]`.
- `PickTargetBand` adds the clamp: `k` reaches the last target only at `h/2 = total_weight`.
- The invariant `PickInv` ties each history entry's target to its own draw point. TLC checked it on 3 workers.

`StressTypeProofs.StressTypeCorrect`: `Spec => []TypeOK`, the type invariant of the stress run.
- The inductive invariant `TInv` is `RInv` plus the bounds on `started`, `report` and `reported`.
- `AggregateResult` shows that the report's sums are naturals. For the per-target sums, `SumByTarget` rewrites `SumOf` over `r.by_target[t]` as a `SumF` over a list of records. That step rests on the equality of two CHOOSE expressions whose predicates agree.
- TLC checked `TInv` on 3 workers.

What stays with TLC:
- Liveness (WatchersReapedOnExit, Terminates) and anything about ENABLED.
- The refinement of FrameChannel by FrameCodec. Its invariant relates the buffer and the bytes in flight to the encoding of the bodies not yet delivered. That encoding is a recursive function over a body, and its lemmas (how the encoding of a concatenation splits) are not yet written in the first-order form above.
- The invariants of the DAP violation runs, which the code breaks.

## Not modelled

- `runtime-python.py` reads one event, calls the handler once and prints the result. It is sequential and keeps no state between calls, so there is nothing for a model checker to interleave.
- `test_debugpy.py` is a sample program to debug.
- The `--duration` and `--qps` modes of the load generator depend only on wall-clock time.
- The HTTP client, build helpers and report layout of the load generator are sequential I/O and formatting.
- JSON encoding of outbound messages is left out. `send_message` uses `json.dumps` with its default `ensure_ascii`, so its `len(content)` is a byte count and the outbound header is correct.

## Plan for the next steps

1. Prove the refinement of FrameChannel by FrameCodec, with lemmas about the encoding proved by the first-order induction of StressReportProofs.
2. Compose FrameCodec with DapServer, so that requests lost to framing show up as unanswered requests.
