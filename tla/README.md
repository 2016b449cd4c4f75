# A verification development for IM2P.sim

IM2P.sim computes matrix products on a systolic array and predicts how long that
takes. It has two halves that meet in the GGML front end:

* the **functional half**: a Bluespec core (`src/src/`) simulated with Verilator and
  driven by Rust (`src/sim/src/`), which streams operands in and results out;
* the **cycle half**: a native cycle model of the Gemmini HP1 accelerator
  (`src/sim/cycle/*.cpp`), behind a C API, and a Python evaluation path
  (`src/sim/cycle/*.py`) that collects traces of a run, replays their NPU works with
  the model, proves by certificates that the replay may be believed, joins the results
  into an execution graph and schedules that.

This directory models the parts of both halves that keep state and take decisions
over time. TLC checks each on small instances. TLAPS proves for all instances every safety
property of both schedulers, the sequence session, the front end, the loop controller and its
reservation station, the trace readers, the lifecycle, the graph adapters, the reconstruction,
replay and publication, the sequence trace command, certificates, streams and corpora, the
library cache and the Gemmini build; what TLC alone checks is liveness and the RTL core.

## 1. Inventory

### Execution scheduler (`scheduler.py`, `execution_ir.py`, `execution_services.py`, providers)
*State*: the graph (kind, declared order, resources and labelled dependencies of a
node), the clock `now`, the pending nodes, the finished entries, `resource_free`, and the
NPU provider's own progress (`previous_resource_cycle`, `invocations`, `faulted`).
*Operations*: one pass of the `while` loop of `schedule()`: start the first startable
node, or move the clock, or raise. `ServiceExecutor.earliest/execute` charge
resources; a provider (phase table, cycle model, or one of three stateful ones bound
to a certified trace) answers for NPU nodes.
*Hard*: gangs whose workers release at different instants, three milestones per node,
rounding to the NPU clock, a provider that refuses what the schedule decided.
*Correct when*: a resource is never held twice; no node starts before its milestones;
no node is delayed without cause and ties go by order, then identity; the scheduler's
own consistency checks never trip; it terminates.

### SQLite scheduler (`scheduler_sqlite.py`)
*State*: as above, but with a counter of unfired edges per node, a heap of future
milestones, one priority queue per resource group, a buffer of result rows and a
results table that lags behind it.
*Operations*: `prepare`, one pass of `_run`, flush.
*Hard*: an edge fires either at once or through the heap, never both; the request time
of stateful providers is read back from the lagging table; the heap is measured only
now and then; cycles are not excluded when the graph is read.
*Correct when*: it implements the same policy as the in-memory scheduler, its counters
agree with the graph, and it stalls only on a cycle.

### Sequence session (`sequence_c_api.cpp`, `control_engine.cpp`)
*State*: one pending, one active and one unread work, ids seen, cursor, budgets, a
bounded event buffer, the double-buffer halves, generation and fault flag.
*Operations*: reset, offer, advance (to a cycle, or a number of steps to a boundary),
pop report, read events.
*Hard*: a step of the engine that does not fit the event buffer is undone after several
of its stages have run; a work must be accepted on exactly the first edge it could be;
budgets are exact; callers may call in any order.
*Correct when*: works are neither lost nor repeated, timing does not depend on how the
caller cuts time into calls, every event is read once, every advance returns.

### Loop controller and reservation station (`control_engine.cpp`, `control_engine.hpp`)
*State*: host and bridge state, instruction queues, the loop controller's four
programs, credits per queue, the station's entries with dependency masks.
*Operations*: one clock edge (complete, issue, allocate, generate, forward, bridge,
host) and `accept` of the next work.
*Hard*: a command may be allocated on the edge its predecessor completes; A, B and
store programs are interleaved by comparisons that copy a quirk of the hardware; end
of frame is detected by `busy` rising and falling.
*Correct when*: no command overtakes one it conflicts with, data is loaded before it is
used, credits balance, a frame ends drained, every work retires.

### RTL core (`src/src/control`, `src/src/core/IM2PCore.bsv`, `src/src/array`) and Rust driver (`src/sim/src/simulator`)
*State*: the tile scheduler's registers, stripe and completion FIFOs; the K scheduler;
in the core two weight banks, two activation slots, current and next scale rows, and a
**lookahead** (the first fragment of the tile after the current one); in the driver
the published stripes not yet completed and the next row.
*Operations*: every rule and action method of the matrix path; start, publish, serve
activation / weight / scale / output, drain completion, acknowledge.
*Hard*: prefetched operands are recognised by metadata comparisons; promotion of the
lookahead races outstanding reads; stripes are published around the end of the last one;
the host infers from a tag which stripe a request belongs to.
*Correct when*: every output is the right dot product, every cell is written once,
nothing leaks into the next matmul, all matmuls end.

### NPU trace validator (`npu_trace_integrity.py`, `npu_trace_calls.py`, `npu_trace_hosts.py`, `npu_trace_schema.py`)
*State*: the operations, dispatch parents, calls and host stages still open, and sets of
completed ids kept as a cursor and the ids ahead of it.
*Operations*: one record: PHASE, NPU_CALL, NPU_WORK, HOST_STAGE, TARGET_OPERATION, RUN_END.
*Hard*: the file is read once; what an operation owned is forgotten when it completes, so
a later record can be judged only by what was kept.
*Correct when*: an accepted trace covers every row of every parent exactly once, a call
continues only after the work it waits for, and a phase leaves nothing behind.

### Application lifecycle and execution graph (`execution_lifecycle.py`, `execution_forced_lifecycle.py`, `execution_adapter.py`, `execution_application.py`, `execution_stream.py`, `execution_pipeline*.py`)
*State*: samples, dispatches, logits and the cursor of the lifecycle file; nodes and edges
of the graph, in memory or as rows of a database.
*Operations*: one lifecycle event; building the graph in either adapter; running its nodes.
*Hard*: the streamed adapter rewrites the edges of pipelined stripes row by row, the
in-memory one at once; a stripe's workspace slot is reused while its residual is pending.
*Correct when*: a decode phase runs on the token sampled before it, both adapters build
the same graph, and the graph alone keeps stripes within their slots and graphs in order.

### Semantic graphs and reconstruction (`reconstruct_graph.py`, `reconstruct.py`, `reconstruct_cpu.py`, `reconstruct_npu.py`, `reconstruct_pairing.py`, `reconstruct_timing.py`)
*State*: two manifests; two timing logs, a trace and modelled results.
*Operations*: one manifest record; comparison; the joins, each of which may refuse.
*Hard*: six files from different runs must describe one workload.
*Correct when*: each cost enters the dataset once, from the run that may give it.

### Local replay, task cache and publication (`local_replay.py`, `npu_task_cache.py`, `npu_trace.py`, `input_snapshot.py`)
*State*: a FIFO of estimates, a process pool, a shared SQLite table of answers,
temporary files, two output files.
*Operations*: lookup, quarantine, submit, callback, store, publish, crash, resume; snapshot
of inputs, recheck, link of the two outputs and withdrawal.
*Hard*: another process writes between a read and the transaction that uses it; a done
callback runs in another thread; inputs are edited while they are copied.
*Correct when*: what is published equals the serial replay, the two outputs are of one run,
and the inputs were in place together.

### Sequence trace command (`sequence_trace_cli.py`, `sequence_binding.py`)
*State*: a child that replays, a verifier, a publisher, the watchdog over them, progress
and receipt on disk.
*Operations*: a step of a child, a poll of the watchdog, deadline, cancel, death of a child.
*Hard*: a deadline meets a result that is just being committed; a child hangs.
*Correct when*: the receipt says PASS exactly when the result is committed, what is
committed was verified, and the command always ends with no child left.

### Certificates, transition streams, corpus authority (`certificate_contract.py`, `stateful_sequence_*.py`, `*_certificate.py`, `*_evidence*.py`, `stateful_profile_*.py`, `corpus_authority.py`, `corpus_package.py`)
*State*: documents, the files they bind, one cached proof; for streams the previous record;
for corpora a manifest that merges five revisions.
*Operations*: build, validate and admit of thirteen kinds of certificate; reading a stream
of transitions; checking results against a corpus revision.
*Hard*: digests are taken one by one over minutes while files may be rebuilt; a cached
proof is served later; a stream may be cut, mixed or from a session that was reset.
*Correct when*: an accepted document binds bytes that coexisted and that the accepting
validation looked at; an accepted stream is a history of one session from its cold start.

### Real library cache, Gemmini build and export (`scripts/real_lib_*.py`, `scripts/gemmini_build.py`, `gemmini_rtl_build_binding.py`, `gemmini_export.py`)
*State*: cache entries, generations, a `current` pointer and a lock; an output directory
with RTL, library, test logs, sealed documents and packages.
*Operations*: ensure (fingerprint, lock, build, publish, select), interrupt, kill; plan,
generate, test, seal, verify, package, verify the package.
*Hard*: a process stops between any two file operations; sources are edited while a build
runs; two runs share a directory.
*Correct when*: the selected pair of archives is one build, an accepted build comes from the
sources as they are, and a verified package holds the RTL that was tested.

### GGML front end (`frontend/src/im2p_gemmini_frontend.cpp`)
*State*: of one Run: lifecycle, the first error, a queue of accepted stripes, the stripes in
the stream, two producer slots, the results so far and a worker thread, under one mutex and
one condition variable.
*Operations*: execute, submit_stripe, fence and authorize_output_commit from any thread; the
worker publishes, clocks, polls, runs the residual stage and finishes.
*Hard*: callers block for a slot, for the start and for each other's fence while the worker
may fail, stall or throw; a wait gives the mutex away in the middle of a call.
*Correct when*: whoever fences gets one final answer after the worker's end, success means
that every stripe was completed once and in order, output is written only then, and every
call returns.

### Parts without a module
The stream C API and the Verilator bridge, the matmul planner, DMA and mesh timing, the HP1 Chisel bridges and their C++ backend, the FPGA host,
collection, operation traces, and the static checks, evaluation and synthesis scripts:
section 7 says why. `PROJECT.json` lists every component with its status, and every hazard
at its line.

### How the parts interact
```
 run of the application
   | lifecycle, semantic graph, timing logs, NPU trace
   v
 NpuTrace, Lifecycle, SemanticGraph            corpora, RTL runs, libraries
   |                                             | RealLibCache, GemminiBuild
   v                                             v
 LocalReplay / SequenceTrace <--- admitted by --- Certificates (Evidence, TransitionStream,
   | results, published by Publication            CorpusAuthority)
   v
 Reconstruct --> ExecutionGraph --> Scheduler / SqliteScheduler --> ServiceExecutor
                                       |  (policy: ListSchedule)      | stateful provider
                                                                      v
                                          LoopControl <--step-- SequenceSession
                                              |
                                       ReservationStation

 callers --> FrontEnd (worker thread)
                | publish, progress, poll
                v
 Rust driver (HostedCore) <-- request channels --> MatrixCore
                                                   |         |
                                          MatmulScheduler  WorkScheduler
                                          (tiles, stripes)  (K fragments)
```

## 2. Modules and code

| module | models | notes |
|---|---|---|
| `ExecutionIR` | `execution_ir.py` | graphs, validity, milestones, clock alignment |
| `ListSchedule` | the declared policy (`ScheduleResult.record`) | abstract specification: the schedule grows by the node that can start earliest |
| `ServiceExecutor` | `ServiceExecutor` and the providers | CPU gangs, structural nodes, NPU nodes by provider, refusals |
| `Scheduler` | `schedule()` | `Start`, `StartRaises`, `Wait`, `Finish`, one per outcome of a pass |
| `SqliteScheduler` | `_run()` of the SQLite scheduler | counters, heap, groups, batches |
| `ScheduleInstances` | - | the graphs and providers both are checked on |
| `SequenceSession` | `sequence_c_api.cpp` with accept/step/finish of the engine | each API call an action; one iteration of the advance loop an action |
| `FrontEnd` | `Run` of the GGML front end, its callers and its worker | one action per region under the mutex; the set `asleep` of threads on the condition variable |
| `ReservationStation` | `Engine::reservation`, `Entry`, `depends` | one action per clock edge |
| `LoopControl` | `Engine::accept`, `control`, `expand_commands`, `busy` | extends the station; one action per clock edge |
| `CoreParameters` | array size | shared by the RTL modules |
| `MatmulScheduler` | `MatmulScheduler.bsv` | one action per rule or action method |
| `WorkScheduler` | `WorkScheduler.bsv` | K fragments; the serial divider by its result |
| `MatrixCore` | `IM2PCore.bsv` over both schedulers and the engine | one action per rule or method of the matrix path |
| `HostedCore` | `matmul.rs`, `striped.rs`, `provider.rs`, `helpers.rs` over the core | the closed system |
| `NpuTrace` | `TraceState`, `Calls`, `Hosts` of the trace validator | one action per record kind; the file may hold any record next |
| `Lifecycle` | `project_lifecycle`, `validate_forced_lifecycle` | one action per event |
| `ExecutionGraph` | both adapters and the pipeline projection | extends `Lifecycle`; nodes and edges as operators, the run of the graph as actions |
| `SemanticGraph` | `read_manifest`, `compare_manifests` | one action per record |
| `Reconstruct` | `reconstruct()` and its joins | one action per check, in order |
| `LocalReplay` | `local_replay.py`, `npu_task_cache.py` | a transaction, a callback or a queue operation is an action |
| `Publication` | `npu_trace.py`, `input_snapshot.py`: snapshots of the inputs, publication of the outputs | one action per file operation |
| `SequenceTrace` | `sequence_trace_cli.py`, `sequence_binding.py` | child, verifier, publisher, watchdog, clock |
| `Evidence` | what each validator reads and binds, in order | sequences of steps, no state |
| `Certificates` | builders, validators and the cached proof | extends `Evidence`; a step of a proof is an action, edits happen between steps |
| `TransitionStream` | the four readers of transition streams | an untrusted harness writes, a reader judges |
| `CorpusAuthority` | `corpus_authority.py`, `corpus_package.py` | revisions, manifests, packages and results |
| `RealLibCache` | `real_lib_cache.py`, `real_lib_materialize.py`, `real_lib_toolchain.py`, `real_lib_manifest.py` | one action per file operation, per process |
| `GemminiBuild` | `gemmini_build.py`, `gemmini_rtl_build_binding.py`, `gemmini_export.py` | one action per command or document |
| `ExecutorProofs` | - | lemmas about the clock grid, graphs and `ServiceExecutor` that both schedulers share |
| `SchedulerProofs`, `SqliteProofs` | - | theorems about the schedulers and their refinement of `ListSchedule` |
| `SessionProofs` | - | theorems about the session, the front end, the station and the loop controller |
| `TraceProofs` | - | theorems about `NpuTrace`, `Reconstruct`, `Lifecycle`, `SemanticGraph` and `ExecutionGraph` |
| `ReplayProofs` | - | theorems about `LocalReplay`, `Publication` and `SequenceTrace` |
| `EvidenceProofs` | - | theorems about `Certificates`, `CorpusAuthority` and `TransitionStream` |
| `BuildProofs` | - | theorems about `RealLibCache` and `GemminiBuild` |
| `MC*` | - | instances for TLC |

Definitions introduced by a comment that begins with "Fault" are not
part of any specification. They are wrong versions of the definition that follows
them; replacing the definition by one of them makes TLC report the property named in
`PROJECT.json`, which shows that the property constrains the code.

**What is abstracted.** Times are numbers on a small grid, NPU cycles are multiples of
`Cycle`. In `SequenceSession` the engine inside a work is a step that may raise events
and eventually ends; in `LoopControl` the DMA, the mesh and the store path complete
issued commands at any time and in any order. In `MatrixCore` operands are labels that
say which host data they are (an activation row is its job, matrix row and k range), the
accumulator is the list of what was added to it, and the array commits rows in order at
any time after they were fed. Addresses are matrix coordinates, because strides and
element sizes scale them without changing their order.

In the modules of the Python path a file is its version or the content a later step tells
apart, a digest names exactly that (equal digests, equal content), and JSON forms, strings
and numeric ranges are left out. What several lines compare field by field is one
comparison of the record. In `Evidence` a file stands for all files of its role.

**Timing that the RTL model keeps.** Rules of `MatrixCore` may fire in any order with two
exceptions, both marked in the module. `CurrentBegun`: the lookahead of a tile is
finished only after the tile itself has begun its first fragment, because its K scheduler
is started at least a cycle later with the same block geometry. `Decided`: the decision
to reuse resident weights waits for nothing, so it is taken before the promotion, which
waits for host rows. Without them TLC finds behaviours in which a fragment computes with
the bank chosen for the tile after it; the hardware's cycle order excludes them, and
whoever changes the latency of either path has to look at these two lines.

## 3. Runs

Every passing run asks its own question; together they take every disjunct of every
next-state relation.

| run | instance | shows |
|---|---|---|
| `scheduler` | 3 nodes, NPU and 2 CPU resources, 4 shapes x 2 orders x 12 label sets, five providers, every bound order | `NoSelfInflictedRefusal`, `TraceInOrder`, refinement of `ListSchedule`, `Termination` |
| `sqlite` | the same graphs, double edges and cyclic graphs; batch 2, capacity 3 measured every 2 nodes | `Bookkeeping` (counters, event heap and its bound, stalls only on a cycle), `RequestTimeExact` although the table lags, the same policy, `Termination` |
| `session` | 2 works (1 and 2 frames), one recorded, bursts of 0 or 2 events in a buffer of 1, budgets 8 and 12, any calls, one reset. Front end: 2 producers, 2 fencing threads, 3 stripes, 2 slots, a stream of one, both modes, with and without residual stage and external executor, a failure of every operation | `NoWorkLost`, `ReportsExact` (window, first ready edge, halves, budgets), `EventsExactlyOnce`, `AdvanceReturns`; `FenceHonest`, `CallersReturn` |
| `loop` | five single frames up to two blocks a side and a schedule of two works, queues of one; or the station alone under any 5 commands on 2/2/1 entries | `HazardsOrdered`, `LoopSafe` (data ready, credits, drained frames), `WorksRetire` |
| `core` | 2 x 2 array, three matmuls: 3 x 3 with K 3 from origin 2 scaled by blocks of 2; 3 rows in stripes of 2; one output per scale block | `MatmulRight` (exact outputs, each cell once, nothing left over), `AssertionsHold`, `StripesAgree`, `MatmulsFinish` |
| `traces` | NPU trace: 2 operations, 1 parent of up to 2 rows, 2 works and calls of three kinds, 1 host stage, 2 phases, every order of records. Reconstruction: 3,840 sets of files, most of them inconsistent. Graphs: a prefill of two graphs and a decode; FULL, PIPELINE (three stripes on two slots, one with a residual) and FORCED; manifests of two phases and two graphs, one cyclic | `TraceClosed` (coverage, continuations, phases), `CostsCountedOnce`, `LifecycleSound`, `AdaptersAgree`, `GraphSafe`, `OneWorkload` |
| `replay` | two processes (one pooled) on one task cache, FIFO of one, one crash; two publishing runs, two inputs, three edits, one crash; a sequence replay with two edits and one cancel | `RowsExact`, `PublishedTogether`, `ReceiptHonest`, `ReplayVerified`, `WatchdogReturns` |
| `evidence` | thirteen kinds of certificate, three operations and two edits of files bound in unreviewed versions; streams of three works and two faults in four modes; corpora of five revisions, three results | `AcceptedCoexisted`, `AcceptedFresh`, `StreamIsOneSession`, `MeasuredAsReviewed` |
| `build` | two processes that ensure twice, one edit, one tampering, one kill, interrupts anywhere; one output directory, two llama roots, three runs, one edit, one failing or killed command | `SelectedCoherent`, `EnsureSelects`, `AcceptedBuildExact`, `PackageTested` |
| `core_three_stripes` | 3 stripes of one row | `RequestsDecode` is **violated** (section 4) |
| `submit_order` | the front end as in `session` | `AcceptedInOrder` is **violated** (section 4) |
| `replay_kept` | as `replay` | `AnswersKept` is **violated** (section 4) |

**Side by side.** `MCSession`, `MCLoopControl`, `MCTraces`, `MCReplay`, `MCEvidence` and
`MCBuild` hold parts that share no variable. A variable that never changes (`interface`,
`reader`, `program`, `evidence`, `directory`; in `MCLoopControl` the empty schedule) chooses the part
that moves; the others keep an initial state. The reachable states are the disjoint union of
those of the parts, each with all its own behaviours, and a property of one part holds
trivially where another moves. The parts do meet in the program, but through files that are
complete before the next program opens them; what such a file may hold is the next part's
input, wrong contents included.

**Why the bounds suffice.** *Scheduler*: three nodes are the least that let a node pass
over another one, hold a resource across a gap and be awaited by two milestones; service
times 0..2 against a clock of 2 give every alignment. *SQLite*: batch and capacity are
small so that flushes and measurements happen inside a graph. *Session*: two works meet
every slot conflict, a burst of two never fits a buffer of one, and a budget of 12 ends
inside the second work of 8. *Front end*: the third stripe is the first to wait for one of
two slots, two producers can wait for the same one, and a stream of one answers
backpressure to the second stripe. *Station*: 2/2/1 entries and five commands give overlaps
within and between all three queues; the real sizes (8/4/16, `timing_profile.hpp`) only add
slots, and the theorems cover them. *Loop*: two blocks a side give a first and a last block
in each dimension, and credits run out. *RTL core*: two tiles and fragments a side, the last
of each short, with the real FIFO depth of 2; each matmul differs from the one before in
everything that one could leave behind. *Traces*: two works can gap, overlap and cross
calls, two operations can be skipped and left open across a phase. *Graphs*: three stripes
are the least that reuse one of two slots. *Replay*: the FIFO of one evicts between two uses
of a binding; three edits let an input change and change back during a copy. *Evidence*: two
edits let a file change between two reads and again before the comparison; the edited
files are of the sort that is bound in whatever version is found (a pinned file that
changes can only fail a proof). *Streams*: with
two faults a lost record can be hidden by a repeated one. *Build*: the second ensure meets
what the first left, in the other order; the third run meets both earlier ones.

**Fairness.** The schedulers are sequential programs that keep running: `WF_vars(Next)`.
A session assumes `WF_vars(AdvanceLoop)`, the loop inside one call, and nothing of the
caller. The front end assumes that the worker, a caller inside a call and an external
executor with a stripe in hand keep running (`WF`), that a sleeping thread runs again only
after `notify_all`, and nothing about when a caller makes its next call. `LoopControl` assumes `WF_loopVars(LoopProgress)`: the clock keeps running, memory
answers and a controller with room takes what is issued; their queues and latencies are
bounded in the profile. `HostedCore` assumes `WF_vars(Next)`: some enabled rule fires or
the driver's loop turns. `MatmulsFinish` needs no stronger assumption because every step
makes progress towards the end, which is part of what the run shows. `SequenceTrace` is fair
to the watchdog (its poll loop), to the clock (a deadline passes) and to the kernel (a killed
child dies), and to none of the children, which may hang. No fairness is assumed in the other
modules: readers and builders may be stopped anywhere.

Deadlock is checked in `scheduler`, `sqlite`, `session`, `loop` and `core`, whose final
states stutter explicitly. In `traces`, `replay`, `evidence` and `build` it is not:
a file ends, a refused input stops the program, and all bounded operations get used up.

## 4. Findings

**Stripes and tags.** `activation_request()` (`sim/src/simulator/striped/provider.rs:29`)
decides by bit 31 of the request's tag whether a request belongs to the oldest published
stripe or to the one after it, while the core says "Tags are opaque on the host-memory ABI"
(`src/core/IM2PCore.bsv:631`). The bit says whether the lookahead owned the request when it
was *issued*. If stripe 0 completes and is drained while a lookahead request for stripe 1 is
outstanding, and stripe 2 is published, the request is looked up in stripe 2, whose first row
lies behind it. `checked_sub` fails, `pending_activation_row()` turns the error into "no
request", and nobody answers. With at most two stripes the fallback to the only published
stripe hides this, as `core` shows; `core_three_stripes` is the counterexample.

**Task cache.** `lookup()` (`sim/cycle/npu_task_cache.py:108`) selects a row before it begins
the transaction that quarantines it, so the `DELETE` removes whatever the row has become: a
complete answer that another process stored in between is lost, although the module says "an
interrupted replay keeps every completed answer and resumes from them" (lines 14-15). The
loss costs time only: `RowsExact` holds in `replay` with the same processes. `replay_kept` is
the counterexample.

**Order of submissions.** `submit_stripe_planned()` (`frontend/src/im2p_gemmini_frontend.cpp:2577`)
checks that a stripe is the next one and then waits for a slot. The wait gives the mutex
away, and after it only status and lifecycle are read again. Two producers that submit stripe
2 while both slots are taken therefore both get success, although "Calls on one Run are
internally synchronized" (`im2p_gemmini_frontend.hpp:263`). The stream refuses the second copy
and the run ends with an error, so that `FenceHonest` holds in `session` all the same;
`submit_order` is the counterexample. A single producer cannot meet it.

**Observed while modelling, without a run.** Each of these is what the code does and the
models do:

* `execution_lifecycle.py:138`: the check "sample lacks completed logits dispatch" holds a
  sample to the last dispatch and to the present phase, but not that dispatch to that phase:
  a phase may be sampled before any dispatch of its own.
* `local_replay.py:172`: `Future.result()` may return before the done callback that stores the
  answer has run, so the look at `errors` can come before the commit whose failure "fails the
  replay once every answer is back" (line 73). The results are not affected (`RowsExact`).
* `real_lib_cache.py:157`: the fingerprint is computed before the lock is taken; sources edited
  while the lock is awaited are built into the entry of the earlier fingerprint.
* `real_lib_materialize.py:167`: an interrupt between `os.replace` and `switched = True` makes
  the cleanup remove the generation just selected; `current` then dangles and later ensures
  fail until someone removes it. `SelectedCoherent` says what still holds.
* `stateful_sequence_certificate.py:259`: a cached proof rechecks the files its document
  names; files the proof read but did not bind are not looked at again, while line 58 says
  "Every reuse rechecks all external bytes". `AcceptedFresh` is about the bound ones.
* `gemmini_build.py:613`: the export command is not handed the llama root of the build, while
  its own text says that exports "include the official host's compiled llama sources"
  (`gemmini_export.py:533`). A package is tied to the tested RTL (`PackageTested`), not to
  the checkout that was compiled.

## 5. Proofs

Checked by TLAPS for every value of the constants that satisfies the assumptions below. The
safety properties that the runs check are not inductive; each theorem `Spec => []Property`
rests on an inductive invariant (`Spec => []Inv`, also a theorem), which TLC confirmed on the
instances of the runs before it was proved. A proof has a lemma for the initial state, one or
more per action, and under them one step per conjunct that the action can disturb.

**Assumptions on the constants.** `IRAssumption`, `ServiceAssumption`, `InputAssumption`: a
finite graph with the ownership rules of `execution_ir.py`, a clock of at least one grid point,
a provider bound to a trace that lists every NPU work once (what `_gate()` and the constructors
of the providers validate). `GraphAssumption` adds for `schedule()` that the graph is acyclic;
`SqliteScheduler` needs no such thing. `SqliteAssumption`: batch size and measuring period are
positive. `StationAssumption`: one to sixteen entries a queue, as the masks are wide. `SessionAssumption`: work ids are
positive (0 is the C API's "none"), a work has a frame, budgets are positive. `NoStripe` is no
stripe, `None` no number. `FrontEndAssumption`: a stripe, a slot and a place in the stream, and
threads with names of their own. `LoopAssumption`: schedules and works are not empty, a frame has
a block a side, the instruction queues hold one. `PublicationAssumption`: there is an input.
`LocalReplayAssumption`: the FIFO holds an entry and traces consist of bindings that have a
document. `SelectionAssumption` and the `SessionAssumption` of `SequenceTrace`: the trace has a
work, the session answers with natural numbers, in any order. `TraceConstants`,
`InstanceAssumption`, `CorpusAssumption` and `StreamAssumption` say what the parameters are
(finite numbers, known kinds, positive durations). `ManifestShape`: the graphs of one phase
follow one another in the manifest, as `read_manifest` writes them down. The `InputAssumption` of
`Reconstruct`: the files are sequences of records and no two works of the trace have one id,
which `NpuTrace` establishes. `DataAssumption`: the stages of a call are in order, a work belongs
to a call and stripes are numbered without gaps (`WellFormed`), which the trace validator
established before the dataset was written.

**Both schedulers** (`ExecutorProofs`, `SchedulerProofs`, `SqliteProofs`). The common part is
`ExecutorInv`. To show that a resource is exclusive one has to know that `resource_free` is
exactly the last release (`FreeIsLast`); that the provider never refuses, that its clock does
not run ahead of the NPU's release (`NpuReleased`) and that it has counted what was scheduled
(`ProviderProgress`); that minima and maxima over the schedule exist, that entries are ordered
and one of them is released last (`EntriesOK`). `Clear(n, t)` is what a scheduler owes when it
calls `execute`: the policy lets `n` start at `t` and `earliest()` confirms `t`. From it,
`ExecuteKeeps` proves the invariant for every kind of node and provider, `RaiseKeeps` that only
refusals about the data can occur, and `PlacedRefines` the step of the policy.

* **`SchedulerInvariant`**, **`SchedulerTypeOK`**, **`SchedulerExclusive`**,
  **`SchedulerCausality`**, **`SchedulerNoRefusal`**, **`SchedulerTraceInOrder`**,
  **`SchedulerRefinesPolicy`**: what `schedule()` adds is that nothing still pending could have
  started earlier (`NoEarlierStart`). The scan computes the first instant the policy allows a
  node (`StartAtFacts`), hence moving the clock to their minimum skips none. "Never stalls" is
  `SomeUnblocked`: an acyclic graph has a rank, and an unfinished node of least rank has all
  its parents.
* **`SqliteInvariant`**, **`SqliteBookkeeping`**, **`SqliteRequestTime`**,
  **`SqliteScheduleSound`**, **`SqliteNoRefusal`**, **`SqliteRefinesPolicy`**: `_run` never
  looks at the graph, so the invariant says what its counters, queues and heap stand for. A
  counter is the number of edges that have not fired (`CountersExact`), where an edge has not
  fired if its node is unfinished or its event is still in the heap. Completed nodes have none
  left (`CompletedFired`), an event is the milestone its node recorded (`EventsFromSchedule`),
  and every milestone after `now` has one (`EventsComplete`). `ReleasedExact` is the arithmetic
  of `_Graph.release`, used for draining the heap and for the milestones of the node just
  started (`DrainFires`, `StartFires`): what is released is exactly what leaves the set of
  unfired edges, so no edge fires twice. Then a node is queued exactly when all it waits for has
  happened (`QueuedReady`), every queued node has a head of its group before it with the same
  earliest instant (`HeadExists`), and neither looking at heads only nor jumping to the next
  head or event misses a start (`FutureFacts`). A stall leaves no event and no queued node, so
  that every unfinished node lacks a parent. The heap's bound is `NextModulo` and three
  events per node.

**Reservation station** (`SessionProofs`). **`StationInvariant`**, **`StationHazards`**,
**`StationDeps`**: no command is issued while an older one of another queue that conflicts with
it is in flight, and masks name exactly the live entries waited for. `DependsCoversConflict`
relates the mask's cases to reads and writes; `EdgePreserves` follows one edge on which
completion, issue and allocation coincide. The invariant is proved for a station fed with any set
of commands, so that the loop controller can use it for its own.

**Loop controller** (`SessionProofs`). **`LoopInvariant`**, **`LoopControlSafe`** for every
schedule of works, every frame size and every size of the queues. Data is ready when a command is
issued because the commands it needs come before it in the order of unrolling and conflict with
it (`NeedsConflict`), and the station keeps conflicting commands in order (`HazardsOrdered`). The
first half is arithmetic on the positions of the four programs: the comparison by which execution
follows the loads of B looks ahead as the hardware does, and still `WeightsFed` holds, execution
never overtakes the fragment it needs (`HigherDigit` and `FragmentIndex` compare positions as
numbers in a mixed radix; `CommandOnce`: no command occurs twice). What is in flight was
therefore unrolled after its needs and nothing it needs is behind it (`FlightOrdered`). That a
frame ends drained follows from `Handshake` and `InstructionOrder`: the start is the last
instruction, hence `busy` cannot fall before the programs have been unrolled, and between frames
nothing is left (`Quiet`). `CreditsExact` counts the commands in flight.

**Sequence session** (`SessionProofs`). **`SessionInvariant`**, **`SessionLosesNoWork`**,
**`SessionEventsOnce`**, **`SessionReportsExact`** for any works, burst sizes, buffer size and
budgets, under any order of calls. The halves a work starts in are the parity of the frames and
stores of the works accepted so far (`HalvesCounted`). The invariant adds where the engine is in the active work
(`EngineServesActive`, `Milestones`) and that a waiting work has not been passed over: while the
engine is free the cursor has not gone beyond the offer or the last release (`NotPassedOver`).
Without the last one "accepted on the first edge it could be" is not inductive, as an advance
could move past the edge.

**Front end** (`SessionProofs`). **`FrontInvariant`**, **`FrontFenceHonest`** for any set of
callers and any number of stripes and slots. A success of `fence` stands for all stripes
completed; that follows from counting where an accepted stripe is (`StreamOrder`: taken by the
stream, held by the worker, or ready), from the order of completions (`TimedInOrder`), from what
the worker holds at each of its program points (`WorkerPlace`) and from the single join
(`CallLife`). The order holds only until an error: that is why the finding `submit_order` does
not contradict it.

**Replay and publication** (`ReplayProofs`). **`PublicationInvariant`**,
**`PublicationTogether`** for any number of runs and inputs: a copy is that of its source as long
as the source keeps the identity seen first, and the comparison at the end fixes the instant at
which all inputs were in place (`CopyFollows`, `SnapshotFollows`, `Compared`).
**`ReplayInvariant`**, **`ReplayRowsExact`** for any number of processes, any trace and FIFO:
an answer that is there is the model's (`AnswersRight`), and what the FIFO and the works refer to
is the answer of their own document (`ServedRight`), whatever is stored, quarantined or lost in
the shared table.

**Sequence trace command** (`ReplayProofs`). **`SequenceInvariant`**, **`ReceiptIsHonest`**,
**`ReplayIsVerified`** for any trace and any windows the session answers with. The rows on disk
continue one another (`RowsReplayed`) and at each step of the child progress counts them, or all
but the last (`ChildRight`); a complete candidate is therefore one the verifier accepts
(`CandidateVerifiable`). The watchdog runs one process at a time (`OneAtATime`), so that what was
verified is what is linked (`CommitRight`), and the receipt is decided after the last of them.

**Certificates, corpora, streams** (`EvidenceProofs`). **`CertificateInvariant`**,
**`AcceptedDescribesOneInstant`**, **`AcceptedIsOfThisValidation`** for every kind of certificate
and any number of operations and edits: every version bound was in place at some instant of the
running operation (`DocInv`), except what has still to be rechecked of a cached proof
(`CacheInv`); what is published was in place before the validation began (`OutInv`). As versions
only grow, a document that equals what was bound before `began` and what was read after it is the
state at `began` (`VerdictInv`). **`CertificateMeasuredAsReviewed`** for any number of historical
cases. **`AcceptedStreamIsOneSession`**, a history one session can have, for streams of any length and any number of faults: what a
reader has accepted is a chain (`ReaderInv`), an ordinal is the number of the record in the
session that wrote it (`SessionInv`), and the totals of a chain are its last cursor.

**Traces, lifecycle, graphs** (`TraceProofs`), for files of any length.

* **`TraceInvariant`**, **`AcceptedTraceClosed`**: the validator keeps only what is open, so the
  invariant says what that tells of all records read: an open parent is covered up to its cursor
  and a closed one entirely (`ParentsCut`), a call that is over waited for its work
  (`CallsTracked`), nothing of a completed operation is open (`OpenIsLive`), and the operations of
  earlier phases are below the cursor of completed ids (`PhasesTracked`).
* **`ReconstructInvariant`**, **`DatasetCountsCostsOnce`**: the index holds exactly the costs read
  (`IndexExact`), each until the one event that claims it (`ClaimedOnce`).
* **`LifecycleInvariant`**, **`AcceptedLifecycleSound`**: dispatches cut the manifest into windows
  of one phase (`WindowsCut`), a PHASE event separates the graphs before it from those after it
  (`PhasesSplit`), and what runs after a sample began after it (`SamplesSplit`).
* **`SemanticInvariant`**, **`JoinedIsOneWorkload`**: what is executed is described, and in the
  class that its run allows (`ExecutionsDescribed`).
* **`GraphInvariant`**, **`StreamedGraphAgrees`**, **`ExecutionGraphSafe`**: the row by row
  rewriting gives every node the edges of the in-memory adapter. A stored graph has the waits of
  `GraphsWired` and `PipelineWired`, and it is run in their order (`Causal`). Two stripes at most,
  one per slot, and serial graphs then follow along chains of waits, by induction over stripes and
  graphs.

**Library cache and build** (`BuildProofs`). **`CacheInvariant`**, **`CacheSelectsCoherent`**,
**`CacheEnsureSelects`** for any number of processes, edits, interrupts and kills: one process
holds the lock (`LockHeld`), and what each knows at its program point (`ProcessInv`) makes
entries and generations pairs of one finished build. **`BuildInvariant`**,
**`BuildAcceptedExact`**, **`BuildPackageTested`** for any number of runs, edits and llama
roots: after k commands of a host test everything made so far is no older than the recorded
inputs (`HostProgress`); the final comparison of source and inputs then leaves only equality.
All that was tested was tested with the one RTL of the directory (`TestedRtl`).

**Only model-checked.**

* All liveness (`Termination`, `AdvanceReturns`, `CallersReturn`, `WorksRetire`,
  `MatmulsFinish`, `WatchdogReturns`): fairness and `ENABLED` are outside the prover's reach.
* `MatmulRight`, `AssertionsHold` and `StripesAgree` of the RTL core: their invariants relate the
  contents of banks, slots and FIFOs to the position of the schedulers, and an output is a sum
  over data; they are not written down yet.

**What the proofs changed in the models.** A failed attempt was in most cases a fact about the
model that small instances do not show:

* `StreamIsOneSession` claimed more than the readers can see: with a third fault the tail of a
  stream may come from another session that was in the very same state. The property now says
  that an accepted stream is a history one session can have from its cold start, each record a
  true one and taken up in the state the one before it left.
* `Lifecycle` assumed that every phase has a graph, which `read_manifest` does not ask for.
  `ManifestShape` is weaker now, and `DecodeAfterToken` says what the code compares: a last
  phase from which nothing is sampled is not held to its input token.
* `ExecutionGraph` lacked refusals of the adapters (operations without a row or a graph, the
  boundaries of a stripe, a token nobody waits for), and one instance gave a stripe calls that the
  validator would refuse. The end of a graph without operations waits for nothing, so that
  `GraphsSerial` holds only across graphs that have some (`Occupied`).
* `CostsCountedOnce` needs works with distinct ids, which `Reconstruct` itself does not check.
* `HalvesFollowWork` was a fold over the order of works; the order does not matter, and as a
  parity count it is provable for any number of them.

## 6. Plan

Done, in this order: schedulers and their policy; session and front end; station and loop controller; RTL
core with its driver; proofs about scheduler and station; trace readers, lifecycle and graph
adapters; replay, task cache, publication and watchdog; certificates, streams and corpora;
library cache and Gemmini build; proofs about the SQLite scheduler, session, front end, replay,
publication, library cache and build; proofs about trace readers, graphs, certificates, streams,
corpora, the sequence trace command and the loop controller.

Next, in this order:

1. **Proofs**: the RTL core. First `AssertionsHold` from an invariant on who owns which bank and
   slot, then `StripesAgree`, then `MatmulRight` from the labels of what was added to a cell.
2. **Streams** (`c_api/stream.rs`, `helpers.rs`, Verilator bridge): a simulator lent to one
   stream, publication with its refusals, sticky failure, finish and destroy on every
   path; composed with `HostedCore`'s driver state.
3. **HP1 bridges**: completion tracker, writeback queue and backing-memory port in Chisel.
4. **Matmul planner** as operators against a reference definition of a cover.
5. **DMA and execute pipeline** as a refinement of "completes at any time" in `LoopControl`.

## 7. Not modelled

* *Stream C API and Verilator bridge, HP1 hardware and backend, FPGA host*: they
  have state and order and are planned above.
* *Matmul planner*: a pure function; its result enters `LoopControl` as the frames of a work.
* *DMA memory and mesh timing*: cycle-exact latencies, which no property here depends on;
  `LoopControl` lets them complete commands at any time, which covers each of them.
* *Front end*: the CYCLE_SIM and tracing builds (they declare what happened and may fail a run),
  the routes and layouts that execute() admits, the count of SCU outputs in fence(),
  `acquire_pipeline_output_stage` (it only hands out the staged tensor), and a call that is
  refused, which changes nothing. The stream's progress counter moves with every completion,
  not with every fragment, so that the watchdog of the model fires no later than the code's.
* *Collection*: one-shot commands that run harnesses and gather their files.
* *Operation traces*: a reader of one file at a time, of the same make as `NpuTrace`.
* *Static checks, evaluation and synthesis scripts*: they parse text or start tools once and
  keep no state that outlives a call.
* Within the modelled parts: what arithmetic a kernel computes, statistics and reports built
  from finished results, file formats, and what a validator concludes from the content of a
  file that is byte for byte the reviewed one.

## 8. Running it

`tlc -config <cfg> <module>` for each pair in `PROJECT.json`, and `tlapm <module>.tla` for
`ExecutorProofs`, `SchedulerProofs`, `SqliteProofs`, `SessionProofs`, `TraceProofs`,
`ReplayProofs`, `EvidenceProofs` and `BuildProofs`.
