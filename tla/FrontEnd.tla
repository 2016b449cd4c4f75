------------------------------ MODULE FrontEnd ------------------------------
(***************************************************************************)
(* One Run of the GGML front end: callers that submit stripes and fence,   *)
(* and the worker thread that owns the stream.  They share a mutex and one *)
(* condition variable; an action is one region under the mutex, with the   *)
(* thread's private work before it.  A thread that finds its predicate     *)
(* false falls asleep, and only notify_all wakes it.                       *)
(*                                                                         *)
(* A stripe is its number and covers one row.  The build is the one        *)
(* without CYCLE_SIM.  The watchdog counts the clocks of the stream that   *)
(* do not move its oldest stripe.                                          *)
(***************************************************************************)
EXTENDS Naturals, Sequences, FiniteSets

CONSTANTS
    Producers,      \* threads that submit
    Fencers,        \* threads that fence
    Stripes,        \* canonical_stripe_count
    ProducerSlots,  \* producer_slot_count
    RawDepth,       \* stripes the stream holds before it answers backpressure
    StallLimit,     \* stall_cycle_limit
    NoStripe

Callers == Producers \cup Fencers \cup {"main"}

ASSUME FrontEndAssumption ==
    /\ Stripes \in Nat \ {0} /\ ProducerSlots \in Nat \ {0} /\ RawDepth \in Nat \ {0}
    /\ StallLimit \in Nat /\ NoStripe \notin Nat
    /\ {"main", "worker"} \cap (Producers \cup Fencers) = {}
    /\ Producers \cap Fencers = {}

VARIABLES
    options,   \* mode, residual stage and executor of the run
    run,       \* lifecycle, final_status and the flags of fence
    pipe,      \* ready, in_flight, residual_pending and the counters
    worker,    \* where the worker is, its event and its stall counter
    stream,    \* published and completed stripes of the raw stream
    caller,    \* where each caller is
    asleep,    \* threads that wait on the condition variable
    accepted,  \* history: the stripes submit_stripe answered success for
    fenced     \* history: the statuses fence returned

frontVars == <<options, run, pipe, worker, stream, caller, asleep, accepted, fenced>>

Returned == [at |-> "idle", event |-> NoStripe]

FrontInit ==
    /\ options \in [mode : {"full"}, residual : {FALSE}, external : BOOLEAN]
                   \cup [mode : {"stripe_pipeline"}, residual : BOOLEAN, external : BOOLEAN]
    /\ run = [lifecycle |-> "idle", final_status |-> "ok", startup_done |-> FALSE,
              join_in_progress |-> FALSE, output_committed |-> FALSE]
    /\ pipe = [ready |-> <<>>, in_flight |-> {}, residual_pending |-> NoStripe, outstanding |-> 0,
               next_stripe |-> 0, next_row |-> 0, timings |-> <<>>, semantic |-> 0]
    /\ worker = [pc |-> "none", event |-> NoStripe, back |-> "main", moved |-> FALSE, stalled |-> 0]
    /\ stream = [open |-> FALSE, next |-> 0, queue |-> <<>>, done |-> <<>>]
    /\ caller = [t \in Callers |-> IF t = "main" THEN [Returned EXCEPT !.at = "outside"] ELSE Returned]
    /\ asleep = {}
    /\ accepted = <<>>
    /\ fenced = {}

Ok == run.final_status = "ok"
NotifyAll == asleep' = {}
FallAsleep(t) == asleep' = asleep \cup {t}
Goto(pc) == worker' = [worker EXCEPT !.pc = pc]

\* set_error(): the first error stays, and everybody wakes.
SetError(error) ==
    /\ run' = [run EXCEPT !.final_status = IF Ok THEN error ELSE @]
    /\ NotifyAll

-----------------------------------------------------------------------------
(* The callers.  A call that is refused changes nothing and is left out.   *)

\* execute(): the thread starts, or the run is terminal at once.
Execute ==
    /\ caller["main"].at = "outside"
    /\ \/ /\ run' = [run EXCEPT !.lifecycle = "running"]
          /\ Goto("begin")
          /\ caller' = [caller EXCEPT !["main"].at = IF options.mode = "full" THEN "idle" ELSE "startup"]
       \/ /\ run' = [run EXCEPT !.lifecycle = "terminal", !.final_status = "execute"]
          /\ caller' = [caller EXCEPT !["main"] = Returned]
          /\ UNCHANGED worker
    /\ UNCHANGED <<options, pipe, stream, asleep, accepted, fenced>>

\* The end of execute(): a pipeline run is handed out once its stream stands
\* or the worker has failed.
StartupWait ==
    /\ caller["main"].at = "startup" /\ "main" \notin asleep
    /\ IF run.startup_done \/ ~Ok
       THEN caller' = [caller EXCEPT !["main"] = Returned] /\ UNCHANGED asleep
       ELSE FallAsleep("main") /\ UNCHANGED caller
    /\ UNCHANGED <<options, run, pipe, worker, stream, accepted, fenced>>

Launched == caller["main"].at = "idle"

Enqueue(e) ==
    /\ pipe' = [pipe EXCEPT !.ready = Append(@, e), !.outstanding = @ + 1,
                            !.next_stripe = @ + 1, !.next_row = e + 1]
    /\ accepted' = Append(accepted, e)

\* submit_stripe(): order and bounds are checked, then the capacity.
Submit(t, e) ==
    /\ Launched /\ caller[t].at = "idle"
    /\ run.lifecycle = "running" /\ options.mode = "stripe_pipeline" /\ Ok
    /\ e = pipe.next_stripe /\ e = pipe.next_row /\ e < Stripes
    /\ IF pipe.outstanding >= ProducerSlots
       THEN /\ caller' = [caller EXCEPT ![t] = [at |-> "capacity", event |-> e]]
            /\ asleep' = {t}
            /\ UNCHANGED <<pipe, accepted>>
       ELSE Enqueue(e) /\ NotifyAll /\ UNCHANGED caller
    /\ UNCHANGED <<options, run, worker, stream, fenced>>

CapacityFree_Only == pipe.outstanding < ProducerSlots

\* What a blocked producer waits for.
CapacityFree == pipe.outstanding < ProducerSlots \/ ~Ok

\* The rest of a submit_stripe() that had to wait: the status and the
\* lifecycle are read again, the order is not.
CapacityWait(t) ==
    /\ caller[t].at = "capacity" /\ t \notin asleep
    /\ IF ~CapacityFree
       THEN FallAsleep(t) /\ UNCHANGED <<pipe, caller, accepted>>
       ELSE /\ NotifyAll
            /\ caller' = [caller EXCEPT ![t] = Returned]
            /\ IF Ok /\ run.lifecycle = "running"
               THEN Enqueue(caller[t].event)
               ELSE UNCHANGED <<pipe, accepted>>
    /\ UNCHANGED <<options, run, worker, stream, fenced>>

FenceBehind_Returns(t) ==
    /\ run.lifecycle = "closing" /\ run.join_in_progress
    /\ fenced' = fenced \cup {run.final_status}
    /\ UNCHANGED <<run, caller, asleep>>

\* A fence that finds another one joining waits for it.
FenceBehind(t) ==
    /\ run.lifecycle = "closing" /\ run.join_in_progress
    /\ caller' = [caller EXCEPT ![t].at = "fence"]
    /\ FallAsleep(t)
    /\ UNCHANGED <<run, fenced>>

\* fence(), first region: the first caller closes the run and joins the worker.
Fence(t) ==
    /\ Launched /\ caller[t].at = "idle"
    /\ \/ /\ run.lifecycle = "terminal"
          /\ fenced' = fenced \cup {run.final_status}
          /\ UNCHANGED <<run, caller, asleep>>
       \/ /\ run.lifecycle = "running"
          /\ run' = [run EXCEPT !.lifecycle = "closing", !.join_in_progress = TRUE]
          /\ caller' = [caller EXCEPT ![t].at = "join"]
          /\ NotifyAll
          /\ UNCHANGED fenced
       \/ FenceBehind(t)
    /\ UNCHANGED <<options, pipe, worker, stream, accepted>>

\* semantic_coverage_complete()
CoverageComplete == options.residual => pipe.semantic = Stripes

\* The checks of fence() after the join.
FinalStatus ==
    CASE ~Ok -> run.final_status
      [] Ok /\ options.mode = "stripe_pipeline" /\ Len(pipe.timings) /= Stripes -> "timings"
      [] Ok /\ options.mode = "stripe_pipeline" /\ Len(pipe.timings) = Stripes
            /\ ~CoverageComplete -> "coverage"
      [] OTHER -> "ok"

\* fence(), second region, after the worker's last instruction.
Join(t) ==
    /\ caller[t].at = "join" /\ worker.pc = "exited"
    /\ run' = [run EXCEPT !.final_status = FinalStatus, !.join_in_progress = FALSE,
                          !.lifecycle = "terminal",
                          !.output_committed = options.mode = "full" /\ FinalStatus = "ok"]
    /\ caller' = [caller EXCEPT ![t] = Returned]
    /\ fenced' = fenced \cup {FinalStatus}
    /\ NotifyAll
    /\ UNCHANGED <<options, pipe, worker, stream, accepted>>

\* The rest of a fence() that found another one joining.
FenceWait(t) ==
    /\ caller[t].at = "fence" /\ t \notin asleep
    /\ IF run.lifecycle = "terminal"
       THEN /\ caller' = [caller EXCEPT ![t] = Returned]
            /\ fenced' = fenced \cup {run.final_status}
            /\ UNCHANGED asleep
       ELSE FallAsleep(t) /\ UNCHANGED <<caller, fenced>>
    /\ UNCHANGED <<options, run, pipe, worker, stream, accepted>>

\* authorize_output_commit(): the caller's own terminal stage decides.
Authorize(rmd_succeeded) ==
    /\ Launched /\ options.mode = "stripe_pipeline" /\ run.lifecycle = "terminal" /\ Ok
    /\ IF rmd_succeeded
       THEN run' = [run EXCEPT !.output_committed = TRUE] /\ UNCHANGED asleep
       ELSE run' = [run EXCEPT !.final_status = "rmd"] /\ NotifyAll
    /\ UNCHANGED <<options, pipe, worker, stream, caller, accepted, fenced>>

-----------------------------------------------------------------------------
(* The worker.                                                             *)

\* run_full(): one call of the simulator.
RunFull ==
    /\ options.mode = "full" /\ worker.pc = "begin"
    /\ \/ UNCHANGED <<run, asleep>>
       \/ SetError("full")
    /\ Goto("exited")
    /\ UNCHANGED <<options, pipe, stream, caller, accepted, fenced>>

\* run_pipeline(): the simulators and the stream are made.
Begin ==
    /\ options.mode = "stripe_pipeline" /\ worker.pc = "begin"
    /\ \/ stream' = [stream EXCEPT !.open = TRUE] /\ UNCHANGED <<run, asleep>>
       \/ SetError("startup") /\ UNCHANGED stream
    /\ Goto("started")
    /\ UNCHANGED <<options, pipe, caller, accepted, fenced>>

\* startup_done is set whether the stream stands or not.
StartupDone ==
    /\ worker.pc = "started"
    /\ run' = [run EXCEPT !.startup_done = TRUE]
    /\ NotifyAll
    /\ Goto(IF stream.open THEN "loop" ELSE "exited")
    /\ UNCHANGED <<options, pipe, stream, caller, accepted, fenced>>

Closing == run.lifecycle = "closing"
NothingHeld == pipe.in_flight = {} /\ pipe.residual_pending = NoStripe
Complete ==
    /\ Closing /\ pipe.ready = <<>> /\ NothingHeld /\ pipe.next_row = Stripes
    /\ pipe.outstanding = 0 /\ CoverageComplete

\* The head of the loop: sleep, stop, take a stripe or go on polling.  An early
\* fence is found here, and its error is set without waking anybody.
Loop ==
    LET idle == pipe.ready = <<>> /\ NothingHeld /\ ~Closing /\ Ok
        take == pipe.ready /= <<>> /\ (options.residual => NothingHeld)
        last == pipe.ready = <<>> /\ Closing
        early == last /\ pipe.next_row /= Stripes
    IN  /\ worker.pc = "loop" /\ "worker" \notin asleep
        /\ \/ idle /\ FallAsleep("worker") /\ UNCHANGED <<run, pipe, worker>>
           \/ /\ Ok /\ take
              /\ pipe' = [pipe EXCEPT !.ready = Tail(@)]
              /\ worker' = [worker EXCEPT !.pc = "publish", !.event = Head(pipe.ready)]
              /\ NotifyAll
              /\ UNCHANGED run
           \/ /\ Ok /\ early
              /\ run' = [run EXCEPT !.final_status = "unsubmitted"]
              /\ Goto("finish")
              /\ UNCHANGED <<pipe, asleep>>
           \/ /\ Ok /\ last /\ ~early /\ pipe.outstanding = 0
              /\ Goto("finish")
              /\ UNCHANGED <<run, pipe, asleep>>
           \/ /\ Ok /\ ~idle /\ ~take /\ (last => ~early /\ pipe.outstanding /= 0)
              /\ worker' = [worker EXCEPT !.pc = "poll", !.back = "main", !.moved = FALSE]
              /\ UNCHANGED <<run, pipe, asleep>>
        /\ UNCHANGED <<options, stream, caller, accepted, fenced>>

QueueFull == Len(stream.queue) >= RawDepth

\* publish(): the stream takes its next stripe only; backpressure is answered
\* with a clock.  in_flight may fail to grow, which ends the worker through its
\* exception handler.
Publish ==
    LET e == worker.event
    IN  /\ worker.pc = "publish"
        /\ \/ /\ e = stream.next /\ ~QueueFull
              /\ stream' = [stream EXCEPT !.next = @ + 1, !.queue = Append(@, e)]
              /\ \/ /\ pipe' = [pipe EXCEPT !.in_flight = @ \cup {e}]
                    /\ worker' = [worker EXCEPT !.pc = "poll", !.back = "main", !.moved = FALSE,
                                                !.event = NoStripe]
                    /\ UNCHANGED <<run, asleep>>
                 \/ SetError("worker") /\ Goto("exited") /\ UNCHANGED pipe
           \/ /\ e = stream.next /\ QueueFull
              /\ worker' = [worker EXCEPT !.pc = "progress", !.back = "publish"]
              /\ UNCHANGED <<run, pipe, stream, asleep>>
           \/ SetError("publish") /\ Goto("finish") /\ UNCHANGED <<pipe, stream>>
        /\ UNCHANGED <<options, caller, accepted, fenced>>

CompleteOldest == [stream EXCEPT !.queue = Tail(@), !.done = Append(@, Head(stream.queue))]

\* progress(): one clock of the simulator, which may complete the oldest
\* stripe, do nothing or fail.  An external executor is only polled.
Progress ==
    /\ worker.pc = "progress"
    /\ \/ /\ worker' = [worker EXCEPT !.pc = "poll", !.moved = FALSE]
          /\ UNCHANGED <<run, stream, asleep>>
       \/ /\ ~options.external /\ stream.queue /= <<>>
          /\ stream' = CompleteOldest
          /\ worker' = [worker EXCEPT !.pc = "poll", !.moved = TRUE]
          /\ UNCHANGED <<run, asleep>>
       \/ ~options.external /\ SetError("progress") /\ Goto("finish") /\ UNCHANGED stream
    /\ UNCHANGED <<options, pipe, caller, accepted, fenced>>

\* An external executor runs by itself.
Device ==
    /\ options.external /\ stream.queue /= <<>> /\ worker.pc /= "exited"
    /\ stream' = CompleteOldest
    /\ UNCHANGED <<options, run, pipe, worker, caller, asleep, accepted, fenced>>

ValidCompletion(c) ==
    /\ c \in pipe.in_flight /\ c = Len(pipe.timings) /\ pipe.residual_pending = NoStripe
    /\ Len(pipe.timings) < Stripes

\* poll(), one completion: its slot is free now, or after the residual stage.
PollCompletion ==
    /\ worker.pc = "poll" /\ stream.done /= <<>>
    /\ LET c == Head(stream.done)
       IN  IF ValidCompletion(c)
           THEN /\ pipe' = [pipe EXCEPT !.timings = Append(@, c), !.in_flight = @ \ {c},
                        !.residual_pending = IF options.residual THEN c ELSE @,
                        !.outstanding = IF options.residual THEN @ ELSE @ - 1]
                /\ worker' = [worker EXCEPT !.moved = TRUE,
                                  !.pc = IF options.residual THEN "residual" ELSE @]
                /\ NotifyAll
                /\ UNCHANGED run
           ELSE SetError("completion") /\ Goto("finish") /\ UNCHANGED pipe
    /\ stream' = [stream EXCEPT !.done = Tail(@)]
    /\ UNCHANGED <<options, caller, accepted, fenced>>

\* poll(), after the residual callback of the pending stripe.
Residual ==
    /\ worker.pc = "residual"
    /\ \/ /\ Ok /\ pipe.residual_pending = pipe.semantic /\ pipe.outstanding /= 0
          /\ pipe' = [pipe EXCEPT !.semantic = @ + 1, !.outstanding = @ - 1,
                                  !.residual_pending = NoStripe]
          /\ Goto("poll")
          /\ NotifyAll
          /\ UNCHANGED run
       \/ /\ SetError("residual")
          /\ pipe' = [pipe EXCEPT !.residual_pending = NoStripe]
          /\ Goto("finish")
    /\ UNCHANGED <<options, stream, caller, accepted, fenced>>

\* poll() fails: only an external executor can.
PollFails ==
    /\ worker.pc = "poll" /\ options.external
    /\ SetError("poll")
    /\ Goto("finish")
    /\ UNCHANGED <<options, pipe, stream, caller, accepted, fenced>>

\* poll() finds nothing more.  After the loop's own poll the run may be
\* complete; after a clock of the simulator the watchdog counts.
PollEmpty ==
    LET stalled == IF worker.moved THEN 0 ELSE worker.stalled + 1
    IN  /\ worker.pc = "poll" /\ stream.done = <<>>
        /\ \/ /\ worker.back = "main"
              /\ worker' = [worker EXCEPT !.pc = IF Complete THEN "finish" ELSE "progress",
                                          !.back = "loop", !.moved = FALSE,
                                          !.stalled = IF worker.moved THEN 0 ELSE @]
              /\ UNCHANGED <<run, asleep>>
           \/ /\ worker.back /= "main" /\ (options.external \/ stalled <= StallLimit)
              /\ worker' = [worker EXCEPT !.pc = worker.back, !.moved = FALSE,
                                          !.stalled = IF options.external THEN @ ELSE stalled]
              /\ UNCHANGED <<run, asleep>>
           \/ /\ worker.back /= "main" /\ ~options.external /\ stalled > StallLimit
              /\ SetError("stall")
              /\ Goto("finish")
        /\ UNCHANGED <<options, pipe, stream, caller, accepted, fenced>>

\* The stream is finished only when the run is complete, and may refuse.
Finish ==
    /\ worker.pc = "finish"
    /\ \/ UNCHANGED <<run, asleep>>
       \/ Ok /\ Complete /\ SetError("finish")
    /\ Goto("cleanup")
    /\ UNCHANGED <<options, pipe, stream, caller, accepted, fenced>>

\* The worker's last region: a failed run lets go of everything and wakes
\* whoever waits.
Cleanup ==
    /\ worker.pc = "cleanup"
    /\ IF Ok
       THEN UNCHANGED <<pipe, asleep>>
       ELSE /\ pipe' = [pipe EXCEPT !.ready = <<>>, !.in_flight = {}, !.residual_pending = NoStripe,
                                    !.outstanding = 0]
            /\ NotifyAll
    /\ Goto("exited")
    /\ UNCHANGED <<options, run, stream, caller, accepted, fenced>>

WorkerStep ==
    \/ RunFull \/ Begin \/ StartupDone \/ Loop \/ Publish \/ Progress
    \/ PollCompletion \/ Residual \/ PollFails \/ PollEmpty \/ Finish \/ Cleanup

\* What a caller inside a call does next.
Continue(t) ==
    \/ t = "main" /\ StartupWait
    \/ t \in Producers /\ CapacityWait(t)
    \/ t \in Fencers /\ (Join(t) \/ FenceWait(t))

FrontNext ==
    \/ Execute
    \/ \E t \in Producers, e \in 0 .. Stripes - 1 : Submit(t, e)
    \/ \E t \in Fencers : Fence(t)
    \/ \E rmd \in BOOLEAN : Authorize(rmd)
    \/ \E t \in Callers : Continue(t)
    \/ WorkerStep
    \/ Device

FrontSpec ==
    /\ FrontInit /\ [][FrontNext]_frontVars
    /\ WF_frontVars(WorkerStep) /\ WF_frontVars(Device)
    /\ \A t \in Callers : WF_frontVars(Continue(t))

-----------------------------------------------------------------------------
(* Properties                                                              *)

Canonical == [n \in 1 .. Stripes |-> n - 1]

\* All stripes went through the stream, and the residual stage, once and in order.
AllDone ==
    options.mode = "stripe_pipeline" =>
        accepted = Canonical /\ pipe.timings = Canonical /\ CoverageComplete

\* What fence() promises: whoever gets its answer, from whichever of the racing
\* calls, the worker has ended; all get the same answer until the caller's own
\* stage fails; success means that every accepted stripe was completed once and
\* in order; and the caller's output is written only after such a success.
FenceHonest ==
    /\ fenced /= {} => worker.pc \in {"none", "exited"}
    /\ Cardinality(fenced \ {"rmd"}) <= 1
    /\ "ok" \in fenced => AllDone
    /\ run.output_committed => AllDone /\ worker.pc = "exited"

\* Every call returns: neither an error of the worker nor the end of the stream
\* nor the fence of another thread leaves a producer, a fence or execute() asleep,
\* not even an exception, after which the worker frees no slot.
CallersReturn ==
    \A t \in Callers : caller[t].at \notin {"outside", "idle"} ~> caller[t].at = "idle"

\* "Calls on one Run are internally synchronized" (im2p_gemmini_frontend.hpp),
\* and submit_stripe() checks their order: a stripe is accepted once, after the
\* one before it.
AcceptedInOrder == \A n \in 1 .. Len(accepted) : accepted[n] = n - 1
=============================================================================
