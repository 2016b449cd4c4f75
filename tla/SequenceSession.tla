-------------------------- MODULE SequenceSession --------------------------
(***************************************************************************)
(* The stateful sequence session of the native cycle model                 *)
(* (sequence_c_api.cpp) over the clocked engine's accept, step, finish and *)
(* retire_work (control_engine.cpp).  One handle owns one pending work,    *)
(* one active work and one unread report; a caller offers works, advances  *)
(* simulated time, pops reports and drains a bounded event buffer.  Calls  *)
(* on one handle are serialised by the caller, so an advance call runs its *)
(* loop to a return before any other call.                                 *)
(*                                                                         *)
(* Of the engine this module keeps what the session can observe: how far   *)
(* the host side of the active work has come, which step of it raises how  *)
(* many events, and that a step either commits as a whole or not at all.   *)
(* How many cycles a frame takes is nondeterministic.                      *)
(***************************************************************************)
EXTENDS Integers, Sequences, FiniteSets, FiniteSetsExt

CONSTANTS
  Work,              \* logical work identities, only ever compared; 0 is no work
  Frames,            \* [Work -> frames of the work's schedule]
  Stores,            \* [Work -> frames with final_store]
  Recorded,          \* works offered with record_events
  ReleaseRows,       \* scale_rows * dim: release steps of a frame
  Bursts,            \* how many events a step may raise
  EventCapacity,     \* max_trace_events
  MaxWorkCycles,     \* max_work_cycles
  MaxSessionCycles,  \* max_session_cycles
  MaxWorkIds,        \* max_work_ids
  MaxGeneration,     \* UINT64_MAX
  MaxAhead,          \* how far ahead of the cursor a caller offers or advances
  MaxSteps           \* largest soft step budget a caller passes

ASSUME SessionAssumption ==
  /\ Work \subseteq Nat \ {0} /\ IsFiniteSet(Work) /\ Recorded \subseteq Work
  /\ Frames \in [Work -> Nat \ {0}] /\ Stores \in [Work -> Nat]
  /\ {ReleaseRows, MaxWorkCycles, MaxSessionCycles, MaxWorkIds, MaxGeneration,
      MaxSteps} \subseteq Nat \ {0}
  /\ {EventCapacity, MaxAhead} \cup Bursts \subseteq Nat /\ Bursts # {}

VARIABLES
  generation, cursor, faulted, stop_reason, halves,  \* of the status
  pending,   \* the copied descriptor and its offered cycle, or None
  active,    \* the accepted work of the status, or None
  report,    \* the completed unread report, or None
  seen,      \* the ids offered in this generation
  engine,    \* the engine's clock, work and host progress
  events,    \* the engine's event buffer
  next_event_id,
  burst,     \* events the engine's next step raises
  call,      \* the advance call in progress, or None
  \* History, for the properties only.
  popped,    \* the ids whose report was popped in this generation
  released,  \* the resource-ready cycle of the last report
  last_read  \* the id of the last event read

statusVars == <<generation, cursor, faulted, stop_reason, halves>>
eventVars  == <<events, next_event_id, burst>>
history    == <<popped, released, last_read>>
vars == <<statusVars, pending, active, report, seen, engine, eventVars,
          call, history>>

None == [id |-> 0]

(* The stop reason of the status tells how the last advance ended; it      *)
(* determines the code that was returned.                                  *)
StopReason == {"NONE", "TARGET", "WORK_BUDGET", "SESSION_BUDGET", "FAULT",
               "REPORT_BUFFER", "EVENT_BUFFER_AVAILABLE", "EVENT_BURST",
               "REPORT_AVAILABLE", "SOFT_BUDGET"}

Initialized == generation > 0

IdleEngine(cycle) ==
  [cycle |-> cycle, work |-> 0, initial |-> <<0, 0>>, host |-> "retired",
   frame |-> 1, release |-> 0, result |-> 0, final |-> 0, resource |-> 0]

(* Engine::accept: the work starts in the session's current halves. *)
Started(w) == [IdleEngine(engine.cycle) EXCEPT
                 !.work = w, !.initial = halves, !.host = "accepting"]

(* Fault: the engine is taken for free one cycle after its release. *)
ResourceReadyLate(e) == e.work = 0 \/ (e.host = "retired" /\ e.cycle > e.resource)

(* Fault: the engine is taken for free once the result is ready. *)
ResourceReadyAtResult(e) == e.work = 0 \/ e.host \in {"releasing", "retired"}

(* Engine::resource_ready *)
ResourceReady(e) == e.work = 0 \/ (e.host = "retired" /\ e.cycle >= e.resource)

(* Fault: the half counters are not reduced to one bit. *)
HalvesAfterWide(h, w) == <<h[1] + Frames[w], h[2] + Stores[w]>>

(* The halves after a work: one scratchpad half per frame, one accumulator *)
(* half per stored frame.                                                  *)
HalvesAfter(h, w) == <<(h[1] + Frames[w]) % 2, (h[2] + Stores[w]) % 2>>

(* The caller may make a call. *)
Idle == call = None

Return == call' = None

(* A call that is refused returns its code and changes nothing. *)
Refuse(c) ==
  /\ c \in {"INVALID", "WOULD_BLOCK", "LIMIT", "OVERFLOW", "FAULTED"}
  /\ UNCHANGED vars

----------------------------------------------------------------------------
Init ==
  /\ generation = 0 /\ cursor = 0 /\ faulted = FALSE /\ stop_reason = "NONE"
  /\ halves = <<0, 0>>
  /\ pending = None /\ active = None /\ report = None /\ seen = {}
  /\ engine = IdleEngine(0)
  /\ events = <<>> /\ next_event_id = 0 /\ burst = 0
  /\ call = None
  /\ popped = {} /\ released = 0 /\ last_read = 0

(* im2p_cycle_sequence_reset: a new generation with a cold engine.  The    *)
(* fault that is discarded is visible only as last_discarded_generation.   *)
Reset ==
  /\ Idle
  /\ IF ~faulted /\ (pending # None \/ active # None \/ report # None)
     THEN Refuse("WOULD_BLOCK")
     ELSE IF generation = MaxGeneration THEN Refuse("OVERFLOW")
     ELSE /\ generation' = generation + 1
          /\ cursor' = 0 /\ faulted' = FALSE /\ stop_reason' = "NONE"
          /\ halves' = <<0, 0>>
          /\ pending' = None /\ active' = None /\ report' = None /\ seen' = {}
          /\ engine' = IdleEngine(0)
          /\ events' = <<>> /\ next_event_id' = 0 /\ burst' = 0
          /\ popped' = {} /\ released' = 0 /\ last_read' = 0
          /\ Return

(* Fault: an id may be offered again once its report has been popped. *)
OfferRefusedForgetful(w, cycle) ==
  IF faulted THEN "FAULTED"
  ELSE IF ~Initialized \/ cycle < cursor \/ w \in seen \ popped THEN "INVALID"
  ELSE IF Cardinality(seen) >= MaxWorkIds THEN "LIMIT"
  ELSE IF pending # None THEN "WOULD_BLOCK"
  ELSE "OK"

(* What im2p_cycle_sequence_offer refuses before it copies the descriptor. *)
OfferRefused(w, cycle) ==
  IF faulted THEN "FAULTED"
  ELSE IF ~Initialized \/ cycle < cursor \/ w \in seen THEN "INVALID"
  ELSE IF Cardinality(seen) >= MaxWorkIds THEN "LIMIT"
  ELSE IF pending # None THEN "WOULD_BLOCK"
  ELSE "OK"

Offer(w, cycle) ==
  /\ Idle
  /\ IF OfferRefused(w, cycle) # "OK" THEN Refuse(OfferRefused(w, cycle))
     ELSE /\ pending' = [id |-> w, offered |-> cycle]
          /\ seen' = seen \cup {w}
          /\ Return
          /\ UNCHANGED <<statusVars, active, report, engine, eventVars, history>>

PopReport ==
  /\ Idle
  /\ IF ~Initialized THEN Refuse("INVALID")
     ELSE IF faulted THEN Refuse("FAULTED")
     ELSE IF report = None THEN Refuse("WOULD_BLOCK")
     ELSE /\ report' = None
          /\ popped' = popped \cup {report.id}
          /\ Return
          /\ UNCHANGED <<statusVars, pending, active, seen, engine, eventVars,
                         released, last_read>>

(* read_events with room for capacity events; works on a faulted handle. *)
ReadEvents(capacity) ==
  LET amount == Min({Len(events), capacity}) IN
  /\ Idle
  /\ IF ~Initialized THEN Refuse("INVALID")
     ELSE /\ events' = SubSeq(events, amount + 1, Len(events))
          /\ last_read' = IF amount = 0 THEN last_read ELSE events[amount]
          /\ Return
          /\ UNCHANGED <<statusVars, pending, active, report, seen, engine,
                         next_event_id, burst, popped, released>>

----------------------------------------------------------------------------
(* sequence_advance: the checks before the loop. *)
AdvanceBegin(until, steps, boundary) ==
  LET stopWith(reason) ==
        /\ stop_reason' = reason
        /\ Return
        /\ UNCHANGED <<generation, cursor, faulted, halves, pending, active,
                       report, seen, engine, eventVars, history>>
  IN
  /\ Idle
  /\ IF ~Initialized \/ until < cursor \/ (boundary /\ steps = 0) THEN Refuse("INVALID")
     ELSE IF faulted THEN Refuse("FAULTED")
     ELSE IF boundary /\ report # None THEN stopWith("REPORT_AVAILABLE")
     ELSE IF until = cursor
          THEN stopWith(IF boundary THEN "TARGET" ELSE stop_reason)
     ELSE /\ call' = [id |-> 1, until |-> until, steps |-> steps, boundary |-> boundary]
          /\ UNCHANGED <<statusVars, pending, active, report, seen, engine,
                         eventVars, history>>

SoftBudget == call.boundary /\ call.steps = 0

(* The pending work may enter the engine at this edge. *)
Acceptable == pending # None /\ pending.offered <= cursor /\ ResourceReady(engine)

(* sequence_fault *)
Fault(reason) ==
  /\ faulted' = TRUE
  /\ stop_reason' = reason
  /\ Return

(* Fault: an unread report makes the call wait for a pop. *)
AdvanceStopsSpinning ==
  LET stops(reason) == stop_reason' = reason /\ Return /\ UNCHANGED faulted
  IN
  /\ call # None
  /\ IF cursor >= call.until
     THEN stops("TARGET")
     ELSE IF SoftBudget THEN stops("SOFT_BUDGET")
     ELSE IF cursor >= MaxSessionCycles THEN Fault("SESSION_BUDGET")
     ELSE IF Acceptable
     THEN report # None /\ UNCHANGED <<stop_reason, call, faulted>>
     ELSE /\ active # None /\ cursor - active.accepted >= MaxWorkCycles
          /\ Fault("WORK_BUDGET")
  /\ UNCHANGED <<generation, cursor, halves, pending, active, report, seen,
                 engine, eventVars, history>>

(* The returns of the loop that neither accept nor step.  The pending work *)
(* is not accepted while its predecessor's report is unread.               *)
AdvanceStops ==
  LET stops(reason) == stop_reason' = reason /\ Return /\ UNCHANGED faulted
  IN
  /\ call # None
  /\ IF cursor >= call.until
     THEN stops("TARGET")
     ELSE IF SoftBudget THEN stops("SOFT_BUDGET")
     ELSE IF cursor >= MaxSessionCycles THEN Fault("SESSION_BUDGET")
     ELSE IF Acceptable
     THEN /\ report # None
          /\ IF call.boundary THEN stops("REPORT_AVAILABLE")
             ELSE stops("REPORT_BUFFER")
     ELSE /\ active # None /\ cursor - active.accepted >= MaxWorkCycles
          /\ Fault("WORK_BUDGET")
  /\ UNCHANGED <<generation, cursor, halves, pending, active, report, seen,
                 engine, eventVars, history>>

(* Fault: the session budget is checked one cycle late. *)
AdvancingPastBudget ==
  call # None /\ cursor < call.until /\ ~SoftBudget /\ cursor <= MaxSessionCycles

(* The loop goes on to accept or step. *)
Advancing ==
  call # None /\ cursor < call.until /\ ~SoftBudget /\ cursor < MaxSessionCycles

(* Fault: the unread report does not hold the pending work back. *)
AcceptEarly ==
  /\ Advancing /\ Acceptable
  /\ engine' = Started(pending.id)
  /\ active' = [id |-> pending.id, offered |-> pending.offered, accepted |-> cursor]
  /\ pending' = None
  /\ halves' = HalvesAfter(halves, pending.id)
  /\ burst' \in Bursts
  /\ UNCHANGED <<generation, cursor, faulted, stop_reason, report, seen, events,
                 next_event_id, call, history>>

(* Engine::accept at the first resource-ready edge.  It may run out of     *)
(* memory, which is returned without faulting the handle.                  *)
Accept ==
  /\ Advancing /\ Acceptable /\ report = None
  /\ \/ /\ engine' = Started(pending.id)
        /\ active' = [id |-> pending.id, offered |-> pending.offered, accepted |-> cursor]
        /\ pending' = None
        /\ halves' = HalvesAfter(halves, pending.id)
        /\ burst' \in Bursts
        /\ UNCHANGED <<generation, cursor, faulted, stop_reason, report, seen,
                       events, next_event_id, call, history>>
     \/ Return /\ UNCHANGED <<statusVars, pending, active, report, seen, engine,
                              eventVars, history>>

----------------------------------------------------------------------------
(* A step of the engine is due. *)
Stepping ==
  /\ Advancing /\ ~Acceptable
  /\ active # None => cursor - active.accepted < MaxWorkCycles

Recording == engine.work \in Recorded

(* Engine::record throws EventBufferFull in this step. *)
BufferFull == Recording /\ Len(events) + burst > EventCapacity

(* The host side of Engine::control on one edge: a frame is accepted, its  *)
(* loop ends at some later edge (LogicalDone for the last frame), its      *)
(* scale rows are released one a cycle, then the next frame starts or the  *)
(* work retires.                                                           *)
HostStep(e) ==
  LET final == e.frame = Frames[e.work]
      c == e.cycle
      next == [e EXCEPT !.cycle = c + 1]
  IN  CASE e.work = 0 \/ e.host = "retired" -> {next}
        [] e.work # 0 /\ e.host = "accepting" -> {[next EXCEPT !.host = "waiting"]}
        [] e.work # 0 /\ e.host = "waiting" ->
             {next, [next EXCEPT !.host = "releasing", !.release = 0,
                                 !.result = IF final THEN c ELSE e.result]}
        [] e.work # 0 /\ e.host = "releasing" /\ e.release < ReleaseRows ->
             {[next EXCEPT !.release = e.release + 1,
                           !.final = IF final THEN c ELSE e.final]}
        [] e.work # 0 /\ e.host = "releasing" /\ e.release >= ReleaseRows ->
             {IF final THEN [next EXCEPT !.host = "retired", !.resource = c + 1]
              ELSE [next EXCEPT !.host = "accepting", !.frame = e.frame + 1]}

(* The events of a committed step join the buffer if the work records.     *)
Emit ==
  /\ next_event_id' = next_event_id + burst
  /\ events' = IF Recording THEN events \o [i \in 1..burst |-> next_event_id + i]
               ELSE events

ReportOf(e) ==
  [id |-> active.id, offered |-> active.offered, accepted |-> active.accepted,
   result |-> e.result, final |-> e.final, resource |-> e.resource,
   halves |-> HalvesAfter(e.initial, e.work)]

(* Fault: rollback leaves the events that fitted in the buffer. *)
StepBlockedWithoutRollback ==
  /\ Stepping /\ BufferFull
  /\ events' = events \o [i \in 1..(EventCapacity - Len(events)) |-> next_event_id + i]
  /\ stop_reason' = "EVENT_BUFFER_AVAILABLE" /\ Return
  /\ UNCHANGED <<generation, cursor, faulted, halves, pending, active, report,
                 seen, engine, next_event_id, burst, history>>

(* Engine::step returned false: everything was rolled back. *)
StepBlocked ==
  /\ Stepping /\ BufferFull
  /\ IF events = <<>> THEN Fault("EVENT_BURST")
     ELSE /\ stop_reason' = "EVENT_BUFFER_AVAILABLE"
          /\ Return
          /\ UNCHANGED faulted
  /\ UNCHANGED <<generation, cursor, halves, pending, active, report, seen,
                 engine, eventVars, history>>

(* Engine::step threw and rolled back, or ran out of memory. *)
StepRaises ==
  /\ Stepping
  /\ Fault("FAULT")
  /\ UNCHANGED <<generation, cursor, halves, pending, active, report, seen,
                 engine, eventVars, history>>

(* A committed step.  When the active work has released its resources the  *)
(* report is made and the work retired, unless finish() throws, which      *)
(* faults the handle with the work still active.                           *)
StepCommits ==
  /\ Stepping /\ ~BufferFull
  /\ Emit
  /\ cursor' = cursor + 1
  /\ \E e \in HostStep(engine) :
       IF active # None /\ ResourceReady(e)
       THEN \/ /\ report' = ReportOf(e)
               /\ released' = e.resource
               /\ engine' = IdleEngine(e.cycle)
               /\ active' = None
               /\ burst' = 0
               /\ UNCHANGED faulted
               /\ IF call.boundary
                  THEN stop_reason' = "REPORT_AVAILABLE" /\ Return
                  ELSE UNCHANGED <<stop_reason, call>>
            \/ /\ Fault("FAULT")
               /\ engine' = e
               /\ UNCHANGED <<report, released, active, burst>>
       ELSE /\ engine' = e
            /\ burst' \in (IF e.work = 0 THEN {0} ELSE Bursts)
            /\ call' = [call EXCEPT !.steps = IF call.boundary THEN @ - 1 ELSE @]
            /\ UNCHANGED <<report, released, active, faulted, stop_reason>>
  /\ UNCHANGED <<generation, halves, pending, seen, popped, last_read>>

----------------------------------------------------------------------------
(* One iteration of the advance loop. *)
AdvanceLoop == AdvanceStops \/ Accept \/ StepBlocked \/ StepRaises \/ StepCommits

(* A caller that makes any call, in any order. *)
Caller ==
  \/ Reset
  \/ \E w \in Work, ahead \in -1..MaxAhead : Offer(w, cursor + ahead)
  \/ PopReport
  \/ \E capacity \in 1..(EventCapacity + 1) : ReadEvents(capacity)
  \/ \E ahead \in -1..MaxAhead : AdvanceBegin(cursor + ahead, 0, FALSE)
  \/ \E ahead \in 0..MaxAhead, steps \in 0..MaxSteps :
        AdvanceBegin(cursor + ahead, steps, TRUE)

Next == Caller \/ AdvanceLoop

Spec == Init /\ [][Next]_vars /\ WF_vars(AdvanceLoop)

----------------------------------------------------------------------------
Window == [id : Work, offered : Nat, accepted : Nat, result : Nat, final : Nat,
           resource : Nat, halves : (0..1) \X (0..1)]

(* Every variable keeps its type, and the session's cursor is the engine's *)
(* clock.                                                                  *)
TypeOK ==
  /\ generation \in 0..MaxGeneration /\ cursor \in Nat /\ faulted \in BOOLEAN
  /\ stop_reason \in StopReason
  /\ halves \in (0..1) \X (0..1)
  /\ pending = None \/ pending \in [id : Work, offered : Nat]
  /\ active = None \/ active \in [id : Work, offered : Nat, accepted : Nat]
  /\ report = None \/ report \in Window
  /\ seen \subseteq Work /\ popped \subseteq Work
  /\ events \in Seq(Nat) /\ Len(events) <= EventCapacity
  /\ engine.cycle = cursor

(* No offered work is lost or runs twice: within a generation each is in   *)
(* exactly one of the pending slot, the engine, the report slot and the    *)
(* caller's hands, also across event-buffer rollbacks and faults.          *)
NoWorkLost ==
  LET at(place) == IF place = None THEN {} ELSE {place.id}
      places == <<at(pending), at(active), at(report), popped>>
  IN  /\ seen = UNION {places[i] : i \in 1..4}
      /\ \A i, j \in 1..4 : i # j => places[i] \cap places[j] = {}
      /\ engine.work # 0 <=> active # None

(* A report's milestones are in order, none of them is later than the      *)
(* cursor, and it is the last thing the engine released.                   *)
WindowOrdered ==
  report # None =>
    /\ report.offered <= report.accepted /\ report.accepted < report.result
    /\ report.result <= report.final /\ report.final <= report.resource
    /\ report.resource <= cursor /\ report.resource = released

(* A work is accepted on the first edge on which it has been offered and   *)
(* the engine is free, however the caller cut the time up into advances    *)
(* and whatever blocked them.                                              *)
FirstReadyEdge ==
  active # None => active.accepted = Max({active.offered, released})

(* An unread report shows the halves the next work starts in.              *)
ReportShowsHalves == report # None => report.halves = halves

(* The works this generation accepted, and how many of a set of works have *)
(* an odd count, modulo two: the parity of the sum of their counts.        *)
AcceptedWorks == popped \cup {w \in Work : active.id = w \/ report.id = w}
Parity(counts, works) == Cardinality({w \in works : counts[w] % 2 = 1}) % 2

(* The halves the next work starts in are those left by exactly the works  *)
(* this generation accepted, and an unread report still shows them.        *)
HalvesFollowWork ==
  /\ halves = <<Parity(Frames, AcceptedWorks), Parity(Stores, AcceptedWorks)>>
  /\ ReportShowsHalves

(* With every work recording, the caller reads each committed event once,  *)
(* in order: what it has read and what is buffered are all the ids, and a  *)
(* rolled-back step leaves none behind.                                    *)
EventsExactlyOnce ==
  /\ \A i \in 1..Len(events) :
        events[i] > (IF i = 1 THEN last_read ELSE events[i - 1]) /\ events[i] <= next_event_id
  /\ Recorded = Work =>
        events = [i \in 1..Len(events) |-> last_read + i]
          /\ next_event_id = last_read + Len(events)

(* No work runs past its own budget and no session past its budget, by a   *)
(* single cycle.                                                           *)
WithinBudgets ==
  /\ cursor <= MaxSessionCycles
  /\ active # None => cursor - active.accepted <= MaxWorkCycles

(* What a session reports of a work is what happened to it: its window in  *)
(* order, accepted on the first edge it could be, in the halves its        *)
(* predecessors left, within both cycle budgets.                           *)
ReportsExact == WindowOrdered /\ FirstReadyEdge /\ HalvesFollowWork /\ WithinBudgets

(* Every advance call returns. *)
AdvanceReturns == (call # None) ~> (call = None)
============================================================================
