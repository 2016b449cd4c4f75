---------------------------- MODULE ListSchedule ----------------------------
(***************************************************************************)
(* What a scheduler of the execution graph promises, without a clock, a    *)
(* queue or an event list: a schedule grows one node at a time, and the    *)
(* node placed next is the one that can start earliest, ties broken by     *)
(* declared order and then by identity.  This is the queue_policy          *)
(* READY_ORDER_THEN_ID, clock_alignment CEIL_TO_NPU_EDGE and worker_policy *)
(* EXPLICIT_GANG_VECTOR that every published schedule declares             *)
(* (scheduler.py ScheduleResult.record).  Scheduler and SqliteScheduler    *)
(* are both shown to implement it.                                         *)
(***************************************************************************)
EXTENDS ExecutionIR

VARIABLES ir,        \* the graph; constant along a behaviour
          schedule   \* the entries placed so far

absVars == <<ir, schedule>>

(* n may start at t: it is not placed, what it waits for has happened,     *)
(* nothing placed before occupies one of its resources after t, and an NPU *)
(* node starts on a clock edge.                                            *)
CanStart(n, t) ==
  /\ n \notin DOMAIN schedule
  /\ \A e \in ir.deps[n] : /\ e.node \in DOMAIN schedule
                           /\ At(schedule[e.node], e.milestone) <= t
  /\ \A r \in ir.resources[n], m \in DOMAIN schedule :
        r \in ir.resources[m] => schedule[m].until[r] <= t
  /\ ir.kind[n] = "NPU" => Edge(t)

(* n at t is the choice of the policy. *)
Chosen(n, t) ==
  /\ CanStart(n, t)
  /\ \A m \in Node, u \in 0..t :
        CanStart(m, u) => u = t /\ ~Precedes(ir, m, n)

(* A gang: every resource of the node is held from its start, the result   *)
(* never precedes the acceptance, nor the release the result.              *)
EntryOK(n, entry) ==
  /\ entry \in Entry(ir.resources[n])
  /\ entry.start <= entry.accepted
  /\ entry.accepted <= entry.result
  /\ entry.result <= entry.resource
  /\ \A r \in ir.resources[n] : /\ entry.start <= entry.until[r]
                                /\ entry.until[r] <= entry.resource

Place(n, entry) ==
  /\ Chosen(n, entry.start)
  /\ EntryOK(n, entry)
  /\ schedule' = [m \in DOMAIN schedule \cup {n} |->
                     IF m = n THEN entry ELSE schedule[m]]
  /\ UNCHANGED ir

AbsInit == WellFormed(ir) /\ schedule = [n \in {} |-> 0]

(* The entry placed is the one the step adds, so it can be read off the    *)
(* successor schedule.                                                     *)
AbsNext == \E n \in DOMAIN schedule' : Place(n, schedule'[n])

AbsSpec == AbsInit /\ [][AbsNext]_absVars
============================================================================
