-------------------------- MODULE SqliteScheduler --------------------------
(***************************************************************************)
(* _run of scheduler_sqlite.py: the scheduler that the official route uses *)
(* for large graphs.  It never scans the graph.  A node waits on a counter *)
(* of unfired incoming edges, a milestone in the future waits in an event  *)
(* heap, ready nodes wait in one priority queue per (is NPU, resources)    *)
(* group, and only the head of a group is ever examined.  Results are      *)
(* buffered and flushed to the database, from which a stateful provider's  *)
(* request time is read back.                                              *)
(***************************************************************************)
EXTENDS ServiceExecutor

CONSTANTS GroupLimit,     \* 4096
          ResultBatch,    \* RESULT_BATCH, 2048
          CheckEvery,     \* 10_000: how often the event heap is measured
          EventCapacity   \* 16384

ASSUME SqliteAssumption ==
  /\ GroupLimit \in Nat /\ EventCapacity \in Nat
  /\ ResultBatch \in Nat \ {0} /\ CheckEvery \in Nat \ {0}

VARIABLES now,
          remaining,  \* _Graph.remaining: unfired incoming edges
          queued,     \* the members of the group queues
          events,     \* milestones that have not fired yet
          stored      \* nodes whose row is in the results table; the rest of
                      \* the completed nodes are in the rows buffer

queueVars == <<remaining, queued, events>>
vars == <<executorVars, now, queueVars, stored>>

Event == [epoch : Nat, edge : Dependency]

(* Fault: one queue for the NPU and one for everything else. *)
GroupByKind(n) == ir.kind[n] = "NPU"

(* The queue a node waits in. *)
Group(n) == <<ir.kind[n] = "NPU", ir.resources[n]>>

(* _Graph.release for every (parent, milestone) in fired. *)
Released(counts, fired) ==
  [n \in Node |-> counts[n] - Cardinality(ir.deps[n] \cap fired)]

(* Nodes whose counter reaches zero are pushed on their group's queue. *)
Pushed(before, after) == {n \in Node : before[n] > 0 /\ after[n] = 0}

----------------------------------------------------------------------------
Init == /\ ExecutorInit
        /\ status = "preparing"
        /\ now = 0
        /\ remaining = [n \in Node |-> 0]
        /\ queued = {}
        /\ events = {}
        /\ stored = {}

(* _prepare: resource groups are counted, incoming edges are counted, and  *)
(* the nodes without any are pushed.                                       *)
Prepare ==
  /\ status = "preparing"
  /\ IF Cardinality({Group(n) : n \in Node}) > GroupLimit
     THEN status' = "resource group limit" /\ UNCHANGED <<remaining, queued>>
     ELSE /\ status' = "running"
          /\ remaining' = [n \in Node |-> Cardinality(ir.deps[n])]
          /\ queued' = {n \in Node : ir.deps[n] = {}}
  /\ UNCHANGED <<ir, provider, completed, resource_free, providerVars,
                 now, events, stored>>

(* The first thing every pass of the loop does: milestones that have come  *)
(* due leave the heap and are released.                                    *)
Due == {e \in events : e.epoch <= now}
DrainedRemaining == Released(remaining, {e.edge : e \in Due})
DrainedQueue == queued \cup Pushed(remaining, DrainedRemaining)

(* A group's queue is a heap on (order, identity), and the heads are       *)
(* examined in that order.                                                 *)
GroupHead(n) ==
  /\ n \in DrainedQueue
  /\ \A m \in DrainedQueue : Group(m) = Group(n) => ~Precedes(ir, m, n)

First(n) ==
  /\ GroupHead(n) /\ Earliest(n, now) = now
  /\ \A m \in DrainedQueue :
        GroupHead(m) /\ Earliest(m, now) = now => ~Precedes(ir, m, n)

(* Fault: the rows buffer is not flushed before the parents are read. *)
FlushedLate == stored

(* A stateful provider's rows are flushed before the parents are read back *)
(* from the results table; _request_available ignores a parent that is not *)
(* there.                                                                  *)
Flushed == IF Stateful THEN DOMAIN completed ELSE stored

RequestAvailable(n) ==
  Max({0} \cup {At(completed[e.node], e.milestone) :
                   e \in {d \in ir.deps[n] : d.node \in Flushed}})

Request(n) == IF Stateful THEN RequestAvailable(n) ELSE NoRequest

(* When the milestones of n, just executed, fire, and which have fired. *)
Epochs(n) == [m \in Milestone |-> At(completed'[n], m)]
Fired(n) == {m \in Milestone : Epochs(n)[m] <= now}

(* The bookkeeping after execute, with the milestones released at once,    *)
(* the instants events are filed under, the nodes taken off the queue and  *)
(* the capacity of the heap.                                               *)
AccountWith(n, fired, epochs, done, capacity) ==
  LET edge(m) == [node |-> n, milestone |-> m]
      counts  == Released(DrainedRemaining, {edge(m) : m \in fired})
      heap    == (events \ Due) \cup
                   {[epoch |-> epochs[m], edge |-> edge(m)] : m \in Milestone \ Fired(n)}
      finished == Cardinality(DOMAIN completed')
  IN  /\ remaining' = counts
      /\ queued' = (DrainedQueue \ done) \cup Pushed(DrainedRemaining, counts)
      /\ events' = heap
      /\ stored' = IF Cardinality(DOMAIN completed' \ Flushed) = ResultBatch
                   THEN DOMAIN completed' ELSE Flushed
      /\ status' = IF finished % CheckEvery = 0 /\ Cardinality(heap) > capacity
                   THEN "event capacity" ELSE "running"

(* Faults: a milestone at this very instant is dropped; every event is     *)
(* filed under the node's result; the node stays queued; the heap is       *)
(* never measured.                                                         *)
AccountDroppingNow(n) ==
  AccountWith(n, {m \in Milestone : Epochs(n)[m] < now}, Epochs(n), {n}, EventCapacity)
AccountAtResult(n) ==
  AccountWith(n, Fired(n), [m \in Milestone |-> completed'[n].result], {n}, EventCapacity)
AccountKeepingQueued(n) == AccountWith(n, Fired(n), Epochs(n), {}, EventCapacity)
AccountUnmeasured(n) ==
  AccountWith(n, Fired(n), Epochs(n), {n}, EventCapacity + 3 * Cardinality(Node))

(* After execute: the row is appended and the buffer flushed when full;    *)
(* milestones that are not in the future are released at once, the others  *)
(* become events; every CheckEvery nodes the heap is measured.             *)
Account(n) == AccountWith(n, Fired(n), Epochs(n), {n}, EventCapacity)

Start(n) ==
  /\ status = "running"
  /\ First(n)
  /\ Execute(n, now, Request(n))
  /\ Account(n)
  /\ UNCHANGED now

StartRaises(n) ==
  /\ status = "running"
  /\ First(n)
  /\ ExecuteRaises(n, now)
  /\ UNCHANGED <<now, queueVars, stored>>

(* Faults: pending events are forgotten; the clock is never moved. *)
WaitForHeads ==
  LET future == {Earliest(n, now) : n \in {m \in DrainedQueue : GroupHead(m)}} IN
  /\ status = "running"
  /\ DOMAIN completed # Node
  /\ \A n \in Node : ~First(n)
  /\ IF future = {}
     THEN Raise("execution stalled") /\ UNCHANGED <<providerVars, now>>
     ELSE now' = Min(future) /\ UNCHANGED executorVars
  /\ remaining' = DrainedRemaining
  /\ queued' = DrainedQueue
  /\ events' = events \ Due
  /\ UNCHANGED stored
WaitInPlace ==
  /\ status = "running"
  /\ DOMAIN completed # Node
  /\ \A n \in Node : ~First(n)
  /\ remaining' = DrainedRemaining
  /\ queued' = DrainedQueue
  /\ events' = events \ Due
  /\ UNCHANGED <<executorVars, now, stored>>

(* No head can start: the clock moves to the earliest head or event. *)
Wait ==
  LET future == {Earliest(n, now) : n \in {m \in DrainedQueue : GroupHead(m)}}
                  \cup {e.epoch : e \in events \ Due}
  IN
  /\ status = "running"
  /\ DOMAIN completed # Node
  /\ \A n \in Node : ~First(n)
  /\ IF future = {}
     THEN Raise("execution stalled") /\ UNCHANGED <<providerVars, now>>
     ELSE now' = Min(future) /\ UNCHANGED executorVars
  /\ remaining' = DrainedRemaining
  /\ queued' = DrainedQueue
  /\ events' = events \ Due
  /\ UNCHANGED stored

Finish ==
  /\ status = "running"
  /\ DOMAIN completed = Node
  /\ stored' = Node
  /\ status' = IF ProviderComplete THEN "done" ELSE "completion"
  /\ UNCHANGED <<ir, provider, completed, resource_free, providerVars, now, queueVars>>

Stopped == status \notin {"preparing", "running"} /\ UNCHANGED vars

Next == \/ Prepare
        \/ \E n \in Node : Start(n) \/ StartRaises(n)
        \/ Wait
        \/ Finish
        \/ Stopped

Spec == Init /\ [][Next]_vars /\ WF_vars(Next)

----------------------------------------------------------------------------
(* Every variable keeps its type; a node is queued, completed or waiting.  *)
TypeOK ==
  /\ ExecutorTypes
  /\ now \in Nat
  /\ remaining \in [Node -> Nat]
  /\ queued \subseteq Node \ DOMAIN completed
  /\ events \subseteq Event
  /\ stored \subseteq DOMAIN completed

Unfired(n) ==
  {e \in ir.deps[n] : \/ e.node \notin DOMAIN completed
                      \/ \E v \in events : v.edge = e}

(* The counters agree with the graph at every pass: a node is queued       *)
(* exactly when every edge into it has fired, whichever of the heap and    *)
(* the immediate release fired it, and no edge fires twice or is lost.     *)
CountersExact ==
  status \in {"running", "done"} =>
    /\ \A n \in Node : remaining[n] = Cardinality(Unfired(n))
    /\ queued = {n \in Node \ DOMAIN completed : Unfired(n) = {}}

(* An event in the heap is the milestone its node recorded, still ahead of *)
(* the last instant a node was started.                                    *)
EventsFromSchedule ==
  \A v \in events : /\ v.edge.node \in DOMAIN completed
                    /\ v.epoch = At(completed[v.edge.node], v.edge.milestone)

(* The request time a stateful schedule publishes is the latest milestone  *)
(* of all of the node's parents, although it is read back from the results *)
(* table, which lags behind the rows buffer.                               *)
RequestTimeExact ==
  Stateful => \A n \in DOMAIN completed :
                completed[n].request = Ready(ir, completed, n)

(* A run stalls only on a causal cycle: every unfinished node waits for a  *)
(* node that will never finish.                                            *)
StallsOnlyOnCycle ==
  status = "execution stalled" =>
    /\ ~Acyclic(ir)
    /\ \A n \in Node \ DOMAIN completed : ~(Parents(ir, n) \subseteq DOMAIN completed)

(* The heap is measured only every CheckEvery nodes; between two           *)
(* measurements it overshoots by at most three milestones per node.        *)
EventsBounded ==
  status \in {"running", "done"} =>
    Cardinality(events) <= EventCapacity + 3 * (Cardinality(DOMAIN completed) % CheckEvery)

(* The SQLite scheduler trips none of the executor's and provider's checks *)
(* on its own account.                                                     *)
NoSelfInflictedRefusal ==
  status \notin {"cannot reserve a future resource", "accepted before resource ready",
                 "offer epoch", "faulted", "work order", "completion"}

(* _run returns or raises. *)
Termination == <>(status \notin {"preparing", "running"})

(* What the event loop keeps beside the graph agrees with it: counters and *)
(* group queues, the heap and its bound, and the verdict of a stall.       *)
Bookkeeping == CountersExact /\ EventsFromSchedule /\ EventsBounded /\ StallsOnlyOnCycle

----------------------------------------------------------------------------
(* The inductive invariant of the proofs in SqliteProofs. *)

(* _prepare runs before anything else. *)
Prepared ==
  status = "preparing" => DOMAIN completed = {} /\ events = {} /\ now = 0

(* A node starts only when every edge into it has fired. *)
CompletedFired ==
  status = "running" => \A n \in DOMAIN completed : Unfired(n) = {}

(* Every milestone still ahead of the clock is in the heap. *)
EventsComplete ==
  status = "running" =>
    \A n \in DOMAIN completed, m \in Milestone :
      At(completed[n], m) > now =>
        [epoch |-> At(completed[n], m), edge |-> [node |-> n, milestone |-> m]] \in events

(* Nothing unfinished could have started before now. *)
NoEarlierStart ==
  \A n \in Node \ DOMAIN completed : \A u \in 0..(now - 1) : ~Policy!CanStart(n, u)

IInv ==
  /\ TypeOK /\ ExecutorInv /\ Prepared /\ CompletedFired /\ EventsComplete
  /\ NoEarlierStart /\ Bookkeeping /\ RequestTimeExact /\ NoSelfInflictedRefusal
============================================================================
