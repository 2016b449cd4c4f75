---------------------------- MODULE SqliteProofs ----------------------------
(***************************************************************************)
(* Proofs about SqliteScheduler for every graph, cyclic ones included, and *)
(* every provider, clock, service bound, batch size and heap capacity: the *)
(* inductive invariant IInv, the bookkeeping and the published request     *)
(* times it contains, and the refinement of ListSchedule.  The executor's  *)
(* part is in ExecutorProofs.                                              *)
(***************************************************************************)
EXTENDS SqliteScheduler, ExecutorProofs

(* There are finitely many (node, milestone) pairs. *)
LEMMA DependencyFinite == IsFiniteSet(Dependency)
<1>1. IsFiniteSet(Milestone)
  <2>1. Milestone = (({} \cup {"ACCEPTED"}) \cup {"RESULT_READY"}) \cup {"RESOURCE_READY"}
    BY DEF Milestone
  <2> QED
    BY <2>1, FS_EmptySet, FS_AddElement
<1>2. IsFiniteSet(Node \X Milestone)
  BY <1>1, FS_Product, IRAssumption
<1> DEFINE f == [d \in Dependency |-> <<d.node, d.milestone>>]
<1>3. f \in Injection(Dependency, Node \X Milestone)
  <2>1. f \in [Dependency -> Node \X Milestone]
    BY DEF Dependency
  <2>2. ASSUME NEW a \in Dependency, NEW b \in Dependency, f[a] = f[b] PROVE a = b
    BY <2>2 DEF Dependency
  <2> QED
    BY <2>1, <2>2 DEF Injection, IsInjective
<1> QED
  BY <1>2, <1>3, FS_Injection

(* The incoming edges of a node are finitely many. *)
LEMMA DepsFinite ==
  ASSUME ExecutorTypes, NEW n \in Node, NEW S, S \subseteq ir.deps[n]
  PROVE  IsFiniteSet(S) /\ Cardinality(S) \in Nat
<1>1. S \in SUBSET Dependency
  BY GraphFacts DEF ExecutorTypes
<1> QED
  BY <1>1, DependencyFinite, FS_Subset, FS_CardinalityType

(* The heap holds one event per milestone at most. *)
LEMMA EventsFinite ==
  ASSUME events \subseteq Event, EventsFromSchedule
  PROVE  IsFiniteSet(events) /\ Cardinality(events) \in Nat
<1> DEFINE f == [v \in events |-> v.edge]
<1>1. f \in Injection(events, Dependency)
  <2>1. f \in [events -> Dependency]
    BY DEF Event
  <2>2. ASSUME NEW a \in events, NEW b \in events, f[a] = f[b] PROVE a = b
    <3>1. a \in Event /\ b \in Event /\ a.edge = b.edge /\ a.epoch = b.epoch
      BY <2>2 DEF EventsFromSchedule
    <3> QED
      BY <3>1 DEF Event
  <2> QED
    BY <2>1, <2>2 DEF Injection, IsInjective
<1> QED
  BY <1>1, DependencyFinite, FS_Injection, FS_CardinalityType

(* One element adds at most one. *)
LEMMA AtMostOne ==
  ASSUME NEW S, IsFiniteSet(S), NEW x
  PROVE  /\ IsFiniteSet(S \cup {x}) /\ Cardinality(S \cup {x}) \in Nat
         /\ Cardinality(S \cup {x}) <= Cardinality(S) + 1
<1>1. Cardinality(S) \in Nat
  BY FS_CardinalityType
<1>2. /\ IsFiniteSet(S \cup {x})
      /\ Cardinality(S \cup {x}) = IF x \in S THEN Cardinality(S) ELSE Cardinality(S) + 1
  BY FS_AddElement
<1> QED
  BY <1>1, <1>2

(* Three elements add at most three. *)
LEMMA AtMostThree ==
  ASSUME NEW S, IsFiniteSet(S), NEW a, NEW b, NEW c, NEW T, T \subseteq S \cup {a, b, c}
  PROVE  IsFiniteSet(T) /\ Cardinality(T) \in Nat /\ Cardinality(T) <= Cardinality(S) + 3
<1>1. PICK S1 : S1 = S \cup {a}
  OBVIOUS
<1>2. PICK S2 : S2 = S1 \cup {b}
  OBVIOUS
<1>3. PICK S3 : S3 = S2 \cup {c}
  OBVIOUS
<1>4. IsFiniteSet(S1) /\ Cardinality(S1) \in Nat /\ Cardinality(S1) <= Cardinality(S) + 1
  BY <1>1, AtMostOne
<1>5. IsFiniteSet(S2) /\ Cardinality(S2) \in Nat /\ Cardinality(S2) <= Cardinality(S1) + 1
  BY <1>2, <1>4, AtMostOne
<1>6. IsFiniteSet(S3) /\ Cardinality(S3) \in Nat /\ Cardinality(S3) <= Cardinality(S2) + 1
  BY <1>3, <1>5, AtMostOne
<1>7. T \in SUBSET S3
  BY <1>1, <1>2, <1>3
<1>8. IsFiniteSet(T) /\ Cardinality(T) <= Cardinality(S3) /\ Cardinality(T) \in Nat
  BY <1>6, <1>7, FS_Subset, FS_CardinalityType
<1>9. Cardinality(S) \in Nat
  BY FS_CardinalityType
<1> QED
  BY <1>4, <1>5, <1>6, <1>8, <1>9

(* _Graph.release keeps the counters exact: when they count the edges of   *)
(* "before", and none of the released ones has fired already, they count   *)
(* "after" once the released ones are gone, and the nodes pushed are those *)
(* whose last edge was released.                                           *)
LEMMA ReleasedExact ==
  ASSUME ExecutorTypes, NEW fired, NEW before \in [Node -> SUBSET Dependency],
         \A n \in Node : /\ before[n] \subseteq ir.deps[n]
                         /\ ir.deps[n] \cap fired \subseteq before[n]
  PROVE  LET count == [n \in Node |-> Cardinality(before[n])]
             rest  == [n \in Node |-> Cardinality(before[n] \ fired)]
         IN  /\ Released(count, fired) = rest
             /\ Pushed(count, rest) = {n \in Node : before[n] # {} /\ before[n] \ fired = {}}
<1> DEFINE count == [n \in Node |-> Cardinality(before[n])]
           rest  == [n \in Node |-> Cardinality(before[n] \ fired)]
<1>1. ASSUME NEW n \in Node
      PROVE  /\ ir.deps[n] \cap fired = before[n] \cap fired
             /\ Cardinality(before[n] \ fired) =
                  Cardinality(before[n]) - Cardinality(before[n] \cap fired)
             /\ Cardinality(before[n]) \in Nat
             /\ Cardinality(before[n]) = 0 <=> before[n] = {}
             /\ Cardinality(before[n] \ fired) = 0 <=> before[n] \ fired = {}
  <2>1. ir.deps[n] \cap fired = before[n] \cap fired
    OBVIOUS
  <2>2. IsFiniteSet(before[n]) /\ Cardinality(before[n]) \in Nat
        /\ IsFiniteSet(before[n] \ fired)
    BY DepsFinite
  <2> QED
    BY <2>1, <2>2, FS_Difference, FS_EmptySet
<1>2. Released(count, fired) = rest
  BY <1>1 DEF Released
<1>3. Pushed(count, rest) = {n \in Node : before[n] # {} /\ before[n] \ fired = {}}
  <2>1. ASSUME NEW n \in Node
        PROVE  (count[n] > 0 <=> before[n] # {}) /\ (rest[n] = 0 <=> before[n] \ fired = {})
    <3>1. count[n] = Cardinality(before[n]) /\ rest[n] = Cardinality(before[n] \ fired)
      OBVIOUS
    <3>2. /\ Cardinality(before[n]) \in Nat
          /\ Cardinality(before[n]) = 0 <=> before[n] = {}
          /\ Cardinality(before[n] \ fired) = 0 <=> before[n] \ fired = {}
      BY <1>1
    <3>3. count[n] > 0 <=> count[n] # 0
      BY <3>1, <3>2
    <3> HIDE DEF count, rest
    <3> QED
      BY <3>1, <3>2, <3>3, Zenon
  <2> HIDE DEF count, rest
  <2> QED
    BY <2>1 DEF Pushed
<1> QED
  BY <1>2, <1>3

----------------------------------------------------------------------------
(* The edges into n that have not fired once this pass has drained the     *)
(* heap.                                                                   *)
DrainedUnfired(n) ==
  {e \in ir.deps[n] : \/ e.node \notin DOMAIN completed
                      \/ \E v \in events \ Due : v.edge = e}

(* Draining fires exactly the edges of the due events. *)
LEMMA DrainFires ==
  ASSUME events \subseteq Event, EventsFromSchedule, NEW n
  PROVE  /\ DrainedUnfired(n) = Unfired(n) \ {v.edge : v \in Due}
         /\ ir.deps[n] \cap {v.edge : v \in Due} \subseteq Unfired(n)
<1>1. \A v, w \in events : v.edge = w.edge => v = w
  <2>1. SUFFICES ASSUME NEW v \in events, NEW w \in events, v.edge = w.edge PROVE v = w
    OBVIOUS
  <2>2. v \in Event /\ w \in Event /\ v.epoch = w.epoch
    BY <2>1 DEF EventsFromSchedule
  <2> QED
    BY <2>1, <2>2 DEF Event
<1>2. \A v \in events : v.edge.node \in DOMAIN completed
  BY DEF EventsFromSchedule
<1>3. Due \subseteq events
  BY DEF Due
<1> QED
  BY <1>1, <1>2, <1>3 DEF DrainedUnfired, Unfired

(* What the drained counters and queues hold. *)
LEMMA Drained ==
  ASSUME IInv, status = "running"
  PROVE  /\ DrainedRemaining = [n \in Node |-> Cardinality(DrainedUnfired(n))]
         /\ DrainedQueue = {n \in Node \ DOMAIN completed : DrainedUnfired(n) = {}}
         /\ \A n \in DOMAIN completed : DrainedUnfired(n) = {}
<1> DEFINE fired  == {v.edge : v \in Due}
           before == [n \in Node |-> Unfired(n)]
           count  == [n \in Node |-> Cardinality(before[n])]
           rest   == [n \in Node |-> Cardinality(before[n] \ fired)]
<1>1. /\ ExecutorTypes /\ events \subseteq Event /\ EventsFromSchedule
      /\ remaining \in [Node -> Nat] /\ DOMAIN completed \subseteq Node
      /\ \A n \in Node : remaining[n] = Cardinality(Unfired(n))
      /\ queued = {n \in Node \ DOMAIN completed : Unfired(n) = {}}
      /\ \A n \in DOMAIN completed : Unfired(n) = {}
  BY DEF IInv, TypeOK, ExecutorTypes, Bookkeeping, CountersExact, CompletedFired
<1>2. \A n \in Node : /\ before[n] = Unfired(n)
                      /\ DrainedUnfired(n) = before[n] \ fired
                      /\ ir.deps[n] \cap fired \subseteq before[n]
                      /\ before[n] \subseteq ir.deps[n]
  BY <1>1, DrainFires DEF Unfired
<1>3. before \in [Node -> SUBSET Dependency]
  <2>1. ASSUME NEW n \in Node PROVE Unfired(n) \in SUBSET Dependency
    BY <1>1, GraphFacts DEF ExecutorTypes, Unfired
  <2> QED
    BY <2>1
<1>4. remaining = count
  BY <1>1
<1> HIDE DEF before, fired
<1>5. /\ Released(count, fired) = rest
      /\ Pushed(count, rest) = {n \in Node : before[n] # {} /\ before[n] \ fired = {}}
  <2>1. \A n \in Node : /\ before[n] \subseteq ir.deps[n]
                        /\ ir.deps[n] \cap fired \subseteq before[n]
    BY <1>2
  <2> QED
    BY ONLY <1>1, <1>3, <2>1, ReleasedExact, Zenon
<1>6. DrainedRemaining = rest
  BY <1>4, <1>5 DEF DrainedRemaining, fired
<1>7. rest = [n \in Node |-> Cardinality(DrainedUnfired(n))]
  BY <1>2
<1>8. DrainedQueue = queued \cup {n \in Node : before[n] # {} /\ before[n] \ fired = {}}
  BY <1>4, <1>5, <1>6 DEF DrainedQueue
<1> HIDE DEF rest, count
<1>9. DrainedQueue = {n \in Node \ DOMAIN completed : DrainedUnfired(n) = {}}
  BY <1>1, <1>2, <1>8
<1>10. \A n \in DOMAIN completed : DrainedUnfired(n) = {}
  BY <1>1, <1>2
<1> QED
  BY <1>6, <1>7, <1>9, <1>10

(* A node is queued exactly when everything it waits for has happened. *)
LEMMA QueuedReady ==
  ASSUME IInv, status = "running", NEW n \in Node, n \notin DOMAIN completed
  PROVE  n \in DrainedQueue <=>
           \A e \in ir.deps[n] : /\ e.node \in DOMAIN completed
                                 /\ At(completed[e.node], e.milestone) <= now
<1>1. /\ n \in DrainedQueue <=> DrainedUnfired(n) = {}
      /\ ExecutorTypes /\ EntriesOK /\ now \in Nat
  BY Drained DEF IInv, TypeOK, ExecutorInv
<1>2. ASSUME NEW e \in ir.deps[n]
      PROVE  /\ e \in Dependency /\ e.milestone \in Milestone
             /\ e = [node |-> e.node, milestone |-> e.milestone]
  BY <1>1, GraphFacts DEF ExecutorTypes, Dependency
<1>3. ASSUME NEW e \in ir.deps[n], e \notin DrainedUnfired(n)
      PROVE  /\ e.node \in DOMAIN completed
             /\ At(completed[e.node], e.milestone) <= now
  <2>1. e.node \in DOMAIN completed /\ ~\E v \in events \ Due : v.edge = e
    BY <1>3 DEF DrainedUnfired
  <2>2. At(completed[e.node], e.milestone) \in Nat
    BY <1>1, <1>2, <2>1, MilestoneFacts
  <2>3. SUFFICES ASSUME At(completed[e.node], e.milestone) > now PROVE FALSE
    BY <1>1, <2>1, <2>2
  <2> DEFINE v == [epoch |-> At(completed[e.node], e.milestone), edge |-> e]
  <2>4. v \in events
    BY <1>2, <2>1, <2>3 DEF IInv, EventsComplete
  <2>5. v \notin Due
    BY <1>1, <2>2, <2>3 DEF Due
  <2> QED
    BY <2>1, <2>4, <2>5
<1>4. ASSUME NEW e \in DrainedUnfired(n), e.node \in DOMAIN completed,
             At(completed[e.node], e.milestone) <= now
      PROVE  FALSE
  <2>1. PICK v \in events \ Due : v.edge = e
    BY <1>4 DEF DrainedUnfired
  <2>2. v.epoch = At(completed[e.node], e.milestone)
    BY <2>1 DEF IInv, Bookkeeping, EventsFromSchedule
  <2> QED
    BY <1>4, <2>1, <2>2 DEF Due
<1>5. DrainedUnfired(n) \subseteq ir.deps[n]
  BY DEF DrainedUnfired
<1> QED
  BY <1>1, <1>3, <1>4, <1>5

(* A queued node whose earliest instant is now may be started. *)
LEMMA QueuedClear ==
  ASSUME IInv, status = "running", NEW n \in DrainedQueue
  PROVE  /\ n \in Node /\ n \notin DOMAIN completed
         /\ Parents(ir, n) \subseteq DOMAIN completed
         /\ Earliest(n, now) \in Nat /\ now <= Earliest(n, now)
         /\ Earliest(n, now) = now => Clear(n, now)
<1>1. /\ n \in Node /\ n \notin DOMAIN completed /\ now \in Nat
      /\ ExecutorTypes /\ EntriesOK /\ FreeIsLast /\ NpuReleased
  BY Drained DEF IInv, TypeOK, ExecutorInv
<1>2. \A e \in ir.deps[n] : /\ e.node \in DOMAIN completed
                            /\ At(completed[e.node], e.milestone) <= now
  BY <1>1, QueuedReady
<1>3. Policy!CanStart(n, Earliest(n, now))
  BY <1>1, <1>2, EarliestCanStart
<1>4. Earliest(n, now) \in Nat /\ now <= Earliest(n, now)
  BY <1>1, EarliestFacts
<1> QED
  BY <1>1, <1>2, <1>3, <1>4 DEF Clear, Parents

(* What can start now is queued, at its earliest instant. *)
LEMMA CanStartQueued ==
  ASSUME IInv, status = "running", NEW n \in Node, Policy!CanStart(n, now)
  PROVE  n \in DrainedQueue /\ Earliest(n, now) = now
<1>1. /\ now \in Nat /\ ExecutorTypes /\ EntriesOK /\ FreeIsLast /\ NpuReleased
  BY DEF IInv, TypeOK, ExecutorInv
<1>2. /\ n \notin DOMAIN completed
      /\ \A e \in ir.deps[n] : /\ e.node \in DOMAIN completed
                               /\ At(completed[e.node], e.milestone) <= now
  BY DEF Policy!CanStart, Policy!At, At
<1>3. n \in DrainedQueue
  BY <1>2, QueuedReady
<1> QED
  BY <1>1, <1>3, CanStartEarliest

(* Every queued node has a head of its group before or at it, with the     *)
(* same earliest instant: examining heads only loses nothing.              *)
LEMMA HeadExists ==
  ASSUME IInv, status = "running", NEW n \in DrainedQueue
  PROVE  \E h \in DrainedQueue : /\ GroupHead(h) /\ (h = n \/ Precedes(ir, h, n))
                                 /\ Earliest(h, now) = Earliest(n, now)
<1> DEFINE group  == {m \in DrainedQueue : Group(m) = Group(n)}
           orders == {ir.order[m] : m \in group}
<1>1. /\ group \subseteq Node /\ n \in group /\ Node \subseteq Nat
      /\ \A m \in group : ir.order[m] \in Nat
  BY Drained, GraphFacts, IRAssumption DEF IInv, TypeOK, ExecutorTypes
<1>2. PICK least \in orders : \A k \in orders : least <= k
  <2>1. orders \subseteq Nat /\ orders # {}
    BY <1>1
  <2> HIDE DEF orders
  <2> QED
    BY <2>1, NatMin
<1> DEFINE firsts == {m \in group : ir.order[m] = least}
<1>3. PICK h \in firsts : \A m \in firsts : h <= m
  <2>1. firsts \subseteq Nat /\ firsts # {}
    BY <1>1, <1>2
  <2> HIDE DEF firsts
  <2> QED
    BY <2>1, NatMin
<1>4. h \in group /\ h \in Nat /\ ir.order[h] = least /\ least \in Nat
  BY <1>1, <1>3
<1>5. ASSUME NEW m \in group
      PROVE  ~Precedes(ir, m, h) /\ (h = m \/ Precedes(ir, h, m))
  <2>1. ir.order[m] \in Nat /\ least <= ir.order[m] /\ m \in Nat
    BY <1>1, <1>2, <1>5
  <2>2. ir.order[m] = least => h <= m
    BY <1>3, <1>5
  <2> HIDE DEF group, orders, firsts
  <2> QED
    BY <1>4, <2>1, <2>2 DEF Precedes
<1>6. GroupHead(h)
  BY <1>4, <1>5 DEF GroupHead
<1>7. Earliest(h, now) = Earliest(n, now)
  <2>1. (ir.kind[h] = "NPU" <=> ir.kind[n] = "NPU") /\ ir.resources[h] = ir.resources[n]
    BY <1>4 DEF Group
  <2> QED
    BY <2>1 DEF Earliest
<1> QED
  BY <1>1, <1>4, <1>5, <1>6, <1>7

----------------------------------------------------------------------------
(* The request time read back from the results table is the one the        *)
(* in-memory scheduler computes: the buffer was flushed first.             *)
LEMMA RequestIsReady ==
  ASSUME IInv, status = "running", NEW n \in DrainedQueue
  PROVE  /\ Request(n) \in Nat \cup {NoRequest}
         /\ Stateful => Request(n) = Ready(ir, completed, n)
<1>1. /\ n \in Node /\ Parents(ir, n) \subseteq DOMAIN completed
      /\ ExecutorTypes /\ EntriesOK
  BY QueuedClear DEF IInv, ExecutorInv
<1>2. Ready(ir, completed, n) \in Nat
  BY <1>1, ReadyFacts
<1>3. ASSUME Stateful PROVE Request(n) = Ready(ir, completed, n)
  <2>1. {d \in ir.deps[n] : d.node \in Flushed} = ir.deps[n]
    BY <1>1, <1>3 DEF Flushed, Parents
  <2> QED
    BY <1>3, <2>1 DEF Request, RequestAvailable, Ready
<1> QED
  BY <1>2, <1>3 DEF Request

(* The milestones of n that fire at once, and the events for the others. *)
FiredEdges(n) == {[node |-> n, milestone |-> m] : m \in Fired(n)}
NewEvents(n) ==
  {[epoch |-> At(completed'[n], m), edge |-> [node |-> n, milestone |-> m]] :
      m \in Milestone \ Fired(n)}

(* What starting a node does. *)
LEMMA StartEffect ==
  ASSUME IInv, NEW n \in Node, Start(n)
  PROVE  /\ n \in DrainedQueue /\ n \notin DOMAIN completed
         /\ Clear(n, now) /\ Placed(n, now, Request(n)) /\ ExecutorInv' /\ now' = now
         /\ Stateful => Request(n) = Ready(ir, completed, n)
         /\ remaining' = Released(DrainedRemaining, FiredEdges(n))
         /\ queued' = (DrainedQueue \ {n}) \cup Pushed(DrainedRemaining, remaining')
         /\ events' = (events \ Due) \cup NewEvents(n)
         /\ stored' \in {DOMAIN completed', Flushed}
         /\ status' = IF /\ Cardinality(DOMAIN completed') % CheckEvery = 0
                        /\ Cardinality(events') > EventCapacity
                      THEN "event capacity" ELSE "running"
<1>1. /\ status = "running" /\ First(n) /\ Execute(n, now, Request(n)) /\ Account(n)
      /\ now' = now /\ ExecutorInv /\ ~faulted
  BY DEF Start, IInv, ExecutorInv, ProviderProgress
<1>2. n \in DrainedQueue /\ n \notin DOMAIN completed /\ Clear(n, now)
  BY <1>1, QueuedClear DEF First, GroupHead
<1>3. /\ Request(n) \in Nat \cup {NoRequest}
      /\ Stateful => Request(n) = Ready(ir, completed, n)
  BY <1>1, <1>2, RequestIsReady
<1>4. ExecutorInv' /\ Placed(n, now, Request(n))
  BY <1>1, <1>2, <1>3, ExecuteKeeps
<1>5. NewEvents(n) = {[epoch |-> Epochs(n)[m], edge |-> [node |-> n, milestone |-> m]] :
                         m \in Milestone \ Fired(n)}
  BY DEF NewEvents, Epochs
<1>6. /\ remaining' = Released(DrainedRemaining, FiredEdges(n))
      /\ queued' = (DrainedQueue \ {n}) \cup Pushed(DrainedRemaining, remaining')
      /\ events' = (events \ Due) \cup NewEvents(n)
      /\ stored' \in {DOMAIN completed', Flushed}
      /\ status' = IF /\ Cardinality(DOMAIN completed') % CheckEvery = 0
                     /\ Cardinality(events') > EventCapacity
                   THEN "event capacity" ELSE "running"
  BY <1>1, <1>5 DEF Account, AccountWith, FiredEdges
<1> QED
  BY <1>1, <1>2, <1>3, <1>4, <1>6

(* Milestones at or before now fire at once; each other one gets its event *)
(* in the heap, filed under its own instant.                               *)
LEMMA StartEvents ==
  ASSUME IInv, NEW n \in Node, Start(n)
  PROVE  /\ events' \subseteq Event /\ EventsFromSchedule'
         /\ \A m \in Milestone : m \in Fired(n) <=> At(completed'[n], m) <= now
         /\ \A m \in Milestone : At(completed'[n], m) \in Nat
<1>1. /\ now \in Nat /\ n \notin DOMAIN completed
      /\ DOMAIN completed' = DOMAIN completed \cup {n}
      /\ \A k \in DOMAIN completed : completed'[k] = completed[k]
      /\ completed'[n] \in Entry(ir.resources[n])
      /\ events' = (events \ Due) \cup NewEvents(n)
      /\ events \subseteq Event /\ EventsFromSchedule
  BY StartEffect DEF Placed, IInv, TypeOK, Bookkeeping
<1>2. \A m \in Milestone : At(completed'[n], m) \in Nat
  BY <1>1 DEF Entry, At, Milestone
<1>3. \A m \in Milestone : m \in Fired(n) <=> At(completed'[n], m) <= now
  BY DEF Fired, Epochs
<1>4. ASSUME NEW v \in events'
      PROVE  /\ v \in Event /\ v.edge.node \in DOMAIN completed'
             /\ v.epoch = At(completed'[v.edge.node], v.edge.milestone)
  <2>1. CASE v \in events
    <3>1. v \in Event /\ v.edge.node \in DOMAIN completed
          /\ v.epoch = At(completed[v.edge.node], v.edge.milestone)
      BY <1>1, <2>1 DEF EventsFromSchedule
    <3> QED
      BY <1>1, <3>1
  <2>2. CASE v \in NewEvents(n)
    <3>1. PICK m \in Milestone : v = [epoch |-> At(completed'[n], m),
                                      edge |-> [node |-> n, milestone |-> m]]
      BY <2>2 DEF NewEvents
    <3>2. v.epoch = At(completed'[n], m) /\ v.edge = [node |-> n, milestone |-> m]
      BY <3>1
    <3>3. v.edge.node = n /\ v.edge.milestone = m /\ v.edge \in Dependency
      BY <3>2 DEF Dependency
    <3>4. v \in Event
      BY <1>2, <3>1, <3>2, <3>3 DEF Event
    <3> QED
      BY <1>1, <3>2, <3>3, <3>4
  <2> QED
    BY <1>1, <1>4, <2>1, <2>2
<1> QED
  BY <1>2, <1>3, <1>4 DEF EventsFromSchedule

(* Of the edges left after draining, starting n fires exactly its own that *)
(* are due.                                                                *)
LEMMA StartFires ==
  ASSUME IInv, NEW n \in Node, Start(n), NEW k \in Node
  PROVE  /\ Unfired(k)' = DrainedUnfired(k) \ FiredEdges(n)
         /\ ir.deps[k] \cap FiredEdges(n) \subseteq DrainedUnfired(k)
<1>1. /\ n \notin DOMAIN completed /\ ir' = ir
      /\ DOMAIN completed' = DOMAIN completed \cup {n}
      /\ events' = (events \ Due) \cup NewEvents(n)
      /\ EventsFromSchedule /\ ExecutorTypes
  BY StartEffect DEF Placed, IInv, TypeOK, Bookkeeping
<1>2. ASSUME NEW e \in ir.deps[k]
      PROVE  e.milestone \in Milestone /\ e = [node |-> e.node, milestone |-> e.milestone]
  BY <1>1, GraphFacts DEF ExecutorTypes, Dependency
<1>3. ASSUME NEW e \in ir.deps[k]
      PROVE  e \in FiredEdges(n) <=> e.node = n /\ e.milestone \in Fired(n)
  BY <1>2 DEF FiredEdges
<1>4. ASSUME NEW e \in ir.deps[k]
      PROVE  (\E v \in NewEvents(n) : v.edge = e)
               <=> e.node = n /\ e.milestone \notin Fired(n)
  <2>1. ASSUME NEW v \in NewEvents(n), v.edge = e
        PROVE  e.node = n /\ e.milestone \notin Fired(n)
    <3>1. PICK m \in Milestone \ Fired(n) :
            v = [epoch |-> At(completed'[n], m), edge |-> [node |-> n, milestone |-> m]]
      BY <2>1 DEF NewEvents
    <3>2. e = [node |-> n, milestone |-> m]
      BY <2>1, <3>1
    <3> QED
      BY <3>2
  <2>2. ASSUME e.node = n, e.milestone \notin Fired(n)
        PROVE  \E v \in NewEvents(n) : v.edge = e
    <3> DEFINE v == [epoch |-> At(completed'[n], e.milestone),
                     edge |-> [node |-> n, milestone |-> e.milestone]]
    <3>1. v \in NewEvents(n)
      BY <1>2, <2>2 DEF NewEvents
    <3>2. v.edge = e
      BY <1>2, <2>2
    <3> QED
      BY <3>1, <3>2
  <2> QED
    BY <2>1, <2>2
<1>5. \A v \in events : v.edge.node # n
  BY <1>1 DEF EventsFromSchedule
<1>6. Unfired(k)' = {e \in ir.deps[k] : \/ e.node \notin DOMAIN completed'
                                        \/ \E v \in events' : v.edge = e}
  BY <1>1 DEF Unfired
<1>7. ASSUME NEW e \in ir.deps[k]
      PROVE  /\ e \in Unfired(k)' <=> e \in DrainedUnfired(k) /\ e \notin FiredEdges(n)
             /\ e \in FiredEdges(n) => e \in DrainedUnfired(k)
  <2>1. (\E v \in events' : v.edge = e) <=>
          \/ \E v \in events \ Due : v.edge = e
          \/ e.node = n /\ e.milestone \notin Fired(n)
    BY <1>1, <1>4
  <2>2. (\E v \in events \ Due : v.edge = e) => e.node # n
    BY <1>5
  <2> QED
    BY <1>1, <1>3, <1>6, <2>1, <2>2 DEF DrainedUnfired
<1>8. Unfired(k)' \subseteq ir.deps[k] /\ DrainedUnfired(k) \subseteq ir.deps[k]
  BY <1>6 DEF DrainedUnfired
<1> QED
  BY <1>7, <1>8

(* The counters and the queues stay exact. *)
LEMMA StartCounts ==
  ASSUME IInv, NEW n \in Node, Start(n)
  PROVE  /\ remaining' = [k \in Node |-> Cardinality(Unfired(k)')]
         /\ remaining' \in [Node -> Nat]
         /\ queued' = {k \in Node \ DOMAIN completed' : Unfired(k)' = {}}
         /\ \A k \in DOMAIN completed' : Unfired(k)' = {}
<1> DEFINE fired  == FiredEdges(n)
           before == [k \in Node |-> DrainedUnfired(k)]
           count  == [k \in Node |-> Cardinality(before[k])]
           rest   == [k \in Node |-> Cardinality(before[k] \ fired)]
<1>1. /\ n \in DrainedQueue /\ n \notin DOMAIN completed /\ status = "running"
      /\ DOMAIN completed' = DOMAIN completed \cup {n}
      /\ remaining' = Released(DrainedRemaining, fired)
      /\ queued' = (DrainedQueue \ {n}) \cup Pushed(DrainedRemaining, remaining')
      /\ ExecutorTypes /\ DOMAIN completed \subseteq Node
  BY StartEffect DEF Placed, IInv, TypeOK, ExecutorTypes, Start
<1>2. /\ DrainedRemaining = [k \in Node |-> Cardinality(DrainedUnfired(k))]
      /\ DrainedQueue = {k \in Node \ DOMAIN completed : DrainedUnfired(k) = {}}
      /\ \A k \in DOMAIN completed : DrainedUnfired(k) = {}
  BY <1>1, Drained
<1>3. \A k \in Node : /\ before[k] = DrainedUnfired(k)
                      /\ Unfired(k)' = before[k] \ fired
                      /\ ir.deps[k] \cap fired \subseteq before[k]
                      /\ before[k] \subseteq ir.deps[k]
  BY StartFires DEF DrainedUnfired
<1>4. before \in [Node -> SUBSET Dependency]
  <2>1. ASSUME NEW k \in Node PROVE DrainedUnfired(k) \in SUBSET Dependency
    BY <1>1, GraphFacts DEF ExecutorTypes, DrainedUnfired
  <2> QED
    BY <2>1
<1>5. DrainedRemaining = count
  BY <1>2
<1> HIDE DEF before, fired
<1>6. /\ Released(count, fired) = rest
      /\ Pushed(count, rest) = {k \in Node : before[k] # {} /\ before[k] \ fired = {}}
  <2>1. \A k \in Node : /\ before[k] \subseteq ir.deps[k]
                        /\ ir.deps[k] \cap fired \subseteq before[k]
    BY <1>3
  <2> QED
    BY ONLY <1>1, <1>4, <2>1, ReleasedExact, Zenon
<1>7. remaining' = rest
  BY <1>1, <1>5, <1>6
<1>8. rest = [k \in Node |-> Cardinality(Unfired(k)')]
  BY <1>3
<1>9. rest \in [Node -> Nat]
  <2>1. ASSUME NEW k \in Node PROVE Cardinality(before[k] \ fired) \in Nat
    BY <1>1, <1>3, DepsFinite
  <2> QED
    BY <2>1
<1>10. queued' = (DrainedQueue \ {n})
                   \cup {k \in Node : before[k] # {} /\ before[k] \ fired = {}}
  BY <1>1, <1>5, <1>6, <1>7
<1> HIDE DEF rest, count
<1>11. queued' = {k \in Node \ DOMAIN completed' : Unfired(k)' = {}}
  BY <1>1, <1>2, <1>3, <1>10
<1>12. \A k \in DOMAIN completed' : Unfired(k)' = {}
  BY <1>1, <1>2, <1>3
<1> QED
  BY <1>7, <1>8, <1>9, <1>11, <1>12

(* Counting modulo the period: the next count is either a multiple of it   *)
(* or one further from the last multiple.                                  *)
LEMMA NextModulo ==
  ASSUME NEW k \in Nat, NEW c \in Nat \ {0}
  PROVE  /\ k % c \in Nat /\ (k + 1) % c \in Nat
         /\ (k + 1) % c = 0 \/ (k + 1) % c = (k % c) + 1
<1>1. /\ k \div c \in Int /\ k % c \in 0..(c - 1) /\ k = c * (k \div c) + (k % c)
  BY DivFacts
<1>2. /\ (k + 1) \div c \in Int /\ (k + 1) % c \in 0..(c - 1)
      /\ k + 1 = c * ((k + 1) \div c) + ((k + 1) % c)
  BY DivFacts
<1>3. PICK q \in Int : q = k \div c
  BY <1>1
<1>4. PICK r \in Int : r = (k + 1) \div c
  BY <1>2
<1>5. PICK a \in 0..(c - 1) : a = k % c
  BY <1>1
<1>6. PICK b \in 0..(c - 1) : b = (k + 1) % c
  BY <1>2
<1>7. c * r + b = c * q + a + 1
  BY <1>1, <1>2, <1>3, <1>4, <1>5, <1>6
<1>8. PICK d \in Int : d = r - q
  BY <1>3, <1>4
<1>9. c * r = c * q + c * d
  BY <1>3, <1>4, <1>8
<1>10. c * d + b = a + 1 /\ c * d \in Int
  BY <1>7, <1>9, <1>3, <1>5, <1>6, <1>8
<1>11. CASE d = 0
  BY <1>10, <1>11, <1>5, <1>6
<1>12. CASE d = 1
  BY <1>10, <1>12, <1>5, <1>6
<1>13. CASE d >= 2
  <2>1. c * d >= 2 * c
    BY <1>8, <1>13
  <2> QED
    BY <2>1, <1>10, <1>5, <1>6
<1>14. CASE d <= -1
  <2>1. c * d <= -c
    BY <1>8, <1>14
  <2> QED
    BY <2>1, <1>10, <1>5, <1>6
<1> QED
  BY <1>8, <1>11, <1>12, <1>13, <1>14, <1>5, <1>6

(* One node adds at most three events, and the heap is measured whenever   *)
(* the number of finished nodes reaches a multiple of CheckEvery.          *)
LEMMA StartBound ==
  ASSUME IInv, NEW n \in Node, Start(n)
  PROVE  EventsBounded'
<1>1. /\ n \notin DOMAIN completed /\ status = "running"
      /\ DOMAIN completed' = DOMAIN completed \cup {n}
      /\ events' = (events \ Due) \cup NewEvents(n)
      /\ status' = IF /\ Cardinality(DOMAIN completed') % CheckEvery = 0
                     /\ Cardinality(events') > EventCapacity
                   THEN "event capacity" ELSE "running"
      /\ events \subseteq Event /\ EventsFromSchedule
      /\ DOMAIN completed \subseteq Node
      /\ Cardinality(events) <= EventCapacity + 3 * (Cardinality(DOMAIN completed) % CheckEvery)
  BY StartEffect DEF Placed, IInv, TypeOK, ExecutorTypes, Bookkeeping, EventsBounded, Start
<1>2. IsFiniteSet(events) /\ Cardinality(events) \in Nat
  BY <1>1, EventsFinite
<1>3. Cardinality(events') \in Nat /\ Cardinality(events') <= Cardinality(events) + 3
  <2> DEFINE new(m) == [epoch |-> At(completed'[n], m),
                        edge |-> [node |-> n, milestone |-> m]]
  <2>1. NewEvents(n) \subseteq {new("ACCEPTED"), new("RESULT_READY"), new("RESOURCE_READY")}
    BY DEF NewEvents, Milestone
  <2>2. PICK a, b, c : NewEvents(n) \subseteq {a, b, c}
    BY <2>1
  <2>3. events' \subseteq events \cup {a, b, c}
    BY <1>1, <2>2
  <2> QED
    BY <1>2, <2>3, AtMostThree
<1>4. /\ Cardinality(DOMAIN completed) \in Nat
      /\ Cardinality(DOMAIN completed') = Cardinality(DOMAIN completed) + 1
  <2>1. DOMAIN completed \in SUBSET Node
    BY <1>1
  <2>2. IsFiniteSet(DOMAIN completed)
    BY <2>1, IRAssumption, FS_Subset
  <2> QED
    BY <1>1, <2>2, FS_CardinalityType, FS_AddElement
<1>5. PICK k \in Nat : k = Cardinality(DOMAIN completed)
  BY <1>4
<1>6. PICK size \in Nat : size = Cardinality(events')
  BY <1>3
<1>7. /\ k % CheckEvery \in Nat /\ (k + 1) % CheckEvery \in Nat
      /\ (k + 1) % CheckEvery = 0 \/ (k + 1) % CheckEvery = (k % CheckEvery) + 1
  BY NextModulo, SqliteAssumption
<1>8. size <= EventCapacity + 3 * (k % CheckEvery) + 3 /\ EventCapacity \in Nat
  <2>1. PICK old \in Nat : old = Cardinality(events)
    BY <1>2
  <2>2. PICK r \in Nat : r = k % CheckEvery
    BY <1>7
  <2>3. old <= EventCapacity + 3 * r
    BY <1>1, <1>5, <2>1, <2>2
  <2>4. size <= old + 3
    BY <1>3, <1>6, <2>1
  <2>5. EventCapacity \in Nat
    BY SqliteAssumption
  <2>6. size <= EventCapacity + 3 * r + 3
    BY <2>3, <2>4, <2>5
  <2> QED
    BY <2>2, <2>5, <2>6
<1>9. status' \in {"running", "done"} =>
        ((k + 1) % CheckEvery = 0 => size <= EventCapacity)
  <2>1. /\ (k + 1) % CheckEvery = Cardinality(DOMAIN completed') % CheckEvery
        /\ status' = IF /\ Cardinality(DOMAIN completed') % CheckEvery = 0
                       /\ Cardinality(events') > EventCapacity
                     THEN "event capacity" ELSE "running"
    BY <1>1, <1>4, <1>5
  <2>2. status' \in {"running", "done"} =>
          ((k + 1) % CheckEvery = 0 => ~(size > EventCapacity))
    BY <2>1, <1>6
  <2> QED
    BY <1>8, <2>2
<1>10. status' \in {"running", "done"} =>
         size <= EventCapacity + 3 * ((k + 1) % CheckEvery)
  BY <1>7, <1>8, <1>9
<1> QED
  BY <1>4, <1>5, <1>6, <1>10 DEF EventsBounded

(* The entry recorded for n carries the latest milestone of its parents,   *)
(* and the entries before it keep theirs.                                  *)
LEMMA StartRequest ==
  ASSUME IInv, NEW n \in Node, Start(n)
  PROVE  RequestTimeExact'
<1>1. /\ n \in DrainedQueue /\ n \notin DOMAIN completed /\ status = "running"
      /\ ir' = ir /\ provider' = provider
      /\ DOMAIN completed' = DOMAIN completed \cup {n}
      /\ \A k \in DOMAIN completed : completed'[k] = completed[k]
      /\ completed'[n].request = Request(n)
      /\ Stateful => Request(n) = Ready(ir, completed, n)
      /\ Causality /\ RequestTimeExact
  BY StartEffect DEF Placed, IInv, ExecutorInv, Start
<1>2. ASSUME NEW k \in DOMAIN completed'
      PROVE  Ready(ir, completed', k) = Ready(ir, completed, k)
  <2>1. Parents(ir, k) \subseteq DOMAIN completed
    BY <1>1, QueuedClear DEF Causality, Parents
  <2>2. \A e \in ir.deps[k] : completed'[e.node] = completed[e.node]
    BY <1>1, <2>1 DEF Parents
  <2>3. {At(completed'[e.node], e.milestone) : e \in ir.deps[k]}
          = {At(completed[e.node], e.milestone) : e \in ir.deps[k]}
    BY <2>2
  <2> QED
    BY <2>3 DEF Ready
<1>3. Stateful' = Stateful
  BY <1>1 DEF Stateful
<1>4. ASSUME Stateful, NEW k \in DOMAIN completed'
      PROVE  completed'[k].request = Ready(ir, completed', k)
  BY <1>1, <1>2, <1>4 DEF RequestTimeExact
<1> QED
  BY <1>1, <1>3, <1>4 DEF RequestTimeExact

(* Starting the first head that can start keeps the invariant. *)
LEMMA StartIInv ==
  ASSUME IInv, NEW n \in Node, Start(n)
  PROVE  IInv'
<1>1. /\ n \notin DOMAIN completed /\ status = "running"
      /\ Clear(n, now) /\ Placed(n, now, Request(n)) /\ ExecutorInv' /\ now' = now
      /\ ir' = ir /\ DOMAIN completed' = DOMAIN completed \cup {n}
      /\ \A k \in DOMAIN completed : completed'[k] = completed[k]
      /\ events' = (events \ Due) \cup NewEvents(n)
      /\ stored' \in {DOMAIN completed', Flushed}
      /\ status' \in {"event capacity", "running"}
      /\ ExecutorInv /\ now \in Nat /\ stored \subseteq DOMAIN completed
  BY StartEffect DEF Placed, Start, IInv, TypeOK
<1>2. /\ events' \subseteq Event /\ EventsFromSchedule'
      /\ \A m \in Milestone : m \in Fired(n) <=> At(completed'[n], m) <= now
      /\ \A m \in Milestone : At(completed'[n], m) \in Nat
  BY StartEvents
<1>3. /\ remaining' = [k \in Node |-> Cardinality(Unfired(k)')]
      /\ remaining' \in [Node -> Nat]
      /\ queued' = {k \in Node \ DOMAIN completed' : Unfired(k)' = {}}
      /\ \A k \in DOMAIN completed' : Unfired(k)' = {}
  BY StartCounts
<1>4. TypeOK'
  <2>1. stored' \subseteq DOMAIN completed'
    BY <1>1 DEF Flushed
  <2> QED
    BY <1>1, <1>2, <1>3, <2>1 DEF TypeOK, ExecutorInv
<1>5. Prepared' /\ NoSelfInflictedRefusal' /\ StallsOnlyOnCycle'
  BY <1>1 DEF Prepared, NoSelfInflictedRefusal, StallsOnlyOnCycle
<1>6. CountersExact' /\ CompletedFired'
  BY <1>3 DEF CountersExact, CompletedFired
<1>7. EventsComplete'
  <2>1. ASSUME NEW k \in DOMAIN completed', NEW m \in Milestone, At(completed'[k], m) > now
        PROVE  [epoch |-> At(completed'[k], m), edge |-> [node |-> k, milestone |-> m]]
                 \in events'
    <3>1. CASE k = n
      <4>1. At(completed'[n], m) > now /\ At(completed'[n], m) \in Nat /\ now \in Nat
        BY <1>1, <1>2, <2>1, <3>1
      <4>2. ~(At(completed'[n], m) <= now)
        BY <4>1
      <4>3. m \notin Fired(n)
        BY <1>2, <4>2
      <4> QED
        BY <1>1, <3>1, <4>3 DEF NewEvents
    <3>2. CASE k # n
      <4> DEFINE v == [epoch |-> At(completed[k], m), edge |-> [node |-> k, milestone |-> m]]
      <4>1. k \in DOMAIN completed /\ completed'[k] = completed[k]
        BY <1>1, <3>2
      <4>2. v \in events
        BY <1>1, <2>1, <4>1 DEF IInv, EventsComplete
      <4>3. At(completed[k], m) \in Nat
        BY <1>1, <4>1, MilestoneFacts DEF ExecutorInv
      <4>4. v \notin Due
        <5>1. At(completed[k], m) > now /\ now \in Nat
          BY <1>1, <2>1, <4>1
        <5>2. ~(At(completed[k], m) <= now)
          BY <5>1, <4>3
        <5>3. v.epoch = At(completed[k], m)
          OBVIOUS
        <5> HIDE DEF v
        <5> QED
          BY <5>2, <5>3 DEF Due
      <4> QED
        BY <1>1, <4>1, <4>2, <4>4
    <3> QED
      BY <3>1, <3>2
  <2> QED
    BY <1>1, <2>1 DEF EventsComplete
<1>8. NoEarlierStart'
  <2>1. SUFFICES ASSUME NEW m \in Node \ DOMAIN completed', NEW u \in 0..(now - 1),
                        Policy!CanStart(m, u)'
                 PROVE  FALSE
    BY <1>1 DEF NoEarlierStart
  <2>2. m \in Node /\ m \notin DOMAIN completed
    BY <1>1, <2>1
  <2>3. Policy!CanStart(m, u)
    BY <1>1, <2>1, <2>2, PlacedLetsNoneEarlier
  <2> QED
    BY <2>2, <2>3 DEF IInv, NoEarlierStart
<1>9. EventsBounded' /\ RequestTimeExact'
  BY StartBound, StartRequest
<1> QED
  BY <1>1, <1>2, <1>4, <1>5, <1>6, <1>7, <1>8, <1>9 DEF IInv, Bookkeeping

----------------------------------------------------------------------------
(* The initial state. *)
LEMMA InitIInv == Init => IInv
<1> SUFFICES ASSUME Init PROVE IInv
  OBVIOUS
<1>1. ExecutorInv
  BY ExecutorStarts DEF Init
<1>2. /\ DOMAIN completed = {} /\ now = 0 /\ status = "preparing" /\ events = {}
      /\ remaining = [n \in Node |-> 0] /\ queued = {} /\ stored = {}
  BY DEF Init, ExecutorInit
<1>3. TypeOK
  BY <1>1, <1>2 DEF TypeOK, ExecutorInv
<1>4. Prepared /\ CompletedFired /\ EventsComplete /\ NoEarlierStart
  BY <1>2 DEF Prepared, CompletedFired, EventsComplete, NoEarlierStart
<1>5. Bookkeeping
  BY <1>2 DEF Bookkeeping, CountersExact, EventsFromSchedule, EventsBounded, StallsOnlyOnCycle
<1>6. RequestTimeExact /\ NoSelfInflictedRefusal
  BY <1>2 DEF RequestTimeExact, NoSelfInflictedRefusal
<1> QED
  BY <1>1, <1>3, <1>4, <1>5, <1>6 DEF IInv

(* A step that touches neither the clock nor the schedule keeps what       *)
(* speaks of them only.                                                    *)
LEMMA ScheduleStays ==
  ASSUME IInv, UNCHANGED <<ir, provider, completed, now>>
  PROVE  NoEarlierStart' /\ RequestTimeExact'
<1>1. \A n, u : Policy!CanStart(n, u)' <=> Policy!CanStart(n, u)
  BY DEF Policy!CanStart, Policy!At, Policy!Edge
<1>2. NoEarlierStart'
  BY <1>1 DEF IInv, NoEarlierStart
<1>3. RequestTimeExact'
  BY DEF IInv, RequestTimeExact, Stateful
<1> QED
  BY <1>2, <1>3

(* _prepare counts the edges of the graph and queues the roots. *)
LEMMA PrepareIInv ==
  ASSUME IInv, Prepare
  PROVE  IInv'
<1>1. /\ DOMAIN completed = {} /\ events = {} /\ now = 0 /\ ExecutorInv
      /\ ~faulted /\ faulted \in BOOLEAN /\ stored \subseteq DOMAIN completed
      /\ queued \subseteq Node \ DOMAIN completed /\ remaining \in [Node -> Nat]
      /\ UNCHANGED <<ir, provider, completed, resource_free, previous_resource_cycle,
                     invocations, faulted, now, events, stored>>
  BY DEF IInv, Prepare, Prepared, ExecutorInv, ExecutorTypes, ProviderProgress,
         TypeOK, providerVars
<1>2. ExecutorInv'
  BY <1>1, ExecutorStays
<1>3. NoEarlierStart' /\ RequestTimeExact'
  BY <1>1, ScheduleStays
<1>4. \/ status' = "resource group limit" /\ UNCHANGED <<remaining, queued>>
      \/ /\ status' = "running"
         /\ remaining' = [n \in Node |-> Cardinality(ir.deps[n])]
         /\ queued' = {n \in Node : ir.deps[n] = {}}
  BY DEF Prepare
<1>5. \A n \in Node : Unfired(n)' = ir.deps[n] /\ Cardinality(ir.deps[n]) \in Nat
  BY <1>1, DepsFinite DEF Unfired, ExecutorInv
<1>6. TypeOK'
  BY <1>1, <1>2, <1>4, <1>5 DEF TypeOK, ExecutorInv
<1>7. Prepared' /\ CompletedFired' /\ EventsComplete' /\ NoSelfInflictedRefusal'
  BY <1>1, <1>4 DEF Prepared, CompletedFired, EventsComplete, NoSelfInflictedRefusal
<1>8. CountersExact'
  BY <1>1, <1>4, <1>5 DEF CountersExact
<1>9. EventsFromSchedule' /\ StallsOnlyOnCycle'
  BY <1>1, <1>4 DEF EventsFromSchedule, StallsOnlyOnCycle
<1>10. EventsBounded'
  <2>1. Cardinality(events') = 0 /\ Cardinality(DOMAIN completed') = 0
    BY <1>1, FS_EmptySet
  <2>2. 0 % CheckEvery \in Nat /\ EventCapacity \in Nat
    BY SqliteAssumption, DivFacts
  <2> QED
    BY <2>1, <2>2 DEF EventsBounded
<1> QED
  BY <1>2, <1>3, <1>6, <1>7, <1>8, <1>9, <1>10 DEF IInv, Bookkeeping

(* Returning or raising changes nothing but the status, the fault and what *)
(* is flushed.                                                             *)
LEMMA StopIInv ==
  ASSUME IInv, ExecutorInv', NoSelfInflictedRefusal', stored' \subseteq DOMAIN completed,
         UNCHANGED <<ir, provider, completed, now, remaining, queued, events>>,
         \/ status' = status
         \/ status' = "done" /\ status = "running"
         \/ status' \notin {"preparing", "running", "done", "execution stalled"}
  PROVE  IInv'
<1>1. TypeOK'
  BY DEF IInv, TypeOK, ExecutorInv
<1>2. NoEarlierStart' /\ RequestTimeExact'
  BY ScheduleStays
<1>3. \A n \in Node : Unfired(n)' = Unfired(n)
  BY DEF Unfired
<1>4. Prepared' /\ EventsComplete'
  BY DEF IInv, Prepared, EventsComplete
<1>5. CompletedFired' /\ CountersExact'
  BY <1>3 DEF IInv, TypeOK, ExecutorTypes, Bookkeeping, CompletedFired, CountersExact
<1>6. EventsFromSchedule' /\ EventsBounded' /\ StallsOnlyOnCycle'
  BY DEF IInv, Bookkeeping, EventsFromSchedule, EventsBounded, StallsOnlyOnCycle
<1> QED
  BY <1>1, <1>2, <1>4, <1>5, <1>6 DEF IInv, Bookkeeping

(* An exception of execute is never one of the scheduler's own making. *)
LEMMA RaiseIInv ==
  ASSUME IInv, NEW n \in Node, StartRaises(n)
  PROVE  IInv'
<1>1. /\ First(n) /\ ExecuteRaises(n, now) /\ UNCHANGED <<now, remaining, queued, events, stored>>
      /\ ExecutorInv /\ ~faulted /\ status = "running" /\ stored \subseteq DOMAIN completed
  BY DEF StartRaises, IInv, TypeOK, ExecutorInv, ProviderProgress, queueVars
<1>2. Clear(n, now)
  BY <1>1, QueuedClear DEF First, GroupHead
<1>3. /\ ExecutorInv'
      /\ status' \in {"native transition", "service boundary mismatch", "request binding",
                      "interleaved offer policy", "back-to-back offer policy"}
      /\ UNCHANGED <<ir, provider, completed>>
  BY <1>1, <1>2, RaiseKeeps
<1>4. /\ NoSelfInflictedRefusal'
      /\ status' \notin {"preparing", "running", "done", "execution stalled"}
  BY <1>3 DEF NoSelfInflictedRefusal
<1> QED
  BY <1>1, <1>3, <1>4, StopIInv

(* When every node is finished the provider has run all of its work. *)
LEMMA FinishIInv ==
  ASSUME IInv, Finish
  PROVE  IInv'
<1>1. /\ DOMAIN completed = Node /\ ~faulted /\ ExecutorInv /\ status = "running"
      /\ faulted \in BOOLEAN
  BY DEF IInv, Finish, ExecutorInv, ExecutorTypes, ProviderProgress
<1>2. status' = "done" /\ faulted' = faulted /\ stored' = Node
      /\ UNCHANGED <<ir, provider, completed, resource_free, previous_resource_cycle,
                     invocations, now, remaining, queued, events>>
  BY <1>1, CompletedAll DEF Finish, providerVars, queueVars
<1>3. ExecutorInv'
  BY <1>1, <1>2, ExecutorStays
<1>4. NoSelfInflictedRefusal'
  BY <1>2 DEF NoSelfInflictedRefusal
<1> QED
  BY <1>1, <1>2, <1>3, <1>4, StopIInv

----------------------------------------------------------------------------
(* What a pass without a start does to the counters, queues and heap,      *)
(* wherever it moves the clock.                                            *)
LEMMA WaitDrains ==
  ASSUME IInv, Wait
  PROVE  /\ UNCHANGED <<ir, provider, completed, resource_free, previous_resource_cycle,
                        invocations, faulted, stored>>
         /\ remaining' = [n \in Node |-> Cardinality(Unfired(n)')]
         /\ remaining' \in [Node -> Nat]
         /\ queued' = {n \in Node \ DOMAIN completed : Unfired(n)' = {}}
         /\ \A n \in DOMAIN completed : Unfired(n)' = {}
         /\ \A n \in Node : Unfired(n)' = DrainedUnfired(n)
         /\ events' = events \ Due /\ events' \subseteq Event /\ EventsFromSchedule'
         /\ Cardinality(events') <= Cardinality(events)
         /\ Cardinality(events') \in Nat
<1>1. /\ status = "running" /\ remaining' = DrainedRemaining /\ queued' = DrainedQueue
      /\ events' = events \ Due /\ ExecutorTypes /\ DOMAIN completed \subseteq Node
      /\ events \subseteq Event /\ EventsFromSchedule
      /\ UNCHANGED <<ir, provider, completed, resource_free, previous_resource_cycle,
                     invocations, faulted, stored>>
  BY DEF Wait, Raise, executorVars, providerVars, IInv, TypeOK, ExecutorTypes, Bookkeeping
<1>2. /\ DrainedRemaining = [n \in Node |-> Cardinality(DrainedUnfired(n))]
      /\ DrainedQueue = {n \in Node \ DOMAIN completed : DrainedUnfired(n) = {}}
      /\ \A n \in DOMAIN completed : DrainedUnfired(n) = {}
  BY <1>1, Drained
<1>3. \A n \in Node : Unfired(n)' = DrainedUnfired(n)
  BY <1>1 DEF Unfired, DrainedUnfired
<1>4. \A n \in Node : Cardinality(DrainedUnfired(n)) \in Nat
  BY <1>1, DepsFinite DEF DrainedUnfired
<1>5. events' \subseteq Event /\ EventsFromSchedule'
  BY <1>1 DEF EventsFromSchedule
<1>6. Cardinality(events') <= Cardinality(events) /\ Cardinality(events') \in Nat
  <2>1. IsFiniteSet(events)
    BY <1>1, EventsFinite
  <2>2. events' \in SUBSET events
    BY <1>1
  <2> QED
    BY <2>1, <2>2, FS_Subset, FS_CardinalityType
<1>7. /\ remaining' = [n \in Node |-> Cardinality(Unfired(n)')]
      /\ remaining' \in [Node -> Nat]
  BY <1>1, <1>2, <1>3, <1>4
<1>8. /\ queued' = {n \in Node \ DOMAIN completed : Unfired(n)' = {}}
      /\ \A n \in DOMAIN completed : Unfired(n)' = {}
  BY <1>1, <1>2, <1>3
<1> QED
  BY <1>1, <1>3, <1>5, <1>6, <1>7, <1>8

(* The instants the clock may move to. *)
Future == {Earliest(n, now) : n \in {m \in DrainedQueue : GroupHead(m)}}
            \cup {v.epoch : v \in events \ Due}

(* None of them lies before now, and nothing can start before all of them. *)
LEMMA FutureFacts ==
  ASSUME IInv, status = "running"
  PROVE  /\ Future \subseteq Nat /\ \A t \in Future : now <= t
         /\ \A n \in Node, u \in Nat :
              now <= u /\ Policy!CanStart(n, u) => \E t \in Future : t <= u
         /\ Future = {} => DrainedQueue = {} /\ events \ Due = {}
<1>1. /\ now \in Nat /\ events \subseteq Event /\ EventsFromSchedule
      /\ ExecutorTypes /\ EntriesOK /\ FreeIsLast /\ NpuReleased
  BY DEF IInv, TypeOK, ExecutorInv, Bookkeeping
<1>2. ASSUME NEW t \in Future PROVE t \in Nat /\ now <= t
  <2>1. CASE \E n \in DrainedQueue : t = Earliest(n, now)
    BY <2>1, QueuedClear
  <2>2. CASE \E v \in events \ Due : t = v.epoch
    <3>1. PICK v \in events \ Due : t = v.epoch
      BY <2>2
    <3>2. v \in Event /\ ~(v.epoch <= now)
      BY <1>1, <3>1 DEF Due
    <3>3. t \in Nat /\ ~(t <= now)
      BY <3>1, <3>2 DEF Event
    <3> QED
      BY <1>1, <3>3
  <2> QED
    BY <1>2, <2>1, <2>2 DEF Future
<1>3. ASSUME NEW n \in DrainedQueue PROVE Earliest(n, now) \in Future
  <2>1. PICK h \in DrainedQueue : GroupHead(h) /\ Earliest(h, now) = Earliest(n, now)
    BY HeadExists
  <2> QED
    BY <2>1 DEF Future
<1>4. ASSUME NEW n \in Node, NEW u \in Nat, now <= u, Policy!CanStart(n, u)
      PROVE  \E t \in Future : t <= u
  <2>1. CASE n \in DrainedQueue
    <3>1. Earliest(n, now) <= u
      BY <1>1, <1>4, CanStartEarliest
    <3> QED
      BY <2>1, <1>3, <3>1
  <2>2. CASE n \notin DrainedQueue
    <3>1. /\ n \notin DOMAIN completed
          /\ \A e \in ir.deps[n] : /\ e.node \in DOMAIN completed
                                   /\ At(completed[e.node], e.milestone) <= u
      BY <1>4 DEF Policy!CanStart, Policy!At, At
    <3>2. PICK e \in DrainedUnfired(n) : TRUE
      BY <2>2, <3>1, Drained
    <3>3. e \in ir.deps[n] /\ \E v \in events \ Due : v.edge = e
      BY <3>1, <3>2 DEF DrainedUnfired
    <3>4. PICK v \in events \ Due : v.edge = e
      BY <3>3
    <3>5. v.epoch = At(completed[e.node], e.milestone) /\ v.epoch \in Future
      BY <1>1, <3>4 DEF EventsFromSchedule, Future
    <3> QED
      BY <3>1, <3>3, <3>5
  <2> QED
    BY <2>1, <2>2
<1>5. Future = {} => DrainedQueue = {} /\ events \ Due = {}
  BY <1>3 DEF Future
<1> QED
  BY <1>2, <1>4, <1>5

(* The parts of the invariant that do not depend on where the clock moved. *)
LEMMA WaitKeeps ==
  ASSUME IInv, Wait, status' \in {"running", "execution stalled"}
  PROVE  /\ ExecutorInv' /\ Prepared' /\ CompletedFired' /\ NoSelfInflictedRefusal'
         /\ CountersExact' /\ EventsFromSchedule' /\ EventsBounded' /\ RequestTimeExact'
<1>1. /\ UNCHANGED <<ir, provider, completed, resource_free, previous_resource_cycle,
                     invocations, faulted, stored>>
      /\ remaining' = [n \in Node |-> Cardinality(Unfired(n)')]
      /\ queued' = {n \in Node \ DOMAIN completed : Unfired(n)' = {}}
      /\ \A n \in DOMAIN completed : Unfired(n)' = {}
      /\ EventsFromSchedule'
      /\ Cardinality(events') <= Cardinality(events)
      /\ Cardinality(events') \in Nat
  BY WaitDrains
<1>2. /\ status = "running" /\ ExecutorInv /\ ~faulted /\ faulted \in BOOLEAN
      /\ events \subseteq Event /\ EventsFromSchedule /\ DOMAIN completed \subseteq Node
      /\ Cardinality(events) <= EventCapacity + 3 * (Cardinality(DOMAIN completed) % CheckEvery)
  BY DEF Wait, IInv, TypeOK, ExecutorInv, ExecutorTypes, ProviderProgress, Bookkeeping,
         EventsBounded
<1>3. ExecutorInv'
  BY <1>1, <1>2, ExecutorStays
<1>4. Prepared' /\ CompletedFired' /\ NoSelfInflictedRefusal' /\ CountersExact'
  BY <1>1 DEF Prepared, CompletedFired, NoSelfInflictedRefusal, CountersExact
<1>5. EventsBounded'
  <2>1. PICK bound \in Nat : bound = EventCapacity + 3 * (Cardinality(DOMAIN completed) % CheckEvery)
    <3>1. DOMAIN completed \in SUBSET Node
      BY <1>2
    <3>2. Cardinality(DOMAIN completed) \in Nat
      BY <3>1, IRAssumption, FS_Subset, FS_CardinalityType
    <3>3. PICK k \in Nat : k = Cardinality(DOMAIN completed)
      BY <3>2
    <3>4. CheckEvery \in Nat \ {0} /\ EventCapacity \in Nat
      BY SqliteAssumption
    <3>5. PICK r \in Nat : r = k % CheckEvery
      BY ONLY <3>3, <3>4, DivFacts
    <3>6. EventCapacity + 3 * r \in Nat
      BY ONLY <3>4, <3>5
    <3> QED
      BY <3>3, <3>5, <3>6
  <2>2. Cardinality(events) \in Nat /\ Cardinality(events) <= bound
    BY <1>2, <2>1, EventsFinite
  <2>3. Cardinality(events') <= bound
    <3>1. PICK a \in Nat : a = Cardinality(events')
      BY <1>1
    <3>2. PICK b \in Nat : b = Cardinality(events)
      BY <2>2
    <3>3. a <= b /\ b <= bound /\ bound \in Nat
      BY <1>1, <2>1, <2>2, <3>1, <3>2
    <3>4. a <= bound
      BY ONLY <3>3, a \in Nat, b \in Nat
    <3> QED
      BY <3>1, <3>4
  <2>4. DOMAIN completed' = DOMAIN completed
    BY <1>1
  <2> QED
    BY <2>1, <2>3, <2>4 DEF EventsBounded
<1>6. RequestTimeExact'
  BY <1>1 DEF IInv, RequestTimeExact, Stateful
<1> QED
  BY <1>1, <1>3, <1>4, <1>5, <1>6

(* No head and no event is left: the unfinished nodes wait for each other. *)
LEMMA StallIInv ==
  ASSUME IInv, Wait, Future = {}
  PROVE  IInv'
<1>1. /\ status = "running" /\ DOMAIN completed # Node /\ now' = now
      /\ status' = "execution stalled" /\ ExecutorTypes /\ now \in Nat
      /\ stored \subseteq DOMAIN completed
  BY DEF Wait, Future, Raise, IInv, TypeOK
<1>2. /\ UNCHANGED <<ir, provider, completed, stored>>
      /\ remaining' \in [Node -> Nat]
      /\ queued' = {n \in Node \ DOMAIN completed : Unfired(n)' = {}}
      /\ events' \subseteq Event
  BY WaitDrains
<1>3. DrainedQueue = {} /\ events \ Due = {}
  BY <1>1, FutureFacts
<1>4. ASSUME NEW n \in Node \ DOMAIN completed
      PROVE  ~(Parents(ir, n) \subseteq DOMAIN completed)
  <2>1. DrainedUnfired(n) # {}
    BY <1>1, <1>3, <1>4, Drained
  <2> QED
    BY <2>1, <1>3 DEF DrainedUnfired, Parents
<1>5. ~Acyclic(ir)
  BY <1>1, <1>4, SomeUnblocked
<1>6. StallsOnlyOnCycle'
  <2>1. (~Acyclic(ir))'
    BY <1>2, <1>5 DEF Acyclic, Parents
  <2>2. \A n \in Node : Parents(ir', n) = Parents(ir, n)
    BY <1>2
  <2> QED
    BY <1>2, <1>4, <2>1, <2>2 DEF StallsOnlyOnCycle
<1>7. /\ ExecutorInv' /\ Prepared' /\ CompletedFired' /\ NoSelfInflictedRefusal'
      /\ CountersExact' /\ EventsFromSchedule' /\ EventsBounded' /\ RequestTimeExact'
  BY <1>1, WaitKeeps
<1>8. TypeOK'
  BY <1>1, <1>2, <1>7 DEF TypeOK, ExecutorInv
<1>9. EventsComplete' /\ NoEarlierStart'
  BY <1>1, <1>2, ScheduleStays DEF EventsComplete
<1> QED
  BY <1>6, <1>7, <1>8, <1>9 DEF IInv, Bookkeeping

(* Moving the clock to the earliest head or event skips no instant at      *)
(* which a node can start, and loses no event.                             *)
LEMMA AdvanceIInv ==
  ASSUME IInv, Wait, Future # {}
  PROVE  IInv'
<1>1. /\ status = "running" /\ now' = Min(Future) /\ status' = status
      /\ now \in Nat /\ stored \subseteq DOMAIN completed /\ ExecutorInv
  BY DEF Wait, Future, executorVars, IInv, TypeOK
<1>2. /\ UNCHANGED <<ir, provider, completed, stored>>
      /\ remaining' \in [Node -> Nat]
      /\ queued' = {n \in Node \ DOMAIN completed : Unfired(n)' = {}}
      /\ events' = events \ Due /\ events' \subseteq Event
  BY WaitDrains
<1>3. PICK next \in Nat : next = now' /\ now <= next /\ \A t \in Future : next <= t
  <2>1. Future \subseteq Nat /\ \A t \in Future : now <= t
    BY <1>1, FutureFacts
  <2> QED
    BY <1>1, <2>1, MinFacts
<1>4. /\ ExecutorInv' /\ Prepared' /\ CompletedFired' /\ NoSelfInflictedRefusal'
      /\ CountersExact' /\ EventsFromSchedule' /\ EventsBounded' /\ RequestTimeExact'
  BY <1>1, WaitKeeps
<1>5. TypeOK'
  BY <1>1, <1>2, <1>3, <1>4 DEF TypeOK, ExecutorInv
<1>6. EventsComplete'
  <2>1. ASSUME NEW k \in DOMAIN completed, NEW m \in Milestone, At(completed[k], m) > next
        PROVE  [epoch |-> At(completed[k], m), edge |-> [node |-> k, milestone |-> m]]
                 \in events'
    <3> DEFINE v == [epoch |-> At(completed[k], m), edge |-> [node |-> k, milestone |-> m]]
    <3>1. At(completed[k], m) \in Nat
      BY <1>1, MilestoneFacts DEF ExecutorInv
    <3>2. At(completed[k], m) > now /\ ~(At(completed[k], m) <= now)
      BY <1>1, <1>3, <2>1, <3>1
    <3>3. v \in events
      BY <1>1, <3>2 DEF IInv, EventsComplete
    <3>4. v.epoch = At(completed[k], m)
      OBVIOUS
    <3> HIDE DEF v
    <3>5. v \notin Due
      BY <3>2, <3>4 DEF Due
    <3>6. v \in events'
      BY <1>2, <3>3, <3>5
    <3> QED
      BY <3>6 DEF v
  <2> QED
    BY <1>2, <1>3, <2>1 DEF EventsComplete
<1>7. NoEarlierStart'
  <2>1. SUFFICES ASSUME NEW n \in Node \ DOMAIN completed, NEW u \in 0..(next - 1),
                        Policy!CanStart(n, u)
                 PROVE  FALSE
    BY <1>2, <1>3 DEF NoEarlierStart, Policy!CanStart, Policy!At, Policy!Edge
  <2>2. u \in Nat /\ n \in Node /\ u < next
    BY <2>1
  <2>3. now <= u
    BY <1>1, <2>1, <2>2 DEF IInv, NoEarlierStart
  <2>4. PICK t \in Future : t <= u
    BY <1>1, <2>1, <2>2, <2>3, FutureFacts
  <2>5. t \in Nat /\ next <= t
    BY <1>1, <1>3, <2>4, FutureFacts
  <2> QED
    BY <2>2, <2>4, <2>5
<1>8. StallsOnlyOnCycle'
  BY <1>1 DEF StallsOnlyOnCycle
<1> QED
  BY <1>4, <1>5, <1>6, <1>7, <1>8 DEF IInv, Bookkeeping

----------------------------------------------------------------------------
(* IInv is inductive. *)
LEMMA NextIInv == IInv /\ [Next]_vars => IInv'
<1> SUFFICES ASSUME IInv, [Next]_vars PROVE IInv'
  OBVIOUS
<1>1. CASE Prepare
  BY <1>1, PrepareIInv
<1>2. ASSUME NEW n \in Node, Start(n) PROVE IInv'
  BY <1>2, StartIInv
<1>3. ASSUME NEW n \in Node, StartRaises(n) PROVE IInv'
  BY <1>3, RaiseIInv
<1>4. CASE Wait
  BY <1>4, StallIInv, AdvanceIInv
<1>5. CASE Finish
  BY <1>5, FinishIInv
<1>6. CASE UNCHANGED vars
  <2>1. UNCHANGED <<ir, provider, completed, resource_free, previous_resource_cycle,
                    invocations, faulted, status, now, remaining, queued, events, stored>>
    BY <1>6 DEF vars, executorVars, providerVars, queueVars
  <2>2. /\ faulted' \in BOOLEAN /\ (faulted' => status' \notin {"preparing", "running"})
        /\ NoSelfInflictedRefusal' /\ stored' \subseteq DOMAIN completed
    BY <2>1 DEF IInv, TypeOK, ExecutorInv, ExecutorTypes, ProviderProgress,
                NoSelfInflictedRefusal
  <2>3. ExecutorInv'
    BY <2>1, <2>2, ExecutorStays DEF IInv
  <2> QED
    BY <2>1, <2>2, <2>3, StopIInv
<1> QED
  BY <1>1, <1>2, <1>3, <1>4, <1>5, <1>6 DEF Next, Stopped

(* The invariant holds in every reachable state of _run. *)
THEOREM SqliteInvariant == Spec => []IInv
BY InitIInv, NextIInv, PTL DEF Spec

(* The edge counters, the group queues and the event heap agree with the   *)
(* graph at every pass, the heap keeps its bound between measurements, and *)
(* a run stalls only on a causal cycle.                                    *)
THEOREM SqliteBookkeeping == Spec => []Bookkeeping
<1>1. IInv => Bookkeeping
  BY DEF IInv
<1> QED
  BY <1>1, SqliteInvariant, PTL

(* A stateful schedule publishes the latest milestone of all parents,      *)
(* although it is read back from a table that lags behind the buffer.      *)
THEOREM SqliteRequestTime == Spec => []RequestTimeExact
<1>1. IInv => RequestTimeExact
  BY DEF IInv
<1> QED
  BY <1>1, SqliteInvariant, PTL

(* What a schedule must never do, whatever the queues: share a resource,   *)
(* start before a dependency, or run the NPU's bound trace out of order.   *)
THEOREM SqliteScheduleSound == Spec => [](ResourceExclusive /\ Causality /\ TraceInOrder)
<1>1. IInv => ResourceExclusive /\ Causality /\ TraceInOrder
  BY DEF IInv, ExecutorInv
<1> QED
  BY <1>1, SqliteInvariant, PTL

(* _run never trips the executor's or the provider's checks by itself. *)
THEOREM SqliteNoRefusal == Spec => []NoSelfInflictedRefusal
<1>1. IInv => NoSelfInflictedRefusal
  BY DEF IInv
<1> QED
  BY <1>1, SqliteInvariant, PTL

----------------------------------------------------------------------------
(* A start is a step of the policy, although only the heads of the groups  *)
(* were examined.                                                          *)
LEMMA StartRefines ==
  ASSUME IInv, NEW n \in Node, Start(n)
  PROVE  Policy!AbsNext
<1>1. /\ First(n) /\ Execute(n, now, Request(n)) /\ ExecutorInv /\ status = "running"
      /\ now \in Nat /\ ir.order \in [Node -> Nat] /\ Node \subseteq Nat
  BY GraphFacts, IRAssumption DEF Start, IInv, TypeOK, ExecutorTypes
<1>2. Clear(n, now) /\ Placed(n, now, Request(n))
  BY StartEffect
<1>3. ASSUME NEW m \in Node, NEW u \in 0..now, Policy!CanStart(m, u)
      PROVE  u = now /\ ~Precedes(ir, m, n)
  <2>1. m \notin DOMAIN completed
    BY <1>3 DEF Policy!CanStart
  <2>2. u = now
    BY <1>1, <1>3, <2>1 DEF IInv, NoEarlierStart
  <2>3. m \in DrainedQueue /\ Earliest(m, now) = now
    BY <1>1, <1>3, <2>2, CanStartQueued
  <2>4. PICK h \in DrainedQueue : /\ GroupHead(h) /\ (h = m \/ Precedes(ir, h, m))
                                  /\ Earliest(h, now) = now
    BY <1>1, <2>3, HeadExists
  <2>5. ~Precedes(ir, h, n) /\ h \in Node
    BY <1>1, <2>4, QueuedClear DEF First
  <2>6. Precedes(ir, h, m) /\ Precedes(ir, m, n) => Precedes(ir, h, n)
    <3>1. /\ ir.order[h] \in Nat /\ ir.order[m] \in Nat /\ ir.order[n] \in Nat
          /\ h \in Nat /\ m \in Nat /\ n \in Nat
      BY <1>1, <2>5
    <3> QED
      BY <3>1 DEF Precedes
  <2> QED
    BY <2>2, <2>4, <2>5, <2>6
<1> QED
  BY <1>1, <1>2, <1>3, PlacedRefines

(* _run implements the same declared policy as schedule(), for every       *)
(* graph, provider, service time, batch size and heap capacity.            *)
THEOREM SqliteRefinesPolicy == Spec => ImplementsPolicy
<1>1. Init => Policy!AbsInit
  BY InitRefines DEF Init
<1>2. IInv /\ [Next]_vars => [Policy!AbsNext]_(Policy!absVars)
  <2> SUFFICES ASSUME IInv, [Next]_vars PROVE [Policy!AbsNext]_(Policy!absVars)
    OBVIOUS
  <2>1. CASE Prepare
    BY <2>1 DEF Prepare, Policy!absVars
  <2>2. ASSUME NEW n \in Node, Start(n) PROVE Policy!AbsNext
    BY <2>2, StartRefines
  <2>3. ASSUME NEW n \in Node, StartRaises(n) PROVE UNCHANGED Policy!absVars
    BY <2>3 DEF StartRaises, ExecuteRaises, Raise, Policy!absVars
  <2>4. CASE Wait
    BY <2>4, WaitDrains DEF Policy!absVars
  <2>5. CASE Finish
    BY <2>5 DEF Finish, Policy!absVars
  <2>6. CASE UNCHANGED vars
    BY <2>6 DEF vars, executorVars, Policy!absVars
  <2> QED
    BY <2>1, <2>2, <2>3, <2>4, <2>5, <2>6 DEF Next, Stopped
<1> QED
  BY <1>1, <1>2, SqliteInvariant, PTL DEF Spec, ImplementsPolicy, Policy!AbsSpec
============================================================================
