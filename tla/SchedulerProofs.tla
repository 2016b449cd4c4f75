-------------------------- MODULE SchedulerProofs --------------------------
(***************************************************************************)
(* Proofs about Scheduler for every graph, provider, clock and service     *)
(* bound: the inductive invariant IInv, the properties it contains, and    *)
(* the refinement of ListSchedule.  What execute and its refusals do is in *)
(* ExecutorProofs; what is left is that the scan calls execute only where  *)
(* the policy lets a node start, and that the clock skips no such instant. *)
(***************************************************************************)
EXTENDS Scheduler, ExecutorProofs

(* Whoever can start is considered by the scan. *)
LEMMA CanStartConsidered ==
  ASSUME TypeOK, NEW n \in Node, NEW t, Policy!CanStart(n, t)
  PROVE  Considered(n)
BY DEF Policy!CanStart, Considered, Parents, TypeOK

(* The instant the scan computes for a node is the first one, from now on, *)
(* at which the policy lets it start.                                      *)
LEMMA StartAtFacts ==
  ASSUME IInv, NEW n \in Node, Considered(n)
  PROVE  /\ StartAt(n) \in Nat
         /\ now <= StartAt(n)
         /\ Ready(ir, completed, n) \in Nat
         /\ Ready(ir, completed, n) <= StartAt(n)
         /\ Policy!CanStart(n, StartAt(n))
         /\ \A u \in Nat : now <= u /\ Policy!CanStart(n, u) => StartAt(n) <= u
<1> DEFINE ready == Ready(ir, completed, n)
           both == {now, ready}
           from == Max(both)
<1>1. /\ ExecutorTypes /\ EntriesOK /\ FreeIsLast /\ NpuReleased /\ now \in Nat
      /\ Parents(ir, n) \subseteq DOMAIN completed /\ n \notin DOMAIN completed
  BY DEF Considered, IInv, TypeOK, ExecutorInv
<1>2. /\ ready \in Nat
      /\ \A e \in ir.deps[n] : At(completed[e.node], e.milestone) <= ready
      /\ \A u \in Nat :
           (\A e \in ir.deps[n] : At(completed[e.node], e.milestone) <= u)
           => ready <= u
  BY <1>1, ReadyFacts
<1> HIDE DEF ready
<1>3. from \in Nat /\ from \in both /\ now <= from /\ ready <= from
  <2>1. both \subseteq Nat /\ both # {} /\ now + ready \in Nat
        /\ \A x \in both : x <= now + ready
    BY <1>1, <1>2
  <2>2. Max(both) \in both /\ Max(both) \in Nat /\ \A x \in both : x <= Max(both)
    <3> HIDE DEF both
    <3> QED
      BY <2>1, MaxFacts
  <2> QED
    BY <2>2
<1>4. StartAt(n) = Earliest(n, from)
  BY DEF StartAt, ready
<1>5. from = now \/ from = ready
  BY <1>3
<1> HIDE DEF from
<1>6. \A e \in ir.deps[n] : /\ e.node \in DOMAIN completed
                            /\ At(completed[e.node], e.milestone) \in Nat
  BY <1>1, MilestoneFacts, GraphFacts DEF ExecutorTypes, Parents, Dependency
<1>7. \A e \in ir.deps[n] : At(completed[e.node], e.milestone) <= from
  BY <1>2, <1>3, <1>6
<1>8. Policy!CanStart(n, Earliest(n, from))
  BY <1>1, <1>3, <1>6, <1>7, EarliestCanStart
<1>9. Earliest(n, from) \in Nat /\ from <= Earliest(n, from)
  BY <1>1, <1>3, EarliestFacts
<1>10. ASSUME NEW u \in Nat, now <= u, Policy!CanStart(n, u)
       PROVE  Earliest(n, from) <= u
  <2>1. ready <= u
    BY <1>2, <1>10 DEF Policy!CanStart, Policy!At, At
  <2>2. from <= u
    BY <1>5, <1>10, <2>1
  <2> QED
    BY <1>1, <1>3, <1>10, <2>2, CanStartEarliest
<1>11. now <= Earliest(n, from) /\ ready <= Earliest(n, from)
  BY <1>1, <1>2, <1>3, <1>9
<1> QED
  BY <1>2, <1>4, <1>8, <1>9, <1>10, <1>11 DEF ready

(* execute() is called at an instant that earliest() confirms. *)
LEMMA StartableClear ==
  ASSUME IInv, NEW n \in Node, Startable(n)
  PROVE  Clear(n, now) /\ Request(n) \in Nat \cup {NoRequest}
<1>1. /\ Considered(n) /\ StartAt(n) <= now /\ now \in Nat
      /\ ExecutorTypes /\ EntriesOK /\ FreeIsLast /\ NpuReleased
  BY DEF Startable, IInv, TypeOK, ExecutorInv
<1>2. /\ StartAt(n) = now /\ Policy!CanStart(n, now)
      /\ Ready(ir, completed, n) \in Nat
  BY <1>1, StartAtFacts
<1>3. Earliest(n, now) = now
  BY <1>1, <1>2, CanStartEarliest
<1> QED
  BY <1>1, <1>2, <1>3 DEF Clear, Request

----------------------------------------------------------------------------
(* The initial state. *)
LEMMA InitIInv == Init => IInv
<1> SUFFICES ASSUME Init PROVE IInv
  OBVIOUS
<1>1. ExecutorInv
  BY ExecutorStarts DEF Init
<1>2. DOMAIN completed = {} /\ now = 0 /\ pending = Node /\ status = "running"
  BY DEF Init, ExecutorInit
<1>3. TypeOK
  BY <1>1, <1>2 DEF TypeOK, ExecutorInv
<1>4. NoSelfInflictedRefusal /\ NoEarlierStart
  BY <1>2 DEF NoSelfInflictedRefusal, NoEarlierStart
<1> QED
  BY <1>1, <1>3, <1>4 DEF IInv

(* Starting the first startable node. *)
LEMMA StartIInv ==
  ASSUME IInv, NEW n \in Node, Start(n)
  PROVE  IInv' /\ Clear(n, now) /\ Placed(n, now, Request(n))
<1>1. /\ Startable(n) /\ pending' = pending \ {n} /\ now' = now /\ status' = status
      /\ Execute(n, now, Request(n))
      /\ ExecutorInv /\ ~faulted /\ now \in Nat /\ pending \subseteq Node
      /\ DOMAIN completed = Node \ pending
  BY DEF Start, First, IInv, TypeOK, ExecutorInv, ProviderProgress
<1>2. Clear(n, now) /\ Request(n) \in Nat \cup {NoRequest}
  BY <1>1, StartableClear
<1>3. ExecutorInv' /\ Placed(n, now, Request(n))
  BY <1>1, <1>2, ExecuteKeeps
<1>4. n \in pending /\ DOMAIN completed' = DOMAIN completed \cup {n}
  BY <1>1, <1>3 DEF Placed, Startable, Considered
<1>5. TypeOK'
  BY <1>1, <1>3, <1>4 DEF TypeOK, ExecutorInv
<1>6. NoSelfInflictedRefusal'
  BY <1>1 DEF NoSelfInflictedRefusal, IInv
<1>7. NoEarlierStart'
  <2>1. SUFFICES ASSUME NEW m \in pending', NEW u \in 0..(now - 1), Policy!CanStart(m, u)'
                 PROVE  FALSE
    BY <1>1 DEF NoEarlierStart
  <2>2. m \in Node /\ m \in pending
    BY <1>1, <2>1
  <2>3. Policy!CanStart(m, u)
    BY <1>1, <1>2, <1>3, <2>1, <2>2, PlacedLetsNoneEarlier
  <2> QED
    BY <2>2, <2>3 DEF IInv, NoEarlierStart
<1> QED
  BY <1>2, <1>3, <1>5, <1>6, <1>7 DEF IInv

(* Returning or raising changes nothing but the status and the fault. *)
LEMMA StopIInv ==
  ASSUME IInv, ExecutorInv', NoSelfInflictedRefusal', UNCHANGED <<ir, completed, now, pending>>
  PROVE  IInv'
<1>1. TypeOK'
  BY DEF IInv, TypeOK, ExecutorInv
<1>2. NoEarlierStart'
  <2>1. \A n, u : Policy!CanStart(n, u)' <=> Policy!CanStart(n, u)
    BY DEF Policy!CanStart, Policy!At, Policy!Edge
  <2> QED
    BY <2>1 DEF IInv, NoEarlierStart
<1> QED
  BY <1>1, <1>2 DEF IInv

(* An exception of execute is never one of the scheduler's own making. *)
LEMMA RaiseIInv ==
  ASSUME IInv, NEW n \in Node, StartRaises(n)
  PROVE  IInv'
<1>1. /\ Startable(n) /\ ExecuteRaises(n, now) /\ UNCHANGED <<now, pending>>
      /\ ExecutorInv /\ ~faulted
  BY DEF StartRaises, First, IInv, ExecutorInv, ProviderProgress
<1>2. Clear(n, now)
  BY <1>1, StartableClear
<1>3. /\ ExecutorInv'
      /\ status' \in {"native transition", "service boundary mismatch", "request binding",
                      "interleaved offer policy", "back-to-back offer policy"}
      /\ UNCHANGED <<ir, provider, completed>>
  BY <1>1, <1>2, RaiseKeeps
<1>4. NoSelfInflictedRefusal'
  BY <1>3 DEF NoSelfInflictedRefusal
<1> QED
  BY <1>1, <1>3, <1>4, StopIInv

(* Moving the clock skips no instant at which a pending node can start. *)
LEMMA WaitIInv ==
  ASSUME IInv, Wait
  PROVE  IInv' /\ ir' = ir /\ completed' = completed
<1> DEFINE future == {StartAt(n) : n \in {m \in pending : Considered(m)}}
<1>1. /\ pending \subseteq Node /\ now \in Nat /\ pending # {} /\ ExecutorTypes
      /\ DOMAIN completed = Node \ pending /\ Acyclic(ir) /\ ExecutorInv
  BY GraphAssumption DEF IInv, TypeOK, Wait, ExecutorTypes, ValidIR
<1>2. future # {}
  <2>1. PICK n \in Node \ DOMAIN completed : Parents(ir, n) \subseteq DOMAIN completed
    <3>1. DOMAIN completed # Node
      BY <1>1
    <3> QED
      BY <1>1, <3>1, SomeUnblocked
  <2>2. n \in pending /\ Considered(n)
    BY <1>1, <2>1 DEF Considered
  <2> QED
    BY <2>2
<1>3. now' = Min(future) /\ UNCHANGED <<executorVars, pending>>
  BY <1>2 DEF Wait
<1>4. future \subseteq Nat /\ \A t \in future : now <= t
  BY <1>1, StartAtFacts
<1>5. /\ now' \in Nat /\ now <= now'
      /\ \A n \in pending : Considered(n) => now' <= StartAt(n)
  <2>1. Min(future) \in future /\ \A t \in future : Min(future) <= t
    <3> HIDE DEF future
    <3> QED
      BY <1>2, <1>4, MinFacts
  <2> QED
    BY <1>3, <1>4, <2>1
<1>6. UNCHANGED <<ir, provider, completed, resource_free, previous_resource_cycle,
                  invocations, faulted, status, pending>>
  BY <1>3 DEF executorVars, providerVars
<1>7. ExecutorInv'
  <2>1. faulted' \in BOOLEAN /\ (faulted' => status' \notin {"preparing", "running"})
    BY <1>1, <1>6 DEF ExecutorInv, ExecutorTypes, ProviderProgress
  <2> QED
    BY <1>1, <1>6, <2>1, ExecutorStays
<1>8. TypeOK' /\ NoSelfInflictedRefusal'
  BY <1>1, <1>5, <1>6, <1>7 DEF IInv, TypeOK, ExecutorInv, NoSelfInflictedRefusal
<1>9. NoEarlierStart'
  <2>1. PICK next \in Nat : next = now'
    BY <1>5
  <2>2. SUFFICES ASSUME NEW n \in pending, NEW u \in 0..(next - 1), Policy!CanStart(n, u)
                 PROVE  FALSE
    BY <1>6, <2>1 DEF NoEarlierStart, Policy!CanStart, Policy!At, Policy!Edge
  <2>3. Considered(n) /\ n \in Node /\ u \in Nat
    BY <1>1, <2>2, CanStartConsidered DEF IInv
  <2>4. now <= u
    BY <1>1, <2>2, <2>3 DEF IInv, NoEarlierStart
  <2>5. StartAt(n) <= u /\ next <= StartAt(n) /\ StartAt(n) \in Nat
    BY <1>5, <2>1, <2>2, <2>3, <2>4, StartAtFacts
  <2> QED
    BY <2>2, <2>3, <2>5
<1> QED
  BY <1>6, <1>7, <1>8, <1>9 DEF IInv

(* When nothing is pending the provider has run all of its work. *)
LEMMA FinishIInv ==
  ASSUME IInv, Finish
  PROVE  IInv'
<1>1. /\ DOMAIN completed = Node /\ ~faulted /\ ExecutorInv
      /\ faulted \in BOOLEAN
  BY DEF IInv, Finish, TypeOK, ExecutorInv, ExecutorTypes, ProviderProgress
<1>2. status' = "done" /\ faulted' = faulted
      /\ UNCHANGED <<ir, provider, completed, resource_free, previous_resource_cycle,
                     invocations, now, pending>>
  BY <1>1, CompletedAll DEF Finish, providerVars
<1>3. ExecutorInv'
  BY <1>1, <1>2, ExecutorStays
<1>4. NoSelfInflictedRefusal'
  BY <1>2 DEF NoSelfInflictedRefusal
<1> QED
  BY <1>2, <1>3, <1>4, StopIInv

----------------------------------------------------------------------------
(* IInv is inductive. *)
LEMMA NextIInv == IInv /\ [Next]_vars => IInv'
<1> SUFFICES ASSUME IInv, [Next]_vars PROVE IInv'
  OBVIOUS
<1>1. ASSUME NEW n \in Node, Start(n) PROVE IInv'
  BY <1>1, StartIInv
<1>2. ASSUME NEW n \in Node, StartRaises(n) PROVE IInv'
  BY <1>2, RaiseIInv
<1>3. CASE Wait
  BY <1>3, WaitIInv
<1>4. CASE Finish
  BY <1>4, FinishIInv
<1>5. CASE UNCHANGED vars
  <2>1. UNCHANGED <<ir, provider, completed, resource_free, previous_resource_cycle,
                    invocations, faulted, status, now, pending>>
    BY <1>5 DEF vars, executorVars, providerVars
  <2>2. /\ faulted' \in BOOLEAN /\ (faulted' => status' \notin {"preparing", "running"})
        /\ NoSelfInflictedRefusal'
    BY <2>1 DEF IInv, ExecutorInv, ExecutorTypes, ProviderProgress, NoSelfInflictedRefusal
  <2>3. ExecutorInv'
    BY <2>1, <2>2, ExecutorStays DEF IInv
  <2> QED
    BY <2>1, <2>2, <2>3, StopIInv
<1> QED
  BY <1>1, <1>2, <1>3, <1>4, <1>5 DEF Next, Stopped

(* The invariant holds in every reachable state. *)
THEOREM SchedulerInvariant == Spec => []IInv
BY InitIInv, NextIInv, PTL DEF Spec

(* schedule() and ServiceExecutor keep the types of their state. *)
THEOREM SchedulerTypeOK == Spec => []TypeOK
<1>1. IInv => TypeOK
  BY DEF IInv
<1> QED
  BY <1>1, SchedulerInvariant, PTL

(* Two nodes never hold a resource at the same time. *)
THEOREM SchedulerExclusive == Spec => []ResourceExclusive
<1>1. IInv => ResourceExclusive
  BY DEF IInv, ExecutorInv
<1> QED
  BY <1>1, SchedulerInvariant, PTL

(* No node starts before the milestones it depends on. *)
THEOREM SchedulerCausality == Spec => []Causality
<1>1. IInv => Causality
  BY DEF IInv, ExecutorInv
<1> QED
  BY <1>1, SchedulerInvariant, PTL

(* The scheduler never trips its own checks or the provider's clock, and a *)
(* validated graph never stalls.                                           *)
THEOREM SchedulerNoRefusal == Spec => []NoSelfInflictedRefusal
<1>1. IInv => NoSelfInflictedRefusal
  BY DEF IInv
<1> QED
  BY <1>1, SchedulerInvariant, PTL

(* A stateful provider sees its trace in order, window after window. *)
THEOREM SchedulerTraceInOrder == Spec => []TraceInOrder
<1>1. IInv => TraceInOrder
  BY DEF IInv, ExecutorInv
<1> QED
  BY <1>1, SchedulerInvariant, PTL

----------------------------------------------------------------------------
(* A start is a step of the policy: what starts now could not have started *)
(* earlier, nothing that could start earlier is pending, and nothing that  *)
(* can also start now precedes it.                                         *)
LEMMA StartRefines ==
  ASSUME IInv, NEW n \in Node, Start(n)
  PROVE  Policy!AbsNext
<1>1. /\ First(n) /\ Execute(n, now, Request(n)) /\ ExecutorInv /\ TypeOK
      /\ now \in Nat /\ DOMAIN completed = Node \ pending
  BY DEF Start, IInv, TypeOK
<1>2. Clear(n, now) /\ Placed(n, now, Request(n))
  BY StartIInv
<1>3. ASSUME NEW m \in Node, NEW u \in 0..now, Policy!CanStart(m, u)
      PROVE  u = now /\ ~Precedes(ir, m, n)
  <2>1. m \in pending /\ Considered(m)
    BY <1>1, <1>3, CanStartConsidered DEF Considered
  <2>2. u = now
    BY <1>1, <1>3, <2>1 DEF IInv, NoEarlierStart
  <2>3. StartAt(m) <= now
    BY <1>1, <1>3, <2>1, <2>2, StartAtFacts
  <2> QED
    BY <1>1, <2>1, <2>2, <2>3 DEF First, Startable
<1> QED
  BY <1>1, <1>2, <1>3, PlacedRefines

(* schedule() implements the declared policy, for every graph, provider,   *)
(* service time and clock ratio.                                           *)
THEOREM SchedulerRefinesPolicy == Spec => ImplementsPolicy
<1>1. Init => Policy!AbsInit
  BY InitRefines DEF Init
<1>2. IInv /\ [Next]_vars => [Policy!AbsNext]_(Policy!absVars)
  <2> SUFFICES ASSUME IInv, [Next]_vars PROVE [Policy!AbsNext]_(Policy!absVars)
    OBVIOUS
  <2>1. ASSUME NEW n \in Node, Start(n) PROVE Policy!AbsNext
    BY <2>1, StartRefines
  <2>2. ASSUME NEW n \in Node, StartRaises(n) PROVE UNCHANGED Policy!absVars
    BY <2>2 DEF StartRaises, ExecuteRaises, Raise, Policy!absVars
  <2>3. CASE Wait
    BY <2>3, WaitIInv DEF Policy!absVars
  <2>4. CASE Finish
    BY <2>4 DEF Finish, Policy!absVars
  <2>5. CASE UNCHANGED vars
    BY <2>5 DEF vars, executorVars, Policy!absVars
  <2> QED
    BY <2>1, <2>2, <2>3, <2>4, <2>5 DEF Next, Stopped
<1> QED
  BY <1>1, <1>2, SchedulerInvariant, PTL DEF Spec, ImplementsPolicy, Policy!AbsSpec
============================================================================
