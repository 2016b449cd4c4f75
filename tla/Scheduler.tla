----------------------------- MODULE Scheduler -----------------------------
(***************************************************************************)
(* schedule() of scheduler.py: the in-memory scheduler.  One pass of its   *)
(* while loop scans the pending nodes in (order, identity) order, executes *)
(* the first one that can start now, and otherwise moves the clock to the  *)
(* earliest instant any of the nodes it considered could start.            *)
(***************************************************************************)
EXTENDS ServiceExecutor

ASSUME GraphAssumption == \A g \in Graphs : ValidIR(g)

VARIABLES now, pending

vars == <<executorVars, now, pending>>

(* Not skipped by the loop: every dependency has an entry. *)
Considered(n) == n \in pending /\ Parents(ir, n) \subseteq DOMAIN completed

(* Fault: the scan asks only when a node is ready, not when execute can    *)
(* reserve its resources.                                                  *)
StartAtReady(n) == Max({now, Ready(ir, completed, n)})

StartAt(n) == Earliest(n, Max({now, Ready(ir, completed, n)}))

Startable(n) == Considered(n) /\ StartAt(n) <= now

(* Fault: the scan goes by identity alone, as over an unsorted dict. *)
FirstById(n) == /\ Startable(n)
                /\ \A m \in pending : Startable(m) => n <= m

(* The node at which the scan of sorted(pending) breaks. *)
First(n) == /\ Startable(n)
            /\ \A m \in pending : Startable(m) => ~Precedes(ir, m, n)

(* request_available_ns is kept for stateful providers only. *)
Request(n) == IF Stateful THEN Ready(ir, completed, n) ELSE NoRequest

Init == /\ ExecutorInit
        /\ status = "running"
        /\ now = 0
        /\ pending = Node

(* Fault: the node that was executed stays pending. *)
StartKeepingPending(n) ==
  /\ status = "running"
  /\ First(n)
  /\ Execute(n, now, Request(n))
  /\ UNCHANGED <<now, pending, status>>

Start(n) ==
  /\ status = "running"
  /\ First(n)
  /\ Execute(n, now, Request(n))
  /\ pending' = pending \ {n}
  /\ UNCHANGED <<now, status>>

StartRaises(n) ==
  /\ status = "running"
  /\ First(n)
  /\ ExecuteRaises(n, now)
  /\ UNCHANGED <<now, pending>>

(* Fault: the clock moves to when a node is ready, busy resources or not. *)
WaitForReady ==
  LET future == {Max({now, Ready(ir, completed, n)}) :
                    n \in {m \in pending : Considered(m)}} IN
  /\ status = "running"
  /\ pending # {}
  /\ \A n \in pending : ~Startable(n)
  /\ future # {} /\ now' = Min(future)
  /\ UNCHANGED <<executorVars, pending>>

Wait ==
  LET future == {StartAt(n) : n \in {m \in pending : Considered(m)}} IN
  /\ status = "running"
  /\ pending # {}
  /\ \A n \in pending : ~Startable(n)
  /\ IF future = {}
     THEN Raise("execution stalled") /\ UNCHANGED <<providerVars, now>>
     ELSE now' = Min(future) /\ UNCHANGED executorVars
  /\ UNCHANGED pending

Finish ==
  /\ status = "running"
  /\ pending = {}
  /\ status' = IF ProviderComplete THEN "done" ELSE "completion"
  /\ UNCHANGED <<ir, provider, completed, resource_free, providerVars, now, pending>>

(* schedule() has returned or raised. *)
Stopped == status # "running" /\ UNCHANGED vars

Next == \/ \E n \in Node : Start(n) \/ StartRaises(n)
        \/ Wait
        \/ Finish
        \/ Stopped

Spec == Init /\ [][Next]_vars /\ WF_vars(Next)

----------------------------------------------------------------------------
(* Every variable keeps the type schedule() and ServiceExecutor give it,   *)
(* and a node is either pending or has an entry.                           *)
TypeOK ==
  /\ ExecutorTypes
  /\ now \in Nat
  /\ pending \subseteq Node
  /\ DOMAIN completed = Node \ pending

(* The checks the scheduler and the providers make on each other's state   *)
(* never fail: execute is never handed a node whose resource is busy, a    *)
(* validated graph never stalls, and no work reaches the NPU before the    *)
(* provider's previous work released it.                                   *)
NoSelfInflictedRefusal ==
  status \notin {"cannot reserve a future resource", "execution stalled",
                 "accepted before resource ready", "offer epoch", "faulted",
                 "work order", "completion"}

(* schedule() returns or raises. *)
Termination == <>(status # "running")

----------------------------------------------------------------------------
(* The inductive invariant of the proofs in SchedulerProofs. *)

(* Nothing that is still pending could have started before now. *)
NoEarlierStart ==
  \A n \in pending : \A u \in 0..(now - 1) : ~Policy!CanStart(n, u)

IInv == TypeOK /\ ExecutorInv /\ NoSelfInflictedRefusal /\ NoEarlierStart
============================================================================
