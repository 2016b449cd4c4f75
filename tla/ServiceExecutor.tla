-------------------------- MODULE ServiceExecutor --------------------------
(***************************************************************************)
(* ServiceExecutor of scheduler.py, the part that the in-memory and the    *)
(* SQLite scheduler share: it decides when a node may start, charges its   *)
(* service to its resources and asks the NPU timing provider for NPU       *)
(* nodes.  The providers are the stateless PhaseTable, the                 *)
(* CycleServiceProvider and the stateful sequence provider; how the native *)
(* session below the stateful provider produces a window is the subject of *)
(* SequenceSession.                                                        *)
(***************************************************************************)
EXTENDS ExecutionIR, Sequences

CONSTANTS Graphs,        \* the graphs to schedule
          Providers(_),  \* the providers that may be bound to a graph
          MaxCpuTime,    \* longest CPU worker service, in grid points
          MaxNpuCycles   \* longest NPU service, in NPU clocks

ASSUME ServiceAssumption == MaxCpuTime \in Nat /\ MaxNpuCycles \in Nat \ {0}

VARIABLES
  ir,        \* inputs.ir; constant along a behaviour
  provider,  \* inputs.npu_provider's kind, bound trace and certified offers
  completed, \* the ScheduledNodes produced so far
  resource_free,            \* ServiceExecutor.resource_free
  previous_resource_cycle,  \* of the provider
  invocations,              \* of the provider
  faulted,                  \* of the stateful provider
  status     \* "running", "done", or the ExecutionError that was raised

providerVars == <<previous_resource_cycle, invocations, faulted>>
executorVars == <<ir, provider, completed, resource_free, providerVars, status>>

ProviderKind == {"phase_table", "cycle", "stateful", "back_to_back", "certified"}

(* DiagnosticStatefulProvider and StatefulSequenceProvider, by the offer   *)
(* policy of their admitted state domain.                                  *)
Stateful == provider.kind \in {"stateful", "back_to_back", "certified"}

NpuNodes(g) == {n \in Node : g.kind[n] = "NPU"}

(* The bound trace lists every NPU work once, in the order the certificate *)
(* was taken; certified_offers has one offer per work (_gate and the       *)
(* provider's constructor).                                                *)
ProviderOK(g, p) ==
  /\ p.kind \in ProviderKind
  /\ p.trace \in [1..Cardinality(NpuNodes(g)) -> NpuNodes(g)]
  /\ NpuNodes(g) = {p.trace[i] : i \in DOMAIN p.trace}
  /\ \A i, j \in DOMAIN p.trace : p.trace[i] = p.trace[j] => i = j
  /\ p.offers \in [DOMAIN p.trace -> Nat]

ASSUME InputAssumption ==
  \A g \in Graphs : WellFormed(g) /\ \A p \in Providers(g) : ProviderOK(g, p)

(* Fault: the resources the node needs are not waited for. *)
EarliestIgnoringResources(n, t) == IF ir.kind[n] = "NPU" THEN AlignUp(t) ELSE t

(* ServiceExecutor.earliest *)
Earliest(n, t) ==
  LET free  == {resource_free[r] : r \in ir.resources[n]}
      bound == IF ir.kind[n] = "NPU" /\ Stateful
               THEN {previous_resource_cycle * Cycle} ELSE {}
      ready == Max({t} \cup free \cup bound)
  IN  IF ir.kind[n] = "NPU" THEN AlignUp(ready) ELSE ready

Record(n, entry) ==
  completed' = [m \in DOMAIN completed \cup {n} |->
                   IF m = n THEN entry ELSE completed[m]]

Raise(reason) ==
  /\ status' = reason
  /\ UNCHANGED <<ir, provider, completed, resource_free>>

----------------------------------------------------------------------------
(* Fault: the whole gang is released with its slowest worker. *)
ExecuteCpuReleasingTogether(n, t, request) ==
  /\ ir.kind[n] = "CPU"
  /\ \E duration \in [ir.resources[n] -> 0..MaxCpuTime] :
       LET until == [r \in ir.resources[n] |-> t + duration[r]]
           last  == Max({until[r] : r \in ir.resources[n]})
       IN  /\ resource_free' = [r \in Resource |->
                IF r \in ir.resources[n] THEN last ELSE resource_free[r]]
           /\ Record(n, [request |-> request, start |-> t, accepted |-> t,
                         result |-> last, resource |-> last, until |-> until])
  /\ UNCHANGED <<ir, provider, providerVars>>

(* Kind.CPU and Kind.APPLICATION_CPU: the workers start as a gang and each *)
(* releases its own resource; the node is ready with the slowest.          *)
ExecuteCpu(n, t, request) ==
  /\ ir.kind[n] = "CPU"
  /\ \E duration \in [ir.resources[n] -> 0..MaxCpuTime] :
       LET until == [r \in ir.resources[n] |-> t + duration[r]]
           last  == Max({until[r] : r \in ir.resources[n]})
       IN  /\ resource_free' = [r \in Resource |->
                IF r \in ir.resources[n] THEN until[r] ELSE resource_free[r]]
           /\ Record(n, [request |-> request, start |-> t, accepted |-> t,
                         result |-> last, resource |-> last, until |-> until])
  /\ UNCHANGED <<ir, provider, providerVars>>

(* Structural and excluded nodes take no service and no resource. *)
ExecuteStructural(n, t, request) ==
  /\ ir.kind[n] = "STRUCTURAL"
  /\ Record(n, [request |-> request, start |-> t, accepted |-> t,
                result |-> t, resource |-> t, until |-> [r \in {} |-> t]])
  /\ UNCHANGED <<ir, provider, resource_free, providerVars>>

(* The NPU branch after the provider answered: every resource of the node  *)
(* is busy until the provider's resource-ready instant.                    *)
ChargeNpu(n, t, request, accepted, result, released) ==
  /\ resource_free' = [r \in Resource |->
       IF r \in ir.resources[n] THEN released ELSE resource_free[r]]
  /\ Record(n, [request |-> request, start |-> t, accepted |-> accepted,
                result |-> result, resource |-> released,
                until |-> [r \in ir.resources[n] |-> released]])
  /\ UNCHANGED <<ir, provider>>

(* PhaseTable.estimate keeps no state; CycleServiceProvider.estimate       *)
(* continues from its previous resource-ready cycle.                       *)
EstimateNpu(n, t, request) ==
  LET cycle == t \div Cycle IN
  /\ ir.kind[n] = "NPU" /\ ~Stateful
  /\ provider.kind = "cycle" => cycle >= previous_resource_cycle
  /\ \E result \in 1..MaxNpuCycles : \E resource \in result..MaxNpuCycles :
       /\ ChargeNpu(n, t, request, t, t + result * Cycle, t + resource * Cycle)
       /\ IF provider.kind = "cycle"
          THEN /\ previous_resource_cycle' = cycle + resource
               /\ invocations' = invocations + 1
          ELSE UNCHANGED <<previous_resource_cycle, invocations>>
  /\ UNCHANGED faulted

(* Fault: the work is not compared with the next one of the bound trace. *)
OfferRefusalIgnoringTrace(n, cycle) ==
  IF faulted THEN "faulted"
  ELSE IF invocations >= Len(provider.trace) THEN "work order"
  ELSE IF cycle < previous_resource_cycle THEN "offer epoch"
  ELSE "none"

(* The checks _StatefulProvider.execute makes before it offers the work to *)
(* the native session, which then stands at the previous resource-ready    *)
(* cycle with nothing pending; they raise without faulting the provider.   *)
OfferRefusal(n, cycle) ==
  IF faulted THEN "faulted"
  ELSE IF invocations >= Len(provider.trace) THEN "work order"
  ELSE IF provider.trace[invocations + 1] # n THEN "request binding"
  ELSE IF cycle < previous_resource_cycle THEN "offer epoch"
  ELSE IF provider.kind = "certified" /\ cycle # provider.offers[invocations + 1]
       THEN "interleaved offer policy"
  ELSE IF provider.kind = "back_to_back" /\ cycle # previous_resource_cycle
       THEN "back-to-back offer policy"
  ELSE "none"

(* A completed native window: offered <= accepted < result <= final scale  *)
(* release <= resource ready, as _check_report demands.  The final release *)
(* reaches no later decision and is left out.                              *)
StatefulNpu(n, t, request) ==
  LET cycle == t \div Cycle IN
  /\ ir.kind[n] = "NPU" /\ Stateful
  /\ OfferRefusal(n, cycle) = "none"
  /\ \E accepted \in cycle..(cycle + MaxNpuCycles - 1) :
     \E result \in (accepted + 1)..(cycle + MaxNpuCycles) :
     \E resource \in result..(cycle + MaxNpuCycles) :
       /\ ChargeNpu(n, t, request, accepted * Cycle, result * Cycle, resource * Cycle)
       /\ previous_resource_cycle' = resource
  /\ invocations' = invocations + 1
  /\ UNCHANGED faulted

(* ServiceExecutor.execute when it returns. *)
Execute(n, t, request) ==
  /\ t = Earliest(n, t)
  /\ \/ ExecuteCpu(n, t, request)
     \/ ExecuteStructural(n, t, request)
     \/ EstimateNpu(n, t, request)
     \/ StatefulNpu(n, t, request)

----------------------------------------------------------------------------
(* The exceptions execute can end with.  A mismatch of the phase table or  *)
(* of the certified case, a changed library, and a native session that     *)
(* does not complete the work inside the admitted domain are facts about   *)
(* the data that the schedule does not determine, so they are always       *)
(* possible for an NPU node.                                               *)
Refusals(n, t) ==
  LET cycle == t \div Cycle IN
  IF t # Earliest(n, t) THEN {"cannot reserve a future resource"}
  ELSE IF ir.kind[n] # "NPU" THEN {}
  ELSE IF Stateful
       THEN {IF OfferRefusal(n, cycle) = "none" THEN "native transition"
             ELSE OfferRefusal(n, cycle)}
  ELSE IF provider.kind = "cycle" /\ cycle < previous_resource_cycle
       THEN {"accepted before resource ready"}
  ELSE {"service boundary mismatch"}

(* Once the native session has been offered the work, an exception leaves  *)
(* the provider faulted for good.                                          *)
ExecuteRaises(n, t) ==
  \E reason \in Refusals(n, t) :
    /\ Raise(reason)
    /\ faulted' = (faulted \/ reason = "native transition")
    /\ UNCHANGED <<previous_resource_cycle, invocations>>

(* complete_provider: the stateful provider verifies that the whole trace  *)
(* ran; a reconstruction verifies that the cycle provider saw every work.  *)
ProviderComplete ==
  /\ Stateful => ~faulted
  /\ provider.kind # "phase_table" => invocations = Len(provider.trace)

ExecutorInit ==
  /\ ir \in Graphs
  /\ provider \in Providers(ir)
  /\ completed = [n \in {} |-> 0]
  /\ resource_free = [r \in Resource |-> 0]
  /\ previous_resource_cycle = 0
  /\ invocations = 0
  /\ faulted = FALSE

----------------------------------------------------------------------------
(* What every schedule keeps, whichever scheduler calls execute. *)

(* Two nodes never hold a resource at the same time: execute charges a     *)
(* resource from the node's start to that worker's own release, and        *)
(* earliest() must not let another node of the resource in before.         *)
ResourceExclusive ==
  \A m, n \in DOMAIN completed : \A r \in ir.resources[m] \cap ir.resources[n] :
     m # n => \/ completed[m].until[r] <= completed[n].start
              \/ completed[n].until[r] <= completed[m].start

(* No node starts before the milestones it depends on: the accepted,       *)
(* result-ready or resource-ready instant of each parent.                  *)
Causality ==
  \A n \in DOMAIN completed : \A e \in ir.deps[n] :
     /\ e.node \in DOMAIN completed
     /\ At(completed[e.node], e.milestone) <= completed[n].start

(* With a stateful provider the NPU runs the bound trace in order and each *)
(* window opens only after the previous one released the NPU.              *)
TraceInOrder ==
  Stateful =>
    \A i, j \in DOMAIN provider.trace :
      LET m == provider.trace[i]  n == provider.trace[j] IN
      (i < j /\ n \in DOMAIN completed) =>
         /\ m \in DOMAIN completed
         /\ completed[m].resource <= completed[n].accepted

(* The scheduler implements the policy of ListSchedule: no node is delayed *)
(* past the instant it can start, and ties go by order and identity.       *)
Policy == INSTANCE ListSchedule WITH schedule <- completed
ImplementsPolicy == Policy!AbsSpec

(* The executor's part of the inductive invariants of both schedulers. *)

ExecutorTypes ==
  /\ ir \in Graphs /\ provider \in Providers(ir)
  /\ DOMAIN completed \subseteq Node
  /\ \A n \in DOMAIN completed : completed[n] \in Entry(ir.resources[n])
  /\ resource_free \in [Resource -> Nat]
  /\ previous_resource_cycle \in Nat /\ invocations \in Nat /\ faulted \in BOOLEAN

(* Every entry is a gang's, and one of them is released last. *)
EntriesOK ==
  /\ \A n \in DOMAIN completed : Policy!EntryOK(n, completed[n])
  /\ \E last \in {0} \cup {completed[n].resource : n \in DOMAIN completed} :
       \A n \in DOMAIN completed : completed[n].resource <= last

(* resource_free holds the last release of each resource and nothing else. *)
FreeIsLast ==
  \A r \in Resource :
    /\ \A m \in DOMAIN completed :
          r \in ir.resources[m] => completed[m].until[r] <= resource_free[r]
    /\ \/ resource_free[r] = 0
       \/ \E m \in DOMAIN completed :
             r \in ir.resources[m] /\ completed[m].until[r] = resource_free[r]

(* The provider's own clock never runs ahead of the NPU's release. *)
NpuReleased ==
  provider.kind # "phase_table" =>
    previous_resource_cycle * Cycle <= resource_free[NpuResource]

(* What the provider has counted is what has been scheduled, and a faulted *)
(* provider has ended the schedule.                                        *)
ProviderProgress ==
  LET done == NpuNodes(ir) \cap DOMAIN completed IN
  /\ Stateful =>
       /\ invocations <= Len(provider.trace)
       /\ done = {provider.trace[i] : i \in 1..invocations}
       /\ \A m \in done : completed[m].resource <= previous_resource_cycle * Cycle
  /\ provider.kind = "cycle" => invocations = Cardinality(done)
  /\ faulted => status \notin {"preparing", "running"}

ExecutorInv ==
  /\ ExecutorTypes /\ EntriesOK /\ FreeIsLast /\ NpuReleased /\ ProviderProgress
  /\ ResourceExclusive /\ Causality /\ TraceInOrder
============================================================================
