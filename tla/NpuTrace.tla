------------------------------ MODULE NpuTrace ------------------------------
(***************************************************************************)
(* The validator of NPU traces (npu_trace_integrity.py, npu_trace_calls.py *)
(* and npu_trace_hosts.py): TraceState.consume reads the records of one    *)
(* run in file order and keeps just enough state to refuse a record that   *)
(* does not fit.  A refused record raises and the trace is never           *)
(* summarised, so an action stands for an accepted record and a refusal is *)
(* the absence of a step.  Fields whose only accepted value is determined  *)
(* by the state (sequence numbers, the next work or call id, the counts of *)
(* RUN_END) are not enumerated.  The descriptive identities of an operation *)
(* (node, layer, name, graph position), which every record must repeat,    *)
(* are left out: they only narrow what is accepted.                        *)
(***************************************************************************)
EXTENDS Integers, Sequences, FiniteSetsExt, Functions

CONSTANTS
    None,         \* an absent value
    OperationIds, \* operation ids a record may carry
    Parents,      \* dispatch parent ids
    Kinds,        \* call kinds a record may carry
    MaxRows,      \* rows of a parent
    MaxWorks, MaxCalls, MaxHosts, MaxPhases

ASSUME TraceConstants ==
    /\ Kinds \subseteq {"FULL", "STRIPE", "FENCE", "RESIDUAL_PREPARE", "RESIDUAL_COMPACT",
                  "RESIDUAL_RECOMPOSE", "RESIDUAL_MERGE"}
    /\ OperationIds \subseteq Nat /\ Parents \subseteq Nat
    /\ {MaxRows, MaxWorks, MaxCalls, MaxHosts, MaxPhases} \subseteq Nat

Order == <<"PREPARE", "INVOKE", "PUBLISH", "COMPLETE_REQUIRED", "FENCE", "CONTINUATION">>
Owning == {"FULL", "STRIPE", "RESIDUAL_COMPACT"}
Classes == {"TARGET_NPU", "ORDINARY_CPU", "UNSUPPORTED", "EXCLUDED"}

VARIABLES
    phaseCount,     \* number of PHASE records read
    pending,        \* operation id -> what its records agree on so far
    openDispatches, \* parent id -> first work, next row and next stripe
    dispatchDone, operationDone,   \* CompletedIDs
    calls,          \* Calls: active, done, count and who owns what
    hosts,          \* Hosts: active, owners of the completed, counters
    completed,      \* completed_operations
    traceEnded,
    log             \* the accepted works, call dependencies and operations

traceVars == <<phaseCount, pending, openDispatches, dispatchDone, operationDone, calls, hosts, completed, traceEnded, log>>

Put(f, k, v) == [x \in DOMAIN f \cup {k} |-> IF x = k THEN v ELSE f[x]]
Drop(f, keys) == [k \in DOMAIN f \ keys |-> f[k]]
OwnerOf(f, k) == IF k \in DOMAIN f THEN f[k] ELSE None

NoIDs == [cursor |-> 0, ahead |-> {}]
Contains(ids, i) == i < ids.cursor \/ i \in ids.ahead

Added(ids, i) ==
    LET ahead == ids.ahead \cup {i}
        top == Min({c \in ids.cursor .. (ids.cursor + Cardinality(ahead)) : c \notin ahead})
    IN [cursor |-> top, ahead |-> {a \in ahead : a > top}]

NewOperation == [works |-> 0, shape |-> None]

NoCalls == [active |-> << >>, done |-> NoIDs, count |-> 0, workOp |-> << >>,
            callOp |-> << >>, parentOp |-> << >>, declared |-> {}]
NoHosts == [active |-> << >>, owner |-> << >>, count |-> 0, completed |-> 0]

TraceInit ==
    /\ phaseCount = 0 /\ completed = 0 /\ traceEnded = FALSE
    /\ pending = << >> /\ openDispatches = << >>
    /\ dispatchDone = NoIDs /\ operationDone = NoIDs
    /\ calls = NoCalls /\ hosts = NoHosts
    /\ log = [works |-> << >>, required |-> << >>, phase |-> << >>]

(***************************************************************************)
(* consume: the checks every record of an operation passes first           *)
(***************************************************************************)
Agrees(old, new) == old \in {None, new}

Live(op) == IF op \in DOMAIN pending THEN pending[op] ELSE NewOperation

Accepts(op) == ~traceEnded /\ phaseCount > 0 /\ ~Contains(operationDone, op)

Seen(op) == [log EXCEPT !.phase = Put(@, op, phaseCount)]

(***************************************************************************)
(* PHASE and RUN_END                                                       *)
(***************************************************************************)
CallsClosed == DOMAIN calls.active = {} /\ calls.done = [cursor |-> calls.count, ahead |-> {}]
HostsClosed == DOMAIN hosts.active = {} /\ hosts.count = hosts.completed

\* Fault: a registered operation that was skipped does not stop the phase.
BoundaryWithGaps ==
    /\ DOMAIN pending = {} /\ DOMAIN openDispatches = {}
    /\ CallsClosed /\ HostsClosed

PhaseBoundary ==
    /\ DOMAIN pending = {} /\ DOMAIN openDispatches = {}
    /\ CallsClosed /\ HostsClosed
    /\ operationDone.cursor = completed

PhaseRecord ==
    /\ ~traceEnded /\ phaseCount < MaxPhases
    /\ PhaseBoundary
    /\ phaseCount' = phaseCount + 1
    /\ UNCHANGED <<pending, openDispatches, dispatchDone, operationDone, calls, hosts, completed, traceEnded, log>>

End ==
    /\ ~traceEnded /\ phaseCount > 0
    /\ PhaseBoundary
    /\ operationDone.ahead = {}
    /\ traceEnded' = TRUE
    /\ UNCHANGED <<phaseCount, pending, openDispatches, dispatchDone, operationDone, calls, hosts, completed, log>>

(***************************************************************************)
(* NPU_CALL                                                                *)
(***************************************************************************)
Position(stage) == CHOOSE n \in DOMAIN Order : Order[n] = stage
NewCall(op, parent, kind) ==
    [op |-> op, parent |-> parent, kind |-> kind, stages |-> << >>, works |-> {}, required |-> {}]

\* Fault: the continuation is not held to the completion of the call's work.
ContinuationUnchecked(call) == call.kind \in Owning => Cardinality(call.works) = 1

ContinuationOK(call) ==
    /\ IF call.kind \in Owning
       THEN /\ Cardinality(call.works) = 1 /\ call.works \subseteq call.required
            /\ call.kind = "STRIPE" => "PUBLISH" \in Range(call.stages)
       ELSE call.works = {}
    /\ call.kind = "FENCE" => {"COMPLETE_REQUIRED", "FENCE"} \subseteq Range(call.stages)

StageOK(call, op, stage, required) ==
    LET seen == Range(call.stages) IN
    /\ \A s \in seen : Position(s) < Position(stage)
    /\ stage \in {"PREPARE", "INVOKE"} \/ "INVOKE" \in seen
    /\ required /= {} => stage = "COMPLETE_REQUIRED"
    /\ \A w \in required : OwnerOf(calls.workOp, w) = op
    /\ stage = "PUBLISH" => call.kind = "STRIPE" /\ call.works /= {}
    /\ stage = "FENCE" => call.kind = "FENCE"

\* The record names call `id' of operation `op' and moves it to `stage'.
Stage(id, found, parent, stage, required) ==
    LET op == found.op
        call == [found EXCEPT !.parent = IF @ = None THEN parent ELSE @,
                              !.stages = Append(@, stage), !.required = @ \cup required]
    IN
    /\ Accepts(op) /\ parent = call.parent
    /\ parent /= None => Agrees(OwnerOf(calls.parentOp, parent), op)
    /\ StageOK(found, op, stage, required)
    /\ stage = "CONTINUATION" => ContinuationOK(call)
    /\ calls' = [calls EXCEPT
          !.active = IF stage = "CONTINUATION" THEN Drop(@, {id}) ELSE Put(@, id, call),
          !.done = IF stage = "CONTINUATION" THEN Added(@, id) ELSE @,
          !.count = IF id = @ THEN @ + 1 ELSE @,
          !.callOp = Put(@, id, op),
          !.parentOp = IF parent = None THEN @ ELSE Put(@, parent, op),
          !.declared = @ \ {parent}]
    /\ log' = [Seen(op) EXCEPT !.required = Put(@, id, call.required)]
    /\ pending' = Put(pending, op, Live(op))
    /\ UNCHANGED <<phaseCount, openDispatches, dispatchDone, operationDone, hosts, completed, traceEnded>>

\* A call that is not active must be the next one, at PREPARE.
Call ==
    \/ \E op \in OperationIds, kind \in Kinds, parent \in Parents \cup {None} :
         /\ calls.count < MaxCalls
         /\ Stage(calls.count, NewCall(op, parent, kind), parent, "PREPARE", {})
    \/ \E id \in DOMAIN calls.active, stage \in Range(Order), parent \in Parents \cup {None} :
         \E required \in IF stage = "COMPLETE_REQUIRED" THEN SUBSET DOMAIN calls.workOp ELSE {{}} :
           Stage(id, calls.active[id], parent, stage, required)

(***************************************************************************)
(* NPU_WORK: the next work id, one block of rows of its parent             *)
(***************************************************************************)
Scope == [FULL |-> "full", STRIPE |-> "stripe", RESIDUAL_COMPACT |-> "residual_compact"]

\* Calls.work: made between INVOKE and the next stage of a call of its kind
TakesWork(call) ==
    /\ call.stages = <<"PREPARE", "INVOKE">>
    /\ call.kind \in Owning /\ call.parent /= None /\ call.works = {}

StripeFollows(dispatch, w) ==
    /\ <<w.op, w.scope, w.rows>> = <<dispatch.first.op, dispatch.first.scope, dispatch.first.rows>>
    /\ w.begin = dispatch.row

\* parse_work: rows inside the parent; FULL and compact works are the parent
WorkWellFormed(w) ==
    /\ w.begin + w.count <= w.rows
    /\ w.scope /= "stripe" => w.begin = 0 /\ w.count = w.rows

Work(cid, rows, begin, count, prepared) ==
    LET id == Len(log.works)
        call == calls.active[cid]
        op == call.op
        w == [op |-> op, parent |-> call.parent, call |-> cid, scope |-> Scope[call.kind],
              rows |-> rows, begin |-> begin, count |-> count]
        dispatch == IF w.parent \in DOMAIN openDispatches THEN openDispatches[w.parent] ELSE [first |-> w, row |-> 0]
        shape == IF w.scope = "residual_compact" THEN Live(op).shape ELSE rows
    IN
    /\ TakesWork(call)
    /\ Accepts(op)
    /\ WorkWellFormed(w)
    /\ \A h \in prepared : OwnerOf(hosts.owner, h) = op
    /\ Agrees(Live(op).shape, shape)
    /\ ~Contains(dispatchDone, w.parent)
    /\ StripeFollows(dispatch, w)
    /\ IF dispatch.row + count = rows
       THEN /\ openDispatches' = Drop(openDispatches, {w.parent})
            /\ dispatchDone' = Added(dispatchDone, w.parent)
       ELSE /\ openDispatches' = Put(openDispatches, w.parent, [dispatch EXCEPT !.row = @ + count])
            /\ UNCHANGED dispatchDone
    /\ pending' = Put(pending, op, [works |-> Live(op).works + 1, shape |-> shape])
    /\ calls' = [calls EXCEPT !.active[cid].works = {id}, !.workOp = Put(@, id, op)]
    /\ log' = [Seen(op) EXCEPT !.works = Append(@, w)]
    /\ UNCHANGED <<phaseCount, operationDone, hosts, completed, traceEnded>>

(***************************************************************************)
(* HOST_STAGE BEGIN and END                                                *)
(***************************************************************************)
HostOwns(op, parent, call) ==
    /\ parent /= None => Agrees(OwnerOf(calls.parentOp, parent), op)
    /\ call /= None => OwnerOf(calls.callOp, call) = op

HostParent(op, parent) ==
    IF parent = None THEN calls
    ELSE [calls EXCEPT !.parentOp = Put(@, parent, op),
                       !.declared = IF parent \in DOMAIN calls.parentOp THEN @ ELSE @ \cup {parent}]

HostBegin(op, parent, call, works, stages) ==
    LET id == hosts.count IN
    /\ Accepts(op)
    /\ HostOwns(op, parent, call)
    /\ \A w \in works : OwnerOf(calls.workOp, w) = op
    /\ \A h \in stages : OwnerOf(hosts.owner, h) = op
    /\ hosts' = [hosts EXCEPT !.count = @ + 1,
                    !.active = Put(@, id, [op |-> op, parent |-> parent, call |-> call])]
    /\ calls' = HostParent(op, parent)
    /\ pending' = Put(pending, op, Live(op))
    /\ log' = Seen(op)
    /\ UNCHANGED <<phaseCount, openDispatches, dispatchDone, operationDone, completed, traceEnded>>

HostEnd(id) ==
    /\ id \in DOMAIN hosts.active
    /\ LET h == hosts.active[id] IN
       /\ Accepts(h.op)
       /\ HostOwns(h.op, h.parent, h.call)
       /\ hosts' = [hosts EXCEPT !.active = Drop(@, {id}), !.owner = Put(@, id, h.op), !.completed = @ + 1]
       /\ calls' = HostParent(h.op, h.parent)
    /\ UNCHANGED <<phaseCount, pending, openDispatches, dispatchDone, operationDone, completed, traceEnded, log>>

(***************************************************************************)
(* TARGET_OPERATION closes an operation                                    *)
(***************************************************************************)
OwnedBy(f, op) == {k \in DOMAIN f : f[k] = op}

ClassOK(op, class, shape) ==
    /\ (class = "EXCLUDED") = (shape = 0)
    /\ Agrees(Live(op).shape, shape)
    /\ (class = "TARGET_NPU") = (Live(op).works > 0)

CallsFinished(op) ==
    /\ \A c \in DOMAIN calls.active : calls.active[c].op /= op
    /\ \A p \in calls.declared : OwnerOf(calls.parentOp, p) /= op

HostsFinished(op) == \A h \in DOMAIN hosts.active : hosts.active[h].op /= op

\* Fault: a parent may be left half covered.
FinishedExceptParents(op) == HostsFinished(op) /\ CallsFinished(op)

Finished(op) ==
    /\ \A p \in DOMAIN openDispatches : openDispatches[p].first.op /= op
    /\ HostsFinished(op) /\ CallsFinished(op)

CallsForget(op) ==
    [calls EXCEPT !.workOp = Drop(@, OwnedBy(@, op)), !.callOp = Drop(@, OwnedBy(@, op)),
                  !.parentOp = Drop(@, OwnedBy(@, op))]

CompleteOperation(op, class, shape) ==
    /\ Accepts(op)
    /\ ClassOK(op, class, shape)
    /\ Finished(op)
    /\ hosts' = [hosts EXCEPT !.owner = Drop(@, OwnedBy(@, op))]
    /\ calls' = CallsForget(op)
    /\ completed' = completed + 1
    /\ pending' = Drop(pending, {op})
    /\ operationDone' = Added(operationDone, op)
    /\ log' = Seen(op)
    /\ UNCHANGED <<phaseCount, openDispatches, dispatchDone, traceEnded>>

(***************************************************************************)
(* The records a trace may hold, in any order                              *)
(***************************************************************************)
TraceNext ==
    \/ PhaseRecord
    \/ End
    \/ Call
    \/ /\ Len(log.works) < MaxWorks
       /\ \E cid \in {c \in DOMAIN calls.active : TakesWork(calls.active[c])},
             rows, count \in 1 .. MaxRows, begin \in 0 .. MaxRows, prepared \in SUBSET DOMAIN hosts.owner :
            Work(cid, rows, begin, count, prepared)
    \/ /\ hosts.count < MaxHosts
       /\ \E op \in OperationIds, parent \in Parents \cup {None}, call \in DOMAIN calls.callOp \cup {None},
             works \in SUBSET DOMAIN calls.workOp, stages \in SUBSET DOMAIN hosts.owner :
            HostBegin(op, parent, call, works, stages)
    \/ \E id \in DOMAIN hosts.active : HostEnd(id)
    \/ \E op \in OperationIds, class \in Classes, shape \in 0 .. MaxRows : CompleteOperation(op, class, shape)

TraceSpec == TraceInit /\ [][TraceNext]_traceVars

(***************************************************************************)
(* What an accepted trace says                                             *)
(***************************************************************************)
Done(op) == Contains(operationDone, op)
WorksOf(p) == {n \in DOMAIN log.works : log.works[n].parent = p}
RowsOf(w) == w.begin .. (w.begin + w.count - 1)

\* The rows of a parent are cut into blocks in order, none missing and none
\* twice, by works of a single operation, and a completed operation has
\* covered every one of its parents: TraceState.work and complete_operation
\* keep only a cursor per open parent and forget it when the parent closes.
CoverageExact ==
    \A p \in Parents :
        LET W == WorksOf(p) IN
        /\ \A i, j \in W : /\ log.works[i].op = log.works[j].op
                           /\ log.works[i].rows = log.works[j].rows
                           /\ i < j => log.works[i].begin + log.works[i].count <= log.works[j].begin
        /\ \A i \in W : Done(log.works[i].op) =>
              UNION {RowsOf(log.works[j]) : j \in W} = 0 .. (log.works[i].rows - 1)

\* Every work of a completed operation belongs to one call, that call is over
\* and waited for that very work before its continuation; no other call of
\* the operation waits for work of another operation (Calls.stage).
ContinuationWaits ==
    \A n \in DOMAIN log.works :
        LET w == log.works[n] IN
        /\ \A k \in DOMAIN log.works : k /= n => log.works[k].call /= w.call
        /\ w.call \in DOMAIN log.required /\ (Contains(calls.done, w.call) => n - 1 \in log.required[w.call])
        /\ Done(w.op) => Contains(calls.done, w.call)

\* Nothing is left over from an earlier phase: when a phase or the end of the
\* run is reached, the operations met so far are 0 .. n-1 without a gap, all
\* of them complete, and so are their calls, host stages and parents.
PhaseClosed ==
    \A op \in DOMAIN log.phase : log.phase[op] < phaseCount \/ traceEnded =>
        /\ op < operationDone.cursor
        /\ \A earlier \in 0 .. op : earlier \in DOMAIN log.phase
        /\ \A c \in DOMAIN calls.active : calls.active[c].op /= op
        /\ \A h \in DOMAIN hosts.active : hosts.active[h].op /= op
        /\ \A p \in DOMAIN openDispatches : openDispatches[p].first.op /= op

\* What validate_trace accepts is complete: every element of every parent is
\* computed once, no continuation starts before what it continues, and no
\* phase is left with a gap.
TraceClosed == CoverageExact /\ ContinuationWaits /\ PhaseClosed
=============================================================================
