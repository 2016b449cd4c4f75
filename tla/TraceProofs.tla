---------------------------- MODULE TraceProofs ----------------------------
(***************************************************************************)
(* The readers of collected traces, for files of every length and all that *)
(* they may hold: the validator of NPU traces accepts only a closed trace, *)
(* the three-source join counts every cost once, a lifecycle that is       *)
(* accepted covers the manifest phase by phase, two joined manifests are   *)
(* of one workload, and the execution graph built from them bounds what    *)
(* may run together.                                                       *)
(***************************************************************************)
EXTENDS NpuTrace, Reconstruct, ExecutionGraph, SemanticGraph, FiniteSetTheorems, WellFoundedInduction, TLAPS

(***************************************************************************)
(* The NPU trace: what the validator's cursors stand for                   *)
(***************************************************************************)
IDSet(ids) == ids \in [cursor : Nat, ahead : SUBSET Nat] /\ IsFiniteSet(ids.ahead) /\ \A a \in ids.ahead : a > ids.cursor

StageNames == {"PREPARE", "INVOKE", "PUBLISH", "COMPLETE_REQUIRED", "FENCE", "CONTINUATION"}
WorkRecord == [op : OperationIds, parent : Parents, call : Nat, scope : {"full", "stripe", "residual_compact"}, rows : Nat, begin : Nat, count : Nat]
CallRecord == [op : OperationIds, parent : Parents \cup {None}, kind : Kinds, stages : Seq(StageNames), works : SUBSET Nat, required : SUBSET Nat]

TraceTypes ==
    /\ phaseCount \in Nat /\ completed \in Nat /\ traceEnded \in BOOLEAN
    /\ IDSet(dispatchDone) /\ IDSet(operationDone) /\ IDSet(calls.done)
    /\ log = [works |-> log.works, required |-> log.required, phase |-> log.phase] /\ log.works \in Seq(WorkRecord)
    /\ calls = [active |-> calls.active, done |-> calls.done, count |-> calls.count, workOp |-> calls.workOp,
                callOp |-> calls.callOp, parentOp |-> calls.parentOp, declared |-> calls.declared]
    /\ calls.count \in Nat /\ DOMAIN calls.workOp \subseteq Nat
    /\ hosts = [active |-> hosts.active, owner |-> hosts.owner, count |-> hosts.count, completed |-> hosts.completed]
    /\ \A c \in DOMAIN calls.active : calls.active[c] \in CallRecord
    /\ \A h \in DOMAIN hosts.active : hosts.active[h].op \in OperationIds
    /\ \A p \in DOMAIN openDispatches : openDispatches[p] \in [first : WorkRecord, row : Nat]

Cover(p) == UNION {RowsOf(log.works[j]) : j \in WorksOf(p)}

(* TraceState.work: the cursor of an open parent is where its works end, a *)
(* closed parent is covered, and any other parent has no work.             *)
ParentsCut ==
    \A p \in Parents :
        /\ \A i, j \in WorksOf(p) :
              /\ log.works[i].op = log.works[j].op /\ log.works[i].rows = log.works[j].rows
              /\ i < j => log.works[i].begin + log.works[i].count <= log.works[j].begin
        /\ p \in DOMAIN openDispatches =>
              /\ Cover(p) = 0 .. (openDispatches[p].row - 1)
              /\ \A i \in WorksOf(p) :
                    /\ log.works[i].op = openDispatches[p].first.op /\ log.works[i].rows = openDispatches[p].first.rows
                    /\ log.works[i].begin + log.works[i].count <= openDispatches[p].row
        /\ Contains(dispatchDone, p) => \A i \in WorksOf(p) : Cover(p) = 0 .. (log.works[i].rows - 1)
        /\ p \in DOMAIN openDispatches \/ Contains(dispatchDone, p) \/ WorksOf(p) = {}

(* Nothing of a completed operation is open. *)
OpenIsLive ==
    /\ \A p \in DOMAIN openDispatches : ~Done(openDispatches[p].first.op)
    /\ \A c \in DOMAIN calls.active : ~Done(calls.active[c].op)
    /\ \A h \in DOMAIN hosts.active : ~Done(hosts.active[h].op)

(* Calls.stage and Calls.work: an active call knows its work and what it   *)
(* waited for; a call that is over waited for its work.                    *)
CallsTracked ==
    /\ \A c \in DOMAIN calls.active : c \in 0 .. (calls.count - 1) /\ ~Contains(calls.done, c)
    /\ \A c \in DOMAIN calls.active : c \in DOMAIN log.required /\ log.required[c] = calls.active[c].required
    /\ \A c \in Nat : Contains(calls.done, c) => c < calls.count
    /\ \A n \in DOMAIN log.works :
          LET c == log.works[n].call IN
          /\ c < calls.count /\ c \in DOMAIN log.required
          /\ IF c \in DOMAIN calls.active
             THEN calls.active[c].op = log.works[n].op /\ calls.active[c].kind \in Owning /\ calls.active[c].works = {n - 1}
             ELSE Contains(calls.done, c) /\ n - 1 \in log.required[c]
    /\ \A m, n \in DOMAIN log.works : log.works[m].call = log.works[n].call => m = n

(* Every operation met is pending or complete, and complete ones were met. *)
PhasesTracked ==
    /\ \A op \in DOMAIN log.phase :
          /\ op \in Nat /\ log.phase[op] \in Nat /\ log.phase[op] <= phaseCount
          /\ op \in DOMAIN pending \/ Done(op)
          /\ log.phase[op] < phaseCount \/ traceEnded => op < operationDone.cursor
    /\ \A op \in Nat : Done(op) => op \in DOMAIN log.phase
    /\ operationDone.cursor + Cardinality(operationDone.ahead) = completed

TraceInv == TraceTypes /\ ParentsCut /\ OpenIsLive /\ CallsTracked /\ PhasesTracked

LEMMA PutIn ==
  ASSUME NEW f, NEW k, NEW v
  PROVE  /\ DOMAIN Put(f, k, v) = DOMAIN f \cup {k} /\ Put(f, k, v)[k] = v
         /\ \A x \in DOMAIN f : x /= k => Put(f, k, v)[x] = f[x]
BY DEF Put

LEMMA Dropped ==
  ASSUME NEW f, NEW K
  PROVE  DOMAIN Drop(f, K) = DOMAIN f \ K /\ \A x \in DOMAIN f \ K : Drop(f, K)[x] = f[x]
BY DEF Drop

(* Every set of numbers that is not empty has a least one. *)
LEMMA LeastNumber == ASSUME NEW S \in SUBSET Nat, S # {} PROVE \E n \in S : \A m \in S : n <= m
<1>1. PICK x \in S : \A y \in S : ~(<<y, x>> \in OpToRel(<, Nat))
  BY NatLessThanWellFounded, WFMin, Zenon
<1>2. ASSUME NEW y \in S PROVE ~(y < x)
  <2>1. SUFFICES ASSUME y < x PROVE <<y, x>> \in OpToRel(<, Nat)
    BY <1>1, Zenon
  <2> QED
    BY <2>1, Zenon DEF OpToRel
<1> QED
  BY <1>2

(* CompletedIDs.add: the cursor moves over what is complete without a gap, *)
(* and the set it stands for gains exactly the new id.                     *)
LEMMA AddedIDs ==
  ASSUME NEW ids, IDSet(ids), NEW i \in Nat
  PROVE  /\ IDSet(Added(ids, i)) /\ Added(ids, i).cursor >= ids.cursor
         /\ \A j \in Nat : Contains(Added(ids, i), j) <=> Contains(ids, j) \/ j = i
         /\ ~Contains(ids, i) =>
               Added(ids, i).cursor + Cardinality(Added(ids, i).ahead) = ids.cursor + Cardinality(ids.ahead) + 1
<1> DEFINE A == ids.ahead \cup {i}
           N == Cardinality(A)
           C == {c \in ids.cursor .. (ids.cursor + N) : c \notin A}
           top == Min(C)
           rest == {a \in A : a > top}
<1>1. ids.cursor \in Nat /\ ids.ahead \subseteq Nat /\ IsFiniteSet(ids.ahead) /\ \A a \in ids.ahead : a > ids.cursor
  BY DEF IDSet
<1>2. A \subseteq Nat /\ IsFiniteSet(A) /\ N \in Nat
  BY <1>1, FS_AddElement, FS_CardinalityType
<1>3. C /= {}
  <2> SUFFICES ASSUME C = {} PROVE FALSE
    OBVIOUS
  <2> DEFINE I == ids.cursor .. (ids.cursor + N)
  <2>1. I \subseteq A
    OBVIOUS
  <2>2. Cardinality(I) <= N
    BY <1>2, <2>1, FS_Subset
  <2>3. Cardinality(I) = N + 1
    <3> HIDE DEF N
    <3>1. Cardinality(I) = IF ids.cursor > ids.cursor + N THEN 0 ELSE (ids.cursor + N) - ids.cursor + 1
      <4>1. ids.cursor \in Int /\ ids.cursor + N \in Int
        BY <1>1, <1>2
      <4> QED
        BY <4>1, FS_Interval, Zenon
    <3> QED
      BY <1>1, <1>2, <3>1
  <2> HIDE DEF I, N
  <2> QED
    BY <1>2, <2>2, <2>3
<1>4. C \subseteq Nat
  BY <1>1, <1>2
<1>5. top \in C /\ \A c \in C : top <= c
  <2>1. \E n \in C : \A m \in C : n <= m
    BY <1>3, <1>4, LeastNumber
  <2> HIDE DEF C
  <2> QED
    BY <2>1 DEF Min
<1> HIDE DEF top
<1>6. top \in Nat /\ top >= ids.cursor /\ top \notin A /\ top <= ids.cursor + N
  <2> HIDE DEF A, N
  <2> QED
    BY <1>1, <1>2, <1>5
<1>7. \A c \in ids.cursor .. (top - 1) : c \in A
  <2> SUFFICES ASSUME NEW c \in ids.cursor .. (top - 1), c \notin A PROVE FALSE
    OBVIOUS
  <2> HIDE DEF A, N
  <2>1. c \in C
    BY <1>1, <1>2, <1>6
  <2> HIDE DEF C
  <2> QED
    BY <1>1, <1>5, <1>6, <2>1
<1>8. Added(ids, i) = [cursor |-> top, ahead |-> rest]
  BY DEF Added, top
<1>9. IDSet(Added(ids, i)) /\ Added(ids, i).cursor >= ids.cursor
  <2>1. rest \subseteq Nat /\ IsFiniteSet(rest)
    <3> HIDE DEF A
    <3> QED
      BY <1>2, FS_Subset
  <2> QED
    BY <1>6, <1>8, <2>1 DEF IDSet
<1>10. ASSUME NEW j \in Nat PROVE Contains(Added(ids, i), j) <=> Contains(ids, j) \/ j = i
  <2>1. Contains(Added(ids, i), j) <=> j < top \/ j \in rest
    BY <1>8 DEF Contains
  <2>2. Contains(ids, j) \/ j = i <=> j < ids.cursor \/ j \in A
    BY DEF Contains
  <2> HIDE DEF A
  <2>3. j < top => j < ids.cursor \/ j \in A
    BY <1>1, <1>6, <1>7
  <2>4. j \in A => j < top \/ j \in rest
    BY <1>2, <1>6
  <2>5. j < ids.cursor => j < top
    BY <1>1, <1>6
  <2> QED
    BY <2>1, <2>2, <2>3, <2>4, <2>5
<1>11. ASSUME ~Contains(ids, i)
       PROVE  Added(ids, i).cursor + Cardinality(Added(ids, i).ahead) = ids.cursor + Cardinality(ids.ahead) + 1
  <2> DEFINE I == ids.cursor .. (top - 1)
  <2>1. i \notin ids.ahead /\ i >= ids.cursor
    BY <1>1, <1>11 DEF Contains
  <2>2. N = Cardinality(ids.ahead) + 1 /\ Cardinality(ids.ahead) \in Nat
    BY <1>1, <2>1, FS_AddElement, FS_CardinalityType
  <2>3. A = I \cup rest /\ I \cap rest = {}
    <3>1. \A a \in A : a \in Nat /\ a >= ids.cursor /\ a /= top
      BY <1>1, <1>6, <2>1
    <3> HIDE DEF A
    <3> QED
      BY <1>1, <1>6, <1>7, <3>1
  <2>4. IsFiniteSet(I) /\ Cardinality(I) = top - ids.cursor
    <3>1. IsFiniteSet(I) /\ Cardinality(I) = IF ids.cursor > top - 1 THEN 0 ELSE (top - 1) - ids.cursor + 1
      <4>1. ids.cursor \in Int /\ top - 1 \in Int
        BY <1>1, <1>6
      <4> QED
        BY <4>1, FS_Interval, Zenon
    <3> QED
      BY <1>1, <1>6, <3>1
  <2>5. IsFiniteSet(rest)
    <3> HIDE DEF A
    <3> QED
      BY <1>2, FS_Subset
  <2> HIDE DEF rest, A, I
  <2>6. Cardinality(rest) \in Nat
    BY <2>5, FS_CardinalityType
  <2>7. Cardinality(A) = Cardinality(I) + Cardinality(rest)
    <3>1. Cardinality(I \cup rest) = Cardinality(I) + Cardinality(rest) - Cardinality(I \cap rest)
      BY <2>4, <2>5, FS_Union
    <3>2. Cardinality(I \cap rest) = 0
      BY <2>3, FS_EmptySet
    <3> QED
      BY <1>1, <1>6, <2>3, <2>4, <2>6, <3>1, <3>2
  <2>8. Added(ids, i).cursor = top /\ Added(ids, i).ahead = rest
    BY <1>8
  <2>9. top + Cardinality(rest) = ids.cursor + N
    BY <1>1, <1>2, <1>6, <2>4, <2>6, <2>7
  <2> QED
    BY <1>1, <2>2, <2>8, <2>9
<1> QED
  BY <1>9, <1>10, <1>11

(* The parts of the state that a step leaves alone. *)
LEMMA ParentsSame ==
  ASSUME ParentsCut, log'.works = log.works, openDispatches' = openDispatches, dispatchDone' = dispatchDone
  PROVE  ParentsCut'
<1>1. \A p : WorksOf(p)' = WorksOf(p)
  BY DEF WorksOf
<1>2. \A p : Cover(p)' = Cover(p)
  BY <1>1 DEF Cover
<1> QED
  BY <1>1, <1>2 DEF ParentsCut

LEMMA CallsSame ==
  ASSUME CallsTracked, log'.works = log.works, log'.required = log.required,
         calls'.active = calls.active, calls'.done = calls.done, calls'.count = calls.count
  PROVE  CallsTracked'
BY DEF CallsTracked

LEMMA PhasesSeen ==
  ASSUME PhasesTracked, NEW op \in Nat, Accepts(op), phaseCount \in Nat, log'.phase = Put(log.phase, op, phaseCount),
         DOMAIN pending' = DOMAIN pending \cup {op}, phaseCount' = phaseCount, operationDone' = operationDone,
         completed' = completed, traceEnded' = traceEnded
  PROVE  PhasesTracked'
<1>1. /\ DOMAIN log'.phase = DOMAIN log.phase \cup {op} /\ log'.phase[op] = phaseCount
      /\ \A x \in DOMAIN log.phase : x /= op => log'.phase[x] = log.phase[x]
  BY DEF Put
<1>2. \A x : Done(x)' = Done(x)
  BY DEF Done
<1>3. ~traceEnded
  BY DEF Accepts
<1> QED
  BY <1>1, <1>2, <1>3 DEF PhasesTracked

LEMMA LogSeen ==
  ASSUME TraceTypes, NEW op
  PROVE  Seen(op) = [works |-> log.works, required |-> log.required, phase |-> Put(log.phase, op, phaseCount)]
BY DEF Seen, TraceTypes

LEMMA OperationNat == OperationIds \subseteq Nat /\ Parents \subseteq Nat
BY TraceConstants

(***************************************************************************)
(* Calls.stage                                                             *)
(***************************************************************************)
LEMMA StageKeeps ==
  ASSUME TraceInv, NEW id, NEW found \in CallRecord, NEW parent \in Parents \cup {None}, NEW stage \in StageNames,
         NEW required \in SUBSET Nat, Stage(id, found, parent, stage, required),
         \/ id \in DOMAIN calls.active /\ found = calls.active[id]
         \/ id = calls.count /\ stage /= "CONTINUATION"
  PROVE  TraceInv'
<1> DEFINE op == found.op
           call == [found EXCEPT !.parent = IF @ = None THEN parent ELSE @,
                                 !.stages = Append(@, stage), !.required = @ \cup required]
<1>1. /\ call \in CallRecord /\ call.op = op /\ call.kind = found.kind /\ call.works = found.works /\ op \in OperationIds
  <2> DEFINE p == IF found.parent = None THEN parent ELSE found.parent
             s == Append(found.stages, stage)
             q == found.required \cup required
  <2>1. /\ found.parent \in Parents \cup {None} /\ found.stages \in Seq(StageNames) /\ found.required \in SUBSET Nat
        /\ found.op \in OperationIds
    BY DEF CallRecord
  <2>2. p \in Parents \cup {None}
    BY <2>1
  <2>3. s \in Seq(StageNames)
    BY <2>1
  <2>4. q \in SUBSET Nat
    BY <2>1
  <2>5. call = [found EXCEPT !.parent = p, !.stages = s, !.required = q]
    OBVIOUS
  <2> HIDE DEF p, s, q, call
  <2>6. call \in CallRecord /\ call.op = found.op /\ call.kind = found.kind /\ call.works = found.works
    BY <2>2, <2>3, <2>4, <2>5 DEF CallRecord
  <2> QED
    BY <2>1, <2>6
<1>2. /\ calls' = [calls EXCEPT
            !.active = IF stage = "CONTINUATION" THEN Drop(@, {id}) ELSE Put(@, id, call),
            !.done = IF stage = "CONTINUATION" THEN Added(@, id) ELSE @,
            !.count = IF id = @ THEN @ + 1 ELSE @,
            !.callOp = Put(@, id, op),
            !.parentOp = IF parent = None THEN @ ELSE Put(@, parent, op),
            !.declared = @ \ {parent}]
      /\ Accepts(op) /\ log' = [Seen(op) EXCEPT !.required = Put(@, id, call.required)]
      /\ pending' = Put(pending, op, Live(op)) /\ (stage = "CONTINUATION" => ContinuationOK(call))
      /\ UNCHANGED <<phaseCount, openDispatches, dispatchDone, operationDone, hosts, completed, traceEnded>>
  BY DEF Stage
<1> HIDE DEF call, op
<1>3. TraceTypes /\ ParentsCut /\ OpenIsLive /\ CallsTracked /\ PhasesTracked
  BY DEF TraceInv
<1>4. /\ calls' = [active |-> calls'.active, done |-> calls'.done, count |-> calls'.count, workOp |-> calls'.workOp,
                callOp |-> calls'.callOp, parentOp |-> calls'.parentOp, declared |-> calls'.declared]
      /\ calls'.active = IF stage = "CONTINUATION" THEN Drop(calls.active, {id}) ELSE Put(calls.active, id, call)
      /\ calls'.done = IF stage = "CONTINUATION" THEN Added(calls.done, id) ELSE calls.done
      /\ calls'.count = IF id = calls.count THEN calls.count + 1 ELSE calls.count
      /\ calls'.workOp = calls.workOp
  BY <1>2, <1>3 DEF TraceTypes
<1>5. log' = [works |-> log.works, required |-> Put(log.required, id, call.required), phase |-> Put(log.phase, op, phaseCount)]
  BY <1>2, <1>3, LogSeen
<1>6. id \in Nat /\ id < calls'.count /\ calls'.count \in Nat /\ calls'.count >= calls.count /\ calls.count \in Nat
  BY <1>3, <1>4 DEF TraceTypes, CallsTracked
<1>7. \A x : Done(x)' = Done(x)
  BY <1>2 DEF Done
<1>8. ~Done(op)
  BY <1>2 DEF Accepts, Done
<1>9. /\ \A c \in DOMAIN calls'.active :
            \/ c = id /\ calls'.active[c] = call /\ stage /= "CONTINUATION"
            \/ c /= id /\ c \in DOMAIN calls.active /\ calls'.active[c] = calls.active[c]
      /\ \A c \in DOMAIN calls.active : c /= id => c \in DOMAIN calls'.active
      /\ stage /= "CONTINUATION" => id \in DOMAIN calls'.active
  <2>1. CASE stage = "CONTINUATION"
    <3>1. calls'.active = Drop(calls.active, {id})
      BY <1>4, <2>1
    <3> QED
      BY <2>1, <3>1 DEF Drop
  <2>2. CASE stage /= "CONTINUATION"
    <3>1. calls'.active = Put(calls.active, id, call)
      BY <1>4, <2>2
    <3> QED
      <4>1. DOMAIN calls'.active = DOMAIN calls.active \cup {id} /\ calls'.active[id] = call
        BY <3>1 DEF Put
      <4>2. \A x \in DOMAIN calls.active : x /= id => calls'.active[x] = calls.active[x]
        BY <3>1 DEF Put
      <4> QED
        BY <2>2, <4>1, <4>2
  <2> QED
    BY <2>1, <2>2
<1>10. TraceTypes'
  <2>1. IDSet(calls'.done)
    <3>1. IDSet(calls.done)
      BY <1>3 DEF TraceTypes
    <3>2. IDSet(Added(calls.done, id))
      BY <1>6, <3>1, AddedIDs
    <3> QED
      BY <1>4, <3>1, <3>2
  <2>2. \A c \in DOMAIN calls'.active : calls'.active[c] \in CallRecord
    BY <1>1, <1>3, <1>9 DEF TraceTypes
  <2>3. /\ log' = [works |-> log'.works, required |-> log'.required, phase |-> log'.phase] /\ log'.works = log.works
    BY <1>5
  <2> QED
    BY <1>2, <1>3, <1>4, <1>6, <2>1, <2>2, <2>3 DEF TraceTypes
<1>11. ParentsCut'
  BY <1>2, <1>3, <1>5, ParentsSame
<1>12. OpenIsLive'
  BY <1>1, <1>2, <1>3, <1>7, <1>8, <1>9 DEF OpenIsLive
<1>13. PhasesTracked'
  <2>1. DOMAIN pending' = DOMAIN pending \cup {op}
    BY <1>2, PutIn
  <2> QED
    BY <1>1, <1>2, <1>3, <1>5, <2>1, OperationNat, PhasesSeen DEF TraceTypes
<1>14. CallsTracked'
  <2>1. /\ DOMAIN log'.required = DOMAIN log.required \cup {id} /\ log'.required[id] = call.required
        /\ \A x \in DOMAIN log.required : x /= id => log'.required[x] = log.required[x]
        /\ log'.works = log.works
    BY <1>5 DEF Put
  <2>2. ~Contains(calls.done, id)
    BY <1>3, <1>6 DEF CallsTracked
  <2>3. \A c \in Nat : Contains(calls'.done, c) <=> Contains(calls.done, c) \/ (stage = "CONTINUATION" /\ c = id)
    <3>1. IDSet(calls.done)
      BY <1>3 DEF TraceTypes
    <3>2. \A c \in Nat : Contains(Added(calls.done, id), c) <=> Contains(calls.done, c) \/ c = id
      BY <1>6, <3>1, AddedIDs
    <3>3. CASE stage = "CONTINUATION"
      BY <1>4, <3>2, <3>3
    <3>4. CASE stage /= "CONTINUATION"
      BY <1>4, <3>4
    <3> QED
      BY <3>3, <3>4
  <2>4. \A c \in DOMAIN calls'.active : c \in 0 .. (calls'.count - 1) /\ ~Contains(calls'.done, c)
    <3> SUFFICES ASSUME NEW c \in DOMAIN calls'.active PROVE c \in 0 .. (calls'.count - 1) /\ ~Contains(calls'.done, c)
      OBVIOUS
    <3>1. CASE c = id
      BY <1>6, <1>9, <2>2, <2>3, <3>1
    <3>2. CASE c /= id
      <4>1. c \in DOMAIN calls.active
        BY <1>9, <3>2
      <4>2. c \in 0 .. (calls.count - 1) /\ ~Contains(calls.done, c)
        BY <1>3, <4>1 DEF CallsTracked
      <4> QED
        BY <1>6, <2>3, <3>2, <4>2
    <3> QED
      BY <3>1, <3>2
  <2>5. \A c \in DOMAIN calls'.active : c \in DOMAIN log'.required /\ log'.required[c] = calls'.active[c].required
    BY <1>3, <1>9, <2>1 DEF CallsTracked
  <2>6. \A c \in Nat : Contains(calls'.done, c) => c < calls'.count
    BY <1>3, <1>6, <2>3 DEF CallsTracked
  <2>7. ASSUME NEW n \in DOMAIN log.works
        PROVE  LET c == log.works[n].call IN
               /\ c < calls'.count /\ c \in DOMAIN log'.required
               /\ IF c \in DOMAIN calls'.active
                  THEN calls'.active[c].op = log.works[n].op /\ calls'.active[c].kind \in Owning /\ calls'.active[c].works = {n - 1}
                  ELSE Contains(calls'.done, c) /\ n - 1 \in log'.required[c]
    <3>1. log.works[n] \in WorkRecord
      BY <1>3 DEF TraceTypes
    <3>2. PICK c \in Nat : c = log.works[n].call
      BY <3>1 DEF WorkRecord
    <3>3. /\ c < calls.count /\ c \in DOMAIN log.required
          /\ IF c \in DOMAIN calls.active
             THEN calls.active[c].op = log.works[n].op /\ calls.active[c].kind \in Owning /\ calls.active[c].works = {n - 1}
             ELSE Contains(calls.done, c) /\ n - 1 \in log.required[c]
      BY <1>3, <3>2 DEF CallsTracked
    <3>4. c < calls'.count /\ c \in DOMAIN log'.required
      BY <1>6, <2>1, <3>3
    <3>5. CASE c /= id
      BY <1>9, <2>1, <2>3, <3>2, <3>3, <3>4, <3>5
    <3>6. CASE c = id
      <4>1. id \in DOMAIN calls.active /\ found = calls.active[id]
        BY <1>6, <3>3, <3>6
      <4>2. call.op = log.works[n].op /\ call.kind \in Owning /\ call.works = {n - 1}
        BY <1>1, <3>3, <3>6, <4>1 DEF op
      <4>3. CASE stage /= "CONTINUATION"
        BY <1>9, <3>2, <3>4, <3>6, <4>2, <4>3
      <4>4. CASE stage = "CONTINUATION"
        <5>1. n - 1 \in call.required
          BY <1>2, <4>2, <4>4 DEF ContinuationOK
        <5> QED
          BY <1>9, <2>1, <2>3, <3>2, <3>4, <3>6, <4>4, <5>1
      <4> QED
        BY <4>3, <4>4
    <3> QED
      BY <3>5, <3>6
  <2>8. \A m, n \in DOMAIN log.works : log.works[m].call = log.works[n].call => m = n
    BY <1>3 DEF CallsTracked
  <2> QED
    BY <2>1, <2>4, <2>5, <2>6, <2>7, <2>8 DEF CallsTracked
<1> QED
  BY <1>10, <1>11, <1>12, <1>13, <1>14 DEF TraceInv

(* A call that is not active is the next one, at PREPARE. *)
LEMMA CallKeeps == ASSUME TraceInv, Call PROVE TraceInv'
<1>1. \A s \in Range(Order) : s \in StageNames
  <2>1. DOMAIN Order = 1 .. 6 /\ \A x \in 1 .. 6 : Order[x] \in StageNames
    <3>1. DOMAIN Order = 1 .. 6
      BY DEF Order
    <3>2. \A x \in 1 .. 6 : x = 1 \/ x = 2 \/ x = 3 \/ x = 4 \/ x = 5 \/ x = 6
      OBVIOUS
    <3>3. /\ Order[1] \in StageNames /\ Order[2] \in StageNames /\ Order[3] \in StageNames
          /\ Order[4] \in StageNames /\ Order[5] \in StageNames /\ Order[6] \in StageNames
      BY DEF Order, StageNames
    <3> QED
      BY <3>1, <3>2, <3>3
  <2> HIDE DEF Order
  <2> QED
    BY <2>1 DEF Range
<1>2. ASSUME NEW op \in OperationIds, NEW kind \in Kinds, NEW parent \in Parents \cup {None},
             Stage(calls.count, NewCall(op, parent, kind), parent, "PREPARE", {})
      PROVE  TraceInv'
  <2>1. NewCall(op, parent, kind) \in CallRecord
    BY DEF NewCall, CallRecord
  <2>2. "PREPARE" \in StageNames /\ "PREPARE" /= "CONTINUATION" /\ {} \in SUBSET Nat
    BY DEF StageNames
  <2>3. PICK found \in CallRecord : found = NewCall(op, parent, kind)
    BY <2>1
  <2>4. PICK stage \in StageNames : stage = "PREPARE"
    BY <2>2
  <2>5. Stage(calls.count, found, parent, stage, {}) /\ stage /= "CONTINUATION"
    BY <1>2, <2>2, <2>3, <2>4
  <2> QED
    BY <2>2, <2>5, StageKeeps
<1>3. ASSUME NEW id \in DOMAIN calls.active, NEW stage \in Range(Order), NEW parent \in Parents \cup {None},
             NEW required \in IF stage = "COMPLETE_REQUIRED" THEN SUBSET DOMAIN calls.workOp ELSE {{}},
             Stage(id, calls.active[id], parent, stage, required)
      PROVE  TraceInv'
  <2>1. calls.active[id] \in CallRecord /\ DOMAIN calls.workOp \subseteq Nat
    BY DEF TraceInv, TraceTypes
  <2>2. required \in SUBSET Nat
    BY <2>1
  <2> QED
    BY <1>1, <1>3, <2>1, <2>2, StageKeeps
<1> QED
  BY <1>2, <1>3 DEF Call

(***************************************************************************)
(* TraceState.work                                                         *)
(***************************************************************************)
(* The new work extends the cover of its parent and of no other.           *)
LEMMA WorkAppended ==
  ASSUME NEW N \in Nat, Len(log.works) = N, log.works \in Seq(WorkRecord), NEW w \in WorkRecord,
         log'.works = Append(log.works, w)
  PROVE  /\ log'.works \in Seq(WorkRecord) /\ DOMAIN log'.works = 1 .. (N + 1) /\ DOMAIN log.works = 1 .. N
         /\ log'.works[N + 1] = w /\ \A n \in 1 .. N : log'.works[n] = log.works[n]
         /\ \A p : p /= w.parent => WorksOf(p)' = WorksOf(p) /\ Cover(p)' = Cover(p)
         /\ WorksOf(w.parent)' = WorksOf(w.parent) \cup {N + 1}
         /\ Cover(w.parent)' = Cover(w.parent) \cup RowsOf(w)
<1>1. /\ log'.works \in Seq(WorkRecord) /\ DOMAIN log'.works = 1 .. (N + 1) /\ DOMAIN log.works = 1 .. N
      /\ log'.works[N + 1] = w /\ \A n \in 1 .. N : log'.works[n] = log.works[n]
  OBVIOUS
<1>2. \A p : WorksOf(p)' = {n \in 1 .. (N + 1) : log'.works[n].parent = p} /\ WorksOf(p) = {n \in 1 .. N : log.works[n].parent = p}
  BY <1>1 DEF WorksOf
<1>3. \A p : p /= w.parent => WorksOf(p)' = WorksOf(p)
  <2> SUFFICES ASSUME NEW p, p /= w.parent PROVE WorksOf(p)' = WorksOf(p)
    OBVIOUS
  <2>1. \A n \in 1 .. (N + 1) : n \in 1 .. N \/ n = N + 1
    OBVIOUS
  <2>2. \A n : n \in WorksOf(p)' <=> n \in WorksOf(p)
    <3>1. ASSUME NEW n \in WorksOf(p)' PROVE n \in WorksOf(p)
      BY <1>1, <1>2, <2>1
    <3>2. ASSUME NEW n \in WorksOf(p) PROVE n \in WorksOf(p)'
      <4>1. n \in 1 .. N /\ n \in 1 .. (N + 1) /\ log.works[n].parent = p
        BY <1>2
      <4> QED
        BY <1>1, <1>2, <4>1
    <3> QED
      BY <3>1, <3>2
  <2>3. WorksOf(p)' \subseteq WorksOf(p) /\ WorksOf(p) \subseteq WorksOf(p)'
    BY <2>2, Zenon
  <2> QED
    BY <2>3, Zenon
<1>4. WorksOf(w.parent)' = WorksOf(w.parent) \cup {N + 1}
  <2>1. \A n \in 1 .. (N + 1) : n \in 1 .. N \/ n = N + 1
    OBVIOUS
  <2> QED
    BY <1>1, <1>2, <2>1
<1>5. \A p : WorksOf(p) \subseteq 1 .. N
  BY <1>2
<1>6. \A p : Cover(p)' = UNION {RowsOf(log'.works[j]) : j \in WorksOf(p)'}
  BY DEF Cover
<1>7. \A p : p /= w.parent => Cover(p)' = Cover(p)
  <2> SUFFICES ASSUME NEW p, p /= w.parent PROVE Cover(p)' = Cover(p)
    OBVIOUS
  <2>1. \A j \in WorksOf(p) : RowsOf(log'.works[j]) = RowsOf(log.works[j])
    BY <1>1, <1>5
  <2>2. {RowsOf(log'.works[j]) : j \in WorksOf(p)} = {RowsOf(log.works[j]) : j \in WorksOf(p)}
    BY <2>1
  <2>3. Cover(p)' = UNION {RowsOf(log'.works[j]) : j \in WorksOf(p)}
    BY <1>3, <1>6
  <2> QED
    BY <2>2, <2>3 DEF Cover
<1>8. Cover(w.parent)' = Cover(w.parent) \cup RowsOf(w)
  <2>1. \A j \in WorksOf(w.parent) : RowsOf(log'.works[j]) = RowsOf(log.works[j])
    BY <1>1, <1>5
  <2>2. Cover(w.parent)' = UNION {RowsOf(log'.works[j]) : j \in WorksOf(w.parent) \cup {N + 1}}
    BY <1>4, <1>6
  <2>3. RowsOf(log'.works[N + 1]) = RowsOf(w)
    BY <1>1
  <2> QED
    BY <2>1, <2>2, <2>3, ZenonT(60) DEF Cover
<1> QED
  BY <1>1, <1>3, <1>4, <1>7, <1>8

LEMMA RowsJoin ==
  ASSUME NEW r \in Nat, NEW c \in Nat
  PROVE  (0 .. (r - 1)) \cup (r .. (r + c - 1)) = 0 .. ((r + c) - 1)
OBVIOUS

LEMMA WorkKeepsParents ==
  ASSUME NEW N \in Nat, Len(log.works) = N, TraceTypes, ParentsCut, NEW w \in WorkRecord, log'.works = Append(log.works, w),
         WorkWellFormed(w), ~Contains(dispatchDone, w.parent),
         NEW dispatch \in [first : WorkRecord, row : Nat],
         dispatch = IF w.parent \in DOMAIN openDispatches THEN openDispatches[w.parent] ELSE [first |-> w, row |-> 0],
         StripeFollows(dispatch, w),
         IF dispatch.row + w.count = w.rows
         THEN /\ openDispatches' = Drop(openDispatches, {w.parent})
              /\ dispatchDone' = Added(dispatchDone, w.parent)
         ELSE /\ openDispatches' = Put(openDispatches, w.parent, [dispatch EXCEPT !.row = @ + w.count])
              /\ UNCHANGED dispatchDone
  PROVE  ParentsCut'
<1>1. /\ w.parent \in Parents /\ w.parent \in Nat /\ w.rows \in Nat /\ w.begin \in Nat /\ w.count \in Nat
  BY OperationNat DEF WorkRecord
<1>2. /\ w.op = dispatch.first.op /\ w.rows = dispatch.first.rows /\ w.begin = dispatch.row /\ dispatch.row \in Nat
  BY DEF StripeFollows
<1>3. /\ \A n \in 1 .. N : log'.works[n] = log.works[n]
      /\ log'.works[N + 1] = w
      /\ \A p : p /= w.parent => WorksOf(p)' = WorksOf(p) /\ Cover(p)' = Cover(p)
      /\ WorksOf(w.parent)' = WorksOf(w.parent) \cup {N + 1}
      /\ Cover(w.parent)' = Cover(w.parent) \cup RowsOf(w)
  BY WorkAppended DEF TraceTypes
<1>4. \A p : WorksOf(p) \subseteq 1 .. N
  BY DEF WorksOf, TraceTypes
<1>5. \A n \in 1 .. N : log.works[n].begin \in Nat /\ log.works[n].count \in Nat
  <2>1. \A n \in 1 .. N : log.works[n] \in WorkRecord
    BY DEF TraceTypes
  <2> QED
    BY <2>1 DEF WorkRecord
(* The parent is as its cursor says. *)
<1>6. /\ Cover(w.parent) = 0 .. (dispatch.row - 1)
      /\ \A i \in WorksOf(w.parent) :
            /\ log.works[i].op = w.op /\ log.works[i].rows = w.rows
            /\ log.works[i].begin + log.works[i].count <= w.begin
  <2>1. CASE w.parent \in DOMAIN openDispatches
    BY <1>1, <1>2, <2>1 DEF ParentsCut
  <2>2. CASE w.parent \notin DOMAIN openDispatches
    <3>1. WorksOf(w.parent) = {}
      BY <1>1, <2>2 DEF ParentsCut
    <3>2. dispatch.row = 0 /\ Cover(w.parent) = {}
      BY <2>2, <3>1 DEF Cover
    <3> QED
      BY <3>1, <3>2
  <2> QED
    BY <2>1, <2>2
<1>7. Cover(w.parent)' = 0 .. ((dispatch.row + w.count) - 1)
  <2>1. RowsOf(w) = dispatch.row .. (dispatch.row + w.count - 1)
    BY <1>2 DEF RowsOf
  <2> QED
    <3>1. (0 .. (dispatch.row - 1)) \cup (dispatch.row .. (dispatch.row + w.count - 1)) = 0 .. ((dispatch.row + w.count) - 1)
      BY <1>1, <1>2, RowsJoin
    <3> QED
      BY <1>3, <1>6, <2>1, <3>1
<1>8. \A i \in WorksOf(w.parent)' : log'.works[i].op = w.op /\ log'.works[i].rows = w.rows
  BY <1>3, <1>4, <1>6
<1>9. ASSUME NEW i \in WorksOf(w.parent)', NEW j \in WorksOf(w.parent)', i < j
      PROVE  log'.works[i].begin + log'.works[i].count <= log'.works[j].begin
  <2>1. i \in WorksOf(w.parent) /\ log'.works[i] = log.works[i]
    BY <1>3, <1>4, <1>9
  <2>2. CASE j = N + 1
    BY <1>3, <1>6, <2>1, <2>2
  <2>3. CASE j \in WorksOf(w.parent)
    <3>1. log'.works[j] = log.works[j]
      BY <1>3, <1>4, <2>3
    <3>2. log.works[i].begin + log.works[i].count <= log.works[j].begin
      BY <1>1, <1>9, <2>1, <2>3 DEF ParentsCut
    <3> QED
      BY <2>1, <3>1, <3>2
  <2> QED
    BY <1>3, <2>2, <2>3
<1>10. \A i \in WorksOf(w.parent)' : log'.works[i].begin + log'.works[i].count <= dispatch.row + w.count
  <2> SUFFICES ASSUME NEW i \in WorksOf(w.parent)'
               PROVE  log'.works[i].begin + log'.works[i].count <= dispatch.row + w.count
    OBVIOUS
  <2>1. CASE i = N + 1
    BY <1>1, <1>2, <1>3, <2>1
  <2>2. CASE i \in WorksOf(w.parent)
    <3>1. /\ log'.works[i] = log.works[i] /\ log.works[i].begin + log.works[i].count <= dispatch.row
          /\ log.works[i].begin \in Nat /\ log.works[i].count \in Nat
      BY <1>2, <1>3, <1>4, <1>5, <1>6, <2>2
    <3>2. \A a, b, c, d \in Nat : a + b <= c => a + b <= c + d
      OBVIOUS
    <3>3. log.works[i].begin + log.works[i].count <= dispatch.row + w.count
      BY ONLY <1>1, <1>2, <3>1, <3>2
    <3> QED
      BY <3>1, <3>3
  <2> QED
    BY <1>3, <2>1, <2>2
<1>11. IDSet(dispatchDone)
  BY DEF TraceTypes
<1>12. \A p \in Nat : p /= w.parent => Contains(dispatchDone', p) = Contains(dispatchDone, p)
  <2>1. \A p \in Nat : Contains(Added(dispatchDone, w.parent), p) <=> Contains(dispatchDone, p) \/ p = w.parent
    BY <1>1, <1>11, AddedIDs
  <2>2. dispatchDone' = dispatchDone \/ dispatchDone' = Added(dispatchDone, w.parent)
    OBVIOUS
  <2> QED
    BY <2>1, <2>2 DEF Contains
<1>13. /\ \A p : p /= w.parent => (p \in DOMAIN openDispatches' <=> p \in DOMAIN openDispatches)
       /\ \A p \in DOMAIN openDispatches : p /= w.parent => openDispatches'[p] = openDispatches[p]
  <2>1. CASE openDispatches' = Drop(openDispatches, {w.parent})
    BY <2>1 DEF Drop
  <2>2. CASE openDispatches' = Put(openDispatches, w.parent, [dispatch EXCEPT !.row = @ + w.count])
    BY <2>2 DEF Put
  <2> QED
    BY <2>1, <2>2
<1> DEFINE Cut(p) ==
        /\ \A i, j \in WorksOf(p) :
              /\ log.works[i].op = log.works[j].op /\ log.works[i].rows = log.works[j].rows
              /\ i < j => log.works[i].begin + log.works[i].count <= log.works[j].begin
        /\ p \in DOMAIN openDispatches =>
              /\ Cover(p) = 0 .. (openDispatches[p].row - 1)
              /\ \A i \in WorksOf(p) :
                    /\ log.works[i].op = openDispatches[p].first.op /\ log.works[i].rows = openDispatches[p].first.rows
                    /\ log.works[i].begin + log.works[i].count <= openDispatches[p].row
        /\ Contains(dispatchDone, p) => \A i \in WorksOf(p) : Cover(p) = 0 .. (log.works[i].rows - 1)
        /\ p \in DOMAIN openDispatches \/ Contains(dispatchDone, p) \/ WorksOf(p) = {}
<1>14. ASSUME NEW p \in Parents, p /= w.parent PROVE Cut(p)'
  <2>1. Cut(p) /\ p \in Nat
    BY OperationNat DEF ParentsCut
  <2>2. \A i \in WorksOf(p) : log'.works[i] = log.works[i]
    BY <1>3, <1>4
  <2>3. /\ WorksOf(p)' = WorksOf(p) /\ Cover(p)' = Cover(p) /\ Contains(dispatchDone, p)' = Contains(dispatchDone, p)
    BY <1>3, <1>12, <1>14, <2>1
  <2>4. \A i, j \in WorksOf(p)' :
           /\ log'.works[i].op = log'.works[j].op /\ log'.works[i].rows = log'.works[j].rows
           /\ i < j => log'.works[i].begin + log'.works[i].count <= log'.works[j].begin
    <3> SUFFICES ASSUME NEW i \in WorksOf(p), NEW j \in WorksOf(p)
                 PROVE  /\ log'.works[i].op = log'.works[j].op /\ log'.works[i].rows = log'.works[j].rows
                        /\ i < j => log'.works[i].begin + log'.works[i].count <= log'.works[j].begin
      BY <2>3
    <3>1. /\ log.works[i].op = log.works[j].op /\ log.works[i].rows = log.works[j].rows
          /\ i < j => log.works[i].begin + log.works[i].count <= log.works[j].begin
      BY <2>1
    <3> QED
      BY <2>2, <3>1
  <2>5. p \in DOMAIN openDispatches' =>
          /\ Cover(p)' = 0 .. (openDispatches'[p].row - 1)
          /\ \A i \in WorksOf(p)' :
                /\ log'.works[i].op = openDispatches'[p].first.op /\ log'.works[i].rows = openDispatches'[p].first.rows
                /\ log'.works[i].begin + log'.works[i].count <= openDispatches'[p].row
    BY <1>13, <1>14, <2>1, <2>2, <2>3, ZenonT(60)
  <2>6. Contains(dispatchDone, p)' => \A i \in WorksOf(p)' : Cover(p)' = 0 .. (log'.works[i].rows - 1)
    BY <2>1, <2>2, <2>3
  <2>7. p \in DOMAIN openDispatches' \/ Contains(dispatchDone, p)' \/ WorksOf(p)' = {}
    BY <1>13, <1>14, <2>1, <2>3
  <2> QED
    BY <2>4, <2>5, <2>6, <2>7
<1>15. Cut(w.parent)'
  <2>1. \A i, j \in WorksOf(w.parent)' :
           /\ log'.works[i].op = log'.works[j].op /\ log'.works[i].rows = log'.works[j].rows
           /\ i < j => log'.works[i].begin + log'.works[i].count <= log'.works[j].begin
    BY <1>8, <1>9
  <2>2. CASE dispatch.row + w.count = w.rows
    <3>1. openDispatches' = Drop(openDispatches, {w.parent}) /\ dispatchDone' = Added(dispatchDone, w.parent)
      BY <2>2
    <3>2. w.parent \notin DOMAIN openDispatches'
      BY <3>1 DEF Drop
    <3>3. Contains(dispatchDone', w.parent)
      BY <1>1, <1>11, <3>1, AddedIDs
    <3>4. \A i \in WorksOf(w.parent)' : Cover(w.parent)' = 0 .. (log'.works[i].rows - 1)
      BY <1>7, <1>8, <2>2
    <3> QED
      BY <2>1, <3>2, <3>3, <3>4
  <2>3. CASE dispatch.row + w.count /= w.rows
    <3>1. openDispatches' = Put(openDispatches, w.parent, [dispatch EXCEPT !.row = @ + w.count]) /\ dispatchDone' = dispatchDone
      BY <2>3
    <3>2. w.parent \in DOMAIN openDispatches' /\ openDispatches'[w.parent] = [dispatch EXCEPT !.row = @ + w.count]
      BY <3>1 DEF Put
    <3>3. openDispatches'[w.parent].row = dispatch.row + w.count /\ openDispatches'[w.parent].first = dispatch.first
      BY <3>2
    <3>4. ~Contains(dispatchDone, w.parent)'
      BY <3>1 DEF Contains
    <3> QED
      BY <1>2, <1>7, <1>8, <1>10, <2>1, <3>2, <3>3, <3>4, ZenonT(60)
  <2> QED
    BY <2>2, <2>3
<1>16. ASSUME NEW p \in Parents PROVE Cut(p)'
  BY <1>14, <1>15, ZenonT(60)
<1> QED
  BY <1>16 DEF ParentsCut

LEMMA WorkStepKeeps ==
  ASSUME TraceInv, NEW cid \in DOMAIN calls.active, NEW height \in 1 .. MaxRows, NEW count \in 1 .. MaxRows,
         NEW begin \in 0 .. MaxRows, NEW prepared, Work(cid, height, begin, count, prepared)
  PROVE  TraceInv'
<1> DEFINE id == Len(log.works)
           call == calls.active[cid]
           op == call.op
           w == [op |-> op, parent |-> call.parent, call |-> cid, scope |-> Scope[call.kind],
                 rows |-> height, begin |-> begin, count |-> count]
           dispatch == IF w.parent \in DOMAIN openDispatches THEN openDispatches[w.parent] ELSE [first |-> w, row |-> 0]
<1>1. TraceTypes /\ ParentsCut /\ OpenIsLive /\ CallsTracked /\ PhasesTracked
  BY DEF TraceInv
<1>2. call \in CallRecord /\ cid \in Nat /\ cid < calls.count /\ id \in Nat /\ calls.count \in Nat
  BY <1>1 DEF TraceTypes, CallsTracked
<1>3. call.kind \in Owning /\ call.parent \in Parents /\ call.works = {} /\ op \in OperationIds
  BY <1>2 DEF Work, TakesWork, CallRecord
<1>4. w \in WorkRecord
  <2>1. Scope[call.kind] \in {"full", "stripe", "residual_compact"}
    BY <1>3 DEF Scope, Owning
  <2>2. height \in Nat /\ begin \in Nat /\ count \in Nat
    BY TraceConstants
  <2> QED
    BY <1>2, <1>3, <2>1, <2>2 DEF WorkRecord
<1>5. /\ Accepts(op) /\ WorkWellFormed(w) /\ ~Contains(dispatchDone, w.parent) /\ StripeFollows(dispatch, w)
      /\ IF dispatch.row + w.count = w.rows
         THEN /\ openDispatches' = Drop(openDispatches, {w.parent})
              /\ dispatchDone' = Added(dispatchDone, w.parent)
         ELSE /\ openDispatches' = Put(openDispatches, w.parent, [dispatch EXCEPT !.row = @ + w.count])
              /\ UNCHANGED dispatchDone
  BY DEF Work
<1>6. \E shape : pending' = Put(pending, op, [works |-> Live(op).works + 1, shape |-> shape])
  BY DEF Work
<1>7. /\ calls' = [calls EXCEPT !.active[cid].works = {id}, !.workOp = Put(@, id, op)]
      /\ log' = [Seen(op) EXCEPT !.works = Append(@, w)]
      /\ UNCHANGED <<phaseCount, operationDone, hosts, completed, traceEnded>>
  BY DEF Work
<1>8. dispatch \in [first : WorkRecord, row : Nat]
  BY <1>1, <1>4 DEF TraceTypes
<1>9. w.op = op /\ w.parent = call.parent /\ w.call = cid
  OBVIOUS
<1> HIDE DEF w, dispatch
<1>10. log' = [works |-> Append(log.works, w), required |-> log.required, phase |-> Put(log.phase, op, phaseCount)]
  <2>1. Seen(op) = [works |-> log.works, required |-> log.required, phase |-> Put(log.phase, op, phaseCount)]
    BY <1>1, LogSeen
  <2> DEFINE s == Append(log.works, w)
  <2>2. Seen(op).works = log.works
    BY <2>1
  <2>3. log' = [Seen(op) EXCEPT !.works = s]
    BY <1>7, <2>2
  <2> HIDE DEF s, op
  <2>4. log' = [works |-> s, required |-> log.required, phase |-> Put(log.phase, op, phaseCount)]
    BY <2>1, <2>3
  <2> QED
    BY <2>4 DEF s
<1>11. /\ calls' = [active |-> calls'.active, done |-> calls'.done, count |-> calls'.count, workOp |-> calls'.workOp,
                callOp |-> calls'.callOp, parentOp |-> calls'.parentOp, declared |-> calls'.declared]
       /\ calls'.active = [calls.active EXCEPT ![cid] = [@ EXCEPT !.works = {id}]]
       /\ calls'.done = calls.done /\ calls'.count = calls.count /\ calls'.workOp = Put(calls.workOp, id, op)
  BY <1>1, <1>7 DEF TraceTypes
<1>12. /\ DOMAIN calls'.active = DOMAIN calls.active
       /\ \A c \in DOMAIN calls.active : c /= cid => calls'.active[c] = calls.active[c]
       /\ calls'.active[cid] = [call EXCEPT !.works = {id}]
  BY <1>11
<1> HIDE DEF call, op, id
<1>13. /\ calls'.active[cid] \in CallRecord /\ calls'.active[cid].works = {id} /\ calls'.active[cid].op = op
       /\ calls'.active[cid].kind = call.kind /\ calls'.active[cid].required = call.required
  BY <1>2, <1>12 DEF CallRecord, op
<1>14. /\ log'.works \in Seq(WorkRecord) /\ DOMAIN log'.works = 1 .. (id + 1) /\ DOMAIN log.works = 1 .. id
       /\ log'.works[id + 1] = w /\ \A n \in 1 .. id : log'.works[n] = log.works[n]
  <2>1. log'.works = Append(log.works, w) /\ log.works \in Seq(WorkRecord) /\ Len(log.works) = id
    BY <1>1, <1>10 DEF TraceTypes, id
  <2> QED
    BY <1>2, <1>4, <2>1, WorkAppended
<1>15. \A p \in DOMAIN openDispatches' :
          \/ p /= w.parent /\ p \in DOMAIN openDispatches /\ openDispatches'[p] = openDispatches[p]
          \/ openDispatches'[p] = [dispatch EXCEPT !.row = @ + w.count]
  <2>1. CASE openDispatches' = Drop(openDispatches, {w.parent})
    BY <2>1 DEF Drop
  <2>2. CASE openDispatches' = Put(openDispatches, w.parent, [dispatch EXCEPT !.row = @ + w.count])
    BY <2>2 DEF Put
  <2> QED
    BY <1>5, <2>1, <2>2
<1>16. ParentsCut'
  <2>1. log'.works = Append(log.works, w)
    BY <1>10
  <2> QED
    BY <1>1, <1>2, <1>4, <1>5, <1>8, <2>1, WorkKeepsParents DEF dispatch, id
<1>17. dispatch.first.op = op /\ dispatch.first \in WorkRecord /\ dispatch.row + w.count \in Nat
  <2>1. w.op = dispatch.first.op
    BY <1>5 DEF StripeFollows
  <2>2. w.count \in Nat
    BY <1>4 DEF WorkRecord
  <2> QED
    BY <1>8, <1>9, <2>1, <2>2
<1>18. TraceTypes'
  <2>1. IDSet(dispatchDone')
    <3>1. w.parent \in Nat /\ IDSet(dispatchDone)
      BY <1>1, <1>3, <1>9, OperationNat DEF TraceTypes
    <3>2. IDSet(Added(dispatchDone, w.parent))
      BY <3>1, AddedIDs
    <3> QED
      BY <1>5, <3>1, <3>2
  <2>2. \A c \in DOMAIN calls'.active : calls'.active[c] \in CallRecord
    BY <1>1, <1>12, <1>13 DEF TraceTypes
  <2>3. DOMAIN calls'.workOp \subseteq Nat
    <3>1. DOMAIN calls'.workOp = DOMAIN calls.workOp \cup {id}
      BY <1>11 DEF Put
    <3> QED
      BY <1>1, <1>2, <3>1 DEF TraceTypes, id
  <2>4. \A p \in DOMAIN openDispatches' : openDispatches'[p] \in [first : WorkRecord, row : Nat]
    <3>1. [dispatch EXCEPT !.row = @ + w.count] \in [first : WorkRecord, row : Nat]
      BY <1>8, <1>17
    <3> QED
      BY <1>1, <1>15, <3>1 DEF TraceTypes
  <2>5. log' = [works |-> log'.works, required |-> log'.required, phase |-> log'.phase]
    BY <1>10
  <2> QED
    BY <1>1, <1>7, <1>11, <1>14, <2>1, <2>2, <2>3, <2>4, <2>5 DEF TraceTypes
<1>19. OpenIsLive'
  <2>1. \A x : Done(x)' = Done(x)
    BY <1>7 DEF Done
  <2>2. ~Done(op)
    BY <1>5 DEF Accepts, Done
  <2>3. \A p \in DOMAIN openDispatches' : ~Done(openDispatches'[p].first.op)
    <3>1. [dispatch EXCEPT !.row = @ + w.count].first = dispatch.first
      BY <1>8
    <3> QED
      BY <1>1, <1>15, <1>17, <2>2, <3>1 DEF OpenIsLive
  <2>4. \A c \in DOMAIN calls'.active : ~Done(calls'.active[c].op)
    BY <1>1, <1>12, <1>13, <2>2 DEF OpenIsLive
  <2> QED
    BY <1>1, <1>7, <2>1, <2>3, <2>4 DEF OpenIsLive
<1>20. PhasesTracked'
  <2>1. DOMAIN pending' = DOMAIN pending \cup {op}
    BY <1>6, PutIn, ZenonT(60)
  <2>2. log'.phase = Put(log.phase, op, phaseCount)
    BY <1>10
  <2> QED
    BY <1>1, <1>3, <1>5, <1>7, <2>1, <2>2, OperationNat, PhasesSeen DEF TraceTypes, op
<1>21. CallsTracked'
  <2>1. log'.required = log.required
    BY <1>10
  <2>2. \A c \in DOMAIN calls.active : c \in 0 .. (calls.count - 1) /\ ~Contains(calls.done, c)
    BY <1>1 DEF CallsTracked
  <2>3. \A c \in DOMAIN calls'.active : c \in DOMAIN log'.required /\ log'.required[c] = calls'.active[c].required
    BY <1>1, <1>12, <1>13, <2>1 DEF CallsTracked, call
  <2>4. \A n \in 1 .. id : log.works[n].call /= cid
    <3> SUFFICES ASSUME NEW n \in 1 .. id, log.works[n].call = cid PROVE FALSE
      OBVIOUS
    <3>1. calls.active[cid].works = {n - 1}
      BY <1>1, <1>14 DEF CallsTracked
    <3> QED
      BY <1>3, <3>1 DEF call
  <2>5. ASSUME NEW n \in 1 .. (id + 1)
        PROVE  LET c == log'.works[n].call IN
               /\ c < calls'.count /\ c \in DOMAIN log'.required
               /\ IF c \in DOMAIN calls'.active
                  THEN calls'.active[c].op = log'.works[n].op /\ calls'.active[c].kind \in Owning /\ calls'.active[c].works = {n - 1}
                  ELSE Contains(calls'.done, c) /\ n - 1 \in log'.required[c]
    <3>1. CASE n \in 1 .. id
      <4>1. log'.works[n] = log.works[n] /\ log.works[n].call /= cid
        BY <1>14, <2>4, <3>1
      <4>2. LET c == log.works[n].call IN
               /\ c < calls.count /\ c \in DOMAIN log.required
               /\ IF c \in DOMAIN calls.active
                  THEN calls.active[c].op = log.works[n].op /\ calls.active[c].kind \in Owning /\ calls.active[c].works = {n - 1}
                  ELSE Contains(calls.done, c) /\ n - 1 \in log.required[c]
        BY <1>1, <1>14, <3>1 DEF CallsTracked
      <4> QED
        BY <1>11, <1>12, <2>1, <4>1, <4>2
    <3>2. CASE n = id + 1
      <4>1. log'.works[n] = w /\ n - 1 = id
        BY <1>2, <1>14, <3>2
      <4>2. cid \in DOMAIN log.required
        BY <1>1 DEF CallsTracked
      <4> QED
        BY <1>2, <1>3, <1>9, <1>11, <1>12, <1>13, <2>1, <4>1, <4>2
    <3> QED
      BY <1>2, <3>1, <3>2
  <2>6. ASSUME NEW m \in 1 .. (id + 1), NEW n \in 1 .. (id + 1), log'.works[m].call = log'.works[n].call
        PROVE  m = n
    <3>1. \A x \in 1 .. (id + 1) : x \in 1 .. id \/ x = id + 1
      BY <1>2
    <3>2. \A x, y \in 1 .. id : log.works[x].call = log.works[y].call => x = y
      BY <1>1, <1>14 DEF CallsTracked
    <3> QED
      BY <1>9, <1>14, <2>4, <2>6, <3>1, <3>2
  <2>7. \A c \in Nat : Contains(calls'.done, c) => c < calls'.count
    BY <1>1, <1>11 DEF CallsTracked
  <2>8. \A c \in DOMAIN calls'.active : c \in 0 .. (calls'.count - 1) /\ ~Contains(calls'.done, c)
    BY <1>11, <1>12, <2>2
  <2> QED
    BY <1>14, <2>3, <2>5, <2>6, <2>7, <2>8 DEF CallsTracked
<1> QED
  BY <1>16, <1>18, <1>19, <1>20, <1>21 DEF TraceInv

(***************************************************************************)
(* Hosts.consume                                                           *)
(***************************************************************************)
LEMMA HostParentKeeps ==
  ASSUME TraceTypes, NEW op, NEW parent, NEW c, c = HostParent(op, parent)
  PROVE  /\ c = [active |-> c.active, done |-> c.done, count |-> c.count, workOp |-> c.workOp,
                 callOp |-> c.callOp, parentOp |-> c.parentOp, declared |-> c.declared]
         /\ c.active = calls.active /\ c.done = calls.done /\ c.count = calls.count /\ c.workOp = calls.workOp
BY DEF HostParent, TraceTypes

LEMMA HostBeginKeeps ==
  ASSUME TraceInv, NEW op \in OperationIds, NEW parent, NEW call, NEW works, NEW stages, HostBegin(op, parent, call, works, stages)
  PROVE  TraceInv'
<1> DEFINE h == [op |-> op, parent |-> parent, call |-> call]
<1>1. TraceTypes /\ ParentsCut /\ OpenIsLive /\ CallsTracked /\ PhasesTracked
  BY DEF TraceInv
<1>2. /\ Accepts(op) /\ calls' = HostParent(op, parent) /\ pending' = Put(pending, op, Live(op)) /\ log' = Seen(op)
      /\ hosts' = [hosts EXCEPT !.count = @ + 1, !.active = Put(@, hosts.count, h)]
      /\ UNCHANGED <<phaseCount, openDispatches, dispatchDone, operationDone, completed, traceEnded>>
  BY DEF HostBegin
<1>3. h.op = op
  OBVIOUS
<1> HIDE DEF h
<1>4. log' = [works |-> log.works, required |-> log.required, phase |-> Put(log.phase, op, phaseCount)]
  BY <1>1, <1>2, LogSeen
<1>5. /\ calls' = [active |-> calls'.active, done |-> calls'.done, count |-> calls'.count, workOp |-> calls'.workOp,
                callOp |-> calls'.callOp, parentOp |-> calls'.parentOp, declared |-> calls'.declared]
      /\ calls'.active = calls.active /\ calls'.done = calls.done /\ calls'.count = calls.count /\ calls'.workOp = calls.workOp
  BY <1>1, <1>2, HostParentKeeps
<1>6. /\ hosts' = [active |-> hosts'.active, owner |-> hosts'.owner, count |-> hosts'.count, completed |-> hosts'.completed]
      /\ hosts'.active = Put(hosts.active, hosts.count, h)
  BY <1>1, <1>2 DEF TraceTypes
<1>7. \A x \in DOMAIN hosts'.active :
         (x \in DOMAIN hosts.active /\ hosts'.active[x] = hosts.active[x]) \/ hosts'.active[x].op = op
  BY <1>3, <1>6 DEF Put
<1>8. TraceTypes'
  <2>1. log' = [works |-> log'.works, required |-> log'.required, phase |-> log'.phase] /\ log'.works = log.works
    BY <1>4
  <2>2. \A x \in DOMAIN hosts'.active : hosts'.active[x].op \in OperationIds
    BY <1>1, <1>7 DEF TraceTypes
  <2> QED
    BY <1>1, <1>2, <1>5, <1>6, <2>1, <2>2 DEF TraceTypes
<1>9. ParentsCut'
  BY <1>1, <1>2, <1>4, ParentsSame
<1>10. CallsTracked'
  BY <1>1, <1>4, <1>5, CallsSame
<1>11. OpenIsLive'
  <2>1. \A x : Done(x)' = Done(x)
    BY <1>2 DEF Done
  <2>2. ~Done(op)
    BY <1>2 DEF Accepts, Done
  <2> QED
    BY <1>1, <1>2, <1>5, <1>7, <2>1, <2>2 DEF OpenIsLive
<1>12. PhasesTracked'
  <2>1. DOMAIN pending' = DOMAIN pending \cup {op}
    BY <1>2, PutIn
  <2> QED
    BY <1>1, <1>2, <1>4, <2>1, OperationNat, PhasesSeen DEF TraceTypes
<1> QED
  BY <1>8, <1>9, <1>10, <1>11, <1>12 DEF TraceInv

LEMMA HostEndKeeps == ASSUME TraceInv, NEW id, HostEnd(id) PROVE TraceInv'
<1>1. TraceTypes /\ ParentsCut /\ OpenIsLive /\ CallsTracked /\ PhasesTracked
  BY DEF TraceInv
<1> DEFINE h == hosts.active[id]
<1>2. /\ calls' = HostParent(h.op, h.parent)
      /\ hosts' = [hosts EXCEPT !.active = Drop(@, {id}), !.owner = Put(@, id, h.op), !.completed = @ + 1]
      /\ UNCHANGED <<phaseCount, pending, openDispatches, dispatchDone, operationDone, completed, traceEnded, log>>
  BY DEF HostEnd
<1> HIDE DEF h
<1>3. /\ calls' = [active |-> calls'.active, done |-> calls'.done, count |-> calls'.count, workOp |-> calls'.workOp,
                callOp |-> calls'.callOp, parentOp |-> calls'.parentOp, declared |-> calls'.declared]
      /\ calls'.active = calls.active /\ calls'.done = calls.done /\ calls'.count = calls.count /\ calls'.workOp = calls.workOp
  BY <1>1, <1>2, HostParentKeeps
<1>4. /\ hosts' = [active |-> hosts'.active, owner |-> hosts'.owner, count |-> hosts'.count, completed |-> hosts'.completed]
      /\ hosts'.active = Drop(hosts.active, {id})
  BY <1>1, <1>2 DEF TraceTypes
<1>5. \A x \in DOMAIN hosts'.active : x \in DOMAIN hosts.active /\ hosts'.active[x] = hosts.active[x]
  BY <1>4 DEF Drop
<1>6. TraceTypes'
  BY <1>1, <1>2, <1>3, <1>4, <1>5, ZenonT(60) DEF TraceTypes
<1>7. ParentsCut'
  BY <1>1, <1>2, ParentsSame
<1>8. CallsTracked'
  BY <1>1, <1>2, <1>3, CallsSame
<1>9. \A x : Done(x)' = Done(x)
  BY <1>2 DEF Done
<1>10. OpenIsLive'
  BY <1>1, <1>2, <1>3, <1>5, <1>9 DEF OpenIsLive
<1>11. PhasesTracked'
  BY <1>1, <1>2, <1>9 DEF PhasesTracked
<1> QED
  BY <1>6, <1>7, <1>8, <1>10, <1>11 DEF TraceInv

(***************************************************************************)
(* TraceState.complete_operation                                           *)
(***************************************************************************)
LEMMA CompleteKeeps ==
  ASSUME TraceInv, NEW op \in OperationIds, NEW class, NEW shape, CompleteOperation(op, class, shape)
  PROVE  TraceInv'
<1>1. TraceTypes /\ ParentsCut /\ OpenIsLive /\ CallsTracked /\ PhasesTracked /\ op \in Nat
  BY OperationNat DEF TraceInv
<1>2. /\ Accepts(op) /\ Finished(op) /\ hosts' = [hosts EXCEPT !.owner = Drop(@, OwnedBy(@, op))] /\ calls' = CallsForget(op)
      /\ completed' = completed + 1 /\ pending' = Drop(pending, {op}) /\ operationDone' = Added(operationDone, op) /\ log' = Seen(op)
      /\ UNCHANGED <<phaseCount, openDispatches, dispatchDone, traceEnded>>
  BY DEF CompleteOperation
<1>3. log' = [works |-> log.works, required |-> log.required, phase |-> Put(log.phase, op, phaseCount)]
  BY <1>1, <1>2, LogSeen
<1>4. /\ calls' = [active |-> calls'.active, done |-> calls'.done, count |-> calls'.count, workOp |-> calls'.workOp,
                callOp |-> calls'.callOp, parentOp |-> calls'.parentOp, declared |-> calls'.declared]
      /\ calls'.active = calls.active /\ calls'.done = calls.done /\ calls'.count = calls.count
      /\ calls'.workOp = Drop(calls.workOp, OwnedBy(calls.workOp, op))
  BY <1>1, <1>2 DEF TraceTypes, CallsForget
<1>5. /\ hosts' = [active |-> hosts'.active, owner |-> hosts'.owner, count |-> hosts'.count, completed |-> hosts'.completed]
      /\ hosts'.active = hosts.active
  BY <1>1, <1>2 DEF TraceTypes
<1>6. ~Contains(operationDone, op) /\ ~traceEnded /\ IDSet(operationDone)
  BY <1>1, <1>2 DEF Accepts, TraceTypes
<1>7. /\ IDSet(operationDone') /\ operationDone'.cursor >= operationDone.cursor
      /\ \A j \in Nat : Contains(operationDone', j) <=> Contains(operationDone, j) \/ j = op
      /\ operationDone'.cursor + Cardinality(operationDone'.ahead) = operationDone.cursor + Cardinality(operationDone.ahead) + 1
  <2>1. /\ IDSet(Added(operationDone, op)) /\ Added(operationDone, op).cursor >= operationDone.cursor
        /\ \A j \in Nat : Contains(Added(operationDone, op), j) <=> Contains(operationDone, j) \/ j = op
        /\ Added(operationDone, op).cursor + Cardinality(Added(operationDone, op).ahead)
              = operationDone.cursor + Cardinality(operationDone.ahead) + 1
    BY <1>1, <1>6, AddedIDs
  <2> QED
    BY <1>2, <2>1
<1>8. \A j \in Nat : Done(j)' <=> Done(j) \/ j = op
  BY <1>7 DEF Done
<1>9. TraceTypes'
  <2>1. log' = [works |-> log'.works, required |-> log'.required, phase |-> log'.phase] /\ log'.works = log.works
    BY <1>3
  <2>2. DOMAIN calls'.workOp \subseteq Nat
    BY <1>1, <1>4 DEF Drop, TraceTypes
  <2> QED
    BY <1>1, <1>2, <1>4, <1>5, <1>7, <2>1, <2>2 DEF TraceTypes
<1>10. ParentsCut'
  BY <1>1, <1>2, <1>3, ParentsSame
<1>11. CallsTracked'
  BY <1>1, <1>3, <1>4, CallsSame
<1>12. OpenIsLive'
  <2>1. \A p \in DOMAIN openDispatches : openDispatches[p].first.op \in Nat /\ openDispatches[p].first.op /= op
    <3>1. \A p \in DOMAIN openDispatches : openDispatches[p].first \in WorkRecord
      BY <1>1 DEF TraceTypes
    <3> QED
      BY <1>2, <3>1, OperationNat DEF WorkRecord, Finished
  <2>2. \A c \in DOMAIN calls.active : calls.active[c].op \in Nat /\ calls.active[c].op /= op
    <3>1. \A c \in DOMAIN calls.active : calls.active[c] \in CallRecord
      BY <1>1 DEF TraceTypes
    <3> QED
      BY <1>2, <3>1, OperationNat DEF CallRecord, Finished, CallsFinished
  <2>3. \A h \in DOMAIN hosts.active : hosts.active[h].op \in Nat /\ hosts.active[h].op /= op
    BY <1>1, <1>2, OperationNat DEF TraceTypes, Finished, HostsFinished
  <2> QED
    BY <1>1, <1>2, <1>4, <1>5, <1>8, <2>1, <2>2, <2>3 DEF OpenIsLive
<1>13. PhasesTracked'
  <2>1. /\ DOMAIN log'.phase = DOMAIN log.phase \cup {op} /\ log'.phase[op] = phaseCount
        /\ \A x \in DOMAIN log.phase : x /= op => log'.phase[x] = log.phase[x]
    BY <1>3 DEF Put
  <2>2. \A x : x \in DOMAIN pending => x \in DOMAIN pending' \/ x = op
    BY <1>2 DEF Drop
  <2>3. operationDone.cursor \in Nat /\ operationDone'.cursor \in Nat /\ phaseCount \in Nat
    BY <1>1, <1>7 DEF IDSet, TraceTypes
  <2>4. ASSUME NEW x \in DOMAIN log'.phase
        PROVE  /\ x \in Nat /\ log'.phase[x] \in Nat /\ log'.phase[x] <= phaseCount
               /\ x \in DOMAIN pending' \/ Done(x)'
               /\ log'.phase[x] < phaseCount \/ traceEnded => x < operationDone'.cursor
    <3>1. CASE x = op
      BY <1>1, <1>6, <1>8, <2>1, <2>3, <3>1
    <3>2. CASE x /= op
      <4>1. /\ x \in Nat /\ log.phase[x] \in Nat /\ log.phase[x] <= phaseCount
            /\ x \in DOMAIN pending \/ Done(x)
            /\ log.phase[x] < phaseCount \/ traceEnded => x < operationDone.cursor
        BY <1>1, <2>1, <3>2 DEF PhasesTracked
      <4>2. log'.phase[x] = log.phase[x]
        BY <2>1, <3>2
      <4>3. log.phase[x] < phaseCount \/ traceEnded => x < operationDone'.cursor
        BY <1>7, <2>3, <4>1
      <4> QED
        BY <1>8, <2>2, <3>2, <4>1, <4>2, <4>3
    <3> QED
      BY <3>1, <3>2
  <2>5. \A x \in Nat : Done(x)' => x \in DOMAIN log'.phase
    BY <1>1, <1>8, <2>1 DEF PhasesTracked
  <2>6. operationDone'.cursor + Cardinality(operationDone'.ahead) = completed'
    BY <1>1, <1>2, <1>7 DEF PhasesTracked
  <2> QED
    BY <1>2, <2>4, <2>5, <2>6 DEF PhasesTracked
<1> QED
  BY <1>9, <1>10, <1>11, <1>12, <1>13 DEF TraceInv

(***************************************************************************)
(* PHASE and RUN_END                                                       *)
(***************************************************************************)
(* No operation is pending and none is out of order: all are complete      *)
(* without a gap.                                                          *)
LEMMA BoundaryClosed ==
  ASSUME TraceInv, PhaseBoundary, NEW op \in DOMAIN log.phase
  PROVE  op < operationDone.cursor
<1>1. IDSet(operationDone) /\ PhasesTracked /\ Done(op) /\ operationDone.cursor = completed
  BY DEF TraceInv, TraceTypes, PhasesTracked, PhaseBoundary
<1>2. operationDone.cursor \in Nat /\ IsFiniteSet(operationDone.ahead)
  BY <1>1 DEF IDSet
<1>3. Cardinality(operationDone.ahead) \in Nat
  BY <1>2, FS_CardinalityType
<1>4. operationDone.cursor + Cardinality(operationDone.ahead) = operationDone.cursor
  BY <1>1 DEF PhasesTracked
<1>5. Cardinality(operationDone.ahead) = 0
  BY ONLY <1>2, <1>3, <1>4
<1>6. operationDone.ahead = {}
  BY <1>2, <1>5, FS_EmptySet
<1> QED
  BY <1>1, <1>6 DEF Done, Contains

LEMMA PhaseRecordKeeps == ASSUME TraceInv, PhaseRecord PROVE TraceInv'
<1>1. TraceTypes /\ ParentsCut /\ OpenIsLive /\ CallsTracked /\ PhasesTracked
  BY DEF TraceInv
<1>2. /\ PhaseBoundary /\ phaseCount' = phaseCount + 1
      /\ UNCHANGED <<pending, openDispatches, dispatchDone, operationDone, calls, hosts, completed, traceEnded, log>>
  BY DEF PhaseRecord
<1>3. TraceTypes'
  BY <1>1, <1>2 DEF TraceTypes
<1>4. ParentsCut' /\ CallsTracked'
  BY <1>1, <1>2, ParentsSame, CallsSame
<1>5. \A x : Done(x)' = Done(x)
  BY <1>2 DEF Done
<1>6. OpenIsLive'
  BY <1>1, <1>2, <1>5 DEF OpenIsLive
<1>7. \A op \in DOMAIN log.phase : op < operationDone.cursor
  BY <1>2, BoundaryClosed
<1>8. PhasesTracked'
  <2>1. \A op \in DOMAIN log.phase : log.phase[op] \in Nat /\ log.phase[op] <= phaseCount + 1
    BY <1>1 DEF PhasesTracked, TraceTypes
  <2> QED
    BY <1>1, <1>2, <1>5, <1>7, <2>1 DEF PhasesTracked
<1> QED
  BY <1>3, <1>4, <1>6, <1>8 DEF TraceInv

LEMMA EndKeeps == ASSUME TraceInv, End PROVE TraceInv'
<1>1. TraceTypes /\ ParentsCut /\ OpenIsLive /\ CallsTracked /\ PhasesTracked
  BY DEF TraceInv
<1>2. /\ PhaseBoundary /\ traceEnded' = TRUE
      /\ UNCHANGED <<phaseCount, pending, openDispatches, dispatchDone, operationDone, calls, hosts, completed, log>>
  BY DEF End
<1>3. TraceTypes'
  BY <1>1, <1>2 DEF TraceTypes
<1>4. ParentsCut' /\ CallsTracked'
  BY <1>1, <1>2, ParentsSame, CallsSame
<1>5. \A x : Done(x)' = Done(x)
  BY <1>2 DEF Done
<1>6. OpenIsLive'
  BY <1>1, <1>2, <1>5 DEF OpenIsLive
<1>7. \A op \in DOMAIN log.phase : op < operationDone.cursor
  BY <1>2, BoundaryClosed
<1>8. PhasesTracked'
  BY <1>1, <1>2, <1>5, <1>7 DEF PhasesTracked
<1> QED
  BY <1>3, <1>4, <1>6, <1>8 DEF TraceInv

(* TraceState.consume: for every trace that is accepted, the few cursors   *)
(* the validator keeps stand for all the records it has read.              *)
THEOREM TraceInvariant == TraceSpec => []TraceInv
<1>1. TraceInit => TraceInv
  <2> SUFFICES ASSUME TraceInit PROVE TraceInv
    OBVIOUS
  <2>1. IsFiniteSet({}) /\ Cardinality({}) = 0
    BY FS_EmptySet
  <2>2. IDSet(NoIDs) /\ \A j \in Nat : ~Contains(NoIDs, j)
    BY <2>1 DEF IDSet, NoIDs, Contains
  <2>3. log.works = << >> /\ DOMAIN log.required = {} /\ DOMAIN log.phase = {} /\ \A p : WorksOf(p) = {}
    BY DEF TraceInit, WorksOf
  <2>4. /\ DOMAIN calls.active = {} /\ calls.done = NoIDs /\ calls.count = 0 /\ DOMAIN calls.workOp = {} /\ DOMAIN hosts.active = {}
        /\ DOMAIN openDispatches = {}
    BY DEF TraceInit, NoCalls, NoHosts
  <2>5. TraceTypes
    <3>1. log = [works |-> log.works, required |-> log.required, phase |-> log.phase] /\ log.works \in Seq(WorkRecord)
      BY <2>3 DEF TraceInit
    <3>2. calls = [active |-> calls.active, done |-> calls.done, count |-> calls.count, workOp |-> calls.workOp,
                   callOp |-> calls.callOp, parentOp |-> calls.parentOp, declared |-> calls.declared]
      BY DEF TraceInit, NoCalls
    <3>3. hosts = [active |-> hosts.active, owner |-> hosts.owner, count |-> hosts.count, completed |-> hosts.completed]
      BY DEF TraceInit, NoHosts
    <3>4. /\ phaseCount \in Nat /\ completed \in Nat /\ traceEnded \in BOOLEAN
          /\ IDSet(dispatchDone) /\ IDSet(operationDone)
      BY <2>2 DEF TraceInit
    <3> QED
      BY <2>2, <2>4, <3>1, <3>2, <3>3, <3>4 DEF TraceTypes
  <2>6. ParentsCut
    BY <2>3, <2>4 DEF ParentsCut
  <2>7. OpenIsLive
    BY <2>4 DEF OpenIsLive
  <2>8. CallsTracked
    BY <2>2, <2>3, <2>4 DEF CallsTracked
  <2>9. PhasesTracked
    <3>1. operationDone = NoIDs /\ completed = 0
      BY DEF TraceInit
    <3> QED
      BY <2>1, <2>2, <2>3, <3>1 DEF PhasesTracked, Done, NoIDs
  <2> QED
    BY <2>5, <2>6, <2>7, <2>8, <2>9 DEF TraceInv
<1>2. TraceInv /\ [TraceNext]_traceVars => TraceInv'
  <2> SUFFICES ASSUME TraceInv, [TraceNext]_traceVars PROVE TraceInv'
    OBVIOUS
  <2>1. CASE PhaseRecord
    BY <2>1, PhaseRecordKeeps
  <2>2. CASE End
    BY <2>2, EndKeeps
  <2>3. CASE Call
    BY <2>3, CallKeeps
  <2>4. ASSUME NEW cid \in {c \in DOMAIN calls.active : TakesWork(calls.active[c])},
               NEW height \in 1 .. MaxRows, NEW count \in 1 .. MaxRows, NEW begin \in 0 .. MaxRows,
               NEW prepared \in SUBSET DOMAIN hosts.owner, Work(cid, height, begin, count, prepared)
        PROVE  TraceInv'
    BY <2>4, WorkStepKeeps
  <2>5. ASSUME NEW op \in OperationIds, NEW parent \in Parents \cup {None}, NEW call \in DOMAIN calls.callOp \cup {None},
               NEW works \in SUBSET DOMAIN calls.workOp, NEW stages \in SUBSET DOMAIN hosts.owner,
               HostBegin(op, parent, call, works, stages)
        PROVE  TraceInv'
    BY <2>5, HostBeginKeeps
  <2>6. ASSUME NEW id \in DOMAIN hosts.active, HostEnd(id) PROVE TraceInv'
    BY <2>6, HostEndKeeps
  <2>7. ASSUME NEW op \in OperationIds, NEW class \in Classes, NEW shape \in 0 .. MaxRows, CompleteOperation(op, class, shape)
        PROVE  TraceInv'
    BY <2>7, CompleteKeeps
  <2>8. CASE UNCHANGED traceVars
    <3>1. UNCHANGED <<phaseCount, pending, openDispatches, dispatchDone, operationDone, calls, hosts, completed, traceEnded, log>>
      BY <2>8 DEF traceVars
    <3>2. TraceTypes /\ ParentsCut /\ OpenIsLive /\ CallsTracked /\ PhasesTracked
      BY DEF TraceInv
    <3>3. ParentsCut' /\ CallsTracked'
      BY <3>1, <3>2, ParentsSame, CallsSame
    <3>4. \A x : Done(x)' = Done(x)
      BY <3>1 DEF Done
    <3>5. TraceTypes' /\ OpenIsLive' /\ PhasesTracked'
      BY <3>1, <3>2, <3>4 DEF TraceTypes, OpenIsLive, PhasesTracked
    <3> QED
      BY <3>3, <3>5 DEF TraceInv
  <2> QED
    BY <2>1, <2>2, <2>3, <2>4, <2>5, <2>6, <2>7, <2>8 DEF TraceNext
<1> QED
  BY <1>1, <1>2, PTL DEF TraceSpec

(* validate_trace: every parent is cut into blocks of rows without gap or  *)
(* overlap, no continuation starts before the work it continues, and no    *)
(* phase ends with anything left open, for every number of operations,     *)
(* parents, rows, works, calls and host stages.                            *)
THEOREM AcceptedTraceClosed == TraceSpec => []TraceClosed
<1>1. TraceInv => TraceClosed
  <2> SUFFICES ASSUME TraceInv PROVE TraceClosed
    OBVIOUS
  <2>1. TraceTypes /\ ParentsCut /\ OpenIsLive /\ CallsTracked /\ PhasesTracked
    BY DEF TraceInv
  <2>2. CoverageExact
    <3> SUFFICES ASSUME NEW p \in Parents
                 PROVE  /\ \A i, j \in WorksOf(p) :
                              /\ log.works[i].op = log.works[j].op /\ log.works[i].rows = log.works[j].rows
                              /\ i < j => log.works[i].begin + log.works[i].count <= log.works[j].begin
                        /\ \A i \in WorksOf(p) : Done(log.works[i].op) => Cover(p) = 0 .. (log.works[i].rows - 1)
      BY DEF CoverageExact, Cover
    <3>1. ASSUME NEW i \in WorksOf(p), Done(log.works[i].op) PROVE Cover(p) = 0 .. (log.works[i].rows - 1)
      <4>1. p \notin DOMAIN openDispatches
        <5> SUFFICES ASSUME p \in DOMAIN openDispatches PROVE FALSE
          OBVIOUS
        <5>1. log.works[i].op = openDispatches[p].first.op
          BY <2>1 DEF ParentsCut
        <5> QED
          BY <2>1, <3>1, <5>1 DEF OpenIsLive
      <4>2. Contains(dispatchDone, p)
        BY <2>1, <4>1 DEF ParentsCut
      <4> QED
        BY <2>1, <4>2 DEF ParentsCut
    <3>2. \A i, j \in WorksOf(p) :
             /\ log.works[i].op = log.works[j].op /\ log.works[i].rows = log.works[j].rows
             /\ i < j => log.works[i].begin + log.works[i].count <= log.works[j].begin
      BY <2>1 DEF ParentsCut
    <3> QED
      BY <3>1, <3>2
  <2>3. ContinuationWaits
    <3> SUFFICES ASSUME NEW n \in DOMAIN log.works
                 PROVE  /\ \A k \in DOMAIN log.works : k /= n => log.works[k].call /= log.works[n].call
                        /\ log.works[n].call \in DOMAIN log.required
                        /\ Contains(calls.done, log.works[n].call) => n - 1 \in log.required[log.works[n].call]
                        /\ Done(log.works[n].op) => Contains(calls.done, log.works[n].call)
      BY DEF ContinuationWaits
    <3> DEFINE c == log.works[n].call
    <3>1. \A k \in DOMAIN log.works : k /= n => log.works[k].call /= c
      BY <2>1 DEF CallsTracked
    <3>2. /\ c \in DOMAIN log.required
          /\ IF c \in DOMAIN calls.active THEN calls.active[c].op = log.works[n].op
             ELSE Contains(calls.done, c) /\ n - 1 \in log.required[c]
      BY <2>1 DEF CallsTracked
    <3>3. \A x \in DOMAIN calls.active : ~Contains(calls.done, x) /\ ~Done(calls.active[x].op)
      BY <2>1 DEF CallsTracked, OpenIsLive
    <3> QED
      BY <3>1, <3>2, <3>3
  <2>4. PhaseClosed
    <3> SUFFICES ASSUME NEW op \in DOMAIN log.phase, log.phase[op] < phaseCount \/ traceEnded
                 PROVE  /\ op < operationDone.cursor
                        /\ \A earlier \in 0 .. op : earlier \in DOMAIN log.phase
                        /\ \A c \in DOMAIN calls.active : calls.active[c].op /= op
                        /\ \A h \in DOMAIN hosts.active : hosts.active[h].op /= op
                        /\ \A p \in DOMAIN openDispatches : openDispatches[p].first.op /= op
      BY DEF PhaseClosed
    <3>1. op \in Nat /\ op < operationDone.cursor
      BY <2>1 DEF PhasesTracked
    <3>2. operationDone.cursor \in Nat
      BY <2>1 DEF TraceTypes, IDSet
    <3>3. \A j \in 0 .. op : j \in Nat /\ j < operationDone.cursor
      BY <3>1, <3>2
    <3>4. \A j \in 0 .. op : Done(j)
      BY <3>3 DEF Done, Contains
    <3>5. Done(op)
      BY <3>1 DEF Done, Contains
    <3> QED
      BY <2>1, <3>1, <3>3, <3>4, <3>5 DEF PhasesTracked, OpenIsLive
  <2> QED
    BY <2>2, <2>3, <2>4 DEF TraceClosed
<1> QED
  BY <1>1, TraceInvariant, PTL

(***************************************************************************)
(* The three-source join: what has been read of the files so far           *)
(***************************************************************************)
Labels == {"PROVENANCE", "LOAD_FULL", "LOAD_POTAL", "GRAPH", "TRACE", "FINISH", "PASS", "REFUSED"}
LoadLabel(role) == IF role = "FULL_CPU" THEN "LOAD_FULL" ELSE "LOAD_POTAL"
Loaded(role) ==
    pc \in {"GRAPH", "TRACE", "FINISH", "PASS"} \/ (role = "FULL_CPU" /\ pc = "LOAD_POTAL")

CostsRead(role) == {i \in Costs(role) : Loaded(role) \/ (pc = LoadLabel(role) /\ i < at)}
EventsRead == {e \in DOMAIN in.trace : pc \in {"FINISH", "PASS"} \/ (pc = "TRACE" /\ e < at)}

CostRecord(role, i) == in[role].log[i]
Indexed(role, i) == [role |-> role, record |-> CostRecord(role, i)]
IntervalOf(r) == [host |-> r.host, thread |-> r.thread, start |-> r.start, end |-> r.end]
Claims(i) == {e \in DOMAIN in.trace : in.trace[e].kind = "HOST" /\ in.trace[e].class = "POTAL_HOST"
                                     /\ in.trace[e].id = CostRecord("POTAL_COLLECTION", i).host}
VectorOf(n) == {CostRecord("FULL_CPU", i) : i \in {j \in Costs("FULL_CPU") : CostRecord("FULL_CPU", j).node = n}}
RowOf(n) == <<"NPU", in.trace[n].id, in.results[WorkNumber(n)]>>

(* The index holds the costs read, each with its own identity. *)
IndexExact ==
    /\ \A s \in cpuSamples : \E role \in CollectionRoles : \E i \in CostsRead(role) : s = Indexed(role, i)
    /\ \A i \in CostsRead("FULL_CPU") : Indexed("FULL_CPU", i) \in cpuSamples /\ CostRecord("FULL_CPU", i).host = Absent
    /\ \A i \in CostsRead("POTAL_COLLECTION") :
          CostRecord("POTAL_COLLECTION", i).host /= Absent /\ IntervalOf(CostRecord("POTAL_COLLECTION", i)) \in intervals
    /\ \A i, j \in CostsRead("POTAL_COLLECTION") :
          CostRecord("POTAL_COLLECTION", i).host = CostRecord("POTAL_COLLECTION", j).host => i = j

(* A measurement of a host stage is in the index until the one event of    *)
(* the trace that claims it.                                               *)
ClaimedOnce ==
    \A i \in CostsRead("POTAL_COLLECTION") :
        IF Indexed("POTAL_COLLECTION", i) \in cpuSamples
        THEN Claims(i) \cap EventsRead = {}
        ELSE \E e \in EventsRead : Claims(i) \cap EventsRead = {e}

VectorsWhole == pc \in {"TRACE", "FINISH", "PASS"} => \A n \in OrdinaryNodes : VectorOK(VectorOf(n))

(* The works read have the rows of their results, and there are no others. *)
ResultsJoined ==
    /\ \A r \in rows : r[1] = "NPU" => \E n \in Works \cap EventsRead : r = RowOf(n)
    /\ \A n \in Works \cap EventsRead : RowOf(n) \in rows /\ ResultOK(in.trace[n], in.results[WorkNumber(n)])

ReconstructInv ==
    /\ in \in Candidates /\ at \in Nat \ {0} /\ pc \in Labels
    /\ pc /= "REFUSED" => IndexExact /\ ClaimedOnce /\ VectorsWhole /\ ResultsJoined
    /\ pc = "PASS" => JoinComplete

LEMMA FilesAreSequences ==
  ASSUME in \in Candidates
  PROVE  /\ \A role \in CollectionRoles : Len(in[role].log) \in Nat /\ DOMAIN in[role].log = 1 .. Len(in[role].log)
         /\ Len(in.trace) \in Nat /\ DOMAIN in.trace = 1 .. Len(in.trace)
         /\ Len(in.results) \in Nat /\ DOMAIN in.results = 1 .. Len(in.results)
BY InputAssumption DEF CollectionRoles

LEMMA SameInput ==
  ASSUME in' = in
  PROVE  /\ \A role : Costs(role)' = Costs(role)
         /\ \A role, i : CostRecord(role, i)' = CostRecord(role, i) /\ Indexed(role, i)' = Indexed(role, i)
         /\ \A i : Claims(i)' = Claims(i)
         /\ \A n : VectorOf(n)' = VectorOf(n)
         /\ Works' = Works
         /\ \A n : WorkNumber(n)' = WorkNumber(n) /\ RowOf(n)' = RowOf(n)
         /\ \A e, r : ResultOK(e, r)' = ResultOK(e, r)
<1>1. \A role : Costs(role)' = Costs(role)
  BY DEF Costs
<1>2. \A role, i : CostRecord(role, i)' = CostRecord(role, i) /\ Indexed(role, i)' = Indexed(role, i)
  BY DEF CostRecord, Indexed
<1>3. \A i : Claims(i)' = Claims(i)
  BY DEF Claims, CostRecord
<1>4. \A n : VectorOf(n)' = VectorOf(n)
  BY DEF VectorOf, CostRecord, Costs
<1>5. Works' = Works
  BY DEF Works
<1>6. \A n : WorkNumber(n)' = WorkNumber(n)
  BY <1>5 DEF WorkNumber
<1>7. \A n : RowOf(n)' = RowOf(n)
  BY <1>6 DEF RowOf
<1>8. \A e, r : ResultOK(e, r)' = ResultOK(e, r)
  BY DEF ResultOK
<1> QED
  BY <1>1, <1>2, <1>3, <1>4, <1>5, <1>6, <1>7, <1>8

(* A step that indexes nothing and reads no event changes nothing of what  *)
(* is known of the files.                                                  *)
ReadsSame ==
  /\ in' = in /\ cpuSamples' = cpuSamples /\ intervals' = intervals
  /\ \A role \in CollectionRoles : CostsRead(role)' = CostsRead(role)
  /\ EventsRead' = EventsRead

LEMMA SameReads ==
  ASSUME ReadsSame, IndexExact, ClaimedOnce
  PROVE  IndexExact' /\ ClaimedOnce'
<1>1. in' = in /\ cpuSamples' = cpuSamples /\ intervals' = intervals /\ EventsRead' = EventsRead
  BY DEF ReadsSame
<1>2. /\ CostsRead("FULL_CPU")' = CostsRead("FULL_CPU")
      /\ CostsRead("POTAL_COLLECTION")' = CostsRead("POTAL_COLLECTION")
      /\ \A role \in CollectionRoles : CostsRead(role)' = CostsRead(role)
  BY DEF ReadsSame, CollectionRoles
<1>3. /\ \A role, i : CostRecord(role, i)' = CostRecord(role, i) /\ Indexed(role, i)' = Indexed(role, i)
      /\ \A i : Claims(i)' = Claims(i)
  BY <1>1, SameInput
<1>4. IndexExact'
  BY <1>1, <1>2, <1>3 DEF IndexExact
<1>5. ClaimedOnce'
  BY <1>1, <1>2, <1>3 DEF ClaimedOnce
<1> QED
  BY <1>4, <1>5

LEMMA SameResults ==
  ASSUME in' = in, EventsRead' = EventsRead, ResultsJoined,
         \A r : r[1] = "NPU" => (r \in rows' <=> r \in rows)
  PROVE  ResultsJoined'
<1>1. /\ Works' = Works /\ \A n : RowOf(n)' = RowOf(n) /\ WorkNumber(n)' = WorkNumber(n)
      /\ \A e, r : ResultOK(e, r)' = ResultOK(e, r)
  BY SameInput
<1>2. \A n : RowOf(n)[1] = "NPU"
  BY DEF RowOf
<1>3. \A r \in rows' : r[1] = "NPU" => \E n \in Works' \cap EventsRead' : r = RowOf(n)'
  BY <1>1 DEF ResultsJoined
<1>4. \A n \in Works' \cap EventsRead' : RowOf(n)' \in rows'
  BY <1>1, <1>2 DEF ResultsJoined
<1>5. \A n \in Works' \cap EventsRead' : ResultOK(in.trace[n], in.results[WorkNumber(n)])'
  BY <1>1 DEF ResultsJoined, ResultOK
<1> QED
  BY <1>3, <1>4, <1>5 DEF ResultsJoined

LEMMA ReadSets ==
  /\ pc = "PROVENANCE" => CostsRead("FULL_CPU") = {} /\ CostsRead("POTAL_COLLECTION") = {} /\ EventsRead = {}
  /\ pc = "LOAD_FULL" => CostsRead("FULL_CPU") = {i \in Costs("FULL_CPU") : i < at} /\ CostsRead("POTAL_COLLECTION") = {} /\ EventsRead = {}
  /\ pc = "LOAD_POTAL" => CostsRead("FULL_CPU") = Costs("FULL_CPU")
        /\ CostsRead("POTAL_COLLECTION") = {i \in Costs("POTAL_COLLECTION") : i < at} /\ EventsRead = {}
  /\ pc = "GRAPH" => CostsRead("FULL_CPU") = Costs("FULL_CPU") /\ CostsRead("POTAL_COLLECTION") = Costs("POTAL_COLLECTION") /\ EventsRead = {}
  /\ pc = "TRACE" => CostsRead("FULL_CPU") = Costs("FULL_CPU") /\ CostsRead("POTAL_COLLECTION") = Costs("POTAL_COLLECTION")
        /\ EventsRead = {e \in DOMAIN in.trace : e < at}
  /\ pc \in {"FINISH", "PASS"} => CostsRead("FULL_CPU") = Costs("FULL_CPU") /\ CostsRead("POTAL_COLLECTION") = Costs("POTAL_COLLECTION")
        /\ EventsRead = DOMAIN in.trace
BY DEF CostsRead, EventsRead, Loaded, LoadLabel

LEMMA RefuseKeeps == ASSUME ReconstructInv, Refuse PROVE ReconstructInv'
BY DEF ReconstructInv, Refuse, Labels

(* The steps that move on to the next file, and those that skip a record. *)
LEMMA MoveKeeps ==
  ASSUME ReconstructInv, pc /= "REFUSED", in' = in, at' \in Nat \ {0}, cpuSamples' = cpuSamples, intervals' = intervals, rows' = rows,
         pc' \in Labels \ {"REFUSED"},
         \A role \in CollectionRoles : CostsRead(role)' = CostsRead(role), EventsRead' = EventsRead,
         pc' \in {"TRACE", "FINISH", "PASS"} => pc \in {"TRACE", "FINISH", "PASS"},
         pc' = "PASS" => JoinComplete
  PROVE  ReconstructInv'
<1>1. IndexExact' /\ ClaimedOnce'
  BY SameReads DEF ReconstructInv, ReadsSame
<1>2. ResultsJoined'
  BY SameResults DEF ReconstructInv
<1>3. VectorsWhole'
  <2>1. \A n : VectorOf(n)' = VectorOf(n)
    BY SameInput
  <2> SUFFICES ASSUME pc' \in {"TRACE", "FINISH", "PASS"} PROVE (\A n \in OrdinaryNodes : VectorOK(VectorOf(n)))'
    BY DEF VectorsWhole
  <2>2. \A n \in OrdinaryNodes : VectorOK(VectorOf(n))
    BY DEF ReconstructInv, VectorsWhole
  <2> QED
    BY <2>1, <2>2 DEF OrdinaryNodes, VectorOK, ValidMeasurement
<1>4. pc' = "PASS" => JoinComplete'
  BY SameInput DEF JoinComplete, TargetsCovered, NothingLeft, Additive
<1> QED
  BY <1>1, <1>2, <1>3, <1>4 DEF ReconstructInv

LEMMA ProvenanceKeeps == ASSUME ReconstructInv, Provenance PROVE ReconstructInv'
<1>1. CASE Goto("LOAD_FULL")
  <2>1. pc = "PROVENANCE" /\ pc' = "LOAD_FULL" /\ at' = 1 /\ in' = in /\ cpuSamples' = cpuSamples /\ intervals' = intervals /\ rows' = rows
    BY <1>1 DEF Provenance, Goto
  <2>2. Costs("FULL_CPU")' \subseteq Nat \ {0}
    BY <2>1, FilesAreSequences DEF Costs, CollectionRoles, ReconstructInv
  <2>3. CostsRead("FULL_CPU")' = {} /\ CostsRead("POTAL_COLLECTION")' = {} /\ EventsRead' = {}
    BY <2>1, <2>2 DEF CostsRead, EventsRead, Loaded, LoadLabel
  <2>4. \A role \in CollectionRoles : CostsRead(role)' = CostsRead(role)
    BY <2>1, <2>3, ReadSets DEF CollectionRoles
  <2> QED
    BY <2>1, <2>3, <2>4, ReadSets, MoveKeeps DEF Labels
<1> QED
  BY <1>1, RefuseKeeps DEF Provenance

(* CpuIndex.load: a record without a cost changes nothing, a cost enters   *)
(* the index under an identity of its own.                                 *)
LEMMA SkipKeeps ==
  ASSUME ReconstructInv, NEW role \in CollectionRoles, pc = LoadLabel(role), in' = in, pc' = pc, at' = at + 1,
         cpuSamples' = cpuSamples, intervals' = intervals, rows' = rows, at \notin Costs(role)
  PROVE  ReconstructInv'
<1>1. Costs(role) \subseteq Nat /\ at \in Nat
  BY FilesAreSequences DEF Costs, ReconstructInv
<1>2. {i \in Costs(role) : i < at + 1} = {i \in Costs(role) : i < at}
  BY <1>1
<1>3. Costs("FULL_CPU")' = Costs("FULL_CPU") /\ Costs("POTAL_COLLECTION")' = Costs("POTAL_COLLECTION")
  BY SameInput
<1>4. \A q \in CollectionRoles : CostsRead(q)' = CostsRead(q)
  BY <1>2, <1>3 DEF CostsRead, CollectionRoles, Loaded, LoadLabel
<1>5. EventsRead' = EventsRead
  BY DEF EventsRead, LoadLabel
<1> QED
  BY <1>1, <1>4, <1>5, MoveKeeps DEF LoadLabel, Labels

LEMMA LoadEndKeeps ==
  ASSUME ReconstructInv, NEW role \in CollectionRoles, pc = LoadLabel(role), at > Len(in[role].log),
         Goto(IF role = "FULL_CPU" THEN "LOAD_POTAL" ELSE "GRAPH")
  PROVE  ReconstructInv'
<1>1. /\ in' = in /\ at' = 1 /\ cpuSamples' = cpuSamples /\ intervals' = intervals /\ rows' = rows
      /\ pc' = IF role = "FULL_CPU" THEN "LOAD_POTAL" ELSE "GRAPH"
  BY DEF Goto
<1>2. /\ Costs(role) = {i \in Costs(role) : i < at}
      /\ {i \in Costs("POTAL_COLLECTION") : i < 1} = {}
  BY FilesAreSequences DEF Costs, ReconstructInv, CollectionRoles
<1>3. Costs("FULL_CPU")' = Costs("FULL_CPU") /\ Costs("POTAL_COLLECTION")' = Costs("POTAL_COLLECTION")
  BY <1>1, SameInput
<1>4. CASE role = "FULL_CPU"
  <2>1. \A q \in CollectionRoles : CostsRead(q)' = CostsRead(q)
    BY <1>1, <1>2, <1>3, <1>4 DEF CostsRead, CollectionRoles, Loaded, LoadLabel
  <2>2. EventsRead' = EventsRead
    BY <1>1, <1>4 DEF EventsRead, LoadLabel
  <2> QED
    BY <1>1, <1>4, <2>1, <2>2, MoveKeeps DEF LoadLabel, Labels
<1>5. CASE role = "POTAL_COLLECTION"
  <2>1. \A q \in CollectionRoles : CostsRead(q)' = CostsRead(q)
    BY <1>1, <1>2, <1>3, <1>5 DEF CostsRead, CollectionRoles, Loaded, LoadLabel
  <2>2. EventsRead' = EventsRead
    BY <1>1, <1>5 DEF EventsRead, LoadLabel
  <2> QED
    BY <1>1, <1>5, <2>1, <2>2, MoveKeeps DEF LoadLabel, Labels
<1> QED
  BY <1>4, <1>5 DEF CollectionRoles

LEMMA IndexKeeps ==
  ASSUME ReconstructInv, NEW role \in CollectionRoles, pc = LoadLabel(role), in' = in, pc' = pc, at' = at + 1, rows' = rows,
         at \in Costs(role), LoadOK(role, CostRecord(role, at)),
         cpuSamples' = cpuSamples \cup {Indexed(role, at)},
         intervals' = IF CostRecord(role, at).duty = "POTAL_HOST" THEN intervals \cup {IntervalOf(CostRecord(role, at))} ELSE intervals
  PROVE  ReconstructInv'
<1>1. Costs(role) \subseteq Nat /\ at \in Nat /\ IndexExact /\ ClaimedOnce /\ ResultsJoined /\ pc \in {"LOAD_FULL", "LOAD_POTAL"}
  BY FilesAreSequences DEF Costs, ReconstructInv, LoadLabel
<1>2. {i \in Costs(role) : i < at + 1} = {i \in Costs(role) : i < at} \cup {at}
  BY <1>1
<1>3. /\ Costs("FULL_CPU")' = Costs("FULL_CPU") /\ Costs("POTAL_COLLECTION")' = Costs("POTAL_COLLECTION")
      /\ \A q, i : CostRecord(q, i)' = CostRecord(q, i) /\ Indexed(q, i)' = Indexed(q, i)
      /\ \A i : Claims(i)' = Claims(i)
  BY SameInput
<1>4. EventsRead = {} /\ EventsRead' = {}
  BY <1>1 DEF EventsRead
<1>5. \A i \in CostsRead("POTAL_COLLECTION") : Indexed("POTAL_COLLECTION", i) \in cpuSamples
  BY <1>1, <1>4 DEF ClaimedOnce
<1>6. CASE role = "FULL_CPU"
  <2>1. /\ CostsRead("FULL_CPU")' = CostsRead("FULL_CPU") \cup {at}
        /\ CostsRead("POTAL_COLLECTION") = {} /\ CostsRead("POTAL_COLLECTION")' = {}
    BY <1>2, <1>3, <1>6 DEF CostsRead, Loaded, LoadLabel
  <2>2. CostRecord("FULL_CPU", at).host = Absent
    BY <1>6 DEF LoadOK
  <2>3. IndexExact'
    <3>1. \A s \in cpuSamples' : \E q \in CollectionRoles : \E i \in CostsRead(q)' : s = Indexed(q, i)
      <4> SUFFICES ASSUME NEW s \in cpuSamples' PROVE \E q \in CollectionRoles : \E i \in CostsRead(q)' : s = Indexed(q, i)
        OBVIOUS
      <4>1. CASE s \in cpuSamples
        <5>1. PICK q \in CollectionRoles : \E i \in CostsRead(q) : s = Indexed(q, i)
          BY <1>1, <4>1 DEF IndexExact
        <5>2. CostsRead(q) \subseteq CostsRead(q)'
          BY <2>1 DEF CollectionRoles
        <5> QED
          BY <5>1, <5>2
      <4>2. CASE s = Indexed("FULL_CPU", at)
        BY <2>1, <4>2 DEF CollectionRoles
      <4> QED
        BY <1>6, <4>1, <4>2
    <3>2. \A i \in CostsRead("FULL_CPU")' : Indexed("FULL_CPU", i) \in cpuSamples' /\ CostRecord("FULL_CPU", i).host = Absent
      BY <1>1, <1>6, <2>1, <2>2 DEF IndexExact
    <3> QED
      BY <1>3, <2>1, <3>1, <3>2 DEF IndexExact
  <2>4. ClaimedOnce'
    BY <2>1 DEF ClaimedOnce
  <2> QED
    BY <1>1, <1>4, <2>3, <2>4, SameResults DEF ReconstructInv, VectorsWhole
<1>7. CASE role = "POTAL_COLLECTION"
  <2> DEFINE P == "POTAL_COLLECTION"
  <2>1. /\ CostsRead(P)' = CostsRead(P) \cup {at} /\ at \notin CostsRead(P)
        /\ CostsRead("FULL_CPU")' = CostsRead("FULL_CPU")
    BY <1>1, <1>2, <1>3, <1>7 DEF CostsRead, Loaded, LoadLabel
  <2>2. CostRecord(P, at).host /= Absent /\ CostRecord(P, at).duty = "POTAL_HOST"
    BY <1>7 DEF LoadOK, DutyOf
  <2>3. \A i \in CostsRead(P) : CostRecord(P, i).host /= CostRecord(P, at).host
    <3> SUFFICES ASSUME NEW i \in CostsRead(P) PROVE CostRecord(P, i).host /= CostRecord(P, at).host
      OBVIOUS
    <3>1. Indexed(P, i) \in cpuSamples /\ CostRecord(P, i).host /= Absent
      BY <1>1, <1>5 DEF IndexExact
    <3>2. Identity(Indexed(P, i).role, Indexed(P, i).record) /= Identity(P, CostRecord(P, at))
      BY <1>7, <3>1 DEF LoadOK
    <3>3. Identity(P, CostRecord(P, i)) /= Identity(P, CostRecord(P, at))
      BY <3>2 DEF Indexed
    <3> QED
      BY <2>2, <3>1, <3>3 DEF Identity
  <2>4. IndexExact'
    <3>1. \A s \in cpuSamples' : \E q \in CollectionRoles : \E i \in CostsRead(q)' : s = Indexed(q, i)
      <4> SUFFICES ASSUME NEW s \in cpuSamples' PROVE \E q \in CollectionRoles : \E i \in CostsRead(q)' : s = Indexed(q, i)
        OBVIOUS
      <4>1. CASE s \in cpuSamples
        <5>1. PICK q \in CollectionRoles : \E i \in CostsRead(q) : s = Indexed(q, i)
          BY <1>1, <4>1 DEF IndexExact
        <5>2. CostsRead(q) \subseteq CostsRead(q)'
          BY <2>1 DEF CollectionRoles
        <5> QED
          BY <5>1, <5>2
      <4>2. CASE s = Indexed(P, at)
        BY <2>1, <4>2 DEF CollectionRoles
      <4> QED
        BY <1>7, <4>1, <4>2
    <3>2. \A i \in CostsRead("FULL_CPU")' : Indexed("FULL_CPU", i) \in cpuSamples' /\ CostRecord("FULL_CPU", i).host = Absent
      BY <1>1, <2>1 DEF IndexExact
    <3>3. \A i \in CostsRead(P)' : CostRecord(P, i).host /= Absent /\ IntervalOf(CostRecord(P, i)) \in intervals'
      BY <1>1, <1>7, <2>1, <2>2 DEF IndexExact
    <3>4. \A i, j \in CostsRead(P)' : CostRecord(P, i).host = CostRecord(P, j).host => i = j
      BY <1>1, <2>1, <2>3 DEF IndexExact
    <3> QED
      BY <1>3, <3>1, <3>2, <3>3, <3>4 DEF IndexExact
  <2>5. ClaimedOnce'
    BY <1>3, <1>4, <1>5, <1>7, <2>1 DEF ClaimedOnce
  <2> QED
    BY <1>1, <1>4, <2>4, <2>5, SameResults DEF ReconstructInv, VectorsWhole
<1> QED
  BY <1>6, <1>7 DEF CollectionRoles

LEMMA LoadKeeps ==
  ASSUME ReconstructInv, NEW role \in CollectionRoles,
         Load(role, LoadLabel(role), IF role = "FULL_CPU" THEN "LOAD_POTAL" ELSE "GRAPH")
  PROVE  ReconstructInv'
<1>1. pc = LoadLabel(role)
  BY DEF Load
<1>2. CASE at > Len(in[role].log)
  BY <1>1, <1>2, LoadEndKeeps DEF Load
<1>3. CASE ~(at > Len(in[role].log))
  <2> DEFINE r == in[role].log[at]
  <2>1. at \in DOMAIN in[role].log
    BY <1>3, FilesAreSequences DEF ReconstructInv
  <2>2. CASE Observation(role, r)
    <3>1. in' = in /\ pc' = pc /\ at' = at + 1 /\ cpuSamples' = cpuSamples /\ intervals' = intervals /\ rows' = rows
      BY <1>3, <2>2 DEF Load
    <3>2. at \notin Costs(role)
      BY <2>2 DEF Costs
    <3> QED
      BY <1>1, <3>1, <3>2, SkipKeeps
  <2>3. CASE ~Observation(role, r) /\ ~LoadOK(role, r)
    <3>1. Refuse
      BY <1>3, <2>3 DEF Load
    <3> QED
      BY <3>1, RefuseKeeps
  <2>4. CASE ~Observation(role, r) /\ LoadOK(role, r)
    <3>1. /\ in' = in /\ pc' = pc /\ at' = at + 1 /\ rows' = rows
          /\ cpuSamples' = cpuSamples \cup {Indexed(role, at)}
          /\ intervals' = IF r.duty = "POTAL_HOST" THEN intervals \cup {IntervalOf(r)} ELSE intervals
      BY <1>3, <2>4 DEF Load, Indexed, CostRecord, IntervalOf
    <3>2. at \in Costs(role)
      BY <2>1, <2>4 DEF Costs
    <3> QED
      BY <1>1, <2>4, <3>1, <3>2, IndexKeeps DEF CostRecord
  <2> QED
    BY <2>2, <2>3, <2>4
<1> QED
  BY <1>2, <1>3

(* The graph's services: the vector of a node is what the log measured.    *)
LEMMA WriteGraphKeeps == ASSUME ReconstructInv, WriteGraph PROVE ReconstructInv'
<1>1. CASE Refuse
  BY <1>1, RefuseKeeps
<1>2. CASE ~Refuse
  <2>1. /\ pc = "GRAPH" /\ pc' = "TRACE" /\ at' = 1 /\ in' = in /\ cpuSamples' = cpuSamples /\ intervals' = intervals
        /\ \A n \in OrdinaryNodes : VectorOK(Ordinary(n))
        /\ rows' = {<<"ORDINARY", n, Ordinary(n)>> : n \in OrdinaryNodes}
    BY <1>2 DEF WriteGraph
  <2>2. IndexExact /\ ClaimedOnce /\ ResultsJoined
    BY <2>1 DEF ReconstructInv
  <2>3. /\ Costs("FULL_CPU")' = Costs("FULL_CPU") /\ Costs("POTAL_COLLECTION")' = Costs("POTAL_COLLECTION")
        /\ \A n : VectorOf(n)' = VectorOf(n)
    BY <2>1, SameInput
  <2>4. EventsRead = {} /\ EventsRead' = {}
    BY <2>1, FilesAreSequences DEF EventsRead, ReconstructInv
  <2>5. \A q \in CollectionRoles : CostsRead(q)' = CostsRead(q)
    BY <2>1, <2>3 DEF CostsRead, CollectionRoles, Loaded, LoadLabel
  <2>6. IndexExact' /\ ClaimedOnce'
    BY <2>1, <2>2, <2>4, <2>5, SameReads DEF ReadsSame
  <2>7. ResultsJoined'
    BY <2>1, <2>4 DEF ResultsJoined
  <2>8. ASSUME NEW n \in OrdinaryNodes PROVE Ordinary(n) = VectorOf(n)
    <3> DEFINE F == "FULL_CPU"
    <3>1. CostsRead(F) = Costs(F)
      BY <2>1, ReadSets
    <3>2. ASSUME NEW r \in Ordinary(n) PROVE r \in VectorOf(n)
      <4>1. PICK t \in cpuSamples : t.role = F /\ t.record.node = n /\ r = t.record
        BY <3>2 DEF Ordinary
      <4>2. PICK q \in CollectionRoles : \E i \in CostsRead(q) : t = Indexed(q, i)
        BY <2>2 DEF IndexExact
      <4>3. PICK i \in CostsRead(q) : t = Indexed(q, i)
        BY <4>2
      <4>4. q = F /\ r = CostRecord(F, i) /\ CostRecord(F, i).node = n
        BY <4>1, <4>3 DEF Indexed
      <4> QED
        BY <3>1, <4>3, <4>4 DEF VectorOf
    <3>3. ASSUME NEW r \in VectorOf(n) PROVE r \in Ordinary(n)
      <4>1. PICK i \in Costs(F) : r = CostRecord(F, i) /\ r.node = n
        BY <3>3 DEF VectorOf
      <4>2. Indexed(F, i) \in cpuSamples /\ CostRecord(F, i).host = Absent
        BY <2>2, <3>1 DEF IndexExact
      <4>3. Indexed(F, i).role = F /\ Indexed(F, i).record = r
        BY <4>1 DEF Indexed
      <4> QED
        BY <4>1, <4>2, <4>3 DEF Ordinary
    <3> QED
      BY <3>2, <3>3
  <2>9. VectorsWhole'
    <3>1. \A n \in OrdinaryNodes : VectorOK(VectorOf(n))
      BY <2>1, <2>8
    <3> QED
      BY <2>3, <3>1 DEF VectorsWhole, OrdinaryNodes, VectorOK, ValidMeasurement
  <2> QED
    BY <2>1, <2>6, <2>7, <2>9 DEF ReconstructInv, Labels
<1> QED
  BY <1>1, <1>2

(* NpuJoin.write_admitted, one event. *)
LEMMA EventRead ==
  ASSUME ReconstructInv, pc = "TRACE", pc' = pc, in' = in, at' = at + 1, at <= Len(in.trace)
  PROVE  /\ EventsRead' = EventsRead \cup {at} /\ at \notin EventsRead /\ at \in DOMAIN in.trace
         /\ \A q \in CollectionRoles : CostsRead(q)' = CostsRead(q)
         /\ VectorsWhole'
<1>1. DOMAIN in.trace \subseteq Nat /\ at \in Nat /\ at \in DOMAIN in.trace
  BY FilesAreSequences DEF ReconstructInv
<1>2. EventsRead = {e \in DOMAIN in.trace : e < at} /\ EventsRead' = {e \in DOMAIN in.trace : e < at + 1}
  BY DEF EventsRead
<1>3. /\ Costs("FULL_CPU")' = Costs("FULL_CPU") /\ Costs("POTAL_COLLECTION")' = Costs("POTAL_COLLECTION")
      /\ \A n : VectorOf(n)' = VectorOf(n)
  BY SameInput
<1>4. \A q \in CollectionRoles : CostsRead(q)' = CostsRead(q)
  BY <1>3 DEF CostsRead, CollectionRoles, Loaded, LoadLabel
<1>5. VectorsWhole'
  <2>1. \A n \in OrdinaryNodes : VectorOK(VectorOf(n))
    BY DEF ReconstructInv, VectorsWhole
  <2> QED
    BY <1>3, <2>1 DEF VectorsWhole, OrdinaryNodes, VectorOK, ValidMeasurement
<1>6. EventsRead' = EventsRead \cup {at} /\ at \notin EventsRead
  BY <1>1, <1>2
<1> QED
  BY <1>1, <1>4, <1>5, <1>6

LEMMA HostKeeps ==
  ASSUME ReconstructInv, pc = "TRACE", at <= Len(in.trace), in.trace[at].kind = "HOST", HostStage(in.trace[at])
  PROVE  ReconstructInv'
<1> DEFINE P == "POTAL_COLLECTION"
           e == in.trace[at]
           found == {s \in cpuSamples : s.role = "POTAL_COLLECTION" /\ s.record.host = e.id}
           emulated == e.class = "FUNCTIONAL_EMULATION"
           bad == \/ \E s \in found : s.record.node /= e.node \/ emulated
                  \/ ~emulated /\ (found = {} \/ \E s \in found : ~ValidMeasurement(s.record))
<1>1. CASE bad
  <2>1. Refuse
    BY <1>1 DEF HostStage
  <2> QED
    BY <2>1, RefuseKeeps
<1>2. CASE ~bad
  <2>1. /\ cpuSamples' = cpuSamples \ found /\ at' = at + 1 /\ in' = in /\ pc' = pc /\ intervals' = intervals
        /\ rows' = IF emulated THEN rows ELSE rows \cup {<<"HOST", e.id, {s.record : s \in found}>>}
    BY <1>2 DEF HostStage
  <2>2. /\ EventsRead' = EventsRead \cup {at} /\ at \notin EventsRead /\ at \in DOMAIN in.trace /\ VectorsWhole'
        /\ CostsRead(P)' = CostsRead(P) /\ CostsRead("FULL_CPU")' = CostsRead("FULL_CPU")
        /\ \A q \in CollectionRoles : CostsRead(q)' = CostsRead(q)
    BY <2>1, EventRead DEF CollectionRoles
  <2>3. /\ \A q, i : CostRecord(q, i)' = CostRecord(q, i) /\ Indexed(q, i)' = Indexed(q, i)
        /\ \A i : Claims(i)' = Claims(i)
        /\ Works' = Works /\ \A n : RowOf(n)' = RowOf(n) /\ WorkNumber(n)' = WorkNumber(n)
        /\ \A x, r : ResultOK(x, r)' = ResultOK(x, r)
    BY <2>1, SameInput
  <2>4. IndexExact /\ ClaimedOnce /\ ResultsJoined
    BY DEF ReconstructInv
  <2>5. \A i : Indexed(P, i) \in found <=> Indexed(P, i) \in cpuSamples /\ CostRecord(P, i).host = e.id
    BY DEF Indexed
  <2>6. \A i : Indexed("FULL_CPU", i) \notin found
    BY DEF Indexed
  <2>7. IndexExact'
    <3>1. \A i \in CostsRead("FULL_CPU") : Indexed("FULL_CPU", i) \in cpuSamples'
      BY <2>1, <2>4, <2>6 DEF IndexExact
    <3>2. \A s \in cpuSamples' : s \in cpuSamples
      BY <2>1
    <3> HIDE DEF found
    <3> QED
      BY <2>1, <2>2, <2>3, <2>4, <3>1, <3>2 DEF IndexExact
  <2>8. ClaimedOnce'
    <3> SUFFICES ASSUME NEW i \in CostsRead(P)
                 PROVE  IF Indexed(P, i) \in cpuSamples' THEN Claims(i) \cap EventsRead' = {}
                        ELSE \E x \in EventsRead' : Claims(i) \cap EventsRead' = {x}
      BY <2>2, <2>3 DEF ClaimedOnce
    <3>1. IF Indexed(P, i) \in cpuSamples THEN Claims(i) \cap EventsRead = {}
          ELSE \E x \in EventsRead : Claims(i) \cap EventsRead = {x}
      BY <2>4 DEF ClaimedOnce
    <3>2. at \in Claims(i) <=> e.class = "POTAL_HOST" /\ e.id = CostRecord(P, i).host
      BY <2>2 DEF Claims
    <3>3. CASE emulated
      <4>1. found = {}
        BY <1>2, <3>3
      <4>2. cpuSamples' = cpuSamples /\ at \notin Claims(i)
        <5>1. e.class /= "POTAL_HOST"
          BY <3>3
        <5> QED
          BY <2>1, <3>2, <4>1, <5>1
      <4> HIDE DEF found, e
      <4>3. Claims(i) \cap EventsRead' = Claims(i) \cap EventsRead
        BY <2>2, <4>2
      <4> QED
        BY <2>2, <3>1, <4>2, <4>3
    <3>4. CASE ~emulated
      <4>1. e.class = "POTAL_HOST" /\ found /= {}
        BY <1>2, <2>2, <3>4, InputAssumption DEF ReconstructInv
      <4>2. PICK s : s \in found
        BY <4>1
      <4>3. PICK q \in CollectionRoles : \E j \in CostsRead(q) : s = Indexed(q, j)
        BY <2>4, <4>2 DEF IndexExact
      <4>4. PICK j \in CostsRead(q) : s = Indexed(q, j)
        BY <4>3
      <4>5. q = P /\ CostRecord(P, j).host = e.id /\ j \in CostsRead(P) /\ Indexed(P, j) \in cpuSamples
        BY <4>2, <4>4 DEF Indexed
      <4>6. CASE i = j
        <5>1. Indexed(P, i) \notin cpuSamples' /\ Claims(i) \cap EventsRead = {} /\ at \in Claims(i)
          BY <2>1, <2>5, <3>1, <3>2, <4>1, <4>5, <4>6
        <5> HIDE DEF found, e
        <5> QED
          BY <2>2, <5>1
      <4>7. CASE i /= j
        <5>1. CostRecord(P, i).host /= e.id
          BY <2>4, <4>5, <4>7 DEF IndexExact
        <5>2. (Indexed(P, i) \in cpuSamples' <=> Indexed(P, i) \in cpuSamples) /\ at \notin Claims(i)
          BY <2>1, <2>5, <3>2, <5>1
        <5> HIDE DEF found, e
        <5>3. Claims(i) \cap EventsRead' = Claims(i) \cap EventsRead
          BY <2>2, <5>2
        <5> QED
          BY <2>2, <3>1, <5>2, <5>3
      <4> QED
        BY <4>6, <4>7
    <3> QED
      BY <3>3, <3>4
  <2>9. ResultsJoined'
    <3>1. at \notin Works /\ Works \cap EventsRead' = Works \cap EventsRead
      <4>1. at \notin Works
        BY DEF Works, Joins
      <4> QED
        BY <2>2, <4>1
    <3>2. \A r : r[1] = "NPU" => (r \in rows' <=> r \in rows)
      <4> HIDE DEF found, e
      <4> QED
        BY <2>1
    <3>3. \A n : RowOf(n)[1] = "NPU"
      BY DEF RowOf
    <3> HIDE DEF found, e
    <3>4. \A r \in rows' : r[1] = "NPU" => \E n \in Works' \cap EventsRead' : r = RowOf(n)'
      BY <2>3, <2>4, <3>1, <3>2 DEF ResultsJoined
    <3>5. \A n \in Works' \cap EventsRead' : RowOf(n)' \in rows'
      BY <2>3, <2>4, <3>1, <3>2, <3>3 DEF ResultsJoined
    <3>6. \A n \in Works' \cap EventsRead' : ResultOK(in.trace[n], in.results[WorkNumber(n)])'
      BY <2>1, <2>3, <2>4, <3>1 DEF ResultsJoined, ResultOK
    <3> QED
      BY <3>4, <3>5, <3>6 DEF ResultsJoined
  <2> QED
    BY <2>1, <2>2, <2>7, <2>8, <2>9 DEF ReconstructInv, Labels
<1> QED
  BY <1>1, <1>2

LEMMA WorkKeeps ==
  ASSUME ReconstructInv, pc = "TRACE", at <= Len(in.trace), in.trace[at].kind = "WORK", WorkResult(in.trace[at])
  PROVE  ReconstructInv'
<1> DEFINE P == "POTAL_COLLECTION"
           e == in.trace[at]
           k == WorkNumber(at)
<1>1. CASE Refuse
  BY <1>1, RefuseKeeps
<1>2. CASE ~Refuse
  <2>1. /\ rows' = rows \cup {RowOf(at)} /\ at' = at + 1 /\ in' = in /\ pc' = pc /\ cpuSamples' = cpuSamples
        /\ intervals' = intervals /\ ResultOK(e, in.results[k])
    BY <1>2 DEF WorkResult, RowOf
  <2>2. /\ EventsRead' = EventsRead \cup {at} /\ at \notin EventsRead /\ at \in DOMAIN in.trace /\ VectorsWhole'
        /\ CostsRead(P)' = CostsRead(P) /\ CostsRead("FULL_CPU")' = CostsRead("FULL_CPU")
        /\ \A q \in CollectionRoles : CostsRead(q)' = CostsRead(q)
    BY <2>1, EventRead DEF CollectionRoles
  <2>3. /\ \A q, i : CostRecord(q, i)' = CostRecord(q, i) /\ Indexed(q, i)' = Indexed(q, i)
        /\ \A i : Claims(i)' = Claims(i)
        /\ Works' = Works /\ \A n : RowOf(n)' = RowOf(n) /\ WorkNumber(n)' = WorkNumber(n)
        /\ \A x, r : ResultOK(x, r)' = ResultOK(x, r)
    BY <2>1, SameInput
  <2>4. IndexExact /\ ClaimedOnce /\ ResultsJoined
    BY DEF ReconstructInv
  <2>5. IndexExact'
    BY <2>1, <2>2, <2>3, <2>4 DEF IndexExact
  <2>6. ClaimedOnce'
    <3>1. \A i : at \notin Claims(i)
      BY DEF Claims
    <3>2. \A i : Claims(i) \cap EventsRead' = Claims(i) \cap EventsRead
      BY <2>2, <3>1
    <3> QED
      BY <2>1, <2>2, <2>3, <2>4, <3>2 DEF ClaimedOnce
  <2>7. ResultsJoined'
    <3>1. Works \cap EventsRead' = (Works \cap EventsRead) \cup {at}
      <4>1. at \in Works
        BY <2>2 DEF Works, Joins
      <4> QED
        BY <2>2, <4>1
    <3>2. \A r \in rows' : r[1] = "NPU" => \E n \in Works' \cap EventsRead' : r = RowOf(n)'
      BY <2>1, <2>3, <2>4, <3>1 DEF ResultsJoined
    <3>3. \A n \in Works' \cap EventsRead' : RowOf(n)' \in rows'
      BY <2>1, <2>3, <2>4, <3>1 DEF ResultsJoined
    <3>4. \A n \in Works' \cap EventsRead' : ResultOK(in.trace[n], in.results[WorkNumber(n)])'
      BY <2>1, <2>3, <2>4, <3>1 DEF ResultsJoined, ResultOK
    <3> QED
      BY <3>2, <3>3, <3>4 DEF ResultsJoined
  <2> QED
    BY <2>1, <2>2, <2>5, <2>6, <2>7 DEF ReconstructInv, Labels
<1> QED
  BY <1>1, <1>2

LEMMA JoinTraceKeeps == ASSUME ReconstructInv, JoinTrace PROVE ReconstructInv'
<1>1. pc = "TRACE"
  BY DEF JoinTrace
<1>2. CASE at > Len(in.trace)
  <2>1. in' = in /\ at' = 1 /\ cpuSamples' = cpuSamples /\ intervals' = intervals /\ rows' = rows /\ pc' = "FINISH"
    BY <1>2 DEF JoinTrace, Goto
  <2>2. Costs("FULL_CPU")' = Costs("FULL_CPU") /\ Costs("POTAL_COLLECTION")' = Costs("POTAL_COLLECTION")
    BY <2>1, SameInput
  <2>3. \A q \in CollectionRoles : CostsRead(q)' = CostsRead(q)
    BY <1>1, <2>1, <2>2 DEF CostsRead, CollectionRoles, Loaded, LoadLabel
  <2>4. EventsRead' = EventsRead
    BY <1>1, <1>2, <2>1, FilesAreSequences DEF EventsRead, ReconstructInv
  <2> QED
    BY <1>1, <2>1, <2>3, <2>4, MoveKeeps DEF Labels
<1>3. CASE ~(at > Len(in.trace))
  <2>1. at <= Len(in.trace) /\ at \in DOMAIN in.trace
    BY <1>3, FilesAreSequences DEF ReconstructInv
  <2>2. in.trace[at].kind = "WORK" \/ in.trace[at].kind = "HOST"
    BY <2>1, InputAssumption DEF ReconstructInv
  <2>3. CASE in.trace[at].kind = "HOST"
    <3>1. HostStage(in.trace[at])
      BY <1>3, <2>3 DEF JoinTrace
    <3> QED
      BY <1>1, <2>1, <2>3, <3>1, HostKeeps
  <2>4. CASE in.trace[at].kind = "WORK"
    <3>1. WorkResult(in.trace[at])
      BY <1>3, <2>4 DEF JoinTrace
    <3> QED
      BY <1>1, <2>1, <2>4, <3>1, WorkKeeps
  <2> QED
    BY <2>2, <2>3, <2>4
<1> QED
  BY <1>2, <1>3

LEMMA FinishKeeps == ASSUME ReconstructInv, Finish PROVE ReconstructInv'
<1>1. CASE ~JoinComplete
  BY <1>1, RefuseKeeps DEF Finish
<1>2. CASE JoinComplete
  <2>1. pc = "FINISH" /\ in' = in /\ at' = 1 /\ cpuSamples' = cpuSamples /\ intervals' = intervals /\ rows' = rows /\ pc' = "PASS"
    BY <1>2 DEF Finish, Goto
  <2>2. Costs("FULL_CPU")' = Costs("FULL_CPU") /\ Costs("POTAL_COLLECTION")' = Costs("POTAL_COLLECTION")
    BY <2>1, SameInput
  <2>3. \A q \in CollectionRoles : CostsRead(q)' = CostsRead(q)
    BY <2>1, <2>2 DEF CostsRead, CollectionRoles, Loaded, LoadLabel
  <2>4. EventsRead' = EventsRead
    BY <2>1 DEF EventsRead
  <2> QED
    BY <1>2, <2>1, <2>3, <2>4, MoveKeeps DEF Labels
<1> QED
  BY <1>1, <1>2

(* reconstruct(): for every pair of collections, trace and file of         *)
(* results, the index and the dataset say exactly what has been read.      *)
THEOREM ReconstructInvariant == ReconstructSpec => []ReconstructInv
<1>1. ReconstructInit => ReconstructInv
  <2> SUFFICES ASSUME ReconstructInit PROVE ReconstructInv
    OBVIOUS
  <2>1. CostsRead("FULL_CPU") = {} /\ CostsRead("POTAL_COLLECTION") = {} /\ EventsRead = {}
    BY ReadSets DEF ReconstructInit
  <2> QED
    BY <2>1 DEF ReconstructInit, ReconstructInv, IndexExact, ClaimedOnce, VectorsWhole, ResultsJoined, Labels
<1>2. ReconstructInv /\ [ReconstructNext]_reconstructVars => ReconstructInv'
  <2> SUFFICES ASSUME ReconstructInv, [ReconstructNext]_reconstructVars PROVE ReconstructInv'
    OBVIOUS
  <2>1. CASE Provenance
    BY <2>1, ProvenanceKeeps
  <2>2. CASE Load("FULL_CPU", "LOAD_FULL", "LOAD_POTAL")
    BY <2>2, LoadKeeps DEF LoadLabel, CollectionRoles
  <2>3. CASE Load("POTAL_COLLECTION", "LOAD_POTAL", "GRAPH")
    BY <2>3, LoadKeeps DEF LoadLabel, CollectionRoles
  <2>4. CASE WriteGraph
    BY <2>4, WriteGraphKeeps
  <2>5. CASE JoinTrace
    BY <2>5, JoinTraceKeeps
  <2>6. CASE Finish
    BY <2>6, FinishKeeps
  <2>7. CASE UNCHANGED reconstructVars
    <3>1. /\ in' = in /\ at' = at /\ pc' = pc /\ cpuSamples' = cpuSamples /\ intervals' = intervals /\ rows' = rows
      BY <2>7 DEF reconstructVars
    <3>2. CASE pc = "REFUSED"
      BY <3>1, <3>2 DEF ReconstructInv
    <3>3. CASE pc /= "REFUSED"
      <4>1. Costs("FULL_CPU")' = Costs("FULL_CPU") /\ Costs("POTAL_COLLECTION")' = Costs("POTAL_COLLECTION")
        BY <3>1, SameInput
      <4>2. \A q \in CollectionRoles : CostsRead(q)' = CostsRead(q)
        BY <3>1, <4>1 DEF CostsRead, CollectionRoles, Loaded, LoadLabel
      <4>3. EventsRead' = EventsRead
        BY <3>1 DEF EventsRead
      <4>4. at \in Nat \ {0} /\ pc \in Labels /\ (pc = "PASS" => JoinComplete)
        BY DEF ReconstructInv
      <4> QED
        BY <3>1, <3>3, <4>2, <4>3, <4>4, MoveKeeps
    <3> QED
      BY <3>2, <3>3
  <2> QED
    BY <2>1, <2>2, <2>3, <2>4, <2>5, <2>6, <2>7 DEF ReconstructNext
<1> QED
  BY <1>1, <1>2, PTL DEF ReconstructSpec

(* reconstruct(): a dataset that is written counts every cost once: every  *)
(* ordinary node has its whole worker vector, every measured host stage is *)
(* claimed by one event of the trace, intervals of a thread do not         *)
(* overlap, and every work has the one result modelled for it.             *)
THEOREM DatasetCountsCostsOnce == ReconstructSpec => []CostsCountedOnce
<1>1. ReconstructInv => CostsCountedOnce
  <2> SUFFICES ASSUME ReconstructInv, pc = "PASS" PROVE CostsCountedOnce
    BY DEF CostsCountedOnce
  <2> DEFINE P == "POTAL_COLLECTION"
  <2>1. /\ IndexExact /\ ClaimedOnce /\ VectorsWhole /\ ResultsJoined /\ JoinComplete /\ in \in Candidates
        /\ CostsRead(P) = Costs(P) /\ EventsRead = DOMAIN in.trace
    BY ReadSets DEF ReconstructInv
  <2>2. \A n \in OrdinaryNodes : LET mine == VectorOf(n) IN mine /= {} /\ \A r \in mine : {w.worker : w \in mine} = 0 .. (r.workers - 1)
    BY <2>1 DEF VectorsWhole, VectorOK
  <2>3. ASSUME NEW i \in Costs(P) PROVE Cardinality(Claims(i)) = 1
    <3>1. Indexed(P, i) \notin cpuSamples
      <4>1. CostRecord(P, i).host /= Absent
        BY <2>1 DEF IndexExact
      <4>2. Indexed(P, i).record.host /= Absent
        BY <4>1 DEF Indexed
      <4> QED
        BY <2>1, <4>2 DEF JoinComplete, NothingLeft
    <3>2. PICK e \in EventsRead : Claims(i) \cap EventsRead = {e}
      BY <2>1, <3>1 DEF ClaimedOnce
    <3>3. Claims(i) = {e}
      <4>1. Claims(i) \subseteq DOMAIN in.trace
        BY DEF Claims
      <4> QED
        BY <2>1, <3>2, <4>1
    <3> QED
      BY <3>3, FS_Singleton
  <2>4. ASSUME NEW i \in Costs(P), NEW j \in Costs(P), i /= j, CostRecord(P, i).thread = CostRecord(P, j).thread,
               CostRecord(P, i).start < CostRecord(P, i).end, CostRecord(P, j).start < CostRecord(P, j).end
        PROVE  CostRecord(P, i).end <= CostRecord(P, j).start \/ CostRecord(P, j).end <= CostRecord(P, i).start
    <3> DEFINE a == CostRecord(P, i)
               b == CostRecord(P, j)
               x == IntervalOf(a)
               y == IntervalOf(b)
    <3>1. a.start \in Nat /\ a.end \in Nat /\ b.start \in Nat /\ b.end \in Nat
      <4>1. i \in DOMAIN in[P].log /\ j \in DOMAIN in[P].log
        BY DEF Costs
      <4>2. \A n \in DOMAIN in[P].log : {in[P].log[n].start, in[P].log[n].end} \subseteq Nat
        BY <2>1, InputAssumption DEF CollectionRoles
      <4> QED
        BY <4>1, <4>2 DEF CostRecord
    <3>2. x \in intervals /\ y \in intervals /\ x.host /= y.host
      <4>1. IntervalOf(CostRecord(P, i)) \in intervals /\ IntervalOf(CostRecord(P, j)) \in intervals
            /\ CostRecord(P, i).host /= CostRecord(P, j).host
        BY <2>1, <2>4 DEF IndexExact
      <4> QED
        BY <4>1 DEF IntervalOf
    <3>3. /\ x.thread = y.thread /\ x.start = a.start /\ x.end = a.end /\ y.start = b.start /\ y.end = b.end
      BY <2>4 DEF IntervalOf
    <3>4. /\ ~(RunsBefore(x, y) /\ y.start < x.end)
          /\ ~(RunsBefore(y, x) /\ x.start < y.end)
      <4> HIDE DEF a, b, x, y
      <4>1. x.end > x.start /\ y.end > y.start
        BY <2>4, <3>1, <3>3 DEF a, b
      <4> QED
        BY <2>1, <3>2, <4>1 DEF JoinComplete, Additive
    <3> HIDE DEF a, b, x, y
    <3>5. x /= y
      BY <3>2
    <3>6. RunsBefore(x, y) \/ RunsBefore(y, x)
      BY <3>1, <3>3, <3>5 DEF RunsBefore
    <3>7. a.end <= b.start \/ b.end <= a.start
      BY <3>1, <3>3, <3>4, <3>6
    <3> QED
      BY <3>7 DEF a, b
  <2>5. ASSUME NEW n \in Works
        PROVE  \E r \in rows : r[1] = "NPU" /\ r[2] = in.trace[n].id
                 /\ r[3].work = in.trace[n].id /\ r[3].binding = in.trace[n].binding /\ r[3].authority = in.authority
    <3>1. n \in Works \cap EventsRead
      BY <2>1 DEF Works, Joins
    <3>2. RowOf(n) \in rows /\ ResultOK(in.trace[n], in.results[WorkNumber(n)])
      BY <2>1, <3>1 DEF ResultsJoined
    <3> QED
      BY <3>2 DEF RowOf, ResultOK
  <2>6. Cardinality({r \in rows : r[1] = "NPU"}) = Len(in.results)
    <3> DEFINE R == {r \in rows : r[1] = "NPU"}
               f == [n \in Works |-> RowOf(n)]
    <3>1. Works \cap EventsRead = Works
      BY <2>1 DEF Works, Joins
    <3>2. \A n : RowOf(n)[1] = "NPU" /\ RowOf(n)[2] = in.trace[n].id
      BY DEF RowOf
    <3>3. \A n \in Works : RowOf(n) \in R
      BY <2>1, <3>1, <3>2 DEF ResultsJoined
    <3>4. \A r \in R : \E n \in Works : r = RowOf(n)
      BY <2>1, <3>1 DEF ResultsJoined
    <3>5. \A m, n \in Works : RowOf(m) = RowOf(n) => m = n
      <4>1. \A m, n \in Works : in.trace[m].id = in.trace[n].id => m = n
        BY <2>1, InputAssumption DEF Works
      <4> QED
        BY <3>2, <4>1
    <3>6. IsFiniteSet(Works)
      <4>1. IsFiniteSet(1 .. Len(in.trace)) /\ DOMAIN in.trace = 1 .. Len(in.trace)
        <5>1. Len(in.trace) \in Nat /\ DOMAIN in.trace = 1 .. Len(in.trace)
          BY <2>1, FilesAreSequences
        <5> QED
          BY <5>1, FS_Interval
      <4>2. Works \subseteq 1 .. Len(in.trace)
        BY <4>1 DEF Works, Joins
      <4> QED
        BY <4>1, <4>2, FS_Subset
    <3> HIDE DEF R
    <3>7. f \in Bijection(Works, R)
      <4>1. f \in [Works -> R] /\ \A n \in Works : f[n] = RowOf(n)
        BY <3>3
      <4> HIDE DEF f
      <4>2. f \in Injection(Works, R)
        BY <3>5, <4>1 DEF Injection, IsInjective
      <4>3. f \in Surjection(Works, R)
        BY <3>4, <4>1 DEF Surjection
      <4> QED
        BY <4>2, <4>3 DEF Bijection
    <3>8. Cardinality(R) = Cardinality(Works)
      BY <3>6, <3>7, FS_Bijection DEF ExistsBijection
    <3> QED
      BY <2>1, <3>8 DEF JoinComplete, R
  <2> QED
    BY <2>2, <2>3, <2>4, <2>5, <2>6 DEF CostsCountedOnce, VectorOf, Claims, CostRecord
<1> QED
  BY <1>1, ReconstructInvariant, PTL
(***************************************************************************)
(* Lifecycle: the inductive invariant                                      *)
(***************************************************************************)
DispatchRecord == [phase : Nat, begin : Nat, end : Nat]

SampleRecord == [dispatch : Nat, token : Tokens, cursor : Nat]

LifecycleTypes ==
  /\ mode \in {"NONE", "FULL", "PIPELINE", "FORCED"}
  /\ phases \in Seq(Nat) /\ preps \in Seq(Nat)
  /\ samples \in Seq(SampleRecord) /\ dispatches \in Seq(DispatchRecord)
  /\ cursor \in 0 .. Len(GraphPhase)
  /\ active \in BOOLEAN /\ ended \in BOOLEAN

\* Phases and samples alternate.
Alternate == Len(samples) <= Len(phases) /\ Len(phases) <= Len(samples) + 1

\* The dispatches cut the graphs up to the cursor into windows of one phase.
WindowsCut ==
  /\ \A g \in 1 .. cursor : \E d \in 1 .. Len(dispatches) :
        dispatches[d].begin <= g /\ g <= dispatches[d].end /\ dispatches[d].phase = GraphPhase[g]
  /\ \A d \in 1 .. Len(dispatches) : dispatches[d].end <= cursor /\ dispatches[d].phase <= Len(phases)
  /\ \A c, d \in 1 .. Len(dispatches) : c < d => dispatches[c].end < dispatches[d].begin
  /\ \A d \in 2 .. Len(dispatches) : dispatches[d].begin = dispatches[d - 1].end + 1
  /\ Len(dispatches) > 0 => dispatches[Len(dispatches)].end = cursor
  /\ Len(dispatches) = 0 => cursor = 0

\* A PHASE event separates the graphs of the earlier phases from the others.
PhasesSplit ==
  /\ \A p \in 1 .. Len(phases) :
       /\ phases[p] <= cursor
       /\ \A g \in 1 .. cursor : IF g <= phases[p] THEN GraphPhase[g] < p ELSE GraphPhase[g] >= p
  /\ \A g \in 1 .. cursor : GraphPhase[g] <= Len(phases)

\* What ran after a sample began after it.
SamplesSplit ==
  \A i \in 1 .. Len(samples) :
    /\ samples[i].cursor <= cursor /\ samples[i].dispatch <= Len(dispatches)
    /\ \A d \in 1 .. Len(dispatches) :
         dispatches[d].phase > i => dispatches[d].begin > samples[i].cursor /\ d > samples[i].dispatch

\* In the prefill the n-th batch announces the n-th dispatch.
Prepared ==
  mode = "PIPELINE" =>
    /\ \A d \in 1 .. Len(dispatches) : dispatches[d].phase = 1 => d <= Len(preps) /\ preps[d] = d
    /\ Len(phases) <= 1 =>
         /\ Len(dispatches) <= Len(preps)
         /\ \A n \in 1 .. Len(preps) : n <= Len(dispatches) + 1 => preps[n] = n
         /\ active => Len(preps) = Len(dispatches) + 1
         /\ \A d \in 1 .. Len(dispatches) : dispatches[d].phase = 1

RunComplete ==
  /\ ended => Len(phases) = PhaseCount /\ cursor = Len(GraphPhase)
  /\ outcome /= "NONE" => ended
  /\ outcome = "ACCEPTED" => FollowsInputs
  /\ active => phases /= << >>
  /\ mode = "NONE" => phases = << >> /\ dispatches = << >> /\ preps = << >> /\ ~active

LifecycleInv ==
  LifecycleTypes /\ Alternate /\ WindowsCut /\ PhasesSplit /\ SamplesSplit /\ Prepared /\ RunComplete
----------------------------------------------------------------------------
LEMMA LifecycleStarts == LifecycleInit => LifecycleInv
<1> SUFFICES ASSUME LifecycleInit PROVE LifecycleInv
  OBVIOUS
<1>1. /\ phases = << >> /\ preps = << >> /\ samples = << >> /\ dispatches = << >> /\ cursor = 0
      /\ Len(phases) = 0 /\ Len(samples) = 0 /\ Len(dispatches) = 0 /\ Len(preps) = 0
      /\ mode = "NONE" /\ active = FALSE /\ ended = FALSE /\ outcome = "NONE"
  BY DEF LifecycleInit
<1>2. LifecycleTypes
  <2>1. 0 \in 0 .. Len(GraphPhase)
    BY ManifestShape
  <2>2. phases \in Seq(Nat) /\ preps \in Seq(Nat) /\ samples \in Seq(SampleRecord) /\ dispatches \in Seq(DispatchRecord)
    BY <1>1
  <2> QED
    BY <1>1, <2>1, <2>2 DEF LifecycleTypes
<1>3. Alternate /\ WindowsCut /\ PhasesSplit /\ SamplesSplit /\ Prepared /\ RunComplete
  BY <1>1 DEF Alternate, WindowsCut, PhasesSplit, SamplesSplit, Prepared, RunComplete
<1> QED
  BY <1>2, <1>3 DEF LifecycleInv

\* The lengths of what is recorded, as numbers.
LEMMA LengthsAreNat ==
    ASSUME LifecycleTypes
    PROVE  /\ Len(phases) \in Nat /\ Len(samples) \in Nat /\ Len(dispatches) \in Nat /\ Len(preps) \in Nat
           /\ cursor \in Nat /\ cursor <= Len(GraphPhase) /\ Len(GraphPhase) \in Nat
           /\ DOMAIN phases = 1 .. Len(phases) /\ DOMAIN samples = 1 .. Len(samples)
           /\ DOMAIN dispatches = 1 .. Len(dispatches) /\ DOMAIN preps = 1 .. Len(preps)
           /\ Graphs = 1 .. Len(GraphPhase)
<1>1. /\ Len(phases) \in Nat /\ Len(samples) \in Nat /\ Len(dispatches) \in Nat /\ Len(preps) \in Nat
      /\ DOMAIN phases = 1 .. Len(phases) /\ DOMAIN samples = 1 .. Len(samples)
      /\ DOMAIN dispatches = 1 .. Len(dispatches) /\ DOMAIN preps = 1 .. Len(preps)
  BY DEF LifecycleTypes
<1>2. Len(GraphPhase) \in Nat /\ Graphs = 1 .. Len(GraphPhase)
  BY ManifestShape DEF Graphs
<1>3. cursor \in Nat /\ cursor <= Len(GraphPhase)
  BY <1>2 DEF LifecycleTypes
<1> QED
  BY <1>1, <1>2, <1>3

\* What a dispatch and a sample record.
LEMMA RecordTypes ==
    ASSUME LifecycleTypes
    PROVE  /\ \A d \in 1 .. Len(dispatches) :
                dispatches[d].phase \in Nat /\ dispatches[d].begin \in Nat /\ dispatches[d].end \in Nat
           /\ \A i \in 1 .. Len(samples) : samples[i].cursor \in Nat /\ samples[i].dispatch \in Nat
<1>1. \A d \in 1 .. Len(dispatches) : dispatches[d] \in DispatchRecord
  BY DEF LifecycleTypes
<1>2. \A i \in 1 .. Len(samples) : samples[i] \in SampleRecord
  BY DEF LifecycleTypes
<1>3. \A d \in DispatchRecord : d.phase \in Nat /\ d.begin \in Nat /\ d.end \in Nat
  BY DEF DispatchRecord
<1>4. \A i \in SampleRecord : i.cursor \in Nat /\ i.dispatch \in Nat
  BY DEF SampleRecord
<1> QED
  BY <1>1, <1>2, <1>3, <1>4

\* An event that moves none of what the projection is made of.
LEMMA RecordsKept ==
    ASSUME LifecycleInv, UNCHANGED <<phases, samples, dispatches, cursor>>
    PROVE  Alternate' /\ WindowsCut' /\ PhasesSplit' /\ SamplesSplit'
  BY DEF LifecycleInv, Alternate, WindowsCut, PhasesSplit, SamplesSplit

LEMMA RunKeeps == ASSUME LifecycleInv, NEW m \in Modes, Run(m) PROVE LifecycleInv'
<1>1. /\ mode = "NONE" /\ mode' = m /\ UNCHANGED <<phases, samples, dispatches, cursor, active, preps, ended, outcome>>
      /\ m \in {"FULL", "PIPELINE", "FORCED"}
  BY ManifestShape DEF Run
<1>2. phases = << >> /\ dispatches = << >> /\ preps = << >> /\ ~active
  BY <1>1 DEF LifecycleInv, RunComplete
<1>3. LifecycleTypes'
  BY <1>1 DEF LifecycleInv, LifecycleTypes
<1>4. RunComplete'
  BY <1>1, <1>2 DEF LifecycleInv, RunComplete, FollowsInputs
<1>5. Prepared'
  BY <1>1, <1>2 DEF Prepared
<1> QED
  BY <1>1, <1>3, <1>4, <1>5, RecordsKept DEF LifecycleInv

LEMMA PhaseKeeps == ASSUME LifecycleInv, Phase PROVE LifecycleInv'
<1>1. /\ mode /= "NONE" /\ ~ended /\ ~active /\ Len(samples) = Len(phases) /\ Len(phases) < PhaseCount
      /\ phases' = Append(phases, cursor)
      /\ UNCHANGED <<mode, samples, dispatches, cursor, active, preps, ended, outcome>>
  BY DEF Phase, Between
<1>2. PICK P \in Nat : P = Len(phases)
  BY LengthsAreNat DEF LifecycleInv
<1>3. /\ phases' \in Seq(Nat) /\ Len(phases') = P + 1 /\ phases'[P + 1] = cursor
      /\ \A p \in 1 .. P : phases'[p] = phases[p]
  BY <1>1, <1>2, LengthsAreNat DEF LifecycleInv, LifecycleTypes
<1>4. /\ Len(samples) \in Nat /\ Len(dispatches) \in Nat /\ cursor \in Nat /\ Len(preps) \in Nat
  BY LengthsAreNat DEF LifecycleInv
<1>5. LifecycleTypes'
  BY <1>1, <1>3 DEF LifecycleInv, LifecycleTypes
<1>6. Alternate'
  BY <1>1, <1>2, <1>3, <1>4 DEF Alternate
<1>7. \A d \in 1 .. Len(dispatches) : dispatches[d].phase <= P /\ dispatches[d].phase \in Nat
  BY <1>2, RecordTypes DEF LifecycleInv, WindowsCut
<1>8. WindowsCut'
  BY <1>1, <1>2, <1>3, <1>7 DEF LifecycleInv, WindowsCut
<1>9. \A g \in 1 .. cursor : GraphPhase[g] \in Nat /\ GraphPhase[g] <= P
  <2>1. \A g \in 1 .. cursor : g \in 1 .. Len(GraphPhase) /\ GraphPhase[g] \in Nat
    BY ManifestShape, LengthsAreNat DEF LifecycleInv
  <2> QED
    BY <1>2, <2>1 DEF LifecycleInv, PhasesSplit
<1>10. PhasesSplit'
  <2>1. \A g \in 1 .. cursor : GraphPhase[g] <= P + 1
    BY <1>2, <1>9
  <2>2. ASSUME NEW p \in 1 .. (P + 1)
        PROVE  /\ phases'[p] <= cursor
               /\ \A g \in 1 .. cursor : IF g <= phases'[p] THEN GraphPhase[g] < p ELSE GraphPhase[g] >= p
    <3>1. CASE p = P + 1
      BY <1>2, <1>3, <1>4, <1>9, <3>1
    <3>2. CASE p \in 1 .. P
      BY <1>2, <1>3, <3>2 DEF LifecycleInv, PhasesSplit
    <3> QED
      BY <1>2, <3>1, <3>2
  <2> QED
    BY <1>1, <1>3, <2>1, <2>2 DEF PhasesSplit
<1>11. SamplesSplit'
  BY <1>1 DEF LifecycleInv, SamplesSplit
<1>12. Prepared'
  <2>1. P + 1 <= 1 => P <= 1
    BY <1>2
  <2> QED
    BY <1>1, <1>2, <1>3, <2>1 DEF LifecycleInv, Prepared
<1>13. RunComplete'
  BY <1>1 DEF LifecycleInv, RunComplete, FollowsInputs
<1> QED
  BY <1>5, <1>6, <1>8, <1>10, <1>11, <1>12, <1>13 DEF LifecycleInv

\* The events that touch only the request, the parents and the owners.
LEMMA AsideKeeps ==
    ASSUME LifecycleInv, UNCHANGED <<mode, phases, samples, dispatches, cursor, active, preps, ended, outcome>>
    PROVE  LifecycleInv'
<1>1. LifecycleTypes' /\ Prepared' /\ RunComplete'
  BY DEF LifecycleInv, LifecycleTypes, Prepared, RunComplete, FollowsInputs
<1> QED
  BY <1>1, RecordsKept DEF LifecycleInv

LEMMA PrefillBatchReadyKeeps == ASSUME LifecycleInv, PrefillBatchReady PROVE LifecycleInv'
<1>1. /\ mode /= "NONE" /\ ~ended /\ ~active /\ Len(phases) = 1
      /\ preps' = Append(preps, Len(dispatches) + 1)
      /\ UNCHANGED <<mode, phases, samples, dispatches, cursor, active, ended, outcome>>
  BY DEF PrefillBatchReady, Between
<1>2. PICK N \in Nat : N = Len(preps)
  BY LengthsAreNat DEF LifecycleInv
<1>3. PICK D \in Nat : D = Len(dispatches)
  BY LengthsAreNat DEF LifecycleInv
<1>4. /\ preps' \in Seq(Nat) /\ Len(preps') = N + 1 /\ preps'[N + 1] = D + 1
      /\ \A n \in 1 .. N : preps'[n] = preps[n]
  BY <1>1, <1>2, <1>3 DEF LifecycleInv, LifecycleTypes
<1>5. LifecycleTypes'
  BY <1>1, <1>4 DEF LifecycleInv, LifecycleTypes
<1>6. RunComplete'
  BY <1>1 DEF LifecycleInv, RunComplete, FollowsInputs
<1>7. Prepared'
  <2> SUFFICES ASSUME mode = "PIPELINE" PROVE Prepared'
    BY <1>1 DEF Prepared
  <2>1. /\ \A d \in 1 .. D : dispatches[d].phase = 1 /\ preps[d] = d /\ d <= N
        /\ D <= N /\ \A n \in 1 .. N : n <= D + 1 => preps[n] = n
    BY <1>1, <1>2, <1>3 DEF LifecycleInv, Prepared
  <2>2. \A d \in 1 .. D : dispatches[d].phase = 1 /\ preps'[d] = d /\ d <= N + 1
    BY <1>2, <1>3, <1>4, <2>1
  <2>3. \A n \in 1 .. (N + 1) : n <= D + 1 => preps'[n] = n
    BY <1>2, <1>3, <1>4, <2>1
  <2>4. D <= N + 1
    BY <1>2, <1>3, <2>1
  <2> QED
    BY <1>1, <1>3, <1>4, <2>2, <2>3, <2>4 DEF Prepared
<1> QED
  BY <1>1, <1>5, <1>6, <1>7, RecordsKept DEF LifecycleInv

LEMMA DispatchBeginKeeps == ASSUME LifecycleInv, DispatchBegin PROVE LifecycleInv'
<1>1. /\ mode /= "NONE" /\ ~ended /\ ~active /\ phases /= << >> /\ active' = TRUE
      /\ mode = "PIPELINE" /\ Len(phases) = 1 => Len(preps) = Len(dispatches) + 1
      /\ UNCHANGED <<mode, phases, samples, dispatches, cursor, preps, ended, outcome>>
  BY DEF DispatchBegin, Between
<1>2. LifecycleTypes' /\ RunComplete'
  BY <1>1 DEF LifecycleInv, LifecycleTypes, RunComplete, FollowsInputs
<1>3. Len(phases) \in Nat /\ Len(phases) /= 0
  BY <1>1 DEF LifecycleInv, LifecycleTypes
<1>4. Prepared'
  <2>1. Len(phases) <= 1 => Len(phases) = 1
    BY <1>3
  <2> QED
    BY <1>1, <2>1 DEF LifecycleInv, Prepared
<1> QED
  BY <1>1, <1>2, <1>4, RecordsKept DEF LifecycleInv

\* A dispatch extends the cut by a window of the current phase.
LEMMA DispatchEndKeeps == ASSUME LifecycleInv, NEW end \in Graphs, DispatchEnd(end) PROVE LifecycleInv'
<1> DEFINE new == [phase |-> Len(phases), begin |-> cursor + 1, end |-> end]
<1>1. /\ mode /= "NONE" /\ ~ended /\ active /\ active' = FALSE /\ cursor' = end
      /\ cursor < end /\ end <= Len(GraphPhase) /\ \A g \in cursor + 1 .. end : GraphPhase[g] = Len(phases)
      /\ dispatches' = Append(dispatches, new)
      /\ UNCHANGED <<mode, phases, samples, preps, ended, outcome>>
  BY DEF DispatchEnd, Window
<1>2. PICK D \in Nat : D = Len(dispatches)
  BY LengthsAreNat DEF LifecycleInv
<1>3. /\ Len(phases) \in Nat /\ cursor \in Nat /\ end \in Nat /\ Len(samples) \in Nat /\ Len(preps) \in Nat
  BY LengthsAreNat DEF LifecycleInv
<1>4. new \in DispatchRecord /\ new.phase = Len(phases) /\ new.begin = cursor + 1 /\ new.end = end
  BY <1>3 DEF DispatchRecord
<1> HIDE DEF new
<1>5. /\ dispatches' \in Seq(DispatchRecord) /\ Len(dispatches') = D + 1 /\ dispatches'[D + 1] = new
      /\ \A d \in 1 .. D : dispatches'[d] = dispatches[d]
  BY <1>1, <1>2, <1>4 DEF LifecycleInv, LifecycleTypes
<1>6. \A d \in 1 .. D : dispatches[d].phase \in Nat /\ dispatches[d].begin \in Nat /\ dispatches[d].end \in Nat
  BY <1>2, RecordTypes DEF LifecycleInv
<1>7. LifecycleTypes'
  <2>1. end \in 0 .. Len(GraphPhase)
    BY <1>1, <1>3, LengthsAreNat DEF LifecycleInv
  <2> QED
    BY <1>1, <1>5, <2>1 DEF LifecycleInv, LifecycleTypes
<1>8. Alternate'
  BY <1>1 DEF LifecycleInv, Alternate
<1>9. WindowsCut'
  <2>1. ASSUME NEW g \in 1 .. end
        PROVE  \E d \in 1 .. (D + 1) : dispatches'[d].begin <= g /\ g <= dispatches'[d].end /\ dispatches'[d].phase = GraphPhase[g]
    <3>1. CASE g <= cursor
      <4>1. PICK d \in 1 .. D : dispatches[d].begin <= g /\ g <= dispatches[d].end /\ dispatches[d].phase = GraphPhase[g]
        BY <1>2, <1>3, <3>1 DEF LifecycleInv, WindowsCut
      <4>2. d \in 1 .. (D + 1) /\ dispatches'[d] = dispatches[d]
        BY <1>2, <1>5
      <4> QED
        BY <4>1, <4>2
    <3>2. CASE g > cursor
      <4>1. g \in cursor + 1 .. end /\ D + 1 \in 1 .. (D + 1)
        BY <1>2, <1>3, <3>2
      <4> QED
        BY <1>1, <1>4, <1>5, <4>1
    <3> QED
      BY <1>3, <3>1, <3>2
  <2>2. ASSUME NEW d \in 1 .. (D + 1) PROVE dispatches'[d].end <= end /\ dispatches'[d].phase <= Len(phases)
    <3>1. CASE d = D + 1
      BY <1>3, <1>4, <1>5, <3>1
    <3>2. CASE d \in 1 .. D
      <4>1. dispatches[d].end <= cursor /\ dispatches[d].phase <= Len(phases)
        BY <1>2, <3>2 DEF LifecycleInv, WindowsCut
      <4> QED
        BY <1>1, <1>3, <1>5, <1>6, <3>2, <4>1
    <3> QED
      BY <1>2, <3>1, <3>2
  <2>3. ASSUME NEW c \in 1 .. (D + 1), NEW d \in 1 .. (D + 1), c < d
        PROVE  dispatches'[c].end < dispatches'[d].begin
    <3>1. c \in 1 .. D
      BY <1>2, <2>3
    <3>2. CASE d = D + 1
      <4>1. dispatches[c].end <= cursor
        BY <1>2, <3>1 DEF LifecycleInv, WindowsCut
      <4> QED
        BY <1>3, <1>4, <1>5, <1>6, <3>1, <3>2, <4>1
    <3>3. CASE d \in 1 .. D
      BY <1>2, <1>5, <2>3, <3>1, <3>3 DEF LifecycleInv, WindowsCut
    <3> QED
      BY <1>2, <3>2, <3>3
  <2>4. ASSUME NEW d \in 2 .. (D + 1) PROVE dispatches'[d].begin = dispatches'[d - 1].end + 1
    <3>1. d - 1 \in 1 .. D
      BY <1>2
    <3>2. CASE d = D + 1
      <4>1. d - 1 = D /\ D > 0
        BY <1>2, <3>1, <3>2
      <4>2. dispatches[D].end = cursor
        BY <1>2, <4>1 DEF LifecycleInv, WindowsCut
      <4> QED
        BY <1>4, <1>5, <3>1, <3>2, <4>1, <4>2
    <3>3. CASE d \in 2 .. D
      <4>1. d \in 1 .. D
        BY <1>2, <3>3
      <4> QED
        BY <1>2, <1>5, <3>1, <3>3, <4>1 DEF LifecycleInv, WindowsCut
    <3> QED
      BY <1>2, <3>2, <3>3
  <2> QED
    BY <1>1, <1>2, <1>4, <1>5, <2>1, <2>2, <2>3, <2>4 DEF WindowsCut
<1>10. PhasesSplit'
  <2>1. ASSUME NEW p \in 1 .. Len(phases)
        PROVE  /\ phases[p] <= end
               /\ \A g \in 1 .. end : IF g <= phases[p] THEN GraphPhase[g] < p ELSE GraphPhase[g] >= p
    <3>1. /\ phases[p] <= cursor /\ phases[p] \in Nat
          /\ \A g \in 1 .. cursor : IF g <= phases[p] THEN GraphPhase[g] < p ELSE GraphPhase[g] >= p
      BY DEF LifecycleInv, LifecycleTypes, PhasesSplit
    <3>2. ASSUME NEW g \in 1 .. end, g > cursor PROVE ~(g <= phases[p]) /\ GraphPhase[g] >= p
      <4>1. g \in cursor + 1 .. end
        BY <1>3, <3>2
      <4> QED
        BY <1>1, <1>3, <3>1, <3>2, <4>1
    <3>3. ASSUME NEW g \in 1 .. end PROVE IF g <= phases[p] THEN GraphPhase[g] < p ELSE GraphPhase[g] >= p
      <4>1. g > cursor \/ g \in 1 .. cursor
        BY <1>3
      <4> QED
        BY <3>1, <3>2, <4>1
    <3> QED
      BY <1>1, <1>3, <3>1, <3>3
  <2>2. ASSUME NEW g \in 1 .. end PROVE GraphPhase[g] <= Len(phases)
    <3>1. g \in cursor + 1 .. end \/ g \in 1 .. cursor
      BY <1>3
    <3> QED
      BY <1>1, <1>3, <3>1 DEF LifecycleInv, PhasesSplit
  <2> QED
    BY <1>1, <2>1, <2>2 DEF PhasesSplit
<1>11. SamplesSplit'
  <2> SUFFICES ASSUME NEW i \in 1 .. Len(samples)
               PROVE  /\ samples[i].cursor <= end /\ samples[i].dispatch <= D + 1
                      /\ \A d \in 1 .. (D + 1) :
                            dispatches'[d].phase > i => dispatches'[d].begin > samples[i].cursor /\ d > samples[i].dispatch
    BY <1>1, <1>5 DEF SamplesSplit
  <2>1. /\ samples[i].cursor <= cursor /\ samples[i].dispatch <= D
        /\ samples[i].cursor \in Nat /\ samples[i].dispatch \in Nat
    BY <1>2, RecordTypes DEF LifecycleInv, SamplesSplit
  <2>2. ASSUME NEW d \in 1 .. (D + 1), dispatches'[d].phase > i
        PROVE  dispatches'[d].begin > samples[i].cursor /\ d > samples[i].dispatch
    <3>1. CASE d = D + 1
      BY <1>2, <1>3, <1>4, <1>5, <2>1, <3>1, SMTT(30)
    <3>2. CASE d \in 1 .. D
      BY <1>2, <1>5, <2>2, <3>2 DEF LifecycleInv, SamplesSplit
    <3> QED
      BY <1>2, <3>1, <3>2
  <2> QED
    BY <1>1, <1>2, <1>3, <2>1, <2>2, SMTT(30)
<1>12. RunComplete'
  BY <1>1 DEF LifecycleInv, RunComplete, FollowsInputs
<1>13. Prepared'
  <2> SUFFICES ASSUME mode = "PIPELINE" PROVE Prepared'
    BY <1>1 DEF Prepared
  <2>1. phases /= << >> /\ Len(phases) >= 1
    <3>1. phases /= << >> /\ phases \in Seq(Nat)
      BY <1>1 DEF LifecycleInv, RunComplete, LifecycleTypes
    <3> QED
      BY <1>3, <3>1
  <2>2. \A d \in 1 .. D : dispatches[d].phase = 1 => d <= Len(preps) /\ preps[d] = d
    BY <1>2 DEF LifecycleInv, Prepared
  <2>3. CASE Len(phases) > 1
    <3>1. \A d \in 1 .. (D + 1) : dispatches'[d].phase = 1 => d \in 1 .. D
      BY <1>2, <1>3, <1>4, <1>5, <2>3
    <3>2. \A d \in 1 .. (D + 1) : dispatches'[d].phase = 1 => d <= Len(preps) /\ preps[d] = d
      BY <1>5, <2>2, <3>1
    <3> QED
      BY <1>1, <1>3, <1>5, <2>3, <3>2 DEF Prepared
  <2>4. CASE Len(phases) = 1
    <3>1. /\ Len(preps) = D + 1 /\ \A n \in 1 .. Len(preps) : n <= D + 1 => preps[n] = n
          /\ \A d \in 1 .. D : dispatches[d].phase = 1
      BY <1>1, <1>2, <2>4 DEF LifecycleInv, Prepared
    <3>2. \A n \in 1 .. (D + 1) : preps[n] = n
      BY <1>2, <3>1
    <3>3. \A d \in 1 .. (D + 1) : dispatches'[d].phase = 1 /\ d <= Len(preps)
      BY <1>2, <1>4, <1>5, <2>4, <3>1
    <3> QED
      BY <1>1, <1>2, <1>5, <2>4, <3>1, <3>2, <3>3 DEF Prepared
  <2>5. Len(phases) > 1 \/ Len(phases) = 1
    <3>1. \A n \in Nat : n >= 1 => n > 1 \/ n = 1
      OBVIOUS
    <3>2. Len(phases) \in Nat /\ Len(phases) >= 1
      BY <1>3, <2>1
    <3> QED
      BY ONLY <3>1, <3>2
  <2> QED
    BY <2>3, <2>4, <2>5
<1> QED
  BY <1>7, <1>8, <1>9, <1>10, <1>11, <1>12, <1>13 DEF LifecycleInv

\* A sample closes its phase: all that ran so far is of this phase or earlier.
LEMMA SampleKeeps == ASSUME LifecycleInv, NEW token \in Tokens, Sample(token) PROVE LifecycleInv'
<1> DEFINE new == [dispatch |-> Len(dispatches), token |-> token, cursor |-> cursor]
<1>1. /\ mode /= "NONE" /\ ~ended /\ Len(samples) + 1 = Len(phases) /\ samples' = Append(samples, new)
      /\ UNCHANGED <<mode, phases, dispatches, cursor, active, preps, ended, outcome>>
  BY DEF Sample, Between
<1>2. PICK S \in Nat : S = Len(samples)
  BY LengthsAreNat DEF LifecycleInv
<1>3. Len(phases) \in Nat /\ cursor \in Nat /\ Len(dispatches) \in Nat
  BY LengthsAreNat DEF LifecycleInv
<1>4. new \in SampleRecord /\ new.dispatch = Len(dispatches) /\ new.cursor = cursor
  BY <1>3 DEF SampleRecord
<1> HIDE DEF new
<1>5. /\ samples' \in Seq(SampleRecord) /\ Len(samples') = S + 1 /\ samples'[S + 1] = new
      /\ \A i \in 1 .. S : samples'[i] = samples[i]
  BY <1>1, <1>2, <1>4 DEF LifecycleInv, LifecycleTypes
<1>6. LifecycleTypes'
  BY <1>1, <1>5 DEF LifecycleInv, LifecycleTypes
<1>7. Alternate'
  BY <1>1, <1>2, <1>3, <1>5 DEF Alternate
<1>8. WindowsCut' /\ PhasesSplit' /\ Prepared'
  BY <1>1 DEF LifecycleInv, WindowsCut, PhasesSplit, Prepared
<1>9. SamplesSplit'
  <2> SUFFICES ASSUME NEW i \in 1 .. (S + 1)
               PROVE  /\ samples'[i].cursor <= cursor /\ samples'[i].dispatch <= Len(dispatches)
                      /\ \A d \in 1 .. Len(dispatches) :
                            dispatches[d].phase > i => dispatches[d].begin > samples'[i].cursor /\ d > samples'[i].dispatch
    BY <1>1, <1>5 DEF SamplesSplit
  <2>1. CASE i = S + 1
    <3>1. \A d \in 1 .. Len(dispatches) : dispatches[d].phase <= i /\ dispatches[d].phase \in Nat
      BY <1>1, <1>2, <2>1, RecordTypes DEF LifecycleInv, WindowsCut
    <3>2. \A d \in 1 .. Len(dispatches) : ~(dispatches[d].phase > i)
      BY <1>2, <3>1
    <3> QED
      BY <1>3, <1>4, <1>5, <2>1, <3>2
  <2>2. CASE i \in 1 .. S
    BY <1>2, <1>5, <2>2 DEF LifecycleInv, SamplesSplit
  <2> QED
    BY <1>2, <2>1, <2>2
<1>10. RunComplete'
  <2>1. outcome = "NONE" \/ outcome /= "ACCEPTED"
    BY <1>1 DEF LifecycleInv, RunComplete
  <2> QED
    BY <1>1, <2>1 DEF LifecycleInv, RunComplete
<1> QED
  BY <1>6, <1>7, <1>8, <1>9, <1>10 DEF LifecycleInv

LEMMA RunEndKeeps == ASSUME LifecycleInv, RunEnd PROVE LifecycleInv'
<1>1. /\ mode /= "NONE" /\ ended' = TRUE /\ Len(phases) = PhaseCount /\ cursor = Len(GraphPhase)
      /\ UNCHANGED <<mode, phases, samples, dispatches, cursor, active, preps, outcome>>
  BY DEF RunEnd, Between
<1>2. LifecycleTypes' /\ Prepared' /\ RunComplete'
  BY <1>1 DEF LifecycleInv, LifecycleTypes, Prepared, RunComplete, FollowsInputs
<1> QED
  BY <1>1, <1>2, RecordsKept DEF LifecycleInv

LEMMA ProjectKeeps == ASSUME LifecycleInv, Project PROVE LifecycleInv'
<1>1. /\ ended /\ outcome' = "ACCEPTED" => FollowsInputs
      /\ UNCHANGED <<mode, phases, samples, dispatches, cursor, active, preps, ended>>
  BY DEF Project, Trajectory
<1>2. LifecycleTypes' /\ Prepared'
  BY <1>1 DEF LifecycleInv, LifecycleTypes, Prepared
<1>3. RunComplete'
  BY <1>1 DEF LifecycleInv, RunComplete, FollowsInputs, Project
<1> QED
  BY <1>1, <1>2, <1>3, RecordsKept DEF LifecycleInv

LEMMA LifecycleStep == LifecycleInv /\ [Event]_lifecycle => LifecycleInv'
<1> SUFFICES ASSUME LifecycleInv, [Event]_lifecycle PROVE LifecycleInv'
  OBVIOUS
<1>1. CASE UNCHANGED lifecycle
  BY <1>1, AsideKeeps DEF lifecycle
<1>2. CASE RequestStart
  BY <1>2, AsideKeeps DEF RequestStart
<1>3. ASSUME NEW op \in Targets, PipelineParent(op) PROVE LifecycleInv'
  BY <1>3, AsideKeeps DEF PipelineParent
<1>4. ASSUME NEW op \in Targets, PipelineOwner(op) PROVE LifecycleInv'
  BY <1>4, AsideKeeps DEF PipelineOwner
<1> QED
  BY <1>1, <1>2, <1>3, <1>4, RunKeeps, PhaseKeeps, PrefillBatchReadyKeeps, DispatchBeginKeeps, DispatchEndKeeps,
     SampleKeeps, RunEndKeeps, ProjectKeeps DEF Event

\* Phases, samples, dispatches and batches of a lifecycle fit together after
\* every event that project_lifecycle or validate_forced_lifecycle accepts, for
\* every manifest and trajectory.
THEOREM LifecycleInvariant == LifecycleSpec => []LifecycleInv
  BY LifecycleStarts, LifecycleStep, PTL DEF LifecycleSpec

\* An accepted lifecycle runs every graph of the manifest once and in order,
\* each decode phase after the sample of the phase before it and on its token.
THEOREM AcceptedLifecycleSound == LifecycleSpec => []LifecycleSound
<1>1. LifecycleInv => LifecycleSound
  <2> SUFFICES ASSUME LifecycleInv, Accepted PROVE LifecycleSound
    BY DEF LifecycleSound, GraphsCovered, DecodeAfterToken
  <2>1. /\ FollowsInputs /\ Len(phases) = PhaseCount /\ cursor = Len(GraphPhase)
        /\ Len(phases) \in Nat /\ Len(samples) \in Nat /\ Len(dispatches) \in Nat /\ Len(preps) \in Nat
        /\ Graphs = 1 .. cursor /\ cursor \in Nat
        /\ DOMAIN dispatches = 1 .. Len(dispatches) /\ DOMAIN preps = 1 .. Len(preps)
    BY LengthsAreNat DEF Accepted, LifecycleInv, RunComplete
  <2>2. \A d \in 1 .. Len(dispatches) :
           dispatches[d].phase \in Nat /\ dispatches[d].begin \in Nat /\ dispatches[d].end \in Nat
    BY RecordTypes DEF LifecycleInv
  <2>3. ASSUME NEW g \in Graphs
        PROVE  Cardinality({d \in DOMAIN dispatches :
                  dispatches[d].begin <= g /\ g <= dispatches[d].end /\ dispatches[d].phase = GraphPhase[g]}) = 1
    <3> DEFINE S == {d \in DOMAIN dispatches :
                  dispatches[d].begin <= g /\ g <= dispatches[d].end /\ dispatches[d].phase = GraphPhase[g]}
    <3>1. PICK d \in 1 .. Len(dispatches) :
              dispatches[d].begin <= g /\ g <= dispatches[d].end /\ dispatches[d].phase = GraphPhase[g]
      BY <2>1 DEF LifecycleInv, WindowsCut
    <3>2. ASSUME NEW c \in 1 .. Len(dispatches), dispatches[c].begin <= g, g <= dispatches[c].end PROVE c = d
      <4>1. c < d \/ c = d \/ d < c
        BY <2>1
      <4>2. ~(dispatches[c].end < dispatches[d].begin) /\ ~(dispatches[d].end < dispatches[c].begin)
        BY <2>1, <2>2, <3>1, <3>2, SMTT(30)
      <4> QED
        BY <4>1, <4>2 DEF LifecycleInv, WindowsCut
    <3>3. S = {d}
      BY <2>1, <3>1, <3>2
    <3> QED
      BY <3>3, FS_Singleton
  <2>4. \A d \in DOMAIN dispatches \ {1} : dispatches[d].begin = dispatches[d - 1].end + 1
    <3>1. \A d \in DOMAIN dispatches \ {1} : d \in 2 .. Len(dispatches)
      BY <2>1
    <3> QED
      BY <3>1 DEF LifecycleInv, WindowsCut
  <2>5. ASSUME NEW h \in Graphs
        PROVE  LET p == GraphPhase[h]
               IN  GraphPhase[phases[p] + 1] = p /\ (phases[p] = 0 \/ GraphPhase[phases[p]] < p)
    <3> DEFINE p == GraphPhase[h]
    <3>1. p \in 1 .. Len(phases) /\ p \in Nat /\ h \in 1 .. cursor
      BY <2>1, ManifestShape
    <3>2. phases[p] \in Nat /\ phases[p] <= cursor
          /\ \A g \in 1 .. cursor : IF g <= phases[p] THEN GraphPhase[g] < p ELSE GraphPhase[g] >= p
      <4>1. PhasesSplit /\ phases \in Seq(Nat)
        BY DEF LifecycleInv, LifecycleTypes
      <4> HIDE DEF p
      <4>2. phases[p] \in Nat
        BY <3>1, <4>1
      <4> QED
        BY <3>1, <4>1, <4>2 DEF PhasesSplit
    <3>3. \A g \in 1 .. cursor : GraphPhase[g] \in Nat
      BY <2>1, ManifestShape
    <3>4. h > phases[p]
      <4>1. ~(GraphPhase[h] < p)
        BY <3>1
      <4> HIDE DEF p
      <4> QED
        BY <2>1, <3>1, <3>2, <4>1
    <3> DEFINE q == phases[p]
    <3>5. q + 1 \in 1 .. cursor /\ q + 1 <= h /\ ~(q + 1 <= q) /\ q \in Nat
      <4> HIDE DEF p
      <4> QED
        BY <2>1, <3>1, <3>2, <3>4
    <3>6. GraphPhase[q + 1] >= p
      BY <3>2, <3>5
    <3>7. GraphPhase[q + 1] <= p
      BY <2>1, <3>1, <3>5, ManifestShape
    <3>8. GraphPhase[q + 1] = p
      <4> HIDE DEF q, p
      <4> QED
        BY <3>1, <3>3, <3>5, <3>6, <3>7
    <3>9. q = 0 \/ GraphPhase[q] < p
      <4>1. q = 0 \/ q \in 1 .. cursor
        <5> HIDE DEF p
        <5> QED
          BY <2>1, <3>2
      <4> QED
        BY <3>2, <3>5, <4>1
    <3> QED
      BY <3>8, <3>9
  <2>6. ASSUME mode = "PIPELINE", NEW d \in DispatchesOf(1)
        PROVE  Cardinality({n \in DOMAIN preps : preps[n] = d}) >= 1
    <3> DEFINE S == {n \in DOMAIN preps : preps[n] = d}
    <3>1. d \in 1 .. Len(dispatches) /\ dispatches[d].phase = 1
      BY <2>1 DEF DispatchesOf
    <3>2. d <= Len(preps) /\ preps[d] = d
      BY <2>6, <3>1 DEF LifecycleInv, Prepared
    <3>3. d \in S
      BY <2>1, <3>1, <3>2
    <3>4. IsFiniteSet(S)
      <4>1. IsFiniteSet(1 .. Len(preps))
        BY <2>1, FS_Interval
      <4>2. S \subseteq 1 .. Len(preps)
        BY <2>1
      <4> QED
        BY <4>1, <4>2, FS_Subset
    <3>5. Cardinality(S) \in Nat /\ Cardinality(S) /= 0
      <4> HIDE DEF S
      <4> QED
        BY <3>3, <3>4, FS_EmptySet, FS_CardinalityType
    <3> QED
      BY <3>5
  <2>7. GraphsCovered
    BY <2>3, <2>4, <2>5, <2>6 DEF GraphsCovered
  <2>8. ASSUME NEW p \in 2 .. PhaseCount
        PROVE  /\ p <= Len(samples) => Inputs[p] = samples[p - 1].token
               /\ \A d \in DispatchesOf(p) : dispatches[d].begin > samples[p - 1].cursor /\ d > samples[p - 1].dispatch
    <3>1. p \in Nat /\ p - 1 \in 1 .. Len(samples) /\ p - 1 \in Nat /\ p > p - 1
      BY <2>1 DEF LifecycleInv, Alternate
    <3>2. p <= Len(samples) => Inputs[p] = samples[p - 1].token
      <4> SUFFICES ASSUME p <= Len(samples) PROVE Inputs[p] = samples[p - 1].token
        OBVIOUS
      <4>1. p - 1 \in 1 .. Len(samples) - 1 /\ (p - 1) + 1 = p
        BY <2>1, <3>1
      <4>2. Inputs[(p - 1) + 1] = samples[p - 1].token
        BY <2>1, <4>1 DEF FollowsInputs
      <4> QED
        BY <4>1, <4>2
    <3>3. ASSUME NEW d \in DispatchesOf(p)
          PROVE  dispatches[d].begin > samples[p - 1].cursor /\ d > samples[p - 1].dispatch
      <4>1. d \in 1 .. Len(dispatches) /\ dispatches[d].phase = p
        BY <2>1 DEF DispatchesOf
      <4> QED
        BY <3>1, <4>1 DEF LifecycleInv, SamplesSplit
    <3> QED
      BY <3>2, <3>3
  <2> QED
    BY <2>7, <2>8 DEF LifecycleSound, DecodeAfterToken
<1> QED
  BY <1>1, LifecycleInvariant, PTL

(***************************************************************************)
(* The semantic graph manifests                                            *)
(***************************************************************************)
GraphRecord == [phase : Nat, occurrence : Nat, nodes : Shapes]

SemanticTypes ==
    /\ run \in [Roles -> BOOLEAN] /\ closed \in [Roles -> BOOLEAN]
    /\ graphs \in [Roles -> Seq(GraphRecord)] /\ inputs \in [Roles -> Seq(InputTokens)]
    /\ DOMAIN executions = Roles /\ executions = [r \in Roles |-> executions[r]]

\* What is executed is described, in the class its description and its run allow.
ExecutionsDescribed ==
    \A r \in Roles : \A key \in DOMAIN executions[r] :
        /\ key \in NodesOf(r) /\ executions[r][key] \in NodeClasses
        /\ (executions[r][key] = "EXCLUDED") = graphs[r][key[1]].nodes[key[2]].excluded
        /\ r = "FULL_CPU" => executions[r][key] /= "TARGET_NPU"

SemanticInv ==
    /\ SemanticTypes
    /\ ExecutionsDescribed
    /\ \A r \in Roles : closed[r] => run[r] /\ Executed(r)
    /\ joined = "JOINED" => GraphsAgree /\ \A r \in Roles : closed[r]

LEMMA RoleNames == Roles = {"FULL_CPU", "POTAL_COLLECTION"} /\ "FULL_CPU" /= "POTAL_COLLECTION"
  BY DEF Roles

LEMMA SemanticStarts == SemanticInit => SemanticInv
  <1> SUFFICES ASSUME SemanticInit PROVE SemanticInv
    OBVIOUS
  <1>1. SemanticTypes
    BY DEF SemanticInit, SemanticTypes
  <1>2. ASSUME NEW r \in Roles PROVE DOMAIN executions[r] = {} /\ ~closed[r]
    BY DEF SemanticInit
  <1> QED
    BY <1>1, <1>2 DEF SemanticInv, SemanticInit, ExecutionsDescribed

\* The nodes described so far, as keys.
LEMMA KeysOfNodes ==
  ASSUME NEW r
  PROVE  /\ \A key : key \in NodesOf(r) <=> \E g \in DOMAIN graphs[r] : \E n \in DOMAIN graphs[r][g].nodes : key = <<g, n>>
         /\ \A key \in NodesOf(r) : key[1] \in DOMAIN graphs[r] /\ key[2] \in DOMAIN graphs[r][key[1]].nodes
  <1>1. \A key : key \in NodesOf(r) <=> \E g \in DOMAIN graphs[r] : \E n \in DOMAIN graphs[r][g].nodes : key = <<g, n>>
    BY DEF NodesOf
  <1> QED
    BY <1>1

\* A step that leaves the graphs and executions of every role alone.
LEMMA SemanticFrame ==
  ASSUME SemanticInv, graphs' = graphs, executions' = executions
  PROVE  /\ ExecutionsDescribed'
         /\ \A r \in Roles : Executed(r)' = Executed(r)
         /\ GraphsAgree' = GraphsAgree
  <1>1. \A r \in Roles : NodesOf(r)' = NodesOf(r)
    BY DEF NodesOf
  <1>2. \A r \in Roles : Executed(r)' = Executed(r)
    BY <1>1 DEF Executed
  <1>3. GraphsAgree' = GraphsAgree
    BY DEF GraphsAgree
  <1>4. ExecutionsDescribed'
    BY <1>1 DEF SemanticInv, ExecutionsDescribed
  <1> QED
    BY <1>2, <1>3, <1>4

LEMMA SemanticRunKeeps ==
  ASSUME SemanticInv, NEW r \in Roles, SemanticRun(r) PROVE SemanticInv'
  <1>1. SemanticTypes'
    BY DEF SemanticInv, SemanticTypes, SemanticRun
  <1>2. \A q \in Roles : run[q] => run'[q]
    BY DEF SemanticInv, SemanticTypes, SemanticRun
  <1>3. graphs' = graphs /\ executions' = executions /\ closed' = closed /\ joined' = joined
    BY DEF SemanticRun
  <1> QED
    BY <1>1, <1>2, <1>3, SemanticFrame DEF SemanticInv

LEMMA SemanticPhaseKeeps ==
  ASSUME SemanticInv, NEW r \in Roles, NEW input \in InputTokens, SemanticPhase(r, input) PROVE SemanticInv'
  <1>1. SemanticTypes'
    BY DEF SemanticInv, SemanticTypes, SemanticPhase
  <1>2. graphs' = graphs /\ executions' = executions /\ closed' = closed /\ joined' = joined /\ run' = run
    BY DEF SemanticPhase
  <1> QED
    BY <1>1, <1>2, SemanticFrame DEF SemanticInv

LEMMA SemanticEndKeeps ==
  ASSUME SemanticInv, NEW r \in Roles, SemanticEnd(r) PROVE SemanticInv'
  <1>1. SemanticTypes'
    BY DEF SemanticInv, SemanticTypes, SemanticEnd
  <1>2. graphs' = graphs /\ executions' = executions /\ joined' = joined /\ run' = run
    BY DEF SemanticEnd
  <1>3. run[r] /\ Executed(r) /\ closed' = [closed EXCEPT ![r] = TRUE]
    BY DEF SemanticEnd, Open
  <1>4. \A q \in Roles : closed'[q] <=> q = r \/ closed[q]
    BY <1>3 DEF SemanticInv, SemanticTypes
  <1> QED
    BY <1>1, <1>2, <1>3, <1>4, SemanticFrame DEF SemanticInv

LEMMA CompareKeeps ==
  ASSUME SemanticInv, Compare PROVE SemanticInv'
  <1>1. SemanticTypes'
    BY DEF SemanticInv, SemanticTypes, Compare
  <1>2. graphs' = graphs /\ executions' = executions /\ closed' = closed /\ run' = run
    BY DEF Compare
  <1>3. joined' = "JOINED" => GraphsAgree /\ \A q \in Roles : closed[q]
    BY DEF Compare
  <1> QED
    BY <1>1, <1>2, <1>3, SemanticFrame DEF SemanticInv

\* A graph is described after the earlier ones, whose nodes keep their keys.
LEMMA GraphKeeps ==
  ASSUME SemanticInv, NEW r \in Roles, NEW nodes \in Shapes, Graph(r, nodes) PROVE SemanticInv'
  <1> DEFINE phase == Len(inputs[r])
             same == {g \in DOMAIN graphs[r] : graphs[r][g].phase = phase}
             rec == [phase |-> phase, occurrence |-> Cardinality(same), nodes |-> nodes]
  <1>1. /\ graphs' = [graphs EXCEPT ![r] = Append(graphs[r], rec)]
        /\ run' = run /\ inputs' = inputs /\ executions' = executions /\ closed' = closed /\ joined' = joined
        /\ ~closed[r]
    BY DEF Graph, Open
  <1>2. phase \in Nat /\ graphs[r] \in Seq(GraphRecord) /\ Len(graphs[r]) \in Nat /\ DOMAIN graphs[r] = 1 .. Len(graphs[r])
    BY DEF SemanticInv, SemanticTypes
  <1>3. Cardinality(same) \in Nat
    <2>1. IsFiniteSet(1 .. Len(graphs[r]))
      BY <1>2, FS_Interval
    <2> QED
      BY <1>2, <2>1, FS_Subset, FS_CardinalityType
  <1>4. rec \in GraphRecord
    <2> HIDE DEF phase, same
    <2> QED
      BY <1>2, <1>3 DEF GraphRecord
  <1> HIDE DEF rec
  <1>5. /\ graphs'[r] = Append(graphs[r], rec) /\ graphs'[r] \in Seq(GraphRecord)
        /\ DOMAIN graphs'[r] = 1 .. (Len(graphs[r]) + 1)
        /\ \A g \in DOMAIN graphs[r] : g \in DOMAIN graphs'[r] /\ graphs'[r][g] = graphs[r][g]
        /\ \A q \in Roles \ {r} : graphs'[q] = graphs[q]
    <2>1. graphs'[r] = Append(graphs[r], rec) /\ \A q \in Roles \ {r} : graphs'[q] = graphs[q]
      BY <1>1 DEF SemanticInv, SemanticTypes
    <2> QED
      BY <2>1, <1>2, <1>4
  <1>6. SemanticTypes'
    BY <1>1, <1>5 DEF SemanticInv, SemanticTypes
  <1>7. ExecutionsDescribed'
    <2> SUFFICES ASSUME NEW q \in Roles, NEW key \in DOMAIN executions[q]
                 PROVE  /\ key \in NodesOf(q)' /\ executions[q][key] \in NodeClasses
                        /\ (executions[q][key] = "EXCLUDED") = graphs'[q][key[1]].nodes[key[2]].excluded
                        /\ q = "FULL_CPU" => executions[q][key] /= "TARGET_NPU"
      BY <1>1 DEF ExecutionsDescribed
    <2>1. /\ key \in NodesOf(q) /\ executions[q][key] \in NodeClasses
          /\ (executions[q][key] = "EXCLUDED") = graphs[q][key[1]].nodes[key[2]].excluded
          /\ q = "FULL_CPU" => executions[q][key] /= "TARGET_NPU"
      BY DEF SemanticInv, ExecutionsDescribed
    <2>2. PICK g \in DOMAIN graphs[q] : \E n \in DOMAIN graphs[q][g].nodes : key = <<g, n>>
      BY <2>1, KeysOfNodes
    <2>3. key[1] = g
      BY <2>2
    <2>4. g \in DOMAIN graphs'[q] /\ graphs'[q][g] = graphs[q][g]
      BY <1>5
    <2>5. key \in NodesOf(q)'
      BY <2>2, <2>4 DEF NodesOf
    <2> QED
      BY <2>1, <2>3, <2>4, <2>5
  <1>8. ASSUME NEW q \in Roles, closed[q] PROVE run[q] /\ Executed(q)'
    <2>1. q /= r
      BY <1>1, <1>8
    <2>2. NodesOf(q)' = NodesOf(q)
      BY <2>1, <1>5 DEF NodesOf
    <2> QED
      BY <1>1, <1>8, <2>2 DEF SemanticInv, Executed
  <1>9. joined /= "JOINED"
    BY <1>1 DEF SemanticInv
  <1> QED
    BY <1>1, <1>6, <1>7, <1>8, <1>9 DEF SemanticInv

LEMMA NodeExecutionKeeps ==
  ASSUME SemanticInv, NEW r \in Roles, NEW key \in NodesOf(r), NEW class \in NodeClasses, NodeExecution(r, key, class)
  PROVE  SemanticInv'
  <1> DEFINE next == [k \in DOMAIN executions[r] \cup {key} |-> IF k = key THEN class ELSE executions[r][k]]
  <1>1. /\ executions' = [executions EXCEPT ![r] = next]
        /\ run' = run /\ inputs' = inputs /\ graphs' = graphs /\ closed' = closed /\ joined' = joined
        /\ ~closed[r]
    BY DEF NodeExecution, Open
  <1>2. /\ (class = "EXCLUDED") = graphs[r][key[1]].nodes[key[2]].excluded
        /\ r = "FULL_CPU" => class /= "TARGET_NPU"
    BY DEF NodeExecution, Executes
  <1>3. DOMAIN next = DOMAIN executions[r] \cup {key} /\ \A k \in DOMAIN next : next[k] = IF k = key THEN class ELSE executions[r][k]
    OBVIOUS
  <1> HIDE DEF next
  <1>4. /\ DOMAIN executions' = Roles /\ executions'[r] = next
        /\ \A q \in Roles \ {r} : executions'[q] = executions[q]
    BY <1>1 DEF SemanticInv, SemanticTypes
  <1>5. SemanticTypes'
    <2>1. executions' = [q \in Roles |-> executions'[q]]
      BY <1>1 DEF SemanticInv, SemanticTypes
    <2> QED
      BY <1>1, <1>4, <2>1 DEF SemanticInv, SemanticTypes
  <1>6. \A q \in Roles : NodesOf(q)' = NodesOf(q)
    BY <1>1 DEF NodesOf
  <1>7. ExecutionsDescribed'
    <2> SUFFICES ASSUME NEW q \in Roles, NEW k \in DOMAIN executions'[q]
                 PROVE  /\ k \in NodesOf(q) /\ executions'[q][k] \in NodeClasses
                        /\ (executions'[q][k] = "EXCLUDED") = graphs[q][k[1]].nodes[k[2]].excluded
                        /\ q = "FULL_CPU" => executions'[q][k] /= "TARGET_NPU"
      BY <1>1, <1>6 DEF ExecutionsDescribed
    <2>1. CASE q = r /\ k = key
      <3>1. executions'[q][k] = class
        BY <2>1, <1>3, <1>4
      <3> QED
        BY <2>1, <3>1, <1>2
    <2>2. CASE ~(q = r /\ k = key)
      <3>1. k \in DOMAIN executions[q] /\ executions'[q][k] = executions[q][k]
        BY <2>2, <1>3, <1>4
      <3> QED
        BY <3>1 DEF SemanticInv, ExecutionsDescribed
    <2> QED
      BY <2>1, <2>2
  <1>8. ASSUME NEW q \in Roles, closed[q] PROVE run[q] /\ Executed(q)'
    <2>1. q /= r
      BY <1>1, <1>8
    <2> QED
      BY <2>1, <1>4, <1>6, <1>8 DEF SemanticInv, Executed
  <1>9. joined /= "JOINED"
    BY <1>1 DEF SemanticInv
  <1> QED
    BY <1>1, <1>5, <1>7, <1>8, <1>9 DEF SemanticInv

LEMMA SemanticStep == SemanticInv /\ [SemanticNext]_semanticVars => SemanticInv'
  <1> SUFFICES ASSUME SemanticInv, [SemanticNext]_semanticVars PROVE SemanticInv'
    OBVIOUS
  <1>1. CASE UNCHANGED semanticVars
    <2>1. SemanticTypes'
      BY <1>1 DEF semanticVars, SemanticInv, SemanticTypes
    <2>2. graphs' = graphs /\ executions' = executions /\ closed' = closed /\ joined' = joined /\ run' = run
      BY <1>1 DEF semanticVars
    <2> QED
      BY <2>1, <2>2, SemanticFrame DEF SemanticInv
  <1>2. CASE SemanticNext
    BY <1>2, SemanticRunKeeps, SemanticPhaseKeeps, GraphKeeps, NodeExecutionKeeps, SemanticEndKeeps, CompareKeeps DEF SemanticNext
  <1> QED
    BY <1>1, <1>2

\* Two manifests that read_manifest accepts record by record: every execution
\* is of a described node and in a class that node and run allow, a closed
\* manifest executed all it describes, and a joined pair describes the same.
THEOREM SemanticInvariant == SemanticSpec => []SemanticInv
  BY SemanticStarts, SemanticStep, PTL DEF SemanticSpec

\* A pair of manifests that compare_manifests joins is one workload, executed
\* node by node on the CPU in the FULL_CPU run.
THEOREM JoinedIsOneWorkload == SemanticSpec => []OneWorkload
<1>1. SemanticInv => OneWorkload
  <2> SUFFICES ASSUME SemanticInv, joined = "JOINED" PROVE OneWorkload
    BY DEF OneWorkload
  <2>1. GraphsAgree /\ Executed("FULL_CPU") /\ Executed("POTAL_COLLECTION")
    BY RoleNames DEF SemanticInv
  <2>2. DOMAIN executions["FULL_CPU"] = DOMAIN executions["POTAL_COLLECTION"]
    BY <2>1 DEF GraphsAgree, Executed, NodesOf
  <2>3. ASSUME NEW key \in DOMAIN executions["POTAL_COLLECTION"]
        PROVE  /\ executions["FULL_CPU"][key] /= "TARGET_NPU"
               /\ executions["POTAL_COLLECTION"][key] = "ORDINARY_CPU" => executions["FULL_CPU"][key] = "ORDINARY_CPU"
    <3>1. /\ executions["FULL_CPU"][key] \in NodeClasses /\ executions["FULL_CPU"][key] /= "TARGET_NPU"
          /\ (executions["FULL_CPU"][key] = "EXCLUDED") = graphs["FULL_CPU"][key[1]].nodes[key[2]].excluded
          /\ (executions["POTAL_COLLECTION"][key] = "EXCLUDED") = graphs["POTAL_COLLECTION"][key[1]].nodes[key[2]].excluded
      BY <2>2, RoleNames DEF SemanticInv, ExecutionsDescribed
    <3>2. graphs["FULL_CPU"] = graphs["POTAL_COLLECTION"]
      BY <2>1 DEF GraphsAgree
    <3>3. (executions["FULL_CPU"][key] = "EXCLUDED") = (executions["POTAL_COLLECTION"][key] = "EXCLUDED")
      BY <3>1, <3>2
    <3> QED
      BY <3>1, <3>3 DEF NodeClasses
  <2> QED
    BY <2>2, <2>3 DEF OneWorkload
<1> QED
  BY <1>1, SemanticInvariant, PTL

(***************************************************************************)
(* The execution graph                                                     *)
(***************************************************************************)
\* The first element of a node names its kind, the others who it is of.
LEMMA NodeTags ==
  /\ \A c, stage : CallNode(c, stage)[1] = "call" /\ CallNode(c, stage)[2] = c /\ CallNode(c, stage)[3] = stage
  /\ \A w : Npu(w)[1] = "npu" /\ Npu(w)[2] = w
  /\ \A op : Enter(op)[1] = "enter" /\ Enter(op)[2] = op /\ Exit(op)[1] = "exit" /\ Exit(op)[2] = op
  /\ \A p, s, r, t, c : Owner(p, s, r, t, c)[1] = "owner" /\ Owner(p, s, r, t, c)[2] = p
  /\ \A d, side : DispatchNode(d, side)[1] = "dispatch" /\ DispatchNode(d, side)[2] = d /\ DispatchNode(d, side)[3] = side
  /\ \A g, side : GraphNode(g, side)[1] = "graph" /\ GraphNode(g, side)[2] = g /\ GraphNode(g, side)[3] = side
  BY DEF CallNode, Npu, Enter, Exit, Owner, DispatchNode, GraphNode

LEMMA RowKinds ==
  ASSUME NEW row \in Rows
  PROVE  \/ \E c \in DOMAIN data.calls : \E n \in DOMAIN data.calls[c].stages : row = CallNode(c, data.calls[c].stages[n])
         \/ \E w \in DOMAIN data.works : row = Npu(w)
         \/ \E h \in DOMAIN data.hosts : row = <<"host", h>>
         \/ \E op \in Operations : data.ops[op].class \in {"cpu", "excluded"} /\ row = <<data.ops[op].class, op>>
  BY DEF Rows, CallStages

LEMMA RowTags ==
  ASSUME NEW row \in Rows PROVE row[1] \in {"call", "npu", "host", "cpu", "excluded"}
  BY RowKinds, NodeTags

LEMMA CallRowsExist ==
  ASSUME NEW c \in DOMAIN data.calls, NEW n \in DOMAIN data.calls[c].stages
  PROVE  CallNode(c, data.calls[c].stages[n]) \in Rows
  <1>1. <<c, n>> \in CallStages
    BY DEF CallStages
  <1>2. <<c, n>>[1] = c /\ <<c, n>>[2] = n
    OBVIOUS
  <1> QED
    BY <1>1, <1>2 DEF Rows

\* What projecting the pipeline removes and adds around a publication.
LEMMA PublicationEdges ==
  ASSUME NEW p \in DOMAIN data.parents, NEW s \in Stripes(p), NEW c, c = data.works[StripeWork(p, s)].call
  PROVE  /\ <<CallNode(c, "PUBLISH"), Npu(StripeWork(p, s))>> \in Removals
         /\ <<Npu(StripeWork(p, s)), CallNode(c, "INVOKE")>> \in Removals
         /\ <<Npu(StripeWork(p, s)), CallNode(c, "PUBLISH")>> \in Additions
  <1>1. /\ <<CallNode(c, "PUBLISH"), Npu(StripeWork(p, s))>> \in Removals
        /\ <<Npu(StripeWork(p, s)), CallNode(c, "INVOKE")>> \in Removals
    BY DEF Removals
  <1>2. <<Npu(StripeWork(p, s)), CallNode(c, "PUBLISH")>> \in StripeEdges(p, s)
    BY DEF StripeEdges
  <1>3. <<Npu(StripeWork(p, s)), CallNode(c, "PUBLISH")>> \in Additions
    BY <1>2 DEF Additions
  <1> QED
    BY <1>1, <1>3

\* A removed edge is that of a publication to its work or of a work to its invocation.
LEMMA RemovalKinds ==
  ASSUME NEW a, NEW b, <<a, b>> \in Removals
  PROVE  \/ a[1] = "call" /\ b[1] = "npu"
         \/ a[1] = "npu" /\ b[1] = "call"
  <1>1. \E p \in DOMAIN data.parents : \E s \in Stripes(p) :
           <<a, b>> \in {<<CallNode(data.works[StripeWork(p, s)].call, "PUBLISH"), Npu(StripeWork(p, s))>>,
                         <<Npu(StripeWork(p, s)), CallNode(data.works[StripeWork(p, s)].call, "INVOKE")>>}
    BY DEF Removals
  <1>2. \E c, w : (a = CallNode(c, "PUBLISH") /\ b = Npu(w)) \/ (a = Npu(w) /\ b = CallNode(c, "INVOKE"))
    BY <1>1
  <1> QED
    BY <1>2, NodeTags

\* The publication of a stripe is that of the one work its call owns.
LEMMA PublishedWork ==
  ASSUME WellFormed(data), Adaptable, mode = "PIPELINE", NEW c \in DOMAIN data.calls, Published(c)
  PROVE  \E p \in DOMAIN data.parents : \E s \in Stripes(p) :
            /\ data.works[StripeWork(p, s)].call = c /\ StripeWork(p, s) \in DOMAIN data.works
            /\ OwnWork(c) = {StripeWork(p, s)}
  <1>1. ParsePipeline /\ BuildLifecycle
    BY DEF Adaptable
  <1>2. c \in {data.works[w].call : w \in UNION {DenseWorks(p) : p \in DOMAIN data.parents}}
    BY <1>1 DEF ParsePipeline
  <1>3a. PICK p \in DOMAIN data.parents : \E s \in Stripes(p) : data.works[StripeWork(p, s)].call = c
    BY <1>2 DEF DenseWorks
  <1>3. PICK s \in Stripes(p) : data.works[StripeWork(p, s)].call = c
    BY <1>3a
  <1>4. StripeWork(p, s) \in data.parents[p].works
    BY <1>1, <1>3 DEF ParsePipeline, DenseWorks
  <1>5. StripeWork(p, s) \in DOMAIN data.works
    BY <1>1, <1>3, <1>4 DEF BuildLifecycle
  <1>6. OwnWork(c) = {StripeWork(p, s)}
    BY <1>1, <1>3, <1>5 DEF OwnWork, BuildLifecycle
  <1> QED
    BY <1>3, <1>5, <1>6

LEMMA NothingPublished ==
  ASSUME Adaptable, mode /= "PIPELINE", NEW c \in DOMAIN data.calls PROVE ~Published(c)
  BY DEF Adaptable, BuildLifecycle

LEMMA PublishIsPublished ==
  ASSUME NEW c \in DOMAIN data.calls, NEW n \in DOMAIN data.calls[c].stages, data.calls[c].stages[n] = "PUBLISH"
  PROVE  Published(c)
  BY DEF Published, Range

\* adapt_records and adapt_stream give a row the same edges.
LEMMA RowEdgesAgree ==
  ASSUME WellFormed(data), Adaptable, NEW row \in Rows
  PROVE  PipelineEdges(row, StreamEdges(row)) = PipelineEdges(row, RecordEdges(row))
  <1> DEFINE base == Result(RowDependencies(row) \cup {Enter(OperationOf(row))})
  <1>1. CASE \E c \in DOMAIN data.calls : \E n \in DOMAIN data.calls[c].stages : row = CallNode(c, data.calls[c].stages[n])
    <2>1. PICK c \in DOMAIN data.calls : \E n \in DOMAIN data.calls[c].stages : row = CallNode(c, data.calls[c].stages[n])
      BY <1>1
    <2>a. PICK n \in DOMAIN data.calls[c].stages : row = CallNode(c, data.calls[c].stages[n])
      BY <2>1
    <2>2. row[1] = "call" /\ row[2] = c /\ row[3] = data.calls[c].stages[n]
      BY <2>a, NodeTags
    <2>3. StreamEdges(row) = base
      BY <2>2 DEF StreamEdges
    <2>4. RecordEdges(row) = IF row[3] = "PUBLISH" THEN {d \in base : d[1] \notin {Npu(w) : w \in OwnWork(c)}} ELSE base
      BY <2>2 DEF RecordEdges
    <2> HIDE DEF base
    <2>5. CASE row[3] /= "PUBLISH"
      BY <2>3, <2>4, <2>5
    <2>6. CASE row[3] = "PUBLISH"
      <3>1. Published(c)
        BY <2>2, <2>6, PublishIsPublished
      <3>2. mode = "PIPELINE"
        BY <3>1, NothingPublished
      <3>a. PICK p \in DOMAIN data.parents : \E s \in Stripes(p) :
               data.works[StripeWork(p, s)].call = c /\ OwnWork(c) = {StripeWork(p, s)}
        BY <3>1, <3>2, PublishedWork
      <3>3. PICK s \in Stripes(p) : data.works[StripeWork(p, s)].call = c /\ OwnWork(c) = {StripeWork(p, s)}
        BY <3>a
      <3>4. <<row, Npu(StripeWork(p, s))>> \in Removals
        BY <2>a, <2>2, <2>6, <3>3, PublicationEdges
      <3>5. {Npu(w) : w \in OwnWork(c)} = {Npu(StripeWork(p, s))}
        BY <3>3
      <3>6. {d \in base : <<row, d[1]>> \notin Removals} =
              {d \in {d \in base : d[1] \notin {Npu(StripeWork(p, s))}} : <<row, d[1]>> \notin Removals}
        BY <3>4
      <3> QED
        BY <2>3, <2>4, <2>6, <3>2, <3>5, <3>6 DEF PipelineEdges
    <2> QED
      BY <2>5, <2>6
  <1>2. CASE \E w \in DOMAIN data.works : row = Npu(w)
    <2>1. PICK w \in DOMAIN data.works : row = Npu(w)
      BY <1>2
    <2> DEFINE c == data.works[w].call
    <2>2. row[1] = "npu" /\ row[2] = w
      BY <2>1, NodeTags
    <2>3. StreamEdges(row) = base \cup Before(w)
      BY <2>2 DEF StreamEdges
    <2>4. RecordEdges(row) =
            (IF Published(c) THEN {d \in base : d[1] /= CallNode(c, "INVOKE")} \cup Result({CallNode(c, "PUBLISH")}) ELSE base)
            \cup Before(w)
      BY <2>2 DEF RecordEdges
    <2>5. c \in DOMAIN data.calls
      BY DEF WellFormed
    <2> HIDE DEF base
    <2>6. CASE ~Published(c)
      BY <2>3, <2>4, <2>6
    <2>7. CASE Published(c)
      <3>1. mode = "PIPELINE"
        BY <2>5, <2>7, NothingPublished
      <3>a. PICK p \in DOMAIN data.parents : \E s \in Stripes(p) :
               data.works[StripeWork(p, s)].call = c /\ OwnWork(c) = {StripeWork(p, s)}
        BY <2>5, <2>7, <3>1, PublishedWork
      <3>2. PICK s \in Stripes(p) : data.works[StripeWork(p, s)].call = c /\ OwnWork(c) = {StripeWork(p, s)}
        BY <3>a
      <3>3. StripeWork(p, s) = w
        <4>1. w \in OwnWork(c)
          BY DEF OwnWork
        <4> QED
          BY <3>2, <4>1
      <3> HIDE DEF c
      <3>4. <<row, CallNode(c, "INVOKE")>> \in Removals /\ <<row, CallNode(c, "PUBLISH")>> \in Additions
        BY <2>1, <3>2, <3>3, PublicationEdges
      <3> DEFINE added == Result({e[2] : e \in {a \in Additions : a[1] = row}})
      <3>5. Result({CallNode(c, "PUBLISH")}) \subseteq added
        BY <3>4 DEF Result
      <3> HIDE DEF added
      <3>6. {d \in base \cup Before(w) : <<row, d[1]>> \notin Removals} \cup added =
            {d \in ({d \in base : d[1] /= CallNode(c, "INVOKE")} \cup Result({CallNode(c, "PUBLISH")})) \cup Before(w) : <<row, d[1]>> \notin Removals} \cup added
        BY <3>4, <3>5
      <3>7. PipelineEdges(row, StreamEdges(row)) = {d \in base \cup Before(w) : <<row, d[1]>> \notin Removals} \cup added
        BY <2>3, <3>1 DEF PipelineEdges, added
      <3>8. PipelineEdges(row, RecordEdges(row)) =
              {d \in ({d \in base : d[1] /= CallNode(c, "INVOKE")} \cup Result({CallNode(c, "PUBLISH")})) \cup Before(w) : <<row, d[1]>> \notin Removals} \cup added
        BY <2>4, <2>7, <3>1 DEF PipelineEdges, added
      <3> QED
        BY <3>6, <3>7, <3>8
    <2> QED
      BY <2>6, <2>7
  <1>3. CASE row[1] \notin {"call", "npu"}
    <2>1. StreamEdges(row) = base /\ RecordEdges(row) = base
      BY <1>3 DEF StreamEdges, RecordEdges
    <2> QED
      BY <2>1
  <1>4. \/ \E c \in DOMAIN data.calls : \E n \in DOMAIN data.calls[c].stages : row = CallNode(c, data.calls[c].stages[n])
        \/ \E w \in DOMAIN data.works : row = Npu(w)
        \/ row[1] \notin {"call", "npu"}
    <2>1. ASSUME NEW h \in DOMAIN data.hosts, row = <<"host", h>> PROVE row[1] \notin {"call", "npu"}
      BY <2>1
    <2>2. ASSUME NEW op \in Operations, data.ops[op].class \in {"cpu", "excluded"}, row = <<data.ops[op].class, op>>
          PROVE  row[1] \notin {"call", "npu"}
      BY <2>2
    <2> QED
      BY <2>1, <2>2, RowKinds
  <1> QED
    BY <1>1, <1>2, <1>3, <1>4

LEMMA BarrierTags ==
  ASSUME NEW n \in Barriers PROVE n[1] \in {"dispatch", "graph", "request"}
  <1>1. \/ \E d, side : n = DispatchNode(d, side)
        \/ \E g, side : n = GraphNode(g, side)
        \/ n = <<"request">>
    BY DEF Barriers
  <1> QED
    BY <1>1, NodeTags

\* The edges of a row are those of the dataset after the projection.
LEMMA RowNode ==
  ASSUME NEW n \in Rows, NEW edges
  PROVE  Dependencies(n, edges) = Result(EntryEdges(n)) \cup PipelineEdges(n, edges[n])
  <1>1. n[1] /= "enter" /\ n[1] /= "exit" /\ n[1] /= "owner" /\ n \notin Barriers
    BY RowTags, BarrierTags
  <1> QED
    BY <1>1 DEF Dependencies

LEMMA EdgesAgree ==
  ASSUME WellFormed(data), Adaptable, NEW n \in Nodes
  PROVE  Dependencies(n, [row \in Rows |-> StreamEdges(row)]) = Dependencies(n, [row \in Rows |-> RecordEdges(row)])
  <1>1. CASE n \in Rows
    <2> DEFINE stream == [row \in Rows |-> StreamEdges(row)]
               record == [row \in Rows |-> RecordEdges(row)]
    <2>1. stream[n] = StreamEdges(n) /\ record[n] = RecordEdges(n)
      BY <1>1
    <2> HIDE DEF stream, record
    <2>2. Dependencies(n, stream) = Dependencies(n, record)
      BY <1>1, <2>1, RowNode, RowEdgesAgree
    <2> QED
      BY <2>2 DEF stream, record
  <1>2. CASE n \notin Rows
    BY <1>2 DEF Dependencies
  <1> QED
    BY <1>1, <1>2

\* What a node of an edge table waits for the result of.
Waits(edges, n, m) == n \in DOMAIN edges => <<m, "RESULT_READY">> \in edges[n]

(* The way of a stripe through the pipeline, as far as the bounds need it. *)
StripeWired(edges, p, s) ==
    LET o(resource, transition) == Owner(p, s, resource, transition, 0)
        c == data.works[StripeWork(p, s)].call
    IN /\ Waits(edges, o("ACTIVATION_ROWS", "COMMIT"), o("EXSIA_WORKSPACE", "ACQUIRE"))
       /\ Waits(edges, o("RESIDUAL_PAYLOAD", "SEAL"), o("ACTIVATION_ROWS", "COMMIT"))
       /\ Waits(edges, o("FRONTEND_OUTSTANDING", "ACQUIRE"), o("RESIDUAL_PAYLOAD", "SEAL"))
       /\ Waits(edges, o("FRONTEND_QUEUE", "ENQUEUE"), o("FRONTEND_OUTSTANDING", "ACQUIRE"))
       /\ Waits(edges, o("EXSIA_WORKSPACE", "RELEASE"), o("FRONTEND_QUEUE", "ENQUEUE"))
       /\ Waits(edges, o("FRONTEND_QUEUE", "DEQUEUE"), o("FRONTEND_QUEUE", "ENQUEUE"))
       /\ Waits(edges, CallNode(c, "PREPARE"), o("FRONTEND_QUEUE", "DEQUEUE"))
       /\ Waits(edges, CallNode(c, "INVOKE"), CallNode(c, "PREPARE"))
       /\ Waits(edges, CallNode(c, "PUBLISH"), CallNode(c, "INVOKE"))
       /\ Waits(edges, Npu(StripeWork(p, s)), CallNode(c, "PUBLISH"))
       /\ Waits(edges, o("CPU_FUNCTIONAL_STREAM", "ACCEPTED"), CallNode(c, "PUBLISH"))
       /\ Waits(edges, o("CPU_FUNCTIONAL_STREAM", "COMPLETED"), o("CPU_FUNCTIONAL_STREAM", "ACCEPTED"))
       /\ IF HasCallback(p, s)
          THEN /\ Waits(edges, o("FRONTEND_OUTSTANDING", "RELEASE"), o("RESIDUAL_CALLBACK", "COMPLETE"))
               /\ Waits(edges, o("RESIDUAL_CALLBACK", "COMPLETE"), o("CPU_FUNCTIONAL_STREAM", "COMPLETED"))
          ELSE Waits(edges, o("FRONTEND_OUTSTANDING", "RELEASE"), o("CPU_FUNCTIONAL_STREAM", "COMPLETED"))

SameSlot(p, s, t) == data.parents[p].stripes[s].slot = data.parents[p].stripes[t].slot

(* What a stripe waits for of the stripes before it. *)
NeighboursWired(edges, p, s) ==
    /\ s > 2 => Waits(edges, Owner(p, s, "FRONTEND_OUTSTANDING", "ACQUIRE", 0), Owner(p, s - 2, "FRONTEND_OUTSTANDING", "RELEASE", 0))
    /\ s > 1 => Waits(edges, Owner(p, s, "FRONTEND_QUEUE", "DEQUEUE", 0), Owner(p, s - 1, "FRONTEND_QUEUE", "DEQUEUE", 0))
    /\ \A t \in Stripes(p) : t < s /\ SameSlot(p, s, t) =>
         \E u \in Stripes(p) :
            /\ u < s /\ SameSlot(p, s, u) /\ t <= u
            /\ Waits(edges, Owner(p, s, "EXSIA_WORKSPACE", "ACQUIRE", 0), Owner(p, u, "EXSIA_WORKSPACE", "RELEASE", 0))

PipelineWired(edges) ==
    \A p \in DOMAIN data.parents :
        /\ \A s \in Stripes(p) :
             /\ s \in Nat \ {0} /\ 1 .. s \subseteq Stripes(p)
             /\ StripeWired(edges, p, s) /\ NeighboursWired(edges, p, s)
             /\ ReleaseWorks(p, s) \subseteq data.parents[p].works
        /\ data.parents[p].works \subseteq DOMAIN data.works
        /\ \A w \in data.parents[p].works : Waits(edges, CallNode(data.parents[p].fence, "COMPLETE_REQUIRED"), Npu(w))

(* The barriers between graphs, and the entries and exits of operations. *)
GraphsWired(edges) ==
    /\ \A op \in Operations :
         /\ data.ops[op].graph \in Nat \ {0} /\ 1 .. data.ops[op].graph \subseteq Graphs
         /\ Waits(edges, Enter(op), GraphNode(data.ops[op].graph, "begin"))
         /\ Waits(edges, GraphNode(data.ops[op].graph, "end"), Exit(op))
         /\ \E row : Waits(edges, Exit(op), row) /\ Waits(edges, row, Enter(op))
    /\ \A g \in Graphs : g > 1 =>
         \/ Waits(edges, GraphNode(g, "begin"), GraphNode(g - 1, "end"))
         \/ \E d : /\ Waits(edges, GraphNode(g, "begin"), DispatchNode(d, "begin"))
                   /\ Waits(edges, DispatchNode(d, "begin"), DispatchNode(d - 1, "end"))
                   /\ Waits(edges, DispatchNode(d - 1, "end"), GraphNode(g - 1, "end"))
    /\ \A i \in 1 .. Len(samples) - 1 :
         /\ NextDecode(i) \in Nat \ {0}
         /\ \A op \in OperationsIn(NextDecode(i)) : Waits(edges, Enter(op), <<"token", i>>)

(* What completed or started waited for what the graph says. *)
Causal ==
    /\ done \subseteq DOMAIN graph /\ started \subseteq DOMAIN graph
    /\ \A n \in done \cup started : Ready(graph, n, started, done)

LEMMA Behind ==
  ASSUME Causal, NEW n \in done \cup started, NEW m, Waits(graph, n, m)
  PROVE  m \in done
  <1>1. n \in DOMAIN graph /\ Ready(graph, n, started, done)
    BY DEF Causal
  <1>2. <<m, "RESULT_READY">> \in graph[n] /\ <<m, "RESULT_READY">>[1] = m /\ <<m, "RESULT_READY">>[2] = "RESULT_READY"
    BY <1>1 DEF Waits
  <1>3. \/ <<m, "RESULT_READY">>[1] \in done
        \/ <<m, "RESULT_READY">>[2] = "ACCEPTED"
    BY <1>1, <1>2 DEF Ready
  <1> QED
    BY <1>2, <1>3

(***************************************************************************)
(* From the wiring to the bounds                                           *)
(***************************************************************************)
\* A stripe that released its place in the window had taken it.
LEMMA StripeOrder ==
  ASSUME Causal, NEW p, NEW s, StripeWired(graph, p, s), NEW c, c = data.works[StripeWork(p, s)].call
  PROVE  /\ Owner(p, s, "FRONTEND_OUTSTANDING", "RELEASE", 0) \in done => Owner(p, s, "FRONTEND_OUTSTANDING", "ACQUIRE", 0) \in done
         /\ Owner(p, s, "EXSIA_WORKSPACE", "RELEASE", 0) \in done => Owner(p, s, "EXSIA_WORKSPACE", "ACQUIRE", 0) \in done
         /\ CallNode(c, "INVOKE") \in done => Owner(p, s, "FRONTEND_QUEUE", "DEQUEUE", 0) \in done
         /\ Npu(StripeWork(p, s)) \in started => CallNode(c, "PUBLISH") \in done
  <1> DEFINE o(resource, transition) == Owner(p, s, resource, transition, 0)
  <1>1. o("FRONTEND_QUEUE", "ENQUEUE") \in done => o("FRONTEND_OUTSTANDING", "ACQUIRE") \in done
    BY Behind DEF StripeWired
  <1>2. CallNode(c, "INVOKE") \in done => o("FRONTEND_QUEUE", "DEQUEUE") \in done
    <2>1. CallNode(c, "INVOKE") \in done => CallNode(c, "PREPARE") \in done
      BY Behind DEF StripeWired
    <2>2. CallNode(c, "PREPARE") \in done => o("FRONTEND_QUEUE", "DEQUEUE") \in done
      BY Behind DEF StripeWired
    <2> QED
      BY <2>1, <2>2
  <1>3. o("CPU_FUNCTIONAL_STREAM", "COMPLETED") \in done => CallNode(c, "INVOKE") \in done
    <2>1. o("CPU_FUNCTIONAL_STREAM", "COMPLETED") \in done => o("CPU_FUNCTIONAL_STREAM", "ACCEPTED") \in done
      BY Behind DEF StripeWired
    <2>2. o("CPU_FUNCTIONAL_STREAM", "ACCEPTED") \in done => CallNode(c, "PUBLISH") \in done
      BY Behind DEF StripeWired
    <2>3. CallNode(c, "PUBLISH") \in done => CallNode(c, "INVOKE") \in done
      BY Behind DEF StripeWired
    <2> QED
      BY <2>1, <2>2, <2>3
  <1>4. o("FRONTEND_OUTSTANDING", "RELEASE") \in done => o("CPU_FUNCTIONAL_STREAM", "COMPLETED") \in done
    <2>1. CASE HasCallback(p, s)
      <3>1. o("FRONTEND_OUTSTANDING", "RELEASE") \in done => o("RESIDUAL_CALLBACK", "COMPLETE") \in done
        BY <2>1, Behind DEF StripeWired
      <3>2. o("RESIDUAL_CALLBACK", "COMPLETE") \in done => o("CPU_FUNCTIONAL_STREAM", "COMPLETED") \in done
        BY <2>1, Behind DEF StripeWired
      <3> QED
        BY <3>1, <3>2
    <2>2. CASE ~HasCallback(p, s)
      BY <2>2, Behind DEF StripeWired
    <2> QED
      BY <2>1, <2>2
  <1>5. o("FRONTEND_QUEUE", "DEQUEUE") \in done => o("FRONTEND_QUEUE", "ENQUEUE") \in done
    BY Behind DEF StripeWired
  <1>6. o("FRONTEND_OUTSTANDING", "ACQUIRE") \in done => o("EXSIA_WORKSPACE", "ACQUIRE") \in done
    <2>1. o("FRONTEND_OUTSTANDING", "ACQUIRE") \in done => o("RESIDUAL_PAYLOAD", "SEAL") \in done
      BY Behind DEF StripeWired
    <2>2. o("RESIDUAL_PAYLOAD", "SEAL") \in done => o("ACTIVATION_ROWS", "COMMIT") \in done
      BY Behind DEF StripeWired
    <2>3. o("ACTIVATION_ROWS", "COMMIT") \in done => o("EXSIA_WORKSPACE", "ACQUIRE") \in done
      BY Behind DEF StripeWired
    <2> QED
      BY <2>1, <2>2, <2>3
  <1>7. o("EXSIA_WORKSPACE", "RELEASE") \in done => o("FRONTEND_QUEUE", "ENQUEUE") \in done
    BY Behind DEF StripeWired
  <1>8. Npu(StripeWork(p, s)) \in started => CallNode(c, "PUBLISH") \in done
    BY Behind DEF StripeWired
  <1> QED
    BY <1>1, <1>2, <1>3, <1>4, <1>5, <1>6, <1>7, <1>8

\* The window: a stripe took its place only when every earlier stripe of its
\* parity had given its own back.
LEMMA WindowOrder ==
  ASSUME Causal, PipelineWired(graph), NEW p \in DOMAIN data.parents,
         NEW t \in Stripes(p), NEW s \in Stripes(p), s < t, s % 2 = t % 2,
         Owner(p, t, "FRONTEND_OUTSTANDING", "ACQUIRE", 0) \in done
  PROVE  Owner(p, s, "FRONTEND_OUTSTANDING", "RELEASE", 0) \in done
  <1> DEFINE Acquired(n) == Owner(p, n, "FRONTEND_OUTSTANDING", "ACQUIRE", 0) \in done
             Released(n) == Owner(p, n, "FRONTEND_OUTSTANDING", "RELEASE", 0) \in done
             Bad == {n \in Stripes(p) : n > s /\ n % 2 = s % 2 /\ Acquired(n)}
  <1>1. SUFFICES ASSUME ~Released(s) PROVE FALSE
    OBVIOUS
  <1>2. \A n \in Stripes(p) : n \in Nat \ {0} /\ 1 .. n \subseteq Stripes(p)
    BY DEF PipelineWired
  <1>3. Bad \in SUBSET Nat /\ t \in Bad
    BY <1>2
  <1>4. PICK n \in Bad : \A m \in Bad : n <= m
    BY <1>3, LeastNumber
  <1>5. n \in Stripes(p) /\ n \in Nat /\ s \in Nat \ {0} /\ n > s /\ n % 2 = s % 2 /\ Acquired(n)
    BY <1>2, <1>4
  <1>6. n > 2 /\ n - 2 \in Nat \ {0} /\ n - 2 >= s /\ (n - 2) % 2 = s % 2
    BY <1>5
  <1>7. n - 2 \in Stripes(p)
    BY <1>2, <1>5, <1>6
  <1>8. NeighboursWired(graph, p, n) /\ StripeWired(graph, p, n - 2)
    BY <1>5, <1>7 DEF PipelineWired
  <1>9. Released(n - 2)
    BY <1>5, <1>6, <1>8, Behind DEF NeighboursWired
  <1>10. Acquired(n - 2)
    BY <1>8, <1>9, StripeOrder
  <1>11. n - 2 > s
    BY <1>1, <1>5, <1>6, <1>9
  <1>12. n - 2 \in Bad
    BY <1>6, <1>7, <1>10, <1>11
  <1> QED
    BY <1>4, <1>5, <1>12

\* A slot: a stripe took it only when every earlier stripe with it gave it back.
LEMMA SlotOrder ==
  ASSUME Causal, PipelineWired(graph), NEW p \in DOMAIN data.parents,
         NEW t \in Stripes(p), NEW s \in Stripes(p), s < t, SameSlot(p, t, s),
         Owner(p, t, "EXSIA_WORKSPACE", "ACQUIRE", 0) \in done
  PROVE  Owner(p, s, "EXSIA_WORKSPACE", "RELEASE", 0) \in done
  <1> DEFINE Acquired(n) == Owner(p, n, "EXSIA_WORKSPACE", "ACQUIRE", 0) \in done
             Released(n) == Owner(p, n, "EXSIA_WORKSPACE", "RELEASE", 0) \in done
             Bad == {n \in Stripes(p) : n > s /\ SameSlot(p, n, s) /\ Acquired(n)}
  <1>1. SUFFICES ASSUME ~Released(s) PROVE FALSE
    OBVIOUS
  <1>2. \A n \in Stripes(p) : n \in Nat
    BY DEF PipelineWired
  <1>3. Bad \in SUBSET Nat /\ t \in Bad
    BY <1>2
  <1>4. PICK n \in Bad : \A m \in Bad : n <= m
    BY <1>3, LeastNumber
  <1>5. n \in Stripes(p) /\ n \in Nat /\ s \in Nat /\ n > s /\ SameSlot(p, n, s) /\ Acquired(n)
    BY <1>2, <1>4
  <1>6. NeighboursWired(graph, p, n)
    BY <1>5 DEF PipelineWired
  <1>7. PICK u \in Stripes(p) :
           /\ u < n /\ SameSlot(p, n, u) /\ s <= u
           /\ Waits(graph, Owner(p, n, "EXSIA_WORKSPACE", "ACQUIRE", 0), Owner(p, u, "EXSIA_WORKSPACE", "RELEASE", 0))
    BY <1>5, <1>6 DEF NeighboursWired
  <1>8. Released(u)
    BY <1>5, <1>7, Behind
  <1>9. StripeWired(graph, p, u)
    BY DEF PipelineWired
  <1>10. Acquired(u)
    BY <1>8, <1>9, StripeOrder
  <1>11. SameSlot(p, u, s)
    BY <1>5, <1>7 DEF SameSlot
  <1>12. u \in Nat /\ u > s
    BY <1>1, <1>2, <1>5, <1>7, <1>8
  <1>13. u \in Bad
    BY <1>10, <1>11, <1>12
  <1> QED
    BY <1>4, <1>5, <1>7, <1>12, <1>13

\* The queue is left in order.
LEMMA QueueOrder ==
  ASSUME Causal, PipelineWired(graph), NEW p \in DOMAIN data.parents,
         NEW t \in Stripes(p), NEW s \in Stripes(p), s < t,
         Owner(p, t, "FRONTEND_QUEUE", "DEQUEUE", 0) \in done
  PROVE  Owner(p, s, "FRONTEND_QUEUE", "DEQUEUE", 0) \in done
  <1> DEFINE Dequeued(n) == Owner(p, n, "FRONTEND_QUEUE", "DEQUEUE", 0) \in done
             Bad == {n \in Stripes(p) : n > s /\ Dequeued(n)}
  <1>1. SUFFICES ASSUME ~Dequeued(s) PROVE FALSE
    OBVIOUS
  <1>2. \A n \in Stripes(p) : n \in Nat \ {0} /\ 1 .. n \subseteq Stripes(p)
    BY DEF PipelineWired
  <1>3. Bad \in SUBSET Nat /\ t \in Bad
    BY <1>2
  <1>4. PICK n \in Bad : \A m \in Bad : n <= m
    BY <1>3, LeastNumber
  <1>5. n \in Stripes(p) /\ n \in Nat /\ s \in Nat \ {0} /\ n > s /\ Dequeued(n)
    BY <1>2, <1>4
  <1>6. n > 1 /\ n - 1 \in Nat \ {0} /\ n - 1 >= s /\ n - 1 \in Stripes(p)
    BY <1>2, <1>5
  <1>7. NeighboursWired(graph, p, n)
    BY <1>5 DEF PipelineWired
  <1>8. Dequeued(n - 1)
    BY <1>5, <1>6, <1>7, Behind DEF NeighboursWired
  <1>9. n - 1 \in Bad
    BY <1>1, <1>5, <1>6, <1>8
  <1> QED
    BY <1>4, <1>5, <1>9

\* Of numbers that differ in parity there are at most two.
LEMMA AtMostTwo ==
  ASSUME NEW S \in SUBSET Nat, \A s, t \in S : s < t => s % 2 /= t % 2
  PROVE  Cardinality(S) <= 2
  <1>1. PICK a \in Nat : \A s \in S : s % 2 = 0 => s = a
    <2>1. CASE \E s \in S : s % 2 = 0
      <3>1. PICK s \in S : s % 2 = 0
        BY <2>1
      <3>2. \A r \in S : r % 2 = 0 => r = s
        BY <3>1
      <3> QED
        BY <3>2
    <2> QED
      BY <2>1
  <1>2. PICK b \in Nat : \A s \in S : s % 2 = 1 => s = b
    <2>1. CASE \E s \in S : s % 2 = 1
      <3>1. PICK s \in S : s % 2 = 1
        BY <2>1
      <3>2. \A r \in S : r % 2 = 1 => r = s
        BY <3>1
      <3> QED
        BY <3>2
    <2> QED
      BY <2>1
  <1>3. \A s \in S : s % 2 = 0 \/ s % 2 = 1
    OBVIOUS
  <1>4. S \subseteq {a} \cup {b}
    BY <1>1, <1>2, <1>3
  <1>5. IsFiniteSet({a}) /\ Cardinality({a}) = 1
    BY FS_Singleton
  <1>6. IsFiniteSet({a} \cup {b}) /\ Cardinality({a} \cup {b}) <= 2
    BY <1>5, FS_AddElement
  <1>7. Cardinality(S) <= Cardinality({a} \cup {b}) /\ IsFiniteSet(S)
    BY <1>4, <1>6, FS_Subset
  <1>8. Cardinality(S) \in Nat /\ Cardinality({a} \cup {b}) \in Nat
    BY <1>6, <1>7, FS_CardinalityType
  <1> QED
    BY <1>6, <1>7, <1>8

LEMMA StripesAreBounded ==
  ASSUME Causal, PipelineWired(graph) PROVE StripesBounded
  <1> SUFFICES ASSUME NEW p \in DOMAIN data.parents
      PROVE
        /\ Cardinality({s \in Stripes(p) : Held(p, s, "FRONTEND_OUTSTANDING")}) <= 2
        /\ \A s, t \in Stripes(p) :
             /\ s < t /\ Held(p, s, "EXSIA_WORKSPACE") /\ Held(p, t, "EXSIA_WORKSPACE")
                  => data.parents[p].stripes[s].slot /= data.parents[p].stripes[t].slot
             /\ s < t /\ CallNode(data.works[StripeWork(p, t)].call, "INVOKE") \in done
                  => Owner(p, s, "FRONTEND_QUEUE", "DEQUEUE", 0) \in done
        /\ \A s \in Stripes(p) : Npu(StripeWork(p, s)) \in started
              => CallNode(data.works[StripeWork(p, s)].call, "PUBLISH") \in done
        /\ CallNode(data.parents[p].fence, "COMPLETE_REQUIRED") \in done
              => \A s \in Stripes(p) : ReleaseWorks(p, s) \subseteq {w \in DOMAIN data.works : Npu(w) \in done}
    BY DEF StripesBounded
  <1>1. \A s \in Stripes(p) : s \in Nat /\ StripeWired(graph, p, s)
    BY DEF PipelineWired
  <1>2. Cardinality({s \in Stripes(p) : Held(p, s, "FRONTEND_OUTSTANDING")}) <= 2
    <2> DEFINE S == {s \in Stripes(p) : Held(p, s, "FRONTEND_OUTSTANDING")}
    <2>1. S \in SUBSET Nat
      BY <1>1
    <2>2. ASSUME NEW s \in S, NEW t \in S, s < t PROVE s % 2 /= t % 2
      BY <2>2, WindowOrder DEF Held
    <2> HIDE DEF S
    <2>3. Cardinality(S) <= 2
      BY <2>1, <2>2, AtMostTwo
    <2> QED
      BY <2>3 DEF S
  <1>3. ASSUME NEW s \in Stripes(p), NEW t \in Stripes(p), s < t, Held(p, s, "EXSIA_WORKSPACE"), Held(p, t, "EXSIA_WORKSPACE")
        PROVE  data.parents[p].stripes[s].slot /= data.parents[p].stripes[t].slot
    BY <1>3, SlotOrder DEF Held, SameSlot
  <1>4. ASSUME NEW s \in Stripes(p), NEW t \in Stripes(p), s < t, CallNode(data.works[StripeWork(p, t)].call, "INVOKE") \in done
        PROVE  Owner(p, s, "FRONTEND_QUEUE", "DEQUEUE", 0) \in done
    BY <1>1, <1>4, StripeOrder, QueueOrder
  <1>5. ASSUME NEW s \in Stripes(p), Npu(StripeWork(p, s)) \in started
        PROVE  CallNode(data.works[StripeWork(p, s)].call, "PUBLISH") \in done
    BY <1>1, <1>5, StripeOrder
  <1>6. ASSUME CallNode(data.parents[p].fence, "COMPLETE_REQUIRED") \in done, NEW s \in Stripes(p), NEW w \in ReleaseWorks(p, s)
        PROVE  w \in DOMAIN data.works /\ Npu(w) \in done
    <2>1. w \in data.parents[p].works /\ w \in DOMAIN data.works
      BY DEF PipelineWired
    <2>2. Waits(graph, CallNode(data.parents[p].fence, "COMPLETE_REQUIRED"), Npu(w))
      BY <2>1 DEF PipelineWired
    <2> QED
      BY <1>6, <2>1, <2>2, Behind
  <1> QED
    BY <1>2, <1>3, <1>4, <1>5, <1>6

\* The end of a graph with an operation waited for its begin.
LEMMA GraphEntered ==
  ASSUME Causal, GraphsWired(graph), NEW op \in Operations, GraphNode(data.ops[op].graph, "end") \in done
  PROVE  Exit(op) \in done /\ Enter(op) \in done /\ GraphNode(data.ops[op].graph, "begin") \in done
  <1>1. Exit(op) \in done
    BY Behind DEF GraphsWired
  <1>2. PICK row : Waits(graph, Exit(op), row) /\ Waits(graph, row, Enter(op))
    BY DEF GraphsWired
  <1>3. row \in done
    BY <1>1, <1>2, Behind
  <1>4. Enter(op) \in done
    BY <1>2, <1>3, Behind
  <1>5. GraphNode(data.ops[op].graph, "begin") \in done
    BY <1>4, Behind DEF GraphsWired
  <1> QED
    BY <1>1, <1>4, <1>5

LEMMA GraphFollows ==
  ASSUME Causal, GraphsWired(graph), NEW g \in Graphs, g > 1, GraphNode(g, "begin") \in done
  PROVE  GraphNode(g - 1, "end") \in done
  <1>1. CASE Waits(graph, GraphNode(g, "begin"), GraphNode(g - 1, "end"))
    BY <1>1, Behind
  <1>2. ASSUME NEW d, Waits(graph, GraphNode(g, "begin"), DispatchNode(d, "begin")),
               Waits(graph, DispatchNode(d, "begin"), DispatchNode(d - 1, "end")),
               Waits(graph, DispatchNode(d - 1, "end"), GraphNode(g - 1, "end"))
        PROVE  GraphNode(g - 1, "end") \in done
    <2>1. DispatchNode(d, "begin") \in done
      BY <1>2, Behind
    <2>2. DispatchNode(d - 1, "end") \in done
      BY <1>2, <2>1, Behind
    <2> QED
      BY <1>2, <2>2, Behind
  <1> QED
    BY <1>1, <1>2 DEF GraphsWired

\* As long as no graph is empty, a graph begins after the end of every earlier one.
LEMMA GraphOrder ==
  ASSUME Causal, GraphsWired(graph), NEW g \in Nat, NEW h \in Nat \ {0}, h < g, 1 .. g \subseteq Graphs,
         Occupied(h, g), GraphNode(g, "begin") \in done
  PROVE  GraphNode(h, "end") \in done
  <1> DEFINE Bad == {n \in h + 1 .. g : GraphNode(n, "begin") \in done}
  <1>1. SUFFICES ASSUME GraphNode(h, "end") \notin done PROVE FALSE
    OBVIOUS
  <1>2. Bad \in SUBSET Nat /\ g \in Bad
    OBVIOUS
  <1>3. PICK n \in Bad : \A m \in Bad : n <= m
    BY <1>2, LeastNumber
  <1>4. n \in Nat /\ n > h /\ n <= g /\ n > 1 /\ n \in Graphs /\ GraphNode(n, "begin") \in done
    BY <1>3
  <1>5. GraphNode(n - 1, "end") \in done
    BY <1>4, GraphFollows
  <1>6. n - 1 \in Nat /\ n - 1 > h /\ n - 1 <= g
    BY <1>1, <1>4, <1>5
  <1>7. PICK op \in Operations : data.ops[op].graph = n - 1
    BY <1>6 DEF Occupied, OperationsIn
  <1>8. GraphNode(n - 1, "begin") \in done
    BY <1>5, <1>7, GraphEntered
  <1>9. n - 1 \in Bad
    BY <1>6, <1>8
  <1> QED
    BY <1>3, <1>4, <1>9

LEMMA GraphsAreSerial ==
  ASSUME Causal, GraphsWired(graph) PROVE GraphsSerial
  <1> SUFFICES ASSUME NEW op \in Operations, Enter(op) \in done
      PROVE
        /\ \A other \in Operations :
             data.ops[other].graph < data.ops[op].graph /\ Occupied(data.ops[other].graph, data.ops[op].graph)
               => Exit(other) \in done
        /\ \A i \in 1 .. Len(samples) - 1 :
             NextDecode(i) <= data.ops[op].graph /\ Occupied(NextDecode(i), data.ops[op].graph) => <<"token", i>> \in done
    BY DEF GraphsSerial
  <1> DEFINE g == data.ops[op].graph
  <1>1. g \in Nat /\ 1 .. g \subseteq Graphs
    BY DEF GraphsWired
  <1>2. GraphNode(g, "begin") \in done
    BY Behind DEF GraphsWired
  <1>3. ASSUME NEW other \in Operations, data.ops[other].graph < g, Occupied(data.ops[other].graph, g)
        PROVE  Exit(other) \in done
    <2>1. data.ops[other].graph \in Nat \ {0}
      BY DEF GraphsWired
    <2>2. GraphNode(data.ops[other].graph, "end") \in done
      BY <1>1, <1>2, <1>3, <2>1, GraphOrder
    <2> QED
      BY <2>2, GraphEntered
  <1>4. ASSUME NEW i \in 1 .. Len(samples) - 1, NextDecode(i) <= g, Occupied(NextDecode(i), g)
        PROVE  <<"token", i>> \in done
    <2>1. NextDecode(i) \in Nat \ {0}
      BY DEF GraphsWired
    <2>2. PICK first \in Operations : data.ops[first].graph = NextDecode(i) /\ Enter(first) \in done
      <3>1. CASE NextDecode(i) = g
        BY <3>1
      <3>2. CASE NextDecode(i) < g
        <4>1. GraphNode(NextDecode(i), "end") \in done
          BY <1>1, <1>2, <1>4, <2>1, <3>2, GraphOrder
        <4>2. PICK first \in Operations : data.ops[first].graph = NextDecode(i)
          BY <1>1, <1>4, <2>1 DEF Occupied, OperationsIn
        <4> QED
          BY <4>1, <4>2, GraphEntered
      <3> QED
        BY <1>1, <1>4, <2>1, <3>1, <3>2
    <2>3. Waits(graph, Enter(first), <<"token", i>>)
      <3>1. first \in OperationsIn(NextDecode(i))
        BY <2>2 DEF OperationsIn
      <3> QED
        BY <3>1 DEF GraphsWired
    <2> QED
      BY <2>2, <2>3, Behind
  <1> QED
    BY <1>3, <1>4

(***************************************************************************)
(* The streamed graph is wired                                             *)
(***************************************************************************)
LEMMA StreamNode ==
  ASSUME NEW n, NEW m, <<m, "RESULT_READY">> \in Dependencies(n, [row \in Rows |-> StreamEdges(row)])
  PROVE  Waits(StreamGraph, n, m)
  BY DEF Waits, StreamGraph

LEMMA ResultOf ==
  ASSUME NEW S, NEW m \in S PROVE <<m, "RESULT_READY">> \in Result(S)
  BY DEF Result

\* An edge the projection adds is in the graph.
LEMMA AddedWaits ==
  ASSUME mode = "PIPELINE", NEW n, NEW m, <<n, m>> \in Additions, n \in Rows \/ n[1] = "owner"
  PROVE  Waits(StreamGraph, n, m)
  <1> DEFINE edges == [row \in Rows |-> StreamEdges(row)]
  <1>1. m \in {e[2] : e \in {a \in Additions : a[1] = n}}
    <2>1. <<n, m>>[1] = n /\ <<n, m>>[2] = m
      OBVIOUS
    <2> QED
      BY <2>1
  <1>2. \A deps : <<m, "RESULT_READY">> \in PipelineEdges(n, deps)
    BY <1>1, ResultOf DEF PipelineEdges
  <1> HIDE DEF edges
  <1>3. CASE n \in Rows
    BY <1>2, <1>3, RowNode, StreamNode DEF edges
  <1>4. CASE n \notin Rows
    <2>1. n[1] = "owner" /\ n[1] /= "enter" /\ n[1] /= "exit" /\ n \notin Barriers
      BY <1>4, BarrierTags
    <2>2. <<m, "RESULT_READY">> \in Dependencies(n, edges)
      BY <1>2, <1>4, <2>1 DEF Dependencies
    <2> QED
      BY <2>2, StreamNode DEF edges
  <1> QED
    BY <1>3, <1>4

\* An edge of the dataset that the projection does not remove is in the graph.
LEMMA RowWaits ==
  ASSUME NEW row \in Rows, NEW m \in RowDependencies(row) \cup {Enter(OperationOf(row))},
         ~((row[1] = "call" /\ m[1] = "npu") \/ (row[1] = "npu" /\ m[1] = "call"))
  PROVE  Waits(StreamGraph, row, m)
  <1> DEFINE edges == [r \in Rows |-> StreamEdges(r)]
             dep == <<m, "RESULT_READY">>
  <1>1. edges[row] = StreamEdges(row)
    OBVIOUS
  <1>2. dep \in StreamEdges(row)
    BY ResultOf DEF StreamEdges
  <1>3. dep[1] = m
    OBVIOUS
  <1>4. <<row, m>> \notin Removals
    BY RemovalKinds
  <1> HIDE DEF edges, dep
  <1>5. dep \in PipelineEdges(row, edges[row])
    BY <1>1, <1>2, <1>3, <1>4 DEF PipelineEdges
  <1>6. dep \in Dependencies(row, edges)
    BY <1>5, RowNode
  <1> QED
    BY <1>6, StreamNode DEF edges, dep

LEMMA StripeEdgeWaits ==
  ASSUME mode = "PIPELINE", NEW p \in DOMAIN data.parents, NEW s \in Stripes(p),
         NEW n, NEW m, <<n, m>> \in StripeEdges(p, s) \cup CompletionEdges(p, s), n \in Rows \/ n[1] = "owner"
  PROVE  Waits(StreamGraph, n, m)
  <1>1. <<n, m>> \in Additions
    BY DEF Additions
  <1> QED
    BY <1>1, AddedWaits

\* What a stage of a call waits for.
LEMMA StageWaits ==
  ASSUME WellFormed(data), NEW c \in DOMAIN data.calls, NEW n \in DOMAIN data.calls[c].stages, n = 2 \/ n = 3
  PROVE  Waits(StreamGraph, CallNode(c, data.calls[c].stages[n]), CallNode(c, data.calls[c].stages[n - 1]))
  <1> DEFINE stages == data.calls[c].stages
             row == CallNode(c, stages[n])
  <1>1. row[1] = "call" /\ row[2] = c /\ row[3] = stages[n]
    BY NodeTags
  <1>2. \A m \in DOMAIN stages : stages[m] = stages[n] => m = n
    BY DEF WellFormed
  <1>3. (CHOOSE m \in DOMAIN data.calls[c].stages : data.calls[c].stages[m] = stages[n]) = n
    BY <1>2
  <1>4. RowDependencies(row) = CallRow(c, n)
    BY <1>1, <1>3 DEF RowDependencies
  <1>5. CallNode(c, stages[n - 1]) \in CallRow(c, n)
    BY DEF CallRow
  <1>6. row \in Rows
    BY CallRowsExist
  <1>7. CallNode(c, stages[n - 1])[1] = "call"
    BY NodeTags
  <1> HIDE DEF row
  <1>8. Waits(StreamGraph, row, CallNode(c, stages[n - 1]))
    BY <1>1, <1>4, <1>5, <1>6, <1>7, RowWaits
  <1> QED
    BY <1>8 DEF row

LEMMA BoundaryRow ==
  ASSUME NEW c, NEW stage, NEW kind, NEW op, Boundary(c, stage, kind, op)
  PROVE  c \in DOMAIN data.calls /\ CallNode(c, stage) \in Rows
  <1>1. c \in DOMAIN data.calls
    BY DEF Boundary
  <1>2. PICK n \in DOMAIN data.calls[c].stages : data.calls[c].stages[n] = stage
    BY DEF Boundary, Range
  <1> QED
    BY <1>1, <1>2, CallRowsExist

LEMMA WorkRows == ASSUME NEW w \in DOMAIN data.works PROVE Npu(w) \in Rows
  BY DEF Rows

LEMMA StripeIsWired ==
  ASSUME WellFormed(data), Adaptable, mode = "PIPELINE", NEW p \in DOMAIN data.parents, NEW s \in Stripes(p)
  PROVE  StripeWired(StreamGraph, p, s)
  <1> DEFINE o(resource, transition) == Owner(p, s, resource, transition, 0)
             c == data.works[StripeWork(p, s)].call
  <1>1. ParsePipeline /\ BuildLifecycle /\ BoundariesExact
    BY DEF Adaptable
  <1>2. StripeWork(p, s) \in DOMAIN data.works
    <2>1. StripeWork(p, s) \in data.parents[p].works
      BY <1>1 DEF ParsePipeline, DenseWorks
    <2> QED
      BY <1>1, <2>1 DEF BuildLifecycle
  <1>3. Boundary(c, "PREPARE", "STRIPE", data.parents[p].op) /\ Boundary(c, "PUBLISH", "STRIPE", data.parents[p].op)
    BY <1>1 DEF BoundariesExact
  <1>4. c \in DOMAIN data.calls /\ CallNode(c, "PREPARE") \in Rows /\ CallNode(c, "PUBLISH") \in Rows /\ Npu(StripeWork(p, s)) \in Rows
    BY <1>2, <1>3, BoundaryRow, WorkRows
  <1>5. /\ {1, 2, 3} \subseteq DOMAIN data.calls[c].stages
        /\ data.calls[c].stages[1] = "PREPARE" /\ data.calls[c].stages[2] = "INVOKE" /\ data.calls[c].stages[3] = "PUBLISH"
    BY <1>3, <1>4 DEF WellFormed, Boundary
  <1>6. \A r, t : o(r, t)[1] = "owner"
    BY NodeTags
  <1> DEFINE E == StripeEdges(p, s)
             F == CompletionEdges(p, s)
  <1>7. /\ <<o("ACTIVATION_ROWS", "COMMIT"), o("EXSIA_WORKSPACE", "ACQUIRE")>> \in E
        /\ <<o("RESIDUAL_PAYLOAD", "SEAL"), o("ACTIVATION_ROWS", "COMMIT")>> \in E
        /\ <<o("FRONTEND_OUTSTANDING", "ACQUIRE"), o("RESIDUAL_PAYLOAD", "SEAL")>> \in E
        /\ <<o("FRONTEND_QUEUE", "ENQUEUE"), o("FRONTEND_OUTSTANDING", "ACQUIRE")>> \in E
        /\ <<o("EXSIA_WORKSPACE", "RELEASE"), o("FRONTEND_QUEUE", "ENQUEUE")>> \in E
        /\ <<o("FRONTEND_QUEUE", "DEQUEUE"), o("FRONTEND_QUEUE", "ENQUEUE")>> \in E
        /\ <<CallNode(c, "PREPARE"), o("FRONTEND_QUEUE", "DEQUEUE")>> \in E
        /\ <<Npu(StripeWork(p, s)), CallNode(c, "PUBLISH")>> \in E
        /\ <<o("CPU_FUNCTIONAL_STREAM", "ACCEPTED"), CallNode(c, "PUBLISH")>> \in E
        /\ <<o("CPU_FUNCTIONAL_STREAM", "COMPLETED"), o("CPU_FUNCTIONAL_STREAM", "ACCEPTED")>> \in E
    BY DEF StripeEdges
  <1>8. IF HasCallback(p, s)
        THEN /\ <<o("FRONTEND_OUTSTANDING", "RELEASE"), o("RESIDUAL_CALLBACK", "COMPLETE")>> \in F
             /\ <<o("RESIDUAL_CALLBACK", "COMPLETE"), o("CPU_FUNCTIONAL_STREAM", "COMPLETED")>> \in F
        ELSE <<o("FRONTEND_OUTSTANDING", "RELEASE"), o("CPU_FUNCTIONAL_STREAM", "COMPLETED")>> \in F
    BY DEF CompletionEdges
  <1>9. /\ Waits(StreamGraph, CallNode(c, "INVOKE"), CallNode(c, "PREPARE"))
        /\ Waits(StreamGraph, CallNode(c, "PUBLISH"), CallNode(c, "INVOKE"))
    <2>1. 2 - 1 = 1 /\ 3 - 1 = 2
      OBVIOUS
    <2>2. Waits(StreamGraph, CallNode(c, data.calls[c].stages[2]), CallNode(c, data.calls[c].stages[2 - 1]))
      BY <1>4, <1>5, StageWaits
    <2>3. Waits(StreamGraph, CallNode(c, data.calls[c].stages[3]), CallNode(c, data.calls[c].stages[3 - 1]))
      BY <1>4, <1>5, StageWaits
    <2> QED
      BY <1>5, <2>1, <2>2, <2>3
  <1> HIDE DEF E, F
  <1>10. \A n, m : <<n, m>> \in E \cup F /\ (n \in Rows \/ n[1] = "owner") => Waits(StreamGraph, n, m)
    BY StripeEdgeWaits DEF E, F
  <1> HIDE DEF o, c
  <1>11. /\ Waits(StreamGraph, o("ACTIVATION_ROWS", "COMMIT"), o("EXSIA_WORKSPACE", "ACQUIRE"))
         /\ Waits(StreamGraph, o("RESIDUAL_PAYLOAD", "SEAL"), o("ACTIVATION_ROWS", "COMMIT"))
         /\ Waits(StreamGraph, o("FRONTEND_OUTSTANDING", "ACQUIRE"), o("RESIDUAL_PAYLOAD", "SEAL"))
         /\ Waits(StreamGraph, o("FRONTEND_QUEUE", "ENQUEUE"), o("FRONTEND_OUTSTANDING", "ACQUIRE"))
         /\ Waits(StreamGraph, o("EXSIA_WORKSPACE", "RELEASE"), o("FRONTEND_QUEUE", "ENQUEUE"))
         /\ Waits(StreamGraph, o("FRONTEND_QUEUE", "DEQUEUE"), o("FRONTEND_QUEUE", "ENQUEUE"))
    BY <1>6, <1>7, <1>10
  <1>12. /\ Waits(StreamGraph, CallNode(c, "PREPARE"), o("FRONTEND_QUEUE", "DEQUEUE"))
         /\ Waits(StreamGraph, Npu(StripeWork(p, s)), CallNode(c, "PUBLISH"))
         /\ Waits(StreamGraph, o("CPU_FUNCTIONAL_STREAM", "ACCEPTED"), CallNode(c, "PUBLISH"))
         /\ Waits(StreamGraph, o("CPU_FUNCTIONAL_STREAM", "COMPLETED"), o("CPU_FUNCTIONAL_STREAM", "ACCEPTED"))
    BY <1>4, <1>6, <1>7, <1>10
  <1>13. IF HasCallback(p, s)
         THEN /\ Waits(StreamGraph, o("FRONTEND_OUTSTANDING", "RELEASE"), o("RESIDUAL_CALLBACK", "COMPLETE"))
              /\ Waits(StreamGraph, o("RESIDUAL_CALLBACK", "COMPLETE"), o("CPU_FUNCTIONAL_STREAM", "COMPLETED"))
         ELSE Waits(StreamGraph, o("FRONTEND_OUTSTANDING", "RELEASE"), o("CPU_FUNCTIONAL_STREAM", "COMPLETED"))
    BY <1>6, <1>8, <1>10
  <1> QED
    BY <1>9, <1>11, <1>12, <1>13 DEF StripeWired, o, c

LEMMA GreatestNumber ==
  ASSUME NEW k \in Nat, NEW S \in SUBSET (1 .. k), S /= {}
  PROVE  Max(S) \in S /\ \A x \in S : x <= Max(S)
  <1> DEFINE gaps == {k - x : x \in S}
  <1>1. gaps \in SUBSET Nat /\ gaps /= {}
    <2>1. \A x \in S : k - x \in Nat
      OBVIOUS
    <2>2. \E x \in S : k - x \in gaps
      OBVIOUS
    <2> QED
      BY <2>1, <2>2
  <1>2. PICK n \in gaps : \A m \in gaps : n <= m
    BY <1>1, LeastNumber
  <1>3. PICK y \in S : n = k - y
    BY <1>2
  <1>4. \A x \in S : x \in Nat /\ n <= k - x
    BY <1>2
  <1>5. \A x \in S : y >= x
    BY <1>3, <1>4
  <1>6. \E z \in S : \A x \in S : z >= x
    BY <1>5
  <1>7. Max(S) \in S /\ \A x \in S : Max(S) >= x
    BY <1>6 DEF Max
  <1> QED
    BY <1>4, <1>7

LEMMA NeighboursAreWired ==
  ASSUME WellFormed(data), mode = "PIPELINE", NEW p \in DOMAIN data.parents, NEW s \in Stripes(p)
  PROVE  NeighboursWired(StreamGraph, p, s)
  <1>1. \A t \in Stripes(p) : t \in Nat \ {0}
    BY DEF WellFormed, Stripes
  <1>2. \A n, m : <<n, m>> \in StripeEdges(p, s) /\ n[1] = "owner" => Waits(StreamGraph, n, m)
    BY StripeEdgeWaits
  <1>3. \A r, t : Owner(p, s, r, t, 0)[1] = "owner"
    BY NodeTags
  <1>4. ASSUME s > 2
        PROVE  Waits(StreamGraph, Owner(p, s, "FRONTEND_OUTSTANDING", "ACQUIRE", 0), Owner(p, s - 2, "FRONTEND_OUTSTANDING", "RELEASE", 0))
    <2>1. <<Owner(p, s, "FRONTEND_OUTSTANDING", "ACQUIRE", 0), Owner(p, s - 2, "FRONTEND_OUTSTANDING", "RELEASE", 0)>> \in CapacityEdges(p, s)
      BY <1>4 DEF CapacityEdges
    <2>2. CapacityEdges(p, s) \subseteq StripeEdges(p, s)
      BY DEF StripeEdges
    <2> QED
      BY <1>2, <1>3, <2>1, <2>2
  <1>5. ASSUME s > 1
        PROVE  Waits(StreamGraph, Owner(p, s, "FRONTEND_QUEUE", "DEQUEUE", 0), Owner(p, s - 1, "FRONTEND_QUEUE", "DEQUEUE", 0))
    <2>1. <<Owner(p, s, "FRONTEND_QUEUE", "DEQUEUE", 0), Owner(p, s - 1, "FRONTEND_QUEUE", "DEQUEUE", 0)>> \in StripeEdges(p, s)
      BY <1>5 DEF StripeEdges
    <2> QED
      BY <1>2, <1>3, <2>1
  <1>6. ASSUME NEW t \in Stripes(p), t < s, SameSlot(p, s, t)
        PROVE  \E u \in Stripes(p) :
                  /\ u < s /\ SameSlot(p, s, u) /\ t <= u
                  /\ Waits(StreamGraph, Owner(p, s, "EXSIA_WORKSPACE", "ACQUIRE", 0), Owner(p, u, "EXSIA_WORKSPACE", "RELEASE", 0))
    <2> DEFINE earlier == {u \in Stripes(p) : u < s /\ data.parents[p].stripes[u].slot = data.parents[p].stripes[s].slot}
    <2>1. t \in earlier /\ s \in Nat /\ earlier \in SUBSET (1 .. s)
      BY <1>1, <1>6 DEF SameSlot
    <2>2. SlotEdges(p, s) = {<<Owner(p, s, "EXSIA_WORKSPACE", "ACQUIRE", 0), Owner(p, Max(earlier), "EXSIA_WORKSPACE", "RELEASE", 0)>>}
      BY <2>1 DEF SlotEdges
    <2>3. SlotEdges(p, s) \subseteq StripeEdges(p, s)
      BY DEF StripeEdges
    <2>4. \A u \in earlier : u \in Stripes(p) /\ u < s /\ SameSlot(p, s, u)
      BY DEF SameSlot
    <2> HIDE DEF earlier
    <2>5. Max(earlier) \in earlier /\ t <= Max(earlier)
      BY <2>1, GreatestNumber
    <2>6. Waits(StreamGraph, Owner(p, s, "EXSIA_WORKSPACE", "ACQUIRE", 0), Owner(p, Max(earlier), "EXSIA_WORKSPACE", "RELEASE", 0))
      BY <1>2, <1>3, <2>2, <2>3
    <2> QED
      BY <2>4, <2>5, <2>6
  <1> QED
    BY <1>4, <1>5, <1>6 DEF NeighboursWired

LEMMA PipelineIsWired ==
  ASSUME WellFormed(data), Adaptable, mode = "PIPELINE" PROVE PipelineWired(StreamGraph)
  <1>1. ParsePipeline /\ BuildLifecycle /\ BoundariesExact
    BY DEF Adaptable
  <1> SUFFICES ASSUME NEW p \in DOMAIN data.parents
      PROVE  /\ \A s \in Stripes(p) :
                  /\ s \in Nat \ {0} /\ 1 .. s \subseteq Stripes(p)
                  /\ StripeWired(StreamGraph, p, s) /\ NeighboursWired(StreamGraph, p, s)
                  /\ ReleaseWorks(p, s) \subseteq data.parents[p].works
             /\ data.parents[p].works \subseteq DOMAIN data.works
             /\ \A w \in data.parents[p].works : Waits(StreamGraph, CallNode(data.parents[p].fence, "COMPLETE_REQUIRED"), Npu(w))
    BY DEF PipelineWired
  <1>2. \A s \in Stripes(p) : s \in Nat \ {0} /\ 1 .. s \subseteq Stripes(p)
    BY DEF WellFormed, Stripes
  <1>3. \A s \in Stripes(p) : ReleaseWorks(p, s) \subseteq data.parents[p].works
    <2>1. ResidualsBound(p) /\ DenseWorks(p) \subseteq data.parents[p].works
      BY <1>1 DEF ParsePipeline
    <2>2. \A s \in Stripes(p) : data.parents[p].stripes[s].residual \subseteq data.parents[p].works
      BY <2>1 DEF ResidualsBound
    <2> QED
      BY <2>1, <2>2 DEF ReleaseWorks, DenseWorks
  <1>4. data.parents[p].works \subseteq DOMAIN data.works
    BY <1>1 DEF BuildLifecycle
  <1>5. ASSUME NEW w \in data.parents[p].works PROVE Waits(StreamGraph, CallNode(data.parents[p].fence, "COMPLETE_REQUIRED"), Npu(w))
    <2>1. <<CallNode(data.parents[p].fence, "COMPLETE_REQUIRED"), Npu(w)>> \in FenceEdges(p)
      BY DEF FenceEdges
    <2>2. FenceEdges(p) \subseteq Additions
      BY DEF Additions
    <2>3. CallNode(data.parents[p].fence, "COMPLETE_REQUIRED") \in Rows
      BY <1>1, BoundaryRow DEF BoundariesExact
    <2> QED
      BY <2>1, <2>2, <2>3, AddedWaits
  <1> QED
    BY <1>2, <1>3, <1>4, <1>5, StripeIsWired, NeighboursAreWired

\* Enter, exit and barrier nodes are no rows.
LEMMA EnterWaits ==
  ASSUME NEW op, NEW m \in Predecessors(op) \cup {GraphNode(data.ops[op].graph, "begin")} \cup EntryEdges(Enter(op))
  PROVE  Waits(StreamGraph, Enter(op), m)
  <1>1. Enter(op)[1] = "enter" /\ Enter(op)[2] = op /\ Enter(op) \notin Rows /\ Enter(op) \notin Barriers
    BY NodeTags, RowTags, BarrierTags
  <1> DEFINE n == Enter(op)
             edges == [row \in Rows |-> StreamEdges(row)]
  <1> HIDE DEF n, edges
  <1>2. Dependencies(n, edges) = Result(EntryEdges(n)) \cup Result(Predecessors(op) \cup {GraphNode(data.ops[op].graph, "begin")})
    BY <1>1 DEF Dependencies, n
  <1>3. <<m, "RESULT_READY">> \in Dependencies(n, edges)
    BY <1>2, ResultOf DEF n
  <1> QED
    BY <1>3, StreamNode DEF n, edges

LEMMA ExitWaits ==
  ASSUME NEW op, NEW m \in Members(op) PROVE Waits(StreamGraph, Exit(op), m)
  <1>1. Exit(op)[1] = "exit" /\ Exit(op)[2] = op /\ Exit(op) \notin Rows /\ Exit(op) \notin Barriers
    BY NodeTags, RowTags, BarrierTags
  <1> DEFINE n == Exit(op)
             edges == [row \in Rows |-> StreamEdges(row)]
  <1> HIDE DEF n, edges
  <1>2. Dependencies(n, edges) = Result(EntryEdges(n)) \cup Result(Members(op))
    BY <1>1 DEF Dependencies, n
  <1>3. <<m, "RESULT_READY">> \in Dependencies(n, edges)
    BY <1>2, ResultOf
  <1> QED
    BY <1>3, StreamNode DEF n, edges

LEMMA BarrierWaits ==
  ASSUME NEW n \in Barriers, NEW m \in BarrierDependencies(n) PROVE Waits(StreamGraph, n, m)
  <1>1. n[1] /= "enter" /\ n[1] /= "exit" /\ n[1] /= "owner" /\ n \notin Rows
    BY RowTags, BarrierTags
  <1> DEFINE edges == [row \in Rows |-> StreamEdges(row)]
  <1> HIDE DEF edges
  <1>2. Dependencies(n, edges) = Result(EntryEdges(n)) \cup Result(BarrierDependencies(n))
    BY <1>1 DEF Dependencies
  <1>3. <<m, "RESULT_READY">> \in Dependencies(n, edges)
    BY <1>2, ResultOf
  <1> QED
    BY <1>3, StreamNode DEF edges

\* The begin of a graph waits for the end of the one before it, directly or
\* through its dispatch.
LEMMA GraphChain ==
  ASSUME LifecycleInv, Accepted, NEW g \in Graphs, g > 1
  PROVE  \/ Waits(StreamGraph, GraphNode(g, "begin"), GraphNode(g - 1, "end"))
         \/ \E d : /\ Waits(StreamGraph, GraphNode(g, "begin"), DispatchNode(d, "begin"))
                   /\ Waits(StreamGraph, DispatchNode(d, "begin"), DispatchNode(d - 1, "end"))
                   /\ Waits(StreamGraph, DispatchNode(d - 1, "end"), GraphNode(g - 1, "end"))
  <1> DEFINE D == 1 .. Len(dispatches)
             Covers(d) == dispatches[d].begin <= g /\ g <= dispatches[d].end
  <1>1. /\ Len(dispatches) \in Nat /\ DOMAIN dispatches = D /\ cursor \in Nat /\ Graphs = 1 .. cursor
        /\ \A d \in D : dispatches[d].begin \in Nat /\ dispatches[d].end \in Nat
    BY LengthsAreNat, RecordTypes DEF Accepted, LifecycleInv, RunComplete
  <1>2. WindowsCut
    BY DEF LifecycleInv
  <1> DEFINE d == CHOOSE e \in DOMAIN dispatches : Covers(e)
  <1>3. d \in D /\ Covers(d)
    <2>1. \E e \in DOMAIN dispatches : Covers(e)
      BY <1>1, <1>2 DEF WindowsCut
    <2> QED
      BY <1>1, <2>1
  <1>4. BarrierDependencies(GraphNode(g, "begin")) = IF dispatches[d].begin = g THEN {DispatchNode(d, "begin")} ELSE {GraphNode(g - 1, "end")}
    <2>1. GraphNode(g, "begin")[1] = "graph" /\ GraphNode(g, "begin")[2] = g /\ GraphNode(g, "begin")[3] = "begin"
      BY NodeTags
    <2> QED
      BY <2>1 DEF BarrierDependencies
  <1>5. GraphNode(g, "begin") \in Barriers
    BY DEF Barriers
  <1> HIDE DEF d
  <1>6. CASE dispatches[d].begin /= g
    BY <1>4, <1>5, <1>6, BarrierWaits
  <1>7. CASE dispatches[d].begin = g
    <2>1. d > 1
      <3>1. SUFFICES ASSUME d = 1 PROVE FALSE
        BY <1>1, <1>3
      <3>2. PICK e \in D : dispatches[e].begin <= 1 /\ 1 <= dispatches[e].end
        BY <1>1, <1>2 DEF WindowsCut
      <3>3. e /= 1
        BY <1>1, <1>7, <3>1, <3>2
      <3>4. dispatches[1].end < dispatches[e].begin
        BY <1>1, <1>2, <1>3, <3>1, <3>3 DEF WindowsCut
      <3> QED
        BY <1>1, <1>3, <3>1, <3>2, <3>4
    <2>2. d - 1 \in D /\ d \in 2 .. Len(dispatches)
      BY <1>1, <1>3, <2>1
    <2>3. dispatches[d - 1].end = g - 1
      <3>1. dispatches[d].begin = dispatches[d - 1].end + 1
        BY <1>2, <2>2 DEF WindowsCut
      <3> QED
        BY <1>1, <1>7, <2>2, <3>1
    <2>4. DispatchNode(d, "begin") \in Barriers /\ DispatchNode(d - 1, "end") \in Barriers
      BY <1>1, <1>3, <2>2 DEF Barriers
    <2>5. BarrierDependencies(DispatchNode(d, "begin")) = {DispatchNode(d - 1, "end")}
      <3>1. DispatchNode(d, "begin")[1] = "dispatch" /\ DispatchNode(d, "begin")[2] = d /\ DispatchNode(d, "begin")[3] = "begin"
        BY NodeTags
      <3> QED
        BY <1>1, <1>3, <2>1, <3>1 DEF BarrierDependencies
    <2>6. BarrierDependencies(DispatchNode(d - 1, "end")) = {GraphNode(g - 1, "end")}
      <3>1. DispatchNode(d - 1, "end")[1] = "dispatch" /\ DispatchNode(d - 1, "end")[2] = d - 1 /\ DispatchNode(d - 1, "end")[3] = "end"
        BY NodeTags
      <3> QED
        BY <2>3, <3>1 DEF BarrierDependencies
    <2>7. Waits(StreamGraph, GraphNode(g, "begin"), DispatchNode(d, "begin"))
      BY <1>4, <1>5, <1>7, BarrierWaits
    <2>8. Waits(StreamGraph, DispatchNode(d, "begin"), DispatchNode(d - 1, "end"))
      BY <2>4, <2>5, BarrierWaits
    <2>9. Waits(StreamGraph, DispatchNode(d - 1, "end"), GraphNode(g - 1, "end"))
      BY <2>4, <2>6, BarrierWaits
    <2> QED
      BY <2>7, <2>8, <2>9
  <1> QED
    BY <1>6, <1>7

LEMMA GraphsAreWired ==
  ASSUME LifecycleInv, Accepted, Adaptable PROVE GraphsWired(StreamGraph)
  <1>1. /\ Len(GraphPhase) \in Nat /\ Graphs = 1 .. Len(GraphPhase)
        /\ Len(samples) \in Nat /\ Len(phases) \in Nat /\ Len(samples) <= Len(phases)
    BY LengthsAreNat DEF LifecycleInv, Alternate
  <1>2. OperationsCovered
    BY DEF Adaptable
  <1>3. ASSUME NEW op \in Operations
        PROVE  /\ data.ops[op].graph \in Nat \ {0} /\ 1 .. data.ops[op].graph \subseteq Graphs
               /\ Waits(StreamGraph, Enter(op), GraphNode(data.ops[op].graph, "begin"))
               /\ Waits(StreamGraph, GraphNode(data.ops[op].graph, "end"), Exit(op))
               /\ \E row : Waits(StreamGraph, Exit(op), row) /\ Waits(StreamGraph, row, Enter(op))
    <2> DEFINE g == data.ops[op].graph
    <2>1. g \in Graphs
      BY <1>2 DEF OperationsCovered
    <2>2. Waits(StreamGraph, Enter(op), GraphNode(g, "begin"))
      BY EnterWaits
    <2>3. Waits(StreamGraph, GraphNode(g, "end"), Exit(op))
      <3>1. GraphNode(g, "end") \in Barriers
        BY <2>1 DEF Barriers
      <3>2. GraphNode(g, "end")[1] = "graph" /\ GraphNode(g, "end")[2] = g /\ GraphNode(g, "end")[3] = "end"
        BY NodeTags
      <3>3. BarrierDependencies(GraphNode(g, "end")) = {Exit(o) : o \in OperationsIn(g)}
        BY <3>2 DEF BarrierDependencies
      <3>4. op \in OperationsIn(g)
        BY DEF OperationsIn
      <3> QED
        BY <3>1, <3>3, <3>4, BarrierWaits
    <2>4. PICK row \in Rows : OperationOf(row) = op
      BY <1>2 DEF OperationsCovered
    <2>5. row \in Members(op)
      BY <2>4 DEF Members
    <2>6. Waits(StreamGraph, row, Enter(op))
      <3>1. Enter(op)[1] = "enter"
        BY NodeTags
      <3> QED
        BY <2>4, <3>1, RowWaits
    <2> QED
      BY <1>1, <2>1, <2>2, <2>3, <2>5, <2>6, ExitWaits
  <1>4. ASSUME NEW i \in 1 .. Len(samples) - 1
        PROVE  /\ NextDecode(i) \in Nat \ {0}
               /\ \A op \in OperationsIn(NextDecode(i)) : Waits(StreamGraph, Enter(op), <<"token", i>>)
    <2>1. phases[i + 1] \in Nat
      <3>1. i + 1 \in 1 .. Len(phases)
        BY <1>1
      <3> QED
        BY <3>1 DEF LifecycleInv, LifecycleTypes
    <2>2. ASSUME NEW op \in OperationsIn(NextDecode(i)) PROVE Waits(StreamGraph, Enter(op), <<"token", i>>)
      <3>1. Enter(op)[1] = "enter" /\ Enter(op)[2] = op
        BY NodeTags
      <3>2. i \in {j \in 1 .. Len(samples) - 1 : data.ops[op].graph = NextDecode(j)}
        BY DEF OperationsIn
      <3>3. <<"token", i>> \in EntryEdges(Enter(op))
        BY <3>1, <3>2 DEF EntryEdges
      <3> QED
        BY <3>3, EnterWaits
    <2> QED
      BY <2>1, <2>2 DEF NextDecode
  <1> QED
    BY <1>3, <1>4, GraphChain DEF GraphsWired

(***************************************************************************)
(* The inductive invariant                                                 *)
(***************************************************************************)
\* The graph that was stored is wired and was run in its order; nothing is
\* stored before a lifecycle is accepted and a dataset of its mode chosen.
GraphInv ==
    /\ LifecycleInv /\ mode \in Modes \cup {"NONE"}
    /\ data /= << >> => Accepted /\ mode \in Modes /\ data \in Data[mode]
    /\ store /= "NONE" => data /= << >>
    /\ store /= "STORED" => graph = << >> /\ started = {} /\ done = {}
    /\ store = "STORED" => GraphsWired(graph) /\ (mode = "PIPELINE" => PipelineWired(graph))
    /\ Causal

LEMMA GraphsStayWired ==
  ASSUME NEW edges, GraphsWired(edges), graph' = edges, UNCHANGED <<data, phases, samples>>
  PROVE  GraphsWired(graph)'
  BY DEF GraphsWired, Operations, OperationsIn, NextDecode, Waits

LEMMA StripeStaysWired ==
  ASSUME NEW edges, NEW p, NEW s, StripeWired(edges, p, s), graph' = edges, UNCHANGED data
  PROVE  StripeWired(graph, p, s)'
  <1> DEFINE w == StripeWork(p, s)
             c == data.works[StripeWork(p, s)].call
  <1>1. w' = w /\ c' = c /\ HasCallback(p, s)' = HasCallback(p, s)
    BY DEF StripeWork, HasCallback
  <1>2. ASSUME NEW n, NEW m, Waits(edges, n, m) PROVE Waits(graph', n, m)
    BY <1>2 DEF Waits
  <1>3. StripeWired(graph', p, s)
    BY <1>2 DEF StripeWired
  <1> QED
    BY <1>1, <1>3 DEF StripeWired

LEMMA NeighboursStayWired ==
  ASSUME NEW edges, NEW p, NEW s, NeighboursWired(edges, p, s), graph' = edges, UNCHANGED data
  PROVE  NeighboursWired(graph, p, s)'
  BY DEF NeighboursWired, Stripes, SameSlot, Waits

LEMMA PipelineStaysWired ==
  ASSUME NEW edges, PipelineWired(edges), graph' = edges, UNCHANGED data
  PROVE  PipelineWired(graph)'
  <1> SUFFICES ASSUME NEW p \in DOMAIN data.parents
      PROVE  (/\ \A s \in Stripes(p) :
                  /\ s \in Nat \ {0} /\ 1 .. s \subseteq Stripes(p)
                  /\ StripeWired(graph, p, s) /\ NeighboursWired(graph, p, s)
                  /\ ReleaseWorks(p, s) \subseteq data.parents[p].works
              /\ data.parents[p].works \subseteq DOMAIN data.works
              /\ \A w \in data.parents[p].works : Waits(graph, CallNode(data.parents[p].fence, "COMPLETE_REQUIRED"), Npu(w)))'
    BY DEF PipelineWired
  <1>1. Stripes(p)' = Stripes(p) /\ \A s : ReleaseWorks(p, s)' = ReleaseWorks(p, s)
    BY DEF Stripes, ReleaseWorks, StripeWork
  <1>2. \A s \in Stripes(p) : StripeWired(graph, p, s)' /\ NeighboursWired(graph, p, s)'
    BY StripeStaysWired, NeighboursStayWired DEF PipelineWired
  <1>3. \A w \in data.parents[p].works : Waits(graph, CallNode(data.parents[p].fence, "COMPLETE_REQUIRED"), Npu(w))'
    BY DEF PipelineWired, Waits
  <1>4. /\ \A s \in Stripes(p) : s \in Nat \ {0} /\ 1 .. s \subseteq Stripes(p) /\ ReleaseWorks(p, s) \subseteq data.parents[p].works
        /\ data.parents[p].works \subseteq DOMAIN data.works
    BY DEF PipelineWired
  <1> QED
    BY <1>1, <1>2, <1>3, <1>4

\* Nothing is forgotten, so what was ready stays so.
LEMMA ReadyKept ==
  ASSUME NEW n, Ready(graph, n, started, done), UNCHANGED graph, started \subseteq started', done \subseteq done'
  PROVE  Ready(graph, n, started, done)'
  BY DEF Ready

\* A step of the run: more is done or started, and what is was ready.
LEMMA RunStepKeeps ==
  ASSUME GraphInv, store = "STORED", UNCHANGED <<lifecycle, data, store, graph>>,
         NEW more \in SUBSET DOMAIN graph, NEW fed \in SUBSET DOMAIN graph,
         done' = done \cup more, started' = started \cup fed,
         \A n \in more \cup fed : Ready(graph, n, started, done)
  PROVE  GraphInv'
  <1>1. Causal'
    <2>1. \A n \in (done \cup started) \cup (more \cup fed) : Ready(graph, n, started, done)
      BY DEF GraphInv, Causal
    <2>2. \A n \in done' \cup started' : Ready(graph, n, started, done)
      BY <2>1
    <2>3. \A n \in done' \cup started' : Ready(graph, n, started, done)'
      BY <2>2, ReadyKept
    <2>4. done' \subseteq DOMAIN graph' /\ started' \subseteq DOMAIN graph'
      BY DEF GraphInv, Causal
    <2> QED
      BY <2>3, <2>4 DEF Causal
  <1>2. LifecycleInv'
    BY LifecycleStep DEF GraphInv
  <1>3. GraphsWired(graph)' /\ (mode = "PIPELINE" => PipelineWired(graph)')
    BY GraphsStayWired, PipelineStaysWired DEF GraphInv, lifecycle
  <1>4. data /= << >> /\ Accepted /\ mode \in Modes /\ data \in Data[mode]
    BY DEF GraphInv
  <1>5. data' = data /\ store' = store /\ mode' = mode /\ outcome' = outcome
    BY DEF lifecycle
  <1> QED
    BY <1>1, <1>2, <1>3, <1>4, <1>5 DEF GraphInv, Accepted

LEMMA GraphStarts == GraphInit => GraphInv
  <1> SUFFICES ASSUME GraphInit PROVE GraphInv
    OBVIOUS
  <1>1. LifecycleInv
    BY LifecycleStarts DEF GraphInit
  <1>2. Causal
    BY DEF GraphInit, Causal
  <1> QED
    BY <1>1, <1>2 DEF GraphInit, GraphInv, LifecycleInit

\* An accepted lifecycle is over: no event follows.
LEMMA AcceptedIsLast ==
  ASSUME LifecycleInv, Accepted PROVE ~Event
  <1>1. ended /\ outcome /= "NONE"
    BY DEF LifecycleInv, RunComplete, Accepted
  <1>2. mode /= "NONE"
    BY <1>1, ManifestShape DEF LifecycleInv, RunComplete
  <1> QED
    BY <1>1, <1>2 DEF Event, Run, Between, Phase, RequestStart, PrefillBatchReady, DispatchBegin, DispatchEnd, Sample,
       PipelineParent, PipelineOwner, RunEnd, Project

LEMMA ObserveKeeps == ASSUME GraphInv, Observe(Event) PROVE GraphInv'
  <1>1. Event /\ UNCHANGED <<data, store, graph, started, done>>
    BY DEF Observe
  <1>2. LifecycleInv'
    BY <1>1, LifecycleStep DEF GraphInv
  <1>3. data = << >>
    BY <1>1, AcceptedIsLast DEF GraphInv
  <1>4. store = "NONE"
    BY <1>3 DEF GraphInv
  <1>5. Causal'
    BY <1>1, <1>4 DEF GraphInv, Causal
  <1>6. mode' \in Modes \/ mode' = mode
    BY <1>1 DEF Event, Run, Phase, RequestStart, PrefillBatchReady, DispatchBegin, DispatchEnd, Sample,
       PipelineParent, PipelineOwner, RunEnd, Project
  <1> QED
    BY <1>1, <1>2, <1>3, <1>4, <1>5, <1>6 DEF GraphInv

LEMMA ChooseKeeps == ASSUME GraphInv, Choose PROVE GraphInv'
  <1>1. /\ Accepted /\ data = << >> /\ data' \in Data[mode]
        /\ UNCHANGED <<lifecycle, store, graph, started, done>>
    BY DEF Choose
  <1>2. LifecycleInv'
    BY <1>1, LifecycleStep DEF GraphInv
  <1>3. store = "NONE"
    BY <1>1 DEF GraphInv
  <1>4. mode \in Modes
    <2>1. ended /\ mode /= "NONE"
      BY <1>1, ManifestShape DEF GraphInv, LifecycleInv, RunComplete, Accepted
    <2> QED
      BY <1>1, <2>1 DEF GraphInv
  <1>5. Causal'
    BY <1>1, <1>3 DEF GraphInv, Causal
  <1>6. mode' = mode /\ outcome' = outcome
    BY <1>1 DEF lifecycle
  <1> QED
    BY <1>1, <1>2, <1>3, <1>4, <1>5, <1>6 DEF GraphInv, Accepted

LEMMA AdaptStreamKeeps == ASSUME GraphInv, AdaptStream PROVE GraphInv'
  <1>1. data /= << >> /\ store = "NONE" /\ UNCHANGED <<lifecycle, data, started, done>>
    BY DEF AdaptStream
  <1>2. LifecycleInv'
    BY <1>1, LifecycleStep DEF GraphInv
  <1>3. mode' = mode /\ outcome' = outcome /\ phases' = phases /\ samples' = samples
    BY <1>1 DEF lifecycle
  <1>4. done' = {} /\ started' = {} /\ graph = << >>
    BY <1>1 DEF GraphInv
  <1>5. Causal'
    BY <1>4 DEF Causal
  <1>6. LifecycleInv /\ Accepted /\ WellFormed(data)
    BY <1>1, DataAssumption DEF GraphInv
  <1>7. CASE store' = "STORED"
    <2>1. Adaptable /\ graph' = StreamGraph
      BY <1>7 DEF AdaptStream
    <2>2. GraphsWired(StreamGraph) /\ (mode = "PIPELINE" => PipelineWired(StreamGraph))
      BY <1>6, <2>1, GraphsAreWired, PipelineIsWired
    <2>3. GraphsWired(graph)' /\ (mode = "PIPELINE" => PipelineWired(graph)')
      BY <1>1, <1>3, <2>1, <2>2, GraphsStayWired, PipelineStaysWired
    <2> QED
      BY <1>1, <1>2, <1>3, <1>4, <1>5, <1>7, <2>3 DEF GraphInv, Accepted
  <1>8. CASE store' /= "STORED"
    <2>1. store' = "REFUSED" /\ graph' = graph
      BY <1>8 DEF AdaptStream
    <2> QED
      BY <1>1, <1>2, <1>3, <1>4, <1>5, <2>1 DEF GraphInv, Accepted
  <1> QED
    BY <1>7, <1>8

LEMMA SettleKeeps == ASSUME GraphInv, Settle PROVE GraphInv'
  <1>1. /\ store = "STORED" /\ UNCHANGED <<lifecycle, data, store, graph, started>> /\ done' = done \cup Due
    BY DEF Settle
  <1>2. Due \in SUBSET DOMAIN graph /\ \A n \in Due : Ready(graph, n, started, done)
    BY DEF Due
  <1>3. started' = started \cup {}
    BY <1>1
  <1> QED
    BY <1>1, <1>2, <1>3, RunStepKeeps

LEMMA AcceptKeeps == ASSUME GraphInv, NEW node, Accept(node) PROVE GraphInv'
  <1>1. /\ store = "STORED" /\ node \in DOMAIN graph /\ UNCHANGED <<lifecycle, data, store, graph>>
        /\ started' = started \cup {node} /\ done' = done \cup {} /\ Ready(graph, node, started, done)
    BY DEF Accept
  <1>2. {} \in SUBSET DOMAIN graph /\ {node} \in SUBSET DOMAIN graph
    BY <1>1
  <1>3. \A n \in {} \cup {node} : Ready(graph, n, started, done)
    BY <1>1
  <1> QED
    BY <1>1, <1>2, <1>3, RunStepKeeps

LEMMA CompleteKeepsGraph == ASSUME GraphInv, NEW node, Complete(node) PROVE GraphInv'
  <1>1. /\ store = "STORED" /\ node \in DOMAIN graph /\ UNCHANGED <<lifecycle, data, store, graph>>
        /\ done' = done \cup {node} /\ started' = started \cup {}
    BY DEF Complete
  <1>2. Ready(graph, node, started, done)
    BY DEF Complete, GraphInv, Causal
  <1>3. {} \in SUBSET DOMAIN graph /\ {node} \in SUBSET DOMAIN graph
    BY <1>1
  <1>4. \A n \in {node} \cup {} : Ready(graph, n, started, done)
    BY <1>2
  <1> QED
    BY <1>1, <1>3, <1>4, RunStepKeeps

\* A graph is stored only for an accepted lifecycle and a dataset of its mode,
\* it has the waits the bounds rest on, and it is run in its order, for every
\* manifest and every dataset a validated trace can give.
THEOREM GraphInvariant == GraphSpec => []GraphInv
  <1>1. GraphInv /\ [GraphNext]_graphVars => GraphInv'
    <2> SUFFICES ASSUME GraphInv, [GraphNext]_graphVars PROVE GraphInv'
      OBVIOUS
    <2>1. CASE UNCHANGED graphVars
      <3>1. UNCHANGED <<lifecycle, data, store, graph, started, done>>
        BY <2>1 DEF graphVars
      <3>2. CASE store = "STORED"
        <4>1. done' = done \cup {} /\ started' = started \cup {}
          BY <3>1
        <4>2. {} \in SUBSET DOMAIN graph /\ \A n \in {} \cup {} : Ready(graph, n, started, done)
          OBVIOUS
        <4> QED
          BY <3>1, <3>2, <4>1, <4>2, RunStepKeeps
      <3>3. CASE store /= "STORED"
        <4>1. LifecycleInv'
          BY <3>1, LifecycleStep DEF GraphInv
        <4>2. Causal'
          BY <3>1, <3>3 DEF GraphInv, Causal
        <4>3. mode' = mode /\ outcome' = outcome
          BY <3>1 DEF lifecycle
        <4> QED
          BY <3>1, <3>3, <4>1, <4>2, <4>3 DEF GraphInv, Accepted
      <3> QED
        BY <3>2, <3>3
    <2>2. ASSUME NEW node \in DOMAIN graph, Accept(node) \/ Complete(node) PROVE GraphInv'
      BY <2>2, AcceptKeeps, CompleteKeepsGraph
    <2> QED
      BY <2>1, <2>2, ObserveKeeps, ChooseKeeps, AdaptStreamKeeps, SettleKeeps DEF GraphNext
  <1> QED
    BY <1>1, GraphStarts, PTL DEF GraphSpec

\* The streamed and the in-memory adapter give every node the same edges,
\* whatever the dataset: what adapt_records rewrites around a publication is
\* what project_pipeline removes and adds.
THEOREM StreamedGraphAgrees == GraphSpec => []AdaptersAgree
  <1>1. GraphInv => AdaptersAgree
    <2> SUFFICES ASSUME GraphInv, store /= "NONE", Adaptable, NEW n \in Rows
        PROVE  Dependencies(n, [row \in Rows |-> StreamEdges(row)]) = Dependencies(n, [row \in Rows |-> RecordEdges(row)])
      BY DEF AdaptersAgree
    <2>1. WellFormed(data) /\ n \in Nodes
      BY DataAssumption DEF GraphInv, Nodes
    <2> QED
      BY <2>1, EdgesAgree
  <1> QED
    BY <1>1, GraphInvariant, PTL

\* However long services take, at most two stripes of a parent are outstanding,
\* a slot has one stripe, the queue is left in order, works start once published
\* and complete before the fence, and the graphs of the manifest run in order,
\* each decode after its token.
THEOREM ExecutionGraphSafe == GraphSpec => []GraphSafe
  <1>1. GraphInv => GraphSafe
    <2> SUFFICES ASSUME GraphInv, store = "STORED" PROVE GraphSafe
      BY DEF GraphSafe, StripesBounded, GraphsSerial
    <2>1. GraphsSerial
      BY GraphsAreSerial DEF GraphInv
    <2>2. StripesBounded
      <3>1. CASE mode = "PIPELINE"
        BY <3>1, StripesAreBounded DEF GraphInv
      <3>2. CASE mode /= "PIPELINE"
        BY <3>2 DEF StripesBounded
      <3> QED
        BY <3>1, <3>2
    <2> QED
      BY <2>1, <2>2 DEF GraphSafe
  <1> QED
    BY <1>1, GraphInvariant, PTL
=============================================================================
