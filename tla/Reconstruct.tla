---------------------------- MODULE Reconstruct ----------------------------
(***************************************************************************)
(* The three-source join (reconstruct.py): provenance of the two           *)
(* collections, the CPU index filled from their cycle logs                 *)
(* (reconstruct_cpu.py, reconstruct_timing.py, reconstruct_pairing.py) and *)
(* the join of the NPU trace with the modelled results                     *)
(* (reconstruct_npu.py).  Any failed check raises and nothing is written.  *)
(* A digest is the content it names.                                       *)
(***************************************************************************)
EXTENDS Integers, Sequences, FiniteSets, Functions

CONSTANTS
    Absent,
    Class,        \* node of the semantic graph -> execution class in the collection
    Candidates    \* inputs the join may be given

CollectionRoles == {"FULL_CPU", "POTAL_COLLECTION"}
Joins(c) == {n \in DOMAIN c.trace : c.trace[n].kind = "WORK"}

\* strict_records yields the lines of a file in order, and the trace is one
\* that TraceState.consume accepts: a host stage is of one of two classes and
\* every work has an id of its own.
ASSUME InputAssumption == \A c \in Candidates :
    /\ \A file \in {c["FULL_CPU"].log, c["POTAL_COLLECTION"].log, c.trace, c.results} :
          Len(file) \in Nat /\ DOMAIN file = 1 .. Len(file)
    /\ \A role \in CollectionRoles : \A n \in DOMAIN c[role].log :
          LET r == c[role].log[n] IN {r.start, r.end, r.worker, r.workers} \subseteq Nat
    /\ \A n \in DOMAIN c.trace :
          \/ c.trace[n].kind = "WORK"
          \/ c.trace[n].kind = "HOST" /\ c.trace[n].class \in {"POTAL_HOST", "FUNCTIONAL_EMULATION"}
    /\ \A m, n \in Joins(c) : c.trace[m].id = c.trace[n].id => m = n

VARIABLES
    in,           \* the inputs
    pc,           \* where reconstruct() is
    at,           \* next record of the file being read
    cpuSamples,      \* CpuIndex.samples
    intervals,    \* canonical_host_intervals
    rows          \* services written to the dataset: <<kind, id, cost>>

reconstructVars == <<in, pc, at, cpuSamples, intervals, rows>>

ReconstructInit ==
    /\ in \in Candidates
    /\ pc = "PROVENANCE" /\ at = 1 /\ cpuSamples = {} /\ intervals = {} /\ rows = {}

Refuse == pc' = "REFUSED" /\ UNCHANGED <<in, at, cpuSamples, intervals, rows>>
Goto(label) == pc' = label /\ at' = 1 /\ UNCHANGED <<in, cpuSamples, intervals, rows>>

(***************************************************************************)
(* verify_provenance, validate_source_pair                                 *)
(***************************************************************************)
ProvenanceOK(role) ==
    LET c == in[role] IN
    /\ c.proof.role = role /\ c.proof.success
    /\ c.proof.log = c.log
    /\ IF role = "FULL_CPU" THEN c.proof.trace = Absent ELSE c.proof.trace = in.trace

SourcePairOK ==
    LET full == in["FULL_CPU"].proof potal == in["POTAL_COLLECTION"].proof IN
    /\ full.model = potal.model /\ full.kernel = potal.kernel
    /\ full.tokens = potal.tokens
    /\ IF full.kind = "FORCED"
       THEN full.samplerCalls = 0 /\ potal.samplerCalls = Len(potal.tokens) /\ full.paired = potal.tokens
       ELSE full.kind = potal.kind /\ full.samplerCalls = potal.samplerCalls

Provenance ==
    /\ pc = "PROVENANCE"
    /\ IF ProvenanceOK("FULL_CPU") /\ ProvenanceOK("POTAL_COLLECTION") /\ SourcePairOK
       THEN Goto("LOAD_FULL") ELSE Refuse

(***************************************************************************)
(* CpuIndex.load                                                           *)
(***************************************************************************)
\* Records that carry no cost: telemetry, outside the collection, observed
\* only, or a FullCPU stage of a node whose cost the collection replaces.
Observation(role, r) ==
    \/ r.kind /= "INTERVAL" \/ r.duty = "OBSERVATION_ONLY"
    \/ r.host = Absent /\ ~r.canonical /\ role = "FULL_CPU" /\ Class[r.node] \in {"TARGET_NPU", "EXCLUDED"}

DutyOf(role) == IF role = "FULL_CPU" THEN "ORDINARY_CPU_REFERENCE" ELSE "POTAL_HOST"

\* validate_named_timing and the worker vector identity
TimingOK(r) ==
    /\ r.end >= r.start
    /\ r.host = Absent => r.worker < r.workers

Identity(role, r) == IF r.host = Absent THEN <<role, r.node, r.worker>> ELSE <<role, r.host>>

LoadOK(role, r) ==
    /\ r.kind = "INTERVAL" /\ r.node \in DOMAIN Class
    /\ r.duty = DutyOf(role)
    /\ r.host = Absent => r.canonical
    /\ (r.host /= Absent) = (role = "POTAL_COLLECTION")
    /\ TimingOK(r)
    /\ \A s \in cpuSamples : Identity(s.role, s.record) /= Identity(role, r)

Load(role, label, next) ==
    /\ pc = label
    /\ LET log == in[role].log IN
       IF at > Len(log) THEN Goto(next)
       ELSE LET r == log[at] IN
            IF Observation(role, r) THEN at' = at + 1 /\ UNCHANGED <<in, pc, cpuSamples, intervals, rows>>
            ELSE IF ~LoadOK(role, r) THEN Refuse
            ELSE /\ cpuSamples' = cpuSamples \cup {[role |-> role, record |-> r]}
                 /\ intervals' = IF r.duty = "POTAL_HOST" THEN intervals \cup {[host |-> r.host, thread |-> r.thread, start |-> r.start, end |-> r.end]} ELSE intervals
                 /\ at' = at + 1
                 /\ UNCHANGED <<in, pc, rows>>

(***************************************************************************)
(* The graph's own services: ordinary nodes take the FullCPU vector        *)
(***************************************************************************)
ValidMeasurement(r) == r.valid /\ r.end >= r.start

VectorOK(vector) ==
    /\ vector /= {}
    /\ \A v \in vector : ValidMeasurement(v) /\ {w.worker : w \in vector} = 0 .. (v.workers - 1)
    /\ \A v, w \in vector : v.workers = w.workers

Ordinary(node) == {s.record : s \in {t \in cpuSamples : t.role = "FULL_CPU" /\ t.record.node = node /\ t.record.host = Absent}}

OrdinaryNodes == {n \in DOMAIN Class : Class[n] = "ORDINARY_CPU"}

WriteGraph ==
    /\ pc = "GRAPH"
    /\ IF \A n \in OrdinaryNodes : VectorOK(Ordinary(n))
       THEN /\ rows' = {<<"ORDINARY", n, Ordinary(n)>> : n \in OrdinaryNodes}
            /\ pc' = "TRACE" /\ at' = 1
            /\ UNCHANGED <<in, cpuSamples, intervals>>
       ELSE Refuse

(***************************************************************************)
(* NpuJoin.write_admitted: the trace, event by event.  Host stages take    *)
(* their measurement out of the index; works take the next result.         *)
(***************************************************************************)
Works == Joins(in)
WorkNumber(n) == Cardinality({m \in Works : m <= n})

\* CpuIndex.host
HostStage(e) ==
    LET found == {s \in cpuSamples : s.role = "POTAL_COLLECTION" /\ s.record.host = e.id}
        emulated == e.class = "FUNCTIONAL_EMULATION"
    IN
    IF \/ \E s \in found : s.record.node /= e.node \/ emulated
       \/ ~emulated /\ (found = {} \/ \E s \in found : ~ValidMeasurement(s.record))
    THEN Refuse
    ELSE /\ cpuSamples' = cpuSamples \ found
         /\ rows' = IF emulated THEN rows ELSE rows \cup {<<"HOST", e.id, {s.record : s \in found}>>}
         /\ at' = at + 1
         /\ UNCHANGED <<in, pc, intervals>>

ResultOK(e, result) ==
    /\ Class[e.node] = "TARGET_NPU"
    /\ result.work = e.id /\ result.binding = e.binding
    /\ result.authority = in.authority

WorkResult(e) ==
    LET n == WorkNumber(at) IN
    IF n > Len(in.results) THEN Refuse
    ELSE IF ~ResultOK(e, in.results[n]) THEN Refuse
    ELSE /\ rows' = rows \cup {<<"NPU", e.id, in.results[n]>>}
         /\ at' = at + 1
         /\ UNCHANGED <<in, pc, cpuSamples, intervals>>

JoinTrace ==
    /\ pc = "TRACE"
    /\ IF at > Len(in.trace) THEN Goto("FINISH")
       ELSE LET e == in.trace[at] IN
            CASE e.kind = "HOST" -> HostStage(e)
              [] e.kind = "WORK" -> WorkResult(e)

(***************************************************************************)
(* CpuIndex.finish, with the window query of                               *)
(* validate_potal_host_additivity                                          *)
(***************************************************************************)
RunsBefore(i, j) == i.thread = j.thread /\ i /= j /\ (i.start < j.start \/ (i.start = j.start /\ i.end <= j.end))

Additive ==
    LET positive == {i \in intervals : i.end > i.start} IN
    ~ \E j \in positive : \E i \in positive : RunsBefore(i, j) /\ j.start < i.end

NothingLeft == {s \in cpuSamples : s.record.host /= Absent} = {}

TargetsCovered == {in.trace[n].node : n \in Works} = {k \in DOMAIN Class : Class[k] = "TARGET_NPU"}

\* Fault: host measurements that no trace event claimed are left behind.
JoinLoose == Cardinality(Works) = Len(in.results) /\ TargetsCovered /\ Additive

JoinComplete ==
    /\ Cardinality(Works) = Len(in.results)
    /\ TargetsCovered
    /\ NothingLeft
    /\ Additive

Finish ==
    /\ pc = "FINISH"
    /\ IF JoinComplete THEN Goto("PASS") ELSE Refuse

ReconstructNext ==
    \/ Provenance
    \/ Load("FULL_CPU", "LOAD_FULL", "LOAD_POTAL")
    \/ Load("POTAL_COLLECTION", "LOAD_POTAL", "GRAPH")
    \/ WriteGraph
    \/ JoinTrace
    \/ Finish

ReconstructSpec == ReconstructInit /\ [][ReconstructNext]_reconstructVars

(***************************************************************************)
(* Properties                                                              *)
(***************************************************************************)
Costs(role) == {n \in DOMAIN in[role].log : ~Observation(role, in[role].log[n])}

\* A dataset counts every cost once: each ordinary node has the complete
\* worker vector of the CPU run, each measured host stage one interval of the
\* collection and no interval is left over, positive intervals of a thread do
\* not overlap, each work has the one result modelled for it under the
\* admitted library, and log and trace are the ones the collections signed.
CostsCountedOnce ==
    pc = "PASS" =>
        /\ \A n \in OrdinaryNodes :
              LET mine == {in["FULL_CPU"].log[i] : i \in {j \in Costs("FULL_CPU") : in["FULL_CPU"].log[j].node = n}} IN
              mine /= {} /\ \A r \in mine : {w.worker : w \in mine} = 0 .. (r.workers - 1)
        /\ \A i \in Costs("POTAL_COLLECTION") :
              Cardinality({e \in DOMAIN in.trace : in.trace[e].kind = "HOST" /\ in.trace[e].class = "POTAL_HOST"
                                                   /\ in.trace[e].id = in["POTAL_COLLECTION"].log[i].host}) = 1
        /\ \A i, j \in Costs("POTAL_COLLECTION") :
              LET a == in["POTAL_COLLECTION"].log[i] b == in["POTAL_COLLECTION"].log[j] IN
              i /= j /\ a.thread = b.thread /\ a.start < a.end /\ b.start < b.end => a.end <= b.start \/ b.end <= a.start
        /\ \A n \in Works : \E r \in rows : r[1] = "NPU" /\ r[2] = in.trace[n].id
              /\ r[3].work = in.trace[n].id /\ r[3].binding = in.trace[n].binding /\ r[3].authority = in.authority
        /\ Cardinality({r \in rows : r[1] = "NPU"}) = Len(in.results)
=============================================================================
