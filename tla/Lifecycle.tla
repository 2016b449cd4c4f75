----------------------------- MODULE Lifecycle -----------------------------
(***************************************************************************)
(* The lifecycle sidecar a producer writes while it runs a workload, as    *)
(* the two validators read it: project_lifecycle (execution_lifecycle.py)  *)
(* for FULL and PIPELINE collections, validate_forced_lifecycle            *)
(* (execution_forced_lifecycle.py) for FORCED ones.  An action is one      *)
(* accepted event; a refused event raises, which is the absence of a step. *)
(* Fields with a single accepted value (sequence, dispatch_id, graph_begin,*)
(* policy names) are taken from the state.  Ids count from 1 here and from *)
(* 0 in the code.                                                          *)
(***************************************************************************)
EXTENDS Integers, Sequences, FiniteSets

CONSTANTS
    GraphPhase,    \* the manifest: phase of each graph, in file order
    Inputs,        \* the manifest: token each phase consumes (token_fingerprint)
    Tokens,        \* tokens a sample may carry
    Expected,      \* generated_tokens of the workload
    Forced,        \* the token trajectory a FORCED run must follow
    Targets,       \* operations that may be declared pipeline parents
    MaxOwners,
    Modes

Graphs == DOMAIN GraphPhase
PhaseCount == Len(Inputs)

\* read_manifest: a graph belongs to the last phase read; a phase may have none.
ASSUME ManifestShape ==
    /\ PhaseCount \in Nat \ {0} /\ GraphPhase \in Seq(1 .. PhaseCount)
    /\ \A g, h \in Graphs : g <= h => GraphPhase[g] <= GraphPhase[h]
    /\ Expected \in Nat /\ MaxOwners \in Nat
    /\ Modes \subseteq {"FULL", "PIPELINE", "FORCED"}

VARIABLES
    mode,         \* what the RUN event declared, "NONE" before it
    phases,       \* graph_begin of each PHASE event
    samples,      \* dispatch, token and cursor of each SAMPLE or FORCED_TOKEN
    dispatches,   \* phase and first graph of each dispatch, and its end
    cursor,       \* number of graphs dispatched and synchronized
    active,       \* between DISPATCH_BEGIN and DISPATCH_END
    requested,    \* REQUEST_START seen
    preps,        \* dispatch each PREFILL_BATCH_READY announced
    parents,      \* operations declared by PIPELINE_PARENT
    owners,       \* number of PIPELINE_OWNER events
    ended, outcome

lifecycle == <<mode, phases, samples, dispatches, cursor, active, requested, preps, parents, owners, ended, outcome>>

LifecycleInit ==
    /\ mode = "NONE" /\ phases = << >> /\ samples = << >> /\ dispatches = << >>
    /\ cursor = 0 /\ active = FALSE /\ requested = FALSE /\ preps = << >>
    /\ parents = {} /\ owners = 0 /\ ended = FALSE /\ outcome = "NONE"

Run(m) ==
    /\ mode = "NONE"
    /\ mode' = m
    /\ UNCHANGED <<phases, samples, dispatches, cursor, active, requested, preps, parents, owners, ended, outcome>>

\* Every later event: the run is open and no dispatch is in flight.
Between == mode /= "NONE" /\ ~ended /\ ~active

Phase ==
    /\ Between
    /\ Len(samples) = Len(phases)
    /\ Len(phases) < PhaseCount
    /\ phases' = Append(phases, cursor)
    /\ UNCHANGED <<mode, samples, dispatches, cursor, active, requested, preps, parents, owners, ended, outcome>>

RequestStart ==
    /\ Between /\ mode = "PIPELINE"
    /\ ~requested /\ Len(phases) = 1 /\ dispatches = << >>
    /\ requested' = TRUE
    /\ UNCHANGED <<mode, phases, samples, dispatches, cursor, active, preps, parents, owners, ended, outcome>>

PrefillBatchReady ==
    /\ Between /\ mode = "PIPELINE"
    /\ requested /\ Len(phases) = 1
    /\ Len(preps) <= Len(dispatches) + 1      \* bound: nothing in the code limits idle announcements
    /\ preps' = Append(preps, Len(dispatches) + 1)
    /\ UNCHANGED <<mode, phases, samples, dispatches, cursor, active, requested, parents, owners, ended, outcome>>

DispatchBegin ==
    /\ Between /\ phases /= << >>
    /\ mode = "PIPELINE" /\ Len(phases) = 1 => requested /\ Len(preps) = Len(dispatches) + 1
    /\ active' = TRUE
    /\ UNCHANGED <<mode, phases, samples, dispatches, cursor, requested, preps, parents, owners, ended, outcome>>

\* Fault: the graphs of a dispatch are not compared with its phase.
WindowAnyPhase(end) == cursor < end /\ end <= Len(GraphPhase)

\* The synchronized graphs of one dispatch all belong to the current phase.
Window(end) ==
    /\ cursor < end /\ end <= Len(GraphPhase)
    /\ \A g \in cursor + 1 .. end : GraphPhase[g] = Len(phases)

DispatchEnd(end) ==
    /\ mode /= "NONE" /\ ~ended /\ active
    /\ Window(end)
    /\ dispatches' = Append(dispatches, [phase |-> Len(phases), begin |-> cursor + 1, end |-> end])
    /\ cursor' = end
    /\ active' = FALSE
    /\ UNCHANGED <<mode, phases, samples, requested, preps, parents, owners, ended, outcome>>

\* SAMPLE, or FORCED_TOKEN in a forced run: names the last dispatch.
Sample(token) ==
    /\ Between /\ phases /= << >>
    /\ Len(samples) + 1 = Len(phases)
    /\ mode = "FORCED" => Len(samples) < Len(Forced)
    /\ dispatches /= << >>
    /\ samples' = Append(samples, [dispatch |-> Len(dispatches), token |-> token, cursor |-> cursor])
    /\ UNCHANGED <<mode, phases, dispatches, cursor, active, requested, preps, parents, owners, ended, outcome>>

PipelineParent(op) ==
    /\ Between /\ mode = "PIPELINE" /\ Len(samples) = Expected
    /\ op \notin parents /\ phases /= << >>
    /\ parents' = parents \cup {op}
    /\ UNCHANGED <<mode, phases, samples, dispatches, cursor, active, requested, preps, owners, ended, outcome>>

PipelineOwner(op) ==
    /\ Between /\ mode = "PIPELINE" /\ Len(samples) = Expected
    /\ op \in parents /\ owners < MaxOwners
    /\ owners' = owners + 1
    /\ UNCHANGED <<mode, phases, samples, dispatches, cursor, active, requested, preps, parents, ended, outcome>>

RunEnd ==
    /\ Between
    /\ Len(samples) = (IF mode = "FORCED" THEN Len(Forced) ELSE Expected)
    /\ Len(phases) = PhaseCount
    /\ mode = "FORCED" => Len(phases) = Len(Forced) /\ Len(Forced) = Expected
    /\ cursor = Len(GraphPhase)
    /\ ended' = TRUE
    /\ UNCHANGED <<mode, phases, samples, dispatches, cursor, active, requested, preps, parents, owners, outcome>>

(***************************************************************************)
(* After the last event: the token each sample produced is the one the     *)
(* next phase consumed                                                     *)
(***************************************************************************)
\* Fault: the last decode input is not compared.
FollowsAllButLast == \A i \in 1 .. Len(samples) - 2 : Inputs[i + 1] = samples[i].token

FollowsInputs == \A i \in 1 .. Len(samples) - 1 : Inputs[i + 1] = samples[i].token

ForcedTrajectory == [i \in DOMAIN samples |-> samples[i].token] = Forced

\* A sample releases the graph its next phase begins with; there must be one.
SuccessorsExist == \A i \in 1 .. Len(samples) - 1 : phases[i + 1] < Len(GraphPhase)

Trajectory ==
    /\ FollowsInputs
    /\ mode /= "FORCED" => SuccessorsExist
    /\ mode = "PIPELINE" => requested /\ preps /= << >>
    /\ mode = "FORCED" => ForcedTrajectory

Project ==
    /\ ended /\ outcome = "NONE"
    /\ outcome' = IF Trajectory THEN "ACCEPTED" ELSE "REFUSED"
    /\ UNCHANGED <<mode, phases, samples, dispatches, cursor, active, requested, preps, parents, owners, ended>>

Event ==
    \/ \E m \in Modes : Run(m)
    \/ Phase
    \/ RequestStart
    \/ PrefillBatchReady
    \/ DispatchBegin
    \/ \E end \in Graphs : DispatchEnd(end)
    \/ \E token \in Tokens : Sample(token)
    \/ \E op \in Targets : PipelineParent(op)
    \/ \E op \in Targets : PipelineOwner(op)
    \/ RunEnd
    \/ Project

LifecycleSpec == LifecycleInit /\ [][Event]_lifecycle

(***************************************************************************)
(* What the projection hands to the execution graph                        *)
(***************************************************************************)
\* application_steps: the dispatch a sample waits for, the graph it releases
LogitsReady(i) == samples[i].dispatch
NextDecode(i) == phases[i + 1] + 1

(***************************************************************************)
(* Properties                                                              *)
(***************************************************************************)
Accepted == outcome = "ACCEPTED"
DispatchesOf(p) == {d \in DOMAIN dispatches : dispatches[d].phase = p}

\* Every graph of the manifest is run by exactly one dispatch, dispatches run
\* the graphs in file order, the first graph of a phase that has any is the one
\* its PHASE event announced, and in a pipeline run each prefill dispatch was
\* prepared by its own batch (DISPATCH_BEGIN and DISPATCH_END of
\* project_lifecycle).
GraphsCovered ==
    Accepted =>
        /\ \A g \in Graphs : Cardinality({d \in DOMAIN dispatches :
              dispatches[d].begin <= g /\ g <= dispatches[d].end /\ dispatches[d].phase = GraphPhase[g]}) = 1
        /\ \A d \in DOMAIN dispatches \ {1} : dispatches[d].begin = dispatches[d - 1].end + 1
        /\ \A p \in {GraphPhase[g] : g \in Graphs} :
              GraphPhase[phases[p] + 1] = p /\ (phases[p] = 0 \/ GraphPhase[phases[p]] < p)
        /\ mode = "PIPELINE" => \A d \in DispatchesOf(1) : Cardinality({n \in DOMAIN preps : preps[n] = d}) >= 1

\* A decode phase runs only on a token that exists: the phase before it sampled
\* one before any of its own graphs ran, and it is the token it consumes; only a
\* last phase from which nothing is sampled is not compared.
DecodeAfterToken ==
    Accepted => \A p \in 2 .. PhaseCount :
        /\ p <= Len(samples) => Inputs[p] = samples[p - 1].token
        /\ \A d \in DispatchesOf(p) : dispatches[d].begin > samples[p - 1].cursor
                                      /\ d > samples[p - 1].dispatch

\* An accepted lifecycle is one run of the model: all its graphs, in order,
\* each decode phase on the token sampled before it.
LifecycleSound == GraphsCovered /\ DecodeAfterToken
=============================================================================
