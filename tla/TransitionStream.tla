-------------------------- MODULE TransitionStream --------------------------
(***************************************************************************)
(* The stream of state transitions a replay writes, one record per work,    *)
(* and the four readers that turn it into the claim "same generation,       *)
(* continuous state carry":                                                 *)
(*   actual       works offered back to back (actual_trace_certificate),    *)
(*   interleaved  works offered at the certified cycles                     *)
(*                (interleaved_schedule_certificate),                       *)
(*   replay       the fixed original trace (stateful_sequence_replay_state),*)
(*   decode       actual, with the events of every work                     *)
(*                (decode_trace_certificate).                               *)
(* The session and the file are not to be trusted: works may run without a  *)
(* record, time may pass between two records, the session may be reset or   *)
(* started again, lines may be lost, repeated or exchanged.                 *)
(***************************************************************************)
EXTENDS Naturals, Sequences, SequencesExt, FiniteSetsExt
CONSTANTS Modes, WorkIds,      \* the works of the certificate, in order
          Ports,               \* the certified offer cycles (interleaved)
          Durations,           \* cycles from acceptance to the result
          TagLimit, MaxFaults

ASSUME StreamAssumption ==
    /\ TagLimit \in Nat /\ MaxFaults \in Nat /\ Durations \subseteq Nat \ {0}
    /\ WorkIds \in Seq(Nat) /\ Ports \in Seq(Nat) /\ Len(WorkIds) = Len(Ports)

VARIABLES mode, session,   \* the simulator session
          rows,            \* the stream
          ran,             \* history: the records of all works since the last cold start
          past,            \* history: the same of the sessions before it
          faults, streamVerdict, ordinal, previous
streamVars == <<mode, session, rows, ran, past, faults, streamVerdict, ordinal, previous>>

Count == Len(WorkIds)
Cold(generation) ==
    [generation |-> generation, cursor |-> 0, tags |-> 0, peak |-> 0, scratchpad |-> 0, accumulator |-> 0,
     works |-> 0, total |-> 0, done |-> 0, event |-> 0, ready |-> TRUE]

StreamTypeOK ==
    /\ mode \in Modes /\ streamVerdict \in {"writing", "reading", "accepted", "refused"}
    /\ ordinal \in 0..Len(rows) /\ faults \in 0..MaxFaults

StreamInit ==
    /\ mode \in Modes
    /\ session = Cold(1)
    /\ rows = << >> /\ ran = << >> /\ past = {} /\ faults = 0
    /\ streamVerdict = "writing" /\ ordinal = 0 /\ previous = << >>

(***************************************************************************)
(* The session: one work from offer to drained resources                    *)
(***************************************************************************)
Offer(i) == IF mode = "interleaved" /\ i <= Count THEN Max({Ports[i], session.cursor}) ELSE session.cursor

\* Two events of a work: its acceptance and its result.
Record(d, tags, drained) ==
    LET i == session.works + 1
        offered == Offer(i)
        ready == offered + d + 1
        after == [session EXCEPT
                    !.cursor = ready, !.tags = tags, !.peak = Max({@, tags}),
                    !.scratchpad = 1 - @, !.accumulator = 1 - @,
                    !.works = @ + 1, !.total = @ + d, !.done = offered + d, !.event = @ + 2, !.ready = drained]
    IN [ordinal |-> i - 1, id |-> IF i <= Count THEN WorkIds[i] ELSE 0,
        before |-> session, after |-> after, gap |-> offered - session.cursor,
        window |-> [offered |-> offered, accepted |-> offered, result |-> offered + d, scale |-> offered + d,
                    ready |-> ready, scratchpad |-> after.scratchpad, accumulator |-> after.accumulator],
        events |-> [first |-> session.event + 1, last |-> session.event + 2, count |-> 2, from |-> offered, to |-> offered + d]]

Run(record, written) ==
    /\ streamVerdict = "writing" /\ session.works <= Count
    /\ session' = [record.after EXCEPT !.ready = TRUE]
    /\ ran' = Append(ran, record)
    /\ rows' = IF written THEN Append(rows, record) ELSE rows
    /\ UNCHANGED <<mode, past, streamVerdict, ordinal, previous>>

Work(d) == session.works < Count /\ Run(Record(d, session.tags, TRUE), TRUE) /\ UNCHANGED faults

Faulty == streamVerdict = "writing" /\ faults < MaxFaults /\ faults' = faults + 1

\* The harness loses a record, snapshots before the drain, or meets more tags.
Unrecorded(d) == Faulty /\ Run(Record(d, session.tags, TRUE), FALSE)
Undrained(d) == Faulty /\ Run(Record(d, session.tags, FALSE), TRUE)
Crowded(d) == Faulty /\ Run(Record(d, TagLimit + 1, TRUE), TRUE)

\* The session is advanced while no work is in it.
Idle ==
    /\ Faulty
    /\ session' = [session EXCEPT !.cursor = @ + 1]
    /\ UNCHANGED <<mode, rows, ran, past, streamVerdict, ordinal, previous>>

\* reset() makes a new generation; a new process starts with the first again.
RestartSession(generation) ==
    /\ Faulty /\ past' = past \cup {ran}
    /\ session' = Cold(generation)
    /\ ran' = << >>
    /\ UNCHANGED <<mode, rows, streamVerdict, ordinal, previous>>

\* The file: a line twice, two lines exchanged, a line lost.
Damage(lines) ==
    /\ Faulty /\ rows # << >> /\ rows' = lines
    /\ UNCHANGED <<mode, session, ran, past, streamVerdict, ordinal, previous>>
Damaged ==
    \/ Damage(Append(rows, Last(rows)))
    \/ Len(rows) > 1 /\ Damage(SubSeq(rows, 1, Len(rows) - 2) \o <<rows[Len(rows)], rows[Len(rows) - 1]>>)
    \/ Damage(Tail(rows))
    \/ Damage(Front(rows))

Close == streamVerdict = "writing" /\ streamVerdict' = "reading"
         /\ UNCHANGED <<mode, session, rows, ran, past, faults, ordinal, previous>>

(***************************************************************************)
(* The readers                                                              *)
(***************************************************************************)
\* _snapshot: all views agree, the session is ready and drained, its tags
\* are within the certified range, and so many works are complete.
Snapshot(state, completed) ==
    /\ state.generation = 1 /\ state.ready
    /\ state.tags <= TagLimit /\ state.peak <= TagLimit
    /\ state.works = completed

\* Fault: a record may start anywhere.
CarriesAnything(row) == TRUE

\* The state before a work is the state after the last one; the first is cold.
Carries(row) ==
    /\ previous # << >> => row.before = previous[1]
    /\ ordinal = 0 => row.before.cursor = 0 /\ row.before.tags = 0 /\ row.before.scratchpad = 0 /\ row.before.accumulator = 0

Windowed(row) ==
    /\ row.window.offered = row.window.accepted
    /\ row.window.accepted < row.window.result /\ row.window.result <= row.window.scale
    /\ row.window.scale <= row.window.ready /\ row.window.ready = row.after.cursor
    /\ row.window.scratchpad = row.after.scratchpad /\ row.window.accumulator = row.after.accumulator

\* Back to back, or at the certified cycle with the gap the record tells of
Issued(row) ==
    IF mode = "interleaved"
    THEN row.window.offered = Ports[ordinal + 1] /\ row.window.offered = row.before.cursor + row.gap
    ELSE row.window.offered = row.before.cursor

Counted(row) ==
    /\ row.after.total - row.before.total = row.window.result - row.window.accepted
    /\ row.after.done = row.window.result
    /\ mode = "replay" => row.after.event >= row.before.event

\* decode: event ids are consecutive over all works and lie in the window.
EventsOwned(row) ==
    mode = "decode" =>
        /\ row.events.count > 0 /\ row.events.last - row.events.first + 1 = row.events.count
        /\ row.events.first = IF previous = << >> THEN 1 ELSE previous[2] + 1
        /\ row.window.accepted <= row.events.from /\ row.events.from <= row.events.to
        /\ row.events.to <= row.window.ready

Expected(row) ==
    /\ ordinal < Count /\ row.ordinal = ordinal
    /\ mode # "interleaved" => row.id = WorkIds[ordinal + 1]

Accepts(row) ==
    /\ Expected(row)
    /\ Snapshot(row.before, ordinal) /\ Snapshot(row.after, ordinal + 1)
    /\ Carries(row) /\ Windowed(row) /\ Issued(row) /\ Counted(row) /\ EventsOwned(row)

Inspect ==
    /\ streamVerdict = "reading" /\ ordinal < Len(rows)
    /\ LET row == rows[ordinal + 1]
       IN IF Accepts(row)
          THEN /\ ordinal' = ordinal + 1 /\ previous' = <<row.after, row.events.last>>
               /\ UNCHANGED streamVerdict
          ELSE streamVerdict' = "refused" /\ UNCHANGED <<ordinal, previous>>
    /\ UNCHANGED <<mode, session, rows, ran, past, faults>>

\* "complete trace required"
Conclude ==
    /\ streamVerdict = "reading" /\ ordinal = Len(rows)
    /\ streamVerdict' = IF previous # << >> /\ previous[1].works = Count THEN "accepted" ELSE "refused"
    /\ UNCHANGED <<mode, session, rows, ran, past, faults, ordinal, previous>>

StreamNext ==
    \/ \E d \in Durations : Work(d) \/ Unrecorded(d) \/ Undrained(d) \/ Crowded(d)
    \/ Idle \/ (\E g \in {1, session.generation + 1} : RestartSession(g)) \/ Damaged
    \/ Close \/ Inspect \/ Conclude

StreamSpec == StreamInit /\ [][StreamNext]_streamVars

(***************************************************************************)
(* Properties                                                               *)
(***************************************************************************)
\* The cycles that records account for: the gap before a work and the work
Took(line) == line.gap + (line.window.ready - line.window.offered)
Elapsed(lines) ==
    LET upTo[n \in 0..Len(lines)] == IF n = 0 THEN 0 ELSE upTo[n - 1] + Took(lines[n])
    IN upTo[Len(lines)]

\* An accepted stream is a history one session can have from its cold start:
\* one record for every work of the certificate, each truly the record of
\* that work in a session that started cold, taken up in the very state in
\* which the work before left it; each work was offered when the last had
\* drained (or at its certified cycle), so that the final cursor counts every
\* cycle of the trace and no other.
StreamIsOneSession ==
    streamVerdict = "accepted" =>
        /\ Len(rows) = Count
        /\ \A i \in 1..Count : \E life \in past \cup {ran} : i <= Len(life) /\ rows[i] = life[i]
        /\ \A i \in 1..(Count - 1) : rows[i + 1].before = rows[i].after
        /\ rows[Count].after.cursor = Elapsed(rows)
        /\ mode # "interleaved" => \A i \in 1..Count : rows[i].gap = 0
=============================================================================
