------------------------------ MODULE MCReplay ------------------------------
(***************************************************************************)
(* The replays and what they leave behind, each explored on its own: an    *)
(* instance chooses the program that runs, and the others keep their       *)
(* initial state.                                                          *)
(*                                                                         *)
(* LocalReplay: four bindings, two of which have one document and one that *)
(* the model refuses; a FIFO of one entry, so that a binding is evicted    *)
(* and asked for again.                                                    *)
(* Publication: two runs with the same outputs and two inputs that are     *)
(* edited thrice, so that a file can change and change back during a copy. *)
(* SequenceTrace: two of the trace's four works are selected; the session  *)
(* answers a work at once or with every delay at least one.                *)
(***************************************************************************)
EXTENDS LocalReplay, Publication, SequenceTrace

VARIABLE program

MCTraces == {<<1, 2, 1, 3>>, <<1, 4, 3>>}
MCDocument == <<1, 1, 2, 3>>
MCEstimate == <<10, 20, 30>>

MCTraceWorks == <<[id |-> 5, parent |-> 1], [id |-> 6, parent |-> 2],
                  [id |-> 7, parent |-> 2], [id |-> 8, parent |-> 3]>>
MCWindows == {[accept |-> 0, result |-> 1, scale |-> 0, ready |-> 0],
              [accept |-> 1, result |-> 2, scale |-> 1, ready |-> 1]}

MCInit ==
    /\ program \in {"local_replay", "publication", "sequence_trace"}
    /\ ReplayInit /\ PublicationInit /\ SequenceInit
    /\ program /= "local_replay" => trace = <<1, 4, 3>> /\ tasks = [d \in Documents |-> None]
    /\ program /= "publication" => file = [i \in 1 .. Inputs |-> [content |-> 1, stamp |-> 0]]

MCNext ==
    /\ \/ program = "local_replay" /\ ReplayNext /\ UNCHANGED <<publicationVars, sequenceVars>>
       \/ program = "publication" /\ PublicationNext /\ UNCHANGED <<replayVars, sequenceVars>>
       \/ program = "sequence_trace" /\ SequenceNext /\ UNCHANGED <<replayVars, publicationVars>>
    /\ UNCHANGED program

Alone(action) ==
    program = "sequence_trace" /\ action /\ UNCHANGED <<replayVars, publicationVars, program>>

MCVars == <<replayVars, publicationVars, sequenceVars, program>>

MCSpec ==
    /\ MCInit /\ [][MCNext]_MCVars
    /\ WF_MCVars(Alone(Watchdog)) /\ WF_MCVars(Alone(Die)) /\ WF_MCVars(Alone(Deadline))

\* The watchdog of sequence_trace_cli ends with a receipt and no child left,
\* even when a child hangs.
WatchdogReturns == program = "sequence_trace" => WatchdogEnds
=============================================================================
