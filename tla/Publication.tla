---------------------------- MODULE Publication ----------------------------
(***************************************************************************)
(* How a replay or a reconstruction reads its inputs and publishes its two *)
(* outputs (npu_trace.py, local_replay.py, reconstruct.py,                 *)
(* input_snapshot.py): each input is copied through one descriptor, the    *)
(* work is done on the copies, every source is compared again, and results *)
(* and summary appear by two links that refuse an existing name.  Several  *)
(* runs may aim at the same outputs, any of them may die, and the sources  *)
(* are edited meanwhile: a file may get its old bytes back, never an old   *)
(* stat identity.                                                          *)
(***************************************************************************)
EXTENDS Integers, Sequences, FiniteSets

CONSTANTS
    NoOutput,
    Runs,
    Inputs,          \* how many input files there are
    Contents,        \* what a file may hold
    MaxInputEdits,
    MaxRunCrashes

ASSUME PublicationAssumption == Inputs \in Nat \ {0}

VARIABLES
    file,            \* sources: [content, stamp]
    inputEdits, runCrashes,
    results, summary,    \* the published outputs: None or [run, from]
    step, input,          \* step of each run and the input it is at
    before,          \* identity of the input taken before the copy
    copy,            \* the copy being made: the halves read so far
    snapshot,        \* input -> [content, identity] of the copies
    coexisted        \* history: the contents of all sources when verification began

publicationVars == <<file, inputEdits, runCrashes, results, summary, step, input, before, copy, snapshot, coexisted>>
outputs == <<results, summary>>
world == <<file, inputEdits, runCrashes>>

PublicationInit ==
    /\ file \in [1 .. Inputs -> [content : Contents, stamp : {0}]]
    /\ inputEdits = 0 /\ runCrashes = 0 /\ results = NoOutput /\ summary = NoOutput
    /\ step = [r \in Runs |-> "START"] /\ input = [r \in Runs |-> 1]
    /\ before = [r \in Runs |-> NoOutput] /\ copy = [r \in Runs |-> << >>]
    /\ snapshot = [r \in Runs |-> << >>] /\ coexisted = [r \in Runs |-> << >>]

Step(r, label) == step[r] = label
MoveTo(r, label) == step' = [step EXCEPT ![r] = label]
Source(r) == file[input[r]]

\* "outputs must be new files"
RunStart(r) ==
    /\ Step(r, "START")
    /\ MoveTo(r, IF results = NoOutput /\ summary = NoOutput THEN "BEFORE" ELSE "FAILED")
    /\ UNCHANGED <<world, outputs, input, before, copy, snapshot, coexisted>>

(***************************************************************************)
(* snapshot_inputs and snapshot_file                                       *)
(***************************************************************************)
Before(r) ==
    /\ Step(r, "BEFORE") /\ MoveTo(r, "COPY")
    /\ before' = [before EXCEPT ![r] = Source(r).stamp]
    /\ copy' = [copy EXCEPT ![r] = << >>]
    /\ UNCHANGED <<world, outputs, input, snapshot, coexisted>>

\* The copy reads the file in two parts; an edit may come between them.
Copy(r) ==
    /\ Step(r, "COPY")
    /\ copy' = [copy EXCEPT ![r] = Append(@, Source(r).content)]
    /\ MoveTo(r, IF Len(copy[r]) = 1 THEN "DIGEST" ELSE "COPY")
    /\ UNCHANGED <<world, outputs, input, before, snapshot, coexisted>>

\* The digests of the descriptor and of the copy
Digest(r) ==
    /\ Step(r, "DIGEST")
    /\ MoveTo(r, IF copy[r] = <<Source(r).content, Source(r).content>> THEN "AFTER" ELSE "FAILED")
    /\ UNCHANGED <<world, outputs, input, before, copy, snapshot, coexisted>>

After(r) ==
    /\ Step(r, "AFTER")
    /\ IF Source(r).stamp /= before[r] THEN MoveTo(r, "FAILED") /\ UNCHANGED <<input, snapshot>>
       ELSE /\ snapshot' = [snapshot EXCEPT ![r] = Append(@, [content |-> copy[r], identity |-> before[r]])]
            /\ MoveTo(r, IF input[r] = Inputs THEN "REPLAY" ELSE "BEFORE")
            /\ input' = [input EXCEPT ![r] = IF @ = Inputs THEN 1 ELSE @ + 1]
    /\ UNCHANGED <<world, outputs, before, copy, coexisted>>

(***************************************************************************)
(* verify_input_snapshots, one source after the other, and the two links   *)
(***************************************************************************)
\* The replay reads the copies only.
ReplaySnapshot(r) ==
    /\ Step(r, "REPLAY") /\ MoveTo(r, "VERIFY")
    /\ coexisted' = [coexisted EXCEPT ![r] = [i \in 1 .. Inputs |-> file[i].content]]
    /\ UNCHANGED <<world, outputs, input, before, copy, snapshot>>

\* Fault: the sources are not compared again.
SourceUnchecked(r) == TRUE

SourceUnchanged(r) == snapshot[r][input[r]].identity = Source(r).stamp

VerifySources(r) ==
    /\ Step(r, "VERIFY")
    /\ IF ~SourceUnchanged(r) THEN MoveTo(r, "FAILED") /\ UNCHANGED input
       ELSE /\ MoveTo(r, IF input[r] = Inputs THEN "LINK_RESULTS" ELSE "VERIFY")
            /\ input' = [input EXCEPT ![r] = IF @ = Inputs THEN @ ELSE @ + 1]
    /\ UNCHANGED <<world, outputs, before, copy, snapshot, coexisted>>

Output(r) == [run |-> r, from |-> [i \in 1 .. Inputs |-> snapshot[r][i].content]]

\* Fault: the summary is linked before the results.
LinkSummaryFirst(r) ==
    /\ Step(r, "LINK_RESULTS")
    /\ IF summary /= NoOutput THEN MoveTo(r, "FAILED") /\ UNCHANGED outputs
       ELSE summary' = Output(r) /\ MoveTo(r, "LINK_SUMMARY") /\ UNCHANGED results
    /\ UNCHANGED <<world, input, before, copy, snapshot, coexisted>>

LinkResults(r) ==
    /\ Step(r, "LINK_RESULTS")
    /\ IF results /= NoOutput THEN MoveTo(r, "FAILED") /\ UNCHANGED outputs
       ELSE results' = Output(r) /\ MoveTo(r, "LINK_SUMMARY") /\ UNCHANGED summary
    /\ UNCHANGED <<world, input, before, copy, snapshot, coexisted>>

LinkSummary(r) ==
    /\ Step(r, "LINK_SUMMARY")
    /\ IF summary /= NoOutput THEN MoveTo(r, "FAILED") /\ UNCHANGED outputs
       ELSE summary' = Output(r) /\ MoveTo(r, "PUBLISHED") /\ UNCHANGED results
    /\ UNCHANGED <<world, input, before, copy, snapshot, coexisted>>

(***************************************************************************)
(* The environment                                                         *)
(***************************************************************************)
EditInput(i, content) ==
    /\ inputEdits < MaxInputEdits /\ content /= file[i].content
    /\ file' = [file EXCEPT ![i] = [content |-> content, stamp |-> inputEdits + 1]]
    /\ inputEdits' = inputEdits + 1
    /\ UNCHANGED <<runCrashes, outputs, step, input, before, copy, snapshot, coexisted>>

RunCrash(r) ==
    /\ runCrashes < MaxRunCrashes /\ step[r] \notin {"START", "FAILED", "PUBLISHED", "DOWN"}
    /\ runCrashes' = runCrashes + 1 /\ MoveTo(r, "DOWN")
    /\ UNCHANGED <<file, inputEdits, outputs, input, before, copy, snapshot, coexisted>>

PublicationNext ==
    \/ \E r \in Runs :
          \/ RunStart(r) \/ Before(r) \/ Copy(r) \/ Digest(r) \/ After(r) \/ ReplaySnapshot(r)
          \/ VerifySources(r) \/ LinkResults(r) \/ LinkSummary(r) \/ RunCrash(r)
    \/ \E i \in 1 .. Inputs, content \in Contents : EditInput(i, content)

PublicationSpec == PublicationInit /\ [][PublicationNext]_publicationVars

(***************************************************************************)
(* Properties                                                              *)
(***************************************************************************)
\* A published summary stands beside the results of its own run, whatever
\* other runs do and wherever a run dies.
OutputsPaired == summary /= NoOutput => results = summary

\* Results come from untorn copies of inputs that were all in place at one
\* moment: when the run began to compare its sources again.
InputsCoexisted ==
    results /= NoOutput => results.from = [i \in 1 .. Inputs |-> <<coexisted[results.run][i], coexisted[results.run][i]>>]

\* What is published belongs together: the two files of one run, and the
\* inputs they were computed from.
PublishedTogether == OutputsPaired /\ InputsCoexisted
=============================================================================
