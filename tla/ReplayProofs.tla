---------------------------- MODULE ReplayProofs ----------------------------
(***************************************************************************)
(* The isolated replays, without the bounds of the runs.                   *)
(*                                                                         *)
(* Publication: what is published belongs together, for any number of runs *)
(* that aim at the same outputs, inputs, edits and crashes.                *)
(* LocalReplay: a replay that is published holds the cycle model's answers *)
(* in trace order, for every trace, every set of processes with or without *)
(* a pool and the shared cache, and every cache size.                      *)
(* SequenceTrace: the receipt is honest and a committed result verified,   *)
(* for every trace, answer of the session, edit, interrupt and deadline.   *)
(***************************************************************************)
EXTENDS LocalReplay, Publication, SequenceTrace, WellFoundedInduction, TLAPS

(***************************************************************************)
(* Publication: the inductive invariant                                    *)
(***************************************************************************)
Copying == {"COPY", "DIGEST", "AFTER"}

Snapshotting == {"START", "BEFORE"} \cup Copying

Copied == {"REPLAY", "VERIFY", "LINK_RESULTS", "LINK_SUMMARY"}

Ended == {"PUBLISHED", "FAILED", "DOWN"}

Past == {"LINK_SUMMARY"} \cup Ended

Snapshot == [content : Seq(Contents), identity : Nat]

PublicationTypes ==
  /\ file \in [1 .. Inputs -> [content : Contents, stamp : Nat]]
  /\ inputEdits \in Nat /\ \A i \in 1 .. Inputs : file[i].stamp <= inputEdits
  /\ step \in [Runs -> Snapshotting \cup Copied \cup Ended]
  /\ input \in [Runs -> 1 .. Inputs]
  /\ before \in [Runs -> Nat \cup {NoOutput}]
  /\ copy \in [Runs -> Seq(Contents)]
  /\ snapshot \in [Runs -> Seq(Snapshot)]
  /\ DOMAIN coexisted = Runs

\* A file that still has the identity of the first look has not changed, so all
\* that was copied of it is its content.
CopyFollows(r) ==
  step[r] \in Copying =>
    /\ before[r] \in Nat /\ before[r] <= Source(r).stamp
    /\ Len(copy[r]) \in (IF step[r] = "COPY" THEN {0, 1} ELSE {2})
    /\ before[r] = Source(r).stamp => \A k \in 1 .. Len(copy[r]) : copy[r][k] = Source(r).content

\* The copies of the first inputs, each true to its source while that keeps its
\* identity.
SnapshotFollows(r) ==
  /\ step[r] \in Snapshotting => Len(snapshot[r]) = input[r] - 1
  /\ step[r] \in Copied => Len(snapshot[r]) = Inputs
  /\ step[r] \in Snapshotting \cup Copied =>
       \A i \in 1 .. Len(snapshot[r]) :
         /\ snapshot[r][i].identity <= file[i].stamp
         /\ snapshot[r][i].identity = file[i].stamp => snapshot[r][i].content = <<file[i].content, file[i].content>>

\* An input as it was when the comparison began
AsItWas(r, i) == snapshot[r][i].content = <<coexisted[r][i], coexisted[r][i]>>

\* An input that was compared, or would pass the comparison, is as it was.
Compared(r) ==
  /\ step[r] = "REPLAY" => input[r] = 1
  /\ step[r] = "VERIFY" =>
       \A i \in 1 .. Inputs : i < input[r] \/ snapshot[r][i].identity = file[i].stamp => AsItWas(r, i)
  /\ step[r] \in {"LINK_RESULTS", "LINK_SUMMARY"} => \A i \in 1 .. Inputs : AsItWas(r, i)

\* Between its two links a run owns the results, and results are of a run that
\* has compared its inputs for good.
OwnResults ==
  /\ \A r \in Runs : step[r] = "LINK_SUMMARY" => results = Output(r) \/ Output(r) = NoOutput
  /\ results # NoOutput => results.run \in Runs /\ step[results.run] \in Past

PublicationInv ==
  /\ PublicationTypes
  /\ \A r \in Runs : CopyFollows(r) /\ SnapshotFollows(r) /\ Compared(r)
  /\ OwnResults
  /\ PublishedTogether

----------------------------------------------------------------------------
\* Every run starts with nothing copied and nothing published.
LEMMA PublicationInitial == PublicationInit => PublicationInv
<1> SUFFICES ASSUME PublicationInit PROVE PublicationInv
  OBVIOUS
<1> USE PublicationAssumption DEF PublicationInit
<1>1. PublicationTypes
  BY DEF PublicationTypes, Snapshotting, Copying
<1>2. ASSUME NEW r \in Runs PROVE CopyFollows(r) /\ SnapshotFollows(r) /\ Compared(r)
  BY DEF CopyFollows, SnapshotFollows, Compared, Snapshotting, Copying, Copied
<1> QED
  BY <1>1, <1>2 DEF PublicationInv, OwnResults, PublishedTogether, OutputsPaired, InputsCoexisted

\* A step of run r on its own state leaves the other runs as they are.
OwnStep(r) ==
  /\ UNCHANGED <<file, inputEdits>>
  /\ \A q \in Runs \ {r} : /\ step'[q] = step[q] /\ input'[q] = input[q] /\ before'[q] = before[q] /\ copy'[q] = copy[q]
                           /\ snapshot'[q] = snapshot[q] /\ coexisted'[q] = coexisted[q]

\* The other runs copy and compare as before.
LEMMA OtherRuns ==
  ASSUME PublicationInv, NEW r \in Runs, OwnStep(r), NEW q \in Runs \ {r}
  PROVE  CopyFollows(q)' /\ SnapshotFollows(q)' /\ Compared(q)'
<1>1. CopyFollows(q) /\ SnapshotFollows(q) /\ Compared(q) /\ q \in Runs
  BY DEF PublicationInv
<1>2. /\ file' = file /\ step'[q] = step[q] /\ input'[q] = input[q] /\ before'[q] = before[q] /\ copy'[q] = copy[q]
      /\ snapshot'[q] = snapshot[q] /\ coexisted'[q] = coexisted[q]
  BY DEF OwnStep
<1>3. CopyFollows(q)'
  BY <1>1, <1>2 DEF CopyFollows, Source
<1>4. SnapshotFollows(q)'
  BY <1>1, <1>2 DEF SnapshotFollows
<1>5. Compared(q)'
  BY <1>1, <1>2 DEF Compared, AsItWas
<1> QED
  BY <1>3, <1>4, <1>5

\* A step that publishes nothing keeps what is published: the run whose results
\* are there is past its comparison.
LEMMA NothingPublished ==
  ASSUME PublicationInv, NEW r \in Runs, OwnStep(r), results' = results, summary' = summary,
         step[r] \notin Past, step'[r] # "LINK_SUMMARY"
  PROVE  OwnResults' /\ PublishedTogether'
<1> USE DEF PublicationInv, Past
<1>1. UNCHANGED <<results, summary>>
  OBVIOUS
<1>2. ASSUME NEW q \in Runs, step'[q] = "LINK_SUMMARY" PROVE results' = Output(q)' \/ Output(q)' = NoOutput
  <2>1. q # r
    BY <1>2 DEF Ended
  <2>2. snapshot'[q] = snapshot[q] /\ step[q] = "LINK_SUMMARY"
    BY <1>2, <2>1 DEF OwnStep
  <2>3. Output(q)' = Output(q)
    BY <2>2 DEF Output
  <2> QED
    BY <1>1, <2>2, <2>3 DEF OwnResults
<1>3. CASE results = NoOutput
  BY <1>1, <1>2, <1>3 DEF OwnResults, PublishedTogether, OutputsPaired, InputsCoexisted
<1>4. CASE results # NoOutput
  <2>1. results.run \in Runs /\ step[results.run] \in Past
    BY <1>4 DEF OwnResults
  <2>2. coexisted'[results.run] = coexisted[results.run] /\ step'[results.run] \in Past
    BY <2>1 DEF OwnStep
  <2>3. PublishedTogether'
    BY <1>1, <1>4, <2>2 DEF PublishedTogether, OutputsPaired, InputsCoexisted
  <2>4. OwnResults'
    BY <1>1, <1>2, <2>1, <2>2 DEF OwnResults
  <2> QED
    BY <2>3, <2>4
<1> QED
  BY <1>3, <1>4

\* What a step of run r has to show
LEMMA RunStep ==
  ASSUME PublicationInv, NEW r \in Runs, OwnStep(r), PublicationTypes', CopyFollows(r)', SnapshotFollows(r)', Compared(r)',
         OwnResults', PublishedTogether'
  PROVE  PublicationInv'
BY OtherRuns DEF PublicationInv

\* run(): the outputs are not there yet, and the first input is next.
LEMMA RunStartInv == ASSUME PublicationInv, NEW r \in Runs, RunStart(r) PROVE PublicationInv'
<1> USE DEF PublicationInv
<1>1. /\ step[r] = "START" /\ step'[r] \in {"BEFORE", "FAILED"} /\ UNCHANGED <<file, inputEdits, results, summary, input, before, copy, snapshot, coexisted>>
      /\ step' \in [Runs -> Snapshotting \cup Copied \cup Ended] /\ \A q \in Runs \ {r} : step'[q] = step[q]
  BY DEF RunStart, Step, MoveTo, PublicationTypes, world, outputs, Snapshotting, Ended
<1>2. OwnStep(r)
  BY <1>1 DEF OwnStep
<1>3. PublicationTypes'
  BY <1>1 DEF PublicationTypes
<1>4. CopyFollows(r)' /\ Compared(r)'
  BY <1>1 DEF CopyFollows, Compared, Copying
<1>5. SnapshotFollows(r)'
  BY <1>1 DEF SnapshotFollows, Snapshotting, Copying, Copied
<1>6. OwnResults' /\ PublishedTogether'
  <2>1. step[r] \notin Past /\ step'[r] # "LINK_SUMMARY" /\ results' = results /\ summary' = summary
    BY <1>1 DEF Past, Ended
  <2> QED
    BY <1>2, <2>1, NothingPublished
<1> QED
  BY <1>2, <1>3, <1>4, <1>5, <1>6, RunStep

\* snapshot_file: the identity before the copy
LEMMA BeforeInv == ASSUME PublicationInv, NEW r \in Runs, Before(r) PROVE PublicationInv'
<1> USE DEF PublicationInv
<1>1. /\ step[r] = "BEFORE" /\ step'[r] = "COPY" /\ UNCHANGED <<file, inputEdits, results, summary, input, snapshot, coexisted>>
      /\ step' \in [Runs -> Snapshotting \cup Copied \cup Ended] /\ \A q \in Runs \ {r} : step'[q] = step[q]
  BY DEF Before, Step, MoveTo, PublicationTypes, world, outputs, Snapshotting, Copying
<1>2. Source(r).stamp \in Nat /\ input[r] \in 1 .. Inputs
  BY DEF PublicationTypes, Source
<1>3. /\ before' \in [Runs -> Nat \cup {NoOutput}] /\ before'[r] = Source(r).stamp /\ \A q \in Runs \ {r} : before'[q] = before[q]
      /\ copy' \in [Runs -> Seq(Contents)] /\ copy'[r] = << >> /\ \A q \in Runs \ {r} : copy'[q] = copy[q]
  BY <1>2 DEF Before, PublicationTypes
<1>4. OwnStep(r)
  BY <1>1, <1>3 DEF OwnStep
<1>5. PublicationTypes'
  BY <1>1, <1>3 DEF PublicationTypes
<1>6. CopyFollows(r)' /\ Compared(r)'
  BY <1>1, <1>2, <1>3 DEF CopyFollows, Compared, Source
<1>7. SnapshotFollows(r)'
  BY <1>1 DEF SnapshotFollows, Snapshotting, Copying, Copied
<1>8. OwnResults' /\ PublishedTogether'
  <2>1. step[r] \notin Past /\ step'[r] # "LINK_SUMMARY" /\ results' = results /\ summary' = summary
    BY <1>1 DEF Past, Ended
  <2> QED
    BY <1>4, <2>1, NothingPublished
<1> QED
  BY <1>4, <1>5, <1>6, <1>7, <1>8, RunStep

\* A part of the source is read: it is the content that the source has now.
LEMMA CopyPartInv == ASSUME PublicationInv, NEW r \in Runs, Copy(r) PROVE PublicationInv'
<1> USE DEF PublicationInv
<1> DEFINE c == Source(r).content
           longer == Append(copy[r], c)
<1>1. /\ step[r] = "COPY" /\ UNCHANGED <<file, inputEdits, results, summary, input, before, snapshot, coexisted>>
      /\ step'[r] = (IF Len(copy[r]) = 1 THEN "DIGEST" ELSE "COPY")
      /\ step' \in [Runs -> Snapshotting \cup Copied \cup Ended] /\ \A q \in Runs \ {r} : step'[q] = step[q]
  BY DEF Copy, Step, MoveTo, PublicationTypes, world, outputs, Snapshotting, Copying
<1>2. c \in Contents /\ input[r] \in 1 .. Inputs /\ copy[r] \in Seq(Contents)
  BY DEF PublicationTypes, Source
<1>3. copy' \in [Runs -> Seq(Contents)] /\ copy'[r] = longer /\ \A q \in Runs \ {r} : copy'[q] = copy[q]
  BY <1>2 DEF Copy, PublicationTypes
<1>4. OwnStep(r)
  BY <1>1, <1>3 DEF OwnStep
<1>5. PublicationTypes'
  BY <1>1, <1>3 DEF PublicationTypes
<1>6. CopyFollows(r)'
  <2>1. Source(r)' = Source(r)
    BY <1>1 DEF Source
  <2>2. /\ before[r] \in Nat /\ before[r] <= Source(r).stamp /\ Len(copy[r]) \in {0, 1}
        /\ before[r] = Source(r).stamp => \A k \in 1 .. Len(copy[r]) : copy[r][k] = c
    BY <1>1 DEF CopyFollows, Copying
  <2>3. Len(longer) = Len(copy[r]) + 1 /\ longer[Len(copy[r]) + 1] = c /\ \A k \in 1 .. Len(copy[r]) : longer[k] = copy[r][k]
    BY <1>2
  <2>4. before[r] = Source(r).stamp => \A k \in 1 .. Len(longer) : longer[k] = c
    BY <2>2, <2>3
  <2> HIDE DEF longer, c
  <2>5. Len(longer) \in (IF step'[r] = "COPY" THEN {0, 1} ELSE {2})
    <3>1. CASE Len(copy[r]) = 0
      BY <1>1, <2>3, <3>1
    <3>2. CASE Len(copy[r]) = 1
      BY <1>1, <2>3, <3>2
    <3> QED
      BY <2>2, <3>1, <3>2
  <2> QED
    BY <1>1, <1>3, <2>1, <2>2, <2>4, <2>5 DEF CopyFollows, c
<1>7. SnapshotFollows(r)' /\ Compared(r)'
  BY <1>1 DEF SnapshotFollows, Compared, Snapshotting, Copying, Copied
<1>8. OwnResults' /\ PublishedTogether'
  <2>1. step[r] \notin Past /\ step'[r] # "LINK_SUMMARY" /\ results' = results /\ summary' = summary
    BY <1>1 DEF Past, Ended
  <2> QED
    BY <1>4, <2>1, NothingPublished
<1> QED
  BY <1>4, <1>5, <1>6, <1>7, <1>8, RunStep

\* The digests of descriptor and copy are compared.
LEMMA DigestInv == ASSUME PublicationInv, NEW r \in Runs, Digest(r) PROVE PublicationInv'
<1> USE DEF PublicationInv
<1>1. /\ step[r] = "DIGEST" /\ step'[r] \in {"AFTER", "FAILED"} /\ UNCHANGED <<file, inputEdits, results, summary, input, before, copy, snapshot, coexisted>>
      /\ step' \in [Runs -> Snapshotting \cup Copied \cup Ended] /\ \A q \in Runs \ {r} : step'[q] = step[q]
  BY DEF Digest, Step, MoveTo, PublicationTypes, world, outputs, Snapshotting, Copying, Ended
<1>2. OwnStep(r)
  BY <1>1 DEF OwnStep
<1>3. PublicationTypes'
  BY <1>1 DEF PublicationTypes
<1>4. CopyFollows(r)' /\ Compared(r)'
  BY <1>1 DEF CopyFollows, Compared, Copying, Source
<1>5. SnapshotFollows(r)'
  BY <1>1 DEF SnapshotFollows, Snapshotting, Copying, Copied
<1>6. OwnResults' /\ PublishedTogether'
  <2>1. step[r] \notin Past /\ step'[r] # "LINK_SUMMARY" /\ results' = results /\ summary' = summary
    BY <1>1 DEF Past, Ended
  <2> QED
    BY <1>2, <2>1, NothingPublished
<1> QED
  BY <1>2, <1>3, <1>4, <1>5, <1>6, RunStep

\* The identity is the one before the copy: the copy is the source, and the next
\* input is looked at.
LEMMA AfterInv == ASSUME PublicationInv, NEW r \in Runs, After(r) PROVE PublicationInv'
<1> USE PublicationAssumption DEF PublicationInv
<1>1. /\ step[r] = "AFTER" /\ UNCHANGED <<file, inputEdits, results, summary, before, copy, coexisted>>
      /\ file \in [1 .. Inputs -> [content : Contents, stamp : Nat]] /\ input[r] \in 1 .. Inputs
  BY DEF After, Step, PublicationTypes, world, outputs
<1>2. step'[r] \in {"FAILED", "REPLAY", "BEFORE"} /\ step' \in [Runs -> Snapshotting \cup Copied \cup Ended] /\ \A q \in Runs \ {r} : step'[q] = step[q]
  BY DEF After, MoveTo, PublicationTypes, Snapshotting, Copied, Ended
<1>3. ASSUME OwnStep(r) PROVE OwnResults' /\ PublishedTogether'
  <2>1. step[r] \notin Past /\ step'[r] # "LINK_SUMMARY" /\ results' = results /\ summary' = summary
    BY <1>1, <1>2 DEF Past, Ended
  <2> QED
    BY <1>3, <2>1, NothingPublished
<1>4. CASE Source(r).stamp /= before[r]
  <2>1. UNCHANGED <<input, snapshot>> /\ step'[r] = "FAILED"
    BY <1>4 DEF After, MoveTo, PublicationTypes
  <2>2. OwnStep(r)
    BY <1>1, <1>2, <2>1 DEF OwnStep
  <2>3. PublicationTypes'
    BY <1>1, <1>2, <2>1 DEF PublicationTypes
  <2>4. CopyFollows(r)' /\ SnapshotFollows(r)' /\ Compared(r)'
    BY <2>1 DEF CopyFollows, SnapshotFollows, Compared, Snapshotting, Copying, Copied
  <2> QED
    BY <1>3, <2>2, <2>3, <2>4, RunStep
<1>5. CASE Source(r).stamp = before[r]
  <2> DEFINE new == [content |-> copy[r], identity |-> before[r]]
             c == Source(r).content
             n == input[r]
  <2>1. /\ snapshot' = [snapshot EXCEPT ![r] = Append(snapshot[r], new)]
        /\ input' = [input EXCEPT ![r] = IF n = Inputs THEN 1 ELSE n + 1]
        /\ step'[r] = (IF n = Inputs THEN "REPLAY" ELSE "BEFORE")
    BY <1>5 DEF After, MoveTo, PublicationTypes
  <2>2. /\ copy[r] \in Seq(Contents) /\ before[r] \in Nat /\ Len(copy[r]) = 2
        /\ \A k \in 1 .. 2 : copy[r][k] = c
    BY <1>1, <1>5 DEF CopyFollows, PublicationTypes, Copying
  <2>3. new \in Snapshot /\ new.identity = before[r] /\ new.content = copy[r]
    BY <2>2 DEF Snapshot
  <2>4. copy[r] = <<c, c>>
    BY <2>2
  <2>5. /\ snapshot[r] \in Seq(Snapshot) /\ Len(snapshot[r]) = n - 1
        /\ \A i \in 1 .. Len(snapshot[r]) :
             /\ snapshot[r][i].identity <= file[i].stamp
             /\ snapshot[r][i].identity = file[i].stamp => snapshot[r][i].content = <<file[i].content, file[i].content>>
    BY <1>1 DEF SnapshotFollows, Snapshotting, Copying, PublicationTypes
  <2> HIDE DEF new
  <2>6. /\ snapshot'[r] = Append(snapshot[r], new) /\ snapshot' \in [Runs -> Seq(Snapshot)]
        /\ \A q \in Runs \ {r} : snapshot'[q] = snapshot[q]
    BY <2>1, <2>3, <2>5 DEF PublicationTypes
  <2>7. /\ input'[r] = (IF n = Inputs THEN 1 ELSE n + 1) /\ input' \in [Runs -> 1 .. Inputs]
        /\ \A q \in Runs \ {r} : input'[q] = input[q]
    BY <1>1, <2>1 DEF PublicationTypes
  <2>8. Len(snapshot'[r]) = n /\ snapshot'[r][n] = new /\ \A i \in 1 .. n - 1 : snapshot'[r][i] = snapshot[r][i]
    BY <1>1, <2>3, <2>5, <2>6
  <2>9. OwnStep(r)
    BY <1>1, <1>2, <2>6, <2>7 DEF OwnStep
  <2>10. PublicationTypes'
    BY <1>1, <1>2, <2>6, <2>7 DEF PublicationTypes
  <2>11. CopyFollows(r)' /\ Compared(r)'
    BY <2>1, <2>7 DEF CopyFollows, Compared, Copying
  <2>12. ASSUME NEW i \in 1 .. n
         PROVE  /\ snapshot'[r][i].identity <= file'[i].stamp
                /\ snapshot'[r][i].identity = file'[i].stamp => snapshot'[r][i].content = <<file'[i].content, file'[i].content>>
    <3>1. CASE i = n
      <4>1. file[n].stamp = before[r] /\ c = file[n].content /\ before[r] \in Nat
        BY <1>5, <2>2 DEF Source
      <4>2. snapshot'[r][i].identity = before[r] /\ snapshot'[r][i].content = <<c, c>>
        BY <2>3, <2>4, <2>8, <3>1
      <4> HIDE DEF c
      <4> QED
        BY <1>1, <3>1, <4>1, <4>2
    <3>2. CASE i # n
      <4>1. i \in 1 .. n - 1
        BY <1>1, <3>2
      <4> QED
        BY <1>1, <2>5, <2>8, <4>1
    <3> QED
      BY <3>1, <3>2
  <2>13. SnapshotFollows(r)'
    <3>1. CASE n = Inputs
      BY <1>1, <2>1, <2>7, <2>8, <2>12, <3>1 DEF SnapshotFollows, Snapshotting, Copying, Copied
    <3>2. CASE n # Inputs
      BY <1>1, <2>1, <2>7, <2>8, <2>12, <3>2, SMTT(40) DEF SnapshotFollows, Snapshotting, Copying, Copied
    <3> QED
      BY <3>1, <3>2
  <2> QED
    BY <1>3, <2>9, <2>10, <2>11, <2>13, RunStep
<1> QED
  BY <1>4, <1>5

\* The work is done on the copies; a source that still has its identity is what
\* was copied.
LEMMA ReplaySnapshotInv == ASSUME PublicationInv, NEW r \in Runs, ReplaySnapshot(r) PROVE PublicationInv'
<1> USE DEF PublicationInv
<1>1. /\ step[r] = "REPLAY" /\ step'[r] = "VERIFY" /\ UNCHANGED <<file, inputEdits, results, summary, input, before, copy, snapshot>>
      /\ step' \in [Runs -> Snapshotting \cup Copied \cup Ended] /\ \A q \in Runs \ {r} : step'[q] = step[q]
  BY DEF ReplaySnapshot, Step, MoveTo, PublicationTypes, world, outputs, Copied
<1>2. /\ DOMAIN coexisted' = Runs /\ coexisted'[r] = [i \in 1 .. Inputs |-> file[i].content]
      /\ \A q \in Runs \ {r} : coexisted'[q] = coexisted[q]
  BY DEF ReplaySnapshot, PublicationTypes
<1>3. OwnStep(r)
  BY <1>1, <1>2 DEF OwnStep
<1>4. PublicationTypes'
  BY <1>1, <1>2 DEF PublicationTypes
<1>5. CopyFollows(r)' /\ SnapshotFollows(r)'
  BY <1>1 DEF CopyFollows, SnapshotFollows, Snapshotting, Copying, Copied
<1>6. Compared(r)'
  <2>1. input'[r] = 1 /\ Len(snapshot[r]) = Inputs
    BY <1>1 DEF Compared, SnapshotFollows, Copied
  <2>2. ASSUME NEW i \in 1 .. Inputs, snapshot[r][i].identity = file[i].stamp
        PROVE  snapshot[r][i].content = <<coexisted'[r][i], coexisted'[r][i]>>
    <3>1. coexisted'[r][i] = file[i].content
      BY <1>2
    <3> QED
      BY <1>1, <2>1, <2>2, <3>1 DEF SnapshotFollows, Copied
  <2>3. \A i \in 1 .. Inputs : ~(i < input'[r])
    BY <2>1
  <2> QED
    BY <1>1, <2>2, <2>3 DEF Compared, AsItWas
<1>7. OwnResults' /\ PublishedTogether'
  <2>1. step[r] \notin Past /\ step'[r] # "LINK_SUMMARY" /\ results' = results /\ summary' = summary
    BY <1>1 DEF Past, Ended
  <2> QED
    BY <1>3, <2>1, NothingPublished
<1> QED
  BY <1>3, <1>4, <1>5, <1>6, <1>7, RunStep

\* verify_input_snapshots: what is compared is as it was when that began, and is
\* no longer needed afterwards.
LEMMA VerifySourcesInv == ASSUME PublicationInv, NEW r \in Runs, VerifySources(r) PROVE PublicationInv'
<1> USE PublicationAssumption DEF PublicationInv
<1> DEFINE n == input[r]
<1>1. /\ step[r] = "VERIFY" /\ UNCHANGED <<file, inputEdits, results, summary, before, copy, snapshot, coexisted>> /\ n \in 1 .. Inputs
  BY DEF VerifySources, Step, PublicationTypes, world, outputs
<1>2. /\ step'[r] \in {"FAILED", "LINK_RESULTS", "VERIFY"} /\ step' \in [Runs -> Snapshotting \cup Copied \cup Ended]
      /\ \A q \in Runs \ {r} : step'[q] = step[q]
  BY DEF VerifySources, MoveTo, PublicationTypes, Copied, Ended
<1>3. input' \in [Runs -> 1 .. Inputs] /\ \A q \in Runs \ {r} : input'[q] = input[q]
  BY <1>1, SMTT(40) DEF VerifySources, PublicationTypes
<1>4. OwnStep(r)
  BY <1>1, <1>2, <1>3 DEF OwnStep
<1>5. PublicationTypes'
  BY <1>1, <1>2, <1>3 DEF PublicationTypes
<1>6. CopyFollows(r)' /\ SnapshotFollows(r)'
  BY <1>1, <1>2 DEF CopyFollows, SnapshotFollows, Snapshotting, Copying, Copied
<1>7. Compared(r)'
  <2>1. CASE ~SourceUnchanged(r)
    <3>1. step'[r] = "FAILED"
      BY <2>1 DEF VerifySources, MoveTo, PublicationTypes
    <3> QED
      BY <3>1 DEF Compared
  <2>2. CASE SourceUnchanged(r)
    <3>1. /\ step'[r] = (IF n = Inputs THEN "LINK_RESULTS" ELSE "VERIFY")
          /\ n # Inputs => input'[r] = n + 1
      BY <2>2 DEF VerifySources, MoveTo, PublicationTypes
    <3>2. ASSUME NEW i \in 1 .. n PROVE AsItWas(r, i)
      <4>1. i < n \/ i = n
        BY <1>1
      <4> QED
        BY <1>1, <2>2, <4>1 DEF Compared, SourceUnchanged, Source
    <3>3. ASSUME NEW i \in 1 .. Inputs, snapshot[r][i].identity = file[i].stamp PROVE AsItWas(r, i)
      BY <1>1, <3>3 DEF Compared
    <3>4. \A i \in 1 .. Inputs : AsItWas(r, i)' <=> AsItWas(r, i)
      BY <1>1 DEF AsItWas
    <3>5. CASE n = Inputs
      BY <3>1, <3>2, <3>4, <3>5 DEF Compared
    <3>6. CASE n # Inputs
      <4>1. \A i \in 1 .. Inputs : i < n + 1 => i \in 1 .. n
        BY <1>1
      <4> QED
        BY <1>1, <3>1, <3>2, <3>3, <3>4, <3>6, <4>1 DEF Compared
    <3> QED
      BY <3>5, <3>6
  <2> QED
    BY <2>1, <2>2
<1>8. OwnResults' /\ PublishedTogether'
  <2>1. step[r] \notin Past /\ step'[r] # "LINK_SUMMARY" /\ results' = results /\ summary' = summary
    BY <1>1, <1>2 DEF Past, Ended
  <2> QED
    BY <1>4, <2>1, NothingPublished
<1> QED
  BY <1>4, <1>5, <1>6, <1>7, <1>8, RunStep

\* A link, a failure to link and a crash change the step of the run only.
LEMMA RunEnds ==
  ASSUME PublicationInv, NEW r \in Runs, NEW label, step' = [step EXCEPT ![r] = label],
         UNCHANGED <<file, inputEdits, input, before, copy, snapshot, coexisted>>,
         label \in Ended \/ (step[r] = "LINK_RESULTS" /\ label = "LINK_SUMMARY"),
         OwnResults', PublishedTogether'
  PROVE  PublicationInv'
<1> USE DEF PublicationInv
<1>1. step'[r] = label /\ step' \in [Runs -> Snapshotting \cup Copied \cup Ended] /\ \A q \in Runs \ {r} : step'[q] = step[q]
  BY DEF PublicationTypes, Copied
<1>2. OwnStep(r)
  BY <1>1 DEF OwnStep
<1>3. PublicationTypes'
  BY <1>1 DEF PublicationTypes
<1>4. CopyFollows(r)' /\ SnapshotFollows(r)'
  BY <1>1 DEF CopyFollows, SnapshotFollows, Snapshotting, Copying, Copied, Ended
<1>5. Compared(r)'
  BY <1>1 DEF Compared, AsItWas, Ended
<1> QED
  BY <1>2, <1>3, <1>4, <1>5, RunStep

\* The step of the run that has linked its results may end; no other run's does.
LEMMA EndedKeepsPublished ==
  ASSUME PublicationInv, NEW r \in Runs, NEW label \in Ended, step' = [step EXCEPT ![r] = label],
         UNCHANGED <<results, summary, snapshot, coexisted>>
  PROVE  OwnResults' /\ PublishedTogether'
<1> USE DEF PublicationInv
<1>1. step'[r] = label /\ \A q \in Runs \ {r} : step'[q] = step[q]
  BY DEF PublicationTypes
<1>2. PublishedTogether'
  BY DEF PublishedTogether, OutputsPaired, InputsCoexisted
<1>3. OwnResults'
  BY <1>1 DEF OwnResults, Output, Past, Ended
<1> QED
  BY <1>2, <1>3

\* os.link of the results refuses an existing name, so the run that links them
\* owns them.
LEMMA LinkResultsInv == ASSUME PublicationInv, NEW r \in Runs, LinkResults(r) PROVE PublicationInv'
<1> USE DEF PublicationInv
<1>1. step[r] = "LINK_RESULTS" /\ UNCHANGED <<file, inputEdits, input, before, copy, snapshot, coexisted>>
  BY DEF LinkResults, Step, world
<1>2. CASE results /= NoOutput
  <2>1. step' = [step EXCEPT ![r] = "FAILED"] /\ UNCHANGED <<results, summary>> /\ "FAILED" \in Ended
    BY <1>2 DEF LinkResults, MoveTo, outputs, Ended
  <2> DEFINE label == "FAILED"
  <2> HIDE DEF label
  <2>2. step' = [step EXCEPT ![r] = label] /\ label \in Ended
    BY <2>1 DEF label
  <2>3. OwnResults' /\ PublishedTogether'
    BY <1>1, <2>1, <2>2, EndedKeepsPublished
  <2> QED
    BY <1>1, <2>2, <2>3, RunEnds
<1>3. CASE results = NoOutput
  <2>1. step' = [step EXCEPT ![r] = "LINK_SUMMARY"] /\ results' = Output(r) /\ summary' = summary
    BY <1>3 DEF LinkResults, MoveTo
  <2>2. step'[r] = "LINK_SUMMARY" /\ \A q \in Runs \ {r} : step'[q] = step[q]
    BY <2>1 DEF PublicationTypes
  <2>3. summary = NoOutput
    BY <1>3 DEF PublishedTogether, OutputsPaired
  <2>4. \A q \in Runs : Output(q)' = Output(q)
    BY <1>1 DEF Output
  <2>5. ASSUME NEW q \in Runs, step'[q] = "LINK_SUMMARY" PROVE results' = Output(q)' \/ Output(q)' = NoOutput
    <3>1. CASE q = r
      BY <2>1, <2>4, <3>1
    <3>2. CASE q # r
      <4>1. results = Output(q) \/ Output(q) = NoOutput
        BY <2>2, <2>5, <3>2 DEF OwnResults
      <4> QED
        BY <1>3, <2>4, <4>1
    <3> QED
      BY <3>1, <3>2
  <2>6. results'.run = r /\ results'.from = [i \in 1 .. Inputs |-> snapshot[r][i].content]
    BY <2>1 DEF Output
  <2>7. OwnResults'
    BY <2>2, <2>5, <2>6 DEF OwnResults, Past
  <2>8. InputsCoexisted'
    <3>1. \A i \in 1 .. Inputs : snapshot[r][i].content = <<coexisted[r][i], coexisted[r][i]>>
      BY <1>1 DEF Compared, AsItWas
    <3> QED
      BY <1>1, <2>6, <3>1 DEF InputsCoexisted
  <2>9. PublishedTogether'
    BY <2>1, <2>3, <2>8 DEF PublishedTogether, OutputsPaired
  <2> DEFINE label == "LINK_SUMMARY"
  <2> HIDE DEF label
  <2>10. step' = [step EXCEPT ![r] = label] /\ (step[r] = "LINK_RESULTS" /\ label = "LINK_SUMMARY")
    BY <1>1, <2>1 DEF label
  <2> QED
    BY <1>1, <2>7, <2>9, <2>10, RunEnds
<1> QED
  BY <1>2, <1>3

\* The summary goes beside the results that the run still owns.
LEMMA LinkSummaryInv == ASSUME PublicationInv, NEW r \in Runs, LinkSummary(r) PROVE PublicationInv'
<1> USE DEF PublicationInv
<1>1. step[r] = "LINK_SUMMARY" /\ UNCHANGED <<file, inputEdits, input, before, copy, snapshot, coexisted, results>>
  BY DEF LinkSummary, Step, world, outputs
<1>2. PICK label \in Ended : step' = [step EXCEPT ![r] = label] /\ (summary' = summary \/ (summary = NoOutput /\ summary' = Output(r)))
  BY DEF LinkSummary, MoveTo, outputs, Ended
<1>3. OwnResults'
  <2>1. step'[r] = label /\ \A q \in Runs \ {r} : step'[q] = step[q]
    BY <1>2 DEF PublicationTypes
  <2> QED
    BY <1>1, <2>1 DEF OwnResults, Output, Past, Ended
<1>4. InputsCoexisted'
  BY <1>1 DEF PublishedTogether, InputsCoexisted
<1>5. OutputsPaired'
  BY <1>1, <1>2 DEF PublishedTogether, OutputsPaired, OwnResults
<1> QED
  BY <1>1, <1>2, <1>3, <1>4, <1>5, RunEnds DEF PublishedTogether

\* A run may die anywhere.
LEMMA RunCrashInv == ASSUME PublicationInv, NEW r \in Runs, RunCrash(r) PROVE PublicationInv'
<1>1. /\ step' = [step EXCEPT ![r] = "DOWN"] /\ UNCHANGED <<file, inputEdits, input, before, copy, snapshot, coexisted>>
      /\ UNCHANGED <<results, summary>> /\ "DOWN" \in Ended
  BY DEF RunCrash, MoveTo, outputs, Ended
<1> DEFINE label == "DOWN"
<1> HIDE DEF label
<1>2. step' = [step EXCEPT ![r] = label] /\ label \in Ended
  BY <1>1 DEF label
<1>3. OwnResults' /\ PublishedTogether'
  BY <1>1, <1>2, EndedKeepsPublished
<1> QED
  BY <1>1, <1>2, <1>3, RunEnds

\* An edit gives a file an identity that it never had, above every one taken.
LEMMA EditInputInv ==
  ASSUME PublicationInv, NEW i \in 1 .. Inputs, NEW content \in Contents, EditInput(i, content)
  PROVE  PublicationInv'
<1> USE DEF PublicationInv
<1>1. UNCHANGED <<results, summary, step, input, before, copy, snapshot, coexisted>> /\ inputEdits' = inputEdits + 1
  BY DEF EditInput, outputs
<1>2. file' = [file EXCEPT ![i] = [content |-> content, stamp |-> inputEdits + 1]]
  BY DEF EditInput
<1>3. /\ file \in [1 .. Inputs -> [content : Contents, stamp : Nat]] /\ inputEdits \in Nat
      /\ \A j \in 1 .. Inputs : file[j].stamp \in Nat /\ file[j].stamp <= inputEdits
  BY DEF PublicationTypes
<1>4. /\ file' \in [1 .. Inputs -> [content : Contents, stamp : Nat]]
      /\ \A j \in 1 .. Inputs : file'[j] = file[j] \/ (file'[j].stamp = inputEdits + 1)
  BY <1>2, <1>3
<1>5. \A j \in 1 .. Inputs : file'[j] = file[j] \/ file[j].stamp < file'[j].stamp
  BY <1>3, <1>4
<1>6. \A j \in 1 .. Inputs : file'[j].stamp <= inputEdits'
  BY <1>1, <1>3, <1>4
<1>7. PublicationTypes'
  BY <1>1, <1>3, <1>4, <1>6 DEF PublicationTypes
<1>8. ASSUME NEW r \in Runs PROVE CopyFollows(r)' /\ SnapshotFollows(r)' /\ Compared(r)'
  <2>1. CopyFollows(r) /\ SnapshotFollows(r) /\ Compared(r) /\ input[r] \in 1 .. Inputs /\ snapshot[r] \in Seq(Snapshot)
    BY DEF PublicationTypes
  <2>2. ASSUME NEW id \in Nat, NEW j \in 1 .. Inputs, id <= file[j].stamp
        PROVE  id <= file'[j].stamp /\ (id = file'[j].stamp => file'[j] = file[j])
    <3>1. file[j].stamp \in Nat /\ file'[j].stamp \in Nat
      BY <1>3, <1>4
    <3> QED
      BY <1>5, <2>2, <3>1
  <2>3. CopyFollows(r)'
    BY <1>1, <2>1, <2>2 DEF CopyFollows, Source
  <2>4. step[r] \in Snapshotting \cup Copied => Len(snapshot[r]) <= Inputs /\ \A j \in 1 .. Len(snapshot[r]) : j \in 1 .. Inputs
    <3>1. Len(snapshot[r]) \in Nat /\ Inputs \in Nat
      BY <2>1, PublicationAssumption
    <3> QED
      BY <2>1, <3>1 DEF SnapshotFollows
  <2>5. ASSUME NEW j \in 1 .. Len(snapshot[r]) PROVE snapshot[r][j].identity \in Nat
    <3>1. snapshot[r][j] \in Snapshot
      BY <2>1
    <3> QED
      BY <3>1 DEF Snapshot
  <2>6. SnapshotFollows(r)'
    BY <1>1, <2>1, <2>2, <2>4, <2>5 DEF SnapshotFollows
  <2>7. Compared(r)'
    <3>1. ASSUME step[r] = "VERIFY", NEW j \in 1 .. Inputs, j < input[r] \/ snapshot[r][j].identity = file'[j].stamp
          PROVE  AsItWas(r, j)
      <4>1. Len(snapshot[r]) = Inputs /\ snapshot[r][j].identity <= file[j].stamp /\ snapshot[r][j].identity \in Nat
        BY <2>1, <2>5, <3>1 DEF SnapshotFollows, Copied
      <4>2. j < input[r] \/ snapshot[r][j].identity = file[j].stamp
        BY <2>2, <3>1, <4>1
      <4> QED
        BY <2>1, <3>1, <4>2 DEF Compared
    <3>2. \A j \in 1 .. Inputs : AsItWas(r, j)' <=> AsItWas(r, j)
      BY <1>1 DEF AsItWas
    <3> QED
      BY <1>1, <2>1, <3>1, <3>2 DEF Compared
  <2> QED
    BY <2>3, <2>6, <2>7
<1>9. OwnResults' /\ PublishedTogether'
  BY <1>1 DEF OwnResults, Output, PublishedTogether, OutputsPaired, InputsCoexisted
<1> QED
  BY <1>7, <1>8, <1>9

\* Every step of every run and every edit keeps it.
LEMMA PublicationStep == PublicationInv /\ [PublicationNext]_publicationVars => PublicationInv'
<1> SUFFICES ASSUME PublicationInv, [PublicationNext]_publicationVars PROVE PublicationInv'
  OBVIOUS
<1>1. CASE UNCHANGED publicationVars
  <2> USE <1>1 DEF publicationVars, PublicationInv
  <2>1. PublicationTypes'
    BY DEF PublicationTypes
  <2>2. ASSUME NEW r \in Runs PROVE CopyFollows(r)' /\ SnapshotFollows(r)' /\ Compared(r)'
    BY DEF CopyFollows, SnapshotFollows, Compared, AsItWas, Source
  <2>3. OwnResults' /\ PublishedTogether'
    BY DEF OwnResults, Output, PublishedTogether, OutputsPaired, InputsCoexisted
  <2> QED
    BY <2>1, <2>2, <2>3
<1> QED
  BY <1>1, RunStartInv, BeforeInv, CopyPartInv, DigestInv, AfterInv, ReplaySnapshotInv, VerifySourcesInv, LinkResultsInv,
     LinkSummaryInv, RunCrashInv, EditInputInv DEF PublicationNext

\* The copies, the comparison and the two links of the replays hold together in
\* every reachable state.
THEOREM PublicationInvariant == PublicationSpec => []PublicationInv
  BY PublicationInitial, PublicationStep, PTL DEF PublicationSpec

\* The published results and summary are of one run, and its inputs stood beside
\* each other when it began to compare them again.
THEOREM PublicationTogether == PublicationSpec => []PublishedTogether
<1>1. PublicationInv => PublishedTogether
  BY DEF PublicationInv
<1> QED
  BY <1>1, PublicationInvariant, PTL

(***************************************************************************)
(* LocalReplay: the inductive invariant                                    *)
(***************************************************************************)
Bindings == DOMAIN Document

Values == {Estimate[d] : d \in Documents} \cup {None}

AnswerRecord == [document : Documents, value : Values, done : BOOLEAN, called : BOOLEAN]

ReplayTypes ==
  /\ trace \in Seq(Bindings)
  /\ pc \in [Processes -> {"PARSE", "STORE", "QUARANTINE", "CHECK", "PUBLISHED", "FAILED", "DOWN"}]
  /\ at \in [Processes -> Nat]
  /\ cache \in [Processes -> Seq(Bindings \X Nat)]
  /\ answers \in [Processes -> Seq(AnswerRecord)]
  /\ works \in [Processes -> Seq(Nat)]
  /\ rows \in [Processes -> Seq(Values)]

\* A row of the tasks table says of itself whether it is the model's answer.
TaskRows == DOMAIN tasks = Documents /\ \A d \in Documents : tasks[d] \in {None, Complete(d), Damaged(d)}

\* An answer that is there is the model's.
AnswersRight(p) ==
  \A i \in 1 .. Len(answers[p]) : answers[p][i].done => answers[p][i].value = Estimate[answers[p][i].document]

\* Answer i is for the document of binding b.
Serves(p, i, b) == i \in 1 .. Len(answers[p]) /\ answers[p][i].document = Document[b]

\* A binding in the FIFO and a work of the trace have the answer of their document.
ServedRight(p) ==
  /\ \A n \in 1 .. Len(cache[p]) : Serves(p, cache[p][n][2], cache[p][n][1])
  /\ at[p] = Len(works[p]) + 1 /\ Len(works[p]) <= Len(trace)
  /\ \A n \in 1 .. Len(works[p]) : Serves(p, works[p][n], trace[n])

\* The rows written are the first ones of the trace, and come after all works.
RowsRight(p) ==
  /\ Len(rows[p]) <= Len(trace) /\ (Len(rows[p]) > 0 => at[p] > Len(trace))
  /\ \A n \in 1 .. Len(rows[p]) : rows[p][n] = Estimate[Document[trace[n]]] /\ Document[trace[n]] \notin Rejected

\* What a step of _replay relies on
PhaseRight(p) ==
  /\ pc[p] \in {"STORE", "QUARANTINE"} => at[p] <= Len(trace)
  /\ pc[p] = "STORE" => Len(answers[p]) > 0 /\ answers[p][Len(answers[p])].document = Doc(p)
  /\ pc[p] \in {"CHECK", "PUBLISHED"} => Len(rows[p]) = Len(trace)

ProcessRight(p) == AnswersRight(p) /\ ServedRight(p) /\ RowsRight(p) /\ PhaseRight(p)

ReplayInv == ReplayTypes /\ TaskRows /\ \A p \in Processes : ProcessRight(p)

----------------------------------------------------------------------------
\* Every process starts with nothing asked and nothing written.
LEMMA ReplayInitial == ReplayInit => ReplayInv
<1> SUFFICES ASSUME ReplayInit PROVE ReplayInv
  OBVIOUS
<1> USE LocalReplayAssumption DEF ReplayInit
<1>1. trace \in Seq(Bindings)
  BY DEF Bindings
<1>2. ReplayTypes
  BY <1>1 DEF ReplayTypes
<1>3. TaskRows
  BY DEF TaskRows
<1>4. ASSUME NEW p \in Processes PROVE ProcessRight(p)
  BY <1>1 DEF ProcessRight, AnswersRight, ServedRight, RowsRight, PhaseRight
<1> QED
  BY <1>2, <1>3, <1>4 DEF ReplayInv

\* A step of process p leaves the private state of the others as it is.
OwnReplayStep(p) ==
  /\ trace' = trace
  /\ \A q \in Processes \ {p} : /\ pc'[q] = pc[q] /\ at'[q] = at[q] /\ cache'[q] = cache[q] /\ answers'[q] = answers[q]
                                /\ works'[q] = works[q] /\ rows'[q] = rows[q]

\* What a step of process p has to show
LEMMA ReplayProcessStep ==
  ASSUME ReplayInv, NEW p \in Processes, OwnReplayStep(p), ReplayTypes', TaskRows',
         AnswersRight(p)', ServedRight(p)', RowsRight(p)', PhaseRight(p)'
  PROVE  ReplayInv'
<1>1. ASSUME NEW q \in Processes \ {p} PROVE ProcessRight(q)'
  <2>1. /\ trace' = trace /\ pc'[q] = pc[q] /\ at'[q] = at[q] /\ cache'[q] = cache[q] /\ answers'[q] = answers[q]
        /\ works'[q] = works[q] /\ rows'[q] = rows[q]
    BY DEF OwnReplayStep
  <2>2. AnswersRight(q) /\ ServedRight(q) /\ RowsRight(q) /\ PhaseRight(q)
    BY DEF ReplayInv, ProcessRight
  <2>3. AnswersRight(q)' /\ RowsRight(q)'
    BY <2>1, <2>2 DEF AnswersRight, RowsRight
  <2>4. ServedRight(q)'
    BY <2>1, <2>2 DEF ServedRight, Serves
  <2>5. PhaseRight(q)'
    BY <2>1, <2>2 DEF PhaseRight, Doc, Binding
  <2> QED
    BY <2>3, <2>4, <2>5 DEF ProcessRight
<1> QED
  BY <1>1 DEF ReplayInv, ProcessRight

\* The binding of the next work, and its document
LEMMA NextWork ==
  ASSUME ReplayInv, NEW p \in Processes, at[p] <= Len(trace)
  PROVE  Binding(p) \in Bindings /\ Doc(p) \in Documents /\ at[p] \in 1 .. Len(trace) /\ Binding(p) = trace[at[p]]
<1>1. at[p] = Len(works[p]) + 1 /\ works[p] \in Seq(Nat) /\ trace \in Seq(Bindings)
  BY DEF ReplayInv, ProcessRight, ServedRight, ReplayTypes
<1>2. at[p] \in 1 .. Len(trace)
  BY <1>1
<1>3. trace[at[p]] \in Bindings
  BY <1>1, <1>2
<1> QED
  BY <1>2, <1>3 DEF Binding, Doc, Documents, Bindings, Range

\* The answers that were asked for stay what they were asked for.
Extends(p) ==
  /\ Len(answers[p]) <= Len(answers'[p])
  /\ \A i \in 1 .. Len(answers[p]) : answers'[p][i].document = answers[p][i].document

\* Answers that are added or delivered disturb no work.
LEMMA ServedStays ==
  ASSUME ReplayInv, NEW p \in Processes, Extends(p), answers'[p] \in Seq(AnswerRecord), trace' = trace,
         at'[p] = at[p], cache'[p] = cache[p], works'[p] = works[p]
  PROVE  ServedRight(p)'
<1>1. ServedRight(p) /\ answers[p] \in Seq(AnswerRecord)
  BY DEF ReplayInv, ProcessRight, ReplayTypes
<1> DEFINE ServesNext(i, b) == i \in 1 .. Len(answers'[p]) /\ answers'[p][i].document = Document[b]
<1>2. ASSUME NEW i, NEW b, Serves(p, i, b) PROVE ServesNext(i, b)
  BY <1>1, <1>2 DEF Serves, Extends
<1>3. \A n \in 1 .. Len(cache[p]) : ServesNext(cache[p][n][2], cache[p][n][1])
  BY <1>1, <1>2 DEF ServedRight
<1>4. \A n \in 1 .. Len(works[p]) : ServesNext(works[p][n], trace[n])
  BY <1>1, <1>2 DEF ServedRight
<1> QED
  BY <1>1, <1>3, <1>4 DEF ServedRight, Serves

\* Take: the work and its binding get the answer of their document; an entry that
\* leaves the FIFO takes nothing away.
LEMMA TakeServes ==
  ASSUME ReplayInv, NEW p \in Processes, at[p] <= Len(trace), NEW j \in Nat, Take(p, j), Extends(p), answers'[p] \in Seq(AnswerRecord),
         j \in 1 .. Len(answers'[p]), answers'[p][j].document = Doc(p), trace' = trace
  PROVE  /\ ServedRight(p)' /\ at'[p] = at[p] + 1
         /\ at' \in [Processes -> Nat] /\ cache' \in [Processes -> Seq(Bindings \X Nat)] /\ works' \in [Processes -> Seq(Nat)]
         /\ \A q \in Processes \ {p} : at'[q] = at[q] /\ cache'[q] = cache[q] /\ works'[q] = works[q]
<1>1. /\ ServedRight(p) /\ answers[p] \in Seq(AnswerRecord) /\ works[p] \in Seq(Nat) /\ cache[p] \in Seq(Bindings \X Nat)
      /\ at \in [Processes -> Nat] /\ works \in [Processes -> Seq(Nat)] /\ cache \in [Processes -> Seq(Bindings \X Nat)]
  BY DEF ReplayInv, ProcessRight, ReplayTypes
<1>2. Binding(p) \in Bindings /\ at[p] \in 1 .. Len(trace) /\ Binding(p) = trace[at[p]] /\ Doc(p) = Document[Binding(p)]
  BY NextWork DEF Doc
<1> DEFINE ServesNext(i, b) == i \in 1 .. Len(answers'[p]) /\ answers'[p][i].document = Document[b]
           taken == Append(works[p], j)
           entry == <<Binding(p), j>>
           kept == IF Len(cache[p]) = Capacity THEN Tail(cache[p]) ELSE cache[p]
           fifo == IF CacheHits(p) /= {} THEN cache[p] ELSE Append(kept, entry)
<1>3. ASSUME NEW i, NEW b, Serves(p, i, b) PROVE ServesNext(i, b)
  BY <1>1, <1>3 DEF Serves, Extends
<1>4. ServesNext(j, Binding(p))
  BY <1>2
<1>5. \A n \in 1 .. Len(cache[p]) : ServesNext(cache[p][n][2], cache[p][n][1])
  BY <1>1, <1>3 DEF ServedRight
<1>6. \A n \in 1 .. Len(works[p]) : ServesNext(works[p][n], trace[n])
  BY <1>1, <1>3 DEF ServedRight
<1>7. entry \in Bindings \X Nat /\ entry[2] = j /\ entry[1] = Binding(p)
  BY <1>2
<1>8. works' = [works EXCEPT ![p] = taken] /\ cache' = [cache EXCEPT ![p] = fifo] /\ at' = [at EXCEPT ![p] = at[p] + 1]
  BY DEF Take
<1> HIDE DEF ServesNext, entry
<1>9. taken \in Seq(Nat) /\ Len(taken) = Len(works[p]) + 1 /\ \A n \in 1 .. Len(taken) : ServesNext(taken[n], trace[n])
  <2>1. at[p] = Len(works[p]) + 1 /\ trace[at[p]] = Binding(p)
    BY <1>1, <1>2 DEF ServedRight
  <2>2. taken \in Seq(Nat) /\ Len(taken) = Len(works[p]) + 1 /\ taken[Len(works[p]) + 1] = j
        /\ \A n \in 1 .. Len(works[p]) : taken[n] = works[p][n]
    BY <1>1
  <2>3. ASSUME NEW n \in 1 .. Len(taken) PROVE ServesNext(taken[n], trace[n])
    <3>1. n \in 1 .. Len(works[p]) \/ n = Len(works[p]) + 1
      <4>1. Len(taken) = Len(works[p]) + 1 /\ Len(works[p]) \in Nat
        BY <1>1, <2>2
      <4> HIDE DEF taken
      <4> QED
        BY <4>1
    <3> QED
      BY <1>4, <1>6, <2>1, <2>2, <3>1
  <2> QED
    BY <2>2, <2>3
<1>10. kept \in Seq(Bindings \X Nat) /\ \A n \in 1 .. Len(kept) : ServesNext(kept[n][2], kept[n][1])
  <2>1. CASE Len(cache[p]) = Capacity
    <3>1. kept = Tail(cache[p]) /\ Len(cache[p]) > 0
      BY <2>1, LocalReplayAssumption
    <3>2. kept \in Seq(Bindings \X Nat) /\ Len(kept) = Len(cache[p]) - 1 /\ \A n \in 1 .. Len(kept) : kept[n] = cache[p][n + 1]
      BY <1>1, <3>1
    <3>3. \A n \in 1 .. Len(kept) : n + 1 \in 1 .. Len(cache[p])
      BY <1>1, <3>2
    <3> HIDE DEF kept
    <3> QED
      BY <1>5, <3>2, <3>3
  <2>2. CASE Len(cache[p]) # Capacity
    BY <1>1, <1>5, <2>2
  <2> QED
    BY <2>1, <2>2
<1>11. fifo \in Seq(Bindings \X Nat) /\ \A n \in 1 .. Len(fifo) : ServesNext(fifo[n][2], fifo[n][1])
  <2> HIDE DEF kept
  <2> DEFINE longer == Append(kept, entry)
  <2>1. longer \in Seq(Bindings \X Nat) /\ Len(longer) = Len(kept) + 1 /\ longer[Len(kept) + 1] = entry
        /\ \A n \in 1 .. Len(kept) : longer[n] = kept[n]
    BY <1>7, <1>10
  <2>2. ASSUME NEW n \in 1 .. Len(longer) PROVE ServesNext(longer[n][2], longer[n][1])
    <3>1. n \in 1 .. Len(kept) \/ n = Len(kept) + 1
      BY <1>10, <2>1
    <3> HIDE DEF longer
    <3> QED
      BY <1>4, <1>7, <1>10, <2>1, <3>1
  <2>3. fifo = cache[p] \/ fifo = longer
    OBVIOUS
  <2> HIDE DEF longer, fifo
  <2> QED
    BY <1>1, <1>5, <2>1, <2>2, <2>3
<1> HIDE DEF taken, fifo
<1>12. /\ at'[p] = at[p] + 1 /\ works'[p] = taken /\ cache'[p] = fifo
       /\ at' \in [Processes -> Nat] /\ cache' \in [Processes -> Seq(Bindings \X Nat)] /\ works' \in [Processes -> Seq(Nat)]
       /\ \A q \in Processes \ {p} : at'[q] = at[q] /\ cache'[q] = cache[q] /\ works'[q] = works[q]
  BY SMTT(40), <1>1, <1>8, <1>9, <1>11
<1>13. at'[p] = Len(taken) + 1 /\ Len(taken) <= Len(trace)
  BY <1>1, <1>2, <1>9, <1>12 DEF ServedRight
<1>14. ServedRight(p)'
  BY <1>9, <1>11, <1>12, <1>13 DEF ServedRight, Serves, ServesNext
<1> QED
  BY <1>12, <1>14

\* Rows stay as they are while works are taken.
LEMMA RowsStay ==
  ASSUME ReplayInv, NEW p \in Processes, rows'[p] = rows[p], trace' = trace, at'[p] \in {at[p], at[p] + 1}
  PROVE  RowsRight(p)'
<1>1. RowsRight(p) /\ at[p] \in Nat /\ trace \in Seq(Bindings)
  BY DEF ReplayInv, ProcessRight, ReplayTypes
<1> QED
  BY <1>1 DEF RowsRight

\* One more answer, right if it is there: from the model, or a future of the pool
LEMMA AnswerAdded ==
  ASSUME ReplayInv, NEW p \in Processes, NEW a \in AnswerRecord, a.done => a.value = Estimate[a.document],
         answers' = [answers EXCEPT ![p] = Append(@, a)]
  PROVE  /\ answers' \in [Processes -> Seq(AnswerRecord)] /\ \A q \in Processes \ {p} : answers'[q] = answers[q]
         /\ Extends(p) /\ AnswersRight(p)' /\ Len(answers'[p]) = Len(answers[p]) + 1 /\ answers'[p][Len(answers[p]) + 1] = a
<1>1. answers \in [Processes -> Seq(AnswerRecord)] /\ answers[p] \in Seq(AnswerRecord) /\ AnswersRight(p)
  BY DEF ReplayInv, ProcessRight, ReplayTypes
<1> DEFINE longer == Append(answers[p], a)
<1>2. longer \in Seq(AnswerRecord) /\ Len(longer) = Len(answers[p]) + 1 /\ longer[Len(answers[p]) + 1] = a
      /\ \A i \in 1 .. Len(answers[p]) : longer[i] = answers[p][i]
  BY <1>1
<1>3. answers' = [answers EXCEPT ![p] = longer]
  OBVIOUS
<1> HIDE DEF longer
<1>4. answers' \in [Processes -> Seq(AnswerRecord)] /\ answers'[p] = longer /\ \A q \in Processes \ {p} : answers'[q] = answers[q]
  BY <1>1, <1>2, <1>3
<1>5. Extends(p)
  BY <1>1, <1>2, <1>4 DEF Extends
<1>6. AnswersRight(p)'
  <2>1. ASSUME NEW i \in 1 .. Len(longer), longer[i].done PROVE longer[i].value = Estimate[longer[i].document]
    <3>1. i \in 1 .. Len(answers[p]) \/ i = Len(answers[p]) + 1
      BY <1>1, <1>2
    <3> QED
      BY <1>1, <1>2, <2>1, <3>1 DEF AnswersRight
  <2> QED
    BY <1>4, <2>1 DEF AnswersRight
<1> QED
  BY <1>2, <1>4, <1>5, <1>6

\* An answer of the same document in place of one that was there
LEMMA AnswerChanged ==
  ASSUME ReplayInv, NEW p \in Processes, NEW i \in 1 .. Len(answers[p]), NEW a \in AnswerRecord,
         a.document = answers[p][i].document, a.done => a.value = Estimate[a.document],
         answers' = [answers EXCEPT ![p] = [answers[p] EXCEPT ![i] = a]]
  PROVE  /\ answers' \in [Processes -> Seq(AnswerRecord)] /\ \A q \in Processes \ {p} : answers'[q] = answers[q]
         /\ Extends(p) /\ AnswersRight(p)' /\ Len(answers'[p]) = Len(answers[p])
<1>1. answers \in [Processes -> Seq(AnswerRecord)] /\ answers[p] \in Seq(AnswerRecord) /\ AnswersRight(p)
  BY DEF ReplayInv, ProcessRight, ReplayTypes
<1> DEFINE new == [answers[p] EXCEPT ![i] = a]
<1>2. new \in Seq(AnswerRecord) /\ Len(new) = Len(answers[p]) /\ new[i] = a
      /\ \A j \in 1 .. Len(answers[p]) : j # i => new[j] = answers[p][j]
  BY <1>1
<1>3. answers' = [answers EXCEPT ![p] = new]
  OBVIOUS
<1> HIDE DEF new
<1>4. answers' \in [Processes -> Seq(AnswerRecord)] /\ answers'[p] = new /\ \A q \in Processes \ {p} : answers'[q] = answers[q]
  BY <1>1, <1>2, <1>3
<1>5. Extends(p)
  BY <1>1, <1>2, <1>4 DEF Extends
<1>6. AnswersRight(p)'
  BY <1>1, <1>2, <1>4 DEF AnswersRight
<1> QED
  BY <1>2, <1>4, <1>5, <1>6

\* store(): a row that is written is the model's answer.
LEMMA PersistKeeps == ASSUME TaskRows, NEW p, NEW d \in Documents, Persist(p, d) PROVE TaskRows'
<1>1. tasks' = tasks \/ tasks' = [tasks EXCEPT ![d] = Complete(d)]
  BY DEF Persist, Stored
<1> QED
  BY <1>1 DEF TaskRows, Complete, Damaged

\* The pool gets a document, or the process estimates it itself.
LEMMA AskInv ==
  ASSUME ReplayInv, NEW p \in Processes, at[p] <= Len(trace), Ask(p), UNCHANGED <<trace, rows>>, TaskRows'
  PROVE  ReplayInv'
<1>1. /\ Doc(p) \in Documents /\ pc \in [Processes -> {"PARSE", "STORE", "QUARANTINE", "CHECK", "PUBLISHED", "FAILED", "DOWN"}]
      /\ at[p] \in Nat /\ answers[p] \in Seq(AnswerRecord)
  BY NextWork DEF ReplayInv, ReplayTypes
<1>2. CASE p \in Pooled
  <2> DEFINE a == Answer(Doc(p), None, FALSE, FALSE)
             j == Len(answers[p]) + 1
  <2>1. a \in AnswerRecord /\ ~a.done /\ a.document = Doc(p)
    BY <1>1 DEF Answer, AnswerRecord, Values
  <2>2. answers' = [answers EXCEPT ![p] = Append(@, a)] /\ pc' = [pc EXCEPT ![p] = "PARSE"] /\ Take(p, j)
    BY <1>2 DEF Ask
  <2> HIDE DEF a
  <2>3. /\ answers' \in [Processes -> Seq(AnswerRecord)] /\ \A q \in Processes \ {p} : answers'[q] = answers[q]
        /\ Extends(p) /\ AnswersRight(p)' /\ Len(answers'[p]) = j /\ answers'[p][j] = a
    BY <2>1, <2>2, AnswerAdded
  <2>4. j \in Nat /\ j \in 1 .. Len(answers'[p]) /\ answers'[p] \in Seq(AnswerRecord) /\ answers'[p][j].document = Doc(p)
    BY <1>1, <2>1, <2>3
  <2> HIDE DEF j
  <2>5. /\ ServedRight(p)' /\ at'[p] = at[p] + 1
        /\ at' \in [Processes -> Nat] /\ cache' \in [Processes -> Seq(Bindings \X Nat)] /\ works' \in [Processes -> Seq(Nat)]
        /\ \A q \in Processes \ {p} : at'[q] = at[q] /\ cache'[q] = cache[q] /\ works'[q] = works[q]
    BY <2>2, <2>3, <2>4, TakeServes
  <2>6. /\ pc' \in [Processes -> {"PARSE", "STORE", "QUARANTINE", "CHECK", "PUBLISHED", "FAILED", "DOWN"}]
        /\ pc'[p] = "PARSE" /\ \A q \in Processes \ {p} : pc'[q] = pc[q]
    BY <1>1, <2>2
  <2>7. OwnReplayStep(p) /\ ReplayTypes'
    BY <2>3, <2>5, <2>6 DEF OwnReplayStep, ReplayInv, ReplayTypes
  <2>8. RowsRight(p)' /\ PhaseRight(p)'
    BY <2>5, <2>6, RowsStay DEF PhaseRight
  <2> QED
    BY <2>3, <2>5, <2>7, <2>8, ReplayProcessStep
<1>3. CASE p \notin Pooled
  <2> DEFINE a == Answer(Doc(p), Estimate[Doc(p)], TRUE, FALSE)
  <2>1. a \in AnswerRecord /\ a.value = Estimate[a.document] /\ a.document = Doc(p)
    BY <1>1 DEF Answer, AnswerRecord, Values
  <2>2. /\ answers' = [answers EXCEPT ![p] = Append(@, a)] /\ UNCHANGED <<at, cache, works>>
        /\ pc' = [pc EXCEPT ![p] = IF Doc(p) \in Rejected THEN "FAILED" ELSE "STORE"]
    BY <1>3 DEF Ask
  <2> HIDE DEF a
  <2>3. /\ answers' \in [Processes -> Seq(AnswerRecord)] /\ \A q \in Processes \ {p} : answers'[q] = answers[q]
        /\ Extends(p) /\ AnswersRight(p)' /\ Len(answers'[p]) = Len(answers[p]) + 1 /\ answers'[p][Len(answers[p]) + 1] = a
    BY <2>1, <2>2, AnswerAdded
  <2>4. ServedRight(p)'
    BY <2>2, <2>3, ServedStays
  <2>5. /\ pc' \in [Processes -> {"PARSE", "STORE", "QUARANTINE", "CHECK", "PUBLISHED", "FAILED", "DOWN"}]
        /\ pc'[p] \in {"FAILED", "STORE"} /\ \A q \in Processes \ {p} : pc'[q] = pc[q]
    BY <1>1, <2>2
  <2>6. OwnReplayStep(p) /\ ReplayTypes'
    BY <2>2, <2>3, <2>5 DEF OwnReplayStep, ReplayInv, ReplayTypes
  <2>7. RowsRight(p)'
    BY <2>2, RowsStay
  <2>8. PhaseRight(p)'
    <3>1. Len(answers'[p]) > 0 /\ answers'[p][Len(answers'[p])].document = Doc(p)
      BY <1>1, <2>1, <2>3
    <3>2. Doc(p)' = Doc(p)
      BY <2>2 DEF Doc, Binding
    <3> QED
      BY <2>2, <2>5, <3>1, <3>2 DEF PhaseRight
  <2> QED
    BY <2>3, <2>4, <2>6, <2>7, <2>8, ReplayProcessStep
<1> QED
  BY <1>2, <1>3

\* A binding that is in the FIFO has the answer of its document.
LEMMA HitBindingInv == ASSUME ReplayInv, NEW p \in Processes, HitBinding(p) PROVE ReplayInv'
<1>1. /\ pc[p] = "PARSE" /\ at[p] <= Len(trace) /\ UNCHANGED <<tasks, pc, answers, rows, trace>>
      /\ answers[p] \in Seq(AnswerRecord) /\ AnswersRight(p) /\ at[p] \in Nat
  BY DEF HitBinding, ReplayInv, ReplayTypes, ProcessRight
<1>2. PICK n \in CacheHits(p) : Take(p, cache[p][n][2])
  BY DEF HitBinding
<1> DEFINE j == cache[p][n][2]
<1>3. n \in 1 .. Len(cache[p]) /\ cache[p][n][1] = Binding(p)
  BY DEF CacheHits, ReplayInv, ReplayTypes
<1>4. Serves(p, j, Binding(p))
  BY <1>3 DEF ReplayInv, ProcessRight, ServedRight
<1>5. j \in Nat /\ j \in 1 .. Len(answers'[p]) /\ answers'[p][j].document = Doc(p) /\ answers'[p] \in Seq(AnswerRecord) /\ Extends(p)
  BY <1>1, <1>4 DEF Serves, Doc, Extends
<1> HIDE DEF j
<1>6. Take(p, j)
  BY <1>2 DEF j
<1>7. /\ ServedRight(p)' /\ at'[p] = at[p] + 1
      /\ at' \in [Processes -> Nat] /\ cache' \in [Processes -> Seq(Bindings \X Nat)] /\ works' \in [Processes -> Seq(Nat)]
      /\ \A q \in Processes \ {p} : at'[q] = at[q] /\ cache'[q] = cache[q] /\ works'[q] = works[q]
  BY <1>1, <1>5, <1>6, TakeServes
<1>8. OwnReplayStep(p) /\ ReplayTypes'
  BY <1>1, <1>7 DEF OwnReplayStep, ReplayInv, ReplayTypes
<1>9. TaskRows' /\ AnswersRight(p)' /\ PhaseRight(p)'
  BY <1>1 DEF ReplayInv, TaskRows, AnswersRight, PhaseRight
<1>10. RowsRight(p)'
  BY <1>1, <1>7, RowsStay
<1> QED
  BY <1>7, <1>8, <1>9, <1>10, ReplayProcessStep

\* lookup(): a row that passes the comparisons is the model's answer.
LEMMA LookupInv == ASSUME ReplayInv, NEW p \in Processes, Lookup(p) PROVE ReplayInv'
<1> DEFINE row == IF p \in Cached THEN tasks[Doc(p)] ELSE None
<1>1. /\ pc[p] = "PARSE" /\ at[p] <= Len(trace) /\ UNCHANGED <<tasks, rows, trace>> /\ Doc(p) \in Documents
      /\ answers[p] \in Seq(AnswerRecord) /\ AnswersRight(p) /\ at[p] \in Nat
      /\ pc \in [Processes -> {"PARSE", "STORE", "QUARANTINE", "CHECK", "PUBLISHED", "FAILED", "DOWN"}]
  BY NextWork DEF Lookup, ReplayInv, ReplayTypes, ProcessRight
<1>2. TaskRows'
  BY <1>1 DEF ReplayInv, TaskRows
<1>3. CASE row = None
  <2>1. Ask(p)
    BY <1>3 DEF Lookup
  <2> QED
    BY <1>1, <1>2, <2>1, AskInv
<1>4. CASE row # None /\ RowOK(row)
  <2> DEFINE a == Answer(Doc(p), row.value, TRUE, TRUE)
             j == Len(answers[p]) + 1
  <2>1. row = Complete(Doc(p))
    <3>1. row \in {Complete(Doc(p)), Damaged(Doc(p))}
      BY <1>1, <1>4 DEF ReplayInv, TaskRows
    <3> HIDE DEF row
    <3>2. Damaged(Doc(p)).ok = FALSE
      BY DEF Damaged
    <3> QED
      BY <1>4, <3>1, <3>2 DEF RowOK
  <2>2. row.value = Estimate[Doc(p)]
    BY <2>1 DEF Complete
  <2> HIDE DEF row
  <2>3. a \in AnswerRecord /\ a.value = Estimate[a.document] /\ a.document = Doc(p)
    BY <1>1, <2>2 DEF Answer, AnswerRecord, Values
  <2>4. answers' = [answers EXCEPT ![p] = Append(@, a)] /\ Take(p, j) /\ pc' = pc
    BY <1>4 DEF Lookup, row
  <2> HIDE DEF a
  <2>5. /\ answers' \in [Processes -> Seq(AnswerRecord)] /\ \A q \in Processes \ {p} : answers'[q] = answers[q]
        /\ Extends(p) /\ AnswersRight(p)' /\ Len(answers'[p]) = j /\ answers'[p][j] = a
    BY <2>3, <2>4, AnswerAdded
  <2>6. j \in Nat /\ j \in 1 .. Len(answers'[p]) /\ answers'[p] \in Seq(AnswerRecord) /\ answers'[p][j].document = Doc(p)
    BY <1>1, <2>3, <2>5
  <2> HIDE DEF j
  <2>7. /\ ServedRight(p)' /\ at'[p] = at[p] + 1
        /\ at' \in [Processes -> Nat] /\ cache' \in [Processes -> Seq(Bindings \X Nat)] /\ works' \in [Processes -> Seq(Nat)]
        /\ \A q \in Processes \ {p} : at'[q] = at[q] /\ cache'[q] = cache[q] /\ works'[q] = works[q]
    BY <1>1, <2>4, <2>5, <2>6, TakeServes
  <2>8. OwnReplayStep(p) /\ ReplayTypes'
    BY <1>1, <2>4, <2>5, <2>7 DEF OwnReplayStep, ReplayInv, ReplayTypes
  <2>9. RowsRight(p)' /\ PhaseRight(p)'
    BY <1>1, <2>4, <2>7, RowsStay DEF PhaseRight
  <2> QED
    BY <1>2, <2>5, <2>7, <2>8, <2>9, ReplayProcessStep
<1>5. CASE row # None /\ ~RowOK(row)
  <2>1. pc' = [pc EXCEPT ![p] = "QUARANTINE"] /\ UNCHANGED <<at, cache, answers, works>>
    BY <1>5 DEF Lookup
  <2>2. /\ pc' \in [Processes -> {"PARSE", "STORE", "QUARANTINE", "CHECK", "PUBLISHED", "FAILED", "DOWN"}]
        /\ pc'[p] = "QUARANTINE" /\ \A q \in Processes \ {p} : pc'[q] = pc[q]
    BY <1>1, <2>1
  <2>3. OwnReplayStep(p) /\ ReplayTypes'
    BY <1>1, <2>1, <2>2 DEF OwnReplayStep, ReplayInv, ReplayTypes
  <2>4. Extends(p)
    BY <1>1, <2>1 DEF Extends
  <2>5. ServedRight(p)'
    BY <1>1, <2>1, <2>4, ServedStays
  <2>6. AnswersRight(p)' /\ PhaseRight(p)'
    BY <1>1, <2>1, <2>2 DEF AnswersRight, PhaseRight
  <2>7. RowsRight(p)'
    BY <1>1, <2>1, RowsStay
  <2> QED
    BY <1>2, <2>3, <2>5, <2>6, <2>7, ReplayProcessStep
<1> QED
  BY <1>3, <1>4, <1>5

\* A row that was found bad is removed, and the model is asked.
LEMMA QuarantineInv == ASSUME ReplayInv, NEW p \in Processes, Quarantine(p) PROVE ReplayInv'
<1>1. pc[p] = "QUARANTINE" /\ Ask(p) /\ UNCHANGED <<rows, trace>> /\ tasks' = [tasks EXCEPT ![Doc(p)] = None]
  BY DEF Quarantine
<1>2. at[p] <= Len(trace)
  BY <1>1 DEF ReplayInv, ProcessRight, PhaseRight
<1>3. TaskRows'
  BY <1>1 DEF ReplayInv, TaskRows, Complete, Damaged
<1> QED
  BY <1>1, <1>2, <1>3, AskInv

\* An answer with its future set or its callback run is an answer to the same
\* document.
LEMMA AnswerFields ==
  ASSUME NEW a \in AnswerRecord
  PROVE  /\ [a EXCEPT !.called = TRUE] \in AnswerRecord /\ [a EXCEPT !.called = TRUE].document = a.document
         /\ [a EXCEPT !.called = TRUE].done = a.done /\ [a EXCEPT !.called = TRUE].value = a.value
         /\ [a EXCEPT !.done = TRUE, !.value = Estimate[a.document]] \in AnswerRecord
         /\ [a EXCEPT !.done = TRUE, !.value = Estimate[a.document]].document = a.document
         /\ [a EXCEPT !.done = TRUE, !.value = Estimate[a.document]].value = Estimate[a.document]
<1>1. a.document \in Documents /\ Estimate[a.document] \in Values
  BY DEF AnswerRecord, Values
<1> QED
  BY <1>1 DEF AnswerRecord

\* The serial replay stores the answer it has just got and takes it.
LEMMA StoreInv == ASSUME ReplayInv, NEW p \in Processes, Store(p) PROVE ReplayInv'
<1> DEFINE j == Len(answers[p])
           a == answers[p][j]
           new == [a EXCEPT !.called = TRUE]
<1>1. /\ pc[p] = "STORE" /\ pc' = [pc EXCEPT ![p] = "PARSE"] /\ Take(p, j) /\ UNCHANGED <<rows, trace>>
      /\ answers' = [answers EXCEPT ![p][j].called = TRUE]
      /\ IF p \in Cached THEN Persist(p, Doc(p)) ELSE UNCHANGED <<tasks, errors>>
  BY DEF Store
<1>2. /\ at[p] <= Len(trace) /\ j > 0 /\ a.document = Doc(p) /\ answers[p] \in Seq(AnswerRecord) /\ answers \in [Processes -> Seq(AnswerRecord)]
      /\ AnswersRight(p) /\ at[p] \in Nat
      /\ pc \in [Processes -> {"PARSE", "STORE", "QUARANTINE", "CHECK", "PUBLISHED", "FAILED", "DOWN"}]
  BY <1>1 DEF ReplayInv, ReplayTypes, ProcessRight, PhaseRight
<1>3. j \in 1 .. Len(answers[p]) /\ a \in AnswerRecord /\ j \in Nat
  BY <1>2
<1>4. answers' = [answers EXCEPT ![p] = [answers[p] EXCEPT ![j] = new]]
  BY <1>1, <1>2, <1>3
<1>5. new \in AnswerRecord /\ new.document = a.document /\ new.done = a.done /\ new.value = a.value
  BY <1>3, AnswerFields
<1>6. new.done => new.value = Estimate[new.document]
  BY <1>2, <1>3, <1>5 DEF AnswersRight
<1> HIDE DEF new
<1>7. /\ answers' \in [Processes -> Seq(AnswerRecord)] /\ \A q \in Processes \ {p} : answers'[q] = answers[q]
      /\ Extends(p) /\ AnswersRight(p)' /\ Len(answers'[p]) = Len(answers[p])
  BY <1>3, <1>4, <1>5, <1>6, AnswerChanged
<1>8. j \in 1 .. Len(answers'[p]) /\ answers'[p][j].document = Doc(p) /\ answers'[p] \in Seq(AnswerRecord)
  BY <1>2, <1>3, <1>7 DEF Extends
<1> HIDE DEF j, a
<1>9. /\ ServedRight(p)' /\ at'[p] = at[p] + 1
      /\ at' \in [Processes -> Nat] /\ cache' \in [Processes -> Seq(Bindings \X Nat)] /\ works' \in [Processes -> Seq(Nat)]
      /\ \A q \in Processes \ {p} : at'[q] = at[q] /\ cache'[q] = cache[q] /\ works'[q] = works[q]
  BY <1>1, <1>2, <1>3, <1>7, <1>8, TakeServes
<1>10. /\ pc' \in [Processes -> {"PARSE", "STORE", "QUARANTINE", "CHECK", "PUBLISHED", "FAILED", "DOWN"}]
       /\ pc'[p] = "PARSE" /\ \A q \in Processes \ {p} : pc'[q] = pc[q]
  BY <1>1, <1>2
<1>11. OwnReplayStep(p) /\ ReplayTypes'
  BY <1>1, <1>7, <1>9, <1>10 DEF OwnReplayStep, ReplayInv, ReplayTypes
<1>12. TaskRows'
  <2>1. Doc(p) \in Documents /\ TaskRows
    BY <1>2, NextWork DEF ReplayInv
  <2>2. CASE p \in Cached
    BY <1>1, <2>1, <2>2, PersistKeeps
  <2>3. CASE p \notin Cached
    BY <1>1, <2>1, <2>3 DEF TaskRows
  <2> QED
    BY <2>2, <2>3
<1>13. RowsRight(p)' /\ PhaseRight(p)'
  BY <1>1, <1>9, <1>10, RowsStay DEF PhaseRight
<1> QED
  BY <1>7, <1>9, <1>11, <1>12, <1>13, ReplayProcessStep

\* A pool worker or the completion thread touches one answer, at any time, also
\* after the process has failed.
LEMMA AnswerStep ==
  ASSUME ReplayInv, NEW p \in Processes, NEW i \in 1 .. Len(answers[p]), NEW new \in AnswerRecord,
         new.document = answers[p][i].document, new.done => new.value = Estimate[new.document],
         answers' = [answers EXCEPT ![p] = [answers[p] EXCEPT ![i] = new]], TaskRows',
         UNCHANGED <<pc, trace, at, cache, works, rows>>
  PROVE  ReplayInv'
<1>1. /\ answers' \in [Processes -> Seq(AnswerRecord)] /\ \A q \in Processes \ {p} : answers'[q] = answers[q]
      /\ Extends(p) /\ AnswersRight(p)' /\ Len(answers'[p]) = Len(answers[p])
  BY AnswerChanged
<1>2. ServedRight(p)'
  BY <1>1, ServedStays
<1>3. RowsRight(p)'
  BY RowsStay
<1>4. PhaseRight(p)'
  <2>1. PhaseRight(p) /\ answers[p] \in Seq(AnswerRecord)
    BY DEF ReplayInv, ReplayTypes, ProcessRight
  <2>2. Doc(p)' = Doc(p)
    BY DEF Doc, Binding
  <2>3. pc[p] = "STORE" => Len(answers'[p]) > 0 /\ answers'[p][Len(answers'[p])].document = Doc(p)
    BY <1>1, <2>1 DEF PhaseRight, Extends
  <2> QED
    BY <2>1, <2>2, <2>3 DEF PhaseRight
<1>5. OwnReplayStep(p) /\ ReplayTypes'
  BY <1>1 DEF OwnReplayStep, ReplayInv, ReplayTypes
<1> QED
  BY <1>1, <1>2, <1>3, <1>4, <1>5, ReplayProcessStep

\* The future of an answer is set with what the model says of its document.
LEMMA DeliverInv == ASSUME ReplayInv, NEW p \in Processes, NEW i \in DOMAIN answers[p], Deliver(p, i) PROVE ReplayInv'
<1> DEFINE a == answers[p][i]
           e == Estimate[a.document]
           new == [a EXCEPT !.done = TRUE, !.value = e]
<1>1. answers[p] \in Seq(AnswerRecord) /\ answers \in [Processes -> Seq(AnswerRecord)] /\ TaskRows
  BY DEF ReplayInv, ReplayTypes
<1>2. i \in 1 .. Len(answers[p]) /\ a \in AnswerRecord
  BY <1>1
<1>3. /\ answers' = [answers EXCEPT ![p][i].done = TRUE, ![p][i].value = e]
      /\ UNCHANGED <<tasks, pc, trace, at, cache, works, rows>>
  BY DEF Deliver, private
<1>4. answers' = [answers EXCEPT ![p] = [answers[p] EXCEPT ![i] = new]]
  <2> DEFINE one == [answers EXCEPT ![p] = [answers[p] EXCEPT ![i] = [a EXCEPT !.done = TRUE]]]
  <2>1. answers' = [one EXCEPT ![p] = [one[p] EXCEPT ![i] = [one[p][i] EXCEPT !.value = e]]]
    BY <1>3
  <2>2. one[p] = [answers[p] EXCEPT ![i] = [a EXCEPT !.done = TRUE]] /\ one[p][i] = [a EXCEPT !.done = TRUE]
    BY <1>1, <1>2
  <2>3. [one[p][i] EXCEPT !.value = e] = new
    BY <1>2, <2>2 DEF AnswerRecord
  <2> HIDE DEF new, e, a
  <2>4. [one[p] EXCEPT ![i] = new] = [answers[p] EXCEPT ![i] = new]
    BY <1>1, <1>2, <2>2
  <2>5. answers' = [one EXCEPT ![p] = [answers[p] EXCEPT ![i] = new]]
    BY <2>1, <2>3, <2>4
  <2> QED
    BY <1>1, <2>5
<1>5. new \in AnswerRecord /\ new.document = a.document /\ new.value = Estimate[a.document]
  BY <1>2, AnswerFields
<1>6. TaskRows'
  BY <1>1, <1>3 DEF TaskRows
<1>7. new.document = answers[p][i].document /\ (new.done => new.value = Estimate[new.document]) /\ UNCHANGED <<pc, trace, at, cache, works, rows>>
  BY <1>3, <1>5
<1> HIDE DEF new
<1> QED
  BY <1>2, <1>4, <1>5, <1>6, <1>7, AnswerStep

\* The done callback stores the answer or remembers the failure.
LEMMA CallbackInv == ASSUME ReplayInv, NEW p \in Processes, NEW i \in DOMAIN answers[p], Callback(p, i) PROVE ReplayInv'
<1> DEFINE a == answers[p][i]
           new == [a EXCEPT !.called = TRUE]
<1>1. answers[p] \in Seq(AnswerRecord) /\ answers \in [Processes -> Seq(AnswerRecord)] /\ TaskRows /\ AnswersRight(p)
  BY DEF ReplayInv, ReplayTypes, ProcessRight
<1>2. i \in 1 .. Len(answers[p]) /\ a \in AnswerRecord
  BY <1>1
<1>3. answers' = [answers EXCEPT ![p][i].called = TRUE] /\ Persist(p, a.document) /\ UNCHANGED <<pc, trace, at, cache, works, rows>>
  BY DEF Callback, private
<1>4. answers' = [answers EXCEPT ![p] = [answers[p] EXCEPT ![i] = new]]
  BY <1>1, <1>2, <1>3
<1>5. new \in AnswerRecord /\ new.document = a.document /\ new.done = a.done /\ new.value = a.value
  BY <1>2, AnswerFields
<1>6. new.done => new.value = Estimate[new.document]
  BY <1>1, <1>2, <1>5 DEF AnswersRight
<1>7. TaskRows'
  <2>1. a.document \in Documents
    BY <1>2 DEF AnswerRecord
  <2> QED
    BY <1>1, <1>3, <2>1, PersistKeeps
<1>8. new \in AnswerRecord /\ new.document = answers[p][i].document /\ UNCHANGED <<pc, trace, at, cache, works, rows>>
  BY <1>3, <1>5
<1> HIDE DEF new, a
<1> QED
  BY <1>2, <1>4, <1>6, <1>7, <1>8, AnswerStep

\* Steps of _replay that ask nothing and take nothing
LEMMA QuietReplayStep ==
  ASSUME ReplayInv, NEW p \in Processes, UNCHANGED <<tasks, at, cache, answers, works, trace>>,
         pc' \in [Processes -> {"PARSE", "STORE", "QUARANTINE", "CHECK", "PUBLISHED", "FAILED", "DOWN"}],
         pc'[p] \notin {"STORE", "QUARANTINE"}, rows' \in [Processes -> Seq(Values)],
         pc'[p] \in {"CHECK", "PUBLISHED"} => Len(rows'[p]) = Len(trace),
         \A q \in Processes \ {p} : pc'[q] = pc[q] /\ rows'[q] = rows[q],
         RowsRight(p)'
  PROVE  ReplayInv'
<1>1. TaskRows' /\ AnswersRight(p)'
  BY DEF ReplayInv, ProcessRight, TaskRows, AnswersRight
<1>2. answers'[p] \in Seq(AnswerRecord) /\ Extends(p)
  BY DEF ReplayInv, ReplayTypes, Extends
<1>3. ServedRight(p)'
  BY <1>2, ServedStays
<1>4. PhaseRight(p)'
  BY DEF PhaseRight
<1>5. OwnReplayStep(p) /\ ReplayTypes'
  BY DEF OwnReplayStep, ReplayInv, ReplayTypes
<1> QED
  BY <1>1, <1>3, <1>4, <1>5, ReplayProcessStep

\* The next row is the answer of the next work, once it is there.
LEMMA WriteInv == ASSUME ReplayInv, NEW p \in Processes, Write(p) PROVE ReplayInv'
<1> DEFINE n == Len(rows[p]) + 1
           j == works[p][n]
           answer == answers[p][j]
<1>1. /\ pc[p] = "PARSE" /\ at[p] > Len(trace) /\ Len(rows[p]) < Len(trace) /\ answer.done
      /\ UNCHANGED <<tasks, at, cache, answers, works, trace>>
      /\ \/ answer.document \in Rejected /\ pc' = [pc EXCEPT ![p] = "FAILED"] /\ rows' = rows
         \/ answer.document \notin Rejected /\ rows' = [rows EXCEPT ![p] = Append(@, answer.value)] /\ pc' = pc
  BY DEF Write
<1>2. /\ pc \in [Processes -> {"PARSE", "STORE", "QUARANTINE", "CHECK", "PUBLISHED", "FAILED", "DOWN"}]
      /\ rows \in [Processes -> Seq(Values)] /\ rows[p] \in Seq(Values) /\ works[p] \in Seq(Nat) /\ answers[p] \in Seq(AnswerRecord)
      /\ trace \in Seq(Bindings) /\ AnswersRight(p) /\ ServedRight(p) /\ RowsRight(p) /\ at[p] \in Nat
  BY DEF ReplayInv, ReplayTypes, ProcessRight
<1>3. n \in 1 .. Len(trace) /\ n \in 1 .. Len(works[p])
  BY <1>1, <1>2 DEF ServedRight
<1>4. j \in 1 .. Len(answers[p]) /\ answer.document = Document[trace[n]]
  BY <1>2, <1>3 DEF ServedRight, Serves
<1>5. answer.value = Estimate[Document[trace[n]]] /\ answer \in AnswerRecord
  <2> HIDE DEF n, j
  <2>1. answer.done => answer.value = Estimate[answer.document]
    BY <1>2, <1>4 DEF AnswersRight
  <2>2. answer \in AnswerRecord
    BY <1>2, <1>4
  <2> QED
    BY <1>1, <1>4, <2>1, <2>2
<1>6. answer.value \in Values
  BY <1>5 DEF AnswerRecord
<1> HIDE DEF answer, j
<1>7. CASE answer.document \in Rejected /\ pc' = [pc EXCEPT ![p] = "FAILED"] /\ rows' = rows
  <2>1. RowsRight(p)'
    BY <1>1, <1>7, RowsStay
  <2>2. /\ pc' \in [Processes -> {"PARSE", "STORE", "QUARANTINE", "CHECK", "PUBLISHED", "FAILED", "DOWN"}]
        /\ pc'[p] = "FAILED" /\ \A q \in Processes \ {p} : pc'[q] = pc[q] /\ rows'[q] = rows[q]
    BY <1>2, <1>7
  <2> QED
    BY <1>1, <1>2, <1>7, <2>1, <2>2, QuietReplayStep
<1>8. CASE answer.document \notin Rejected /\ rows' = [rows EXCEPT ![p] = Append(@, answer.value)] /\ pc' = pc
  <2> DEFINE longer == Append(rows[p], answer.value)
  <2>1. longer \in Seq(Values) /\ Len(longer) = n /\ longer[n] = answer.value /\ \A k \in 1 .. Len(rows[p]) : longer[k] = rows[p][k]
    BY <1>2, <1>6
  <2> HIDE DEF longer
  <2>2. rows'[p] = longer /\ rows' \in [Processes -> Seq(Values)] /\ \A q \in Processes \ {p} : rows'[q] = rows[q]
    BY <1>2, <1>8, <2>1 DEF longer
  <2>3. ASSUME NEW k \in 1 .. Len(longer)
        PROVE  longer[k] = Estimate[Document[trace[k]]] /\ Document[trace[k]] \notin Rejected
    <3>1. k \in 1 .. Len(rows[p]) \/ k = n
      BY <1>2, <2>1
    <3>2. CASE k = n
      BY <1>4, <1>5, <1>8, <2>1, <3>2
    <3>3. CASE k \in 1 .. Len(rows[p])
      BY <1>2, <2>1, <3>3 DEF RowsRight
    <3> QED
      BY <3>1, <3>2, <3>3
  <2>4. RowsRight(p)'
    BY <1>1, <1>3, <2>1, <2>2, <2>3 DEF RowsRight
  <2> QED
    BY <1>1, <1>2, <1>8, <2>2, <2>4, QuietReplayStep
<1> QED
  BY <1>1, <1>7, <1>8

\* The cache is closed and the errors are looked at: neither writes a row.
LEMMA EndInv == ASSUME ReplayInv, NEW p \in Processes, Close(p) \/ Check(p) \/ Crash(p) PROVE ReplayInv'
<1>1. /\ UNCHANGED <<tasks, at, cache, answers, works, trace, rows>>
      /\ \E label \in {"CHECK", "PUBLISHED", "FAILED", "DOWN"} : pc' = [pc EXCEPT ![p] = label]
      /\ pc' # [pc EXCEPT ![p] = "FAILED"] /\ pc' # [pc EXCEPT ![p] = "DOWN"] => Len(rows[p]) = Len(trace)
  BY DEF Close, Check, Crash, private, ReplayInv, ProcessRight, PhaseRight
<1>2. PICK label \in {"CHECK", "PUBLISHED", "FAILED", "DOWN"} : pc' = [pc EXCEPT ![p] = label]
  BY <1>1
<1>3. /\ pc \in [Processes -> {"PARSE", "STORE", "QUARANTINE", "CHECK", "PUBLISHED", "FAILED", "DOWN"}] /\ rows \in [Processes -> Seq(Values)]
  BY DEF ReplayInv, ReplayTypes
<1>4. /\ pc' \in [Processes -> {"PARSE", "STORE", "QUARANTINE", "CHECK", "PUBLISHED", "FAILED", "DOWN"}]
      /\ pc'[p] = label /\ \A q \in Processes \ {p} : pc'[q] = pc[q]
  BY <1>2, <1>3
<1>5. label \in {"CHECK", "PUBLISHED"} => Len(rows[p]) = Len(trace)
  BY <1>1, <1>3, <1>4
<1>6. RowsRight(p)'
  BY <1>1, RowsStay
<1> QED
  BY <1>1, <1>3, <1>4, <1>5, <1>6, QuietReplayStep

\* A process that runs again starts from nothing but the tasks table.
LEMMA ResumeInv == ASSUME ReplayInv, NEW p \in Processes, Resume(p) PROVE ReplayInv'
<1>1. /\ UNCHANGED <<tasks, trace>> /\ TaskRows'
      /\ pc' = [pc EXCEPT ![p] = "PARSE"] /\ at' = [at EXCEPT ![p] = 1] /\ cache' = [cache EXCEPT ![p] = << >>]
      /\ answers' = [answers EXCEPT ![p] = << >>] /\ works' = [works EXCEPT ![p] = << >>] /\ rows' = [rows EXCEPT ![p] = << >>]
  BY DEF Resume, Start, ReplayInv, TaskRows
<1>2. /\ pc' \in [Processes -> {"PARSE", "STORE", "QUARANTINE", "CHECK", "PUBLISHED", "FAILED", "DOWN"}] /\ pc'[p] = "PARSE"
      /\ at' \in [Processes -> Nat] /\ at'[p] = 1
      /\ \A q \in Processes \ {p} : pc'[q] = pc[q] /\ at'[q] = at[q]
  BY <1>1 DEF ReplayInv, ReplayTypes
<1>3. /\ cache' \in [Processes -> Seq(Bindings \X Nat)] /\ cache'[p] = << >>
      /\ answers' \in [Processes -> Seq(AnswerRecord)] /\ answers'[p] = << >>
      /\ \A q \in Processes \ {p} : cache'[q] = cache[q] /\ answers'[q] = answers[q]
  BY <1>1, SMTT(40) DEF ReplayInv, ReplayTypes
<1>4. /\ works' \in [Processes -> Seq(Nat)] /\ works'[p] = << >>
      /\ rows' \in [Processes -> Seq(Values)] /\ rows'[p] = << >>
      /\ \A q \in Processes \ {p} : works'[q] = works[q] /\ rows'[q] = rows[q]
  BY <1>1 DEF ReplayInv, ReplayTypes
<1>5. trace' \in Seq(Bindings) /\ Len(trace') \in Nat
  BY <1>1 DEF ReplayInv, ReplayTypes
<1>6. OwnReplayStep(p) /\ ReplayTypes'
  BY <1>1, <1>2, <1>3, <1>4, <1>5 DEF OwnReplayStep, ReplayTypes
<1>7. AnswersRight(p)' /\ ServedRight(p)' /\ RowsRight(p)' /\ PhaseRight(p)'
  BY <1>2, <1>3, <1>4, <1>5 DEF AnswersRight, ServedRight, RowsRight, PhaseRight
<1> QED
  BY <1>1, <1>6, <1>7, ReplayProcessStep

\* Every step of every process keeps it.
LEMMA ReplayStep == ReplayInv /\ [ReplayNext]_replayVars => ReplayInv'
<1> SUFFICES ASSUME ReplayInv, [ReplayNext]_replayVars PROVE ReplayInv'
  OBVIOUS
<1>1. CASE UNCHANGED replayVars
  <2>1. ReplayTypes' /\ TaskRows'
    BY <1>1 DEF ReplayInv, replayVars, ReplayTypes, TaskRows
  <2>2. ASSUME NEW p \in Processes PROVE ProcessRight(p)'
    BY <1>1 DEF ReplayInv, replayVars, ProcessRight, AnswersRight, ServedRight, Serves, RowsRight, PhaseRight, Doc, Binding
  <2> QED
    BY <2>1, <2>2 DEF ReplayInv
<1> QED
  BY <1>1, HitBindingInv, LookupInv, QuarantineInv, StoreInv, DeliverInv, CallbackInv, WriteInv, EndInv, ResumeInv DEF ReplayNext

\* The answers, the FIFO, the works and the rows of every replay hold together in
\* every reachable state of local_replay.py and npu_task_cache.py.
THEOREM ReplayInvariant == ReplaySpec => []ReplayInv
  BY ReplayInitial, ReplayStep, PTL DEF ReplaySpec

\* A published replay holds the cycle model's answer for every work in trace
\* order, whatever the pool, the evictions, damaged rows, other processes and
\* crashes did.
THEOREM ReplayRowsExact == ReplaySpec => []RowsExact
<1>1. ReplayInv => RowsExact
  <2> SUFFICES ASSUME ReplayInv, NEW p \in Processes, pc[p] = "PUBLISHED"
               PROVE  /\ rows[p] = [n \in DOMAIN trace |-> Estimate[Document[trace[n]]]]
                      /\ \A n \in DOMAIN trace : Document[trace[n]] \notin Rejected
    BY DEF RowsExact
  <2>1. /\ rows[p] \in Seq(Values) /\ trace \in Seq(Bindings) /\ Len(rows[p]) = Len(trace)
        /\ \A n \in 1 .. Len(rows[p]) : rows[p][n] = Estimate[Document[trace[n]]] /\ Document[trace[n]] \notin Rejected
    BY DEF ReplayInv, ReplayTypes, ProcessRight, RowsRight, PhaseRight
  <2>2. DOMAIN trace = 1 .. Len(rows[p]) /\ rows[p] \in [1 .. Len(rows[p]) -> Values]
    BY <2>1
  <2> QED
    BY <2>1, <2>2
<1> QED
  BY <1>1, ReplayInvariant, PTL

(***************************************************************************)
(* SequenceTrace: the inductive invariant                                  *)
(***************************************************************************)
TraceRow ==
  [work : TraceIds, offered : Nat, accepted : Nat, result : Nat, scale : Nat, ready : Nat, peak : Nat, cycles : Nat]

ChildSteps ==
  {"VALIDATE", "OPEN", "OFFER", "ADVANCE", "REPORT", "PARTIAL", "RECHECK_LIBRARY", "RECHECK_TRACE", "CANDIDATE", "STATUS", "EXITED"}

\* The child has replayed every work.
Finishing == {"RECHECK_LIBRARY", "RECHECK_TRACE", "CANDIDATE", "STATUS"}

SequenceTypes ==
  /\ source \in [Files -> Nat] /\ used \in [Files -> Nat] /\ seen \in [Files -> Nat]
  /\ child \in ChildSteps
  /\ cursor \in Nat /\ peak \in Nat
  /\ progress \in ProgressFiles \cup {Unset} /\ pending \in CandidateFiles \cup {Unset}
  /\ written \in Seq(TraceRow)
  /\ wd \in {"CHILD", "CANDIDATE", "VERIFIER", "VERIFIED", "PUBLISHER", "RESTORE", "RECEIPT", "DONE"}
  /\ verifier \in {"NONE", "TRACE", "LIBRARY", "DECIDE", "EXIT_0", "EXIT_1", "KILLED"}
  /\ publisher \in {"NONE", "START", "PROGRESS", "COMPARE", "LINK", "LINKED", "EXIT_0", "EXIT_1", "KILLED"}

\* The rows on disk are those of the first works, each offered where the one
\* before it was ready.
RowsReplayed == Len(written) <= Len(Works) /\ \A n \in 1 .. Len(written) : RowValid(n)

\* progress.json counts n of the rows.
Counts(n, cycles) ==
  /\ progress \in ProgressFiles /\ progress.cycles = cycles
  /\ Len(progress.done) = n /\ \A i \in 1 .. n : progress.done[i] = Works[i]

\* The session is where the last row left it.
SessionAt(cycle, tags) ==
  /\ Len(written) = 0 => cycle = 0 /\ tags = 0
  /\ Len(written) > 0 => cycle = written[Len(written)].ready /\ tags = written[Len(written)].peak

\* What the session has answered extends the rows, if its peak is allowed.
Answered ==
  /\ report \in TraceRow /\ report.ready = cursor /\ report.peak = peak
  /\ \E tags \in Nat : SessionAt(report.offered, tags) /\ tags <= report.peak
  /\ report.work = Current /\ report.cycles = report.result - report.accepted

ChildRight ==
  /\ child \in {"VALIDATE", "OPEN"} => written = << >>
  /\ child \in {"OPEN", "OFFER", "ADVANCE", "REPORT"} \cup Finishing => Counts(Len(written), CyclesOf(written))
  /\ child = "PARTIAL" => /\ Len(written) > 0 /\ Counts(Len(written) - 1, progress.cycles)
                          /\ CyclesOf(written) = progress.cycles + written[Len(written)].cycles
  /\ child \in {"VALIDATE", "OPEN", "OFFER", "ADVANCE", "PARTIAL"} => SessionAt(cursor, peak)
  /\ child \in {"ADVANCE", "REPORT"} => Len(written) < Len(Works)
  /\ child = "REPORT" => Answered
  /\ child \in Finishing => /\ Len(written) = Len(Works) /\ progress.active = Unset
                            /\ progress.cursor = written[Len(written)].ready
  /\ child = "STATUS" => pending = [used |-> used, done |-> progress.done, cursor |-> progress.cursor, cycles |-> progress.cycles]

\* What the verifier has checked and nobody changes after it.
Verified ==
  /\ pending /= Unset /\ progress /= Unset
  /\ pending.done = Works /\ Len(written) = Len(Works) /\ pending.used = seen /\ pending.cycles = CyclesOf(written)

\* One process at a time: the watchdog waits for each before it starts the next.
OneAtATime ==
  /\ Alive => wd = "CHILD"
  /\ ~Dead(verifier) => wd = "VERIFIER"
  /\ ~Dead(publisher) => wd = "PUBLISHER"
  /\ wd \in {"CHILD", "CANDIDATE"} => verifier = "NONE"
  /\ wd \in {"CHILD", "CANDIDATE", "VERIFIER", "VERIFIED"} => publisher = "NONE"

CommitRight ==
  /\ publisher /= "NONE" => verifier = "EXIT_0"
  /\ verifier = "EXIT_0" => Verified
  /\ publisher \in {"COMPARE", "LINK"} => progress.status = "TERMINAL"
  /\ publisher = "LINK" => pending = candidate
  /\ result /= Unset => /\ result = candidate /\ result = pending /\ progress.status = "TERMINAL"
                        /\ publisher \in {"LINKED", "EXIT_0", "KILLED"}
  /\ progress /= Unset /\ progress.status = "TERMINAL" /\ result = Unset =>
       publisher /= "NONE" /\ wd \in {"PUBLISHER", "RESTORE"}

SequenceInv ==
  /\ SequenceTypes /\ RowsReplayed /\ ChildRight /\ CandidateVerifiable
  /\ OneAtATime /\ CommitRight /\ ReceiptHonest

----------------------------------------------------------------------------
\* Induction over the natural numbers, from their well-foundedness.
LEMMA LeastNat == ASSUME NEW S \in SUBSET Nat, S # {} PROVE \E n \in S : \A m \in S : n <= m
<1>1. PICK x \in S : \A y \in S : ~(<<y, x>> \in OpToRel(<, Nat))
  BY NatLessThanWellFounded, WFMin, Zenon
<1>2. \A y \in S : ~(y < x)
  <2> TAKE y \in S
  <2>1. y \in Nat /\ x \in Nat
    OBVIOUS
  <2>2. SUFFICES ASSUME y < x PROVE <<y, x>> \in OpToRel(<, Nat)
    BY <1>1, Zenon
  <2> QED
    BY <2>1, <2>2, Zenon DEF OpToRel
<1> QED
  BY <1>2

LEMMA NatSetInduction ==
    ASSUME NEW S \in SUBSET Nat, 0 \in S, \A n \in S : n + 1 \in S
    PROVE  S = Nat
<1> SUFFICES ASSUME S # Nat PROVE FALSE
  OBVIOUS
<1>1. PICK n \in Nat \ S : \A m \in Nat \ S : n <= m
  BY LeastNat
<1> QED
  BY <1>1

\* A sum defined from its last term back to the first exists.
Sums(g, N, w) == g = [n \in 0 .. N |-> IF n = 0 THEN 0 ELSE g[n - 1] + w[n]]

LEMMA SumsExist == ASSUME NEW w PROVE \A N \in Nat : \E g : Sums(g, N, w)
<1> DEFINE S == {N \in Nat : \E g : Sums(g, N, w)}
<1>1. 0 \in S
  <2> DEFINE g == [n \in 0 .. 0 |-> 0]
  <2>1. g = [n \in 0 .. 0 |-> IF n = 0 THEN 0 ELSE g[n - 1] + w[n]]
    OBVIOUS
  <2>2. Sums(g, 0, w)
    BY <2>1 DEF Sums
  <2> QED
    BY <2>2
<1>2. ASSUME NEW N \in S
      PROVE  N + 1 \in S
  <2>1. N \in Nat
    OBVIOUS
  <2>2. PICK g : Sums(g, N, w)
    OBVIOUS
  <2>3. DOMAIN g = 0 .. N /\ \A n \in 0 .. N : g[n] = IF n = 0 THEN 0 ELSE g[n - 1] + w[n]
    BY <2>2 DEF Sums
  <2> DEFINE f == [n \in 0 .. (N + 1) |-> IF n = N + 1 THEN g[N] + w[N + 1] ELSE g[n]]
  <2>4. (\A n \in 0 .. N : f[n] = g[n]) /\ f[N + 1] = g[N] + w[N + 1]
    BY <2>1
  <2>5. ASSUME NEW n \in 0 .. (N + 1)
        PROVE  f[n] = IF n = 0 THEN 0 ELSE f[n - 1] + w[n]
    <3>1. CASE n = N + 1
      <4>1. n # 0 /\ n - 1 = N /\ N \in 0 .. N
        BY <2>1, <3>1
      <4> HIDE DEF f
      <4> QED
        BY <2>4, <3>1, <4>1
    <3>2. CASE n # N + 1
      <4>1. n \in 0 .. N /\ (n # 0 => n - 1 \in 0 .. N)
        BY <2>1, <3>2
      <4> HIDE DEF f
      <4> QED
        BY <2>3, <2>4, <4>1
    <3> QED
      BY <3>1, <3>2
  <2>6. f = [n \in 0 .. (N + 1) |-> IF n = 0 THEN 0 ELSE f[n - 1] + w[n]]
    BY <2>5
  <2>7. Sums(f, N + 1, w)
    <3> HIDE DEF f
    <3> QED
      BY <2>6 DEF Sums
  <2> HIDE DEF f
  <2> QED
    BY <2>1, <2>7
<1>3. S = Nat
  <2> HIDE DEF S
  <2>1. S \in SUBSET Nat
    BY DEF S
  <2> QED
    BY <1>1, <1>2, <2>1, NatSetInduction
<1> QED
  BY <1>3

----------------------------------------------------------------------------
\* CyclesOf is the recursive sum it is written as.
LEMMA CyclesUpTo ==
    ASSUME NEW s \in Seq(TraceRow)
    PROVE  \E f : /\ f[0] = 0 /\ \A n \in 1 .. Len(s) : f[n] = f[n - 1] + s[n].cycles
                  /\ CyclesOf(s) = f[Len(s)]
<1> DEFINE N == Len(s)
           w == [n \in 1 .. N |-> s[n].cycles]
           IsUpTo(f) == f = [n \in 0 .. Len(s) |-> IF n = 0 THEN 0 ELSE f[n - 1] + s[n].cycles]
           upTo == CHOOSE f : IsUpTo(f)
<1>1. CyclesOf(s) = upTo[N] /\ N \in Nat
  BY DEF CyclesOf
<1>2. \E g : IsUpTo(g)
  <2>1. PICK g : Sums(g, N, w)
    BY <1>1, SumsExist
  <2>2. g = [n \in 0 .. N |-> IF n = 0 THEN 0 ELSE g[n - 1] + w[n]]
    BY <2>1 DEF Sums
  <2>3. \A n \in 0 .. N : n # 0 => w[n] = s[n].cycles
    BY <1>1
  <2>4. [n \in 0 .. N |-> IF n = 0 THEN 0 ELSE g[n - 1] + w[n]] = [n \in 0 .. N |-> IF n = 0 THEN 0 ELSE g[n - 1] + s[n].cycles]
    <3> HIDE DEF w
    <3> QED
      BY <2>3
  <2>5. IsUpTo(g)
    BY <2>2, <2>4
  <2> QED
    BY <2>5
<1>3. IsUpTo(upTo)
  <2> HIDE DEF IsUpTo
  <2> QED
    BY <1>2
<1> HIDE DEF upTo
<1>4. \A n \in 0 .. N : upTo[n] = IF n = 0 THEN 0 ELSE upTo[n - 1] + s[n].cycles
  BY <1>1, <1>3
<1>5. upTo[0] = 0 /\ \A n \in 1 .. N : upTo[n] = upTo[n - 1] + s[n].cycles
  BY <1>1, <1>4
<1> QED
  BY <1>1, <1>5

LEMMA CyclesOfNone == CyclesOf(<< >>) = 0
<1>1. << >> \in Seq(TraceRow) /\ Len(<< >>) = 0
  OBVIOUS
<1> QED
  BY <1>1, CyclesUpTo

\* One row more on disk adds its cycles.
LEMMA CyclesOfAppend ==
    ASSUME NEW s \in Seq(TraceRow), NEW r \in TraceRow
    PROVE  CyclesOf(Append(s, r)) = CyclesOf(s) + r.cycles
<1> DEFINE t == Append(s, r)
           N == Len(s)
<1>1. /\ t \in Seq(TraceRow) /\ N \in Nat /\ Len(t) = N + 1 /\ t[N + 1] = r
      /\ \A n \in 1 .. N : t[n] = s[n]
  OBVIOUS
<1>2. PICK f : f[0] = 0 /\ (\A n \in 1 .. N : f[n] = f[n - 1] + s[n].cycles) /\ CyclesOf(s) = f[N]
  BY CyclesUpTo
<1> HIDE DEF t, N
<1>3. PICK g : g[0] = 0 /\ (\A n \in 1 .. (N + 1) : g[n] = g[n - 1] + t[n].cycles) /\ CyclesOf(t) = g[N + 1]
  <2>1. \E g : g[0] = 0 /\ (\A n \in 1 .. Len(t) : g[n] = g[n - 1] + t[n].cycles) /\ CyclesOf(t) = g[Len(t)]
    BY <1>1, CyclesUpTo
  <2> QED
    BY <1>1, <2>1
<1> DEFINE S == {n \in Nat : n > N \/ f[n] = g[n]}
<1>4. 0 \in S
  BY <1>2, <1>3
<1>5. ASSUME NEW n \in S PROVE n + 1 \in S
  <2>1. n \in Nat /\ (n > N \/ f[n] = g[n])
    OBVIOUS
  <2>2. CASE n + 1 > N
    BY <2>1, <2>2
  <2>3. CASE n + 1 <= N
    <3>1. n + 1 \in 1 .. N /\ n + 1 \in 1 .. (N + 1) /\ (n + 1) - 1 = n /\ f[n] = g[n]
      BY <1>1, <2>1, <2>3
    <3>2. f[n + 1] = f[n] + s[n + 1].cycles /\ g[n + 1] = g[n] + t[n + 1].cycles
      BY <1>2, <1>3, <3>1
    <3>3. t[n + 1] = s[n + 1]
      BY <1>1, <3>1
    <3> QED
      BY <2>1, <3>1, <3>2, <3>3
  <2> QED
    BY <1>1, <2>1, <2>2, <2>3
<1>6. S = Nat
  <2>1. S \in SUBSET Nat
    OBVIOUS
  <2> HIDE DEF S
  <2> QED
    BY <1>4, <1>5, <2>1, NatSetInduction
<1>7. f[N] = g[N]
  BY <1>1, <1>6
<1>8. g[N + 1] = g[N] + r.cycles
  <2>1. N + 1 \in 1 .. (N + 1) /\ (N + 1) - 1 = N
    BY <1>1
  <2> QED
    BY <1>1, <1>3, <2>1
<1> QED
  BY <1>2, <1>3, <1>7, <1>8 DEF t

----------------------------------------------------------------------------
\* The watchdog starts before anything is written.
LEMMA SequenceInitial == SequenceInit => SequenceInv
<1> SUFFICES ASSUME SequenceInit PROVE SequenceInv
  OBVIOUS
<1>1. SequenceTypes
  BY DEF SequenceInit, SequenceTypes, Unknown, ChildSteps
<1>2. Works \in Seq(TraceIds) /\ Len(Works) \in Nat
  BY SelectionAssumption
<1>3. Len(written) = 0 /\ written = << >> /\ child = "VALIDATE" /\ cursor = 0 /\ peak = 0
  BY DEF SequenceInit
<1>4. RowsReplayed
  BY <1>2, <1>3 DEF RowsReplayed
<1>5. ChildRight
  BY <1>3 DEF ChildRight, Finishing, SessionAt
<1>6. CandidateVerifiable /\ OneAtATime /\ ReceiptHonest /\ CommitRight
  BY DEF SequenceInit, CandidateVerifiable, OneAtATime, Alive, Dead, ReceiptHonest, CommitRight
<1> QED
  BY <1>1, <1>4, <1>5, <1>6 DEF SequenceInv

----------------------------------------------------------------------------
\* While the child runs nothing is committed and no other process is there.
LEMMA ChildAlone ==
    ASSUME SequenceInv, Alive
    PROVE  /\ wd = "CHILD" /\ verifier = "NONE" /\ publisher = "NONE" /\ result = Unset
           /\ progress = Unset \/ progress.status # "TERMINAL"
  BY DEF SequenceInv, OneAtATime, CommitRight

LEMMA ChildCommits ==
    ASSUME SequenceInv, Alive, UNCHANGED <<wdVars, helpers>>, result' = result,
           progress' = Unset \/ progress'.status # "TERMINAL"
    PROVE  OneAtATime' /\ CommitRight' /\ ReceiptHonest'
<1>1. /\ wd' = "CHILD" /\ verifier' = "NONE" /\ publisher' = "NONE" /\ result' = Unset
  BY ChildAlone DEF wdVars, helpers
<1> QED
  BY <1>1 DEF OneAtATime, CommitRight, ReceiptHonest, Dead

\* A step of the child that leaves the rows alone.
LEMMA RowsKept ==
    ASSUME RowsReplayed, written' = written PROVE RowsReplayed'
  BY DEF RowsReplayed, RowValid

\* The child's part, when the files it writes and the session stay as they are.
LEMMA ChildKept ==
    ASSUME SequenceInv, UNCHANGED <<childVars, session, written, pending, progress>>
    PROVE  RowsReplayed' /\ ChildRight'
<1>1. /\ child' = child /\ exit' = exit /\ used' = used /\ cursor' = cursor /\ peak' = peak /\ report' = report
      /\ written' = written /\ pending' = pending /\ progress' = progress
  BY DEF childVars, session
<1>2. RowsReplayed'
  BY <1>1, RowsKept DEF SequenceInv
<1>3. ChildRight'
  BY <1>1 DEF SequenceInv, ChildRight, Counts, SessionAt, Answered, Current
<1> QED
  BY <1>2, <1>3

LEMMA ChildGone ==
    ASSUME SequenceInv, child' = "EXITED", written' = written
    PROVE  RowsReplayed' /\ ChildRight'
<1>1. RowsReplayed'
  BY RowsKept DEF SequenceInv
<1> QED
  BY <1>1 DEF ChildRight, Finishing

\* The processes are of the kinds the watchdog knows and take turns.
LEMMA SequenceStays == ASSUME SequenceInv, UNCHANGED sequenceVars PROVE SequenceInv'
<1>1. /\ UNCHANGED <<source, seen, childVars, session, written, pending, progress, result, wdVars, verifier, publisher>>
  BY DEF sequenceVars, files, helpers
<1>2. RowsReplayed' /\ ChildRight'
  BY <1>1, ChildKept
<1>3. SequenceTypes'
  BY <1>1 DEF SequenceInv, SequenceTypes, childVars, session, wdVars
<1>4. CandidateVerifiable'
  BY <1>1 DEF SequenceInv, CandidateVerifiable, ValidReplayResult, RowValid, childVars, wdVars
<1>5. OneAtATime' /\ ReceiptHonest' /\ CommitRight'
  BY <1>1 DEF SequenceInv, OneAtATime, Alive, Dead, ReceiptHonest, CommitRight, Verified, childVars, wdVars
<1> QED
  BY <1>2, <1>3, <1>4, <1>5 DEF SequenceInv

----------------------------------------------------------------------------
\* What a step of the child leaves alone.
ChildStep == UNCHANGED <<source, edits, wdVars, helpers, clock>>

\* The child goes on, or fails, without a row or a word about its progress.
LEMMA ChildQuiet ==
    ASSUME SequenceInv, ChildStep, Alive, UNCHANGED <<used, session, progress, written, pending, result>>,
           RowsReplayed', ChildRight', child' \in ChildSteps, child' = "EXITED" => exit' = 1
    PROVE  SequenceInv'
<1>1. SequenceTypes'
  BY DEF SequenceInv, SequenceTypes, ChildStep, wdVars, helpers, session
<1>2. progress = Unset \/ progress.status # "TERMINAL"
  BY ChildAlone
<1>3. OneAtATime' /\ CommitRight' /\ ReceiptHonest'
  BY <1>2, ChildCommits DEF ChildStep
<1>4. CandidateVerifiable'
  BY DEF CandidateVerifiable
<1> QED
  BY <1>1, <1>3, <1>4 DEF SequenceInv

\* validate and load: nothing is replayed yet.
LEMMA ValidateInv == ASSUME SequenceInv, Validate PROVE SequenceInv'
<1> DEFINE p == [status |-> "LOADING", done |-> << >>, active |-> Unset, cursor |-> 0, cycles |-> 0]
<1>1. /\ child = "VALIDATE" /\ child' = "OPEN" /\ ChildStep /\ progress' = p
      /\ used' = [trace |-> source["trace"], library |-> source["library"]]
      /\ UNCHANGED <<session, written, pending, result>>
  BY DEF Validate, Turn, Goto, ChildStep, Progress, LoadTrace, SourceIdentity
<1>2. Alive
  BY <1>1 DEF Alive
<1>3. p \in ProgressFiles /\ p.status # "TERMINAL" /\ p.done = << >> /\ p.cycles = 0
  <2>1. << >> \in Seq(TraceIds)
    OBVIOUS
  <2> QED
    BY <2>1 DEF ProgressFiles, Statuses
<1> HIDE DEF p
<1>4. used' \in [Files -> Nat]
  BY <1>1 DEF SequenceInv, SequenceTypes, Files
<1>5. SequenceTypes'
  BY <1>1, <1>3, <1>4 DEF SequenceInv, SequenceTypes, ChildStep, ChildSteps, wdVars, helpers, session
<1>6. OneAtATime' /\ CommitRight' /\ ReceiptHonest'
  BY <1>1, <1>2, <1>3, ChildCommits DEF ChildStep
<1>7. CandidateVerifiable'
  BY <1>1 DEF CandidateVerifiable
<1>8. RowsReplayed'
  BY <1>1, RowsKept DEF SequenceInv
<1>9. written' = << >> /\ Len(written') = 0 /\ SessionAt(cursor, peak)'
  BY <1>1 DEF SequenceInv, ChildRight, SessionAt, session
<1>10. Counts(Len(written), CyclesOf(written))'
  BY <1>1, <1>3, <1>9, CyclesOfNone DEF Counts
<1>11. ChildRight'
  BY <1>1, <1>9, <1>10 DEF ChildRight, Finishing
<1> QED
  BY <1>5, <1>6, <1>7, <1>8, <1>11 DEF SequenceInv

\* The session opens over the library that was loaded, or the child fails.
LEMMA OpenInv == ASSUME SequenceInv, Open PROVE SequenceInv'
<1>1. /\ child = "OPEN" /\ ChildStep /\ UNCHANGED <<used, session, progress, written, pending, result>>
      /\ child' = "OFFER" \/ (child' = "EXITED" /\ exit' = 1)
  BY DEF Open, Turn, Goto, ChildStep, Fail, Return
<1>2. Alive
  BY <1>1 DEF Alive
<1>3. CASE child' = "OFFER"
  <2>1. RowsReplayed'
    BY <1>1, RowsKept DEF SequenceInv
  <2>2. Counts(Len(written), CyclesOf(written))' /\ SessionAt(cursor, peak)'
    BY <1>1 DEF SequenceInv, ChildRight, Counts, SessionAt, session
  <2>3. ChildRight'
    BY <1>3, <2>2 DEF ChildRight, Finishing
  <2> QED
    BY <1>1, <1>2, <1>3, <2>1, <2>3, ChildQuiet DEF ChildSteps
<1>4. CASE child' = "EXITED" /\ exit' = 1
  BY <1>1, <1>2, <1>4, ChildGone, ChildQuiet DEF ChildSteps
<1> QED
  BY <1>1, <1>3, <1>4

LEMMA RecheckInv ==
    ASSUME SequenceInv, NEW f, NEW label, NEW next, Recheck(label, f, next),
           <<label, next>> \in {<<"RECHECK_LIBRARY", "RECHECK_TRACE">>, <<"RECHECK_TRACE", "CANDIDATE">>}
    PROVE  SequenceInv'
<1>1. /\ child = label /\ ChildStep /\ UNCHANGED <<used, session, progress, written, pending, result>>
      /\ child' = next \/ (child' = "EXITED" /\ exit' = 1)
  BY DEF Recheck, Turn, Goto, ChildStep, Fail, Return
<1>2. Alive /\ child \in {"RECHECK_LIBRARY", "RECHECK_TRACE"} /\ child \in Finishing
  BY <1>1 DEF Alive, Finishing
<1>3. CASE child' = next
  <2>1. RowsReplayed'
    BY <1>1, RowsKept DEF SequenceInv
  <2>2. Counts(Len(written), CyclesOf(written))'
    BY <1>1, <1>2 DEF SequenceInv, ChildRight, Counts
  <2>3. /\ Len(written') = Len(Works) /\ progress'.active = Unset /\ progress'.cursor = written'[Len(written')].ready
    BY <1>1, <1>2 DEF SequenceInv, ChildRight
  <2>4. child' \in {"RECHECK_TRACE", "CANDIDATE"}
    BY <1>3
  <2>5. ChildRight'
    BY <2>2, <2>3, <2>4 DEF ChildRight
  <2> QED
    BY <1>1, <1>2, <2>1, <2>4, <2>5, ChildQuiet DEF ChildSteps
<1>4. CASE child' = "EXITED" /\ exit' = 1
  BY <1>1, <1>2, <1>4, ChildGone, ChildQuiet DEF ChildSteps
<1> QED
  BY <1>1, <1>3, <1>4

\* The next work is offered.
LEMMA OfferInv == ASSUME SequenceInv, Offer PROVE SequenceInv'
<1>1. /\ child = "OFFER" /\ child' = "ADVANCE" /\ ChildStep /\ Len(written) < Len(Works)
      /\ progress' = [progress EXCEPT !.status = "ACTIVE", !.active = Current, !.cursor = cursor]
      /\ UNCHANGED <<used, session, written, pending, result>>
  BY DEF Offer, Turn, Goto, ChildStep
<1>2. Alive
  BY <1>1 DEF Alive
<1>3. /\ progress \in ProgressFiles /\ Counts(Len(written), CyclesOf(written)) /\ SessionAt(cursor, peak)
      /\ cursor \in Nat
  BY <1>1 DEF SequenceInv, SequenceTypes, ChildRight, Counts
<1>4. Current \in TraceIds
  <2>1. Works \in Seq(TraceIds) /\ written \in Seq(TraceRow)
    BY SelectionAssumption DEF SequenceInv, SequenceTypes
  <2>2. Len(written) + 1 \in 1 .. Len(Works)
    BY <1>1, <2>1
  <2> QED
    BY <2>1, <2>2 DEF Current
<1>5. /\ progress' \in ProgressFiles /\ progress'.status = "ACTIVE"
      /\ progress'.done = progress.done /\ progress'.cycles = progress.cycles
  BY <1>1, <1>3, <1>4 DEF ProgressFiles, Statuses
<1>6. SequenceTypes'
  BY <1>1, <1>5 DEF SequenceInv, SequenceTypes, ChildStep, ChildSteps, wdVars, helpers, session
<1>7. OneAtATime' /\ CommitRight' /\ ReceiptHonest'
  BY <1>1, <1>2, <1>5, ChildCommits DEF ChildStep
<1>8. CandidateVerifiable'
  BY <1>1 DEF CandidateVerifiable
<1>9. RowsReplayed'
  BY <1>1, RowsKept DEF SequenceInv
<1>10. Counts(Len(written), CyclesOf(written))' /\ SessionAt(cursor, peak)'
  BY <1>1, <1>3, <1>5 DEF Counts, SessionAt, session
<1>11. ChildRight'
  BY <1>1, <1>10 DEF ChildRight, Finishing
<1> QED
  BY <1>6, <1>7, <1>8, <1>9, <1>11 DEF SequenceInv

\* The session answers with a window that follows the offer.
LEMMA AdvanceInv == ASSUME SequenceInv, Advance PROVE SequenceInv'
<1>1. PICK w \in Windows : \E p \in TagPeaks :
          LET accepted == cursor + w.accept  done == accepted + w.result
              released == done + w.scale     ready == released + w.ready
          IN
          /\ p >= peak /\ peak' = p
          /\ cursor' = ready
          /\ report' = [work |-> Current, offered |-> OfferCycle, accepted |-> accepted, result |-> done,
                        scale |-> released, ready |-> ready, peak |-> p, cycles |-> done - accepted]
          /\ progress' = [progress EXCEPT !.cursor = ready]
  BY DEF Advance
<1> DEFINE accepted == cursor + w.accept
           done == accepted + w.result
           released == done + w.scale
           ready == released + w.ready
<1>2. PICK p \in TagPeaks :
          /\ p >= peak /\ peak' = p
          /\ cursor' = ready
          /\ report' = [work |-> Current, offered |-> cursor, accepted |-> accepted, result |-> done,
                        scale |-> released, ready |-> ready, peak |-> p, cycles |-> done - accepted]
          /\ progress' = [progress EXCEPT !.cursor = ready]
  BY <1>1 DEF OfferCycle
<1>3. /\ child = "ADVANCE" /\ child' = "REPORT" /\ ChildStep /\ UNCHANGED <<used, written, pending, result>>
  BY DEF Advance, Turn, Goto, ChildStep
<1>4. Alive
  BY <1>3 DEF Alive
<1>5. /\ progress \in ProgressFiles /\ Counts(Len(written), CyclesOf(written)) /\ SessionAt(cursor, peak)
      /\ Len(written) < Len(Works)
      /\ cursor \in Nat /\ peak \in Nat
  BY <1>3 DEF SequenceInv, SequenceTypes, ChildRight, Counts
<1>6. w.accept \in Nat /\ w.result \in Nat /\ w.scale \in Nat /\ w.ready \in Nat /\ p \in Nat
  BY SessionAssumption
<1>7. accepted \in Nat /\ done \in Nat /\ released \in Nat /\ ready \in Nat /\ done - accepted \in Nat
  <2>1. \A a, b \in Nat : a + b \in Nat /\ (a + b) - a = b
    OBVIOUS
  <2>2. accepted \in Nat
    BY <1>5, <1>6, <2>1
  <2>3. done \in Nat /\ done - accepted = w.result
    <3> HIDE DEF accepted
    <3> QED
      BY <1>6, <2>1, <2>2
  <2>4. released \in Nat
    <3> HIDE DEF done
    <3> QED
      BY <1>6, <2>1, <2>3
  <2>5. ready \in Nat
    <3> HIDE DEF released
    <3> QED
      BY <1>6, <2>1, <2>4
  <2> QED
    BY <1>6, <2>2, <2>3, <2>4, <2>5
<1>8. Current \in TraceIds
  <2>1. Works \in Seq(TraceIds) /\ written \in Seq(TraceRow)
    BY SelectionAssumption DEF SequenceInv, SequenceTypes
  <2>2. Len(written) + 1 \in 1 .. Len(Works)
    BY <1>5, <2>1
  <2> QED
    BY <2>1, <2>2 DEF Current
<1> HIDE DEF accepted, done, released, ready
<1>9. /\ progress' \in ProgressFiles /\ progress'.status = progress.status
      /\ progress'.done = progress.done /\ progress'.cycles = progress.cycles
  BY <1>2, <1>5, <1>7 DEF ProgressFiles
<1>10. SequenceTypes'
  BY <1>2, <1>3, <1>6, <1>7, <1>9 DEF SequenceInv, SequenceTypes, ChildStep, ChildSteps, wdVars, helpers
<1>11. OneAtATime' /\ CommitRight' /\ ReceiptHonest'
  <2>1. progress.status # "TERMINAL"
    BY <1>4, <1>5, ChildAlone, UnsetAssumption
  <2> QED
    BY <1>3, <1>4, <1>9, <2>1, ChildCommits DEF ChildStep
<1>12. CandidateVerifiable'
  BY <1>3 DEF CandidateVerifiable
<1>13. RowsReplayed'
  BY <1>3, RowsKept DEF SequenceInv
<1>14. Counts(Len(written), CyclesOf(written))'
  BY <1>3, <1>5, <1>9 DEF Counts
<1>15. /\ report' \in TraceRow /\ report'.ready = cursor' /\ report'.peak = peak' /\ report'.offered = cursor
       /\ report'.work = Current' /\ report'.cycles = report'.result - report'.accepted
  BY <1>2, <1>3, <1>5, <1>6, <1>7, <1>8 DEF TraceRow, Current
<1>16. Answered'
  <2>1. peak \in Nat /\ peak <= report'.peak
    BY <1>2, <1>5, <1>6, <1>15
  <2>2. /\ Len(written') = 0 => report'.offered = 0 /\ peak = 0
        /\ Len(written') > 0 => report'.offered = written'[Len(written')].ready /\ peak = written'[Len(written')].peak
    BY <1>3, <1>5, <1>15 DEF SessionAt
  <2>3. \E tags \in Nat :
          /\ /\ Len(written') = 0 => report'.offered = 0 /\ tags = 0
             /\ Len(written') > 0 => report'.offered = written'[Len(written')].ready /\ tags = written'[Len(written')].peak
          /\ tags <= report'.peak
    BY <2>1, <2>2
  <2> QED
    BY <1>15, <2>3 DEF Answered, SessionAt
<1>17. ChildRight'
  BY <1>3, <1>5, <1>14, <1>16 DEF ChildRight, Finishing
<1> QED
  BY <1>10, <1>11, <1>12, <1>13, <1>17 DEF SequenceInv

\* A report in the domain is one row more, valid against the one before it;
\* another leaves failure.json and the rows as they were.
LEMMA ReportInv == ASSUME SequenceInv, Report PROVE SequenceInv'
<1>1. /\ child = "REPORT" /\ ChildStep /\ UNCHANGED <<used, cursor, peak, pending, result>>
      /\ IF ~DomainFailure
         THEN written' = Append(written, report) /\ child' = "PARTIAL" /\ progress' = progress
         ELSE /\ progress' = [progress EXCEPT !.status = "FAILED"] /\ child' = "EXITED" /\ exit' = 1
              /\ written' = written
  BY DEF Report, Turn, Goto, ChildStep, Fail, Return
<1>2. Alive
  BY <1>1 DEF Alive
<1>3. /\ Counts(Len(written), CyclesOf(written)) /\ progress \in ProgressFiles
      /\ Len(written) < Len(Works) /\ Answered
  BY <1>1 DEF SequenceInv, ChildRight, Counts
<1>4. progress.status # "TERMINAL"
  BY <1>2, <1>3, ChildAlone, UnsetAssumption
<1>5. CASE DomainFailure
  <2>1. progress' \in ProgressFiles /\ progress'.status = "FAILED"
    BY <1>1, <1>3, <1>5 DEF ProgressFiles, Statuses
  <2>2. SequenceTypes'
    BY <1>1, <1>5, <2>1 DEF SequenceInv, SequenceTypes, ChildStep, ChildSteps, wdVars, helpers
  <2>3. OneAtATime' /\ CommitRight' /\ ReceiptHonest'
    BY <1>1, <1>2, <2>1, ChildCommits DEF ChildStep
  <2>4. CandidateVerifiable'
    BY <1>1, <1>5 DEF CandidateVerifiable
  <2>5. RowsReplayed' /\ ChildRight'
    BY <1>1, <1>5, ChildGone
  <2> QED
    BY <2>2, <2>3, <2>4, <2>5 DEF SequenceInv
<1>6. CASE ~DomainFailure
  <2>0. PICK N \in Nat : N = Len(written)
    BY DEF SequenceInv, SequenceTypes
  <2>1. written \in Seq(TraceRow) /\ report \in TraceRow /\ N \in Nat /\ Len(Works) \in Nat
    BY <1>3, SelectionAssumption DEF SequenceInv, SequenceTypes, Answered
  <2>2. /\ written' \in Seq(TraceRow) /\ Len(written') = N + 1 /\ written'[N + 1] = report
        /\ \A n \in 1 .. N : written'[n] = written[n]
    BY <1>1, <1>6, <2>0, <2>1
  <2>3. SequenceTypes'
    BY <1>1, <1>6, <2>2 DEF SequenceInv, SequenceTypes, ChildStep, ChildSteps, wdVars, helpers
  <2>4. OneAtATime' /\ CommitRight' /\ ReceiptHonest'
    BY <1>1, <1>2, <1>4, <1>6, ChildCommits DEF ChildStep
  <2>5. CandidateVerifiable'
    BY <1>1, <1>6 DEF CandidateVerifiable
  <2>6. PICK tags \in Nat : SessionAt(report.offered, tags) /\ tags <= report.peak
    BY <1>3 DEF Answered
  <2>7. /\ report.work = Works[N + 1] /\ report.cycles = report.result - report.accepted
        /\ report.offered <= report.accepted /\ report.accepted < report.result
        /\ report.result <= report.scale /\ report.scale <= report.ready
        /\ report.ready = cursor /\ report.peak = peak /\ ~(report.peak > TagLimit)
    BY <1>3, <1>6, <2>0 DEF DomainFailure, Current, Answered
  <2>8. report.peak <= TagLimit
    BY <2>1, <2>7, SessionAssumption DEF TraceRow
  <2>9. RowValid(N + 1)'
    <3>1. CASE N = 0
      <4>1. N + 1 = 1 /\ Len(written) = 0
        BY <2>0, <3>1
      <4>2. report.offered = 0 /\ tags = 0
        BY <2>6, <4>1 DEF SessionAt
      <4> QED
        BY <2>2, <2>6, <2>7, <2>8, <4>1, <4>2 DEF RowValid
    <3>2. CASE N > 0
      <4>1. N + 1 # 1 /\ (N + 1) - 1 = N /\ N \in 1 .. N /\ Len(written) > 0 /\ Len(written) = N
        BY <2>0, <3>2
      <4>2. report.offered = written[N].ready /\ tags = written[N].peak
        BY <2>6, <4>1 DEF SessionAt
      <4>3. written'[N] = written[N]
        BY <2>2, <4>1
      <4> QED
        BY <2>2, <2>6, <2>7, <2>8, <4>1, <4>2, <4>3 DEF RowValid
    <3> QED
      BY <2>1, <3>1, <3>2
  <2>10. ASSUME NEW n \in 1 .. N PROVE RowValid(n)'
    <3>1. RowValid(n)
      BY <2>0 DEF SequenceInv, RowsReplayed
    <3>2. written'[n] = written[n] /\ (n # 1 => written'[n - 1] = written[n - 1])
      BY <2>1, <2>2
    <3> QED
      BY <3>1, <3>2 DEF RowValid
  <2>11. RowsReplayed'
    <3>1. N + 1 <= Len(Works)
      BY <1>3, <2>0, <2>1
    <3>2. ASSUME NEW n \in 1 .. (N + 1) PROVE RowValid(n)'
      BY <2>1, <2>9, <2>10
    <3> QED
      BY <2>2, <3>1, <3>2 DEF RowsReplayed
  <2>12. SessionAt(cursor, peak)'
    BY <1>1, <2>1, <2>2, <2>7 DEF SessionAt
  <2>13. CyclesOf(written') = CyclesOf(written) + report.cycles
    BY <1>1, <1>6, <2>1, CyclesOfAppend
  <2>14. /\ Counts(Len(written) - 1, progress.cycles)'
         /\ CyclesOf(written') = progress'.cycles + written'[Len(written')].cycles
    <3>1. Len(written') - 1 = N /\ written'[Len(written')] = report
      BY <2>1, <2>2
    <3>2. Counts(N, CyclesOf(written))
      BY <1>3, <2>0
    <3> QED
      BY <1>1, <1>6, <2>13, <3>1, <3>2 DEF Counts
  <2>15. ChildRight'
    <3>1. Len(written') > 0
      BY <2>1, <2>2
    <3> QED
      BY <1>1, <1>6, <2>12, <2>14, <3>1 DEF ChildRight, Finishing
  <2> QED
    BY <2>3, <2>4, <2>5, <2>11, <2>15 DEF SequenceInv
<1> QED
  BY <1>5, <1>6

\* The progress file takes in the row that was written last.
LEMMA PartialInv == ASSUME SequenceInv, Partial PROVE SequenceInv'
<1> DEFINE N == Len(written)
           row == written[N]
           p == [status |-> "PARTIAL", done |-> Append(progress.done, row.work), active |-> Unset,
                 cursor |-> row.ready, cycles |-> progress.cycles + row.cycles]
<1>1. /\ child = "PARTIAL" /\ child' = (IF N = Len(Works) THEN "RECHECK_LIBRARY" ELSE "OFFER") /\ ChildStep
      /\ progress' = p /\ UNCHANGED <<used, session, written, pending, result>>
  BY DEF Partial, Turn, Goto, ChildStep, Progress
<1>2. Alive
  BY <1>1 DEF Alive
<1>3. /\ Counts(N - 1, progress.cycles) /\ CyclesOf(written) = progress.cycles + row.cycles /\ SessionAt(cursor, peak) /\ N > 0 /\ N <= Len(Works)
      /\ RowValid(N)
  <2>1. N \in Nat /\ N > 0
    BY <1>1 DEF SequenceInv, SequenceTypes, ChildRight
  <2>2. N \in 1 .. N
    BY <2>1
  <2> QED
    BY <1>1, <2>1, <2>2 DEF SequenceInv, ChildRight, RowsReplayed
<1>4. /\ written \in Seq(TraceRow) /\ N \in Nat /\ N \in 1 .. N /\ row \in TraceRow /\ Works \in Seq(TraceIds)
  <2>1. written \in Seq(TraceRow) /\ N \in Nat
    BY DEF SequenceInv, SequenceTypes
  <2> QED
    BY <1>3, <2>1, SelectionAssumption
<1>5. /\ progress \in ProgressFiles /\ progress.done \in Seq(TraceIds) /\ progress.cycles \in Nat
      /\ Len(progress.done) = N - 1 /\ \A i \in 1 .. (N - 1) : progress.done[i] = Works[i]
  BY <1>3 DEF Counts, ProgressFiles
<1>6. row.work \in TraceIds /\ row.work = Works[N] /\ row.ready \in Nat /\ row.cycles \in Nat
  <2>1. row.work = Works[N]
    BY <1>3 DEF RowValid
  <2> QED
    BY <1>4, <2>1 DEF TraceRow
<1> DEFINE d == Append(progress.done, row.work)
<1>7. d \in Seq(TraceIds) /\ Len(d) = N /\ \A i \in 1 .. N : d[i] = Works[i]
  <2>1. d \in Seq(TraceIds) /\ Len(d) = (N - 1) + 1 /\ d[(N - 1) + 1] = row.work
        /\ \A i \in 1 .. (N - 1) : d[i] = progress.done[i]
    BY <1>5, <1>6
  <2> HIDE DEF d, N, row
  <2> QED
    BY <1>4, <1>5, <1>6, <2>1
<1>8. p \in ProgressFiles /\ p.status = "PARTIAL" /\ p.done = d /\ p.cycles = progress.cycles + row.cycles
      /\ p.active = Unset /\ p.cursor = row.ready
  <2> HIDE DEF d, row
  <2>1. progress.cycles + row.cycles \in Nat
    BY <1>5, <1>6
  <2> HIDE DEF row
  <2> QED
    BY <1>6, <1>7, <2>1 DEF ProgressFiles, Statuses, d
<1> HIDE DEF p, d, N, row
<1>9. CyclesOf(written) = p.cycles
  BY <1>3, <1>8
<1>10. SequenceTypes'
  BY <1>1, <1>8 DEF SequenceInv, SequenceTypes, ChildStep, ChildSteps, wdVars, helpers, session
<1>11. OneAtATime' /\ CommitRight' /\ ReceiptHonest'
  BY <1>1, <1>2, <1>8, ChildCommits DEF ChildStep
<1>12. CandidateVerifiable'
  BY <1>1 DEF CandidateVerifiable
<1>13. RowsReplayed'
  BY <1>1, RowsKept DEF SequenceInv
<1>14. Counts(Len(written), CyclesOf(written))' /\ SessionAt(cursor, peak)'
  <2>1. written' = written /\ Len(written') = N /\ cursor' = cursor /\ peak' = peak
    BY <1>1 DEF session, N
  <2>2. SessionAt(cursor, peak)'
    BY <1>3, <2>1 DEF SessionAt
  <2> QED
    BY <1>1, <1>7, <1>8, <1>9, <2>1, <2>2 DEF Counts
<1>15. ChildRight'
  <2>1. /\ progress'.active = Unset /\ progress'.cursor = written'[Len(written')].ready /\ Len(written') = N
    BY <1>1, <1>8 DEF N, row
  <2> QED
    BY <1>1, <1>14, <2>1 DEF ChildRight, Finishing
<1> QED
  BY <1>10, <1>11, <1>12, <1>13, <1>15 DEF SequenceInv

\* A progress that counts as many rows as works lists the works.
LEMMA CountsAll == ASSUME Counts(Len(Works), CyclesOf(written)) PROVE progress.done = Works
<1>1. progress.done \in Seq(TraceIds) /\ Works \in Seq(TraceIds) /\ Len(progress.done) = Len(Works)
      /\ \A i \in 1 .. Len(Works) : progress.done[i] = Works[i]
  BY SelectionAssumption DEF Counts, ProgressFiles
<1> QED
  BY <1>1

\* The candidate is what the progress says.
LEMMA CandidateInv == ASSUME SequenceInv, Candidate PROVE SequenceInv'
<1>1. /\ child = "CANDIDATE" /\ child' = "STATUS" /\ ChildStep /\ UNCHANGED <<used, session, progress, written, result>>
      /\ pending' = [used |-> used, done |-> progress.done, cursor |-> progress.cursor, cycles |-> progress.cycles]
  BY DEF Candidate, Turn, Goto, ChildStep
<1>2. Alive /\ child \in Finishing
  BY <1>1 DEF Alive, Finishing
<1>3. /\ Counts(Len(written), CyclesOf(written)) /\ progress \in ProgressFiles /\ Len(written) = Len(Works)
      /\ progress.active = Unset /\ progress.cursor = written[Len(written)].ready
      /\ used \in [Files -> Nat]
  BY <1>2 DEF SequenceInv, SequenceTypes, ChildRight, Counts
<1>4. pending' \in CandidateFiles
  BY <1>1, <1>3 DEF ProgressFiles, CandidateFiles
<1>5. SequenceTypes'
  BY <1>1, <1>4 DEF SequenceInv, SequenceTypes, ChildStep, ChildSteps, wdVars, helpers, session
<1>6. OneAtATime' /\ CommitRight' /\ ReceiptHonest'
  BY <1>1, <1>2, ChildAlone, ChildCommits DEF ChildStep
<1>7. CandidateVerifiable'
  BY <1>1 DEF CandidateVerifiable
<1>8. RowsReplayed'
  BY <1>1, RowsKept DEF SequenceInv
<1>9. Counts(Len(written), CyclesOf(written))'
  BY <1>1, <1>3 DEF Counts
<1>10. ChildRight'
  BY <1>1, <1>3, <1>9 DEF ChildRight
<1> QED
  BY <1>5, <1>6, <1>7, <1>8, <1>10 DEF SequenceInv

\* What the replay leaves passes every check of the verifier.
LEMMA StatusInv == ASSUME SequenceInv, Status PROVE SequenceInv'
<1>1. /\ child = "STATUS" /\ child' = "EXITED" /\ ChildStep /\ UNCHANGED <<used, session, pending, written, result>>
      /\ progress' = [progress EXCEPT !.status = "PENDING_VALIDATION"]
  BY DEF Status, Turn, Return, ChildStep
<1>2. Alive /\ child \in Finishing
  BY <1>1 DEF Alive, Finishing
<1>3. /\ Counts(Len(written), CyclesOf(written)) /\ progress \in ProgressFiles /\ Len(written) = Len(Works)
      /\ progress.active = Unset /\ progress.cursor = written[Len(written)].ready /\ progress.cycles = CyclesOf(written)
      /\ pending = [used |-> used, done |-> progress.done, cursor |-> progress.cursor, cycles |-> progress.cycles]
      /\ used \in [Files -> Nat]
  BY <1>1, <1>2 DEF SequenceInv, SequenceTypes, ChildRight, Counts
<1>4. progress.done = Works
  BY <1>3, CountsAll
<1>5. /\ progress' \in ProgressFiles /\ progress'.status = "PENDING_VALIDATION" /\ progress'.done = progress.done
      /\ progress'.active = progress.active /\ progress'.cursor = progress.cursor /\ progress'.cycles = progress.cycles
  BY <1>1, <1>3 DEF ProgressFiles, Statuses
<1>6. pending \in CandidateFiles
  BY <1>3 DEF ProgressFiles, CandidateFiles
<1>7. SequenceTypes'
  BY <1>1, <1>5 DEF SequenceInv, SequenceTypes, ChildStep, ChildSteps, wdVars, helpers, session
<1>8. OneAtATime' /\ CommitRight' /\ ReceiptHonest'
  BY <1>1, <1>2, <1>5, ChildCommits DEF ChildStep
<1>9. RowsReplayed' /\ ChildRight'
  BY <1>1, ChildGone
<1>10. \A n \in DOMAIN written' : RowValid(n)'
  <2>1. DOMAIN written' = 1 .. Len(written')
    BY <1>1 DEF SequenceInv, SequenceTypes
  <2> QED
    BY <1>9, <2>1 DEF RowsReplayed
<1>11. pending' # Unset /\ progress' # Unset
  BY <1>1, <1>5, <1>6, UnsetAssumption
<1>12. ValidReplayResult(used)'
  BY <1>1, <1>3, <1>4, <1>5, <1>10, <1>11 DEF ValidReplayResult
<1>13. CandidateVerifiable'
  BY <1>12 DEF CandidateVerifiable
<1> QED
  BY <1>7, <1>8, <1>9, <1>13 DEF SequenceInv

----------------------------------------------------------------------------
\* The verifier reads: what it accepts is verified, and stays so.
LEMMA VerifyInv == ASSUME SequenceInv, Verify PROVE SequenceInv'
<1>1. /\ UNCHANGED <<source, childVars, session, written, pending, progress, result, wdVars, publisher>>
      /\ \/ verifier = "TRACE" /\ verifier' = "LIBRARY" /\ seen' = [seen EXCEPT !["trace"] = source["trace"]]
         \/ verifier = "LIBRARY" /\ verifier' = "DECIDE" /\ seen' = [seen EXCEPT !["library"] = source["library"]]
         \/ /\ verifier = "DECIDE" /\ seen' = seen
            /\ (verifier' = "EXIT_0" /\ ValidReplayResult(seen)) \/ verifier' = "EXIT_1"
  BY DEF Verify, files
<1>2. ~Dead(verifier) /\ verifier \notin {"NONE", "EXIT_0"}
  BY <1>1 DEF Dead
<1>3. wd = "VERIFIER" /\ child = "EXITED" /\ publisher = "NONE"
  BY <1>2 DEF SequenceInv, OneAtATime, Alive
<1>4. seen' \in [Files -> Nat] /\ verifier' \in {"LIBRARY", "DECIDE", "EXIT_0", "EXIT_1"}
  <2>1. source \in [Files -> Nat] /\ seen \in [Files -> Nat] /\ "trace" \in Files /\ "library" \in Files
    BY DEF SequenceInv, SequenceTypes, Files
  <2> QED
    BY <1>1, <2>1
<1>5. SequenceTypes'
  BY <1>1, <1>4 DEF SequenceInv, SequenceTypes, childVars, session, wdVars
<1>6. RowsReplayed' /\ ChildRight'
  BY <1>1, ChildKept
<1>7. wd' = "VERIFIER" /\ child' = "EXITED" /\ publisher' = "NONE" /\ result' = result /\ progress' = progress
  BY <1>1, <1>3 DEF wdVars, childVars
<1>8. CandidateVerifiable' /\ ReceiptHonest' /\ OneAtATime'
  BY <1>7 DEF CandidateVerifiable, ReceiptHonest, OneAtATime, Alive, Dead
<1>9. verifier' = "EXIT_0" => Verified'
  BY <1>1 DEF ValidReplayResult, Verified
<1>10. CommitRight'
  <2>1. result = Unset /\ ~(progress /= Unset /\ progress.status = "TERMINAL")
    BY <1>3 DEF SequenceInv, CommitRight
  <2> QED
    BY <1>7, <1>9, <2>1 DEF CommitRight
<1> QED
  BY <1>5, <1>6, <1>8, <1>10 DEF SequenceInv

\* The publisher links what was verified, after the progress is terminal.
LEMMA PublishInv == ASSUME SequenceInv, Publish PROVE SequenceInv'
<1>1. /\ UNCHANGED <<source, childVars, session, written, pending, wdVars, verifier, seen>>
      /\ \/ /\ publisher = "START" /\ publisher' \in {"EXIT_1", "PROGRESS"} /\ UNCHANGED <<progress, result>>
         \/ /\ publisher = "PROGRESS" /\ publisher' = "COMPARE" /\ result' = result
            /\ progress' = [progress EXCEPT !.status = "TERMINAL"]
         \/ /\ publisher = "COMPARE" /\ publisher' = "EXIT_1" /\ UNCHANGED <<progress, result>>
         \/ /\ publisher = "COMPARE" /\ publisher' = "LINK" /\ pending = candidate /\ UNCHANGED <<progress, result>>
         \/ publisher = "LINK" /\ publisher' = "LINKED" /\ result' = pending /\ progress' = progress
         \/ publisher = "LINKED" /\ publisher' = "EXIT_0" /\ UNCHANGED <<progress, result>>
  BY DEF Publish
<1>2. /\ ~Dead(publisher) /\ publisher # "NONE"
  BY <1>1 DEF Dead
<1>3. /\ wd = "PUBLISHER" /\ child = "EXITED" /\ verifier = "EXIT_0" /\ Verified
      /\ wd' = "PUBLISHER" /\ child' = "EXITED" /\ verifier' = "EXIT_0" /\ candidate' = candidate /\ pending' = pending
  BY <1>1, <1>2 DEF SequenceInv, OneAtATime, CommitRight, Alive, childVars, wdVars
<1>4. progress \in ProgressFiles
  BY <1>3 DEF SequenceInv, SequenceTypes, Verified
<1>5. IF publisher = "PROGRESS" THEN progress'.status = "TERMINAL" ELSE progress' = progress
  BY <1>1, <1>4 DEF ProgressFiles
<1>6. progress' \in ProgressFiles
  BY <1>1, <1>4 DEF ProgressFiles, Statuses
<1>7. SequenceTypes'
  BY <1>1, <1>3, <1>6 DEF SequenceInv, SequenceTypes, ChildSteps, childVars, session
<1>8. RowsReplayed' /\ ChildRight'
  BY <1>1, <1>3, ChildGone
<1>9. CandidateVerifiable' /\ ReceiptHonest' /\ OneAtATime'
  BY <1>3 DEF CandidateVerifiable, ReceiptHonest, OneAtATime, Alive, Dead
<1>10. Verified'
  BY <1>1, <1>3, <1>6, UnsetAssumption DEF Verified
<1>11. publisher' \notin {"NONE", "START"}
  BY <1>1
<1>12. /\ publisher' \in {"COMPARE", "LINK"} => progress'.status = "TERMINAL"
       /\ publisher' = "LINK" => pending' = candidate'
  BY <1>1, <1>3, <1>5 DEF SequenceInv, CommitRight
<1>13. result' /= Unset => /\ result' = candidate' /\ result' = pending' /\ progress'.status = "TERMINAL"
                           /\ publisher' \in {"LINKED", "EXIT_0", "KILLED"}
  BY <1>1, <1>3 DEF SequenceInv, CommitRight
<1>14. CommitRight'
  BY <1>3, <1>10, <1>11, <1>12, <1>13 DEF CommitRight
<1> QED
  BY <1>7, <1>8, <1>9, <1>14 DEF SequenceInv

----------------------------------------------------------------------------
\* The watchdog never writes what the child writes, except the progress when
\* the child is gone.
WatchdogStep == UNCHANGED <<source, childVars, session, written, pending, result, seen>>

\* The watchdog goes on without a word about the progress.
LEMMA WatchdogQuiet ==
    ASSUME SequenceInv, WatchdogStep, progress' = progress, SequenceTypes', OneAtATime', CommitRight', ReceiptHonest',
           wd' = "CHILD" => wd = "CHILD"
    PROVE  SequenceInv'
<1>1. RowsReplayed' /\ ChildRight'
  BY ChildKept DEF WatchdogStep
<1>2. CandidateVerifiable'
  BY DEF SequenceInv, CandidateVerifiable, ValidReplayResult, RowValid, WatchdogStep, childVars
<1> QED
  BY <1>1, <1>2 DEF SequenceInv

LEMMA WaitInv ==
    ASSUME SequenceInv, NEW process, NEW who, NEW label, NEW next, Wait(label, who, process, next),
           \/ label = "CHILD" /\ process = child /\ next = "CANDIDATE"
           \/ label = "VERIFIER" /\ process = verifier /\ next = "VERIFIED"
           \/ label = "PUBLISHER" /\ process = publisher /\ next = "RESTORE"
    PROVE  SequenceInv'
<1>1. /\ wd = label /\ WatchdogStep /\ UNCHANGED <<progress, candidate, receipt, verifier, publisher>>
      /\ (Dead(process) /\ wd' = next) \/ wd' = wd
  BY DEF Wait, WatchdogTurn, WatchdogStep, helpers
<1>2. SequenceTypes'
  BY <1>1 DEF SequenceInv, SequenceTypes, WatchdogStep, childVars, session
<1>3. wd' # "DONE" /\ (wd' = "CHILD" => wd = "CHILD")
  BY <1>1
<1>4. ReceiptHonest'
  BY <1>3 DEF ReceiptHonest
<1>5. /\ child' = child /\ result' = result /\ written' = written /\ pending' = pending /\ seen' = seen
  BY <1>1 DEF WatchdogStep, childVars
<1>6. OneAtATime'
  <2>1. child = "EXITED" \/ Dead(child) => ~Alive
    BY DEF Dead, Alive, SequenceInv, SequenceTypes, ChildSteps
  <2> QED
    BY <1>1, <1>5, <2>1 DEF SequenceInv, OneAtATime, Alive, Dead
<1>7. CommitRight'
  <2>1. wd' \in {"PUBLISHER", "RESTORE"} \/ ~(wd \in {"PUBLISHER", "RESTORE"})
    BY <1>1
  <2>2. Verified => Verified'
    BY <1>1, <1>5 DEF Verified
  <2> QED
    BY <1>1, <1>5, <2>1, <2>2 DEF SequenceInv, CommitRight
<1> QED
  BY <1>1, <1>2, <1>3, <1>4, <1>6, <1>7, WatchdogQuiet

\* The verifier starts over a candidate nobody writes any more.
LEMMA StartVerifierInv == ASSUME SequenceInv, StartVerifier PROVE SequenceInv'
<1>1. /\ wd = "CANDIDATE" /\ WatchdogStep /\ UNCHANGED <<progress, receipt, publisher>>
      /\ (wd' = "VERIFIER" /\ verifier' = "TRACE") \/ (wd' = "RESTORE" /\ verifier' = verifier)
  BY DEF StartVerifier, WatchdogTurn, WatchdogStep
<1>2. child = "EXITED" /\ verifier = "NONE" /\ publisher = "NONE" /\ child' = child /\ result' = result
  BY <1>1 DEF SequenceInv, OneAtATime, Alive, WatchdogStep, childVars
<1>3. SequenceTypes'
  BY <1>1 DEF SequenceInv, SequenceTypes, WatchdogStep, childVars, session
<1>4. OneAtATime' /\ ReceiptHonest'
  BY <1>1, <1>2 DEF OneAtATime, ReceiptHonest, Alive, Dead
<1>5. CommitRight'
  <2>1. result = Unset /\ ~(progress /= Unset /\ progress.status = "TERMINAL")
    BY <1>1, <1>2 DEF SequenceInv, CommitRight
  <2> QED
    BY <1>1, <1>2, <2>1 DEF CommitRight
<1> QED
  BY <1>1, <1>3, <1>4, <1>5, WatchdogQuiet

\* The publisher starts over a verified candidate.
LEMMA StartPublisherInv == ASSUME SequenceInv, StartPublisher PROVE SequenceInv'
<1>1. /\ wd = "VERIFIED" /\ WatchdogStep /\ UNCHANGED <<progress, receipt, verifier, candidate>>
      /\ \/ wd' = "PUBLISHER" /\ publisher' = "START" /\ verifier = "EXIT_0"
         \/ wd' = "RESTORE" /\ publisher' = publisher
  BY DEF StartPublisher, WatchdogTurn, WatchdogStep
<1>2. /\ child = "EXITED" /\ Dead(verifier) /\ publisher = "NONE" /\ child' = child /\ result' = result
      /\ written' = written /\ pending' = pending /\ seen' = seen
  BY <1>1 DEF SequenceInv, OneAtATime, Alive, WatchdogStep, childVars
<1>3. SequenceTypes'
  BY <1>1 DEF SequenceInv, SequenceTypes, WatchdogStep, childVars, session
<1>4. OneAtATime' /\ ReceiptHonest'
  BY <1>1, <1>2 DEF OneAtATime, ReceiptHonest, Alive, Dead
<1>5. CommitRight'
  <2>1. result = Unset /\ ~(progress /= Unset /\ progress.status = "TERMINAL")
    BY <1>1, <1>2 DEF SequenceInv, CommitRight
  <2>2. verifier' = "EXIT_0" => Verified'
    BY <1>1, <1>2 DEF SequenceInv, CommitRight, Verified
  <2> QED
    BY <1>1, <1>2, <2>1, <2>2 DEF CommitRight
<1> QED
  BY <1>1, <1>3, <1>4, <1>5, WatchdogQuiet

\* The result is what ResultCommitted looks for.
LEMMA CommittedIs == ASSUME SequenceInv PROVE ResultCommitted <=> result /= Unset
  BY DEF SequenceInv, CommitRight, ResultCommitted

\* A progress without a result is pending again.
LEMMA RestoreInv == ASSUME SequenceInv, Restore PROVE SequenceInv'
<1>1. /\ wd = "RESTORE" /\ wd' = "RECEIPT" /\ WatchdogStep /\ UNCHANGED <<receipt, verifier, publisher, candidate>>
      /\ progress' = IF publisher /= "NONE" /\ ~ResultCommitted /\ progress /= Unset
                     THEN [progress EXCEPT !.status = "PENDING_VALIDATION"] ELSE progress
  BY DEF Restore, WatchdogTurn, WatchdogStep, helpers
<1>2. /\ child' = "EXITED" /\ Dead(verifier) /\ Dead(publisher) /\ result' = result
      /\ written' = written /\ pending' = pending /\ seen' = seen
  BY <1>1 DEF SequenceInv, OneAtATime, Alive, WatchdogStep, childVars
<1>3. progress \in ProgressFiles \cup {Unset}
  BY DEF SequenceInv, SequenceTypes
<1>4. /\ progress' \in ProgressFiles \cup {Unset}
      /\ \/ progress' = progress
         \/ /\ publisher /= "NONE" /\ result = Unset /\ progress \in ProgressFiles /\ progress' \in ProgressFiles
            /\ progress'.status = "PENDING_VALIDATION"
  BY <1>1, <1>3, CommittedIs DEF ProgressFiles, Statuses
<1>5. SequenceTypes'
  BY <1>1, <1>4 DEF SequenceInv, SequenceTypes, WatchdogStep, childVars, session
<1>6. OneAtATime' /\ ReceiptHonest' /\ CandidateVerifiable'
  BY <1>1, <1>2 DEF OneAtATime, ReceiptHonest, CandidateVerifiable, Alive, Dead
<1>7. RowsReplayed' /\ ChildRight'
  BY <1>2, ChildGone
<1>8. progress' /= Unset /\ progress'.status = "TERMINAL" => result /= Unset
  <2>1. SUFFICES ASSUME progress' /= Unset, progress'.status = "TERMINAL", result = Unset PROVE FALSE
    OBVIOUS
  <2>2. progress' = progress
    BY <1>4, <2>1
  <2>3. publisher /= "NONE" /\ ~ResultCommitted /\ progress /= Unset
    BY <2>1, <2>2, CommittedIs DEF SequenceInv, CommitRight
  <2>4. progress \in ProgressFiles /\ progress' = [progress EXCEPT !.status = "PENDING_VALIDATION"]
    BY <1>1, <1>3, <2>3
  <2>5. progress'.status = "PENDING_VALIDATION"
    BY <2>4 DEF ProgressFiles
  <2> QED
    BY <2>1, <2>5
<1>9. Verified => Verified'
  BY <1>1, <1>2, <1>4, UnsetAssumption DEF Verified
<1>10. publisher \notin {"COMPARE", "LINK"}
  BY <1>2 DEF Dead
<1>11. CommitRight'
  BY <1>1, <1>2, <1>4, <1>8, <1>9, <1>10 DEF SequenceInv, CommitRight
<1> QED
  BY <1>5, <1>6, <1>7, <1>11 DEF SequenceInv

\* The receipt is written from the committed result alone.
LEMMA WriteReceiptInv == ASSUME SequenceInv, WriteReceipt PROVE SequenceInv'
<1>1. /\ wd = "RECEIPT" /\ wd' = "DONE" /\ WatchdogStep /\ UNCHANGED <<progress, verifier, publisher, candidate>>
      /\ receipt' = IF ResultCommitted THEN "PASS" ELSE IF timedOut THEN "TIMEOUT" ELSE IF cancelled THEN "CANCELLED" ELSE "FAILED"
  BY DEF WriteReceipt, WatchdogTurn, WatchdogStep, helpers
<1>2. /\ child' = "EXITED" /\ Dead(verifier) /\ Dead(publisher) /\ result' = result
      /\ written' = written /\ pending' = pending /\ seen' = seen
  BY <1>1 DEF SequenceInv, OneAtATime, Alive, WatchdogStep, childVars
<1>3. SequenceTypes'
  BY <1>1 DEF SequenceInv, SequenceTypes, WatchdogStep, childVars, session
<1>4. OneAtATime'
  BY <1>1, <1>2 DEF OneAtATime, Alive, Dead
<1>5. CommitRight'
  BY <1>1, <1>2 DEF SequenceInv, CommitRight, Verified
<1>6. (receipt' = "PASS") <=> result' /= Unset
  BY <1>1, <1>2, CommittedIs
<1>7. progress' /= Unset => ((progress'.status = "TERMINAL") <=> result' /= Unset)
  BY <1>1, <1>2 DEF SequenceInv, CommitRight
<1>8. ReceiptHonest'
  BY <1>6, <1>7 DEF ReceiptHonest
<1> QED
  BY <1>1, <1>3, <1>4, <1>5, <1>8, WatchdogQuiet

LEMMA WatchdogInv == ASSUME SequenceInv, Watchdog PROVE SequenceInv'
  BY WaitInv, StartVerifierInv, StartPublisherInv, RestoreInv, WriteReceiptInv DEF Watchdog

----------------------------------------------------------------------------
\* A process that is killed leaves everything as it is.
LEMMA DieInv == ASSUME SequenceInv, Die PROVE SequenceInv'
<1>1. /\ UNCHANGED <<source, used, session, written, pending, progress, result, wdVars, seen>>
      /\ \/ ~Dead(child) /\ child' = "EXITED" /\ exit' = -1 /\ verifier' = verifier /\ publisher' = publisher
         \/ ~Dead(verifier) /\ verifier' = "KILLED" /\ UNCHANGED <<child, exit, publisher>>
         \/ ~Dead(publisher) /\ publisher' = "KILLED" /\ UNCHANGED <<child, exit, verifier>>
  BY DEF Die, files
<1>2. SequenceTypes'
  BY <1>1 DEF SequenceInv, SequenceTypes, ChildSteps, session, wdVars
<1>3. RowsReplayed' /\ ChildRight'
  <2>1. CASE child' = child /\ exit' = exit
    BY <1>1, <2>1, ChildKept DEF childVars
  <2>2. CASE child' = "EXITED"
    BY <1>1, <2>2, ChildGone
  <2> QED
    BY <1>1, <2>1, <2>2
<1>4. OneAtATime'
  <2>1. Dead(verifier) => Dead(verifier) /\ verifier' = verifier
    BY <1>1 DEF Dead
  <2> QED
    BY <1>1 DEF SequenceInv, OneAtATime, Alive, Dead, wdVars
<1>5. CommitRight'
  BY <1>1 DEF SequenceInv, CommitRight, OneAtATime, Dead, Verified, wdVars
<1>6. ReceiptHonest'
  BY <1>1 DEF SequenceInv, ReceiptHonest, wdVars
<1>7. CandidateVerifiable'
  BY <1>1 DEF SequenceInv, CandidateVerifiable, ValidReplayResult, RowValid, wdVars
<1> QED
  BY <1>2, <1>3, <1>4, <1>5, <1>6, <1>7 DEF SequenceInv

\* Neither the clock nor an edit touches what the processes hold.
LEMMA OutsideInv ==
    ASSUME SequenceInv, Deadline \/ \E f \in Files : Edit(f) PROVE SequenceInv'
<1>1. /\ UNCHANGED <<seen, childVars, session, written, pending, progress, result, wdVars, verifier, publisher>>
      /\ source' \in [Files -> Nat]
  <2>1. source \in [Files -> Nat]
    BY DEF SequenceInv, SequenceTypes
  <2> QED
    BY <2>1 DEF Deadline, Edit, files, helpers
<1>2. RowsReplayed' /\ ChildRight'
  BY <1>1, ChildKept
<1>3. SequenceTypes'
  BY <1>1 DEF SequenceInv, SequenceTypes, childVars, session, wdVars
<1>4. CandidateVerifiable'
  BY <1>1 DEF SequenceInv, CandidateVerifiable, ValidReplayResult, RowValid, childVars, wdVars
<1>5. OneAtATime' /\ ReceiptHonest' /\ CommitRight'
  BY <1>1 DEF SequenceInv, OneAtATime, Alive, Dead, ReceiptHonest, CommitRight, Verified, childVars, wdVars
<1> QED
  BY <1>2, <1>3, <1>4, <1>5 DEF SequenceInv

----------------------------------------------------------------------------
\* Every step of every process keeps it.
LEMMA SequenceStep == SequenceInv /\ [SequenceNext]_sequenceVars => SequenceInv'
<1> SUFFICES ASSUME SequenceInv, [SequenceNext]_sequenceVars PROVE SequenceInv'
  OBVIOUS
<1>1. CASE Replay
  BY <1>1, ValidateInv, OpenInv, OfferInv, AdvanceInv, ReportInv, PartialInv, RecheckInv, CandidateInv, StatusInv DEF Replay
<1> QED
  BY <1>1, SequenceStays, VerifyInv, PublishInv, WatchdogInv, DieInv, OutsideInv DEF SequenceNext

\* The child, the watchdog, the verifier and the publisher of
\* sequence_trace_cli.py hold together in every reachable state, for every
\* trace, session and number of edits and interrupts.
THEOREM SequenceInvariant == SequenceSpec => []SequenceInv
  BY SequenceInitial, SequenceStep, PTL DEF SequenceSpec

\* The watchdog's receipt says PASS exactly when a result is committed, and the
\* progress is terminal exactly then, whatever timed out or was killed.
THEOREM ReceiptIsHonest == SequenceSpec => []ReceiptHonest
<1>1. SequenceInv => ReceiptHonest
  BY DEF SequenceInv
<1> QED
  BY <1>1, SequenceInvariant, PTL

\* Nothing unverified is linked as result.json, and what replay() leaves passes
\* every check of valid_replay_result.
THEOREM ReplayIsVerified == SequenceSpec => []ReplayVerified
<1>1. SequenceInv => ReplayVerified
  <2> SUFFICES ASSUME SequenceInv PROVE CommitVerified
    BY DEF SequenceInv, ReplayVerified
  <2> SUFFICES ASSUME result /= Unset
               PROVE  /\ result.used = seen
                      /\ [n \in DOMAIN written |-> written[n].work] = Works /\ result.done = Works
                      /\ result.cycles = CyclesOf(written)
    BY DEF CommitVerified
  <2>1. result = pending /\ Verified
    BY DEF SequenceInv, CommitRight
  <2>2. /\ written \in Seq(TraceRow) /\ Works \in Seq(TraceIds) /\ Len(written) = Len(Works)
        /\ \A n \in 1 .. Len(written) : written[n].work = Works[n]
    BY <2>1, SelectionAssumption DEF SequenceInv, SequenceTypes, RowsReplayed, RowValid, Verified
  <2>3. DOMAIN written = 1 .. Len(Works) /\ DOMAIN Works = 1 .. Len(Works) /\ Works = [n \in DOMAIN Works |-> Works[n]]
    BY <2>2
  <2>4. [n \in DOMAIN written |-> written[n].work] = Works
    BY <2>2, <2>3
  <2> QED
    BY <2>1, <2>4 DEF Verified
<1> QED
  BY <1>1, SequenceInvariant, PTL
=============================================================================
