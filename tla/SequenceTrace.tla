--------------------------- MODULE SequenceTrace ---------------------------
(***************************************************************************)
(* The diagnostic replay of a trace in one native session                  *)
(* (sequence_trace_cli.py): the replaying child, the watchdog that bounds  *)
(* and reaps it, the verifier that recomputes its candidate and the        *)
(* publisher that commits the candidate by a link.  The files they read    *)
(* may be edited meanwhile; a new version never has an old one's digest.   *)
(* The session answers with some ordered window for each work.             *)
(***************************************************************************)
EXTENDS Integers, Sequences, FiniteSets

CONSTANTS
    Unset,
    TraceWorks,     \* the trace's works, in order: [id, parent]
    ThroughParent,  \* --through-parent-index, or None
    PilotCount,     \* --pilot-work-count, or None
    Windows,        \* what the session may answer: [accept, result, scale, ready] delays
    TagPeaks,       \* tag peaks the session may report
    TagLimit,       \* profile_domain: max_tag_occupancy of the revision
    MaxEdits,
    MaxCancels

\* selected_works: a prefix of the parents, then a prefix of their works.
Parents == [n \in DOMAIN TraceWorks |-> TraceWorks[n].parent]
ParentIndex(parent) ==
    LET first == CHOOSE n \in DOMAIN Parents : Parents[n] = parent /\ \A m \in 1 .. (n - 1) : Parents[m] /= parent
    IN  Cardinality({Parents[m] : m \in 1 .. (first - 1)})
Works ==
    LET through == SelectSeq(TraceWorks, LAMBDA w : ThroughParent = Unset \/ ParentIndex(w.parent) <= ThroughParent)
        chosen  == IF PilotCount = Unset THEN through ELSE SubSeq(through, 1, PilotCount)
    IN  [n \in DOMAIN chosen |-> chosen[n].id]

TraceIds == {TraceWorks[n].id : n \in DOMAIN TraceWorks}

ASSUME SelectionAssumption ==
    Works \in Seq(TraceIds) /\ Works /= << >> /\ (PilotCount = Unset \/ Len(Works) = PilotCount)

ASSUME SessionAssumption ==
    Windows \subseteq [accept : Nat, result : Nat, scale : Nat, ready : Nat] /\ TagPeaks \subseteq Nat /\ TagLimit \in Nat

Files == {"trace", "library"}   \* library stands for all of source_identity and source_hashes

VARIABLES
    source, edits,      \* version of each file
    child, exit,        \* step of replay() and its return code
    used,               \* digests the child took when it loaded
    cursor, peak, report,   \* the native session
    progress, written, pending, failure, result,   \* the output directory
    wd, late, timedOut, cancelled, cancels,     \* the watchdog
    candidate,          \* its copy of the candidate's identity and digest
    verifier, seen,     \* the verifier and the digests it took
    publisher,
    signalled,          \* children that have been told to terminate
    receipt

files == <<progress, written, pending, failure, result>>
session == <<cursor, peak, report>>
childVars == <<child, exit, used>>
wdVars == <<wd, timedOut, cancelled, candidate, receipt>>
helpers == <<verifier, seen, publisher>>
clock == <<late, cancels, signalled>>
sequenceVars == <<source, edits, childVars, session, files, wdVars, helpers, clock>>

Unknown == [f \in Files |-> 0]
Progress(status, done, active, at, cycles) ==
    [status |-> status, done |-> done, active |-> active, cursor |-> at, cycles |-> cycles]

\* What progress.json and the candidate hold, once they are written.
Statuses == {"LOADING", "ACTIVE", "FAILED", "PARTIAL", "PENDING_VALIDATION", "TERMINAL"}
ProgressFiles ==
    [status : Statuses, done : Seq(TraceIds), active : TraceIds \cup {Unset}, cursor : Nat, cycles : Nat]
CandidateFiles == [used : [Files -> Nat], done : Seq(TraceIds), cursor : Nat, cycles : Nat]

ASSUME UnsetAssumption == Unset \notin ProgressFiles /\ Unset \notin CandidateFiles

SequenceInit ==
    /\ source = [f \in Files |-> 1] /\ edits = 0
    /\ child = "VALIDATE" /\ exit = Unset /\ used = Unknown
    /\ cursor = 0 /\ peak = 0 /\ report = Unset
    /\ progress = Unset /\ written = << >> /\ pending = Unset /\ failure = FALSE /\ result = Unset
    /\ wd = "CHILD" /\ late = FALSE /\ timedOut = FALSE /\ cancelled = FALSE /\ cancels = 0
    /\ candidate = Unset /\ receipt = Unset
    /\ verifier = "NONE" /\ seen = Unknown /\ publisher = "NONE"
    /\ signalled = {}

(***************************************************************************)
(* replay()                                                                *)
(***************************************************************************)
Alive == child /= "EXITED"
Turn(label) == child = label /\ UNCHANGED <<source, edits, wdVars, helpers, clock>>
Goto(label) == child' = label /\ UNCHANGED exit
Return(code) == child' = "EXITED" /\ exit' = code

\* An exception leaves failure.json, unless there is one, and exits with 1.
Fail == Return(1) /\ failure' = TRUE

\* The digests that load_trace takes, and source_identity and source_hashes.
LoadTrace == source["trace"]
SourceIdentity == source["library"]

Validate ==
    /\ Turn("VALIDATE")
    /\ used' = [trace |-> LoadTrace, library |-> SourceIdentity]
    /\ progress' = Progress("LOADING", << >>, Unset, 0, 0)
    /\ Goto("OPEN")
    /\ UNCHANGED <<session, written, pending, failure, result>>

\* SequenceSession.__enter__ takes the identity again.
Open ==
    /\ Turn("OPEN")
    /\ IF SourceIdentity = used["library"] THEN Goto("OFFER") /\ UNCHANGED failure ELSE Fail
    /\ UNCHANGED <<used, session, progress, written, pending, result>>

Current == Works[Len(written) + 1]

\* Fault: every work is offered at the start of the session.
OfferAtStart == 0

OfferCycle == cursor

\* The next work is offered at the cursor; the session answers, after any
\* number of soft budgets, with its report.
Offer ==
    /\ Turn("OFFER") /\ Len(written) < Len(Works)
    /\ progress' = [progress EXCEPT !.status = "ACTIVE", !.active = Current, !.cursor = cursor]
    /\ Goto("ADVANCE")
    /\ UNCHANGED <<used, session, written, pending, failure, result>>

Advance ==
    /\ Turn("ADVANCE")
    /\ \E w \in Windows, p \in TagPeaks :
          LET accepted == cursor + w.accept  done == accepted + w.result
              released == done + w.scale     ready == released + w.ready
          IN
          /\ p >= peak /\ peak' = p
          /\ cursor' = ready
          /\ report' = [work |-> Current, offered |-> OfferCycle, accepted |-> accepted, result |-> done,
                        scale |-> released, ready |-> ready, peak |-> p, cycles |-> done - accepted]
          /\ progress' = [progress EXCEPT !.cursor = ready]
    /\ Goto("REPORT")
    /\ UNCHANGED <<used, written, pending, failure, result>>

\* completed_domain_failure; the session echoes the offer of the work.
DomainFailure ==
    \/ report.work /= Current
    \/ ~(report.offered <= report.accepted /\ report.accepted < report.result
         /\ report.result <= report.scale /\ report.scale <= report.ready)
    \/ report.ready /= cursor \/ report.peak > TagLimit

\* One row on disk, or failure.json and no row.
Report ==
    /\ Turn("REPORT")
    /\ IF ~DomainFailure
       THEN /\ written' = Append(written, report) /\ Goto("PARTIAL")
            /\ UNCHANGED <<progress, failure>>
       ELSE /\ progress' = [progress EXCEPT !.status = "FAILED"] /\ Fail
            /\ UNCHANGED written
    /\ report' = Unset
    /\ UNCHANGED <<used, cursor, peak, pending, result>>

Partial ==
    /\ Turn("PARTIAL")
    /\ LET row == written[Len(written)] IN
       progress' = Progress("PARTIAL", Append(progress.done, row.work), Unset, row.ready, progress.cycles + row.cycles)
    /\ Goto(IF Len(written) = Len(Works) THEN "RECHECK_LIBRARY" ELSE "OFFER")
    /\ UNCHANGED <<used, session, written, pending, failure, result>>

\* verify_identity and verify_source_hashes; then the trace and the rest.
Recheck(label, f, next) ==
    /\ Turn(label)
    /\ IF source[f] = used[f] THEN Goto(next) /\ UNCHANGED failure ELSE Fail
    /\ UNCHANGED <<used, session, progress, written, pending, result>>

\* The candidate is written under a name of its own, then the progress.
Candidate ==
    /\ Turn("CANDIDATE")
    /\ pending' = [used |-> used, done |-> progress.done, cursor |-> progress.cursor, cycles |-> progress.cycles]
    /\ Goto("STATUS")
    /\ UNCHANGED <<used, session, progress, written, failure, result>>

Status ==
    /\ Turn("STATUS")
    /\ progress' = [progress EXCEPT !.status = "PENDING_VALIDATION"]
    /\ Return(0)
    /\ UNCHANGED <<used, session, written, pending, failure, result>>

Replay ==
    \/ Validate \/ Open \/ Offer \/ Advance \/ Report \/ Partial
    \/ Recheck("RECHECK_LIBRARY", "library", "RECHECK_TRACE")
    \/ Recheck("RECHECK_TRACE", "trace", "CANDIDATE")
    \/ Candidate \/ Status

(***************************************************************************)
(* valid_replay_result: everything is recomputed from the files            *)
(***************************************************************************)
RowValid(n) ==
    LET row == written[n]
        before == IF n = 1 THEN [ready |-> 0, peak |-> 0] ELSE written[n - 1]
    IN
    /\ row.work = Works[n]
    /\ row.offered = before.ready
    /\ row.offered <= row.accepted /\ row.accepted < row.result
    /\ row.result <= row.scale /\ row.scale <= row.ready
    /\ row.cycles = row.result - row.accepted
    /\ before.peak <= row.peak /\ row.peak <= TagLimit

CyclesOf(rows) ==
    LET upTo[n \in 0 .. Len(rows)] == IF n = 0 THEN 0 ELSE upTo[n - 1] + rows[n].cycles
    IN  upTo[Len(rows)]

\* Fault: the digests of trace and library are not compared.
ValidWithoutDigests(digests) ==
    /\ pending /= Unset /\ pending.done = Works /\ Len(written) = Len(Works)
    /\ \A n \in DOMAIN written : RowValid(n)

ValidReplayResult(digests) ==
    /\ pending /= Unset /\ progress /= Unset
    /\ pending.done = Works /\ Len(written) = Len(Works)
    /\ pending.used = digests
    /\ \A n \in DOMAIN written : RowValid(n)
    /\ pending.cursor = written[Len(written)].ready /\ pending.cycles = CyclesOf(written)
    /\ progress.status = "PENDING_VALIDATION"
    /\ progress.done = pending.done /\ progress.active = Unset
    /\ progress.cursor = pending.cursor /\ progress.cycles = pending.cycles

Verify ==
    /\ \/ /\ verifier = "TRACE" /\ verifier' = "LIBRARY"
          /\ seen' = [seen EXCEPT !["trace"] = source["trace"]]
       \/ /\ verifier = "LIBRARY" /\ verifier' = "DECIDE"
          /\ seen' = [seen EXCEPT !["library"] = source["library"]]
       \/ /\ verifier = "DECIDE"
          /\ verifier' = IF ValidReplayResult(seen) THEN "EXIT_0" ELSE "EXIT_1"
          /\ UNCHANGED seen
    /\ UNCHANGED <<source, edits, childVars, session, files, wdVars, publisher, clock>>

(***************************************************************************)
(* publish_candidate                                                       *)
(***************************************************************************)
Publish ==
    /\ UNCHANGED <<source, edits, childVars, session, written, pending, failure, wdVars, verifier, seen, clock>>
    /\ \/ /\ publisher = "START"
          /\ publisher' = IF late \/ progress.status /= "PENDING_VALIDATION" THEN "EXIT_1" ELSE "PROGRESS"
          /\ UNCHANGED <<progress, result>>
       \/ /\ publisher = "PROGRESS"
          /\ progress' = [progress EXCEPT !.status = "TERMINAL"]
          /\ publisher' = "COMPARE" /\ UNCHANGED result
       \/ /\ publisher = "COMPARE"
          /\ publisher' = IF late \/ pending /= candidate THEN "EXIT_1" ELSE "LINK"
          /\ UNCHANGED <<progress, result>>
       \/ /\ publisher = "LINK"
          /\ result' = pending /\ publisher' = "LINKED" /\ UNCHANGED progress
       \/ /\ publisher = "LINKED"
          /\ publisher' = "EXIT_0" /\ UNCHANGED <<progress, result>>

(***************************************************************************)
(* watchdog()                                                              *)
(***************************************************************************)
Dead(process) == process \in {"NONE", "EXITED", "EXIT_0", "EXIT_1", "KILLED"}

WatchdogTurn == UNCHANGED <<source, edits, childVars, session, written, pending, failure, result, late>>

\* wait(timeout): the child's end, the deadline or an interrupt.  A child that
\* is still alive is told to terminate and waited for.
Wait(label, who, process, next) ==
    /\ wd = label /\ WatchdogTurn
    /\ UNCHANGED <<candidate, receipt, helpers, progress>>
    /\ \/ /\ Dead(process) /\ wd' = next /\ UNCHANGED <<timedOut, cancelled, cancels, signalled>>
       \/ /\ ~Dead(process) /\ who \notin signalled /\ late
          /\ timedOut' = TRUE /\ signalled' = signalled \cup {who} /\ UNCHANGED <<wd, cancelled, cancels>>
       \/ /\ ~Dead(process) /\ who \notin signalled /\ cancels < MaxCancels
          /\ cancelled' = TRUE /\ signalled' = signalled \cup {who} /\ cancels' = cancels + 1
          /\ UNCHANGED <<wd, timedOut>>

\* The candidate is hashed and a verifier started; Popen may fail.
StartVerifier ==
    /\ wd = "CANDIDATE" /\ WatchdogTurn
    /\ UNCHANGED <<cancelled, cancels, receipt, seen, publisher, signalled, progress>>
    /\ IF exit = 0 /\ ~timedOut /\ ~cancelled /\ pending /= Unset
       THEN /\ candidate' = pending
            /\ IF late THEN timedOut' = TRUE /\ wd' = "RESTORE" /\ UNCHANGED verifier
               ELSE /\ UNCHANGED timedOut
                    /\ \/ verifier' = "TRACE" /\ wd' = "VERIFIER"
                       \/ UNCHANGED verifier /\ wd' = "RESTORE"
       ELSE wd' = "RESTORE" /\ UNCHANGED <<timedOut, candidate, verifier>>

StartPublisher ==
    /\ wd = "VERIFIED" /\ WatchdogTurn
    /\ UNCHANGED <<cancelled, cancels, receipt, candidate, verifier, seen, signalled, progress>>
    /\ IF verifier = "EXIT_0" /\ ~timedOut /\ ~cancelled
       THEN IF late THEN timedOut' = TRUE /\ wd' = "RESTORE" /\ UNCHANGED publisher
            ELSE /\ UNCHANGED timedOut
                 /\ \/ publisher' = "START" /\ wd' = "PUBLISHER"
                    \/ UNCHANGED publisher /\ wd' = "RESTORE"
       ELSE wd' = "RESTORE" /\ UNCHANGED <<timedOut, publisher>>

\* Fault: a publisher that did not exit with 0 has committed nothing.
CommittedByExit == publisher = "EXIT_0"

\* The commit is the linked inode, whatever became of the publisher.
ResultCommitted == publisher /= "NONE" /\ result /= Unset /\ result = candidate

\* A candidate that was not committed is pending again.
Restore ==
    /\ wd = "RESTORE" /\ WatchdogTurn
    /\ timedOut' = (timedOut \/ (late /\ ~cancelled))
    /\ progress' = IF publisher /= "NONE" /\ ~ResultCommitted /\ progress /= Unset
                   THEN [progress EXCEPT !.status = "PENDING_VALIDATION"] ELSE progress
    /\ wd' = "RECEIPT"
    /\ UNCHANGED <<cancelled, cancels, candidate, receipt, helpers, signalled>>

WriteReceipt ==
    /\ wd = "RECEIPT" /\ WatchdogTurn
    /\ receipt' = IF ResultCommitted THEN "PASS" ELSE IF timedOut THEN "TIMEOUT" ELSE IF cancelled THEN "CANCELLED" ELSE "FAILED"
    /\ wd' = "DONE"
    /\ UNCHANGED <<timedOut, cancelled, cancels, candidate, helpers, signalled, progress>>

\* Fault: only the replaying child is bounded by the deadline.
WatchdogUnboundedVerifier ==
    \/ Wait("CHILD", "child", child, "CANDIDATE")
    \/ StartVerifier
    \/ wd = "VERIFIER" /\ Dead(verifier) /\ Wait("VERIFIER", "verifier", verifier, "VERIFIED")
    \/ StartPublisher
    \/ Wait("PUBLISHER", "publisher", publisher, "RESTORE")
    \/ Restore \/ WriteReceipt

Watchdog ==
    \/ Wait("CHILD", "child", child, "CANDIDATE")
    \/ StartVerifier
    \/ Wait("VERIFIER", "verifier", verifier, "VERIFIED")
    \/ StartPublisher
    \/ Wait("PUBLISHER", "publisher", publisher, "RESTORE")
    \/ Restore \/ WriteReceipt

(***************************************************************************)
(* The environment: signals arrive (reap_owned ends with SIGKILL), the     *)
(* deadline passes, files are edited.                                      *)
(***************************************************************************)
Die ==
    /\ UNCHANGED <<source, edits, used, session, files, wdVars, seen, clock>>
    /\ \/ /\ "child" \in signalled /\ ~Dead(child) /\ child' = "EXITED" /\ exit' = -1 /\ UNCHANGED <<verifier, publisher>>
       \/ /\ "verifier" \in signalled /\ ~Dead(verifier) /\ verifier' = "KILLED" /\ UNCHANGED <<child, exit, publisher>>
       \/ /\ "publisher" \in signalled /\ ~Dead(publisher) /\ publisher' = "KILLED" /\ UNCHANGED <<child, exit, verifier>>

Deadline == ~late /\ late' = TRUE /\ UNCHANGED <<source, edits, childVars, session, files, wdVars, helpers, cancels, signalled>>

Edit(f) ==
    /\ edits < MaxEdits
    /\ source' = [source EXCEPT ![f] = @ + 1] /\ edits' = edits + 1
    /\ UNCHANGED <<childVars, session, files, wdVars, helpers, clock>>

SequenceNext == Replay \/ Verify \/ Publish \/ Watchdog \/ Die \/ Deadline \/ \E f \in Files : Edit(f)

\* Only the watchdog, the clock and the kernel are fair: a child may hang.
SequenceSpec == SequenceInit /\ [][SequenceNext]_sequenceVars /\ WF_sequenceVars(Watchdog) /\ WF_sequenceVars(Die) /\ WF_sequenceVars(Deadline)

(***************************************************************************)
(* Properties                                                              *)
(***************************************************************************)
\* The receipt tells the truth whatever timed out, was cancelled or died on
\* the way: PASS exactly when the result is committed, and then the progress
\* on disk is terminal, and it is not when nothing was committed.
ReceiptHonest ==
    wd = "DONE" =>
        /\ (receipt = "PASS") = (result /= Unset)
        /\ progress /= Unset => (progress.status = "TERMINAL") = (result /= Unset)

\* A committed result replays every selected work, and the trace and library
\* it was computed from were still the ones in place when it was verified.
CommitVerified ==
    result /= Unset =>
        /\ result.used = seen
        /\ [n \in DOMAIN written |-> written[n].work] = Works /\ result.done = Works
        /\ result.cycles = CyclesOf(written)

\* Writer and verifier agree: what a replay leaves as its candidate passes
\* every check of the verifier, its digests taken as they were used.
CandidateVerifiable == child = "EXITED" /\ exit = 0 /\ wd = "CHILD" => ValidReplayResult(used)

\* The watchdog ends with a receipt and no child left, even when a child hangs.
WatchdogEnds == <>(wd = "DONE" /\ Dead(child) /\ Dead(verifier) /\ Dead(publisher))

\* Nothing unverified is committed and nothing verifiable is refused.
ReplayVerified == CommitVerified /\ CandidateVerifiable
=============================================================================
