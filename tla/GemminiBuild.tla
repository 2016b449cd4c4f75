---------------------------- MODULE GemminiBuild ----------------------------
(***************************************************************************)
(* scripts/gemmini_build.py, its build binding and scripts/gemmini_export:  *)
(* the stages of a build in one output directory, run one after the other   *)
(* by a user who may edit the sources, choose a llama checkout, kill a run  *)
(* and call the exporter by hand.  A source tree is a version that never    *)
(* comes back; an artifact is the record of what it was made from.          *)
(***************************************************************************)
EXTENDS Naturals, Sequences
CONSTANTS Stages, Roots, DefaultRoot,   \* the llama checkouts, and the one used without --llama-root
          MaxSourceEdits, MaxFaults, MaxRuns,
          Missing

ASSUME BuildAssumption ==
    /\ Stages \subseteq {"plan", "rtl", "test", "host-test", "synth", "export"}
    /\ DefaultRoot \in Roots /\ MaxSourceEdits \in Nat /\ MaxFaults \in Nat /\ MaxRuns \in Nat

VARIABLES source, llama,   \* versions of the repository and of the llama checkouts
          request,         \* the run: stage, root, the llama identity it was given, results so far
          phase, commands,
          fs,              \* the output directory
          pkg,             \* its export/ directory, or None
          archive,         \* export.tar.gz, or None
          verdict,         \* of verify_build on the directory as it is
          sourceEdits, faults, runs
buildVars == <<source, llama, request, phase, commands, fs, pkg, archive, verdict, sourceEdits, faults, runs>>

Absent ==
    [exists |-> FALSE, rtl |-> Missing, resolved |-> Missing, inputs |-> Missing, lib |-> Missing, aware |-> Missing, audit |-> Missing,
     test |-> Missing, log |-> [short |-> Missing, full |-> Missing], binding |-> Missing, doc |-> Missing]

TypeOK ==
    /\ phase \in {"idle", "parsed", "planned", "running", "collect", "copy", "lock", "archive"}
    /\ source \in Nat /\ llama \in [Roots -> Nat] /\ verdict \in {"none", "accepted", "refused"}
    /\ fs.exists \in BOOLEAN

BuildInit ==
    /\ source = 0 /\ llama = [r \in Roots |-> 0]
    /\ request = Missing /\ phase = "idle" /\ commands = << >>
    /\ fs = Absent /\ pkg = Missing /\ archive = Missing /\ verdict = "none"
    /\ sourceEdits = 0 /\ faults = 0 /\ runs = 0

(***************************************************************************)
(* The environment                                                          *)
(***************************************************************************)
EditSource ==
    /\ sourceEdits < MaxSourceEdits /\ sourceEdits' = sourceEdits + 1
    /\ source' = source + 1 /\ verdict' = "none"
    /\ UNCHANGED <<llama, request, phase, commands, fs, pkg, archive, faults, runs>>

EditLlama(r) ==
    /\ sourceEdits < MaxSourceEdits /\ sourceEdits' = sourceEdits + 1
    /\ llama' = [llama EXCEPT ![r] = @ + 1]
    /\ UNCHANGED <<source, request, phase, commands, fs, pkg, archive, verdict, faults, runs>>

(***************************************************************************)
(* Planning                                                                 *)
(***************************************************************************)
\* _llama_identity: only a root that was named is recorded.
LlamaIdentity(root) == IF root = Missing THEN Missing ELSE <<root, llama[root]>>
LlamaRoot(root) == IF root = Missing THEN DefaultRoot ELSE root

ParseRequest(stage, root) ==
    /\ phase = "idle" /\ runs < MaxRuns /\ runs' = runs + 1
    /\ request' = [stage |-> stage, root |-> root, identity |-> LlamaIdentity(root), passed |-> TRUE, plan |-> "full"]
    /\ phase' = "parsed"
    /\ UNCHANGED <<source, llama, commands, fs, pkg, archive, verdict, sourceEdits, faults>>

\* _validate_request; a refusal leaves everything as it is.
ValidRequest ==
    /\ request.identity = LlamaIdentity(request.root)
    /\ request.stage # "export" => ~fs.exists
    /\ request.stage = "export" => pkg = Missing /\ archive = Missing

RtlCommands == <<"overlay", "elaborate", "lint">>

\* Fault: every export elaborates again.
ReusableNever == FALSE

\* The emitted top is there as a regular file, whatever it was emitted from.
Reusable == fs.rtl # Missing

HostValidationCommands(rtl) ==
    rtl \o <<"configure", "build", "run_aware", "ctest", "audit", "compile", "run">>

Commands(stage) ==
    CASE stage = "plan" -> << >>
      [] stage = "rtl" -> RtlCommands
      [] stage = "test" -> <<"overlay", "sbt_test">>
      [] stage = "host-test" -> HostValidationCommands(RtlCommands)
      [] stage = "export" -> HostValidationCommands(IF Reusable THEN <<"lint">> ELSE RtlCommands)
      [] stage = "synth" -> RtlCommands \o <<"vivado">>

Idle == phase' = "idle" /\ request' = Missing /\ commands' = << >>

\* A dry run ends here as well.
Plan ==
    /\ phase = "parsed"
    /\ \/ /\ ValidRequest
          /\ phase' = "planned" /\ commands' = Commands(request.stage)
          /\ request' = [request EXCEPT !.plan = IF request.stage = "export" /\ Reusable THEN "short" ELSE "full"]
       \/ Idle
    /\ UNCHANGED <<source, llama, fs, pkg, archive, verdict, sourceEdits, faults, runs>>

\* build_inputs: the digests of the hardware and fixture sources and the
\* llama identity of the request
BuildInputs(identity) == [source |-> source, llama |-> identity]

\* The directory, the inputs of a host test and the resolved profile
Prepare ==
    /\ phase = "planned"
    /\ phase' = "running"
    /\ fs' = [fs EXCEPT !.exists = TRUE, !.resolved = request.identity,
                        !.inputs = IF request.stage = "host-test" THEN BuildInputs(request.identity) ELSE @]
    /\ verdict' = "none"
    /\ UNCHANGED <<source, llama, request, commands, pkg, archive, sourceEdits, faults, runs>>

(***************************************************************************)
(* Commands                                                                 *)
(***************************************************************************)
\* verilator needs a file list of complete RTL, the tests a host library.
CanRun(command) ==
    CASE command \in {"lint", "vivado"} -> fs.rtl # Missing /\ fs.rtl.whole
      [] command \in {"run_aware", "compile"} -> fs.rtl # Missing /\ fs.rtl.whole /\ fs.lib # Missing
      [] command \in {"ctest", "audit"} -> fs.lib # Missing
      [] OTHER -> TRUE

\* What a command leaves behind when it ends, or (whole = FALSE) is cut off
Effect(command, whole) ==
    CASE command = "elaborate" -> [fs EXCEPT !.rtl = [source |-> source, whole |-> whole]]
      [] command = "build" -> [fs EXCEPT !.lib = [source |-> source, llama |-> <<LlamaRoot(request.root), llama[LlamaRoot(request.root)]>>,
                                                  whole |-> whole]]
      [] command = "run_aware" -> [fs EXCEPT !.aware = [rtl |-> fs.rtl, lib |-> fs.lib, whole |-> whole]]
      [] command = "audit" /\ whole -> [fs EXCEPT !.audit = fs.lib]
      [] command = "compile" -> [fs EXCEPT !.test = [rtl |-> fs.rtl, lib |-> fs.lib, whole |-> whole]]
      [] command = "run" -> [fs EXCEPT !.log[request.plan] = IF whole THEN fs.test ELSE Missing]
      [] OTHER -> fs

Execute ==
    /\ phase = "running" /\ commands # << >> /\ CanRun(Head(commands))
    /\ fs' = Effect(Head(commands), TRUE)
    /\ commands' = Tail(commands) /\ verdict' = "none"
    /\ UNCHANGED <<source, llama, request, phase, pkg, archive, sourceEdits, faults, runs>>

\* It fails, at once for want of its input or after part of its work; the
\* rest is not run.
Failing(after) ==
    /\ phase = "running" /\ commands # << >>
    /\ \/ after = fs /\ ~CanRun(Head(commands)) /\ UNCHANGED faults
       \/ after \in {fs, Effect(Head(commands), FALSE)} /\ CanRun(Head(commands)) /\ faults < MaxFaults /\ faults' = faults + 1
    /\ fs' = after
    /\ commands' = << >> /\ request' = [request EXCEPT !.passed = FALSE] /\ verdict' = "none"
    /\ UNCHANGED <<source, llama, phase, pkg, archive, sourceEdits, runs>>
Fail == \E after \in {fs, IF commands = << >> THEN fs ELSE Effect(Head(commands), FALSE)} : Failing(after)

(***************************************************************************)
(* The end of a run                                                         *)
(***************************************************************************)
\* Fault: the inputs are not looked at again.
SealableAsStarted == TRUE

\* seal_build and the second look at the llama root before it
Sealable ==
    /\ request.identity = LlamaIdentity(request.root)
    /\ fs.inputs = BuildInputs(fs.inputs.llama)
    /\ fs.resolved = fs.inputs.llama

Artifacts == [rtl |-> fs.rtl, test |-> fs.test, lib |-> fs.lib, aware |-> fs.aware]

Document == [passed |-> request.passed, log |-> request.plan, root |-> request.root]

\* A host test that passed is sealed, or the run ends without any document.
\* result.json and stage-host-test.json say the same; the exporter takes
\* either.  An export writes the host-test document, then hands over.
Finish ==
    /\ phase = "running" /\ commands = << >>
    /\ CASE request.stage = "host-test" /\ request.passed ->
              /\ Idle
              /\ fs' = IF Sealable THEN [fs EXCEPT !.binding = [inputs |-> fs.inputs, artifacts |-> Artifacts], !.doc = Document] ELSE fs
         [] request.stage = "host-test" /\ ~request.passed -> Idle /\ fs' = [fs EXCEPT !.doc = Document]
         [] request.stage = "export" ->
              /\ fs' = [fs EXCEPT !.doc = Document]
              /\ IF request.passed THEN phase' = "collect" /\ UNCHANGED <<request, commands>> ELSE Idle
         [] OTHER -> Idle /\ UNCHANGED fs
    /\ UNCHANGED <<source, llama, pkg, archive, verdict, sourceEdits, faults, runs>>

(***************************************************************************)
(* create_export                                                            *)
(***************************************************************************)
\* By hand: `gemmini_export.py create`, with or without a llama root
CreateByHand(root) ==
    /\ phase = "idle" /\ runs < MaxRuns /\ runs' = runs + 1
    /\ request' = [stage |-> "create", root |-> root, identity |-> Missing, passed |-> TRUE, plan |-> "full"]
    /\ phase' = "collect"
    /\ UNCHANGED <<source, llama, commands, fs, pkg, archive, verdict, sourceEdits, faults>>

UniqueTop(rtl) == rtl # Missing /\ rtl.whole
RuntimeLog(log) == log # Missing

\* attach_integrated_evidence and require_host_test_profile: a passing
\* host-test document, the RTL of the file list, the log it names, an audit
\* of the host artifact as it is now, a test binary (whichever it is)
EvidenceComplete ==
    /\ fs.doc # Missing /\ fs.doc.passed
    /\ UniqueTop(fs.rtl) /\ RuntimeLog(fs.log[fs.doc.log])
    /\ fs.audit # Missing /\ fs.audit = fs.lib /\ fs.test # Missing

Collect ==
    /\ phase = "collect"
    /\ IF pkg = Missing /\ EvidenceComplete
       THEN /\ phase' = "copy" /\ UNCHANGED <<request, commands>>
            /\ pkg' = [audit |-> fs.audit, test |-> fs.test, source |-> Missing, rtl |-> Missing, log |-> Missing, llama |-> Missing, lock |-> Missing,
                       sums |-> FALSE, verified |-> FALSE]
       ELSE Idle /\ UNCHANGED pkg
    /\ UNCHANGED <<source, llama, fs, archive, verdict, sourceEdits, faults, runs>>

\* The handoff of an export does not name the llama root of the build.
ExportRoot == IF request.stage = "create" THEN LlamaRoot(request.root) ELSE DefaultRoot

\* The sources, what was generated and the llama sources, one after the other
CopyPackage ==
    /\ phase = "copy"
    /\ CASE pkg.source = Missing -> pkg' = [pkg EXCEPT !.source = <<source>>] /\ UNCHANGED phase
         [] pkg.source # Missing /\ pkg.rtl = Missing -> pkg' = [pkg EXCEPT !.rtl = fs.rtl, !.log = fs.log[fs.doc.log]] /\ UNCHANGED phase
         [] pkg.rtl # Missing -> pkg' = [pkg EXCEPT !.llama = <<ExportRoot, llama[ExportRoot]>>] /\ phase' = "lock"
    /\ UNCHANGED <<source, llama, request, commands, fs, archive, verdict, sourceEdits, faults, runs>>

\* dependency_snapshot, the manifests and SHA256SUMS
LockOutput ==
    /\ phase = "lock" /\ phase' = "archive"
    /\ pkg' = [pkg EXCEPT !.lock = <<ExportRoot, llama[ExportRoot]>>, !.sums = TRUE]
    /\ UNCHANGED <<source, llama, request, commands, fs, archive, verdict, sourceEdits, faults, runs>>

\* The packaged evidence must be as complete as the evidence in place.
IntegratedClosure == UniqueTop(pkg.rtl) /\ RuntimeLog(pkg.log)
VerifyExport == pkg.sums /\ IntegratedClosure

\* verify, make_archive, then extract and verify the copy
Archive ==
    /\ phase = "archive" /\ Idle
    /\ pkg' = [pkg EXCEPT !.verified = VerifyExport]
    /\ archive' = IF VerifyExport /\ archive = Missing THEN pkg' ELSE archive
    /\ UNCHANGED <<source, llama, fs, verdict, sourceEdits, faults, runs>>

\* The run is killed, or a check of a tool or a file raises.
KillBuild ==
    /\ phase # "idle" /\ faults < MaxFaults /\ faults' = faults + 1
    /\ fs' \in {fs} \cup IF phase = "running" /\ commands # << >> /\ CanRun(Head(commands)) THEN {Effect(Head(commands), FALSE)} ELSE {}
    /\ Idle /\ verdict' = "none"
    /\ UNCHANGED <<source, llama, pkg, archive, sourceEdits, runs>>

(***************************************************************************)
(* verify_build                                                             *)
(***************************************************************************)
ValidBinding == fs.binding # Missing /\ fs.binding.inputs.source = source

VerifyBuild ==
    /\ phase = "idle" /\ verdict = "none" /\ fs.exists
    /\ verdict' = IF ValidBinding /\ fs.resolved = fs.binding.inputs.llama /\ fs.binding.artifacts = Artifacts
                  THEN "accepted" ELSE "refused"
    /\ UNCHANGED <<source, llama, request, phase, commands, fs, pkg, archive, sourceEdits, faults, runs>>

BuildNext ==
    \/ EditSource \/ \E r \in Roots : EditLlama(r)
    \/ \E stage \in Stages, root \in Roots \cup {Missing} : ParseRequest(stage, root)
    \/ Plan \/ Prepare \/ Execute \/ Fail \/ Finish
    \/ \E root \in Roots \cup {Missing} : CreateByHand(root)
    \/ Collect \/ CopyPackage \/ LockOutput \/ Archive \/ KillBuild \/ VerifyBuild

BuildSpec == BuildInit /\ [][BuildNext]_buildVars

(***************************************************************************)
(* Properties                                                               *)
(***************************************************************************)
\* A build that verify_build accepts was made, every part of it, from the
\* sources as they are now and, when a llama root was named, from that root
\* as it was identified: no edit during the minutes of the build and no
\* later run in the same directory leaves a mixture that passes.
AcceptedBuildExact ==
    verdict = "accepted" =>
        /\ fs.rtl = [source |-> source, whole |-> TRUE]
        /\ fs.lib.source = source /\ fs.lib.whole
        /\ fs.test = [rtl |-> fs.rtl, lib |-> fs.lib, whole |-> TRUE]
        /\ fs.aware = fs.test
        /\ fs.resolved # Missing => fs.lib.llama = fs.resolved

\* The RTL of a verified package is the RTL that the packaged log shows to
\* have passed, also when the document is of an earlier host test, the
\* package was made by hand and runs between were killed.
PackageTested ==
    \A p \in {pkg, archive} \ {Missing} : p.verified \/ p = archive => p.log.rtl = p.rtl
=============================================================================
