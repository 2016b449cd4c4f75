--------------------------- MODULE EvidenceProofs ---------------------------
(***************************************************************************)
(* The bodies of evidence, without the bounds of the runs.                 *)
(*                                                                         *)
(* Certificates: what a validator accepts was in place at one instant and  *)
(* was looked at during the validation, for every kind of certificate, any *)
(* number of edits, builds, validations and restarts.                      *)
(* CorpusAuthority: a certificate rests on one result, measured on the     *)
(* reviewed inputs, for every dense case.                                  *)
(* TransitionStream: an accepted stream is a history one session can have. *)
(***************************************************************************)
EXTENDS Certificates, TransitionStream, CorpusAuthority, SequenceTheorems, FiniteSetTheorems, WellFoundedInduction, TLAPS

(***************************************************************************)
(* What proofs consist of                                                  *)
(***************************************************************************)
RecheckFiles == Files \ {"harness", "corpus", "fresh"}

\* The steps of a proof of any kind: what is derived comes from one file.
ProofStep == ({"pin", "hold", "bind", "use", "check", "match"} \X Files) \cup {<<"derive", "fresh">>}

\* The steps of a proof that is kept in the cache: whatever enters its
\* document is rechecked by _recheck_current.
DeltaStep == ({"pin", "bind"} \X RecheckFiles) \cup ({"hold", "use", "check"} \X Files)

LEMMA FileNames ==
    /\ "library" \in Files /\ "shared" \in Files /\ "native" \in Files /\ "validators" \in Files
    /\ "harness" \in Files /\ "base" \in Files /\ "run_aware" \in Files /\ "service" \in Files
    /\ "input" \in Files /\ "reviews" \in Files /\ "cases" \in Files /\ "raw" \in Files
    /\ "build" \in Files /\ "trace" \in Files /\ "fresh" \in Files /\ "delta" \in Files
    /\ "artifacts" \in Files /\ "corpus" \in Files
    /\ RecheckFiles \subseteq Files
BY DEF Files, RecheckFiles

LEMMA RecheckNames ==
    /\ "library" \in RecheckFiles /\ "shared" \in RecheckFiles /\ "native" \in RecheckFiles
    /\ "validators" \in RecheckFiles /\ "base" \in RecheckFiles /\ "run_aware" \in RecheckFiles
    /\ "service" \in RecheckFiles /\ "input" \in RecheckFiles /\ "reviews" \in RecheckFiles
    /\ "cases" \in RecheckFiles /\ "raw" \in RecheckFiles /\ "build" \in RecheckFiles
    /\ "trace" \in RecheckFiles /\ "delta" \in RecheckFiles /\ "artifacts" \in RecheckFiles
BY FileNames DEF RecheckFiles

LEMMA DeltaIsProof == Seq(DeltaStep) \subseteq Seq(ProofStep)
<1>1. DeltaStep \subseteq ProofStep
  BY FileNames DEF DeltaStep, ProofStep
<1> QED
  BY <1>1, SeqMonotonic

LEMMA DeltaConcat == \A s, t \in Seq(DeltaStep) : s \o t \in Seq(DeltaStep)
OBVIOUS

LEMMA EachIs ==
    ASSUME NEW Q, NEW S, NEW files \in Seq(Q), NEW act, {act} \X Q \subseteq S
    PROVE  Each(act, files) \in Seq(S)
<1>1. \A i \in DOMAIN files : <<act, files[i]>> \in S
  BY ElementOfSeq
<1> QED
  BY <1>1 DEF Each

LEMMA EachStep ==
    ASSUME NEW files \in Seq(Files), NEW act \in {"pin", "bind", "match"}
    PROVE  Each(act, files) \in Seq(ProofStep)
BY EachIs DEF ProofStep

LEMMA EachSeen ==
    ASSUME NEW files \in Seq(Files), NEW act \in {"hold", "use", "check"}
    PROVE  Each(act, files) \in Seq(DeltaStep)
BY EachIs DEF DeltaStep

LEMMA EachBound ==
    ASSUME NEW files \in Seq(RecheckFiles), NEW act \in {"pin", "bind"}
    PROVE  Each(act, files) \in Seq(DeltaStep)
BY EachIs DEF DeltaStep

LEMMA Holds ==
    /\ Each("hold", <<"corpus">>) \in Seq(DeltaStep)
    /\ Each("hold", <<"harness", "artifacts">>) \in Seq(DeltaStep)
    /\ Each("hold", <<"corpus", "shared">>) \in Seq(DeltaStep)
    /\ Each("hold", <<"artifacts", "shared", "validators", "artifacts">>) \in Seq(DeltaStep)
    /\ Each("hold", <<"shared", "corpus">>) \in Seq(DeltaStep)
    /\ Each("hold", <<"validators", "artifacts">>) \in Seq(DeltaStep)
    /\ Each("hold", <<"artifacts", "shared">>) \in Seq(DeltaStep)
    /\ Each("hold", <<"artifacts">>) \in Seq(DeltaStep)
    /\ Each("hold", <<"harness", "trace", "shared", "artifacts">>) \in Seq(DeltaStep)
    /\ Each("hold", <<"shared", "validators", "artifacts">>) \in Seq(DeltaStep)
    /\ Each("hold", <<"trace">>) \in Seq(DeltaStep)
    /\ Each("hold", <<"base", "run_aware">>) \in Seq(DeltaStep)
    /\ Each("hold", <<"reviews">>) \in Seq(DeltaStep)
    /\ Each("hold", <<"base">>) \in Seq(DeltaStep)
    /\ Each("hold", <<"shared", "artifacts">>) \in Seq(DeltaStep)
    /\ Each("hold", <<"native">>) \in Seq(DeltaStep)
    /\ Each("hold", <<"harness">>) \in Seq(DeltaStep)
    /\ Each("hold", <<"base", "run_aware", "service">>) \in Seq(DeltaStep)
    /\ Each("hold", <<"trace", "shared", "harness">>) \in Seq(DeltaStep)
    /\ Each("hold", <<"raw">>) \in Seq(DeltaStep)
<1>1. /\ <<"corpus">> \in Seq(Files)
      /\ <<"harness", "artifacts">> \in Seq(Files)
      /\ <<"corpus", "shared">> \in Seq(Files)
      /\ <<"artifacts", "shared", "validators", "artifacts">> \in Seq(Files)
      /\ <<"shared", "corpus">> \in Seq(Files)
      /\ <<"validators", "artifacts">> \in Seq(Files)
      /\ <<"artifacts", "shared">> \in Seq(Files)
      /\ <<"artifacts">> \in Seq(Files)
      /\ <<"harness", "trace", "shared", "artifacts">> \in Seq(Files)
      /\ <<"shared", "validators", "artifacts">> \in Seq(Files)
      /\ <<"trace">> \in Seq(Files)
      /\ <<"base", "run_aware">> \in Seq(Files)
      /\ <<"reviews">> \in Seq(Files)
      /\ <<"base">> \in Seq(Files)
      /\ <<"shared", "artifacts">> \in Seq(Files)
      /\ <<"native">> \in Seq(Files)
      /\ <<"harness">> \in Seq(Files)
      /\ <<"base", "run_aware", "service">> \in Seq(Files)
      /\ <<"trace", "shared", "harness">> \in Seq(Files)
      /\ <<"raw">> \in Seq(Files)
  BY FileNames
<1> QED
  BY <1>1, EachSeen

LEMMA Uses ==
    /\ Each("use", <<"corpus">>) \in Seq(DeltaStep)
    /\ Each("use", <<"run_aware">>) \in Seq(DeltaStep)
    /\ Each("use", <<"build", "artifacts", "shared">>) \in Seq(DeltaStep)
    /\ Each("use", <<"build", "artifacts">>) \in Seq(DeltaStep)
    /\ Each("use", <<"artifacts">>) \in Seq(DeltaStep)
    /\ Each("use", <<"build">>) \in Seq(DeltaStep)
    /\ Each("use", <<"artifacts", "trace", "shared">>) \in Seq(DeltaStep)
    /\ Each("use", <<"service">>) \in Seq(DeltaStep)
    /\ Each("use", <<"base">>) \in Seq(DeltaStep)
    /\ Each("use", <<"corpus", "trace">>) \in Seq(DeltaStep)
    /\ Each("use", <<"corpus", "artifacts">>) \in Seq(DeltaStep)
    /\ Each("use", <<"cases">>) \in Seq(DeltaStep)
    /\ Each("use", <<"reviews">>) \in Seq(DeltaStep)
    /\ Each("use", <<"artifacts", "build">>) \in Seq(DeltaStep)
    /\ Each("use", <<"artifacts", "shared">>) \in Seq(DeltaStep)
    /\ Each("use", <<"input">>) \in Seq(DeltaStep)
    /\ Each("use", <<"build", "cases">>) \in Seq(DeltaStep)
    /\ Each("use", <<"cases", "build">>) \in Seq(DeltaStep)
    /\ Each("use", <<"raw">>) \in Seq(DeltaStep)
    /\ Each("use", <<"artifacts", "harness">>) \in Seq(DeltaStep)
    /\ Each("use", <<"trace", "raw", "shared">>) \in Seq(DeltaStep)
    /\ Each("use", <<"delta">>) \in Seq(DeltaStep)
    /\ Each("use", <<"trace">>) \in Seq(DeltaStep)
    /\ Each("use", <<"build", "cases", "trace">>) \in Seq(DeltaStep)
    /\ Each("use", <<"reviews", "trace">>) \in Seq(DeltaStep)
    /\ Each("check", <<"native", "validators">>) \in Seq(DeltaStep)
    /\ Each("check", <<"input", "native", "validators">>) \in Seq(DeltaStep)
    /\ Each("check", <<"native", "validators", "input">>) \in Seq(DeltaStep)
    /\ Each("check", <<"delta", "reviews", "raw", "trace", "library", "shared", "native", "validators">>) \in Seq(DeltaStep)
<1>1. /\ <<"corpus">> \in Seq(Files)
      /\ <<"run_aware">> \in Seq(Files)
      /\ <<"build", "artifacts", "shared">> \in Seq(Files)
      /\ <<"build", "artifacts">> \in Seq(Files)
      /\ <<"artifacts">> \in Seq(Files)
      /\ <<"build">> \in Seq(Files)
      /\ <<"artifacts", "trace", "shared">> \in Seq(Files)
      /\ <<"service">> \in Seq(Files)
      /\ <<"base">> \in Seq(Files)
      /\ <<"corpus", "trace">> \in Seq(Files)
      /\ <<"corpus", "artifacts">> \in Seq(Files)
      /\ <<"cases">> \in Seq(Files)
      /\ <<"reviews">> \in Seq(Files)
      /\ <<"artifacts", "build">> \in Seq(Files)
      /\ <<"artifacts", "shared">> \in Seq(Files)
      /\ <<"input">> \in Seq(Files)
      /\ <<"build", "cases">> \in Seq(Files)
      /\ <<"cases", "build">> \in Seq(Files)
      /\ <<"raw">> \in Seq(Files)
      /\ <<"artifacts", "harness">> \in Seq(Files)
      /\ <<"trace", "raw", "shared">> \in Seq(Files)
      /\ <<"delta">> \in Seq(Files)
      /\ <<"trace">> \in Seq(Files)
      /\ <<"build", "cases", "trace">> \in Seq(Files)
      /\ <<"reviews", "trace">> \in Seq(Files)
      /\ <<"native", "validators">> \in Seq(Files)
      /\ <<"input", "native", "validators">> \in Seq(Files)
      /\ <<"native", "validators", "input">> \in Seq(Files)
      /\ <<"delta", "reviews", "raw", "trace", "library", "shared", "native", "validators">> \in Seq(Files)
  BY FileNames
<1> QED
  BY <1>1, EachSeen

LEMMA Binds ==
    /\ Each("pin", <<"cases", "build", "trace">>) \in Seq(DeltaStep)
    /\ Each("pin", <<"raw">>) \in Seq(DeltaStep)
    /\ Each("pin", <<"reviews">>) \in Seq(DeltaStep)
    /\ Each("pin", <<"cases", "raw", "build">>) \in Seq(DeltaStep)
    /\ Each("pin", <<"trace">>) \in Seq(DeltaStep)
    /\ Each("pin", <<"raw", "library">>) \in Seq(DeltaStep)
    /\ Each("pin", <<"library", "shared">>) \in Seq(DeltaStep)
    /\ Each("pin", <<"reviews", "artifacts">>) \in Seq(DeltaStep)
    /\ Each("pin", <<"native">>) \in Seq(DeltaStep)
    /\ Each("pin", <<"artifacts">>) \in Seq(DeltaStep)
    /\ Each("pin", <<"base", "run_aware", "service">>) \in Seq(DeltaStep)
    /\ Each("pin", <<"library">>) \in Seq(DeltaStep)
    /\ Each("pin", <<"shared">>) \in Seq(DeltaStep)
    /\ Each("bind", <<"native", "validators">>) \in Seq(DeltaStep)
    /\ Each("bind", <<"input">>) \in Seq(DeltaStep)
    /\ Each("bind", <<"validators">>) \in Seq(DeltaStep)
    /\ Each("bind", <<"delta">>) \in Seq(DeltaStep)
<1>1. /\ <<"cases", "build", "trace">> \in Seq(RecheckFiles)
      /\ <<"raw">> \in Seq(RecheckFiles)
      /\ <<"reviews">> \in Seq(RecheckFiles)
      /\ <<"cases", "raw", "build">> \in Seq(RecheckFiles)
      /\ <<"trace">> \in Seq(RecheckFiles)
      /\ <<"raw", "library">> \in Seq(RecheckFiles)
      /\ <<"library", "shared">> \in Seq(RecheckFiles)
      /\ <<"reviews", "artifacts">> \in Seq(RecheckFiles)
      /\ <<"native">> \in Seq(RecheckFiles)
      /\ <<"artifacts">> \in Seq(RecheckFiles)
      /\ <<"base", "run_aware", "service">> \in Seq(RecheckFiles)
      /\ <<"library">> \in Seq(RecheckFiles)
      /\ <<"shared">> \in Seq(RecheckFiles)
      /\ <<"native", "validators">> \in Seq(RecheckFiles)
      /\ <<"input">> \in Seq(RecheckFiles)
      /\ <<"validators">> \in Seq(RecheckFiles)
      /\ <<"delta">> \in Seq(RecheckFiles)
  BY RecheckNames
<1> QED
  BY <1>1, EachBound

LEMMA Others ==
    /\ Each("pin", <<"artifacts", "library", "shared", "native", "reviews">>) \in Seq(ProofStep)
    /\ Each("pin", <<"raw", "harness">>) \in Seq(ProofStep)
    /\ Each("pin", <<"library", "shared", "base", "run_aware", "service">>) \in Seq(ProofStep)
    /\ Each("pin", <<"native", "cases">>) \in Seq(ProofStep)
    /\ Each("pin", <<"artifacts", "raw">>) \in Seq(ProofStep)
    /\ Each("pin", <<"cases">>) \in Seq(ProofStep)
    /\ Each("pin", <<"reviews", "native">>) \in Seq(ProofStep)
    /\ Each("pin", <<"trace", "harness">>) \in Seq(ProofStep)
    /\ Each("pin", <<"artifacts", "library", "shared", "native">>) \in Seq(ProofStep)
    /\ Each("pin", <<"build">>) \in Seq(ProofStep)
    /\ Each("pin", <<"artifacts", "reviews">>) \in Seq(ProofStep)
    /\ Each("bind", <<"cases", "corpus", "shared", "base", "run_aware", "artifacts", "validators">>) \in Seq(ProofStep)
    /\ Each("bind", <<"validators", "input">>) \in Seq(ProofStep)
    /\ Each("bind", <<"raw">>) \in Seq(ProofStep)
    /\ Each("bind", <<"validators", "harness">>) \in Seq(ProofStep)
    /\ Each("bind", <<"fresh", "validators", "reviews">>) \in Seq(ProofStep)
    /\ Each("match", <<"validators">>) \in Seq(ProofStep)
<1>1. /\ <<"artifacts", "library", "shared", "native", "reviews">> \in Seq(Files)
      /\ <<"raw", "harness">> \in Seq(Files)
      /\ <<"library", "shared", "base", "run_aware", "service">> \in Seq(Files)
      /\ <<"native", "cases">> \in Seq(Files)
      /\ <<"artifacts", "raw">> \in Seq(Files)
      /\ <<"cases">> \in Seq(Files)
      /\ <<"reviews", "native">> \in Seq(Files)
      /\ <<"trace", "harness">> \in Seq(Files)
      /\ <<"artifacts", "library", "shared", "native">> \in Seq(Files)
      /\ <<"build">> \in Seq(Files)
      /\ <<"artifacts", "reviews">> \in Seq(Files)
      /\ <<"cases", "corpus", "shared", "base", "run_aware", "artifacts", "validators">> \in Seq(Files)
      /\ <<"validators", "input">> \in Seq(Files)
      /\ <<"raw">> \in Seq(Files)
      /\ <<"validators", "harness">> \in Seq(Files)
      /\ <<"fresh", "validators", "reviews">> \in Seq(Files)
      /\ <<"validators">> \in Seq(Files)
  BY FileNames
<1> QED
  BY <1>1, EachStep

LEMMA ValidateCorpusSteps == ValidateCorpus \in Seq(DeltaStep)
BY Holds, Uses DEF ValidateCorpus

LEMMA BaseCertificateSteps == BaseCertificate \in Seq(DeltaStep)
BY Holds, ValidateCorpusSteps DEF BaseCertificate

LEMMA RunAwareSteps == RunAware \in Seq(DeltaStep)
BY Holds, Uses DEF RunAware

LEMMA ServiceEvidenceSteps == ServiceEvidence \in Seq(DeltaStep)
BY Holds, Uses DEF ServiceEvidence

LEMMA ProducerReceiptSteps == ProducerReceipt \in Seq(DeltaStep)
BY Holds, Uses DEF ProducerReceipt

LEMMA SequenceCaseSteps == SequenceCase \in Seq(DeltaStep)
BY Holds, Uses DEF SequenceCase

LEMMA ProductionSequenceSteps == ProductionSequence \in Seq(DeltaStep)
BY Holds, Uses, ProducerReceiptSteps, SequenceCaseSteps DEF ProductionSequence

LEMMA ServiceCertificateSteps == ServiceCertificate \in Seq(DeltaStep)
BY Holds, Uses, ServiceEvidenceSteps, BaseCertificateSteps, RunAwareSteps, ProductionSequenceSteps DEF ServiceCertificate

LEMMA BaseProbeSteps == BaseProbe \in Seq(DeltaStep)
BY Holds, Uses DEF BaseProbe

LEMMA BaseModelSteps == BaseModel \in Seq(DeltaStep)
BY Uses DEF BaseModel

\* A parent certificate, validated or only bound
LEMMA ParentSteps ==
    ASSUME NEW name \in {"base", "run_aware", "service"}, NEW current \in BOOLEAN
    PROVE  Parent(name, current) \in Seq(DeltaStep)
<1>1. /\ <<name>> \in Seq(Files) /\ <<"artifacts", name>> \in Seq(Files)
      /\ <<name>> \in Seq(RecheckFiles)
  BY FileNames, RecheckNames
<1>2. /\ Each("use", <<name>>) \in Seq(DeltaStep)
      /\ Each("hold", <<"artifacts", name>>) \in Seq(DeltaStep)
      /\ Each("bind", <<name>>) \in Seq(DeltaStep)
  BY <1>1, EachSeen, EachBound
<1>3. (IF name = "base" THEN BaseProbe \o BaseModel ELSE << >>) \in Seq(DeltaStep)
  BY BaseProbeSteps, BaseModelSteps
<1>4. ReviewedParent(name) \in Seq(DeltaStep)
  BY <1>2, <1>3, Holds, Uses, Binds DEF ReviewedParent
<1>5. CurrentParent(name) \in Seq(DeltaStep)
  BY <1>4, Uses, BaseCertificateSteps, RunAwareSteps, ServiceCertificateSteps DEF CurrentParent
<1> QED
  BY <1>2, <1>5 DEF Parent

LEMMA ParentsSteps == Parents(TRUE) \in Seq(DeltaStep) /\ Parents(FALSE) \in Seq(DeltaStep)
<1>1. \A name \in {"base", "run_aware", "service"} : Parent(name, TRUE) \in Seq(DeltaStep) /\ Parent(name, FALSE) \in Seq(DeltaStep)
  BY ParentSteps
<1> QED
  BY <1>1, DeltaConcat, Zenon DEF Parents

LEMMA PinnedSteps == Pinned \in Seq(DeltaStep)
BY Uses, Binds DEF Pinned

LEMMA SourceHashesSteps == SourceHashes \in Seq(DeltaStep)
BY Uses, Binds DEF SourceHashes

LEMMA CaseBindingSteps == CaseBinding \in Seq(DeltaStep)
BY Uses, Binds DEF CaseBinding

LEMMA ExpectedV1Steps == ExpectedV1 \in Seq(DeltaStep)
BY Binds, PinnedSteps, SourceHashesSteps, ParentsSteps, CaseBindingSteps, DeltaConcat, Zenon DEF ExpectedV1

LEMMA CurrentCaseSteps == CurrentCase \in Seq(DeltaStep)
BY Holds, Uses, Binds DEF CurrentCase

LEMMA ReviewedCurrentSteps == ReviewedCurrent \in Seq(DeltaStep)
BY Uses, Binds, CurrentCaseSteps DEF ReviewedCurrent

LEMMA ClosureSteps == Closure \in Seq(DeltaStep)
BY Binds DEF Closure

LEMMA ReviewedEquivalenceSteps == ReviewedEquivalence \in Seq(DeltaStep)
BY Holds, Uses, Binds, ClosureSteps DEF ReviewedEquivalence

LEMMA DeltaCaseSteps == DeltaCase \in Seq(DeltaStep)
BY Uses, Binds DEF DeltaCase

LEMMA ReviewedDeltaSteps == ReviewedDelta \in Seq(DeltaStep)
BY Uses, Binds, DeltaCaseSteps DEF ReviewedDelta

LEMMA ExpectedV2Steps == ExpectedV2 \in Seq(DeltaStep)
BY ReviewedCurrentSteps, ParentsSteps, DeltaConcat, Zenon DEF ExpectedV2

LEMMA ExpectedV3Steps == ExpectedV3 \in Seq(DeltaStep)
BY ExpectedV2Steps, ReviewedDeltaSteps, DeltaConcat, Zenon DEF ExpectedV3

LEMMA ExpectedEquivalentSteps == ExpectedEquivalent \in Seq(DeltaStep)
BY Binds, ReviewedEquivalenceSteps, ParentsSteps, ReviewedDeltaSteps, DeltaConcat, Zenon DEF ExpectedEquivalent

LEMMA SequenceCertificateSteps == SequenceCertificate \in Seq(ProofStep)
BY Holds, Uses, Binds, Others, DeltaIsProof, ServiceEvidenceSteps, BaseCertificateSteps, RunAwareSteps, ProductionSequenceSteps DEF SequenceCertificate

LEMMA TransitionSteps == Transition \in Seq(ProofStep)
BY Holds, Uses, DeltaIsProof DEF Transition

LEMMA Tag6Steps == Tag6 \in Seq(ProofStep)
BY Uses, Binds, Others, DeltaIsProof DEF Tag6

LEMMA VerifiedSteps == Verified \in Seq(ProofStep)
BY Uses, Binds, Others, DeltaIsProof, PinnedSteps, Tag6Steps DEF Verified

LEMMA Full374Steps == Full374 \in Seq(ProofStep)
BY Binds, Others, DeltaIsProof, VerifiedSteps DEF Full374

LEMMA IdentitySteps == Identity \in Seq(ProofStep)
BY Binds, Others, DeltaIsProof DEF Identity

LEMMA ProfileSteps == Profile \in Seq(ProofStep)
BY Holds, Uses, Binds, Others, DeltaIsProof, IdentitySteps, PinnedSteps DEF Profile

LEMMA CheckProofSteps == CheckProof \in Seq(ProofStep)
BY Holds, Uses, Binds, Others, DeltaIsProof DEF CheckProof

LEMMA CheckMilestoneSteps == CheckMilestone \in Seq(ProofStep)
BY Holds, DeltaIsProof DEF CheckMilestone

LEMMA ExtensionSteps == Extension \in Seq(ProofStep)
BY Holds, Uses, Binds, Others, DeltaIsProof, IdentitySteps, PinnedSteps, CheckProofSteps, CheckMilestoneSteps DEF Extension

LEMMA ActualTraceSteps == ActualTrace \in Seq(ProofStep)
BY Holds, Uses, Binds, Others, DeltaIsProof, IdentitySteps DEF ActualTrace

LEMMA InterleavedSteps == Interleaved \in Seq(ProofStep)
BY Holds, Uses, Binds, Others, DeltaIsProof, IdentitySteps DEF Interleaved

LEMMA DecodeTraceSteps == DecodeTrace \in Seq(ProofStep)
BY Holds, Uses, Binds, Others, DeltaIsProof, ActualTraceSteps, TransitionSteps DEF DecodeTrace

LEMMA CycleTraceSteps == CycleTrace \in Seq(ProofStep)
<1>1. <<"fresh">> \in Seq({"fresh"}) /\ {"derive"} \X {"fresh"} \subseteq ProofStep
  BY DEF ProofStep
<1>2. Each("derive", <<"fresh">>) \in Seq(ProofStep)
  BY <1>1, EachIs
<1>3. Summarize \in Seq(ProofStep)
  BY <1>2, Uses, DeltaIsProof DEF Summarize
<1> QED
  BY <1>3, Uses, Binds, Others, ProfileSteps, DeltaIsProof DEF CycleTrace

\* Every proof consists of such steps, also the one of prove_domain.
LEMMA ProgramSteps ==
    ASSUME NEW name \in CertificateKinds
    PROVE  Program(name) \in Seq(ProofStep) /\ (Delta(name) => Program(name) \in Seq(DeltaStep))
BY DeltaIsProof, ExpectedV1Steps, ExpectedV2Steps, ExpectedV3Steps, ExpectedEquivalentSteps, Tag6Steps, Full374Steps,
   ProfileSteps, ExtensionSteps, ActualTraceSteps, InterleavedSteps, DecodeTraceSteps, CycleTraceSteps,
   SequenceCertificateSteps
   DEF Program, CertificateKinds, Delta
(***************************************************************************)
(* The inductive invariant                                                 *)
(***************************************************************************)
Keys == Files \cup {"summary"}

\* A version that has gone never comes back.
Grows(h) ==
    /\ h \in Seq([Files -> Nat]) /\ h # << >>
    /\ \A i \in 1 .. Len(h), f \in Files : h[i][f] < i
    /\ \A i, j \in 1 .. Len(h), f \in Files : i <= j => h[i][f] <= h[j][f]

\* All that d binds was in place between two instants.
Taken(h, d, low, high) ==
    \A key \in DOMAIN d :
        /\ key \in Keys /\ d[key] # {}
        /\ \A v \in d[key] : \E i \in low .. high : h[i][FileOf(key)] = v

\* Which stage may follow which, in a build and in a validation
Follows(name) ==
    IF name = "validate"
    THEN {<<"read", "prove">>, <<"read", "serve">>, <<"serve", "reuse">>, <<"reuse", "compare">>, <<"prove", "recheck">>,
          <<"recheck", "store">>, <<"store", "compare">>, <<"prove", "compare">>, <<"compare", "admit">>}
    ELSE {<<"prove", "stage">>, <<"stage", "link">>, <<"serve", "reuse">>, <<"reuse", "stage">>, <<"prove", "recheck">>,
          <<"recheck", "store">>, <<"store", "stage">>, <<"stage", "recheck">>, <<"recheck", "link">>, <<"stage", "prove">>,
          <<"prove", "compare">>, <<"compare", "link">>, <<"prove_domain", "transition">>, <<"transition", "prove">>,
          <<"link", "prove">>}

StageNames == {"read", "prove", "prove_domain", "serve", "reuse", "recheck", "store", "transition", "stage", "link",
               "compare", "admit"}

\* Stages of an operation, one after the other
Chain(p, name, k) ==
    /\ p \in Seq(StageNames) /\ p # << >>
    /\ \A i \in 1 .. Len(p) :
         /\ i < Len(p) => <<p[i], p[i + 1]>> \in Follows(name)
         /\ p[i] \in {"serve", "reuse", "store"} => Delta(k)
         /\ p[i] = "prove_domain" => ~Delta(k)

Ends(name) == IF name = "validate" THEN {"admit"} ELSE {"link", "compare"}

\* What is left of an operation
PlanOK(p, name, k) == p # << >> => Chain(p, name, k) /\ p[Len(p)] \in Ends(name)

Running(name) == plan # << >> /\ op = name

PlanInv ==
    /\ kind \in Kinds /\ at \in Nat /\ began \in 1 .. Len(history)
    /\ plan # << >> => op \in {"build", "validate"}
    /\ PlanOK(plan, op, kind)
    /\ \A i \in 1 .. Len(plan) : plan[i] = "serve" => cache # None

\* The cached proof can be rechecked to its last digest.
CacheInv ==
    cache # None =>
        /\ Delta(kind) /\ DOMAIN cache.doc \subseteq RecheckFiles
        /\ Taken(history, cache.doc, 1, Len(history))

\* The document is of this operation, except for what is still to be checked
\* of a proof from the cache.
DocInv ==
    /\ Delta(kind) => DOMAIN doc \subseteq RecheckFiles
    /\ plan # << >> =>
         IF Head(plan) = "reuse"
         THEN /\ Taken(history, doc, 1, Len(history))
              /\ \A n \in 1 .. 15 : n <= at /\ RecheckOrder[n] \in DOMAIN doc =>
                   \A v \in doc[RecheckOrder[n]] : \E i \in began .. Len(history) : history[i][RecheckOrder[n]] = v
         ELSE Taken(history, doc, began, Len(history))

\* What is published or read was in place before the validation began.
Horizon == IF Running("validate") THEN began ELSE Len(history)

OutInv ==
    /\ out # None => Taken(history, out, 1, Horizon)
    /\ staged # None => Taken(history, staged, 1, Horizon)

ValidateInv ==
    Running("validate") =>
        /\ Head(plan) # "read" => staged # None
        /\ Head(plan) = "admit" => verdict # "none"

VerdictInv ==
    verdict # "none" =>
        /\ plan = << >> \/ (Running("validate") /\ Head(plan) = "admit")
        /\ Taken(history, doc, began, Len(history))
        /\ \A key \in DOMAIN doc : doc[key] = {history[began][FileOf(key)]}

CertificateInv ==
    /\ Grows(history) /\ PlanInv /\ CacheInv /\ DocInv /\ OutInv /\ ValidateInv /\ VerdictInv

(***************************************************************************)
(* Facts about histories, documents and plans                              *)
(***************************************************************************)
LEMMA NowIs ==
    ASSUME NEW h, Grows(h)
    PROVE  Len(h) \in Nat /\ Len(h) >= 1 /\ DOMAIN h = 1 .. Len(h) /\ Last(h) = h[Len(h)] /\ Last(h) \in [Files -> Nat]
BY DEF Grows, Last

LEMMA FileOfKey == \A key \in Keys : FileOf(key) \in Files
BY FileNames DEF Keys, FileOf

LEMMA EditGrows ==
    ASSUME NEW h, Grows(h), NEW f \in Files
    PROVE  Grows(Append(h, [Last(h) EXCEPT ![f] = Len(h)]))
<1> DEFINE g == [Last(h) EXCEPT ![f] = Len(h)]
           hh == Append(h, g)
<1>1. /\ Len(h) \in Nat /\ Len(h) >= 1 /\ Last(h) = h[Len(h)] /\ h \in Seq([Files -> Nat])
      /\ \A i \in 1 .. Len(h) : h[i] \in [Files -> Nat]
  BY NowIs DEF Grows
<1>0. /\ \A i \in 1 .. Len(h), e \in Files : h[i][e] \in Nat /\ h[i][e] < i
      /\ \A i, j \in 1 .. Len(h), e \in Files : i <= j => h[i][e] <= h[j][e]
  BY <1>1 DEF Grows
<1>2. g \in [Files -> Nat] /\ \A e \in Files : g[e] = IF e = f THEN Len(h) ELSE h[Len(h)][e]
  BY <1>1
<1> HIDE DEF g
<1>s. hh \in Seq([Files -> Nat]) /\ hh # << >>
  BY <1>1, <1>2, AppendProperties
<1>3. Len(hh) = Len(h) + 1 /\ (\A i \in 1 .. Len(h) : hh[i] = h[i]) /\ hh[Len(h) + 1] = g
  BY <1>1, <1>2, AppendProperties
<1>l. Len(h) \in Nat /\ Len(h) >= 1
  BY <1>1
<1> HIDE DEF hh
<1>4. \A e \in Files : g[e] \in Nat /\ g[e] < Len(h) + 1 /\ \A i \in 1 .. Len(h) : h[i][e] <= g[e]
  <2> TAKE e \in Files
  <2>1. g[e] = Len(h) \/ g[e] = h[Len(h)][e]
    BY <1>2
  <2>2. h[Len(h)][e] \in Nat /\ h[Len(h)][e] < Len(h) /\ \A i \in 1 .. Len(h) : h[i][e] <= h[Len(h)][e]
    BY <1>0, <1>l
  <2>3. \A i \in 1 .. Len(h) : h[i][e] \in Nat /\ h[i][e] <= Len(h)
    BY <1>0, <1>l
  <2> QED
    BY <2>1, <2>2, <2>3, <1>l
<1>7. ASSUME NEW i \in 1 .. Len(hh)
      PROVE  (i \in 1 .. Len(h) /\ hh[i] = h[i]) \/ (i = Len(h) + 1 /\ hh[i] = g)
  BY <1>l, <1>3
<1>5. ASSUME NEW i \in 1 .. Len(hh), NEW e \in Files
      PROVE  hh[i][e] < i
  BY <1>7, <1>0, <1>l, <1>4
<1>6. ASSUME NEW i \in 1 .. Len(hh), NEW j \in 1 .. Len(hh), NEW e \in Files, i <= j
      PROVE  hh[i][e] <= hh[j][e]
  <2>1. (i \in 1 .. Len(h) /\ hh[i] = h[i]) \/ (i = Len(h) + 1 /\ hh[i] = g)
    BY <1>7
  <2>2. (j \in 1 .. Len(h) /\ hh[j] = h[j]) \/ (j = Len(h) + 1 /\ hh[j] = g)
    BY <1>7
  <2> QED
    BY <2>1, <2>2, <1>0, <1>l, <1>4, <1>6
<1> QED
  BY <1>s, <1>5, <1>6 DEF Grows, hh, g

LEMMA TakenWider ==
    ASSUME NEW h, NEW d, NEW low \in Nat, NEW high \in Nat, NEW lower \in Nat, NEW higher \in Nat,
           lower <= low, high <= higher, Taken(h, d, low, high)
    PROVE  Taken(h, d, lower, higher)
BY DEF Taken

LEMMA TakenLater ==
    ASSUME NEW h, Grows(h), NEW g \in [Files -> Nat], NEW d, NEW low \in Nat \ {0}, NEW high \in Nat, high <= Len(h),
           Taken(h, d, low, high)
    PROVE  Taken(Append(h, g), d, low, high)
<1>1. \A i \in low .. high : Append(h, g)[i] = h[i]
  BY NowIs, AppendProperties DEF Grows
<1> QED
  BY <1>1 DEF Taken

LEMMA TakenEmpty == ASSUME NEW h, NEW low, NEW high PROVE Taken(h, Empty, low, high) /\ DOMAIN Empty = {}
BY DEF Taken, Empty

LEMMA AddTaken ==
    ASSUME NEW h, Grows(h), NEW d, NEW low \in 1 .. Len(h), Taken(h, d, low, Len(h)), NEW key \in Keys
    PROVE  /\ Taken(h, Add(d, key, h[Len(h)][FileOf(key)]), low, Len(h))
           /\ DOMAIN Add(d, key, h[Len(h)][FileOf(key)]) = DOMAIN d \cup {key}
<1> DEFINE v == h[Len(h)][FileOf(key)]
           a == Add(d, key, v)
<1>1. DOMAIN a = DOMAIN d \cup {key}
  BY DEF Add
<1>2. ASSUME NEW k \in DOMAIN a
      PROVE  a[k] = (IF k \in DOMAIN d THEN d[k] ELSE {}) \cup IF k = key THEN {v} ELSE {}
  BY <1>1, <1>2 DEF Add
<1> HIDE DEF a
<1>3. ASSUME NEW k \in DOMAIN a
      PROVE  k \in Keys /\ a[k] # {} /\ \A x \in a[k] : \E i \in low .. Len(h) : h[i][FileOf(k)] = x
  <2>1. k \in DOMAIN d \/ k = key
    BY <1>1
  <2>2. k \in DOMAIN d => k \in Keys /\ d[k] # {} /\ \A x \in d[k] : \E i \in low .. Len(h) : h[i][FileOf(k)] = x
    BY DEF Taken
  <2>3. Len(h) \in low .. Len(h)
    BY NowIs
  <2> HIDE DEF v
  <2>4. \A x \in a[k] : (k \in DOMAIN d /\ x \in d[k]) \/ (k = key /\ x = v)
    BY <1>2
  <2>5. a[k] # {}
    BY <1>2, <2>1, <2>2
  <2>6. k = key => h[Len(h)][FileOf(k)] = v
    BY DEF v
  <2> QED
    BY <2>1, <2>2, <2>3, <2>4, <2>5, <2>6
<1> QED
  BY <1>1, <1>3 DEF Taken, a

\* What was in place before and after an instant was in place then.
LEMMA OneInstant ==
    ASSUME NEW h, Grows(h), NEW d, NEW b \in 1 .. Len(h), Taken(h, d, 1, b), Taken(h, d, b, Len(h))
    PROVE  \A key \in DOMAIN d : d[key] = {h[b][FileOf(key)]}
<1> TAKE key \in DOMAIN d
<1>1. FileOf(key) \in Files /\ d[key] # {}
  BY FileOfKey DEF Taken
<1>2. ASSUME NEW v \in d[key]
      PROVE  v = h[b][FileOf(key)]
  <2>1. PICK i \in 1 .. b : h[i][FileOf(key)] = v
    BY DEF Taken
  <2>2. PICK j \in b .. Len(h) : h[j][FileOf(key)] = v
    BY DEF Taken
  <2>3. Len(h) \in Nat /\ \A n \in 1 .. Len(h) : h[n] \in [Files -> Nat]
    BY NowIs DEF Grows
  <2>4. /\ i \in 1 .. Len(h) /\ j \in 1 .. Len(h) /\ i <= b /\ b <= j
        /\ h[i][FileOf(key)] \in Nat /\ h[b][FileOf(key)] \in Nat
    BY <2>3, <1>1
  <2>5. h[i][FileOf(key)] <= h[b][FileOf(key)] /\ h[b][FileOf(key)] <= h[j][FileOf(key)]
    BY <2>4, <1>1 DEF Grows
  <2> QED
    BY <2>1, <2>2, <2>4, <2>5
<1> QED
  BY <1>1, <1>2

LEMMA ChainNext ==
    ASSUME NEW p, NEW name, NEW k, Chain(p, name, k), NEW i \in 1 .. Len(p)
    PROVE  /\ i < Len(p) => <<p[i], p[i + 1]>> \in Follows(name)
           /\ p[i] \in {"serve", "reuse", "store"} => Delta(k)
           /\ p[i] = "prove_domain" => ~Delta(k)
BY DEF Chain

\* u is the stages of s, then those of t.
Joins(u, s, t, name, k) ==
    /\ Chain(u, name, k) /\ u[Len(u)] = t[Len(t)] /\ Head(u) = s[1] /\ u # << >>
    /\ \A i \in 1 .. Len(u) : (\E j \in 1 .. Len(s) : u[i] = s[j]) \/ (\E j \in 1 .. Len(t) : u[i] = t[j])

LEMMA ChainConcat ==
    ASSUME NEW s, NEW t, NEW name, NEW k, Chain(s, name, k), Chain(t, name, k), <<s[Len(s)], t[1]>> \in Follows(name)
    PROVE  Joins(s \o t, s, t, name, k)
<1> DEFINE u == s \o t
<1>1. s \in Seq(StageNames) /\ s # << >> /\ t \in Seq(StageNames) /\ t # << >>
  BY DEF Chain
<1>2. /\ u \in Seq(StageNames) /\ u # << >> /\ Len(u) = Len(s) + Len(t) /\ Len(s) \in Nat \ {0} /\ Len(t) \in Nat \ {0}
      /\ \A i \in 1 .. Len(s) : u[i] = s[i]
      /\ \A i \in 1 .. Len(t) : u[Len(s) + i] = t[i]
      /\ Head(u) = u[1]
  BY <1>1
<1> HIDE DEF u
<1>3. Len(u) = Len(s) + Len(t) /\ Len(s) \in Nat \ {0} /\ Len(t) \in Nat \ {0}
  BY <1>2
<1>4. ASSUME NEW i \in 1 .. Len(u)
      PROVE  \/ i \in 1 .. Len(s) /\ u[i] = s[i]
             \/ i - Len(s) \in 1 .. Len(t) /\ u[i] = t[i - Len(s)]
  <2>1. CASE i \in 1 .. Len(s)
    BY <2>1, <1>2
  <2>2. CASE i - Len(s) \in 1 .. Len(t)
    <3>1. u[Len(s) + (i - Len(s))] = t[i - Len(s)]
      BY <2>2, <1>2
    <3> QED
      BY <3>1, <2>2, <1>3
  <2> QED
    BY <2>1, <2>2, <1>3
<1>5. ASSUME NEW i \in 1 .. Len(u)
      PROVE  /\ i < Len(u) => <<u[i], u[i + 1]>> \in Follows(name)
             /\ u[i] \in {"serve", "reuse", "store"} => Delta(k)
             /\ u[i] = "prove_domain" => ~Delta(k)
  <2>1. CASE i \in 1 .. Len(s) /\ u[i] = s[i]
    <3>1. i < Len(s) => i + 1 \in 1 .. Len(s) /\ u[i + 1] = s[i + 1]
      BY <2>1, <1>2
    <3>2. i = Len(s) => u[i + 1] = t[1]
      <4>1. u[Len(s) + 1] = t[1]
        BY <1>2
      <4> QED
        BY <4>1
    <3>3. /\ i < Len(s) => <<s[i], s[i + 1]>> \in Follows(name)
          /\ s[i] \in {"serve", "reuse", "store"} => Delta(k)
          /\ s[i] = "prove_domain" => ~Delta(k)
      BY <2>1, ChainNext
    <3>4. i < Len(s) \/ i = Len(s)
      BY <2>1, <1>3
    <3> QED
      BY <2>1, <3>1, <3>2, <3>3, <3>4
  <2>2. CASE i - Len(s) \in 1 .. Len(t) /\ u[i] = t[i - Len(s)]
    <3> DEFINE n == i - Len(s)
    <3>1. n < Len(t) => u[i + 1] = t[n + 1]
      <4> SUFFICES ASSUME n < Len(t) PROVE u[i + 1] = t[n + 1]
        OBVIOUS
      <4>1. n + 1 \in 1 .. Len(t) /\ Len(s) + (n + 1) = i + 1
        BY <2>2, <1>3
      <4>2. u[Len(s) + (n + 1)] = t[n + 1]
        BY <4>1, <1>2
      <4> QED
        BY <4>1, <4>2
    <3>2. i < Len(u) => n < Len(t)
      BY <1>3, <2>2
    <3>3. /\ n < Len(t) => <<t[n], t[n + 1]>> \in Follows(name)
          /\ t[n] \in {"serve", "reuse", "store"} => Delta(k)
          /\ t[n] = "prove_domain" => ~Delta(k)
      BY <2>2, ChainNext
    <3> QED
      BY <2>2, <3>1, <3>2, <3>3
  <2> QED
    BY <2>1, <2>2, <1>4
<1>6. Chain(u, name, k)
  BY <1>2, <1>5 DEF Chain
<1>7. u[Len(u)] = t[Len(t)] /\ Head(u) = s[1]
  <2>1. u[Len(s) + Len(t)] = t[Len(t)] /\ u[1] = s[1]
    BY <1>2
  <2> QED
    BY <2>1, <1>2
<1>8. \A i \in 1 .. Len(u) : (\E j \in 1 .. Len(s) : u[i] = s[j]) \/ (\E j \in 1 .. Len(t) : u[i] = t[j])
  BY <1>4
<1> QED
  BY <1>2, <1>6, <1>7, <1>8 DEF u, Joins

LEMMA PlanTail ==
    ASSUME NEW p, NEW name, NEW k, p # << >>, PlanOK(p, name, k)
    PROVE  /\ PlanOK(Tail(p), name, k) /\ Len(p) \in Nat \ {0} /\ Head(p) = p[1] /\ Head(p) \in StageNames
           /\ Tail(p) = << >> <=> Len(p) = 1
           /\ Tail(p) # << >> => Head(Tail(p)) = p[2] /\ <<p[1], p[2]>> \in Follows(name)
           /\ Tail(p) = << >> => p[1] \in Ends(name)
           /\ \A i \in 1 .. Len(Tail(p)) : Tail(p)[i] = p[i + 1] /\ i + 1 \in 1 .. Len(p)
<1> DEFINE u == Tail(p)
<1>c. Chain(p, name, k) /\ p[Len(p)] \in Ends(name)
  BY DEF PlanOK
<1>1. p \in Seq(StageNames)
  BY <1>c DEF Chain
<1>2. /\ Len(p) \in Nat \ {0} /\ Head(p) = p[1] /\ Head(p) \in StageNames
      /\ u \in Seq(StageNames) /\ Len(u) = Len(p) - 1
      /\ \A i \in 1 .. Len(u) : u[i] = p[i + 1]
  BY <1>1, HeadTailProperties
<1>e. /\ u = << >> <=> Len(p) = 1
      /\ u # << >> => Head(u) = u[1]
  <2>1. u = << >> <=> Len(u) = 0
    BY <1>2, EmptySeq
  <2>2. u # << >> => Head(u) = u[1]
    BY <1>2, HeadTailProperties
  <2> QED
    BY <2>1, <2>2, <1>2
<1> HIDE DEF u
<1>3. Len(p) \in Nat \ {0} /\ Len(u) = Len(p) - 1 /\ \A i \in 1 .. Len(u) : u[i] = p[i + 1]
  BY <1>2
<1>4. ASSUME NEW i \in 1 .. Len(u)
      PROVE  /\ i + 1 \in 1 .. Len(p) /\ u[i] = p[i + 1]
             /\ i < Len(u) => u[i + 1] = p[(i + 1) + 1] /\ i + 1 < Len(p)
  BY <1>3
<1>5. ASSUME NEW i \in 1 .. Len(u)
      PROVE  /\ i < Len(u) => <<u[i], u[i + 1]>> \in Follows(name)
             /\ u[i] \in {"serve", "reuse", "store"} => Delta(k)
             /\ u[i] = "prove_domain" => ~Delta(k)
  BY <1>4, <1>c, ChainNext
<1>6. u # << >> => Chain(u, name, k)
  BY <1>2, <1>5 DEF Chain
<1>7. u # << >> => u[Len(u)] = p[Len(p)] /\ Len(p) > 1
  <2> SUFFICES ASSUME u # << >> PROVE u[Len(u)] = p[Len(p)] /\ Len(p) > 1
    OBVIOUS
  <2>1. Len(p) > 1
    BY <1>2, <1>e
  <2> QED
    BY <2>1, <1>3
<1>8. PlanOK(u, name, k)
  BY <1>6, <1>7, <1>c DEF PlanOK
<1>9. u # << >> => <<p[1], p[2]>> \in Follows(name)
  <2> SUFFICES ASSUME u # << >> PROVE <<p[1], p[1 + 1]>> \in Follows(name)
    OBVIOUS
  <2>1. 1 \in 1 .. Len(p) /\ 1 < Len(p)
    BY <1>3, <1>7
  <2> QED
    BY <2>1, <1>c, ChainNext
<1>10. u # << >> => Head(u) = p[2]
  <2> SUFFICES ASSUME u # << >> PROVE Head(u) = p[1 + 1]
    OBVIOUS
  <2>1. 1 \in 1 .. Len(u) /\ Head(u) = u[1]
    BY <1>3, <1>7, <1>e
  <2> QED
    BY <2>1, <1>3
<1> QED
  BY <1>2, <1>e, <1>4, <1>8, <1>9, <1>10, <1>c DEF u

LEMMA ShortPlans ==
    ASSUME NEW k
    PROVE  /\ Delta(k) => Chain(<<"serve", "reuse">>, "build", k) /\ Chain(<<"serve", "reuse">>, "validate", k)
           /\ Delta(k) => Chain(<<"prove", "recheck", "store">>, "build", k) /\ Chain(<<"prove", "recheck", "store">>, "validate", k)
           /\ Chain(<<"prove">>, "build", k) /\ Chain(<<"prove">>, "validate", k)
           /\ Chain(<<"read">>, "validate", k) /\ Chain(<<"compare", "admit">>, "validate", k)
           /\ Chain(<<"stage", "recheck", "link">>, "build", k) /\ Chain(<<"prove", "stage", "link">>, "build", k)
           /\ Chain(<<"prove", "stage", "prove", "compare", "link">>, "build", k)
           /\ ~Delta(k) => Chain(<<"prove_domain", "transition">>, "build", k)
           /\ Chain(<<"prove", "stage", "link", "prove", "compare">>, "build", k)
<1>1. Delta(k) => Chain(<<"serve", "reuse">>, "build", k) /\ Chain(<<"serve", "reuse">>, "validate", k)
  BY DEF Chain, Follows, StageNames
<1>2. Delta(k) => Chain(<<"prove", "recheck", "store">>, "build", k) /\ Chain(<<"prove", "recheck", "store">>, "validate", k)
  BY DEF Chain, Follows, StageNames
<1>3. Chain(<<"prove">>, "build", k) /\ Chain(<<"prove">>, "validate", k)
  BY DEF Chain, Follows, StageNames
<1>4. Chain(<<"read">>, "validate", k) /\ Chain(<<"compare", "admit">>, "validate", k)
  BY DEF Chain, Follows, StageNames
<1>5. Chain(<<"stage", "recheck", "link">>, "build", k) /\ Chain(<<"prove", "stage", "link">>, "build", k)
  BY DEF Chain, Follows, StageNames
<1>6. Chain(<<"prove", "stage", "prove", "compare", "link">>, "build", k)
  BY DEF Chain, Follows, StageNames
<1>7. ~Delta(k) => Chain(<<"prove_domain", "transition">>, "build", k)
  BY DEF Chain, Follows, StageNames
<1>8. Chain(<<"prove", "stage", "link", "prove", "compare">>, "build", k)
  BY DEF Chain, Follows, StageNames
<1> QED
  BY <1>1, <1>2, <1>3, <1>4, <1>5, <1>6, <1>7, <1>8
LEMMA ExpectedOK ==
    ASSUME NEW k, NEW hit \in BOOLEAN
    PROVE  LET e == ExpectedCurrent(k, hit) IN
           /\ Chain(e, "build", k) /\ Chain(e, "validate", k)
           /\ e[Len(e)] \in {"prove", "store", "reuse"} /\ e[1] \in {"prove", "serve"}
           /\ \A j \in 1 .. Len(e) : e[j] = "serve" => hit
<1>1. CASE ~Delta(k)
  <2>1. ExpectedCurrent(k, hit) = <<"prove">>
    BY <1>1 DEF ExpectedCurrent
  <2> QED
    BY <2>1, ShortPlans
<1>2. CASE Delta(k) /\ hit
  <2>1. ExpectedCurrent(k, hit) = <<"serve", "reuse">>
    BY <1>2 DEF ExpectedCurrent
  <2> QED
    BY <2>1, <1>2, ShortPlans
<1>3. CASE Delta(k) /\ ~hit
  <2>1. ExpectedCurrent(k, hit) = <<"prove", "recheck", "store">>
    BY <1>3 DEF ExpectedCurrent
  <2> QED
    BY <2>1, <1>3, ShortPlans
<1> QED
  BY <1>1, <1>2, <1>3

LEMMA BuildPlanOK ==
    ASSUME NEW k \in CertificateKinds, NEW hit \in BOOLEAN, hit => Delta(k)
    PROVE  LET p == BuildPlan(k, hit) IN
           /\ p # << >> /\ PlanOK(p, "build", k) /\ Head(p) \notin {"reuse", "read", "admit"}
           /\ \A i \in 1 .. Len(p) : p[i] = "serve" => hit
<1> DEFINE p == BuildPlan(k, hit)
           e == ExpectedCurrent(k, hit)
           r == <<"stage", "recheck", "link">>
           d == <<"prove_domain", "transition">>
           f == PublishThenVerify
<1>1. CASE k \in {"v1", "sequence"}
  <2>1. p = <<"prove", "stage", "link">>
    BY <1>1 DEF BuildPlan
  <2> QED
    BY <2>1, ShortPlans DEF PlanOK, Ends
<1>2. CASE k \in {"v2", "v3", "equivalent"}
  <2>1. p = e \o r
    BY <1>2 DEF BuildPlan
  <2>2. /\ Chain(e, "build", k) /\ e[Len(e)] \in {"prove", "store", "reuse"} /\ e[1] \in {"prove", "serve"}
        /\ \A j \in 1 .. Len(e) : e[j] = "serve" => hit
    BY ExpectedOK
  <2>4. Chain(r, "build", k) /\ r[Len(r)] \in Ends("build") /\ \A j \in 1 .. Len(r) : r[j] # "serve"
    BY ShortPlans DEF Ends
  <2> HIDE DEF e
  <2>5. <<e[Len(e)], r[1]>> \in Follows("build")
    BY <2>2 DEF Follows
  <2> HIDE DEF r
  <2>3. Joins(e \o r, e, r, "build", k)
    BY <2>2, <2>4, <2>5, ChainConcat
  <2> HIDE DEF p
  <2>6. /\ Chain(p, "build", k) /\ p[Len(p)] = r[Len(r)] /\ Head(p) = e[1] /\ p # << >>
        /\ \A i \in 1 .. Len(p) : (\E j \in 1 .. Len(e) : p[i] = e[j]) \/ (\E j \in 1 .. Len(r) : p[i] = r[j])
    BY <2>1, <2>3 DEF Joins
  <2>7. /\ p # << >> /\ PlanOK(p, "build", k) /\ Head(p) \notin {"reuse", "read", "admit"}
        /\ \A i \in 1 .. Len(p) : p[i] = "serve" => hit
    BY <2>2, <2>4, <2>6 DEF PlanOK
  <2> QED
    BY <2>7 DEF p
<1>3. CASE k = "tag6"
  <2>1. p = <<"prove", "stage", "prove", "compare", "link">>
    BY <1>3 DEF BuildPlan
  <2> QED
    BY <2>1, ShortPlans DEF PlanOK, Ends
<1>4. CASE k = "full374"
  <2>1. p = d \o f
    BY <1>4 DEF BuildPlan
  <2>3. Chain(d, "build", k)
    BY <1>4, ShortPlans DEF Delta
  <2>4. Chain(f, "build", k) /\ f[Len(f)] \in Ends("build") /\ \A j \in 1 .. Len(f) : f[j] # "serve"
    BY ShortPlans DEF Ends, PublishThenVerify
  <2>5. <<d[Len(d)], f[1]>> \in Follows("build") /\ d[1] = "prove_domain" /\ \A j \in 1 .. Len(d) : d[j] # "serve"
    BY DEF Follows, PublishThenVerify
  <2> HIDE DEF d, f
  <2>2. Joins(d \o f, d, f, "build", k)
    BY <2>3, <2>4, <2>5, ChainConcat
  <2> HIDE DEF p
  <2>6. /\ Chain(p, "build", k) /\ p[Len(p)] = f[Len(f)] /\ Head(p) = d[1] /\ p # << >>
        /\ \A i \in 1 .. Len(p) : (\E j \in 1 .. Len(d) : p[i] = d[j]) \/ (\E j \in 1 .. Len(f) : p[i] = f[j])
    BY <2>1, <2>2 DEF Joins
  <2>7. /\ p # << >> /\ PlanOK(p, "build", k) /\ Head(p) \notin {"reuse", "read", "admit"}
        /\ \A i \in 1 .. Len(p) : p[i] = "serve" => hit
    BY <2>4, <2>5, <2>6 DEF PlanOK
  <2> QED
    BY <2>7 DEF p
<1>5. CASE k \notin {"v1", "sequence", "v2", "v3", "equivalent", "tag6", "full374"}
  <2>1. p = <<"prove", "stage", "link", "prove", "compare">>
    BY <1>5 DEF BuildPlan, PublishThenVerify
  <2> QED
    BY <2>1, ShortPlans DEF PlanOK, Ends
<1> QED
  BY <1>1, <1>2, <1>3, <1>4, <1>5

LEMMA ValidatePlanOK ==
    ASSUME NEW k \in CertificateKinds, NEW hit \in BOOLEAN, hit => Delta(k)
    PROVE  LET p == ValidatePlan(k, hit) IN
           /\ p # << >> /\ PlanOK(p, "validate", k) /\ Head(p) = "read"
           /\ \A i \in 1 .. Len(p) : p[i] = "serve" => hit
<1> DEFINE p == ValidatePlan(k, hit)
           e == ExpectedCurrent(k, hit)
           b == <<"read">>
           c == <<"compare", "admit">>
           m == b \o e
<1>2. /\ Chain(e, "validate", k) /\ e[Len(e)] \in {"prove", "store", "reuse"} /\ e[1] \in {"prove", "serve"}
      /\ \A j \in 1 .. Len(e) : e[j] = "serve" => hit
  BY ExpectedOK
<1>3. Chain(b, "validate", k) /\ Len(b) = 1 /\ b[1] = "read"
  BY ShortPlans
<1>4. Chain(c, "validate", k) /\ c[Len(c)] \in Ends("validate") /\ Len(c) = 2 /\ c[1] = "compare" /\ c[2] = "admit"
  BY ShortPlans DEF Ends
<1>6. p = m \o c
  BY DEF ValidatePlan
<1> HIDE DEF e, b, c
<1>5. <<b[Len(b)], e[1]>> \in Follows("validate") /\ <<e[Len(e)], c[1]>> \in Follows("validate")
  BY <1>2, <1>3, <1>4 DEF Follows
<1>7. Joins(m, b, e, "validate", k)
  BY <1>2, <1>3, <1>5, ChainConcat
<1> HIDE DEF m
<1>8. \A i \in 1 .. Len(m) : m[i] = "serve" => hit
  BY <1>2, <1>3, <1>7 DEF Joins
<1>9. m[1] = "read"
  BY <1>3, <1>7 DEF Chain, Joins
<1>a. <<m[Len(m)], c[1]>> \in Follows("validate")
  BY <1>5, <1>7 DEF Joins
<1>b. Chain(m, "validate", k)
  BY <1>7 DEF Joins
<1>1. Joins(m \o c, m, c, "validate", k)
  BY <1>4, <1>a, <1>b, ChainConcat
<1> HIDE DEF p
<1>10. /\ Chain(p, "validate", k) /\ p[Len(p)] = c[Len(c)] /\ Head(p) = m[1] /\ p # << >>
       /\ \A i \in 1 .. Len(p) : (\E j \in 1 .. Len(m) : p[i] = m[j]) \/ (\E j \in 1 .. Len(c) : p[i] = c[j])
  BY <1>1, <1>6 DEF Joins
<1>11. \A i \in 1 .. Len(p) : p[i] = "serve" => hit
  BY <1>4, <1>8, <1>10
<1>12. /\ p # << >> /\ PlanOK(p, "validate", k) /\ Head(p) = "read"
       /\ \A i \in 1 .. Len(p) : p[i] = "serve" => hit
  BY <1>4, <1>9, <1>10, <1>11 DEF PlanOK
<1> QED
  BY <1>12 DEF p

LEMMA ServeAfterRead ==
    ASSUME NEW p, NEW name, NEW k, p # << >>, PlanOK(p, name, k), NEW i \in 1 .. Len(Tail(p)), Tail(p)[i] = "serve"
    PROVE  Head(p) = "read"
<1>1. /\ Chain(p, name, k) /\ Len(p) \in Nat \ {0} /\ Head(p) = p[1] /\ Len(Tail(p)) = Len(p) - 1
      /\ Tail(p)[i] = p[i + 1] /\ i + 1 \in 1 .. Len(p)
  BY PlanTail, HeadTailProperties DEF PlanOK, Chain
<1>2. i \in 1 .. Len(p) /\ i < Len(p)
  BY <1>1
<1>3. <<p[i], "serve">> \in Follows(name)
  BY <1>1, <1>2, ChainNext
<1>4. p[i] = "read"
  BY <1>3 DEF Follows
<1>5. CASE i = 1
  BY <1>1, <1>4, <1>5
<1>6. CASE i # 1
  <2>1. i - 1 \in 1 .. Len(p) /\ i - 1 < Len(p) /\ (i - 1) + 1 = i
    BY <1>2, <1>6
  <2>2. <<p[i - 1], p[(i - 1) + 1]>> \in Follows(name)
    BY <1>1, <2>1, ChainNext
  <2>3. <<p[i - 1], "read">> \in Follows(name)
    BY <2>1, <2>2, <1>4
  <2> QED
    BY <2>3 DEF Follows
<1> QED
  BY <1>5, <1>6

(***************************************************************************)
(* Facts about the running operation                                       *)
(***************************************************************************)
LEMMA StageFacts ==
    ASSUME CertificateInv, plan # << >>
    PROVE  /\ op \in {"build", "validate"} /\ Head(plan) = plan[1] /\ Len(plan) \in Nat \ {0} /\ Head(plan) \in StageNames
           /\ Head(plan) \in {"serve", "reuse", "store"} => Delta(kind)
           /\ Head(plan) = "prove_domain" => ~Delta(kind)
           /\ Head(plan) = "serve" => cache # None
           /\ Head(plan) = "admit" => op = "validate"
           /\ Head(plan) = "read" => op = "validate"
           /\ Head(plan) \in {"stage", "link"} => op = "build"
<1>1. op \in {"build", "validate"} /\ PlanOK(plan, op, kind) /\ \A i \in 1 .. Len(plan) : plan[i] = "serve" => cache # None
  BY DEF CertificateInv, PlanInv
<1>2. Head(plan) = plan[1] /\ Len(plan) \in Nat \ {0} /\ Head(plan) \in StageNames
  BY <1>1, PlanTail
<1>3. Chain(plan, op, kind) /\ 1 \in 1 .. Len(plan)
  BY <1>1, <1>2 DEF PlanOK
<1>4. (plan[1] \in {"serve", "reuse", "store"} => Delta(kind)) /\ (plan[1] = "prove_domain" => ~Delta(kind))
  BY <1>3, ChainNext
<1>5. plan[1] \in Ends(op) \/ <<plan[1], plan[2]>> \in Follows(op)
  BY <1>1, PlanTail
<1>6. /\ plan[1] = "admit" => op = "validate"
      /\ plan[1] = "read" => op = "validate"
      /\ plan[1] \in {"stage", "link"} => op = "build"
  <2>1. CASE op = "build"
    BY <2>1, <1>5 DEF Ends, Follows
  <2>2. CASE op = "validate"
    BY <2>2, <1>5 DEF Ends, Follows
  <2> QED
    BY <2>1, <2>2, <1>1
<1> QED
  BY <1>1, <1>2, <1>3, <1>4, <1>6

LEMMA AdvancePlan ==
    ASSUME CertificateInv, plan # << >>, Advance, UNCHANGED <<kind, history, began>>,
           cache' = cache \/ Head(plan) # "read"
    PROVE  /\ PlanInv'
           /\ plan' # << >> => op' = op /\ <<Head(plan), Head(plan')>> \in Follows(op)
           /\ plan' = << >> => Head(plan) \in Ends(op)
<1>1. /\ op \in {"build", "validate"} /\ PlanOK(plan, op, kind) /\ kind \in Kinds /\ began \in 1 .. Len(history)
      /\ \A i \in 1 .. Len(plan) : plan[i] = "serve" => cache # None
  BY DEF CertificateInv, PlanInv
<1>2. plan' = Tail(plan) /\ at' = 0 /\ op' = IF Len(plan) = 1 THEN None ELSE op
  BY DEF Advance
<1>3. /\ PlanOK(Tail(plan), op, kind) /\ Head(plan) = plan[1]
      /\ Tail(plan) = << >> <=> Len(plan) = 1
      /\ Tail(plan) # << >> => Head(Tail(plan)) = plan[2] /\ <<plan[1], plan[2]>> \in Follows(op)
      /\ Tail(plan) = << >> => plan[1] \in Ends(op)
      /\ \A i \in 1 .. Len(Tail(plan)) : Tail(plan)[i] = plan[i + 1] /\ i + 1 \in 1 .. Len(plan)
  BY <1>1, PlanTail
<1>4. PlanOK(plan', op', kind')
  <2>1. CASE plan' = << >>
    BY <2>1 DEF PlanOK
  <2>2. CASE plan' # << >>
    <3>1. op' = op
      BY <2>2, <1>2, <1>3
    <3> QED
      BY <3>1, <1>2, <1>3
  <2> QED
    BY <2>1, <2>2
<1>5. ASSUME NEW i \in 1 .. Len(plan'), plan'[i] = "serve"
      PROVE  cache' # None
  <2>1. Head(plan) = "read"
    BY <1>1, <1>2, <1>5, ServeAfterRead
  <2>2. plan[i + 1] = "serve" /\ i + 1 \in 1 .. Len(plan)
    BY <1>2, <1>3, <1>5
  <2> QED
    BY <2>1, <2>2, <1>1
<1>6. PlanInv'
  BY <1>1, <1>2, <1>3, <1>4, <1>5 DEF PlanInv
<1> QED
  BY <1>2, <1>3, <1>6

LEMMA StopPlan ==
    ASSUME CertificateInv, Stop, UNCHANGED <<kind, history, began>>
    PROVE  PlanInv' /\ plan' = << >>
BY DEF CertificateInv, PlanInv, PlanOK, Stop

\* What is published or staged stays within the horizon.
LEMMA OutKept ==
    ASSUME CertificateInv, history' = history, began' = began, plan' # << >> => plan # << >> /\ op' = op,
           out' = None \/ out' = out \/ out' = staged, staged' = None \/ staged' = out \/ staged' = staged
    PROVE  OutInv'
<1>1. Len(history) \in Nat /\ began \in Nat /\ 1 <= began /\ began <= Len(history)
  BY NowIs DEF CertificateInv, PlanInv
<1>2. Horizon \in Nat /\ Horizon' \in Nat /\ Horizon <= Horizon'
  BY <1>1 DEF Horizon, Running
<1>3. (out # None => Taken(history, out, 1, Horizon)) /\ (staged # None => Taken(history, staged, 1, Horizon))
  BY DEF CertificateInv, OutInv
<1>4. ASSUME NEW d, Taken(history, d, 1, Horizon)
      PROVE  Taken(history, d, 1, Horizon')
  BY <1>2, <1>4, TakenWider
<1> QED
  BY <1>3, <1>4 DEF OutInv

LEMMA CacheKept ==
    ASSUME CertificateInv, UNCHANGED <<kind, history>>, cache' = cache \/ cache' = None
    PROVE  CacheInv' /\ Grows(history')
BY DEF CertificateInv, CacheInv

\* The stage ends and leaves the document; the next one is not to recheck it.
LEMMA DocKept ==
    ASSUME CertificateInv, UNCHANGED <<kind, history, began, doc>>, plan' # << >> => plan # << >> /\ Head(plan) # "reuse",
           plan' # << >> => Head(plan') # "reuse"
    PROVE  DocInv'
BY DEF CertificateInv, DocInv

LEMMA VerdictKept ==
    ASSUME CertificateInv, UNCHANGED <<history, began, doc, verdict>>, plan # << >> => Head(plan) # "admit", plan' # << >> => plan # << >>
    PROVE  VerdictInv' /\ (plan' # << >> => verdict' = "none")
BY DEF CertificateInv, VerdictInv

LEMMA NextStage ==
    ASSUME NEW a, NEW b, NEW name, <<a, b>> \in Follows(name)
    PROVE  /\ b = "reuse" <=> a = "serve"
           /\ b = "admit" <=> (a = "compare" /\ name = "validate")
           /\ b # "read"
<1>1. CASE name = "validate"
  BY <1>1 DEF Follows
<1>2. CASE name # "validate"
  BY <1>2 DEF Follows
<1> QED
  BY <1>1, <1>2

LEMMA StageDone ==
    ASSUME CertificateInv, plan # << >>, Head(plan) \notin {"read", "serve", "compare", "admit"}, Advance,
           UNCHANGED <<kind, history, began, doc, verdict>>, staged' = staged \/ op = "build"
    PROVE  /\ PlanInv' /\ ValidateInv' /\ VerdictInv'
           /\ plan' # << >> => op' = op /\ Head(plan') # "reuse"
<1>1. /\ PlanInv'
      /\ plan' # << >> => op' = op /\ <<Head(plan), Head(plan')>> \in Follows(op)
  BY AdvancePlan
<1>2. plan' # << >> => Head(plan') \notin {"reuse", "admit", "read"}
  BY <1>1, NextStage
<1>3. VerdictInv'
  BY VerdictKept
<1>4. ValidateInv'
  BY <1>1, <1>2 DEF CertificateInv, ValidateInv, Running
<1> QED
  BY <1>1, <1>2, <1>3, <1>4

LEMMA RecheckLength ==
    /\ RecheckOrder \in Seq(RecheckFiles) /\ Len(RecheckOrder) = 15
    /\ \A f \in RecheckFiles : \E n \in 1 .. 15 : RecheckOrder[n] = f
<1>1. RecheckOrder \in Seq(RecheckFiles) /\ Len(RecheckOrder) = 15
  BY RecheckNames DEF RecheckOrder
<1>2. ASSUME NEW f \in RecheckFiles
      PROVE  \E n \in 1 .. 15 : RecheckOrder[n] = f
  <2>1. f \in {"native", "validators", "input", "library", "shared", "reviews", "artifacts", "base", "run_aware",
               "service", "cases", "raw", "build", "trace", "delta"}
    BY DEF RecheckFiles, Files
  <2> QED
    BY <2>1 DEF RecheckOrder
<1> QED
  BY <1>1, <1>2

LEMMA RecheckSteps ==
    ASSUME NEW stage \in {"recheck", "reuse"}
    PROVE  /\ Len(StepsOf(stage)) = 15 /\ DOMAIN StepsOf(stage) = 1 .. 15
           /\ \A n \in 1 .. 15 : StepsOf(stage)[n] = <<"check", RecheckOrder[n]>>
<1>1. StepsOf(stage) = Each("check", RecheckOrder)
  BY DEF StepsOf
<1>2. DOMAIN RecheckOrder = 1 .. 15
  BY RecheckLength
<1>3. StepsOf(stage) = [i \in 1 .. 15 |-> <<"check", RecheckOrder[i]>>]
  BY <1>1, <1>2 DEF Each
<1> QED
  BY <1>3

\* A proof from the cache whose recheck came to its end is of this operation.
LEMMA RecheckedNow ==
    ASSUME CertificateInv, plan # << >>, Head(plan) = "reuse", at = 15
    PROVE  Taken(history, doc, began, Len(history))
<1>1. Delta(kind)
  BY StageFacts
<1>2. /\ DOMAIN doc \subseteq RecheckFiles /\ Taken(history, doc, 1, Len(history))
      /\ \A n \in 1 .. 15 : RecheckOrder[n] \in DOMAIN doc =>
           \A v \in doc[RecheckOrder[n]] : \E i \in began .. Len(history) : history[i][RecheckOrder[n]] = v
  BY <1>1 DEF CertificateInv, DocInv
<1>3. ASSUME NEW key \in DOMAIN doc
      PROVE  \A v \in doc[key] : \E i \in began .. Len(history) : history[i][FileOf(key)] = v
  <2>1. key \in RecheckFiles /\ FileOf(key) = key
    <3>1. key \in RecheckFiles
      BY <1>2
    <3>2. key # "summary"
      BY <3>1 DEF RecheckFiles, Files
    <3> QED
      BY <3>1, <3>2 DEF FileOf
  <2>2. PICK n \in 1 .. 15 : RecheckOrder[n] = key
    BY <2>1, RecheckLength
  <2> QED
    BY <2>1, <2>2, <1>2
<1> QED
  BY <1>2, <1>3 DEF Taken

LEMMA ProvedStep == CertificateInv /\ Proved => CertificateInv'
<1> SUFFICES ASSUME CertificateInv, Proved PROVE CertificateInv'
  OBVIOUS
<1> USE DEF Proved
<1>1. PICK stage \in {"prove", "prove_domain", "recheck", "reuse"} : Ready(stage)
  OBVIOUS
<1>2. plan # << >> /\ Head(plan) = stage /\ (stage = "reuse" => at = 15)
  BY <1>1, RecheckSteps DEF Ready
<1>3. /\ PlanInv' /\ ValidateInv' /\ VerdictInv'
      /\ plan' # << >> => op' = op /\ Head(plan') # "reuse"
  BY <1>2, StageDone
<1>4. OutInv' /\ CacheInv' /\ Grows(history')
  BY <1>2, <1>3, OutKept, CacheKept
<1>5. CASE stage # "reuse"
  <2>1. DocInv'
    BY <1>2, <1>3, <1>5, DocKept
  <2> QED
    BY <2>1, <1>3, <1>4 DEF CertificateInv
<1>6. CASE stage = "reuse"
  <2>1. Taken(history, doc, began, Len(history))
    BY <1>2, <1>6, RecheckedNow
  <2>2. DocInv'
    BY <1>3, <2>1 DEF CertificateInv, DocInv
  <2> QED
    BY <2>2, <1>3, <1>4 DEF CertificateInv
<1> QED
  BY <1>5, <1>6

LEMMA DocTaken ==
    ASSUME CertificateInv, plan # << >>, Head(plan) # "reuse"
    PROVE  /\ Taken(history, doc, began, Len(history)) /\ Taken(history, doc, 1, Len(history))
           /\ Delta(kind) => DOMAIN doc \subseteq RecheckFiles
<1>1. Taken(history, doc, began, Len(history)) /\ (Delta(kind) => DOMAIN doc \subseteq RecheckFiles)
  BY DEF CertificateInv, DocInv
<1>2. Len(history) \in Nat /\ began \in Nat /\ 1 <= began
  BY NowIs DEF CertificateInv, PlanInv
<1> QED
  BY <1>1, <1>2, TakenWider

LEMMA StoreStep == CertificateInv /\ Store => CertificateInv'
<1> SUFFICES ASSUME CertificateInv, Store PROVE CertificateInv'
  OBVIOUS
<1>1. plan # << >> /\ Head(plan) = "store" /\ Advance
  BY DEF Store, Ready
<1>2. /\ PlanInv' /\ ValidateInv' /\ VerdictInv'
      /\ plan' # << >> => op' = op /\ Head(plan') # "reuse"
  BY <1>1, StageDone DEF Store
<1>3. OutInv' /\ DocInv'
  BY <1>1, <1>2, OutKept, DocKept DEF Store
<1>4. Delta(kind) /\ DOMAIN doc \subseteq RecheckFiles /\ Taken(history, doc, 1, Len(history))
  BY <1>1, StageFacts, DocTaken
<1>5. cache' = [doc |-> doc, seen |-> seen] /\ history' = history /\ kind' = kind
  BY DEF Store
<1>6. CacheInv'
  BY <1>4, <1>5 DEF CacheInv
<1> QED
  BY <1>2, <1>3, <1>5, <1>6 DEF CertificateInv

LEMMA TransitionStep == CertificateInv /\ PublishTransition => CertificateInv'
<1> SUFFICES ASSUME CertificateInv, PublishTransition PROVE CertificateInv'
  OBVIOUS
<1>1. plan # << >> /\ Head(plan) = "transition" /\ Advance /\ UNCHANGED <<kind, history, began, doc, verdict, staged, out, cache>>
  BY DEF PublishTransition, Ready
<1>2. /\ PlanInv' /\ ValidateInv' /\ VerdictInv'
      /\ plan' # << >> => op' = op /\ Head(plan') # "reuse"
  BY <1>1, StageDone
<1>3. OutInv' /\ DocInv' /\ CacheInv' /\ Grows(history')
  BY <1>1, <1>2, OutKept, DocKept, CacheKept
<1> QED
  BY <1>2, <1>3 DEF CertificateInv

LEMMA StageStep == CertificateInv /\ Stage => CertificateInv'
<1> SUFFICES ASSUME CertificateInv, Stage PROVE CertificateInv'
  OBVIOUS
<1>1. plan # << >> /\ Head(plan) = "stage" /\ Advance /\ UNCHANGED <<kind, history, began, doc, verdict, out, cache>> /\ staged' = doc
  BY DEF Stage, Ready
<1>2. op = "build"
  BY <1>1, StageFacts
<1>3. /\ PlanInv' /\ ValidateInv' /\ VerdictInv'
      /\ plan' # << >> => op' = op /\ Head(plan') # "reuse"
  BY <1>1, <1>2, StageDone
<1>4. DocInv' /\ CacheInv' /\ Grows(history')
  BY <1>1, <1>3, DocKept, CacheKept
<1>5. Horizon' = Len(history) /\ Horizon = Len(history)
  BY <1>1, <1>2, <1>3 DEF Horizon, Running
<1>6. OutInv'
  BY <1>1, <1>5, DocTaken DEF CertificateInv, OutInv
<1> QED
  BY <1>3, <1>4, <1>6 DEF CertificateInv

LEMMA LinkStep == CertificateInv /\ Link => CertificateInv'
<1> SUFFICES ASSUME CertificateInv, Link PROVE CertificateInv'
  OBVIOUS
<1>1. plan # << >> /\ Head(plan) = "link" /\ Advance /\ UNCHANGED <<kind, history, began, doc, verdict, staged, cache>> /\ out' = staged
  BY DEF Link, Ready
<1>2. /\ PlanInv' /\ ValidateInv' /\ VerdictInv'
      /\ plan' # << >> => op' = op /\ Head(plan') # "reuse"
  BY <1>1, StageDone
<1>3. OutInv' /\ DocInv' /\ CacheInv' /\ Grows(history')
  BY <1>1, <1>2, OutKept, DocKept, CacheKept
<1> QED
  BY <1>2, <1>3 DEF CertificateInv

LEMMA ServeStep == CertificateInv /\ Serve => CertificateInv'
<1> SUFFICES ASSUME CertificateInv, Serve PROVE CertificateInv'
  OBVIOUS
<1>1. /\ plan # << >> /\ Head(plan) = "serve" /\ Advance /\ UNCHANGED <<kind, history, began, verdict, staged, out, cache>>
      /\ doc' = cache.doc
  BY DEF Serve, Ready
<1>2. /\ PlanInv'
      /\ plan' # << >> => op' = op /\ <<Head(plan), Head(plan')>> \in Follows(op)
      /\ plan' = << >> => Head(plan) \in Ends(op)
  BY <1>1, AdvancePlan
<1>3. plan' # << >> /\ op' = op /\ Head(plan') = "reuse"
  <2>1. "serve" \notin Ends(op)
    BY DEF Ends
  <2> QED
    BY <1>1, <1>2, <2>1, NextStage
<1>4. OutInv' /\ CacheInv' /\ Grows(history')
  BY <1>1, <1>3, OutKept, CacheKept
<1>5. Delta(kind) /\ DOMAIN cache.doc \subseteq RecheckFiles /\ Taken(history, cache.doc, 1, Len(history))
  BY <1>1, StageFacts DEF CertificateInv, CacheInv
<1>6. at' = 0
  BY <1>1 DEF Advance
<1>7. DocInv'
  BY <1>1, <1>3, <1>5, <1>6 DEF DocInv
<1>8. verdict' = "none"
  BY <1>1 DEF CertificateInv, VerdictInv
<1>9. VerdictInv' /\ ValidateInv'
  BY <1>1, <1>3, <1>8 DEF VerdictInv, CertificateInv, ValidateInv, Running
<1> QED
  BY <1>2, <1>4, <1>7, <1>9 DEF CertificateInv

LEMMA ReadDocumentStep == CertificateInv /\ ReadDocument => CertificateInv'
<1> SUFFICES ASSUME CertificateInv, ReadDocument PROVE CertificateInv'
  OBVIOUS
<1>1. plan # << >> /\ Head(plan) = "read" /\ UNCHANGED <<kind, history, began, doc, verdict, out, cache>>
  BY DEF ReadDocument, Ready
<1>2. CASE out = None
  <2>1. Stop /\ staged' = staged
    BY <1>2 DEF ReadDocument
  <2>2. PlanInv' /\ plan' = << >>
    BY <1>1, <2>1, StopPlan
  <2>3. OutInv' /\ DocInv' /\ CacheInv' /\ Grows(history') /\ VerdictInv'
    BY <1>1, <2>1, <2>2, OutKept, DocKept, CacheKept, VerdictKept
  <2>4. ValidateInv'
    BY <2>2 DEF ValidateInv, Running
  <2> QED
    BY <2>2, <2>3, <2>4 DEF CertificateInv
<1>3. CASE out # None
  <2>1. Advance /\ staged' = out
    BY <1>3 DEF ReadDocument
  <2>2. /\ PlanInv'
        /\ plan' # << >> => op' = op /\ <<Head(plan), Head(plan')>> \in Follows(op)
    BY <1>1, <2>1, AdvancePlan
  <2>3. plan' # << >> => Head(plan') \notin {"reuse", "admit", "read"}
    BY <1>1, <2>2, NextStage
  <2>4. OutInv' /\ DocInv' /\ CacheInv' /\ Grows(history') /\ VerdictInv'
    BY <1>1, <2>1, <2>2, <2>3, OutKept, DocKept, CacheKept, VerdictKept
  <2>5. ValidateInv'
    BY <1>1, <1>3, <2>1, <2>3 DEF ValidateInv, Running
  <2> QED
    BY <2>2, <2>4, <2>5 DEF CertificateInv
<1> QED
  BY <1>2, <1>3

LEMMA CompareStep == CertificateInv /\ Compare => CertificateInv'
<1> SUFFICES ASSUME CertificateInv, Compare PROVE CertificateInv'
  OBVIOUS
<1>1. plan # << >> /\ Head(plan) = "compare" /\ UNCHANGED <<kind, history, began, doc, staged, out, cache>>
  BY DEF Compare, Ready
<1>2. CASE ~Same
  <2>1. Stop /\ verdict' = verdict
    BY <1>2 DEF Compare
  <2>2. PlanInv' /\ plan' = << >>
    BY <1>1, <2>1, StopPlan
  <2>3. OutInv' /\ DocInv' /\ CacheInv' /\ Grows(history') /\ VerdictInv'
    BY <1>1, <2>1, <2>2, OutKept, DocKept, CacheKept, VerdictKept
  <2>4. ValidateInv'
    BY <2>2 DEF ValidateInv, Running
  <2> QED
    BY <2>2, <2>3, <2>4 DEF CertificateInv
<1>3. CASE Same
  <2>1. Advance /\ verdict' = IF op = "validate" THEN "scoped" ELSE verdict
    BY <1>3 DEF Compare
  <2>2. /\ PlanInv'
        /\ plan' # << >> => op' = op /\ <<Head(plan), Head(plan')>> \in Follows(op)
        /\ plan' = << >> => Head(plan) \in Ends(op)
    BY <1>1, <2>1, AdvancePlan
  <2>3. /\ plan' # << >> => Head(plan') \notin {"reuse", "read"}
        /\ plan' # << >> => (Head(plan') = "admit" <=> op = "validate")
    BY <1>1, <2>2, NextStage
  <2>4. OutInv' /\ DocInv' /\ CacheInv' /\ Grows(history')
    BY <1>1, <2>2, <2>3, OutKept, DocKept, CacheKept
  <2>5. verdict = "none" /\ op \in {"build", "validate"}
    BY <1>1, StageFacts DEF CertificateInv, VerdictInv
  <2>6. CASE op = "build"
    BY <1>1, <2>1, <2>2, <2>3, <2>4, <2>5, <2>6 DEF CertificateInv, ValidateInv, VerdictInv, Running
  <2>7. CASE op = "validate"
    <3>1. staged # None
      BY <1>1, <2>7 DEF CertificateInv, ValidateInv, Running
    <3>2. Taken(history, doc, 1, began) /\ doc = staged
      BY <1>1, <1>3, <2>7, <3>1 DEF CertificateInv, OutInv, Horizon, Running, Same
    <3>3. Taken(history, doc, began, Len(history))
      BY <1>1, DocTaken
    <3>4. \A key \in DOMAIN doc : doc[key] = {history[began][FileOf(key)]}
      <4>1. Grows(history) /\ began \in 1 .. Len(history)
        BY DEF CertificateInv, PlanInv
      <4> QED
        BY <3>2, <3>3, <4>1, OneInstant
    <3>5. VerdictInv'
      BY <1>1, <2>2, <2>3, <2>7, <3>3, <3>4 DEF VerdictInv, Running
    <3>6. ValidateInv'
      BY <1>1, <2>1, <2>2, <2>3, <2>7, <3>1 DEF ValidateInv, Running
    <3> QED
      BY <2>2, <2>4, <3>5, <3>6 DEF CertificateInv
  <2> QED
    BY <2>5, <2>6, <2>7
<1> QED
  BY <1>2, <1>3

LEMMA AdmitStep == CertificateInv /\ Admit => CertificateInv'
<1> SUFFICES ASSUME CertificateInv, Admit PROVE CertificateInv'
  OBVIOUS
<1>1. plan # << >> /\ Head(plan) = "admit" /\ Advance /\ UNCHANGED <<kind, history, began, doc, staged, out, cache>>
  BY DEF Admit, Ready
<1>2. /\ PlanInv'
      /\ plan' # << >> => op' = op /\ <<Head(plan), Head(plan')>> \in Follows(op)
  BY <1>1, AdvancePlan
<1>3. op = "validate" /\ verdict # "none"
  BY <1>1, StageFacts DEF CertificateInv, ValidateInv, Running
<1>4. plan' = << >>
  BY <1>1, <1>2, <1>3 DEF Follows
<1>5. OutInv' /\ DocInv' /\ CacheInv' /\ Grows(history')
  BY <1>1, <1>4, OutKept, DocKept, CacheKept
<1>6. VerdictInv'
  BY <1>1, <1>3, <1>4 DEF CertificateInv, VerdictInv
<1>7. ValidateInv'
  BY <1>4 DEF ValidateInv, Running
<1> QED
  BY <1>2, <1>5, <1>6, <1>7 DEF CertificateInv

LEMMA RestartStep == CertificateInv /\ Restart => CertificateInv'
<1> SUFFICES ASSUME CertificateInv, Restart PROVE CertificateInv'
  OBVIOUS
<1>1. plan = << >> /\ plan' = plan /\ cache' = None /\ UNCHANGED <<kind, history, at, op, began, doc, staged, out, verdict>>
  BY DEF Restart
<1>2. OutInv' /\ DocInv' /\ CacheInv' /\ Grows(history') /\ VerdictInv'
  BY <1>1, OutKept, DocKept, CacheKept, VerdictKept
<1>3. ValidateInv'
  BY <1>1 DEF ValidateInv, Running
<1>4. PlanInv'
  BY <1>1 DEF CertificateInv, PlanInv
<1> QED
  BY <1>2, <1>3, <1>4 DEF CertificateInv

LEMMA BeginStep ==
    ASSUME CertificateInv, NEW name \in {"build", "validate"}, NEW p, Begin(name, p),
           p # << >> /\ PlanOK(p, name, kind) /\ Head(p) # "reuse", \A i \in 1 .. Len(p) : p[i] = "serve" => cache # None,
           IF name = "validate" THEN Head(p) = "read" ELSE TRUE
    PROVE  CertificateInv'
<1>1. /\ plan = << >> /\ plan' = p /\ op' = name /\ began' = Len(history) /\ at' = 0 /\ doc' = Empty /\ staged' = None
      /\ verdict' = "none" /\ UNCHANGED <<kind, history, out, cache>>
  BY DEF Begin
<1>2. Len(history) \in Nat /\ Len(history) >= 1
  BY NowIs DEF CertificateInv
<1>3. CacheInv' /\ Grows(history')
  BY <1>1, CacheKept
<1>4. PlanInv'
  BY <1>1, <1>2 DEF CertificateInv, PlanInv
<1>5. DocInv'
  BY <1>1, TakenEmpty DEF DocInv
<1>6. OutInv'
  <2>1. Horizon' = Len(history) /\ Horizon = Len(history)
    BY <1>1 DEF Horizon, Running
  <2> QED
    BY <1>1, <2>1 DEF CertificateInv, OutInv
<1>7. ValidateInv' /\ VerdictInv'
  BY <1>1 DEF ValidateInv, VerdictInv, Running
<1> QED
  BY <1>3, <1>4, <1>5, <1>6, <1>7 DEF CertificateInv

LEMMA OperationBegins == CertificateInv /\ (Build \/ Validate) => CertificateInv'
<1> SUFFICES ASSUME CertificateInv, Build \/ Validate PROVE CertificateInv'
  OBVIOUS
<1> DEFINE hit == cache # None
<1>1. hit \in BOOLEAN /\ (hit => Delta(kind)) /\ kind \in CertificateKinds
  BY InstanceAssumption DEF CertificateInv, CacheInv, PlanInv
<1>2. CASE Build
  <2>1. LET p == BuildPlan(kind, hit) IN
        /\ p # << >> /\ PlanOK(p, "build", kind) /\ Head(p) \notin {"reuse", "read", "admit"}
        /\ \A i \in 1 .. Len(p) : p[i] = "serve" => hit
    <3> HIDE DEF hit
    <3> QED
      BY <1>1, BuildPlanOK
  <2> DEFINE p == BuildPlan(kind, hit)
  <2>2. Begin("build", p)
    BY <1>2 DEF Build
  <2>3. /\ p # << >> /\ PlanOK(p, "build", kind) /\ Head(p) # "reuse"
        /\ \A i \in 1 .. Len(p) : p[i] = "serve" => cache # None
    BY <2>1
  <2> HIDE DEF p
  <2> QED
    BY <2>2, <2>3, BeginStep
<1>3. CASE Validate
  <2>1. LET p == ValidatePlan(kind, hit) IN
        /\ p # << >> /\ PlanOK(p, "validate", kind) /\ Head(p) = "read"
        /\ \A i \in 1 .. Len(p) : p[i] = "serve" => hit
    <3> HIDE DEF hit
    <3> QED
      BY <1>1, ValidatePlanOK
  <2> DEFINE p == ValidatePlan(kind, hit)
  <2>2. Begin("validate", p)
    BY <1>3 DEF Validate
  <2>3. /\ p # << >> /\ PlanOK(p, "validate", kind) /\ Head(p) = "read"
        /\ \A i \in 1 .. Len(p) : p[i] = "serve" => cache # None
    BY <2>1
  <2> HIDE DEF p
  <2> QED
    BY <2>2, <2>3, BeginStep
<1> QED
  BY <1>2, <1>3

LEMMA EditStep == ASSUME CertificateInv, NEW f \in Editable, Edit(f) PROVE CertificateInv'
<1> DEFINE g == [Last(history) EXCEPT ![f] = Len(history)]
<1>1. history' = Append(history, g) /\ UNCHANGED <<kind, plan, at, op, began, doc, staged, out, cache, verdict>>
  BY DEF Edit, Now
<1>2. f \in Files /\ Grows(history) /\ began \in 1 .. Len(history)
  BY InstanceAssumption DEF CertificateInv, PlanInv
<1>3. Grows(history')
  BY <1>1, <1>2, EditGrows
<1>4. /\ Len(history) \in Nat /\ Len(history) >= 1 /\ Len(history') = Len(history) + 1 /\ g \in [Files -> Nat]
      /\ \A i \in 1 .. Len(history) : history'[i] = history[i]
  <2>1. Len(history) \in Nat /\ Len(history) >= 1 /\ Last(history) \in [Files -> Nat] /\ history \in Seq([Files -> Nat])
    BY <1>2, NowIs DEF Grows
  <2>2. g \in [Files -> Nat]
    BY <2>1
  <2> HIDE DEF g
  <2> QED
    BY <1>1, <2>1, <2>2, AppendProperties
<1> HIDE DEF g
<1>5. ASSUME NEW d, NEW low \in 1 .. Len(history), Taken(history, d, low, Len(history))
      PROVE  Taken(history', d, low, Len(history'))
  <2>1. Taken(history', d, low, Len(history))
    BY <1>1, <1>2, <1>4, <1>5, TakenLater
  <2> QED
    BY <1>4, <2>1, TakenWider
<1>6. 1 \in 1 .. Len(history)
  BY <1>4
<1>7. CacheInv'
  BY <1>1, <1>5, <1>6 DEF CertificateInv, CacheInv
<1>8. PlanInv'
  <2>1. began' \in 1 .. Len(history')
    BY <1>1, <1>2, <1>4
  <2> QED
    BY <1>1, <2>1 DEF CertificateInv, PlanInv
<1>9. DocInv'
  <2>1. CASE plan # << >> /\ Head(plan) = "reuse"
    <3>1. Taken(history', doc, 1, Len(history'))
      BY <2>1, <1>5, <1>6 DEF CertificateInv, DocInv
    <3>2. ASSUME NEW n \in 1 .. 15, n <= at, RecheckOrder[n] \in DOMAIN doc, NEW v \in doc[RecheckOrder[n]]
          PROVE  \E i \in began .. Len(history') : history'[i][RecheckOrder[n]] = v
      <4>1. PICK i \in began .. Len(history) : history[i][RecheckOrder[n]] = v
        BY <2>1, <3>2 DEF CertificateInv, DocInv
      <4>2. i \in began .. Len(history') /\ history'[i] = history[i]
        BY <1>2, <1>4
      <4> QED
        BY <4>1, <4>2
    <3> QED
      BY <1>1, <2>1, <3>1, <3>2 DEF CertificateInv, DocInv
  <2>2. CASE plan # << >> /\ Head(plan) # "reuse"
    <3>1. Taken(history', doc, began, Len(history'))
      BY <2>2, <1>2, <1>5 DEF CertificateInv, DocInv
    <3> QED
      BY <1>1, <2>2, <3>1 DEF CertificateInv, DocInv
  <2>3. CASE plan = << >>
    BY <1>1, <2>3 DEF CertificateInv, DocInv
  <2> QED
    BY <2>1, <2>2, <2>3
<1>10. OutInv'
  <2>1. ASSUME NEW d, Taken(history, d, 1, Horizon)
        PROVE  Taken(history', d, 1, Horizon')
    <3>1. Horizon \in 1 .. Len(history) /\ Horizon' \in Nat /\ Horizon <= Horizon'
      BY <1>1, <1>2, <1>4 DEF Horizon, Running
    <3>2. Taken(history', d, 1, Horizon)
      BY <1>1, <1>2, <1>4, <2>1, <3>1, TakenLater
    <3> QED
      BY <3>1, <3>2, TakenWider
  <2> QED
    BY <1>1, <2>1 DEF CertificateInv, OutInv
<1>11. ValidateInv'
  BY <1>1 DEF CertificateInv, ValidateInv, Running
<1>12. VerdictInv'
  <2> SUFFICES ASSUME verdict # "none" PROVE VerdictInv'
    BY <1>1 DEF VerdictInv
  <2>1. /\ plan = << >> \/ (Running("validate") /\ Head(plan) = "admit")
        /\ Taken(history, doc, began, Len(history))
        /\ \A key \in DOMAIN doc : doc[key] = {history[began][FileOf(key)]}
    BY DEF CertificateInv, VerdictInv
  <2>2. Taken(history', doc, began, Len(history'))
    BY <1>2, <1>5, <2>1
  <2>3. history'[began] = history[began]
    BY <1>2, <1>4
  <2> QED
    BY <1>1, <2>1, <2>2, <2>3 DEF VerdictInv, Running
<1> QED
  BY <1>3, <1>7, <1>8, <1>9, <1>10, <1>11, <1>12 DEF CertificateInv

LEMMA FailStep ==
    ASSUME CertificateInv, plan # << >>, Head(plan) # "admit", Fail
    PROVE  CertificateInv'
<1>1. Stop /\ UNCHANGED <<kind, history, began, doc, staged, out, verdict>> /\ (cache' = cache \/ cache' = None)
  BY DEF Fail
<1>2. PlanInv' /\ plan' = << >>
  BY <1>1, StopPlan
<1>3. OutInv' /\ DocInv' /\ CacheInv' /\ Grows(history') /\ VerdictInv'
  BY <1>1, <1>2, OutKept, DocKept, CacheKept, VerdictKept
<1>4. ValidateInv'
  BY <1>2 DEF ValidateInv, Running
<1> QED
  BY <1>2, <1>3, <1>4 DEF CertificateInv

\* The next step of the running stage
LEMMA ReadFacts ==
    ASSUME CertificateInv, Read
    PROVE  \E act, f :
             /\ plan # << >> /\ Step(act, f) /\ Head(plan) \in {"prove", "prove_domain", "recheck", "reuse"}
             /\ Head(plan) \in {"recheck", "reuse"} => at + 1 \in 1 .. 15 /\ act = "check" /\ f = RecheckOrder[at + 1]
             /\ Head(plan) \in {"prove", "prove_domain"} =>
                  <<act, f>> \in ProofStep /\ (Delta(kind) => <<act, f>> \in DeltaStep)
<1> DEFINE steps == StepsOf(Head(plan))
           act == steps[at + 1][1]
           f == steps[at + 1][2]
<1>1. plan # << >> /\ at < Len(steps) /\ Step(act, f) /\ at \in Nat /\ kind \in CertificateKinds
  BY InstanceAssumption DEF Read, CertificateInv, PlanInv
<1>2. Head(plan) \in {"prove", "prove_domain", "recheck", "reuse"}
  <2> SUFFICES ASSUME Head(plan) \notin {"prove", "prove_domain", "recheck", "reuse"} PROVE FALSE
    OBVIOUS
  <2>1. steps = << >>
    BY DEF StepsOf
  <2> QED
    BY <1>1, <2>1
<1>3. CASE Head(plan) \in {"recheck", "reuse"}
  <2>1. at + 1 \in 1 .. 15 /\ steps[at + 1] = <<"check", RecheckOrder[at + 1]>>
    <3>1. Len(steps) = 15 /\ \A n \in 1 .. 15 : steps[n] = <<"check", RecheckOrder[n]>>
      BY <1>3, RecheckSteps
    <3> HIDE DEF steps
    <3> QED
      BY <1>1, <3>1
  <2>2. act = "check" /\ f = RecheckOrder[at + 1]
    BY <2>1
  <2> QED
    BY <1>1, <1>2, <1>3, <2>1, <2>2
<1>4. CASE Head(plan) \in {"prove", "prove_domain"}
  <2>1. steps \in Seq(ProofStep) /\ (Delta(kind) => steps \in Seq(DeltaStep))
    <3>1. Head(plan) = "prove" => steps = Program(kind)
      BY DEF StepsOf
    <3>2. Head(plan) = "prove_domain" => steps = Verified /\ ~Delta(kind)
      BY <1>1, StageFacts DEF StepsOf
    <3> QED
      BY <1>1, <1>4, <3>1, <3>2, ProgramSteps, VerifiedSteps
  <2> HIDE DEF steps
  <2>2. at + 1 \in 1 .. Len(steps)
    BY <1>1, <2>1
  <2>3. steps[at + 1] \in ProofStep /\ (Delta(kind) => steps[at + 1] \in DeltaStep)
    BY <2>1, <2>2, ElementOfSeq
  <2>4. steps[at + 1] = <<act, f>>
    BY <2>3 DEF ProofStep
  <2>5. <<act, f>> \in ProofStep /\ (Delta(kind) => <<act, f>> \in DeltaStep)
    BY <2>3, <2>4
  <2> HIDE DEF act, f
  <2> QED
    BY <1>1, <1>2, <1>4, <2>5
<1> QED
  BY <1>2, <1>3, <1>4

LEMMA ReadStep == CertificateInv /\ Read => CertificateInv'
<1> SUFFICES ASSUME CertificateInv, Read PROVE CertificateInv'
  OBVIOUS
<1>1. PICK act, f :
        /\ plan # << >> /\ Step(act, f) /\ Head(plan) \in {"prove", "prove_domain", "recheck", "reuse"}
        /\ Head(plan) \in {"recheck", "reuse"} => at + 1 \in 1 .. 15 /\ act = "check" /\ f = RecheckOrder[at + 1]
        /\ Head(plan) \in {"prove", "prove_domain"} =>
             <<act, f>> \in ProofStep /\ (Delta(kind) => <<act, f>> \in DeltaStep)
  BY ReadFacts
<1>2. CASE Fail
  BY <1>1, <1>2, FailStep
<1> DEFINE proving == Head(plan) \notin {"recheck", "reuse"}
           before == IF proving /\ at = 0 THEN Empty ELSE doc
<1>3. CASE /\ Passes(act, f) /\ at' = at + 1
           /\ doc' = CASE act \in {"pin", "bind"} -> Add(before, f, Now[f])
                       [] act = "derive" -> Add(before, "summary", Now[f])
                       [] OTHER -> before
           /\ UNCHANGED <<kind, history, plan, op, began, staged, out, transition, cache, verdict, ops>>
  <2>1. OutInv' /\ CacheInv' /\ Grows(history')
    BY <1>1, <1>3, OutKept, CacheKept
  <2>2. verdict = "none"
    BY <1>1 DEF CertificateInv, VerdictInv
  <2>3. VerdictInv' /\ ValidateInv' /\ PlanInv'
    BY <1>3, <2>2 DEF VerdictInv, ValidateInv, CertificateInv, PlanInv, Running
  <2>4. Grows(history) /\ began \in 1 .. Len(history) /\ Now = history[Len(history)] /\ Len(history) \in Nat /\ Len(history) >= 1
    BY NowIs DEF CertificateInv, PlanInv, Now
  <2>5. ASSUME Head(plan) \in {"prove", "prove_domain"}
        PROVE  DocInv'
    <3>1. Taken(history, before, began, Len(history)) /\ (Delta(kind) => DOMAIN before \subseteq RecheckFiles)
      BY <1>1, <2>5, DocTaken, TakenEmpty
    <3> HIDE DEF before
    <3>2. <<act, f>> \in ProofStep /\ (Delta(kind) => <<act, f>> \in DeltaStep)
      BY <1>1, <2>5
    <3>3. CASE act \in {"pin", "bind"}
      <4>1. f \in Files /\ f # "summary" /\ (Delta(kind) => f \in RecheckFiles)
        <5>1. f \in Files
          BY <3>2, <3>3, FileNames DEF ProofStep
        <5>2. f # "summary"
          BY <5>1 DEF Files
        <5>3. Delta(kind) => f \in RecheckFiles
          BY <3>2, <3>3 DEF DeltaStep
        <5> QED
          BY <5>1, <5>2, <5>3
      <4>2. f \in Keys /\ FileOf(f) = f
        BY <4>1 DEF Keys, FileOf
      <4>3. doc' = Add(before, f, history[Len(history)][FileOf(f)])
        BY <1>3, <2>4, <3>3, <4>2
      <4>4. Taken(history, doc', began, Len(history))
        BY <2>4, <3>1, <4>2, <4>3, AddTaken
      <4>5. DOMAIN doc' = DOMAIN before \cup {f}
        BY <4>3 DEF Add
      <4> QED
        BY <1>3, <2>5, <3>1, <4>1, <4>4, <4>5 DEF DocInv
    <3>4. CASE act = "derive"
      <4>1. f = "fresh" /\ ~Delta(kind)
        BY <3>2, <3>4 DEF ProofStep, DeltaStep
      <4>2. "summary" \in Keys /\ FileOf("summary") = f
        BY <4>1 DEF Keys, FileOf
      <4>3. doc' = Add(before, "summary", history[Len(history)][FileOf("summary")])
        BY <1>3, <2>4, <3>4, <4>2
      <4>4. Taken(history, doc', began, Len(history))
        BY <2>4, <3>1, <4>2, <4>3, AddTaken
      <4> QED
        BY <1>3, <2>5, <4>1, <4>4 DEF DocInv
    <3>5. CASE act \notin {"pin", "bind", "derive"}
      <4>1. doc' = before
        BY <1>3, <3>5
      <4> QED
        BY <1>3, <2>5, <3>1, <4>1 DEF DocInv
    <3> QED
      BY <3>3, <3>4, <3>5
  <2>6. ASSUME Head(plan) = "recheck"
        PROVE  DocInv'
    <3>1. doc' = doc
      BY <1>1, <1>3, <2>6
    <3> QED
      BY <1>1, <1>3, <2>6, <3>1, DocKept
  <2>7. ASSUME Head(plan) = "reuse"
        PROVE  DocInv'
    <3>1. doc' = doc /\ act = "check" /\ f = RecheckOrder[at + 1] /\ at + 1 \in 1 .. 15
      BY <1>1, <1>3, <2>7
    <3>2. f \in DOMAIN doc => doc[f] = {history[Len(history)][f]}
      BY <1>3, <2>4, <3>1 DEF Passes
    <3>3. /\ Taken(history, doc, 1, Len(history)) /\ (Delta(kind) => DOMAIN doc \subseteq RecheckFiles)
          /\ \A n \in 1 .. 15 : n <= at /\ RecheckOrder[n] \in DOMAIN doc =>
               \A v \in doc[RecheckOrder[n]] : \E i \in began .. Len(history) : history[i][RecheckOrder[n]] = v
      BY <1>1, <2>7 DEF CertificateInv, DocInv
    <3>4. at \in Nat
      BY DEF CertificateInv, PlanInv
    <3>5. Len(history) \in began .. Len(history)
      BY <2>4
    <3>6. ASSUME NEW n \in 1 .. 15, n <= at + 1, RecheckOrder[n] \in DOMAIN doc, NEW v \in doc[RecheckOrder[n]]
          PROVE  \E i \in began .. Len(history) : history[i][RecheckOrder[n]] = v
      <4>1. CASE n <= at
        BY <3>3, <3>6, <4>1
      <4>2. CASE n = at + 1
        BY <3>1, <3>2, <3>5, <3>6, <4>2
      <4> QED
        BY <3>4, <3>6, <4>1, <4>2
    <3> QED
      BY <1>3, <2>7, <3>1, <3>3, <3>6 DEF DocInv
  <2> QED
    BY <1>1, <2>1, <2>3, <2>5, <2>6, <2>7 DEF CertificateInv
<1> QED
  BY <1>1, <1>2, <1>3 DEF Step

(***************************************************************************)
(* The theorems                                                            *)
(***************************************************************************)
LEMMA CertificateStarts == CertificateInit => CertificateInv
<1> SUFFICES ASSUME CertificateInit PROVE CertificateInv
  OBVIOUS
<1> USE DEF CertificateInit
<1>1. Grows(history)
  <2>1. history \in Seq([Files -> Nat]) /\ history # << >> /\ Len(history) = 1 /\ history[1] = [f \in Files |-> 0]
    OBVIOUS
  <2>2. \A i \in 1 .. Len(history), f \in Files : i = 1 /\ history[i][f] = 0
    BY <2>1
  <2> QED
    BY <2>1, <2>2 DEF Grows
<1>2. PlanInv
  BY DEF PlanInv, PlanOK
<1>3. CacheInv /\ OutInv /\ ValidateInv /\ VerdictInv
  BY DEF CacheInv, OutInv, ValidateInv, VerdictInv, Running
<1>4. DocInv
  BY TakenEmpty DEF DocInv
<1> QED
  BY <1>1, <1>2, <1>3, <1>4 DEF CertificateInv

\* Every operation on the certificates keeps the invariant.
THEOREM CertificateInvariant == CertificateSpec => []CertificateInv
<1>1. CertificateInv /\ [CertificateNext]_certificateVars => CertificateInv'
  <2> SUFFICES ASSUME CertificateInv, [CertificateNext]_certificateVars PROVE CertificateInv'
    OBVIOUS
  <2>1. CASE UNCHANGED certificateVars
    BY <2>1 DEF certificateVars, CertificateInv, PlanInv, CacheInv, DocInv, OutInv, ValidateInv, VerdictInv, Horizon, Running
  <2>2. CASE \E f \in Editable : Edit(f)
    BY <2>2, EditStep
  <2>3. CASE Restart \/ Build \/ Validate
    BY <2>3, RestartStep, OperationBegins
  <2>4. CASE Read \/ Proved \/ Store \/ Serve \/ PublishTransition
    BY <2>4, ReadStep, ProvedStep, StoreStep, ServeStep, TransitionStep
  <2>5. CASE Stage \/ Link \/ ReadDocument \/ Compare \/ Admit
    BY <2>5, StageStep, LinkStep, ReadDocumentStep, CompareStep, AdmitStep
  <2> QED
    BY <2>1, <2>2, <2>3, <2>4, <2>5 DEF CertificateNext
<1> QED
  BY CertificateStarts, <1>1, PTL DEF CertificateSpec

\* A certificate that a validator of sim/cycle accepted describes one state
\* of the evidence: the one when validate() began.
THEOREM AcceptedDescribesOneInstant == CertificateSpec => []AcceptedCoexisted
<1>1. CertificateInv => AcceptedCoexisted
  <2> SUFFICES ASSUME CertificateInv, verdict # "none"
               PROVE  \E i \in DOMAIN history : \A key \in DOMAIN doc : doc[key] = {history[i][FileOf(key)]}
    BY DEF AcceptedCoexisted
  <2>1. began \in DOMAIN history
    BY NowIs DEF CertificateInv, PlanInv
  <2> QED
    BY <2>1 DEF CertificateInv, VerdictInv
<1> QED
  BY <1>1, CertificateInvariant, PTL

\* Nothing is accepted on an earlier look at the files, also when the proof
\* came from _current_cache.
THEOREM AcceptedIsOfThisValidation == CertificateSpec => []AcceptedFresh
<1>1. CertificateInv => AcceptedFresh
  BY DEF CertificateInv, VerdictInv, Taken, AcceptedFresh
<1> QED
  BY <1>1, CertificateInvariant, PTL

(***************************************************************************)
(* Corpus authority                                                        *)
(***************************************************************************)
CorpusRows == {Result(framing, row) : framing \in Framings, row \in UNION {Corpus(rev, m) : rev \in Revisions, m \in SUBSET Revisions}}

\* What was concluded of the results still holds of them.
CorpusInv ==
    /\ cases \in Seq(CorpusRows) /\ edited \subseteq Revisions /\ revision \in Revisions
    /\ corpusVerdict = "current" => ValidateResults /\ Current(revision)

LEMMA RetainedFinite ==
    \A h \in Retained : IsFiniteSet({g \in Retained : g <= h}) /\ Number(h) \in Nat
<1> TAKE h \in Retained
<1>1. IsFiniteSet(1 .. Historical) /\ {g \in Retained : g <= h} \in SUBSET (1 .. Historical)
  BY CorpusAssumption, FS_Interval DEF Retained
<1>2. IsFiniteSet({g \in Retained : g <= h})
  BY <1>1, FS_Subset
<1> QED
  BY <1>2, FS_CardinalityType DEF Number

\* Two cases of v1 do not get the same number.
LEMMA NumberInjective == \A g, h \in Retained : Number(g) = Number(h) => g = h
<1>1. ASSUME NEW g \in Retained, NEW h \in Retained, g < h
      PROVE  Number(g) # Number(h)
  <2> DEFINE S == {i \in Retained : i <= h}
             T == {i \in Retained : i <= g}
  <2>1. IsFiniteSet(S) /\ Number(h) = Cardinality(S) /\ Number(g) = Cardinality(T)
    BY RetainedFinite DEF Number
  <2>2. g \in Nat /\ h \in Nat /\ \A i \in Retained : i \in Nat
    BY CorpusAssumption DEF Retained
  <2>3. T \in SUBSET S /\ h \in S /\ h \notin T
    <3>1. h <= h /\ ~(h <= g) /\ \A i \in Retained : i <= g => i <= h
      BY <1>1, <2>2
    <3> QED
      BY <3>1
  <2> HIDE DEF S, T
  <2> QED
    BY <2>1, <2>3, FS_Subset
<1> TAKE g, h \in Retained
<1>2. g \in Nat /\ h \in Nat
  BY CorpusAssumption DEF Retained
<1> QED
  BY <1>1, <1>2

\* The rows of the present revisions, with the manifest of v1 as reviewed
LEMMA CurrentCorpus ==
    ASSUME NEW rev \in {"v3", "v4", "v5"}, NEW m, "v1" \notin m, NEW row
    PROVE  row \in Corpus(rev, m) <=>
             \/ \E h \in Retained : row = [case |-> <<"captured", Number(h)>>, index |-> Number(h), inputs |-> <<"dense", h, "reviewed">>]
             \/ \E k \in LargeK : row = [case |-> <<"large-k", k>>, index |-> 0, inputs |-> <<"synthetic_large_k", k>>]
<1>1. Captured(rev, m) = {<<Number(h), Inputs(h, m)>> : h \in Retained}
  BY DEF Captured
<1>2. \A h \in Retained : Inputs(h, m) = <<"dense", h, "reviewed">>
  BY DEF Inputs, Retained
<1>3. Captured(rev, m) = {<<Number(h), <<"dense", h, "reviewed">>>> : h \in Retained}
  BY <1>1, <1>2
<1>4. (\E c \in Captured(rev, m) : row = [case |-> <<"captured", c[1]>>, index |-> c[1], inputs |-> c[2]]) <=>
      (\E h \in Retained : row = [case |-> <<"captured", Number(h)>>, index |-> Number(h), inputs |-> <<"dense", h, "reviewed">>])
  <2>1. ASSUME NEW c \in Captured(rev, m), row = [case |-> <<"captured", c[1]>>, index |-> c[1], inputs |-> c[2]]
        PROVE  \E h \in Retained : row = [case |-> <<"captured", Number(h)>>, index |-> Number(h), inputs |-> <<"dense", h, "reviewed">>]
    <3>1. PICK h \in Retained : c = <<Number(h), <<"dense", h, "reviewed">>>>
      BY <1>3
    <3>2. c[1] = Number(h) /\ c[2] = <<"dense", h, "reviewed">>
      BY <3>1
    <3> QED
      BY <2>1, <3>2
  <2>2. ASSUME NEW h \in Retained, row = [case |-> <<"captured", Number(h)>>, index |-> Number(h), inputs |-> <<"dense", h, "reviewed">>]
        PROVE  \E c \in Captured(rev, m) : row = [case |-> <<"captured", c[1]>>, index |-> c[1], inputs |-> c[2]]
    <3> DEFINE c == <<Number(h), <<"dense", h, "reviewed">>>>
    <3>1. c \in Captured(rev, m) /\ c[1] = Number(h) /\ c[2] = <<"dense", h, "reviewed">>
      BY <1>3
    <3> HIDE DEF c
    <3> QED
      BY <2>2, <3>1
  <2> QED
    BY <2>1, <2>2
<1> QED
  BY <1>4 DEF Corpus

LEMMA CaseFixesInputs ==
    ASSUME NEW rev \in {"v3", "v4", "v5"}, NEW m, "v1" \notin m, NEW row \in Corpus(rev, m), NEW other \in Corpus(rev, m)
    PROVE  /\ row.case = other.case => row.inputs = other.inputs
           /\ row.inputs = other.inputs => row.case = other.case
           /\ row.inputs[1] \in {"dense", "synthetic_large_k"}
<1> DEFINE Dense(r, h) == r = [case |-> <<"captured", Number(h)>>, index |-> Number(h), inputs |-> <<"dense", h, "reviewed">>]
           Large(r, k) == r = [case |-> <<"large-k", k>>, index |-> 0, inputs |-> <<"synthetic_large_k", k>>]
<1>1. (\E h \in Retained : Dense(row, h)) \/ (\E k \in LargeK : Large(row, k))
  BY CurrentCorpus
<1>2. (\E h \in Retained : Dense(other, h)) \/ (\E k \in LargeK : Large(other, k))
  BY CurrentCorpus
<1>3. CASE (\E h \in Retained : Dense(row, h)) /\ (\E h \in Retained : Dense(other, h))
  BY <1>3, NumberInjective
<1>4. CASE (\E h \in Retained : Dense(row, h)) /\ (\E k \in LargeK : Large(other, k))
  BY <1>4
<1>5. CASE (\E k \in LargeK : Large(row, k)) /\ (\E h \in Retained : Dense(other, h))
  BY <1>5
<1>6. CASE (\E k \in LargeK : Large(row, k)) /\ (\E k \in LargeK : Large(other, k))
  BY <1>6
<1> QED
  BY <1>1, <1>2, <1>3, <1>4, <1>5, <1>6

\* Results known by different names, as many as there are results, are known
\* by one name each.
LEMMA NamesDiffer ==
    ASSUME NEW S, NEW rws \in Seq(S), Cardinality(Names(rws)) = Len(rws)
    PROVE  \A i, j \in 1 .. Len(rws) : rws[i].framing = rws[j].framing /\ rws[i].case = rws[j].case => i = j
<1> DEFINE D == 1 .. Len(rws)
           f == [i \in D |-> <<rws[i].framing, rws[i].case>>]
<1>1. DOMAIN rws = D /\ Len(rws) \in Nat
  OBVIOUS
<1>2. f \in Surjection(D, Names(rws))
  BY <1>1 DEF Surjection, Names
<1>3. IsFiniteSet(D) /\ Cardinality(D) = Len(rws)
  <2>1. 1 \in Int /\ Len(rws) \in Int /\ (IF 1 > Len(rws) THEN 0 ELSE Len(rws) - 1 + 1) = Len(rws)
    BY <1>1
  <2> QED
    BY <2>1, FS_Interval
<1>4. f \in Injection(D, Names(rws))
  <2> HIDE DEF f, D
  <2> QED
    BY <1>2, <1>3, FS_SurjSameCardinalityImpliesInj
<1>5. \A i, j \in D : f[i] = f[j] => i = j
  <2> HIDE DEF f, D
  <2> QED
    BY <1>4, Zenon DEF Injection, IsInjective
<1> QED
  BY <1>5

LEMMA Unmoved == UNCHANGED <<revision, package, edited, cases>> => ValidateResults' = ValidateResults
BY DEF ValidateResults, RowMatches, Authority, PackageMatches, Names, Corpus, Captured, Inputs

\* A certificate for the present production rests on exactly one result for
\* every dense case and framing, measured on the reviewed inputs of that
\* case and on the producer that the revision names.
THEOREM CertificateMeasuredAsReviewed == CorpusSpec => []MeasuredAsReviewed
<1>1. CorpusInit => CorpusInv
  BY DEF CorpusInit, CorpusInv
<1>2. CorpusInv /\ [CorpusNext]_corpusVars => CorpusInv'
  <2> SUFFICES ASSUME CorpusInv, [CorpusNext]_corpusVars PROVE CorpusInv'
    OBVIOUS
  <2>1. CASE UNCHANGED corpusVars
    BY <2>1, Unmoved DEF corpusVars, CorpusInv
  <2>2. ASSUME NEW rev \in Revisions, NEW framing \in Framings, NEW row \in Corpus(rev, edited), AddResult(rev, framing, row)
        PROVE  CorpusInv'
    <3>1. Result(framing, row) \in CorpusRows
      BY DEF CorpusRows, CorpusInv
    <3> QED
      BY <2>2, <3>1, AppendProperties DEF CorpusInv, AddResult
  <2>3. ASSUME NEW manifest \in Revisions, Change(manifest)
        PROVE  CorpusInv'
    BY <2>3 DEF CorpusInv, Change
  <2>4. CASE Finalize
    BY <2>4, Unmoved DEF CorpusInv, Finalize
  <2> QED
    BY <2>1, <2>2, <2>3, <2>4 DEF CorpusNext
<1>3. CorpusInv => MeasuredAsReviewed
  <2> SUFFICES ASSUME CorpusInv, corpusVerdict = "current" PROVE MeasuredAsReviewed
    BY DEF MeasuredAsReviewed
  <2>1. ValidateResults /\ revision \in {"v3", "v4", "v5"}
    BY DEF CorpusInv, Current
  <2>2. "v1" \notin edited
    BY <2>1 DEF ValidateResults, Authority
  <2>3. cases \in Seq(CorpusRows) /\ DOMAIN cases = 1 .. Len(cases)
    BY DEF CorpusInv
  <2>4. \A i, j \in 1 .. Len(cases) : cases[i].framing = cases[j].framing /\ cases[i].case = cases[j].case => i = j
    BY <2>1, <2>3, NamesDiffer DEF ValidateResults
  <2>5. \A i \in 1 .. Len(cases) : \E known \in Corpus(revision, edited) : cases[i].case = known.case /\ cases[i].inputs = known.inputs
    BY <2>1, <2>3 DEF ValidateResults, RowMatches
  <2>6. ASSUME NEW framing \in Framings, NEW h \in Retained
        PROVE  Cardinality({j \in DOMAIN cases :
                  cases[j].framing = framing /\ cases[j].inputs = <<"dense", h, "reviewed">>}) = 1
    <3> DEFINE row == [case |-> <<"captured", Number(h)>>, index |-> Number(h), inputs |-> <<"dense", h, "reviewed">>]
    <3>1. row \in Corpus(revision, edited)
      BY <2>1, <2>2, CurrentCorpus
    <3>2. row.inputs = <<"dense", h, "reviewed">>
      OBVIOUS
    <3> HIDE DEF row
    <3>3. <<framing, row.case>> \in Names(cases)
      BY <2>1, <3>1 DEF ValidateResults
    <3>4. PICK i \in 1 .. Len(cases) : cases[i].framing = framing /\ cases[i].case = row.case
      BY <2>3, <3>3 DEF Names
    <3>5. ASSUME NEW j \in 1 .. Len(cases)
          PROVE  cases[j].case = row.case <=> cases[j].inputs = row.inputs
      BY <2>1, <2>2, <2>5, <3>1, CaseFixesInputs
    <3>6. {j \in DOMAIN cases : cases[j].framing = framing /\ cases[j].inputs = row.inputs} = {i}
      BY <2>3, <2>4, <3>4, <3>5
    <3>7. {j \in DOMAIN cases : cases[j].framing = framing /\ cases[j].inputs = <<"dense", h, "reviewed">>} = {i}
      BY <3>2, <3>6
    <3> QED
      BY <3>7, FS_Singleton
  <2>7. \A j \in DOMAIN cases : cases[j].inputs[1] \in {"dense", "synthetic_large_k"}
    BY <2>1, <2>2, <2>3, <2>5, CaseFixesInputs
  <2>8. package.head = revision /\ (package.executor = "plain") = (revision = "v3")
    BY <2>1 DEF ValidateResults, PackageMatches, Producer
  <2> QED
    BY <2>6, <2>7, <2>8 DEF MeasuredAsReviewed
<1> QED
  BY <1>1, <1>2, <1>3, PTL DEF CorpusSpec

(***************************************************************************)
(* Induction over the natural numbers, from the least element of a set     *)
(***************************************************************************)
LEMMA LeastNat == ASSUME NEW S \in SUBSET Nat, S # {} PROVE \E n \in S : \A m \in S : n <= m
<1>1. PICK x \in S : \A y \in S : ~(<<y, x>> \in OpToRel(<, Nat))
  BY NatLessThanWellFounded, WFMin, Zenon
<1>2. \A y \in S : ~(y < x)
  <2> TAKE y \in S
  <2>1. y \in Nat /\ x \in Nat
    OBVIOUS
  <2>2. SUFFICES ASSUME y < x PROVE <<y, x>> \in OpToRel(<, Nat)
    BY <1>1, Zenon
  <2> QED
    BY <2>1, <2>2, Zenon DEF OpToRel
<1> QED
  BY <1>2

LEMMA NatSetInduction ==
    ASSUME NEW S \in SUBSET Nat, 0 \in S, \A n \in S : n + 1 \in S
    PROVE  S = Nat
<1> SUFFICES ASSUME S # Nat PROVE FALSE
  OBVIOUS
<1>1. PICK n \in Nat \ S : \A m \in Nat \ S : n <= m
  BY LeastNat
<1> QED
  BY <1>1

\* A sum defined from its last term back to the first exists.
Sums(g, N, w) == g = [n \in 0 .. N |-> IF n = 0 THEN 0 ELSE g[n - 1] + w[n]]

LEMMA SumsExist == ASSUME NEW w PROVE \A N \in Nat : \E g : Sums(g, N, w)
<1> DEFINE S == {N \in Nat : \E g : Sums(g, N, w)}
<1>1. 0 \in S
  <2> DEFINE g == [n \in 0 .. 0 |-> 0]
  <2>1. g = [n \in 0 .. 0 |-> IF n = 0 THEN 0 ELSE g[n - 1] + w[n]]
    OBVIOUS
  <2>2. Sums(g, 0, w)
    BY <2>1 DEF Sums
  <2> QED
    BY <2>2
<1>2. ASSUME NEW N \in S
      PROVE  N + 1 \in S
  <2>1. N \in Nat
    OBVIOUS
  <2>2. PICK g : Sums(g, N, w)
    OBVIOUS
  <2>3. DOMAIN g = 0 .. N /\ \A n \in 0 .. N : g[n] = IF n = 0 THEN 0 ELSE g[n - 1] + w[n]
    BY <2>2 DEF Sums
  <2> DEFINE f == [n \in 0 .. (N + 1) |-> IF n = N + 1 THEN g[N] + w[N + 1] ELSE g[n]]
  <2>4. (\A n \in 0 .. N : f[n] = g[n]) /\ f[N + 1] = g[N] + w[N + 1]
    BY <2>1
  <2>5. ASSUME NEW n \in 0 .. (N + 1)
        PROVE  f[n] = IF n = 0 THEN 0 ELSE f[n - 1] + w[n]
    <3>1. CASE n = N + 1
      <4>1. n # 0 /\ n - 1 = N /\ N \in 0 .. N
        BY <2>1, <3>1
      <4> HIDE DEF f
      <4> QED
        BY <2>4, <3>1, <4>1
    <3>2. CASE n # N + 1
      <4>1. n \in 0 .. N /\ (n # 0 => n - 1 \in 0 .. N)
        BY <2>1, <3>2
      <4> HIDE DEF f
      <4> QED
        BY <2>3, <2>4, <4>1
    <3> QED
      BY <3>1, <3>2
  <2>6. f = [n \in 0 .. (N + 1) |-> IF n = 0 THEN 0 ELSE f[n - 1] + w[n]]
    BY <2>5
  <2>7. Sums(f, N + 1, w)
    <3> HIDE DEF f
    <3> QED
      BY <2>6 DEF Sums
  <2> HIDE DEF f
  <2> QED
    BY <2>1, <2>7
<1>3. S = Nat
  <2> HIDE DEF S
  <2>1. S \in SUBSET Nat
    BY DEF S
  <2> QED
    BY <1>1, <1>2, <2>1, NatSetInduction
<1> QED
  BY <1>3

\* What the records of a chain account for is the cursor at its end.
LEMMA ElapsedChain ==
    ASSUME NEW lines, NEW N \in Nat \ {0}, Len(lines) = N,
           \A i \in 1 .. N : Took(lines[i]) = lines[i].after.cursor - lines[i].before.cursor
                             /\ lines[i].before.cursor \in Int /\ lines[i].after.cursor \in Int,
           lines[1].before.cursor = 0, \A i \in 1 .. (N - 1) : lines[i + 1].before = lines[i].after
    PROVE  lines[N].after.cursor = Elapsed(lines)
<1> DEFINE w == [n \in 1 .. N |-> Took(lines[n])]
           IsUpTo(f) == f = [n \in 0 .. Len(lines) |-> IF n = 0 THEN 0 ELSE f[n - 1] + Took(lines[n])]
           upTo == CHOOSE f : IsUpTo(f)
<1>1. Elapsed(lines) = upTo[N]
  BY DEF Elapsed
<1>2. \E g : IsUpTo(g)
  <2>1. PICK g : Sums(g, N, w)
    BY SumsExist
  <2>2. g = [n \in 0 .. N |-> IF n = 0 THEN 0 ELSE g[n - 1] + w[n]]
    BY <2>1 DEF Sums
  <2>3. \A n \in 0 .. N : n # 0 => w[n] = Took(lines[n])
    OBVIOUS
  <2>4. [n \in 0 .. N |-> IF n = 0 THEN 0 ELSE g[n - 1] + w[n]] = [n \in 0 .. N |-> IF n = 0 THEN 0 ELSE g[n - 1] + Took(lines[n])]
    <3> HIDE DEF w
    <3> QED
      BY <2>3
  <2>5. IsUpTo(g)
    BY <2>2, <2>4
  <2> QED
    BY <2>5
<1>3. IsUpTo(upTo)
  <2> HIDE DEF IsUpTo
  <2> QED
    BY <1>2
<1> HIDE DEF upTo
<1>4. upTo[0] = 0 /\ \A n \in 1 .. N : upTo[n] = upTo[n - 1] + Took(lines[n])
  <2>1. upTo = [n \in 0 .. N |-> IF n = 0 THEN 0 ELSE upTo[n - 1] + Took(lines[n])]
    BY <1>3
  <2>2. \A n \in 0 .. N : upTo[n] = IF n = 0 THEN 0 ELSE upTo[n - 1] + Took(lines[n])
    BY <2>1
  <2> QED
    BY <2>2
<1> DEFINE S == {n \in Nat : n = 0 \/ n > N \/ upTo[n] = lines[n].after.cursor}
<1>5. ASSUME NEW n \in S
      PROVE  n + 1 \in S
  <2>1. CASE n + 1 > N
    BY <2>1
  <2>2. CASE n = 0
    <3>1. upTo[1] = upTo[1 - 1] + Took(lines[1]) /\ 1 \in 1 .. N
      BY <1>4
    <3>2. Took(lines[1]) = lines[1].after.cursor - 0 /\ lines[1].after.cursor \in Int
      OBVIOUS
    <3>3. upTo[1] = lines[1].after.cursor
      BY <1>4, <3>1, <3>2
    <3> QED
      BY <2>2, <3>3
  <2>3. CASE n # 0 /\ n + 1 <= N
    <3>1. n \in 1 .. (N - 1) /\ n + 1 \in 1 .. N /\ n \in 1 .. N /\ (n + 1) - 1 = n
      BY <2>3
    <3>2. upTo[n] = lines[n].after.cursor /\ lines[n + 1].before = lines[n].after
      BY <3>1
    <3>3. upTo[n + 1] = upTo[(n + 1) - 1] + Took(lines[n + 1])
      BY <1>4, <3>1
    <3>4. /\ Took(lines[n + 1]) = lines[n + 1].after.cursor - lines[n + 1].before.cursor
          /\ lines[n + 1].before.cursor \in Int /\ lines[n + 1].after.cursor \in Int
      BY <3>1
    <3>5. upTo[n + 1] = lines[n + 1].after.cursor
      BY <3>1, <3>2, <3>3, <3>4
    <3> QED
      BY <3>5
  <2> QED
    BY <2>1, <2>2, <2>3
<1>6. S = Nat
  <2>1. S \in SUBSET Nat /\ 0 \in S
    OBVIOUS
  <2> HIDE DEF S
  <2> QED
    BY <1>5, <2>1, NatSetInduction
<1>7. upTo[N] = lines[N].after.cursor
  BY <1>6
<1> QED
  BY <1>1, <1>7

(***************************************************************************)
(* Transition streams                                                      *)
(***************************************************************************)
SessionStates ==
    [generation : Nat, cursor : Nat, tags : Nat, peak : Nat, scratchpad : {0, 1}, accumulator : {0, 1},
     works : Nat, total : Nat, done : Nat, event : Nat, ready : BOOLEAN]

StreamRecords ==
    [ordinal : Nat, id : Nat, before : SessionStates, after : SessionStates, gap : Nat,
     window : [offered : Nat, accepted : Nat, result : Nat, scale : Nat, ready : Nat, scratchpad : {0, 1}, accumulator : {0, 1}],
     events : [first : Nat, last : Nat, count : Nat, from : Nat, to : Nat]]

\* A record of the i-th work of a session
Told(r, i) ==
    /\ r.ordinal = i - 1 /\ r.window.offered = r.before.cursor + r.gap /\ r.after.cursor = r.window.ready

Lives == {life \in Seq(StreamRecords) : \A i \in 1 .. Len(life) : Told(life[i], i)}

Recorded == {r \in StreamRecords : \E life \in past \cup {ran} : \E i \in 1 .. Len(life) : r = life[i]}

SessionInv == session \in SessionStates /\ ran \in Lives /\ past \subseteq Lives /\ session.works = Len(ran) /\ rows \in Seq(Recorded)

\* What the reader has accepted so far is a chain.
ReaderInv ==
    /\ ordinal \in 0 .. Len(rows)
    /\ streamVerdict = "writing" => ordinal = 0
    /\ ordinal = 0 => previous = << >>
    /\ ordinal > 0 => previous = <<rows[ordinal].after, rows[ordinal].events.last>> /\ rows[1].before.cursor = 0
    /\ \A i \in 1 .. ordinal :
         /\ rows[i].ordinal = i - 1 /\ rows[i].after.works = i
         /\ mode # "interleaved" => rows[i].window.offered = rows[i].before.cursor
    /\ \A i \in 1 .. (ordinal - 1) : rows[i + 1].before = rows[i].after

ConclusionInv == streamVerdict = "accepted" => ordinal = Len(rows) /\ ordinal > 0 /\ previous[1].works = Count

StreamInv == SessionInv /\ ReaderInv /\ ConclusionInv

LEMMA MaxOfTwo == ASSUME NEW a \in Nat, NEW b \in Nat PROVE Max({a, b}) \in Nat /\ Max({a, b}) >= a /\ Max({a, b}) >= b
<1>1. \E x \in {a, b} : \A y \in {a, b} : x >= y
  <2>1. CASE a >= b
    BY <2>1
  <2>2. CASE b >= a
    BY <2>2
  <2> QED
    BY <2>1, <2>2
<1>2. Max({a, b}) \in {a, b} /\ \A y \in {a, b} : Max({a, b}) >= y
  BY <1>1 DEF Max
<1> QED
  BY <1>2

LEMMA OfferIs ==
    ASSUME SessionInv, NEW i \in Nat \ {0}
    PROVE  Offer(i) \in Nat /\ Offer(i) >= session.cursor /\ session.cursor \in Nat
<1>1. session.cursor \in Nat
  BY DEF SessionInv, SessionStates
<1>2. CASE mode = "interleaved" /\ i <= Count
  <2>1. Ports[i] \in Nat
    <3>1. i \in 1 .. Len(Ports) /\ Ports \in Seq(Nat)
      BY <1>2, StreamAssumption DEF Count
    <3> QED
      BY <3>1, ElementOfSeq
  <2>2. Offer(i) = Max({Ports[i], session.cursor})
    BY <1>2 DEF Offer
  <2> QED
    BY <1>1, <2>1, <2>2, MaxOfTwo
<1>3. CASE ~(mode = "interleaved" /\ i <= Count)
  BY <1>1, <1>3 DEF Offer
<1> QED
  BY <1>1, <1>2, <1>3

LEMMA RecordIs ==
    ASSUME SessionInv, NEW d \in Durations, NEW tags \in Nat, NEW drained \in BOOLEAN
    PROVE  LET r == Record(d, tags, drained) IN
           /\ r \in StreamRecords /\ Told(r, session.works + 1) /\ r.after.works = session.works + 1
<1> DEFINE i == session.works + 1
           offered == Offer(i)
           after == [session EXCEPT
                       !.cursor = offered + d + 1, !.tags = tags, !.peak = Max({@, tags}),
                       !.scratchpad = 1 - @, !.accumulator = 1 - @,
                       !.works = @ + 1, !.total = @ + d, !.done = offered + d, !.event = @ + 2, !.ready = drained]
           r == Record(d, tags, drained)
<1>1. session \in SessionStates /\ d \in Nat /\ i \in Nat \ {0} /\ session.works \in Nat
  BY StreamAssumption DEF SessionInv, SessionStates
<1>2. offered \in Nat /\ offered >= session.cursor /\ session.cursor \in Nat
  BY <1>1, OfferIs
<1>3. session.peak \in Nat /\ session.scratchpad \in {0, 1} /\ session.accumulator \in {0, 1} /\ session.total \in Nat /\ session.event \in Nat
  BY <1>1 DEF SessionStates
<1> DEFINE peak == Max({session.peak, tags})
<1>4. peak \in Nat
  BY <1>3, MaxOfTwo
<1>5. (IF i <= Count THEN WorkIds[i] ELSE 0) \in Nat
  <2>1. i <= Count => i \in 1 .. Len(WorkIds) /\ WorkIds \in Seq(Nat)
    BY <1>1, StreamAssumption DEF Count
  <2> QED
    BY <2>1, ElementOfSeq
<1> DEFINE name == IF i <= Count THEN WorkIds[i] ELSE 0
<1>6. r = [ordinal |-> i - 1, id |-> name,
           before |-> session, after |-> after, gap |-> offered - session.cursor,
           window |-> [offered |-> offered, accepted |-> offered, result |-> offered + d, scale |-> offered + d,
                       ready |-> offered + d + 1, scratchpad |-> after.scratchpad, accumulator |-> after.accumulator],
           events |-> [first |-> session.event + 1, last |-> session.event + 2, count |-> 2, from |-> offered, to |-> offered + d]]
  BY DEF Record
<1> HIDE DEF offered, r, name
<1>7. /\ after \in SessionStates /\ after.works = session.works + 1 /\ after.cursor = offered + d + 1
      /\ after.scratchpad \in {0, 1} /\ after.accumulator \in {0, 1}
  <2>1. after = [session EXCEPT
                       !.cursor = offered + d + 1, !.tags = tags, !.peak = peak,
                       !.scratchpad = 1 - session.scratchpad, !.accumulator = 1 - session.accumulator,
                       !.works = session.works + 1, !.total = session.total + d, !.done = offered + d, !.event = session.event + 2, !.ready = drained]
    BY <1>1 DEF SessionStates
  <2>2. /\ offered + d + 1 \in Nat /\ 1 - session.scratchpad \in {0, 1} /\ 1 - session.accumulator \in {0, 1}
        /\ session.works + 1 \in Nat /\ session.total + d \in Nat /\ offered + d \in Nat /\ session.event + 2 \in Nat
    BY <1>1, <1>2, <1>3
  <2> HIDE DEF peak
  <2> QED
    BY <1>1, <1>4, <2>1, <2>2, ZenonT(60) DEF SessionStates
<1> HIDE DEF after
<1>8. /\ i - 1 \in Nat /\ offered - session.cursor \in Nat /\ offered + d \in Nat /\ offered + d + 1 \in Nat
      /\ session.event + 1 \in Nat /\ session.event + 2 \in Nat /\ i - 1 = (session.works + 1) - 1
      /\ offered = session.cursor + (offered - session.cursor)
  BY <1>1, <1>2, <1>3
<1>9. r \in StreamRecords
  BY <1>1, <1>2, <1>5, <1>6, <1>7, <1>8 DEF StreamRecords, name
<1>10. Told(r, session.works + 1) /\ r.after.works = session.works + 1
  BY <1>6, <1>7, <1>8 DEF Told
<1> QED
  BY <1>9, <1>10 DEF r

LEMMA RecordedGrows ==
    ASSUME SessionInv, \A life \in past \cup {ran} : \A i \in 1 .. Len(life) :
                          \E other \in past' \cup {ran'} : i \in 1 .. Len(other) /\ other[i] = life[i]
    PROVE  Recorded \subseteq Recorded' /\ Seq(Recorded) \subseteq Seq(Recorded')
<1>1. Recorded \subseteq Recorded'
  BY DEF Recorded
<1> QED
  BY <1>1, SeqMonotonic

LEMMA RunStep ==
    ASSUME SessionInv, NEW d \in Durations, NEW tags \in Nat, NEW drained \in BOOLEAN, NEW written \in BOOLEAN,
           Run(Record(d, tags, drained), written)
    PROVE  SessionInv'
<1> DEFINE r == Record(d, tags, drained)
<1>1. r \in StreamRecords /\ Told(r, session.works + 1) /\ r.after.works = session.works + 1
  BY RecordIs
<1> HIDE DEF r
<1>2. /\ session' = [r.after EXCEPT !.ready = TRUE] /\ ran' = Append(ran, r)
      /\ rows' = (IF written THEN Append(rows, r) ELSE rows) /\ past' = past
  BY DEF Run, r
<1>3. session' \in SessionStates /\ session'.works = session.works + 1
  BY <1>1, <1>2 DEF StreamRecords, SessionStates
<1>4. ran \in Seq(StreamRecords) /\ session.works = Len(ran) /\ \A i \in 1 .. Len(ran) : Told(ran[i], i)
  BY DEF SessionInv, Lives
<1>5. /\ ran' \in Seq(StreamRecords) /\ Len(ran') = Len(ran) + 1 /\ Len(ran) \in Nat
      /\ \A i \in 1 .. Len(ran) : ran'[i] = ran[i]
      /\ ran'[Len(ran) + 1] = r
  BY <1>1, <1>2, <1>4, AppendProperties
<1>6. \A i \in 1 .. Len(ran') : Told(ran'[i], i)
  <2> TAKE i \in 1 .. Len(ran')
  <2>1. i \in 1 .. Len(ran) \/ i = Len(ran) + 1
    BY <1>5
  <2> QED
    BY <1>1, <1>4, <1>5, <2>1
<1>7. ran' \in Lives /\ session'.works = Len(ran')
  BY <1>3, <1>4, <1>5, <1>6 DEF Lives
<1>8. Seq(Recorded) \subseteq Seq(Recorded') /\ r \in Recorded'
  <2>1. ASSUME NEW life \in past \cup {ran}, NEW i \in 1 .. Len(life)
        PROVE  \E other \in past' \cup {ran'} : i \in 1 .. Len(other) /\ other[i] = life[i]
    <3>1. CASE life = ran
      <4>1. i \in 1 .. Len(ran') /\ ran'[i] = ran[i]
        BY <1>5, <3>1
      <4> QED
        BY <3>1, <4>1
    <3>2. CASE life \in past
      BY <1>2, <3>2
    <3> QED
      BY <3>1, <3>2
  <2>2. Len(ran) + 1 \in 1 .. Len(ran')
    BY <1>5
  <2>3. r \in Recorded'
    BY <1>1, <1>5, <2>2 DEF Recorded
  <2> QED
    BY <2>1, <2>3, RecordedGrows
<1>9. rows' \in Seq(Recorded')
  <2>1. rows \in Seq(Recorded')
    BY <1>8 DEF SessionInv
  <2> QED
    BY <1>2, <1>8, <2>1, AppendProperties
<1> QED
  BY <1>2, <1>3, <1>7, <1>9 DEF SessionInv

\* While the stream is written nothing of it has been accepted.
LEMMA WritingReader ==
    ASSUME ReaderInv, streamVerdict = "writing", UNCHANGED <<mode, streamVerdict, ordinal, previous>>, Len(rows') \in Nat
    PROVE  ReaderInv' /\ ConclusionInv'
<1>1. ordinal = 0 /\ previous = << >>
  BY DEF ReaderInv
<1> QED
  BY <1>1 DEF ReaderInv, ConclusionInv

LEMMA RunActions ==
    ASSUME StreamInv, NEW d \in Durations, Work(d) \/ Unrecorded(d) \/ Undrained(d) \/ Crowded(d)
    PROVE  StreamInv'
<1>1. session.tags \in Nat /\ TagLimit + 1 \in Nat
  BY StreamAssumption DEF StreamInv, SessionInv, SessionStates
<1>2. PICK tags \in Nat, drained \in BOOLEAN, written \in BOOLEAN : Run(Record(d, tags, drained), written)
  <2>1. CASE Work(d)
    BY <1>1, <2>1 DEF Work
  <2>2. CASE Unrecorded(d)
    BY <1>1, <2>2 DEF Unrecorded
  <2>3. CASE Undrained(d)
    BY <1>1, <2>3 DEF Undrained
  <2>4. CASE Crowded(d)
    BY <1>1, <2>4 DEF Crowded
  <2> QED
    BY <2>1, <2>2, <2>3, <2>4
<1>3. SessionInv'
  BY <1>2, RunStep DEF StreamInv
<1>4. streamVerdict = "writing" /\ UNCHANGED <<mode, streamVerdict, ordinal, previous>>
  BY <1>2 DEF Run
<1>5. Len(rows') \in Nat
  BY <1>3 DEF SessionInv
<1> QED
  BY <1>3, <1>4, <1>5, WritingReader DEF StreamInv

LEMMA RestartStreamStep ==
    ASSUME StreamInv, NEW g \in Nat, RestartSession(g)
    PROVE  StreamInv'
<1>1. /\ past' = past \cup {ran} /\ session' = Cold(g) /\ ran' = << >> /\ rows' = rows /\ streamVerdict = "writing"
      /\ UNCHANGED <<mode, streamVerdict, ordinal, previous>>
  BY DEF RestartSession, Faulty
<1>2. session' \in SessionStates /\ session'.works = 0
  BY <1>1 DEF Cold, SessionStates
<1>3. ran' \in Lives /\ Len(ran') = 0
  BY <1>1 DEF Lives
<1>4. past' \subseteq Lives
  BY <1>1 DEF StreamInv, SessionInv
<1>5. rows' \in Seq(Recorded')
  <2>1. \A life \in past \cup {ran} : life \in past'
    BY <1>1
  <2>2. Seq(Recorded) \subseteq Seq(Recorded')
    BY <2>1, RecordedGrows DEF StreamInv
  <2> QED
    BY <1>1, <2>2 DEF StreamInv, SessionInv
<1>6. SessionInv'
  BY <1>2, <1>3, <1>4, <1>5 DEF SessionInv
<1> QED
  BY <1>1, <1>5, <1>6, WritingReader DEF StreamInv

LEMMA IdleStep == StreamInv /\ Idle => StreamInv'
<1> SUFFICES ASSUME StreamInv, Idle PROVE StreamInv'
  OBVIOUS
<1>1. /\ session' = [session EXCEPT !.cursor = @ + 1] /\ streamVerdict = "writing"
      /\ UNCHANGED <<mode, rows, ran, past, streamVerdict, ordinal, previous>>
  BY DEF Idle, Faulty
<1>2. session' \in SessionStates /\ session'.works = session.works
  <2>1. session \in SessionStates
    BY DEF StreamInv, SessionInv
  <2>2. session.cursor + 1 \in Nat
    BY <2>1 DEF SessionStates
  <2>3. session' = [session EXCEPT !.cursor = session.cursor + 1]
    BY <1>1
  <2> QED
    BY <2>1, <2>2, <2>3 DEF SessionStates
<1>3. SessionInv'
  BY <1>1, <1>2 DEF StreamInv, SessionInv, Recorded
<1>4. Len(rows') \in Nat
  BY <1>3 DEF SessionInv
<1> QED
  BY <1>1, <1>3, <1>4, WritingReader DEF StreamInv

LEMMA DamagedStep == StreamInv /\ Damaged => StreamInv'
<1> SUFFICES ASSUME StreamInv, Damaged PROVE StreamInv'
  OBVIOUS
<1>1. rows \in Seq(Recorded)
  BY DEF StreamInv, SessionInv
<1>2. PICK lines \in Seq(Recorded) : Damage(lines)
  <2>1. CASE Damage(Append(rows, Last(rows)))
    <3>1. rows # << >>
      BY <2>1 DEF Damage
    <3>2. Last(rows) \in Recorded
      BY <1>1, <3>1 DEF Last
    <3>3. Append(rows, Last(rows)) \in Seq(Recorded)
      BY <1>1, <3>2, AppendProperties
    <3> QED
      BY <2>1, <3>3
  <2>2. CASE Len(rows) > 1 /\ Damage(SubSeq(rows, 1, Len(rows) - 2) \o <<rows[Len(rows)], rows[Len(rows) - 1]>>)
    <3>1. rows[Len(rows)] \in Recorded /\ rows[Len(rows) - 1] \in Recorded
      BY <1>1, <2>2
    <3>2. <<rows[Len(rows)], rows[Len(rows) - 1]>> \in Seq(Recorded)
      BY <3>1
    <3>3. SubSeq(rows, 1, Len(rows) - 2) \in Seq(Recorded)
      BY <1>1, <2>2, SubSeqProperties
    <3>4. SubSeq(rows, 1, Len(rows) - 2) \o <<rows[Len(rows)], rows[Len(rows) - 1]>> \in Seq(Recorded)
      BY <3>2, <3>3, ConcatProperties
    <3> QED
      BY <2>2, <3>4
  <2>3. CASE Damage(Tail(rows))
    <3>1. rows # << >>
      BY <2>3 DEF Damage
    <3>2. Tail(rows) \in Seq(Recorded)
      BY <1>1, <3>1, HeadTailProperties
    <3> QED
      BY <2>3, <3>2
  <2>4. CASE Damage(Front(rows))
    <3>1. rows # << >>
      BY <2>4 DEF Damage
    <3>2. Front(rows) \in Seq(Recorded)
      BY <1>1, <3>1, SubSeqProperties DEF Front
    <3> QED
      BY <2>4, <3>2
  <2> QED
    BY <2>1, <2>2, <2>3, <2>4 DEF Damaged
<1>3. rows' = lines /\ streamVerdict = "writing" /\ UNCHANGED <<mode, session, ran, past, streamVerdict, ordinal, previous>>
  BY <1>2 DEF Damage, Faulty
<1>4. Recorded' = Recorded
  BY <1>3 DEF Recorded
<1>5. SessionInv'
  BY <1>2, <1>3, <1>4 DEF StreamInv, SessionInv
<1>6. Len(rows') \in Nat
  BY <1>5 DEF SessionInv
<1> QED
  BY <1>3, <1>5, <1>6, WritingReader DEF StreamInv

LEMMA InspectStep == StreamInv /\ Inspect => StreamInv'
<1> SUFFICES ASSUME StreamInv, Inspect PROVE StreamInv'
  OBVIOUS
<1> DEFINE row == rows[ordinal + 1]
<1>1. streamVerdict = "reading" /\ ordinal < Len(rows) /\ UNCHANGED <<mode, session, rows, ran, past>>
  BY DEF Inspect
<1>2. SessionInv' /\ Len(rows) \in Nat
  BY <1>1 DEF StreamInv, SessionInv, Recorded
<1>3. CASE Accepts(row)
  <2>1. ordinal' = ordinal + 1 /\ previous' = <<row.after, row.events.last>> /\ streamVerdict' = streamVerdict
    BY <1>3 DEF Inspect
  <2>2. /\ row.ordinal = ordinal /\ row.after.works = ordinal + 1
        /\ mode # "interleaved" => row.window.offered = row.before.cursor
        /\ previous # << >> => row.before = previous[1]
        /\ ordinal = 0 => row.before.cursor = 0
    BY <1>3 DEF Accepts, Expected, Snapshot, Issued, Carries
  <2>3. /\ ordinal \in 0 .. Len(rows)
        /\ ordinal = 0 => previous = << >>
        /\ ordinal > 0 => previous = <<rows[ordinal].after, rows[ordinal].events.last>> /\ rows[1].before.cursor = 0
        /\ \A i \in 1 .. ordinal :
             /\ rows[i].ordinal = i - 1 /\ rows[i].after.works = i
             /\ mode # "interleaved" => rows[i].window.offered = rows[i].before.cursor
        /\ \A i \in 1 .. (ordinal - 1) : rows[i + 1].before = rows[i].after
    BY DEF StreamInv, ReaderInv
  <2>4. ordinal > 0 => row.before = rows[ordinal].after
    <3> SUFFICES ASSUME ordinal > 0 PROVE row.before = rows[ordinal].after
      OBVIOUS
    <3>1. previous = <<rows[ordinal].after, rows[ordinal].events.last>>
      BY <2>3
    <3>2. previous # << >> /\ previous[1] = rows[ordinal].after
      BY <3>1
    <3> HIDE DEF row
    <3> QED
      BY <2>2, <3>2
  <2>5. /\ ordinal \in Nat /\ ordinal' \in 0 .. Len(rows) /\ ordinal' > 0
    BY <1>1, <1>2, <2>1, <2>3
  <2>6. rows[1].before.cursor = 0
    <3>1. CASE ordinal = 0
      BY <2>2, <3>1
    <3>2. CASE ordinal > 0
      BY <2>3, <3>2
    <3> QED
      BY <2>5, <3>1, <3>2
  <2>7. ASSUME NEW i \in 1 .. (ordinal + 1)
        PROVE  /\ rows[i].ordinal = i - 1 /\ rows[i].after.works = i
               /\ mode # "interleaved" => rows[i].window.offered = rows[i].before.cursor
    <3>1. CASE i = ordinal + 1
      <4>1. ordinal = i - 1
        BY <2>5, <3>1
      <4> QED
        BY <2>2, <3>1, <4>1
    <3>2. CASE i # ordinal + 1
      <4>1. i \in 1 .. ordinal
        BY <2>5, <3>2
      <4> QED
        BY <2>3, <4>1
    <3> QED
      BY <3>1, <3>2
  <2>8. ASSUME NEW i \in 1 .. ordinal
        PROVE  rows[i + 1].before = rows[i].after
    <3>1. CASE i = ordinal
      BY <2>4, <2>5, <3>1
    <3>2. CASE i # ordinal
      <4>1. i \in 1 .. (ordinal - 1)
        BY <2>5, <3>2
      <4> QED
        BY <2>3, <4>1
    <3> QED
      BY <3>1, <3>2
  <2>9. (ordinal + 1) - 1 = ordinal
    BY <2>5
  <2> HIDE DEF row
  <2>10. ReaderInv'
    <3>1. previous' = <<rows[ordinal + 1].after, rows[ordinal + 1].events.last>>
      BY <2>1 DEF row
    <3> QED
      BY <1>1, <2>1, <2>5, <2>6, <2>7, <2>8, <2>9, <3>1 DEF ReaderInv
  <2>11. ConclusionInv'
    BY <1>1, <2>1 DEF ConclusionInv
  <2> QED
    BY <1>2, <2>10, <2>11 DEF StreamInv
<1>4. CASE ~Accepts(row)
  <2>1. streamVerdict' = "refused" /\ UNCHANGED <<ordinal, previous>>
    BY <1>4 DEF Inspect
  <2>2. ReaderInv' /\ ConclusionInv'
    BY <1>1, <2>1 DEF StreamInv, ReaderInv, ConclusionInv
  <2> QED
    BY <1>2, <2>2 DEF StreamInv
<1> QED
  BY <1>3, <1>4

LEMMA EndStep == StreamInv /\ (Close \/ Conclude) => StreamInv'
<1> SUFFICES ASSUME StreamInv, Close \/ Conclude PROVE StreamInv'
  OBVIOUS
<1>1. UNCHANGED <<mode, session, rows, ran, past, ordinal, previous>>
  BY DEF Close, Conclude
<1>2. SessionInv'
  BY <1>1 DEF StreamInv, SessionInv, Recorded
<1>3. CASE Close
  <2>1. streamVerdict' = "reading"
    BY <1>3 DEF Close
  <2>2. ReaderInv' /\ ConclusionInv'
    BY <1>1, <2>1 DEF StreamInv, ReaderInv, ConclusionInv
  <2> QED
    BY <1>2, <2>2 DEF StreamInv
<1>4. CASE Conclude
  <2>1. /\ streamVerdict = "reading" /\ ordinal = Len(rows)
        /\ streamVerdict' = IF previous # << >> /\ previous[1].works = Count THEN "accepted" ELSE "refused"
    BY <1>4 DEF Conclude
  <2>2. ordinal \in Nat /\ (ordinal = 0 => previous = << >>)
    BY DEF StreamInv, ReaderInv
  <2>3. ReaderInv'
    BY <1>1, <2>1 DEF StreamInv, ReaderInv
  <2>4. ConclusionInv'
    BY <1>1, <2>1, <2>2 DEF ConclusionInv
  <2> QED
    BY <1>2, <2>3, <2>4 DEF StreamInv
<1> QED
  BY <1>3, <1>4

LEMMA StreamStarts == StreamInit => StreamInv
<1> SUFFICES ASSUME StreamInit PROVE StreamInv
  OBVIOUS
<1>1. session \in SessionStates /\ session.works = 0
  BY DEF StreamInit, Cold, SessionStates
<1>2. ran \in Lives /\ Len(ran) = 0 /\ past = {} /\ rows \in Seq(Recorded) /\ Len(rows) = 0
  BY DEF StreamInit, Lives
<1>3. ReaderInv /\ ConclusionInv
  BY <1>2 DEF StreamInit, ReaderInv, ConclusionInv
<1> QED
  BY <1>1, <1>2, <1>3 DEF StreamInv, SessionInv

\* What the readers of a transition stream accept is a history one session
\* can have, for any number of works, durations and faults.
THEOREM AcceptedStreamIsOneSession == StreamSpec => []StreamIsOneSession
<1>1. StreamInv /\ [StreamNext]_streamVars => StreamInv'
  <2> SUFFICES ASSUME StreamInv, [StreamNext]_streamVars PROVE StreamInv'
    OBVIOUS
  <2>1. CASE UNCHANGED streamVars
    BY <2>1 DEF streamVars, StreamInv, SessionInv, ReaderInv, ConclusionInv, Recorded
  <2>2. CASE \E d \in Durations : Work(d) \/ Unrecorded(d) \/ Undrained(d) \/ Crowded(d)
    BY <2>2, RunActions
  <2>3. CASE \E g \in {1, session.generation + 1} : RestartSession(g)
    <3>1. {1, session.generation + 1} \subseteq Nat
      BY DEF StreamInv, SessionInv, SessionStates
    <3> QED
      BY <2>3, <3>1, RestartStreamStep
  <2>4. CASE Idle \/ Damaged \/ Close \/ Inspect \/ Conclude
    BY <2>4, IdleStep, DamagedStep, EndStep, InspectStep
  <2> QED
    BY <2>1, <2>2, <2>3, <2>4 DEF StreamNext
<1>2. StreamInv => StreamIsOneSession
  <2> SUFFICES ASSUME StreamInv, streamVerdict = "accepted" PROVE StreamIsOneSession
    BY DEF StreamIsOneSession
  <2>1. ordinal = Len(rows) /\ ordinal > 0 /\ previous[1].works = Count /\ ordinal \in Nat /\ rows \in Seq(Recorded)
    BY DEF StreamInv, ConclusionInv, ReaderInv, SessionInv
  <2>2. /\ previous = <<rows[ordinal].after, rows[ordinal].events.last>> /\ rows[1].before.cursor = 0
        /\ \A i \in 1 .. ordinal :
             /\ rows[i].ordinal = i - 1 /\ rows[i].after.works = i
             /\ mode # "interleaved" => rows[i].window.offered = rows[i].before.cursor
        /\ \A i \in 1 .. (ordinal - 1) : rows[i + 1].before = rows[i].after
    BY <2>1 DEF StreamInv, ReaderInv
  <2>3. Len(rows) = Count /\ Count \in Nat \ {0} /\ ordinal = Count
    <3>1. previous[1] = rows[ordinal].after /\ rows[ordinal].after.works = ordinal
      BY <2>1, <2>2
    <3> QED
      BY <2>1, <3>1
  <2>4. ASSUME NEW i \in 1 .. Count
        PROVE  /\ rows[i] \in StreamRecords
               /\ \E life \in past \cup {ran} : i <= Len(life) /\ rows[i] = life[i] /\ Told(rows[i], i)
    <3>1. rows[i] \in Recorded /\ rows[i].ordinal = i - 1
      BY <2>1, <2>2, <2>3, ElementOfSeq
    <3>5. PICK life \in past \cup {ran} : \E n \in 1 .. Len(life) : rows[i] = life[n]
      BY <3>1 DEF Recorded
    <3>2. PICK n \in 1 .. Len(life) : rows[i] = life[n]
      BY <3>5
    <3>3. Told(life[n], n) /\ Len(life) \in Nat
      BY DEF StreamInv, SessionInv, Lives
    <3>4. n = i
      BY <3>1, <3>2, <3>3, <2>3 DEF Told
    <3> QED
      BY <3>1, <3>2, <3>3, <3>4 DEF Recorded
  <2>5. ASSUME NEW i \in 1 .. Count
        PROVE  /\ rows[i].gap \in Nat /\ rows[i].before.cursor \in Nat /\ rows[i].after.cursor \in Nat
               /\ rows[i].window.offered = rows[i].before.cursor + rows[i].gap /\ rows[i].after.cursor = rows[i].window.ready
    <3>1. rows[i] \in StreamRecords /\ Told(rows[i], i)
      BY <2>4
    <3> QED
      BY <3>1 DEF Told, StreamRecords, SessionStates
  <2>6. ASSUME NEW i \in 1 .. Count
        PROVE  Took(rows[i]) = rows[i].after.cursor - rows[i].before.cursor
               /\ rows[i].before.cursor \in Int /\ rows[i].after.cursor \in Int
    BY <2>5 DEF Took
  <2>7. rows[Count].after.cursor = Elapsed(rows)
    BY <2>2, <2>3, <2>6, ElapsedChain
  <2>8. mode # "interleaved" => \A i \in 1 .. Count : rows[i].gap = 0
    <3> SUFFICES ASSUME mode # "interleaved", NEW i \in 1 .. Count PROVE rows[i].gap = 0
      OBVIOUS
    <3>1. rows[i].window.offered = rows[i].before.cursor
      BY <2>2, <2>3
    <3> QED
      BY <2>5, <3>1
  <2> QED
    BY <2>2, <2>3, <2>4, <2>7, <2>8 DEF StreamIsOneSession
<1> QED
  BY StreamStarts, <1>1, <1>2, PTL DEF StreamSpec
=============================================================================
