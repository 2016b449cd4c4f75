------------------------------ MODULE Evidence ------------------------------
(***************************************************************************)
(* What each validator of sim/cycle reads, in the order it reads it.  A     *)
(* proof is a sequence of steps <<operation, file>>:                        *)
(*   pin    the digest must be the reviewed one; it enters the document;    *)
(*   hold   the digest must be the reviewed one; the document omits it;     *)
(*   bind   the digest of the present bytes enters the document;            *)
(*   use    the bytes are read and interpreted;                             *)
(*   check  the digest must be the one the document has already;            *)
(*   derive what is read from the bytes enters the document;                *)
(*   match  the transition certificate must name the present validator.     *)
(* A file stands for all files of its role: `cases` for the reports,        *)
(* stimuli and receipts, `raw` for the event streams and records,           *)
(* `artifacts` for what the parent certificates name, `validators` for the  *)
(* Python sources, `harness` for the probe and test sources.                *)
(***************************************************************************)
EXTENDS Sequences, Naturals

Each(op, files) == [i \in DOMAIN files |-> <<op, files[i]>>]

(***************************************************************************)
(* The parent certificates                                                  *)
(***************************************************************************)
ValidateCorpus == Each("hold", <<"corpus">>) \o Each("use", <<"corpus">>) \o Each("hold", <<"harness", "artifacts">>)

BaseCertificate == Each("hold", <<"corpus", "shared">>) \o ValidateCorpus

RunAware ==
    Each("use", <<"run_aware">>) \o Each("hold", <<"corpus">>) \o Each("use", <<"corpus">>)
    \o Each("hold", <<"artifacts", "shared", "validators", "artifacts">>) \o Each("use", <<"build", "artifacts", "shared">>)

ServiceEvidence ==
    Each("hold", <<"shared", "corpus">>) \o Each("use", <<"corpus">>) \o Each("hold", <<"validators", "artifacts">>)
    \o Each("use", <<"build", "artifacts">>) \o Each("hold", <<"artifacts", "shared">>) \o Each("use", <<"artifacts">>)

ProducerReceipt == Each("hold", <<"artifacts">>) \o Each("use", <<"artifacts">>) \o Each("hold", <<"artifacts">>)

SequenceCase ==
    Each("use", <<"artifacts">>) \o Each("hold", <<"harness", "trace", "shared", "artifacts">>) \o Each("use", <<"build">>)
    \o Each("hold", <<"artifacts">>) \o Each("use", <<"artifacts", "trace", "shared">>)

ProductionSequence ==
    Each("hold", <<"corpus">>) \o Each("use", <<"corpus">>) \o Each("hold", <<"shared", "validators", "artifacts">>)
    \o Each("use", <<"artifacts">>) \o Each("hold", <<"trace">>) \o ProducerReceipt \o SequenceCase \o Each("hold", <<"trace">>)

ServiceCertificate ==
    Each("use", <<"service">>) \o Each("hold", <<"artifacts">>) \o Each("use", <<"artifacts">>) \o ServiceEvidence
    \o Each("hold", <<"base", "run_aware">>) \o Each("use", <<"base">>) \o BaseCertificate \o RunAware
    \o Each("use", <<"corpus", "trace">>) \o ProductionSequence

\* The stages before production_sequence_certificate.build writes its document
SequenceCertificate ==
    Each("hold", <<"corpus">>) \o Each("use", <<"corpus", "artifacts">>) \o ServiceEvidence \o Each("hold", <<"base", "run_aware">>)
    \o BaseCertificate \o RunAware \o Each("use", <<"cases">>)
    \o Each("bind", <<"cases", "corpus", "shared", "base", "run_aware", "artifacts", "validators">>) \o ProductionSequence

Transition ==
    Each("hold", <<"reviews">>) \o Each("use", <<"reviews">>) \o Each("hold", <<"base">>) \o Each("use", <<"base">>)
    \o Each("hold", <<"shared", "artifacts">>) \o Each("use", <<"artifacts">>)

BaseProbe == Each("use", <<"artifacts", "build">>) \o Each("hold", <<"artifacts">>)
BaseModel == Each("use", <<"artifacts", "shared">>)

ReviewedParent(name) ==
    Each("use", <<"input">>) \o Each("pin", <<"reviews">>) \o Each("use", <<"reviews">>) \o Each("hold", <<"native">>)
    \o (IF name = "base" THEN BaseProbe \o BaseModel ELSE << >>) \o Each("hold", <<"artifacts", name>>)

CurrentParent(name) ==
    (CASE name = "base" -> BaseCertificate
       [] name = "run_aware" -> RunAware
       [] name = "service" -> Each("use", <<"artifacts">>) \o ServiceCertificate)
    \o ReviewedParent(name)

\* A parent of the present library is validated, a historical one only bound.
Parent(name, current) == Each("use", <<name>>) \o (IF current THEN CurrentParent(name) ELSE << >>) \o Each("bind", <<name>>)

Parents(current) == Parent("base", current) \o Parent("run_aware", current) \o Parent("service", current)

(***************************************************************************)
(* The stateful certificate, versions 1 to 3                                *)
(***************************************************************************)
Pinned == Each("pin", <<"reviews">>) \o Each("use", <<"reviews">>)

SourceHashes == Each("bind", <<"native", "validators">>) \o Each("check", <<"native", "validators">>)

CaseBinding ==
    Each("use", <<"build", "cases">>) \o Each("pin", <<"cases", "build", "trace">>) \o Each("use", <<"cases">>) \o Each("pin", <<"raw">>)

ExpectedV1 == Pinned \o Each("pin", <<"library">>) \o SourceHashes \o Each("pin", <<"shared">>) \o Parents(FALSE) \o CaseBinding

CurrentCase ==
    Each("use", <<"cases", "build">>) \o Each("pin", <<"cases", "raw", "build">>) \o Each("use", <<"cases">>)
    \o Each("hold", <<"harness">>) \o Each("pin", <<"trace">>) \o Each("use", <<"raw">>) \o Each("pin", <<"raw", "library">>)

ReviewedCurrent ==
    Each("bind", <<"input">>) \o Each("use", <<"input">>) \o Each("pin", <<"reviews">>) \o Each("use", <<"reviews">>)
    \o Each("pin", <<"library", "shared">>) \o Each("bind", <<"native", "validators">>) \o Each("check", <<"native", "validators">>)
    \o CurrentCase \o Each("check", <<"input", "native", "validators">>)

Closure == Each("pin", <<"reviews", "artifacts">>)

\* The replays of the harness run between two computations of the closure.
ReviewedEquivalence ==
    Each("bind", <<"input">>) \o Each("use", <<"input">>) \o Each("pin", <<"reviews">>) \o Each("use", <<"reviews">>)
    \o Closure \o Each("pin", <<"library", "shared">>) \o Each("pin", <<"native">>) \o Each("bind", <<"validators">>)
    \o Each("pin", <<"artifacts">>) \o Each("use", <<"artifacts", "harness">>) \o Each("hold", <<"base", "run_aware", "service">>)
    \o Closure \o Each("check", <<"native", "validators", "input">>)

DeltaCase ==
    Each("pin", <<"raw">>) \o Each("use", <<"raw">>) \o Each("pin", <<"trace">>) \o Each("use", <<"trace", "raw", "shared">>)

ReviewedDelta ==
    Each("use", <<"delta">>) \o Each("bind", <<"delta">>) \o Each("pin", <<"reviews">>) \o Each("use", <<"reviews">>) \o DeltaCase
    \o Each("check", <<"delta", "reviews", "raw", "trace", "library", "shared", "native", "validators">>)

ExpectedV2 == ReviewedCurrent \o Parents(TRUE)
ExpectedV3 == ExpectedV2 \o ReviewedDelta
ExpectedEquivalent ==
    ReviewedEquivalence \o Parents(FALSE) \o Each("pin", <<"base", "run_aware", "service">>) \o ReviewedDelta

(***************************************************************************)
(* The later certificates                                                   *)
(***************************************************************************)
Tag6 ==
    Each("use", <<"input">>) \o Each("pin", <<"artifacts", "library", "shared", "native", "reviews">>) \o Each("use", <<"reviews">>)
    \o Each("pin", <<"raw", "harness">>) \o Each("use", <<"artifacts">>) \o Each("pin", <<"base", "run_aware", "service">>)
    \o Each("bind", <<"validators", "input">>)

Verified == Pinned \o Tag6 \o Each("pin", <<"raw", "harness">>) \o Each("use", <<"raw">>)

Full374 == Verified \o Each("match", <<"validators">>) \o Each("bind", <<"validators">>)

Identity == Each("pin", <<"library", "shared", "base", "run_aware", "service">>)

Profile ==
    Identity \o Pinned \o Each("hold", <<"artifacts">>) \o Each("pin", <<"native", "cases">>) \o Each("use", <<"cases">>)
    \o Each("pin", <<"artifacts", "raw">>) \o Each("use", <<"cases">>) \o Each("hold", <<"harness">>) \o Each("pin", <<"trace">>)
    \o Each("use", <<"raw">>) \o Each("bind", <<"validators">>)

CheckProof ==
    Each("pin", <<"artifacts", "raw">>) \o Each("use", <<"cases">>) \o Each("hold", <<"harness">>) \o Each("pin", <<"trace">>)
    \o Each("use", <<"raw">>)

CheckMilestone == Each("hold", <<"trace", "shared", "harness">>)

Extension ==
    Identity \o Pinned \o Each("hold", <<"artifacts">>) \o Each("pin", <<"cases">>) \o Each("use", <<"cases">>) \o CheckProof
    \o Each("pin", <<"cases">>) \o Each("use", <<"cases">>) \o CheckMilestone \o Each("pin", <<"reviews", "native">>)
    \o Each("bind", <<"validators">>) \o Each("pin", <<"reviews">>) \o Each("use", <<"reviews">>) \o Each("hold", <<"artifacts">>)

\* inspect() streams the records, then takes their digest again.
ActualTrace ==
    Identity \o Each("pin", <<"native", "cases">>) \o Each("use", <<"cases">>) \o Each("pin", <<"trace", "harness">>)
    \o Each("hold", <<"raw">>) \o Each("pin", <<"raw">>) \o Each("use", <<"raw">>) \o Each("bind", <<"raw">>)
    \o Each("hold", <<"harness">>) \o Each("use", <<"trace">>) \o Each("bind", <<"validators", "harness">>)

\* The windows are read once more for the endpoints of the issue sequence.
Interleaved ==
    Identity \o Each("pin", <<"native", "cases">>) \o Each("use", <<"cases">>) \o Each("pin", <<"trace", "harness">>)
    \o Each("hold", <<"raw">>) \o Each("pin", <<"raw">>) \o Each("use", <<"raw">>) \o Each("bind", <<"raw">>) \o Each("use", <<"raw">>)
    \o Each("hold", <<"harness">>) \o Each("use", <<"trace">>) \o Each("bind", <<"validators", "harness">>)

DecodeTrace ==
    Each("pin", <<"cases">>) \o Each("use", <<"cases">>) \o Each("pin", <<"artifacts", "library", "shared", "native">>)
    \o Each("use", <<"build">>) \o Each("pin", <<"build">>) \o Each("use", <<"build", "cases", "trace">>) \o Each("pin", <<"artifacts", "reviews">>)
    \o ActualTrace \o Each("use", <<"reviews", "trace">>) \o Each("pin", <<"raw">>) \o Each("use", <<"raw">>)
    \o Each("hold", <<"harness">>) \o Transition \o Each("use", <<"raw">>) \o Each("bind", <<"validators", "harness">>)

\* summarize() reads the fresh and the certified trace; both digests are
\* taken again for the document after the parent was validated and admitted.
Summarize == Each("derive", <<"fresh">>) \o Each("use", <<"trace">>)

CycleTrace ==
    Each("use", <<"reviews">>) \o Each("pin", <<"trace">>) \o Summarize \o Profile \o Each("pin", <<"cases">>) \o Each("use", <<"cases">>)
    \o Each("bind", <<"fresh", "validators", "reviews">>)

(***************************************************************************)
(* One proof, one build and one validation of every kind                    *)
(***************************************************************************)
CertificateKinds ==
    {"v1", "v2", "v3", "equivalent", "tag6", "full374", "profile", "extension", "actual", "interleaved",
     "decode", "cycle", "sequence"}

Program(kind) ==
    CASE kind = "v1" -> ExpectedV1
      [] kind = "v2" -> ExpectedV2
      [] kind = "v3" -> ExpectedV3
      [] kind = "equivalent" -> ExpectedEquivalent
      [] kind = "tag6" -> Tag6
      [] kind = "full374" -> Full374
      [] kind = "profile" -> Profile
      [] kind = "extension" -> Extension
      [] kind = "actual" -> ActualTrace
      [] kind = "interleaved" -> Interleaved
      [] kind = "decode" -> DecodeTrace
      [] kind = "cycle" -> CycleTrace
      [] kind = "sequence" -> SequenceCertificate

Delta(kind) == kind \in {"v3", "equivalent"}   \* context.domain_delta_input is given

\* Fault: a proof found in the cache is served as it is.
CurrentUnchecked(kind, hit) ==
    IF Delta(kind) THEN IF hit THEN <<"serve">> ELSE <<"prove", "recheck", "store">> ELSE <<"prove">>

\* expected_current, and expected() of the other kinds
ExpectedCurrent(kind, hit) ==
    IF Delta(kind) THEN IF hit THEN <<"serve", "reuse">> ELSE <<"prove", "recheck", "store">> ELSE <<"prove">>

PublishThenVerify == <<"prove", "stage", "link", "prove", "compare">>

BuildPlan(kind, hit) ==
    CASE kind \in {"v1", "sequence"} -> <<"prove", "stage", "link">>
      [] kind \in {"v2", "v3", "equivalent"} -> ExpectedCurrent(kind, hit) \o <<"stage", "recheck", "link">>
      [] kind = "tag6" -> <<"prove", "stage", "prove", "compare", "link">>
      [] kind = "full374" -> <<"prove_domain", "transition">> \o PublishThenVerify
      [] OTHER -> PublishThenVerify

ValidatePlan(kind, hit) == <<"read">> \o ExpectedCurrent(kind, hit) \o <<"compare", "admit">>

\* admit: the kinds that the provider may use
Admits(kind) == kind \notin {"v1", "tag6", "sequence"}
=============================================================================
