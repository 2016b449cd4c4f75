---------------------------- MODULE Certificates ----------------------------
(***************************************************************************)
(* The certificate builders and validators of sim/cycle at work while their *)
(* inputs may change.  A process builds or validates one certificate at a   *)
(* time (its proof, step by step, is that of module Evidence) and keeps one *)
(* proof of the stateful certificate; other people edit, rebuild or collect *)
(* files meanwhile.  A file is a version: 0 is the reviewed one, an edit    *)
(* makes a version that never was before.                                   *)
(***************************************************************************)
EXTENDS Evidence, FiniteSets, SequencesExt, TLC
CONSTANTS Kinds,      \* the certificates of the instance
          Editable,   \* the files that change in the instance
          MaxEdits,   \* how often, in all
          MaxOps,     \* builds and validations, in all
          None

Files == {"library", "shared", "native", "validators", "harness", "base", "run_aware", "service", "input",
          "reviews", "cases", "raw", "build", "trace", "fresh", "delta", "artifacts", "corpus"}

ASSUME InstanceAssumption ==
    /\ Kinds \subseteq CertificateKinds /\ Editable \subseteq Files
    /\ MaxEdits \in Nat /\ MaxOps \in Nat

VARIABLES kind,     \* the certificate in question
          history,  \* the versions of all files, now (last) and before
          plan,     \* stages left of the running operation
          at,       \* steps done of its first stage
          op,       \* "build", "validate" or None
          began,    \* Len(history) when it began
          doc,      \* the document: for each file the versions bound
          seen,     \* for each file the versions the proof read
          staged,   \* the document written or read
          out,      \* the published certificate, or None
          transition, \* the validator named by the transition certificate, or None
          cache,    \* _current_cache
          verdict,  \* "none", "scoped" (ScopedEvidence) or "admitted"
          ops
certificateVars == <<kind, history, plan, at, op, began, doc, seen, staged, out, transition, cache, verdict, ops>>

Empty == [f \in {} |-> {}]
Now == Last(history)
Add(bound, key, version) ==
    [f \in DOMAIN bound \cup {key} |-> (IF f \in DOMAIN bound THEN bound[f] ELSE {}) \cup IF f = key THEN {version} ELSE {}]

TypeOK ==
    /\ kind \in Kinds
    /\ \A i \in DOMAIN history : history[i] \in [Files -> 0..MaxEdits]
    /\ op \in {"build", "validate", None}
    /\ verdict \in {"none", "scoped", "admitted"}
    /\ DOMAIN doc \subseteq Files \cup {"summary"}
    /\ DOMAIN seen \subseteq Files

CertificateInit ==
    /\ kind \in Kinds
    /\ history = <<[f \in Files |-> 0]>>
    /\ plan = << >> /\ at = 0 /\ op = None /\ began = 1
    /\ doc = Empty /\ seen = Empty /\ staged = None /\ out = None /\ transition = None /\ cache = None
    /\ verdict = "none" /\ ops = 0

(***************************************************************************)
(* The environment                                                          *)
(***************************************************************************)
\* The operation ran to its end or raised before the last edit matters: an
\* edit after the last operation changes nothing any more.
Edit(f) ==
    /\ Len(history) <= MaxEdits
    /\ plan # << >> \/ ops < MaxOps
    /\ history' = Append(history, [Now EXCEPT ![f] = Len(history)])
    /\ UNCHANGED <<kind, plan, at, op, began, doc, seen, staged, out, transition, cache, verdict, ops>>

\* Another process takes over: the module variable is gone.
Restart ==
    /\ plan = << >> /\ cache # None
    /\ cache' = None
    /\ UNCHANGED <<kind, history, plan, at, op, began, doc, seen, staged, out, transition, verdict, ops>>

(***************************************************************************)
(* One operation                                                            *)
(***************************************************************************)
Begin(name, stages) ==
    /\ plan = << >> /\ ops < MaxOps
    /\ plan' = stages /\ op' = name /\ ops' = ops + 1 /\ began' = Len(history)
    /\ at' = 0 /\ doc' = Empty /\ seen' = Empty /\ staged' = None /\ verdict' = "none"
    /\ UNCHANGED <<kind, history, out, transition, cache>>

\* build refuses an existing output; the link refuses it again.
Build == out = None /\ Begin("build", BuildPlan(kind, cache # None))

\* A production sequence certificate is validated as part of the service one.
Validate == kind # "sequence" /\ Begin("validate", ValidatePlan(kind, cache # None))

\* _recheck_current: the sources, the inputs and libraries, the reviews, the
\* parents, the artifacts of the cases, the delta, as far as the document has
\* them
RecheckOrder ==
    <<"native", "validators", "input", "library", "shared", "reviews", "artifacts", "base", "run_aware", "service",
      "cases", "raw", "build", "trace", "delta">>

StepsOf(stage) ==
    CASE stage = "prove" -> Program(kind)
      [] stage = "prove_domain" -> Verified
      [] stage \in {"recheck", "reuse"} -> Each("check", RecheckOrder)
      [] OTHER -> << >>

Stop == plan' = << >> /\ at' = 0 /\ op' = None

\* A failing recheck of the cached proof drops it.
Fail ==
    /\ Stop
    /\ cache' = IF Head(plan) = "reuse" THEN None ELSE cache
    /\ UNCHANGED <<kind, history, began, doc, seen, staged, out, transition, verdict, ops>>

Passes(act, f) ==
    CASE act \in {"pin", "hold"} -> Now[f] = 0
      [] act = "check" -> f \in DOMAIN doc => doc[f] = {Now[f]}
      [] act = "match" -> transition = Now[f]
      [] OTHER -> TRUE

Step(act, f) ==
    LET proving == Head(plan) \notin {"recheck", "reuse"}
        before == IF proving /\ at = 0 THEN Empty ELSE doc
        read == IF proving /\ at = 0 THEN Empty ELSE seen
    IN \/ /\ Passes(act, f)
          /\ at' = at + 1
          /\ doc' = CASE act \in {"pin", "bind"} -> Add(before, f, Now[f])
                      [] act = "derive" -> Add(before, "summary", Now[f])
                      [] OTHER -> before
          /\ seen' = IF proving THEN Add(read, f, Now[f]) ELSE read
          /\ UNCHANGED <<kind, history, plan, op, began, staged, out, transition, cache, verdict, ops>>
       \* what is not the reviewed content may be refused as well
       \/ (~Passes(act, f) \/ (act = "use" /\ Now[f] # 0)) /\ Fail

Read ==
    /\ plan # << >> /\ at < Len(StepsOf(Head(plan)))
    /\ \E step \in {StepsOf(Head(plan))[at + 1]} : Step(step[1], step[2])

\* The end of a stage
Ready(stage) == plan # << >> /\ Head(plan) = stage /\ at = Len(StepsOf(stage))
Advance == plan' = Tail(plan) /\ at' = 0 /\ op' = IF Len(plan) = 1 THEN None ELSE op

Proved ==
    /\ \E stage \in {"prove", "prove_domain", "recheck", "reuse"} : Ready(stage)
    /\ Advance
    /\ UNCHANGED <<kind, history, began, doc, seen, staged, out, transition, cache, verdict, ops>>

Store ==
    /\ Ready("store") /\ Advance
    /\ cache' = [doc |-> doc, seen |-> seen]
    /\ UNCHANGED <<kind, history, began, doc, seen, staged, out, transition, verdict, ops>>

Serve ==
    /\ Ready("serve") /\ Advance
    /\ doc' = cache.doc /\ seen' = cache.seen
    /\ UNCHANGED <<kind, history, began, staged, out, transition, cache, verdict, ops>>

\* The transition certificate is published once and kept.
PublishTransition ==
    /\ Ready("transition") /\ Advance
    /\ transition' = IF transition = None THEN Now["validators"] ELSE transition
    /\ UNCHANGED <<kind, history, began, doc, seen, staged, out, cache, verdict, ops>>

Stage ==
    /\ Ready("stage") /\ Advance
    /\ staged' = doc
    /\ UNCHANGED <<kind, history, began, doc, seen, out, transition, cache, verdict, ops>>

Link ==
    /\ Ready("link") /\ Advance
    /\ out' = staged
    /\ UNCHANGED <<kind, history, began, doc, seen, staged, transition, cache, verdict, ops>>

ReadDocument ==
    /\ Ready("read")
    /\ IF out = None THEN Stop /\ UNCHANGED staged ELSE Advance /\ staged' = out
    /\ UNCHANGED <<kind, history, began, doc, seen, out, transition, cache, verdict, ops>>

\* Fault: the document is accepted for its reviewed parts alone.
SameUnlessBound == \A f \in DOMAIN staged : 0 \in staged[f] \cap doc[f]

\* document == expected(context), field by field
Same == doc = staged

Compare ==
    /\ Ready("compare")
    /\ IF Same
       THEN Advance /\ verdict' = IF op = "validate" THEN "scoped" ELSE verdict
       ELSE Stop /\ UNCHANGED verdict
    /\ UNCHANGED <<kind, history, began, doc, seen, staged, out, transition, cache, ops>>

Admit ==
    /\ Ready("admit") /\ Advance
    /\ verdict' = IF Admits(kind) THEN "admitted" ELSE verdict
    /\ UNCHANGED <<kind, history, began, doc, seen, staged, out, transition, cache, ops>>

CertificateNext ==
    \/ \E f \in Editable : Edit(f)
    \/ Restart \/ Build \/ Validate
    \/ Read \/ Proved \/ Store \/ Serve \/ PublishTransition \/ Stage \/ Link \/ ReadDocument \/ Compare \/ Admit

CertificateSpec == CertificateInit /\ [][CertificateNext]_certificateVars

(***************************************************************************)
(* Properties                                                               *)
(***************************************************************************)
FileOf(key) == IF key = "summary" THEN "fresh" ELSE key

\* A certificate that a validator accepted describes one state of the
\* evidence: all bytes it binds, and what it derives from them, were the
\* files' contents at one instant.  A proof takes its digests one by one
\* over minutes while files may be rebuilt; only the second proof that
\* validate compares with the document shows that nothing moved between.
AcceptedCoexisted ==
    verdict # "none" =>
        \E i \in DOMAIN history : \A key \in DOMAIN doc : doc[key] = {history[i][FileOf(key)]}

\* Nothing is accepted on an earlier look at the files: every digest of an
\* accepted document was taken, or taken again, during the validation that
\* accepted it, also when the proof came from _current_cache.
AcceptedFresh ==
    verdict # "none" =>
        \A key \in DOMAIN doc : \A v \in doc[key] :
            \E i \in began..Len(history) : history[i][FileOf(key)] = v
=============================================================================
