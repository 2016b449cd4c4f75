--------------------------- MODULE CorpusAuthority ---------------------------
(***************************************************************************)
(* The reviewed corpus and its five revisions.  A revision is a manifest    *)
(* that refers to an earlier one: v2 gives the residual cases of v1 new     *)
(* shapes, v3 drops them and numbers the rest anew, v4 changes one source   *)
(* of the producer, v5 takes v4 to another package.  So one case name means *)
(* another GEMM in another revision, and a certificate is put together from *)
(* results that were measured at different times.                           *)
(***************************************************************************)
EXTENDS Naturals, Sequences, FiniteSets
CONSTANTS Historical,    \* number of captured cases of v1
          Residual,      \* those that measure the residual path
          LargeK, Framings,
          Packages,      \* candidate producer packages
          MaxRows

ASSUME CorpusAssumption == Historical \in Nat /\ Residual \subseteq 1..Historical /\ MaxRows \in Nat

Revisions == {"v1", "v2", "v3", "v4", "v5"}

VARIABLES revision,   \* the authority the document names
          package,    \* the producer the results come from
          edited,     \* manifests whose bytes are not the reviewed ones
          cases,      \* the results, in the document's order
          corpusVerdict
corpusVars == <<revision, package, edited, cases, corpusVerdict>>

(***************************************************************************)
(* corpus()                                                                 *)
(***************************************************************************)
\* The inputs (shape, tile, timing, provenance) a manifest gives a case
Inputs(h, manifests) ==
    <<IF h \in Residual THEN "residual_hp1" ELSE "dense", h, IF "v1" \in manifests THEN "edited" ELSE "reviewed">>

\* The cases of v1 that v3 keeps, and the number each gets there
Retained == (1..Historical) \ Residual
Number(h) == Cardinality({g \in Retained : g <= h})

\* The captured cases of a revision: the number and the inputs of each
Captured(rev, manifests) ==
    CASE rev = "v1" -> {<<h, Inputs(h, manifests)>> : h \in 1..Historical}
      [] rev = "v2" ->
           {<<h, IF h \in Residual THEN Append(Inputs(h, manifests), "pruned") ELSE Inputs(h, manifests)>> : h \in 1..Historical}
      [] OTHER -> {<<Number(h), Inputs(h, manifests)>> : h \in Retained}

Corpus(rev, manifests) ==
    {[case |-> <<"captured", row[1]>>, index |-> row[1], inputs |-> row[2]] : row \in Captured(rev, manifests)}
    \cup {[case |-> <<"large-k", k>>, index |-> 0, inputs |-> <<"synthetic_large_k", k>>] : k \in LargeK}

Result(framing, row) == [framing |-> framing, case |-> row.case, index |-> row.index, inputs |-> row.inputs]

(***************************************************************************)
(* authority()                                                              *)
(***************************************************************************)
\* Fault: a manifest is pinned, the one below it is not.
AuthorityOfItself(rev) == rev = "v1" \/ rev \notin edited

\* v2 and v3 name the digest of v1, v4 is checked on top of authority("v3"),
\* v5 is laid over authority("v4").
Authority(rev) ==
    CASE rev = "v1" -> TRUE
      [] rev \in {"v2", "v3"} -> {rev, "v1"} \cap edited = {}
      [] rev = "v4" -> {"v4", "v3", "v1"} \cap edited = {}
      [] rev = "v5" -> {"v5", "v4", "v3", "v1"} \cap edited = {}

\* What {**prior, **document} leaves in the merged manifest: v4 takes the
\* producer's sources of v3 with one file changed, v5 those of v4; each has
\* its own head, dependency lock and source manifest.
Producer(rev) ==
    [head |-> rev,
     lock |-> rev,
     executor |-> IF rev \in {"v4", "v5"} THEN "metrics_guard" ELSE "plain",
     authority |-> "v3"]

\* validate_package, for the revisions that come as a package
PackageMatches(rev) == rev \in {"v3", "v4", "v5"} => package = Producer(rev)

(***************************************************************************)
(* validate_corpus()                                                        *)
(***************************************************************************)
Names(rows) == {<<rows[i].framing, rows[i].case>> : i \in DOMAIN rows}

\* Fault: a result is known by its name alone.
RowMatchesByName(row) == \E known \in Corpus(revision, edited) : row.case = known.case

\* CASE_FIELDS and captured_case must be those of the case of that name.
RowMatches(row) ==
    \E known \in Corpus(revision, edited) : row.case = known.case /\ row.inputs = known.inputs /\ row.index = known.index

ValidateResults ==
    /\ Authority(revision)
    /\ PackageMatches(revision)
    /\ Cardinality(Names(cases)) = Len(cases)
    /\ \A i \in DOMAIN cases : RowMatches(cases[i])
    /\ Names(cases) = {<<framing, row.case>> : framing \in Framings, row \in Corpus(revision, edited)}

\* validate_certificate: the present production takes v3 and later only.
Current(rev) == rev \in {"v3", "v4", "v5"}

(***************************************************************************)
(* Assembling a certificate                                                 *)
(***************************************************************************)
CorpusTypeOK == revision \in Revisions /\ edited \subseteq Revisions /\ corpusVerdict \in {"open", "current", "historical", "refused"}

CorpusInit ==
    /\ revision \in Revisions /\ package \in Packages
    /\ edited = {} /\ cases = << >> /\ corpusVerdict = "open"

\* A result measured for some revision, with the manifests as they are
AddResult(rev, framing, row) ==
    /\ corpusVerdict = "open" /\ Len(cases) < MaxRows
    /\ row \in Corpus(rev, edited)
    /\ cases' = Append(cases, Result(framing, row))
    /\ UNCHANGED <<revision, package, edited, corpusVerdict>>

\* One manifest is changed, or the change is taken back.
Change(manifest) ==
    /\ corpusVerdict = "open"
    /\ edited' = IF manifest \in edited THEN {} ELSE {manifest}
    /\ UNCHANGED <<revision, package, cases, corpusVerdict>>

Finalize ==
    /\ corpusVerdict = "open"
    /\ corpusVerdict' = IF ~ValidateResults THEN "refused" ELSE IF Current(revision) THEN "current" ELSE "historical"
    /\ UNCHANGED <<revision, package, edited, cases>>

CorpusNext ==
    \/ \E rev \in Revisions, framing \in Framings : \E row \in Corpus(rev, edited) : AddResult(rev, framing, row)
    \/ \E manifest \in Revisions : Change(manifest)
    \/ Finalize

CorpusSpec == CorpusInit /\ [][CorpusNext]_corpusVars

(***************************************************************************)
(* Properties                                                               *)
(***************************************************************************)
\* A certificate for the present production rests on exactly one result for
\* every dense case and framing, measured on the reviewed inputs of that
\* case and on the producer that the revision names, whatever results of
\* other revisions, under the same names, and whatever changes of the
\* manifests went into its making.
MeasuredAsReviewed ==
    corpusVerdict = "current" =>
        /\ \A framing \in Framings, h \in Retained :
              Cardinality({j \in DOMAIN cases :
                  /\ cases[j].framing = framing
                  /\ cases[j].inputs = <<"dense", h, "reviewed">>}) = 1
        /\ \A j \in DOMAIN cases : cases[j].inputs[1] \in {"dense", "synthetic_large_k"}
        /\ package.head = revision /\ (package.executor = "plain") = (revision = "v3")
=============================================================================
