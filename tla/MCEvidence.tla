----------------------------- MODULE MCEvidence -----------------------------
(***************************************************************************)
(* The three bodies of evidence, each explored on its own: an instance     *)
(* chooses the one that moves, and the others keep their initial state.    *)
(*                                                                         *)
(* Certificates: every kind of certificate, with two edits of the files    *)
(* that a document may bind in a version nobody reviewed.                  *)
(* TransitionStream: three works on ports with gaps and two faults.        *)
(* CorpusAuthority: the packages of the three later revisions, and v5's    *)
(* head with v3's sources.                                                 *)
(***************************************************************************)
EXTENDS Certificates, TransitionStream, CorpusAuthority

VARIABLE evidence

AllModes == {"actual", "interleaved", "replay", "decode"}
ThreeWorks == <<0, 1, 2>>
GappedPorts == <<0, 3, 7>>

PackageSet ==
    {Producer(rev) : rev \in {"v3", "v4", "v5"}}
    \cup {[head |-> "v5", lock |-> "v5", executor |-> "plain", authority |-> "v3"]}

MCInit ==
    /\ evidence \in {"certificates", "stream", "corpus"}
    /\ CertificateInit /\ StreamInit /\ CorpusInit
    /\ evidence /= "certificates" => kind = "v1"
    /\ evidence /= "stream" => mode = "actual"
    /\ evidence /= "corpus" => revision = "v3" /\ package = Producer("v3")

MCNext ==
    /\ \/ evidence = "certificates" /\ CertificateNext /\ UNCHANGED <<streamVars, corpusVars>>
       \/ evidence = "stream" /\ StreamNext /\ UNCHANGED <<certificateVars, corpusVars>>
       \/ evidence = "corpus" /\ CorpusNext /\ UNCHANGED <<certificateVars, streamVars>>
    /\ UNCHANGED evidence

MCSpec == MCInit /\ [][MCNext]_<<certificateVars, streamVars, corpusVars, evidence>>
=============================================================================
