---------------------------- MODULE BuildProofs ----------------------------
(***************************************************************************)
(* The two build directories, without the bounds of the runs.              *)
(*                                                                         *)
(* RealLibCache: the cache selects only what it verified, for any number   *)
(* of processes that ensure, edit, damage and are killed.                  *)
(* GemminiBuild: what verify_build accepts was made from the sources as    *)
(* they are, and what is exported was tested, for any number of runs,      *)
(* edits of sources and checkouts, failures and kills.                     *)
(***************************************************************************)
EXTENDS RealLibCache, GemminiBuild, TLAPS

(***************************************************************************)
(* RealLibCache: the inductive invariant                                   *)
(***************************************************************************)
Locked == {"ENTRY", "BUILD", "MAKE", "PUBLISH", "SELECT", "COPY", "GENERATION", "SWITCH", "SWITCHED", "SELECTED"}

Labels == {"IDLE", "FINGERPRINT", "LOCK", "DONE", "FAILED"} \cup Locked

Revision == {0, 1}

Fingerprint == [tools : Revision, contract : Revision, frontend : Revision \cup {None}, rtl : Revision \cup {None}]

EntryRecord == [fp : Fingerprint, archives : [1 .. 2 -> Nat], damaged : BOOLEAN]

GenerationRecord == [fp : Fingerprint, archives : Seq(Nat), damaged : BOOLEAN, present : BOOLEAN]

CacheTypeOK ==
    /\ file \in [Files -> Revision]
    /\ holders \subseteq Processes
    /\ builds \in Seq(Seq(Nat))
    /\ entries \in [DOMAIN entries -> EntryRecord]
    /\ generations \in Seq(GenerationRecord)
    /\ current = None \/ current \in DOMAIN generations
    /\ pc \in [Processes -> Labels]
    /\ key \in [Processes -> Fingerprint \cup {None}]
    /\ \A p \in Processes : pc[p] \notin {"IDLE", "DONE", "FAILED"} => key[p] \in Fingerprint
    /\ rows \in [Processes -> [1 .. 2 -> Nat] \cup {<< >>}]
    /\ made \in [Processes -> Seq(Nat)]

\* The lock of the identity is held by the one process between Lock and Leave.
LockHeld ==
    /\ \A p \in Processes : pc[p] \in Locked <=> p \in holders
    /\ \A p, q \in holders : p = q

\* Two archives of one build that finished
Coherent(archives) == archives[1] = archives[2] /\ archives[1] \in DOMAIN builds

EntriesCoherent == \A k \in DOMAIN entries : entries[k].damaged \/ Coherent(entries[k].archives)

GenerationsCoherent == \A g \in DOMAIN generations : Coherent(generations[g].archives)

\* The generation that a process made, switched to or accepted
OwnGeneration(g, p) == g \in DOMAIN generations /\ generations[g].present /\ generations[g].fp = key[p]

\* What a process knows at each label: the rows it verified, the archives it
\* copied against them, the generation it made of them and the pointer to it
ProcessInv(p) ==
    /\ pc[p] \in {"FINGERPRINT", "LOCK", "ENTRY", "SELECT"} => made[p] = << >>
    /\ pc[p] \in {"SELECT", "COPY"} => rows[p] \in [1 .. 2 -> Nat] /\ Coherent(rows[p])
    /\ pc[p] = "COPY" => Len(made[p]) \in 0 .. 1 /\ \A i \in 1 .. Len(made[p]) : made[p][i] = rows[p][i]
    /\ pc[p] = "GENERATION" => Coherent(made[p])
    /\ pc[p] \in {"SWITCH", "SWITCHED"} => OwnGeneration(made[p][1], p)
    /\ pc[p] = "SWITCHED" => current = made[p][1]
    /\ pc[p] = "SELECTED" => OwnGeneration(current, p)

CacheInv ==
    /\ CacheTypeOK /\ LockHeld /\ EntriesCoherent /\ GenerationsCoherent
    /\ \A p \in Processes : ProcessInv(p)

----------------------------------------------------------------------------
(* An empty cache and idle processes satisfy the invariant. *)
LEMMA CacheInitInv == CacheInit => CacheInv
<1> SUFFICES ASSUME CacheInit PROVE CacheInv
  OBVIOUS
<1> USE DEF CacheInit
<1>1. CacheTypeOK
  BY DEF CacheTypeOK, Files, Revision, Labels
<1>2. LockHeld
  BY DEF LockHeld, Locked
<1>3. EntriesCoherent /\ GenerationsCoherent
  BY DEF EntriesCoherent, GenerationsCoherent
<1>4. ASSUME NEW p \in Processes PROVE ProcessInv(p)
  BY DEF ProcessInv
<1> QED BY <1>1, <1>2, <1>3, <1>4 DEF CacheInv

(* What the other processes know is not disturbed by one of them: builds   *)
(* are only added, and the pointer and the generations change only under   *)
(* the lock, which the others then do not hold.                            *)
LEMMA OthersKeep ==
  ASSUME CacheInv, NEW p \in Processes, DOMAIN builds \subseteq DOMAIN builds',
         pc[p] \in Locked \/ UNCHANGED <<generations, current>>,
         \A q \in Processes \ {p} : /\ pc'[q] = pc[q] /\ key'[q] = key[q]
                                    /\ rows'[q] = rows[q] /\ made'[q] = made[q]
  PROVE  \A q \in Processes \ {p} : ProcessInv(q)'
<1> SUFFICES ASSUME NEW q \in Processes \ {p} PROVE ProcessInv(q)'
  OBVIOUS
<1>1. ProcessInv(q) /\ pc'[q] = pc[q] /\ key'[q] = key[q] /\ rows'[q] = rows[q] /\ made'[q] = made[q]
  BY DEF CacheInv
<1>2. CASE pc[p] \in Locked
  <2>1. pc[q] \notin Locked
    BY <1>2 DEF CacheInv, LockHeld
  <2> QED BY <1>1, <2>1 DEF ProcessInv, Locked
<1>3. CASE UNCHANGED <<generations, current>>
  BY <1>1, <1>3 DEF ProcessInv, Coherent, OwnGeneration
<1> QED BY <1>2, <1>3

(* Reading the toolchain changes only the private key. *)
LEMMA CollectInv ==
  ASSUME CacheInv, NEW p \in Processes, CollectToolchain(p)
  PROVE  CacheInv'
<1> USE DEF CacheInv, CollectToolchain, Goto, world, disk
<1>1. key'[p] \in Fingerprint
  BY DEF CacheTypeOK, Files, Fingerprint
<1>2. CacheTypeOK'
  BY <1>1 DEF CacheTypeOK, Labels, Locked
<1>3. LockHeld'
  BY DEF LockHeld, Locked, CacheTypeOK
<1>4. EntriesCoherent' /\ GenerationsCoherent'
  BY DEF EntriesCoherent, GenerationsCoherent, Coherent
<1>5. \A q \in Processes \ {p} : ProcessInv(q)'
  <2>1. \A q \in Processes \ {p} : /\ pc'[q] = pc[q] /\ key'[q] = key[q]
                                   /\ rows'[q] = rows[q] /\ made'[q] = made[q]
    BY DEF CacheTypeOK
  <2> QED BY <2>1, OthersKeep DEF Locked
<1>6. ProcessInv(p)'
  BY DEF ProcessInv, CacheTypeOK
<1> QED BY <1>2, <1>3, <1>4, <1>5, <1>6

(* The fingerprint is completed before the lock is asked for. *)
LEMMA FingerprintInv ==
  ASSUME CacheInv, NEW p \in Processes, IdentityFingerprint(p)
  PROVE  CacheInv'
<1> USE DEF CacheInv, IdentityFingerprint, Turn, Goto, world, disk
<1>1. key'[p] \in Fingerprint
  BY DEF CacheTypeOK, Files, Fingerprint
<1>2. CacheTypeOK'
  BY <1>1 DEF CacheTypeOK, Labels, Locked
<1>3. LockHeld'
  BY DEF LockHeld, Locked, CacheTypeOK
<1>4. EntriesCoherent' /\ GenerationsCoherent'
  BY DEF EntriesCoherent, GenerationsCoherent, Coherent
<1>5. \A q \in Processes \ {p} : ProcessInv(q)'
  <2>1. \A q \in Processes \ {p} : /\ pc'[q] = pc[q] /\ key'[q] = key[q]
                                   /\ rows'[q] = rows[q] /\ made'[q] = made[q]
    BY DEF CacheTypeOK
  <2> QED BY <2>1, OthersKeep DEF Locked
<1>6. ProcessInv(p)'
  BY DEF ProcessInv, CacheTypeOK
<1> QED BY <1>2, <1>3, <1>4, <1>5, <1>6

(* The lock is taken only when nobody holds it. *)
LEMMA LockInv ==
  ASSUME CacheInv, NEW p \in Processes, Lock(p)
  PROVE  CacheInv'
<1> USE DEF CacheInv, Lock, LockFree, Turn, Goto, world, disk, private
<1>2. CacheTypeOK'
  BY DEF CacheTypeOK, Labels, Locked
<1>3. LockHeld'
  BY DEF LockHeld, Locked, CacheTypeOK
<1>4. EntriesCoherent' /\ GenerationsCoherent'
  BY DEF EntriesCoherent, GenerationsCoherent, Coherent
<1>5. \A q \in Processes \ {p} : ProcessInv(q)'
  <2>1. \A q \in Processes \ {p} : /\ pc'[q] = pc[q] /\ key'[q] = key[q]
                                   /\ rows'[q] = rows[q] /\ made'[q] = made[q]
    BY DEF CacheTypeOK
  <2> QED BY <2>1, OthersKeep DEF Locked
<1>6. ProcessInv(p)'
  BY DEF ProcessInv, CacheTypeOK
<1> QED BY <1>2, <1>3, <1>4, <1>5, <1>6

(* A verified entry gives its archives as rows; a bad one is removed. *)
LEMMA EntryInv ==
  ASSUME CacheInv, NEW p \in Processes, Entry(p)
  PROVE  CacheInv'
<1> DEFINE hit == key[p] \in DOMAIN entries /\ VerifyManifest(entries[key[p]], key[p])
<1> USE DEF CacheInv, Turn, Goto, world
<1>0. /\ pc[p] = "ENTRY" /\ key[p] \in Fingerprint /\ made[p] = << >>
      /\ UNCHANGED <<file, holders, builds, generations, current, key, made>>
  BY DEF Entry, CacheTypeOK, ProcessInv
<1>1. /\ pc' = [pc EXCEPT ![p] = IF hit THEN "SELECT" ELSE "BUILD"]
      /\ rows' = IF hit THEN [rows EXCEPT ![p] = entries[key[p]].archives] ELSE rows
      /\ entries' = IF hit THEN entries ELSE [k \in DOMAIN entries \ {key[p]} |-> entries[k]]
  BY DEF Entry
<1>2. hit => /\ entries[key[p]].archives \in [1 .. 2 -> Nat]
             /\ Coherent(entries[key[p]].archives)
  BY DEF CacheTypeOK, EntriesCoherent, VerifyManifest, EntryRecord
<1>3. entries' \in [DOMAIN entries' -> EntryRecord]
  BY <1>1 DEF CacheTypeOK
<1>4. CacheTypeOK'
  BY <1>0, <1>1, <1>2, <1>3 DEF CacheTypeOK, Labels, Locked
<1>5. LockHeld'
  BY <1>0, <1>1 DEF LockHeld, Locked, CacheTypeOK
<1>6. EntriesCoherent' /\ GenerationsCoherent'
  BY <1>0, <1>1 DEF EntriesCoherent, GenerationsCoherent, Coherent
<1>7. \A q \in Processes \ {p} : ProcessInv(q)'
  <2>1. \A q \in Processes \ {p} : pc'[q] = pc[q] /\ rows'[q] = rows[q]
    BY <1>1 DEF CacheTypeOK
  <2> QED BY <1>0, <2>1, OthersKeep
<1>8. ProcessInv(p)'
  <2>1. CASE hit
    <3>1. pc'[p] = "SELECT" /\ rows'[p] = entries[key[p]].archives
      BY <2>1, <1>1 DEF CacheTypeOK
    <3> QED BY <2>1, <3>1, <1>0, <1>2 DEF ProcessInv, Coherent
  <2>2. CASE ~hit
    <3>1. pc'[p] = "BUILD"
      BY <2>2, <1>1 DEF CacheTypeOK
    <3> QED BY <3>1 DEF ProcessInv
  <2> QED BY <2>1, <2>2
<1> QED BY <1>4, <1>5, <1>6, <1>7, <1>8

(* A build works on private state, and leaves the lock when it fails. *)
LEMMA RunBuilderInv ==
  ASSUME CacheInv, NEW p \in Processes, RunBuilder(p)
  PROVE  CacheInv'
<1> USE DEF CacheInv, Turn, Goto, Leave, world, disk, private
<1>0. /\ key[p] \in Fingerprint /\ pc[p] \in {"BUILD", "MAKE"} /\ made[p] \in Seq(Nat)
      /\ UNCHANGED <<file, builds, entries, generations, current, key, rows>>
  BY DEF CacheTypeOK, RunBuilder
<1>1. file["tools"] \in Nat /\ file["rtl"] \in Nat /\ file["frontend"] \in Nat
  BY DEF CacheTypeOK, Files, Revision
<1>2. PICK m \in Seq(Nat), l \in {"MAKE", "PUBLISH", "FAILED"} :
        /\ made' = [made EXCEPT ![p] = m]
        /\ pc' = [pc EXCEPT ![p] = l]
        /\ holders' = IF l = "FAILED" THEN holders \ {p} ELSE holders
  <2>1. CASE pc[p] = "BUILD"
    <3>1. <<file["tools"], file["rtl"]>> \in Seq(Nat)
      BY <1>1
    <3> QED BY <2>1, <3>1 DEF RunBuilder
  <2>2. CASE pc'[p] = "PUBLISH"
    <3>1. Append(made[p], file["frontend"]) \in Seq(Nat)
      BY <1>0, <1>1
    <3>2. pc[p] = "MAKE" /\ pc' = [pc EXCEPT ![p] = "PUBLISH"]
      BY <2>2 DEF RunBuilder, CacheTypeOK
    <3> QED BY <2>2, <3>1, <3>2 DEF RunBuilder, CacheTypeOK
  <2>3. CASE pc[p] = "MAKE" /\ pc'[p] # "PUBLISH"
    <3>1. pc' = [pc EXCEPT ![p] = "FAILED"] /\ holders' = holders \ {p} /\ made' = made
      BY <2>3 DEF RunBuilder, CacheTypeOK
    <3>2. made' = [made EXCEPT ![p] = made[p]]
      BY <3>1 DEF CacheTypeOK
    <3> QED BY <1>0, <3>1, <3>2
  <2> QED BY <1>0, <2>1, <2>2, <2>3
<1>3. CacheTypeOK'
  BY <1>0, <1>2 DEF CacheTypeOK, Labels, Locked
<1>4. LockHeld'
  BY <1>0, <1>2 DEF LockHeld, Locked, CacheTypeOK
<1>5. EntriesCoherent' /\ GenerationsCoherent'
  BY <1>0 DEF EntriesCoherent, GenerationsCoherent, Coherent
<1>6. \A q \in Processes \ {p} : ProcessInv(q)'
  <2>1. \A q \in Processes \ {p} : pc'[q] = pc[q] /\ made'[q] = made[q]
    BY <1>2 DEF CacheTypeOK
  <2> QED BY <1>0, <2>1, OthersKeep
<1>7. ProcessInv(p)'
  <2>1. pc'[p] \in {"MAKE", "PUBLISH", "FAILED"}
    BY <1>2 DEF CacheTypeOK
  <2> QED BY <2>1 DEF ProcessInv
<1> QED BY <1>3, <1>4, <1>5, <1>6, <1>7

(* A finished build is published as an entry of two archives of one build. *)
LEMMA PublishInv ==
  ASSUME CacheInv, NEW p \in Processes, PublishEntry(p)
  PROVE  CacheInv'
<1> DEFINE n == Len(builds) + 1
           e == [fp |-> key[p], archives |-> <<n, n>>, damaged |-> FALSE]
<1> USE DEF CacheInv, Turn, Goto, Leave, world
<1>0. /\ pc[p] = "PUBLISH" /\ key[p] \in Fingerprint /\ made[p] \in Seq(Nat)
      /\ builds \in Seq(Seq(Nat)) /\ made' = [made EXCEPT ![p] = << >>]
      /\ UNCHANGED <<file, generations, current, key>>
  BY DEF PublishEntry, CacheTypeOK
<1>1. CASE file["rtl"] = key[p].contract
  <2>1. /\ builds' = Append(builds, made[p])
        /\ entries' = [k \in DOMAIN entries \cup {key[p]} |-> IF k = key[p] THEN e ELSE entries[k]]
        /\ rows' = [rows EXCEPT ![p] = <<n, n>>]
        /\ pc' = [pc EXCEPT ![p] = "SELECT"] /\ holders' = holders
    BY <1>1 DEF PublishEntry
  <2>2. /\ builds' \in Seq(Seq(Nat)) /\ n \in Nat /\ n \in DOMAIN builds'
        /\ DOMAIN builds \subseteq DOMAIN builds'
    BY <1>0, <2>1
  <2>3. /\ <<n, n>> \in [1 .. 2 -> Nat] /\ e \in EntryRecord
        /\ <<n, n>>[1] = n /\ <<n, n>>[2] = n
    BY <1>0, <2>2 DEF EntryRecord
  <2>4. CacheTypeOK'
    BY <1>0, <2>1, <2>2, <2>3 DEF CacheTypeOK, Labels, Locked
  <2>5. EntriesCoherent' /\ GenerationsCoherent'
    BY <1>0, <2>1, <2>2, <2>3 DEF EntriesCoherent, GenerationsCoherent, Coherent
  <2>6. \A q \in Processes \ {p} : ProcessInv(q)'
    <3>1. \A q \in Processes \ {p} : pc'[q] = pc[q] /\ made'[q] = made[q] /\ rows'[q] = rows[q]
      BY <1>0, <2>1 DEF CacheTypeOK
    <3> QED BY <1>0, <2>2, <3>1, OthersKeep DEF Locked
  <2>7. ProcessInv(p)'
    <3>1. pc'[p] = "SELECT" /\ made'[p] = << >> /\ rows'[p] = <<n, n>>
      BY <1>0, <2>1 DEF CacheTypeOK
    <3> QED BY <2>2, <2>3, <3>1 DEF ProcessInv, Coherent
  <2> QED BY <1>0, <2>1, <2>4, <2>5, <2>6, <2>7 DEF LockHeld, Locked, CacheTypeOK
<1>2. CASE file["rtl"] # key[p].contract
  <2>1. /\ pc' = [pc EXCEPT ![p] = "FAILED"] /\ holders' = holders \ {p}
        /\ UNCHANGED <<builds, entries, rows>>
    BY <1>2 DEF PublishEntry
  <2>2. CacheTypeOK'
    BY <1>0, <2>1 DEF CacheTypeOK, Labels
  <2>3. EntriesCoherent' /\ GenerationsCoherent'
    BY <1>0, <2>1 DEF EntriesCoherent, GenerationsCoherent, Coherent
  <2>4. \A q \in Processes \ {p} : ProcessInv(q)'
    <3>1. \A q \in Processes \ {p} : pc'[q] = pc[q] /\ made'[q] = made[q]
      BY <1>0, <2>1 DEF CacheTypeOK
    <3> QED BY <1>0, <2>1, <3>1, OthersKeep DEF Locked
  <2>5. ProcessInv(p)'
    BY <2>1 DEF ProcessInv, CacheTypeOK
  <2> QED BY <1>0, <2>1, <2>2, <2>3, <2>4, <2>5 DEF LockHeld, Locked, CacheTypeOK
<1> QED BY <1>1, <1>2

(* A pointer is accepted when its generation has the own fingerprint. *)
LEMMA SelectInv ==
  ASSUME CacheInv, NEW p \in Processes, Select(p)
  PROVE  CacheInv'
<1> USE DEF CacheInv, Select, Resolves, VerifyManifest, Turn, Goto, Leave, world, disk, private
<1>2. CacheTypeOK'
  BY DEF CacheTypeOK, Labels, Locked
<1>3. LockHeld'
  BY ZenonT(60) DEF LockHeld, Locked, CacheTypeOK
<1>4. EntriesCoherent' /\ GenerationsCoherent'
  BY DEF EntriesCoherent, GenerationsCoherent, Coherent
<1>5. \A q \in Processes \ {p} : ProcessInv(q)'
  <2>1. \A q \in Processes \ {p} : /\ pc'[q] = pc[q] /\ key'[q] = key[q]
                                   /\ rows'[q] = rows[q] /\ made'[q] = made[q]
    BY DEF CacheTypeOK
  <2> QED BY <2>1, OthersKeep DEF Locked
<1>6. ProcessInv(p)'
  BY SMTT(40) DEF ProcessInv, CacheTypeOK, Coherent, OwnGeneration
<1> QED BY <1>2, <1>3, <1>4, <1>5, <1>6

(* An archive is copied only if it equals its verified row. *)
LEMMA CopyInv ==
  ASSUME CacheInv, NEW p \in Processes, Copy(p)
  PROVE  CacheInv'
<1> DEFINE member == IF key[p] \in DOMAIN entries THEN entries[key[p]].archives[Len(made[p]) + 1] ELSE None
           good == member /= None /\ CopyVerified(p, member)
           next == IF good THEN IF Len(made[p]) = 1 THEN "GENERATION" ELSE "COPY" ELSE "FAILED"
           copied == IF good THEN Append(made[p], member) ELSE made[p]
<1> USE DEF CacheInv, Turn, Goto, Leave, world, disk
<1>0. /\ pc[p] = "COPY" /\ key[p] \in Fingerprint /\ made[p] \in Seq(Nat)
      /\ rows[p] \in [1 .. 2 -> Nat] /\ Coherent(rows[p])
      /\ Len(made[p]) \in 0 .. 1 /\ \A i \in 1 .. Len(made[p]) : made[p][i] = rows[p][i]
  BY DEF Copy, CacheTypeOK, ProcessInv
<1>1. /\ made' = [made EXCEPT ![p] = copied]
      /\ pc' = [pc EXCEPT ![p] = next]
      /\ holders' = IF good THEN holders ELSE holders \ {p}
      /\ UNCHANGED <<file, builds, entries, generations, current, key, rows>>
  BY DEF Copy, CacheTypeOK
<1>2. good => member = rows[p][Len(made[p]) + 1] /\ member \in Nat
  BY <1>0 DEF CopyVerified
<1>3. good => /\ copied \in Seq(Nat) /\ Len(copied) = Len(made[p]) + 1
              /\ \A i \in 1 .. Len(made[p]) + 1 : copied[i] = rows[p][i]
  BY <1>0, <1>2
<1> HIDE DEF member, good, copied
<1>4. CacheTypeOK'
  BY <1>0, <1>1, <1>3 DEF CacheTypeOK, Labels, Locked, copied
<1>5. LockHeld'
  BY <1>0, <1>1 DEF LockHeld, Locked, CacheTypeOK
<1>6. EntriesCoherent' /\ GenerationsCoherent'
  BY <1>1 DEF EntriesCoherent, GenerationsCoherent, Coherent
<1>7. \A q \in Processes \ {p} : ProcessInv(q)'
  <2>1. \A q \in Processes \ {p} : pc'[q] = pc[q] /\ made'[q] = made[q]
    BY <1>1 DEF CacheTypeOK
  <2> QED BY <1>0, <1>1, <2>1, OthersKeep DEF Locked
<1>8. ProcessInv(p)'
  <2>1. pc'[p] = next /\ made'[p] = copied
    BY <1>1 DEF CacheTypeOK
  <2>2. CASE good /\ Len(made[p]) = 1
    <3>1. copied[1] = rows[p][1] /\ copied[2] = rows[p][2]
      BY <1>3, <2>2
    <3> QED BY <1>0, <1>1, <2>1, <2>2, <3>1 DEF ProcessInv, Coherent
  <2>3. CASE good /\ Len(made[p]) = 0
    <3>1. Len(copied) = 1 /\ \A i \in 1 .. 1 : copied[i] = rows[p][i]
      <4>1. Len(copied) = 0 + 1 /\ \A i \in 1 .. 0 + 1 : copied[i] = rows[p][i]
        BY <1>3, <2>3
      <4> QED BY <4>1
    <3>2. pc'[p] = "COPY" /\ made'[p] = copied /\ rows'[p] = rows[p]
      BY <1>1, <2>1, <2>3
    <3>3. Coherent(rows[p])' /\ rows'[p] \in [1 .. 2 -> Nat]
      BY <1>0, <1>1 DEF Coherent
    <3> HIDE DEF CacheInv, next
    <3>4. Len(made'[p]) = 1 /\ \A i \in 1 .. 1 : made'[p][i] = rows'[p][i]
      BY <3>1, <3>2
    <3>5. Len(made'[p]) \in 0 .. 1 /\ \A i \in 1 .. Len(made'[p]) : made'[p][i] = rows'[p][i]
      BY <3>4
    <3> QED BY <3>2, <3>3, <3>5 DEF ProcessInv
  <2>4. CASE ~good
    BY <2>1, <2>4 DEF ProcessInv
  <2> QED BY <1>0, <2>2, <2>3, <2>4
<1> QED BY <1>4, <1>5, <1>6, <1>7, <1>8

(* A new generation is made of the two copies. *)
LEMMA GenerationInv ==
  ASSUME CacheInv, NEW p \in Processes, Generation(p)
  PROVE  CacheInv'
<1> DEFINE g == [fp |-> key[p], archives |-> made[p], damaged |-> FALSE, present |-> TRUE]
<1> USE DEF CacheInv, Turn, Goto, world
<1>0. /\ pc[p] = "GENERATION" /\ key[p] \in Fingerprint /\ made[p] \in Seq(Nat) /\ Coherent(made[p])
      /\ generations' = Append(generations, g) /\ generations \in Seq(GenerationRecord)
      /\ UNCHANGED <<file, holders, builds, entries, current, key, rows>>
  BY DEF Generation, CacheTypeOK, ProcessInv
<1>1. g \in GenerationRecord
  BY <1>0 DEF GenerationRecord
<1>2. /\ generations' \in Seq(GenerationRecord) /\ Len(generations') \in Nat
      /\ DOMAIN generations' = DOMAIN generations \cup {Len(generations')}
      /\ \A i \in DOMAIN generations : generations'[i] = generations[i]
      /\ generations'[Len(generations')] = g
  BY <1>0, <1>1
<1>3. /\ made' = [made EXCEPT ![p] = <<Len(generations')>>]
      /\ pc' = [pc EXCEPT ![p] = "SWITCH"]
  BY DEF Generation
<1>4. CacheTypeOK'
  BY <1>0, <1>2, <1>3 DEF CacheTypeOK, Labels, Locked
<1>5. LockHeld'
  BY <1>0, <1>3 DEF LockHeld, Locked, CacheTypeOK
<1>6. EntriesCoherent' /\ GenerationsCoherent'
  BY <1>0, <1>2 DEF EntriesCoherent, GenerationsCoherent, Coherent
<1>7. \A q \in Processes \ {p} : ProcessInv(q)'
  <2>1. \A q \in Processes \ {p} : pc'[q] = pc[q] /\ made'[q] = made[q]
    BY <1>3 DEF CacheTypeOK
  <2> QED BY <1>0, <2>1, OthersKeep DEF Locked
<1>8. ProcessInv(p)'
  <2>1. pc'[p] = "SWITCH" /\ made'[p][1] = Len(generations')
    BY <1>3 DEF CacheTypeOK
  <2> QED BY <1>0, <1>2, <2>1 DEF ProcessInv, OwnGeneration
<1> QED BY <1>4, <1>5, <1>6, <1>7, <1>8

(* The pointer is switched to the own generation. *)
LEMMA SwitchInv ==
  ASSUME CacheInv, NEW p \in Processes, Switch(p)
  PROVE  CacheInv'
<1> USE DEF CacheInv, Switch, Turn, Goto, world, private
<1>1. made[p][1] \in DOMAIN generations
  BY DEF ProcessInv, OwnGeneration
<1>2. CacheTypeOK'
  BY <1>1 DEF CacheTypeOK, Labels, Locked
<1>3. LockHeld'
  BY DEF LockHeld, Locked, CacheTypeOK
<1>4. EntriesCoherent' /\ GenerationsCoherent'
  BY DEF EntriesCoherent, GenerationsCoherent, Coherent
<1>5. \A q \in Processes \ {p} : ProcessInv(q)'
  <2>1. \A q \in Processes \ {p} : /\ pc'[q] = pc[q] /\ key'[q] = key[q]
                                   /\ rows'[q] = rows[q] /\ made'[q] = made[q]
    BY DEF CacheTypeOK
  <2> QED BY <2>1, OthersKeep DEF Locked
<1>6. ProcessInv(p)'
  BY DEF ProcessInv, CacheTypeOK, OwnGeneration
<1> QED BY <1>2, <1>3, <1>4, <1>5, <1>6

(* The switch is noted. *)
LEMMA SwitchedInv ==
  ASSUME CacheInv, NEW p \in Processes, Switched(p)
  PROVE  CacheInv'
<1> USE DEF CacheInv, Switched, Turn, Goto, world, disk, private
<1>2. CacheTypeOK'
  BY DEF CacheTypeOK, Labels, Locked
<1>3. LockHeld'
  BY DEF LockHeld, Locked, CacheTypeOK
<1>4. EntriesCoherent' /\ GenerationsCoherent'
  BY DEF EntriesCoherent, GenerationsCoherent, Coherent
<1>5. \A q \in Processes \ {p} : ProcessInv(q)'
  <2>1. \A q \in Processes \ {p} : /\ pc'[q] = pc[q] /\ key'[q] = key[q]
                                   /\ rows'[q] = rows[q] /\ made'[q] = made[q]
    BY DEF CacheTypeOK
  <2> QED BY <2>1, OthersKeep DEF Locked
<1>6. ProcessInv(p)'
  BY DEF ProcessInv, CacheTypeOK, OwnGeneration
<1> QED BY <1>2, <1>3, <1>4, <1>5, <1>6

(* An ensure that returns releases the lock. *)
LEMMA ReturnInv ==
  ASSUME CacheInv, NEW p \in Processes, Return(p)
  PROVE  CacheInv'
<1> USE DEF CacheInv, Return, Turn, Goto, Leave, world, disk, private
<1>2. CacheTypeOK'
  BY DEF CacheTypeOK, Labels, Locked
<1>3. LockHeld'
  BY DEF LockHeld, Locked, CacheTypeOK
<1>4. EntriesCoherent' /\ GenerationsCoherent'
  BY DEF EntriesCoherent, GenerationsCoherent, Coherent
<1>5. \A q \in Processes \ {p} : ProcessInv(q)'
  <2>1. \A q \in Processes \ {p} : /\ pc'[q] = pc[q] /\ key'[q] = key[q]
                                   /\ rows'[q] = rows[q] /\ made'[q] = made[q]
    BY DEF CacheTypeOK
  <2> QED BY <2>1, OthersKeep DEF Locked
<1>6. ProcessInv(p)'
  BY DEF ProcessInv, CacheTypeOK
<1> QED BY <1>2, <1>3, <1>4, <1>5, <1>6

(* Only the lock holder removes a generation, and only its own. *)
LEMMA InterruptInv ==
  ASSUME CacheInv, NEW p \in Processes, Interrupt(p)
  PROVE  CacheInv'
<1> USE DEF CacheInv, Interrupt, Goto, Leave, private
<1>0. pc[p] \in Locked
  BY DEF LockHeld
<1>1. /\ generations' \in Seq(GenerationRecord) /\ DOMAIN generations' = DOMAIN generations
      /\ \A g \in DOMAIN generations : generations'[g].archives = generations[g].archives
  <2>1. CASE pc[p] \in {"SWITCH", "SWITCHED"}
    <3> DEFINE m == made[p][1]
               r == [generations[m] EXCEPT !.present = FALSE]
    <3>1. m \in DOMAIN generations /\ generations \in Seq(GenerationRecord)
      BY <2>1 DEF ProcessInv, OwnGeneration, CacheTypeOK
    <3>2. generations' = [generations EXCEPT ![m] = r]
      BY <2>1
    <3>3. generations[m] \in GenerationRecord
      BY <3>1
    <3>4. r \in GenerationRecord /\ r.archives = generations[m].archives
      BY <3>3 DEF GenerationRecord
    <3> HIDE DEF m, r
    <3>5. /\ generations \in [1 .. Len(generations) -> GenerationRecord] /\ Len(generations) \in Nat
          /\ DOMAIN generations' = DOMAIN generations
      BY <3>1, <3>2
    <3>6. generations' \in [1 .. Len(generations) -> GenerationRecord]
      BY <3>1, <3>2, <3>4, <3>5
    <3>7. generations' \in Seq(GenerationRecord)
      BY <3>5, <3>6
    <3>8. \A g \in DOMAIN generations : generations'[g].archives = generations[g].archives
      BY <3>1, <3>2, <3>4
    <3> QED BY <3>5, <3>7, <3>8
  <2>2. CASE pc[p] \notin {"SWITCH", "SWITCHED"}
    BY <2>2 DEF CacheTypeOK
  <2> QED BY <2>1, <2>2
<1>2. CacheTypeOK'
  BY <1>1 DEF CacheTypeOK, Labels, Locked
<1>3. LockHeld'
  BY DEF LockHeld, Locked, CacheTypeOK
<1>4. EntriesCoherent' /\ GenerationsCoherent'
  BY <1>1 DEF EntriesCoherent, GenerationsCoherent, Coherent
<1>5. \A q \in Processes \ {p} : ProcessInv(q)'
  <2>1. \A q \in Processes \ {p} : /\ pc'[q] = pc[q] /\ key'[q] = key[q]
                                   /\ rows'[q] = rows[q] /\ made'[q] = made[q]
    BY DEF CacheTypeOK
  <2> QED BY <2>1, <1>0, OthersKeep
<1>6. ProcessInv(p)'
  BY DEF ProcessInv, CacheTypeOK
<1> QED BY <1>2, <1>3, <1>4, <1>5, <1>6

(* A kill releases the lock and changes no file. *)
LEMMA KillInv ==
  ASSUME CacheInv, NEW p \in Processes, Kill(p)
  PROVE  CacheInv'
<1> USE DEF CacheInv, Kill, Goto, Leave, disk, private
<1>2. CacheTypeOK'
  BY DEF CacheTypeOK, Labels, Locked
<1>3. LockHeld'
  BY DEF LockHeld, Locked, CacheTypeOK
<1>4. EntriesCoherent' /\ GenerationsCoherent'
  BY DEF EntriesCoherent, GenerationsCoherent, Coherent
<1>5. \A q \in Processes \ {p} : ProcessInv(q)'
  <2>1. \A q \in Processes \ {p} : /\ pc'[q] = pc[q] /\ key'[q] = key[q]
                                   /\ rows'[q] = rows[q] /\ made'[q] = made[q]
    BY DEF CacheTypeOK
  <2> QED BY <2>1, OthersKeep DEF Locked
<1>6. ProcessInv(p)'
  BY DEF ProcessInv, CacheTypeOK
<1> QED BY <1>2, <1>3, <1>4, <1>5, <1>6

(* A damaged entry is marked, and a damaged generation keeps its archives' *)
(* numbers and its fingerprint.                                            *)
LEMMA TamperInv ==
  ASSUME CacheInv, Tamper
  PROVE  CacheInv'
<1> USE DEF CacheInv, private
<1>0. UNCHANGED <<file, holders, builds, current, pc, key, rows, made>>
  BY DEF Tamper
<1>1. ASSUME NEW k \in DOMAIN entries, NEW n \in 1 .. 2, generations' = generations,
             entries' = [entries EXCEPT ![k].damaged = TRUE, ![k].archives[n] = 0]
      PROVE  CacheInv'
  <2>1. /\ entries' \in [DOMAIN entries -> EntryRecord] /\ DOMAIN entries' = DOMAIN entries
        /\ entries'[k].damaged /\ \A j \in DOMAIN entries : j # k => entries'[j] = entries[j]
    <3> DEFINE e == [entries[k] EXCEPT !.damaged = TRUE, !.archives = [entries[k].archives EXCEPT ![n] = 0]]
    <3>1. entries' = [entries EXCEPT ![k] = e]
      BY <1>1 DEF CacheTypeOK, EntryRecord
    <3>2. e \in EntryRecord /\ e.damaged
      BY DEF CacheTypeOK, EntryRecord
    <3> HIDE DEF e
    <3> QED BY <3>1, <3>2 DEF CacheTypeOK
  <2>2. CacheTypeOK'
    BY <1>0, <1>1, <2>1 DEF CacheTypeOK
  <2>3. EntriesCoherent' /\ GenerationsCoherent' /\ LockHeld'
    BY <1>0, <1>1, <2>1 DEF EntriesCoherent, GenerationsCoherent, Coherent, LockHeld
  <2>4. ASSUME NEW p \in Processes PROVE ProcessInv(p)'
    BY <1>0, <1>1 DEF ProcessInv, Coherent, OwnGeneration
  <2> QED BY <2>2, <2>3, <2>4
<1>2. ASSUME NEW g \in DOMAIN generations, entries' = entries,
             generations' = [generations EXCEPT ![g].damaged = TRUE]
      PROVE  CacheInv'
  <2>1. /\ generations' \in Seq(GenerationRecord) /\ DOMAIN generations' = DOMAIN generations
        /\ \A i \in DOMAIN generations : /\ generations'[i].archives = generations[i].archives
                                         /\ generations'[i].present = generations[i].present
                                         /\ generations'[i].fp = generations[i].fp
    <3> DEFINE d == [generations[g] EXCEPT !.damaged = TRUE]
    <3>1. generations' = [generations EXCEPT ![g] = d] /\ generations \in Seq(GenerationRecord)
      BY <1>2 DEF CacheTypeOK
    <3>2. /\ d \in GenerationRecord /\ d.archives = generations[g].archives
          /\ d.present = generations[g].present /\ d.fp = generations[g].fp
      <4>1. generations[g] \in GenerationRecord
        BY <3>1
      <4> QED BY <4>1 DEF GenerationRecord
    <3> HIDE DEF d
    <3> QED BY <3>1, <3>2
  <2>2. CacheTypeOK'
    BY <1>0, <1>2, <2>1 DEF CacheTypeOK
  <2>3. EntriesCoherent' /\ GenerationsCoherent' /\ LockHeld'
    BY <1>0, <1>2, <2>1 DEF EntriesCoherent, GenerationsCoherent, Coherent, LockHeld
  <2>4. ASSUME NEW p \in Processes PROVE ProcessInv(p)'
    BY <1>0, <2>1 DEF ProcessInv, Coherent, OwnGeneration
  <2> QED BY <2>2, <2>3, <2>4
<1> QED BY <1>1, <1>2 DEF Tamper

(* A file is edited behind the back of every process. *)
LEMMA EditInv ==
  ASSUME CacheInv, NEW f \in Files, Edit(f)
  PROVE  CacheInv'
<1> USE DEF CacheInv, Edit, disk, private
<1>0. file' \in [Files -> Revision]
  <2>1. file \in [Files -> Revision] /\ file[f] \in Revision
    BY DEF CacheTypeOK
  <2>2. 1 - file[f] \in Revision
    BY <2>1 DEF Revision
  <2> QED BY <2>1, <2>2
<1>1. CacheTypeOK'
  BY <1>0 DEF CacheTypeOK
<1>2. EntriesCoherent' /\ GenerationsCoherent' /\ LockHeld'
  BY DEF EntriesCoherent, GenerationsCoherent, Coherent, LockHeld
<1>3. ASSUME NEW p \in Processes PROVE ProcessInv(p)'
  BY DEF ProcessInv, Coherent, OwnGeneration
<1> QED BY <1>1, <1>2, <1>3

(* Every step preserves the invariant. *)
LEMMA CacheStep == CacheInv /\ [CacheNext]_cacheVars => CacheInv'
<1> SUFFICES ASSUME CacheInv, [CacheNext]_cacheVars PROVE CacheInv'
  OBVIOUS
<1>1. ASSUME NEW p \in Processes, Ensure(p) PROVE CacheInv'
  BY <1>1, CollectInv, FingerprintInv, LockInv, EntryInv, RunBuilderInv, PublishInv, SelectInv, CopyInv,
     GenerationInv, SwitchInv, SwitchedInv, ReturnInv DEF Ensure
<1>2. CASE UNCHANGED cacheVars
  <2>1. ASSUME NEW p \in Processes PROVE ProcessInv(p)'
    BY <1>2 DEF CacheInv, cacheVars, ProcessInv, Coherent, OwnGeneration
  <2>2. CacheTypeOK' /\ LockHeld' /\ EntriesCoherent' /\ GenerationsCoherent'
    BY <1>2 DEF CacheInv, cacheVars, CacheTypeOK, LockHeld, EntriesCoherent, GenerationsCoherent, Coherent
  <2> QED BY <2>1, <2>2 DEF CacheInv
<1> QED BY <1>1, <1>2, InterruptInv, KillInv, EditInv, TamperInv DEF CacheNext

(* The lock, the verified rows and the private copies hold together in     *)
(* every reachable state of real_lib_cache.py and real_lib_materialize.py. *)
THEOREM CacheInvariant == CacheSpec => []CacheInv
BY CacheInitInv, CacheStep, PTL DEF CacheSpec

(* What `current` resolves to is two undamaged archives of one build, for  *)
(* every number of processes, edits, damages, interrupts and kills         *)
(* (materialize and the rename of a finished directory).                   *)
THEOREM CacheSelectsCoherent == CacheSpec => []SelectedCoherent
<1>1. CacheInv => SelectedCoherent
  BY DEF CacheInv, CacheTypeOK, GenerationsCoherent, Coherent, SelectedCoherent, Resolves
<1> QED BY <1>1, CacheInvariant, PTL

(* An ensure that is about to return has a generation of its own           *)
(* fingerprint selected: nobody else switches the pointer or removes the   *)
(* generation while it holds the lock of the identity.                     *)
THEOREM CacheEnsureSelects == CacheSpec => []EnsureSelects
<1>1. CacheInv => EnsureSelects
  BY CacheAssumption DEF CacheInv, CacheTypeOK, ProcessInv, OwnGeneration, EnsureSelects, Resolves
<1> QED BY <1>1, CacheInvariant, PTL

(***************************************************************************)
(* GemminiBuild: the inductive invariant                                   *)
(***************************************************************************)
Rtl == [source : Nat, whole : BOOLEAN]

Checkout == (Roots \X Nat) \cup {Missing}

Library == [source : Nat, llama : Checkout, whole : BOOLEAN]

Test == [rtl : Rtl \cup {Missing}, lib : Library \cup {Missing}, whole : BOOLEAN]

Inputs == [source : Nat, llama : Checkout]

ArtifactRecord == [rtl : Rtl \cup {Missing}, test : Test \cup {Missing}, lib : Library \cup {Missing}, aware : Test \cup {Missing}]

DocumentRecord == [passed : BOOLEAN, log : {"short", "full"}, root : Roots \cup {Missing}]

Directory == [exists : BOOLEAN, rtl : Rtl \cup {Missing}, resolved : Checkout, inputs : Inputs \cup {Missing}, lib : Library \cup {Missing},
              aware : Test \cup {Missing}, audit : Library \cup {Missing}, test : Test \cup {Missing},
              log : [{"short", "full"} -> Test \cup {Missing}],
              binding : [inputs : Inputs, artifacts : ArtifactRecord] \cup {Missing}, doc : DocumentRecord \cup {Missing}]

Request == [stage : Stages \cup {"create"}, root : Roots \cup {Missing}, identity : Checkout, passed : BOOLEAN, plan : {"short", "full"}]

Package == [audit : Library \cup {Missing}, test : Test \cup {Missing}, source : Seq(Nat) \cup {Missing}, rtl : Rtl \cup {Missing},
            log : Test \cup {Missing}, llama : Checkout, lock : Checkout, sums : BOOLEAN, verified : BOOLEAN]

CommandNames == {"overlay", "elaborate", "lint", "configure", "build", "run_aware", "ctest", "audit", "compile", "run", "sbt_test", "vivado"}

BuildTypes ==
    /\ source \in Nat /\ llama \in [Roots -> Nat]
    /\ phase \in {"idle", "parsed", "planned", "running", "collect", "copy", "lock", "archive"}
    /\ phase # "idle" => request \in Request
    /\ commands \in Seq(CommandNames)
    /\ fs \in Directory
    /\ pkg \in Package \cup {Missing} /\ archive \in Package \cup {Missing}
    /\ verdict \in {"none", "accepted", "refused"}

\* One run at a time: what a phase relies on is there, and only a run that is
\* under way changes the directory.
RunPhases ==
    /\ ~fs.exists => fs = Absent
    /\ phase = "running" => fs.exists /\ verdict = "none"
    /\ phase = "planned" /\ request.stage # "export" => fs = Absent
    /\ phase = "copy" => fs.doc \in DocumentRecord
    /\ phase \in {"copy", "lock", "archive"} => pkg \in Package /\ ~pkg.verified
    /\ phase \in {"parsed", "planned", "running"} => request.stage \in Stages

\* RTL is emitted once per directory, and everything that was tested was
\* tested with it.
TestedRtl ==
    /\ phase \in {"planned", "running"} =>
         /\ \A i \in DOMAIN commands : commands[i] = "elaborate" => fs.rtl = Missing
         /\ \A i, j \in DOMAIN commands : commands[i] = "elaborate" /\ commands[j] = "elaborate" => i = j
    /\ \A test \in {fs.test, fs.log["short"], fs.log["full"]} \ {Missing} : fs.rtl # Missing /\ test.rtl = fs.rtl

Packaging == {"copy", "lock", "archive"}

\* A package holds the log of a test of the RTL that it holds.
TestedPackages ==
    /\ pkg # Missing \/ phase \in Packaging =>
         /\ pkg.log # Missing => pkg.log.rtl = pkg.rtl
         /\ pkg.verified => pkg.log # Missing
    /\ archive # Missing => archive.log # Missing /\ archive.log.rtl = archive.rtl

HostSteps == <<"overlay", "elaborate", "lint", "configure", "build", "run_aware", "ctest", "audit", "compile", "run">>

\* The llama root of a request was at the version it was identified by, or an
\* earlier one.
Identified ==
    phase \in {"parsed", "planned", "running"} =>
        \/ request.root = Missing /\ request.identity = Missing
        \/ /\ request.root \in Roots /\ request.root # Missing
           /\ request.identity \in Roots \X Nat
           /\ request.identity[1] = request.root /\ request.identity[2] <= llama[request.root]

\* A host test that has not failed: k of its commands have run, each of them on
\* sources no older than the recorded inputs.
HostProgress(k) ==
    /\ Len(commands) = 10 - k /\ \A i \in 1 .. 10 - k : commands[i] = HostSteps[k + i]
    /\ fs.inputs \in Inputs /\ fs.inputs.llama = request.identity /\ fs.inputs.source <= source
    /\ k >= 2 => fs.rtl \in Rtl /\ fs.rtl.whole /\ fs.inputs.source <= fs.rtl.source /\ fs.rtl.source <= source
    /\ k >= 5 => /\ fs.lib \in Library /\ fs.lib.whole /\ fs.inputs.source <= fs.lib.source /\ fs.lib.source <= source
                 /\ request.root # Missing =>
                       /\ fs.lib.llama \in Roots \X Nat /\ fs.lib.llama[1] = request.root
                       /\ request.identity[2] <= fs.lib.llama[2] /\ fs.lib.llama[2] <= llama[request.root]
    /\ k >= 6 => fs.aware = [rtl |-> fs.rtl, lib |-> fs.lib, whole |-> TRUE]
    /\ k >= 9 => fs.test = [rtl |-> fs.rtl, lib |-> fs.lib, whole |-> TRUE]

HostTest ==
    /\ phase = "planned" /\ request.stage = "host-test" => commands = HostSteps
    /\ phase = "running" /\ request.stage = "host-test" /\ request.passed => \E k \in 0 .. 10 : HostProgress(k)

\* A sealed build was made from the inputs it is bound to.
MadeFrom(inputs, artifacts) ==
    /\ artifacts.rtl = [source |-> inputs.source, whole |-> TRUE]
    /\ artifacts.lib \in Library /\ artifacts.lib.source = inputs.source /\ artifacts.lib.whole
    /\ artifacts.test = [rtl |-> artifacts.rtl, lib |-> artifacts.lib, whole |-> TRUE]
    /\ artifacts.aware = artifacts.test
    /\ inputs.llama # Missing => artifacts.lib.llama = inputs.llama

Sealed == fs.binding # Missing => MadeFrom(fs.binding.inputs, fs.binding.artifacts)

BuildInv == BuildTypes /\ RunPhases /\ TestedRtl /\ TestedPackages /\ Identified /\ HostTest /\ Sealed /\ AcceptedBuildExact

(***************************************************************************)
(* What the commands of a build leave behind                               *)
(***************************************************************************)

\* A command of run_plan changes the artifact that it makes, from what is there,
\* and nothing else of the output directory.
LEMMA EffectOf ==
    ASSUME source \in Nat, llama \in [Roots -> Nat], request \in Request, fs \in Directory,
           NEW command \in CommandNames, NEW whole \in BOOLEAN
    PROVE  LET after == Effect(command, whole)
           IN  /\ after \in Directory
               /\ after.exists = fs.exists /\ after.resolved = fs.resolved /\ after.inputs = fs.inputs
               /\ after.binding = fs.binding /\ after.doc = fs.doc
               /\ after.rtl = IF command = "elaborate" THEN [source |-> source, whole |-> whole] ELSE fs.rtl
               /\ after.lib = IF command = "build"
                              THEN [source |-> source, llama |-> <<LlamaRoot(request.root), llama[LlamaRoot(request.root)]>>, whole |-> whole]
                              ELSE fs.lib
               /\ after.aware = IF command = "run_aware" THEN [rtl |-> fs.rtl, lib |-> fs.lib, whole |-> whole] ELSE fs.aware
               /\ after.test = IF command = "compile" THEN [rtl |-> fs.rtl, lib |-> fs.lib, whole |-> whole] ELSE fs.test
               /\ \A name \in {"short", "full"} : after.log[name] \in {fs.log[name], fs.test, Missing}
<1> DEFINE after == Effect(command, whole)
<1>1. fs.rtl \in Rtl \cup {Missing} /\ fs.lib \in Library \cup {Missing} /\ fs.test \in Test \cup {Missing}
      /\ fs.log \in [{"short", "full"} -> Test \cup {Missing}] /\ request.plan \in {"short", "full"}
  BY DEF Directory, Request
<1>2. CASE command = "elaborate"
  <2>1. [source |-> source, whole |-> whole] \in Rtl \cup {Missing}
    BY DEF Rtl
  <2>2. after = [fs EXCEPT !.rtl = [source |-> source, whole |-> whole]]
    BY <1>2 DEF Effect
  <2> DEFINE product == [source |-> source, whole |-> whole]
  <2> HIDE DEF product
  <2> QED
    BY <1>1, <1>2, <2>1, <2>2 DEF Directory, product
<1>3. CASE command = "build"
  <2> DEFINE root == LlamaRoot(request.root)
  <2>1. root \in Roots
    BY BuildAssumption DEF LlamaRoot, Request
  <2>2. <<root, llama[root]>> \in Checkout
    BY <2>1 DEF Checkout
  <2> DEFINE product == [source |-> source, llama |-> <<root, llama[root]>>, whole |-> whole]
  <2>3. product \in Library
    <3> HIDE DEF root
    <3> QED
      BY <2>2 DEF Library
  <2>4. after = [fs EXCEPT !.lib = product]
    BY <1>3 DEF Effect
  <2> HIDE DEF product, after
  <2>5. /\ after \in Directory /\ after.lib = product
        /\ after.exists = fs.exists /\ after.resolved = fs.resolved /\ after.inputs = fs.inputs
        /\ after.binding = fs.binding /\ after.doc = fs.doc /\ after.rtl = fs.rtl /\ after.aware = fs.aware
        /\ after.test = fs.test /\ after.log = fs.log
    BY <2>3, <2>4 DEF Directory
  <2> USE DEF after
  <2> QED
    BY <1>3, <2>5 DEF product
<1>4. CASE command = "run_aware" \/ command = "compile"
  <2> DEFINE product == [rtl |-> fs.rtl, lib |-> fs.lib, whole |-> whole]
  <2>1. product \in Test
    BY <1>1 DEF Test
  <2>2. after = IF command = "run_aware" THEN [fs EXCEPT !.aware = product] ELSE [fs EXCEPT !.test = product]
    BY <1>4 DEF Effect
  <2> HIDE DEF product, after
  <2>3. /\ after \in Directory
        /\ after.aware = (IF command = "run_aware" THEN product ELSE fs.aware) /\ after.test = (IF command = "compile" THEN product ELSE fs.test)
        /\ after.exists = fs.exists /\ after.resolved = fs.resolved /\ after.inputs = fs.inputs
        /\ after.binding = fs.binding /\ after.doc = fs.doc /\ after.rtl = fs.rtl /\ after.lib = fs.lib /\ after.log = fs.log
    BY <1>4, <2>1, <2>2 DEF Directory
  <2> USE DEF after
  <2> QED
    BY <1>4, <2>3 DEF product
<1>5. CASE command = "audit"
  <2>1. after = fs \/ after = [fs EXCEPT !.audit = fs.lib]
    BY <1>5 DEF Effect
  <2> HIDE DEF after
  <2>2. /\ after \in Directory
        /\ after.exists = fs.exists /\ after.resolved = fs.resolved /\ after.inputs = fs.inputs
        /\ after.binding = fs.binding /\ after.doc = fs.doc /\ after.rtl = fs.rtl /\ after.lib = fs.lib /\ after.log = fs.log
        /\ after.aware = fs.aware /\ after.test = fs.test
    BY <1>1, <2>1 DEF Directory
  <2> USE DEF after
  <2> QED
    BY <1>5, <2>2
<1>6. CASE command = "run"
  <2> DEFINE log == [fs.log EXCEPT ![request.plan] = IF whole THEN fs.test ELSE Missing]
  <2>1. log \in [{"short", "full"} -> Test \cup {Missing}]
        /\ \A name \in {"short", "full"} : log[name] \in {fs.log[name], fs.test, Missing}
    BY <1>1
  <2>2. after = [fs EXCEPT !.log = log]
    BY <1>6 DEF Effect
  <2> HIDE DEF log, after
  <2>3. /\ after \in Directory
        /\ after.exists = fs.exists /\ after.resolved = fs.resolved /\ after.inputs = fs.inputs
        /\ after.binding = fs.binding /\ after.doc = fs.doc /\ after.rtl = fs.rtl /\ after.lib = fs.lib /\ after.log = log
        /\ after.aware = fs.aware /\ after.test = fs.test
    BY <2>1, <2>2 DEF Directory
  <2> USE DEF after
  <2> QED
    BY <1>6, <2>1, <2>3
<1>7. CASE command \notin {"elaborate", "build", "run_aware", "compile", "audit", "run"}
  <2>1. after = fs
    BY <1>7 DEF Effect
  <2> QED
    BY <1>7, <2>1
<1> QED
  BY <1>2, <1>3, <1>4, <1>5, <1>6, <1>7

\* Two lists of commands after each other: a list with the same elements
LEMMA Concatenation ==
    ASSUME NEW S, NEW s \in Seq(S), NEW t \in Seq(S), NEW u \in Seq(S), Len(u) = Len(s) + Len(t),
           \A i \in 1 .. Len(s) : u[i] = s[i], \A i \in 1 .. Len(t) : u[Len(s) + i] = t[i]
    PROVE  s \o t = u
<1>1. Len(s \o t) = Len(u) /\ s \o t \in Seq(S)
  OBVIOUS
<1>2. ASSUME NEW i \in 1 .. Len(u) PROVE (s \o t)[i] = u[i]
  <2>1. CASE i <= Len(s)
    BY <2>1
  <2>2. CASE i > Len(s)
    <3>1. i - Len(s) \in 1 .. Len(t) /\ Len(s) + (i - Len(s)) = i
      BY <2>2
    <3>2. (s \o t)[i] = t[i - Len(s)]
      BY <2>2
    <3> QED
      BY <3>1, <3>2
  <2> QED
    BY <2>1, <2>2
<1> QED
  BY <1>1, <1>2

\* The commands of every stage, written out
LEMMA CommandLists ==
    /\ HostValidationCommands(RtlCommands) = HostSteps
    /\ HostValidationCommands(<<"lint">>) = <<"lint", "configure", "build", "run_aware", "ctest", "audit", "compile", "run">>
    /\ RtlCommands \o <<"vivado">> = <<"overlay", "elaborate", "lint", "vivado">>
<1> DEFINE rest == <<"configure", "build", "run_aware", "ctest", "audit", "compile", "run">>
           short == <<"lint", "configure", "build", "run_aware", "ctest", "audit", "compile", "run">>
           synth == <<"overlay", "elaborate", "lint", "vivado">>
           lint == <<"lint">>
           vivado == <<"vivado">>
<1>1. /\ RtlCommands \in Seq(CommandNames) /\ Len(RtlCommands) = 3
      /\ RtlCommands[1] = "overlay" /\ RtlCommands[2] = "elaborate" /\ RtlCommands[3] = "lint"
  BY DEF RtlCommands, CommandNames
<1>2. /\ rest \in Seq(CommandNames) /\ Len(rest) = 7 /\ rest[1] = "configure" /\ rest[2] = "build" /\ rest[3] = "run_aware"
      /\ rest[4] = "ctest" /\ rest[5] = "audit" /\ rest[6] = "compile" /\ rest[7] = "run"
  BY DEF CommandNames
<1>3. /\ HostSteps \in Seq(CommandNames) /\ Len(HostSteps) = 10
      /\ HostSteps[1] = "overlay" /\ HostSteps[2] = "elaborate" /\ HostSteps[3] = "lint"
      /\ HostSteps[4] = "configure" /\ HostSteps[5] = "build" /\ HostSteps[6] = "run_aware"
      /\ HostSteps[7] = "ctest" /\ HostSteps[8] = "audit" /\ HostSteps[9] = "compile" /\ HostSteps[10] = "run"
  BY DEF HostSteps, CommandNames
<1>4. lint \in Seq(CommandNames) /\ Len(lint) = 1 /\ lint[1] = "lint"
  BY DEF CommandNames
<1>5. vivado \in Seq(CommandNames) /\ Len(vivado) = 1 /\ vivado[1] = "vivado"
  BY DEF CommandNames
<1>6. /\ short \in Seq(CommandNames) /\ Len(short) = 8 /\ short[1] = "lint" /\ short[2] = "configure" /\ short[3] = "build"
      /\ short[4] = "run_aware" /\ short[5] = "ctest" /\ short[6] = "audit" /\ short[7] = "compile" /\ short[8] = "run"
  BY DEF CommandNames
<1>7. /\ synth \in Seq(CommandNames) /\ Len(synth) = 4
      /\ synth[1] = "overlay" /\ synth[2] = "elaborate" /\ synth[3] = "lint" /\ synth[4] = "vivado"
  BY DEF CommandNames
<1> HIDE DEF rest, short, synth, lint, vivado
<1>8. RtlCommands \o rest = HostSteps
  <2>1. \A i \in 1 .. Len(RtlCommands) : HostSteps[i] = RtlCommands[i]
    BY <1>1, <1>2, <1>3
  <2>2. \A i \in 1 .. Len(rest) : HostSteps[Len(RtlCommands) + i] = rest[i]
    BY <1>1, <1>2, <1>3
  <2>3. Len(HostSteps) = Len(RtlCommands) + Len(rest)
    BY <1>1, <1>2, <1>3
  <2> QED
    BY <1>1, <1>2, <1>3, <2>1, <2>2, <2>3, Concatenation, Zenon
<1>9. lint \o rest = short
  <2>1. \A i \in 1 .. Len(lint) : short[i] = lint[i]
    BY <1>2, <1>4, <1>6
  <2>2. \A i \in 1 .. Len(rest) : short[Len(lint) + i] = rest[i]
    BY <1>2, <1>4, <1>6
  <2>3. Len(short) = Len(lint) + Len(rest)
    BY <1>2, <1>4, <1>6
  <2> QED
    BY <1>2, <1>4, <1>6, <2>1, <2>2, <2>3, Concatenation, Zenon
<1>10. RtlCommands \o vivado = synth
  <2>1. \A i \in 1 .. Len(RtlCommands) : synth[i] = RtlCommands[i]
    BY <1>1, <1>5, <1>7
  <2>2. \A i \in 1 .. Len(vivado) : synth[Len(RtlCommands) + i] = vivado[i]
    BY <1>1, <1>5, <1>7
  <2>3. Len(synth) = Len(RtlCommands) + Len(vivado)
    BY <1>1, <1>5, <1>7
  <2> QED
    BY <1>1, <1>5, <1>7, <2>1, <2>2, <2>3, Concatenation, Zenon
<1> QED
  BY <1>8, <1>9, <1>10 DEF HostValidationCommands, rest, short, synth, lint, vivado

\* A stage emits RTL at most once, and an export that finds it emits none.
LEMMA CommandsOf ==
    ASSUME NEW stage \in Stages
    PROVE  /\ Commands(stage) \in Seq(CommandNames)
           /\ \A i, j \in DOMAIN Commands(stage) : Commands(stage)[i] = "elaborate" /\ Commands(stage)[j] = "elaborate" => i = j
           /\ stage = "export" /\ fs.rtl # Missing => \A i \in DOMAIN Commands(stage) : Commands(stage)[i] # "elaborate"
           /\ stage = "host-test" => Commands(stage) = HostSteps
<1> DEFINE c == Commands(stage)
           Once == c \in Seq(CommandNames) /\ \A i, j \in DOMAIN c : c[i] = "elaborate" /\ c[j] = "elaborate" => i = j
           Never == \A i \in DOMAIN c : c[i] # "elaborate"
<1>1. stage \in {"plan", "rtl", "test", "host-test", "synth", "export"}
  BY BuildAssumption
<1>2. c = << >> => Once
  BY DEF CommandNames
<1>3. c = RtlCommands => Once
  BY DEF RtlCommands, CommandNames
<1>4. c = <<"overlay", "sbt_test">> => Once
  BY DEF CommandNames
<1>5. c = HostSteps => Once
  BY DEF HostSteps, CommandNames
<1>6. c = <<"overlay", "elaborate", "lint", "vivado">> => Once
  BY DEF CommandNames
<1>7. c = <<"lint", "configure", "build", "run_aware", "ctest", "audit", "compile", "run">> => Once /\ Never
  BY DEF CommandNames
<1>8. /\ stage = "plan" => c = << >>
      /\ stage = "rtl" => c = RtlCommands
      /\ stage = "test" => c = <<"overlay", "sbt_test">>
      /\ stage = "host-test" => c = HostSteps
      /\ stage = "synth" => c = <<"overlay", "elaborate", "lint", "vivado">>
      /\ stage = "export" => c = IF Reusable THEN <<"lint", "configure", "build", "run_aware", "ctest", "audit", "compile", "run">>
                                             ELSE HostSteps
  BY CommandLists DEF Commands
<1> HIDE DEF c
<1>9. Once
  <2> HIDE DEF Once, Never
  <2> QED
    BY <1>1, <1>2, <1>3, <1>4, <1>5, <1>6, <1>7, <1>8
<1>10. stage = "export" /\ fs.rtl # Missing => Never
  <2> HIDE DEF Once, Never
  <2> QED
    BY <1>7, <1>8 DEF Reusable
<1> QED
  BY <1>8, <1>9, <1>10 DEF c

(***************************************************************************)
(* The steps                                                               *)
(***************************************************************************)

\* A command ran to its end, or was cut off by its own failure or by a kill:
\* it had what it needs, and its effect is all that happened to the directory.
CommandStep(whole) ==
    /\ phase = "running" /\ commands # << >> /\ CanRun(Head(commands))
    /\ fs' = Effect(Head(commands), whole)
    /\ verdict' = "none"
    /\ UNCHANGED <<source, llama, pkg, archive>>
    /\ \/ whole /\ commands' = Tail(commands) /\ UNCHANGED <<phase, request>>
       \/ commands' = << >> /\ phase' = "idle"
       \/ commands' = << >> /\ phase' = "running" /\ request' = [request EXCEPT !.passed = FALSE]

\* No file moves: the environment, a request, a plan, a failure at once, a kill
\* between two commands, a verification
QuietStep ==
    /\ fs' = fs /\ UNCHANGED <<pkg, archive>>
    /\ \/ EditSource
       \/ \E r \in Roots : EditLlama(r)
       \/ \E stage \in Stages, root \in Roots \cup {Missing} : ParseRequest(stage, root)
       \/ Plan
       \/ \E root \in Roots \cup {Missing} : CreateByHand(root)
       \/ VerifyBuild
       \/ /\ phase = "running" /\ phase' = "running" /\ commands' = << >> /\ request' = [request EXCEPT !.passed = FALSE]
          /\ verdict' = "none" /\ UNCHANGED <<source, llama>>
       \/ phase' = "idle" /\ commands' = << >> /\ verdict' = "none" /\ UNCHANGED <<source, llama>>

\* Every step of a build is one of these.
LEMMA StepKinds ==
    ASSUME BuildNext
    PROVE  \/ QuietStep
           \/ \E whole \in BOOLEAN : CommandStep(whole)
           \/ Prepare \/ Finish \/ Collect \/ CopyPackage \/ LockOutput \/ Archive
<1>1. CASE Execute
  BY <1>1 DEF Execute, CommandStep
<1>2. CASE Fail
  BY <1>2 DEF Fail, Failing, CommandStep, QuietStep
<1>3. CASE KillBuild
  BY <1>3 DEF KillBuild, Idle, CommandStep, QuietStep
<1>4. CASE Plan
  BY <1>4 DEF Plan, QuietStep
<1>5. CASE EditSource \/ VerifyBuild \/ (\E r \in Roots : EditLlama(r))
  BY <1>5 DEF EditSource, EditLlama, VerifyBuild, QuietStep
<1>6. CASE \/ \E stage \in Stages, root \in Roots \cup {Missing} : ParseRequest(stage, root)
           \/ \E root \in Roots \cup {Missing} : CreateByHand(root)
  BY <1>6 DEF ParseRequest, CreateByHand, QuietStep
<1> QED
  BY <1>1, <1>2, <1>3, <1>4, <1>5, <1>6 DEF BuildNext

\* An identity of the request is a checkout at its version.
LEMMA IdentityTyped ==
    ASSUME llama \in [Roots -> Nat], NEW root \in Roots \cup {Missing}
    PROVE  LlamaIdentity(root) \in Checkout
<1>1. CASE root = Missing
  BY <1>1 DEF LlamaIdentity, Checkout
<1>2. CASE root # Missing
  <2>1. <<root, llama[root]>> \in Roots \X Nat
    BY <1>2
  <2> QED
    BY <1>2, <2>1 DEF LlamaIdentity, Checkout
<1> QED
  BY <1>1, <1>2

\* A new request, and what the plan and a failure make of it
LEMMA RequestTyped ==
    ASSUME BuildTypes
    PROVE  /\ \A stage \in Stages, root \in Roots \cup {Missing} :
                [stage |-> stage, root |-> root, identity |-> LlamaIdentity(root), passed |-> TRUE, plan |-> "full"] \in Request
           /\ \A root \in Roots \cup {Missing} :
                [stage |-> "create", root |-> root, identity |-> Missing, passed |-> TRUE, plan |-> "full"] \in Request
           /\ \A r \in Request : /\ [r EXCEPT !.passed = FALSE] \in Request
                                 /\ [r EXCEPT !.passed = FALSE].stage = r.stage
                                 /\ [r EXCEPT !.passed = FALSE].root = r.root
                                 /\ [r EXCEPT !.passed = FALSE].identity = r.identity
                                 /\ [r EXCEPT !.passed = FALSE].passed = FALSE
           /\ \A r \in Request, plan \in {"short", "full"} :
                 /\ [r EXCEPT !.plan = plan] \in Request
                 /\ [r EXCEPT !.plan = plan].stage = r.stage
                 /\ [r EXCEPT !.plan = plan].root = r.root
                 /\ [r EXCEPT !.plan = plan].identity = r.identity
                 /\ [r EXCEPT !.plan = plan].passed = r.passed
<1>1. ASSUME NEW stage \in Stages, NEW root \in Roots \cup {Missing}
      PROVE  [stage |-> stage, root |-> root, identity |-> LlamaIdentity(root), passed |-> TRUE, plan |-> "full"] \in Request
  <2>1. LlamaIdentity(root) \in Checkout
    BY IdentityTyped DEF BuildTypes
  <2> QED
    BY <2>1 DEF Request
<1>2. ASSUME NEW root \in Roots \cup {Missing}
      PROVE  [stage |-> "create", root |-> root, identity |-> Missing, passed |-> TRUE, plan |-> "full"] \in Request
  BY DEF Request, Checkout
<1> QED
  BY <1>1, <1>2 DEF Request

\* The artifacts that a binding and an evidence package look at
SameArtifacts ==
    /\ fs'.exists = fs.exists /\ fs'.rtl = fs.rtl /\ fs'.resolved = fs.resolved /\ fs'.inputs = fs.inputs /\ fs'.lib = fs.lib
    /\ fs'.aware = fs.aware /\ fs'.audit = fs.audit /\ fs'.test = fs.test /\ fs'.log = fs.log

\* The end of a run writes documents, no artifact, and a binding only when a host
\* test that passed is sealed.
LEMMA FinishEffect ==
    ASSUME BuildTypes, HostTest, Finish
    PROVE  /\ fs' \in Directory /\ SameArtifacts
           /\ \/ fs'.binding = fs.binding
              \/ /\ request.stage = "host-test" /\ request.passed /\ Sealable
                 /\ fs'.binding = [inputs |-> fs.inputs, artifacts |-> Artifacts]
           /\ \/ phase' = "idle"
              \/ phase' = "collect" /\ UNCHANGED <<request, commands>> /\ fs'.doc \in DocumentRecord
<1> USE DEF BuildTypes
<1>1. phase = "running" /\ request \in Request /\ Document \in DocumentRecord
  BY DEF Finish, Request, Document, DocumentRecord
<1>2. Artifacts \in ArtifactRecord
  BY DEF Directory, Artifacts, ArtifactRecord
<1>3. CASE fs' = fs /\ phase' = "idle"
  BY <1>3 DEF SameArtifacts
<1>4. CASE fs' = [fs EXCEPT !.doc = Document] /\ (phase' = "idle" \/ (phase' = "collect" /\ UNCHANGED <<request, commands>>))
  <2>1. fs' \in Directory /\ fs'.binding = fs.binding /\ fs'.doc = Document
    BY <1>1, <1>4 DEF Directory
  <2>2. SameArtifacts
    BY <1>4 DEF SameArtifacts, Directory
  <2> QED
    BY <1>1, <1>4, <2>1, <2>2
<1>5. CASE /\ request.stage = "host-test" /\ request.passed /\ Sealable /\ phase' = "idle"
           /\ fs' = [fs EXCEPT !.binding = [inputs |-> fs.inputs, artifacts |-> Artifacts], !.doc = Document]
  <2> DEFINE bound == [inputs |-> fs.inputs, artifacts |-> Artifacts]
  <2>1. fs.inputs \in Inputs
    BY <1>1, <1>5 DEF HostTest, HostProgress
  <2>2. bound \in [inputs : Inputs, artifacts : ArtifactRecord]
    BY <1>2, <2>1
  <2>3. fs' = [fs EXCEPT !.binding = bound, !.doc = Document]
    BY <1>5
  <2> HIDE DEF bound
  <2>4. fs' \in Directory /\ fs'.binding = bound
    BY <1>1, <2>2, <2>3 DEF Directory
  <2>5. SameArtifacts
    BY <2>3 DEF SameArtifacts, Directory
  <2> QED
    BY <1>5, <2>4, <2>5 DEF bound
<1> QED
  BY <1>3, <1>4, <1>5 DEF Finish, Idle

\* The preparation of a run: the directory is there, and a host test records its
\* inputs as the sources are now.
LEMMA PrepareEffect ==
    ASSUME BuildTypes, Prepare
    PROVE  /\ fs' \in Directory /\ fs'.exists
           /\ fs'.rtl = fs.rtl /\ fs'.lib = fs.lib /\ fs'.aware = fs.aware /\ fs'.test = fs.test /\ fs'.log = fs.log
           /\ fs'.binding = fs.binding /\ fs'.resolved = request.identity
           /\ request.stage = "host-test" => fs'.inputs = [source |-> source, llama |-> request.identity]
<1> USE DEF BuildTypes
<1> DEFINE inputs == IF request.stage = "host-test" THEN BuildInputs(request.identity) ELSE fs.inputs
<1>1. request \in Request /\ request.identity \in Checkout
  BY DEF Prepare, Request
<1>2. inputs \in Inputs \cup {Missing}
  BY <1>1 DEF BuildInputs, Inputs, Directory
<1>3. fs' = [fs EXCEPT !.exists = TRUE, !.resolved = request.identity, !.inputs = inputs]
  BY DEF Prepare
<1>4. request.stage = "host-test" => inputs = [source |-> source, llama |-> request.identity]
  BY DEF BuildInputs
<1> HIDE DEF inputs
<1>5. /\ fs' \in Directory /\ fs'.exists /\ fs'.inputs = inputs
      /\ fs'.rtl = fs.rtl /\ fs'.lib = fs.lib /\ fs'.aware = fs.aware /\ fs'.test = fs.test /\ fs'.log = fs.log
      /\ fs'.binding = fs.binding /\ fs'.resolved = request.identity
  BY <1>1, <1>2, <1>3 DEF Directory
<1> QED
  BY <1>4, <1>5

\* create_export: the package takes the RTL and the log of the directory at one
\* time, is marked only when its own evidence is complete, and the archive is a
\* marked package.
LEMMA PackageEffect ==
    ASSUME BuildTypes, RunPhases, Collect \/ CopyPackage \/ LockOutput \/ Archive
    PROVE  /\ UNCHANGED <<source, llama, fs, verdict>>
           /\ phase' \in {"idle", "copy", "lock", "archive"}
           /\ phase' = "idle" => commands' = << >>
           /\ phase' # "idle" => pkg' \in Package /\ ~pkg'.verified /\ UNCHANGED <<request, commands>>
           /\ phase' = "copy" => fs.doc \in DocumentRecord
           /\ pkg' \in Package \cup {Missing}
           /\ \/ pkg' = pkg /\ (phase' = "idle" \/ phase \in Packaging)
              \/ pkg' \in Package /\ pkg'.log = Missing /\ ~pkg'.verified
              \/ pkg' \in Package /\ ~pkg'.verified /\ pkg'.rtl = fs.rtl /\ pkg'.log \in {fs.log["short"], fs.log["full"]}
              \/ phase \in Packaging /\ pkg' \in Package /\ pkg'.rtl = pkg.rtl /\ pkg'.log = pkg.log /\ (pkg'.verified => pkg.log # Missing)
           /\ archive' = archive \/ (archive' = pkg' /\ pkg' \in Package /\ pkg'.log # Missing)
<1> USE DEF BuildTypes, Packaging
<1>1. fs.rtl \in Rtl \cup {Missing} /\ fs.lib \in Library \cup {Missing} /\ fs.test \in Test \cup {Missing} /\ fs.audit \in Library \cup {Missing}
      /\ fs.log \in [{"short", "full"} -> Test \cup {Missing}] /\ fs.doc \in DocumentRecord \cup {Missing}
  BY DEF Directory
<1>2. CASE Collect
  <2>1. phase' = "idle" => pkg' = pkg /\ commands' = << >>
    BY <1>2 DEF Collect, Idle
  <2>2. UNCHANGED <<source, llama, fs, verdict, archive>>
    BY <1>2 DEF Collect
  <2>3. CASE pkg = Missing /\ EvidenceComplete
    <3> DEFINE new == [audit |-> fs.audit, test |-> fs.test, source |-> Missing, rtl |-> Missing, log |-> Missing, llama |-> Missing,
                       lock |-> Missing, sums |-> FALSE, verified |-> FALSE]
    <3>1. new \in Package /\ new.log = Missing /\ new.verified = FALSE
      BY <1>1 DEF Package, Checkout
    <3>2. pkg' = new /\ phase' = "copy" /\ UNCHANGED <<request, commands>>
      BY <1>2, <2>3 DEF Collect
    <3>3. fs.doc \in DocumentRecord
      BY <1>1, <2>3 DEF EvidenceComplete
    <3> HIDE DEF new
    <3> QED
      BY <2>2, <3>1, <3>2, <3>3
  <2>4. CASE ~(pkg = Missing /\ EvidenceComplete)
    <3>1. phase' = "idle" /\ pkg' = pkg /\ commands' = << >>
      BY <1>2, <2>4 DEF Collect, Idle
    <3> QED
      BY <2>2, <3>1
  <2> QED
    BY <2>3, <2>4
<1>3. CASE CopyPackage
  <2>1. phase = "copy" /\ pkg \in Package /\ ~pkg.verified /\ fs.doc \in DocumentRecord /\ UNCHANGED <<source, llama, request, commands, fs, archive, verdict>>
    BY <1>3 DEF CopyPackage, RunPhases
  <2>2. fs.log[fs.doc.log] \in {fs.log["short"], fs.log["full"]} /\ fs.log[fs.doc.log] \in Test \cup {Missing}
    BY <1>1, <2>1 DEF DocumentRecord
  <2>3. CASE pkg' = [pkg EXCEPT !.source = <<source>>] /\ phase' = phase
    <3>1. <<source>> \in Seq(Nat)
      OBVIOUS
    <3> DEFINE v == <<source>>
    <3> HIDE DEF v
    <3>2. pkg' \in Package /\ pkg'.rtl = pkg.rtl /\ pkg'.log = pkg.log /\ pkg'.verified = pkg.verified
      BY <2>1, <2>3, <3>1 DEF Package
    <3> QED
      BY <2>1, <2>3, <3>2
  <2>4. CASE pkg' = [pkg EXCEPT !.rtl = fs.rtl, !.log = fs.log[fs.doc.log]] /\ phase' = phase
    <3>1. pkg' \in Package /\ pkg'.rtl = fs.rtl /\ pkg'.log = fs.log[fs.doc.log] /\ pkg'.verified = pkg.verified
      BY <1>1, <2>1, <2>2, <2>4 DEF Package
    <3> QED
      BY <2>1, <2>2, <2>4, <3>1
  <2>5. CASE pkg' = [pkg EXCEPT !.llama = <<ExportRoot, llama[ExportRoot]>>] /\ phase' = "lock"
    <3>1. <<ExportRoot, llama[ExportRoot]>> \in Checkout
      <4>1. request \in Request
        BY <2>1
      <4>2. ExportRoot \in Roots
        BY <4>1, BuildAssumption DEF ExportRoot, LlamaRoot, Request
      <4> QED
        BY <4>2 DEF Checkout
    <3> DEFINE v == <<ExportRoot, llama[ExportRoot]>>
    <3>2. pkg' = [pkg EXCEPT !.llama = v]
      BY <2>5
    <3> HIDE DEF v
    <3>3. v \in Checkout
      BY <3>1 DEF v
    <3>4. pkg' \in Package /\ pkg'.rtl = pkg.rtl /\ pkg'.log = pkg.log /\ pkg'.verified = pkg.verified
      BY <2>1, <3>2, <3>3 DEF Package
    <3> QED
      BY <2>1, <2>5, <3>4
  <2> QED
    BY <1>3, <2>3, <2>4, <2>5 DEF CopyPackage
<1>4. CASE LockOutput
  <2>1. phase = "lock" /\ phase' = "archive" /\ pkg \in Package /\ ~pkg.verified /\ UNCHANGED <<source, llama, request, commands, fs, archive, verdict>>
    BY <1>4 DEF LockOutput, RunPhases
  <2>2. <<ExportRoot, llama[ExportRoot]>> \in Checkout
    <3>1. request \in Request
      BY <2>1
    <3>2. ExportRoot \in Roots
      BY <3>1, BuildAssumption DEF ExportRoot, LlamaRoot, Request
    <3> QED
      BY <3>2 DEF Checkout
  <2> DEFINE v == <<ExportRoot, llama[ExportRoot]>>
  <2>3. pkg' = [pkg EXCEPT !.lock = v, !.sums = TRUE]
    BY <1>4 DEF LockOutput
  <2> HIDE DEF v
  <2>4. v \in Checkout
    BY <2>2 DEF v
  <2>5. pkg' \in Package /\ pkg'.rtl = pkg.rtl /\ pkg'.log = pkg.log /\ pkg'.verified = pkg.verified
    BY <2>1, <2>3, <2>4 DEF Package
  <2> QED
    BY <2>1, <2>5
<1>5. CASE Archive
  <2>1. phase = "archive" /\ phase' = "idle" /\ commands' = << >> /\ pkg \in Package /\ UNCHANGED <<source, llama, fs, verdict>>
    BY <1>5 DEF Archive, Idle, RunPhases
  <2>2. VerifyExport \in BOOLEAN /\ (VerifyExport => pkg.log # Missing)
    BY <2>1 DEF VerifyExport, IntegratedClosure, UniqueTop, RuntimeLog, Package
  <2>3. pkg' = [pkg EXCEPT !.verified = VerifyExport] /\ (archive' = archive \/ (VerifyExport /\ archive' = pkg'))
    BY <1>5 DEF Archive
  <2>4. pkg' \in Package /\ pkg'.rtl = pkg.rtl /\ pkg'.log = pkg.log /\ (pkg'.verified => VerifyExport)
    <3>1. CASE VerifyExport
      <4>1. pkg' = [pkg EXCEPT !.verified = TRUE]
        BY <2>3, <3>1
      <4> QED
        BY <2>1, <3>1, <4>1 DEF Package
    <3>2. CASE ~VerifyExport
      <4>0. VerifyExport = FALSE
        BY <2>2, <3>2, Zenon
      <4>1. pkg' = [pkg EXCEPT !.verified = FALSE]
        BY <2>3, <4>0, Zenon
      <4> QED
        BY <2>1, <3>2, <4>1 DEF Package
    <3> QED
      BY <3>1, <3>2
  <2> QED
    BY <2>1, <2>2, <2>3, <2>4
<1> QED
  BY <1>2, <1>3, <1>4, <1>5

\* A command's effect, as EffectOf says it
LEMMA CommandEffect ==
    ASSUME BuildTypes, NEW whole \in BOOLEAN, CommandStep(whole)
    PROVE  LET command == Head(commands)
           IN  /\ command \in CommandNames /\ command = commands[1] /\ CanRun(command)
               /\ fs' \in Directory
               /\ fs'.exists = fs.exists /\ fs'.resolved = fs.resolved /\ fs'.inputs = fs.inputs
               /\ fs'.binding = fs.binding /\ fs'.doc = fs.doc
               /\ fs'.rtl = IF command = "elaborate" THEN [source |-> source, whole |-> whole] ELSE fs.rtl
               /\ fs'.lib = IF command = "build"
                            THEN [source |-> source, llama |-> <<LlamaRoot(request.root), llama[LlamaRoot(request.root)]>>, whole |-> whole]
                            ELSE fs.lib
               /\ fs'.aware = IF command = "run_aware" THEN [rtl |-> fs.rtl, lib |-> fs.lib, whole |-> whole] ELSE fs.aware
               /\ fs'.test = IF command = "compile" THEN [rtl |-> fs.rtl, lib |-> fs.lib, whole |-> whole] ELSE fs.test
               /\ \A name \in {"short", "full"} : fs'.log[name] \in {fs.log[name], fs.test, Missing}
<1>1. Head(commands) \in CommandNames /\ Head(commands) = commands[1]
  BY DEF BuildTypes, CommandStep
<1>2. fs' = Effect(Head(commands), whole) /\ CanRun(Head(commands)) /\ request \in Request
  BY DEF CommandStep, BuildTypes
<1> DEFINE command == Head(commands)
<1> HIDE DEF command
<1>3. command \in CommandNames /\ fs' = Effect(command, whole)
  BY <1>1, <1>2 DEF command
<1>4. source \in Nat /\ llama \in [Roots -> Nat] /\ fs \in Directory
  BY DEF BuildTypes
<1> DEFINE after == Effect(command, whole)
           Says(a) ==
               /\ a \in Directory
               /\ a.exists = fs.exists /\ a.resolved = fs.resolved /\ a.inputs = fs.inputs
               /\ a.binding = fs.binding /\ a.doc = fs.doc
               /\ a.rtl = IF command = "elaborate" THEN [source |-> source, whole |-> whole] ELSE fs.rtl
               /\ a.lib = IF command = "build"
                            THEN [source |-> source, llama |-> <<LlamaRoot(request.root), llama[LlamaRoot(request.root)]>>, whole |-> whole]
                            ELSE fs.lib
               /\ a.aware = IF command = "run_aware" THEN [rtl |-> fs.rtl, lib |-> fs.lib, whole |-> whole] ELSE fs.aware
               /\ a.test = IF command = "compile" THEN [rtl |-> fs.rtl, lib |-> fs.lib, whole |-> whole] ELSE fs.test
               /\ \A name \in {"short", "full"} : a.log[name] \in {fs.log[name], fs.test, Missing}
<1>5. Says(after)
  BY <1>2, <1>3, <1>4, EffectOf, Zenon
<1>6. Says(fs')
  <2> HIDE DEF Says
  <2> QED
    BY <1>3, <1>5, Zenon
<1> QED
  BY <1>1, <1>2, <1>6 DEF command

\* Every step of a build keeps the types and the phases of its one run.
LEMMA PhasesStep == BuildInv /\ BuildNext => BuildTypes' /\ RunPhases'
<1> SUFFICES ASSUME BuildInv, BuildNext PROVE BuildTypes' /\ RunPhases'
  OBVIOUS
<1> USE DEF BuildInv
<1>1. CASE QuietStep
  <2>0. UNCHANGED <<fs, pkg, archive>>
    BY <1>1 DEF QuietStep
  <2>1. CASE EditSource \/ (\E r \in Roots : EditLlama(r))
    <3>1. source' \in Nat /\ llama' \in [Roots -> Nat] /\ UNCHANGED <<request, phase, commands>> /\ verdict' \in {verdict, "none"}
      BY <2>1 DEF EditSource, EditLlama, BuildTypes
    <3> QED
      BY <2>0, <3>1 DEF BuildTypes, RunPhases
  <2>2. CASE \E stage \in Stages, root \in Roots \cup {Missing} : ParseRequest(stage, root)
    <3>1. phase' = "parsed" /\ request' \in Request /\ request'.stage \in Stages /\ UNCHANGED <<source, llama, commands, verdict>>
      BY <2>2, RequestTyped DEF ParseRequest
    <3> QED
      BY <2>0, <3>1 DEF BuildTypes, RunPhases
  <2>3. CASE \E root \in Roots \cup {Missing} : CreateByHand(root)
    <3>1. phase' = "collect" /\ phase = "idle" /\ request' \in Request /\ UNCHANGED <<source, llama, commands, verdict>>
      BY <2>3, RequestTyped DEF CreateByHand
    <3> QED
      BY <2>0, <3>1 DEF BuildTypes, RunPhases
  <2>4. CASE Plan
    <3>1. phase = "parsed" /\ request \in Request /\ request.stage \in Stages /\ UNCHANGED <<source, llama, verdict>>
      BY <2>4 DEF Plan, BuildTypes, RunPhases
    <3>2. CASE phase' = "idle" /\ commands' = << >>
      <4>1. << >> \in Seq(CommandNames)
        OBVIOUS
      <4> QED
        BY <2>0, <3>1, <3>2, <4>1 DEF BuildTypes, RunPhases
    <3>3. CASE /\ ValidRequest /\ phase' = "planned" /\ commands' = Commands(request.stage)
               /\ request' = [request EXCEPT !.plan = IF request.stage = "export" /\ Reusable THEN "short" ELSE "full"]
      <4>1. request' \in Request /\ request'.stage = request.stage
        BY <3>1, <3>3, RequestTyped
      <4>2. commands' \in Seq(CommandNames)
        BY <3>1, <3>3, CommandsOf
      <4>3. request'.stage # "export" => fs = Absent
        BY <3>3, <4>1 DEF ValidRequest, RunPhases
      <4> QED
        BY <2>0, <3>1, <3>3, <4>1, <4>2, <4>3 DEF BuildTypes, RunPhases
    <3> QED
      BY <2>4, <3>2, <3>3 DEF Plan, Idle
  <2>5. CASE VerifyBuild
    <3>1. UNCHANGED <<source, llama, request, phase, commands>> /\ phase = "idle" /\ verdict' \in {"accepted", "refused"}
      BY <2>5 DEF VerifyBuild
    <3> QED
      BY <2>0, <3>1 DEF BuildTypes, RunPhases
  <2>6. CASE /\ phase = "running" /\ phase' = "running" /\ commands' = << >> /\ request' = [request EXCEPT !.passed = FALSE]
             /\ verdict' = "none" /\ UNCHANGED <<source, llama>>
    <3>1. << >> \in Seq(CommandNames)
      OBVIOUS
    <3>2. request' \in Request /\ request'.stage = request.stage
      BY <2>6, RequestTyped DEF BuildTypes
    <3> QED
      BY <2>0, <2>6, <3>1, <3>2 DEF BuildTypes, RunPhases
  <2>7. CASE phase' = "idle" /\ commands' = << >> /\ verdict' = "none" /\ UNCHANGED <<source, llama>>
    <3>1. << >> \in Seq(CommandNames)
      OBVIOUS
    <3> QED
      BY <2>0, <2>7, <3>1 DEF BuildTypes, RunPhases
  <2> QED
    BY <1>1, <2>1, <2>2, <2>3, <2>4, <2>5, <2>6, <2>7 DEF QuietStep
<1>2. ASSUME NEW whole \in BOOLEAN, CommandStep(whole) PROVE BuildTypes' /\ RunPhases'
  <2>1. /\ phase = "running" /\ commands # << >> /\ verdict' = "none" /\ UNCHANGED <<source, llama, pkg, archive>> /\ request \in Request
    BY <1>2 DEF CommandStep, BuildTypes
  <2>2. fs' \in Directory /\ fs'.exists = fs.exists /\ fs.exists
    BY <1>2, <2>1, CommandEffect DEF RunPhases
  <2>3. Tail(commands) \in Seq(CommandNames) /\ << >> \in Seq(CommandNames)
    BY <2>1 DEF BuildTypes
  <2>4. \/ phase' = "running" /\ commands' = Tail(commands) /\ request' = request
        \/ phase' = "idle" /\ commands' = << >>
        \/ phase' = "running" /\ commands' = << >> /\ request' \in Request /\ request'.stage = request.stage
    BY <1>2, <2>1, RequestTyped DEF CommandStep
  <2>5. BuildTypes'
    BY <2>1, <2>2, <2>3, <2>4 DEF BuildTypes
  <2>6. RunPhases'
    BY <2>1, <2>2, <2>4 DEF RunPhases
  <2> QED
    BY <2>5, <2>6
<1>3. CASE Prepare
  <2>1. /\ phase = "planned" /\ phase' = "running" /\ verdict' = "none"
        /\ UNCHANGED <<source, llama, request, commands, pkg, archive>>
    BY <1>3 DEF Prepare
  <2>2. fs' \in Directory /\ fs'.exists
    BY <1>3, PrepareEffect
  <2> QED
    BY <2>1, <2>2 DEF BuildTypes, RunPhases
<1>4. CASE Finish
  <2>1. phase = "running" /\ commands = << >> /\ UNCHANGED <<source, llama, pkg, archive, verdict>>
    BY <1>4 DEF Finish
  <2>2. fs' \in Directory /\ fs'.exists = fs.exists /\ fs.exists
    BY <1>4, <2>1, FinishEffect DEF SameArtifacts, RunPhases
  <2>3. commands' = << >> /\ (phase' = "idle" \/ (phase' = "collect" /\ request' = request))
    BY <1>4, <2>1, FinishEffect DEF Finish, Idle
  <2>4. << >> \in Seq(CommandNames)
    OBVIOUS
  <2> QED
    BY <2>1, <2>2, <2>3, <2>4 DEF BuildTypes, RunPhases
<1>5. CASE Collect \/ CopyPackage \/ LockOutput \/ Archive
  <2>1. /\ UNCHANGED <<source, llama, fs, verdict>>
        /\ phase' \in {"idle", "copy", "lock", "archive"}
        /\ phase' = "idle" => commands' = << >>
        /\ phase' # "idle" => pkg' \in Package /\ ~pkg'.verified /\ UNCHANGED <<request, commands>>
        /\ phase' = "copy" => fs.doc \in DocumentRecord
        /\ pkg' \in Package \cup {Missing}
        /\ archive' = archive \/ archive' = pkg'
    BY <1>5, PackageEffect
  <2>2. phase \in {"collect", "copy", "lock", "archive"}
    BY <1>5 DEF Collect, CopyPackage, LockOutput, Archive
  <2>3. << >> \in Seq(CommandNames)
    OBVIOUS
  <2>4. BuildTypes'
    BY <2>1, <2>2, <2>3 DEF BuildTypes
  <2>5. RunPhases'
    BY <2>1, <2>2 DEF RunPhases
  <2> QED
    BY <2>4, <2>5
<1> QED
  BY <1>1, <1>2, <1>3, <1>4, <1>5, StepKinds

\* What was tested was tested with the RTL that is there: RTL is emitted only
\* where there is none.
LEMMA TestedStep == BuildInv /\ BuildNext => TestedRtl'
<1> SUFFICES ASSUME BuildInv, BuildNext PROVE TestedRtl'
  OBVIOUS
<1> USE DEF BuildInv
<1> DEFINE Elaborations(list) ==
               /\ \A i \in DOMAIN list : list[i] = "elaborate" => fs.rtl = Missing
               /\ \A i, j \in DOMAIN list : list[i] = "elaborate" /\ list[j] = "elaborate" => i = j
<1>0. fs.log \in [{"short", "full"} -> Test \cup {Missing}] /\ fs \in Directory
  BY DEF BuildTypes, Directory
<1>1. ASSUME fs' = fs, phase' \in {"planned", "running"} => Elaborations(commands')
      PROVE  TestedRtl'
  BY <1>1 DEF TestedRtl
<1>2. Elaborations(<< >>)
  OBVIOUS
<1>3. CASE QuietStep
  <2>0. fs' = fs
    BY <1>3 DEF QuietStep
  <2>1. CASE Plan /\ phase' = "planned"
    <3>1. commands' = Commands(request.stage) /\ request.stage \in Stages /\ ValidRequest
      BY <2>1 DEF Plan, Idle, RunPhases
    <3>2. CASE request.stage = "export"
      BY <1>1, <2>0, <3>1, <3>2, CommandsOf
    <3>3. CASE request.stage # "export"
      <4>1. fs.rtl = Missing
        BY <3>1, <3>3 DEF ValidRequest, RunPhases, Absent
      <4> QED
        BY <1>1, <2>0, <3>1, <4>1, CommandsOf
    <3> QED
      BY <3>2, <3>3
  <2>2. CASE phase' \notin {"planned", "running"}
    BY <1>1, <2>0, <2>2
  <2>3. CASE commands' = << >>
    BY <1>1, <1>2, <2>0, <2>3
  <2>4. CASE UNCHANGED <<phase, commands>>
    BY <1>1, <2>0, <2>4 DEF TestedRtl
  <2> QED
    BY <1>3, <2>1, <2>2, <2>3, <2>4 DEF QuietStep, EditSource, EditLlama, ParseRequest, CreateByHand, VerifyBuild, Plan, Idle
<1>4. ASSUME NEW whole \in BOOLEAN, CommandStep(whole) PROVE TestedRtl'
  <2> DEFINE command == Head(commands)
  <2>1. phase = "running" /\ commands # << >> /\ commands \in Seq(CommandNames)
    BY <1>4 DEF CommandStep, BuildTypes
  <2>2. /\ command = commands[1] /\ CanRun(command)
        /\ command # "elaborate" => fs'.rtl = fs.rtl
        /\ fs'.test = IF command = "compile" THEN [rtl |-> fs.rtl, lib |-> fs.lib, whole |-> whole] ELSE fs.test
        /\ \A name \in {"short", "full"} : fs'.log[name] \in {fs.log[name], fs.test, Missing}
    BY <1>4, CommandEffect
  <2>3. Elaborations(commands)
    BY <2>1 DEF TestedRtl
  <2> HIDE DEF command
  <2>4. CASE command = "elaborate"
    <3>1. fs.rtl = Missing
      <4>1. 1 \in DOMAIN commands
        BY <2>1
      <4> QED
        BY <2>2, <2>3, <2>4, <4>1
    <3>2. fs.test = Missing /\ fs.log["short"] = Missing /\ fs.log["full"] = Missing
      BY <3>1 DEF TestedRtl
    <3>3. fs'.test = Missing /\ fs'.log["short"] = Missing /\ fs'.log["full"] = Missing
      BY <2>2, <2>4, <3>2
    <3>4. \A i \in DOMAIN commands' : commands'[i] # "elaborate"
      <4>1. CASE commands' = << >>
        BY <4>1
      <4>2. CASE commands' = Tail(commands)
        <5>1. \A i \in DOMAIN commands' : i + 1 \in DOMAIN commands /\ i + 1 # 1 /\ commands'[i] = commands[i + 1]
          BY <2>1, <4>2
        <5>2. 1 \in DOMAIN commands
          BY <2>1
        <5> QED
          BY <2>2, <2>3, <2>4, <5>1, <5>2
      <4> QED
        BY <1>4, <4>1, <4>2 DEF CommandStep
    <3> QED
      BY <2>1, <3>3, <3>4 DEF TestedRtl
  <2>5. CASE command # "elaborate"
    <3>1. fs'.rtl = fs.rtl
      BY <2>2, <2>5
    <3>2. \A test \in {fs'.test, fs'.log["short"], fs'.log["full"]} \ {Missing} : fs'.rtl # Missing /\ test.rtl = fs'.rtl
      <4>1. CASE command = "compile"
        <5>1. fs.rtl # Missing
          BY <2>2, <4>1 DEF CanRun
        <5>2. fs'.test.rtl = fs.rtl
          BY <2>2, <4>1
        <5> QED
          BY <2>2, <3>1, <5>1, <5>2 DEF TestedRtl
      <4>2. CASE command # "compile"
        BY <2>2, <3>1, <4>2 DEF TestedRtl
      <4> QED
        BY <4>1, <4>2
    <3>3. Elaborations(commands')
      <4>1. CASE commands' = << >>
        BY <4>1
      <4>2. CASE commands' = Tail(commands)
        <5>1. \A i \in DOMAIN commands' : i \in Nat /\ i + 1 \in DOMAIN commands /\ commands'[i] = commands[i + 1]
          BY <2>1, <4>2
        <5>2. ASSUME NEW i \in DOMAIN commands', NEW j \in DOMAIN commands', commands'[i] = "elaborate", commands'[j] = "elaborate"
              PROVE  i = j
          <6>1. i + 1 = j + 1
            BY <2>3, <5>1, <5>2
          <6> QED
            BY <5>1, <6>1
        <5> QED
          BY <2>3, <5>1, <5>2
      <4> QED
        BY <1>4, <4>1, <4>2 DEF CommandStep
    <3> QED
      BY <2>1, <3>1, <3>2, <3>3 DEF TestedRtl
  <2> QED
    BY <2>4, <2>5
<1>5. CASE Prepare
  <2>1. UNCHANGED commands /\ phase = "planned" /\ fs'.rtl = fs.rtl /\ fs'.test = fs.test /\ fs'.log = fs.log
    BY <1>5, PrepareEffect DEF Prepare
  <2> QED
    BY <2>1 DEF TestedRtl
<1>6. CASE Finish
  <2>1. phase' \notin {"planned", "running"} /\ fs'.rtl = fs.rtl /\ fs'.test = fs.test /\ fs'.log = fs.log
    BY <1>6, FinishEffect DEF Finish, SameArtifacts
  <2> QED
    BY <2>1 DEF TestedRtl
<1>7. CASE Collect \/ CopyPackage \/ LockOutput \/ Archive
  <2>1. fs' = fs /\ phase' \notin {"planned", "running"}
    BY <1>7, PackageEffect
  <2> QED
    BY <2>1 DEF TestedRtl
<1> QED
  BY <1>3, <1>4, <1>5, <1>6, <1>7, StepKinds

\* What an export packages are the RTL in place and the log of a test of it; only
\* a package with a log is verified or archived.
LEMMA PackagesStep == BuildInv /\ BuildNext => TestedPackages'
<1> SUFFICES ASSUME BuildInv, BuildNext PROVE TestedPackages'
  OBVIOUS
<1> USE DEF BuildInv
<1>1. ASSUME UNCHANGED <<pkg, archive>>, phase' \in Packaging => phase \in Packaging
      PROVE  TestedPackages'
  BY <1>1 DEF TestedPackages
<1>2. CASE QuietStep
  <2>1. UNCHANGED <<pkg, archive>> /\ (phase' = phase \/ phase' \notin Packaging)
    BY <1>2 DEF QuietStep, EditSource, EditLlama, ParseRequest, Plan, Idle, CreateByHand, VerifyBuild, Packaging
  <2> QED
    BY <1>1, <2>1
<1>3. ASSUME NEW whole \in BOOLEAN, CommandStep(whole) PROVE TestedPackages'
  BY <1>1, <1>3 DEF CommandStep, Packaging
<1>4. CASE Prepare
  BY <1>1, <1>4 DEF Prepare, Packaging
<1>5. CASE Finish
  BY <1>1, <1>5, FinishEffect DEF Finish, Packaging
<1>6. CASE Collect \/ CopyPackage \/ LockOutput \/ Archive
  <2>1. /\ fs' = fs
        /\ \/ pkg' = pkg /\ (phase' = "idle" \/ phase \in Packaging)
           \/ pkg' \in Package /\ pkg'.log = Missing /\ ~pkg'.verified
           \/ pkg' \in Package /\ ~pkg'.verified /\ pkg'.rtl = fs.rtl /\ pkg'.log \in {fs.log["short"], fs.log["full"]}
           \/ phase \in Packaging /\ pkg' \in Package /\ pkg'.rtl = pkg.rtl /\ pkg'.log = pkg.log /\ (pkg'.verified => pkg.log # Missing)
        /\ archive' = archive \/ (archive' = pkg' /\ pkg' \in Package /\ pkg'.log # Missing)
    BY <1>6, PackageEffect
  <2> DEFINE Tested(p) == (p.log # Missing => p.log.rtl = p.rtl) /\ (p.verified => p.log # Missing)
  <2>2. Tested(pkg') \/ (pkg' = pkg /\ phase' = "idle")
    <3>1. CASE phase \in Packaging /\ pkg'.rtl = pkg.rtl /\ pkg'.log = pkg.log /\ (pkg'.verified => pkg.log # Missing)
      BY <3>1 DEF TestedPackages
    <3>2. CASE pkg' = pkg /\ phase \in Packaging
      BY <3>2 DEF TestedPackages
    <3>3. CASE pkg'.log = Missing /\ ~pkg'.verified
      BY <3>3
    <3>4. CASE ~pkg'.verified /\ pkg'.rtl = fs.rtl /\ pkg'.log \in {fs.log["short"], fs.log["full"]}
      BY <3>4 DEF TestedRtl
    <3> QED
      BY <2>1, <3>1, <3>2, <3>3, <3>4
  <2>3. pkg' # Missing \/ phase' \in Packaging => Tested(pkg')
    BY <2>2 DEF TestedPackages, Packaging
  <2>4. archive' # Missing => archive'.log # Missing /\ archive'.log.rtl = archive'.rtl
    BY <2>1, <2>3 DEF TestedPackages
  <2> QED
    BY <2>3, <2>4 DEF TestedPackages
<1> QED
  BY <1>2, <1>3, <1>4, <1>5, <1>6, StepKinds

\* The llama checkouts only move on, so an identity is never ahead of them.
LEMMA IdentifiedStep == BuildInv /\ BuildNext => Identified'
<1> SUFFICES ASSUME BuildInv, BuildNext PROVE Identified'
  OBVIOUS
<1> USE DEF BuildInv
<1>1. llama \in [Roots -> Nat] /\ (phase # "idle" => request \in Request)
  BY DEF BuildTypes
<1>2. CASE \E stage \in Stages, root \in Roots \cup {Missing} : ParseRequest(stage, root)
  <2>1. PICK stage \in Stages, root \in Roots \cup {Missing} : ParseRequest(stage, root)
    BY <1>2
  <2>2. request'.root = root /\ request'.identity = LlamaIdentity(root) /\ llama' = llama
    BY <2>1 DEF ParseRequest
  <2>3. CASE root = Missing
    BY <2>2, <2>3 DEF Identified, LlamaIdentity
  <2>4. CASE root # Missing
    <3>1. root \in Roots /\ llama[root] \in Nat
      BY <1>1, <2>4
    <3>2. <<root, llama[root]>> \in Roots \X Nat /\ <<root, llama[root]>>[1] = root /\ <<root, llama[root]>>[2] = llama[root]
      BY <3>1
    <3>3. request'.identity = <<root, llama[root]>>
      BY <2>2, <2>4 DEF LlamaIdentity
    <3>4. llama[root] <= llama'[root]
      BY <2>2, <3>1
    <3> DEFINE v == <<root, llama[root]>>
    <3> HIDE DEF v
    <3>5. request'.identity = v /\ v \in Roots \X Nat /\ v[1] = root /\ v[2] <= llama'[root]
      BY <3>2, <3>3, <3>4 DEF v
    <3> QED
      BY <2>2, <2>4, <3>1, <3>5 DEF Identified
  <2> QED
    BY <2>3, <2>4
<1>3. CASE \E r \in Roots : EditLlama(r)
  <2>1. UNCHANGED <<phase, request>> /\ \A r \in Roots : llama[r] \in Nat /\ llama'[r] \in Nat /\ llama[r] <= llama'[r]
    BY <1>1, <1>3 DEF EditLlama
  <2>2. CASE phase \in {"parsed", "planned", "running"} /\ request.root \in Roots /\ request.root # Missing /\ request.identity \in Roots \X Nat
             /\ request.identity[1] = request.root /\ request.identity[2] <= llama[request.root]
    <3>1. request.identity[2] \in Nat
      BY <2>2
    <3>2. request.identity[2] <= llama'[request.root]
      BY <2>1, <2>2, <3>1
    <3> QED
      BY <2>1, <2>2, <3>2 DEF Identified
  <2>3. CASE phase \notin {"parsed", "planned", "running"} \/ (request.root = Missing /\ request.identity = Missing)
    BY <2>1, <2>3 DEF Identified
  <2> QED
    BY <2>2, <2>3 DEF Identified
<1>4. CASE /\ llama' = llama
           /\ \/ phase' \notin {"parsed", "planned", "running"}
              \/ phase \in {"parsed", "planned", "running"} /\ request'.root = request.root /\ request'.identity = request.identity
  BY <1>4 DEF Identified
<1>5. CASE QuietStep
  <2>1. CASE Plan
    <3>1. request' = [request EXCEPT !.plan = IF request.stage = "export" /\ Reusable THEN "short" ELSE "full"] \/ phase' = "idle"
      BY <2>1 DEF Plan, Idle
    <3>2. phase = "parsed" /\ llama' = llama /\ request \in Request
      BY <1>1, <2>1 DEF Plan
    <3>3. phase' = "idle" \/ (request'.root = request.root /\ request'.identity = request.identity)
      BY <3>1, <3>2, RequestTyped
    <3> QED
      BY <1>4, <3>2, <3>3
  <2>2. CASE EditSource \/ VerifyBuild
    <3>1. UNCHANGED <<llama, phase, request>>
      BY <2>2 DEF EditSource, VerifyBuild
    <3> QED
      BY <1>4, <3>1
  <2>3. CASE \E root \in Roots \cup {Missing} : CreateByHand(root)
    BY <1>4, <2>3 DEF CreateByHand
  <2>4. CASE phase = "running" /\ request' = [request EXCEPT !.passed = FALSE] /\ llama' = llama
    <3>1. request'.root = request.root /\ request'.identity = request.identity
      BY <1>1, <2>4, RequestTyped
    <3> QED
      BY <1>4, <2>4, <3>1
  <2>5. CASE phase' = "idle" /\ llama' = llama
    BY <1>4, <2>5
  <2> QED
    BY <1>2, <1>3, <1>5, <2>1, <2>2, <2>3, <2>4, <2>5 DEF QuietStep
<1>6. ASSUME NEW whole \in BOOLEAN, CommandStep(whole) PROVE Identified'
  <2>1. phase = "running" /\ llama' = llama /\ request \in Request
    BY <1>1, <1>6 DEF CommandStep
  <2>2. phase' = "idle" \/ (request'.root = request.root /\ request'.identity = request.identity)
    BY <1>6, <2>1, RequestTyped, ZenonT(60) DEF CommandStep
  <2> QED
    BY <1>4, <2>1, <2>2
<1>7. CASE Prepare
  <2>1. phase = "planned" /\ UNCHANGED <<llama, request>>
    BY <1>7 DEF Prepare
  <2> QED
    BY <1>4, <2>1
<1>8. CASE Finish
  <2>1. phase' \in {"idle", "collect"} /\ llama' = llama
    BY <1>8, FinishEffect DEF Finish
  <2> QED
    BY <1>4, <2>1
<1>9. CASE Collect \/ CopyPackage \/ LockOutput \/ Archive
  <2>1. phase' \in {"idle", "copy", "lock", "archive"} /\ llama' = llama
    BY <1>9, PackageEffect
  <2> QED
    BY <1>4, <2>1
<1> QED
  BY <1>5, <1>6, <1>7, <1>8, <1>9, StepKinds

\* The commands of a host test by number
LEMMA HostStep ==
    /\ HostSteps \in Seq(CommandNames) /\ Len(HostSteps) = 10
    /\ \A k \in 0 .. 9 : /\ HostSteps[k + 1] = "elaborate" <=> k = 1
                         /\ HostSteps[k + 1] = "build" <=> k = 4
                         /\ HostSteps[k + 1] = "run_aware" <=> k = 5
                         /\ HostSteps[k + 1] = "compile" <=> k = 8
<1>1. /\ HostSteps \in Seq(CommandNames) /\ Len(HostSteps) = 10
      /\ HostSteps[1] = "overlay" /\ HostSteps[2] = "elaborate" /\ HostSteps[3] = "lint"
      /\ HostSteps[4] = "configure" /\ HostSteps[5] = "build" /\ HostSteps[6] = "run_aware"
      /\ HostSteps[7] = "ctest" /\ HostSteps[8] = "audit" /\ HostSteps[9] = "compile" /\ HostSteps[10] = "run"
  BY DEF HostSteps, CommandNames
<1> QED
  BY <1>1

\* A host test goes on: its next command works on the sources as they are, which
\* are the recorded ones or later ones.
LEMMA HostProgresses ==
    ASSUME BuildInv, NEW k \in 0 .. 10, HostProgress(k), CommandStep(TRUE),
           commands' = Tail(commands), request' = request
    PROVE  k + 1 \in 0 .. 10 /\ HostProgress(k + 1)'
<1> USE DEF BuildInv
<1> DEFINE command == Head(commands)
<1>1. /\ commands # << >> /\ commands \in Seq(CommandNames) /\ UNCHANGED <<source, llama>> /\ source \in Nat /\ llama \in [Roots -> Nat]
      /\ request \in Request /\ fs \in Directory
  BY DEF CommandStep, BuildTypes
<1>2. k \in 0 .. 9 /\ command = HostSteps[k + 1]
  <2>1. Len(commands) = 10 - k /\ Len(commands) # 0
    BY <1>1 DEF HostProgress
  <2>2. k \in 0 .. 9 /\ 1 \in 1 .. 10 - k
    BY <2>1
  <2>3. commands[1] = HostSteps[k + 1] /\ command = commands[1]
    BY <1>1, <2>2 DEF HostProgress
  <2> QED
    BY <2>2, <2>3
<1>3. /\ command = "elaborate" <=> k = 1
      /\ command = "build" <=> k = 4
      /\ command = "run_aware" <=> k = 5
      /\ command = "compile" <=> k = 8
  BY <1>2, HostStep
<1> DEFINE root == LlamaRoot(request.root)
<1>4. /\ fs'.inputs = fs.inputs
      /\ fs'.rtl = IF command = "elaborate" THEN [source |-> source, whole |-> TRUE] ELSE fs.rtl
      /\ fs'.lib = IF command = "build" THEN [source |-> source, llama |-> <<root, llama[root]>>, whole |-> TRUE] ELSE fs.lib
      /\ fs'.aware = IF command = "run_aware" THEN [rtl |-> fs.rtl, lib |-> fs.lib, whole |-> TRUE] ELSE fs.aware
      /\ fs'.test = IF command = "compile" THEN [rtl |-> fs.rtl, lib |-> fs.lib, whole |-> TRUE] ELSE fs.test
  BY CommandEffect
<1> HIDE DEF command, root
<1>5. Len(commands') = 10 - (k + 1) /\ \A i \in 1 .. 10 - (k + 1) : commands'[i] = HostSteps[(k + 1) + i]
  <2>1. Len(commands) = 10 - k
    BY DEF HostProgress
  <2>2. Len(commands') = 9 - k /\ \A i \in 1 .. 9 - k : commands'[i] = commands[i + 1]
    BY <1>1, <2>1
  <2>3. ASSUME NEW i \in 1 .. 9 - k PROVE commands'[i] = HostSteps[(k + 1) + i]
    <3>1. i + 1 \in 1 .. 10 - k /\ k + (i + 1) = (k + 1) + i
      BY <1>2
    <3>2. commands[i + 1] = HostSteps[k + (i + 1)]
      BY <3>1 DEF HostProgress
    <3> QED
      BY <2>2, <3>1, <3>2
  <2>4. 10 - (k + 1) = 9 - k
    BY <1>2
  <2> QED
    BY <2>2, <2>3, <2>4
<1>6. fs.inputs \in Inputs /\ fs.inputs.llama = request.identity /\ fs.inputs.source <= source /\ fs.inputs.source \in Nat
  BY DEF HostProgress, Inputs
<1>7. k + 1 >= 2 => fs'.rtl \in Rtl /\ fs'.rtl.whole /\ fs.inputs.source <= fs'.rtl.source /\ fs'.rtl.source <= source
  <2>1. CASE k = 1
    <3>1. fs'.rtl = [source |-> source, whole |-> TRUE]
      BY <1>3, <1>4, <2>1
    <3> QED
      BY <1>1, <1>6, <3>1 DEF Rtl
  <2>2. CASE k # 1
    <3>1. fs'.rtl = fs.rtl
      BY <1>3, <1>4, <2>2
    <3>2. k + 1 >= 2 => k >= 2
      BY <1>2, <2>2
    <3> QED
      BY <3>1, <3>2 DEF HostProgress
  <2> QED
    BY <2>1, <2>2
<1>8. k + 1 >= 5 => /\ fs'.lib \in Library /\ fs'.lib.whole /\ fs.inputs.source <= fs'.lib.source /\ fs'.lib.source <= source
                    /\ request.root # Missing =>
                          /\ fs'.lib.llama \in Roots \X Nat /\ fs'.lib.llama[1] = request.root
                          /\ request.identity[2] <= fs'.lib.llama[2] /\ fs'.lib.llama[2] <= llama[request.root]
  <2>1. CASE k = 4
    <3> DEFINE v == <<root, llama[root]>>
    <3>1. root \in Roots /\ (request.root # Missing => root = request.root)
      BY <1>1, BuildAssumption DEF root, LlamaRoot, Request
    <3>2. v \in Roots \X Nat /\ v[1] = root /\ v[2] = llama[root] /\ llama[root] \in Nat
      BY <1>1, <3>1
    <3>3. fs'.lib = [source |-> source, llama |-> v, whole |-> TRUE]
      BY <1>3, <1>4, <2>1
    <3> HIDE DEF v
    <3>4. fs'.lib \in Library /\ fs'.lib.whole = TRUE /\ fs'.lib.source = source /\ fs'.lib.llama = v
      BY <1>1, <3>2, <3>3 DEF Library, Checkout
    <3>5. request.root # Missing => request.identity[2] <= llama[request.root]
      BY DEF Identified, CommandStep
    <3> QED
      BY <1>1, <1>6, <3>1, <3>2, <3>4, <3>5
  <2>2. CASE k # 4
    <3>1. fs'.lib = fs.lib
      BY <1>3, <1>4, <2>2
    <3>2. k + 1 >= 5 => k >= 5
      BY <1>2, <2>2
    <3> QED
      BY <3>1, <3>2 DEF HostProgress
  <2> QED
    BY <2>1, <2>2
<1>9. k + 1 >= 6 => fs'.aware = [rtl |-> fs'.rtl, lib |-> fs'.lib, whole |-> TRUE]
  <2>1. k >= 5 => fs'.rtl = fs.rtl /\ fs'.lib = fs.lib
    BY <1>2, <1>3, <1>4
  <2>2. CASE k = 5
    BY <1>3, <1>4, <2>1, <2>2
  <2>3. CASE k # 5
    <3>1. fs'.aware = fs.aware
      BY <1>3, <1>4, <2>3
    <3>2. k + 1 >= 6 => k >= 6
      BY <1>2, <2>3
    <3>3. k >= 6 => fs.aware = [rtl |-> fs.rtl, lib |-> fs.lib, whole |-> TRUE]
      BY DEF HostProgress
    <3>4. k >= 6 => k >= 5
      BY <1>2
    <3> QED
      BY <2>1, <3>1, <3>2, <3>3, <3>4
  <2> QED
    BY <2>2, <2>3
<1>10. k + 1 >= 9 => fs'.test = [rtl |-> fs'.rtl, lib |-> fs'.lib, whole |-> TRUE]
  <2>1. k >= 8 => fs'.rtl = fs.rtl /\ fs'.lib = fs.lib
    BY <1>2, <1>3, <1>4
  <2>2. CASE k = 8
    BY <1>3, <1>4, <2>1, <2>2
  <2>3. CASE k # 8
    <3>1. fs'.test = fs.test
      BY <1>3, <1>4, <2>3
    <3>2. k + 1 >= 9 => k >= 9
      BY <1>2, <2>3
    <3>3. k >= 9 => fs.test = [rtl |-> fs.rtl, lib |-> fs.lib, whole |-> TRUE]
      BY DEF HostProgress
    <3>4. k >= 9 => k >= 8
      BY <1>2
    <3> QED
      BY <2>1, <3>1, <3>2, <3>3, <3>4
  <2> QED
    BY <2>2, <2>3
<1>11. k + 1 \in 0 .. 10
  BY <1>2
<1>12. fs'.inputs = fs.inputs /\ source' = source /\ llama' = llama
  BY <1>1, <1>4
<1> QED
  BY <1>5, <1>6, <1>7, <1>8, <1>9, <1>10, <1>11, <1>12 DEF HostProgress

\* The sources and the checkouts only move on, which takes nothing back.
LEMMA HostProgressKept ==
    ASSUME BuildInv, NEW k \in 0 .. 10, HostProgress(k), phase = "running", EditSource \/ \E r \in Roots : EditLlama(r)
    PROVE  HostProgress(k)'
<1>1. /\ source \in Nat /\ source' \in Nat /\ source <= source' /\ UNCHANGED <<fs, request, commands>>
      /\ llama \in [Roots -> Nat] /\ \A r \in Roots : llama[r] \in Nat /\ llama'[r] \in Nat /\ llama[r] <= llama'[r]
  BY DEF EditSource, EditLlama, BuildInv, BuildTypes
<1>2. fs.inputs \in Inputs /\ fs.inputs.source \in Nat /\ fs.inputs.source <= source'
  BY <1>1 DEF HostProgress, Inputs
<1>3. k >= 2 => fs.rtl.source <= source'
  <2>1. k >= 2 => fs.rtl.source \in Nat /\ fs.rtl.source <= source
    BY DEF HostProgress, Rtl
  <2> QED
    BY <1>1, <2>1
<1>4. k >= 5 => fs.lib.source <= source'
  <2>1. k >= 5 => fs.lib.source \in Nat /\ fs.lib.source <= source
    BY DEF HostProgress, Library
  <2> QED
    BY <1>1, <2>1
<1>5. k >= 5 /\ request.root # Missing => fs.lib.llama[2] <= llama'[request.root]
  <2>1. request.root # Missing => request.root \in Roots
    BY DEF BuildInv, Identified
  <2>2. k >= 5 /\ request.root # Missing => fs.lib.llama[2] \in Nat /\ fs.lib.llama[2] <= llama[request.root]
    BY DEF HostProgress
  <2> QED
    BY <1>1, <2>1, <2>2
<1> QED
  BY <1>1, <1>2, <1>3, <1>4, <1>5 DEF HostProgress

\* A host test that has not failed has made its artifacts from the recorded
\* inputs or from later sources.
LEMMA HostTestStep == BuildInv /\ BuildNext => HostTest'
<1> SUFFICES ASSUME BuildInv, BuildNext PROVE HostTest'
  OBVIOUS
<1> USE DEF BuildInv
<1>1. CASE phase' \notin {"planned", "running"}
  BY <1>1 DEF HostTest
<1>2. CASE phase' = "running" /\ ~request'.passed
  BY <1>2 DEF HostTest
<1>3. CASE QuietStep
  <2>1. CASE EditSource \/ \E r \in Roots : EditLlama(r)
    <3>1. UNCHANGED <<phase, request, commands>>
      BY <2>1 DEF EditSource, EditLlama
    <3>2. CASE phase = "running" /\ request.stage = "host-test" /\ request.passed
      <4>1. PICK k \in 0 .. 10 : HostProgress(k)
        BY <3>2 DEF HostTest
      <4>2. HostProgress(k)'
        BY <2>1, <3>2, <4>1, HostProgressKept
      <4> QED
        BY <3>1, <3>2, <4>2 DEF HostTest
    <3>3. CASE ~(phase = "running" /\ request.stage = "host-test" /\ request.passed)
      BY <3>1, <3>3 DEF HostTest
    <3> QED
      BY <3>2, <3>3
  <2>2. CASE Plan /\ phase' = "planned"
    <3>1. commands' = Commands(request.stage) /\ request.stage \in Stages /\ request \in Request
          /\ request' = [request EXCEPT !.plan = IF request.stage = "export" /\ Reusable THEN "short" ELSE "full"]
      BY <2>2 DEF Plan, Idle, RunPhases, BuildTypes
    <3>2. request'.stage = request.stage
      BY <3>1, RequestTyped
    <3>3. request.stage = "host-test" => commands' = HostSteps
      BY <3>1, CommandsOf
    <3> QED
      BY <2>2, <3>2, <3>3 DEF HostTest
  <2>3. CASE phase = "running" /\ phase' = "running" /\ request' = [request EXCEPT !.passed = FALSE]
    <3>1. ~request'.passed
      BY <2>3, RequestTyped DEF BuildTypes
    <3> QED
      BY <1>2, <2>3, <3>1
  <2>4. phase' \notin {"planned", "running"} \/ EditSource \/ (\E r \in Roots : EditLlama(r)) \/ (Plan /\ phase' = "planned")
        \/ (phase = "running" /\ phase' = "running" /\ request' = [request EXCEPT !.passed = FALSE])
    BY <1>3 DEF QuietStep, ParseRequest, CreateByHand, VerifyBuild, Plan, Idle
  <2> QED
    BY <1>1, <2>1, <2>2, <2>3, <2>4
<1>4. ASSUME NEW whole \in BOOLEAN, CommandStep(whole) PROVE HostTest'
  <2>1. phase = "running" /\ request \in Request
    BY <1>4 DEF CommandStep, BuildTypes
  <2>2. CASE whole /\ commands' = Tail(commands) /\ UNCHANGED <<phase, request>>
    <3>1. CASE request.stage = "host-test" /\ request.passed
      <4>1. PICK k \in 0 .. 10 : HostProgress(k)
        BY <2>1, <3>1 DEF HostTest
      <4>2. CommandStep(TRUE)
        BY <1>4, <2>2
      <4>3. k + 1 \in 0 .. 10 /\ HostProgress(k + 1)'
        BY <2>2, <4>1, <4>2, HostProgresses
      <4> QED
        BY <2>1, <2>2, <4>3 DEF HostTest
    <3>2. CASE ~(request.stage = "host-test" /\ request.passed)
      BY <2>1, <2>2, <3>2 DEF HostTest
    <3> QED
      BY <3>1, <3>2
  <2>3. CASE phase' = "idle"
    BY <1>1, <2>3
  <2>4. CASE phase' = "running" /\ request' = [request EXCEPT !.passed = FALSE]
    <3>1. ~request'.passed
      BY <2>1, <2>4, RequestTyped
    <3> QED
      BY <1>2, <2>4, <3>1
  <2> QED
    BY <1>4, <2>2, <2>3, <2>4 DEF CommandStep
<1>5. CASE Prepare
  <2>1. phase = "planned" /\ phase' = "running" /\ UNCHANGED <<source, llama, request, commands>> /\ request \in Request /\ source \in Nat
    BY <1>5 DEF Prepare, BuildTypes
  <2>2. CASE request.stage = "host-test"
    <3>1. commands = HostSteps
      BY <2>1, <2>2 DEF HostTest
    <3>2. fs'.inputs = [source |-> source, llama |-> request.identity] /\ request.identity \in Checkout
      BY <1>5, <2>1, <2>2, PrepareEffect DEF Request
    <3>3. fs'.inputs \in Inputs /\ fs'.inputs.llama = request.identity /\ fs'.inputs.source = source
      BY <2>1, <3>2 DEF Inputs
    <3>4. Len(commands) = 10 - 0 /\ \A i \in 1 .. 10 - 0 : commands[i] = HostSteps[0 + i]
      BY <3>1, HostStep
    <3>5. HostProgress(0)'
      BY <2>1, <3>3, <3>4 DEF HostProgress
    <3> QED
      BY <2>1, <3>5 DEF HostTest
  <2>3. CASE request.stage # "host-test"
    BY <2>1, <2>3 DEF HostTest
  <2> QED
    BY <2>2, <2>3
<1>6. CASE Finish
  BY <1>1, <1>6, FinishEffect
<1>7. CASE Collect \/ CopyPackage \/ LockOutput \/ Archive
  BY <1>1, <1>7, PackageEffect
<1> QED
  BY <1>3, <1>4, <1>5, <1>6, <1>7, StepKinds


\* seal_build binds what a host test that passed has made: the inputs are as they
\* were recorded when it started, so nothing it used was anything else.
LEMMA SealingExact ==
    ASSUME BuildInv, phase = "running", commands = << >>, request.stage = "host-test", request.passed, Sealable
    PROVE  MadeFrom(fs.inputs, Artifacts)
<1> USE DEF BuildInv
<1>1. PICK k \in 0 .. 10 : HostProgress(k)
  BY DEF HostTest
<1>2. k = 10
  <2>1. Len(commands) = 0 /\ Len(commands) = 10 - k
    BY <1>1 DEF HostProgress
  <2> QED
    BY <2>1
<1>3. /\ fs.inputs \in Inputs /\ fs.inputs.llama = request.identity /\ fs.inputs.source <= source
      /\ fs.rtl \in Rtl /\ fs.rtl.whole /\ fs.inputs.source <= fs.rtl.source /\ fs.rtl.source <= source
      /\ fs.lib \in Library /\ fs.lib.whole /\ fs.inputs.source <= fs.lib.source /\ fs.lib.source <= source
      /\ fs.aware = [rtl |-> fs.rtl, lib |-> fs.lib, whole |-> TRUE]
      /\ fs.test = [rtl |-> fs.rtl, lib |-> fs.lib, whole |-> TRUE]
  BY <1>1, <1>2 DEF HostProgress
<1>4. request.root # Missing =>
         /\ fs.lib.llama \in Roots \X Nat /\ fs.lib.llama[1] = request.root
         /\ request.identity[2] <= fs.lib.llama[2] /\ fs.lib.llama[2] <= llama[request.root]
  BY <1>1, <1>2 DEF HostProgress
<1>5. source \in Nat /\ fs.inputs.source = source
  BY DEF Sealable, BuildInputs, BuildTypes
<1>6. fs.rtl.source = source /\ fs.lib.source = source
  <2>1. fs.rtl.source \in Nat /\ fs.lib.source \in Nat
    BY <1>3 DEF Rtl, Library
  <2> QED
    BY <1>3, <1>5, <2>1
<1>7. fs.rtl = [source |-> source, whole |-> TRUE]
  <2>1. fs.rtl.whole = TRUE
    BY <1>3 DEF Rtl
  <2> QED
    BY <1>3, <1>6, <2>1 DEF Rtl
<1>8. fs.inputs.llama # Missing => fs.lib.llama = fs.inputs.llama
  <2> SUFFICES ASSUME fs.inputs.llama # Missing PROVE fs.lib.llama = request.identity
    BY <1>3
  <2>1. request.root # Missing /\ request.root \in Roots /\ request.identity \in Roots \X Nat
        /\ request.identity[1] = request.root
    BY <1>3 DEF Identified
  <2>2. llama[request.root] \in Nat /\ request.identity = <<request.root, llama[request.root]>>
    BY <2>1 DEF Sealable, LlamaIdentity, BuildTypes
  <2>3. request.identity[2] = llama[request.root]
    BY <2>2
  <2>4. fs.lib.llama[2] \in Nat
    BY <1>4, <2>1
  <2>5. fs.lib.llama[2] = request.identity[2]
    BY <1>4, <2>1, <2>2, <2>3, <2>4
  <2> QED
    BY <1>4, <2>1, <2>5
<1>9. /\ Artifacts.rtl = fs.rtl /\ Artifacts.lib = fs.lib /\ Artifacts.test = fs.test /\ Artifacts.aware = fs.aware
  BY DEF Artifacts
<1>10. fs.lib.whole = TRUE
  BY <1>3 DEF Library
<1> QED
  BY <1>3, <1>5, <1>6, <1>7, <1>8, <1>9, <1>10 DEF MadeFrom

\* Only the end of a host test writes a binding, and that one is exact.
LEMMA SealedStep == BuildInv /\ BuildNext => Sealed'
<1> SUFFICES ASSUME BuildInv, BuildNext PROVE Sealed'
  OBVIOUS
<1>1. CASE fs'.binding = fs.binding
  BY <1>1 DEF BuildInv, Sealed, MadeFrom
<1>2. CASE QuietStep
  BY <1>1, <1>2 DEF QuietStep
<1>3. ASSUME NEW whole \in BOOLEAN, CommandStep(whole) PROVE Sealed'
  BY <1>1, <1>3, CommandEffect DEF BuildInv
<1>4. CASE Prepare
  BY <1>1, <1>4, PrepareEffect DEF BuildInv
<1>5. CASE Finish
  <2>1. CASE request.stage = "host-test" /\ request.passed /\ Sealable /\ fs'.binding = [inputs |-> fs.inputs, artifacts |-> Artifacts]
    <3>1. MadeFrom(fs.inputs, Artifacts)
      BY <1>5, <2>1, SealingExact DEF Finish
    <3>2. fs'.binding.inputs = fs.inputs /\ fs'.binding.artifacts = Artifacts
      BY <2>1
    <3> QED
      BY <3>1, <3>2 DEF Sealed, MadeFrom
  <2> QED
    BY <1>1, <1>5, <2>1, FinishEffect DEF BuildInv
<1>6. CASE Collect \/ CopyPackage \/ LockOutput \/ Archive
  BY <1>1, <1>6, PackageEffect DEF BuildInv
<1> QED
  BY <1>2, <1>3, <1>4, <1>5, <1>6, StepKinds

\* verify_build accepts a binding whose artifacts are the ones in place and whose
\* inputs are the sources as they are; a verdict does not outlive either.
LEMMA AcceptedStep == BuildInv /\ BuildNext => AcceptedBuildExact'
<1> SUFFICES ASSUME BuildInv, BuildNext PROVE AcceptedBuildExact'
  OBVIOUS
<1>1. CASE verdict' = "none"
  BY <1>1 DEF AcceptedBuildExact
<1>2. CASE UNCHANGED <<verdict, fs, source>>
  BY <1>2 DEF BuildInv, AcceptedBuildExact
<1>3. CASE VerifyBuild
  <2>1. UNCHANGED <<fs, source>>
    BY <1>3 DEF VerifyBuild
  <2>2. CASE verdict' = "accepted"
    <3>1. /\ fs.binding # Missing /\ fs.binding.inputs.source = source
          /\ fs.resolved = fs.binding.inputs.llama /\ fs.binding.artifacts = Artifacts
      BY <1>3, <2>2 DEF VerifyBuild, ValidBinding
    <3> DEFINE inputs == fs.binding.inputs
               artifacts == fs.binding.artifacts
    <3>2. MadeFrom(inputs, artifacts)
      BY <3>1 DEF BuildInv, Sealed
    <3>3. /\ artifacts.rtl = fs.rtl /\ artifacts.lib = fs.lib /\ artifacts.test = fs.test /\ artifacts.aware = fs.aware
      BY <3>1 DEF Artifacts
    <3>4. inputs.source = source /\ inputs.llama = fs.resolved
      BY <3>1
    <3> HIDE DEF inputs, artifacts
    <3> QED
      BY <2>1, <3>2, <3>3, <3>4 DEF AcceptedBuildExact, MadeFrom
  <2> QED
    BY <2>2 DEF AcceptedBuildExact
<1>4. CASE QuietStep
  <2>1. \/ verdict' = "none" \/ UNCHANGED <<verdict, fs, source>> \/ VerifyBuild
    BY <1>4 DEF QuietStep, EditSource, EditLlama, ParseRequest, Plan, CreateByHand
  <2> QED
    BY <1>1, <1>2, <1>3, <2>1
<1>5. ASSUME NEW whole \in BOOLEAN, CommandStep(whole) PROVE AcceptedBuildExact'
  BY <1>1, <1>5 DEF CommandStep
<1>6. CASE Prepare
  BY <1>1, <1>6 DEF Prepare
<1>7. CASE Finish
  BY <1>1, <1>7 DEF Finish, BuildInv, RunPhases
<1>8. CASE Collect \/ CopyPackage \/ LockOutput \/ Archive
  BY <1>2, <1>8, PackageEffect DEF BuildInv
<1> QED
  BY <1>4, <1>5, <1>6, <1>7, <1>8, StepKinds

\* Nothing is built yet.
LEMMA BuildInitial == BuildInit => BuildInv
<1> SUFFICES ASSUME BuildInit PROVE BuildInv
  OBVIOUS
<1> USE DEF BuildInit
<1>1. fs = Absent /\ phase = "idle" /\ verdict = "none" /\ pkg = Missing /\ archive = Missing
  OBVIOUS
<1>2. Absent \in Directory /\ Absent.binding = Missing /\ ~Absent.exists /\ Absent.test = Missing
      /\ Absent.log["short"] = Missing /\ Absent.log["full"] = Missing
  <2> DEFINE log == [short |-> Missing, full |-> Missing]
  <2>1. log \in [{"short", "full"} -> Test \cup {Missing}] /\ log["short"] = Missing /\ log["full"] = Missing
    OBVIOUS
  <2>2. Absent = [exists |-> FALSE, rtl |-> Missing, resolved |-> Missing, inputs |-> Missing, lib |-> Missing, aware |-> Missing, audit |-> Missing,
                  test |-> Missing, log |-> log, binding |-> Missing, doc |-> Missing]
    BY DEF Absent
  <2> HIDE DEF log
  <2> QED
    BY <2>1, <2>2 DEF Directory, Checkout
<1>3. BuildTypes
  BY <1>1, <1>2 DEF BuildTypes
<1>4. RunPhases /\ Identified /\ HostTest /\ AcceptedBuildExact
  BY <1>1 DEF RunPhases, Identified, HostTest, AcceptedBuildExact
<1>5. Sealed
  BY <1>1, <1>2 DEF Sealed
<1>6. TestedRtl
  BY <1>1, <1>2 DEF TestedRtl
<1>7. TestedPackages
  BY <1>1 DEF TestedPackages, Packaging
<1> QED
  BY <1>3, <1>4, <1>5, <1>6, <1>7 DEF BuildInv

\* Every step keeps it.
LEMMA BuildStep == BuildInv /\ [BuildNext]_buildVars => BuildInv'
<1>1. BuildInv /\ BuildNext => BuildInv'
  BY PhasesStep, TestedStep, PackagesStep, IdentifiedStep, HostTestStep, SealedStep, AcceptedStep DEF BuildInv
<1>2. ASSUME BuildInv, UNCHANGED buildVars PROVE BuildInv'
  <2> USE <1>2 DEF buildVars, BuildInv
  <2>1. BuildTypes' /\ RunPhases'
    BY DEF BuildTypes, RunPhases
  <2>2. TestedRtl' /\ TestedPackages' /\ Identified'
    BY DEF TestedRtl, TestedPackages, Identified
  <2>3. HostTest'
    BY DEF HostTest, HostProgress
  <2>4. Sealed' /\ AcceptedBuildExact'
    BY DEF Sealed, MadeFrom, AcceptedBuildExact
  <2> QED
    BY <2>1, <2>2, <2>3, <2>4
<1> QED
  BY <1>1, <1>2

\* The inductive invariant of the build stages, for every set of checkouts, any
\* number of edits, faults and runs.
THEOREM BuildInvariant == BuildSpec => []BuildInv
  BY BuildInitial, BuildStep, PTL DEF BuildSpec

\* verify_build: an accepted directory holds RTL, library and tests that were all
\* made from the sources as they are, and from the named checkout as it was
\* identified.
THEOREM BuildAcceptedExact == BuildSpec => []AcceptedBuildExact
<1>1. BuildInv => AcceptedBuildExact
  BY DEF BuildInv
<1> QED
  BY <1>1, BuildInvariant, PTL

\* create_export: the log of a verified or archived package is of a test of the
\* packaged RTL.
THEOREM BuildPackageTested == BuildSpec => []PackageTested
<1>1. BuildInv => PackageTested
  <2> SUFFICES ASSUME BuildInv, NEW p \in {pkg, archive} \ {Missing}, p.verified \/ p = archive PROVE p.log.rtl = p.rtl
    BY DEF PackageTested
  <2> QED
    BY DEF BuildInv, TestedPackages
<1> QED
  BY <1>1, BuildInvariant, PTL
=============================================================================
