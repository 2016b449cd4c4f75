---------------------------- MODULE RealLibCache ----------------------------
(***************************************************************************)
(* The cache of real frontend libraries of one public identity:            *)
(* scripts/real_lib_cache.py, real_lib_materialize.py, real_lib_manifest.py *)
(* and real_lib_toolchain.py.  Several `ensure` processes share a build     *)
(* directory.  Each reads the toolchain and the sources into a fingerprint, *)
(* takes the lock of the identity, reuses or builds the entry of that       *)
(* fingerprint, copies its two archives into a new generation and switches  *)
(* the pointer `current` to it.  Files are edited, entries and generations  *)
(* damaged and processes killed at any point.                               *)
(*                                                                          *)
(* A file is its revision.  An archive is the number of the build it comes  *)
(* from, 0 when it is damaged.                                              *)
(***************************************************************************)
EXTENDS Naturals, FiniteSets, Sequences, TLC

CONSTANTS
    None,
    Processes,
    MaxEdits, MaxTampers, MaxKills, MaxEnsures   \* bounds of the instance

ASSUME CacheAssumption == None \notin Nat

Files == {"tools", "rtl", "frontend"}   \* frontend: sources outside the hardware contract

VARIABLES
    file, edits, tampers, kills,
    holders,        \* processes that hold the identity's lock file
    builds,         \* <<what was read>> for every build that finished
    entries,        \* fingerprint -> [archives, damaged]
    generations,    \* sequence of [fp, archives, damaged, present]
    current,        \* index of a generation, or None
    pc, ensures, key, rows, made

cacheVars == <<file, edits, tampers, kills, holders, builds, entries, generations, current, pc, ensures, key, rows, made>>
disk == <<entries, generations, current>>
world == <<file, edits, tampers, kills>>
private == <<key, rows, made>>

CacheInit ==
    /\ file = [f \in Files |-> 0]
    /\ edits = 0 /\ tampers = 0 /\ kills = 0
    /\ holders = {}
    /\ builds = << >> /\ entries = << >> /\ generations = << >> /\ current = None
    /\ pc = [p \in Processes |-> "IDLE"]
    /\ ensures = [p \in Processes |-> 0]
    /\ key = [p \in Processes |-> None]
    /\ rows = [p \in Processes |-> << >>]
    /\ made = [p \in Processes |-> << >>]

Goto(p, label) == pc' = [pc EXCEPT ![p] = label]
Turn(p, label) == pc[p] = label /\ UNCHANGED <<world, ensures>>
Leave(p, label) == Goto(p, label) /\ holders' = holders \ {p}

(***************************************************************************)
(* Before the lock: toolchain, hardware contract and fingerprint            *)
(***************************************************************************)
CollectToolchain(p) ==
    /\ pc[p] \in {"IDLE", "DONE", "FAILED"} /\ ensures[p] < MaxEnsures
    /\ ensures' = [ensures EXCEPT ![p] = @ + 1]
    /\ key' = [key EXCEPT ![p] = [tools |-> file["tools"], contract |-> file["rtl"], frontend |-> None, rtl |-> None]]
    /\ rows' = [rows EXCEPT ![p] = << >>] /\ made' = [made EXCEPT ![p] = << >>]
    /\ Goto(p, "FINGERPRINT")
    /\ UNCHANGED <<world, holders, builds, disk>>

IdentityFingerprint(p) ==
    /\ Turn(p, "FINGERPRINT")
    /\ key' = [key EXCEPT ![p].frontend = file["frontend"], ![p].rtl = file["rtl"]]
    /\ Goto(p, "LOCK")
    /\ UNCHANGED <<holders, builds, disk, rows, made>>

\* Fault: the lock is one per fingerprint.
LockFreePerKey(p) == \A q \in holders : key[q] /= key[p]

LockFree(p) == holders = {}

Lock(p) ==
    /\ Turn(p, "LOCK") /\ LockFree(p)
    /\ holders' = holders \cup {p}
    /\ Goto(p, "ENTRY")
    /\ UNCHANGED <<builds, disk, private>>

(***************************************************************************)
(* The entry: reused, removed or built                                      *)
(***************************************************************************)
\* verify_manifest of an entry or a generation against the expected fingerprint
VerifyManifest(manifest, fp) == manifest.fp = fp /\ ~manifest.damaged

Entry(p) ==
    /\ Turn(p, "ENTRY")
    /\ IF key[p] \in DOMAIN entries /\ VerifyManifest(entries[key[p]], key[p])
       THEN /\ rows' = [rows EXCEPT ![p] = entries[key[p]].archives]
            /\ Goto(p, "SELECT") /\ UNCHANGED entries
       ELSE /\ entries' = [k \in DOMAIN entries \ {key[p]} |-> entries[k]]
            /\ Goto(p, "BUILD") /\ UNCHANGED rows
    /\ UNCHANGED <<holders, builds, generations, current, key, made>>

\* run_builder: the generator and the model read the RTL, make the rest
RunBuilder(p) ==
    \/ /\ Turn(p, "BUILD")
       /\ made' = [made EXCEPT ![p] = <<file["tools"], file["rtl"]>>]
       /\ Goto(p, "MAKE")
       /\ UNCHANGED <<holders, builds, disk, key, rows>>
    \/ /\ Turn(p, "MAKE")
       /\ made' = [made EXCEPT ![p] = Append(@, file["frontend"])]
       /\ Goto(p, "PUBLISH")
       /\ UNCHANGED <<holders, builds, disk, key, rows>>
    \/ /\ Turn(p, "MAKE")           \* a status other than 0
       /\ Leave(p, "FAILED")
       /\ UNCHANGED <<builds, disk, private>>

\* The contract is read again, the archives are staged, verified and renamed.
PublishEntry(p) ==
    /\ Turn(p, "PUBLISH")
    /\ IF file["rtl"] = key[p].contract
       THEN LET n == Len(builds) + 1 IN
            /\ builds' = Append(builds, made[p])
            /\ entries' = [k \in DOMAIN entries \cup {key[p]} |->
                             IF k = key[p] THEN [fp |-> key[p], archives |-> <<n, n>>, damaged |-> FALSE]
                             ELSE entries[k]]
            /\ rows' = [rows EXCEPT ![p] = <<n, n>>]
            /\ Goto(p, "SELECT") /\ UNCHANGED holders
       ELSE Leave(p, "FAILED") /\ UNCHANGED <<builds, entries, rows>>
    /\ made' = [made EXCEPT ![p] = << >>]
    /\ UNCHANGED <<generations, current, key>>

(***************************************************************************)
(* materialize                                                              *)
(***************************************************************************)
Resolves == current /= None /\ generations[current].present

Select(p) ==
    /\ Turn(p, "SELECT")
    /\ IF current /= None /\ ~Resolves THEN Leave(p, "FAILED")
       ELSE IF current /= None /\ VerifyManifest(generations[current], key[p]) THEN Goto(p, "SELECTED") /\ UNCHANGED holders
       ELSE Goto(p, "COPY") /\ UNCHANGED holders
    /\ UNCHANGED <<builds, disk, private>>

\* Fault: the copy is not compared with the verified rows.
CopyUnverified(p, archive) == TRUE

CopyVerified(p, archive) == archive = rows[p][Len(made[p]) + 1]

\* One archive is copied from the entry and compared with its verified row.
Copy(p) ==
    /\ Turn(p, "COPY")
    /\ LET archive == IF key[p] \in DOMAIN entries THEN entries[key[p]].archives[Len(made[p]) + 1] ELSE None IN
       IF archive /= None /\ CopyVerified(p, archive)
       THEN /\ made' = [made EXCEPT ![p] = Append(@, archive)]
            /\ Goto(p, IF Len(made[p]) = 1 THEN "GENERATION" ELSE "COPY") /\ UNCHANGED holders
       ELSE Leave(p, "FAILED") /\ UNCHANGED made
    /\ UNCHANGED <<builds, disk, key, rows>>

\* Manifest, verification and the rename of the finished directory
Generation(p) ==
    /\ Turn(p, "GENERATION")
    /\ generations' = Append(generations, [fp |-> key[p], archives |-> made[p], damaged |-> FALSE, present |-> TRUE])
    /\ made' = [made EXCEPT ![p] = <<Len(generations')>>]
    /\ Goto(p, "SWITCH")
    /\ UNCHANGED <<holders, builds, entries, current, key, rows>>

Switch(p) ==
    /\ Turn(p, "SWITCH")
    /\ current' = made[p][1]
    /\ Goto(p, "SWITCHED")
    /\ UNCHANGED <<holders, builds, entries, generations, private>>

Switched(p) ==
    /\ Turn(p, "SWITCHED")
    /\ Goto(p, "SELECTED")
    /\ UNCHANGED <<holders, builds, disk, private>>

Return(p) ==
    /\ Turn(p, "SELECTED")
    /\ Leave(p, "DONE")
    /\ UNCHANGED <<builds, disk, private>>

(***************************************************************************)
(* Failures                                                                 *)
(***************************************************************************)
\* The finally blocks: a generation that was not switched to is removed.
Interrupt(p) ==
    /\ p \in holders /\ kills < MaxKills
    /\ generations' = IF pc[p] \in {"SWITCH", "SWITCHED"} THEN [generations EXCEPT ![made[p][1]].present = FALSE] ELSE generations
    /\ kills' = kills + 1
    /\ Leave(p, "FAILED")
    /\ UNCHANGED <<file, edits, tampers, ensures, builds, entries, current, private>>

\* A killed process cleans nothing up; the kernel releases its lock.
Kill(p) ==
    /\ p \in holders /\ kills < MaxKills
    /\ kills' = kills + 1
    /\ Leave(p, "FAILED")
    /\ UNCHANGED <<file, edits, tampers, ensures, builds, disk, private>>

Edit(f) ==
    /\ edits < MaxEdits
    /\ edits' = edits + 1
    /\ file' = [file EXCEPT ![f] = 1 - @]
    /\ UNCHANGED <<tampers, kills, holders, builds, disk, pc, ensures, private>>

Tamper ==
    /\ tampers < MaxTampers
    /\ tampers' = tampers + 1
    /\ \/ \E k \in DOMAIN entries, n \in 1 .. 2 :
            entries' = [entries EXCEPT ![k].damaged = TRUE, ![k].archives[n] = 0] /\ UNCHANGED generations
       \/ \E g \in DOMAIN generations :
            generations' = [generations EXCEPT ![g].damaged = TRUE] /\ UNCHANGED entries
    /\ UNCHANGED <<file, edits, kills, holders, builds, current, pc, ensures, private>>

Ensure(p) ==
    \/ CollectToolchain(p) \/ IdentityFingerprint(p) \/ Lock(p) \/ Entry(p) \/ RunBuilder(p) \/ PublishEntry(p)
    \/ Select(p) \/ Copy(p) \/ Generation(p) \/ Switch(p) \/ Switched(p) \/ Return(p)

CacheNext ==
    \/ \E p \in Processes : Ensure(p) \/ Interrupt(p) \/ Kill(p)
    \/ \E f \in Files : Edit(f)
    \/ Tamper

CacheSpec == CacheInit /\ [][CacheNext]_cacheVars

(***************************************************************************)
(* Properties                                                               *)
(***************************************************************************)
\* Whatever the selected pointer leads to, its two archives come, undamaged,
\* from one build, however ensure runs were interleaved, interrupted, killed
\* or fed a damaged entry (real_lib_materialize.py).  An interrupt between
\* the switch and the note of it leaves the pointer without its generation;
\* it never leaves it with half of one.
SelectedCoherent ==
    Resolves =>
        LET g == generations[current] IN g.archives[1] = g.archives[2] /\ g.archives[1] \in DOMAIN builds

\* An ensure that is about to return 0 has a generation of its own fingerprint
\* selected, whatever other revisions were materializing meanwhile and
\* whatever pointer it found: the lock is one per public identity
\* (real_lib_cache.py:171-176).
EnsureSelects == \A p \in Processes : pc[p] = "SELECTED" => Resolves /\ generations[current].fp = key[p]
=============================================================================
