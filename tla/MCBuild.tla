------------------------------- MODULE MCBuild -------------------------------
(***************************************************************************)
(* The two build directories, each explored on its own: an instance        *)
(* chooses the one that is used, and the other keeps its initial state.    *)
(*                                                                         *)
(* RealLibCache: two processes that ensure twice each, so that a second    *)
(* revision is materialized while the first is, and a damaged entry is     *)
(* rebuilt.                                                                *)
(* GemminiBuild: one output directory, two llama checkouts.                *)
(***************************************************************************)
EXTENDS RealLibCache, GemminiBuild

VARIABLE directory

ProcessSymmetry == Permutations(Processes)

MCInit == directory \in {"cache", "gemmini"} /\ CacheInit /\ BuildInit

MCNext ==
    /\ \/ directory = "cache" /\ CacheNext /\ UNCHANGED buildVars
       \/ directory = "gemmini" /\ BuildNext /\ UNCHANGED cacheVars
    /\ UNCHANGED directory

MCSpec == MCInit /\ [][MCNext]_<<cacheVars, buildVars, directory>>
==============================================================================
