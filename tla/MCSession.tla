----------------------------- MODULE MCSession -----------------------------
(***************************************************************************)
(* The two interfaces that callers drive, each explored on its own: an     *)
(* instance chooses the one that is used, and the other keeps its initial  *)
(* state.                                                                  *)
(*                                                                         *)
(* SequenceSession: a work of one frame and a work of two.                 *)
(* FrontEnd: two threads that submit three stripes and two that fence, a   *)
(* stream that holds one stripe, so that publishing meets backpressure,    *)
(* and a watchdog that fires after two clocks without progress.            *)
(***************************************************************************)
EXTENDS SequenceSession, FrontEnd

VARIABLE interface

MCFrames == [w \in Work |-> IF w = 2 THEN 2 ELSE 1]
MCStores == [w \in Work |-> 1]

MCInit ==
    /\ interface \in {"session", "front_end"}
    /\ Init /\ FrontInit
    /\ interface = "session" => options.mode = "full" /\ ~options.external

MCNext ==
    /\ \/ interface = "session" /\ Next /\ UNCHANGED frontVars
       \/ interface = "front_end" /\ FrontNext /\ UNCHANGED vars
    /\ UNCHANGED interface

MCVars == <<vars, frontVars, interface>>

Session(action) == interface = "session" /\ action /\ UNCHANGED <<frontVars, interface>>
Front(action) == interface = "front_end" /\ action /\ UNCHANGED <<vars, interface>>

MCSpec ==
    /\ MCInit /\ [][MCNext]_MCVars
    /\ WF_MCVars(Session(AdvanceLoop))
    /\ WF_MCVars(Front(WorkerStep)) /\ WF_MCVars(Front(Device))
    /\ \A t \in Callers : WF_MCVars(Front(Continue(t)))
============================================================================
