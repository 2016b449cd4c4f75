---------------------------- MODULE MCLoopControl ----------------------------
(***************************************************************************)
(* The loop controller on schedules of small frames, and, side by side     *)
(* with it, its reservation station fed any commands in any order.         *)
(***************************************************************************)
EXTENDS LoopControl

MCEntries == [q \in 0..2 |-> IF q = 2 THEN 1 ELSE 2]

Shape(i, j, k, store) == [i |-> i, j |-> j, k |-> k, store |-> store]
Single(f) == << <<f>> >>

(* A work of two frames, of which the second stores, and a second work. *)
TwoWorks == << <<Shape(1, 1, 1, FALSE), Shape(1, 1, 2, TRUE)>>, <<Shape(2, 1, 1, TRUE)>> >>

(* Frames of one block, of two in a row, and of two by two. *)
MCSchedules ==
  {Single(Shape(i, j, k, TRUE)) : <<i, j, k>> \in
     {<<1, 1, 1>>, <<2, 1, 1>>, <<1, 2, 1>>, <<1, 1, 2>>, <<1, 2, 2>>}}
  \cup {TwoWorks}

(* Two scratchpad rows and one accumulator row, and the commands on them. *)
Command(kind, a, b) == [kind |-> kind, a |-> a, b |-> b]

MCCommands ==
  {Command("LoadConfig", {}, {}), Command("LoadB", {"s0", "s1"}, {}),
   Command("Preload", {"c0"}, {"s1"}),
   Command("Compute", {"s0"}, {}), Command("Store", {"c0"}, {})}

(* A station without a loop controller: no work, and a controller that     *)
(* never leaves its initial state.                                         *)
StationAlone ==
  /\ works = <<>> /\ work = 0 /\ frame = 0 /\ host = "retired" /\ release = 0
  /\ scale = "idle" /\ raw = <<>> /\ loop_input = <<>> /\ loop = IdleLoop
  /\ bridge = [state |-> "idle", index |-> 0, pending |-> FALSE, issued |-> FALSE,
               saw_busy |-> FALSE]

MCInit == LoopInit \/ (StationInit /\ StationAlone)

MCNext ==
  \/ works # <<>> /\ LoopNext
  \/ works = <<>> /\ StationNext /\ UNCHANGED controlVars

MCProgress == works # <<>> /\ LoopProgress

MCSpec == MCInit /\ [][MCNext]_loopVars /\ WF_loopVars(MCProgress)
==============================================================================
