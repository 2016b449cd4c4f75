---------------------------- MODULE LoopControl ----------------------------
(***************************************************************************)
(* The host, bridge and loop controller of the native cycle engine         *)
(* (Engine::control, control_engine.cpp) over its reservation station.     *)
(* For each frame of a work the host loads the scales, the bridge sends    *)
(* eleven instructions, the loop controller unrolls the frame into loads,  *)
(* preloads, computes and stores, and when the controller has gone quiet   *)
(* the frame's scales are released.  Every action but AcceptWork is one    *)
(* clock edge, the station's part of it included.                          *)
(***************************************************************************)
EXTENDS ReservationStation

CONSTANTS
  Schedules,     \* the sequences of works; a work is a sequence of frames, a
                 \* frame [i, j, k : blocks of the frame, store : final_store]
  RawQueue,      \* incoming_queue
  LoopQueue,     \* loop_queue
  RowsToRelease  \* scale_rows * dim

Shapes == [i : Nat \ {0}, j : Nat \ {0}, k : Nat \ {0}, store : BOOLEAN]

ASSUME LoopAssumption ==
  /\ {RawQueue, LoopQueue, RowsToRelease} \subseteq Nat \ {0}
  /\ \A s \in Schedules : /\ s \in Seq(Seq(Shapes)) /\ s # <<>>
                          /\ \A w \in 1..Len(s) : s[w] # <<>>

VARIABLES
  works,        \* the schedule that is run
  work, frame,  \* the current work and frame of it
  host,         \* accepting, waiting, releasing or retired
  release,      \* rows released
  scale,        \* scale_state: idle, loading or done
  bridge,       \* bridge_state, _index, _pending, _issued and saw_busy
  raw, loop_input,  \* the instructions on their way to the loop controller
  loop          \* the loop controller

controlVars == <<works, work, frame, host, release, scale, bridge, raw,
                 loop_input, loop>>
loopVars == <<stationVars, controlVars>>

----------------------------------------------------------------------------
(* Engine::expand_commands: the programs of a frame.  A block of A, B or C *)
(* stands for its rows.                                                    *)
ABlock(i, k) == <<"A", i, k>>
BBlock(k, j) == <<"B", k, j>>
CBlock(i, j) == <<"C", i, j>>

LoadA(i, k) == [kind |-> "LoadA", a |-> {ABlock(i, k)}, b |-> {}, i |-> i, j |-> 0, k |-> k]
LoadB(k, j) == [kind |-> "LoadB", a |-> {BBlock(k, j)}, b |-> {}, i |-> 0, j |-> j, k |-> k]
(* The weights stay in the array: only the first row block preloads them. *)
Preload(x) == [kind |-> "Preload", a |-> {CBlock(x.i, x.j)},
               b |-> IF x.i = 0 THEN {BBlock(x.k, x.j)} ELSE {},
               i |-> x.i, j |-> x.j, k |-> x.k]
Compute(x) == [kind |-> "Compute", a |-> {ABlock(x.i, x.k)}, b |-> {},
               i |-> x.i, j |-> x.j, k |-> x.k]
Store(i, j, k) == [kind |-> "Store", a |-> {CBlock(i, j)}, b |-> {},
                   i |-> i, j |-> j, k |-> k]

Fragment(f, n) == [i |-> n % f.i, j |-> (n \div f.i) % f.j, k |-> n \div (f.i * f.j)]

(* The programs 1 to 4 of the load-A, load-B, execute and store stages. *)
ProgramLength(f, p) ==
  CASE p = 1 -> f.i * f.k [] p = 2 -> f.j * f.k [] p = 3 -> 2 * f.i * f.j * f.k
    [] p = 4 -> IF f.store THEN f.i * f.j ELSE 0

ProgramCommand(f, p, n) ==
  CASE p = 1 -> LoadA(n % f.i, n \div f.i)
    [] p = 2 -> LoadB(n \div f.j, n % f.j)
    [] p = 3 -> IF n % 2 = 0 THEN Preload(Fragment(f, n \div 2)) ELSE Compute(Fragment(f, n \div 2))
    [] p = 4 -> Store(n % f.i, n \div f.i, f.k - 1)

ProgramFor(c) == CASE c.kind = "LoadA" -> 1 [] c.kind = "LoadB" -> 2
                   [] c.kind \in {"Preload", "Compute"} -> 3 [] c.kind = "Store" -> 4

ConfigCommand(kind) == [kind |-> kind, a |-> {}, b |-> {}, i |-> 0, j |-> 0, k |-> 0]

(* The bridge's instructions: configuration, loop parameters, loop start. *)
LastInstruction == 10
InstructionKind(n) == CASE n < 3 -> "LoadConfig" [] n = 3 -> "StoreConfig"
                        [] n = 4 -> "ExecuteConfig" [] n > 4 -> "LoopControl"

----------------------------------------------------------------------------
Frame == works[work][frame]
LastFrame == frame = Len(works[work])

(* The loop's stages: 0, 1 load A and B, 2 the unused load D, 3 execute,   *)
(* 4 store.  Stages 0, 1, 3 and 4 run programs 1 to 4.                     *)
Stages == 0..4
ProgramOf(stage) == CASE stage = 0 -> 1 [] stage = 1 -> 2 [] stage = 3 -> 3 [] stage = 4 -> 4

IdleLoop == [configured |-> FALSE, running |-> FALSE, started |-> {}, completed |-> {},
             position |-> <<0, 0, 0, 0>>, utilized |-> [q \in Queues |-> 0]]

Active(stage) ==
  /\ loop.configured /\ stage \in loop.started
  /\ loop.position[ProgramOf(stage)] < ProgramLength(Frame, ProgramOf(stage))

(* The next command of an active stage. *)
Upcoming(stage) ==
  LET p == ProgramOf(stage) IN ProgramCommand(Frame, p, loop.position[p])

(* Fault: a credit more than the station has slots. *)
CreditOneMore(q) == loop.utilized[q] <= Entries[q]

Credit(q) == loop.utilized[q] < Entries[q]

(* Fault: a store follows as soon as its block's last preload is unrolled  *)
(* or about to be.                                                         *)
StoreReadyEarly ==
  /\ Active(4) /\ Credit(2)
  /\ Active(3) => LET c == Upcoming(4)
                      x == Upcoming(3)
                  IN  x.k + 1 = Frame.k /\ (x.j > c.j \/ (x.j = c.j /\ x.i >= c.i))

(* A store follows the last execute command of its block. *)
StoreReady ==
  /\ Active(4) /\ Credit(2)
  /\ Active(3) => LET c == Upcoming(4)
                      x == Upcoming(3)
                  IN  x.k + 1 = Frame.k /\ (x.j > c.j \/ (x.j = c.j /\ x.i > c.i))

(* Fault: the comparison for A within one k takes the block being loaded   *)
(* for loaded.                                                             *)
ExecuteReadyEarly ==
  LET c == Upcoming(3)
      ak == IF Active(0) THEN Upcoming(0).k ELSE 0
  IN  /\ Active(3) /\ Credit(1)
      /\ Active(0) => Upcoming(0).k > c.k \/ (Upcoming(0).k = c.k /\ Upcoming(0).i >= c.i)
      /\ Active(1) => Upcoming(1).k > c.k \/ (ak = c.k /\ Upcoming(1).j > c.j)

(* An execute command follows the loads of its blocks.  The comparison for *)
(* B within one k looks at the k of A, as the hardware does.               *)
ExecuteReady ==
  LET c == Upcoming(3)
      ak == IF Active(0) THEN Upcoming(0).k ELSE 0
  IN  /\ Active(3) /\ Credit(1)
      /\ Active(0) => Upcoming(0).k > c.k \/ (Upcoming(0).k = c.k /\ Upcoming(0).i > c.i)
      /\ Active(1) => Upcoming(1).k > c.k \/ (ak = c.k /\ Upcoming(1).j > c.j)

(* Load B goes first when A is ahead of it, or at the start. *)
ChooseB ==
  Active(0) => /\ Active(1)
               /\ \/ Upcoming(0).k > Upcoming(1).k
                  \/ Upcoming(1).k = 0 /\ Upcoming(1).j = 0

(* The stage that generates a command at this edge, if any does. *)
GeneratingStage ==
  IF StoreReady THEN {4}
  ELSE IF ExecuteReady THEN {3}
  ELSE IF ~Credit(0) THEN {}
  ELSE {s \in {0, 1} : Active(s) /\ (s = 1 <=> ChooseB)}

OutputReady == Len(unrolled) < UnrolledQueue

(* The set of the command generated at this edge, if any. *)
Generated == {Upcoming(s) : s \in IF OutputReady THEN GeneratingStage ELSE {}}

(* The head of the loop input goes on: a loop instruction into the idle    *)
(* loop controller, a configuration into the unrolled queue.               *)
InputPops ==
  /\ loop_input # <<>> /\ ~loop.configured
  /\ \/ InstructionKind(Head(loop_input)) = "LoopControl"
     \/ OutputReady /\ Generated = {}

(* The set of the configuration forwarded at this edge, if any. *)
Forwarded ==
  IF InputPops /\ InstructionKind(Head(loop_input)) # "LoopControl"
  THEN {ConfigCommand(InstructionKind(Head(loop_input)))} ELSE {}

(* Fault: commands on their way to the station are not counted. *)
KnownBusyIgnoringUnrolled ==
  \/ raw # <<>> \/ loop_input # <<>>
  \/ loop.configured \/ (\E s \in Slots : Valid(s)) \/ scale # "idle"

(* Engine::busy, as far as this module shows it.  The DMA controllers, the *)
(* array, the writeback and the memory may stay busy a while longer.       *)
KnownBusy ==
  \/ raw # <<>> \/ loop_input # <<>> \/ unrolled # <<>>
  \/ loop.configured \/ (\E s \in Slots : Valid(s)) \/ scale # "idle"

BusyValues == IF KnownBusy THEN {TRUE} ELSE BOOLEAN

(* Whether the last scale lane arrives at this edge. *)
LoadedValues == IF scale = "loading" THEN BOOLEAN ELSE {FALSE}

----------------------------------------------------------------------------
LoopInit ==
  /\ StationInit
  /\ works \in Schedules /\ work = 1 /\ frame = 1
  /\ host = "accepting" /\ release = 0 /\ scale = "idle"
  /\ bridge = [state |-> "idle", index |-> 0, pending |-> FALSE, issued |-> FALSE,
               saw_busy |-> FALSE]
  /\ raw = <<>> /\ loop_input = <<>> /\ loop = IdleLoop

(* The loop controller's registers after the edge. *)
LoopEdge(done, generated) ==
  LET starts == InputPops /\ Head(loop_input) = LastInstruction
      finished == loop.running /\ loop.completed = Stages
      newly == IF ~loop.configured THEN {}
               ELSE ({0, 1, 2} \cup (IF {0, 1, 2} \subseteq loop.started THEN {3} ELSE {})
                              \cup (IF 3 \in loop.started THEN {4} ELSE {})) \ loop.started
      ended == IF loop.running THEN {s \in loop.started : s = 2 \/ ~Active(s)} ELSE {}
      returned == {s \in done : ~Config(station[s].command)}
  IN  [configured |-> starts \/ (loop.configured /\ ~finished),
       running |-> (loop.running \/ newly # {}) /\ ~finished,
       started |-> IF starts \/ finished THEN {} ELSE loop.started \cup newly,
       completed |-> IF starts \/ finished THEN {} ELSE loop.completed \cup ended,
       position |-> [p \in 1..4 |-> IF starts THEN 0
                       ELSE loop.position[p] + Cardinality({c \in generated : ProgramFor(c) = p})],
       utilized |-> [q \in Queues |->
                       loop.utilized[q] + Cardinality({c \in generated : Queue(c) = q})
                         - Cardinality({s \in returned : Queue(station[s].command) = q})]]

SendsInstruction == bridge.state = "sending" /\ Len(raw) < RawQueue

BridgeEdge(busy) ==
  LET b == [bridge EXCEPT !.saw_busy = @ \/ (busy /\ bridge.issued)]
  IN  IF bridge.state = "idle"
      THEN IF bridge.pending \/ (scale = "done" /\ ~bridge.issued)
           THEN [b EXCEPT !.state = "sending", !.index = 0, !.pending = TRUE]
           ELSE [b EXCEPT !.state = IF bridge.issued /\ bridge.saw_busy /\ ~busy
                                    THEN "done" ELSE "idle",
                          !.pending = scale = "done"]
      ELSE IF SendsInstruction
      THEN IF bridge.index = LastInstruction
           THEN [b EXCEPT !.state = "idle", !.pending = FALSE, !.issued = TRUE,
                          !.saw_busy = @ /\ busy]
           ELSE [b EXCEPT !.index = @ + 1]
      ELSE IF bridge.state = "done"
      THEN [b EXCEPT !.state = "idle", !.issued = FALSE, !.saw_busy = FALSE]
      ELSE b

(* What a set of at most one command adds to the unrolled queue. *)
Pushes(sent) == IF sent = {} THEN {<<>>} ELSE {<<c>> : c \in sent}

(* The edge that ends the release of the current frame. *)
ReleaseEnds == host = "releasing" /\ release >= RowsToRelease

(* Engine::control on one edge, with Engine::reservation before it. *)
Edge(done, issued, busy, loaded) ==
  /\ host # "retired"
  /\ \E generated \in {Generated} :
       /\ \E pushed \in Pushes(generated \cup Forwarded) : StationEdge(done, issued, pushed)
       /\ loop' = IF ReleaseEnds /\ ~LastFrame THEN IdleLoop ELSE LoopEdge(done, generated)
  /\ loop_input' =
       (IF InputPops THEN Tail(loop_input) ELSE loop_input)
         \o (IF raw # <<>> /\ Len(loop_input) < LoopQueue THEN <<Head(raw)>> ELSE <<>>)
  /\ raw' = (IF raw # <<>> /\ Len(loop_input) < LoopQueue THEN Tail(raw) ELSE raw)
              \o (IF SendsInstruction THEN <<bridge.index>> ELSE <<>>)
  /\ bridge' = BridgeEdge(busy)
  /\ scale' = CASE scale = "idle" -> IF host = "accepting" THEN "loading" ELSE "idle"
                [] scale = "loading" -> IF loaded THEN "done" ELSE "loading"
                [] scale = "done" -> "idle"
  /\ host' = IF bridge.state = "done" THEN "releasing"
             ELSE IF host = "accepting" /\ scale = "idle" THEN "waiting"
             ELSE IF ReleaseEnds THEN (IF LastFrame THEN "retired" ELSE "accepting")
             ELSE host
  /\ release' = IF bridge.state = "done" THEN 0
                ELSE IF host = "releasing" /\ ~ReleaseEnds THEN release + 1 ELSE release
  /\ frame' = IF ReleaseEnds /\ ~LastFrame THEN frame + 1 ELSE frame
  /\ UNCHANGED <<works, work>>

(* Engine::accept of the next work; the loop keeps its registers. *)
AcceptWork ==
  /\ host = "retired" /\ work < Len(works)
  /\ work' = work + 1 /\ frame' = 1
  /\ host' = "accepting" /\ release' = 0
  /\ UNCHANGED <<stationVars, works, scale, bridge, raw, loop_input, loop>>

AllRetired == host = "retired" /\ work = Len(works)

LoopNext ==
  \/ \E done \in Completions, issued \in SUBSET Issuable,
        busy \in BusyValues, loaded \in LoadedValues :
       Edge(done, issued, busy, loaded)
  \/ AcceptWork
  \/ AllRetired /\ UNCHANGED loopVars

(* The controllers have room, memory answers, and what is in flight ends:  *)
(* queues and latencies are bounded.                                       *)
LoopProgress ==
  \/ \E done \in Completions :
       /\ done = {} => Completable = {}
       /\ Edge(done, Issuable, KnownBusy, scale = "loading")
  \/ AcceptWork

LoopSpec == LoopInit /\ [][LoopNext]_loopVars /\ WF_loopVars(LoopProgress)

----------------------------------------------------------------------------
InFlight == {unrolled[n] : n \in 1..Len(unrolled)}
              \cup {station[s].command : s \in {t \in Slots : Valid(t)}}

FirstCommands(f, count) ==
  UNION {{ProgramCommand(f, p, n) : n \in 0..(count[p] - 1)} : p \in 1..4}

(* The commands of the current frame that have completed. *)
Completed == FirstCommands(Frame, loop.position) \ InFlight

(* No command is issued before the data it reads is there: a compute after *)
(* the load of its A block, a preload after the load of its B block, a     *)
(* store after every contribution to its C block has been written back.    *)
(* The order in which the loop controller interleaves its four programs    *)
(* and the masks of the station have to agree for this.                    *)
DataReady ==
  \A s \in Slots : Issued(s) =>
    LET c == station[s].command IN
    CASE c.kind = "Compute" -> LoadA(c.i, c.k) \in Completed
      [] c.kind = "Preload" -> c.i = 0 => LoadB(c.k, c.j) \in Completed
      [] c.kind = "Store" -> \A k \in 0..(Frame.k - 1) :
                                Preload([i |-> c.i, j |-> c.j, k |-> k]) \in Completed
      [] OTHER -> TRUE

(* The credits in use are the commands between the loop controller and     *)
(* completion, queue by queue, and never more than the station holds; a    *)
(* credit is neither lost nor returned twice, across frames and works.     *)
CreditsExact ==
  \A q \in Queues :
    LET mine(c) == Queue(c) = q /\ ~Config(c) IN
    /\ loop.utilized[q] =
         Cardinality({n \in 1..Len(unrolled) : mine(unrolled[n])})
           + Cardinality({s \in Slots : Valid(s) /\ mine(station[s].command)})
    /\ loop.utilized[q] <= Entries[q]

(* When the bridge reports the frame done, every command of the frame has  *)
(* been generated and has completed, and nothing is left anywhere.         *)
FrameDrained ==
  bridge.state = "done" =>
    /\ Completed = FirstCommands(Frame, [p \in 1..4 |-> ProgramLength(Frame, p)])
    /\ InFlight = {} /\ raw = <<>> /\ loop_input = <<>> /\ ~loop.configured

(* The loop controller is safe: no command runs before its data, no credit *)
(* is lost or made up, and a work ends only when its frame has drained.    *)
LoopSafe == works # <<>> => DataReady /\ CreditsExact /\ FrameDrained

(* Every work is retired: the handshake between bridge and controller is   *)
(* never missed and no command waits for ever.                             *)
WorksRetire == <>AllRetired
============================================================================
