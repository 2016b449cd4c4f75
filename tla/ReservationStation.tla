------------------------ MODULE ReservationStation ------------------------
(***************************************************************************)
(* The reservation station of the native cycle engine                      *)
(* (Engine::reservation, control_engine.cpp).  Commands leave the unrolled *)
(* queue one an edge into a slot of their queue's partition, wait there    *)
(* for the slots in their dependency mask, are issued to the load, execute *)
(* or store controller and give the slot up when they complete.  All of it *)
(* is one clock edge computed from the state before the edge.              *)
(*                                                                         *)
(* A row range is the set of its rows, the empty set if there is none.     *)
(* When the controllers have room, and which issued command completes at   *)
(* an edge, is left open.                                                  *)
(***************************************************************************)
EXTENDS Integers, Sequences, FiniteSets

CONSTANTS
  Commands,       \* the commands that reach the station
  Entries,        \* [0..2 -> slots of the queue]: load_, execute_, store_entries
  UnrolledQueue   \* unrolled_queue

Queues == 0..2

SlotsOf(q) == {16 * q + i : i \in 0..(Entries[q] - 1)}
Slots == UNION {SlotsOf(q) : q \in Queues}

Kind == {"LoadConfig", "StoreConfig", "ExecuteConfig", "LoadA", "LoadB",
         "Preload", "Compute", "Store"}

(* Command::queue *)
Queue(c) == IF c.kind \in {"LoadConfig", "LoadA", "LoadB"} THEN 0
            ELSE IF c.kind \in {"StoreConfig", "Store"} THEN 2 ELSE 1

(* Command::config *)
Config(c) == c.kind \in {"LoadConfig", "StoreConfig", "ExecuteConfig"}

ASSUME StationAssumption ==
  /\ \A c \in Commands : c.kind \in Kind
  /\ Entries \in [Queues -> 1..16] /\ UnrolledQueue \in Nat \ {0}

VARIABLES
  unrolled,  \* the commands waiting for a slot
  station,   \* [Slots -> an entry, or Free]
  tail,      \* the slot of the last command issued to the execute queue
  older      \* history: [Slots -> the slots whose command came before this
             \* one and has not completed]

stationVars == <<unrolled, station, tail, older>>

Free == [valid |-> FALSE]
NoSlot == -1

Valid(s) == station[s] # Free
Issued(s) == Valid(s) /\ station[s].issued

StationInit ==
  /\ unrolled = <<>>
  /\ station = [s \in Slots |-> Free]
  /\ tail = NoSlot
  /\ older = [s \in Slots |-> {}]

----------------------------------------------------------------------------
Overlaps(a, b) == a \cap b # {}

(* Fault: a load does not look at the weights a preload still reads. *)
DependsIgnoringWeights(c, entry) ==
  LET old == entry.command
      q == Queue(c)
  IN  IF Queue(old) = q THEN ~entry.issued
      ELSE /\ ~Config(c)
           /\ \/ q = 0 /\ Overlaps(c.a, old.a)
              \/ q = 1 /\ Queue(old) = 0 /\ (Overlaps(c.a, old.a) \/ Overlaps(c.b, old.a))
              \/ q = 1 /\ Queue(old) = 2 /\ c.kind = "Preload" /\ Overlaps(c.a, old.a)
              \/ q = 2 /\ (Queue(old) = 0 \/ old.kind = "Preload") /\ Overlaps(c.a, old.a)

(* What a new command c waits for: an entry of its own queue that is not   *)
(* issued, and an entry of another queue whose rows it touches.            *)
Depends(c, entry) ==
  LET old == entry.command
      q == Queue(c)
  IN  IF Queue(old) = q THEN ~entry.issued
      ELSE /\ ~Config(c)
           /\ \/ q = 0 /\ (Overlaps(c.a, old.a) \/ Overlaps(c.a, old.b))
              \/ q = 1 /\ Queue(old) = 0 /\ (Overlaps(c.a, old.a) \/ Overlaps(c.b, old.a))
              \/ q = 1 /\ Queue(old) = 2 /\ c.kind = "Preload" /\ Overlaps(c.a, old.a)
              \/ q = 2 /\ (Queue(old) = 0 \/ old.kind = "Preload") /\ Overlaps(c.a, old.a)

(* The first of a set of slots, as a set. *)
FirstOf(S) == {s \in S : \A t \in S : s <= t}

(* The slot the head of the unrolled queue takes at this edge, if any. *)
Allocated ==
  IF unrolled = <<>> THEN {}
  ELSE FirstOf({s \in SlotsOf(Queue(Head(unrolled))) : ~Valid(s)})

NewEntry ==
  [valid |-> TRUE, command |-> Head(unrolled), issued |-> FALSE,
   deps |-> {s \in Slots : Valid(s) /\ Depends(Head(unrolled), station[s])}]

(* The slots that can be issued at this edge: of each queue, the first     *)
(* that waits for nothing.  It stays behind when its controller is full    *)
(* or, for a preload, when the writeback has no context to give.           *)
Issuable ==
  UNION {FirstOf({s \in SlotsOf(q) : Valid(s) /\ ~Issued(s) /\ station[s].deps = {}}) :
         q \in Queues}

(* Load and store configuration gives its slot up when it is issued. *)
RetiredAtIssue(s) == Config(station[s].command) /\ Queue(station[s].command) # 1

(* Fault: a dependency on a completed command is removed only from the     *)
(* entries that held a slot before the edge.                               *)
ClearedForOldEntries(c, issued, done) ==
  {s \in done : unrolled = <<>> \/ c # Head(unrolled)}
    \cup {s \in issued : Queue(station[s].command) = Queue(c) \/ RetiredAtIssue(s)}

(* The dependencies of a command that the edge removes. *)
Cleared(c, issued, done) ==
  done \cup {s \in issued : Queue(station[s].command) = Queue(c) \/ RetiredAtIssue(s)}

(* The commands that may complete.  A preload's result leaves the array    *)
(* with the compute that follows it, so it does not complete before that   *)
(* compute has been issued.                                                *)
Completable == {s \in Slots : Issued(s) /\ (station[s].command.kind = "Preload" => s # tail)}

(* One edge: done is the set of the slot that completes, if any, issued is *)
(* what goes to the controllers, and pushed the sequence of the command    *)
(* the loop controller adds, if any.                                       *)
StationEdge(done, issued, pushed) ==
  LET freed == done \cup {s \in issued : RetiredAtIssue(s)}
      executed == issued \cap SlotsOf(1)
      kept == {s \in Slots : Valid(s)} \ freed
      edge(e, s) == [valid |-> TRUE, command |-> e.command,
                     issued |-> e.issued \/ s \in issued,
                     deps |-> e.deps \ Cleared(e.command, issued, done)]
  IN  /\ station' = [s \in Slots |-> IF s \in kept THEN edge(station[s], s)
                                     ELSE IF s \in Allocated THEN edge(NewEntry, s)
                                     ELSE Free]
      /\ unrolled' = (IF Allocated = {} THEN unrolled ELSE Tail(unrolled)) \o pushed
      /\ tail' = IF executed # {} THEN CHOOSE s \in executed : TRUE
                 ELSE IF tail \in freed THEN NoSlot ELSE tail
      /\ older' = [s \in Slots |-> IF s \in kept THEN older[s] \ freed
                                   ELSE IF s \in Allocated THEN kept
                                   ELSE {}]

(* At most one command completes an edge. *)
Completions == {{}} \cup {{s} : s \in Completable}

(* The station fed with any commands in any order. *)
StationNext ==
  \E done \in Completions, issued \in SUBSET Issuable :
    \/ StationEdge(done, issued, <<>>)
    \/ /\ Len(unrolled) < UnrolledQueue
       /\ \E c \in Commands : StationEdge(done, issued, <<c>>)

StationSpec == StationInit /\ [][StationNext]_stationVars

----------------------------------------------------------------------------
(* The rows a command reads and writes. *)
Writes(c) == IF c.kind \in {"LoadA", "LoadB", "Preload"} THEN c.a ELSE {}
Reads(c) == CASE c.kind = "Preload" -> c.a \cup c.b
              [] c.kind \in {"Compute", "Store"} -> c.a
              [] OTHER -> {}

Conflict(c, d) ==
  \/ Overlaps(Writes(c), Reads(d) \cup Writes(d))
  \/ Overlaps(Writes(d), Reads(c))

(* A command is issued only when every earlier command of another queue    *)
(* that touches the same rows, one of the two writing, has completed; and  *)
(* the commands of one queue are issued in order.                          *)
HazardsOrdered ==
  \A s \in Slots : Issued(s) =>
    \A t \in older[s] :
      IF Queue(station[t].command) = Queue(station[s].command) THEN Issued(t)
      ELSE ~Conflict(station[t].command, station[s].command)

(* A waiting command waits for exactly the earlier commands that still     *)
(* stand in its way: no mask bit outlives its command, or passes to the    *)
(* next command of the slot, which would delay the entry for ever.         *)
DepsExact ==
  \A s \in Slots : Valid(s) =>
    station[s].deps =
      {t \in older[s] : Depends(station[s].command, station[t])}
============================================================================
