--------------------------- MODULE SessionProofs ---------------------------
(***************************************************************************)
(* The interfaces that callers drive and the controllers that carry out    *)
(* what they issue.  The sequence session loses no work and no event and   *)
(* reports every work as it ran; the front end answers every fence as its  *)
(* stripes ended; the reservation station orders conflicting commands, for *)
(* every program, every number of slots and every order of completions;    *)
(* the loop controller unrolls every frame so that no command runs before  *)
(* its data, loses no credit and reports a frame done when it is.          *)
(***************************************************************************)
EXTENDS SequenceSession, FrontEnd, LoopControl, SequenceTheorems, FiniteSetTheorems, TLAPS

(***************************************************************************)
(* The inductive invariant                                                 *)
(***************************************************************************)
EngineRecord ==
  [cycle : Nat, work : Work \cup {0}, initial : (0..1) \X (0..1),
   host : {"accepting", "waiting", "releasing", "retired"}, frame : Nat,
   release : Nat, result : Nat, final : Nat, resource : Nat]

Call == [id : {1}, until : Int, steps : Int, boundary : BOOLEAN]

SessionTypes ==
  /\ TypeOK
  /\ engine \in EngineRecord
  /\ next_event_id \in Nat /\ burst \in Nat /\ released \in Nat /\ last_read \in Nat
  /\ call = None \/ call \in Call

(* No work is active past its release, except on a faulted handle, and a   *)
(* faulted handle runs no call.                                            *)
EngineServesActive ==
  /\ engine.work = active.id
  /\ active # None => report = None /\ HalvesAfter(engine.initial, engine.work) = halves
  /\ active # None /\ engine.host = "retired" => faulted
  /\ call # None => ~faulted
  /\ engine.work = 0 => burst = 0

(* The milestones that the active work has passed are in order. *)
Milestones ==
  active # None =>
    /\ active.offered <= active.accepted /\ active.accepted <= cursor
    /\ engine.host = "waiting" => active.accepted < cursor
    /\ engine.host = "releasing" => active.accepted < cursor
    /\ engine.host = "releasing" /\ engine.frame = Frames[engine.work] =>
         /\ active.accepted < engine.result /\ engine.result < cursor
         /\ engine.release > 0 => engine.result <= engine.final /\ engine.final < cursor

(* A work that waits for a free engine has not been passed over. *)
NotPassedOver ==
  /\ released <= cursor
  /\ pending # None /\ active = None => cursor <= pending.offered \/ cursor <= released

(* Reading is a prefix of what was raised. *)
ReadBehind == last_read <= next_event_id

SessionInv ==
  /\ SessionTypes /\ EngineServesActive /\ Milestones /\ NotPassedOver /\ ReadBehind
  /\ NoWorkLost /\ WindowOrdered /\ FirstReadyEdge /\ ReportShowsHalves
  /\ EventsExactlyOnce /\ WithinBudgets

----------------------------------------------------------------------------
(* The constants are what the session is configured with. *)
LEMMA Constants ==
  /\ Work \subseteq Nat \ {0} /\ 0 \notin Work /\ Recorded \subseteq Work
  /\ Frames \in [Work -> Nat \ {0}] /\ Stores \in [Work -> Nat]
  /\ ReleaseRows \in Nat \ {0} /\ MaxWorkCycles \in Nat \ {0} /\ MaxSessionCycles \in Nat \ {0}
  /\ MaxGeneration \in Nat \ {0} /\ MaxSteps \in Nat \ {0}
  /\ EventCapacity \in Nat /\ MaxAhead \in Nat /\ Bursts \subseteq Nat
BY SessionAssumption

(* Four places hold the offered works, each in one of them. *)
Places(s, a, b, c, d) ==
  /\ s = a \cup b \cup c \cup d
  /\ a \cap b = {} /\ a \cap c = {} /\ a \cap d = {}
  /\ b \cap c = {} /\ b \cap d = {} /\ c \cap d = {}

(* Places says of four sets what NoWorkLost says of the sequence of them.  *)
LEMMA FourPlaces ==
  ASSUME NEW s, NEW a, NEW b, NEW c, NEW d
  PROVE  Places(s, a, b, c, d) <=>
           LET places == <<a, b, c, d>> IN
             /\ s = UNION {places[i] : i \in 1..4}
             /\ \A i, j \in 1..4 : i # j => places[i] \cap places[j] = {}
<1> DEFINE places == <<a, b, c, d>>
<1>1. 1..4 = {1, 2, 3, 4}
  OBVIOUS
<1>2. places[1] = a /\ places[2] = b /\ places[3] = c /\ places[4] = d
  OBVIOUS
<1>3. UNION {places[i] : i \in 1..4} = a \cup b \cup c \cup d
  <2> HIDE DEF places
  <2> QED BY <1>1, <1>2
<1>4. (\A i, j \in 1..4 : i # j => places[i] \cap places[j] = {}) <=>
        /\ a \cap b = {} /\ a \cap c = {} /\ a \cap d = {}
        /\ b \cap c = {} /\ b \cap d = {} /\ c \cap d = {}
  <2> HIDE DEF places
  <2> QED BY <1>1, <1>2
<1> QED BY <1>3, <1>4 DEF Places

(* The work in a place *)
At(place) == IF place = None THEN {} ELSE {place.id}

WorkPlaced ==
  /\ Places(seen, At(pending), At(active), At(report), popped)
  /\ engine.work # 0 <=> active # None

(* NoWorkLost in terms of the four places: pending, active, unread and     *)
(* handed out.                                                             *)
LEMMA NoWorkLostPlaces == NoWorkLost <=> WorkPlaced
BY FourPlaces, ZenonT(60) DEF NoWorkLost, WorkPlaced, At

(* The same after a step *)
LEMMA NoWorkLostPlacesNext == NoWorkLost' <=> WorkPlaced'
BY FourPlaces, ZenonT(60) DEF NoWorkLost, WorkPlaced, At

(* The larger of two numbers *)
LEMMA MaxOfTwo ==
  ASSUME NEW a \in Nat, NEW b \in Nat
  PROVE  Max({a, b}) = IF a >= b THEN a ELSE b
BY DEF Max

(* The smaller of two numbers *)
LEMMA MinOfTwo ==
  ASSUME NEW a \in Nat, NEW b \in Nat
  PROVE  Min({a, b}) = IF a <= b THEN a ELSE b
BY DEF Min

----------------------------------------------------------------------------
(* An unused handle satisfies the invariant. *)
LEMMA SessionInit == Init => SessionInv
<1> SUFFICES ASSUME Init PROVE SessionInv
  OBVIOUS
<1> USE Constants DEF Init, IdleEngine
<1>0. engine \in EngineRecord /\ engine.cycle = cursor /\ halves \in (0..1) \X (0..1)
  BY DEF EngineRecord
<1>1. SessionTypes
  <2>1. events \in Seq(Nat) /\ Len(events) <= EventCapacity /\ generation \in 0..MaxGeneration
    OBVIOUS
  <2>2. TypeOK
    <3> HIDE DEF IdleEngine
    <3>1. stop_reason \in StopReason
      BY DEF StopReason
    <3>2. generation \in 0..MaxGeneration /\ cursor \in Nat /\ faulted \in BOOLEAN
      BY <2>1
    <3> QED BY <1>0, <2>1, <3>1, <3>2 DEF TypeOK
  <2> QED BY <1>0, <2>2 DEF SessionTypes
<1>2. EngineServesActive /\ Milestones /\ NotPassedOver /\ ReadBehind
  BY DEF EngineServesActive, Milestones, NotPassedOver, ReadBehind, None
<1>3. NoWorkLost
  BY NoWorkLostPlaces DEF WorkPlaced, Places, At, None
<1>4. WindowOrdered /\ FirstReadyEdge /\ ReportShowsHalves /\ EventsExactlyOnce /\ WithinBudgets
  BY DEF WindowOrdered, FirstReadyEdge, ReportShowsHalves, EventsExactlyOnce, WithinBudgets
<1> QED BY <1>1, <1>2, <1>3, <1>4 DEF SessionInv

(* A call that is refused, begins, stops or faults changes the status only. *)
LEMMA StatusOnly ==
  ASSUME SessionInv, faulted' \in BOOLEAN, faulted => faulted', stop_reason' \in StopReason,
         call' = None \/ (call' \in Call /\ ~faulted'),
         UNCHANGED <<generation, cursor, halves, pending, active, report, seen, engine,
                     eventVars, history>>
  PROVE  SessionInv'
<1> USE DEF SessionInv, eventVars, history
<1>1. SessionTypes'
  BY DEF SessionTypes, TypeOK
<1>2. EngineServesActive' /\ Milestones' /\ NotPassedOver' /\ ReadBehind'
  BY DEF EngineServesActive, Milestones, NotPassedOver, ReadBehind
<1>3. NoWorkLost'
  BY DEF NoWorkLost
<1>4. WindowOrdered' /\ FirstReadyEdge' /\ ReportShowsHalves' /\ EventsExactlyOnce' /\ WithinBudgets'
  BY DEF WindowOrdered, FirstReadyEdge, ReportShowsHalves, EventsExactlyOnce, WithinBudgets
<1> QED BY <1>1, <1>2, <1>3, <1>4

(* A call that changes nothing keeps the invariant. *)
LEMMA Unchanged == SessionInv /\ UNCHANGED vars => SessionInv'
<1> SUFFICES ASSUME SessionInv, UNCHANGED vars PROVE SessionInv'
  OBVIOUS
<1>1. faulted \in BOOLEAN /\ stop_reason \in StopReason /\ (call = None \/ (call \in Call /\ ~faulted))
  BY DEF SessionInv, SessionTypes, TypeOK, EngineServesActive
<1> QED BY <1>1, StatusOnly DEF vars, statusVars

(* A reset starts a new generation as an unused handle does. *)
LEMMA ResetInv == SessionInv /\ Reset => SessionInv'
<1> SUFFICES ASSUME SessionInv, Reset PROVE SessionInv'
  OBVIOUS
<1>1. CASE UNCHANGED vars
  BY <1>1, Unchanged
<1>2. CASE /\ generation' = generation + 1 /\ generation # MaxGeneration
           /\ cursor' = 0 /\ faulted' = FALSE /\ stop_reason' = "NONE" /\ halves' = <<0, 0>>
           /\ pending' = None /\ active' = None /\ report' = None /\ seen' = {}
           /\ engine' = IdleEngine(0)
           /\ events' = <<>> /\ next_event_id' = 0 /\ burst' = 0
           /\ popped' = {} /\ released' = 0 /\ last_read' = 0 /\ call' = None
  <2> USE <1>2, Constants DEF IdleEngine
  <2>1. generation' \in 0..MaxGeneration
    BY DEF SessionInv, SessionTypes, TypeOK
  <2>0. engine' \in EngineRecord /\ engine'.cycle = cursor' /\ halves' \in (0..1) \X (0..1)
    BY DEF EngineRecord
  <2>2. SessionTypes'
    <3>1. events' \in Seq(Nat) /\ Len(events') <= EventCapacity
      OBVIOUS
    <3>2. stop_reason' \in StopReason
      BY DEF StopReason
    <3>3. /\ cursor' \in Nat /\ faulted' \in BOOLEAN /\ pending' = None /\ active' = None
          /\ report' = None /\ seen' \subseteq Work /\ popped' \subseteq Work
      OBVIOUS
    <3>4. TypeOK'
      <4> HIDE <1>2
      <4> QED BY <2>0, <2>1, <3>1, <3>2, <3>3 DEF TypeOK
    <3> QED BY <2>0, <3>4 DEF SessionTypes
  <2>3. EngineServesActive' /\ Milestones' /\ NotPassedOver' /\ ReadBehind'
    BY DEF EngineServesActive, Milestones, NotPassedOver, ReadBehind, None
  <2>4. NoWorkLost'
    BY NoWorkLostPlacesNext DEF WorkPlaced, Places, At, None
  <2>5. WindowOrdered' /\ FirstReadyEdge' /\ ReportShowsHalves' /\ EventsExactlyOnce' /\ WithinBudgets'
    BY DEF WindowOrdered, FirstReadyEdge, ReportShowsHalves, EventsExactlyOnce, WithinBudgets
  <2> QED BY <2>2, <2>3, <2>4, <2>5 DEF SessionInv
<1> QED BY <1>1, <1>2 DEF Reset, Refuse, Return

(* An id is offered at most once in a generation. *)
LEMMA OfferInv ==
  ASSUME SessionInv, NEW w \in Work, NEW cycle \in Int, Offer(w, cycle)
  PROVE  SessionInv'
<1>1. CASE UNCHANGED vars
  BY <1>1, Unchanged
<1>2. CASE /\ pending = None /\ w \notin seen /\ cycle >= cursor
           /\ pending' = [id |-> w, offered |-> cycle] /\ seen' = seen \cup {w} /\ call' = None
           /\ UNCHANGED <<statusVars, active, report, engine, eventVars, history>>
  <2> USE <1>2, Constants DEF SessionInv, statusVars, eventVars, history
  <2>0. pending'.id = w /\ pending'.offered = cycle /\ cursor \in Nat /\ pending' # None
    BY DEF SessionTypes, TypeOK, None
  <2>1. pending' \in [id : Work, offered : Nat]
    BY <2>0
  <2>2. SessionTypes'
    BY <2>1 DEF SessionTypes, TypeOK
  <2>3. EngineServesActive' /\ Milestones' /\ NotPassedOver' /\ ReadBehind'
    BY <2>0 DEF EngineServesActive, Milestones, NotPassedOver, ReadBehind
  <2>4. NoWorkLost'
    BY <2>0, NoWorkLostPlaces, NoWorkLostPlacesNext DEF WorkPlaced, Places, At
  <2>5. WindowOrdered' /\ FirstReadyEdge' /\ ReportShowsHalves' /\ EventsExactlyOnce' /\ WithinBudgets'
    BY DEF WindowOrdered, FirstReadyEdge, ReportShowsHalves, EventsExactlyOnce, WithinBudgets
  <2> QED BY <2>2, <2>3, <2>4, <2>5
<1>3. cursor \in Nat
  BY DEF SessionInv, SessionTypes, TypeOK
<1> QED BY <1>1, <1>2, <1>3 DEF Offer, OfferRefused, Refuse, Return

(* A popped report moves its work into the caller's hands. *)
LEMMA PopReportInv == SessionInv /\ PopReport => SessionInv'
<1> SUFFICES ASSUME SessionInv, PopReport PROVE SessionInv'
  OBVIOUS
<1>1. CASE UNCHANGED vars
  BY <1>1, Unchanged
<1>2. CASE /\ report # None /\ report' = None /\ popped' = popped \cup {report.id} /\ call' = None
           /\ UNCHANGED <<statusVars, pending, active, seen, engine, eventVars, released, last_read>>
  <2> USE <1>2, Constants DEF SessionInv, statusVars, eventVars
  <2>1. SessionTypes'
    BY DEF SessionTypes, TypeOK, Window
  <2>2. EngineServesActive' /\ Milestones' /\ NotPassedOver' /\ ReadBehind'
    BY DEF EngineServesActive, Milestones, NotPassedOver, ReadBehind
  <2>3. NoWorkLost'
    BY NoWorkLostPlaces, NoWorkLostPlacesNext DEF WorkPlaced, Places, At
  <2>4. WindowOrdered' /\ FirstReadyEdge' /\ ReportShowsHalves' /\ EventsExactlyOnce' /\ WithinBudgets'
    BY DEF WindowOrdered, FirstReadyEdge, ReportShowsHalves, EventsExactlyOnce, WithinBudgets
  <2> QED BY <2>1, <2>2, <2>3, <2>4
<1> QED BY <1>1, <1>2 DEF PopReport, Refuse, Return

(* Reading takes a prefix of the buffer. *)
LEMMA ReadEventsInv ==
  ASSUME SessionInv, NEW capacity \in Nat \ {0}, ReadEvents(capacity)
  PROVE  SessionInv'
<1> DEFINE amount == Min({Len(events), capacity})
<1>0. /\ amount \in 0..Len(events) /\ events \in Seq(Nat) /\ Len(events) \in Nat
      /\ last_read \in Nat /\ next_event_id \in Nat
  BY MinOfTwo, SMTT(40) DEF SessionInv, SessionTypes, TypeOK
<1>1. CASE UNCHANGED vars
  BY <1>1, Unchanged
<1>2. CASE /\ events' = SubSeq(events, amount + 1, Len(events))
           /\ last_read' = IF amount = 0 THEN last_read ELSE events[amount]
           /\ call' = None
           /\ UNCHANGED <<statusVars, pending, active, report, seen, engine, next_event_id, burst,
                          popped, released>>
  <2> HIDE DEF amount
  <2> USE DEF SessionInv, statusVars
  <2>1. /\ events' \in Seq(Nat) /\ Len(events') = Len(events) - amount
        /\ \A i \in 1..Len(events') : events'[i] = events[amount + i]
    BY <1>0, <1>2
  <2>2. last_read' \in Nat
    BY <1>0, <1>2
  <2>3. SessionTypes'
    <3>1. Len(events') <= EventCapacity
      BY <1>0, <2>1, Constants DEF SessionTypes, TypeOK
    <3> QED BY <1>2, <2>1, <2>2, <3>1 DEF SessionTypes, TypeOK
  <2>4. EngineServesActive' /\ Milestones' /\ NotPassedOver'
    BY <1>2 DEF EngineServesActive, Milestones, NotPassedOver
  <2>5. ReadBehind'
    BY <1>0, <1>2 DEF ReadBehind, EventsExactlyOnce
  <2>6. NoWorkLost'
    BY <1>2 DEF NoWorkLost
  <2>7. WindowOrdered' /\ FirstReadyEdge' /\ ReportShowsHalves' /\ WithinBudgets'
    BY <1>2 DEF WindowOrdered, FirstReadyEdge, ReportShowsHalves, WithinBudgets
  <2>8. EventsExactlyOnce'
    <3>1. ASSUME NEW i \in 1..Len(events')
          PROVE  /\ events'[i] > (IF i = 1 THEN last_read' ELSE events'[i - 1])
                 /\ events'[i] <= next_event_id'
      <4>1. amount + i \in 1..Len(events) /\ events'[i] = events[amount + i]
        <5> DEFINE L == Len(events)
                   M == Len(events')
        <5>1. L \in Nat /\ amount \in Nat /\ M = L - amount /\ i \in 1..M
          BY <1>0, <2>1
        <5>2. events'[i] = events[amount + i]
          BY <2>1
        <5> HIDE DEF L, M
        <5>3. amount + i \in 1..L
          BY <5>1
        <5> QED BY <5>2, <5>3 DEF L
      <4>2. /\ events[amount + i] > (IF amount + i = 1 THEN last_read ELSE events[amount + i - 1])
            /\ events[amount + i] <= next_event_id
        <5> DEFINE k == amount + i
        <5>1. k \in 1..Len(events)
          BY <4>1
        <5> HIDE DEF k
        <5>2. events[k] > (IF k = 1 THEN last_read ELSE events[k - 1]) /\ events[k] <= next_event_id
          BY <5>1 DEF EventsExactlyOnce
        <5> QED BY <1>0, <5>1, <5>2 DEF k
      <4>3. CASE i = 1
        BY <1>0, <1>2, <4>1, <4>2, <4>3
      <4>4. CASE i # 1
        <5>1. i - 1 \in 1..Len(events') /\ amount + (i - 1) = amount + i - 1 /\ amount + i # 1
          BY <1>0, <2>1, <4>4
        <5>2. events'[i - 1] = events[amount + i - 1]
          BY <2>1, <5>1
        <5> QED BY <1>2, <4>1, <4>2, <4>4, <5>1, <5>2
      <4> QED BY <4>3, <4>4
    <3>2. ASSUME Recorded = Work
          PROVE  /\ events' = [i \in 1..Len(events') |-> last_read' + i]
                 /\ next_event_id' = last_read' + Len(events')
      <4>1. /\ \A i \in 1..Len(events) : events[i] = last_read + i
            /\ next_event_id = last_read + Len(events)
        BY <3>2 DEF EventsExactlyOnce
      <4>2. last_read' = last_read + amount
        BY <1>0, <1>2, <4>1
      <4>3. \A i \in 1..Len(events') : events'[i] = last_read' + i
        BY <1>0, <2>1, <4>1, <4>2
      <4>4. DOMAIN events' = 1..Len(events')
        BY <2>1
      <4>5. events' = [i \in 1..Len(events') |-> events'[i]]
        BY <2>1, <4>4
      <4>6. events' = [i \in 1..Len(events') |-> last_read' + i]
        BY <4>3, <4>5
      <4>7. next_event_id' = last_read' + Len(events')
        BY SMTT(40), <1>0, <1>2, <2>1, <4>1, <4>2
      <4> QED BY <4>6, <4>7
    <3> QED BY <3>1, <3>2 DEF EventsExactlyOnce
  <2> QED BY <2>3, <2>4, <2>5, <2>6, <2>7, <2>8
<1> QED BY <1>1, <1>2 DEF ReadEvents, Refuse, Return

----------------------------------------------------------------------------
(* An advance call that begins is typed and runs on a handle without fault. *)
LEMMA AdvanceBeginInv ==
  ASSUME SessionInv, NEW until \in Int, NEW steps \in Int, NEW boundary \in BOOLEAN,
         AdvanceBegin(until, steps, boundary)
  PROVE  SessionInv'
<1>0. faulted \in BOOLEAN /\ stop_reason \in StopReason
  BY DEF SessionInv, SessionTypes, TypeOK
<1>1. CASE UNCHANGED vars
  BY <1>1, Unchanged
<1>2. CASE /\ call' = None /\ stop_reason' \in {"REPORT_AVAILABLE", "TARGET", stop_reason} /\ UNCHANGED faulted
           /\ UNCHANGED <<generation, cursor, halves, pending, active, report, seen, engine, eventVars, history>>
  <2>1. stop_reason' \in StopReason
    BY <1>0, <1>2 DEF StopReason
  <2> QED BY <1>0, <1>2, <2>1, StatusOnly
<1>3. CASE /\ call' = [id |-> 1, until |-> until, steps |-> steps, boundary |-> boundary] /\ ~faulted
           /\ UNCHANGED <<statusVars, pending, active, report, seen, engine, eventVars, history>>
  <2>1. call' \in Call
    BY <1>3 DEF Call
  <2> QED BY <1>0, <1>3, <2>1, StatusOnly DEF statusVars
<1> QED BY <1>1, <1>2, <1>3 DEF AdvanceBegin, Refuse, Return

(* The loop's returns without a step change the status only. *)
LEMMA AdvanceStopsInv == SessionInv /\ (AdvanceStops \/ StepBlocked \/ StepRaises) => SessionInv'
<1> SUFFICES ASSUME SessionInv, AdvanceStops \/ StepBlocked \/ StepRaises PROVE SessionInv'
  OBVIOUS
<1>1. UNCHANGED <<generation, cursor, halves, pending, active, report, seen, engine, eventVars, history>>
  BY DEF AdvanceStops, StepBlocked, StepRaises
<1>2. call' = None /\ (faulted' = TRUE \/ faulted' = faulted)
  BY DEF AdvanceStops, StepBlocked, StepRaises, Fault, Return
<1>3. stop_reason' \in StopReason
  BY DEF AdvanceStops, StepBlocked, StepRaises, Fault, StopReason
<1>4. faulted \in BOOLEAN
  BY DEF SessionInv, SessionTypes, TypeOK
<1>5. faulted' \in BOOLEAN /\ (faulted => faulted')
  <2>1. CASE faulted' = TRUE
    BY <2>1
  <2>2. CASE faulted' = faulted
    BY <1>4, <2>2
  <2> QED BY <1>2, <2>1, <2>2
<1> QED BY <1>1, <1>2, <1>3, <1>5, StatusOnly

(* The pending work becomes the active one on the first edge it can. *)
LEMMA AcceptInv == SessionInv /\ Accept => SessionInv'
<1> SUFFICES ASSUME SessionInv, Accept PROVE SessionInv'
  OBVIOUS
<1>0. faulted \in BOOLEAN /\ stop_reason \in StopReason
  BY DEF SessionInv, SessionTypes, TypeOK
<1>1. CASE /\ call' = None
           /\ UNCHANGED <<statusVars, pending, active, report, seen, engine, eventVars, history>>
  BY <1>0, <1>1, StatusOnly DEF statusVars
<1>2. CASE /\ engine' = Started(pending.id)
           /\ active' = [id |-> pending.id, offered |-> pending.offered, accepted |-> cursor]
           /\ pending' = None /\ halves' = HalvesAfter(halves, pending.id) /\ burst' \in Bursts
           /\ UNCHANGED <<generation, cursor, faulted, stop_reason, report, seen, events,
                          next_event_id, call, history>>
  <2> USE Constants DEF SessionInv, history
  <2>0. /\ pending \in [id : Work, offered : Nat] /\ pending # None /\ report = None /\ call # None
        /\ cursor \in Nat /\ released \in Nat /\ engine \in EngineRecord /\ engine.cycle = cursor
        /\ halves \in (0..1) \X (0..1) /\ pending.offered <= cursor /\ ~faulted
        /\ cursor < MaxSessionCycles
    BY DEF Accept, Advancing, Acceptable, SessionTypes, TypeOK, EngineServesActive
  <2>1. active = None
    BY <2>0 DEF Accept, Acceptable, ResourceReady, EngineServesActive, NoWorkLost
  <2>2. /\ engine' \in EngineRecord /\ engine'.cycle = cursor /\ engine'.work = pending.id
        /\ engine'.initial = halves /\ engine'.host = "accepting"
    BY <1>2, <2>0 DEF Started, IdleEngine, EngineRecord
  <2>3. /\ active' \in [id : Work, offered : Nat, accepted : Nat] /\ active' # None
        /\ active'.id = pending.id /\ active'.offered = pending.offered /\ active'.accepted = cursor
        /\ active'.id # 0
    BY <1>2, <2>0 DEF None
  <2>4. halves' \in (0..1) \X (0..1)
    <3>0. pending.id \in Work /\ halves[1] \in 0..1 /\ halves[2] \in 0..1
      BY <2>0
    <3>1. /\ halves[1] \in Nat /\ halves[2] \in Nat
          /\ Frames[pending.id] \in Nat /\ Stores[pending.id] \in Nat
      <4>1. Frames[pending.id] \in Nat \ {0} /\ Stores[pending.id] \in Nat
        BY <3>0
      <4>2. halves[1] \in Nat /\ halves[2] \in Nat
        BY <3>0
      <4> QED BY <4>1, <4>2
    <3>2. (halves[1] + Frames[pending.id]) % 2 \in 0..1 /\ (halves[2] + Stores[pending.id]) % 2 \in 0..1
      BY <3>1
    <3> QED BY <1>2, <3>2 DEF HalvesAfter
  <2>5. SessionTypes'
    BY <1>2, <2>0, <2>2, <2>3, <2>4 DEF SessionTypes, TypeOK
  <2>6. EngineServesActive'
    BY <1>2, <2>0, <2>2, <2>3 DEF EngineServesActive
  <2>7. Milestones'
    BY <1>2, <2>0, <2>2, <2>3 DEF Milestones
  <2>8. NotPassedOver' /\ ReadBehind'
    BY <1>2 DEF NotPassedOver, ReadBehind
  <2>9. NoWorkLost'
    <3>1. At(pending) = {pending.id} /\ At(active) = {} /\ At(pending)' = {} /\ At(active)' = {pending.id}
      BY <1>2, <2>0, <2>1, <2>3 DEF At
    <3>2. At(report)' = At(report)
      BY <1>2 DEF At
    <3> QED BY <1>2, <2>2, <2>3, <3>1, <3>2, NoWorkLostPlaces, NoWorkLostPlacesNext DEF WorkPlaced, Places
  <2>10. FirstReadyEdge'
    <3>1. released <= cursor /\ (cursor <= pending.offered \/ cursor <= released)
      BY <2>0, <2>1 DEF NotPassedOver
    <3>2. Max({pending.offered, released}) = cursor
      BY <2>0, <3>1, MaxOfTwo
    <3> QED BY <1>2, <2>3, <3>2 DEF FirstReadyEdge
  <2>11. WindowOrdered' /\ ReportShowsHalves' /\ EventsExactlyOnce' /\ WithinBudgets'
    BY <1>2, <2>0, <2>3 DEF WindowOrdered, ReportShowsHalves, EventsExactlyOnce, WithinBudgets
  <2> QED BY <2>5, <2>6, <2>7, <2>8, <2>9, <2>10, <2>11
<1> QED BY <1>1, <1>2 DEF Accept, Return

----------------------------------------------------------------------------
(* One edge of the host side *)
LEMMA HostStepFacts ==
  ASSUME engine \in EngineRecord, NEW e \in HostStep(engine)
  PROVE  /\ e \in EngineRecord /\ e.cycle = engine.cycle + 1
         /\ e.work = engine.work /\ e.initial = engine.initial
         /\ engine.work # 0 /\ engine.host # "retired" =>
              \/ /\ engine.host \in {"accepting", "waiting"} /\ e.host = "waiting"
              \/ /\ engine.host = "waiting" /\ e.host = "releasing" /\ e.release = 0
                 /\ e.frame = engine.frame
                 /\ engine.frame = Frames[engine.work] => e.result = engine.cycle
              \/ /\ engine.host = "releasing" /\ e.host = "releasing" /\ e.frame = engine.frame
                 /\ e.result = engine.result /\ e.release = engine.release + 1
                 /\ engine.frame = Frames[engine.work] => e.final = engine.cycle
              \/ /\ engine.host = "releasing" /\ engine.release >= ReleaseRows
                 /\ engine.frame = Frames[engine.work] /\ e.host = "retired"
                 /\ e.resource = engine.cycle + 1
                 /\ e.result = engine.result /\ e.final = engine.final
              \/ engine.host = "releasing" /\ e.host = "accepting"
<1> USE Constants
<1> DEFINE c == engine.cycle
           next == [engine EXCEPT !.cycle = c + 1]
<1>0. /\ next \in EngineRecord /\ next.cycle = c + 1 /\ c \in Nat
      /\ \A r \in EngineRecord : r.release \in Nat /\ r.frame \in Nat
      /\ next.work = engine.work /\ next.initial = engine.initial /\ next.host = engine.host
      /\ next.frame = engine.frame /\ next.release = engine.release
      /\ next.result = engine.result /\ next.final = engine.final
  BY DEF EngineRecord
<1>1. CASE engine.work = 0 \/ engine.host = "retired"
  <2>1. e = next
    BY <1>1 DEF HostStep
  <2> QED BY <1>0, <1>1, <2>1
<1>2. CASE engine.work # 0 /\ engine.host = "accepting"
  <2>1. e = [next EXCEPT !.host = "waiting"]
    BY <1>2 DEF HostStep
  <2> HIDE DEF next
  <2> QED BY <1>0, <1>2, <2>1 DEF EngineRecord
<1>3. CASE engine.work # 0 /\ engine.host = "waiting"
  <2> DEFINE result == IF engine.frame = Frames[engine.work] THEN c ELSE engine.result
  <2>1. e = next \/ e = [next EXCEPT !.host = "releasing", !.release = 0, !.result = result]
    BY <1>3 DEF HostStep
  <2>2. result \in Nat /\ (engine.frame = Frames[engine.work] => result = c)
    BY DEF EngineRecord
  <2>3. CASE e = next
    BY <1>0, <1>3, <2>3
  <2>4. CASE e = [next EXCEPT !.host = "releasing", !.release = 0, !.result = result]
    <3> HIDE DEF next, result
    <3>1. /\ e \in EngineRecord /\ e.cycle = next.cycle /\ e.work = next.work /\ e.initial = next.initial
          /\ e.host = "releasing" /\ e.release = 0 /\ e.frame = next.frame /\ e.result = result
      BY <1>0, <2>2, <2>4 DEF EngineRecord
    <3> QED BY <1>0, <1>3, <2>2, <3>1
  <2> QED BY <2>1, <2>3, <2>4
<1>4. CASE engine.work # 0 /\ engine.host = "releasing" /\ engine.release < ReleaseRows
  <2> DEFINE final == IF engine.frame = Frames[engine.work] THEN c ELSE engine.final
  <2>1. e = [next EXCEPT !.release = engine.release + 1, !.final = final]
    <3>1. ~(engine.release >= ReleaseRows)
      BY <1>0, <1>4
    <3> QED BY <1>4, <3>1 DEF HostStep
  <2>2. /\ final \in Nat /\ (engine.frame = Frames[engine.work] => final = c)
        /\ engine.release \in Nat /\ engine.release + 1 \in Nat
    BY DEF EngineRecord
  <2> HIDE DEF next, final
  <2>3. /\ e \in EngineRecord /\ e.cycle = next.cycle /\ e.work = next.work /\ e.initial = next.initial
        /\ e.host = next.host /\ e.release = engine.release + 1 /\ e.frame = next.frame
        /\ e.result = next.result /\ e.final = final
    BY <1>0, <2>1, <2>2 DEF EngineRecord
  <2> QED BY <1>0, <1>4, <2>2, <2>3
<1>5. CASE engine.work # 0 /\ engine.host = "releasing" /\ ~(engine.release < ReleaseRows)
  <2>0. engine.release >= ReleaseRows /\ engine.frame \in Nat
    BY <1>0, <1>5
  <2>1. e = IF engine.frame = Frames[engine.work] THEN [next EXCEPT !.host = "retired", !.resource = c + 1]
            ELSE [next EXCEPT !.host = "accepting", !.frame = engine.frame + 1]
    BY <1>5, <2>0 DEF HostStep
  <2> HIDE DEF next
  <2>2. CASE engine.frame = Frames[engine.work]
    <3>1. /\ e \in EngineRecord /\ e.cycle = next.cycle /\ e.work = next.work /\ e.initial = next.initial
          /\ e.host = "retired" /\ e.resource = c + 1 /\ e.result = next.result /\ e.final = next.final
      BY <1>0, <2>1, <2>2 DEF EngineRecord
    <3> QED BY <1>0, <1>5, <2>0, <2>2, <3>1
  <2>3. CASE engine.frame # Frames[engine.work]
    <3>1. /\ e \in EngineRecord /\ e.cycle = next.cycle /\ e.work = next.work /\ e.initial = next.initial
          /\ e.host = "accepting"
      <4>1. engine.frame + 1 \in Nat /\ e = [next EXCEPT !.host = "accepting", !.frame = engine.frame + 1]
        BY <2>0, <2>1, <2>3
      <4> QED BY <1>0, <4>1 DEF EngineRecord
    <3> QED BY <1>0, <1>5, <3>1
  <2> QED BY <2>2, <2>3
<1> QED BY <1>1, <1>2, <1>3, <1>4, <1>5 DEF EngineRecord

(* What concatenation does to two sequences of event ids *)
LEMMA ConcatEvents ==
  ASSUME NEW s \in Seq(Nat), NEW t \in Seq(Nat)
  PROVE  /\ s \o t \in Seq(Nat) /\ Len(s \o t) = Len(s) + Len(t)
         /\ \A i \in 1..Len(s) : (s \o t)[i] = s[i]
         /\ \A i \in 1..Len(t) : (s \o t)[Len(s) + i] = t[i]
OBVIOUS

(* The events of a committed step follow the events before it. *)
LEMMA EmitInv ==
  ASSUME SessionInv, Emit, ~BufferFull, last_read' = last_read
  PROVE  /\ events' \in Seq(Nat) /\ Len(events') <= EventCapacity /\ next_event_id' \in Nat
         /\ ReadBehind' /\ EventsExactlyOnce'
<1> DEFINE n == Len(events)
           new == [i \in 1..burst |-> next_event_id + i]
<1> USE Constants DEF SessionInv
<1>0. /\ events \in Seq(Nat) /\ n \in Nat /\ n <= EventCapacity /\ next_event_id \in Nat
      /\ burst \in Nat /\ last_read \in Nat /\ last_read <= next_event_id
      /\ next_event_id' = next_event_id + burst
      /\ engine.work \in Work \cup {0}
  BY DEF SessionTypes, TypeOK, EngineRecord, ReadBehind, Emit
<1>1. ReadBehind' /\ next_event_id' \in Nat
  BY <1>0 DEF ReadBehind
<1>2. CASE ~Recording
  <2>1. events' = events
    BY <1>2 DEF Emit
  <2>2. Recorded = Work => burst = 0
    BY <1>0, <1>2 DEF Recording, EngineServesActive
  <2>3. ASSUME NEW i \in 1..Len(events')
        PROVE  /\ events'[i] > (IF i = 1 THEN last_read' ELSE events'[i - 1])
               /\ events'[i] <= next_event_id'
    <3>1. events[i] > (IF i = 1 THEN last_read ELSE events[i - 1]) /\ events[i] <= next_event_id
      BY <2>1 DEF EventsExactlyOnce
    <3>2. events[i] \in Nat
      BY <1>0, <2>1
    <3> QED BY <1>0, <2>1, <3>1, <3>2
  <2>4. Recorded = Work => /\ events' = [i \in 1..Len(events') |-> last_read' + i]
                           /\ next_event_id' = last_read' + Len(events')
    BY <1>0, <2>1, <2>2 DEF EventsExactlyOnce
  <2> QED BY <1>0, <1>1, <2>1, <2>3, <2>4 DEF EventsExactlyOnce
<1>3. CASE Recording
  <2>1. events' = events \o new /\ n + burst <= EventCapacity
    BY <1>0, <1>3 DEF Emit, BufferFull
  <2>2. new \in Seq(Nat) /\ Len(new) = burst /\ \A i \in 1..burst : new[i] = next_event_id + i
    BY <1>0
  <2> HIDE DEF new
  <2>3. /\ events' \in Seq(Nat) /\ Len(events') = n + burst
        /\ \A i \in 1..n : events'[i] = events[i]
        /\ \A i \in n + 1..n + burst : events'[i] = next_event_id + (i - n)
    <3>1. /\ events' \in Seq(Nat) /\ Len(events') = n + burst
          /\ \A i \in 1..n : events'[i] = events[i]
          /\ \A i \in 1..burst : events'[n + i] = new[i]
      <4>1. events \in Seq(Nat) /\ new \in Seq(Nat)
        BY <1>0, <2>2
      <4>2. /\ events \o new \in Seq(Nat) /\ Len(events \o new) = Len(events) + Len(new)
            /\ \A i \in 1..Len(events) : (events \o new)[i] = events[i]
            /\ \A i \in 1..Len(new) : (events \o new)[Len(events) + i] = new[i]
        BY <4>1, ConcatEvents, Zenon
      <4> QED BY <2>1, <2>2, <4>2
    <3>2. ASSUME NEW i \in n + 1..n + burst PROVE events'[i] = next_event_id + (i - n)
      <4>1. i - n \in 1..burst /\ n + (i - n) = i
        BY <1>0
      <4>2. events'[n + (i - n)] = new[i - n] /\ new[i - n] = next_event_id + (i - n)
        BY <2>2, <3>1, <4>1
      <4> QED BY <4>1, <4>2
    <3> QED BY <3>1, <3>2
  <2>4. ASSUME NEW i \in 1..Len(events')
        PROVE  /\ events'[i] > (IF i = 1 THEN last_read' ELSE events'[i - 1])
               /\ events'[i] <= next_event_id'
    <3>1. CASE i \in 1..n
      <4>1. events[i] > (IF i = 1 THEN last_read ELSE events[i - 1]) /\ events[i] <= next_event_id
        BY <3>1 DEF EventsExactlyOnce
      <4>2. events'[i] = events[i] /\ events[i] \in Nat /\ (i # 1 => events'[i - 1] = events[i - 1])
        <5>1. i # 1 => i - 1 \in 1..n
          BY <1>0, <3>1
        <5>2. events[i] \in Nat
          BY <1>0, <3>1
        <5> QED BY <2>3, <3>1, <5>1, <5>2
      <4> QED BY <1>0, <4>1, <4>2
    <3>2. CASE i = n + 1
      <4>1. events'[i] = next_event_id + 1
        <5>1. i \in n + 1..n + burst /\ i - n = 1
          BY <1>0, <2>3, <3>2
        <5> QED BY <2>3, <5>1
      <4>2. CASE n = 0
        BY <1>0, <2>3, <3>2, <4>1, <4>2
      <4>3. CASE n # 0
        <5>1. n \in 1..n /\ i - 1 = n /\ i # 1
          BY <1>0, <3>2, <4>3
        <5>2. events'[i - 1] = events[n] /\ events[n] <= next_event_id /\ events[n] \in Nat
          BY <1>0, <2>3, <5>1 DEF EventsExactlyOnce
        <5> QED BY <1>0, <2>3, <3>2, <4>1, <5>1, <5>2
      <4> QED BY <4>2, <4>3
    <3>3. CASE i \in n + 2..n + burst
      <4>1. i - 1 \in n + 1..n + burst /\ i \in n + 1..n + burst /\ i # 1
        BY <1>0, <3>3
      <4>2. events'[i] = next_event_id + (i - n) /\ events'[i - 1] = next_event_id + (i - 1 - n)
        BY <2>3, <4>1
      <4> QED BY <1>0, <3>3, <4>1, <4>2
    <3> QED BY <1>0, <2>3, <3>1, <3>2, <3>3
  <2>5. ASSUME Recorded = Work
        PROVE  /\ events' = [i \in 1..Len(events') |-> last_read' + i]
               /\ next_event_id' = last_read' + Len(events')
    <3>1. /\ \A i \in 1..n : events[i] = last_read + i
          /\ next_event_id = last_read + n
      BY <2>5 DEF EventsExactlyOnce
    <3>2. ASSUME NEW i \in 1..Len(events') PROVE events'[i] = last_read + i
      <4>1. CASE i \in 1..n
        BY <2>3, <3>1, <4>1
      <4>2. CASE i \in n + 1..n + burst
        <5>1. events'[i] = next_event_id + (i - n)
          BY <2>3, <4>2
        <5> QED BY <1>0, <3>1, <5>1
      <4> QED BY <1>0, <2>3, <4>1, <4>2
    <3>3. events' = [i \in 1..Len(events') |-> events'[i]]
      BY <2>3
    <3>4. events' = [i \in 1..Len(events') |-> last_read + i]
      BY <3>2, <3>3
    <3> QED BY <1>0, <2>3, <3>1, <3>4
  <2>6. Len(events') <= EventCapacity
    BY <2>1, <2>3
  <2> QED BY <1>1, <2>3, <2>4, <2>5, <2>6 DEF EventsExactlyOnce
<1> QED BY <1>2, <1>3

(* A committed step: the work goes on, is reported or cannot be finished. *)
LEMMA StepCommitsInv == SessionInv /\ StepCommits => SessionInv'
<1> SUFFICES ASSUME SessionInv, StepCommits PROVE SessionInv'
  OBVIOUS
<1> USE Constants DEF SessionInv
<1>0. /\ call # None /\ call \in Call /\ ~faulted /\ cursor \in Nat /\ cursor < MaxSessionCycles
      /\ engine \in EngineRecord /\ engine.cycle = cursor /\ released \in Nat
      /\ (active # None => cursor - active.accepted < MaxWorkCycles)
      /\ active = None \/ active \in [id : Work, offered : Nat, accepted : Nat]
      /\ pending = None \/ pending \in [id : Work, offered : Nat]
      /\ ~Acceptable
  BY DEF StepCommits, Stepping, Advancing, SessionTypes, TypeOK, EngineServesActive
<1>1. /\ cursor' = cursor + 1 /\ Emit /\ ~BufferFull
      /\ UNCHANGED <<generation, halves, pending, seen, popped, last_read>>
  BY DEF StepCommits
<1>2. /\ events' \in Seq(Nat) /\ Len(events') <= EventCapacity /\ next_event_id' \in Nat
      /\ ReadBehind' /\ EventsExactlyOnce'
  BY <1>1, EmitInv
<1>3. PICK e \in HostStep(engine) :
        \/ /\ active # None /\ ResourceReady(e)
           /\ report' = ReportOf(e) /\ released' = e.resource /\ engine' = IdleEngine(e.cycle)
           /\ active' = None /\ burst' = 0 /\ UNCHANGED faulted
           /\ \/ stop_reason' = "REPORT_AVAILABLE" /\ call' = None
              \/ UNCHANGED <<stop_reason, call>>
        \/ /\ active # None /\ ResourceReady(e)
           /\ faulted' = TRUE /\ stop_reason' = "FAULT" /\ call' = None
           /\ engine' = e /\ UNCHANGED <<report, released, active, burst>>
        \/ /\ ~(active # None /\ ResourceReady(e))
           /\ engine' = e /\ burst' \in (IF e.work = 0 THEN {0} ELSE Bursts)
           /\ call' = [call EXCEPT !.steps = IF call.boundary THEN @ - 1 ELSE @]
           /\ UNCHANGED <<report, released, active, faulted, stop_reason>>
  BY DEF StepCommits, Fault, Return
<1>4. /\ e \in EngineRecord /\ e.cycle = cursor + 1 /\ e.work = engine.work /\ e.initial = engine.initial
  BY <1>0, HostStepFacts
<1>5. active # None => /\ active.id \in Work /\ engine.work = active.id /\ engine.work # 0
                       /\ engine.host # "retired" /\ report = None
                       /\ active.offered <= active.accepted /\ active.accepted <= cursor
                       /\ active.accepted \in Nat /\ active.offered \in Nat
  BY <1>0 DEF EngineServesActive, Milestones
<1>6. active = None => engine.work = 0
  BY DEF EngineServesActive, None
<1>7. active # None /\ ResourceReady(e) =>
        /\ e.host = "retired" /\ e.resource = cursor + 1
        /\ active.accepted < e.result /\ e.result <= e.final /\ e.final < cursor
  <2>1. ASSUME active # None, ResourceReady(e) PROVE e.host = "retired"
    BY <1>4, <1>5, <2>1 DEF ResourceReady
  <2>2. ASSUME active # None, e.host = "retired"
        PROVE  /\ engine.host = "releasing" /\ engine.release >= ReleaseRows
               /\ engine.frame = Frames[engine.work] /\ e.resource = cursor + 1
               /\ e.result = engine.result /\ e.final = engine.final
    BY <1>0, <1>5, <2>2, HostStepFacts
  <2>3. engine.release \in Nat
    BY <1>0 DEF EngineRecord
  <2> QED BY <1>0, <2>1, <2>2, <2>3 DEF Milestones
<1>8. active # None /\ ~ResourceReady(e) => e.host # "retired"
  BY <1>0, <1>4, <1>5, HostStepFacts DEF ResourceReady
<1>9. CASE /\ active # None /\ ResourceReady(e)
           /\ report' = ReportOf(e) /\ released' = e.resource /\ engine' = IdleEngine(e.cycle)
           /\ active' = None /\ burst' = 0 /\ UNCHANGED faulted
           /\ \/ stop_reason' = "REPORT_AVAILABLE" /\ call' = None
              \/ UNCHANGED <<stop_reason, call>>
  <2>1. /\ engine' \in EngineRecord /\ engine'.cycle = cursor' /\ engine'.work = 0
    BY <1>1, <1>4, <1>9, <1>0 DEF IdleEngine, EngineRecord
  <2>2. /\ report'.id = active.id /\ report'.offered = active.offered /\ report'.accepted = active.accepted
        /\ report'.result = e.result /\ report'.final = e.final /\ report'.resource = e.resource
        /\ report'.halves = HalvesAfter(e.initial, e.work)
    BY <1>9 DEF ReportOf
  <2>3. HalvesAfter(e.initial, e.work) = halves
    BY <1>4, <1>9 DEF EngineServesActive
  <2>4. report' \in Window /\ report' # None
    <3>1. report' # None
      BY <1>5, <1>9, <2>2 DEF None
    <3>2. halves \in (0..1) \X (0..1) /\ e.result \in Nat /\ e.final \in Nat /\ e.resource \in Nat
      BY <1>4 DEF SessionTypes, TypeOK, EngineRecord
    <3> QED BY <1>5, <1>9, <2>3, <3>1, <3>2 DEF ReportOf, Window
  <2>5. call' = None \/ call' \in Call
    BY <1>0, <1>9
  <2>6. SessionTypes'
    <3>1. stop_reason' \in StopReason /\ released' \in Nat
      BY <1>4, <1>9 DEF SessionTypes, TypeOK, StopReason, EngineRecord
    <3> QED BY <1>0, <1>1, <1>2, <1>9, <2>1, <2>4, <2>5, <3>1 DEF SessionTypes, TypeOK
  <2>7. EngineServesActive' /\ Milestones'
    BY <1>0, <1>9, <2>1 DEF EngineServesActive, Milestones, None
  <2>8. NotPassedOver'
    BY <1>0, <1>1, <1>7, <1>9 DEF NotPassedOver
  <2>9. NoWorkLost'
    <3>1. /\ At(active) = {active.id} /\ At(active)' = {} /\ At(report) = {}
          /\ At(report)' = {active.id} /\ At(pending)' = At(pending)
      BY <1>1, <1>5, <1>9, <2>2, <2>4 DEF At
    <3> QED BY <1>1, <1>9, <2>1, <3>1, NoWorkLostPlaces, NoWorkLostPlacesNext DEF WorkPlaced, Places
  <2>10. WindowOrdered' /\ FirstReadyEdge' /\ ReportShowsHalves' /\ WithinBudgets'
    <3>1. WindowOrdered'
      <4>1. e.result \in Nat /\ e.final \in Nat /\ e.resource \in Nat
        BY <1>4 DEF EngineRecord
      <4> QED BY <1>0, <1>1, <1>5, <1>7, <1>9, <2>2, <4>1 DEF WindowOrdered
    <3>2. FirstReadyEdge' /\ ReportShowsHalves' /\ WithinBudgets'
      BY <1>0, <1>1, <1>9, <2>2, <2>3 DEF FirstReadyEdge, ReportShowsHalves, WithinBudgets
    <3> QED BY <3>1, <3>2
  <2> QED BY <1>2, <2>6, <2>7, <2>8, <2>9, <2>10
<1>10. CASE /\ active # None /\ ResourceReady(e)
            /\ faulted' = TRUE /\ stop_reason' = "FAULT" /\ call' = None
            /\ engine' = e /\ UNCHANGED <<report, released, active, burst>>
  <2>1. SessionTypes'
    <3>1. stop_reason' \in StopReason
      BY <1>10 DEF StopReason
    <3> QED BY <1>0, <1>1, <1>2, <1>4, <1>10, <3>1 DEF SessionTypes, TypeOK
  <2>2. EngineServesActive'
    BY <1>1, <1>4, <1>5, <1>10 DEF EngineServesActive
  <2>3. Milestones'
    BY <1>0, <1>1, <1>5, <1>7, <1>10 DEF Milestones
  <2>4. NotPassedOver'
    BY <1>0, <1>1, <1>10 DEF NotPassedOver
  <2>5. NoWorkLost'
    BY <1>1, <1>4, <1>10 DEF NoWorkLost
  <2>6. WindowOrdered' /\ FirstReadyEdge' /\ ReportShowsHalves' /\ WithinBudgets'
    BY <1>0, <1>1, <1>5, <1>10 DEF WindowOrdered, FirstReadyEdge, ReportShowsHalves, WithinBudgets
  <2> QED BY <1>2, <2>1, <2>2, <2>3, <2>4, <2>5, <2>6
<1>11. CASE /\ ~(active # None /\ ResourceReady(e))
            /\ engine' = e /\ burst' \in (IF e.work = 0 THEN {0} ELSE Bursts)
            /\ call' = [call EXCEPT !.steps = IF call.boundary THEN @ - 1 ELSE @]
            /\ UNCHANGED <<report, released, active, faulted, stop_reason>>
  <2>0. call' \in Call /\ call' # None /\ burst' \in Nat /\ (e.work = 0 => burst' = 0)
    BY <1>0, <1>11 DEF Call, None
  <2>1. SessionTypes'
    <3>1. engine' \in EngineRecord /\ engine'.cycle = cursor' /\ cursor' \in Nat
      BY <1>0, <1>1, <1>4, <1>11
    <3>2. TypeOK'
      BY <1>1, <1>2, <1>11, <3>1 DEF SessionTypes, TypeOK
    <3>3. released' \in Nat /\ last_read' \in Nat
      BY <1>1, <1>11 DEF SessionTypes
    <3> QED BY <1>2, <2>0, <3>1, <3>2, <3>3 DEF SessionTypes
  <2>2. EngineServesActive'
    BY <1>0, <1>1, <1>4, <1>8, <1>11, <2>0 DEF EngineServesActive
  <2>3. Milestones'
    <3> SUFFICES ASSUME active # None PROVE Milestones'
      BY <1>11 DEF Milestones
    <3>1. /\ engine.result \in Nat /\ engine.final \in Nat /\ engine.release \in Nat
          /\ e.result \in Nat /\ e.final \in Nat /\ e.release \in Nat
      BY <1>0, <1>4 DEF EngineRecord
    <3>2. CASE e.host \in {"accepting", "waiting"}
      BY <1>0, <1>1, <1>5, <1>11, <3>2 DEF Milestones
    <3>3. CASE engine.host = "waiting" /\ e.host = "releasing"
      <4>1. e.release = 0 /\ e.frame = engine.frame /\ (engine.frame = Frames[engine.work] => e.result = cursor)
        BY <1>0, <1>5, <3>3, HostStepFacts
      <4> QED BY <1>0, <1>1, <1>4, <1>5, <1>11, <3>1, <3>3, <4>1 DEF Milestones
    <3>4. CASE engine.host = "releasing" /\ e.host = "releasing"
      <4>1. /\ e.frame = engine.frame /\ e.result = engine.result
            /\ engine.frame = Frames[engine.work] => e.final = cursor
        BY <1>0, <1>5, <3>4, HostStepFacts
      <4> QED BY <1>0, <1>1, <1>4, <1>5, <1>11, <3>1, <3>4, <4>1 DEF Milestones
    <3>5. e.host # "retired"
      BY <1>8, <1>11
    <3> QED BY <1>0, <1>5, <3>2, <3>3, <3>4, <3>5, HostStepFacts
  <2>4. NotPassedOver'
    <3>1. pending # None /\ active = None => pending.offered > cursor
      BY <1>0, <1>6 DEF Acceptable, ResourceReady
    <3> QED BY <1>0, <1>1, <1>11, <3>1 DEF NotPassedOver
  <2>5. NoWorkLost'
    BY <1>1, <1>4, <1>11 DEF NoWorkLost
  <2>6. WindowOrdered' /\ FirstReadyEdge' /\ ReportShowsHalves' /\ WithinBudgets'
    <3>1. report # None => report.resource \in Nat
      BY DEF SessionTypes, TypeOK, Window
    <3> QED BY <1>0, <1>1, <1>5, <1>11, <3>1 DEF WindowOrdered, FirstReadyEdge, ReportShowsHalves, WithinBudgets
  <2> QED BY <1>2, <2>1, <2>2, <2>3, <2>4, <2>5, <2>6
<1> QED BY <1>3, <1>9, <1>10, <1>11

----------------------------------------------------------------------------
(* Every call and every iteration of the advance loop preserves it. *)
LEMMA SessionStep == SessionInv /\ [Next]_vars => SessionInv'
<1> SUFFICES ASSUME SessionInv, [Next]_vars PROVE SessionInv'
  OBVIOUS
<1>0. cursor \in Nat /\ MaxAhead \in Nat /\ EventCapacity \in Nat /\ MaxSteps \in Nat
  BY Constants DEF SessionInv, SessionTypes, TypeOK
<1>1. ASSUME NEW w \in Work, NEW ahead \in -1..MaxAhead, Offer(w, cursor + ahead) PROVE SessionInv'
  BY <1>0, <1>1, OfferInv
<1>2. ASSUME NEW capacity \in 1..(EventCapacity + 1), ReadEvents(capacity) PROVE SessionInv'
  BY <1>0, <1>2, ReadEventsInv
<1>3. ASSUME NEW ahead \in -1..MaxAhead, AdvanceBegin(cursor + ahead, 0, FALSE) PROVE SessionInv'
  <2>1. cursor + ahead \in Int /\ 0 \in Int /\ FALSE \in BOOLEAN
    BY <1>0
  <2> QED BY <1>3, <2>1, AdvanceBeginInv, Zenon
<1>4. ASSUME NEW ahead \in 0..MaxAhead, NEW steps \in 0..MaxSteps, AdvanceBegin(cursor + ahead, steps, TRUE)
      PROVE  SessionInv'
  <2>1. cursor + ahead \in Int /\ steps \in Int /\ TRUE \in BOOLEAN
    BY <1>0
  <2> QED BY <1>4, <2>1, AdvanceBeginInv, Zenon
<1>5. CASE Caller
  BY <1>1, <1>2, <1>3, <1>4, <1>5, ResetInv, PopReportInv DEF Caller
<1>6. CASE AdvanceLoop
  BY <1>6, AdvanceStopsInv, AcceptInv, StepCommitsInv DEF AdvanceLoop
<1> QED BY <1>5, <1>6, Unchanged DEF Next

(* The handle, its engine and the caller agree on every work and event in  *)
(* every reachable state of sequence_c_api.cpp.                            *)
THEOREM SessionInvariant == Spec => []SessionInv
BY SessionInit, SessionStep, PTL DEF Spec

(* No offered work is lost or runs twice, across rollbacks, faults and     *)
(* resets, for every set of works and every order of calls                 *)
(* (im2p_cycle_sequence_offer, _advance, _pop_report).                     *)
THEOREM SessionLosesNoWork == Spec => []NoWorkLost
BY SessionInvariant, PTL DEF SessionInv

(* Every committed event is read once and in order whatever the size of    *)
(* the buffer and of the caller's reads (im2p_cycle_sequence_read_events). *)
THEOREM SessionEventsOnce == Spec => []EventsExactlyOnce
BY SessionInvariant, PTL DEF SessionInv

(* One more work turns the parity when its count is odd. *)
LEMMA ParityAdds ==
  ASSUME NEW counts \in [Work -> Nat], NEW S \in SUBSET Work, NEW w \in Work \ S
  PROVE  Parity(counts, S \cup {w}) = (Parity(counts, S) + counts[w]) % 2
<1> DEFINE odd == {v \in S : counts[v] % 2 = 1}
<1>1. IsFiniteSet(odd)
  BY SessionAssumption, FS_Subset
<1>2. PICK n \in Nat : Cardinality(odd) = n
  BY <1>1, FS_CardinalityType
<1>3. counts[w] \in Nat /\ w \notin odd
  OBVIOUS
<1>4. CASE counts[w] % 2 = 1
  <2>1. {v \in S \cup {w} : counts[v] % 2 = 1} = odd \cup {w}
    BY <1>4
  <2>2. Cardinality(odd \cup {w}) = n + 1
    BY <1>1, <1>2, <1>3, FS_AddElement
  <2>3. (n + 1) % 2 = ((n % 2) + counts[w]) % 2
    BY <1>3, <1>4
  <2> QED BY <1>2, <2>1, <2>2, <2>3 DEF Parity
<1>5. CASE counts[w] % 2 # 1
  <2>1. {v \in S \cup {w} : counts[v] % 2 = 1} = odd
    BY <1>5
  <2>2. n % 2 = ((n % 2) + counts[w]) % 2
    BY <1>3, <1>5
  <2> QED BY <1>2, <2>1, <2>2 DEF Parity
<1> QED BY <1>4, <1>5

(* The halves are the parity of what the generation accepted. *)
HalvesCounted == halves = <<Parity(Frames, AcceptedWorks), Parity(Stores, AcceptedWorks)>>

LEMMA ParityNone == ASSUME NEW counts PROVE Parity(counts, {}) = 0
<1>1. {w \in {} : counts[w] % 2 = 1} = {}
  OBVIOUS
<1> QED BY <1>1, FS_EmptySet DEF Parity

LEMMA HalvesStart == Init => HalvesCounted
<1> SUFFICES ASSUME Init PROVE HalvesCounted
  OBVIOUS
<1>1. AcceptedWorks = {}
  BY Constants DEF Init, AcceptedWorks, None
<1> QED BY <1>1, ParityNone DEF Init, HalvesCounted

(* The set of accepted works is the same before and after the step. *)
LEMMA HalvesSame ==
  ASSUME HalvesCounted, AcceptedWorks' = AcceptedWorks, halves' = halves
  PROVE  HalvesCounted'
BY DEF HalvesCounted, Parity

LEMMA ResetHalves == ASSUME SessionInv, HalvesCounted, Reset PROVE HalvesCounted'
<1>1. CASE UNCHANGED vars
  BY <1>1, HalvesSame DEF vars, statusVars, history, AcceptedWorks
<1>2. CASE ~UNCHANGED vars
  <2>1. popped' = {} /\ active' = None /\ report' = None /\ halves' = <<0, 0>>
    BY <1>2 DEF Reset, Refuse
  <2>2. AcceptedWorks' = {}
    BY <2>1, Constants DEF AcceptedWorks, None
  <2>3. HalvesCounted' <=> halves' = <<Parity(Frames, {}), Parity(Stores, {})>>
    BY <2>2 DEF HalvesCounted, Parity
  <2> QED BY <2>1, <2>3, ParityNone
<1> QED BY <1>1, <1>2

LEMMA PopReportHalves == ASSUME SessionInv, HalvesCounted, PopReport PROVE HalvesCounted'
<1>1. CASE UNCHANGED vars
  BY <1>1, HalvesSame DEF vars, statusVars, history, AcceptedWorks
<1>2. CASE ~UNCHANGED vars
  <2>1. /\ report # None /\ report' = None /\ popped' = popped \cup {report.id}
        /\ active' = active /\ halves' = halves
    BY <1>2 DEF PopReport, Refuse, statusVars
  <2>2. report.id \in Work
    BY <2>1 DEF SessionInv, SessionTypes, TypeOK, Window
  <2>3. None.id = 0
    BY DEF None
  <2>4. AcceptedWorks' = AcceptedWorks
    BY <2>1, <2>2, <2>3, Constants DEF AcceptedWorks
  <2> QED BY <2>1, <2>4, HalvesSame
<1> QED BY <1>1, <1>2

LEMMA AcceptHalves == ASSUME SessionInv, HalvesCounted, Accept PROVE HalvesCounted'
<1>1. CASE UNCHANGED <<statusVars, pending, active, report, seen, engine, eventVars, history>>
  BY <1>1, HalvesSame DEF statusVars, history, AcceptedWorks
<1>2. CASE /\ active' = [id |-> pending.id, offered |-> pending.offered, accepted |-> cursor]
           /\ halves' = HalvesAfter(halves, pending.id) /\ UNCHANGED <<report, history>>
  <2> DEFINE w == pending.id
  <2>1. /\ pending \in [id : Work, offered : Nat] /\ pending # None /\ w \in Work
        /\ report = None /\ halves \in (0..1) \X (0..1)
    BY DEF SessionInv, Accept, Acceptable, SessionTypes, TypeOK
  <2>2. active = None
    BY <2>1 DEF SessionInv, Accept, Advancing, Acceptable, ResourceReady, EngineServesActive, NoWorkLost
  <2>3. AcceptedWorks = popped /\ w \notin popped /\ popped \in SUBSET Work
    <3>1. At(pending) = {w}
      BY <2>1 DEF At
    <3>2. At(pending) \cap popped = {}
      BY NoWorkLostPlaces DEF SessionInv, WorkPlaced, Places
    <3>3. popped \in SUBSET Work
      BY DEF SessionInv, SessionTypes, TypeOK
    <3> QED BY <2>1, <2>2, <3>1, <3>2, <3>3, Constants DEF AcceptedWorks, None
  <2>4. AcceptedWorks' = popped \cup {w}
    <3>1. active'.id = w /\ report'.id = 0 /\ popped' = popped
      BY <1>2, <2>1 DEF None, history
    <3> QED BY <2>1, <3>1, Constants DEF AcceptedWorks
  <2>5. Frames \in [Work -> Nat] /\ Stores \in [Work -> Nat]
    BY Constants
  <2> HIDE DEF w
  <2>6. /\ Parity(Frames, popped \cup {w}) = (Parity(Frames, popped) + Frames[w]) % 2
        /\ Parity(Stores, popped \cup {w}) = (Parity(Stores, popped) + Stores[w]) % 2
    BY <2>1, <2>3, <2>5, ParityAdds
  <2>7. halves[1] = Parity(Frames, popped) /\ halves[2] = Parity(Stores, popped)
    BY <2>3 DEF HalvesCounted
  <2>8. halves' = <<Parity(Frames, popped \cup {w}), Parity(Stores, popped \cup {w})>>
    BY <1>2, <2>6, <2>7 DEF HalvesAfter, w
  <2>9. HalvesCounted' <=> halves' = <<Parity(Frames, popped \cup {w}), Parity(Stores, popped \cup {w})>>
    BY <2>4 DEF HalvesCounted, Parity
  <2> QED BY <2>8, <2>9
<1> QED BY <1>1, <1>2 DEF Accept, Return

LEMMA StepCommitsHalves == ASSUME SessionInv, HalvesCounted, StepCommits PROVE HalvesCounted'
<1>1. halves' = halves /\ popped' = popped
  BY DEF StepCommits
<1>2. CASE UNCHANGED <<active, report>>
  BY <1>1, <1>2, HalvesSame DEF AcceptedWorks
<1>3. CASE active # None /\ active' = None /\ \E e : report' = ReportOf(e)
  <2>1. report'.id = active.id
    BY <1>3 DEF ReportOf
  <2>2. report = None
    BY <1>3 DEF SessionInv, EngineServesActive
  <2>3. None.id = 0
    BY DEF None
  <2>4. AcceptedWorks' = AcceptedWorks
    BY <1>1, <1>3, <2>1, <2>2, <2>3, Constants DEF AcceptedWorks
  <2> QED BY <1>1, <2>4, HalvesSame
<1> QED BY <1>2, <1>3 DEF StepCommits

LEMMA HalvesStep == ASSUME SessionInv, HalvesCounted, [Next]_vars PROVE HalvesCounted'
<1>1. CASE UNCHANGED <<halves, popped, active, report>>
  BY <1>1, HalvesSame DEF AcceptedWorks
<1>2. CASE UNCHANGED vars
  BY <1>1, <1>2 DEF vars, statusVars, history
<1>3. ASSUME NEW w, NEW cycle, Offer(w, cycle) PROVE HalvesCounted'
  BY <1>1, <1>2, <1>3 DEF Offer, Refuse, statusVars, history
<1>4. ASSUME NEW capacity, ReadEvents(capacity) PROVE HalvesCounted'
  BY <1>1, <1>2, <1>4 DEF ReadEvents, Refuse, statusVars
<1>5. ASSUME NEW until, NEW steps, NEW boundary, AdvanceBegin(until, steps, boundary) PROVE HalvesCounted'
  BY <1>1, <1>2, <1>5 DEF AdvanceBegin, Refuse, statusVars, history
<1>6. CASE AdvanceStops \/ StepBlocked \/ StepRaises
  BY <1>1, <1>6 DEF AdvanceStops, StepBlocked, StepRaises, history
<1> QED
  BY <1>2, <1>3, <1>4, <1>5, <1>6, ResetHalves, PopReportHalves, AcceptHalves, StepCommitsHalves DEF Next, Caller, AdvanceLoop

(* A report's window is in order, its work was accepted on the first edge  *)
(* it could be, it shows the halves left by exactly the works accepted in  *)
(* its generation, and no budget is exceeded by a cycle                    *)
(* (sequence_advance), for every set of works and order of calls.          *)
THEOREM SessionReportsExact == Spec => []ReportsExact
<1>1. Spec => []HalvesCounted
  BY HalvesStart, HalvesStep, SessionInvariant, PTL DEF Spec
<1>2. SessionInv /\ HalvesCounted => ReportsExact
  BY DEF SessionInv, HalvesCounted, ReportsExact, HalvesFollowWork
<1> QED BY <1>1, <1>2, SessionInvariant, PTL

(***************************************************************************)
(* The front end: fence() is honest for every number of threads, stripes   *)
(* and slots and every depth of the stream.  Its invariant follows.        *)
(***************************************************************************)

(***************************************************************************)
(* The inductive invariant                                                 *)
(***************************************************************************)
Statuses == {"ok", "execute", "full", "startup", "worker", "publish", "progress", "completion", "residual",
             "poll", "stall", "finish", "unsubmitted", "timings", "coverage", "rmd"}

Submittable == 0 .. Stripes - 1

Run == [lifecycle : {"idle", "running", "closing", "terminal"}, final_status : Statuses, startup_done : BOOLEAN,
        join_in_progress : BOOLEAN, output_committed : BOOLEAN]

Pipe == [ready : Seq(Submittable), in_flight : SUBSET Nat, residual_pending : Nat \cup {NoStripe},
         outstanding : Int, next_stripe : Nat, next_row : Nat, timings : Seq(Nat), semantic : Nat]

Worker == [pc : {"none", "begin", "started", "loop", "publish", "progress", "poll", "residual", "finish", "cleanup", "exited"},
           event : Nat \cup {NoStripe}, back : {"main", "loop", "publish"}, moved : BOOLEAN, stalled : Nat]

Stream == [open : BOOLEAN, next : Nat, queue : Seq(Nat), done : Seq(Nat)]

CallerState == [at : {"outside", "startup", "idle", "capacity", "fence", "join"}, event : Nat \cup {NoStripe}]

FrontTypes ==
    /\ options.mode \in {"full", "stripe_pipeline"}
    /\ run \in Run /\ pipe \in Pipe /\ worker \in Worker /\ stream \in Stream
    /\ caller \in [Callers -> CallerState]
    /\ \A t \in Callers : caller[t].at = "capacity" => caller[t].event \in Submittable
    /\ accepted \in Seq(Submittable)
    /\ fenced \subseteq Statuses

Pipelined == options.mode = "stripe_pipeline"

\* What the worker holds: a stripe between its queue and the stream, and
\* nothing at all when it stops without an error.
WorkerPlace ==
    /\ worker.pc \in {"none", "begin", "started", "loop"} => worker.event = NoStripe
    /\ worker.pc = "publish" => worker.event /= NoStripe
    /\ worker.pc \in {"progress", "poll", "residual"} => (worker.event /= NoStripe <=> worker.back = "publish")
    /\ worker.pc = "started" /\ Ok => stream.open
    /\ worker.pc \in {"finish", "cleanup", "exited"} /\ Ok /\ Pipelined =>
         worker.event = NoStripe /\ pipe.ready = << >> /\ run.lifecycle \in {"closing", "terminal"}
    /\ ~Pipelined => worker.pc \in {"none", "begin", "exited"}

\* 1 while the worker holds a stripe
Held == IF worker.event = NoStripe THEN 0 ELSE 1

\* Until an error, the accepted stripes are those the stream took, which are
\* in order, the one the worker holds and those that are ready.
StreamOrder ==
    Ok /\ Pipelined =>
        /\ Len(accepted) = stream.next + Held + Len(pipe.ready)
        /\ \A n \in 1 .. stream.next : accepted[n] = n - 1
        /\ worker.event /= NoStripe => accepted[stream.next + 1] = worker.event
        /\ \A n \in 1 .. Len(pipe.ready) : accepted[stream.next + Held + n] = pipe.ready[n]

\* Only what the stream took is in flight, and it is timed in order.
TimedInOrder ==
    /\ pipe.in_flight \subseteq 0 .. stream.next - 1
    /\ \A n \in 1 .. Len(pipe.timings) : pipe.timings[n] = n - 1
    /\ Len(pipe.timings) <= stream.next

\* The life of the run and its one join
CallLife ==
    /\ caller["main"].at = "outside" <=> run.lifecycle = "idle"
    /\ run.lifecycle = "idle" => worker.pc = "none"
    /\ \A t \in Callers : caller[t].at = "join" => run.lifecycle = "closing"
    /\ \A t, u \in Callers : caller[t].at = "join" /\ caller[u].at = "join" => t = u
    /\ run.lifecycle = "terminal" => worker.pc \in {"none", "exited"}

\* What fence has answered, and what a success stands for
Answers ==
    /\ fenced /= {} => run.lifecycle = "terminal"
    /\ fenced \subseteq {run.final_status} \/ (run.final_status = "rmd" /\ fenced \subseteq {"ok", "rmd"})
    /\ "ok" \in fenced \/ run.output_committed \/ (run.lifecycle = "terminal" /\ Ok) =>
         AllDone /\ worker.pc = "exited" /\ run.lifecycle = "terminal"

FrontInv == FrontTypes /\ WorkerPlace /\ StreamOrder /\ TimedInOrder /\ CallLife /\ Answers

(***************************************************************************)
(* What an operation does to the queues                                    *)
(***************************************************************************)

\* std::deque::pop_front(), which the worker and the stream's poll use: the rest
\* of the sequence moves up by one.
LEMMA TailOf ==
    ASSUME NEW S, NEW s \in Seq(S), s /= << >>
    PROVE  /\ Tail(s) \in Seq(S) /\ Head(s) \in S /\ Head(s) = s[1] /\ Len(s) \in Nat \ {0}
           /\ Len(Tail(s)) = Len(s) - 1
           /\ \A n \in 1 .. Len(s) - 1 : Tail(s)[n] = s[n + 1]
  OBVIOUS

\* push_back(): the sequence keeps what it had and ends with the new element.
LEMMA AppendOf ==
    ASSUME NEW S, NEW s \in Seq(S), NEW e \in S
    PROVE  /\ Append(s, e) \in Seq(S) /\ Len(Append(s, e)) = Len(s) + 1 /\ Len(s) \in Nat
           /\ Append(s, e)[Len(s) + 1] = e
           /\ \A n \in 1 .. Len(s) : Append(s, e)[n] = s[n]
  OBVIOUS

\* A queue that holds the last elements of a history still does when both get the
\* same new element: submit_stripe().
LEMMA QueueAppends ==
    \A a, r \in Seq(Submittable), k \in Nat, e \in Submittable :
      Len(a) = k + Len(r) /\ (\A n \in 1 .. Len(r) : a[k + n] = r[n]) =>
        /\ Len(Append(a, e)) = k + Len(Append(r, e))
        /\ \A n \in 1 .. Len(Append(r, e)) : Append(a, e)[k + n] = Append(r, e)[n]
        /\ \A n \in 1 .. k : Append(a, e)[n] = a[n]
<1> SUFFICES ASSUME NEW a \in Seq(Submittable), NEW r \in Seq(Submittable), NEW k \in Nat, NEW e \in Submittable,
                    Len(a) = k + Len(r), \A n \in 1 .. Len(r) : a[k + n] = r[n]
             PROVE  /\ Len(Append(a, e)) = k + Len(Append(r, e))
                    /\ \A n \in 1 .. Len(Append(r, e)) : Append(a, e)[k + n] = Append(r, e)[n]
                    /\ \A n \in 1 .. k : Append(a, e)[n] = a[n]
  OBVIOUS
<1>1. PICK p \in Nat : p = Len(r)
  OBVIOUS
<1>2. /\ Len(Append(r, e)) = p + 1 /\ Append(r, e)[p + 1] = e
      /\ \A n \in 1 .. p : Append(r, e)[n] = r[n]
  BY <1>1
<1>3. /\ Len(Append(a, e)) = k + p + 1 /\ Append(a, e)[k + p + 1] = e
      /\ \A n \in 1 .. (k + p) : Append(a, e)[n] = a[n]
  BY <1>1
<1>4. ASSUME NEW n \in 1 .. (p + 1) PROVE Append(a, e)[k + n] = Append(r, e)[n]
  <2>1. CASE n = p + 1
    BY <1>2, <1>3, <2>1
  <2>2. CASE n \in 1 .. p
    <3>1. k + n \in 1 .. (k + p) /\ a[k + n] = r[n]
      BY <1>1, <2>2
    <3> QED
      BY <1>2, <1>3, <2>2, <3>1
  <2> QED
    BY <1>1, <2>1, <2>2
<1>5. Len(Append(a, e)) = k + Len(Append(r, e))
  BY ONLY <1>1, <1>2, <1>3, k \in Nat
<1>6. \A n \in 1 .. Len(Append(r, e)) : Append(a, e)[k + n] = Append(r, e)[n]
  BY ONLY <1>2, <1>4
<1>7. \A n \in 1 .. k : Append(a, e)[n] = a[n]
  BY ONLY <1>1, <1>3, k \in Nat
<1> QED
  BY ONLY <1>5, <1>6, <1>7

\* When it loses its first element, the history shows it one place further: the
\* head of the worker's loop.
LEMMA QueueShifts ==
    ASSUME NEW S, NEW k \in Nat, NEW a \in Seq(S), NEW r \in Seq(S), r /= << >>,
           Len(a) = k + Len(r), \A n \in 1 .. Len(r) : a[k + n] = r[n]
    PROVE  /\ Len(a) = k + 1 + Len(Tail(r)) /\ a[k + 1] = Head(r)
           /\ \A n \in 1 .. Len(Tail(r)) : a[k + 1 + n] = Tail(r)[n]
<1>1. PICK p \in Nat : Len(r) = p + 1
  <2>1. Len(r) \in Nat /\ Len(r) /= 0
    OBVIOUS
  <2>2. Len(r) - 1 \in Nat /\ Len(r) = (Len(r) - 1) + 1
    BY ONLY <2>1
  <2> QED
    BY ONLY <2>2
<1>2. /\ Len(Tail(r)) = p /\ Head(r) = r[1]
      /\ \A n \in 1 .. p : Tail(r)[n] = r[n + 1]
  BY <1>1
<1>3. a[k + 1] = r[1]
  BY <1>1
<1>4. ASSUME NEW n \in 1 .. p PROVE a[k + 1 + n] = r[n + 1]
  <2>1. n + 1 \in 1 .. (p + 1) /\ k + (n + 1) = k + 1 + n
    BY <1>1
  <2> QED
    BY <1>1, <2>1
<1> QED
  BY <1>1, <1>2, <1>3, <1>4

\* The types of the fields behind the pipeline's mutex
LEMMA PipeFields ==
    ASSUME NEW p \in Pipe
    PROVE  /\ p.ready \in Seq(Submittable) /\ p.in_flight \in SUBSET Nat
           /\ p.residual_pending \in Nat \cup {NoStripe} /\ p.outstanding \in Int
           /\ p.next_stripe \in Nat /\ p.next_row \in Nat /\ p.timings \in Seq(Nat) /\ p.semantic \in Nat
  BY DEF Pipe

\* submit_stripe() queues a stripe and touches nothing that the worker has.
LEMMA EnqueueEffect ==
    ASSUME pipe \in Pipe, accepted \in Seq(Submittable), NEW e \in Submittable, Enqueue(e)
    PROVE  /\ pipe' \in Pipe /\ pipe'.ready = Append(pipe.ready, e) /\ pipe'.timings = pipe.timings
           /\ pipe'.in_flight = pipe.in_flight /\ pipe'.semantic = pipe.semantic
           /\ accepted' = Append(accepted, e) /\ accepted' \in Seq(Submittable)
<1>1. Append(pipe.ready, e) \in Seq(Submittable) /\ Append(accepted, e) \in Seq(Submittable)
  BY AppendOf, PipeFields
<1>2. pipe.outstanding + 1 \in Int /\ pipe.next_stripe + 1 \in Nat /\ e + 1 \in Nat
  BY PipeFields, FrontEndAssumption DEF Submittable
<1>3. pipe' = [pipe EXCEPT !.ready = Append(pipe.ready, e), !.outstanding = pipe.outstanding + 1,
                           !.next_stripe = pipe.next_stripe + 1, !.next_row = e + 1]
      /\ accepted' = Append(accepted, e)
  BY DEF Enqueue
<1> QED
  BY <1>1, <1>2, <1>3 DEF Pipe

\* The head of the worker's loop: what it does to the queue of ready stripes and
\* to the stripe it holds.
LEMMA LoopEffect ==
    ASSUME FrontTypes, Loop
    PROVE  /\ pipe' \in Pipe /\ worker' \in Worker /\ run' \in Run
           /\ pipe'.timings = pipe.timings /\ pipe'.in_flight = pipe.in_flight /\ pipe'.semantic = pipe.semantic
           /\ run'.lifecycle = run.lifecycle /\ run'.output_committed = run.output_committed
           /\ \/ /\ pipe.ready /= << >> /\ pipe'.ready = Tail(pipe.ready)
                 /\ worker'.event = Head(pipe.ready) /\ worker'.pc = "publish" /\ worker'.back = worker.back
                 /\ run' = run
              \/ /\ pipe' = pipe /\ worker'.event = worker.event /\ run' = run
                 /\ worker'.pc = "poll" /\ worker'.back = "main"
              \/ pipe' = pipe /\ worker' = worker /\ run' = run
              \/ /\ pipe' = pipe /\ worker'.event = worker.event /\ worker'.pc = "finish" /\ run' = run
                 /\ Closing /\ pipe.ready = << >>
              \/ pipe' = pipe /\ worker'.event = worker.event /\ worker'.pc = "finish" /\ ~Ok'
<1> USE DEF FrontTypes
<1>1. CASE pipe' = pipe /\ worker' = worker /\ run' = run
  BY <1>1
<1>2. CASE /\ pipe.ready /= << >> /\ pipe' = [pipe EXCEPT !.ready = Tail(@)] /\ run' = run
           /\ worker' = [worker EXCEPT !.pc = "publish", !.event = Head(pipe.ready)]
  <2>1. Tail(pipe.ready) \in Seq(Submittable) /\ Head(pipe.ready) \in Nat
    <3>1. Tail(pipe.ready) \in Seq(Submittable) /\ Head(pipe.ready) \in Submittable
      BY <1>2, PipeFields, TailOf
    <3> QED
      BY <3>1, FrontEndAssumption DEF Submittable
  <2>2. pipe' \in Pipe /\ pipe'.ready = Tail(pipe.ready) /\ pipe'.timings = pipe.timings
        /\ pipe'.in_flight = pipe.in_flight /\ pipe'.semantic = pipe.semantic
    BY <1>2, <2>1 DEF Pipe
  <2>3. worker' \in Worker /\ worker'.event = Head(pipe.ready) /\ worker'.pc = "publish" /\ worker'.back = worker.back
    BY <1>2, <2>1 DEF Worker
  <2> QED
    BY <1>2, <2>2, <2>3
<1>3. CASE pipe' = pipe /\ worker' = [worker EXCEPT !.pc = "finish"] /\ run' = [run EXCEPT !.final_status = "unsubmitted"]
  <2>1. worker' \in Worker /\ worker'.event = worker.event /\ worker'.pc = "finish"
    BY <1>3 DEF Worker
  <2>2. run' \in Run /\ run'.lifecycle = run.lifecycle /\ run'.output_committed = run.output_committed /\ ~Ok'
    BY <1>3 DEF Run, Statuses, Ok
  <2> QED
    BY <1>3, <2>1, <2>2
<1>4. CASE pipe' = pipe /\ worker' = [worker EXCEPT !.pc = "finish"] /\ run' = run /\ Closing /\ pipe.ready = << >>
  <2>1. worker' \in Worker /\ worker'.event = worker.event /\ worker'.pc = "finish"
    BY <1>4 DEF Worker
  <2> QED
    BY <1>4, <2>1
<1>5. CASE pipe' = pipe /\ worker' = [worker EXCEPT !.pc = "poll", !.back = "main", !.moved = FALSE] /\ run' = run
  <2>1. worker' \in Worker /\ worker'.event = worker.event /\ worker'.pc = "poll" /\ worker'.back = "main"
    BY <1>5 DEF Worker
  <2> QED
    BY <1>5, <2>1
<1> QED
  BY <1>1, <1>2, <1>3, <1>4, <1>5 DEF Loop, Goto

\* set_error(): the run has failed, whether it had before or not, and nothing
\* else of it changes.
LEMMA ErrorEffect ==
    ASSUME run \in Run, NEW error \in Statuses \ {"ok"}, SetError(error)
    PROVE  /\ run' \in Run /\ ~Ok' /\ run'.lifecycle = run.lifecycle
           /\ run'.output_committed = run.output_committed /\ (~Ok => run' = run)
  BY DEF SetError, Run, Ok, Statuses

\* publish(): the stream takes the stripe that the worker holds, if it is the
\* next one, or the worker keeps it, or the run has failed.
LEMMA PublishEffect ==
    ASSUME FrontTypes, Publish
    PROVE  /\ pipe' \in Pipe /\ worker' \in Worker /\ run' \in Run /\ stream' \in Stream
           /\ pipe'.timings = pipe.timings /\ pipe'.semantic = pipe.semantic /\ pipe'.ready = pipe.ready
           /\ pipe'.in_flight \subseteq pipe.in_flight \cup {stream'.next - 1}
           /\ stream'.next \in {stream.next, stream.next + 1}
           /\ stream'.next = stream.next => pipe'.in_flight = pipe.in_flight
           /\ run'.lifecycle = run.lifecycle /\ run'.output_committed = run.output_committed
           /\ \/ /\ stream'.next = stream.next + 1 /\ worker.event = stream.next /\ run' = run
                 /\ worker'.event = NoStripe /\ worker'.pc = "poll" /\ worker'.back = "main"
              \/ /\ stream' = stream /\ run' = run
                 /\ worker'.event = worker.event /\ worker'.pc = "progress" /\ worker'.back = "publish"
              \/ ~Ok' /\ worker'.pc \in {"finish", "exited"}
<1> USE DEF FrontTypes
<1>1. CASE /\ worker.event = stream.next /\ stream' = [stream EXCEPT !.next = @ + 1, !.queue = Append(@, worker.event)]
           /\ \/ /\ pipe' = [pipe EXCEPT !.in_flight = @ \cup {worker.event}] /\ run' = run
                 /\ worker' = [worker EXCEPT !.pc = "poll", !.back = "main", !.moved = FALSE, !.event = NoStripe]
              \/ SetError("worker") /\ Goto("exited") /\ UNCHANGED pipe
  <2>1. worker.event \in Nat /\ stream.next + 1 \in Nat /\ Append(stream.queue, worker.event) \in Seq(Nat)
    BY <1>1, AppendOf DEF Stream
  <2>2. stream' \in Stream /\ stream'.next = stream.next + 1 /\ stream.next \in Nat
    BY <1>1, <2>1 DEF Stream
  <2>3. CASE /\ pipe' = [pipe EXCEPT !.in_flight = @ \cup {worker.event}] /\ run' = run
             /\ worker' = [worker EXCEPT !.pc = "poll", !.back = "main", !.moved = FALSE, !.event = NoStripe]
    <3>1. pipe.in_flight \cup {worker.event} \in SUBSET Nat
      BY <2>1, PipeFields
    <3>2. pipe' \in Pipe /\ pipe'.timings = pipe.timings /\ pipe'.semantic = pipe.semantic /\ pipe'.ready = pipe.ready
          /\ pipe'.in_flight = pipe.in_flight \cup {worker.event}
      BY <2>3, <3>1 DEF Pipe
    <3>3. worker' \in Worker /\ worker'.event = NoStripe /\ worker'.pc = "poll" /\ worker'.back = "main"
      BY <2>3 DEF Worker
    <3>4. worker.event = stream'.next - 1 /\ stream'.next /= stream.next
      BY <1>1, <2>2
    <3> QED
      BY <1>1, <2>2, <2>3, <3>2, <3>3, <3>4
  <2>4. CASE SetError("worker") /\ Goto("exited") /\ UNCHANGED pipe
    <3>1. run' \in Run /\ ~Ok' /\ run'.lifecycle = run.lifecycle /\ run'.output_committed = run.output_committed
      BY <2>4, ErrorEffect DEF Statuses
    <3>2. worker' \in Worker /\ worker'.pc = "exited"
      BY <2>4 DEF Goto, Worker
    <3> QED
      BY <2>2, <2>4, <3>1, <3>2
  <2> QED
    BY <1>1, <2>3, <2>4
<1>2. CASE UNCHANGED <<run, pipe, stream>> /\ worker' = [worker EXCEPT !.pc = "progress", !.back = "publish"]
  <2>1. worker' \in Worker /\ worker'.event = worker.event /\ worker'.pc = "progress" /\ worker'.back = "publish"
    BY <1>2 DEF Worker
  <2> QED
    BY <1>2, <2>1
<1>3. CASE SetError("publish") /\ Goto("finish") /\ UNCHANGED <<pipe, stream>>
  <2>1. run' \in Run /\ ~Ok' /\ run'.lifecycle = run.lifecycle /\ run'.output_committed = run.output_committed
    BY <1>3, ErrorEffect DEF Statuses
  <2>2. worker' \in Worker /\ worker'.pc = "finish"
    BY <1>3 DEF Goto, Worker
  <2> QED
    BY <1>3, <2>1, <2>2
<1> QED
  BY <1>1, <1>2, <1>3 DEF Publish

\* The oldest stripe of the stream completes.
LEMMA CompleteEffect ==
    ASSUME stream \in Stream, stream.queue /= << >>, stream' = CompleteOldest
    PROVE  stream' \in Stream /\ stream'.next = stream.next /\ stream'.open = stream.open
<1>1. Tail(stream.queue) \in Seq(Nat) /\ Head(stream.queue) \in Nat
  BY TailOf DEF Stream
<1>2. Append(stream.done, Head(stream.queue)) \in Seq(Nat)
  BY <1>1, AppendOf DEF Stream
<1> QED
  BY <1>1, <1>2 DEF Stream, CompleteOldest

\* poll(), one completion: what is timed was in flight and is the next to time,
\* or the run has failed.
LEMMA CompletionEffect ==
    ASSUME FrontTypes, PollCompletion
    PROVE  /\ pipe' \in Pipe /\ worker' \in Worker /\ run' \in Run /\ stream' \in Stream
           /\ pipe'.ready = pipe.ready /\ pipe'.semantic = pipe.semantic /\ pipe'.in_flight \subseteq pipe.in_flight
           /\ stream'.next = stream.next /\ stream'.open = stream.open /\ worker'.event = worker.event
           /\ worker'.back = worker.back
           /\ run'.lifecycle = run.lifecycle /\ run'.output_committed = run.output_committed
           /\ \/ /\ run' = run /\ worker'.pc \in {"poll", "residual"}
                 /\ \E c \in pipe.in_flight : c = Len(pipe.timings) /\ pipe'.timings = Append(pipe.timings, c)
              \/ ~Ok' /\ worker'.pc = "finish" /\ pipe' = pipe
<1> USE DEF FrontTypes
<1> DEFINE c == Head(stream.done)
<1>1. stream' \in Stream /\ stream'.next = stream.next /\ stream'.open = stream.open /\ c \in Nat
  <2>1. stream.done \in Seq(Nat) /\ stream.done /= << >>
    BY DEF Stream, PollCompletion
  <2>2. Tail(stream.done) \in Seq(Nat) /\ Head(stream.done) \in Nat
    BY <2>1, TailOf
  <2> QED
    BY <2>2 DEF Stream, PollCompletion
<1>2. CASE ValidCompletion(c)
  <2>1. pipe' = [pipe EXCEPT !.timings = Append(@, c), !.in_flight = @ \ {c},
                        !.residual_pending = IF options.residual THEN c ELSE @,
                        !.outstanding = IF options.residual THEN @ ELSE @ - 1]
        /\ worker' = [worker EXCEPT !.moved = TRUE, !.pc = IF options.residual THEN "residual" ELSE @]
        /\ run' = run /\ worker.pc = "poll"
    BY <1>2 DEF PollCompletion
  <2>2. /\ c \in pipe.in_flight /\ c = Len(pipe.timings)
        /\ Append(pipe.timings, c) \in Seq(Nat) /\ pipe.in_flight \ {c} \in SUBSET Nat
        /\ (IF options.residual THEN c ELSE pipe.residual_pending) \in Nat \cup {NoStripe}
        /\ (IF options.residual THEN pipe.outstanding ELSE pipe.outstanding - 1) \in Int
    <3>1. c \in pipe.in_flight /\ c = Len(pipe.timings)
      BY <1>2 DEF ValidCompletion
    <3>2. Append(pipe.timings, c) \in Seq(Nat)
      BY <1>1, AppendOf, PipeFields
    <3> QED
      BY <3>1, <3>2, <1>1, PipeFields
  <2>3. pipe' \in Pipe /\ pipe'.ready = pipe.ready /\ pipe'.semantic = pipe.semantic
        /\ pipe'.in_flight = pipe.in_flight \ {c} /\ pipe'.timings = Append(pipe.timings, c)
    <3> HIDE DEF c
    <3> QED
      BY <2>1, <2>2 DEF Pipe
  <2>4. worker' \in Worker /\ worker'.event = worker.event /\ worker'.back = worker.back /\ worker'.pc \in {"poll", "residual"}
    BY <2>1 DEF Worker
  <2> HIDE DEF c
  <2> QED
    BY <1>1, <2>1, <2>2, <2>3, <2>4
<1>3. CASE ~ValidCompletion(c)
  <2>1. SetError("completion") /\ Goto("finish") /\ UNCHANGED pipe
    BY <1>3 DEF PollCompletion
  <2>2. run' \in Run /\ ~Ok' /\ run'.lifecycle = run.lifecycle /\ run'.output_committed = run.output_committed
    BY <2>1, ErrorEffect DEF Statuses
  <2>3. worker' \in Worker /\ worker'.event = worker.event /\ worker'.back = worker.back /\ worker'.pc = "finish"
    BY <2>1 DEF Goto, Worker
  <2> QED
    BY <1>1, <2>1, <2>2, <2>3
<1> QED
  BY <1>2, <1>3

\* The residual callback returns: its stripe is released, counted or not.
LEMMA ResidualEffect ==
    ASSUME FrontTypes, Residual
    PROVE  /\ pipe' \in Pipe /\ worker' \in Worker /\ run' \in Run
           /\ pipe'.ready = pipe.ready /\ pipe'.in_flight = pipe.in_flight /\ pipe'.timings = pipe.timings
           /\ worker'.event = worker.event /\ worker'.back = worker.back
           /\ run'.lifecycle = run.lifecycle /\ run'.output_committed = run.output_committed
           /\ (run' = run /\ worker'.pc = "poll") \/ (~Ok' /\ worker'.pc = "finish")
<1> USE DEF FrontTypes
<1>1. CASE /\ pipe' = [pipe EXCEPT !.semantic = @ + 1, !.outstanding = @ - 1, !.residual_pending = NoStripe]
           /\ Goto("poll") /\ UNCHANGED run
  <2>1. pipe.semantic + 1 \in Nat /\ pipe.outstanding - 1 \in Int
    BY PipeFields
  <2>2. pipe' \in Pipe /\ pipe'.ready = pipe.ready /\ pipe'.in_flight = pipe.in_flight /\ pipe'.timings = pipe.timings
    BY <1>1, <2>1 DEF Pipe
  <2>3. worker' \in Worker /\ worker'.event = worker.event /\ worker'.back = worker.back /\ worker'.pc = "poll"
    BY <1>1 DEF Goto, Worker
  <2> QED
    BY <1>1, <2>2, <2>3
<1>2. CASE SetError("residual") /\ pipe' = [pipe EXCEPT !.residual_pending = NoStripe] /\ Goto("finish")
  <2>1. run' \in Run /\ ~Ok' /\ run'.lifecycle = run.lifecycle /\ run'.output_committed = run.output_committed
    BY <1>2, ErrorEffect DEF Statuses
  <2>2. pipe' \in Pipe /\ pipe'.ready = pipe.ready /\ pipe'.in_flight = pipe.in_flight /\ pipe'.timings = pipe.timings
    BY <1>2 DEF Pipe
  <2>3. worker' \in Worker /\ worker'.event = worker.event /\ worker'.back = worker.back /\ worker'.pc = "finish"
    BY <1>2 DEF Goto, Worker
  <2> QED
    BY <2>1, <2>2, <2>3
<1> QED
  BY <1>1, <1>2 DEF Residual

\* The worker's last region: a run that has not failed keeps its pipeline.
LEMMA CleanupEffect ==
    ASSUME FrontTypes, Cleanup
    PROVE  /\ pipe' \in Pipe /\ worker' \in Worker /\ run' = run
           /\ pipe'.timings = pipe.timings /\ pipe'.semantic = pipe.semantic /\ pipe'.in_flight \subseteq pipe.in_flight
           /\ worker'.event = worker.event /\ worker'.back = worker.back /\ worker'.pc = "exited"
           /\ (Ok => pipe' = pipe)
<1> USE DEF FrontTypes
<1>1. worker' \in Worker /\ worker'.event = worker.event /\ worker'.back = worker.back /\ worker'.pc = "exited" /\ run' = run
  BY DEF Cleanup, Goto, Worker
<1>2. CASE Ok
  BY <1>1, <1>2 DEF Cleanup
<1>3. CASE ~Ok
  <2>1. pipe' = [pipe EXCEPT !.ready = << >>, !.in_flight = {}, !.residual_pending = NoStripe, !.outstanding = 0]
    BY <1>3 DEF Cleanup
  <2>2. << >> \in Seq(Submittable) /\ {} \in SUBSET Nat
    OBVIOUS
  <2>3. ASSUME NEW q \in Seq(Submittable), NEW h \in SUBSET Nat, NEW r \in Nat \cup {NoStripe}, NEW o \in Int,
               pipe' = [pipe EXCEPT !.ready = q, !.in_flight = h, !.residual_pending = r, !.outstanding = o]
        PROVE  pipe' \in Pipe /\ pipe'.timings = pipe.timings /\ pipe'.semantic = pipe.semantic /\ pipe'.in_flight = h
    BY <2>3 DEF Pipe
  <2>4. NoStripe \in Nat \cup {NoStripe} /\ 0 \in Int
    OBVIOUS
  <2>5. pipe' \in Pipe /\ pipe'.timings = pipe.timings /\ pipe'.semantic = pipe.semantic /\ pipe'.in_flight = {}
    BY <2>1, <2>2, <2>3, <2>4, Zenon
  <2> QED
    BY <1>1, <1>3, <2>5
<1> QED
  BY <1>2, <1>3

\* poll() finds nothing more: back to where the worker came from, to the end of
\* a complete run, or to the error of the watchdog.
LEMMA PollEmptyEffect ==
    ASSUME FrontTypes, PollEmpty
    PROVE  /\ worker' \in Worker /\ run' \in Run /\ worker'.event = worker.event
           /\ run'.lifecycle = run.lifecycle /\ run'.output_committed = run.output_committed
           /\ \/ /\ run' = run /\ worker.back = "main" /\ worker'.back = "loop"
                 /\ worker'.pc = "progress" \/ (worker'.pc = "finish" /\ Complete)
              \/ run' = run /\ worker.back /= "main" /\ worker'.back = worker.back /\ worker'.pc = worker.back
              \/ ~Ok' /\ worker'.pc = "finish"
<1> USE DEF FrontTypes
<1> DEFINE stalled == IF worker.moved THEN 0 ELSE worker.stalled + 1
<1>1. stalled \in Nat /\ worker.stalled \in Nat
  BY DEF Worker
<1> HIDE DEF stalled
<1>2. CASE /\ worker.back = "main" /\ run' = run
           /\ worker' = [worker EXCEPT !.pc = IF Complete THEN "finish" ELSE "progress", !.back = "loop", !.moved = FALSE,
                                       !.stalled = IF worker.moved THEN 0 ELSE @]
  <2>1. worker' \in Worker /\ worker'.event = worker.event /\ worker'.back = "loop"
        /\ worker'.pc = IF Complete THEN "finish" ELSE "progress"
    BY <1>1, <1>2 DEF Worker
  <2> QED
    BY <1>2, <2>1
<1>3. CASE /\ worker.back /= "main" /\ run' = run
           /\ worker' = [worker EXCEPT !.pc = worker.back, !.moved = FALSE,
                                       !.stalled = IF options.external THEN @ ELSE stalled]
  <2>1. worker' \in Worker /\ worker'.event = worker.event /\ worker'.back = worker.back /\ worker'.pc = worker.back
    BY <1>1, <1>3 DEF Worker
  <2> QED
    BY <1>3, <2>1
<1>4. CASE SetError("stall") /\ Goto("finish")
  <2>1. run' \in Run /\ ~Ok' /\ run'.lifecycle = run.lifecycle /\ run'.output_committed = run.output_committed
    BY <1>4, ErrorEffect DEF Statuses
  <2>2. worker' \in Worker /\ worker'.event = worker.event /\ worker'.pc = "finish"
    BY <1>4 DEF Goto, Worker
  <2> QED
    BY <2>1, <2>2
<1> QED
  BY <1>2, <1>3, <1>4 DEF PollEmpty, stalled

\* progress(): a clock of the simulator moves the worker on, or fails the run.
LEMMA ProgressEffect ==
    ASSUME FrontTypes, Progress
    PROVE  /\ worker' \in Worker /\ run' \in Run /\ stream' \in Stream
           /\ worker'.event = worker.event /\ worker'.back = worker.back
           /\ stream'.next = stream.next /\ stream'.open = stream.open
           /\ run'.lifecycle = run.lifecycle /\ run'.output_committed = run.output_committed
           /\ (run' = run /\ worker'.pc = "poll") \/ (~Ok' /\ worker'.pc = "finish")
<1> USE DEF FrontTypes
<1>1. CASE \E b \in BOOLEAN : worker' = [worker EXCEPT !.pc = "poll", !.moved = b] /\ run' = run
           /\ (stream' = stream \/ (stream.queue /= << >> /\ stream' = CompleteOldest))
  <2>1. stream' \in Stream /\ stream'.next = stream.next /\ stream'.open = stream.open
    BY <1>1, CompleteEffect
  <2>2. worker' \in Worker /\ worker'.event = worker.event /\ worker'.back = worker.back /\ worker'.pc = "poll"
    BY <1>1 DEF Worker
  <2> QED
    BY <1>1, <2>1, <2>2
<1>2. CASE SetError("progress") /\ Goto("finish") /\ UNCHANGED stream
  <2>1. run' \in Run /\ ~Ok' /\ run'.lifecycle = run.lifecycle /\ run'.output_committed = run.output_committed
    BY <1>2, ErrorEffect DEF Statuses
  <2>2. worker' \in Worker /\ worker'.event = worker.event /\ worker'.back = worker.back /\ worker'.pc = "finish"
    BY <1>2 DEF Goto, Worker
  <2> QED
    BY <1>2, <2>1, <2>2
<1> QED
  BY <1>1, <1>2 DEF Progress

\* The regions of the worker that only move it or fail the run
LEMMA MoveEffect ==
    ASSUME FrontTypes, RunFull \/ Begin \/ StartupDone \/ PollFails \/ Finish
    PROVE  /\ worker' \in Worker /\ run' \in Run /\ stream' \in Stream
           /\ worker'.event = worker.event /\ worker'.back = worker.back /\ stream'.next = stream.next
           /\ run'.lifecycle = run.lifecycle /\ run'.output_committed = run.output_committed
           /\ run'.final_status = run.final_status \/ ~Ok'
           /\ UNCHANGED <<pipe, accepted, fenced, caller, options>>
<1> USE DEF FrontTypes
<1>1. CASE \E error \in Statuses \ {"ok"} : SetError(error)
  <2>1. run' \in Run /\ ~Ok' /\ run'.lifecycle = run.lifecycle /\ run'.output_committed = run.output_committed
    BY <1>1, ErrorEffect
  <2>2. stream' = stream \/ stream' = [stream EXCEPT !.open = TRUE]
    BY DEF RunFull, Begin, StartupDone, PollFails, Finish
  <2>3. stream' \in Stream /\ stream'.next = stream.next
    BY <2>2 DEF Stream
  <2>4. worker' \in Worker /\ worker'.event = worker.event /\ worker'.back = worker.back
    BY DEF RunFull, Begin, StartupDone, PollFails, Finish, Goto, Worker
  <2>5. UNCHANGED <<pipe, accepted, fenced, caller, options>>
    BY DEF RunFull, Begin, StartupDone, PollFails, Finish
  <2> QED
    BY <2>1, <2>3, <2>4, <2>5
<1>2. CASE run' = run \/ run' = [run EXCEPT !.startup_done = TRUE]
  <2>1. run' \in Run /\ run'.final_status = run.final_status /\ run'.lifecycle = run.lifecycle
        /\ run'.output_committed = run.output_committed
    BY <1>2 DEF Run
  <2>2. stream' = stream \/ stream' = [stream EXCEPT !.open = TRUE]
    BY DEF RunFull, Begin, StartupDone, PollFails, Finish
  <2>3. stream' \in Stream /\ stream'.next = stream.next
    BY <2>2 DEF Stream
  <2>4. worker' \in Worker /\ worker'.event = worker.event /\ worker'.back = worker.back
    BY DEF RunFull, Begin, StartupDone, PollFails, Finish, Goto, Worker
  <2>5. UNCHANGED <<pipe, accepted, fenced, caller, options>>
    BY DEF RunFull, Begin, StartupDone, PollFails, Finish
  <2> QED
    BY <2>1, <2>3, <2>4, <2>5
<1> QED
  BY <1>1, <1>2 DEF RunFull, Begin, StartupDone, PollFails, Finish, Statuses

(***************************************************************************)
(* Types                                                                   *)
(***************************************************************************)

\* The steps of the worker keep the types.
LEMMA WorkerTypes == FrontTypes /\ (WorkerStep \/ Device) => FrontTypes'
<1> SUFFICES ASSUME FrontTypes, WorkerStep \/ Device PROVE FrontTypes'
  OBVIOUS
<1>1. UNCHANGED <<options, caller, accepted, fenced>>
  BY DEF WorkerStep, RunFull, Begin, StartupDone, Loop, Publish, Progress, PollCompletion, Residual, PollFails,
         PollEmpty, Finish, Cleanup, Device
<1>2. run' \in Run /\ pipe' \in Pipe /\ worker' \in Worker /\ stream' \in Stream
  <2>1. CASE Loop
    <3>1. stream' = stream
      BY <2>1 DEF Loop
    <3> QED
      BY <2>1, <3>1, LoopEffect DEF FrontTypes
  <2>2. CASE Publish
    BY <2>2, PublishEffect
  <2>3. CASE Progress
    <3>1. pipe' = pipe
      BY <2>3 DEF Progress
    <3> QED
      BY <2>3, <3>1, ProgressEffect DEF FrontTypes
  <2>4. CASE PollCompletion
    BY <2>4, CompletionEffect
  <2>5. CASE Residual
    <3>1. stream' = stream
      BY <2>5 DEF Residual
    <3> QED
      BY <2>5, <3>1, ResidualEffect DEF FrontTypes
  <2>6. CASE PollEmpty
    <3>1. stream' = stream /\ pipe' = pipe
      BY <2>6 DEF PollEmpty
    <3> QED
      BY <2>6, <3>1, PollEmptyEffect DEF FrontTypes
  <2>7. CASE Cleanup
    <3>1. stream' = stream
      BY <2>7 DEF Cleanup
    <3> QED
      BY <2>7, <3>1, CleanupEffect DEF FrontTypes
  <2>8. CASE Device
    <3>1. UNCHANGED <<run, pipe, worker>> /\ stream.queue /= << >> /\ stream' = CompleteOldest
      BY <2>8 DEF Device
    <3> QED
      BY <3>1, CompleteEffect DEF FrontTypes
  <2>9. CASE RunFull \/ Begin \/ StartupDone \/ PollFails \/ Finish
    <3>1. pipe' = pipe
      BY <2>9, MoveEffect
    <3> QED
      BY <2>9, <3>1, MoveEffect DEF FrontTypes
  <2> QED
    BY <2>1, <2>2, <2>3, <2>4, <2>5, <2>6, <2>7, <2>8, <2>9 DEF WorkerStep
<1> QED
  BY <1>1, <1>2 DEF FrontTypes

\* The steps of execute(), submit_stripe(), fence() and authorize_output_commit()
\* that are not a part of the worker
CallerStep ==
    \/ Execute
    \/ \E t \in Producers, e \in 0 .. Stripes - 1 : Submit(t, e)
    \/ \E t \in Fencers : Fence(t)
    \/ \E rmd \in BOOLEAN : Authorize(rmd)
    \/ \E t \in Callers : Continue(t)

\* The answer of a join is a status, and success only if the run had not failed.
LEMMA FinalStatusTyped ==
    ASSUME run \in Run
    PROVE  /\ FinalStatus \in Statuses
           /\ FinalStatus = "ok" => Ok /\ (options.mode = "stripe_pipeline" => Len(pipe.timings) = Stripes /\ CoverageComplete)
           /\ ~Ok => FinalStatus = run.final_status
  BY DEF FinalStatus, Run, Statuses, Ok

\* Nobody but the two ends of a queue touches it: what a caller does leaves the
\* worker and the stream alone, except that execute() starts the thread, and
\* leaves the pipeline alone or appends one stripe to it.
LEMMA CallerEffect ==
    ASSUME FrontTypes, CallerStep
    PROVE  /\ UNCHANGED <<options, stream>>
           /\ worker' = worker \/ (Execute /\ worker' = [worker EXCEPT !.pc = "begin"])
           /\ \/ UNCHANGED <<pipe, accepted>>
              \/ Ok /\ run.lifecycle = "running" /\ \E e \in Submittable : Enqueue(e)
           /\ run' \in Run /\ fenced' \subseteq Statuses
<1> USE DEF FrontTypes
<1>1. CASE Execute
  <2>1. run' \in Run
    BY <1>1 DEF Execute, Run, Statuses
  <2>2. UNCHANGED <<options, stream, pipe, accepted, fenced>> /\ (worker' = worker \/ worker' = [worker EXCEPT !.pc = "begin"])
    BY <1>1 DEF Execute, Goto
  <2> QED
    BY <1>1, <2>1, <2>2
<1>2. CASE StartupWait
  BY <1>2 DEF StartupWait
<1>3. ASSUME NEW t \in Producers, NEW e \in Submittable, Submit(t, e)
      PROVE  UNCHANGED <<options, stream, worker, run, fenced>>
             /\ (UNCHANGED <<pipe, accepted>> \/ (Ok /\ run.lifecycle = "running" /\ Enqueue(e)))
  BY <1>3 DEF Submit
<1>4. ASSUME NEW t \in Producers, CapacityWait(t)
      PROVE  UNCHANGED <<options, stream, worker, run, fenced>>
             /\ (UNCHANGED <<pipe, accepted>> \/ (Ok /\ run.lifecycle = "running" /\ \E e \in Submittable : Enqueue(e)))
  BY <1>4 DEF CapacityWait, Callers
<1>5. ASSUME NEW t \in Fencers, Fence(t)
      PROVE  UNCHANGED <<options, stream, worker, pipe, accepted>> /\ run' \in Run /\ fenced' \subseteq Statuses
  <2>1. run.final_status \in Statuses
    BY DEF Run
  <2>2. run' \in Run
    BY <1>5 DEF Fence, FenceBehind, Run
  <2> QED
    BY <1>5, <2>1, <2>2 DEF Fence, FenceBehind
<1>6. ASSUME NEW t \in Fencers, Join(t)
      PROVE  UNCHANGED <<options, stream, worker, pipe, accepted>> /\ run' \in Run /\ fenced' \subseteq Statuses
  <2>1. FinalStatus \in Statuses
    BY FinalStatusTyped
  <2>2. run' \in Run
    BY <1>6, <2>1 DEF Join, Run
  <2> QED
    BY <1>6, <2>1, <2>2 DEF Join
<1>7. ASSUME NEW t \in Fencers, FenceWait(t)
      PROVE  UNCHANGED <<options, stream, worker, pipe, accepted, run>> /\ fenced' \subseteq Statuses
  <2>1. run.final_status \in Statuses
    BY DEF Run
  <2> QED
    BY <1>7, <2>1 DEF FenceWait
<1>8. ASSUME NEW rmd \in BOOLEAN, Authorize(rmd)
      PROVE  UNCHANGED <<options, stream, worker, pipe, accepted, fenced>> /\ run' \in Run
  BY <1>8, ZenonT(60) DEF Authorize, Run, Statuses
<1> QED
  BY <1>1, <1>2, <1>3, <1>4, <1>5, <1>6, <1>7, <1>8 DEF CallerStep, Continue, Submittable

\* The steps of the callers keep the types.
LEMMA CallerTypes == FrontTypes /\ CallerStep => FrontTypes'
<1> SUFFICES ASSUME FrontTypes, CallerStep PROVE FrontTypes'
  OBVIOUS
<1> USE DEF FrontTypes
<1>1. run' \in Run /\ fenced' \subseteq Statuses /\ stream' \in Stream /\ options'.mode \in {"full", "stripe_pipeline"}
  BY CallerEffect
<1>2. worker' \in Worker
  BY CallerEffect DEF Worker
<1>3. pipe' \in Pipe /\ accepted' \in Seq(Submittable)
  BY CallerEffect, EnqueueEffect
<1>4. caller' \in [Callers -> CallerState]
  BY FrontEndAssumption DEF CallerStep, Continue, Execute, StartupWait, Submit, CapacityWait, Fence, FenceBehind, Join,
         FenceWait, Authorize, Callers, CallerState, Returned, Submittable
<1>5. ASSUME NEW t \in Callers, caller'[t].at = "capacity" PROVE caller'[t].event \in Submittable
  <2>1. "main" \in Callers /\ Producers \subseteq Callers /\ Fencers \subseteq Callers
    BY DEF Callers
  <2>2. caller[t].at = "capacity" => caller[t].event \in Submittable
    OBVIOUS
  <2> HIDE DEF FrontTypes
  <2>3. caller \in [Callers -> CallerState]
    BY DEF FrontTypes
  <2> USE DEF CallerState
  <2>4. CASE Execute
    BY <1>5, <2>1, <2>2, <2>3, <2>4 DEF Execute, Returned
  <2>5. CASE StartupWait
    BY <1>5, <2>1, <2>2, <2>3, <2>5 DEF StartupWait, Returned
  <2>6. CASE \E u \in Producers, e \in Submittable : Submit(u, e)
    BY <1>5, <2>1, <2>2, <2>3, <2>6 DEF Submit
  <2>7. CASE \E u \in Producers : CapacityWait(u)
    BY <1>5, <2>1, <2>2, <2>3, <2>7 DEF CapacityWait, Returned
  <2>8. CASE \E u \in Fencers : Fence(u)
    BY <1>5, <2>1, <2>2, <2>3, <2>8 DEF Fence, FenceBehind
  <2>9. CASE \E u \in Fencers : Join(u) \/ FenceWait(u)
    BY <1>5, <2>1, <2>2, <2>3, <2>9 DEF Join, FenceWait, Returned
  <2>10. CASE \E rmd \in BOOLEAN : Authorize(rmd)
    BY <1>5, <2>2, <2>10 DEF Authorize
  <2> QED
    BY <2>4, <2>5, <2>6, <2>7, <2>8, <2>9, <2>10 DEF CallerStep, Continue, Submittable
<1> QED
  BY <1>1, <1>2, <1>3, <1>4, <1>5

(***************************************************************************)
(* The order of the stripes                                                *)
(***************************************************************************)

\* The first error stays: no step of the callers or of the worker makes a failed
\* run good again.
LEMMA ErrorStays == FrontTypes /\ FrontNext => (Ok' => Ok)
<1> SUFFICES ASSUME FrontTypes, FrontNext, ~Ok PROVE ~Ok'
  OBVIOUS
<1> USE DEF FrontTypes
<1>1. CASE WorkerStep \/ Device
  <2>1. CASE \E error \in Statuses \ {"ok"} : SetError(error)
    BY <2>1, ErrorEffect
  <2>2. CASE Loop
    BY <2>2, LoopEffect DEF Ok
  <2>3. CASE StartupDone
    BY <2>3 DEF StartupDone, Run, Ok
  <2>4. CASE run' = run
    BY <2>4 DEF Ok
  <2> QED
    BY <1>1, <2>1, <2>2, <2>3, <2>4 DEF WorkerStep, RunFull, Begin, Publish, Progress, PollCompletion, Residual, PollFails,
         PollEmpty, Finish, Cleanup, Device, Statuses
<1>2. CASE CallerStep
  <2>1. CASE Execute
    BY <2>1 DEF Execute, Run, Ok
  <2>2. ASSUME NEW t \in Fencers, Join(t) PROVE ~Ok'
    BY <2>2, FinalStatusTyped DEF Join, Run, Ok
  <2>3. ASSUME NEW t \in Fencers, Fence(t) PROVE ~Ok'
    BY <2>3 DEF Fence, FenceBehind, Run, Ok
  <2>4. CASE run' = run
    BY <2>4 DEF Ok
  <2> QED
    BY <1>2, <2>1, <2>2, <2>3, <2>4 DEF CallerStep, Continue, StartupWait, Submit, CapacityWait, FenceWait, Authorize
<1> QED
  BY <1>1, <1>2 DEF FrontNext, CallerStep

\* Nobody changes the options of a run.
LEMMA OptionsKept == FrontTypes /\ FrontNext => options' = options
<1>1. ASSUME FrontTypes, CallerStep PROVE options' = options
  BY <1>1, CallerEffect
<1>2. ASSUME WorkerStep \/ Device PROVE options' = options
  BY <1>2 DEF WorkerStep, RunFull, Begin, StartupDone, Loop, Publish, Progress, PollCompletion, Residual, PollFails,
         PollEmpty, Finish, Cleanup, Device
<1> QED
  BY <1>1, <1>2 DEF FrontNext, CallerStep

\* The stripe between the queues: whether submit_stripe() appends, the worker
\* takes or the stream takes, the order in which stripes were accepted is that of
\* the stream, the worker and the ready queue.
LEMMA OrderStep == FrontInv /\ FrontNext => StreamOrder'
<1> SUFFICES ASSUME FrontInv, FrontNext, Ok', Pipelined' PROVE StreamOrder'
  BY DEF StreamOrder
<1> USE DEF FrontInv
<1>1. Ok /\ Pipelined
  BY ErrorStays, OptionsKept DEF Pipelined
<1>2. /\ Len(accepted) = stream.next + Held + Len(pipe.ready)
      /\ \A n \in 1 .. stream.next : accepted[n] = n - 1
      /\ worker.event /= NoStripe => accepted[stream.next + 1] = worker.event
      /\ \A n \in 1 .. Len(pipe.ready) : accepted[stream.next + Held + n] = pipe.ready[n]
  BY <1>1 DEF StreamOrder
<1>3. /\ stream.next \in Nat /\ Held \in {0, 1} /\ Len(pipe.ready) \in Nat /\ pipe.ready \in Seq(Submittable)
      /\ accepted \in Seq(Submittable) /\ Len(accepted) \in Nat
  BY PipeFields DEF FrontTypes, Stream, Held
<1>4. CASE UNCHANGED <<accepted, pipe.ready, worker.event, stream.next>>
  BY <1>2, <1>4 DEF StreamOrder, Held
<1>5. ASSUME NEW e \in Submittable, Enqueue(e), worker' = worker, stream' = stream PROVE StreamOrder'
  <2>1. pipe'.ready = Append(pipe.ready, e) /\ accepted' = Append(accepted, e) /\ Held' = Held
    BY <1>5, EnqueueEffect DEF FrontTypes, Held
  <2>2. stream.next + Held \in Nat /\ 1 .. stream.next \subseteq 1 .. stream.next + Held
    BY <1>3
  <2>3. /\ Len(accepted') = stream.next + Held + Len(pipe'.ready)
        /\ \A n \in 1 .. Len(pipe'.ready) : accepted'[stream.next + Held + n] = pipe'.ready[n]
        /\ \A n \in 1 .. stream.next + Held : accepted'[n] = accepted[n]
    <3>1. /\ Len(Append(accepted, e)) = stream.next + Held + Len(Append(pipe.ready, e))
          /\ \A n \in 1 .. Len(Append(pipe.ready, e)) : Append(accepted, e)[stream.next + Held + n] = Append(pipe.ready, e)[n]
          /\ \A n \in 1 .. stream.next + Held : Append(accepted, e)[n] = accepted[n]
      BY <1>2, <1>3, <2>2, QueueAppends
    <3> QED
      BY <2>1, <3>1, Zenon
  <2>4. ASSUME NEW n \in 1 .. stream.next PROVE accepted'[n] = n - 1
    BY <1>2, <2>2, <2>3
  <2>5. worker.event /= NoStripe => accepted'[stream.next + 1] = worker.event
    <3> SUFFICES ASSUME worker.event /= NoStripe PROVE accepted'[stream.next + 1] = worker.event
      OBVIOUS
    <3>1. Held = 1
      BY DEF Held
    <3>2. stream.next + 1 \in 1 .. stream.next + Held
      BY <1>3, <3>1
    <3> QED
      BY <1>2, <2>3, <3>2
  <2> QED
    BY <1>5, <2>1, <2>3, <2>4, <2>5 DEF StreamOrder
<1>6. CASE Loop
  <2>1. UNCHANGED <<accepted, stream>> /\ worker.pc = "loop"
    BY <1>6 DEF Loop
  <2>2. worker.event = NoStripe /\ Held = 0
    BY <2>1 DEF WorkerPlace, Held
  <2>3. CASE pipe.ready /= << >> /\ pipe'.ready = Tail(pipe.ready) /\ worker'.event = Head(pipe.ready)
    <3>1. worker'.event \in Submittable
      BY <1>3, <2>3, TailOf
    <3>2. worker'.event /= NoStripe /\ Held' = 1
      BY <3>1, FrontEndAssumption DEF Submittable, Held
    <3>3. Len(accepted) = stream.next + Len(pipe.ready) /\ \A n \in 1 .. Len(pipe.ready) : accepted[stream.next + n] = pipe.ready[n]
      BY <1>2, <1>3, <2>2, SMTT(30)
    <3>4. /\ Len(accepted) = stream.next + 1 + Len(pipe'.ready) /\ accepted[stream.next + 1] = worker'.event
          /\ \A n \in 1 .. Len(pipe'.ready) : accepted[stream.next + 1 + n] = pipe'.ready[n]
      <4>1. /\ Len(accepted) = stream.next + 1 + Len(Tail(pipe.ready)) /\ accepted[stream.next + 1] = Head(pipe.ready)
            /\ \A n \in 1 .. Len(Tail(pipe.ready)) : accepted[stream.next + 1 + n] = Tail(pipe.ready)[n]
        BY <1>3, <2>3, <3>3, QueueShifts, Zenon
      <4> QED
        BY <2>3, <4>1, Zenon
    <3> QED
      BY <1>2, <2>1, <3>2, <3>4 DEF StreamOrder
  <2>4. CASE pipe' = pipe /\ worker'.event = worker.event
    BY <1>4, <2>1, <2>4
  <2> QED
    BY <1>6, <2>3, <2>4, LoopEffect
<1>7. CASE Publish
  <2>1. accepted' = accepted /\ worker.pc = "publish"
    BY <1>7 DEF Publish
  <2>2. worker.event /= NoStripe /\ Held = 1
    BY <2>1 DEF WorkerPlace, Held
  <2>3. CASE stream'.next = stream.next + 1 /\ worker.event = stream.next /\ worker'.event = NoStripe /\ pipe'.ready = pipe.ready
    <3>1. Held' = 0
      BY <2>3 DEF Held
    <3>2. ASSUME NEW n \in 1 .. stream.next + 1 PROVE accepted[n] = n - 1
      BY <1>2, <1>3, <2>2, <2>3
    <3>3. Len(accepted) = (stream.next + 1) + 0 + Len(pipe.ready)
      BY <1>2, <1>3, <2>2
    <3>4. ASSUME NEW n \in 1 .. Len(pipe.ready) PROVE accepted[(stream.next + 1) + 0 + n] = pipe.ready[n]
      <4>1. (stream.next + 1) + 0 + n = stream.next + 1 + n
        BY <1>3
      <4> QED
        BY <1>2, <2>2, <4>1
    <3> QED
      BY <2>1, <2>3, <3>1, <3>2, <3>3, <3>4 DEF StreamOrder
  <2>4. CASE stream' = stream /\ worker'.event = worker.event /\ pipe'.ready = pipe.ready
    BY <1>4, <2>1, <2>4
  <2> QED
    BY <1>7, <2>3, <2>4, PublishEffect
<1>8. CASE Progress \/ PollCompletion \/ Residual \/ PollEmpty
  <2>1. accepted' = accepted
    BY <1>8 DEF Progress, PollCompletion, Residual, PollEmpty
  <2>2. CASE Progress
    <3>1. pipe' = pipe
      BY <2>2 DEF Progress
    <3> QED
      BY <1>4, <2>1, <2>2, <3>1, ProgressEffect
  <2>3. CASE PollCompletion
    BY <1>4, <2>1, <2>3, CompletionEffect
  <2>4. CASE Residual
    <3>1. stream' = stream
      BY <2>4 DEF Residual
    <3> QED
      BY <1>4, <2>1, <2>4, <3>1, ResidualEffect
  <2>5. CASE PollEmpty
    <3>1. stream' = stream /\ pipe' = pipe
      BY <2>5 DEF PollEmpty
    <3> QED
      BY <1>4, <2>1, <2>5, <3>1, PollEmptyEffect
  <2> QED
    BY <1>8, <2>2, <2>3, <2>4, <2>5
<1>9. CASE RunFull \/ Begin \/ StartupDone \/ PollFails \/ Finish
  BY <1>4, <1>9, MoveEffect
<1>10. CASE Cleanup
  <2>1. accepted' = accepted /\ stream' = stream
    BY <1>10 DEF Cleanup
  <2> QED
    BY <1>1, <1>4, <1>10, <2>1, CleanupEffect
<1>11. CASE Device
  <2>1. stream'.next = stream.next
    BY <1>11, CompleteEffect DEF Device, FrontTypes
  <2> QED
    BY <1>4, <1>11, <2>1 DEF Device
<1>12. CASE CallerStep
  <2>1. CASE UNCHANGED <<pipe, accepted>>
    <3>1. worker'.event = worker.event /\ stream' = stream
      BY <1>12, CallerEffect DEF FrontTypes, Worker
    <3> QED
      BY <1>4, <2>1, <3>1
  <2>2. CASE ~UNCHANGED <<pipe, accepted>>
    <3>1. PICK e \in Submittable : Enqueue(e)
      BY <1>12, <2>2, CallerEffect
    <3>2. run.lifecycle = "running" /\ stream' = stream
      BY <1>12, <2>2, CallerEffect
    <3>3. ~Execute
      BY <3>2 DEF Execute, CallLife
    <3>4. worker' = worker
      BY <1>12, <3>3, CallerEffect
    <3> QED
      BY <1>5, <3>1, <3>2, <3>4
  <2> QED
    BY <2>1, <2>2
<1> QED
  BY <1>6, <1>7, <1>8, <1>9, <1>10, <1>11, <1>12 DEF FrontNext, CallerStep, WorkerStep

\* A stripe is timed after the stream took it, once and in order: publish() puts
\* only the stream's own numbers in flight, and poll() times only the next one.
LEMMA TimedStep == FrontInv /\ FrontNext => TimedInOrder'
<1> SUFFICES ASSUME FrontInv, FrontNext PROVE TimedInOrder'
  OBVIOUS
<1> USE DEF FrontInv
<1>1. stream.next \in Nat /\ pipe.timings \in Seq(Nat) /\ pipe.in_flight \subseteq Nat
  BY PipeFields DEF FrontTypes, Stream
<1>2. CASE pipe'.in_flight \subseteq pipe.in_flight /\ pipe'.timings = pipe.timings /\ stream'.next = stream.next
  BY <1>2 DEF TimedInOrder
<1>3. CASE Publish
  <2>1. stream'.next \in {stream.next, stream.next + 1} /\ pipe'.in_flight \subseteq pipe.in_flight \cup {stream'.next - 1}
        /\ pipe'.timings = pipe.timings /\ (stream'.next = stream.next => pipe'.in_flight = pipe.in_flight)
    BY <1>3, PublishEffect
  <2> QED
    BY <1>1, <1>2, <2>1 DEF TimedInOrder
<1>4. CASE PollCompletion
  <2>1. pipe'.in_flight \subseteq pipe.in_flight /\ stream'.next = stream.next
    BY <1>4, CompletionEffect
  <2>2. ASSUME NEW c \in pipe.in_flight, c = Len(pipe.timings), pipe'.timings = Append(pipe.timings, c) PROVE TimedInOrder'
    <3>1. /\ Len(pipe'.timings) = c + 1 /\ pipe'.timings[c + 1] = c /\ c \in Nat
          /\ \A n \in 1 .. c : pipe'.timings[n] = pipe.timings[n]
      BY <1>1, <2>2, AppendOf
    <3>2. c + 1 <= stream.next
      BY <1>1, <3>1 DEF TimedInOrder
    <3>3. ASSUME NEW n \in 1 .. c + 1 PROVE pipe'.timings[n] = n - 1
      BY <2>2, <3>1 DEF TimedInOrder
    <3> QED
      BY <2>1, <3>1, <3>2, <3>3 DEF TimedInOrder
  <2> QED
    BY <1>2, <1>4, <2>1, <2>2, CompletionEffect
<1>5. CASE Loop
  BY <1>2, <1>5, LoopEffect DEF Loop
<1>6. CASE Residual
  BY <1>2, <1>6, ResidualEffect DEF Residual
<1>7. CASE Cleanup
  BY <1>2, <1>7, CleanupEffect DEF Cleanup
<1>8. CASE Progress
  BY <1>2, <1>8, ProgressEffect DEF Progress
<1>9. CASE RunFull \/ Begin \/ StartupDone \/ PollFails \/ Finish
  BY <1>2, <1>9, MoveEffect
<1>10. CASE PollEmpty
  BY <1>2, <1>10 DEF PollEmpty
<1>11. CASE Device
  <2>1. stream'.next = stream.next
    BY <1>11, CompleteEffect DEF Device, FrontTypes
  <2> QED
    BY <1>2, <1>11, <2>1 DEF Device
<1>12. CASE CallerStep
  <2>1. stream' = stream /\ pipe'.in_flight = pipe.in_flight /\ pipe'.timings = pipe.timings
    BY <1>12, CallerEffect, EnqueueEffect DEF FrontTypes
  <2> QED
    BY <1>2, <2>1
<1> QED
  BY <1>3, <1>4, <1>5, <1>6, <1>7, <1>8, <1>9, <1>10, <1>11, <1>12 DEF FrontNext, CallerStep, WorkerStep

(***************************************************************************)
(* The worker and the life of the run                                      *)
(***************************************************************************)

\* The worker holds a stripe exactly between taking it and publishing it, and it
\* stops without an error only when its queue is empty and the run is closing.
LEMMA PlaceStep == FrontInv /\ FrontNext => WorkerPlace'
<1> SUFFICES ASSUME FrontInv, FrontNext PROVE WorkerPlace'
  OBVIOUS
<1> USE DEF FrontInv
<1>1. options' = options /\ Pipelined' = Pipelined /\ Closing \in BOOLEAN /\ NoStripe \notin Submittable
  BY OptionsKept, FrontEndAssumption DEF Pipelined, Closing, Submittable
<1>2. CASE RunFull
  BY <1>1, <1>2, MoveEffect DEF RunFull, Goto, WorkerPlace, FrontTypes, Worker, Pipelined
<1>3. CASE Begin
  <2>1. worker'.pc = "started" /\ worker'.event = NoStripe /\ Pipelined
    BY <1>3 DEF Begin, Goto, WorkerPlace, FrontTypes, Worker, Pipelined
  <2>2. stream'.open = TRUE \/ ~Ok'
    BY <1>3, ErrorEffect DEF Begin, FrontTypes, Stream, Statuses
  <2> QED
    BY <1>1, <2>1, <2>2 DEF WorkerPlace
<1>4. CASE StartupDone
  <2>1. worker.pc = "started" /\ worker'.event = worker.event /\ stream' = stream
        /\ (Ok' <=> Ok) /\ worker'.pc = (IF stream.open THEN "loop" ELSE "exited")
    BY <1>4 DEF StartupDone, Goto, FrontTypes, Worker, Run, Ok
  <2> QED
    BY <1>1, <2>1 DEF WorkerPlace
<1>5. CASE Loop
  <2>1. worker.pc = "loop" /\ worker.event = NoStripe
    BY <1>5 DEF Loop, WorkerPlace
  <2>2. CASE pipe.ready /= << >> /\ worker'.event = Head(pipe.ready) /\ worker'.pc = "publish"
    <3>1. worker'.event \in Submittable
      BY <2>2, PipeFields, TailOf DEF FrontTypes
    <3> QED
      BY <1>1, <2>1, <2>2, <3>1 DEF WorkerPlace
  <2>3. CASE worker'.event = worker.event /\ worker'.pc = "poll" /\ worker'.back = "main"
    BY <1>1, <2>1, <2>3 DEF WorkerPlace
  <2>4. CASE pipe' = pipe /\ worker' = worker /\ run' = run
    BY <1>1, <2>1, <2>4 DEF WorkerPlace
  <2>5. CASE pipe' = pipe /\ worker'.event = worker.event /\ worker'.pc = "finish" /\ run' = run /\ Closing /\ pipe.ready = << >>
    BY <1>1, <2>1, <2>5 DEF WorkerPlace, Closing
  <2>6. CASE worker'.event = worker.event /\ worker'.pc = "finish" /\ ~Ok'
    BY <1>1, <2>1, <2>6 DEF WorkerPlace
  <2> QED
    BY <1>5, <2>2, <2>3, <2>4, <2>5, <2>6, LoopEffect
<1>6. CASE Publish
  <2>1. worker.pc = "publish" /\ worker.event /= NoStripe
    BY <1>6 DEF Publish, WorkerPlace
  <2>2. CASE worker'.event = NoStripe /\ worker'.pc = "poll" /\ worker'.back = "main"
    BY <1>1, <2>1, <2>2 DEF WorkerPlace
  <2>3. CASE worker'.event = worker.event /\ worker'.pc = "progress" /\ worker'.back = "publish"
    BY <1>1, <2>1, <2>3 DEF WorkerPlace
  <2>4. CASE ~Ok' /\ worker'.pc \in {"finish", "exited"}
    BY <1>1, <2>1, <2>4 DEF WorkerPlace
  <2> QED
    BY <1>6, <2>2, <2>3, <2>4, PublishEffect
<1>7. CASE Progress
  <2>1. worker.pc = "progress"
    BY <1>7 DEF Progress
  <2> QED
    BY <1>1, <1>7, <2>1, ProgressEffect DEF WorkerPlace
<1>8. CASE PollCompletion
  <2>1. worker.pc = "poll"
    BY <1>8 DEF PollCompletion
  <2> QED
    BY <1>1, <1>8, <2>1, CompletionEffect DEF WorkerPlace
<1>9. CASE Residual
  <2>1. worker.pc = "residual"
    BY <1>9 DEF Residual
  <2> QED
    BY <1>1, <1>9, <2>1, ResidualEffect DEF WorkerPlace
<1>10. CASE PollFails
  <2>1. worker.pc = "poll" /\ worker'.pc = "finish" /\ ~Ok'
    BY <1>10, ErrorEffect DEF PollFails, Goto, FrontTypes, Worker, Statuses
  <2> QED
    BY <1>1, <2>1 DEF WorkerPlace
<1>11. CASE PollEmpty
  <2>1. worker.pc = "poll" /\ worker'.event = worker.event /\ pipe' = pipe /\ worker.back \in {"main", "loop", "publish"}
    BY <1>11, PollEmptyEffect DEF PollEmpty, FrontTypes, Worker
  <2>2. CASE worker.back = "main" /\ worker'.back = "loop" /\ worker'.pc = "progress"
    BY <1>1, <2>1, <2>2 DEF WorkerPlace
  <2>3. CASE worker.back = "main" /\ worker'.back = "loop" /\ worker'.pc = "finish" /\ Complete /\ run' = run
    BY <1>1, <2>1, <2>3 DEF WorkerPlace, Complete, Closing
  <2>4. CASE worker.back /= "main" /\ worker'.back = worker.back /\ worker'.pc = worker.back
    BY <1>1, <2>1, <2>4 DEF WorkerPlace
  <2>5. CASE ~Ok' /\ worker'.pc = "finish"
    BY <1>1, <2>1, <2>5 DEF WorkerPlace
  <2> QED
    BY <1>11, <2>2, <2>3, <2>4, <2>5, PollEmptyEffect
<1>12. CASE Finish
  <2>1. /\ worker.pc = "finish" /\ worker'.pc = "cleanup" /\ worker'.event = worker.event /\ pipe' = pipe
        /\ run'.lifecycle = run.lifecycle /\ (Ok' => Ok)
    BY <1>12, MoveEffect, ErrorStays DEF Finish, Goto, FrontTypes, Worker
  <2> QED
    BY <1>1, <2>1 DEF WorkerPlace
<1>13. CASE Cleanup
  <2>1. worker.pc = "cleanup" /\ (Ok' <=> Ok)
    BY <1>13 DEF Cleanup, Ok
  <2> QED
    BY <1>1, <1>13, <2>1, CleanupEffect DEF WorkerPlace
<1>14. CASE Device
  <2>1. UNCHANGED <<worker, pipe, run>> /\ stream'.open = stream.open
    BY <1>14, CompleteEffect DEF Device, FrontTypes
  <2> QED
    BY <1>1, <2>1 DEF WorkerPlace, Ok
<1>15. CASE CallerStep
  <2>1. CASE Execute
    <3>1. worker.pc = "none" /\ pipe' = pipe /\ stream' = stream /\ (worker' = worker \/ worker' = [worker EXCEPT !.pc = "begin"])
      BY <2>1 DEF Execute, CallLife, Goto
    <3>2. worker'.event = NoStripe /\ worker'.pc \in {"none", "begin"}
      BY <3>1 DEF WorkerPlace, FrontTypes, Worker
    <3> QED
      BY <1>1, <3>2 DEF WorkerPlace
  <2>2. CASE ~Execute
    <3>1. worker' = worker /\ stream' = stream /\ (Ok' => Ok)
      BY <1>15, <2>2, CallerEffect, ErrorStays
    <3>2. run.lifecycle \in {"closing", "terminal"} => pipe' = pipe /\ run'.lifecycle \in {"closing", "terminal"}
      <4>1. run.lifecycle \in {"closing", "terminal"} => pipe' = pipe
        BY <1>15, CallerEffect
      <4>2. run.lifecycle \in {"closing", "terminal"} => run'.lifecycle \in {"closing", "terminal"}
        BY <1>15, <2>2 DEF CallerStep, Continue, StartupWait, Submit, CapacityWait, Fence, FenceBehind, Join, FenceWait,
             Authorize, FrontTypes, Run
      <4> QED
        BY <4>1, <4>2
    <3> QED
      BY <1>1, <3>1, <3>2 DEF WorkerPlace
  <2> QED
    BY <2>1, <2>2
<1> QED
  BY <1>2, <1>3, <1>4, <1>5, <1>6, <1>7, <1>8, <1>9, <1>10, <1>11, <1>12, <1>13, <1>14, <1>15
     DEF FrontNext, CallerStep, WorkerStep

\* execute() is the only way out of idle, the first fence() is the only one that
\* joins, and the join is the only way from closing to terminal; there the worker
\* has ended.
LEMMA LifeStep == FrontInv /\ FrontNext => CallLife'
<1> SUFFICES ASSUME FrontInv, FrontNext PROVE CallLife'
  OBVIOUS
<1> USE DEF FrontInv
<1>1. /\ "main" \in Callers /\ Producers \subseteq Callers /\ Fencers \subseteq Callers
      /\ "main" \notin Producers /\ "main" \notin Fencers /\ caller \in [Callers -> CallerState] /\ run \in Run /\ worker \in Worker
  BY FrontEndAssumption DEF Callers, FrontTypes
<1>2. CASE WorkerStep \/ Device
  <2>1. caller' = caller
    BY <1>2 DEF WorkerStep, RunFull, Begin, StartupDone, Loop, Publish, Progress, PollCompletion, Residual, PollFails,
         PollEmpty, Finish, Cleanup, Device
  <2>2. run'.lifecycle = run.lifecycle
    <3>1. CASE Loop
      BY <3>1, LoopEffect
    <3>2. CASE Publish
      BY <3>2, PublishEffect
    <3>3. CASE Progress
      BY <3>3, ProgressEffect
    <3>4. CASE PollCompletion
      BY <3>4, CompletionEffect
    <3>5. CASE Residual
      BY <3>5, ResidualEffect
    <3>6. CASE PollEmpty
      BY <3>6, PollEmptyEffect
    <3>7. CASE RunFull \/ Begin \/ StartupDone \/ PollFails \/ Finish
      BY <3>7, MoveEffect
    <3>8. CASE Cleanup \/ Device
      BY <3>8 DEF Cleanup, Device
    <3> QED
      BY <1>2, <3>1, <3>2, <3>3, <3>4, <3>5, <3>6, <3>7, <3>8 DEF WorkerStep
  <2>3. worker.pc \in {"none", "exited"} => worker' = worker
    BY <1>2 DEF WorkerStep, RunFull, Begin, StartupDone, Loop, Publish, Progress, PollCompletion, Residual, PollFails,
         PollEmpty, Finish, Cleanup, Device
  <2> QED
    BY <2>1, <2>2, <2>3 DEF CallLife
<1>3. CASE Execute
  <2>1. run.lifecycle = "idle" /\ worker.pc = "none" /\ \A t \in Callers : caller[t].at /= "join"
    BY <1>3 DEF Execute, CallLife
  <2>2. /\ caller'["main"].at /= "outside" /\ caller'["main"].at /= "join"
        /\ \A t \in Callers \ {"main"} : caller'[t] = caller[t]
    BY <1>1, <1>3 DEF Execute, Returned, CallerState
  <2>3. \/ run'.lifecycle = "running"
        \/ run'.lifecycle = "terminal" /\ worker' = worker
    BY <1>1, <1>3 DEF Execute, Run
  <2> QED
    BY <2>1, <2>2, <2>3 DEF CallLife
<1>4. CASE StartupWait
  <2>1. /\ UNCHANGED <<run, worker>> /\ caller["main"].at = "startup" /\ caller'["main"].at \in {"startup", "idle"}
        /\ \A t \in Callers \ {"main"} : caller'[t] = caller[t]
    BY <1>1, <1>4 DEF StartupWait, Returned, CallerState
  <2> QED
    BY <2>1 DEF CallLife
<1>5. ASSUME NEW u \in Producers, (\E e \in Submittable : Submit(u, e)) \/ CapacityWait(u) PROVE CallLife'
  <2>1. /\ UNCHANGED <<run, worker>> /\ caller'[u].at \in {"idle", "capacity"}
        /\ \A t \in Callers \ {u} : caller'[t] = caller[t]
    BY <1>1, <1>5 DEF Submit, CapacityWait, Returned, CallerState
  <2> QED
    BY <1>1, <2>1 DEF CallLife
<1>6. ASSUME NEW u \in Fencers, Fence(u) PROVE CallLife'
  <2>1. worker' = worker /\ \A t \in Callers \ {u} : caller'[t] = caller[t]
    BY <1>1, <1>6 DEF Fence, FenceBehind, CallerState
  <2>2. \/ UNCHANGED <<run, caller>>
        \/ run.lifecycle = "running" /\ run'.lifecycle = "closing" /\ caller'[u].at = "join"
        \/ run' = run /\ caller'[u].at = "fence"
    BY <1>1, <1>6, ZenonT(60) DEF Fence, FenceBehind, CallerState, Run
  <2> QED
    BY <1>1, <2>1, <2>2 DEF CallLife
<1>7. ASSUME NEW u \in Fencers, Join(u) PROVE CallLife'
  <2>1. worker' = worker /\ worker.pc = "exited" /\ caller[u].at = "join" /\ caller'[u].at = "idle" /\ run'.lifecycle = "terminal"
        /\ \A t \in Callers \ {u} : caller'[t] = caller[t]
    BY <1>1, <1>7 DEF Join, Returned, CallerState, Run
  <2>2. \A t \in Callers : caller'[t].at /= "join"
    BY <1>1, <2>1 DEF CallLife
  <2>3. caller["main"].at /= "outside" /\ caller'["main"].at /= "outside"
    BY <1>1, <2>1 DEF CallLife
  <2> QED
    BY <2>1, <2>2, <2>3 DEF CallLife
<1>8. ASSUME NEW u \in Fencers, FenceWait(u) PROVE CallLife'
  <2>1. /\ UNCHANGED <<run, worker>> /\ caller'[u].at \in {"idle", "fence"}
        /\ \A t \in Callers \ {u} : caller'[t] = caller[t]
    BY <1>1, <1>8 DEF FenceWait, Returned, CallerState
  <2> QED
    BY <1>1, <2>1 DEF CallLife
<1>9. ASSUME NEW rmd \in BOOLEAN, Authorize(rmd) PROVE CallLife'
  <2>1. UNCHANGED <<worker, caller>> /\ run'.lifecycle = run.lifecycle
    BY <1>1, <1>9 DEF Authorize, Run
  <2> QED
    BY <2>1 DEF CallLife
<1> QED
  BY <1>2, <1>3, <1>4, <1>5, <1>6, <1>7, <1>8, <1>9 DEF FrontNext, Continue, Submittable

\* A join that finds no error finds every stripe accepted and completed, in
\* order: what the stream took is what was accepted, all of it was timed, and a
\* stripe beyond the last cannot have been accepted.
LEMMA JoinFindsAll ==
    ASSUME FrontInv, worker.pc = "exited", FinalStatus = "ok" PROVE AllDone
<1> USE DEF FrontInv
<1>1. SUFFICES ASSUME Pipelined PROVE accepted = Canonical /\ pipe.timings = Canonical /\ CoverageComplete
  BY DEF AllDone, Pipelined
<1>2. Ok /\ Len(pipe.timings) = Stripes /\ CoverageComplete
  BY <1>1, FinalStatusTyped DEF FrontTypes, Pipelined
<1>3. worker.event = NoStripe /\ pipe.ready = << >>
  BY <1>1, <1>2 DEF WorkerPlace
<1>4. Len(accepted) = stream.next /\ \A n \in 1 .. stream.next : accepted[n] = n - 1
  <2>1. Held = 0 /\ Len(pipe.ready) = 0 /\ stream.next \in Nat
    BY <1>3 DEF Held, FrontTypes, Stream
  <2> QED
    BY <1>1, <1>2, <2>1 DEF StreamOrder
<1>5. Stripes <= stream.next /\ stream.next \in Nat /\ Stripes \in Nat \ {0}
  BY <1>2, FrontEndAssumption DEF TimedInOrder, FrontTypes, Stream
<1>6. accepted \in Seq(Submittable) /\ pipe.timings \in Seq(Nat)
  BY PipeFields DEF FrontTypes
<1>7. stream.next = Stripes
  <2>1. SUFFICES ASSUME stream.next /= Stripes PROVE FALSE
    OBVIOUS
  <2>2. Stripes + 1 \in 1 .. stream.next
    BY <1>5, <2>1
  <2>3. accepted[Stripes + 1] = Stripes /\ accepted[Stripes + 1] \in Submittable
    BY <1>4, <1>5, <1>6, <2>2
  <2> QED
    BY <1>5, <2>3 DEF Submittable
<1>8. accepted = Canonical
  BY <1>4, <1>6, <1>7 DEF Canonical
<1>9. pipe.timings = Canonical
  <2>1. \A n \in 1 .. Stripes : pipe.timings[n] = n - 1
    BY <1>2 DEF TimedInOrder
  <2> QED
    BY <1>2, <1>6, <2>1, SMTT(40) DEF Canonical
<1> QED
  BY <1>2, <1>8, <1>9

\* After the join nothing that the answers of fence() speak of changes any more,
\* except that authorize_output_commit() may fail the run.
LEMMA AfterFence ==
    ASSUME FrontInv, FrontNext, run.lifecycle = "terminal"
    PROVE  UNCHANGED <<options, pipe, worker, accepted>> /\ (run' = run \/ \E rmd \in BOOLEAN : Authorize(rmd))
<1> USE DEF FrontInv
<1>1. worker.pc \in {"none", "exited"} /\ ~Execute /\ \A t \in Callers : caller[t].at /= "join"
  BY DEF CallLife, Execute
<1>2. CASE WorkerStep \/ Device
  BY <1>1, <1>2 DEF WorkerStep, RunFull, Begin, StartupDone, Loop, Publish, Progress, PollCompletion, Residual, PollFails,
       PollEmpty, Finish, Cleanup, Device
<1>3. CASE CallerStep
  <2>1. UNCHANGED <<options, pipe, worker, accepted>>
    BY <1>1, <1>3, CallerEffect
  <2>2. run' = run \/ \E rmd \in BOOLEAN : Authorize(rmd)
    BY <1>1, <1>3 DEF CallerStep, Continue, StartupWait, Submit, CapacityWait, Fence, FenceBehind, Join, FenceWait
  <2> QED
    BY <2>1, <2>2
<1> QED
  BY <1>2, <1>3 DEF FrontNext, CallerStep

\* Every answer of fence() is the run's own status, a success stands for a run in
\* which every stripe was completed, and the output is written only after one.
LEMMA AnswersStep == FrontInv /\ FrontNext => Answers'
<1> SUFFICES ASSUME FrontInv, FrontNext PROVE Answers'
  OBVIOUS
<1> USE DEF FrontInv
<1>1. run \in Run
  BY DEF FrontTypes
<1>2. CASE run.lifecycle = "terminal"
  <2>1. UNCHANGED <<options, pipe, worker, accepted>> /\ (AllDone' <=> AllDone)
    BY <1>2, AfterFence DEF AllDone, CoverageComplete
  <2>2. CASE run' = run
    <3>1. fenced' = fenced \/ fenced' = fenced \cup {run.final_status}
      <4>1. ASSUME NEW t \in Callers PROVE ~Join(t)
        BY <1>2 DEF Join, CallLife
      <4> QED
        BY <1>2, <4>1 DEF FrontNext, Execute, Submit, Fence, FenceBehind, Authorize, Continue, StartupWait, CapacityWait,
             FenceWait, Callers, WorkerStep, RunFull, Begin, StartupDone, Loop, Publish, Progress, PollCompletion, Residual,
             PollFails, PollEmpty, Finish, Cleanup, Device
    <3> QED
      BY <1>2, <2>1, <2>2, <3>1 DEF Answers, Ok
  <2>3. ASSUME NEW rmd \in BOOLEAN, Authorize(rmd) PROVE Answers'
    <3>1. /\ fenced' = fenced /\ Ok /\ run'.lifecycle = "terminal"
          /\ run'.final_status = "ok" \/ (run'.final_status = "rmd" /\ run'.output_committed = run.output_committed)
      BY <1>1, <1>2, <2>3 DEF Authorize, Run, Ok
    <3> QED
      BY <1>2, <2>1, <3>1 DEF Answers, Ok
  <2> QED
    BY <1>2, <2>2, <2>3, AfterFence
<1>3. CASE run.lifecycle /= "terminal"
  <2>1. fenced = {} /\ ~run.output_committed
    BY <1>3 DEF Answers
  <2>2. ASSUME NEW t \in Fencers, Join(t) PROVE Answers'
    <3>1. /\ fenced' = {FinalStatus} /\ run'.final_status = FinalStatus /\ run'.lifecycle = "terminal"
          /\ UNCHANGED <<options, pipe, worker, accepted>> /\ worker.pc = "exited"
          /\ (run'.output_committed => FinalStatus = "ok")
      BY <1>1, <2>1, <2>2 DEF Join, Run
    <3>2. FinalStatus = "ok" => AllDone'
      BY <3>1, JoinFindsAll DEF AllDone, CoverageComplete
    <3> QED
      BY <3>1, <3>2 DEF Answers, Ok
  <2>3. CASE Execute
    <3>1. fenced' = {} /\ ~run'.output_committed /\ (run'.lifecycle = "terminal" => run'.final_status = "execute")
      BY <1>1, <2>1, <2>3 DEF Execute, Run
    <3> QED
      BY <3>1 DEF Answers, Ok
  <2>4. CASE ~Execute /\ \A t \in Fencers : ~Join(t)
    <3>1. fenced' = {}
      BY <1>3, <2>1, <2>4 DEF FrontNext, Submit, Fence, FenceBehind, Authorize, Continue, StartupWait, CapacityWait,
             FenceWait, WorkerStep, RunFull, Begin, StartupDone, Loop, Publish, Progress, PollCompletion, Residual,
             PollFails, PollEmpty, Finish, Cleanup, Device
    <3>2. ~run'.output_committed /\ run'.lifecycle /= "terminal"
      <4>1. CASE Loop
        BY <1>3, <2>1, <4>1, LoopEffect
      <4>2. CASE Publish
        BY <1>3, <2>1, <4>2, PublishEffect
      <4>3. CASE Progress
        BY <1>3, <2>1, <4>3, ProgressEffect
      <4>4. CASE PollCompletion
        BY <1>3, <2>1, <4>4, CompletionEffect
      <4>5. CASE Residual
        BY <1>3, <2>1, <4>5, ResidualEffect
      <4>6. CASE PollEmpty
        BY <1>3, <2>1, <4>6, PollEmptyEffect
      <4>7. CASE RunFull \/ Begin \/ StartupDone \/ PollFails \/ Finish
        BY <1>3, <2>1, <4>7, MoveEffect
      <4>8. CASE run' = run
        BY <1>3, <2>1, <4>8
      <4>9. ASSUME NEW t \in Fencers, Fence(t) PROVE ~run'.output_committed /\ run'.lifecycle /= "terminal"
        BY <1>1, <1>3, <2>1, <4>9 DEF Fence, FenceBehind, Run
      <4> QED
        BY <1>3, <2>4, <4>1, <4>2, <4>3, <4>4, <4>5, <4>6, <4>7, <4>8, <4>9
           DEF FrontNext, WorkerStep, Continue, Submit, Authorize, StartupWait, CapacityWait, FenceWait, Cleanup, Device
    <3> QED
      BY <3>1, <3>2 DEF Answers
  <2> QED
    BY <2>2, <2>3, <2>4
<1> QED
  BY <1>2, <1>3

(***************************************************************************)
(* The theorems                                                            *)
(***************************************************************************)

\* A fresh run satisfies the invariant.
LEMMA FrontInitial == FrontInit => FrontInv
<1> SUFFICES ASSUME FrontInit PROVE FrontInv
  OBVIOUS
<1> USE FrontEndAssumption DEF FrontInit, Returned
<1>1. FrontTypes
  <2>1. << >> \in Seq(Submittable) /\ << >> \in Seq(Nat)
    OBVIOUS
  <2>2. pipe \in Pipe
    BY <2>1 DEF Pipe
  <2>3. run \in Run /\ worker \in Worker /\ stream \in Stream
    BY <2>1 DEF Run, Worker, Stream, Statuses
  <2>4. caller \in [Callers -> CallerState] /\ \A t \in Callers : caller[t].at \in {"outside", "idle"}
    BY DEF CallerState
  <2> QED
    BY <2>1, <2>2, <2>3, <2>4 DEF FrontTypes
<1>2. WorkerPlace
  BY DEF WorkerPlace
<1>3. StreamOrder
  BY DEF StreamOrder, Held
<1>4. TimedInOrder
  BY DEF TimedInOrder
<1>5. CallLife
  BY DEF CallLife, Callers
<1>6. Answers
  BY DEF Answers
<1> QED
  BY <1>1, <1>2, <1>3, <1>4, <1>5, <1>6 DEF FrontInv

\* Every step of a caller, of the worker or of the device keeps the invariant.
LEMMA FrontStep == FrontInv /\ [FrontNext]_frontVars => FrontInv'
<1>1. ASSUME FrontInv, FrontNext PROVE FrontInv'
  <2>1. FrontTypes'
    BY <1>1, WorkerTypes, CallerTypes DEF FrontInv, FrontNext, CallerStep
  <2> QED
    BY <1>1, <2>1, PlaceStep, OrderStep, TimedStep, LifeStep, AnswersStep DEF FrontInv
<1>2. ASSUME FrontInv, UNCHANGED frontVars PROVE FrontInv'
  <2> USE <1>2 DEF frontVars, FrontInv
  <2>1. FrontTypes'
    BY DEF FrontTypes
  <2>2. WorkerPlace' /\ TimedInOrder'
    BY DEF WorkerPlace, TimedInOrder, Ok, Pipelined
  <2>3. StreamOrder'
    BY DEF StreamOrder, Ok, Pipelined, Held
  <2>4. CallLife'
    BY DEF CallLife
  <2>5. Answers'
    BY DEF Answers, Ok, AllDone, CoverageComplete
  <2> QED
    BY <2>1, <2>2, <2>3, <2>4, <2>5
<1> QED
  BY <1>1, <1>2

\* The invariant of a Run of the front end holds for every number of producers,
\* fencers, stripes and slots, and every depth of the stream.
THEOREM FrontInvariant == FrontSpec => []FrontInv
  BY FrontInitial, FrontStep, PTL DEF FrontSpec

\* fence() is honest: its answer comes after the worker's last instruction, all
\* racing fences get the same one until the caller's own stage fails, success means
\* that every stripe was accepted and completed once and in order, and the output
\* is written only after such a success.
THEOREM FrontFenceHonest == FrontSpec => []FenceHonest
<1>1. FrontInv => FenceHonest
  <2> SUFFICES ASSUME FrontInv PROVE FenceHonest
    OBVIOUS
  <2> USE DEF FrontInv
  <2>1. fenced /= {} => worker.pc \in {"none", "exited"}
    BY DEF Answers, CallLife
  <2>2. Cardinality(fenced \ {"rmd"}) <= 1
    <3>1. \E s : fenced \ {"rmd"} = {} \/ fenced \ {"rmd"} = {s}
      <4>1. CASE fenced \subseteq {run.final_status}
        BY <4>1
      <4>2. CASE fenced \subseteq {"ok", "rmd"}
        BY <4>2
      <4> QED
        BY <4>1, <4>2 DEF Answers
    <3>2. Cardinality({}) = 0 /\ \A s : Cardinality({s}) = 1
      BY FS_EmptySet, FS_Singleton
    <3> DEFINE c == Cardinality(fenced \ {"rmd"})
    <3>3. c = 0 \/ c = 1
      BY <3>1, <3>2, Zenon
    <3> HIDE DEF c
    <3>4. c <= 1
      BY <3>3
    <3> QED
      BY <3>4 DEF c
  <2> QED
    BY <2>1, <2>2 DEF Answers, FenceHonest
<1> QED
  BY <1>1, FrontInvariant, PTL
(***************************************************************************)
(* The reservation station                                                 *)
(***************************************************************************)
Entry(C) == [valid : {TRUE}, command : C, issued : BOOLEAN, deps : SUBSET Slots]

EntryOf(c, i, d) == [valid |-> TRUE, command |-> c, issued |-> i, deps |-> d]

(* C is the set of the commands that reach the station. *)
StationTypeOK(C) ==
  /\ unrolled \in Seq(C)
  /\ station \in [Slots -> {Free} \cup Entry(C)]
  /\ older \in [Slots -> SUBSET Slots]

(* The history names slots that are held. *)
OlderHeld == \A s \in Slots : \A t \in older[s] : Valid(t)

StationInv(C) == StationTypeOK(C) /\ OlderHeld /\ DepsExact /\ HazardsOrdered

----------------------------------------------------------------------------
(* What Depends lets pass does not conflict: the masks cover every pair of *)
(* commands of different queues one of which writes what the other uses.   *)
LEMMA DependsCoversConflict ==
  ASSUME NEW c, NEW e, c.kind \in Kind, e.command.kind \in Kind,
         Queue(c) # Queue(e.command), ~Depends(c, e)
  PROVE  ~Conflict(e.command, c)
<1> DEFINE old == e.command
<1>1. CASE Config(c)
  <2>1. Writes(c) = {} /\ Reads(c) = {}
    BY <1>1 DEF Config, Writes, Reads
  <2> QED BY <2>1 DEF Conflict, Overlaps
<1>2. CASE Config(old)
  <2>1. Writes(old) = {} /\ Reads(old) = {}
    BY <1>2 DEF Config, Writes, Reads
  <2> QED BY <2>1 DEF Conflict, Overlaps
<1>3. CASE ~Config(c) /\ ~Config(old)
  <2>1. CASE c.kind \in {"LoadA", "LoadB"}
    <3>1. ~Overlaps(c.a, old.a) /\ ~Overlaps(c.a, old.b)
      BY <2>1, <1>3 DEF Depends, Queue
    <3>2. Writes(c) = c.a /\ Reads(c) = {}
      BY <2>1 DEF Writes, Reads
    <3>3. Reads(old) \subseteq old.a \cup old.b /\ Writes(old) \subseteq old.a
      BY DEF Writes, Reads
    <3> QED BY <3>1, <3>2, <3>3 DEF Conflict, Overlaps
  <2>2. CASE c.kind = "Store"
    <3>1. Writes(c) = {} /\ Reads(c) = c.a
      BY <2>2 DEF Writes, Reads
    <3>2. CASE old.kind \in {"LoadA", "LoadB", "Preload"}
      <4>1. ~Overlaps(c.a, old.a)
        BY <2>2, <3>2, <1>3 DEF Depends, Queue
      <4>2. Writes(old) = old.a
        BY <3>2 DEF Writes
      <4> QED BY <3>1, <4>1, <4>2 DEF Conflict, Overlaps
    <3>3. CASE old.kind \notin {"LoadA", "LoadB", "Preload"}
      <4>1. Writes(old) = {}
        BY <3>3 DEF Writes
      <4> QED BY <3>1, <4>1 DEF Conflict, Overlaps
    <3> QED BY <3>2, <3>3
  <2>3. CASE c.kind = "Preload"
    <3>1. Writes(c) = c.a /\ Reads(c) = c.a \cup c.b
      BY <2>3 DEF Writes, Reads
    <3>2. CASE old.kind \in {"LoadA", "LoadB"}
      <4>1. ~Overlaps(c.a, old.a) /\ ~Overlaps(c.b, old.a)
        BY <2>3, <3>2, <1>3 DEF Depends, Queue
      <4>2. Writes(old) = old.a /\ Reads(old) = {}
        BY <3>2 DEF Writes, Reads
      <4> QED BY <3>1, <4>1, <4>2 DEF Conflict, Overlaps
    <3>3. CASE old.kind = "Store"
      <4>1. ~Overlaps(c.a, old.a)
        BY <2>3, <3>3, <1>3 DEF Depends, Queue
      <4>2. Writes(old) = {} /\ Reads(old) = old.a
        BY <3>3 DEF Writes, Reads
      <4> QED BY <3>1, <4>1, <4>2 DEF Conflict, Overlaps
    <3> QED BY <2>3, <3>2, <3>3, <1>3 DEF Kind, Config, Queue
  <2>4. CASE c.kind = "Compute"
    <3>1. Writes(c) = {} /\ Reads(c) = c.a
      BY <2>4 DEF Writes, Reads
    <3>2. CASE old.kind \in {"LoadA", "LoadB"}
      <4>1. ~Overlaps(c.a, old.a)
        BY <2>4, <3>2, <1>3 DEF Depends, Queue
      <4>2. Writes(old) = old.a /\ Reads(old) = {}
        BY <3>2 DEF Writes, Reads
      <4> QED BY <3>1, <4>1, <4>2 DEF Conflict, Overlaps
    <3>3. CASE old.kind = "Store"
      <4>1. Writes(old) = {}
        BY <3>3 DEF Writes
      <4> QED BY <3>1, <4>1 DEF Conflict, Overlaps
    <3> QED BY <2>4, <3>2, <3>3, <1>3 DEF Kind, Config, Queue
  <2> QED BY <2>1, <2>2, <2>3, <2>4, <1>3 DEF Kind, Config
<1> QED BY <1>1, <1>2, <1>3

(* What may be issued is held, waits and depends on nothing. *)
LEMMA IssuableReady ==
  \A s \in Issuable : /\ s \in Slots /\ Valid(s) /\ ~Issued(s)
                      /\ station[s].deps = {}
BY DEF Issuable, FirstOf, Slots

(* A slot is given to a new command only if it was free. *)
LEMMA AllocatedFree ==
  \A s \in Allocated : s \in Slots /\ ~Valid(s) /\ unrolled # <<>>
<1> SUFFICES ASSUME NEW s \in Allocated
             PROVE  s \in Slots /\ ~Valid(s) /\ unrolled # <<>>
  OBVIOUS
<1>1. unrolled # <<>> /\ s \in SlotsOf(Queue(Head(unrolled))) /\ ~Valid(s)
  BY DEF Allocated, FirstOf
<1>2. Queue(Head(unrolled)) \in Queues
  BY <1>1 DEF Queue, Queues
<1> QED BY <1>1, <1>2 DEF Slots

----------------------------------------------------------------------------
(* The slots that an edge frees and those that stay held. *)
Freed(done, issued) == done \cup {s \in issued : RetiredAtIssue(s)}
Kept(done, issued) == {s \in Slots : Valid(s)} \ Freed(done, issued)

LEMMA EntryNotFree == ASSUME NEW C, NEW e \in Entry(C) PROVE e # Free
BY DEF Entry, Free

(* A slot that stays held keeps its command; what it waits for shrinks. *)
LEMMA KeptEffect ==
  ASSUME NEW C, StationInv(C), NEW done, done \in Completions,
         NEW issued, issued \in SUBSET Issuable,
         NEW pushed, StationEdge(done, issued, pushed), NEW s \in Kept(done, issued)
  PROVE  /\ s \in Slots /\ Valid(s) /\ Valid(s)'
         /\ s \notin Freed(done, issued) /\ s \notin Allocated
         /\ station'[s] \in Entry(C)
         /\ station'[s].command = station[s].command
         /\ station'[s].issued = (station[s].issued \/ s \in issued)
         /\ station'[s].deps = station[s].deps \ Cleared(station[s].command, issued, done)
         /\ older'[s] = older[s] \ Freed(done, issued)
<1> DEFINE freed == Freed(done, issued)
           kept == Kept(done, issued)
           cleared(c) == Cleared(c, issued, done)
<1> USE DEF StationInv
<1>0. /\ done \subseteq Slots /\ issued \subseteq Slots
      /\ \A t \in issued : Valid(t) /\ ~Issued(t) /\ station[t].deps = {}
  BY IssuableReady DEF Completions, Completable
<1>1. /\ kept \subseteq Slots /\ Allocated \subseteq Slots
      /\ kept \cap Allocated = {} /\ Allocated \cap issued = {}
  BY <1>0, AllocatedFree DEF Kept
<1>2. /\ station'[s] \in Entry(C)
      /\ station'[s].command = station[s].command
      /\ station'[s].issued = (station[s].issued \/ s \in issued)
      /\ station'[s].deps = station[s].deps \ cleared(station[s].command)
      /\ older'[s] = older[s] \ freed
  <2>1. station[s] \in Entry(C)
    BY <1>1 DEF StationTypeOK, Valid, Kept
  <2>2. station'[s] = EntryOf(station[s].command, station[s].issued \/ s \in issued,
                              station[s].deps \ cleared(station[s].command))
    BY <1>1 DEF StationEdge, EntryOf, Kept, Freed
  <2>3. older'[s] = older[s] \ freed
    BY <1>1 DEF StationEdge, Kept, Freed
  <2>4. /\ station[s].command \in C
        /\ (station[s].issued \/ s \in issued) \in BOOLEAN
        /\ station[s].deps \ cleared(station[s].command) \in SUBSET Slots
    BY <2>1 DEF Entry
  <2> DEFINE deps == station[s].deps \ cleared(station[s].command)
             sent == station[s].issued \/ s \in issued
  <2> HIDE DEF kept, freed, cleared, deps, sent
  <2>5. station'[s] = EntryOf(station[s].command, sent, deps)
    BY <2>2 DEF deps, sent
  <2>6. sent \in BOOLEAN /\ deps \in SUBSET Slots
    BY <2>4 DEF deps, sent
  <2>7. station'[s] \in Entry(C)
    BY <2>4, <2>5, <2>6 DEF Entry, EntryOf
  <2>8. station'[s].command = station[s].command /\ station'[s].deps = deps
    BY <2>5 DEF EntryOf
  <2>9. station'[s].issued = sent
    BY <2>5 DEF EntryOf
  <2> QED BY <2>3, <2>7, <2>8, <2>9 DEF deps, sent
<1>3. Valid(s)'
  <2>1. station'[s] # Free
    BY <1>2, EntryNotFree
  <2> QED BY <2>1 DEF Valid
<1>4. s \in Slots /\ Valid(s) /\ s \notin freed /\ s \notin Allocated
  BY <1>1 DEF Kept
<1> QED BY <1>2, <1>3, <1>4

(* A new entry holds the head of the queue, and all that stay held are older. *)
LEMMA AllocatedEffect ==
  ASSUME NEW C, StationInv(C), NEW done, done \in Completions,
         NEW issued, issued \in SUBSET Issuable,
         NEW pushed, StationEdge(done, issued, pushed), NEW s \in Allocated
  PROVE  /\ s \in Slots /\ unrolled # <<>> /\ Valid(s)'
         /\ station'[s] \in Entry(C)
         /\ station'[s].command = Head(unrolled)
         /\ station'[s].issued = FALSE
         /\ station'[s].deps =
              {t \in Slots : Valid(t) /\ Depends(Head(unrolled), station[t])}
                \ Cleared(Head(unrolled), issued, done)
         /\ older'[s] = Kept(done, issued)
<1> DEFINE freed == Freed(done, issued)
           kept == Kept(done, issued)
           cleared(c) == Cleared(c, issued, done)
<1> USE DEF StationInv
<1>0. /\ done \subseteq Slots /\ issued \subseteq Slots
      /\ \A t \in issued : Valid(t) /\ ~Issued(t) /\ station[t].deps = {}
  BY IssuableReady DEF Completions, Completable
<1>1. /\ kept \subseteq Slots /\ Allocated \subseteq Slots
      /\ kept \cap Allocated = {} /\ Allocated \cap issued = {}
  BY <1>0, AllocatedFree DEF Kept
<1>2. /\ station'[s] \in Entry(C)
      /\ station'[s].command = Head(unrolled)
      /\ station'[s].issued = FALSE
      /\ station'[s].deps = {t \in Slots : Valid(t) /\ Depends(Head(unrolled), station[t])}
                              \ cleared(Head(unrolled))
      /\ older'[s] = kept
  <2>1. Head(unrolled) \in C
    BY AllocatedFree DEF StationTypeOK
  <2>2. station'[s] = EntryOf(NewEntry.command, NewEntry.issued \/ s \in issued,
                              NewEntry.deps \ cleared(NewEntry.command))
    BY <1>1 DEF StationEdge, EntryOf, Kept, Freed
  <2>3. older'[s] = kept
    BY <1>1 DEF StationEdge, Kept, Freed
  <2>4. s \notin issued
    BY <1>1
  <2> DEFINE deps == {t \in Slots : Valid(t) /\ Depends(Head(unrolled), station[t])}
                       \ cleared(Head(unrolled))
  <2>5. /\ NewEntry.command = Head(unrolled) /\ NewEntry.issued = FALSE
        /\ NewEntry.deps \ cleared(NewEntry.command) = deps
    BY DEF NewEntry
  <2>6. station'[s] = EntryOf(Head(unrolled), FALSE, deps)
    BY <2>2, <2>4, <2>5 DEF EntryOf
  <2>7. deps \in SUBSET Slots
    OBVIOUS
  <2> HIDE DEF kept, freed, cleared, deps
  <2>8. station'[s] \in Entry(C)
    BY <2>1, <2>6, <2>7 DEF Entry, EntryOf
  <2>9. /\ station'[s].command = Head(unrolled) /\ station'[s].issued = FALSE
        /\ station'[s].deps = deps
    BY <2>6 DEF EntryOf
  <2> QED BY <2>3, <2>8, <2>9 DEF deps
<1>3. Valid(s)'
  <2>1. station'[s] # Free
    BY <1>2, EntryNotFree
  <2> QED BY <2>1 DEF Valid
<1>4. s \in Slots /\ unrolled # <<>>
  BY <1>1, AllocatedFree
<1> QED BY <1>2, <1>3, <1>4

(* Every other slot is free. *)
LEMMA EdgeEffect ==
  ASSUME NEW C, StationInv(C), NEW done, done \in Completions,
         NEW issued, issued \in SUBSET Issuable,
         NEW pushed, StationEdge(done, issued, pushed)
  PROVE  /\ \A s \in Slots : s \notin Kept(done, issued) /\ s \notin Allocated =>
              station'[s] = Free /\ older'[s] = {}
         /\ \A s \in Slots : Valid(s)' <=> s \in Kept(done, issued) \cup Allocated
<1>1. ASSUME NEW s \in Slots, s \notin Kept(done, issued), s \notin Allocated
      PROVE  station'[s] = Free /\ older'[s] = {}
  BY <1>1 DEF StationEdge, Kept, Freed
<1>2. \A s \in Kept(done, issued) \cup Allocated : Valid(s)'
  BY KeptEffect, AllocatedEffect
<1> QED BY <1>1, <1>2 DEF Valid

(* One edge preserves the invariant. *)
LEMMA EdgePreserves ==
  ASSUME NEW C, \A c \in C : c.kind \in Kind, StationInv(C),
         NEW done, done \in Completions,
         NEW issued, issued \in SUBSET Issuable,
         NEW pushed, pushed \in Seq(C),
         StationEdge(done, issued, pushed)
  PROVE  StationInv(C)'
<1> DEFINE freed == done \cup {s \in issued : RetiredAtIssue(s)}
           kept == {s \in Slots : Valid(s)} \ freed
           cleared(c) == Cleared(c, issued, done)
<1> USE DEF StationInv
<1>0. /\ done \subseteq Slots /\ issued \subseteq Slots /\ freed \subseteq Slots
      /\ \A s \in issued : Valid(s) /\ ~Issued(s) /\ station[s].deps = {}
  BY IssuableReady DEF Completions, Completable
<1>12. kept = Kept(done, issued) /\ freed = Freed(done, issued)
  BY DEF Kept, Freed
<1>1. kept \subseteq Slots /\ Allocated \subseteq Slots /\ kept \cap Allocated = {}
  BY AllocatedFree
<1>2. ASSUME NEW s \in kept
      PROVE  /\ station'[s] \in Entry(C)
             /\ station'[s].command = station[s].command
             /\ station'[s].issued = (station[s].issued \/ s \in issued)
             /\ station'[s].deps = station[s].deps \ cleared(station[s].command)
             /\ older'[s] = older[s] \ freed
  <2> HIDE DEF kept, freed
  <2> QED BY <1>12, KeptEffect
<1>3. ASSUME NEW s \in Allocated
      PROVE  /\ station'[s] \in Entry(C)
             /\ station'[s].command = Head(unrolled)
             /\ station'[s].issued = FALSE
             /\ station'[s].deps =
                  {t \in Slots : Valid(t) /\ Depends(Head(unrolled), station[t])}
                    \ cleared(Head(unrolled))
             /\ older'[s] = kept
  <2> HIDE DEF kept, freed
  <2> QED BY <1>12, AllocatedEffect
<1>4. ASSUME NEW s \in Slots, s \notin kept, s \notin Allocated
      PROVE  station'[s] = Free /\ older'[s] = {}
  <2> HIDE DEF kept, freed
  <2> QED BY <1>4, <1>12, EdgeEffect, Zenon
<1>5. ASSUME NEW s \in Slots
      PROVE  Valid(s)' <=> s \in kept \cup Allocated
  <2> HIDE DEF kept, freed
  <2> QED BY <1>12, EdgeEffect, Zenon
<1>6. \A t \in kept : Valid(t) /\ t \notin freed
  OBVIOUS
<1>7. StationTypeOK(C)'
  <2>1. unrolled' \in Seq(C)
    BY AllocatedFree DEF StationTypeOK, StationEdge
  <2>2. station' \in [Slots -> {Free} \cup Entry(C)]
    <3>1. station' = [s \in Slots |-> station'[s]]
      BY DEF StationEdge
    <3>2. \A s \in Slots : station'[s] \in {Free} \cup Entry(C)
      <4> HIDE DEF kept
      <4> QED BY <1>2, <1>3, <1>4
    <3> HIDE DEF kept
    <3> QED BY <3>1, <3>2
  <2>3. older' \in [Slots -> SUBSET Slots]
    <3>1. older' = [s \in Slots |-> older'[s]]
      BY DEF StationEdge
    <3>2. \A s \in Slots : older'[s] \in SUBSET Slots
      <4>1. \A s \in kept : older[s] \subseteq Slots
        BY <1>1 DEF StationTypeOK
      <4> HIDE DEF kept, freed
      <4> QED BY ZenonT(60), <1>1, <1>2, <1>3, <1>4, <4>1
    <3> HIDE DEF kept
    <3> QED BY <3>1, <3>2
  <2> QED BY <2>1, <2>2, <2>3 DEF StationTypeOK
<1>8. OlderHeld'
  <2> SUFFICES ASSUME NEW s \in Slots, NEW t \in older'[s] PROVE Valid(t)'
    BY DEF OlderHeld
  <2>1. t \in kept
    <3>1. CASE s \in kept
      <4>1. t \in older[s] /\ t \notin freed
        BY <3>1, <1>2
      <4>2. t \in Slots /\ Valid(t)
        BY <4>1 DEF OlderHeld, StationTypeOK
      <4> QED BY <4>1, <4>2
    <3>2. CASE s \in Allocated
      BY <3>2, <1>3
    <3>3. CASE s \notin kept /\ s \notin Allocated
      BY <3>3, <1>4
    <3> QED BY <3>1, <3>2, <3>3
  <2> HIDE DEF kept
  <2> QED BY <2>1, <1>1, <1>5
<1>9. ASSUME NEW c, NEW t \in kept
      PROVE  Depends(c, station'[t]) <=> (Depends(c, station[t]) /\ t \notin cleared(c))
  <2>1. t \notin done /\ (t \in issued => ~RetiredAtIssue(t))
    OBVIOUS
  <2>2. t \in cleared(c) <=> t \in issued /\ Queue(station[t].command) = Queue(c)
    BY <2>1 DEF Cleared
  <2>3. /\ station'[t].command = station[t].command
        /\ station'[t].issued = (station[t].issued \/ t \in issued)
    BY <1>2
  <2>4. station[t].issued \in BOOLEAN
    BY DEF StationTypeOK, Entry, Valid
  <2> HIDE DEF kept, freed, cleared
  <2>5. CASE Queue(station[t].command) = Queue(c)
    BY <2>2, <2>3, <2>4, <2>5 DEF Depends
  <2>6. CASE Queue(station[t].command) # Queue(c)
    BY <2>2, <2>3, <2>6 DEF Depends
  <2> QED BY <2>5, <2>6
<1>10. DepsExact'
  <2> SUFFICES ASSUME NEW s \in Slots, Valid(s)'
               PROVE  station'[s].deps =
                        {t \in older'[s] : Depends(station'[s].command, station'[t])}
    BY DEF DepsExact
  <2>1. CASE s \in kept
    <3>1. station[s].deps = {t \in older[s] : Depends(station[s].command, station[t])}
      BY <2>1 DEF DepsExact
    <3>2. older[s] \ freed \subseteq kept
      BY <2>1 DEF OlderHeld, StationTypeOK
    <3>3. \A t \in freed \cap older[s] :
             t \in cleared(station[s].command) \/ ~Depends(station[s].command, station[t])
      BY DEF Cleared
    <3> HIDE DEF kept, freed, cleared
    <3> QED BY <2>1, <3>1, <3>2, <3>3, <1>2, <1>9
  <2>2. CASE s \in Allocated
    <3>1. \A t \in Slots : Valid(t) /\ t \notin kept => t \in cleared(Head(unrolled))
      BY DEF Cleared
    <3>2. \A t \in kept : t \in Slots /\ Valid(t)
      OBVIOUS
    <3>3. \A t \in kept : Depends(Head(unrolled), station'[t])
                           <=> Depends(Head(unrolled), station[t])
                               /\ t \notin cleared(Head(unrolled))
      <4> HIDE DEF kept, freed, cleared
      <4> QED BY <1>9
    <3>4. /\ station'[s].command = Head(unrolled) /\ older'[s] = kept
          /\ station'[s].deps =
               {t \in Slots : Valid(t) /\ Depends(Head(unrolled), station[t])}
                 \ cleared(Head(unrolled))
      BY <2>2, <1>3
    <3> HIDE DEF kept, freed, cleared
    <3>5. {t \in Slots : Valid(t) /\ Depends(Head(unrolled), station[t])}
            \ cleared(Head(unrolled))
            = {t \in kept : Depends(Head(unrolled), station'[t])}
      BY <3>1, <3>2, <3>3
    <3> QED BY <3>4, <3>5
  <2> HIDE DEF kept
  <2> QED BY <2>1, <2>2, <1>5
<1>11. HazardsOrdered'
  <2> SUFFICES ASSUME NEW s \in Slots, Issued(s)', NEW t \in older'[s]
               PROVE  IF Queue(station'[t].command) = Queue(station'[s].command)
                      THEN Issued(t)'
                      ELSE ~Conflict(station'[t].command, station'[s].command)
    BY DEF HazardsOrdered
  <2>1. s \in kept
    <3>1. Valid(s)' /\ station'[s].issued
      BY DEF Issued
    <3> HIDE DEF kept
    <3> QED BY <3>1, <1>3, <1>5
  <2>2. t \in older[s] /\ t \notin freed /\ t \in Slots /\ Valid(t)
    BY <2>1, <1>2 DEF OlderHeld, StationTypeOK
  <2>3. t \in kept
    BY <2>2
  <2>4. /\ station'[t].command = station[t].command
        /\ station'[s].command = station[s].command
    BY <2>1, <2>3, <1>2
  <2>5. Issued(t) => Issued(t)'
    <3>1. Valid(t)'
      <4> HIDE DEF kept
      <4> QED BY <2>3, <2>2, <1>5
    <3>2. station[t].issued => station'[t].issued
      BY <2>3, <1>2
    <3> QED BY <3>1, <3>2 DEF Issued
  <2>6. CASE Issued(s)
    BY <2>2, <2>4, <2>5, <2>6 DEF HazardsOrdered
  <2>7. CASE ~Issued(s)
    <3>1. s \in issued /\ Valid(s)
      <4>1. Valid(s) /\ station'[s].issued
        BY <2>1 DEF Issued
      <4> QED BY <4>1, <2>1, <2>7, <1>2 DEF Issued
    <3>2. ~Depends(station[s].command, station[t])
      BY <3>1, <2>2, <1>0 DEF DepsExact
    <3>3. CASE Queue(station[t].command) = Queue(station[s].command)
      <4>1. station[t].issued
        BY <3>2, <3>3 DEF Depends
      <4> QED BY <4>1, <2>2, <2>4, <2>5, <3>3 DEF Issued
    <3>4. CASE Queue(station[t].command) # Queue(station[s].command)
      <4>1. station[s].command.kind \in Kind /\ station[t].command.kind \in Kind
        BY <3>1, <2>2 DEF StationTypeOK, Entry, Valid
      <4> QED BY <4>1, <3>2, <3>4, <2>4, DependsCoversConflict
    <3> QED BY <3>3, <3>4
  <2> QED BY <2>6, <2>7
<1> QED BY <1>7, <1>8, <1>10, <1>11

(* The invariant holds for every program and every order of completions. *)
THEOREM StationInvariant == StationSpec => []StationInv(Commands)
<1>1. StationInit => StationInv(Commands)
  BY DEF StationInit, StationInv, StationTypeOK, OlderHeld, DepsExact, HazardsOrdered,
         Valid, Issued
<1>2. StationInv(Commands) /\ [StationNext]_stationVars => StationInv(Commands)'
  <2> SUFFICES ASSUME StationInv(Commands), [StationNext]_stationVars PROVE StationInv(Commands)'
    OBVIOUS
  <2>1. ASSUME NEW done \in Completions, NEW issued \in SUBSET Issuable,
               StationEdge(done, issued, <<>>)
        PROVE  StationInv(Commands)'
    <3>1. <<>> \in Seq(Commands)
      OBVIOUS
    <3> QED BY <2>1, <3>1, EdgePreserves, StationAssumption
  <2>2. ASSUME NEW done \in Completions, NEW issued \in SUBSET Issuable,
               NEW c \in Commands, StationEdge(done, issued, <<c>>)
        PROVE  StationInv(Commands)'
    <3>1. <<c>> \in Seq(Commands)
      OBVIOUS
    <3> QED BY <2>2, <3>1, EdgePreserves, StationAssumption
  <2>3. CASE UNCHANGED stationVars
    BY <2>3 DEF stationVars, StationInv, StationTypeOK, OlderHeld, DepsExact,
                HazardsOrdered, Valid, Issued
  <2> QED BY <2>1, <2>2, <2>3 DEF StationNext
<1> QED BY <1>1, <1>2, PTL DEF StationSpec

(* Engine::reservation issues no command ahead of an earlier one of        *)
(* another queue that it conflicts with, nor ahead of one of its own queue.*)
THEOREM StationHazards == StationSpec => []HazardsOrdered
BY StationInvariant, PTL DEF StationInv

(* Engine::reservation: an entry's mask names exactly the live entries it  *)
(* has to wait for.                                                        *)
THEOREM StationDeps == StationSpec => []DepsExact
BY StationInvariant, PTL DEF StationInv

(***************************************************************************)
(* The loop controller: where a frame's blocks lie in its programs         *)
(***************************************************************************)
(* Division with remainder. *)
LEMMA DivisionFacts ==
  ASSUME NEW a \in Nat, NEW d \in Nat \ {0}
  PROVE  a \div d \in Nat /\ a % d \in 0..(d - 1) /\ a = d * (a \div d) + (a % d)
OBVIOUS

LEMMA ProductGrows ==
  ASSUME NEW d \in Nat, NEW a \in Nat, NEW b \in Nat, a <= b
  PROVE  d * a \in Nat /\ d * b \in Nat /\ d * a <= d * b
OBVIOUS

(* Digits of a higher place decide: radix order is lexicographic. *)
LEMMA HigherDigit ==
  ASSUME NEW d \in Nat \ {0}, NEW a \in Nat, NEW b \in Nat, a < b, NEW r \in 0..(d - 1)
  PROVE  d * a + r \in Nat /\ d * b \in Nat /\ d * a + r < d * b
<1>1. d * a \in Nat /\ d * (a + 1) \in Nat /\ d * b \in Nat /\ d * (a + 1) <= d * b
  BY ProductGrows
<1>2. d * (a + 1) = d * a + d
  OBVIOUS
<1> QED BY <1>1, <1>2

LEMMA DivisionUnique ==
  ASSUME NEW d \in Nat \ {0}, NEW q \in Nat, NEW r \in 0..(d - 1)
  PROVE  (d * q + r) \div d = q /\ (d * q + r) % d = r
<1> DEFINE n == d * q + r
<1>1. d * q \in Nat /\ n \in Nat
  BY ProductGrows
<1> DEFINE b == n \div d
           s == n % d
<1>2. b \in Nat /\ s \in 0..(d - 1) /\ n = d * b + s
  BY <1>1, DivisionFacts
<1>3. n = d * q + r
  OBVIOUS
<1> HIDE DEF n, b, s
<1>4. ~(b < q)
  BY <1>2, <1>3, HigherDigit
<1>5. ~(q < b)
  BY <1>2, <1>3, HigherDigit
<1>6. b = q
  BY <1>2, <1>4, <1>5
<1>7. s = r
  BY <1>1, <1>2, <1>3, <1>6
<1> QED BY <1>6, <1>7 DEF n, b, s

(* The place of a fragment in the execute program. *)
FragmentIndex(f, x) == f.i * (f.j * x.k + x.j) + x.i

Coordinates(f) == [i : 0..(f.i - 1), j : 0..(f.j - 1), k : Nat]

LEMMA IndexIsNat ==
  ASSUME NEW f \in Shapes, NEW x \in Coordinates(f)
  PROVE  f.j * x.k + x.j \in Nat /\ FragmentIndex(f, x) \in Nat
<1>1. f.i \in Nat /\ f.j \in Nat /\ x.k \in Nat /\ x.j \in Nat /\ x.i \in Nat
  BY DEF Shapes, Coordinates
<1>2. f.j * x.k \in Nat
  BY <1>1, ProductGrows
<1>3. f.j * x.k + x.j \in Nat
  BY <1>1, <1>2
<1>4. f.i * (f.j * x.k + x.j) \in Nat
  BY <1>1, <1>3, ProductGrows
<1> QED BY <1>1, <1>3, <1>4 DEF FragmentIndex

LEMMA FragmentOfIndex ==
  ASSUME NEW f \in Shapes, NEW x \in Coordinates(f)
  PROVE  Fragment(f, FragmentIndex(f, x)) = x
<1> DEFINE I == f.i
           J == f.j
           m == J * x.k + x.j
           low == I * x.j + x.i
           n == I * m + x.i
<1>1. /\ I \in Nat \ {0} /\ J \in Nat \ {0} /\ x.k \in Nat
      /\ x.i \in 0..(I - 1) /\ x.j \in 0..(J - 1)
  BY DEF Shapes, Coordinates
<1>2. m \in Nat /\ I * J \in Nat \ {0}
  BY <1>1, IndexIsNat
<1>3. n \div I = m /\ n % I = x.i
  <2> HIDE DEF m, I
  <2> QED BY <1>1, <1>2, DivisionUnique
<1>4. m % J = x.j
  <2> HIDE DEF J
  <2> QED BY <1>1, DivisionUnique
<1>5. low \in 0..(I * J - 1)
  <2> HIDE DEF I, J
  <2>1. low \in Nat /\ low < I * J
    BY <1>1, HigherDigit
  <2> QED BY <2>1, <1>2 DEF low
<1>6. n = (I * J) * x.k + low
  <2> DEFINE k == x.k
             j == x.j
             i == x.i
  <2>1. I \in Int /\ J \in Int /\ k \in Int /\ j \in Int /\ i \in Int
    BY <1>1
  <2> HIDE DEF I, J, k, j, i
  <2>2. I * (J * k + j) + i = (I * J) * k + (I * j + i)
    BY <2>1
  <2> QED BY <2>2 DEF k, j, i
<1>7. n \div (I * J) = x.k
  <2> HIDE DEF low, I, J, n
  <2> QED BY <1>1, <1>2, <1>5, <1>6, DivisionUnique
<1>8. x = [i |-> x.i, j |-> x.j, k |-> x.k]
  BY DEF Coordinates
<1>9. FragmentIndex(f, x) = n
  BY DEF FragmentIndex
<1> HIDE DEF n, I, J, m
<1>10. Fragment(f, n) = [i |-> x.i, j |-> x.j, k |-> x.k]
  BY <1>3, <1>4, <1>7 DEF Fragment, I, J
<1> QED BY <1>8, <1>9, <1>10

LEMMA DivisionExists ==
  ASSUME NEW a \in Nat, NEW d \in Nat \ {0}
  PROVE  \E q \in Nat, r \in 0..(d - 1) : a = d * q + r
<1>1. a \div d \in Nat /\ a % d \in 0..(d - 1) /\ a = d * (a \div d) + (a % d)
  BY DivisionFacts
<1> WITNESS a \div d \in Nat, a % d \in 0..(d - 1)
<1> QED BY <1>1

LEMMA IndexOfFragment ==
  ASSUME NEW f \in Shapes, NEW n \in Nat
  PROVE  Fragment(f, n) \in Coordinates(f) /\ FragmentIndex(f, Fragment(f, n)) = n
<1>1. f.i \in Nat \ {0} /\ f.j \in Nat \ {0}
  BY DEF Shapes
<1>2. PICK m \in Nat, i \in 0..(f.i - 1) : n = f.i * m + i
  BY <1>1, DivisionExists
<1>3. PICK b \in Nat, j \in 0..(f.j - 1) : m = f.j * b + j
  BY <1>1, <1>2, DivisionExists
<1> DEFINE x == [i |-> i, j |-> j, k |-> b]
<1>4. x \in Coordinates(f)
  BY <1>2, <1>3 DEF Coordinates
<1>5. FragmentIndex(f, x) = n
  <2>1. FragmentIndex(f, x) = f.i * (f.j * b + j) + i
    BY DEF FragmentIndex
  <2> QED BY <2>1, <1>2, <1>3
<1> HIDE DEF x
<1> QED BY <1>4, <1>5, FragmentOfIndex

(***************************************************************************)
(* The loop controller: the programs of a frame                            *)
(***************************************************************************)
Block == {"A", "B", "C"} \X Nat \X Nat
LoopCommands == [kind : Kind, a : SUBSET Block, b : SUBSET Block, i : Nat, j : Nat, k : Nat]

(* The commands whose result a command of frame f reads. *)
Needs(f, c) ==
  CASE c.kind = "Compute" -> {LoadA(c.i, c.k)}
    [] c.kind = "Preload" -> IF c.i = 0 THEN {LoadB(c.k, c.j)} ELSE {}
    [] c.kind = "Store" -> {Preload([i |-> c.i, j |-> c.j, k |-> k]) : k \in 0..(f.k - 1)}
    [] OTHER -> {}

LEMMA BlockTyped ==
  ASSUME NEW x \in Nat, NEW y \in Nat
  PROVE  ABlock(x, y) \in Block /\ BBlock(x, y) \in Block /\ CBlock(x, y) \in Block
BY DEF ABlock, BBlock, CBlock, Block

LEMMA LengthIsNat ==
  ASSUME NEW f \in Shapes, NEW p \in 1..4
  PROVE  ProgramLength(f, p) \in Nat
<1>1. f.i \in Nat /\ f.j \in Nat /\ f.k \in Nat /\ f.store \in BOOLEAN
  BY DEF Shapes
<1>2. f.i * f.k \in Nat /\ f.j * f.k \in Nat /\ f.i * f.j \in Nat
  BY <1>1, ProductGrows
<1>3. 2 * f.i \in Nat
  BY <1>1
<1>4. 2 * f.i * f.j \in Nat
  BY <1>1, <1>3, ProductGrows
<1>5. 2 * f.i * f.j * f.k \in Nat
  BY <1>1, <1>4, ProductGrows
<1> QED BY <1>2, <1>5 DEF ProgramLength

(* Twice a number, and one more, halved. *)
LEMMA Halves ==
  ASSUME NEW m \in Nat
  PROVE  /\ (2 * m) % 2 = 0 /\ (2 * m) \div 2 = m
         /\ (2 * m + 1) % 2 = 1 /\ (2 * m + 1) \div 2 = m
OBVIOUS

LEMMA HalfOf ==
  ASSUME NEW n \in Nat
  PROVE  /\ n \div 2 \in Nat
         /\ n % 2 = 0 => n = 2 * (n \div 2)
         /\ n % 2 # 0 => n = 2 * (n \div 2) + 1
OBVIOUS

(* Every command of a program is a command of its queue. *)
LEMMA CommandTyped ==
  ASSUME NEW f \in Shapes, NEW p \in 1..4, NEW n \in Nat
  PROVE  /\ ProgramCommand(f, p, n) \in LoopCommands
         /\ ~Config(ProgramCommand(f, p, n))
         /\ ProgramFor(ProgramCommand(f, p, n)) = p
         /\ p \in {1, 2} => Queue(ProgramCommand(f, p, n)) = 0
         /\ p = 3 => Queue(ProgramCommand(f, p, n)) = 1
         /\ p = 4 => Queue(ProgramCommand(f, p, n)) = 2
<1>1. f.i \in Nat \ {0} /\ f.j \in Nat \ {0} /\ f.k \in Nat \ {0}
  BY DEF Shapes
<1>2. /\ n % f.i \in Nat /\ n \div f.i \in Nat /\ n % f.j \in Nat /\ n \div f.j \in Nat
      /\ f.k - 1 \in Nat
  <2>1. n % f.i \in 0..(f.i - 1) /\ n \div f.i \in Nat
    BY <1>1, DivisionFacts
  <2>2. n % f.j \in 0..(f.j - 1) /\ n \div f.j \in Nat
    BY <1>1, DivisionFacts
  <2> QED BY <1>1, <2>1, <2>2
<1>3. CASE p = 1
  <2> DEFINE i == n % f.i
             k == n \div f.i
  <2>1. ProgramCommand(f, p, n) = LoadA(i, k)
    BY <1>3 DEF ProgramCommand
  <2>2. i \in Nat /\ k \in Nat
    BY <1>2
  <2> HIDE DEF i, k
  <2>3. ABlock(i, k) \in Block
    BY <2>2, BlockTyped
  <2>4. LoadA(i, k) \in LoopCommands
    BY <2>2, <2>3 DEF LoadA, LoopCommands, Kind
  <2> QED BY <1>3, <2>1, <2>4 DEF LoadA, Config, ProgramFor, Queue
<1>4. CASE p = 2
  <2> DEFINE j == n % f.j
             k == n \div f.j
  <2>1. ProgramCommand(f, p, n) = LoadB(k, j)
    BY <1>4 DEF ProgramCommand
  <2>2. j \in Nat /\ k \in Nat
    BY <1>2
  <2> HIDE DEF j, k
  <2>3. BBlock(k, j) \in Block
    BY <2>2, BlockTyped
  <2>4. LoadB(k, j) \in LoopCommands
    BY <2>2, <2>3 DEF LoadB, LoopCommands, Kind
  <2> QED BY <1>4, <2>1, <2>4 DEF LoadB, Config, ProgramFor, Queue
<1>5. CASE p = 3
  <2> DEFINE x == Fragment(f, n \div 2)
  <2>1. ProgramCommand(f, p, n) = IF n % 2 = 0 THEN Preload(x) ELSE Compute(x)
    BY <1>5 DEF ProgramCommand
  <2>2. n \div 2 \in Nat
    BY HalfOf
  <2>3. x \in Coordinates(f)
    BY <2>2, IndexOfFragment
  <2> HIDE DEF x
  <2>4. x.i \in Nat /\ x.j \in Nat /\ x.k \in Nat
    BY <2>3, <1>1 DEF Coordinates
  <2>5. ABlock(x.i, x.k) \in Block /\ BBlock(x.k, x.j) \in Block /\ CBlock(x.i, x.j) \in Block
    BY <2>4, BlockTyped
  <2>6. Preload(x) \in LoopCommands
    BY <2>4, <2>5 DEF Preload, LoopCommands, Kind
  <2>7. Compute(x) \in LoopCommands
    BY <2>4, <2>5 DEF Compute, LoopCommands, Kind
  <2>8. Preload(x).kind = "Preload" /\ Compute(x).kind = "Compute"
    BY DEF Preload, Compute
  <2> QED BY <1>5, <2>1, <2>6, <2>7, <2>8 DEF Config, ProgramFor, Queue
<1>6. CASE p = 4
  <2> DEFINE i == n % f.i
             j == n \div f.i
             k == f.k - 1
  <2>1. ProgramCommand(f, p, n) = Store(i, j, k)
    BY <1>6 DEF ProgramCommand
  <2>2. i \in Nat /\ j \in Nat /\ k \in Nat
    BY <1>2
  <2> HIDE DEF i, j, k
  <2>3. CBlock(i, j) \in Block
    BY <2>2, BlockTyped
  <2>4. Store(i, j, k) \in LoopCommands
    BY <2>2, <2>3 DEF Store, LoopCommands, Kind
  <2> QED BY <1>6, <2>1, <2>4 DEF Store, Config, ProgramFor, Queue
<1> QED BY <1>3, <1>4, <1>5, <1>6

(* No command occurs twice in the programs of a frame. *)
LEMMA CommandOnce ==
  ASSUME NEW f \in Shapes, NEW p \in 1..4, NEW q \in 1..4, NEW n \in Nat, NEW m \in Nat,
         ProgramCommand(f, p, n) = ProgramCommand(f, q, m)
  PROVE  p = q /\ n = m
<1>1. p = q
  BY CommandTyped
<1>2. f.i \in Nat \ {0} /\ f.j \in Nat \ {0}
  BY DEF Shapes
<1>3. CASE p = 1
  <2>1. LoadA(n % f.i, n \div f.i) = LoadA(m % f.i, m \div f.i)
    BY <1>1, <1>3 DEF ProgramCommand
  <2>2. n % f.i = m % f.i /\ n \div f.i = m \div f.i
    BY <2>1 DEF LoadA
  <2> QED BY <1>1, <1>2, <2>2, DivisionFacts
<1>4. CASE p = 2
  <2>1. LoadB(n \div f.j, n % f.j) = LoadB(m \div f.j, m % f.j)
    BY <1>1, <1>4 DEF ProgramCommand
  <2>2. n % f.j = m % f.j /\ n \div f.j = m \div f.j
    BY <2>1 DEF LoadB
  <2> QED BY <1>1, <1>2, <2>2, DivisionFacts
<1>5. CASE p = 3
  <2> DEFINE x == Fragment(f, n \div 2)
             y == Fragment(f, m \div 2)
  <2>1. (IF n % 2 = 0 THEN Preload(x) ELSE Compute(x)) = (IF m % 2 = 0 THEN Preload(y) ELSE Compute(y))
    BY <1>1, <1>5 DEF ProgramCommand
  <2>2. n \div 2 \in Nat /\ m \div 2 \in Nat
    BY HalfOf
  <2>3. /\ x \in Coordinates(f) /\ FragmentIndex(f, x) = n \div 2
        /\ y \in Coordinates(f) /\ FragmentIndex(f, y) = m \div 2
    BY <2>2, IndexOfFragment
  <2> HIDE DEF x, y
  <2>4. Preload(x).kind = "Preload" /\ Compute(x).kind = "Compute" /\ Preload(y).kind = "Preload" /\ Compute(y).kind = "Compute"
    BY DEF Preload, Compute
  <2>5. (n % 2 = 0) <=> (m % 2 = 0)
    BY <2>1, <2>4
  <2>6. x.i = y.i /\ x.j = y.j /\ x.k = y.k
    BY <2>1, <2>5 DEF Preload, Compute
  <2>7. n \div 2 = m \div 2
    BY <2>3, <2>6 DEF FragmentIndex
  <2> QED BY <1>1, <2>5, <2>7, HalfOf
<1>6. CASE p = 4
  <2>1. Store(n % f.i, n \div f.i, f.k - 1) = Store(m % f.i, m \div f.i, f.k - 1)
    BY <1>1, <1>6 DEF ProgramCommand
  <2>2. n % f.i = m % f.i /\ n \div f.i = m \div f.i
    BY <2>1 DEF Store
  <2> QED BY <1>1, <1>2, <2>2, DivisionFacts
<1> QED BY <1>3, <1>4, <1>5, <1>6

(* Where the programs hold a command. *)
LEMMA CommandPlaces ==
  ASSUME NEW f \in Shapes, NEW x \in Coordinates(f)
  PROVE  /\ f.i * x.k + x.i \in Nat /\ ProgramCommand(f, 1, f.i * x.k + x.i) = LoadA(x.i, x.k)
         /\ f.j * x.k + x.j \in Nat /\ ProgramCommand(f, 2, f.j * x.k + x.j) = LoadB(x.k, x.j)
         /\ 2 * FragmentIndex(f, x) \in Nat /\ ProgramCommand(f, 3, 2 * FragmentIndex(f, x)) = Preload(x)
<1>1. /\ f.i \in Nat \ {0} /\ f.j \in Nat \ {0} /\ x.k \in Nat
      /\ x.i \in 0..(f.i - 1) /\ x.j \in 0..(f.j - 1)
  BY DEF Shapes, Coordinates
<1>2. f.i * x.k \in Nat /\ f.j * x.k \in Nat
  BY <1>1, ProductGrows
<1>3. (f.i * x.k + x.i) \div f.i = x.k /\ (f.i * x.k + x.i) % f.i = x.i
  BY <1>1, DivisionUnique
<1>4. (f.j * x.k + x.j) \div f.j = x.k /\ (f.j * x.k + x.j) % f.j = x.j
  BY <1>1, DivisionUnique
<1>5. FragmentIndex(f, x) \in Nat /\ Fragment(f, FragmentIndex(f, x)) = x
  BY IndexIsNat, FragmentOfIndex
<1> DEFINE m == FragmentIndex(f, x)
<1> HIDE DEF m
<1>6. m \in Nat /\ Fragment(f, m) = x
  BY <1>5 DEF m
<1>7. (2 * m) % 2 = 0 /\ (2 * m) \div 2 = m /\ 2 * m \in Nat
  BY <1>6, Halves
<1>8. ProgramCommand(f, 3, 2 * m) = Preload(x)
  BY <1>6, <1>7 DEF ProgramCommand
<1>9. ProgramCommand(f, 1, f.i * x.k + x.i) = LoadA(x.i, x.k)
  BY <1>3 DEF ProgramCommand
<1>10. ProgramCommand(f, 2, f.j * x.k + x.j) = LoadB(x.k, x.j)
  BY <1>4 DEF ProgramCommand
<1> QED BY <1>1, <1>2, <1>7, <1>8, <1>9, <1>10 DEF m

LEMMA InFirstCommands ==
  ASSUME NEW f, NEW count, NEW p \in 1..4, NEW n \in 0..(count[p] - 1)
  PROVE  ProgramCommand(f, p, n) \in FirstCommands(f, count)
BY DEF FirstCommands

(* A fragment of the frame lies below its K. *)
LEMMA FragmentBelow ==
  ASSUME NEW f \in Shapes, NEW n \in Nat, n < ProgramLength(f, 3)
  PROVE  Fragment(f, n \div 2).k < f.k
<1> DEFINE x == Fragment(f, n \div 2)
<1>1. n \div 2 \in Nat /\ 2 * (n \div 2) <= n
  BY HalfOf
<1>2. x \in Coordinates(f) /\ FragmentIndex(f, x) = n \div 2
  BY <1>1, IndexOfFragment
<1> HIDE DEF x
<1>3. f.i \in Nat \ {0} /\ f.j \in Nat \ {0} /\ f.k \in Nat /\ x.k \in Nat /\ x.j \in Nat /\ x.i \in Nat
  BY <1>2 DEF Shapes, Coordinates
<1> DEFINE I == f.i
           J == f.j
           K == f.k
           k == x.k
           j == x.j
<1>4. n \div 2 = I * (J * k + j) + x.i
  BY <1>2 DEF FragmentIndex
<1>5. n < 2 * I * J * K
  BY DEF ProgramLength
<1>6. I \in Nat /\ J \in Nat /\ K \in Nat /\ k \in Nat /\ j \in Nat
  BY <1>3
<1> HIDE DEF I, J, K, k, j
<1>7. SUFFICES ASSUME K <= k PROVE FALSE
  BY <1>6 DEF K, k, x
<1>8. J * K <= J * k /\ J * K \in Nat /\ J * k \in Nat
  BY <1>6, <1>7, ProductGrows
<1>9. J * K <= J * k + j /\ J * k + j \in Nat
  BY <1>6, <1>8
<1>10. I * (J * K) <= I * (J * k + j) /\ I * (J * K) \in Nat /\ I * (J * k + j) \in Nat
  BY <1>6, <1>8, <1>9, ProductGrows
<1>11. 2 * I * J * K = 2 * (I * (J * K))
  BY <1>6
<1>12. n \div 2 >= I * (J * K)
  BY <1>3, <1>4, <1>10, <1>1
<1> QED BY <1>1, <1>5, <1>10, <1>11, <1>12

(* What has been unrolled of the execute program has its weights loading. *)
WeightsFed ==
  \A x \in Coordinates(Frame) :
    2 * FragmentIndex(Frame, x) < loop.position[3] => Frame.j * x.k + x.j < loop.position[2]

(* The loads that an execute command reads have been unrolled before it. *)
LEMMA ExecuteFed ==
  ASSUME Frame \in Shapes, loop.position \in [1..4 -> Nat], loop.configured, {0, 1} \subseteq loop.started,
         WeightsFed, ExecuteReady
  PROVE  LET x == Fragment(Frame, loop.position[3] \div 2) IN
         /\ x \in Coordinates(Frame) /\ FragmentIndex(Frame, x) = loop.position[3] \div 2
         /\ Frame.i * x.k + x.i < loop.position[1]
         /\ Frame.j * x.k + x.j < loop.position[2]
<1> DEFINE f == Frame
           a == loop.position[1]
           b == loop.position[2]
           e == loop.position[3]
           x == Fragment(f, e \div 2)
           c == Upcoming(3)
<1>1. a \in Nat /\ b \in Nat /\ e \in Nat
  OBVIOUS
<1>2. e < ProgramLength(f, 3)
  BY DEF ExecuteReady, Active, ProgramOf
<1>3. e \div 2 \in Nat /\ 2 * (e \div 2) <= e
  BY <1>1, HalfOf
<1>4. x \in Coordinates(f) /\ FragmentIndex(f, x) = e \div 2
  BY <1>3, IndexOfFragment
<1>5. x.k < f.k
  BY <1>1, <1>2, FragmentBelow
<1>6. c.i = x.i /\ c.j = x.j /\ c.k = x.k
  <2>1. c = IF e % 2 = 0 THEN Preload(x) ELSE Compute(x)
    BY DEF Upcoming, ProgramOf, ProgramCommand
  <2> HIDE DEF c, x
  <2> QED BY <2>1 DEF Preload, Compute
<1>7. Active(0) <=> a < f.i * f.k
  BY DEF Active, ProgramOf, ProgramLength
<1>8. Active(1) <=> b < f.j * f.k
  BY DEF Active, ProgramOf, ProgramLength
<1>9. Upcoming(0).k = a \div f.i /\ Upcoming(0).i = a % f.i
  BY DEF Upcoming, ProgramOf, ProgramCommand, LoadA
<1>10. Upcoming(1).k = b \div f.j /\ Upcoming(1).j = b % f.j
  BY DEF Upcoming, ProgramOf, ProgramCommand, LoadB
<1>11. /\ Active(0) => Upcoming(0).k > c.k \/ (Upcoming(0).k = c.k /\ Upcoming(0).i > c.i)
       /\ Active(1) => Upcoming(1).k > c.k \/ Upcoming(1).j > c.j
  BY DEF ExecuteReady
<1>12. /\ f.i \in Nat \ {0} /\ f.j \in Nat \ {0} /\ f.k \in Nat
       /\ x.k \in Nat /\ x.i \in 0..(f.i - 1) /\ x.j \in 0..(f.j - 1)
  BY <1>4 DEF Shapes, Coordinates
<1>13. \A y \in Coordinates(f) : 2 * FragmentIndex(f, y) < e => f.j * y.k + y.j < b
  BY DEF WeightsFed
<1> HIDE DEF f, a, b, e, x, c
<1>14. f.i * x.k + x.i < a
  <2>1. CASE Active(0)
    <3>1. PICK q \in Nat, r \in 0..(f.i - 1) : a = f.i * q + r /\ q = a \div f.i /\ r = a % f.i
      BY <1>1, <1>12, DivisionFacts
    <3>2. q > x.k \/ (q = x.k /\ r > x.i)
      BY <2>1, <3>1, <1>6, <1>9, <1>11
    <3>3. CASE q > x.k
      <4>1. f.i * x.k + x.i < f.i * q /\ f.i * q \in Nat /\ f.i * x.k + x.i \in Nat
        BY <1>12, <3>3, HigherDigit
      <4> QED BY <3>1, <4>1
    <3>4. CASE q = x.k /\ r > x.i
      <4>1. f.i * x.k \in Nat
        BY <1>12, ProductGrows
      <4>2. a = f.i * x.k + r
        BY <3>1, <3>4
      <4>3. r \in Nat /\ x.i \in Nat /\ x.i < r
        BY <3>4, <1>12
      <4> QED BY <4>1, <4>2, <4>3
    <3> QED BY <3>2, <3>3, <3>4
  <2>2. CASE ~Active(0)
    <3>1. f.i * x.k + x.i < f.i * f.k /\ f.i * f.k \in Nat /\ f.i * x.k + x.i \in Nat
      BY <1>5, <1>12, HigherDigit
    <3> QED BY <1>1, <1>7, <2>2, <3>1
  <2> QED BY <2>1, <2>2
<1>15. f.j * x.k + x.j < b
  <2>1. CASE Active(1)
    <3>1. PICK q \in Nat, r \in 0..(f.j - 1) : b = f.j * q + r /\ q = b \div f.j /\ r = b % f.j
      BY <1>1, <1>12, DivisionFacts
    <3>2. q > x.k \/ r > x.j
      BY <2>1, <3>1, <1>6, <1>10, <1>11
    <3>3. CASE q > x.k
      <4>1. f.j * x.k + x.j < f.j * q /\ f.j * q \in Nat /\ f.j * x.k + x.j \in Nat
        BY <1>12, <3>3, HigherDigit
      <4> QED BY <3>1, <4>1
    <3>4. CASE ~(q > x.k)
      <4>1. f.j * x.k <= b /\ f.j * x.k \in Nat
        <5>1. CASE x.k = 0
          BY <5>1, <1>1, <1>12
        <5>2. CASE x.k > 0
          <6> DEFINE y == [i |-> 0, j |-> f.j - 1, k |-> x.k - 1]
          <6>1. y \in Coordinates(f)
            BY <5>2, <1>12 DEF Coordinates
          <6>2. f.j * y.k + y.j = f.j * x.k - 1
            <7>1. y.k = x.k - 1 /\ y.j = f.j - 1
              OBVIOUS
            <7> HIDE DEF y
            <7> QED BY <7>1, <1>12
          <6>3. FragmentIndex(f, y) < FragmentIndex(f, x) /\ FragmentIndex(f, y) \in Nat
            <7>1. FragmentIndex(f, y) = f.i * (f.j * y.k + y.j) + 0
              BY DEF FragmentIndex
            <7>2. FragmentIndex(f, x) = f.i * (f.j * x.k + x.j) + x.i
              BY DEF FragmentIndex
            <7>3. f.j * x.k \in Nat
              BY <1>12, ProductGrows
            <7>4. f.j * y.k + y.j \in Nat /\ f.j * x.k + x.j \in Nat /\ FragmentIndex(f, y) \in Nat
              <8> HIDE DEF y
              <8> QED BY <6>1, <1>4, IndexIsNat, <1>12, Frame \in Shapes DEF f
            <7>5. f.j * y.k + y.j < f.j * x.k + x.j
              BY <6>2, <7>3, <1>12
            <7> HIDE DEF y
            <7>6. 0 \in 0..(f.i - 1)
              BY <1>12
            <7>7. f.i * (f.j * y.k + y.j) + 0 < f.i * (f.j * x.k + x.j) /\ f.i * (f.j * x.k + x.j) \in Nat
              BY <7>4, <7>5, <7>6, <1>12, HigherDigit
            <7> QED BY <7>1, <7>2, <7>4, <7>7, <1>12
          <6>4. 2 * FragmentIndex(f, y) < e
            <7> HIDE DEF y
            <7> QED BY <6>3, <1>1, <1>3, <1>4
          <6>5. f.j * x.k - 1 < b
            BY <6>1, <6>2, <6>4, <1>13
          <6>6. f.j * x.k \in Nat
            BY <1>12, ProductGrows
          <6> QED BY <6>5, <6>6, <1>1
        <5> QED BY <5>1, <5>2, <1>12
      <4>2. ~(q < x.k)
        <5> SUFFICES ASSUME q < x.k PROVE FALSE
          OBVIOUS
        <5>1. f.j * q + r < f.j * x.k /\ f.j * q + r \in Nat
          BY <1>12, HigherDigit
        <5> QED BY <5>1, <4>1, <3>1
      <4>3. q = x.k
        BY <3>4, <4>2, <1>12
      <4>4. b = f.j * x.k + r
        BY <3>1, <4>3
      <4>5. r \in Nat /\ x.j \in Nat /\ x.j < r
        BY <3>2, <3>4, <1>12
      <4> QED BY <4>1, <4>4, <4>5
    <3> QED BY <3>3, <3>4
  <2>2. CASE ~Active(1)
    <3>1. f.j * x.k + x.j < f.j * f.k /\ f.j * f.k \in Nat /\ f.j * x.k + x.j \in Nat
      BY <1>5, <1>12, HigherDigit
    <3> QED BY <1>1, <1>8, <2>2, <3>1
  <2> QED BY <2>1, <2>2
<1> QED BY <1>4, <1>14, <1>15 DEF f, a, b, e, x

(* The preloads that a store waits for have been unrolled before it. *)
LEMMA StoreFed ==
  ASSUME Frame \in Shapes, loop.position \in [1..4 -> Nat], loop.configured, 3 \in loop.started,
         StoreReady, NEW k \in 0..(Frame.k - 1)
  PROVE  LET y == [i |-> Upcoming(4).i, j |-> Upcoming(4).j, k |-> k] IN
         y \in Coordinates(Frame) /\ 2 * FragmentIndex(Frame, y) < loop.position[3]
<1> DEFINE f == Frame
           e == loop.position[3]
           d == loop.position[4]
           c == Upcoming(4)
           x == Fragment(f, e \div 2)
           y == [i |-> c.i, j |-> c.j, k |-> k]
<1>1. e \in Nat /\ d \in Nat
  OBVIOUS
<1>2. f.i \in Nat \ {0} /\ f.j \in Nat \ {0} /\ f.k \in Nat \ {0} /\ k \in Nat /\ k <= f.k - 1
  BY DEF Shapes
<1>3. c.i = d % f.i /\ c.j = d \div f.i
  BY DEF Upcoming, ProgramOf, ProgramCommand, Store
<1>4. d < f.i * f.j
  <2>1. d < ProgramLength(f, 4)
    BY DEF StoreReady, Active, ProgramOf
  <2> QED BY <1>1, <2>1 DEF ProgramLength
<1>5. c.i \in 0..(f.i - 1) /\ c.j \in Nat /\ d = f.i * c.j + c.i
  <2> HIDE DEF f, d
  <2> QED BY <1>1, <1>2, <1>3, DivisionFacts
<1>6. Active(3) <=> e < 2 * f.i * f.j * f.k
  BY DEF Active, ProgramOf, ProgramLength
<1>7. Active(3) => LET u == Upcoming(3) IN u.k + 1 = f.k /\ (u.j > c.j \/ (u.j = c.j /\ u.i > c.i))
  BY DEF StoreReady
<1>8. Upcoming(3).i = x.i /\ Upcoming(3).j = x.j /\ Upcoming(3).k = x.k
  <2>1. Upcoming(3) = IF e % 2 = 0 THEN Preload(x) ELSE Compute(x)
    BY DEF Upcoming, ProgramOf, ProgramCommand
  <2> HIDE DEF x
  <2> QED BY <2>1 DEF Preload, Compute
<1>9. e \div 2 \in Nat /\ 2 * (e \div 2) <= e
  BY <1>1, HalfOf
<1>10. x \in Coordinates(f) /\ FragmentIndex(f, x) = e \div 2
  BY <1>9, IndexOfFragment
<1>11. x.i \in Nat /\ x.j \in Nat /\ x.k \in Nat
  BY <1>2, <1>10 DEF Coordinates
<1>12. FragmentIndex(f, x) = f.i * (f.j * x.k + x.j) + x.i
  BY DEF FragmentIndex
<1> HIDE DEF f, e, d, c, x
<1>13. c.j < f.j
  <2> SUFFICES ASSUME f.j <= c.j PROVE FALSE
    BY <1>2, <1>5
  <2>1. f.i * f.j <= f.i * c.j /\ f.i * f.j \in Nat /\ f.i * c.j \in Nat
    BY <1>2, <1>5, ProductGrows
  <2> QED BY <2>1, <1>4, <1>5, <1>1
<1>14. y \in Coordinates(f)
  BY <1>2, <1>5, <1>13 DEF Coordinates
<1>15. FragmentIndex(f, y) = f.i * (f.j * k + c.j) + c.i
  BY DEF FragmentIndex
<1>16. FragmentIndex(f, y) \in Nat /\ f.j * k + c.j \in Nat
  <2>1. f \in Shapes
    BY DEF f
  <2> QED BY <2>1, <1>14, IndexIsNat
<1>17. f.j * k \in Nat
  BY <1>2, ProductGrows
<1> HIDE DEF y
<1>18. CASE Active(3)
  <2>1. x.k = f.k - 1 /\ (x.j > c.j \/ (x.j = c.j /\ x.i > c.i))
    BY <1>18, <1>7, <1>8, <1>2, <1>11
  <2>2. f.j * k <= f.j * x.k /\ f.j * x.k \in Nat
    BY <2>1, <1>2, <1>11, ProductGrows
  <2>3. f.j * x.k + x.j \in Nat
    BY <2>2, <1>11
  <2>4. CASE x.j > c.j
    <3>1. f.j * k + c.j < f.j * x.k + x.j
      BY <2>2, <2>4, <1>5, <1>11, <1>17
    <3>2. f.i * (f.j * k + c.j) + c.i < f.i * (f.j * x.k + x.j) /\ f.i * (f.j * x.k + x.j) \in Nat
      BY <3>1, <2>3, <1>2, <1>5, <1>16, HigherDigit
    <3>3. FragmentIndex(f, y) < e \div 2
      BY <3>2, <1>10, <1>11, <1>12, <1>15, <1>16
    <3> QED BY <3>3, <1>1, <1>9, <1>14, <1>16 DEF f, e, y, c
  <2>5. CASE x.j = c.j /\ x.i > c.i
    <3>1. f.j * k + c.j <= f.j * x.k + x.j
      BY <2>2, <2>5, <1>5, <1>11, <1>17
    <3>2. /\ f.i * (f.j * k + c.j) <= f.i * (f.j * x.k + x.j)
          /\ f.i * (f.j * k + c.j) \in Nat /\ f.i * (f.j * x.k + x.j) \in Nat
      BY <3>1, <2>3, <1>2, <1>16, ProductGrows
    <3>3. FragmentIndex(f, y) < e \div 2
      BY <3>2, <2>5, <1>5, <1>10, <1>11, <1>12, <1>15
    <3> QED BY <3>3, <1>1, <1>9, <1>14, <1>16 DEF f, e, y, c
  <2> QED BY <2>1, <2>4, <2>5
<1>19. CASE ~Active(3)
  <2>1. f.j * k + c.j < f.j * f.k /\ f.j * f.k \in Nat
    <3>1. k < f.k /\ c.j \in 0..(f.j - 1)
      BY <1>2, <1>5, <1>13
    <3> QED BY <3>1, <1>2, HigherDigit
  <2>2. f.i * (f.j * k + c.j) + c.i < f.i * (f.j * f.k) /\ f.i * (f.j * f.k) \in Nat
    BY <2>1, <1>2, <1>5, <1>16, HigherDigit
  <2>3. 2 * f.i * f.j * f.k = 2 * (f.i * (f.j * f.k))
    <3> DEFINE I == f.i
               J == f.j
               K == f.k
    <3>1. I \in Nat /\ J \in Nat /\ K \in Nat
      BY <1>2
    <3> HIDE DEF I, J, K
    <3>2. 2 * I * J * K = 2 * (I * (J * K))
      BY <3>1
    <3> QED BY <3>2 DEF I, J, K
  <2>4. e >= 2 * (f.i * (f.j * f.k))
    BY <1>19, <1>6, <2>2, <2>3, <1>1
  <2>5. 2 * FragmentIndex(f, y) < e
    BY <2>2, <2>4, <1>1, <1>15, <1>16
  <2> QED BY <2>5, <1>14 DEF f, e, y, c
<1> QED BY <1>18, <1>19

(* The queues of the loop controller move at both ends on an edge. *)
LEMMA FifoEdge ==
  ASSUME NEW T, NEW S \in Seq(T), NEW d \in {0, 1}, d = 1 => S # <<>>,
         NEW add \in Seq(T), Len(add) \in {0, 1},
         NEW R, R = (IF d = 1 THEN Tail(S) ELSE S) \o add
  PROVE  /\ R \in Seq(T)
         /\ Len(R) = Len(S) - d + Len(add) /\ Len(S) - d \in Nat
         /\ \A n \in 1..Len(R) : n \in 1..(Len(S) - d) => R[n] = S[n + d] /\ n + d \in 1..Len(S)
         /\ \A n \in 1..Len(R) : n \notin 1..(Len(S) - d) => n = Len(R) /\ n = Len(S) - d + 1 /\ Len(add) = 1 /\ R[n] = add[1]
<1> DEFINE Q == IF d = 1 THEN Tail(S) ELSE S
<1>1. /\ Q \in Seq(T) /\ Len(Q) = Len(S) - d /\ Len(Q) \in Nat
      /\ \A n \in 1..Len(Q) : Q[n] = S[n + d] /\ n + d \in 1..Len(S)
  <2>1. CASE d = 1
    <3>1. S # <<>>
      BY <2>1
    <3> QED BY <2>1, <3>1
  <2>2. CASE d = 0
    BY <2>2
  <2> QED BY <2>1, <2>2
<1>2. add \in Seq(T) /\ Len(add) \in {0, 1}
  OBVIOUS
<1> HIDE DEF Q
<1>3. R = Q \o add
  BY DEF Q
<1>4. /\ R \in Seq(T) /\ Len(R) = Len(Q) + Len(add)
      /\ \A n \in 1..Len(R) : R[n] = IF n <= Len(Q) THEN Q[n] ELSE add[n - Len(Q)]
  <2>1. Q \in Seq(T)
    BY <1>1
  <2>2. /\ Q \o add \in Seq(T) /\ Len(Q \o add) = Len(Q) + Len(add)
        /\ \A n \in 1..(Len(Q) + Len(add)) : (Q \o add)[n] = IF n <= Len(Q) THEN Q[n] ELSE add[n - Len(Q)]
    BY <2>1, ConcatProperties
  <2> DEFINE W == Q \o add
  <2>3. R = W
    BY <1>3
  <2>4. /\ W \in Seq(T) /\ Len(W) = Len(Q) + Len(add)
        /\ \A n \in 1..Len(W) : W[n] = IF n <= Len(Q) THEN Q[n] ELSE add[n - Len(Q)]
    BY <2>2
  <2> HIDE DEF W
  <2> QED BY <2>3, <2>4
<1>5. ASSUME NEW n \in 1..Len(R), n \in 1..Len(Q)
      PROVE  R[n] = S[n + d] /\ n + d \in 1..Len(S)
  BY <1>1, <1>4, <1>5
<1>6. ASSUME NEW n \in 1..Len(R), n \notin 1..Len(Q)
      PROVE  n = Len(R) /\ n = Len(Q) + 1 /\ Len(add) = 1 /\ R[n] = add[1]
  <2> DEFINE q == Len(Q)
             a == Len(add)
  <2>0. q \in Nat /\ a \in {0, 1} /\ Len(R) = q + a
    BY <1>1, <1>2, <1>4
  <2> HIDE DEF q, a
  <2>1. n \in Nat /\ n > q /\ n <= q + a
    BY <2>0, <1>6 DEF q
  <2>2. a = 1 /\ n = q + 1
    BY <2>0, <2>1
  <2>3. R[n] = add[n - q]
    BY <2>0, <2>1, <1>4 DEF q
  <2>4. n - q = 1
    BY <2>0, <2>2
  <2> QED BY <2>0, <2>2, <2>3, <2>4 DEF q, a
<1> QED BY <1>1, <1>4, <1>5, <1>6

(***************************************************************************)
(* The inductive invariant of the loop controller                          *)
(***************************************************************************)
LoopTypes ==
  /\ works \in Schedules /\ work \in 1..Len(works) /\ frame \in 1..Len(works[work])
  /\ bridge \in [state : {"idle", "sending", "done"}, index : 0..LastInstruction, pending : BOOLEAN,
                 issued : BOOLEAN, saw_busy : BOOLEAN]
  /\ raw \in Seq(0..LastInstruction) /\ loop_input \in Seq(0..LastInstruction)
  /\ loop \in [configured : BOOLEAN, running : BOOLEAN, started : SUBSET Stages, completed : SUBSET Stages,
               position : [1..4 -> Nat], utilized : [Queues -> Nat]]

Quiet ==
  /\ raw = <<>> /\ loop_input = <<>> /\ ~loop.configured
  /\ unrolled = <<>> /\ \A s \in Slots : ~Valid(s)

BridgeAt(state, waiting, sent) ==
  bridge.state = state /\ bridge.pending = waiting /\ bridge.issued = sent

(* Loading the scales, sending the program and waiting for its end follow *)
(* one another, and nothing is left between two frames.                    *)
Working ==
  /\ host = "waiting" /\ scale = "idle"
  /\ BridgeAt("sending", TRUE, FALSE) \/ BridgeAt("idle", FALSE, TRUE)

Handshake ==
  \/ Working
  \/ /\ Quiet /\ BridgeAt("idle", FALSE, FALSE)
     /\ \/ host \in {"accepting", "releasing", "retired"} /\ scale = "idle"
        \/ host = "waiting" /\ scale \in {"loading", "done"}
  \/ Quiet /\ BridgeAt("done", FALSE, TRUE) /\ host = "waiting" /\ scale = "idle"

(* The start of the loop is the last instruction of a frame. *)
InstructionOrder ==
  /\ \A n \in 1..Len(raw) : raw[n] = LastInstruction => n = Len(raw) /\ bridge.issued
  /\ \A n \in 1..Len(loop_input) : loop_input[n] = LastInstruction =>
       n = Len(loop_input) /\ raw = <<>> /\ bridge.issued
  /\ bridge.issued /\ raw # <<>> => raw[Len(raw)] = LastInstruction
  /\ bridge.issued /\ raw = <<>> /\ loop_input # <<>> => loop_input[Len(loop_input)] = LastInstruction

(* The loop controller has started on the current frame. *)
Begun == bridge.issued /\ raw = <<>> /\ loop_input = <<>>

StagesTracked ==
  /\ loop.configured =>
       /\ Begun
       /\ \A s \in loop.completed \ {2} : loop.position[ProgramOf(s)] = ProgramLength(Frame, ProgramOf(s))
       /\ 3 \in loop.started => {0, 1} \subseteq loop.started
       /\ 4 \in loop.started => 3 \in loop.started
  /\ Begun => /\ \A p \in 1..4 : loop.position[p] <= ProgramLength(Frame, p)
              /\ WeightsFed
  /\ Begun /\ ~loop.configured => \A p \in 1..4 : loop.position[p] = ProgramLength(Frame, p)

(* What is in flight was unrolled after what it needs. *)
Flying(c) ==
  ~Config(c) => /\ Begun
                /\ c \in FirstCommands(Frame, loop.position)
                /\ Needs(Frame, c) \subseteq FirstCommands(Frame, loop.position)

FlightOrdered ==
  /\ \A n \in 1..Len(unrolled) :
       /\ Flying(unrolled[n])
       /\ \A m \in 1..Len(unrolled) : unrolled[m] \in Needs(Frame, unrolled[n]) => m < n
  /\ \A s \in Slots : Valid(s) =>
       /\ Flying(station[s].command)
       /\ \A m \in 1..Len(unrolled) : unrolled[m] \notin Needs(Frame, station[s].command)
       /\ \A t \in Slots : Valid(t) /\ station[t].command \in Needs(Frame, station[s].command) => t \in older[s]

LoopInv ==
  /\ StationInv(LoopCommands) /\ LoopTypes /\ Handshake /\ InstructionOrder /\ StagesTracked
  /\ FlightOrdered /\ CreditsExact

----------------------------------------------------------------------------
LEMMA FrameTyped == ASSUME LoopTypes PROVE Frame \in Shapes
<1>1. works \in Seq(Seq(Shapes))
  BY LoopAssumption DEF LoopTypes
<1>2. work \in 1..Len(works) /\ frame \in 1..Len(works[work])
  BY DEF LoopTypes
<1>3. works[work] \in Seq(Shapes)
  BY <1>1, <1>2
<1> QED BY <1>2, <1>3 DEF Frame

(* What a command needs belongs to another queue and conflicts with it. *)
LEMMA NeedsConflict ==
  ASSUME NEW f \in Shapes, NEW p \in 1..4, NEW n \in Nat, NEW d \in Needs(f, ProgramCommand(f, p, n))
  PROVE  Queue(d) # Queue(ProgramCommand(f, p, n)) /\ Conflict(d, ProgramCommand(f, p, n))
<1> DEFINE c == ProgramCommand(f, p, n)
<1>1. CASE p \in {1, 2}
  <2>1. c.kind \in {"LoadA", "LoadB"}
    BY <1>1 DEF ProgramCommand, LoadA, LoadB
  <2> HIDE DEF c
  <2> QED BY <2>1 DEF Needs, c
<1>2. CASE p = 3
  <2> DEFINE x == Fragment(f, n \div 2)
  <2>1. c = Preload(x) \/ c = Compute(x)
    BY <1>2 DEF ProgramCommand
  <2> HIDE DEF c, x
  <2>2. CASE c = Preload(x)
    <3>1. c.kind = "Preload" /\ c.i = x.i /\ c.j = x.j /\ c.k = x.k /\ (x.i = 0 => c.b = {BBlock(x.k, x.j)})
      BY <2>2 DEF Preload
    <3>2. c.i = 0 /\ d = LoadB(x.k, x.j)
      BY <3>1 DEF Needs, c
    <3>3. d.kind = "LoadB" /\ d.a = {BBlock(x.k, x.j)}
      BY <3>2 DEF LoadB
    <3>4. Writes(d) = d.a /\ c.b \subseteq Reads(c)
      BY <3>1, <3>3 DEF Writes, Reads
    <3> QED BY <3>1, <3>2, <3>3, <3>4 DEF Queue, Conflict, Overlaps, c
  <2>3. CASE c = Compute(x)
    <3>1. c.kind = "Compute" /\ c.i = x.i /\ c.j = x.j /\ c.k = x.k /\ c.a = {ABlock(x.i, x.k)}
      BY <2>3 DEF Compute
    <3>2. d = LoadA(x.i, x.k)
      BY <3>1 DEF Needs, c
    <3>3. d.kind = "LoadA" /\ d.a = {ABlock(x.i, x.k)}
      BY <3>2 DEF LoadA
    <3>4. Writes(d) = d.a /\ c.a \subseteq Reads(c)
      BY <3>1, <3>3 DEF Writes, Reads
    <3> QED BY <3>1, <3>3, <3>4 DEF Queue, Conflict, Overlaps, c
  <2> QED BY <2>1, <2>2, <2>3
<1>3. CASE p = 4
  <2> DEFINE i == n % f.i
             j == n \div f.i
  <2>1. c = Store(i, j, f.k - 1)
    BY <1>3 DEF ProgramCommand
  <2> HIDE DEF c, i, j
  <2>2. c.kind = "Store" /\ c.i = i /\ c.j = j /\ c.a = {CBlock(i, j)}
    BY <2>1 DEF Store
  <2>3. PICK k \in 0..(f.k - 1) : d = Preload([i |-> i, j |-> j, k |-> k])
    BY <2>2 DEF Needs, c
  <2>4. d.kind = "Preload" /\ d.a = {CBlock(i, j)}
    BY <2>3 DEF Preload
  <2>5. Writes(d) = d.a /\ Reads(c) = c.a
    BY <2>2, <2>4 DEF Writes, Reads
  <2> QED BY <2>2, <2>4, <2>5 DEF Queue, Conflict, Overlaps, c
<1> QED BY <1>1, <1>2, <1>3

(* What a command generated at this edge is, and what it finds. *)
LEMMA GeneratedFacts ==
  ASSUME LoopInv, Generated # {}
  PROVE  \E p \in 1..4 :
           LET c == ProgramCommand(Frame, p, loop.position[p]) IN
           /\ Generated = {c} /\ loop.configured /\ OutputReady
           /\ loop.position[p] < ProgramLength(Frame, p)
           /\ loop.utilized[Queue(c)] < Entries[Queue(c)]
           /\ Needs(Frame, c) \subseteq FirstCommands(Frame, loop.position)
           /\ p = 3 => LET x == Fragment(Frame, loop.position[3] \div 2) IN
                       /\ x \in Coordinates(Frame) /\ FragmentIndex(Frame, x) = loop.position[3] \div 2
                       /\ Frame.j * x.k + x.j < loop.position[2]
<1> DEFINE f == Frame
           pos == loop.position
<1>1. f \in Shapes /\ pos \in [1..4 -> Nat]
  BY FrameTyped DEF LoopInv, LoopTypes
<1>2. PICK s \in {0, 1, 3, 4} : /\ Generated = {Upcoming(s)} /\ Active(s) /\ OutputReady
                                /\ s \in {0, 1} => Credit(0)
                                /\ s = 3 => ExecuteReady
                                /\ s = 4 => StoreReady
  <2>1. OutputReady /\ Generated = {Upcoming(s) : s \in GeneratingStage}
    BY DEF Generated
  <2>2. CASE StoreReady
    BY <2>1, <2>2 DEF GeneratingStage, StoreReady
  <2>3. CASE ~StoreReady /\ ExecuteReady
    <3>1. GeneratingStage = {3}
      BY <2>3 DEF GeneratingStage
    <3>2. Active(3)
      BY <2>3 DEF ExecuteReady
    <3> QED BY <2>1, <2>3, <3>1, <3>2
  <2>4. CASE ~StoreReady /\ ~ExecuteReady
    <3>1. Credit(0) /\ GeneratingStage = {s \in {0, 1} : Active(s) /\ (s = 1 <=> ChooseB)}
      BY <2>1, <2>4 DEF GeneratingStage
    <3>2. PICK s \in {0, 1} : GeneratingStage = {s} /\ Active(s)
      <4>1. CASE ChooseB
        BY <4>1, <2>1, <3>1
      <4>2. CASE ~ChooseB
        BY <4>2, <2>1, <3>1
      <4> QED BY <4>1, <4>2
    <3> QED BY <2>1, <3>1, <3>2
  <2> QED BY <2>2, <2>3, <2>4
<1> DEFINE p == ProgramOf(s)
           c == ProgramCommand(f, p, pos[p])
<1>3. /\ p \in 1..4 /\ (p \in {1, 2} <=> s \in {0, 1}) /\ (p = 3 <=> s = 3) /\ (p = 4 <=> s = 4)
  BY DEF ProgramOf
<1>4. /\ Generated = {c} /\ loop.configured /\ s \in loop.started /\ pos[p] < ProgramLength(f, p)
  BY <1>2 DEF Upcoming, Active
<1>5. /\ 3 \in loop.started => {0, 1} \subseteq loop.started
      /\ 4 \in loop.started => 3 \in loop.started
      /\ WeightsFed
  BY <1>4 DEF LoopInv, StagesTracked
<1>6. s = 3 => LET x == Fragment(f, pos[3] \div 2) IN
               /\ x \in Coordinates(f) /\ FragmentIndex(f, x) = pos[3] \div 2
               /\ f.i * x.k + x.i < pos[1] /\ f.j * x.k + x.j < pos[2]
  BY <1>1, <1>2, <1>4, <1>5, ExecuteFed
<1>7. /\ p \in {1, 2} => Queue(c) = 0
      /\ p = 3 => Queue(c) = 1
      /\ p = 4 => Queue(c) = 2
  <2> HIDE DEF f, pos
  <2>1. pos[p] \in Nat
    BY <1>1, <1>3
  <2> QED BY <1>1, <1>3, <2>1, CommandTyped
<1>8. loop.utilized[Queue(c)] < Entries[Queue(c)]
  <2>1. s = 3 => Credit(1)
    BY <1>2 DEF ExecuteReady
  <2>2. s = 4 => Credit(2)
    BY <1>2 DEF StoreReady
  <2> HIDE DEF c, p
  <2> QED BY <1>2, <1>3, <1>7, <2>1, <2>2 DEF Credit
<1>9. Needs(f, c) \subseteq FirstCommands(f, pos)
  <2>1. CASE s \in {0, 1}
    <3>1. c.kind \in {"LoadA", "LoadB"}
      BY <1>3, <2>1 DEF ProgramCommand, LoadA, LoadB
    <3>2. Needs(f, c) = {}
      <4> HIDE DEF c, f
      <4> QED BY <3>1 DEF Needs
    <3> QED BY <3>2
  <2>2. CASE s = 3
    <3> DEFINE x == Fragment(f, pos[3] \div 2)
    <3>1. x \in Coordinates(f) /\ f.i * x.k + x.i < pos[1] /\ f.j * x.k + x.j < pos[2]
      BY <1>6, <2>2
    <3>2. c = Preload(x) \/ c = Compute(x)
      BY <1>3, <2>2 DEF ProgramCommand
    <3> HIDE DEF c, x, f, pos
    <3>3. /\ f.i * x.k + x.i \in Nat /\ ProgramCommand(f, 1, f.i * x.k + x.i) = LoadA(x.i, x.k)
          /\ f.j * x.k + x.j \in Nat /\ ProgramCommand(f, 2, f.j * x.k + x.j) = LoadB(x.k, x.j)
      BY <1>1, <3>1, CommandPlaces
    <3>4. f.i * x.k + x.i \in 0..(pos[1] - 1) /\ f.j * x.k + x.j \in 0..(pos[2] - 1)
      BY <1>1, <3>1, <3>3
    <3>5. LoadA(x.i, x.k) \in FirstCommands(f, pos) /\ LoadB(x.k, x.j) \in FirstCommands(f, pos)
      BY <3>3, <3>4, InFirstCommands
    <3>6. Needs(f, c) \subseteq {LoadA(x.i, x.k), LoadB(x.k, x.j)}
      BY <3>2 DEF Needs, Preload, Compute
    <3> QED BY <3>5, <3>6
  <2>3. CASE s = 4
    <3>1. c = Upcoming(4)
      BY <2>3, <1>2, <1>4
    <3>2. c.kind = "Store"
      BY <1>3, <2>3 DEF ProgramCommand, Store
    <3>3. ASSUME NEW k \in 0..(f.k - 1)
          PROVE  Preload([i |-> c.i, j |-> c.j, k |-> k]) \in FirstCommands(f, pos)
      <4> DEFINE y == [i |-> c.i, j |-> c.j, k |-> k]
      <4>1. y \in Coordinates(f) /\ 2 * FragmentIndex(f, y) < pos[3]
        BY <1>1, <1>2, <1>4, <1>5, <2>3, <3>1, StoreFed
      <4> HIDE DEF y, f, pos
      <4>2. 2 * FragmentIndex(f, y) \in Nat /\ ProgramCommand(f, 3, 2 * FragmentIndex(f, y)) = Preload(y)
        BY <1>1, <4>1, CommandPlaces
      <4>3. 2 * FragmentIndex(f, y) \in 0..(pos[3] - 1)
        BY <1>1, <4>1, <4>2
      <4>4. Preload(y) \in FirstCommands(f, pos)
        BY <4>2, <4>3, InFirstCommands
      <4> QED BY <4>4 DEF y
    <3>4. Needs(f, c) = {Preload([i |-> c.i, j |-> c.j, k |-> k]) : k \in 0..(f.k - 1)}
      <4> HIDE DEF c
      <4> QED BY <3>2 DEF Needs
    <3> HIDE DEF c, f, pos
    <3> QED BY <3>3, <3>4
  <2> QED BY <2>1, <2>2, <2>3
<1> HIDE DEF p
<1> USE <1>3
<1> WITNESS p \in 1..4
<1> QED BY <1>2, <1>3, <1>4, <1>6, <1>8, <1>9

LEMMA LoopKinds == \A c \in LoopCommands : c.kind \in Kind
BY DEF LoopCommands

LEMMA SlotsFinite == /\ Slots \subseteq 0..47 /\ IsFiniteSet(Slots) /\ \A T \in SUBSET Slots : IsFiniteSet(T) /\ Cardinality(T) \in Nat
<1>1. Slots \subseteq 0..47
  <2> SUFFICES ASSUME NEW q \in Queues, NEW s \in SlotsOf(q) PROVE s \in 0..47
    BY DEF Slots
  <2>1. PICK i \in 0..(Entries[q] - 1) : s = 16 * q + i
    BY DEF SlotsOf
  <2>2. q \in {0, 1, 2} /\ Entries[q] \in 1..16
    BY StationAssumption DEF Queues
  <2> QED BY <2>1, <2>2
<1>2. IsFiniteSet(0..47)
  <2>1. 0 \in Int /\ 47 \in Int
    OBVIOUS
  <2> QED BY <2>1, FS_Interval
<1>3. \A T : T \subseteq 0..47 => IsFiniteSet(T)
  BY <1>2, FS_Subset
<1>4. \A T : IsFiniteSet(T) => Cardinality(T) \in Nat
  BY FS_CardinalityType
<1> QED BY <1>1, <1>3, <1>4

(* The head of the unrolled queue takes at most one slot. *)
LEMMA OneAllocated == Allocated = {} \/ \E s \in Slots : Allocated = {s}
<1> SUFFICES ASSUME NEW s \in Allocated, NEW t \in Allocated PROVE s = t
  BY AllocatedFree
<1>1. s <= t /\ t <= s
  BY DEF Allocated, FirstOf
<1>2. s \in 0..47 /\ t \in 0..47
  BY AllocatedFree, SlotsFinite
<1> QED BY <1>1, <1>2

(* The commands that use a credit of queue q. *)
Mine(c, q) == Queue(c) = q /\ ~Config(c)
Queued(S, q) == {n \in 1..Len(S) : Mine(S[n], q)}
Holding(q) == {s \in Slots : Valid(s) /\ Mine(station[s].command, q)}
One(b) == IF b THEN 1 ELSE 0

LEMMA QueuedFinite ==
  ASSUME NEW S, Len(S) \in Nat, NEW q
  PROVE  IsFiniteSet(Queued(S, q)) /\ Cardinality(Queued(S, q)) \in Nat
<1>1. IsFiniteSet(1..Len(S))
  BY FS_Interval
<1>2. IsFiniteSet(Queued(S, q))
  BY <1>1, FS_Subset DEF Queued
<1> QED BY <1>2, FS_CardinalityType

LEMMA QueuedTail ==
  ASSUME NEW T, NEW S \in Seq(T), S # <<>>, NEW q
  PROVE  Cardinality(Queued(Tail(S), q)) = Cardinality(Queued(S, q)) - One(Mine(Head(S), q))
<1> DEFINE R == Tail(S)
           A == Queued(R, q)
           B == Queued(S, q) \ {1}
<1>1. /\ Head(S) = S[1] /\ Len(S) \in Nat /\ Len(S) >= 1 /\ Len(R) = Len(S) - 1
      /\ \A n \in 1..Len(R) : R[n] = S[n + 1]
  OBVIOUS
<1> HIDE DEF R
<1>2. Len(R) \in Nat
  BY <1>1
<1>3. IsFiniteSet(A) /\ IsFiniteSet(Queued(S, q)) /\ IsFiniteSet(B)
  <2>1. IsFiniteSet(A) /\ IsFiniteSet(Queued(S, q))
    BY <1>1, <1>2, QueuedFinite
  <2> QED BY <2>1, FS_RemoveElement
<1>4. \A n \in A : n + 1 \in B
  BY <1>1 DEF Queued
<1>5. \A m \in B : m - 1 \in A /\ m \in Int
  <2> SUFFICES ASSUME NEW m \in B PROVE m - 1 \in A /\ m \in Int
    OBVIOUS
  <2>1. m \in 2..Len(S) /\ Mine(S[m], q)
    BY <1>1 DEF Queued
  <2>2. m - 1 \in 1..Len(R) /\ (m - 1) + 1 = m
    BY <1>1, <2>1
  <2>3. R[m - 1] = S[m]
    BY <1>1, <2>2
  <2> QED BY <2>1, <2>2, <2>3 DEF Queued
<1> DEFINE g == [n \in A |-> n + 1]
<1>6. A \subseteq Int
  BY DEF Queued
<1> HIDE DEF A, B
<1>7. g \in Bijection(A, B)
  <2>1. g \in [A -> B]
    BY <1>4
  <2>2. \A a, b \in A : g[a] = g[b] => a = b
    BY <1>6
  <2>3. \A m \in B : \E n \in A : g[n] = m
    <3> SUFFICES ASSUME NEW m \in B PROVE \E n \in A : g[n] = m
      OBVIOUS
    <3>1. m - 1 \in A /\ g[m - 1] = m
      BY <1>5
    <3> QED BY <3>1
  <2> QED BY <2>1, <2>2, <2>3 DEF Bijection, Injection, IsInjective, Surjection
<1>8. Cardinality(A) = Cardinality(B)
  BY <1>3, <1>7, FS_Bijection DEF ExistsBijection
<1>9. Cardinality(B) = Cardinality(Queued(S, q)) - One(1 \in Queued(S, q))
  <2>1. Cardinality(Queued(S, q)) \in Nat
    BY <1>1, QueuedFinite
  <2>2. Cardinality(B) = IF 1 \in Queued(S, q) THEN Cardinality(Queued(S, q)) - 1 ELSE Cardinality(Queued(S, q))
    BY <1>3, FS_RemoveElement DEF B
  <2> QED BY <2>1, <2>2 DEF One
<1>10. 1 \in Queued(S, q) <=> Mine(Head(S), q)
  BY <1>1 DEF Queued
<1> QED BY <1>8, <1>9, <1>10 DEF A, R, One

LEMMA QueuedAppend ==
  ASSUME NEW T, NEW S \in Seq(T), NEW c \in T, NEW q
  PROVE  Cardinality(Queued(S \o <<c>>, q)) = Cardinality(Queued(S, q)) + One(Mine(c, q))
<1> DEFINE R == S \o <<c>>
           N == Len(S)
<1>1. /\ N \in Nat /\ Len(R) = N + 1 /\ R[N + 1] = c
      /\ \A n \in 1..N : R[n] = S[n]
  OBVIOUS
<1> HIDE DEF R, N
<1>2. Queued(R, q) = IF Mine(c, q) THEN Queued(S, q) \cup {N + 1} ELSE Queued(S, q)
  <2>1. \A n : n \in 1..(N + 1) <=> n \in 1..N \/ n = N + 1
    BY <1>1
  <2>2. Queued(S, q) = {n \in 1..N : Mine(S[n], q)} /\ Queued(R, q) = {n \in 1..(N + 1) : Mine(R[n], q)}
    BY <1>1 DEF Queued, N
  <2> QED BY <2>1, <2>2, <1>1
<1>3. N + 1 \notin Queued(S, q)
  BY <1>1 DEF Queued, N
<1>4. IsFiniteSet(Queued(S, q)) /\ Cardinality(Queued(S, q)) \in Nat
  BY <1>1, QueuedFinite DEF N
<1>5. Cardinality(Queued(S, q) \cup {N + 1}) = Cardinality(Queued(S, q)) + 1
  BY <1>3, <1>4, FS_AddElement
<1>6. Cardinality(Queued(R, q)) = Cardinality(Queued(S, q)) + One(Mine(c, q))
  <2>1. CASE Mine(c, q)
    BY <2>1, <1>2, <1>5 DEF One
  <2>2. CASE ~Mine(c, q)
    BY <2>2, <1>2, <1>4 DEF One
  <2> QED BY <2>1, <2>2
<1> QED BY <1>6 DEF R

(* Configuration sent on, and commands generated. *)
LEMMA ForwardedFacts ==
  ASSUME LoopInv
  PROVE  \/ Forwarded = {}
         \/ /\ Generated = {} /\ InputPops
            /\ \E c \in LoopCommands : Forwarded = {c} /\ Config(c)
<1> SUFFICES ASSUME Forwarded # {} PROVE Generated = {} /\ InputPops /\ \E c \in LoopCommands : Forwarded = {c} /\ Config(c)
  OBVIOUS
<1> DEFINE n == Head(loop_input)
           c == ConfigCommand(InstructionKind(n))
<1>1. InputPops /\ InstructionKind(n) # "LoopControl" /\ Forwarded = {c}
  BY DEF Forwarded
<1>2. loop_input # <<>> /\ Generated = {}
  BY <1>1 DEF InputPops
<1>3. n \in 0..LastInstruction
  <2>1. loop_input \in Seq(0..LastInstruction)
    BY DEF LoopInv, LoopTypes
  <2>2. Head(loop_input) \in 0..LastInstruction
    BY <1>2, <2>1, HeadTailProperties
  <2> QED BY <2>2
<1> HIDE DEF n
<1>4. InstructionKind(n) \in {"LoadConfig", "StoreConfig", "ExecuteConfig"}
  BY <1>1, <1>3 DEF InstructionKind, LastInstruction
<1>5. c \in LoopCommands /\ Config(c)
  BY <1>4 DEF ConfigCommand, Config, LoopCommands, Kind
<1> QED BY <1>1, <1>2, <1>5

LEMMA SentFacts ==
  ASSUME LoopInv, NEW pushed \in Pushes(Generated \cup Forwarded)
  PROVE  /\ \/ pushed = <<>> /\ Generated = {} /\ Forwarded = {}
            \/ \E c \in LoopCommands : pushed = <<c>> /\ Generated = {c} /\ ~Config(c) /\ Forwarded = {}
            \/ \E c \in LoopCommands : pushed = <<c>> /\ Generated = {} /\ Config(c) /\ Forwarded = {c}
         /\ pushed \in Seq(LoopCommands)
<1>1. CASE Generated # {}
  <2>1. PICK p \in 1..4 : Generated = {ProgramCommand(Frame, p, loop.position[p])} /\ loop.configured
    BY <1>1, GeneratedFacts
  <2>2. Forwarded = {}
    BY <1>1, ForwardedFacts
  <2>3. loop.position[p] \in Nat
    BY DEF LoopInv, LoopTypes
  <2>4. Frame \in Shapes
    BY FrameTyped DEF LoopInv
  <2> DEFINE c == ProgramCommand(Frame, p, loop.position[p])
  <2>5. c \in LoopCommands /\ ~Config(c)
    BY <2>3, <2>4, CommandTyped
  <2> HIDE DEF c
  <2>6. pushed = <<c>>
    BY <2>1, <2>2 DEF Pushes, c
  <2>7. <<c>> \in Seq(LoopCommands)
    BY <2>5
  <2> QED BY <2>1, <2>2, <2>5, <2>6, <2>7 DEF c
<1>2. CASE Generated = {} /\ Forwarded # {}
  <2>1. PICK c \in LoopCommands : Forwarded = {c} /\ Config(c)
    BY <1>2, ForwardedFacts
  <2>2. pushed = <<c>>
    BY <1>2, <2>1 DEF Pushes
  <2>3. <<c>> \in Seq(LoopCommands)
    OBVIOUS
  <2> QED BY <1>2, <2>1, <2>2, <2>3
<1>3. CASE Generated = {} /\ Forwarded = {}
  <2>1. pushed = <<>>
    BY <1>3 DEF Pushes
  <2> QED BY <1>3, <2>1
<1> QED BY <1>1, <1>2, <1>3

(* Engine::reservation keeps its invariant under the loop controller. *)
LEMMA StationKept ==
  ASSUME LoopInv, NEW done \in Completions, NEW issued \in SUBSET Issuable, NEW busy, NEW loaded,
         Edge(done, issued, busy, loaded)
  PROVE  StationInv(LoopCommands)'
<1>1. PICK pushed \in Pushes(Generated \cup Forwarded) : StationEdge(done, issued, pushed)
  BY DEF Edge
<1>2. pushed \in Seq(LoopCommands)
  BY <1>1, SentFacts
<1> QED BY <1>1, <1>2, LoopKinds, EdgePreserves DEF LoopInv

(* Without anything in flight, and no instruction sent, nothing starts. *)
LEMMA QuietStays ==
  ASSUME LoopInv, Quiet, bridge.state # "sending",
         NEW done \in Completions, NEW issued \in SUBSET Issuable, NEW busy, NEW loaded,
         Edge(done, issued, busy, loaded)
  PROVE  Quiet'
<1>1. PICK pushed \in Pushes(Generated \cup Forwarded) : StationEdge(done, issued, pushed)
  BY DEF Edge
<1>2. Generated = {}
  BY GeneratedFacts DEF Quiet
<1>3. ~InputPops
  BY DEF Quiet, InputPops
<1>4. pushed = <<>>
  <2>1. Forwarded = {}
    BY <1>3 DEF Forwarded
  <2> QED BY <1>1, <1>2, <2>1 DEF Pushes
<1>5. Allocated = {} /\ unrolled' = <<>>
  <2>1. Allocated = {}
    BY DEF Allocated, Quiet
  <2>2. unrolled' = unrolled \o <<>>
    BY <1>1, <1>4, <2>1 DEF StationEdge
  <2> QED BY <2>1, <2>2 DEF Quiet
<1>6. \A s \in Slots : ~Valid(s)'
  <2>1. Kept(done, issued) = {}
    BY DEF Kept, Quiet
  <2> QED BY <1>1, <1>5, <2>1, EdgeEffect DEF LoopInv
<1>7. ~loop'.configured
  <2>1. ~LoopEdge(done, Generated).configured
    BY <1>3 DEF LoopEdge, Quiet
  <2>2. ~IdleLoop.configured
    BY DEF IdleLoop
  <2>3. loop' = IdleLoop \/ loop' = LoopEdge(done, Generated)
    BY DEF Edge
  <2> QED BY <2>1, <2>2, <2>3
<1>8. loop_input' = <<>>
  <2>1. loop_input' = loop_input \o <<>>
    BY <1>3 DEF Edge, Quiet
  <2> QED BY <2>1 DEF Quiet
<1>9. raw' = <<>>
  <2>1. ~SendsInstruction
    BY DEF SendsInstruction
  <2>2. raw' = raw \o <<>>
    BY <2>1 DEF Edge, Quiet
  <2> QED BY <2>2 DEF Quiet
<1> QED BY <1>5, <1>6, <1>7, <1>8, <1>9 DEF Quiet

CreditsAt(q) ==
  /\ loop.utilized[q] = Cardinality(Queued(unrolled, q)) + Cardinality(Holding(q))
  /\ loop.utilized[q] <= Entries[q]

LEMMA CreditsByQueue == CreditsExact <=> \A q \in Queues : CreditsAt(q)
BY DEF CreditsExact, CreditsAt, Queued, Holding, Mine

LEMMA CreditsByQueueNext == CreditsExact' <=> \A q \in Queues : CreditsAt(q)'
BY DEF CreditsExact, CreditsAt, Queued, Holding, Mine

(* The unrolled queue gives up its head when that gets a slot and takes    *)
(* what is pushed.                                                         *)
LEMMA QueuedEdge ==
  ASSUME LoopInv, NEW done \in Completions, NEW issued \in SUBSET Issuable, NEW q \in Queues,
         NEW pushed \in Pushes(Generated \cup Forwarded), StationEdge(done, issued, pushed)
  PROVE  Cardinality(Queued(unrolled, q)') =
           Cardinality(Queued(unrolled, q)) - One(Allocated # {} /\ Mine(Head(unrolled), q))
             + Cardinality({c \in Generated : Queue(c) = q})
<1> DEFINE rest == IF Allocated = {} THEN unrolled ELSE Tail(unrolled)
           G == {c \in Generated : Queue(c) = q}
<1>1. unrolled \in Seq(LoopCommands)
  BY DEF LoopInv, StationInv, StationTypeOK
<1>2. Allocated # {} => unrolled # <<>>
  BY AllocatedFree
<1>3. rest \in Seq(LoopCommands)
  BY <1>1, <1>2
<1>4. unrolled' = rest \o pushed
  BY DEF StationEdge
<1>5. Cardinality(Queued(rest, q)) = Cardinality(Queued(unrolled, q)) - One(Allocated # {} /\ Mine(Head(unrolled), q))
  <2>1. CASE Allocated = {}
    <3>1. Cardinality(Queued(unrolled, q)) \in Nat
      <4>1. Len(unrolled) \in Nat
        BY <1>1
      <4> QED BY <4>1, QueuedFinite
    <3> QED BY <2>1, <3>1 DEF One
  <2>2. CASE Allocated # {}
    <3>1. Cardinality(Queued(Tail(unrolled), q)) = Cardinality(Queued(unrolled, q)) - One(Mine(Head(unrolled), q))
      BY <1>1, <1>2, <2>2, QueuedTail
    <3> QED BY <2>2, <3>1 DEF One
  <2> QED BY <2>1, <2>2
<1>6. Cardinality(Queued(rest, q)) \in Nat
  <2>1. Len(rest) \in Nat
    BY <1>3
  <2> HIDE DEF rest
  <2> QED BY <2>1, QueuedFinite
<1>7. Queued(unrolled, q)' = Queued(rest \o pushed, q)
  BY <1>4 DEF Queued
<1>8. Cardinality(Queued(rest \o pushed, q)) = Cardinality(Queued(rest, q)) + Cardinality(G)
  <2> HIDE DEF rest
  <2>1. CASE pushed = <<>> /\ Generated = {}
    <3>1. rest \o pushed = rest
      BY <1>3, <2>1
    <3>2. G = {}
      BY <2>1
    <3>3. Cardinality(G) = 0
      BY <3>2, FS_EmptySet
    <3> QED BY <1>6, <3>1, <3>3
  <2>2. ASSUME NEW c \in LoopCommands, pushed = <<c>>, Generated = {c}, ~Config(c)
        PROVE  Cardinality(Queued(rest \o pushed, q)) = Cardinality(Queued(rest, q)) + Cardinality(G)
    <3>1. Cardinality(Queued(rest \o pushed, q)) = Cardinality(Queued(rest, q)) + One(Mine(c, q))
      BY <1>3, <2>2, QueuedAppend
    <3>2. G = IF Mine(c, q) THEN {c} ELSE {}
      BY <2>2 DEF Mine
    <3>3. Cardinality(G) = One(Mine(c, q))
      BY <3>2, FS_EmptySet, FS_Singleton DEF One
    <3> QED BY <3>1, <3>3
  <2>3. ASSUME NEW c \in LoopCommands, pushed = <<c>>, Generated = {}, Config(c)
        PROVE  Cardinality(Queued(rest \o pushed, q)) = Cardinality(Queued(rest, q)) + Cardinality(G)
    <3>1. Cardinality(Queued(rest \o pushed, q)) = Cardinality(Queued(rest, q)) + One(Mine(c, q))
      BY <1>3, <2>3, QueuedAppend
    <3>2. One(Mine(c, q)) = 0 /\ G = {}
      BY <2>3 DEF Mine, One
    <3>3. Cardinality(G) = 0
      BY <3>2, FS_EmptySet
    <3> QED BY <3>1, <3>2, <3>3
  <2> QED BY <2>1, <2>2, <2>3, SentFacts
<1> HIDE DEF rest, G
<1> QED BY <1>5, <1>7, <1>8 DEF G

(* The credits that come back at an edge. *)
Back(done, q) == {s \in done : Mine(station[s].command, q)}

LEMMA HoldingEdge ==
  ASSUME LoopInv, NEW done \in Completions, NEW issued \in SUBSET Issuable, NEW q \in Queues,
         NEW pushed, StationEdge(done, issued, pushed)
  PROVE  /\ Cardinality(Holding(q)') =
              Cardinality(Holding(q)) - Cardinality(Back(done, q)) + One(Allocated # {} /\ Mine(Head(unrolled), q))
         /\ Cardinality(Holding(q)) \in Nat /\ Cardinality(Back(done, q)) \in Nat
         /\ Cardinality(Back(done, q)) <= Cardinality(Holding(q))
<1> DEFINE new == {s \in Allocated : Mine(Head(unrolled), q)}
           H == Holding(q)
           B == Back(done, q)
<1>1. done \subseteq {s \in Slots : Valid(s)}
  BY DEF Completions, Completable, Issued
<1>2. B \subseteq H /\ H \subseteq Slots
  BY <1>1 DEF Back, Holding
<1>3. Holding(q)' \subseteq Slots
  BY DEF Holding
<1>4. ASSUME NEW s \in Slots PROVE s \in Holding(q)' <=> s \in (H \ B) \cup new
  <2>1. s \in Holding(q)' <=> Valid(s)' /\ Mine(station'[s].command, q)
    BY DEF Holding, Mine, Queue, Config
  <2>2. CASE s \in Kept(done, issued)
    <3>1. Valid(s) /\ Valid(s)' /\ station'[s].command = station[s].command /\ s \notin Freed(done, issued) /\ s \notin Allocated
      BY <2>2, KeptEffect DEF LoopInv
    <3>2. s \notin B /\ s \notin new
      BY <3>1 DEF Freed, Back
    <3>3. s \in H <=> Mine(station[s].command, q)
      BY <3>1 DEF Holding
    <3> QED BY <2>1, <3>1, <3>2, <3>3
  <2>3. CASE s \in Allocated
    <3>1. Valid(s)' /\ station'[s].command = Head(unrolled)
      BY <2>3, AllocatedEffect DEF LoopInv
    <3>2. ~Valid(s)
      BY <2>3, AllocatedFree
    <3>3. s \notin H
      BY <3>2 DEF Holding
    <3> QED BY <2>1, <2>3, <3>1, <3>3
  <2>4. CASE s \notin Kept(done, issued) /\ s \notin Allocated
    <3>1. ~Valid(s)'
      BY <2>4, EdgeEffect DEF LoopInv
    <3>2. s \in H => s \in B
      <4> SUFFICES ASSUME s \in H PROVE s \in B
        OBVIOUS
      <4>1. Valid(s) /\ Mine(station[s].command, q)
        BY DEF Holding
      <4>2. s \in Freed(done, issued)
        BY <2>4, <4>1 DEF Kept
      <4>3. ~RetiredAtIssue(s)
        BY <4>1 DEF RetiredAtIssue, Mine
      <4> QED BY <4>1, <4>2, <4>3 DEF Freed, Back
    <3> QED BY <2>1, <2>4, <3>1, <3>2
  <2> QED BY <2>2, <2>3, <2>4
<1>5. Holding(q)' = (H \ B) \cup new
  <2>1. new \subseteq Slots
    BY AllocatedFree
  <2> HIDE DEF new
  <2> QED BY <1>2, <1>3, <1>4, <2>1
<1>6. IsFiniteSet(H) /\ IsFiniteSet(B) /\ IsFiniteSet(H \ B) /\ Cardinality(H) \in Nat /\ Cardinality(B) \in Nat
  BY <1>2, SlotsFinite
<1>7a. Cardinality(H \ B) \in Nat
  BY <1>6, FS_CardinalityType
<1>7. Cardinality(H \ B) = Cardinality(H) - Cardinality(B)
  <2>1. H \cap B = B
    BY <1>2
  <2>2. Cardinality(H \ B) = Cardinality(H) - Cardinality(H \cap B)
    BY <1>6, FS_Difference
  <2> QED BY <2>1, <2>2
<1>8. Cardinality(B) <= Cardinality(H)
  BY <1>2, <1>6, FS_Subset
<1>9. Cardinality((H \ B) \cup new) = Cardinality(H \ B) + One(Allocated # {} /\ Mine(Head(unrolled), q))
  <2>1. CASE Allocated = {} \/ ~Mine(Head(unrolled), q)
    <3>1. new = {}
      BY <2>1
    <3>2. (H \ B) \cup new = H \ B
      BY <3>1
    <3>3. One(Allocated # {} /\ Mine(Head(unrolled), q)) = 0
      BY <2>1 DEF One
    <3>4. Cardinality((H \ B) \cup new) = Cardinality(H \ B)
      BY <3>2
    <3> HIDE DEF new, H, B
    <3> QED BY <1>7a, <3>3, <3>4
  <2>2. CASE Allocated # {} /\ Mine(Head(unrolled), q)
    <3>1. PICK s \in Slots : Allocated = {s}
      BY <2>2, OneAllocated
    <3>2. new = {s} /\ s \notin H
      BY <2>2, <3>1, AllocatedFree DEF Holding
    <3> HIDE DEF new, H, B
    <3>3. Cardinality((H \ B) \cup {s}) = Cardinality(H \ B) + 1
      BY <1>6, <3>2, FS_AddElement
    <3> QED BY <2>2, <3>2, <3>3 DEF One
  <2> QED BY <2>1, <2>2
<1> HIDE DEF new, H, B
<1> QED BY <1>5, <1>6, <1>7, <1>8, <1>9 DEF H, B

(* A frame is given up only when nothing is in flight. *)
LEMMA ReleasedQuiet ==
  ASSUME LoopInv, host # "waiting"
  PROVE  Quiet /\ BridgeAt("idle", FALSE, FALSE) /\ scale = "idle"
BY DEF LoopInv, Handshake, Working

LEMMA CreditsEdge ==
  ASSUME LoopInv, NEW done \in Completions, NEW issued \in SUBSET Issuable, NEW busy, NEW loaded,
         Edge(done, issued, busy, loaded)
  PROVE  /\ loop'.utilized \in [Queues -> Nat]
         /\ CreditsExact'
<1>1. PICK pushed \in Pushes(Generated \cup Forwarded) : StationEdge(done, issued, pushed)
  BY DEF Edge
<1>2. CASE ReleaseEnds /\ ~LastFrame
  <2>1. loop' = IdleLoop
    BY <1>2 DEF Edge
  <2>2. loop'.utilized = [q \in Queues |-> 0]
    BY <2>1 DEF IdleLoop
  <2>3. Quiet'
    <3>1. Quiet /\ bridge.state # "sending"
      BY <1>2, ReleasedQuiet DEF ReleaseEnds, BridgeAt
    <3> QED BY <3>1, QuietStays
  <2>4. ASSUME NEW q \in Queues PROVE CreditsAt(q)'
    <3>1. Queued(unrolled, q)' = {}
      <4>1. unrolled' = <<>>
        BY <2>3 DEF Quiet
      <4> QED BY <4>1 DEF Queued
    <3>2. Holding(q)' = {}
      BY <2>3 DEF Quiet, Holding
    <3>3. Cardinality(Queued(unrolled, q)') = 0 /\ Cardinality(Holding(q)') = 0
      BY <3>1, <3>2, FS_EmptySet
    <3>4. loop'.utilized[q] = 0 /\ Entries[q] \in 1..16
      BY <2>2, StationAssumption
    <3> QED BY <3>3, <3>4 DEF CreditsAt
  <2>5. CreditsExact'
    BY <2>4, CreditsByQueueNext
  <2> QED BY <2>2, <2>5
<1>3. CASE ~(ReleaseEnds /\ ~LastFrame)
  <2>1. loop' = LoopEdge(done, Generated)
    BY <1>3 DEF Edge
  <2> DEFINE U(q) == loop.utilized[q] + Cardinality({c \in Generated : Queue(c) = q}) - Cardinality(Back(done, q))
  <2>2. loop'.utilized = [q \in Queues |-> U(q)]
    <3>1. ASSUME NEW q PROVE {s \in {t \in done : ~Config(station[t].command)} : Queue(station[s].command) = q} = Back(done, q)
      BY DEF Back, Mine
    <3> QED BY <2>1, <3>1 DEF LoopEdge
  <2>3. ASSUME NEW q \in Queues PROVE U(q) \in Nat /\ CreditsAt(q)'
    <3> DEFINE g == Cardinality({c \in Generated : Queue(c) = q})
               b == Cardinality(Back(done, q))
               h == Cardinality(Holding(q))
               n == Cardinality(Queued(unrolled, q))
               o == One(Allocated # {} /\ Mine(Head(unrolled), q))
    <3>1. Cardinality(Queued(unrolled, q)') = n - o + g
      BY <1>1, QueuedEdge
    <3>2. Cardinality(Holding(q)') = h - b + o /\ h \in Nat /\ b \in Nat /\ b <= h
      BY <1>1, HoldingEdge
    <3>3. loop.utilized[q] = n + h /\ loop.utilized[q] <= Entries[q]
      BY CreditsByQueue DEF LoopInv, CreditsAt
    <3>4. n \in Nat /\ o \in {0, 1}
      <4>1. Len(unrolled) \in Nat
        BY DEF LoopInv, StationInv, StationTypeOK
      <4> QED BY <4>1, QueuedFinite DEF One
    <3>5. g = 0 \/ (g = 1 /\ loop.utilized[q] < Entries[q])
      <4>1. CASE Generated = {}
        <5>1. {c \in Generated : Queue(c) = q} = {}
          BY <4>1
        <5> QED BY <5>1, FS_EmptySet
      <4>2. CASE Generated # {}
        <5>1. PICK p \in 1..4 : LET c == ProgramCommand(Frame, p, loop.position[p]) IN
                 Generated = {c} /\ loop.utilized[Queue(c)] < Entries[Queue(c)]
          BY <4>2, GeneratedFacts
        <5> DEFINE c == ProgramCommand(Frame, p, loop.position[p])
        <5>2. Generated = {c} /\ loop.utilized[Queue(c)] < Entries[Queue(c)]
          BY <5>1
        <5> HIDE DEF c
        <5>3. CASE Queue(c) = q
          <6>1. {d \in Generated : Queue(d) = q} = {c}
            BY <5>2, <5>3
          <6> QED BY <5>2, <5>3, <6>1, FS_Singleton
        <5>4. CASE Queue(c) # q
          <6>1. {d \in Generated : Queue(d) = q} = {}
            BY <5>2, <5>4
          <6> QED BY <6>1, FS_EmptySet
        <5> QED BY <5>3, <5>4
      <4> QED BY <4>1, <4>2
    <3>6. Entries[q] \in Nat
      BY StationAssumption
    <3>7. loop'.utilized[q] = U(q)
      BY <2>2
    <3>8. U(q) = loop.utilized[q] + g - b
      OBVIOUS
    <3> HIDE DEF U, g, b, h, n, o
    <3>9. U(q) \in Nat /\ U(q) = (n - o + g) + (h - b + o) /\ U(q) <= Entries[q]
      BY <3>2, <3>3, <3>4, <3>5, <3>6, <3>8
    <3> QED BY <3>1, <3>2, <3>7, <3>9 DEF CreditsAt
  <2>4. CreditsExact'
    BY <2>3, CreditsByQueueNext
  <2> HIDE DEF U
  <2> QED BY <2>2, <2>3, <2>4
<1> QED BY <1>2, <1>3

(* The bridge at an edge, by what it is doing. *)
LEMMA BridgeEffect ==
  ASSUME LoopTypes, NEW busy \in BOOLEAN, bridge' = BridgeEdge(busy)
  PROVE  /\ bridge' \in [state : {"idle", "sending", "done"}, index : 0..LastInstruction, pending : BOOLEAN,
                         issued : BOOLEAN, saw_busy : BOOLEAN]
         /\ BridgeAt("idle", FALSE, FALSE) =>
              IF scale = "done" THEN BridgeAt("sending", TRUE, FALSE)' ELSE BridgeAt("idle", FALSE, FALSE)'
         /\ BridgeAt("idle", FALSE, TRUE) /\ scale # "done" =>
              BridgeAt("idle", FALSE, TRUE)' \/ (BridgeAt("done", FALSE, TRUE)' /\ ~busy)
         /\ BridgeAt("sending", TRUE, FALSE) =>
              IF SendsInstruction /\ bridge.index = LastInstruction
              THEN BridgeAt("idle", FALSE, TRUE)' ELSE BridgeAt("sending", TRUE, FALSE)'
         /\ BridgeAt("done", FALSE, TRUE) => BridgeAt("idle", FALSE, FALSE)'
<1> DEFINE B == [state : {"idle", "sending", "done"}, index : 0..LastInstruction, pending : BOOLEAN,
                 issued : BOOLEAN, saw_busy : BOOLEAN]
           b == [bridge EXCEPT !.saw_busy = @ \/ (busy /\ bridge.issued)]
<1>1. bridge \in B /\ LastInstruction \in Nat
  BY DEF LoopTypes, LastInstruction
<1>2. /\ b \in B /\ b.state = bridge.state /\ b.index = bridge.index /\ b.pending = bridge.pending
      /\ b.issued = bridge.issued
  BY <1>1
<1>3. bridge' =
        IF bridge.state = "idle"
        THEN IF bridge.pending \/ (scale = "done" /\ ~bridge.issued)
             THEN [b EXCEPT !.state = "sending", !.index = 0, !.pending = TRUE]
             ELSE [b EXCEPT !.state = IF bridge.issued /\ bridge.saw_busy /\ ~busy THEN "done" ELSE "idle",
                            !.pending = scale = "done"]
        ELSE IF SendsInstruction
        THEN IF bridge.index = LastInstruction
             THEN [b EXCEPT !.state = "idle", !.pending = FALSE, !.issued = TRUE, !.saw_busy = @ /\ busy]
             ELSE [b EXCEPT !.index = @ + 1]
        ELSE IF bridge.state = "done"
        THEN [b EXCEPT !.state = "idle", !.issued = FALSE, !.saw_busy = FALSE]
        ELSE b
  BY DEF BridgeEdge
<1> HIDE DEF b
<1>4. CASE bridge.state = "idle"
  <2>1. CASE bridge.pending \/ (scale = "done" /\ ~bridge.issued)
    <3>1. bridge' = [b EXCEPT !.state = "sending", !.index = 0, !.pending = TRUE]
      BY <1>3, <1>4, <2>1
    <3>2. /\ bridge' \in B /\ bridge'.state = "sending" /\ bridge'.pending = TRUE
          /\ bridge'.issued = bridge.issued
      <4>1. 0 \in 0..LastInstruction
        BY <1>1
      <4> QED BY <1>2, <3>1, <4>1
    <3> QED BY <1>1, <1>4, <2>1, <3>2 DEF BridgeAt
  <2>2. CASE ~(bridge.pending \/ (scale = "done" /\ ~bridge.issued))
    <3>1. bridge' = [b EXCEPT !.state = IF bridge.issued /\ bridge.saw_busy /\ ~busy THEN "done" ELSE "idle",
                              !.pending = scale = "done"]
      BY <1>3, <1>4, <2>2
    <3>2. bridge' \in B /\ bridge'.issued = bridge.issued /\ bridge'.pending = (scale = "done")
          /\ (bridge'.state = "idle" \/ (bridge'.state = "done" /\ bridge.issued /\ ~busy))
      BY <1>1, <1>2, <3>1
    <3> QED BY <1>1, <1>4, <2>2, <3>2 DEF BridgeAt
  <2> QED BY <2>1, <2>2
<1>5. CASE bridge.state = "sending"
  <2>1. CASE SendsInstruction /\ bridge.index = LastInstruction
    <3>1. bridge' = [b EXCEPT !.state = "idle", !.pending = FALSE, !.issued = TRUE, !.saw_busy = @ /\ busy]
      BY <1>3, <1>5, <2>1
    <3> QED BY <1>1, <1>2, <1>5, <2>1, <3>1 DEF BridgeAt
  <2>2. CASE SendsInstruction /\ bridge.index # LastInstruction
    <3>1. bridge' = [b EXCEPT !.index = @ + 1]
      BY <1>3, <1>5, <2>2
    <3>2. b.index + 1 \in 0..LastInstruction
      BY <1>1, <1>2, <2>2
    <3> QED BY <1>1, <1>2, <1>5, <2>2, <3>1, <3>2 DEF BridgeAt
  <2>3. CASE ~SendsInstruction
    <3>1. bridge' = b
      BY <1>3, <1>5, <2>3
    <3> QED BY <1>1, <1>2, <1>5, <2>3, <3>1 DEF BridgeAt
  <2> QED BY <2>1, <2>2, <2>3
<1>6. CASE bridge.state = "done"
  <2>1. ~SendsInstruction
    BY <1>6 DEF SendsInstruction
  <2>2. bridge' = [b EXCEPT !.state = "idle", !.issued = FALSE, !.saw_busy = FALSE]
    BY <1>3, <1>6, <2>1
  <2> QED BY <1>1, <1>2, <1>6, <2>2 DEF BridgeAt
<1> QED BY <1>1, <1>4, <1>5, <1>6

LEMMA BusyBoolean == \A busy \in BusyValues : busy \in BOOLEAN /\ (~busy => ~KnownBusy)
BY DEF BusyValues

(* The phase of the frame after an edge. *)
LEMMA HandshakeEdge ==
  ASSUME LoopInv, NEW done \in Completions, NEW issued \in SUBSET Issuable,
         NEW busy \in BusyValues, NEW loaded \in LoadedValues, Edge(done, issued, busy, loaded)
  PROVE  Handshake'
<1>1. /\ busy \in BOOLEAN /\ (~busy => ~KnownBusy) /\ LoopTypes
      /\ bridge' = BridgeEdge(busy)
  BY BusyBoolean DEF Edge, LoopInv
<1>2. /\ scale' = CASE scale = "idle" -> IF host = "accepting" THEN "loading" ELSE "idle"
                    [] scale = "loading" -> IF loaded THEN "done" ELSE "loading"
                    [] scale = "done" -> "idle"
      /\ host' = IF bridge.state = "done" THEN "releasing"
                 ELSE IF host = "accepting" /\ scale = "idle" THEN "waiting"
                 ELSE IF ReleaseEnds THEN (IF LastFrame THEN "retired" ELSE "accepting")
                 ELSE host
      /\ host # "retired"
  BY DEF Edge
<1>3. CASE Working
  <2>1. scale' = "idle" /\ host' = "waiting" /\ scale # "done" /\ bridge.state # "done"
    <3>1. bridge.state # "done" /\ host = "waiting" /\ scale = "idle"
      BY <1>3 DEF Working, BridgeAt
    <3> QED BY <1>2, <3>1 DEF ReleaseEnds
  <2>2. CASE BridgeAt("sending", TRUE, FALSE)
    BY <1>1, <2>1, <2>2, BridgeEffect DEF Handshake, Working
  <2>3. CASE BridgeAt("idle", FALSE, TRUE)
    <3>1. CASE BridgeAt("idle", FALSE, TRUE)'
      BY <2>1, <3>1 DEF Handshake, Working
    <3>2. CASE BridgeAt("done", FALSE, TRUE)' /\ ~busy
      <4>1. Quiet /\ bridge.state # "sending"
        BY <1>1, <3>2, <2>3 DEF KnownBusy, Quiet, BridgeAt
      <4>2. Quiet'
        BY <4>1, QuietStays
      <4> QED BY <2>1, <3>2, <4>2 DEF Handshake
    <3> QED BY <1>1, <2>1, <2>3, <3>1, <3>2, BridgeEffect
  <2> QED BY <1>3, <2>2, <2>3 DEF Working
<1>4. CASE Quiet /\ BridgeAt("idle", FALSE, FALSE)
  <2>1. bridge.state = "idle"
    BY <1>4 DEF BridgeAt
  <2>2. Quiet'
    BY <1>4, <2>1, QuietStays
  <2>3. IF scale = "done" THEN BridgeAt("sending", TRUE, FALSE)' ELSE BridgeAt("idle", FALSE, FALSE)'
    BY <1>1, <1>4, BridgeEffect
  <2>4. CASE host \in {"accepting", "releasing"} /\ scale = "idle"
    <3>1. BridgeAt("idle", FALSE, FALSE)'
      BY <2>3, <2>4
    <3>2. \/ host' \in {"accepting", "releasing", "retired"} /\ scale' = "idle"
          \/ host' = "waiting" /\ scale' = "loading"
      BY <1>2, <2>1, <2>4
    <3> QED BY <2>2, <3>1, <3>2 DEF Handshake
  <2>5. CASE host = "waiting" /\ scale = "loading"
    <3>1. BridgeAt("idle", FALSE, FALSE)'
      BY <2>3, <2>5
    <3>2. host' = "waiting" /\ scale' \in {"loading", "done"}
      BY <1>2, <2>1, <2>5 DEF ReleaseEnds
    <3> QED BY <2>2, <3>1, <3>2 DEF Handshake
  <2>6. CASE host = "waiting" /\ scale = "done"
    <3>1. BridgeAt("sending", TRUE, FALSE)'
      BY <2>3, <2>6
    <3>2. host' = "waiting" /\ scale' = "idle"
      BY <1>2, <2>1, <2>6 DEF ReleaseEnds
    <3> QED BY <3>1, <3>2 DEF Handshake, Working
  <2> QED BY <1>2, <1>4, <2>4, <2>5, <2>6 DEF LoopInv, Handshake, Working, BridgeAt
<1>5. CASE Quiet /\ BridgeAt("done", FALSE, TRUE) /\ host = "waiting" /\ scale = "idle"
  <2>1. bridge.state = "done"
    BY <1>5 DEF BridgeAt
  <2>2. Quiet'
    BY <1>5, <2>1, QuietStays
  <2>3. BridgeAt("idle", FALSE, FALSE)'
    BY <1>1, <1>5, BridgeEffect
  <2>4. host' = "releasing" /\ scale' = "idle"
    BY <1>2, <1>5, <2>1
  <2> QED BY <2>2, <2>3, <2>4 DEF Handshake
<1> QED BY <1>3, <1>4, <1>5 DEF LoopInv, Handshake

----------------------------------------------------------------------------
(* The instruction that moves on to the loop controller. *)
Moves == raw # <<>> /\ Len(loop_input) < LoopQueue

LEMMA RawEdge ==
  ASSUME LoopInv, NEW done, NEW issued, NEW busy, NEW loaded, Edge(done, issued, busy, loaded)
  PROVE  /\ raw' \in Seq(0..LastInstruction)
         /\ Len(raw') = Len(raw) - One(Moves) + One(SendsInstruction)
         /\ \A n \in 1..Len(raw') :
              IF n <= Len(raw) - One(Moves) THEN raw'[n] = raw[n + One(Moves)] /\ n + One(Moves) \in 1..Len(raw)
              ELSE n = Len(raw') /\ SendsInstruction /\ raw'[n] = bridge.index
<1> DEFINE add == IF SendsInstruction THEN <<bridge.index>> ELSE <<>>
           T == 0..LastInstruction
<1>1. raw \in Seq(T) /\ Moves \in BOOLEAN /\ (Moves => raw # <<>>)
  BY DEF LoopInv, LoopTypes, Moves
<1>2. bridge.index \in T
  BY DEF LoopInv, LoopTypes
<1>3. raw' = (IF Moves THEN Tail(raw) ELSE raw) \o add
  BY DEF Edge, Moves
<1> HIDE DEF T
<1>4. add \in Seq(T) /\ Len(add) \in {0, 1}
  BY <1>2
<1>5. Len(add) = One(SendsInstruction) /\ (SendsInstruction => add[1] = bridge.index)
  BY DEF One
<1>6. Len(raw) \in Nat /\ One(Moves) \in {0, 1} /\ One(Moves) = (IF Moves THEN 1 ELSE 0)
  BY <1>1 DEF One
<1> HIDE DEF add
<1> DEFINE d == One(Moves)
<1>8. /\ raw' \in Seq(T)
      /\ Len(raw') = Len(raw) - d + Len(add) /\ Len(raw) - d \in Nat
      /\ \A n \in 1..Len(raw') : n \in 1..(Len(raw) - d) => raw'[n] = raw[n + d] /\ n + d \in 1..Len(raw)
      /\ \A n \in 1..Len(raw') : n \notin 1..(Len(raw) - d) => n = Len(raw') /\ n = Len(raw) - d + 1 /\ Len(add) = 1 /\ raw'[n] = add[1]
  <2> DEFINE R == raw'
             S == raw
  <2>1. /\ d \in {0, 1} /\ (d = 1 => S # <<>>) /\ R = (IF d = 1 THEN Tail(S) ELSE S) \o add
        /\ S \in Seq(T) /\ add \in Seq(T) /\ Len(add) \in {0, 1}
    <3>1. CASE Moves
      BY <3>1, <1>1, <1>4, <1>3 DEF One
    <3>2. CASE ~Moves
      BY <3>2, <1>1, <1>4, <1>3 DEF One
    <3> QED BY <3>1, <3>2
  <2> HIDE DEF d, R, S
  <2>2. /\ R \in Seq(T)
        /\ Len(R) = Len(S) - d + Len(add) /\ Len(S) - d \in Nat
        /\ \A n \in 1..Len(R) : n \in 1..(Len(S) - d) => R[n] = S[n + d] /\ n + d \in 1..Len(S)
        /\ \A n \in 1..Len(R) : n \notin 1..(Len(S) - d) => n = Len(R) /\ n = Len(S) - d + 1 /\ Len(add) = 1 /\ R[n] = add[1]
    BY <2>1, FifoEdge, SMTT(30)
  <2> QED BY <2>2 DEF R, S
<1> HIDE DEF d
<1>9. ASSUME NEW n \in 1..Len(raw')
      PROVE  IF n <= Len(raw) - d THEN raw'[n] = raw[n + d] /\ n + d \in 1..Len(raw)
             ELSE n = Len(raw') /\ SendsInstruction /\ raw'[n] = bridge.index
  <2>1. n <= Len(raw) - d <=> n \in 1..(Len(raw) - d)
    BY <1>8
  <2>2. Len(add) = 1 => SendsInstruction
    BY <1>5 DEF One
  <2> QED BY <1>5, <1>8, <2>1, <2>2
<1> QED BY <1>5, <1>8, <1>9 DEF d, T

LEMMA InputEdge ==
  ASSUME LoopInv, NEW done, NEW issued, NEW busy, NEW loaded, Edge(done, issued, busy, loaded)
  PROVE  /\ loop_input' \in Seq(0..LastInstruction)
         /\ Len(loop_input') = Len(loop_input) - One(InputPops) + One(Moves)
         /\ \A n \in 1..Len(loop_input') :
              IF n <= Len(loop_input) - One(InputPops)
              THEN loop_input'[n] = loop_input[n + One(InputPops)] /\ n + One(InputPops) \in 1..Len(loop_input)
              ELSE n = Len(loop_input') /\ Moves /\ loop_input'[n] = raw[1]
<1> DEFINE add == IF Moves THEN <<Head(raw)>> ELSE <<>>
           T == 0..LastInstruction
<1>1. loop_input \in Seq(T) /\ InputPops \in BOOLEAN /\ (InputPops => loop_input # <<>>)
  BY DEF LoopInv, LoopTypes, InputPops
<1>2. raw \in Seq(T)
  BY DEF LoopInv, LoopTypes
<1>3. loop_input' = (IF InputPops THEN Tail(loop_input) ELSE loop_input) \o add
  BY DEF Edge, Moves
<1> HIDE DEF T
<1>4. Moves => Head(raw) \in T /\ Head(raw) = raw[1]
  BY <1>2, HeadTailProperties DEF Moves
<1>5. Len(add) = One(Moves) /\ (Moves => add[1] = raw[1])
  BY <1>4 DEF One
<1>6. add \in Seq(T) /\ Len(add) \in {0, 1}
  BY <1>4
<1>7. Len(loop_input) \in Nat /\ One(InputPops) \in {0, 1} /\ One(InputPops) = (IF InputPops THEN 1 ELSE 0)
  BY <1>1 DEF One
<1> HIDE DEF add
<1> DEFINE d == One(InputPops)
<1>8. /\ loop_input' \in Seq(T)
      /\ Len(loop_input') = Len(loop_input) - d + Len(add) /\ Len(loop_input) - d \in Nat
      /\ \A n \in 1..Len(loop_input') : n \in 1..(Len(loop_input) - d) => loop_input'[n] = loop_input[n + d] /\ n + d \in 1..Len(loop_input)
      /\ \A n \in 1..Len(loop_input') : n \notin 1..(Len(loop_input) - d) => n = Len(loop_input') /\ n = Len(loop_input) - d + 1 /\ Len(add) = 1 /\ loop_input'[n] = add[1]
  <2> DEFINE R == loop_input'
             S == loop_input
  <2>1. /\ d \in {0, 1} /\ (d = 1 => S # <<>>) /\ R = (IF d = 1 THEN Tail(S) ELSE S) \o add
        /\ S \in Seq(T) /\ add \in Seq(T) /\ Len(add) \in {0, 1}
    <3>1. CASE InputPops
      BY <3>1, <1>1, <1>6, <1>3 DEF One
    <3>2. CASE ~InputPops
      BY <3>2, <1>1, <1>6, <1>3 DEF One
    <3> QED BY <3>1, <3>2
  <2> HIDE DEF d, R, S
  <2>2. /\ R \in Seq(T)
        /\ Len(R) = Len(S) - d + Len(add) /\ Len(S) - d \in Nat
        /\ \A n \in 1..Len(R) : n \in 1..(Len(S) - d) => R[n] = S[n + d] /\ n + d \in 1..Len(S)
        /\ \A n \in 1..Len(R) : n \notin 1..(Len(S) - d) => n = Len(R) /\ n = Len(S) - d + 1 /\ Len(add) = 1 /\ R[n] = add[1]
    BY <2>1, FifoEdge, SMTT(30)
  <2> QED BY <2>2 DEF R, S
<1> HIDE DEF d
<1>9. ASSUME NEW n \in 1..Len(loop_input')
      PROVE  IF n <= Len(loop_input) - d THEN loop_input'[n] = loop_input[n + d] /\ n + d \in 1..Len(loop_input)
             ELSE n = Len(loop_input') /\ Moves /\ loop_input'[n] = raw[1]
  <2>1. n <= Len(loop_input) - d <=> n \in 1..(Len(loop_input) - d)
    BY <1>8
  <2>2. Len(add) = 1 => Moves
    BY <1>5 DEF One
  <2> QED BY <1>5, <1>8, <2>1, <2>2
<1> QED BY <1>5, <1>8, <1>9 DEF d, T

(* Outside Working nothing is on its way and nothing is being sent. *)
LEMMA IdlePhase ==
  ASSUME LoopInv, ~Working, NEW done \in Completions, NEW issued \in SUBSET Issuable,
         NEW busy \in BusyValues, NEW loaded, Edge(done, issued, busy, loaded)
  PROVE  Quiet' /\ ~bridge'.issued
<1>1. Quiet /\ (BridgeAt("idle", FALSE, FALSE) \/ BridgeAt("done", FALSE, TRUE))
  BY DEF LoopInv, Handshake
<1>2. Quiet'
  BY <1>1, QuietStays DEF BridgeAt
<1>3. LoopTypes /\ bridge' = BridgeEdge(busy) /\ busy \in BOOLEAN
  BY BusyBoolean DEF LoopInv, Edge
<1>4. BridgeAt("sending", TRUE, FALSE)' \/ BridgeAt("idle", FALSE, FALSE)'
  BY <1>1, <1>3, BridgeEffect
<1> QED BY <1>2, <1>4 DEF BridgeAt

(* While the frame is worked on it stays the same, and once its program is *)
(* sent it stays sent.                                                     *)
LEMMA WorkingPhase ==
  ASSUME LoopInv, Working, NEW done, NEW issued, NEW busy \in BusyValues, NEW loaded, Edge(done, issued, busy, loaded)
  PROVE  /\ Frame' = Frame /\ loop' = LoopEdge(done, Generated)
         /\ bridge.issued => bridge'.issued /\ ~SendsInstruction
         /\ ~bridge.issued => (bridge'.issued <=> SendsInstruction /\ bridge.index = LastInstruction)
<1>1. ~ReleaseEnds /\ scale # "done"
  BY DEF Working, ReleaseEnds
<1>2. frame' = frame /\ work' = work /\ works' = works /\ loop' = LoopEdge(done, Generated)
  BY <1>1 DEF Edge
<1>3. LoopTypes /\ bridge' = BridgeEdge(busy) /\ busy \in BOOLEAN
  BY BusyBoolean DEF LoopInv, Edge
<1>4. CASE BridgeAt("idle", FALSE, TRUE)
  <2>1. BridgeAt("idle", FALSE, TRUE)' \/ BridgeAt("done", FALSE, TRUE)'
    BY <1>1, <1>3, <1>4, BridgeEffect
  <2> QED BY <1>2, <1>4, <2>1 DEF BridgeAt, SendsInstruction, Frame
<1>5. CASE BridgeAt("sending", TRUE, FALSE)
  <2>1. IF SendsInstruction /\ bridge.index = LastInstruction
        THEN BridgeAt("idle", FALSE, TRUE)' ELSE BridgeAt("sending", TRUE, FALSE)'
    BY <1>3, <1>5, BridgeEffect
  <2> QED BY <1>2, <1>5, <2>1 DEF BridgeAt, Frame
<1> QED BY <1>4, <1>5 DEF Working

LEMMA InstructionEdge ==
  ASSUME LoopInv, NEW done \in Completions, NEW issued \in SUBSET Issuable,
         NEW busy \in BusyValues, NEW loaded, Edge(done, issued, busy, loaded)
  PROVE  InstructionOrder'
<1> DEFINE m == One(Moves)
           s == One(SendsInstruction)
           o == One(InputPops)
           r == Len(raw)
           i == Len(loop_input)
           L == LastInstruction
<1>1. CASE ~Working
  <2>1. raw' = <<>> /\ loop_input' = <<>>
    BY <1>1, IdlePhase DEF Quiet
  <2>2. Len(raw') = 0 /\ Len(loop_input') = 0
    BY <2>1
  <2> QED BY <2>1, <2>2 DEF InstructionOrder
<1>2. CASE Working
  <2>1. /\ raw' \in Seq(0..L) /\ Len(raw') = r - m + s
        /\ \A n \in 1..Len(raw') :
              IF n <= r - m THEN raw'[n] = raw[n + m] /\ n + m \in 1..r
              ELSE n = Len(raw') /\ SendsInstruction /\ raw'[n] = bridge.index
    BY RawEdge
  <2>2. /\ loop_input' \in Seq(0..L) /\ Len(loop_input') = i - o + m
        /\ \A n \in 1..Len(loop_input') :
              IF n <= i - o THEN loop_input'[n] = loop_input[n + o] /\ n + o \in 1..i
              ELSE n = Len(loop_input') /\ Moves /\ loop_input'[n] = raw[1]
    BY InputEdge
  <2>3. /\ m \in {0, 1} /\ (m = 1 <=> Moves) /\ s \in {0, 1} /\ (s = 1 <=> SendsInstruction)
        /\ o \in {0, 1} /\ (o = 1 <=> InputPops)
    BY DEF One
  <2>4. /\ raw \in Seq(0..L) /\ loop_input \in Seq(0..L) /\ r \in Nat /\ i \in Nat
        /\ (raw = <<>> <=> r = 0) /\ (loop_input = <<>> <=> i = 0)
    BY DEF LoopInv, LoopTypes
  <2>5. /\ Len(raw') \in Nat /\ Len(loop_input') \in Nat
        /\ (raw' = <<>> <=> Len(raw') = 0) /\ (loop_input' = <<>> <=> Len(loop_input') = 0)
    BY <2>1, <2>2
  <2>6. (Moves => r >= 1) /\ (InputPops => i >= 1)
    BY <2>4 DEF Moves, InputPops
  <2>7. InstructionOrder
    BY DEF LoopInv
  <2> HIDE DEF m, s, o, r, i, L
  <2>8. CASE ~bridge.issued
    <3>1. (\A n \in 1..r : raw[n] # L) /\ (\A n \in 1..i : loop_input[n] # L)
      BY <2>7, <2>8 DEF InstructionOrder, r, i, L
    <3>2. bridge'.issued <=> SendsInstruction /\ bridge.index = L
      BY <1>2, <2>8, WorkingPhase DEF L
    <3>3. ASSUME NEW n \in 1..Len(raw'), raw'[n] = L PROVE n = Len(raw') /\ bridge'.issued
      BY <2>1, <3>1, <3>2, <3>3
    <3>4. ASSUME NEW n \in 1..Len(loop_input') PROVE loop_input'[n] # L
      <4>1. Moves => 1 \in 1..r
        BY <2>4, <2>6
      <4> QED BY <2>2, <3>1, <4>1
    <3>5. bridge'.issued => Len(raw') # 0 /\ raw'[Len(raw')] = L
      <4> SUFFICES ASSUME bridge'.issued PROVE Len(raw') # 0 /\ raw'[Len(raw')] = L
        OBVIOUS
      <4>1. s = 1 /\ Len(raw') = r - m + 1
        BY <2>1, <2>3, <3>2
      <4>2. r - m \in Nat
        BY <2>3, <2>4, <2>6
      <4>3. Len(raw') \in 1..Len(raw') /\ ~(Len(raw') <= r - m)
        BY <4>1, <4>2
      <4> QED BY <2>1, <3>2, <4>1, <4>2, <4>3
    <3> QED BY <2>5, <3>3, <3>4, <3>5 DEF InstructionOrder, L
  <2>9. CASE bridge.issued
    <3>1. bridge'.issued /\ s = 0
      BY <1>2, <2>3, <2>9, WorkingPhase
    <3>2. Len(raw') = r - m /\ \A n \in 1..Len(raw') : raw'[n] = raw[n + m] /\ n + m \in 1..r
      BY <2>1, <2>3, <2>4, <3>1
    <3>3. /\ \A n \in 1..r : raw[n] = L => n = r
          /\ \A n \in 1..i : loop_input[n] = L => n = i /\ r = 0
          /\ r # 0 => raw[r] = L
          /\ r = 0 /\ i # 0 => loop_input[i] = L
      BY <2>4, <2>7, <2>9 DEF InstructionOrder, r, i, L
    <3>4. ASSUME NEW n \in 1..Len(raw'), raw'[n] = L PROVE n = Len(raw')
      <4>1. raw[n + m] = L /\ n + m \in 1..r
        BY <3>2, <3>4
      <4>2. n + m = r
        BY <3>3, <4>1
      <4> QED BY <2>3, <2>4, <3>2, <4>2
    <3>5. ASSUME NEW n \in 1..Len(loop_input'), loop_input'[n] = L PROVE n = Len(loop_input') /\ Len(raw') = 0
      <4>1. CASE n <= i - o
        <5>1. loop_input[n + o] = L /\ n + o \in 1..i
          BY <2>2, <3>5, <4>1
        <5>2. n + o = i /\ r = 0
          BY <3>3, <5>1
        <5>3. m = 0
          BY <2>3, <2>6, <5>2
        <5> QED BY <2>2, <2>3, <2>4, <3>2, <5>2, <5>3
      <4>2. CASE ~(n <= i - o)
        <5>1. n = Len(loop_input') /\ Moves /\ raw[1] = L
          BY <2>2, <3>5, <4>2
        <5>2. 1 \in 1..r /\ m = 1
          BY <2>3, <2>4, <2>6, <5>1
        <5>3. 1 = r
          BY <3>3, <5>1, <5>2
        <5> QED BY <3>2, <5>1, <5>2, <5>3
      <4> QED BY <4>1, <4>2
    <3>6. Len(raw') # 0 => raw'[Len(raw')] = L
      <4> SUFFICES ASSUME Len(raw') # 0 PROVE raw'[Len(raw')] = L
        OBVIOUS
      <4>1. Len(raw') \in 1..Len(raw') /\ Len(raw') + m = r /\ r # 0
        BY <2>3, <2>4, <2>5, <3>2
      <4> QED BY <3>2, <3>3, <4>1
    <3>7. Len(raw') = 0 /\ Len(loop_input') # 0 => loop_input'[Len(loop_input')] = L
      <4> SUFFICES ASSUME Len(raw') = 0, Len(loop_input') # 0 PROVE loop_input'[Len(loop_input')] = L
        OBVIOUS
      <4>0. Len(loop_input') \in 1..Len(loop_input')
        BY <2>5
      <4>1. CASE m = 1
        <5>1. r = 1 /\ raw[1] = L
          BY <2>4, <3>2, <3>3, <4>1
        <5>2. ~(Len(loop_input') <= i - o)
          BY <2>2, <2>3, <2>4, <4>1
        <5> QED BY <2>2, <4>0, <5>1, <5>2
      <4>2. CASE m = 0
        <5>0. Len(raw') = r - m /\ Len(loop_input') = i - o + m
          BY <2>2, <3>2
        <5>1. r = 0 /\ Len(loop_input') = i - o
          BY <2>3, <2>4, <4>2, <5>0
        <5>2. i # 0 /\ Len(loop_input') + o = i /\ Len(loop_input') <= i - o
          BY <2>3, <2>4, <2>5, <5>1
        <5> QED BY <2>2, <3>3, <4>0, <5>1, <5>2
      <4> QED BY <2>3, <4>1, <4>2
    <3> QED BY <2>5, <3>1, <3>4, <3>5, <3>6, <3>7 DEF InstructionOrder, L
  <2> QED BY <2>8, <2>9
<1> QED BY <1>1, <1>2

(* The edge at which the loop controller takes the start of the loop. *)
Starts == InputPops /\ Head(loop_input) = LastInstruction

LEMMA PositionKept ==
  ASSUME LoopInv, NEW done, ~Starts, Generated = {}
  PROVE  LoopEdge(done, Generated).position = loop.position
<1>1. LoopEdge(done, Generated).position = [p \in 1..4 |-> loop.position[p] + Cardinality({c \in Generated : ProgramFor(c) = p})]
  BY DEF LoopEdge, Starts
<1>2. loop.position \in [1..4 -> Nat]
  BY DEF LoopInv, LoopTypes
<1>3. ASSUME NEW p \in 1..4 PROVE loop.position[p] + Cardinality({c \in Generated : ProgramFor(c) = p}) = loop.position[p]
  <2>1. {c \in Generated : ProgramFor(c) = p} = {}
    OBVIOUS
  <2>2. Cardinality({c \in Generated : ProgramFor(c) = p}) = 0
    BY <2>1, FS_EmptySet
  <2> QED BY <1>2, <2>2
<1> QED BY <1>1, <1>2, <1>3

LEMMA PositionGrows ==
  ASSUME LoopInv, NEW done, ~Starts, NEW g \in 1..4, Generated = {ProgramCommand(Frame, g, loop.position[g])}
  PROVE  LoopEdge(done, Generated).position = [loop.position EXCEPT ![g] = @ + 1]
<1> DEFINE c == ProgramCommand(Frame, g, loop.position[g])
           count(p) == Cardinality({d \in Generated : ProgramFor(d) = p})
<1>1. LoopEdge(done, Generated).position = [p \in 1..4 |-> loop.position[p] + count(p)]
  BY DEF LoopEdge, Starts
<1>2. loop.position \in [1..4 -> Nat] /\ Frame \in Shapes
  BY FrameTyped DEF LoopInv, LoopTypes
<1>3. ProgramFor(c) = g /\ Generated = {c}
  BY <1>2, CommandTyped
<1> HIDE DEF c
<1>4. ASSUME NEW p \in 1..4 PROVE count(p) = IF p = g THEN 1 ELSE 0
  <2>1. {d \in Generated : ProgramFor(d) = p} = IF p = g THEN {c} ELSE {}
    BY <1>3
  <2> QED BY <2>1, FS_EmptySet, FS_Singleton
<1> HIDE DEF count
<1>5. ASSUME NEW p \in 1..4 PROVE loop.position[p] + count(p) = [loop.position EXCEPT ![g] = @ + 1][p]
  BY <1>2, <1>4
<1> QED BY <1>1, <1>2, <1>5

LEMMA PositionReset ==
  ASSUME NEW done, Starts
  PROVE  LoopEdge(done, Generated).position = [p \in 1..4 |-> 0]
BY DEF LoopEdge, Starts

(* The three ways the programs move at an edge. *)
LEMMA PositionEdge ==
  ASSUME LoopInv, NEW done
  PROVE  LET after == LoopEdge(done, Generated).position IN
         /\ after \in [1..4 -> Nat]
         /\ \/ Starts /\ \A p \in 1..4 : after[p] = 0
            \/ ~Starts /\ Generated = {} /\ after = loop.position
            \/ ~Starts /\ \E g \in 1..4 : /\ Generated = {ProgramCommand(Frame, g, loop.position[g])}
                                          /\ after = [loop.position EXCEPT ![g] = @ + 1]
<1> DEFINE after == LoopEdge(done, Generated).position
<1>1. loop.position \in [1..4 -> Nat]
  BY DEF LoopInv, LoopTypes
<1>2. CASE Starts
  <2>1. after = [p \in 1..4 |-> 0]
    BY <1>2, PositionReset
  <2> HIDE DEF after
  <2>2. after \in [1..4 -> Nat] /\ \A p \in 1..4 : after[p] = 0
    BY <2>1
  <2> QED BY <1>2, <2>2 DEF after
<1>3. CASE ~Starts /\ Generated = {}
  <2>1. after = loop.position
    BY <1>3, PositionKept
  <2> QED BY <1>1, <1>3, <2>1
<1>4. CASE ~Starts /\ Generated # {}
  <2>1. PICK g \in 1..4 : Generated = {ProgramCommand(Frame, g, loop.position[g])}
    BY <1>4, GeneratedFacts
  <2>2. after = [loop.position EXCEPT ![g] = @ + 1]
    BY <1>4, <2>1, PositionGrows
  <2> HIDE DEF after
  <2>3. after \in [1..4 -> Nat]
    BY <1>1, <2>2
  <2> QED BY <1>4, <2>1, <2>2, <2>3 DEF after
<1> QED BY <1>2, <1>3, <1>4

LEMMA StagesTyped == Stages = 0..4 /\ {0, 1, 2, 3, 4} \subseteq Stages
BY DEF Stages

LEMMA TypesEdge ==
  ASSUME LoopInv, NEW done \in Completions, NEW issued \in SUBSET Issuable,
         NEW busy \in BusyValues, NEW loaded, Edge(done, issued, busy, loaded)
  PROVE  LoopTypes'
<1>1. works' \in Schedules /\ work' \in 1..Len(works') /\ frame' \in 1..Len(works'[work'])
  <2>1. /\ works \in Schedules /\ work \in 1..Len(works) /\ frame \in 1..Len(works[work])
        /\ works' = works /\ work' = work /\ frame' = IF ReleaseEnds /\ ~LastFrame THEN frame + 1 ELSE frame
    BY DEF LoopInv, LoopTypes, Edge
  <2>2. works[work] \in Seq(Shapes)
    <3>1. works \in Seq(Seq(Shapes))
      BY <2>1, LoopAssumption
    <3> QED BY <2>1, <3>1
  <2>3. Len(works[work]) \in Nat
    BY <2>2
  <2> QED BY <2>1, <2>3 DEF LastFrame
<1>2. bridge' \in [state : {"idle", "sending", "done"}, index : 0..LastInstruction, pending : BOOLEAN,
                   issued : BOOLEAN, saw_busy : BOOLEAN]
  <2>1. LoopTypes /\ bridge' = BridgeEdge(busy) /\ busy \in BOOLEAN
    BY BusyBoolean DEF LoopInv, Edge
  <2> QED BY <2>1, BridgeEffect
<1>3. raw' \in Seq(0..LastInstruction) /\ loop_input' \in Seq(0..LastInstruction)
  BY RawEdge, InputEdge
<1> DEFINE T == [configured : BOOLEAN, running : BOOLEAN, started : SUBSET Stages, completed : SUBSET Stages,
                 position : [1..4 -> Nat], utilized : [Queues -> Nat]]
<1>4. loop' \in T
  <2>1. CASE loop' = IdleLoop
    <3>1. IdleLoop.position \in [1..4 -> Nat]
      <4>1. IdleLoop.position = <<0, 0, 0, 0>>
        BY DEF IdleLoop
      <4> QED BY <4>1
    <3> QED BY <2>1, <3>1 DEF IdleLoop
  <2>2. CASE loop' = LoopEdge(done, Generated)
    <3> DEFINE E == LoopEdge(done, Generated)
    <3>1. E.position \in [1..4 -> Nat]
      BY PositionEdge
    <3>2. E.utilized \in [Queues -> Nat]
      BY <2>2, CreditsEdge
    <3>3. loop \in T
      BY DEF LoopInv, LoopTypes
    <3>4. E.configured \in BOOLEAN /\ E.running \in BOOLEAN
      BY <3>3 DEF LoopEdge
    <3>5. E.started \in SUBSET Stages /\ E.completed \in SUBSET Stages
      BY <3>3, StagesTyped DEF LoopEdge
    <3>6. E = [configured |-> E.configured, running |-> E.running, started |-> E.started,
               completed |-> E.completed, position |-> E.position, utilized |-> E.utilized]
      BY DEF LoopEdge
    <3> HIDE DEF E
    <3> QED BY <2>2, <3>1, <3>2, <3>4, <3>5, <3>6 DEF E
  <2> QED BY <2>1, <2>2 DEF Edge
<1> QED BY <1>1, <1>2, <1>3, <1>4 DEF LoopTypes

(* The start is the last instruction to arrive. *)
LEMMA StartIsLast ==
  ASSUME LoopInv, Working, Starts, NEW done, NEW issued, NEW busy \in BusyValues, NEW loaded, Edge(done, issued, busy, loaded)
  PROVE  Begun'
<1>1. loop_input # <<>> /\ loop_input \in Seq(0..LastInstruction)
  BY DEF Starts, InputPops, LoopInv, LoopTypes
<1>2. Len(loop_input) \in Nat /\ 1 \in 1..Len(loop_input) /\ loop_input[1] = LastInstruction
  BY <1>1 DEF Starts
<1>3. 1 = Len(loop_input) /\ raw = <<>> /\ bridge.issued
  BY <1>2 DEF LoopInv, InstructionOrder
<1>4. bridge'.issued /\ ~SendsInstruction /\ ~Moves
  BY <1>3, WorkingPhase DEF Moves
<1>5. InputPops /\ One(InputPops) = 1 /\ One(Moves) = 0 /\ One(SendsInstruction) = 0
  BY <1>4 DEF Starts, One
<1>6. Len(raw') = Len(raw) - 0 + 0 /\ raw' \in Seq(0..LastInstruction)
  BY <1>5, RawEdge
<1>7. Len(loop_input') = 1 - 1 + 0 /\ loop_input' \in Seq(0..LastInstruction)
  BY <1>3, <1>5, InputEdge
<1>8. Len(raw) = 0
  BY <1>3
<1> QED BY <1>4, <1>6, <1>7, <1>8 DEF Begun

(* The controller has begun a frame only if it took the start. *)
LEMMA BegunMeans ==
  ASSUME LoopInv, Working, ~Starts, NEW done, NEW issued, NEW busy \in BusyValues, NEW loaded, Edge(done, issued, busy, loaded)
  PROVE  Begun' <=> Begun
<1> DEFINE m == One(Moves)
           s == One(SendsInstruction)
           o == One(InputPops)
           r == Len(raw)
           i == Len(loop_input)
<1>1. /\ m \in {0, 1} /\ (m = 1 <=> Moves) /\ s \in {0, 1} /\ (s = 1 <=> SendsInstruction)
      /\ o \in {0, 1} /\ (o = 1 <=> InputPops)
  BY DEF One
<1>2. /\ r \in Nat /\ i \in Nat /\ (raw = <<>> <=> r = 0) /\ (loop_input = <<>> <=> i = 0)
      /\ loop_input \in Seq(0..LastInstruction)
  <2>1. raw \in Seq(0..LastInstruction) /\ loop_input \in Seq(0..LastInstruction)
    BY DEF LoopInv, LoopTypes
  <2> QED BY <2>1
<1>3. /\ Len(raw') = r - m + s /\ Len(loop_input') = i - o + m
      /\ (raw' = <<>> <=> Len(raw') = 0) /\ (loop_input' = <<>> <=> Len(loop_input') = 0)
  BY RawEdge, InputEdge
<1>4. /\ Moves <=> r # 0 /\ i < LoopQueue
      /\ LoopQueue \in Nat /\ LoopQueue # 0
  BY <1>2, LoopAssumption DEF Moves
<1>5. InputPops => i # 0
  BY <1>2 DEF InputPops
<1> HIDE DEF m, s, o, r, i
<1>6. ASSUME Begun PROVE Begun'
  <2>1. bridge'.issued /\ s = 0 /\ r = 0 /\ i = 0
    BY <1>1, <1>2, <1>6, WorkingPhase DEF Begun
  <2>2. m = 0 /\ o = 0
    BY <1>1, <1>4, <1>5, <2>1
  <2> QED BY <1>3, <2>1, <2>2 DEF Begun
<1>7. ASSUME Begun' PROVE Begun
  <2>1. bridge'.issued /\ r - m + s = 0 /\ i - o + m = 0
    BY <1>3, <1>7 DEF Begun
  <2>2. r - m >= 0 /\ i - o >= 0
    BY <1>1, <1>2, <1>4, <1>5
  <2>3. s = 0 /\ m = 0 /\ r = 0 /\ i = o
    BY <1>1, <1>2, <2>1, <2>2
  <2>4. bridge.issued
    BY <1>1, <2>1, <2>3, WorkingPhase
  <2>5. i = 0
    <3> SUFFICES ASSUME i # 0 PROVE FALSE
      BY <1>2
    <3>1. i = 1 /\ InputPops
      BY <1>1, <2>3
    <3>2. loop_input[i] = LastInstruction
      BY <1>2, <2>3, <2>4 DEF LoopInv, InstructionOrder, i
    <3>3. Head(loop_input) = loop_input[1]
      BY <1>2, <3>1
    <3> QED BY <3>1, <3>2, <3>3 DEF Starts
  <2> QED BY <1>2, <2>3, <2>4, <2>5 DEF Begun
<1> QED BY <1>6, <1>7

(* What an edge makes of the loop's other registers. *)
LEMMA StageRegisters ==
  ASSUME LoopInv, NEW done
  PROVE  LET after == LoopEdge(done, Generated)
             finished == loop.running /\ loop.completed = Stages IN
         /\ after.configured <=> Starts \/ (loop.configured /\ ~finished)
         /\ Starts => after.started = {} /\ after.completed = {}
         /\ ~finished =>
              /\ \A s \in after.completed : s \in loop.completed \/ (s \in loop.started /\ (s = 2 \/ ~Active(s)))
              /\ loop.started \subseteq after.started \/ after.started = {}
              /\ 3 \in after.started => {0, 1, 2} \subseteq loop.started \/ 3 \in loop.started
              /\ 4 \in after.started => 3 \in loop.started \/ 4 \in loop.started
<1>1. loop \in [configured : BOOLEAN, running : BOOLEAN, started : SUBSET Stages, completed : SUBSET Stages,
                position : [1..4 -> Nat], utilized : [Queues -> Nat]]
  BY DEF LoopInv, LoopTypes
<1> DEFINE after == LoopEdge(done, Generated)
           finished == loop.running /\ loop.completed = Stages
           newly == IF ~loop.configured THEN {}
               ELSE ({0, 1, 2} \cup (IF {0, 1, 2} \subseteq loop.started THEN {3} ELSE {})
                              \cup (IF 3 \in loop.started THEN {4} ELSE {})) \ loop.started
           ended == IF loop.running THEN {s \in loop.started : s = 2 \/ ~Active(s)} ELSE {}
<1>2. /\ after.configured = (Starts \/ (loop.configured /\ ~finished))
      /\ after.started = IF Starts \/ finished THEN {} ELSE loop.started \cup newly
      /\ after.completed = IF Starts \/ finished THEN {} ELSE loop.completed \cup ended
  BY DEF LoopEdge, Starts
<1>3. /\ 3 \in newly => {0, 1, 2} \subseteq loop.started
      /\ 4 \in newly => 3 \in loop.started
      /\ \A s \in ended : s \in loop.started /\ (s = 2 \/ ~Active(s))
  OBVIOUS
<1> HIDE DEF after, newly, ended, finished
<1> QED BY <1>2, <1>3 DEF after, finished

LEMMA ProgramOfTyped == \A s \in Stages \ {2} : ProgramOf(s) \in 1..4
<1>1. \A s \in Stages \ {2} : s \in {0, 1, 3, 4}
  BY DEF Stages
<1> QED BY <1>1 DEF ProgramOf

(* The programs stay within their lengths, and execute behind load B. *)
LEMMA PositionsBounded ==
  ASSUME LoopInv, Begun, ~Starts, NEW done
  PROVE  LET after == LoopEdge(done, Generated).position IN
         /\ \A p \in 1..4 : after[p] <= ProgramLength(Frame, p) /\ loop.position[p] <= after[p]
         /\ \A p \in 1..4 : loop.position[p] = ProgramLength(Frame, p) => after[p] = loop.position[p]
         /\ ~loop.configured => after = loop.position
         /\ \A x \in Coordinates(Frame) : 2 * FragmentIndex(Frame, x) < after[3] => Frame.j * x.k + x.j < after[2]
<1> DEFINE after == LoopEdge(done, Generated).position
           pos == loop.position
           f == Frame
<1>1. /\ pos \in [1..4 -> Nat] /\ f \in Shapes
      /\ \A p \in 1..4 : pos[p] <= ProgramLength(f, p)
      /\ \A x \in Coordinates(f) : 2 * FragmentIndex(f, x) < pos[3] => f.j * x.k + x.j < pos[2]
  BY FrameTyped DEF LoopInv, LoopTypes, StagesTracked, WeightsFed
<1>2. \A p \in 1..4 : ProgramLength(f, p) \in Nat
  BY <1>1, LengthIsNat
<1>3. CASE Generated = {}
  <2>1. after = pos
    BY <1>3, PositionKept
  <2> HIDE DEF after, pos, f
  <2> QED BY <1>1, <2>1 DEF after, pos, f
<1>4. CASE Generated # {}
  <2>1. PICK g \in 1..4 :
           LET c == ProgramCommand(f, g, pos[g]) IN
           /\ Generated = {c} /\ loop.configured
           /\ pos[g] < ProgramLength(f, g)
           /\ g = 3 => LET x == Fragment(f, pos[3] \div 2) IN
                       /\ x \in Coordinates(f) /\ FragmentIndex(f, x) = pos[3] \div 2
                       /\ f.j * x.k + x.j < pos[2]
    BY <1>4, GeneratedFacts
  <2>2. after = [pos EXCEPT ![g] = @ + 1]
    BY <2>1, PositionGrows
  <2> DEFINE y == Fragment(f, pos[3] \div 2)
  <2>3. /\ loop.configured /\ pos[g] < ProgramLength(f, g)
        /\ g = 3 => f.j * y.k + y.j < pos[2]
    BY <2>1
  <2> HIDE DEF after, pos, f
  <2>4. /\ after \in [1..4 -> Nat] /\ \A p \in 1..4 : after[p] = IF p = g THEN pos[p] + 1 ELSE pos[p]
    BY <1>1, <2>2
  <2>5. ASSUME NEW p \in 1..4 PROVE /\ after[p] <= ProgramLength(f, p) /\ pos[p] <= after[p]
                                    /\ pos[p] = ProgramLength(f, p) => after[p] = pos[p]
    BY <1>1, <1>2, <2>3, <2>4
  <2>6. ASSUME NEW x \in Coordinates(f), 2 * FragmentIndex(f, x) < after[3] PROVE f.j * x.k + x.j < after[2]
    <3>1. f.j * x.k + x.j \in Nat /\ FragmentIndex(f, x) \in Nat
      BY <1>1, IndexIsNat
    <3>2. f.j * x.k + x.j < pos[2]
      <4>1. CASE 2 * FragmentIndex(f, x) < pos[3]
        BY <1>1, <4>1
      <4>2. CASE ~(2 * FragmentIndex(f, x) < pos[3])
        <5>1. g = 3 /\ 2 * FragmentIndex(f, x) = pos[3]
          BY <1>1, <2>4, <2>6, <3>1, <4>2
        <5>2. FragmentIndex(f, x) = pos[3] \div 2
          BY <3>1, <5>1, Halves
        <5>3. x = y
          BY <1>1, <5>2, FragmentOfIndex
        <5> QED BY <2>3, <5>1, <5>3
      <4> QED BY <4>1, <4>2
    <3>3. pos[2] \in Nat /\ after[2] \in Nat /\ pos[2] <= after[2]
      BY <1>1, <2>4
    <3> QED BY <3>1, <3>2, <3>3
  <2> QED BY <2>3, <2>5, <2>6 DEF after, pos, f
<1> QED BY <1>3, <1>4

LEMMA StagesEdge ==
  ASSUME LoopInv, NEW done \in Completions, NEW issued \in SUBSET Issuable,
         NEW busy \in BusyValues, NEW loaded, Edge(done, issued, busy, loaded)
  PROVE  StagesTracked'
<1>1. CASE ~Working
  <2>1. ~loop'.configured /\ ~Begun'
    BY <1>1, IdlePhase DEF Quiet, Begun
  <2> QED BY <2>1 DEF StagesTracked
<1>2. CASE Working /\ Starts
  <2>1. Begun' /\ Frame' = Frame /\ loop' = LoopEdge(done, Generated)
    BY <1>2, StartIsLast, WorkingPhase
  <2>2. loop'.configured /\ loop'.started = {} /\ loop'.completed = {}
    BY <1>2, <2>1, StageRegisters
  <2>3. loop'.position = [p \in 1..4 |-> 0]
    BY <1>2, <2>1, PositionReset
  <2>4. Frame \in Shapes
    BY FrameTyped DEF LoopInv
  <2>5. ASSUME NEW p \in 1..4 PROVE loop'.position[p] <= ProgramLength(Frame, p)'
    <3>1. ProgramLength(Frame, p) \in Nat
      BY <2>4, LengthIsNat
    <3>2. ProgramLength(Frame, p)' = ProgramLength(Frame, p)
      BY <2>1 DEF ProgramLength
    <3> QED BY <2>3, <3>1, <3>2
  <2>6. WeightsFed'
    <3>1. ASSUME NEW x \in Coordinates(Frame) PROVE ~(2 * FragmentIndex(Frame, x) < 0)
      BY <2>4, IndexIsNat
    <3>2. loop'.position[3] = 0
      BY <2>3
    <3> QED BY <2>1, <3>1, <3>2 DEF WeightsFed, Coordinates, FragmentIndex
  <2> QED BY <2>1, <2>2, <2>5, <2>6 DEF StagesTracked
<1>3. CASE Working /\ ~Starts
  <2>1. Begun' <=> Begun
    BY <1>3, BegunMeans
  <2>2. Frame' = Frame /\ loop' = LoopEdge(done, Generated)
    BY <1>3, WorkingPhase
  <2> DEFINE finished == loop.running /\ loop.completed = Stages
             pos == loop.position
  <2>3. loop'.configured <=> loop.configured /\ ~finished
    BY <1>3, <2>2, StageRegisters
  <2>4. loop.configured => Begun
    BY DEF LoopInv, StagesTracked
  <2>5. CASE ~Begun
    BY <2>1, <2>3, <2>4, <2>5 DEF StagesTracked
  <2>6. CASE Begun
    <3>1. \A p \in 1..4 : ProgramLength(Frame, p)' = ProgramLength(Frame, p)
      BY <2>2 DEF ProgramLength
    <3>2. /\ \A p \in 1..4 : loop'.position[p] <= ProgramLength(Frame, p)
          /\ \A p \in 1..4 : pos[p] = ProgramLength(Frame, p) => loop'.position[p] = pos[p]
          /\ ~loop.configured => loop'.position = pos
          /\ \A x \in Coordinates(Frame) : 2 * FragmentIndex(Frame, x) < loop'.position[3] => Frame.j * x.k + x.j < loop'.position[2]
      BY <1>3, <2>2, <2>6, PositionsBounded
    <3>3. WeightsFed'
      BY <2>2, <3>2 DEF WeightsFed, Coordinates, FragmentIndex
    <3>4. /\ ~loop.configured => \A p \in 1..4 : pos[p] = ProgramLength(Frame, p)
          /\ loop.configured => \A s \in loop.completed \ {2} : pos[ProgramOf(s)] = ProgramLength(Frame, ProgramOf(s))
          /\ loop.configured /\ 3 \in loop.started => {0, 1} \subseteq loop.started
          /\ loop.configured /\ 4 \in loop.started => 3 \in loop.started
          /\ \A p \in 1..4 : pos[p] <= ProgramLength(Frame, p)
      BY <2>6 DEF LoopInv, StagesTracked
    <3>5. ASSUME ~loop'.configured PROVE \A p \in 1..4 : loop'.position[p] = ProgramLength(Frame, p)
      <4>1. CASE ~loop.configured
        BY <3>2, <3>4, <4>1
      <4>2. CASE loop.configured /\ loop.completed = Stages
        <5>1. ASSUME NEW p \in 1..4 PROVE pos[p] = ProgramLength(Frame, p)
          <6>1. \E s \in Stages \ {2} : ProgramOf(s) = p
            <7>1. /\ 0 \in Stages \ {2} /\ 1 \in Stages \ {2} /\ 3 \in Stages \ {2} /\ 4 \in Stages \ {2}
              BY DEF Stages
            <7>2. ProgramOf(0) = 1 /\ ProgramOf(1) = 2 /\ ProgramOf(3) = 3 /\ ProgramOf(4) = 4
              BY DEF ProgramOf
            <7>3. p = 1 \/ p = 2 \/ p = 3 \/ p = 4
              OBVIOUS
            <7> QED BY <7>1, <7>2, <7>3
          <6> QED BY <3>4, <4>2, <6>1
        <5> QED BY <3>2, <5>1
      <4> QED BY <2>3, <3>5, <4>1, <4>2
    <3>6. ASSUME loop'.configured
          PROVE  /\ \A s \in loop'.completed \ {2} : loop'.position[ProgramOf(s)] = ProgramLength(Frame, ProgramOf(s))
                 /\ 3 \in loop'.started => {0, 1} \subseteq loop'.started
                 /\ 4 \in loop'.started => 3 \in loop'.started
      <4>1. loop.configured /\ ~finished
        BY <2>3, <3>6
      <4>2. /\ \A s \in loop'.completed : s \in loop.completed \/ (s \in loop.started /\ (s = 2 \/ ~Active(s)))
            /\ loop.started \subseteq loop'.started \/ loop'.started = {}
            /\ 3 \in loop'.started => {0, 1, 2} \subseteq loop.started \/ 3 \in loop.started
            /\ 4 \in loop'.started => 3 \in loop.started \/ 4 \in loop.started
        BY <2>2, <4>1, StageRegisters
      <4>3. ASSUME NEW s \in loop'.completed \ {2} PROVE loop'.position[ProgramOf(s)] = ProgramLength(Frame, ProgramOf(s))
        <5>1. s \in Stages
          <6>1. loop'.completed \subseteq Stages
            BY TypesEdge DEF LoopTypes
          <6> QED BY <6>1
        <5>2. ProgramOf(s) \in 1..4
          BY <5>1, ProgramOfTyped
        <5>3. pos[ProgramOf(s)] = ProgramLength(Frame, ProgramOf(s))
          <6>1. CASE s \in loop.completed
            BY <3>4, <4>1, <6>1
          <6>2. CASE s \in loop.started /\ ~Active(s)
            <7>1. ~(pos[ProgramOf(s)] < ProgramLength(Frame, ProgramOf(s)))
              BY <4>1, <6>2 DEF Active
            <7>2. pos[ProgramOf(s)] \in Nat /\ ProgramLength(Frame, ProgramOf(s)) \in Nat
              <8>1. Frame \in Shapes /\ pos \in [1..4 -> Nat]
                BY FrameTyped DEF LoopInv, LoopTypes
              <8>2. pos[ProgramOf(s)] \in Nat
                BY <5>2, <8>1
              <8> QED BY <5>2, <8>1, <8>2, LengthIsNat
            <7>3. pos[ProgramOf(s)] <= ProgramLength(Frame, ProgramOf(s))
              BY <3>4, <5>2
            <7> HIDE DEF pos
            <7> QED BY <7>1, <7>2, <7>3
          <6> QED BY <4>2, <6>1, <6>2
        <5> QED BY <3>2, <5>2, <5>3
      <4>4. /\ 3 \in loop'.started => {0, 1} \subseteq loop'.started
            /\ 4 \in loop'.started => 3 \in loop'.started
        BY <3>4, <4>1, <4>2
      <4> QED BY <4>3, <4>4
    <3>7. ASSUME loop'.configured, NEW s \in loop'.completed \ {2}
          PROVE  loop'.position[ProgramOf(s)] = ProgramLength(Frame, ProgramOf(s))'
      <4>1. s \in Stages \ {2}
        BY TypesEdge DEF LoopTypes
      <4>2. ProgramOf(s) \in 1..4
        BY <4>1, ProgramOfTyped
      <4> QED BY <3>1, <3>6, <3>7, <4>2
    <3> QED BY <2>1, <2>6, <3>1, <3>2, <3>3, <3>5, <3>6, <3>7 DEF StagesTracked
  <2> QED BY <2>5, <2>6
<1> QED BY <1>1, <1>2, <1>3

(* The commands unrolled so far. *)
Known == FirstCommands(Frame, loop.position)

LEMMA KnownAre ==
  ASSUME LoopInv, NEW c \in Known
  PROVE  \E p \in 1..4 : \E n \in Nat : n < loop.position[p] /\ c = ProgramCommand(Frame, p, n)
<1>1. PICK p \in 1..4 : c \in {ProgramCommand(Frame, p, n) : n \in 0..(loop.position[p] - 1)}
  BY DEF Known, FirstCommands
<1>2. PICK n \in 0..(loop.position[p] - 1) : c = ProgramCommand(Frame, p, n)
  BY <1>1
<1>3. loop.position[p] \in Nat
  BY DEF LoopInv, LoopTypes
<1>4. n \in Nat /\ n < loop.position[p]
  BY <1>3
<1> QED BY <1>2, <1>4

(* What enters the unrolled queue is new. *)
LEMMA PushedIsNew ==
  ASSUME LoopInv, NEW pushed \in Pushes(Generated \cup Forwarded), NEW c \in LoopCommands, pushed = <<c>>
  PROVE  c \notin Known
<1> SUFFICES ASSUME c \in Known PROVE FALSE
  OBVIOUS
<1>1. PICK p \in 1..4 : \E n \in Nat : n < loop.position[p] /\ c = ProgramCommand(Frame, p, n)
  BY KnownAre
<1>2. PICK n \in Nat : n < loop.position[p] /\ c = ProgramCommand(Frame, p, n)
  BY <1>1
<1>3. Frame \in Shapes /\ loop.position \in [1..4 -> Nat]
  BY FrameTyped DEF LoopInv, LoopTypes
<1>4. ~Config(c)
  BY <1>2, <1>3, CommandTyped
<1>5. Generated = {c}
  BY <1>4, SentFacts
<1>6. PICK g \in 1..4 : Generated = {ProgramCommand(Frame, g, loop.position[g])}
  BY <1>5, GeneratedFacts
<1>7. c = ProgramCommand(Frame, g, loop.position[g]) /\ loop.position[g] \in Nat
  BY <1>3, <1>5, <1>6
<1>8. p = g /\ n = loop.position[g]
  <2> DEFINE f == Frame
             m == loop.position[g]
  <2>1. f \in Shapes /\ m \in Nat /\ ProgramCommand(f, p, n) = ProgramCommand(f, g, m)
    BY <1>2, <1>3, <1>7
  <2> HIDE DEF f, m
  <2>2. p = g /\ n = m
    BY <2>1, CommandOnce
  <2> QED BY <2>2 DEF m
<1> QED BY <1>2, <1>3, <1>8

(* Nothing in flight needs a command that is not unrolled yet. *)
LEMMA FlyingNeeds ==
  ASSUME NEW c, Flying(c)
  PROVE  Needs(Frame, c) \subseteq Known
<1>1. CASE Config(c)
  <2>1. Needs(Frame, c) = {}
    BY <1>1 DEF Needs, Config
  <2> QED BY <2>1
<1>2. CASE ~Config(c)
  BY <1>2 DEF Flying, Known
<1> QED BY <1>1, <1>2

LEMMA NeedsNext ==
  ASSUME Frame' = Frame, NEW c
  PROVE  Needs(Frame', c) = Needs(Frame, c)
OBVIOUS

(* What flies, flies on; what is pushed, flies. *)
LEMMA FlyingEdge ==
  ASSUME LoopInv, Working, NEW done \in Completions, NEW issued \in SUBSET Issuable,
         NEW busy \in BusyValues, NEW loaded, Edge(done, issued, busy, loaded),
         NEW c, \/ Flying(c)
                \/ Generated = {c} \/ Config(c)
  PROVE  ~Config(c) => /\ Begun'
                       /\ c \in FirstCommands(Frame, loop'.position)
                       /\ Needs(Frame, c) \subseteq FirstCommands(Frame, loop'.position)
<1> SUFFICES ASSUME ~Config(c)
             PROVE  /\ Begun' /\ c \in FirstCommands(Frame, loop'.position)
                    /\ Needs(Frame, c) \subseteq FirstCommands(Frame, loop'.position)
  OBVIOUS
<1> DEFINE pos == loop.position
           next == loop'.position
<1>1. Begun
  <2>1. CASE Flying(c)
    BY <2>1 DEF Flying
  <2>2. CASE Generated = {c}
    <3>1. loop.configured
      BY <2>2, GeneratedFacts
    <3> QED BY <3>1 DEF LoopInv, StagesTracked
  <2> QED BY <2>1, <2>2
<1>2. ~Starts
  BY <1>1 DEF Begun, Starts, InputPops
<1>3. Begun' /\ loop' = LoopEdge(done, Generated)
  BY <1>1, <1>2, BegunMeans, WorkingPhase
<1>4. /\ pos \in [1..4 -> Nat] /\ next \in [1..4 -> Nat] /\ Frame \in Shapes
      /\ \A p \in 1..4 : pos[p] <= next[p]
  <2>1. next \in [1..4 -> Nat]
    BY <1>3, PositionEdge
  <2>2. \A p \in 1..4 : pos[p] <= next[p]
    BY <1>1, <1>2, <1>3, PositionsBounded
  <2> QED BY <2>1, <2>2, FrameTyped DEF LoopInv, LoopTypes
<1>5. FirstCommands(Frame, pos) \subseteq FirstCommands(Frame, next)
  <2> SUFFICES ASSUME NEW d \in FirstCommands(Frame, pos) PROVE d \in FirstCommands(Frame, next)
    OBVIOUS
  <2>1. PICK p \in 1..4 : \E n \in Nat : n < pos[p] /\ d = ProgramCommand(Frame, p, n)
    BY KnownAre DEF Known
  <2>2. PICK n \in Nat : n < pos[p] /\ d = ProgramCommand(Frame, p, n)
    BY <2>1
  <2> HIDE DEF pos, next
  <2>3. n \in 0..(next[p] - 1)
    <3>1. pos[p] \in Nat /\ next[p] \in Nat /\ pos[p] <= next[p]
      BY <1>4
    <3> QED BY <2>2, <3>1
  <2> QED BY <2>2, <2>3, InFirstCommands
<1>6. CASE Flying(c)
  BY <1>3, <1>5, <1>6 DEF Flying
<1>7. CASE Generated = {c}
  <2>1. PICK g \in 1..4 : LET d == ProgramCommand(Frame, g, pos[g]) IN
           Generated = {d} /\ Needs(Frame, d) \subseteq FirstCommands(Frame, pos)
    BY <1>7, GeneratedFacts
  <2>2. c = ProgramCommand(Frame, g, pos[g]) /\ Needs(Frame, c) \subseteq FirstCommands(Frame, pos)
    BY <1>7, <2>1
  <2>3. next = [pos EXCEPT ![g] = @ + 1]
    BY <1>2, <1>3, <1>7, <2>2, PositionGrows
  <2> HIDE DEF pos, next
  <2>4. pos[g] \in 0..(next[g] - 1)
    <3>1. pos[g] \in Nat /\ next[g] = pos[g] + 1
      BY <1>4, <2>3
    <3> QED BY <3>1
  <2>5. c \in FirstCommands(Frame, next)
    BY <2>2, <2>4, InFirstCommands
  <2> QED BY <1>3, <1>5, <2>2, <2>5 DEF next
<1> QED BY <1>6, <1>7

(* The queue after an edge: what was left, then what is pushed. *)
LEMMA UnrolledEdge ==
  ASSUME LoopInv, NEW done, NEW issued,
         NEW pushed \in Pushes(Generated \cup Forwarded), StationEdge(done, issued, pushed)
  PROVE  LET a == One(Allocated # {}) IN
         /\ Len(unrolled') \in Nat /\ Len(unrolled) \in Nat
         /\ \A n \in 1..Len(unrolled') :
              \/ unrolled'[n] = unrolled[n + a] /\ n + a \in 1..Len(unrolled)
              \/ /\ n = Len(unrolled') /\ n > Len(unrolled) - a
                 /\ pushed = <<unrolled'[n]>> /\ unrolled'[n] \in LoopCommands
<1> DEFINE a == One(Allocated # {})
           T == LoopCommands
           R == unrolled'
<1>1. unrolled \in Seq(T) /\ pushed \in Seq(T)
  BY SentFacts DEF LoopInv, StationInv, StationTypeOK
<1>2. Len(pushed) \in {0, 1} /\ (Len(pushed) = 1 => pushed = <<pushed[1]>> /\ pushed[1] \in T)
  <2>1. pushed = <<>> \/ \E c \in T : pushed = <<c>>
    BY SentFacts
  <2>2. CASE pushed = <<>>
    BY <2>2
  <2>3. ASSUME NEW c \in T, pushed = <<c>> PROVE Len(pushed) = 1 /\ pushed = <<pushed[1]>> /\ pushed[1] \in T
    BY <2>3
  <2> QED BY <2>1, <2>2, <2>3
<1>3. a \in {0, 1} /\ (a = 1 <=> Allocated # {})
  BY DEF One
<1>4. a = 1 => unrolled # <<>>
  BY <1>3, AllocatedFree
<1> HIDE DEF a
<1>5. R = (IF a = 1 THEN Tail(unrolled) ELSE unrolled) \o pushed
  <2>1. CASE Allocated = {}
    BY <2>1, <1>3 DEF StationEdge
  <2>2. CASE Allocated # {}
    BY <2>2, <1>3 DEF StationEdge
  <2> QED BY <2>1, <2>2
<1> HIDE DEF R, T
<1>6. /\ R \in Seq(T)
      /\ Len(R) = Len(unrolled) - a + Len(pushed) /\ Len(unrolled) - a \in Nat
      /\ \A n \in 1..Len(R) : n \in 1..(Len(unrolled) - a) => R[n] = unrolled[n + a] /\ n + a \in 1..Len(unrolled)
      /\ \A n \in 1..Len(R) : n \notin 1..(Len(unrolled) - a) => n = Len(R) /\ n = Len(unrolled) - a + 1 /\ Len(pushed) = 1 /\ R[n] = pushed[1]
  <2> DEFINE S == unrolled
             P == pushed
  <2>1. /\ S \in Seq(T) /\ a \in {0, 1} /\ (a = 1 => S # <<>>) /\ P \in Seq(T) /\ Len(P) \in {0, 1}
        /\ R = (IF a = 1 THEN Tail(S) ELSE S) \o P
    BY <1>1, <1>2, <1>3, <1>4, <1>5
  <2> HIDE DEF S, P
  <2>2. /\ R \in Seq(T)
        /\ Len(R) = Len(S) - a + Len(P) /\ Len(S) - a \in Nat
        /\ \A n \in 1..Len(R) : n \in 1..(Len(S) - a) => R[n] = S[n + a] /\ n + a \in 1..Len(S)
        /\ \A n \in 1..Len(R) : n \notin 1..(Len(S) - a) => n = Len(R) /\ n = Len(S) - a + 1 /\ Len(P) = 1 /\ R[n] = P[1]
    BY <2>1, FifoEdge, SMTT(30)
  <2> QED BY <2>2 DEF S, P
<1>7. ASSUME NEW n \in 1..Len(R)
      PROVE  \/ R[n] = unrolled[n + a] /\ n + a \in 1..Len(unrolled)
             \/ /\ n = Len(R) /\ n > Len(unrolled) - a
                /\ pushed = <<R[n]>> /\ R[n] \in T
  <2>1. CASE n \in 1..(Len(unrolled) - a)
    BY <1>6, <2>1
  <2>2. CASE n \notin 1..(Len(unrolled) - a)
    BY <1>2, <1>6, <2>2
  <2> QED BY <2>1, <2>2
<1>8. Len(R) \in Nat /\ Len(unrolled) \in Nat
  BY <1>1, <1>6
<1> QED BY <1>7, <1>8 DEF R, T, a

LEMMA FlightEdge ==
  ASSUME LoopInv, NEW done \in Completions, NEW issued \in SUBSET Issuable,
         NEW busy \in BusyValues, NEW loaded, Edge(done, issued, busy, loaded)
  PROVE  FlightOrdered'
<1>1. CASE ~Working
  <2>1. unrolled' = <<>> /\ \A s \in Slots : ~Valid(s)'
    BY <1>1, IdlePhase DEF Quiet
  <2>2. Len(unrolled') = 0
    BY <2>1
  <2> QED BY <2>1, <2>2 DEF FlightOrdered
<1>2. CASE Working
  <2>1. PICK pushed \in Pushes(Generated \cup Forwarded) : StationEdge(done, issued, pushed)
    BY DEF Edge
  <2>2. Frame' = Frame
    BY <1>2, WorkingPhase
  <2> DEFINE a == One(Allocated # {})
             N == Len(unrolled)
             M == Len(unrolled')
             First == FirstCommands(Frame, loop'.position)
             new(n) == n = M /\ n > N - a /\ pushed = <<unrolled'[n]>> /\ unrolled'[n] \in LoopCommands
             old(n) == unrolled'[n] = unrolled[n + a] /\ n + a \in 1..N
             fly(c) == ~Config(c) => Begun' /\ c \in First /\ Needs(Frame, c) \subseteq First
  <2>3. M \in Nat /\ N \in Nat /\ \A n \in 1..M : old(n) \/ new(n)
    BY <2>1, UnrolledEdge
  <2>4. a \in {0, 1} /\ (a = 1 <=> Allocated # {})
    BY DEF One
  <2>5. /\ \A n \in 1..N : /\ Flying(unrolled[n])
                           /\ \A m \in 1..N : unrolled[m] \in Needs(Frame, unrolled[n]) => m < n
        /\ \A s \in Slots : Valid(s) =>
             /\ Flying(station[s].command)
             /\ \A m \in 1..N : unrolled[m] \notin Needs(Frame, station[s].command)
             /\ \A t \in Slots : Valid(t) /\ station[t].command \in Needs(Frame, station[s].command) => t \in older[s]
    BY DEF LoopInv, FlightOrdered
  <2>6. ASSUME NEW n \in 1..M, new(n) PROVE unrolled'[n] \notin Known
    BY <2>1, <2>6, PushedIsNew
  <2>7. ASSUME NEW n \in 1..M, new(n) PROVE Generated = {unrolled'[n]} \/ Config(unrolled'[n])
    <3> DEFINE d == unrolled'[n]
    <3>1. pushed = <<d>>
      BY <2>7
    <3> HIDE DEF d
    <3>2. (\E c \in LoopCommands : pushed = <<c>> /\ Generated = {c}) \/ (\E c \in LoopCommands : pushed = <<c>> /\ Config(c))
      BY <2>1, <3>1, SentFacts
    <3>3. Generated = {d} \/ Config(d)
      BY <3>1, <3>2
    <3> QED BY <3>3 DEF d
  <2> HIDE DEF a, N, M, First
  <2>8. ASSUME NEW c, Flying(c) PROVE Needs(Frame, c) \subseteq Known /\ fly(c)
    BY <1>2, <2>8, FlyingNeeds, FlyingEdge DEF First
  <2>9. ASSUME NEW n \in 1..M, new(n) PROVE fly(unrolled'[n]) /\ Needs(Frame, unrolled'[n]) \subseteq Known
    <3> DEFINE c == unrolled'[n]
    <3>1. Generated = {c} \/ Config(c)
      BY <2>7, <2>9
    <3> HIDE DEF c
    <3>2. fly(c)
      BY <1>2, <3>1, FlyingEdge DEF First
    <3>3. Needs(Frame, c) \subseteq Known
      <4>1. CASE Config(c)
        BY <4>1, FlyingNeeds DEF Flying
      <4>2. CASE Generated = {c}
        <5>1. PICK g \in 1..4 : LET d == ProgramCommand(Frame, g, loop.position[g]) IN
                Generated = {d} /\ Needs(Frame, d) \subseteq FirstCommands(Frame, loop.position)
          BY <4>2, GeneratedFacts
        <5> QED BY <4>2, <5>1 DEF Known
      <4> QED BY <3>1, <4>1, <4>2
    <3> QED BY <3>2, <3>3 DEF c
  <2>10. ASSUME NEW n \in 1..M PROVE fly(unrolled'[n]) /\ Needs(Frame, unrolled'[n]) \subseteq Known
    <3>1. CASE old(n)
      <4>1. Flying(unrolled[n + a])
        BY <2>5, <3>1
      <4>2. fly(unrolled[n + a]) /\ Needs(Frame, unrolled[n + a]) \subseteq Known
        BY <2>8, <4>1
      <4> QED BY <3>1, <4>2
    <3>2. CASE new(n)
      BY <2>9, <3>2
    <3> QED BY <2>3, <3>1, <3>2
  <2>11. ASSUME NEW n \in 1..M, NEW m \in 1..M, unrolled'[m] \in Needs(Frame, unrolled'[n]) PROVE m < n
    <3>1. ~new(m)
      BY <2>6, <2>10, <2>11
    <3>2. old(m)
      BY <2>3, <3>1
    <3>3. CASE old(n)
      <4>1. unrolled[m + a] \in Needs(Frame, unrolled[n + a]) /\ m + a \in 1..N /\ n + a \in 1..N
        BY <2>11, <3>2, <3>3
      <4>2. m + a < n + a
        BY <2>5, <4>1
      <4> QED BY <2>3, <2>4, <4>2
    <3>4. CASE new(n)
      <4>1. m + a <= N /\ n > N - a
        BY <2>3, <3>2, <3>4
      <4> QED BY <2>3, <2>4, <4>1
    <3> QED BY <2>3, <3>3, <3>4
  <2>12. ASSUME NEW s \in Slots, Valid(s)'
         PROVE  /\ fly(station'[s].command)
                /\ \A m \in 1..M : unrolled'[m] \notin Needs(Frame, station'[s].command)
                /\ \A t \in Slots : Valid(t)' /\ station'[t].command \in Needs(Frame, station'[s].command) => t \in older'[s]
    <3>1. s \in Kept(done, issued) \cup Allocated
      BY <2>1, <2>12, EdgeEffect DEF LoopInv
    <3>2. ASSUME NEW t \in Allocated PROVE t \in Slots /\ station'[t].command = unrolled[1] /\ 1 \in 1..N /\ a = 1
      <4>1. station'[t].command = Head(unrolled) /\ unrolled # <<>> /\ t \in Slots
        BY <2>1, AllocatedEffect DEF LoopInv
      <4>2. unrolled \in Seq(LoopCommands)
        BY DEF LoopInv, StationInv, StationTypeOK
      <4>3. Head(unrolled) = unrolled[1] /\ Len(unrolled) >= 1
        BY <4>1, <4>2
      <4> QED BY <2>3, <2>4, <4>1, <4>3 DEF N
    <3>3. ASSUME NEW t \in Kept(done, issued)
          PROVE  /\ t \in Slots /\ Valid(t) /\ t \notin Freed(done, issued) /\ station'[t].command = station[t].command
                 /\ older'[t] = older[t] \ Freed(done, issued)
      BY <2>1, KeptEffect DEF LoopInv
    <3>4. ASSUME NEW t \in Slots, Valid(t)' PROVE t \in Kept(done, issued) \cup Allocated
      BY <2>1, <3>4, EdgeEffect DEF LoopInv
    <3>5. CASE s \in Kept(done, issued)
      <4> DEFINE c == station[s].command
      <4>1. Valid(s) /\ station'[s].command = c /\ older'[s] = older[s] \ Freed(done, issued)
        BY <3>3, <3>5
      <4>2. /\ Flying(c) /\ \A m \in 1..N : unrolled[m] \notin Needs(Frame, c)
            /\ \A t \in Slots : Valid(t) /\ station[t].command \in Needs(Frame, c) => t \in older[s]
        BY <2>5, <4>1
      <4> HIDE DEF c
      <4>3. fly(c) /\ Needs(Frame, c) \subseteq Known
        BY <2>8, <4>2
      <4>4. ASSUME NEW m \in 1..M PROVE unrolled'[m] \notin Needs(Frame, c)
        <5>1. CASE old(m)
          BY <4>2, <5>1
        <5>2. CASE new(m)
          BY <2>6, <4>3, <5>2
        <5> QED BY <2>3, <5>1, <5>2
      <4>5. ASSUME NEW t \in Slots, Valid(t)', station'[t].command \in Needs(Frame, c) PROVE t \in older'[s]
        <5>1. CASE t \in Kept(done, issued)
          <6>1. Valid(t) /\ t \notin Freed(done, issued) /\ station[t].command \in Needs(Frame, c)
            BY <3>3, <4>5, <5>1
          <6> QED BY <4>1, <4>2, <6>1
        <5>2. CASE t \in Allocated
          BY <3>2, <4>2, <4>5, <5>2
        <5> QED BY <3>4, <4>5, <5>1, <5>2
      <4> QED BY <4>1, <4>3, <4>4, <4>5
    <3>6. CASE s \in Allocated
      <4> DEFINE c == unrolled[1]
      <4>1. station'[s].command = c /\ 1 \in 1..N /\ a = 1 /\ older'[s] = Kept(done, issued)
        <5>1. older'[s] = Kept(done, issued)
          BY <2>1, <3>6, AllocatedEffect DEF LoopInv
        <5> QED BY <3>2, <3>6, <5>1
      <4>2. /\ Flying(c)
            /\ \A m \in 1..N : unrolled[m] \in Needs(Frame, c) => m < 1
        BY <2>5, <4>1
      <4>3. c \notin Needs(Frame, c)
        BY <4>1, <4>2
      <4> HIDE DEF c
      <4>4. fly(c) /\ Needs(Frame, c) \subseteq Known
        BY <2>8, <4>2
      <4>5. ASSUME NEW m \in 1..M PROVE unrolled'[m] \notin Needs(Frame, c)
        <5>1. CASE old(m)
          <6>1. m + a \in 1..N /\ ~(m + a < 1) /\ unrolled'[m] = unrolled[m + a]
            BY <2>4, <5>1
          <6> QED BY <4>2, <6>1
        <5>2. CASE new(m)
          BY <2>6, <4>4, <5>2
        <5> QED BY <2>3, <5>1, <5>2
      <4>6. ASSUME NEW t \in Slots, Valid(t)', station'[t].command \in Needs(Frame, c) PROVE t \in older'[s]
        <5>1. CASE t \in Kept(done, issued)
          BY <4>1, <5>1
        <5>2. CASE t \in Allocated
          <6>1. station'[t].command = c
            BY <3>2, <5>2 DEF c
          <6> QED BY <4>3, <4>6, <6>1
        <5> QED BY <3>4, <4>6, <5>1, <5>2
      <4> QED BY <4>1, <4>4, <4>5, <4>6
    <3> QED BY <3>1, <3>5, <3>6
  <2> HIDE DEF fly
  <2>13. ASSUME NEW n \in 1..M PROVE Flying(unrolled[n])'
    BY <2>2, <2>10 DEF First, Flying, fly, FirstCommands
  <2>14. ASSUME NEW s \in Slots, Valid(s)' PROVE Flying(station[s].command)'
    BY <2>2, <2>12, <2>14 DEF First, Flying, fly, FirstCommands
  <2> QED BY <2>2, <2>11, <2>12, <2>13, <2>14 DEF FlightOrdered, M
<1> QED BY <1>1, <1>2

LEMMA StationStays ==
  ASSUME StationInv(LoopCommands), UNCHANGED stationVars
  PROVE  StationInv(LoopCommands)'
BY DEF stationVars, StationInv, StationTypeOK, OlderHeld, DepsExact, HazardsOrdered, Valid, Issued

(* Engine::accept: the next work finds the engine quiet. *)
LEMMA AcceptKeeps ==
  ASSUME LoopInv, AcceptWork
  PROVE  LoopInv'
<1>1. /\ host = "retired" /\ work < Len(works) /\ work' = work + 1 /\ frame' = 1
      /\ host' = "accepting" /\ works' = works /\ scale' = scale /\ bridge' = bridge /\ raw' = raw
      /\ loop_input' = loop_input /\ loop' = loop /\ UNCHANGED stationVars
  BY DEF AcceptWork
<1>2. Quiet /\ BridgeAt("idle", FALSE, FALSE) /\ scale = "idle"
  BY <1>1, ReleasedQuiet
<1>3. unrolled' = unrolled /\ station' = station
  BY <1>1 DEF stationVars
<1>4. Quiet' /\ BridgeAt("idle", FALSE, FALSE)'
  BY <1>1, <1>2, <1>3 DEF Quiet, BridgeAt, Valid
<1>5. StationInv(LoopCommands)'
  BY <1>1, StationStays DEF LoopInv
<1>6. LoopTypes'
  <2>1. works \in Seq(Seq(Shapes)) /\ work \in 1..Len(works) /\ \A w \in 1..Len(works) : works[w] # <<>>
    BY LoopAssumption DEF LoopInv, LoopTypes
  <2>2. work + 1 \in 1..Len(works)
    BY <1>1, <2>1
  <2>3. works[work + 1] \in Seq(Shapes) /\ works[work + 1] # <<>>
    BY <2>1, <2>2
  <2>4. 1 \in 1..Len(works[work + 1])
    BY <2>3
  <2> QED BY <1>1, <2>2, <2>4 DEF LoopInv, LoopTypes
<1>7. Handshake'
  BY <1>1, <1>2, <1>4 DEF Handshake
<1>8. raw' = <<>> /\ loop_input' = <<>> /\ unrolled' = <<>> /\ ~bridge'.issued /\ ~loop'.configured
  BY <1>4 DEF Quiet, BridgeAt
<1>9. Len(raw') = 0 /\ Len(loop_input') = 0 /\ Len(unrolled') = 0
  BY <1>8
<1>10. InstructionOrder' /\ StagesTracked'
  BY <1>8, <1>9 DEF InstructionOrder, StagesTracked, Begun
<1>11. FlightOrdered'
  BY <1>4, <1>9 DEF FlightOrdered, Quiet
<1>12. CreditsExact'
  BY <1>1, <1>3 DEF LoopInv, CreditsExact, Valid
<1> QED BY <1>5, <1>6, <1>7, <1>10, <1>11, <1>12 DEF LoopInv

LEMMA LoopStarts == ASSUME LoopInit PROVE LoopInv
<1>1. StationInv(LoopCommands)
  BY DEF LoopInit, StationInit, StationInv, StationTypeOK, OlderHeld, DepsExact, HazardsOrdered, Valid, Issued
<1>2. Quiet
  BY DEF LoopInit, StationInit, Quiet, Valid, IdleLoop
<1>3. BridgeAt("idle", FALSE, FALSE) /\ host = "accepting" /\ scale = "idle" /\ ~bridge.issued
  BY DEF LoopInit, BridgeAt
<1>4. LoopTypes
  <2>1. works \in Schedules /\ work = 1 /\ frame = 1
    BY DEF LoopInit
  <2>2. works \in Seq(Seq(Shapes)) /\ works # <<>> /\ \A w \in 1..Len(works) : works[w] # <<>>
    BY <2>1, LoopAssumption
  <2>3. 1 \in 1..Len(works)
    BY <2>2
  <2>4. works[1] \in Seq(Shapes) /\ works[1] # <<>>
    BY <2>2, <2>3
  <2>5. 1 \in 1..Len(works[1])
    BY <2>4
  <2>6. bridge \in [state : {"idle", "sending", "done"}, index : 0..LastInstruction, pending : BOOLEAN,
                    issued : BOOLEAN, saw_busy : BOOLEAN]
    BY DEF LoopInit, LastInstruction
  <2>7. raw = <<>> /\ loop_input = <<>> /\ loop = IdleLoop
    BY DEF LoopInit
  <2>8. IdleLoop.position \in [1..4 -> Nat]
    <3>1. IdleLoop.position = <<0, 0, 0, 0>>
      BY DEF IdleLoop
    <3> QED BY <3>1
  <2>9. loop \in [configured : BOOLEAN, running : BOOLEAN, started : SUBSET Stages, completed : SUBSET Stages,
                  position : [1..4 -> Nat], utilized : [Queues -> Nat]]
    BY <2>7, <2>8 DEF IdleLoop
  <2> QED BY <2>1, <2>3, <2>5, <2>6, <2>7, <2>9 DEF LoopTypes
<1>5. Handshake
  BY <1>2, <1>3 DEF Handshake
<1>6. raw = <<>> /\ loop_input = <<>> /\ unrolled = <<>> /\ ~loop.configured /\ \A s \in Slots : ~Valid(s)
  BY <1>2 DEF Quiet
<1>7. Len(raw) = 0 /\ Len(loop_input) = 0 /\ Len(unrolled) = 0
  BY <1>6
<1>8. InstructionOrder /\ StagesTracked
  BY <1>3, <1>6, <1>7 DEF InstructionOrder, StagesTracked, Begun
<1>9. FlightOrdered
  BY <1>6, <1>7 DEF FlightOrdered
<1>10. ASSUME NEW q \in Queues PROVE CreditsAt(q)
  <2>1. Queued(unrolled, q) = {} /\ Holding(q) = {}
    BY <1>6, <1>7 DEF Queued, Holding
  <2>2. loop.utilized[q] = 0
    BY DEF LoopInit, IdleLoop
  <2>3. Entries[q] \in 1..16
    BY StationAssumption
  <2>4. Cardinality({}) = 0
    BY FS_EmptySet
  <2> QED BY <2>1, <2>2, <2>3, <2>4 DEF CreditsAt
<1>11. CreditsExact
  BY <1>10, CreditsByQueue
<1> QED BY <1>1, <1>4, <1>5, <1>8, <1>9, <1>11 DEF LoopInv

(* Engine::control with Engine::reservation under it keeps the invariant,  *)
(* for every schedule, every sizing of the queues and every order in which *)
(* commands complete.                                                      *)
THEOREM LoopInvariant == LoopSpec => []LoopInv
<1>1. LoopInit => LoopInv
  BY LoopStarts
<1>2. LoopInv /\ [LoopNext]_loopVars => LoopInv'
  <2> SUFFICES ASSUME LoopInv, [LoopNext]_loopVars PROVE LoopInv'
    OBVIOUS
  <2>1. ASSUME NEW done \in Completions, NEW issued \in SUBSET Issuable,
               NEW busy \in BusyValues, NEW loaded \in LoadedValues, Edge(done, issued, busy, loaded)
        PROVE  LoopInv'
    <3>1. StationInv(LoopCommands)'
      BY <2>1, StationKept
    <3>2. CreditsExact'
      BY <2>1, CreditsEdge
    <3>3. LoopTypes'
      BY <2>1, TypesEdge
    <3>4. Handshake'
      BY <2>1, HandshakeEdge
    <3>5. InstructionOrder'
      BY <2>1, InstructionEdge
    <3>6. StagesTracked'
      BY <2>1, StagesEdge
    <3>7. FlightOrdered'
      BY <2>1, FlightEdge
    <3> QED BY <3>1, <3>2, <3>3, <3>4, <3>5, <3>6, <3>7 DEF LoopInv
  <2>2. CASE AcceptWork
    BY <2>2, AcceptKeeps
  <2>3. CASE UNCHANGED loopVars
    <3>1. /\ UNCHANGED stationVars /\ works' = works /\ work' = work /\ frame' = frame /\ host' = host
          /\ scale' = scale /\ bridge' = bridge /\ raw' = raw /\ loop_input' = loop_input /\ loop' = loop
          /\ unrolled' = unrolled /\ station' = station /\ older' = older
      BY <2>3 DEF loopVars, controlVars, stationVars
    <3>2. StationInv(LoopCommands)'
      BY <3>1, StationStays DEF LoopInv
    <3>3. LoopTypes' /\ Handshake' /\ InstructionOrder'
      BY <3>1 DEF LoopInv, LoopTypes, Handshake, Working, BridgeAt, Quiet, Valid, InstructionOrder
    <3>4. StagesTracked'
      BY <3>1 DEF LoopInv, StagesTracked, Begun, WeightsFed, Frame
    <3>5. FlightOrdered'
      BY <3>1 DEF LoopInv, FlightOrdered, Flying, Begun, Frame, Valid
    <3>6. CreditsExact'
      BY <3>1 DEF LoopInv, CreditsExact, Valid
    <3> QED BY <3>2, <3>3, <3>4, <3>5, <3>6 DEF LoopInv
  <2> QED BY <2>1, <2>2, <2>3 DEF LoopNext
<1> QED BY <1>1, <1>2, PTL DEF LoopSpec

(* What a command in a slot needs has completed when it is issued. *)
LEMMA IssuedFed ==
  ASSUME LoopInv, NEW s \in Slots, Issued(s), NEW d \in Needs(Frame, station[s].command)
  PROVE  d \in Completed
<1> DEFINE c == station[s].command
<1>1. Valid(s) /\ Flying(c)
  BY DEF Issued, LoopInv, FlightOrdered
<1>2. ~Config(c)
  BY DEF Config, Needs
<1>3. c \in Known /\ d \in Known
  BY <1>1, <1>2 DEF Flying, Known
<1>4. PICK p \in 1..4 : \E n \in Nat : n < loop.position[p] /\ c = ProgramCommand(Frame, p, n)
  BY <1>3, KnownAre
<1>5. PICK n \in Nat : c = ProgramCommand(Frame, p, n)
  BY <1>4
<1>6. Frame \in Shapes
  BY FrameTyped DEF LoopInv
<1>7. Queue(d) # Queue(c) /\ Conflict(d, c)
  <2> HIDE DEF c
  <2>1. d \in Needs(Frame, ProgramCommand(Frame, p, n))
    BY <1>5 DEF c
  <2> QED BY <1>5, <1>6, <2>1, NeedsConflict
<1>8. d \notin InFlight
  <2> SUFFICES ASSUME d \in InFlight PROVE FALSE
    OBVIOUS
  <2>1. \A m \in 1..Len(unrolled) : unrolled[m] # d
    BY <1>1 DEF LoopInv, FlightOrdered
  <2>2. PICK t \in Slots : Valid(t) /\ station[t].command = d
    BY <2>1 DEF InFlight
  <2>3. t \in older[s]
    BY <1>1, <2>2 DEF LoopInv, FlightOrdered
  <2>4. ~Conflict(station[t].command, c)
    BY <1>7, <2>2, <2>3 DEF LoopInv, StationInv, HazardsOrdered
  <2> QED BY <1>7, <2>2, <2>4
<1> QED BY <1>3, <1>8 DEF Completed, Known

LEMMA LoopDataReady == ASSUME LoopInv PROVE DataReady
<1> SUFFICES ASSUME NEW s \in Slots, Issued(s)
             PROVE  LET c == station[s].command IN
                    CASE c.kind = "Compute" -> LoadA(c.i, c.k) \in Completed
                      [] c.kind = "Preload" -> c.i = 0 => LoadB(c.k, c.j) \in Completed
                      [] c.kind = "Store" -> \A k \in 0..(Frame.k - 1) :
                                Preload([i |-> c.i, j |-> c.j, k |-> k]) \in Completed
                      [] OTHER -> TRUE
  BY DEF DataReady
<1> DEFINE c == station[s].command
<1>1. \A d \in Needs(Frame, c) : d \in Completed
  BY IssuedFed
<1> HIDE DEF c
<1>2. CASE c.kind = "Compute"
  <2>1. LoadA(c.i, c.k) \in Needs(Frame, c)
    BY <1>2 DEF Needs
  <2> QED BY <1>1, <1>2, <2>1 DEF c
<1>3. CASE c.kind = "Preload"
  <2>1. c.i = 0 => LoadB(c.k, c.j) \in Needs(Frame, c)
    BY <1>3 DEF Needs
  <2> QED BY <1>1, <1>3, <2>1 DEF c
<1>4. CASE c.kind = "Store"
  <2>1. \A k \in 0..(Frame.k - 1) : Preload([i |-> c.i, j |-> c.j, k |-> k]) \in Needs(Frame, c)
    BY <1>4 DEF Needs
  <2> QED BY <1>1, <1>4, <2>1 DEF c
<1>5. CASE c.kind \notin {"Compute", "Preload", "Store"}
  BY <1>5 DEF c
<1> QED BY <1>2, <1>3, <1>4, <1>5

LEMMA LoopFrameDrained == ASSUME LoopInv PROVE FrameDrained
<1> SUFFICES ASSUME bridge.state = "done"
             PROVE  /\ Completed = FirstCommands(Frame, [p \in 1..4 |-> ProgramLength(Frame, p)])
                    /\ InFlight = {} /\ raw = <<>> /\ loop_input = <<>> /\ ~loop.configured
  BY DEF FrameDrained
<1>1. Quiet /\ bridge.issued
  BY DEF LoopInv, Handshake, Working, BridgeAt
<1>2. raw = <<>> /\ loop_input = <<>> /\ ~loop.configured /\ unrolled = <<>> /\ \A s \in Slots : ~Valid(s)
  BY <1>1 DEF Quiet
<1>3. Len(unrolled) = 0
  BY <1>2
<1>4. InFlight = {}
  BY <1>2, <1>3 DEF InFlight
<1>5. loop.position = [p \in 1..4 |-> ProgramLength(Frame, p)]
  <2>1. loop.position \in [1..4 -> Nat]
    BY DEF LoopInv, LoopTypes
  <2>2. \A p \in 1..4 : loop.position[p] = ProgramLength(Frame, p)
    BY <1>1, <1>2 DEF LoopInv, StagesTracked, Begun
  <2> QED BY <2>1, <2>2
<1> QED BY <1>2, <1>4, <1>5 DEF Completed

(* Engine::control: no command is issued before its data, the credits are  *)
(* those of the commands in flight, and a frame is reported done only when *)
(* all of it has been unrolled and has completed.                          *)
THEOREM LoopControlSafe == LoopSpec => []LoopSafe
<1>1. LoopInv => LoopSafe
  <2> SUFFICES ASSUME LoopInv PROVE LoopSafe
    OBVIOUS
  <2>1. CreditsExact
    BY DEF LoopInv
  <2> QED BY <2>1, LoopDataReady, LoopFrameDrained DEF LoopSafe
<1> QED BY <1>1, LoopInvariant, PTL
============================================================================
