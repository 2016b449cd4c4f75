------------------------------ MODULE HostedCore ------------------------------
(***************************************************************************)
(* The RTL core with its host: the Rust simulator driver that starts       *)
(* matmuls, publishes stripes, answers the memory requests and takes the   *)
(* results (sim/src/simulator/matmul.rs, striped.rs, striped/provider.rs). *)
(*                                                                         *)
(* The driver runs one matmul after another.  In every turn of its loop it *)
(* looks at each request channel and at the stripe completions; an answer  *)
(* it stages takes effect at the next clock edge.  Here it may answer any  *)
(* visible request at any time, which covers every latency.                *)
(***************************************************************************)
EXTENDS MatrixCore

CONSTANTS Jobs,           \* the matmuls, in the order they are run
          StripeRows      \* the rows of a published stripe

ASSUME JobsAssumption ==
  /\ Descriptors = {Jobs[n] : n \in 1..Len(Jobs)}
  /\ StripeRows \in Nat \ {0}
  /\ \A d \in Descriptors :
       /\ d.k \in Nat \ {0} /\ d.kOrigin \in Nat /\ d.block \in Nat \ {0}
       /\ d.scaleK >= d.kOrigin + d.k
       /\ d.op \in {"Bypass", "Multiply", "External"}

VARIABLES
  started,     \* matmuls started so far
  published,   \* StripedMatmul::published, the stripes not yet completed
  nextRow,     \* StripedMatmul::next_row
  written      \* the output rows acknowledged, in order

hostVars == <<started, published, nextRow, written>>
vars == <<schedVars, workVars, coreVars, hostVars>>

Init ==
  /\ SchedInit /\ WorkInit /\ CoreInit
  /\ started = 0 /\ published = <<>> /\ nextRow = 0 /\ written = <<>>

-----------------------------------------------------------------------------
start_matmul ==
  /\ started < Len(Jobs)
  /\ startMatmul(Jobs[started + 1])
  /\ started' = started + 1 /\ published' = <<>> /\ nextRow' = 0
  /\ UNCHANGED written

publish_stripe ==
  /\ nextRow < descriptor.rows
  /\ LET s == [id |-> nextStripeId, begin |-> nextRow,
               count |-> Least(StripeRows, descriptor.rows - nextRow)]
     IN  /\ publishActivationStripe(s.begin, s.count)
         /\ published' = Append(published, s) /\ nextRow' = nextRow + s.count
  /\ UNCHANGED <<started, written>>

\* Fault: a lookahead request is only looked up in a second stripe.
RequestStripe_NoFallback(q) ==
  LET n == IF q.lookahead THEN 2 ELSE 1
  IN  IF n <= Len(published) THEN {published[n]} ELSE {}

\* The published stripe an activation request is looked up in, from its tag:
\* the second one for a lookahead tag if there is a second one, else the first.
RequestStripe(q) ==
  IF published = <<>> THEN {}
  ELSE {published[IF q.lookahead /\ Len(published) >= 2 THEN 2 ELSE 1]}

\* activation_request: a request outside that stripe's rows is an error, which
\* pending_activation_row turns into "no request".
Decoded(q) ==
  Async => \E s \in RequestStripe(q) : q.at \in s.begin..(s.begin + s.count - 1)

service_activation ==
  /\ \E q \in ActivationRequest : Decoded(q) /\ putActivationReadResponse(q)
  /\ UNCHANGED hostVars

service_weight == putWeightReadResponse /\ UNCHANGED hostVars
service_scale == putScaleReadResponse /\ UNCHANGED hostVars

service_output ==
  /\ putOutputWriteResponse
  /\ written' = Append(written, OutputAddress)
  /\ UNCHANGED <<started, published, nextRow>>

drain_completion ==
  /\ acknowledgeStripeCompletion
  /\ published' = Tail(published)
  /\ UNCHANGED <<started, nextRow, written>>

\* The turn that sees the matmul done has drained the completions and served
\* the scale channel: both were visible in an earlier turn.
acknowledge_matmul ==
  /\ completionFifo = <<>> /\ sc.chan = <<>>
  /\ acknowledgeMatmul
  /\ UNCHANGED hostVars

HostStep ==
  \/ start_matmul \/ publish_stripe \/ service_activation \/ service_weight
  \/ service_scale \/ service_output \/ drain_completion \/ acknowledge_matmul

AllRun == started = Len(Jobs) /\ mstate = "Idle" /\ ~startPending /\ mx = "Idle"

Next ==
  \/ CoreRule /\ UNCHANGED hostVars
  \/ HostStep
  \/ AllRun /\ UNCHANGED vars

Spec == Init /\ [][Next]_vars /\ WF_vars(Next)

-----------------------------------------------------------------------------
(* Properties                                                              *)

\* The products one committed row added to a cell of column c: activation
\* element k times weight element k, with the scale row that multiplied it.
Products(sum) ==
  {[l |-> l, k |-> sum.a.k + l, w |-> sum.w[l], s |-> sum.s] :
     l \in {l \in Lanes : l < sum.a.kc /\ sum.w[l] # ZeroWeights}}

\* The reduction an output row stands for: all of K, or one block of it.
Reduction(o) ==
  {k \in 0..(descriptor.k - 1) :
     BlockOutput => (descriptor.kOrigin + k) \div descriptor.block = o.blk}

\* When a row of results is offered to the host, the accumulator row behind it
\* is exactly the dot product for that address: every k of the reduction once,
\* with that row's activations, that tile's weights and that k's scale row, all
\* of this matmul, whatever was prefetched, reused or promoted on the way.
OutputsExact ==
  out.state = "Visible" =>
    LET o    == OutputAddress
        sums == acc[out.row]
    IN  /\ \A n \in 1..Len(sums) :
             /\ sums[n].a.job = o.job /\ sums[n].a.row = o.row
             /\ \A p \in Products(sums[n]) :
                  /\ p.w = WeightsAt(p.k, o.col, o.jc)
                  /\ UsesScale =>
                       p.s[1].value = ScalesAt((descriptor.kOrigin + p.k)
                                                 \div descriptor.block, o.col, o.jc)
        /\ \A k \in Reduction(o) :
             Cardinality({n \in 1..Len(sums) : \E p \in Products(sums[n]) : p.k = k}) = 1
        /\ \A n \in 1..Len(sums) : \A p \in Products(sums[n]) : p.k \in Reduction(o)

\* The cells of the output matrix an acknowledged row covers.
Cells(w) == {<<w.job, w.blk, w.row, c>> : c \in w.col..(w.col + w.jc - 1)}

AllCells(d) ==
  {<<d.id, b, i, j>> :
     b \in IF d.op = "External"
             THEN {(d.kOrigin + k) \div d.block : k \in 0..(d.k - 1)} ELSE {0},
     i \in 0..(d.rows - 1), j \in 0..(d.columns - 1)}

\* A matmul that reports done has had every cell of its output acknowledged
\* exactly once: no tile skipped, none computed twice, across stripes too.
EachCellOnce ==
  mx = "Done" =>
    LET mine == {n \in 1..Len(written) : written[n].job = descriptor.id}
    IN  /\ UNION {Cells(written[n]) : n \in mine} = AllCells(descriptor)
        /\ \A m, n \in mine : m # n => Cells(written[m]) \cap Cells(written[n]) = {}

\* "jobs drain before restart": when a matmul is done nothing of it is left in
\* the core that the next one could pick up.
JobsDrain ==
  mx = "Done" =>
    /\ la.phase = "None" /\ wla.phase = "None" /\ la.preload = <<>>
    /\ la.aChan = <<>> /\ la.wChan = <<>> /\ la.sChan = <<>>
    /\ act.chan = <<>> /\ act.resp = <<>> /\ wl.chan = <<>> /\ ~wl.loading
    /\ sc.pend = <<>> /\ eng.state = "Idle" /\ ws.state = "Idle"
    /\ stripeFifo = <<>> /\ lookaheadStripe = <<>> /\ out.state = "None"

\* A matmul is right when it is done: the output rows hold the sums they
\* should, each cell was written once, and nothing of it is left in the core.
MatmulRight == OutputsExact /\ EachCellOnce /\ JobsDrain

\* The assertions of the core hold in every state where their rule can fire:
\* a response finds the slot it was asked for, no row is published twice, no
\* load touches the bank being computed with, and a scale answer a pending
\* execution waits for is the one it waits for.
AssertionsHold ==
  /\ act.chan # <<>> =>
       LET q == act.chan[1]
       IN  /\ act.meta[q.slot] = <<[k |-> q.k, kc |-> q.kc]>>
           /\ act.rows[q.slot][q.row] = <<>> /\ q.row < work.ic
           /\ Async => work.i + work.ic <= publishedRows
  /\ act.resp # <<>> => act.rows[act.resp[1].slot][act.resp[1].row] = <<>>
  /\ wl.loading => wl.bank # eng.bank
  /\ la.preload # <<>> /\ la.preload[1].row < Dim => la.preload[1].bank # eng.bank
  /\ sc.chan # <<>> /\ sc.chan[1].kind = "Demand" =>
       sc.pend = <<[context |-> sc.chan[1].context, blk |-> sc.chan[1].blk]>>
  /\ la.phase = "None" => la.sChan = <<>>

\* "Tags are opaque on the host-memory ABI" (IM2PCore.bsv): once the host has
\* taken the completions, it finds every visible activation request among the
\* stripes it published, whichever owner the tag names.
RequestsDecode ==
  completionFifo = <<>> => \A q \in ActivationRequest : Decoded(q)

\* The completion the host takes is that of its oldest published stripe.
CompletionsInOrder ==
  completionFifo # <<>> => published # <<>> /\ Head(completionFifo) = Head(published)

\* The host and the core agree about stripes: requests decode, completions
\* come in the order of publication.
StripesAgree == RequestsDecode /\ CompletionsInOrder

\* Every matmul ends: no prefetch, lookahead or promotion waits for ever.
MatmulsFinish == <>AllRun
=============================================================================
