--------------------------- MODULE MatmulScheduler ---------------------------
(***************************************************************************)
(* The tile scheduler of the RTL core (src/src/control/MatmulScheduler.bsv)*)
(* One matmul is cut into tiles of at most Dim x Dim; in AsyncStripes mode *)
(* the rows arrive in stripes that the host publishes while earlier ones   *)
(* are being computed.  A rule or an action method of the BSV module is an *)
(* action here: BSV rules are atomic.                                      *)
(*                                                                         *)
(* An address register is modelled by what it counts: the row or column    *)
(* whose first byte it holds.  The element sizes and strides that multiply *)
(* the counts are left out, the incremental updates are not.               *)
(***************************************************************************)
EXTENDS CoreParameters

CONSTANTS FifoDepth,    \* mkSizedFIFOF(2), the stripe and completion FIFOs
          Descriptors   \* the matmuls the host may start

ASSUME SchedulerAssumption ==
  /\ FifoDepth \in Nat \ {0}
  /\ \A d \in Descriptors :
       /\ d.mode \in {"FullMatrix", "AsyncStripes"}
       /\ d.rows \in Nat \ {0} /\ d.columns \in Nat \ {0}
       /\ d.tileI \in 1..Dim /\ d.tileJ \in 1..Dim

VARIABLES
  mstate,              \* stateReg
  descriptor,          \* descriptorReg
  startPending, acknowledgePending,
  stripeFifo, completionFifo,
  stripe,              \* the stripe*Reg registers: [id, begin, count]
  lookaheadStripe,     \* <<>> or <<stripe>>: lookaheadStripe(Valid)Reg
  publishedRows,
  iStart, jStart,
  address,             \* the four base registers, see above
  completionPending

schedVars == <<mstate, descriptor, startPending, acknowledgePending, stripeFifo,
               completionFifo, stripe, lookaheadStripe, publishedRows, iStart,
               jStart, address, completionPending>>

Stripe == [id: Nat, begin: Nat, count: Nat]

boundedTileCount(start, total, requested) ==
  Least(total - start, Least(requested, Dim))

\* Fault: the last row is left out.
StripeEnd_OneLess == stripe.begin + stripe.count - 1
StripeEnd == stripe.begin + stripe.count
iCount == boundedTileCount(iStart, StripeEnd, descriptor.tileI)
jCount == boundedTileCount(jStart, descriptor.columns, descriptor.tileJ)

\* The registers a tile's first byte is read from or written to.
StripeBases(s) == [activation |-> s.begin, weight |-> 0, scale |-> 0,
                   outputRow |-> s.begin, output |-> <<s.begin, 0>>]

Async == descriptor.mode = "AsyncStripes"

SchedInit ==
  /\ mstate = "Idle" /\ startPending = FALSE /\ acknowledgePending = FALSE
  /\ descriptor \in Descriptors
  /\ stripeFifo = <<>> /\ completionFifo = <<>> /\ lookaheadStripe = <<>>
  /\ stripe = [id |-> 0, begin |-> 0, count |-> 0]
  /\ publishedRows = 0 /\ iStart = 0 /\ jStart = 0
  /\ address = StripeBases(stripe)
  /\ completionPending = FALSE

-----------------------------------------------------------------------------
(* Methods the core calls                                                  *)

start(d) ==
  /\ mstate = "Idle" /\ ~startPending
  /\ descriptor' = d /\ startPending' = TRUE
  /\ UNCHANGED <<mstate, acknowledgePending, stripeFifo, completionFifo, stripe,
                 lookaheadStripe, publishedRows, iStart, jStart, address,
                 completionPending>>

publishStripe(s) ==
  /\ mstate \notin {"Idle", "Done"} /\ Async
  /\ Len(stripeFifo) < FifoDepth
  /\ stripeFifo' = Append(stripeFifo, s)
  /\ publishedRows' = publishedRows + s.count
  /\ UNCHANGED <<mstate, descriptor, startPending, acknowledgePending,
                 completionFifo, stripe, lookaheadStripe, iStart, jStart, address,
                 completionPending>>

workValid == mstate = "OfferWork"

\* The tile offered to the core.
Work == [job |-> descriptor.id, stripe |-> stripe.id, i |-> iStart, j |-> jStart,
         ic |-> iCount, jc |-> jCount, activation |-> address.activation,
         weight |-> address.weight, scale |-> address.scale,
         output |-> address.output]

acceptWork ==
  /\ mstate = "OfferWork"
  /\ mstate' = "WaitWork"
  /\ UNCHANGED <<descriptor, startPending, acknowledgePending, stripeFifo,
                 completionFifo, stripe, lookaheadStripe, publishedRows, iStart,
                 jStart, address, completionPending>>

completeWork ==
  /\ mstate = "WaitWork" /\ ~completionPending
  /\ completionPending' = TRUE
  /\ UNCHANGED <<mstate, descriptor, startPending, acknowledgePending, stripeFifo,
                 completionFifo, stripe, lookaheadStripe, publishedRows, iStart,
                 jStart, address>>

acknowledgeCompletion ==
  /\ completionFifo # <<>>
  /\ completionFifo' = Tail(completionFifo)
  /\ UNCHANGED <<mstate, descriptor, startPending, acknowledgePending, stripeFifo,
                 stripe, lookaheadStripe, publishedRows, iStart, jStart, address,
                 completionPending>>

acknowledge ==
  /\ mstate = "Done" /\ ~acknowledgePending
  /\ acknowledgePending' = TRUE
  /\ UNCHANGED <<mstate, descriptor, startPending, stripeFifo, completionFifo,
                 stripe, lookaheadStripe, publishedRows, iStart, jStart, address,
                 completionPending>>

-----------------------------------------------------------------------------
(* The lookahead the core prepares while a tile is computed                *)

\* Fault: a row of tiles behind the last one.
hasLookahead_OneMore ==
  \/ ~Async /\ mstate \notin {"Idle", "Done"} /\ iStart + iCount <= descriptor.rows
  \/ Async /\ lookaheadStripe # <<>>

hasLookahead ==
  \/ ~Async /\ mstate \notin {"Idle", "Done"} /\ iStart + iCount < descriptor.rows
  \/ Async /\ lookaheadStripe # <<>>

LookaheadWork ==
  LET s     == IF Async THEN lookaheadStripe[1] ELSE stripe
      nextI == IF Async THEN s.begin ELSE iStart + iCount
      end   == IF Async THEN s.begin + s.count ELSE descriptor.rows
  IN  [job |-> descriptor.id, stripe |-> IF Async THEN s.id ELSE 0,
       i |-> nextI, j |-> 0,
       ic |-> boundedTileCount(nextI, end, descriptor.tileI),
       jc |-> boundedTileCount(0, descriptor.columns, descriptor.tileJ),
       activation |-> IF Async THEN s.begin ELSE address.activation + iCount,
       weight |-> 0, scale |-> 0,
       output |-> <<IF Async THEN s.begin ELSE address.outputRow + iCount, 0>>]

\* No further tile of the current row of tiles, or of the current stripe,
\* comes before the lookahead.
lookaheadPreloadSafe ==
  /\ jStart + jCount >= descriptor.columns
  /\ Async => iStart + iCount >= StripeEnd

-----------------------------------------------------------------------------
(* Rules                                                                   *)

beginMatmul ==
  /\ mstate = "Idle" /\ startPending
  /\ startPending' = FALSE
  /\ iStart' = 0 /\ jStart' = 0
  /\ IF Async
       THEN /\ publishedRows' = 0 /\ mstate' = "WaitStripe"
            /\ stripe' = stripe
       ELSE /\ publishedRows' = descriptor.rows /\ mstate' = "OfferWork"
            /\ stripe' = [id |-> 0, begin |-> 0, count |-> descriptor.rows]
  \* the activation base is part of the stripe registers, the others are not
  /\ address' = [StripeBases([begin |-> 0])
                   EXCEPT !.activation = IF Async THEN address.activation ELSE 0]
  /\ UNCHANGED <<descriptor, acknowledgePending, stripeFifo, completionFifo,
                 lookaheadStripe, completionPending>>

finishAcknowledge ==
  /\ mstate = "Done" /\ acknowledgePending
  /\ acknowledgePending' = FALSE /\ mstate' = "Idle"
  /\ UNCHANGED <<descriptor, startPending, stripeFifo, completionFifo, stripe,
                 lookaheadStripe, publishedRows, iStart, jStart, address,
                 completionPending>>

\* The registers a stripe is loaded into when it becomes the current one.
MakeCurrent(s) ==
  /\ stripe' = s
  /\ iStart' = s.begin /\ jStart' = 0
  /\ address' = StripeBases(s)
  /\ mstate' = "OfferWork"

activatePublishedStripe ==
  /\ mstate = "WaitStripe" /\ stripeFifo # <<>>
  /\ stripeFifo' = Tail(stripeFifo)
  /\ MakeCurrent(Head(stripeFifo))
  /\ UNCHANGED <<descriptor, startPending, acknowledgePending, completionFifo,
                 lookaheadStripe, publishedRows, completionPending>>

capturePublishedLookahead ==
  /\ Async /\ mstate \notin {"Idle", "WaitStripe", "Done"}
  /\ lookaheadStripe = <<>> /\ stripeFifo # <<>>
  /\ lookaheadStripe' = <<Head(stripeFifo)>>
  /\ stripeFifo' = Tail(stripeFifo)
  /\ UNCHANGED <<mstate, descriptor, startPending, acknowledgePending,
                 completionFifo, stripe, publishedRows, iStart, jStart, address,
                 completionPending>>

\* The three ways on from a completed tile: the next tile of the row, the
\* first tile of the next row, the end of the stripe.
NextColumn ==
  /\ jStart + jCount < descriptor.columns
  /\ jStart' = jStart + jCount
  /\ address' = [address EXCEPT !.weight = @ + jCount, !.scale = @ + jCount,
                                !.output = <<@[1], @[2] + jCount>>]
  /\ mstate' = "OfferWork"
  /\ UNCHANGED <<iStart, stripe, lookaheadStripe, completionFifo>>

NextRow ==
  /\ jStart + jCount >= descriptor.columns
  /\ iStart + iCount < StripeEnd
  /\ iStart' = iStart + iCount /\ jStart' = 0
  /\ LET next == address.outputRow + iCount
     IN  address' = [activation |-> address.activation + iCount, weight |-> 0,
                     scale |-> 0, outputRow |-> next, output |-> <<next, 0>>]
  /\ mstate' = "OfferWork"
  /\ UNCHANGED <<stripe, lookaheadStripe, completionFifo>>

\* Nothing is left of this matmul.
LastStripe == ~Async \/ (publishedRows = descriptor.rows /\ stripeFifo = <<>>
                                                      /\ lookaheadStripe = <<>>)

\* Fault: the completion is built from the registers of the stripe after it.
EndStripe_NextCompletion ==
  /\ jStart + jCount >= descriptor.columns /\ iStart + iCount >= StripeEnd
  /\ completionFifo' = IF lookaheadStripe # <<>>
                         THEN Append(completionFifo, lookaheadStripe[1])
                         ELSE Append(completionFifo, stripe)
  /\ IF lookaheadStripe # <<>>
       THEN MakeCurrent(lookaheadStripe[1]) /\ lookaheadStripe' = <<>>
       ELSE /\ mstate' = IF LastStripe THEN "Done" ELSE "WaitStripe"
            /\ UNCHANGED <<stripe, iStart, jStart, address, lookaheadStripe>>

EndStripe ==
  /\ jStart + jCount >= descriptor.columns /\ iStart + iCount >= StripeEnd
  /\ completionFifo' = IF Async THEN Append(completionFifo, stripe) ELSE completionFifo
  /\ IF LastStripe
       THEN mstate' = "Done" /\ UNCHANGED <<stripe, iStart, jStart, address,
                                            lookaheadStripe>>
       ELSE IF lookaheadStripe # <<>>
         THEN MakeCurrent(lookaheadStripe[1]) /\ lookaheadStripe' = <<>>
         ELSE mstate' = "WaitStripe" /\ UNCHANGED <<stripe, iStart, jStart, address,
                                                    lookaheadStripe>>

advanceCompletedWork ==
  /\ mstate = "WaitWork" /\ completionPending
  /\ ~Async \/ Len(completionFifo) < FifoDepth
  /\ completionPending' = FALSE
  /\ NextColumn \/ NextRow \/ EndStripe
  /\ UNCHANGED <<descriptor, startPending, acknowledgePending, stripeFifo,
                 publishedRows>>

SchedRule == \/ beginMatmul \/ finishAcknowledge \/ activatePublishedStripe
             \/ capturePublishedLookahead \/ advanceCompletedWork
=============================================================================
