---------------------------- MODULE WorkScheduler ----------------------------
(***************************************************************************)
(* The K scheduler of the RTL core (src/src/control/WorkScheduler.bsv): the*)
(* reduction of one tile is cut into fragments of at most Dim, and a scaled*)
(* fragment never crosses a scale block.  While one tile is scheduled, the *)
(* first fragment of the tile after it can be prepared on the side.        *)
(*                                                                         *)
(* The serial divider that finds the block of the first k is modelled by   *)
(* its result; that it takes time is the Prepare state.                    *)
(***************************************************************************)
EXTENDS CoreParameters

VARIABLES
  ws,      \* the current work: [state, c, first, k, blk, rem]
  wla      \* the prepared one: [phase, c, blk, rem]

workVars == <<ws, wla>>

\* The arguments of start: c = [origin, reduction, block, usesScale, reset].
NoConfig == [origin |-> 0, reduction |-> 0, block |-> 0, usesScale |-> FALSE,
             reset |-> FALSE]

WorkInit ==
  /\ ws = [state |-> "Idle", c |-> NoConfig, first |-> TRUE, k |-> 0,
           blk |-> 0, rem |-> 0]
  /\ wla = [phase |-> "None", c |-> NoConfig, blk |-> 0, rem |-> 0]

boundedFragmentCount(remainingK, remainingInBlock, usesScale) ==
  LET count == Least(remainingK, Dim)
  IN  IF usesScale THEN Least(remainingInBlock, count) ELSE count

TotalK == ws.c.origin + ws.c.reduction
currentCount == boundedFragmentCount(TotalK - ws.k, ws.rem, ws.c.usesScale)

\* The block position a divider has to be started for.
NeedsDivision(c) == c.usesScale /\ c.origin >= c.block
FirstRemaining(c) == IF c.usesScale THEN c.block - c.origin ELSE 0

-----------------------------------------------------------------------------
workStart(c) ==
  /\ ws.state = "Idle"
  /\ ws' = [state |-> IF NeedsDivision(c) THEN "Prepare" ELSE "OfferFragment",
            c |-> c, first |-> TRUE, k |-> c.origin, blk |-> 0,
            rem |-> FirstRemaining(c)]

\* blockIndex and offset of mkBlockPosition.
finishPreparation ==
  /\ ws.state = "Prepare"
  /\ ws' = [ws EXCEPT !.state = "OfferFragment",
                      !.blk = ws.c.origin \div ws.c.block,
                      !.rem = ws.c.block - (ws.c.origin % ws.c.block)]
  /\ UNCHANGED wla

prepareLookahead(c) ==
  /\ wla.phase = "None"
  /\ wla' = [phase |-> IF NeedsDivision(c) THEN "Pending" ELSE "Valid", c |-> c,
             blk |-> 0, rem |-> FirstRemaining(c)]

finishLookaheadDivision ==
  /\ wla.phase = "Pending"
  /\ wla' = [wla EXCEPT !.phase = "Valid",
                        !.blk = wla.c.origin \div wla.c.block,
                        !.rem = wla.c.block - (wla.c.origin % wla.c.block)]
  /\ UNCHANGED ws

lookaheadKCount == boundedFragmentCount(wla.c.reduction, wla.rem, wla.c.usesScale)

startPrepared ==
  /\ ws.state = "Idle" /\ wla.phase = "Valid"
  /\ ws' = [state |-> "OfferFragment", c |-> wla.c, first |-> TRUE,
            k |-> wla.c.origin, blk |-> wla.blk, rem |-> wla.rem]
  /\ wla' = [wla EXCEPT !.phase = "None"]

-----------------------------------------------------------------------------
\* The fragment on offer.
fragmentValid == ws.state = "OfferFragment"
fragmentAccumulate ==
  ~(ws.c.reset /\ ws.c.usesScale /\ ws.rem = ws.c.block) /\ ~ws.first
fragmentEndsBlock ==
  ws.c.usesScale /\ (ws.k + currentCount >= TotalK \/ currentCount = ws.rem)

Fragmenting == ws.state \in {"OfferFragment", "WaitFragment"}
hasNextFragment == ws.k + currentCount < TotalK
nextFragmentKStart == ws.k + currentCount
NextRemaining == IF currentCount = ws.rem THEN ws.c.block ELSE ws.rem - currentCount
nextFragmentKCount ==
  boundedFragmentCount(TotalK - nextFragmentKStart, NextRemaining, ws.c.usesScale)

acceptFragment == fragmentValid /\ ws' = [ws EXCEPT !.state = "WaitFragment"]

completeFragment ==
  /\ ws.state = "WaitFragment"
  /\ ws' = IF ~hasNextFragment THEN [ws EXCEPT !.state = "Done"]
           ELSE LET turn == ws.c.usesScale /\ currentCount = ws.rem
                IN  [ws EXCEPT !.state = "OfferFragment", !.first = FALSE,
                               !.k = nextFragmentKStart,
                               !.blk = IF turn THEN @ + 1 ELSE @,
                               !.rem = IF ws.c.usesScale THEN NextRemaining ELSE @]

workAcknowledge == ws.state = "Done" /\ ws' = [ws EXCEPT !.state = "Idle"]
=============================================================================
