------------------------------ MODULE MatrixCore ------------------------------
(***************************************************************************)
(* The matrix path of the RTL core (src/src/core/IM2PCore.bsv): how the    *)
(* operands of a tile reach the systolic array and its results the host    *)
(* memory.  While one tile is computed the core fetches the next K         *)
(* fragment into the other weight bank and activation slot, and prepares   *)
(* the first fragment of the tile after it (the lookahead): its activation *)
(* rows, its weights, its scale row.  Everything prefetched is found again *)
(* by comparing metadata, never by waiting, so what can go wrong is that a *)
(* stale operand matches.                                                  *)
(*                                                                         *)
(* A BSV rule or action method is atomic and is one action here.  Any order*)
(* in which the hardware fires its rules is a behaviour of this module.    *)
(* Values are labels that say which host data they are: an activation row  *)
(* is its matrix row and k range, a weight row its k and columns, a scale  *)
(* row its block and columns.  The array is modelled by what it delivers:  *)
(* rows are committed in order, at any time after they were fed; the skew  *)
(* between columns, the vector unit's groups and all counters are left out.*)
(* An optional register (a Reg#(Bool) valid and its payload) is a sequence *)
(* of length 0 or 1.  Left out: the raw execution interface of an idle     *)
(* core, and accumulate_first_fragment, which every host call sets to 0.   *)
(***************************************************************************)
EXTENDS MatmulScheduler, WorkScheduler, FiniteSets

VARIABLES
  mx,      \* matrixStateReg
  work,    \* matrixWorkReg
  frag,    \* the matrixFragment*Reg registers
  act,     \* the activation slots and channel
  wl,      \* the weight loader and its channel
  banks,   \* [resident, preloaded]: what the two weight banks are known to hold
  sc,      \* scale rows: current, next, the request, the pending execution
  la,      \* the lookahead registers
  eng,     \* the systolic engine
  acc,     \* the accumulator rows, as the sequence of what was added
  out,     \* the output channel
  nextStripeId

coreVars == <<mx, work, frag, act, wl, banks, sc, la, eng, acc, out, nextStripeId>>

Slots == {0, 1}
NoRows == [r \in Lanes |-> <<>>]

\* A weight row the array multiplies by zero.
ZeroWeights == [job |-> 0, k |-> -1, col |-> 0, jc |-> 0]

NoWork == [job |-> 0, stripe |-> 0, i |-> 0, j |-> 0, ic |-> 0, jc |-> 0,
           activation |-> 0, weight |-> 0, scale |-> 0, output |-> <<0, 0>>]

CoreInit ==
  /\ mx = "Idle" /\ work = NoWork /\ nextStripeId = 0
  /\ frag = [k |-> 0, kc |-> 0, acc |-> FALSE, ends |-> FALSE, blk |-> 0,
             rem |-> 0, bank |-> 0]
  /\ act = [meta |-> [s \in Slots |-> <<>>], req |-> [s \in Slots |-> 0],
            rows |-> [s \in Slots |-> NoRows], cur |-> 0, feed |-> 0,
            chan |-> <<>>, resp |-> <<>>]
  /\ wl = [loading |-> FALSE, isNext |-> FALSE, bank |-> 0, k |-> 0, kc |-> 0,
           row |-> 0, chan |-> <<>>, promoted |-> 0]
  /\ banks = [resident |-> [b \in Slots |-> <<>>], preloaded |-> <<>>]
  /\ sc = [cur |-> <<>>, next |-> <<>>, need |-> FALSE, chan |-> <<>>,
           pend |-> <<>>, blockEnd |-> 0, totalK |-> 0]
  /\ la = [phase |-> "None", work |-> NoWork, kc |-> 0, blk |-> 0,
           aRow |-> 0, aChan |-> <<>>, aRows |-> NoRows,
           wRow |-> 0, wChan |-> <<>>, wRows |-> NoRows,
           fetched |-> FALSE, checked |-> FALSE, reusable |-> FALSE,
           scale |-> <<>>, sChan |-> <<>>, preload |-> <<>>]
  /\ eng = [state |-> "Idle", bank |-> 0, w |-> [b \in Slots |-> NoRows],
            rows |-> 0, fed |-> <<>>, done |-> 0, acc |-> FALSE, scale |-> <<>>]
  /\ acc = [r \in Lanes |-> <<>>]
  /\ out = [row |-> 0, state |-> "None", final |-> FALSE]

UsesScale == descriptor.op # "Bypass"
BlockOutput == descriptor.op = "External"

\* The arguments the core passes to its K scheduler.
WorkConfig == [origin |-> descriptor.kOrigin, reduction |-> descriptor.k,
               block |-> descriptor.block, usesScale |-> UsesScale,
               reset |-> BlockOutput]
Local(k) == k - descriptor.kOrigin

\* What host memory holds at an address of the job being run.
ActivationAt(row, k, kc) == [job |-> descriptor.id, row |-> row, k |-> k, kc |-> kc]
WeightsAt(k, col, jc)    == [job |-> descriptor.id, k |-> k, col |-> col, jc |-> jc]
ScalesAt(blk, col, jc)   == [job |-> descriptor.id, blk |-> blk, col |-> col, jc |-> jc]

\* An optional register that holds what is wanted.
Holds(reg, context, blk) ==
  reg # <<>> /\ reg[1].context = context /\ reg[1].blk = blk

\* Fault: the bank being computed with.
OtherBank_Active == eng.bank
OtherBank == 1 - eng.bank
Loaded(b) == \A r \in Lanes : eng.w[b][r] # <<>>

\* engine.beginWeightLoadBank: refused for the active bank.
Cleared(e, b) == IF b = e.bank THEN e ELSE [e EXCEPT !.w[b] = NoRows]
\* engine.loadWeightRowBank
WithRow(e, b, r, value) ==
  IF b = e.bank THEN e ELSE [e EXCEPT !.w[b][r] = <<value>>]
Started(e, count, accumulate, scale) ==
  [e EXCEPT !.state = "Active", !.rows = count, !.fed = <<>>, !.done = 0,
            !.acc = accumulate, !.scale = scale]

-----------------------------------------------------------------------------
(* The lookahead                                                           *)

captureLookaheadWork ==
  /\ la.phase = "None" /\ hasLookahead
  /\ mx \notin {"Idle", "WaitWork", "Done"}
  /\ prepareLookahead(WorkConfig)
  /\ la' = [la EXCEPT !.phase = "Preparing", !.work = LookaheadWork, !.aRow = 0,
                      !.wRow = 0, !.fetched = FALSE, !.checked = FALSE,
                      !.reusable = FALSE, !.scale = <<>>, !.aRows = NoRows]
  /\ UNCHANGED <<schedVars, ws, mx, work, frag, act, wl, banks, sc, eng, acc, out,
                 nextStripeId>>

\* Timing: the K scheduler of the current tile was started a cycle or more
\* before the one of the lookahead, with the same origin and block size, so
\* the lookahead is never prepared before the current tile begins.
CurrentBegun == ~(mx = "WaitFragment" /\ ws.first)

finishLookaheadPreparation ==
  /\ la.phase = "Preparing" /\ wla.phase = "Valid" /\ CurrentBegun
  /\ la' = [la EXCEPT !.phase = "Prepared", !.kc = lookaheadKCount, !.blk = wla.blk]
  /\ UNCHANGED <<schedVars, workVars, mx, work, frag, act, wl, banks, sc, eng, acc,
                 out, nextStripeId>>

Prepared == la.phase = "Prepared"

issueLookaheadActivation ==
  /\ Prepared /\ la.aChan = <<>> /\ la.aRow < la.work.ic
  /\ la' = [la EXCEPT !.aChan = <<la.aRow>>, !.aRow = @ + 1]
  /\ UNCHANGED <<schedVars, workVars, mx, work, frag, act, wl, banks, sc, eng, acc,
                 out, nextStripeId>>

lookaheadActivationsReady == \A r \in 0..(la.work.ic - 1) : la.aRows[r] # <<>>

Residency(w, k, kc) == [base |-> w.weight, j |-> w.j, jc |-> w.jc, k |-> k, kc |-> kc]
\* Fault: the resident weights are recognised by their k range alone.
residentMatchesLookahead_AnyColumn(b) ==
  /\ banks.resident[b] # <<>>
  /\ banks.resident[b][1].k = descriptor.kOrigin /\ banks.resident[b][1].kc = la.kc

residentMatchesLookahead(b) ==
  banks.resident[b] = <<Residency(la.work, descriptor.kOrigin, la.kc)>>

decideLookaheadWeightReuse ==
  /\ Prepared /\ ~la.checked /\ hasLookahead
  /\ LET matching == {b \in Slots : residentMatchesLookahead(b)}
     IN  IF lookaheadPreloadSafe /\ matching # {}
           THEN LET bank == IF 0 \in matching THEN 0 ELSE 1
                IN  /\ la' = [la EXCEPT !.checked = TRUE, !.reusable = TRUE,
                                        !.fetched = TRUE]
                    /\ banks' = [banks EXCEPT !.preloaded =
                         <<[bank |-> bank, k |-> descriptor.kOrigin, kc |-> la.kc]>>]
           ELSE la' = [la EXCEPT !.checked = TRUE] /\ UNCHANGED banks
  /\ UNCHANGED <<schedVars, workVars, mx, work, frag, act, wl, sc, eng, acc, out,
                 nextStripeId>>

issueLookaheadWeight ==
  /\ Prepared /\ la.checked /\ mx # "WaitWork" /\ ~la.reusable
  /\ la.wChan = <<>> /\ la.wRow < la.kc
  /\ la' = [la EXCEPT !.wChan = <<la.wRow>>, !.wRow = @ + 1]
  /\ UNCHANGED <<schedVars, workVars, mx, work, frag, act, wl, banks, sc, eng, acc,
                 out, nextStripeId>>

WantsLookaheadScale ==
  Prepared /\ UsesScale /\ la.scale = <<>> /\ la.sChan = <<>>

reuseLookaheadScale ==
  /\ WantsLookaheadScale
  /\ \/ Holds(sc.cur, la.work.j, la.blk) \/ Holds(sc.next, la.work.j, la.blk)
  /\ la' = [la EXCEPT !.scale = IF Holds(sc.cur, la.work.j, la.blk) THEN sc.cur
                                                                    ELSE sc.next]
  /\ UNCHANGED <<schedVars, workVars, mx, work, frag, act, wl, banks, sc, eng, acc,
                 out, nextStripeId>>

issueLookaheadScale ==
  /\ WantsLookaheadScale
  /\ sc.chan = <<>> /\ sc.pend = <<>>
  /\ (mx = "Execute" /\ eng.state = "Active") \/ mx = "WaitWork"
  /\ ~Holds(sc.cur, la.work.j, la.blk) /\ ~Holds(sc.next, la.work.j, la.blk)
  /\ la' = [la EXCEPT !.sChan = <<[context |-> la.work.j, blk |-> la.blk]>>]
  /\ UNCHANGED <<schedVars, workVars, mx, work, frag, act, wl, banks, sc, eng, acc,
                 out, nextStripeId>>

beginLookaheadPreload ==
  /\ Prepared /\ la.fetched /\ ~la.reusable
  /\ la.preload = <<>> /\ banks.preloaded = <<>>
  /\ eng.state = "Active" /\ Len(eng.fed) = eng.rows /\ ~wl.loading
  /\ Fragmenting /\ ~hasNextFragment
  /\ hasLookahead /\ lookaheadPreloadSafe
  /\ eng' = Cleared(eng, OtherBank)
  /\ banks' = [banks EXCEPT !.resident[OtherBank] = <<>>]
  /\ la' = [la EXCEPT !.preload = <<[bank |-> OtherBank, row |-> 0]>>]
  /\ UNCHANGED <<schedVars, workVars, mx, work, frag, act, wl, sc, acc, out,
                 nextStripeId>>

loadLookaheadPreloadRow ==
  /\ la.preload # <<>> /\ la.preload[1].row < Dim
  /\ LET p == la.preload[1]
         value == IF p.row < la.kc THEN la.wRows[p.row][1] ELSE ZeroWeights
     IN  /\ eng' = WithRow(eng, p.bank, p.row, value)
         /\ la' = [la EXCEPT !.preload[1].row = @ + 1]
  /\ UNCHANGED <<schedVars, workVars, mx, work, frag, act, wl, banks, sc, acc, out,
                 nextStripeId>>

finishLookaheadPreload ==
  /\ la.preload # <<>> /\ la.preload[1].row = Dim
  /\ LET bank == la.preload[1].bank
     IN  banks' = [resident |-> [banks.resident EXCEPT ![bank] =
                                   <<Residency(la.work, descriptor.kOrigin, la.kc)>>],
                   preloaded |-> <<[bank |-> bank, k |-> descriptor.kOrigin,
                                    kc |-> la.kc]>>]
  /\ la' = [la EXCEPT !.preload = <<>>]
  /\ UNCHANGED <<schedVars, workVars, mx, work, frag, act, wl, sc, eng, acc, out,
                 nextStripeId>>

-----------------------------------------------------------------------------
(* A tile and its K fragments                                              *)

\* Fault: any tile of that column takes the prepared operands.
promotePrepared_AnyRow == la.phase = "Prepared" /\ la.work.j = Work.j

\* The lookahead that was prepared is this very tile.
promotePrepared ==
  /\ Prepared
  /\ la.work.stripe = Work.stripe /\ la.work.i = Work.i /\ la.work.j = Work.j

LookaheadSettled ==
  /\ la.aChan = <<>> /\ la.wChan = <<>> /\ la.sChan = <<>>
  /\ lookaheadActivationsReady
  /\ UsesScale => la.scale # <<>>

\* Timing: decideLookaheadWeightReuse waits for nothing, the rows of
\* LookaheadSettled for the host, so the decision comes first.
Decided == Prepared /\ hasLookahead => la.checked

acquireMatrixWork ==
  /\ mx = "WaitWork" /\ workValid /\ Decided
  /\ ~wl.loading /\ sc.pend = <<>>
  /\ la.phase # "Preparing" /\ (Prepared => LookaheadSettled)
  /\ work' = Work /\ mx' = "WaitFragment"
  /\ acceptWork
  /\ IF promotePrepared /\ wla.phase = "Valid"
       THEN startPrepared ELSE workStart(WorkConfig) /\ UNCHANGED wla
  /\ la' = IF promotePrepared THEN [la EXCEPT !.phase = "None"] ELSE la
  /\ wl' = [wl EXCEPT !.promoted = IF promotePrepared THEN la.wRow ELSE 0]
  /\ sc' = IF UsesScale
             THEN [sc EXCEPT !.cur = IF promotePrepared THEN la.scale ELSE <<>>,
                             !.next = <<>>, !.need = FALSE,
                             !.totalK = descriptor.scaleK]
             ELSE sc
  /\ banks' = IF promotePrepared THEN banks ELSE [banks EXCEPT !.preloaded = <<>>]
  /\ act' = [act EXCEPT
       !.meta = [s \in Slots |->
                   IF promotePrepared /\ s = 0
                     THEN <<[k |-> descriptor.kOrigin, kc |-> la.kc]>> ELSE <<>>],
       !.req[0] = IF promotePrepared THEN Work.ic ELSE @,
       !.rows = [s \in Slots |-> [r \in Lanes |->
                   IF promotePrepared /\ s = 0 /\ r < Work.ic THEN la.aRows[r]
                                                             ELSE <<>>]],
       !.cur = 0, !.chan = <<>>]
  /\ UNCHANGED <<frag, eng, acc, out, nextStripeId>>

\* The slot's metadata registers when a fragment is given to it.
Assign(a, s, k, kc) ==
  IF a.meta[s] = <<[k |-> k, kc |-> kc]>> THEN a
  ELSE [a EXCEPT !.meta[s] = <<[k |-> k, kc |-> kc]>>, !.req[s] = 0,
                 !.rows[s] = NoRows]

beginMatrixFragment ==
  /\ mx = "WaitFragment" /\ fragmentValid /\ ~wl.loading
  /\ acceptFragment
  /\ LET kc         == currentCount
         usePreload == banks.preloaded # <<>> /\ banks.preloaded[1].k = ws.k
                                              /\ banks.preloaded[1].kc = kc
         target     == IF usePreload THEN banks.preloaded[1].bank ELSE OtherBank
         current    == Assign(act, act.cur, ws.k, kc)
     IN  /\ frag' = [k |-> ws.k, kc |-> kc, acc |-> fragmentAccumulate,
                     ends |-> fragmentEndsBlock, blk |-> ws.blk, rem |-> ws.rem,
                     bank |-> target]
         /\ act' = IF hasNextFragment
                     THEN Assign(current, 1 - act.cur, nextFragmentKStart,
                                 nextFragmentKCount)
                     ELSE [current EXCEPT !.meta[1 - act.cur] = <<>>]
         /\ IF usePreload
              THEN /\ banks' = [banks EXCEPT !.preloaded = <<>>]
                   /\ wl' = [wl EXCEPT !.promoted = 0]
                   /\ mx' = "ActivateBank" /\ UNCHANGED eng
              ELSE /\ banks' = [banks EXCEPT !.resident[target] = <<>>]
                   /\ eng' = Cleared(eng, target)
                   /\ wl' = [wl EXCEPT !.loading = TRUE, !.isNext = FALSE,
                               !.bank = target, !.k = ws.k, !.kc = kc, !.row = 0]
                   /\ mx' = "LoadWeights"
  /\ UNCHANGED <<schedVars, wla, work, sc, la, acc, out, nextStripeId>>

\* Rows the promoted lookahead already fetched are taken from its buffer.
FromLookahead == ~wl.isNext /\ wl.row < wl.promoted

issueMatrixWeightRequest ==
  /\ wl.loading /\ wl.chan = <<>> /\ wl.row < wl.kc /\ ~FromLookahead
  /\ wl' = [wl EXCEPT !.chan = <<[k |-> Local(wl.k) + wl.row, col |-> work.weight]>>]
  /\ UNCHANGED <<schedVars, workVars, mx, work, frag, act, banks, sc, la, eng, acc,
                 out, nextStripeId>>

\* loadLookaheadPreloadRow calls the same engine port and is the more urgent
\* rule: this one waits while it runs.
padMatrixWeightRows ==
  /\ wl.loading /\ wl.chan = <<>> /\ la.preload = <<>>
  /\ FromLookahead \/ wl.row >= wl.kc
  /\ wl.row < Dim
  /\ eng' = WithRow(eng, wl.bank, wl.row,
                    IF FromLookahead THEN la.wRows[wl.row][1] ELSE ZeroWeights)
  /\ wl' = [wl EXCEPT !.row = @ + 1]
  /\ UNCHANGED <<schedVars, workVars, mx, work, frag, act, banks, sc, la, acc, out,
                 nextStripeId>>

NowResident ==
  [banks.resident EXCEPT ![wl.bank] = <<Residency(work, wl.k, wl.kc)>>]

finishCurrentMatrixWeightLoad ==
  /\ mx = "LoadWeights" /\ wl.loading /\ ~wl.isNext /\ wl.chan = <<>> /\ wl.row = Dim
  /\ wl' = [wl EXCEPT !.loading = FALSE, !.promoted = 0]
  /\ banks' = [banks EXCEPT !.resident = NowResident]
  /\ mx' = "ActivateBank"
  /\ UNCHANGED <<schedVars, workVars, work, frag, act, sc, la, eng, acc, out,
                 nextStripeId>>

finishNextMatrixWeightLoad ==
  /\ mx \notin {"Idle", "LoadWeights"}
  /\ wl.loading /\ wl.isNext /\ wl.chan = <<>> /\ wl.row = Dim
  /\ wl' = [wl EXCEPT !.loading = FALSE]
  /\ banks' = [resident |-> NowResident,
               preloaded |-> <<[bank |-> wl.bank, k |-> wl.k, kc |-> wl.kc]>>]
  /\ UNCHANGED <<schedVars, workVars, mx, work, frag, act, sc, la, eng, acc, out,
                 nextStripeId>>

activateMatrixWeightBank ==
  /\ mx = "ActivateBank" /\ eng.state = "Idle" /\ Loaded(frag.bank)
  /\ eng' = [eng EXCEPT !.bank = frag.bank]
  /\ mx' = "StartExecution"
  /\ UNCHANGED <<schedVars, workVars, work, frag, act, wl, banks, sc, la, acc, out,
                 nextStripeId>>

-----------------------------------------------------------------------------
(* Execution                                                               *)

FirstRowHere == act.rows[act.cur][0] # <<>>
BlockEnd == frag.k + frag.rem

\* The next scale row becomes the current one.
Shifted(s) == [s EXCEPT !.cur = s.next, !.next = <<>>]

requestMatrixExecution ==
  /\ mx = "StartExecution" /\ eng.state = "Idle" /\ Loaded(eng.bank)
  /\ sc.pend = <<>> /\ FirstRowHere
  /\ IF ~UsesScale
       THEN eng' = Started(eng, work.ic, frag.acc, <<>>) /\ UNCHANGED sc
       ELSE IF Holds(sc.cur, work.j, frag.blk)
         THEN /\ eng' = Started(eng, work.ic, frag.acc, sc.cur)
              /\ sc' = [sc EXCEPT !.blockEnd = BlockEnd]
         ELSE IF Holds(sc.next, work.j, frag.blk)
           THEN /\ eng' = Started(eng, work.ic, frag.acc, sc.next)
                /\ sc' = [Shifted(sc) EXCEPT !.blockEnd = BlockEnd]
           ELSE /\ sc' = [sc EXCEPT !.blockEnd = BlockEnd,
                            !.pend = <<[context |-> work.j, blk |-> frag.blk]>>,
                            !.chan = IF @ = <<>>
                                       THEN <<[context |-> work.j, blk |-> frag.blk,
                                               kind |-> "Demand"]>>
                                       ELSE @]
                /\ UNCHANGED eng
  /\ UNCHANGED <<schedVars, workVars, mx, work, frag, act, wl, banks, la, acc, out,
                 nextStripeId>>

PendingHeldBy(reg) == Holds(reg, sc.pend[1].context, sc.pend[1].blk)

startPendingExecution ==
  /\ sc.pend # <<>> /\ (PendingHeldBy(sc.cur) \/ PendingHeldBy(sc.next))
  /\ eng.state = "Idle" /\ FirstRowHere
  /\ LET useNext == ~PendingHeldBy(sc.cur)
     IN  /\ eng' = Started(eng, work.ic, frag.acc,
                           IF useNext THEN sc.next ELSE sc.cur)
         /\ sc' = IF useNext
                    THEN [Shifted(sc) EXCEPT !.need = TRUE, !.pend = <<>>]
                    ELSE [sc EXCEPT !.pend = <<>>]
  /\ UNCHANGED <<schedVars, workVars, mx, work, frag, act, wl, banks, la, acc, out,
                 nextStripeId>>

issueScalePrefetch ==
  /\ sc.need /\ sc.chan = <<>> /\ eng.state # "Idle"
  /\ sc' = [sc EXCEPT !.need = FALSE,
              !.chan = IF sc.blockEnd < sc.totalK
                         THEN <<[context |-> sc.cur[1].context,
                                 blk |-> sc.cur[1].blk + 1, kind |-> "Prefetch"]>>
                         ELSE @]
  /\ UNCHANGED <<schedVars, workVars, mx, work, frag, act, wl, banks, la, eng, acc,
                 out, nextStripeId>>

\* A demand that found the channel taken by a prefetch of another row.
issueDeferredScaleDemand ==
  /\ sc.pend # <<>> /\ sc.chan = <<>>
  /\ ~PendingHeldBy(sc.cur) /\ ~PendingHeldBy(sc.next)
  /\ sc' = [sc EXCEPT !.chan = <<[context |-> sc.pend[1].context,
                                  blk |-> sc.pend[1].blk, kind |-> "Demand"]>>]
  /\ UNCHANGED <<schedVars, workVars, mx, work, frag, act, wl, banks, la, eng, acc,
                 out, nextStripeId>>

observeMatrixExecutionStart ==
  /\ mx = "StartExecution" /\ eng.state = "Active" /\ Fragmenting
  /\ act' = [act EXCEPT !.feed = 0] /\ mx' = "Execute"
  /\ IF hasNextFragment /\ ~wl.loading
       THEN /\ eng' = Cleared(eng, OtherBank)
            /\ banks' = [banks EXCEPT !.resident[OtherBank] = <<>>]
            /\ wl' = [wl EXCEPT !.loading = TRUE, !.isNext = TRUE, !.bank = OtherBank,
                        !.k = nextFragmentKStart, !.kc = nextFragmentKCount, !.row = 0]
       ELSE UNCHANGED <<eng, banks, wl>>
  /\ UNCHANGED <<schedVars, workVars, work, frag, sc, la, acc, out, nextStripeId>>

\* The slot whose next row is asked for: the current one until all its rows
\* were, then the next one, once the fragment executes.
RequestSlot ==
  LET cur == act.cur
      wanted(s) == act.meta[s] # <<>> /\ act.req[s] < work.ic
  IN  IF wanted(cur) THEN {cur}
      ELSE IF mx = "Execute" /\ act.req[cur] >= work.ic /\ wanted(1 - cur)
        THEN {1 - cur} ELSE {}

issueMatrixActivationRequest ==
  /\ mx \notin {"Idle", "WaitWork", "Done"} /\ act.chan = <<>>
  /\ \E s \in RequestSlot :
       LET m == act.meta[s][1]
       IN  act' = [act EXCEPT !.req[s] = @ + 1,
                     !.chan = <<[slot |-> s, row |-> act.req[s], k |-> m.k, kc |-> m.kc,
                                 at |-> work.activation + act.req[s]]>>]
  /\ UNCHANGED <<schedVars, workVars, mx, work, frag, wl, banks, sc, la, eng, acc, out,
                 nextStripeId>>

publishMatrixActivationResponse ==
  /\ act.resp # <<>>
  /\ LET r == act.resp[1]
     IN  act' = [act EXCEPT !.rows[r.slot][r.row] = <<r.value>>, !.resp = <<>>]
  /\ UNCHANGED <<schedVars, workVars, mx, work, frag, wl, banks, sc, la, eng, acc, out,
                 nextStripeId>>

feedBufferedMatrixActivation ==
  /\ mx = "Execute" /\ eng.state = "Active" /\ act.feed < work.ic
  /\ act.rows[act.cur][act.feed] # <<>>
  /\ eng' = [eng EXCEPT !.fed = @ \o act.rows[act.cur][act.feed]]
  /\ act' = [act EXCEPT !.rows[act.cur][act.feed] = <<>>, !.feed = @ + 1]
  /\ UNCHANGED <<schedVars, workVars, mx, work, frag, wl, banks, sc, la, acc, out,
                 nextStripeId>>

\* Array, vector unit and accumulator: the next row's sums are committed.
commitVectorResult ==
  /\ eng.state = "Active" /\ eng.done < Len(eng.fed)
  /\ LET sum == [a |-> eng.fed[eng.done + 1], s |-> eng.scale,
                 w |-> [l \in Lanes |-> eng.w[eng.bank][l][1]]]
     IN  acc' = [acc EXCEPT ![eng.done] = IF eng.acc THEN Append(@, sum) ELSE <<sum>>]
  /\ eng' = [eng EXCEPT !.done = @ + 1,
                        !.state = IF eng.done + 1 = eng.rows THEN "Done" ELSE @]
  /\ UNCHANGED <<schedVars, workVars, mx, work, frag, act, wl, banks, sc, la, out,
                 nextStripeId>>

finishMatrixExecution ==
  /\ mx = "Execute" /\ eng.state = "Done"
  /\ eng' = [eng EXCEPT !.state = "Idle"]
  /\ completeFragment /\ UNCHANGED wla
  /\ act' = IF hasNextFragment
              THEN [act EXCEPT !.cur = 1 - @, !.meta[act.cur] = <<>>] ELSE act
  /\ mx' = "FinishFragment"
  /\ UNCHANGED <<schedVars, work, frag, wl, banks, sc, la, acc, out, nextStripeId>>

-----------------------------------------------------------------------------
(* Results                                                                 *)

continueMatrixFragments ==
  /\ mx = "FinishFragment" /\ fragmentValid /\ ~(BlockOutput /\ frag.ends)
  /\ mx' = "WaitFragment"
  /\ UNCHANGED <<schedVars, workVars, work, frag, act, wl, banks, sc, la, eng, acc, out,
                 nextStripeId>>

beginFinalMatrixWriteback ==
  /\ mx = "FinishFragment" /\ workAcknowledge /\ UNCHANGED wla
  /\ out' = [out EXCEPT !.final = TRUE, !.row = 0] /\ mx' = "WriteOutput"
  /\ UNCHANGED <<schedVars, work, frag, act, wl, banks, sc, la, eng, acc, nextStripeId>>

beginIntermediateMatrixWriteback ==
  /\ mx = "FinishFragment" /\ BlockOutput /\ frag.ends /\ fragmentValid
  /\ out' = [out EXCEPT !.final = FALSE, !.row = 0] /\ mx' = "WriteOutput"
  /\ UNCHANGED <<schedVars, workVars, work, frag, act, wl, banks, sc, la, eng, acc,
                 nextStripeId>>

issueMatrixOutputRequest ==
  /\ mx = "WriteOutput" /\ out.state = "None" /\ out.row < work.ic
  /\ out' = [out EXCEPT !.state = "Reading"]
  /\ UNCHANGED <<schedVars, workVars, mx, work, frag, act, wl, banks, sc, la, eng, acc,
                 nextStripeId>>

publishMatrixOutputRequest ==
  /\ out.state = "Reading"
  /\ out' = [out EXCEPT !.state = "Visible"]
  /\ UNCHANGED <<schedVars, workVars, mx, work, frag, act, wl, banks, sc, la, eng, acc,
                 nextStripeId>>

\* Where the visible output row goes.
OutputAddress == [job |-> descriptor.id, blk |-> IF BlockOutput THEN frag.blk ELSE 0,
                  row |-> work.output[1] + out.row, col |-> work.output[2],
                  jc |-> work.jc]

observeMatmulSchedulerDone ==
  /\ mx = "WaitSchedulerDone" /\ mstate = "Done"
  /\ mx' = "Done"
  /\ UNCHANGED <<schedVars, workVars, work, frag, act, wl, banks, sc, la, eng, acc, out,
                 nextStripeId>>

acquireNextMatrixWork ==
  /\ mx = "WaitSchedulerDone" /\ workValid
  /\ mx' = "WaitWork"
  /\ UNCHANGED <<schedVars, workVars, work, frag, act, wl, banks, sc, la, eng, acc, out,
                 nextStripeId>>

-----------------------------------------------------------------------------
(* Methods the host calls                                                  *)

startMatmul(d) ==
  /\ mx = "Idle" /\ eng.state = "Idle" /\ sc.pend = <<>> /\ sc.chan = <<>>
  /\ start(d)
  /\ mx' = "WaitWork" /\ nextStripeId' = 0
  /\ banks' = [banks EXCEPT !.resident = [b \in Slots |-> <<>>]]
  /\ UNCHANGED <<workVars, work, frag, act, wl, sc, la, eng, acc, out>>

publishActivationStripe(begin, count) ==
  /\ mx \notin {"Idle", "Done"} /\ Async
  /\ publishStripe([id |-> nextStripeId, begin |-> begin, count |-> count])
  /\ nextStripeId' = nextStripeId + 1
  /\ UNCHANGED <<workVars, mx, work, frag, act, wl, banks, sc, la, eng, acc, out>>

\* The one request visible on the activation channel: current before lookahead.
ActivationRequest ==
  IF act.chan # <<>>
    THEN {[lookahead |-> FALSE, at |-> act.chan[1].at, k |-> Local(act.chan[1].k),
           kc |-> act.chan[1].kc]}
    ELSE {[lookahead |-> TRUE, at |-> la.work.activation + r, k |-> 0, kc |-> la.kc]
            : r \in {la.aChan[n] : n \in 1..Len(la.aChan)}}

putActivationReadResponse(q) ==
  /\ act.resp = <<>>
  /\ LET value == ActivationAt(q.at, q.k, q.kc)
     IN  IF q.lookahead
           THEN /\ la' = [la EXCEPT !.aRows[la.aChan[1]] = <<value>>, !.aChan = <<>>]
                /\ UNCHANGED act
           ELSE /\ act' = [act EXCEPT !.chan = <<>>,
                             !.resp = <<[slot |-> act.chan[1].slot,
                                         row |-> act.chan[1].row, value |-> value]>>]
                /\ UNCHANGED la
  /\ UNCHANGED <<schedVars, workVars, mx, work, frag, wl, banks, sc, eng, acc, out,
                 nextStripeId>>

\* Fault: the answer is taken, the row counter stays.
putWeightReadResponse_KeepsRow ==
  /\ wl.chan # <<>> /\ wl.loading
  /\ eng' = WithRow(eng, wl.bank, wl.row,
                    WeightsAt(wl.chan[1].k, wl.chan[1].col, work.jc))
  /\ wl' = [wl EXCEPT !.chan = <<>>]
  /\ UNCHANGED <<schedVars, workVars, mx, work, frag, act, banks, sc, la, acc, out,
                 nextStripeId>>

putWeightReadResponse ==
  /\ IF wl.chan # <<>>
       THEN /\ wl.loading
            /\ eng' = WithRow(eng, wl.bank, wl.row,
                              WeightsAt(wl.chan[1].k, wl.chan[1].col, work.jc))
            /\ wl' = [wl EXCEPT !.row = @ + 1, !.chan = <<>>]
            /\ UNCHANGED la
       ELSE /\ la.wChan # <<>>
            /\ la' = [la EXCEPT !.wRows[la.wChan[1]] =
                                  <<WeightsAt(la.wChan[1], la.work.weight, la.work.jc)>>,
                                !.wChan = <<>>,
                                !.fetched = @ \/ la.wRow = la.kc]
            /\ UNCHANGED <<eng, wl>>
  /\ UNCHANGED <<schedVars, workVars, mx, work, frag, act, banks, sc, acc, out,
                 nextStripeId>>

putScaleReadResponse ==
  /\ mx # "Idle"
  /\ IF sc.chan # <<>>
       THEN LET q == sc.chan[1]
                row == <<[context |-> q.context, blk |-> q.blk,
                          value |-> ScalesAt(q.blk, work.scale, work.jc)]>>
            IN  /\ sc' = IF q.kind = "Demand"
                           THEN [sc EXCEPT !.chan = <<>>, !.cur = row, !.next = <<>>,
                                           !.need = TRUE]
                           ELSE [sc EXCEPT !.chan = <<>>, !.next = row]
                /\ UNCHANGED la
       ELSE /\ la.sChan # <<>>
            /\ la' = [la EXCEPT !.sChan = <<>>,
                        !.scale = <<[context |-> la.sChan[1].context,
                                     blk |-> la.sChan[1].blk,
                                     value |-> ScalesAt(la.sChan[1].blk, la.work.scale,
                                                        la.work.jc)]>>]
            /\ UNCHANGED sc
  /\ UNCHANGED <<schedVars, workVars, mx, work, frag, act, wl, banks, eng, acc, out,
                 nextStripeId>>

putOutputWriteResponse ==
  /\ out.state = "Visible"
  /\ IF out.row + 1 < work.ic
       THEN /\ out' = [out EXCEPT !.state = "None", !.row = @ + 1]
            /\ UNCHANGED <<mx, schedVars>>
       ELSE /\ out' = [out EXCEPT !.state = "None"]
            /\ IF out.final
                 THEN completeWork /\ mx' = "WaitSchedulerDone"
                 ELSE mx' = "WaitFragment" /\ UNCHANGED schedVars
  /\ UNCHANGED <<workVars, work, frag, act, wl, banks, sc, la, eng, acc, nextStripeId>>

acknowledgeStripeCompletion ==
  /\ acknowledgeCompletion
  /\ UNCHANGED <<workVars, coreVars>>

acknowledgeMatmul ==
  /\ mx = "Done"
  /\ acknowledge
  /\ mx' = "Idle"
  /\ UNCHANGED <<workVars, work, frag, act, wl, banks, sc, la, eng, acc, out,
                 nextStripeId>>

-----------------------------------------------------------------------------
CoreRule ==
  \/ SchedRule /\ UNCHANGED <<workVars, coreVars>>
  \/ (finishPreparation \/ finishLookaheadDivision) /\ UNCHANGED <<schedVars, coreVars>>
  \/ captureLookaheadWork \/ finishLookaheadPreparation \/ issueLookaheadActivation
  \/ decideLookaheadWeightReuse \/ issueLookaheadWeight \/ reuseLookaheadScale
  \/ issueLookaheadScale \/ beginLookaheadPreload \/ loadLookaheadPreloadRow
  \/ finishLookaheadPreload
  \/ acquireMatrixWork \/ beginMatrixFragment \/ issueMatrixWeightRequest
  \/ padMatrixWeightRows \/ finishCurrentMatrixWeightLoad \/ finishNextMatrixWeightLoad
  \/ activateMatrixWeightBank \/ requestMatrixExecution \/ startPendingExecution
  \/ issueScalePrefetch \/ issueDeferredScaleDemand \/ observeMatrixExecutionStart
  \/ issueMatrixActivationRequest \/ publishMatrixActivationResponse
  \/ feedBufferedMatrixActivation \/ commitVectorResult \/ finishMatrixExecution
  \/ continueMatrixFragments \/ beginFinalMatrixWriteback
  \/ beginIntermediateMatrixWriteback \/ issueMatrixOutputRequest
  \/ publishMatrixOutputRequest \/ observeMatmulSchedulerDone \/ acquireNextMatrixWork
=============================================================================
