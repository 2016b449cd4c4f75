---------------------------- MODULE MCHostedCore ----------------------------
(***************************************************************************)
(* The matmuls HostedCore is checked with.                                 *)
(***************************************************************************)
EXTENDS HostedCore

Matmul(id, mode, rows, columns, k, origin, op, block, scaleK) ==
  [id |-> id, mode |-> mode, rows |-> rows, columns |-> columns, tileI |-> Dim,
   tileJ |-> Dim, k |-> k, kOrigin |-> origin, op |-> op, block |-> block,
   scaleK |-> scaleK]

\* On a 2 x 2 array: four tiles with a short last row, column and fragment,
\* a K origin behind the first scale block and a scale table longer than K;
\* two stripes of two and one rows, without scales; one output per scale block.
MCJobs == <<Matmul(1, "FullMatrix", 3, 3, 3, 2, "Multiply", 2, 5),
            Matmul(2, "AsyncStripes", 3, 1, 1, 0, "Bypass", 1, 1),
            Matmul(3, "FullMatrix", 1, 1, 2, 2, "External", 1, 4)>>
MCDescriptors == {MCJobs[n] : n \in 1..Len(MCJobs)}

\* Three stripes of one row.
ThreeStripeJobs == <<Matmul(1, "AsyncStripes", 3, 1, 1, 0, "Bypass", 1, 1)>>
ThreeStripeDescriptors == {ThreeStripeJobs[n] : n \in 1..Len(ThreeStripeJobs)}
=============================================================================
