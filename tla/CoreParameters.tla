---------------------------- MODULE CoreParameters ----------------------------
(***************************************************************************)
(* What the schedulers of the RTL core share: the size of the array.       *)
(***************************************************************************)
EXTENDS Integers, Sequences

CONSTANT Dim            \* arrayDim

ASSUME DimAssumption == Dim \in Nat \ {0}

Lanes == 0..(Dim - 1)

Least(a, b) == IF a < b THEN a ELSE b
=============================================================================
