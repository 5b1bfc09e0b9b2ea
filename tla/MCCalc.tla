------------------------------- MODULE MCCalc -------------------------------
(* A small instance of Calc for TLC: bytes of two bits, operands of one    *)
(* byte and results of two, so that sums outgrow the operands.             *)
EXTENDS Calc

CONSTANTS c1, c2

MCInputs == {<<1, 2>>, <<3, 3>>}
=============================================================================
