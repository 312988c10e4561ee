------------------------------ MODULE MCExecution ------------------------------
(* Execution on a small instance.                                          *)
EXTENDS Execution, TLC

CONSTANTS i1, i2, c1, x, y

Symmetry == Permutations({x, y})
=============================================================================
