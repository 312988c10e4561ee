----------------------------- MODULE MCPythonPool -----------------------------
(* PythonPool on small instances.                                          *)
EXTENDS PythonPool, TLC

CONSTANTS first, second,  \* two instances
          OfSecond        \* the calls that are of the second one

TwoInstances == [c \in Call |-> IF c \in OfSecond THEN second ELSE first]

(* Workers are interchangeable, and so are calls of the same instance.     *)
Symmetry == Permutations(Worker) \cup Permutations(Call \ OfSecond)
=============================================================================
