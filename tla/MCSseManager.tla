----------------------------- MODULE MCSseManager -----------------------------
(* SseManager on small instances.                                          *)
EXTENDS SseManager

Symmetry == Permutations(Bus) \cup Permutations(Client)
=============================================================================
