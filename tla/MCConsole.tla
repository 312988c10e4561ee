------------------------------ MODULE MCConsole ------------------------------
(* Console on a small instance.                                            *)
EXTENDS Console

CONSTANTS s1, s2, text1, text2, secret

Symmetry == Permutations(Slot) \cup Permutations(Source)

MCKey == {"api_key", "execution_timeout_ms", "log_max_size", "python_pool_size"}

(* 1500 ms are shown as 2 s.                                               *)
MCDefault ==
  [k \in MCKey |-> CASE k = "api_key" -> Blank
                     [] k = "execution_timeout_ms" -> 1000
                     [] OTHER -> 3]
MCTyped ==
  [k \in MCKey |-> CASE k = "api_key" -> {secret}
                     [] k = "execution_timeout_ms" -> {Blank, 1500}
                     [] k = "log_max_size" -> {4}
                     [] OTHER -> {Blank}]
MCSent ==
  [k \in MCKey |-> CASE k = "api_key" -> {Blank}
                     [] k = "execution_timeout_ms" -> {1000}
                     [] k = "log_max_size" -> {}
                     [] OTHER -> {1}]
MCImported == {[k \in {"python_pool_size", "execution_timeout_ms"} |->
                  IF k = "python_pool_size" THEN 2 ELSE 500]}
=============================================================================
