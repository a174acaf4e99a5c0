-------------------------- MODULE MCInferRecovery --------------------------
(* Instances of InferRecovery, which holds AutoReport, for TLC.            *)
EXTENDS InferRecovery, TLC

Symmetry == Permutations(Threads) \cup Permutations(Shapes) \cup Permutations(Workers)
              \cup Permutations(Paths)
=============================================================================
