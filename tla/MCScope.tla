------------------------------- MODULE MCScope -------------------------------
(* Instances of EvaScope for TLC. *)
EXTENDS EvaScope, TLC

Names == Permutations(Name)

=============================================================================
