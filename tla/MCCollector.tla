----------------------------- MODULE MCCollector -----------------------------
(* Instances of EvaCollector for TLC: five or six addresses, a unit of      *)
(* memory per object, a collection at the second allocation or later.       *)
EXTENDS EvaCollector, TLC

UnitSize == [k \in Kind |-> 1]

(* Sizes that differ, in the proportions of sizeof: an instance holds a map *)
(* and a code object four vectors.                                          *)
MixedSize == [k \in Kind |-> CASE k = "CODE" -> 3 [] k \in {"CLASS", "INSTANCE"} -> 2 [] OTHER -> 1]

Addresses == Permutations(Obj \ Natives)

=============================================================================
