--------------------------- MODULE MCCollectorLive ---------------------------
(* An instance of EvaCollector for liveness, which address symmetry would    *)
(* not preserve.  It starts in a program that has declared one class and set *)
(* its global to a number, so that instances, and cycles of two of them,     *)
(* fill the heap.                                                            *)
EXTENDS EvaCollector

CONSTANTS co, main, cls

UnitSize == [k \in Kind |-> 1]

Compiled ==
    /\ objects = {co, main, cls}
    /\ kind = [o \in Obj |-> CASE o = co -> "CODE" [] o = main -> "FUNCTION"
                               [] o = cls -> "CLASS" [] OTHER -> "NONE"]
    /\ link = [o \in Obj |-> CASE o = main -> {co} [] o = co -> {cls} [] OTHER -> {}]
    /\ slots = [o \in Obj |-> {}]
    /\ marked = [o \in Obj |-> FALSE]
    /\ bytesAllocated = 3
    /\ stack = {}
    /\ frames = {main}
    /\ globals = {}
    /\ constantObjects = {co, main, cls}
    /\ pc = "eval"
    /\ request = NoRequest
    /\ worklist = {}
    /\ unswept = {}

CompiledSpec == Compiled /\ [][Next]_vars /\ Fairness

=============================================================================
