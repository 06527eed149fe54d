------------------------------ MODULE EvaMachine ------------------------------
(***************************************************************************)
(* What a machine (src/vm/EvaVM.h) may rely on and may do, whatever the    *)
(* compiler makes of a program: exec takes one image after the other, the  *)
(* eval loop runs it.  Of an image it is known that bytes are bytes and    *)
(* references refer; the code itself is arbitrary.                         *)
(***************************************************************************)
EXTENDS EvaVM

(* EvaVM() *)
Idle ==
    /\ MemoryOK
    /\ stack = <<>> /\ callStack = <<>>
    /\ sp = 0 /\ bp = 0 /\ ip = 0 /\ fn = Null
    /\ status = "idle"

(* What was there stays, of the kind that it was. *)
Grows(h, g) == DOMAIN h \subseteq DOMAIN g /\ \A a \in DOMAIN h : g[a].kind = h[a].kind

(* exec, until the program is compiled: more memory, a function to start   *)
(* with, and the pointers where the stack begins.  What the last program   *)
(* left on the stack and in the frames is not cleared.                     *)
Load ==
    /\ status \in {"idle", "halted"}
    /\ Grows(heap, heap') /\ MemoryOK' /\ Refers(heap', fn', "FUNCTION")
    /\ sp' = 0 /\ bp' = 0 /\ ip' = 0
    /\ status' \in {"compiled", "died"}
    /\ UNCHANGED <<freed, stack, callStack>>

(* The listing is printed, or ends the process, or is out of range. *)
Listed ==
    /\ status = "compiled"
    /\ status' \in {"running", "died", "undefined"}
    /\ UNCHANGED <<memory, stack, sp, bp, ip, fn, callStack>>

MachineNext == Load \/ Listed \/ Eval

MachineSpec == Idle /\ [][MachineNext]_machineVars

=============================================================================
