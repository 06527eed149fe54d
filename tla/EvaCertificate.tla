---------------------------- MODULE EvaCertificate ----------------------------
(***************************************************************************)
(* What the bytecode of the compiler can be relied upon to do with the     *)
(* stack, said of the bytes alone: a layout gives each offset that may be  *)
(* reached how many slots of its frame are in use there, and is checked    *)
(* one instruction at a time.  The VM (src/vm/EvaVM.h) checks none of it:  *)
(* a frame is where CALL says it is, and RETURN takes what is on top.      *)
(*                                                                         *)
(* A machine whose images have layouts keeps to its frames.  EvaSystem is  *)
(* shown to be such a machine; a program where a function loops, whose     *)
(* iterations each leave a value, has none.                                *)
(***************************************************************************)
EXTENDS EvaMachine, EvaDisassembler

(* The slots of a frame when its code begins: the callee and its           *)
(* arguments, and none below the globals' code, which nobody calls.        *)
EntryDepth(co) == IF co.name = "main" THEN 0 ELSE co.arity + 1

OpCodeAt(co, i) == co.code[i + 1]
OperandAt(co, i) == co.code[i + 2]
TargetAt(co, i) == 256 * co.code[i + 2] + co.code[i + 3]
Entire(co, i) == i < Len(co.code) /\ i + Operands(OpCodeAt(co, i)) < Len(co.code)

(* The slots that an instruction takes off the stack and those it leaves. *)
Takes(op, n) ==
    CASE op \in {OP_ADD, OP_SUB, OP_MUL, OP_DIV, OP_COMPARE, OP_SET_PROP} -> 2
      [] op \in {OP_SCOPE_EXIT, OP_CALL, OP_MAKE_FUNCTION} -> n + 1
      [] op \in {OP_CONST, OP_GET_GLOBAL, OP_GET_LOCAL, OP_GET_CELL, OP_LOAD_CELL, OP_JMP} -> 0
      [] OTHER -> 1

Leaves(op) ==
    CASE op = OP_NEW -> 2
      [] op \in {OP_HALT, OP_JMP_IF_FALSE, OP_JMP, OP_POP} -> 0
      [] OTHER -> 1

Successors(co, i) ==
    LET op == OpCodeAt(co, i) IN
    CASE op \in {OP_HALT, OP_RETURN} -> {}
      [] op = OP_JMP -> {TargetAt(co, i)}
      [] op = OP_JMP_IF_FALSE -> {i + 3, TargetAt(co, i)}
      [] OTHER -> {i + 1 + Operands(op)}

(* lay[i].depth slots are in use where the instruction at i begins, and no *)
(* more than these if lay[i].exact.                                        *)
After(co, lay, i) ==
    lay[i].depth + Leaves(OpCodeAt(co, i)) - Takes(OpCodeAt(co, i), OperandAt(co, i))

(* What the layout says of one instruction is enough for it to be carried  *)
(* out within the frame, and the layout is right about what comes next.    *)
Carried(co, lay, i) ==
    LET op == OpCodeAt(co, i) IN
    /\ Entire(co, i) /\ op \in 0..OP_SET_PROP
    /\ Takes(op, OperandAt(co, i)) <= lay[i].depth
    /\ op \in Locals => OperandAt(co, i) < lay[i].depth
    /\ op = OP_RETURN => EntryDepth(co) # 0 /\ lay[i].exact /\ lay[i].depth = 1
    /\ op = OP_HALT => EntryDepth(co) = 0
    /\ \A j \in Successors(co, i) :
         /\ j \in DOMAIN lay /\ lay[j].depth <= After(co, lay, i)
         /\ lay[j].exact => lay[i].exact /\ lay[j].depth = After(co, lay, i)

IsLayout(co, lay) ==
    /\ EntryDepth(co) \in Nat
    /\ 0 \in DOMAIN lay /\ lay[0].depth <= EntryDepth(co)
    /\ lay[0].exact => lay[0].depth = EntryDepth(co)
    /\ \A i \in DOMAIN lay : i \in Nat /\ lay[i].depth \in Nat /\ Carried(co, lay, i)
    /\ DOMAIN lay \subseteq disassemble(co)

-----------------------------------------------------------------------------
(* A layout, found in one pass over the code: a loop leaves a value each   *)
(* time, so that where one begins only the least depth is known.           *)

LoopHeads(co) ==
    {TargetAt(co, i) : i \in {j \in disassemble(co) :
        OpCodeAt(co, j) = OP_JMP /\ Entire(co, j) /\ TargetAt(co, j) <= j}}

Lesser(m, n) == IF m < n THEN m ELSE n

(* The layout with what follows from it for the instructions after i.      *)
Flow(co, lay, i) ==
    LET next == {j \in Successors(co, i) : j > i}
        depth == After(co, lay, i)
    IN [j \in DOMAIN lay \cup next |->
          CASE j \notin next -> lay[j]
            [] j \in next \ DOMAIN lay ->
                 [depth |-> depth, exact |-> lay[i].exact /\ j \notin LoopHeads(co)]
            [] OTHER ->
                 [depth |-> Lesser(depth, lay[j].depth),
                  exact |-> lay[i].exact /\ lay[j].exact /\ depth = lay[j].depth]]

Layout(co) ==
    LET upTo[n \in Nat] ==
          IF n = 0 THEN [i \in {0} |-> [depth |-> EntryDepth(co), exact |-> TRUE]]
          ELSE LET lay == upTo[n - 1] IN
               IF n - 1 \in DOMAIN lay /\ Entire(co, n - 1) THEN Flow(co, lay, n - 1) ELSE lay
    IN upTo[Len(co.code)]

-----------------------------------------------------------------------------

RunningCode == heap[heap[fn].co]

(* The images: all the code there is has a layout, and what exec starts    *)
(* with is nobody's callee.                                                *)
Verified ==
    /\ \A a \in DOMAIN heap : heap[a].kind = "CODE" => IsLayout(heap[a], Layout(heap[a]))
    /\ EntryDepth(RunningCode) = 0

(* The operands: what is added or compared is two numbers or two strings,  *)
(* and a function is called with as many arguments as it has parameters.   *)
Orderly ==
    LET op == Byte(0) IN
    /\ op \in {OP_ADD, OP_COMPARE} => Numbers \/ Strings
    /\ op = OP_CALL /\ Is(Callee, "FUNCTION") =>
         EntryDepth(heap[heap[Payload(Callee)].co]) = Byte(1) + 1

VerifiedNext == Load \/ (Listed /\ (status' = "running" => Verified)) \/ (Eval /\ (HasInstruction => Orderly))

(* The language's part and the compiler's, of what the machine relies on.  *)
VerifiedSpec == Idle /\ [][VerifiedNext]_machineVars

-----------------------------------------------------------------------------

(* When a function returns, its result is all that is left of the call:    *)
(* it is where the callee was, and the caller's operands are below.        *)
FrameBalanced ==
    Running /\ HasInstruction /\ Byte(0) = OP_RETURN => sp = bp + 1

(* Execution is only ever where the disassembler printed an instruction:   *)
(* every jump that was patched and every return address is a boundary of   *)
(* the code as it is read from its start, with the bytes that returnSelf   *)
(* has put in after the jumps were patched.                                *)
OnInstruction == Running => ip \in disassemble(RunningCode)

(* A function keeps to its frame: it takes no operand that its caller has  *)
(* put on the stack, its variables are among the slots that it has pushed, *)
(* it returns to a frame, and it does not run past the end of its code.    *)
WithinFrame ==
    Running =>
        /\ HasInstruction
        /\ bp + Takes(Byte(0), Byte(1)) <= sp
        /\ Byte(0) \in Locals => bp + Byte(1) < sp
        /\ Byte(0) = OP_RETURN => callStack # <<>>

=============================================================================
