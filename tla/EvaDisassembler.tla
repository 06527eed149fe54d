--------------------------- MODULE EvaDisassembler ---------------------------
(***************************************************************************)
(* The disassembler (src/disassembler/EvaDisassembler.h): it walks over    *)
(* the bytes of a code object, one instruction after the other, and looks  *)
(* each operand up where the compiler found it.  exec has it print all the *)
(* code there is before it runs any.  What it prints is left out; where it *)
(* finds instructions, and whether every look-up is inside its vector, is  *)
(* not.                                                                    *)
(***************************************************************************)
EXTENDS EvaValue, OpCode

NoOperand == {OP_HALT, OP_ADD, OP_SUB, OP_MUL, OP_DIV, OP_POP, OP_RETURN, OP_NEW}
Words == {OP_SCOPE_EXIT, OP_CALL, OP_MAKE_FUNCTION}
Locals == {OP_GET_LOCAL, OP_SET_LOCAL}
Globals == {OP_GET_GLOBAL, OP_SET_GLOBAL}
Cells == {OP_GET_CELL, OP_SET_CELL, OP_LOAD_CELL}
Properties == {OP_GET_PROP, OP_SET_PROP}
Jumps == {OP_JMP_IF_FALSE, OP_JMP}
Indexed == {OP_CONST, OP_COMPARE} \cup Locals \cup Globals \cup Cells \cup Properties

InstructionSize(op) ==
    CASE op \in NoOperand -> 1
      [] op \in Words \cup Indexed -> 2
      [] op \in Jumps -> 3

IsOpCode(op) == op \in NoOperand \cup Words \cup Indexed \cup Jumps

(* the offsets at which disassemble starts a line *)
disassemble(co) ==
    LET from[offset \in 0..Len(co.code) + 2] ==
          CASE offset >= Len(co.code) -> {}
            [] offset < Len(co.code) /\ ~IsOpCode(co.code[offset + 1]) -> {offset}
            [] OTHER -> {offset} \cup from[offset + InstructionSize(co.code[offset + 1])]
    IN from[0]

(* It ends the process at a byte that is no opcode.                        *)
NoDisassembly(co) == \E offset \in disassemble(co) : ~IsOpCode(co.code[offset + 1])

(* A look-up past the end of its vector.  A local that has been popped off *)
(* the compiler's list is still there to be printed, stale as it is.       *)
OutOfRange(heap, globals, co, op, index) ==
    \/ op = OP_COMPARE /\ index > 5
    \/ op \in {OP_CONST} \cup Properties /\ index >= Len(co.constants)
    \/ op \in Properties /\ index < Len(co.constants) /\ ~IsKind(heap, co.constants[index + 1], "STRING")
    \/ op \in Globals /\ index >= Len(globals)
    \/ op \in Locals /\ index >= co.everLocals
    \/ op \in Cells /\ index >= Len(co.cellNames)

Astray(heap, globals, co) ==
    \E offset \in disassemble(co) :
        LET op == co.code[offset + 1] IN
        /\ IsOpCode(op)
        /\ \/ offset + InstructionSize(op) > Len(co.code)
           \/ op \in Indexed /\ offset + 1 < Len(co.code) /\ OutOfRange(heap, globals, co, op, co.code[offset + 2])

=============================================================================
