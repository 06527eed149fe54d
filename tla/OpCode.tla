------------------------------- MODULE OpCode --------------------------------
(* The instruction set (src/bytecode/OpCode.h): an instruction is the byte  *)
(* of its opcode and the bytes of its operands.                             *)

OP_HALT == 0
OP_CONST == 1
OP_ADD == 2
OP_SUB == 3
OP_MUL == 4
OP_DIV == 5
OP_COMPARE == 6
OP_JMP_IF_FALSE == 7
OP_JMP == 8
OP_GET_GLOBAL == 9
OP_SET_GLOBAL == 10
OP_POP == 11
OP_GET_LOCAL == 12
OP_SET_LOCAL == 13
OP_SCOPE_EXIT == 14
OP_CALL == 15
OP_RETURN == 16
OP_GET_CELL == 17
OP_SET_CELL == 18
OP_LOAD_CELL == 19
OP_MAKE_FUNCTION == 20
OP_NEW == 21
OP_GET_PROP == 22
OP_SET_PROP == 23

=============================================================================
