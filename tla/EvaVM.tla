-------------------------------- MODULE EvaVM ---------------------------------
(***************************************************************************)
(* The virtual machine (src/vm/EvaVM.h): the eval loop over the bytes that *)
(* the compiler left, one action per opcode.                               *)
(*                                                                         *)
(* Numbers are integers: a quotient that is not one ends the behaviour.    *)
(* The process may end (DIE), and it may do what C++ gives no meaning to:  *)
(* read an object as another kind of object, an index past the end of a    *)
(* vector, a slot nobody wrote.  The model stops there, too.               *)
(***************************************************************************)
EXTENDS EvaValue, OpCode

CONSTANT StackLimit     \* STACK_LIMIT

ASSUME VMAssumption == StackLimit \in Nat \ {0}

VARIABLES
    heap, globals,
    freed,          \* the objects a collection has taken back
    constantObjects,\* the objects the compiler has made
    stack,          \* the slots of the operand stack up to the last one written
    sp, bp, ip,     \* offsets of the pointers
    fn,             \* the running function
    callStack,
    status          \* "running", "halted", "died", "undefined", "fraction";
                    \* before eval, "idle" and "compiled"

memory == <<heap, globals, freed, constantObjects>>
machineVars == <<memory, stack, sp, bp, ip, fn, callStack, status>>

-----------------------------------------------------------------------------

Slot(i) == IF i \in 0..Len(stack) - 1 THEN stack[i + 1] ELSE Junk
peek(k) == Slot(sp - 1 - k)

(* the slots after vs has been written from `base` on *)
Written(base, vs) ==
    [i \in 1..(IF base + Len(vs) > Len(stack) THEN base + Len(vs) ELSE Len(stack)) |->
        IF i \in base + 1 .. base + Len(vs) THEN vs[i - base] ELSE Slot(i - 1)]

(* pop n values and push those of vs *)
Replace(n, vs) ==
    /\ stack' = Written(sp - n, vs)
    /\ sp' = sp - n + Len(vs)

Code == heap[heap[fn].co].code
Byte(k) == Code[ip + 1 + k]
Short(k) == 256 * Byte(k) + Byte(k + 1)
Constant(k) == heap[heap[fn].co].constants[k + 1]
cells == heap[fn].cells

Operands(op) ==
    CASE op \in {OP_JMP_IF_FALSE, OP_JMP} -> 2
      [] op \in {OP_CONST, OP_COMPARE, OP_GET_GLOBAL, OP_SET_GLOBAL, OP_GET_LOCAL, OP_SET_LOCAL,
                 OP_SCOPE_EXIT, OP_CALL, OP_GET_CELL, OP_SET_CELL, OP_LOAD_CELL, OP_MAKE_FUNCTION,
                 OP_GET_PROP, OP_SET_PROP} -> 1
      [] OTHER -> 0

HasInstruction == ip < Len(Code) /\ ip + Operands(Byte(0)) < Len(Code)

Stale(v) == IsObject(v) /\ Payload(v) \in freed
Is(v, kind) == ~Stale(v) /\ IsKind(heap, v, kind)
Callee == peek(Byte(1))
Numbers == IsNumber(peek(0)) /\ IsNumber(peek(1))
Strings == Is(peek(0), "STRING") /\ Is(peek(1), "STRING")
Args(name) == IF name = "sum" THEN 2 ELSE 1

(* Pushed before anything is popped, or popped before it is pushed. *)
Needs(op) ==
    CASE op \in {OP_ADD, OP_SUB, OP_MUL, OP_DIV, OP_COMPARE, OP_SET_PROP} -> 2
      [] op \in {OP_HALT, OP_JMP_IF_FALSE, OP_SET_GLOBAL, OP_POP, OP_SET_LOCAL, OP_SCOPE_EXIT,
                 OP_CALL, OP_SET_CELL, OP_NEW, OP_GET_PROP} -> 1
      [] op = OP_MAKE_FUNCTION -> 1 + Byte(1)
      [] OTHER -> 0

\* Mutant: push() lets one value too many on the stack.
FullLate == sp > StackLimit
Full == sp = StackLimit

(* A slot nobody wrote, or a reference to an object that is not there.     *)
Unreadable(v) == IsJunk(v) \/ Stale(v)

(* The conditions under which the instruction ends the process: push() of  *)
(* a full stack, pop() and peek() of an empty one, and its own checks.     *)
Dies ==
    LET op == Byte(0) IN
    \/ op > OP_SET_PROP
    \/ sp < Needs(op)
    \/ Full /\ op \in {OP_CONST, OP_GET_GLOBAL, OP_GET_LOCAL, OP_GET_CELL, OP_LOAD_CELL, OP_NEW}
    \/ op = OP_CALL /\ Full /\ Is(Callee, "NATIVE")
    \/ op \in {OP_GET_LOCAL, OP_SET_LOCAL} /\ Byte(1) >= StackLimit
    \/ op = OP_SET_GLOBAL /\ Byte(1) >= Len(globals)
    \/ op = OP_COMPARE /\ Byte(1) > 5 /\ (Numbers \/ Strings)
    \/ op = OP_GET_PROP /\ ~Is(peek(0), "INSTANCE") /\ ~Is(peek(0), "CLASS") /\ ~Unreadable(peek(0))

(* The conditions under which C++ does not say what it does. *)
Undefined ==
    LET op == Byte(0) IN
    \/ op \in {OP_ADD, OP_COMPARE, OP_GET_PROP} /\ Unreadable(peek(0))
    \/ op \in {OP_ADD, OP_COMPARE} /\ Unreadable(peek(1))
    \/ fn \in freed /\ op \in {OP_CONST, OP_JMP_IF_FALSE, OP_JMP, OP_GET_CELL, OP_SET_CELL, OP_LOAD_CELL,
                               OP_GET_PROP, OP_SET_PROP}
    \/ op \in {OP_SUB, OP_MUL, OP_DIV} /\ ~(IsNumber(peek(0)) /\ IsNumber(peek(1)))
    \/ op = OP_JMP_IF_FALSE /\ ~IsBoolean(peek(0))
    \/ op \in {OP_CONST, OP_GET_PROP, OP_SET_PROP} /\ Byte(1) >= Len(heap[heap[fn].co].constants)
    \/ op \in {OP_GET_PROP, OP_SET_PROP} /\ Byte(1) < Len(heap[heap[fn].co].constants)
         /\ ~IsKind(heap, Constant(Byte(1)), "STRING")
    \/ op = OP_GET_GLOBAL /\ Byte(1) >= Len(globals)
    \/ op \in {OP_GET_LOCAL, OP_SET_LOCAL} /\ bp + Byte(1) >= StackLimit
    \/ op = OP_SCOPE_EXIT /\ sp - 1 < Byte(1)
    \/ op = OP_CALL /\ (sp <= Byte(1) \/ ~(Is(Callee, "FUNCTION") \/ Is(Callee, "NATIVE")))
    \/ op = OP_CALL /\ Is(Callee, "NATIVE") /\
         \E k \in 0..Args(heap[Payload(Callee)].name) - 1 : ~IsNumber(peek(k))
    \/ op = OP_RETURN /\ callStack = <<>>
    \/ op \in {OP_GET_CELL, OP_LOAD_CELL} /\ Byte(1) >= Len(cells)
    \/ op \in {OP_GET_CELL, OP_LOAD_CELL, OP_SET_CELL} /\ Byte(1) < Len(cells) /\ cells[Byte(1) + 1] = Null
    \/ op \in {OP_GET_CELL, OP_SET_CELL} /\ Byte(1) < Len(cells) /\ cells[Byte(1) + 1] \in freed
    \/ op = OP_MAKE_FUNCTION /\ (~IsKind(heap, peek(0), "CODE")
                                   \/ \E k \in 1..Byte(1) : ~IsKind(heap, peek(k), "CELL"))
    \/ op = OP_NEW /\ ~Is(peek(0), "CLASS")
    \/ op = OP_SET_PROP /\ ~Is(peek(0), "INSTANCE")

Unresolved ==
    \/ Byte(0) = OP_NEW /\ IsJunk(classProp(heap, Payload(peek(0)), "constructor"))
    \/ Byte(0) = OP_GET_PROP /\ IsJunk(getProp(heap, Payload(peek(0)), heap[Payload(Constant(Byte(1)))].string))

-----------------------------------------------------------------------------

(***************************************************************************)
(* MEM(allocator, ...) may collect garbage before it allocates: whether    *)
(* bytesAllocated has reached GC_THRESHOLD is left open.  `top` slots of   *)
(* the stack are roots, and so are the globals and all that the compiler   *)
(* has made; the function being run and those of the frames are not.  Mark *)
(* bits are clear between two collections (EvaCollector has the rest).     *)
(***************************************************************************)
Referenced(values) == {Payload(v) : v \in {w \in values : IsObject(w)}}

\* Mutant: the topmost slot is left out.
getGCRootsBelow(top) ==
    constantObjects \cup Referenced({Slot(i) : i \in 0..top - 2})
                    \cup Referenced({globals[i].value : i \in DOMAIN globals})

getGCRoots(top) ==
    constantObjects \cup Referenced({Slot(i) : i \in 0..top - 1})
                    \cup Referenced({globals[i].value : i \in DOMAIN globals})

getPointers(o) ==
    CASE heap[o].kind = "FUNCTION" -> {heap[o].cells[k] : k \in DOMAIN heap[o].cells} \ {Null}
      [] heap[o].kind = "INSTANCE" -> Referenced({heap[o].properties[p] : p \in DOMAIN heap[o].properties})
      [] OTHER -> {}

Marked(top) ==
    LET mark[seen \in SUBSET DOMAIN heap] ==
          LET more == seen \cup UNION {getPointers(o) : o \in seen}
          IN IF more = seen THEN seen ELSE mark[more]
    IN mark[getGCRoots(top)]

(* ADD and SET_CELL allocate in some of their cases only.  A collection    *)
(* that follows a reference to what is gone is undefined, and so is one    *)
(* that takes the function whose new cell it makes room for.               *)
Allocates(op) ==
    \/ op \in {OP_MAKE_FUNCTION, OP_NEW}
    \/ op = OP_ADD /\ Strings
    \/ op = OP_SET_CELL /\ Len(cells) <= Byte(1)

Popped(op) == CASE op = OP_ADD -> 2 [] op = OP_SET_CELL -> 0 [] OTHER -> 1

GcUndefined(op) ==
    \/ Marked(sp - Popped(op)) \cap freed # {}
    \/ op = OP_SET_CELL /\ fn \notin Marked(sp)

MEM(op, grown) ==
    /\ heap' = grown
    /\ \/ UNCHANGED freed
       \/ ~GcUndefined(op) /\ freed' = DOMAIN heap \ Marked(sp - Popped(op))

-----------------------------------------------------------------------------

Stop(how) == status' = how /\ UNCHANGED <<memory, stack, sp, bp, ip, fn, callStack>>

Running == status = "running"
Fatal == Running /\ HasInstruction /\ Dies /\ Stop("died")
Wild == Running /\ (HasInstruction => ~Dies /\ Undefined) /\ Stop("undefined")
GcWild ==
    /\ Running /\ HasInstruction /\ ~Dies /\ ~Undefined
    /\ Allocates(Byte(0)) /\ GcUndefined(Byte(0))
    /\ Stop("undefined")
Missing == Running /\ HasInstruction /\ ~Dies /\ ~Undefined /\ Unresolved /\ Stop("died")

(* The instruction op is well-defined, and the next one follows it. *)
At_(op) ==
    /\ Running /\ HasInstruction /\ Byte(0) = op
    /\ ~Dies /\ ~Undefined /\ ~Unresolved

Step(op) == At_(op) /\ ip' = ip + 1 + Operands(op) /\ UNCHANGED <<bp, fn, callStack>>

Halt ==
    /\ At_(OP_HALT)
    /\ sp' = sp - 1
    /\ status' = "halted"
    /\ UNCHANGED <<memory, stack, bp, ip, fn, callStack>>

Push(op, v) == Step(op) /\ Replace(0, <<v>>) /\ UNCHANGED <<memory, status>>

Const == Push(OP_CONST, Constant(Byte(1)))
GetGlobal == Push(OP_GET_GLOBAL, globals[Byte(1) + 1].value)
GetLocal == Push(OP_GET_LOCAL, Slot(bp + Byte(1)))
GetCell == Push(OP_GET_CELL, heap[cells[Byte(1) + 1]].value)
LoadCell == Push(OP_LOAD_CELL, OBJECT(cells[Byte(1) + 1]))

Chars(v) == heap[Payload(v)].string

(* Two numbers or two strings; two values of any other kinds are popped,   *)
(* and nothing is pushed.                                                  *)
Add ==
    /\ Step(OP_ADD)
    /\ \/ Numbers /\ Replace(2, <<NUMBER(Payload(peek(1)) + Payload(peek(0)))>>) /\ UNCHANGED memory
       \/ /\ Strings
          /\ MEM(OP_ADD, Append(heap, StringObject(Chars(peek(1)) \o Chars(peek(0)))))
          /\ Replace(2, <<OBJECT(Len(heap'))>>)
          /\ UNCHANGED <<globals, constantObjects>>
       \/ ~Numbers /\ ~Strings /\ Replace(2, <<>>) /\ UNCHANGED memory
    /\ UNCHANGED status

Arithmetic(op, result) ==
    Step(op) /\ Replace(2, <<NUMBER(result)>>) /\ UNCHANGED <<memory, status>>

Sub == Arithmetic(OP_SUB, Payload(peek(1)) - Payload(peek(0)))
Mul == Arithmetic(OP_MUL, Payload(peek(1)) * Payload(peek(0)))

Magnitude(a) == IF a < 0 THEN -a ELSE a
Quotients(a, b) == {q \in -Magnitude(a)..Magnitude(a) : b # 0 /\ a = q * b}

Div ==
    /\ At_(OP_DIV)
    /\ IF Quotients(Payload(peek(1)), Payload(peek(0))) = {} THEN Stop("fraction")
       ELSE \E q \in Quotients(Payload(peek(1)), Payload(peek(0))) : Arithmetic(OP_DIV, q)

Compared(op, a, b) ==
    CASE op = 0 -> a < b [] op = 1 -> a > b [] op = 2 -> a = b
      [] op = 3 -> a <= b [] op = 4 -> a >= b [] op = 5 -> a # b

Compare ==
    /\ Step(OP_COMPARE)
    /\ \/ Numbers /\ Replace(2, <<BOOLEAN_(Compared(Byte(1), Payload(peek(1)), Payload(peek(0))))>>)
       \/ Strings /\ Replace(2, <<BOOLEAN_(Compared(Byte(1), Rank(Chars(peek(1))), Rank(Chars(peek(0)))))>>)
       \/ ~Numbers /\ ~Strings /\ Replace(2, <<>>)
    /\ UNCHANGED <<memory, status>>

JmpIfFalse ==
    /\ At_(OP_JMP_IF_FALSE)
    /\ ip' = IF Payload(peek(0)) THEN ip + 3 ELSE Short(1)
    /\ Replace(1, <<>>)
    /\ UNCHANGED <<memory, bp, fn, callStack, status>>

Jmp ==
    /\ At_(OP_JMP)
    /\ ip' = Short(1)
    /\ UNCHANGED <<memory, stack, sp, bp, fn, callStack, status>>

SetGlobal ==
    /\ Step(OP_SET_GLOBAL)
    /\ globals' = [globals EXCEPT ![Byte(1) + 1].value = peek(0)]
    /\ UNCHANGED <<heap, freed, constantObjects, stack, sp, status>>

Pop == Step(OP_POP) /\ Replace(1, <<>>) /\ UNCHANGED <<memory, status>>

SetLocal ==
    /\ Step(OP_SET_LOCAL)
    /\ stack' = Written(bp + Byte(1), <<peek(0)>>)
    /\ UNCHANGED <<memory, sp, status>>

ScopeExit == Step(OP_SCOPE_EXIT) /\ Replace(1 + Byte(1), <<peek(0)>>) /\ UNCHANGED <<memory, status>>

(* the native functions, on their arguments *)
Native(name) ==
    IF name = "sum" THEN Payload(peek(1)) + Payload(peek(0)) ELSE Payload(peek(0)) * Payload(peek(0))

CallNative ==
    /\ Step(OP_CALL)
    /\ Is(Callee, "NATIVE")
    /\ Replace(Byte(1) + 1, <<NUMBER(Native(heap[Payload(Callee)].name))>>)
    /\ UNCHANGED <<memory, status>>

Frame == [ra |-> ip + 2, bp |-> bp, fn |-> fn]

\* Mutant: the callee goes on with all the cells of its last run.
KeepAll(f) == f.cells
Shrunk(f) == [i \in 1..heap[f.co].freeCount |-> IF i <= Len(f.cells) THEN f.cells[i] ELSE Null]

Call ==
    /\ At_(OP_CALL)
    /\ Is(Callee, "FUNCTION")
    /\ callStack' = Append(callStack, Frame)
    /\ fn' = Payload(Callee)
    /\ heap' = [heap EXCEPT ![fn'].cells = Shrunk(heap[fn'])]
    /\ bp' = sp - Byte(1) - 1
    /\ ip' = 0
    /\ UNCHANGED <<globals, freed, constantObjects, stack, sp, status>>

Return ==
    /\ At_(OP_RETURN)
    /\ LET frame == callStack[Len(callStack)] IN
         ip' = frame.ra /\ bp' = frame.bp /\ fn' = frame.fn
    /\ callStack' = SubSeq(callStack, 1, Len(callStack) - 1)
    /\ UNCHANGED <<memory, stack, sp, status>>

(* The cell of a variable is allocated when it is first set, and from then *)
(* on updated.                                                             *)
SetCell ==
    /\ Step(OP_SET_CELL)
    /\ \/ /\ Len(cells) <= Byte(1)
          /\ MEM(OP_SET_CELL, Append([heap EXCEPT ![fn].cells = Append(@, Len(heap) + 1)], CellObject(peek(0))))
       \/ /\ Byte(1) < Len(cells)
          /\ heap' = [heap EXCEPT ![cells[Byte(1) + 1]].value = peek(0)]
          /\ UNCHANGED freed
    /\ UNCHANGED <<globals, constantObjects, stack, sp, status>>

(* The cells are popped after the code, the last one that was loaded first. *)
\* Mutant: the first cell is taken from where the code is.
CapturedEarly(k) == Payload(peek(k - 1))
Captured(k) == Payload(peek(k))

MakeFunction ==
    LET n == Byte(1)
        made == [FunctionObject(Payload(peek(0))) EXCEPT !.cells = [k \in 1..n |-> Captured(k)]]
    IN /\ Step(OP_MAKE_FUNCTION)
       /\ MEM(OP_MAKE_FUNCTION, Append(heap, made))
       /\ Replace(n + 1, <<OBJECT(Len(heap'))>>)
       /\ UNCHANGED <<globals, constantObjects, status>>

New ==
    /\ Step(OP_NEW)
    /\ MEM(OP_NEW, Append(heap, InstanceObject(Payload(peek(0)))))
    /\ Replace(1, <<classProp(heap, Payload(peek(0)), "constructor"), OBJECT(Len(heap'))>>)
    /\ UNCHANGED <<globals, constantObjects, status>>

GetProp ==
    /\ Step(OP_GET_PROP)
    /\ Replace(1, <<getProp(heap, Payload(peek(0)), Chars(Constant(Byte(1))))>>)
    /\ UNCHANGED <<memory, status>>

SetProp ==
    LET prop == Chars(Constant(Byte(1)))
        properties == heap[Payload(peek(0))].properties
    IN /\ Step(OP_SET_PROP)
       /\ heap' = [heap EXCEPT ![Payload(peek(0))].properties =
                     [p \in DOMAIN properties \cup {prop} |->
                        IF p = prop THEN peek(1) ELSE properties[p]]]
       /\ Replace(2, <<peek(1)>>)
       /\ UNCHANGED <<globals, freed, constantObjects, status>>

(* one turn of the loop of eval *)
Eval ==
    \/ Fatal \/ Wild \/ GcWild \/ Missing
    \/ Halt \/ Const \/ Add \/ Sub \/ Mul \/ Div \/ Compare \/ JmpIfFalse \/ Jmp
    \/ GetGlobal \/ SetGlobal \/ Pop \/ GetLocal \/ SetLocal \/ ScopeExit
    \/ CallNative \/ Call \/ Return \/ GetCell \/ SetCell \/ LoadCell \/ MakeFunction
    \/ New \/ GetProp \/ SetProp

-----------------------------------------------------------------------------

IsSeq(s) == s \in Seq({s[i] : i \in DOMAIN s})
Refers(h, address, kind) == address \in DOMAIN h /\ h[address].kind = kind
IsValue(h, v) == v[1] \in {"NUMBER", "BOOLEAN", "JUNK"} \/ (v[1] = "OBJECT" /\ v[2] \in DOMAIN h)
AllValues(h, f) == \A i \in DOMAIN f : IsValue(h, f[i])

FunctionOK(h, o) ==
    /\ o = [kind |-> "FUNCTION", co |-> o.co, cells |-> o.cells]
    /\ Refers(h, o.co, "CODE")
    /\ IsSeq(o.cells) /\ \A k \in DOMAIN o.cells : o.cells[k] = Null \/ Refers(h, o.cells[k], "CELL")

CodeOK(h, o) ==
    /\ o.code \in Seq(0..255)
    /\ IsSeq(o.constants) /\ AllValues(h, o.constants)
    /\ o.freeCount \in Nat

ObjectOK(h, o) ==
    CASE o.kind = "FUNCTION" -> FunctionOK(h, o)
      [] o.kind = "CODE" -> CodeOK(h, o)
      [] o.kind = "CELL" -> o = [kind |-> "CELL", value |-> o.value] /\ IsValue(h, o.value)
      [] o.kind = "INSTANCE" -> /\ o = [kind |-> "INSTANCE", cls |-> o.cls, properties |-> o.properties]
                                /\ Refers(h, o.cls, "CLASS") /\ AllValues(h, o.properties)
      [] o.kind = "CLASS" -> /\ o.superClass = Null \/ Refers(h, o.superClass, "CLASS")
                             /\ AllValues(h, o.properties)
      [] OTHER -> o.kind \in {"STRING", "NATIVE"}

GlobalOK(h, g) == g = [name |-> g.name, value |-> g.value] /\ IsValue(h, g.value)

HeapOK(h) == IsSeq(h) /\ \A a \in DOMAIN h : ObjectOK(h, h[a])
MemoryOK ==
    /\ HeapOK(heap)
    /\ IsSeq(globals) /\ \A i \in DOMAIN globals : GlobalOK(heap, globals[i])
    /\ freed \subseteq DOMAIN heap /\ constantObjects \subseteq DOMAIN heap

FrameOK(f) ==
    /\ f = [ra |-> f.ra, bp |-> f.bp, fn |-> f.fn]
    /\ f.ra \in Nat /\ f.bp \in Nat /\ Refers(heap, f.fn, "FUNCTION")

(* Every object has the fields of its kind, and every reference, on the    *)
(* heap, on the stack and in a frame, is to an object of the kind the code *)
(* casts it to.                                                            *)
TypeOK ==
    /\ MemoryOK
    /\ IsSeq(stack) /\ AllValues(heap, stack)
    /\ sp \in Nat /\ bp \in Nat /\ ip \in Nat
    /\ status = "idle" \/ Refers(heap, fn, "FUNCTION")
    /\ IsSeq(callStack) /\ \A i \in DOMAIN callStack : FrameOK(callStack[i])
    /\ status \in {"idle", "compiled", "running", "halted", "died", "undefined", "fraction"}

(* Whatever the bytecode, nothing is read or written outside the array of  *)
(* the operand stack before the machine has done something undefined: the  *)
(* checks in push, pop and OP_SET_LOCAL, and a frame that is never deeper  *)
(* than the stack was at its call, are enough.                             *)
StackInArray ==
    /\ sp <= StackLimit /\ bp <= StackLimit /\ Len(stack) <= StackLimit
    /\ \A i \in DOMAIN callStack : callStack[i].bp <= StackLimit

=============================================================================
