------------------------------ MODULE EvaSystem -------------------------------
(***************************************************************************)
(* The machine from a syntax tree to its result: exec (src/vm/EvaVM.h) has *)
(* a program compiled, has all the code there is disassembled, and runs    *)
(* it.  The same machine may be given one program after the other (as      *)
(* src/test/comparison_ops.h does): the heap, the globals, the classes,    *)
(* the stack and the frames are those the last program left.               *)
(*                                                                         *)
(* Next to it stands what the language says the programs mean.             *)
(***************************************************************************)
EXTENDS EvaDefined, EvaCompiler, EvaLanguage

CONSTANT Sessions       \* the sequences of programs that a machine is given

VARIABLES
    session, turn,      \* the programs, and how many of them exec has taken
    classes             \* classObjects_ of the compiler

vars == <<machineVars, session, turn, classes>>

-----------------------------------------------------------------------------

(* EvaVM() *)
Init ==
    /\ session \in Sessions /\ turn = 0
    /\ classes = NewCompiler.classes
    /\ heap = NewCompiler.heap /\ globals = NewCompiler.globals
    /\ freed = {} /\ constantObjects = {}
    /\ stack = <<>> /\ callStack = <<>>
    /\ ip = 0 /\ sp = 0 /\ bp = 0 /\ fn = Null
    /\ status = "idle"

(* The compiler goes on from the objects, the globals and the classes of   *)
(* the programs before; all that it makes stays.                           *)
Compiled ==
    compile([NewCompiler EXCEPT !.heap = heap, !.globals = globals, !.classes = classes],
            Program(session[turn + 1]))

Compile ==
    /\ status \in {"idle", "halted"} /\ turn < Len(session)
    /\ turn' = turn + 1
    /\ \E c \in {Compiled} :
         /\ heap' = c.heap /\ globals' = c.globals /\ classes' = c.classes
         /\ constantObjects' = constantObjects \cup (Len(heap) + 1 .. Len(c.heap))
         /\ fn' = c.main
         /\ status' = IF c.died THEN "died" ELSE "compiled"
    /\ ip' = 0 /\ sp' = 0 /\ bp' = 0
    /\ UNCHANGED <<session, freed, stack, callStack>>

(* codeObjects_: code is never taken back                                  *)
codeObjects == {o \in DOMAIN heap : heap[o].kind = "CODE"}
Printed == {o \in codeObjects : ~NoDisassembly(heap[o])}

(* disassembleBytecode: a look-up out of range may end it or print what it *)
(* finds; the code objects come in the order in which they were made.      *)
Disassemble ==
    /\ status = "compiled"
    /\ \/ Printed = codeObjects /\ status' = "running"
       \/ Printed # codeObjects /\ status' = "died"
       \/ /\ \E o \in codeObjects : Astray(heap, globals, heap[o]) /\ 1..o - 1 \cap codeObjects \subseteq Printed
          /\ status' = "undefined"
    /\ UNCHANGED <<memory, stack, sp, bp, ip, fn, callStack, session, turn, classes>>

Run == Eval /\ UNCHANGED <<session, turn, classes>>

Next == Compile \/ Disassemble \/ Run

(* exec is one thread and goes on as long as it can; whoever owns the      *)
(* machine may or may not call it again.                                   *)
Spec == Init /\ [][Next]_vars /\ WF_vars(Disassemble \/ Run)

-----------------------------------------------------------------------------

(* The popped result, as a value of the language.  Of functions, classes   *)
(* and instances only what they are is compared.                           *)
ResultValue ==
    LET v == Slot(sp) IN
    IF IsObject(v)
    THEN CASE Is(v, "STRING") -> <<"STRING", Chars(v)>>
           [] Is(v, "FUNCTION") -> <<"CLOSURE">>
           [] OTHER -> <<heap[Payload(v)].kind>>
    ELSE v

Seen(v) == IF v[1] \in {"CLOSURE", "CLASS", "INSTANCE"} THEN <<v[1]>> ELSE v

(* All the programs up to this one, as one.                                *)
SoFar == Program(FlattenSeq(SubSeq(session, 1, turn)))

(* A program that ends has the result the language gives it after those    *)
(* before it: what the generator emits and what the eval loop does with it *)
(* agree on every slot of the stack, every cell and every jump, whenever   *)
(* garbage is collected.                                                   *)
ResultRight == status = "halted" => ResultValue = Seen(ProgramMeaning(SoFar))

(* A program that uses its names where they are visible compiles, is       *)
(* disassembled and is run without a DIE: no name is missing where it is   *)
(* looked up, by the analysis or by the generator, no byte is no opcode,   *)
(* no stack too high or too low, no property missing.                      *)
NeverStuck == status # "died"

(* A program whose loops and recursions come to an end is run to its end.  *)
Ends == status = "compiled" ~> status \notin {"compiled", "running"}

=============================================================================
