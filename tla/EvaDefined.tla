------------------------------ MODULE EvaDefined ------------------------------
(***************************************************************************)
(* What keeps the eval loop (src/vm/EvaVM.h) from doing what C++ gives no  *)
(* meaning to.  The loop casts operands without looking at what they are,  *)
(* and takes every index as it is in the code.  Indexes of constants and   *)
(* globals are those that the disassembler has looked up before; a cell    *)
(* must be there when an instruction asks for it, and the operands of      *)
(* MAKE_FUNCTION are known from the instructions before it.  The types of  *)
(* all other operands are left to the program.                             *)
(***************************************************************************)
EXTENDS EvaLifetime

(* What is known where an instruction begins, of the running function and  *)
(* the top of its stack: it has at least `cells` cells; the code object    *)
(* `code` is on top, if it is not Null; and next come `loaded` cells.      *)
Nothing(cells_) == [cells |-> cells_, loaded |-> 0, code |-> Null]

(* where the constants of co are code *)
Codes(h, co) == {k \in DOMAIN co.constants : IsKind(h, co.constants[k], "CODE")}

Learnt(codes, co, i, known) ==
    LET op == OpCodeAt(co, i)
        n == OperandAt(co, i)
    IN CASE op = OP_LOAD_CELL ->
              [known EXCEPT !.loaded = IF known.code = Null THEN @ + 1 ELSE 1, !.code = Null]
         [] op = OP_CONST /\ n + 1 \in codes ->
              [known EXCEPT !.loaded = IF known.code = Null THEN @ ELSE 0, !.code = Payload(co.constants[n + 1])]
         [] op = OP_SET_CELL /\ known.cells <= n -> Nothing(known.cells + 1)
         [] OTHER -> Nothing(known.cells)

(* Of two things that may be known, what is known in any case.             *)
Agree(a, b) ==
    [Nothing(Lesser(a.cells, b.cells)) EXCEPT
        !.loaded = IF a.code = b.code THEN Lesser(a.loaded, b.loaded) ELSE 0,
        !.code = IF a.code = b.code THEN a.code ELSE Null]

Weaker(a, b) ==
    /\ a.cells <= b.cells
    /\ \/ a.loaded = 0 /\ a.code = Null
       \/ a.loaded <= b.loaded /\ a.code = b.code

(* The function that runs begins with the cells its maker captured for it. *)
EntryCells(co) == IF EntryDepth(co) = 0 THEN 0 ELSE co.freeCount

Provided(h, co, known, i) ==
    LET op == OpCodeAt(co, i)
        n == OperandAt(co, i)
    IN /\ op \in {OP_GET_CELL, OP_LOAD_CELL} => n < known[i].cells
       /\ op = OP_MAKE_FUNCTION =>
            known[i].code # Null /\ n <= known[i].loaded /\ h[known[i].code].freeCount <= n
       /\ \A j \in Successors(co, i) : j \in DOMAIN known /\ Weaker(known[j], Learnt(Codes(h, co), co, i, known[i]))

IsKnowledge(h, co, known) ==
    /\ 0 \in DOMAIN known /\ Weaker(known[0], Nothing(EntryCells(co)))
    /\ \A i \in DOMAIN known :
         /\ known[i] = [cells |-> known[i].cells, loaded |-> known[i].loaded, code |-> known[i].code]
         /\ known[i].cells \in Nat /\ known[i].loaded \in Nat
         /\ known[i].code = Null \/ Refers(h, known[i].code, "CODE")
         /\ Provided(h, co, known, i)

-----------------------------------------------------------------------------
(* Such knowledge, found in one pass over the code like a layout.          *)

Gather(codes, co, known, i) ==
    LET next == {j \in Successors(co, i) : j > i}
        learnt == Learnt(codes, co, i, known[i])
    IN [j \in DOMAIN known \cup next |->
          CASE j \notin next -> known[j]
            [] j \in LoopHeads(co) -> Nothing(learnt.cells)
            [] j \in next \ DOMAIN known -> learnt
            [] OTHER -> Agree(learnt, known[j])]

Knowledge(codes, co) ==
    LET upTo[n \in Nat] ==
          IF n = 0 THEN [i \in {0} |-> Nothing(EntryCells(co))]
          ELSE LET known == upTo[n - 1] IN
               IF n - 1 \in DOMAIN known /\ Entire(co, n - 1) THEN Gather(codes, co, known, n - 1) ELSE known
    IN upTo[Len(co.code)]

KnownOf(h, co) == Knowledge(Codes(h, co), co)

-----------------------------------------------------------------------------

(* All the cells are there that the function's code counts upon.           *)
Whole(h, f) ==
    /\ h[h[f].co].freeCount <= Len(h[f].cells)
    /\ \A k \in DOMAIN h[f].cells : h[f].cells[k] # Null

(* The images: the disassembler has looked up all the indexes there are,   *)
(* and where an instruction asks for a cell there is one.                  *)
Linked ==
    /\ \A a \in DOMAIN heap : heap[a].kind = "CODE" =>
         /\ ~Astray(heap, globals, heap[a])
         /\ IsKnowledge(heap, heap[a], KnownOf(heap, heap[a]))
    /\ \A a \in DOMAIN heap : heap[a].kind = "FUNCTION" => Whole(heap, a)

(* A function that waits at i for f to return, if it is f itself, counts   *)
(* on no more cells than those that CALL leaves.                           *)
Leaves_(f, waiting, i) ==
    waiting = f => KnownOf(heap, heap[heap[f].co])[i].cells <= heap[heap[f].co].freeCount

(* The types of operands, which the language leaves to the program, and    *)
(* that a function has set none of its cells when it is called again.      *)
Typed ==
    LET op == Byte(0) IN
    /\ op \in {OP_SUB, OP_MUL, OP_DIV} => Numbers
    /\ op = OP_JMP_IF_FALSE => IsBoolean(peek(0))
    /\ op = OP_NEW => IsKind(heap, peek(0), "CLASS")
    /\ op = OP_GET_PROP => ~IsJunk(peek(0))
    /\ op = OP_SET_PROP => IsKind(heap, peek(0), "INSTANCE")
    /\ op = OP_CALL => IsKind(heap, Callee, "FUNCTION") \/ IsKind(heap, Callee, "NATIVE")
    /\ op = OP_CALL /\ IsKind(heap, Callee, "NATIVE") =>
         \A k \in 0..Args(heap[Payload(Callee)].name) - 1 : IsNumber(peek(k))
    /\ op = OP_CALL /\ IsKind(heap, Callee, "FUNCTION") =>
         /\ Leaves_(Payload(Callee), fn, ip + 2)
         /\ \A k \in DOMAIN callStack : Leaves_(Payload(Callee), callStack[k].fn, callStack[k].ra)

DefinedNext ==
    \/ Load /\ OfConstants
    \/ Listed /\ status' # "undefined" /\ (status' = "running" => Verified /\ CalleesKept /\ Linked)
    \/ Eval /\ (HasInstruction => Orderly /\ Tame /\ Typed)

DefinedSpec == Fresh /\ [][DefinedNext]_machineVars

-----------------------------------------------------------------------------

(* No program does what C++ leaves undefined: no operand is missing, no    *)
(* index is past its vector, no object is taken for one of another kind,   *)
(* none is used that a collection took back, and a closure's cells are     *)
(* those it was given.                                                     *)
NeverUndefined == status # "undefined"

=============================================================================
