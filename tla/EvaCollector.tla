---------------------------- MODULE EvaCollector ----------------------------
(***************************************************************************)
(* The mark-sweep collector (src/gc/EvaCollector.h), the Traceable heap it *)
(* works on (src/vm/EvaValue.h), its triggers and roots (src/vm/EvaVM.h)   *)
(* and, as the mutator, what the compiler and the instructions of the VM   *)
(* do to the heap.                                                         *)
(*                                                                         *)
(* Data is abstracted to object identity: numbers and booleans are absent, *)
(* and a vector, a map or the operand stack is the set of the objects in   *)
(* it, so that losing one of two copies of a reference is a stuttering     *)
(* step.  The object types, the fields the collector traces and those it   *)
(* does not, and the order of every allocation and collection step are     *)
(* those of the code.                                                      *)
(***************************************************************************)
EXTENDS Integers, FiniteSets

CONSTANTS
    Obj,             \* addresses; a freed address may be allocated again
    Natives,         \* addresses of the native functions the VM installs
    Size,            \* Size[k]: bytes taken by an object of kind k
    GcThreshold,     \* GC_THRESHOLD, in the unit of Size
    StackLimit,      \* STACK_LIMIT: objects on the operand stack at once
    MaxConstants,    \* bound: objects allocated by the compiler
    MaxGlobals,      \* bound: objects held by global variables
    MaxProperties,   \* bound: objects held by the properties of an instance
    FreshMarks,      \* what `marked`, which no constructor sets, may hold
    CaptureAny,      \* may a captured variable hold a run-time object?
    OverwriteCallee  \* may a function assign to its own name?

Kind == {"STRING", "CODE", "NATIVE", "FUNCTION", "CELL", "CLASS", "INSTANCE"}

ASSUME ConstantsAssumption ==
    /\ IsFiniteSet(Obj)
    /\ Natives \subseteq Obj
    /\ Size \in [Kind -> Nat \ {0}]
    /\ GcThreshold \in Nat
    /\ StackLimit \in Nat
    /\ MaxConstants \in Nat
    /\ MaxGlobals \in Nat
    /\ MaxProperties \in Nat
    /\ FreshMarks \subseteq BOOLEAN
    /\ FreshMarks # {}
    /\ CaptureAny \in BOOLEAN
    /\ OverwriteCallee \in BOOLEAN

VARIABLES
    objects,         \* Traceable::objects
    kind,            \* the ObjectType of the object at an address, or "NONE"
    link,            \* references fixed by the compiler or a constructor:
                     \* a function's co, an instance's cls, a class's
                     \* superClass and methods, a code object's constants
    slots,           \* references written at run time: a function's cells,
                     \* an instance's properties, a cell's value
    marked,          \* the mark bit
    bytesAllocated,  \* Traceable::bytesAllocated
    stack,           \* objects on the operand stack
    frames,          \* functions being run: fn, and fn of every Frame
    globals,         \* objects held by global variables
    constantObjects, \* constantObjects_ of the compiler
    pc,              \* what the thread is doing
    request,         \* the object a MEM(...) expression is about to create
    worklist,        \* mark(): objects still to visit
    unswept          \* sweep(): list nodes from `it` to the end

heapVars == <<objects, kind, link, slots, marked, bytesAllocated>>
rootVars == <<stack, frames, globals, constantObjects>>
gcVars   == <<request, worklist, unswept>>
vars     == <<heapVars, rootVars, pc, gcVars>>

NoRequest == [kind |-> "NONE", link |-> {}, slots |-> {}, owner |-> {}]

Request == [kind : Kind \cup {"NONE"}, link : SUBSET Obj,
            slots : SUBSET Obj, owner : SUBSET Obj]

TypeOK ==
    /\ objects \subseteq Obj
    /\ kind \in [Obj -> Kind \cup {"NONE"}]
    /\ link \in [Obj -> SUBSET Obj]
    /\ slots \in [Obj -> SUBSET Obj]
    /\ marked \in [Obj -> BOOLEAN]
    /\ bytesAllocated \in Int
    /\ stack \subseteq Obj
    /\ frames \subseteq Obj
    /\ globals \subseteq Obj
    /\ constantObjects \subseteq Obj
    /\ pc \in {"exec", "compile", "eval", "mem", "mark", "sweep", "alloc", "cleanup",
              "closed", "died", "undefined"}
    /\ request \in Request
    /\ worklist \subseteq Obj
    /\ unswept \subseteq Obj

-----------------------------------------------------------------------------
(* The collector's view of the heap, and the program's.                    *)

(* Mutants: a type of object is forgotten. *)
getPointersOfInstances(o) == IF kind[o] = "INSTANCE" THEN slots[o] ELSE {}
getPointersOfFunctions(o) == IF kind[o] = "FUNCTION" THEN slots[o] ELSE {}

(* Only a function's cells and an instance's properties are traced.        *)
getPointers(o) == IF kind[o] \in {"FUNCTION", "INSTANCE"} THEN slots[o] ELSE {}

getGCRoots == stack \cup constantObjects \cup globals

(* Everything the program can name or has in a C++ local, and everything   *)
(* an object in memory refers to.                                          *)
Held == getGCRoots \cup frames \cup request.link \cup request.slots
          \cup request.owner

Fields == [o \in Obj |-> slots[o] \cup link[o]]

(* The captured variables of the functions being run.                      *)
Cells == UNION {slots[f] : f \in frames}

(* Objects whose memory the next instruction may read or write.            *)
Used == stack \cup frames \cup Cells

(* What an instruction may push: a root, a captured variable or its value, *)
(* a property of an instance on the stack.                                 *)
Pushable ==
    getGCRoots \cup Cells \cup (UNION {slots[c] : c \in Cells})
      \cup (UNION {slots[i] : i \in {o \in stack : kind[o] = "INSTANCE"}})

-----------------------------------------------------------------------------
(* Allocation: operator new, then the constructor of a kind-k object.  The *)
(* mark bit is whatever the memory held.                                   *)

(* Mutant: a constructor that does not initialise its base. *)
TypedNever(o, k) == [kind EXCEPT ![o] = "GARBAGE"]
Typed(o, k) == [kind EXCEPT ![o] = k]

New(o, k, l) ==
    /\ o \in Obj \ objects
    /\ objects' = objects \cup {o}
    /\ kind' = Typed(o, k)
    /\ link' = [link EXCEPT ![o] = l]
    /\ \E m \in FreshMarks : marked' = [marked EXCEPT ![o] = m]
    /\ bytesAllocated' = bytesAllocated + Size[k]

(* EvaVM(): the native functions are allocated and put in global variables. *)
Init ==
    /\ objects = Natives
    /\ kind = [o \in Obj |-> IF o \in Natives THEN "NATIVE" ELSE "NONE"]
    /\ link = [o \in Obj |-> {}]
    /\ slots = [o \in Obj |-> {}]
    /\ \E stray \in [Natives -> FreshMarks] :
          marked = [o \in Obj |-> IF o \in Natives THEN stray[o] ELSE FALSE]
    /\ bytesAllocated = Cardinality(Natives) * Size["NATIVE"]
    /\ stack = {}
    /\ frames = {}
    /\ globals = Natives
    /\ constantObjects = {}
    /\ pc = "exec"
    /\ request = NoRequest
    /\ worklist = {}
    /\ unswept = {}

-----------------------------------------------------------------------------
(* The compiler allocates without asking the collector, and records every  *)
(* object it makes in constantObjects_.                                    *)

Constants(k) == {c \in constantObjects : kind[c] = k}

CompileObject(o, k, l) ==
    /\ pc = "compile"
    /\ Cardinality(constantObjects) < MaxConstants
    /\ New(o, k, l)
    /\ slots' = [slots EXCEPT ![o] = {}]
    /\ constantObjects' = constantObjects \cup {o}

(* compile: the code object "main" and its function come first *)
BeginExec == \E co \in Obj \ objects : \E main \in Obj \ (objects \cup {co}) :
    /\ pc = "exec"
    /\ Cardinality(constantObjects) + 2 <= MaxConstants
    /\ objects' = objects \cup {co, main}
    /\ kind' = [kind EXCEPT ![co] = "CODE", ![main] = "FUNCTION"]
    /\ link' = [link EXCEPT ![co] = {}, ![main] = {co}]
    /\ slots' = [slots EXCEPT ![co] = {}, ![main] = {}]
    /\ \E m, n \in FreshMarks : marked' = [marked EXCEPT ![co] = m, ![main] = n]
    /\ bytesAllocated' = bytesAllocated + Size["CODE"] + Size["FUNCTION"]
    /\ constantObjects' = constantObjects \cup {co, main}
    /\ frames' = {main}
    /\ pc' = "compile"
    /\ UNCHANGED <<stack, globals, gcVars>>

(* createCodeObjectValue, stringConstIdx *)
CompileLeaf == \E o \in Obj, k \in {"CODE", "STRING"} :
    CompileObject(o, k, {}) /\ UNCHANGED <<stack, frames, globals, pc, gcVars>>

(* the function allocated for a code object that captures nothing *)
CompileFunction == \E o \in Obj, co \in Constants("CODE") :
    /\ CompileObject(o, "FUNCTION", {co})
    /\ UNCHANGED <<stack, frames, globals, pc, gcVars>>

(* a class, installed as a global variable before its body is compiled *)
CompileClass == \E o \in Obj, super \in {{}} \cup {{c} : c \in Constants("CLASS")} :
    /\ Cardinality(globals) < MaxGlobals
    /\ CompileObject(o, "CLASS", super)
    /\ globals' = globals \cup {o}
    /\ UNCHANGED <<stack, frames, pc, gcVars>>

(* addConstant on a code object, or a method stored in its class *)
CompileReference == \E c \in Constants("CODE") \cup Constants("CLASS"), d \in constantObjects :
    /\ pc = "compile"
    /\ d # c /\ d \notin frames
    /\ kind[c] = "CLASS" => kind[d] = "FUNCTION"
    /\ link' = [link EXCEPT ![c] = @ \cup {d}]
    /\ UNCHANGED <<objects, kind, slots, marked, bytesAllocated, rootVars, pc, gcVars>>

(* exec: the main function starts on an empty operand stack *)
StartEval ==
    /\ pc = "compile"
    /\ pc' = "eval"
    /\ stack' = {}
    /\ UNCHANGED <<heapVars, frames, globals, constantObjects, gcVars>>

(* OP_HALT; the VM may then be given another program *)
Halt ==
    /\ pc = "eval"
    /\ pc' = "exec"
    /\ frames' = {}
    /\ UNCHANGED <<heapVars, stack, globals, constantObjects, gcVars>>

(* ~EvaVM: cleanup() deletes every object of the list, then clears it; the *)
(* members of the VM and of its compiler go with it.                       *)
Cleanup ==
    /\ pc = "exec"
    /\ pc' = "cleanup"
    /\ unswept' = objects
    /\ UNCHANGED <<heapVars, rootVars, request, worklist>>

(* Traceable::operator delete takes back the size operator new recorded.   *)
(* Mutant: the static size of the base class, as `delete` passes it.       *)
BaseSize(o) == 1
SizeOf(o) == Size[kind[o]]

CleanupDelete == \E o \in unswept :
    /\ pc = "cleanup"
    /\ bytesAllocated' = bytesAllocated - SizeOf(o)
    /\ unswept' = unswept \ {o}
    /\ UNCHANGED <<objects, kind, link, slots, marked, rootVars, pc, request, worklist>>

CleanupDone ==
    /\ pc = "cleanup"
    /\ unswept = {}
    /\ pc' = "closed"
    /\ objects' = {}
    /\ stack' = {} /\ frames' = {} /\ globals' = {} /\ constantObjects' = {}
    /\ UNCHANGED <<kind, link, slots, marked, bytesAllocated, gcVars>>

-----------------------------------------------------------------------------
(* Instructions that move references and allocate nothing.                 *)

(* CONST, GET_GLOBAL, GET_LOCAL, GET_CELL, LOAD_CELL, GET_PROP *)
Push == \E v \in Pushable :
    /\ pc = "eval"
    /\ Cardinality(stack \cup {v}) <= StackLimit
    /\ stack' = stack \cup {v}
    /\ UNCHANGED <<heapVars, frames, globals, constantObjects, pc, gcVars>>

(* POP, SCOPE_EXIT and every operand popped; the callee of an activation   *)
(* stays in its slot, unless SET_LOCAL overwrites slot 0                   *)
Drop == \E v \in stack :
    /\ pc = "eval"
    /\ v \in frames => OverwriteCallee
    /\ stack' = stack \ {v}
    /\ UNCHANGED <<heapVars, frames, globals, constantObjects, pc, gcVars>>

(* SET_GLOBAL: the value on top, an object or not, replaces the old value  *)
SetGlobal == \E new \in {{}} \cup {{v} : v \in stack}, old \in {{}} \cup {{g} : g \in globals} :
    /\ pc = "eval"
    /\ Cardinality((globals \ old) \cup new) <= MaxGlobals
    /\ globals' = (globals \ old) \cup new
    /\ UNCHANGED <<heapVars, stack, frames, constantObjects, pc, gcVars>>

(* SET_PROP *)
SetProp == \E i \in {o \in stack \cap objects : kind[o] = "INSTANCE"} :
    \E new \in {{}} \cup {{v} : v \in stack}, old \in {{}} \cup {{p} : p \in slots[i]} :
        /\ pc = "eval"
        /\ Cardinality((slots[i] \ old) \cup new) <= MaxProperties
        /\ slots' = [slots EXCEPT ![i] = (@ \ old) \cup new]
        /\ UNCHANGED <<objects, kind, link, marked, bytesAllocated, rootVars, pc, gcVars>>

(* What a captured variable may be given: a number, or an object on the    *)
(* operand stack.                                                          *)
Capturable == {{}} \cup {{v} : v \in {w \in stack : CaptureAny \/ w \in constantObjects}}

(* SET_CELL on a cell that exists *)
SetCell == \E f \in frames \cap objects : \E c \in slots[f] \cap objects, value \in Capturable :
    /\ pc = "eval"
    /\ slots' = [slots EXCEPT ![c] = value]
    /\ UNCHANGED <<objects, kind, link, marked, bytesAllocated, rootVars, pc, gcVars>>

(* CALL: the callee's cells are cut down to its free variables *)
Call == \E f \in {o \in stack \cap objects : kind[o] = "FUNCTION"} : \E kept \in SUBSET slots[f] :
    /\ pc = "eval"
    /\ frames' = frames \cup {f}
    /\ slots' = [slots EXCEPT ![f] = kept]
    /\ UNCHANGED <<objects, kind, link, marked, bytesAllocated, stack, globals,
                   constantObjects, pc, gcVars>>

Return == \E f \in frames :
    /\ pc = "eval"
    /\ frames' = frames \ {f}
    /\ UNCHANGED <<heapVars, stack, globals, constantObjects, pc, gcVars>>

(* An instruction reads memory that was freed: nothing is known after that *)
UseFreed ==
    /\ pc = "eval"
    /\ Used \ objects # {}
    /\ pc' = "undefined"
    /\ UNCHANGED <<heapVars, rootVars, gcVars>>

-----------------------------------------------------------------------------
(* Instructions that allocate: MEM(allocator, ...) calls maybeGC first.    *)

Ask(r) ==
    /\ pc = "eval"
    /\ request' = r
    /\ pc' = "mem"
    /\ UNCHANGED <<heapVars, rootVars, worklist, unswept>>

(* ADD of two strings: the operands are popped and copied before MEM *)
AskString == Ask([NoRequest EXCEPT !.kind = "STRING"])

(* SET_CELL on a variable that has no cell yet: the value stays on the stack *)
AskCell == \E f \in frames \cap objects, value \in Capturable :
    Ask([kind |-> "CELL", link |-> {}, slots |-> value, owner |-> {f}])

(* MAKE_FUNCTION: co is popped, the captured cells are still on the stack *)
AskFunction == \E co \in Constants("CODE") :
    \E cells \in (SUBSET {c \in stack \cap objects : kind[c] = "CELL"}) \ {{}} :
        Ask([kind |-> "FUNCTION", link |-> {co}, slots |-> cells, owner |-> {}])

(* NEW: the class is popped *)
AskInstance == \E cls \in Constants("CLASS") :
    Ask([kind |-> "INSTANCE", link |-> {cls}, slots |-> {}, owner |-> {}])

(* Mutant: off by one at the threshold. *)
SkipLate == bytesAllocated <= GcThreshold \/ getGCRoots = {}
SkipGC == bytesAllocated < GcThreshold \/ getGCRoots = {}

(* Mutant: the constants of the compiler are left out of the roots. *)
RunTimeRoots == stack \cup globals
(* Mutant: everything on the list of objects is taken for a root. *)
EveryObject == objects
MarkFrom == getGCRoots

maybeGC ==
    /\ pc = "mem"
    /\ IF SkipGC
       THEN pc' = "alloc" /\ UNCHANGED worklist
       ELSE pc' = "mark" /\ worklist' = MarkFrom
    /\ UNCHANGED <<heapVars, rootVars, request, unswept>>

(* The allocator runs; the new object is pushed, or becomes a cell of the  *)
(* running function; MAKE_FUNCTION pops the cells it stored.               *)
Allocate == \E o \in Obj \ objects :
    /\ pc = "alloc"
    /\ New(o, request.kind, request.link)
    /\ slots' = [x \in Obj |-> IF x = o THEN request.slots
                               ELSE IF x \in request.owner THEN slots[x] \cup {o}
                               ELSE slots[x]]
    /\ stack' = CASE request.kind = "CELL" -> stack
                  [] request.kind = "FUNCTION" -> (stack \ request.slots) \cup {o}
                  [] OTHER -> stack \cup {o}
    /\ request' = NoRequest
    /\ pc' = "eval"
    /\ Cardinality(stack') <= StackLimit
    /\ UNCHANGED <<frames, globals, constantObjects, worklist, unswept>>

(* push(): DIE on a full operand stack; or operator new throws, with no    *)
(* address left.  The process ends.                                        *)
Die ==
    /\ pc = "alloc"
    /\ \/ objects = Obj
       \/ request.kind \in {"STRING", "INSTANCE"} /\ Cardinality(stack) >= StackLimit
    /\ pc' = "died"
    /\ UNCHANGED <<heapVars, rootVars, gcVars>>

-----------------------------------------------------------------------------
(* The collector.  The worklist is a vector and the sweep follows a list;  *)
(* both orders are arbitrary, as they depend on addresses.                 *)

(* Mutant: an object is visited again each time it is met. *)
Visit(o) == getPointers(o)
FirstVisit(o) == IF marked[o] THEN {} ELSE getPointers(o)

MarkStep == \E o \in worklist :
    /\ pc = "mark"
    /\ o \in objects
    /\ worklist' = (worklist \ {o}) \cup FirstVisit(o)
    /\ marked' = [marked EXCEPT ![o] = TRUE]
    /\ UNCHANGED <<objects, kind, link, slots, bytesAllocated, rootVars, pc, request, unswept>>

(* mark() reads the mark bit of an object that was freed *)
MarkFreed ==
    /\ pc = "mark"
    /\ worklist \ objects # {}
    /\ pc' = "undefined"
    /\ UNCHANGED <<heapVars, rootVars, gcVars>>

MarkDone ==
    /\ pc = "mark"
    /\ worklist = {}
    /\ pc' = "sweep"
    /\ unswept' = objects
    /\ UNCHANGED <<heapVars, rootVars, request, worklist>>

(* Mutant: the mark is left for the next cycle to find. *)
KeepMark(o) == marked
ClearMark(o) == [marked EXCEPT ![o] = FALSE]

SweepKeep == \E o \in unswept :
    /\ pc = "sweep"
    /\ marked[o]
    /\ marked' = ClearMark(o)
    /\ unswept' = unswept \ {o}
    /\ UNCHANGED <<objects, kind, link, slots, bytesAllocated, rootVars, pc, request, worklist>>

SweepFree == \E o \in unswept :
    /\ pc = "sweep"
    /\ ~marked[o]
    /\ objects' = objects \ {o}
    /\ bytesAllocated' = bytesAllocated - SizeOf(o)
    /\ unswept' = unswept \ {o}
    /\ kind' = [kind EXCEPT ![o] = "NONE"]
    /\ link' = [link EXCEPT ![o] = {}]
    /\ slots' = [slots EXCEPT ![o] = {}]
    /\ UNCHANGED <<marked, rootVars, pc, request, worklist>>

SweepDone ==
    /\ pc = "sweep"
    /\ unswept = {}
    /\ pc' = "alloc"
    /\ UNCHANGED <<heapVars, rootVars, gcVars>>

-----------------------------------------------------------------------------

Compile == CompileLeaf \/ CompileFunction \/ CompileClass \/ CompileReference

Move == Push \/ Drop \/ SetGlobal \/ SetProp \/ SetCell \/ Call \/ Return

AskMemory == AskString \/ AskCell \/ AskFunction \/ AskInstance

Collect == MarkStep \/ MarkFreed \/ MarkDone \/ SweepKeep \/ SweepFree \/ SweepDone

Next ==
    \/ BeginExec \/ Compile \/ StartEval \/ Halt
    \/ Cleanup \/ CleanupDelete \/ CleanupDone
    \/ Move \/ UseFreed
    \/ AskMemory \/ maybeGC \/ Allocate \/ Die
    \/ Collect

(* The interpreter is one thread that runs to the end of an instruction:   *)
(* a collection, once begun, is carried on, and so is the allocation.      *)
Fairness == WF_vars(Collect) /\ WF_vars(maybeGC) /\ WF_vars(Allocate \/ Die)

Spec == Init /\ [][Next]_vars /\ Fairness

-----------------------------------------------------------------------------
(* Properties *)

Heap == INSTANCE EvaHeap WITH roots <- Held, fields <- Fields

Traced == Heap!ReachableFrom(getGCRoots, [o \in Obj |-> getPointers(o)])

(* No reference the program can follow, from the operand stack, a global,  *)
(* a constant or a running function, leads to freed memory.                *)
NoDangling == Heap!NoDangling

(* The collector implements the heap's promise: memory is taken back only  *)
(* from objects the program cannot reach, and is never reached again.      *)
HeapPromise == Heap!Init /\ [][Heap!Next]_(Heap!vars)

(* "Function cells are traced" (src/gc/EvaCollector.h): what the VM    *)
(* runs on after a collection has its functions' cells in memory.          *)
FunctionCellsTraced ==
    pc = "alloc" => \A f \in objects : kind[f] = "FUNCTION" => slots[f] \subseteq objects

(* A cell is "used to capture closure variables" (src/vm/EvaValue.h):  *)
(* what a running function has captured is in memory while it runs.        *)
CapturedSurvive ==
    pc = "eval" => \A c \in Cells : slots[c] \subseteq objects

(* When sweep() returns, what is left is exactly what the roots lead to by *)
(* traced references: nothing reachable was freed, no garbage was kept.    *)
CollectionExact ==
    pc = "sweep" /\ unswept = {} => objects = Traced

(* An object that sweep() has passed over starts the next cycle unmarked,  *)
(* whatever its mark bit held when it was allocated.                       *)
SweepClearsMarks ==
    pc = "sweep" => \A o \in objects \ unswept : ~marked[o]

(* Memory grows past the threshold only with live objects: when an object  *)
(* is allocated there, the collector has just left nothing unreachable.    *)
GarbageBounded ==
    pc = "alloc" => bytesAllocated < GcThreshold \/ objects = Traced

(* bytesAllocated, on which the trigger of the collector rests and which   *)
(* outlives the VM, is the memory of the objects not yet deleted: what     *)
(* operator delete takes back is what operator new took, for each kind.    *)
Undeleted == IF pc = "cleanup" THEN unswept ELSE objects
BytesOf(k, S) == Size[k] * Cardinality({o \in S : kind[o] = k})
BytesIn(S) ==
    BytesOf("STRING", S) + BytesOf("CODE", S) + BytesOf("NATIVE", S) + BytesOf("FUNCTION", S)
      + BytesOf("CELL", S) + BytesOf("CLASS", S) + BytesOf("INSTANCE", S)
BytesExact == bytesAllocated = BytesIn(Undeleted)

(* sweep() never frees a root, even if stray mark bits hide other objects. *)
RootsSurvive ==
    [][pc = "sweep" => getGCRoots \cap objects \subseteq objects']_vars

(* A collection over any heap, cyclic or not, ends and the allocation that *)
(* asked for it takes place.                                               *)
AllocationServed == pc \in {"mem", "mark"} ~> pc \in {"eval", "died"}

=============================================================================
