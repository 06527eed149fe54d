----------------------------- MODULE EvaLifetime ------------------------------
(***************************************************************************)
(* What the VM (src/vm/EvaVM.h) needs so that no collection takes what it  *)
(* goes on to use.  The collector does not know the running functions, nor *)
(* does it follow a code object, a class or a cell: the first are found in *)
(* their stack slots, and the others refer only to what the compiler has   *)
(* made.  None of it is checked as the program runs.                       *)
(***************************************************************************)
EXTENDS EvaCertificate

(* What an object in memory refers to and the collector does not look at   *)
NotTraced(o) ==
    CASE o.kind = "FUNCTION" -> {o.co}
      [] o.kind = "CODE" -> Referenced({o.constants[k] : k \in DOMAIN o.constants})
      [] o.kind = "CELL" -> Referenced({o.value})
      [] o.kind = "INSTANCE" -> {o.cls}
      [] o.kind = "CLASS" -> ({o.superClass} \ {Null}) \cup Referenced({o.properties[p] : p \in DOMAIN o.properties})
      [] OTHER -> {}

-----------------------------------------------------------------------------

(* A function leaves its callee where CALL found it, until it returns:     *)
(* what comes before RETURN puts the result there.                         *)
KeepsCallee(co, lay) ==
    EntryDepth(co) # 0 => \A i \in DOMAIN lay :
        LET op == OpCodeAt(co, i) IN
        /\ op # OP_RETURN => \/ Takes(op, OperandAt(co, i)) < lay[i].depth
                             \/ op = OP_SCOPE_EXIT /\ OpCodeAt(co, i + 2) = OP_RETURN
        /\ op = OP_SET_LOCAL => OperandAt(co, i) # 0

CalleesKept == \A a \in DOMAIN heap : heap[a].kind = "CODE" => KeepsCallee(heap[a], Layout(heap[a]))

(* What the compiler makes, and what it changes of what it has made, is    *)
(* all constants, down to the last reference.                              *)
OfConstants ==
    /\ constantObjects' = constantObjects \cup (DOMAIN heap' \ DOMAIN heap)
    /\ fn' \in constantObjects'
    /\ \A a \in DOMAIN heap' :
         \/ a \in DOMAIN heap /\ heap'[a] = heap[a]
         \/ /\ a \in constantObjects'
            /\ getPointers(a)' \cup NotTraced(heap'[a]) \subseteq constantObjects'
    /\ \A i \in DOMAIN globals' :
         \/ i \in DOMAIN globals /\ globals'[i] = globals[i]
         \/ Referenced({globals'[i].value}) \subseteq constantObjects'

(* A captured variable holds no object that was made at run time.          *)
Tame == Byte(0) = OP_SET_CELL => Referenced({peek(0)}) \subseteq constantObjects

(* EvaVM(): the native functions, and nothing collected.                   *)
Fresh == Idle /\ freed = {} /\ \A a \in DOMAIN heap : heap[a].kind = "NATIVE"

RootedNext ==
    \/ Load /\ OfConstants
    \/ Listed /\ (status' = "running" => Verified /\ CalleesKept)
    \/ Eval /\ (HasInstruction => Orderly /\ Tame)

(* The compiler's part and the language's, of what the collector relies on *)
RootedSpec == Fresh /\ [][RootedNext]_machineVars

-----------------------------------------------------------------------------

(* Whenever a collection comes, what the program can go on to use is there *)
(* afterwards: the function that runs and those that wait for it, the      *)
(* values on the stack and in the globals, and, from any object in memory, *)
(* what it refers to.                                                      *)
NothingLost ==
    Running =>
        /\ fn \notin freed /\ \A k \in DOMAIN callStack : callStack[k].fn \notin freed
        /\ \A i \in 0..sp - 1 : ~Stale(Slot(i))
        /\ \A i \in DOMAIN globals : ~Stale(globals[i].value)
        /\ \A a \in DOMAIN heap \ freed : (getPointers(a) \cup NotTraced(heap[a])) \cap freed = {}

(* A collection may begin wherever there is one in the code: it follows no *)
(* reference to what is gone, and leaves the function whose new cell it    *)
(* makes room for.                                                         *)
CollectionsDefined ==
    Running /\ HasInstruction /\ ~Dies /\ ~Undefined /\ Allocates(Byte(0)) => ~GcUndefined(Byte(0))

-----------------------------------------------------------------------------

(* The same machine, with memory without end and no collections            *)
Endless == INSTANCE EvaMachine WITH freed <- {}

(* No program can tell that there is a collector: every step, collections  *)
(* included, is one that the machine without them makes as well.           *)
Unnoticed == Endless!MachineSpec

=============================================================================
