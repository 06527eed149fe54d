------------------------------- MODULE EvaValue -------------------------------
(***************************************************************************)
(* The values of the machine and the objects on its heap                   *)
(* (src/vm/EvaValue.h), as the compiler and the VM share them.  The heap   *)
(* is the sequence of all objects ever allocated: what a collection takes  *)
(* back is EvaCollector's subject.                                         *)
(***************************************************************************)
EXTENDS Integers, Sequences

CONSTANT Lexicon    \* the strings and names in use, in std::string's order

Rank(s) == CHOOSE i \in DOMAIN Lexicon : Lexicon[i] = s

(* EvaValue is a tagged union.  Junk is a slot that was never written.     *)
NUMBER(n) == <<"NUMBER", n>>
BOOLEAN_(b) == <<"BOOLEAN", b>>
OBJECT(address) == <<"OBJECT", address>>
Junk == <<"JUNK", 0>>

Payload(v) == v[2]
IsNumber(v) == v[1] = "NUMBER"
IsBoolean(v) == v[1] = "BOOLEAN"
IsObject(v) == v[1] = "OBJECT"
IsJunk(v) == v[1] = "JUNK"

Null == 0   \* the address no object has

StringObject(s) == [kind |-> "STRING", string |-> s]
NativeObject(name) == [kind |-> "NATIVE", name |-> name]
CellObject(v) == [kind |-> "CELL", value |-> v]
FunctionObject(co) == [kind |-> "FUNCTION", co |-> co, cells |-> <<>>]
ClassObject(name, super) ==
    [kind |-> "CLASS", name |-> name, properties |-> <<>>, superClass |-> super]
InstanceObject(cls) == [kind |-> "INSTANCE", cls |-> cls, properties |-> <<>>]

(* everLocals: how long the vector of locals has ever been, popped since   *)
CodeObject(name, arity) ==
    [kind |-> "CODE", name |-> name, arity |-> arity, constants |-> <<>>, code |-> <<>>,
     scopeLevel |-> 0, locals |-> <<>>, everLocals |-> 0, cellNames |-> <<>>, freeCount |-> 0]

IsKind(heap, v, kind) == IsObject(v) /\ heap[Payload(v)].kind = kind

(* The class and its ancestors, each of them older than what extends it    *)
lineage(heap, cls) ==
    LET above[c \in 0..Len(heap)] ==
          IF c = Null THEN {} ELSE {c} \cup above[heap[c].superClass]
        line == above[cls]
    IN {c \in DOMAIN heap : heap[c].kind = "CLASS" /\ c \in line}

(* getProp: the property of a class or of the nearest of its ancestors     *)
(* that has it; Junk where the code gives up with "Unresolved property".   *)
classProp(heap, cls, prop) ==
    LET owners == {c \in lineage(heap, cls) : prop \in DOMAIN heap[c].properties}
        nearest == {c \in owners : \A d \in owners : d <= c}
    IN IF nearest = {} THEN Junk ELSE heap[CHOOSE c \in nearest : TRUE].properties[prop]

getProp(heap, object, prop) ==
    CASE heap[object].kind = "CLASS" -> classProp(heap, object, prop)
      [] heap[object].kind = "INSTANCE" /\ prop \in DOMAIN heap[object].properties ->
           heap[object].properties[prop]
      [] OTHER -> classProp(heap, heap[object].cls, prop)

=============================================================================
