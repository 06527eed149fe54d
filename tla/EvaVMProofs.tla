----------------------------- MODULE EvaVMProofs ------------------------------
(***************************************************************************)
(* The machine keeps its references and its pointers, whatever bytes it    *)
(* runs: the guards of the instructions are all that the proof needs.      *)
(*                                                                         *)
(* TypeOK and StackInArray are proved together: that a slot is written     *)
(* where the stack has room is what keeps the stack a sequence, and that a *)
(* frame is of naturals is what puts it below the limit.                   *)
(***************************************************************************)
EXTENDS EvaMachine, TLAPS

StackInv == IsSeq(stack) /\ Len(stack) <= StackLimit /\ AllValues(heap, stack)
SpInv == sp \in 0..StackLimit
BpInv == bp \in 0..StackLimit
IpInv == ip \in Nat
FnInv == status = "idle" \/ Refers(heap, fn, "FUNCTION")
FrameInv ==
    /\ IsSeq(callStack)
    /\ \A i \in DOMAIN callStack : FrameOK(callStack[i]) /\ callStack[i].bp <= StackLimit
StatusInv == status \in {"idle", "compiled", "running", "halted", "died", "undefined", "fraction"}

IInv ==
    /\ MemoryOK
    /\ StackInv /\ SpInv /\ BpInv /\ IpInv /\ FnInv /\ FrameInv /\ StatusInv

-----------------------------------------------------------------------------
(* Sequences *)

LEMMA SeqOfItsElements ==
    ASSUME NEW S, NEW s \in Seq(S) PROVE IsSeq(s)
<1>1. s \in [1..Len(s) -> S] /\ Len(s) \in Nat
  OBVIOUS
<1>2. \A i \in 1..Len(s) : s[i] \in {s[k] : k \in DOMAIN s}
  BY <1>1
<1> QED BY <1>1, <1>2 DEF IsSeq

LEMMA SeqShape ==
    ASSUME NEW s, IsSeq(s)
    PROVE  Len(s) \in Nat /\ DOMAIN s = 1..Len(s) /\ s = [i \in 1..Len(s) |-> s[i]]
<1> DEFINE V == {s[i] : i \in DOMAIN s}
<1>1. s \in Seq(V)
  BY DEF IsSeq
<1> HIDE DEF V
<1> QED BY <1>1

LEMMA FunctionSeq ==
    ASSUME NEW n \in Nat, NEW f, f = [i \in 1..n |-> f[i]]
    PROVE  IsSeq(f) /\ Len(f) = n /\ DOMAIN f = 1..n
<1> DEFINE V == {f[i] : i \in 1..n}
<1>1. f \in [1..n -> V]
  OBVIOUS
<1> HIDE DEF V
<1>2. f \in Seq(V) /\ Len(f) = n
  BY <1>1
<1> QED BY <1>1, <1>2, SeqOfItsElements

LEMMA AppendSeq ==
    ASSUME NEW S, NEW s \in Seq(S), NEW v \in S
    PROVE  /\ Append(s, v) \in Seq(S)
           /\ Len(Append(s, v)) = Len(s) + 1 /\ Len(s) \in Nat
           /\ DOMAIN s = 1..Len(s) /\ DOMAIN Append(s, v) = 1..Len(s) + 1
           /\ \A i \in 1..Len(s) : Append(s, v)[i] = s[i]
           /\ Append(s, v)[Len(s) + 1] = v
OBVIOUS

LEMMA AppendIsSeq ==
    ASSUME NEW s, IsSeq(s), NEW v
    PROVE  /\ IsSeq(Append(s, v))
           /\ Len(Append(s, v)) = Len(s) + 1 /\ Len(s) \in Nat
           /\ DOMAIN s = 1..Len(s) /\ DOMAIN Append(s, v) = 1..Len(s) + 1
           /\ \A i \in 1..Len(s) : Append(s, v)[i] = s[i]
           /\ Append(s, v)[Len(s) + 1] = v
<1> DEFINE V == {s[i] : i \in DOMAIN s} \cup {v}
<1>1. s \in Seq(V)
  BY DEF IsSeq
<1>2. v \in V
  OBVIOUS
<1> HIDE DEF V
<1>3. Append(s, v) \in Seq(V)
  BY <1>1, <1>2, AppendSeq
<1>4. IsSeq(Append(s, v))
  BY <1>3, SeqOfItsElements
<1> QED BY <1>1, <1>2, <1>4, AppendSeq

LEMMA ExceptIsSeq ==
    ASSUME NEW s, IsSeq(s), NEW a \in DOMAIN s, NEW v
    PROVE  LET t == [s EXCEPT ![a] = v] IN
           /\ IsSeq(t) /\ Len(t) = Len(s) /\ DOMAIN t = DOMAIN s
           /\ t[a] = v /\ \A b \in DOMAIN s : b # a => t[b] = s[b]
<1> DEFINE t == [s EXCEPT ![a] = v]
<1>1. Len(s) \in Nat /\ DOMAIN s = 1..Len(s) /\ s = [i \in 1..Len(s) |-> s[i]]
  BY SeqShape
<1>2. t = [i \in 1..Len(s) |-> t[i]]
  BY <1>1
<1>3. IsSeq(t) /\ Len(t) = Len(s) /\ DOMAIN t = 1..Len(s)
  <2> HIDE DEF t
  <2> QED BY <1>1, <1>2, FunctionSeq
<1>4. t[a] = v /\ \A b \in DOMAIN s : b # a => t[b] = s[b]
  BY <1>1
<1> QED BY <1>1, <1>3, <1>4

LEMMA ElementOf ==
    ASSUME NEW S, NEW s \in Seq(S), NEW i \in 1..Len(s) PROVE s[i] \in S
OBVIOUS

LEMMA InRange ==
    ASSUME NEW s, IsSeq(s), NEW k \in 0..255, ~(k >= Len(s)) PROVE k + 1 \in DOMAIN s /\ k < Len(s)
<1>1. Len(s) \in Nat /\ DOMAIN s = 1..Len(s)
  BY SeqShape
<1>2. k + 1 \in 1..Len(s) /\ k < Len(s)
  BY <1>1
<1> QED BY <1>1, <1>2

LEMMA EmptySeq == IsSeq(<<>>) /\ Len(<<>>) = 0 /\ DOMAIN <<>> = {}
<1>1. <<>> \in Seq({}) /\ Len(<<>>) = 0 /\ DOMAIN <<>> = {}
  OBVIOUS
<1>2. IsSeq(<<>>)
  BY <1>1, SeqOfItsElements
<1> QED BY <1>1, <1>2

LEMMA SingleSeq ==
    ASSUME NEW v PROVE IsSeq(<<v>>) /\ Len(<<v>>) = 1 /\ DOMAIN <<v>> = {1} /\ <<v>>[1] = v
<1>1. <<v>> \in Seq({v}) /\ Len(<<v>>) = 1 /\ DOMAIN <<v>> = {1} /\ <<v>>[1] = v
  OBVIOUS
<1> QED BY <1>1, SeqOfItsElements

LEMMA PairSeq ==
    ASSUME NEW v, NEW w
    PROVE  /\ IsSeq(<<v, w>>) /\ Len(<<v, w>>) = 2 /\ DOMAIN <<v, w>> = {1, 2}
           /\ <<v, w>>[1] = v /\ <<v, w>>[2] = w
<1>1. /\ <<v, w>> \in Seq({v, w}) /\ Len(<<v, w>>) = 2 /\ DOMAIN <<v, w>> = {1, 2}
      /\ <<v, w>>[1] = v /\ <<v, w>>[2] = w
  OBVIOUS
<1> QED BY <1>1, SeqOfItsElements

-----------------------------------------------------------------------------
(* What is known of the heap stays known when it grows *)

LEMMA ReferKept ==
    ASSUME NEW h, NEW g, Grows(h, g), NEW a, NEW kind, Refers(h, a, kind)
    PROVE  Refers(g, a, kind)
BY DEF Grows, Refers

LEMMA ValueKept ==
    ASSUME NEW h, NEW g, Grows(h, g), NEW v, IsValue(h, v)
    PROVE  IsValue(g, v)
BY DEF Grows, IsValue

LEMMA ValuesKept ==
    ASSUME NEW h, NEW g, Grows(h, g), NEW f, AllValues(h, f)
    PROVE  AllValues(g, f)
BY ValueKept DEF AllValues

LEMMA ObjectKept ==
    ASSUME NEW h, NEW g, Grows(h, g), NEW o, ObjectOK(h, o)
    PROVE  ObjectOK(g, o)
<1>1. CASE o.kind = "FUNCTION"
  <2>1. FunctionOK(h, o)
    BY <1>1 DEF ObjectOK
  <2>2. FunctionOK(g, o)
    BY <2>1, ReferKept DEF FunctionOK
  <2> QED BY <1>1, <2>2 DEF ObjectOK
<1>2. CASE o.kind = "CODE"
  <2>1. CodeOK(h, o)
    BY <1>2 DEF ObjectOK
  <2>2. CodeOK(g, o)
    BY <2>1, ValuesKept DEF CodeOK
  <2> QED BY <1>2, <2>2 DEF ObjectOK
<1>3. CASE o.kind = "CELL"
  BY <1>3, ValueKept DEF ObjectOK
<1>4. CASE o.kind = "INSTANCE"
  <2>1. /\ o = [kind |-> "INSTANCE", cls |-> o.cls, properties |-> o.properties]
        /\ Refers(h, o.cls, "CLASS") /\ AllValues(h, o.properties)
    BY <1>4 DEF ObjectOK
  <2>2. Refers(g, o.cls, "CLASS") /\ AllValues(g, o.properties)
    BY <2>1, ReferKept, ValuesKept
  <2> QED BY <1>4, <2>1, <2>2 DEF ObjectOK
<1>5. CASE o.kind = "CLASS"
  <2>1. (o.superClass = Null \/ Refers(h, o.superClass, "CLASS")) /\ AllValues(h, o.properties)
    BY <1>5 DEF ObjectOK
  <2>2. (o.superClass = Null \/ Refers(g, o.superClass, "CLASS")) /\ AllValues(g, o.properties)
    BY <2>1, ReferKept, ValuesKept
  <2> QED BY <1>5, <2>2 DEF ObjectOK
<1>6. CASE o.kind \notin {"FUNCTION", "CODE", "CELL", "INSTANCE", "CLASS"}
  BY <1>6 DEF ObjectOK
<1> QED BY <1>1, <1>2, <1>3, <1>4, <1>5, <1>6

LEMMA ObjectOfHeap ==
    ASSUME NEW h, HeapOK(h), NEW a, NEW kind, Refers(h, a, kind)
    PROVE  /\ kind = "FUNCTION" => FunctionOK(h, h[a])
           /\ kind = "CODE" => CodeOK(h, h[a])
           /\ kind = "CELL" => h[a] = [kind |-> "CELL", value |-> h[a].value] /\ IsValue(h, h[a].value)
           /\ kind = "INSTANCE" =>
                /\ h[a] = [kind |-> "INSTANCE", cls |-> h[a].cls, properties |-> h[a].properties]
                /\ Refers(h, h[a].cls, "CLASS") /\ AllValues(h, h[a].properties)
           /\ kind = "CLASS" => AllValues(h, h[a].properties)
<1>1. h[a].kind = kind /\ ObjectOK(h, h[a])
  BY DEF Refers, HeapOK
<1> QED BY <1>1 DEF ObjectOK

LEMMA AppendHeap ==
    ASSUME NEW h, HeapOK(h), NEW o, ObjectOK(h, o)
    PROVE  /\ HeapOK(Append(h, o)) /\ Grows(h, Append(h, o))
           /\ Len(Append(h, o)) \in DOMAIN Append(h, o)
           /\ Refers(Append(h, o), Len(h) + 1, o.kind)
<1> DEFINE g == Append(h, o)
<1>1. /\ IsSeq(g) /\ DOMAIN h = 1..Len(h) /\ DOMAIN g = 1..Len(h) + 1 /\ Len(h) \in Nat
      /\ Len(g) = Len(h) + 1
      /\ \A i \in 1..Len(h) : g[i] = h[i]
      /\ g[Len(h) + 1] = o
  BY AppendIsSeq DEF HeapOK
<1> HIDE DEF g
<1>3. Grows(h, g)
  BY <1>1 DEF Grows
<1>2. ObjectOK(g, o)
  BY <1>3, ObjectKept
<1>4. ASSUME NEW a \in DOMAIN g PROVE ObjectOK(g, g[a])
  <2>1. CASE a \in DOMAIN h
    BY <2>1, <1>1, <1>3, ObjectKept DEF HeapOK
  <2>2. CASE a = Len(h) + 1
    BY <2>2, <1>1, <1>2
  <2> QED BY <1>1, <2>1, <2>2
<1>5. HeapOK(g) /\ Len(g) \in DOMAIN g /\ Refers(g, Len(h) + 1, o.kind)
  BY <1>1, <1>4 DEF HeapOK, Refers
<1> QED BY <1>3, <1>5 DEF g

LEMMA UpdateHeap ==
    ASSUME NEW h, HeapOK(h), NEW a \in DOMAIN h, NEW o, o.kind = h[a].kind, ObjectOK(h, o)
    PROVE  HeapOK([h EXCEPT ![a] = o]) /\ Grows(h, [h EXCEPT ![a] = o])
<1> DEFINE g == [h EXCEPT ![a] = o]
<1>1. IsSeq(g) /\ DOMAIN g = DOMAIN h /\ g[a] = o /\ \A b \in DOMAIN h : b # a => g[b] = h[b]
  BY ExceptIsSeq DEF HeapOK
<1> HIDE DEF g
<1>2. Grows(h, g)
  BY <1>1 DEF Grows
<1>3. ASSUME NEW b \in DOMAIN g PROVE ObjectOK(g, g[b])
  <2>1. ObjectOK(h, g[b])
    BY <1>1 DEF HeapOK
  <2> QED BY <2>1, <1>2, ObjectKept
<1>4. HeapOK(g)
  BY <1>1, <1>3 DEF HeapOK
<1> QED BY <1>2, <1>4 DEF g

-----------------------------------------------------------------------------
(* The stack *)

LEMMA SlotIsValue ==
    ASSUME IInv, NEW i \in Int PROVE IsValue(heap, Slot(i))
<1>1. Len(stack) \in Nat /\ DOMAIN stack = 1..Len(stack)
  BY SeqShape DEF IInv, StackInv
<1>2. CASE i \in 0..Len(stack) - 1
  BY <1>1, <1>2 DEF Slot, IInv, StackInv, AllValues
<1>3. CASE i \notin 0..Len(stack) - 1
  BY <1>3 DEF Slot, Junk, IsValue
<1> QED BY <1>2, <1>3

LEMMA PeekIsValue ==
    ASSUME IInv, NEW k \in Int PROVE IsValue(heap, peek(k))
BY SlotIsValue DEF peek, IInv, SpInv

LEMMA WrittenOK ==
    ASSUME IInv, NEW g, Grows(heap, g), NEW base \in Nat,
           NEW vs, IsSeq(vs), AllValues(g, vs), base + Len(vs) <= StackLimit
    PROVE  LET W == Written(base, vs) IN IsSeq(W) /\ Len(W) <= StackLimit /\ AllValues(g, W)
<1> DEFINE m == IF base + Len(vs) > Len(stack) THEN base + Len(vs) ELSE Len(stack)
           W == Written(base, vs)
<1>1. Len(vs) \in Nat /\ DOMAIN vs = 1..Len(vs) /\ Len(stack) \in Nat /\ Len(stack) <= StackLimit
  BY SeqShape DEF IInv, StackInv
<1>2. m \in Nat /\ m <= StackLimit
  BY <1>1
<1>3. W = [i \in 1..m |-> IF i \in base + 1 .. base + Len(vs) THEN vs[i - base] ELSE Slot(i - 1)]
  BY DEF Written
<1> HIDE DEF m, W
<1>4. W = [i \in 1..m |-> W[i]]
  BY <1>3
<1>5. IsSeq(W) /\ Len(W) = m /\ DOMAIN W = 1..m
  BY <1>2, <1>4, FunctionSeq
<1>6. ASSUME NEW i \in 1..m PROVE IsValue(g, W[i])
  <2>1. CASE i \in base + 1 .. base + Len(vs)
    <3>1. i - base \in DOMAIN vs
      BY <2>1, <1>1, <1>2
    <3> QED BY <2>1, <3>1, <1>3 DEF AllValues
  <2>2. CASE i \notin base + 1 .. base + Len(vs)
    <3>1. IsValue(heap, Slot(i - 1))
      BY <1>2, SlotIsValue
    <3> QED BY <2>2, <3>1, <1>3, ValueKept
  <2> QED BY <2>1, <2>2
<1>7. IsSeq(W) /\ Len(W) <= StackLimit /\ AllValues(g, W)
  BY <1>2, <1>5, <1>6 DEF AllValues
<1> QED BY <1>7 DEF W

(* What Replace leaves: the heap it is read with may have grown by then.   *)
LEMMA ReplaceNone ==
    ASSUME IInv, Grows(heap, heap'), NEW n \in Nat, n <= sp, Replace(n, <<>>)
    PROVE  StackInv' /\ SpInv'
<1>1. AllValues(heap', <<>>) /\ sp - n \in Nat /\ sp - n <= StackLimit
  BY EmptySeq, VMAssumption DEF AllValues, IInv, SpInv
<1>2. stack' = Written(sp - n, <<>>) /\ sp' = sp - n
  BY EmptySeq, <1>1 DEF Replace
<1>3. sp - n + Len(<<>>) <= StackLimit /\ IsSeq(<<>>)
  BY <1>1, EmptySeq
<1>4. IsSeq(stack') /\ Len(stack') <= StackLimit /\ AllValues(heap', stack')
  BY <1>1, <1>2, <1>3, WrittenOK
<1> QED BY <1>1, <1>2, <1>4, VMAssumption DEF StackInv, SpInv

LEMMA ReplaceOne ==
    ASSUME IInv, Grows(heap, heap'), NEW n \in Nat, n <= sp, sp - n < StackLimit,
           NEW v, IsValue(heap', v), Replace(n, <<v>>)
    PROVE  StackInv' /\ SpInv'
<1>1. AllValues(heap', <<v>>) /\ sp - n \in Nat /\ sp - n + 1 <= StackLimit
  BY SingleSeq, VMAssumption DEF AllValues, IInv, SpInv
<1>2. stack' = Written(sp - n, <<v>>) /\ sp' = sp - n + 1
  BY SingleSeq DEF Replace
<1>3. sp - n + Len(<<v>>) <= StackLimit /\ IsSeq(<<v>>)
  BY <1>1, SingleSeq
<1>4. IsSeq(stack') /\ Len(stack') <= StackLimit /\ AllValues(heap', stack')
  BY <1>1, <1>2, <1>3, WrittenOK
<1> QED BY <1>1, <1>2, <1>4, VMAssumption DEF StackInv, SpInv

LEMMA ReplaceTwo ==
    ASSUME IInv, Grows(heap, heap'), NEW n \in Nat, n <= sp, sp - n + 2 <= StackLimit,
           NEW v, NEW w, IsValue(heap', v), IsValue(heap', w), Replace(n, <<v, w>>)
    PROVE  StackInv' /\ SpInv'
<1>1. AllValues(heap', <<v, w>>) /\ sp - n \in Nat
  BY PairSeq, VMAssumption DEF AllValues, IInv, SpInv
<1>2. stack' = Written(sp - n, <<v, w>>) /\ sp' = sp - n + 2
  BY PairSeq DEF Replace
<1>3. sp - n + Len(<<v, w>>) <= StackLimit /\ IsSeq(<<v, w>>)
  BY <1>1, PairSeq
<1>4. IsSeq(stack') /\ Len(stack') <= StackLimit /\ AllValues(heap', stack')
  BY <1>1, <1>2, <1>3, WrittenOK
<1> QED BY <1>1, <1>2, <1>4, VMAssumption DEF StackInv, SpInv

-----------------------------------------------------------------------------
(* What a step leaves alone *)

LEMMA SameMemory ==
    ASSUME IInv, UNCHANGED memory
    PROVE  MemoryOK' /\ Grows(heap, heap')
BY DEF IInv, MemoryOK, HeapOK, memory, Grows

LEMMA GrownMemory ==
    ASSUME IInv, HeapOK(heap'), Grows(heap, heap'), freed' \subseteq DOMAIN heap',
           globals' = globals, constantObjects' = constantObjects
    PROVE  MemoryOK'
<1>1. ASSUME NEW i \in DOMAIN globals PROVE GlobalOK(heap', globals[i])
  BY ValueKept DEF IInv, MemoryOK, GlobalOK
<1>2. DOMAIN heap \subseteq DOMAIN heap'
  BY DEF Grows
<1> QED BY <1>1, <1>2 DEF IInv, MemoryOK

LEMMA SameStack ==
    ASSUME IInv, Grows(heap, heap'), stack' = stack, sp' = sp
    PROVE  StackInv' /\ SpInv'
BY ValuesKept DEF IInv, StackInv, SpInv

LEMMA SameFrames ==
    ASSUME IInv, Grows(heap, heap'), callStack' = callStack
    PROVE  FrameInv'
BY ReferKept DEF IInv, FrameInv, FrameOK

LEMMA SameFunction ==
    ASSUME IInv, Grows(heap, heap'), fn' = fn, status # "idle"
    PROVE  FnInv'
BY ReferKept DEF IInv, FnInv

LEMMA Stopped ==
    ASSUME IInv, NEW how \in {"died", "undefined", "fraction"}, status # "idle", Stop(how)
    PROVE  IInv'
<1>1. MemoryOK' /\ Grows(heap, heap')
  BY SameMemory DEF Stop
<1>2. StackInv' /\ SpInv' /\ FrameInv' /\ FnInv'
  BY <1>1, SameStack, SameFrames, SameFunction DEF Stop
<1>3. BpInv' /\ IpInv' /\ StatusInv'
  BY DEF Stop, IInv, BpInv, IpInv, StatusInv
<1> QED BY <1>1, <1>2, <1>3 DEF IInv

-----------------------------------------------------------------------------
(* The instruction, its operands and what it may rely on *)

LEMMA Decoded ==
    ASSUME IInv, NEW op, At_(op)
    PROVE  /\ Byte(0) = op /\ status = "running"
           /\ ~Dies /\ ~Undefined
           /\ Refers(heap, fn, "FUNCTION") /\ FunctionOK(heap, heap[fn])
           /\ Refers(heap, heap[fn].co, "CODE") /\ CodeOK(heap, heap[heap[fn].co])
           /\ ip + Operands(op) < Len(Code)
<1>1. Byte(0) = op /\ status = "running" /\ ~Dies /\ ~Undefined /\ ip + Operands(op) < Len(Code)
  BY DEF At_, Running, HasInstruction
<1>2. HeapOK(heap) /\ Refers(heap, fn, "FUNCTION")
  BY <1>1 DEF IInv, MemoryOK, FnInv
<1>3. FunctionOK(heap, heap[fn])
  BY <1>2, ObjectOfHeap
<1>4. Refers(heap, heap[fn].co, "CODE")
  BY <1>3 DEF FunctionOK
<1>5. CodeOK(heap, heap[heap[fn].co])
  BY <1>2, <1>4, ObjectOfHeap
<1> QED BY <1>1, <1>2, <1>3, <1>4, <1>5

LEMMA ByteIsByte ==
    ASSUME IInv, NEW op, At_(op), NEW k \in 0..Operands(op), Operands(op) \in Nat
    PROVE  Byte(k) \in 0..255
<1>1. Code \in Seq(0..255) /\ ip + Operands(op) < Len(Code)
  BY Decoded DEF CodeOK, Code
<1>2. ip + 1 + k \in 1..Len(Code)
  BY <1>1 DEF IInv, IpInv
<1> QED BY <1>1, <1>2, ElementOf DEF Byte

LEMMA Operand ==
    ASSUME IInv, NEW op, At_(op), Operands(op) = 1
    PROVE  Byte(1) \in 0..255
BY ByteIsByte

LEMMA OneOperand ==
    ASSUME NEW op \in {OP_CONST, OP_COMPARE, OP_GET_GLOBAL, OP_SET_GLOBAL, OP_GET_LOCAL, OP_SET_LOCAL,
                       OP_SCOPE_EXIT, OP_CALL, OP_GET_CELL, OP_SET_CELL, OP_LOAD_CELL, OP_MAKE_FUNCTION,
                       OP_GET_PROP, OP_SET_PROP}
    PROVE  Operands(op) = 1
BY DEF Operands, OP_CONST, OP_COMPARE, OP_JMP_IF_FALSE, OP_JMP, OP_GET_GLOBAL,
       OP_SET_GLOBAL, OP_GET_LOCAL, OP_SET_LOCAL, OP_SCOPE_EXIT, OP_CALL, OP_GET_CELL,
       OP_SET_CELL, OP_LOAD_CELL, OP_MAKE_FUNCTION, OP_GET_PROP, OP_SET_PROP

LEMMA Address ==
    ASSUME IInv, NEW op \in {OP_JMP_IF_FALSE, OP_JMP}, At_(op)
    PROVE  Short(1) \in Nat
<1>1. Operands(op) = 2
  BY DEF Operands, OP_CONST, OP_COMPARE, OP_JMP_IF_FALSE, OP_JMP, OP_GET_GLOBAL,
         OP_SET_GLOBAL, OP_GET_LOCAL, OP_SET_LOCAL, OP_SCOPE_EXIT, OP_CALL, OP_GET_CELL,
         OP_SET_CELL, OP_LOAD_CELL, OP_MAKE_FUNCTION, OP_GET_PROP, OP_SET_PROP
<1>2. Byte(1) \in 0..255 /\ Byte(2) \in 0..255
  BY <1>1, ByteIsByte
<1>3. Byte(2) = Byte(1 + 1)
  BY DEF Byte, IInv, IpInv
<1>4. Byte(1 + 1) \in 0..255
  BY <1>2, <1>3
<1>5. ASSUME NEW a \in 0..255, NEW b \in 0..255 PROVE 256 * a + b \in Nat
  OBVIOUS
<1>6. 256 * Byte(1) + Byte(1 + 1) \in Nat
  BY <1>2, <1>4, <1>5
<1> QED BY <1>6 DEF Short

LEMMA OperandsAre == ASSUME NEW op PROVE Operands(op) \in {0, 1, 2}
BY DEF Operands

LEMMA NeedsTwo ==
    ASSUME NEW op \in {OP_ADD, OP_SUB, OP_MUL, OP_DIV, OP_COMPARE, OP_SET_PROP}
    PROVE  Needs(op) = 2
BY DEF Needs, OP_HALT, OP_ADD, OP_SUB, OP_MUL, OP_DIV, OP_COMPARE, OP_JMP_IF_FALSE,
       OP_SET_GLOBAL, OP_POP, OP_SET_LOCAL, OP_SCOPE_EXIT, OP_CALL, OP_SET_CELL,
       OP_MAKE_FUNCTION, OP_NEW, OP_GET_PROP, OP_SET_PROP

LEMMA NeedsOne ==
    ASSUME NEW op \in {OP_HALT, OP_JMP_IF_FALSE, OP_SET_GLOBAL, OP_POP, OP_SET_LOCAL, OP_SCOPE_EXIT,
                       OP_CALL, OP_SET_CELL, OP_NEW, OP_GET_PROP}
    PROVE  Needs(op) = 1
BY DEF Needs, OP_HALT, OP_ADD, OP_SUB, OP_MUL, OP_DIV, OP_COMPARE, OP_JMP_IF_FALSE,
       OP_SET_GLOBAL, OP_POP, OP_SET_LOCAL, OP_SCOPE_EXIT, OP_CALL, OP_SET_CELL,
       OP_MAKE_FUNCTION, OP_NEW, OP_GET_PROP, OP_SET_PROP

LEMMA NeedsCells == Needs(OP_MAKE_FUNCTION) = 1 + Byte(1)
BY DEF Needs, OP_HALT, OP_ADD, OP_SUB, OP_MUL, OP_DIV, OP_COMPARE, OP_JMP_IF_FALSE,
       OP_SET_GLOBAL, OP_POP, OP_SET_LOCAL, OP_SCOPE_EXIT, OP_CALL, OP_SET_CELL,
       OP_MAKE_FUNCTION, OP_NEW, OP_GET_PROP, OP_SET_PROP

(* What pop() and push() check before anything is touched. *)
LEMMA Enough ==
    ASSUME IInv, NEW op, At_(op), NEW n \in Nat, Needs(op) = n
    PROVE  n <= sp /\ sp \in Nat /\ sp <= StackLimit
<1>1. Byte(0) = op /\ ~Dies
  BY Decoded
<1>2. ~(sp < Needs(op))
  BY <1>1 DEF Dies
<1> QED BY <1>2, VMAssumption DEF IInv, SpInv

LEMMA Room ==
    ASSUME IInv, NEW op \in {OP_CONST, OP_GET_GLOBAL, OP_GET_LOCAL, OP_GET_CELL, OP_LOAD_CELL, OP_NEW},
           At_(op)
    PROVE  sp < StackLimit
<1>1. Byte(0) = op /\ ~Dies
  BY Decoded
<1>2. ~Full
  BY <1>1 DEF Dies
<1> QED BY <1>2, VMAssumption DEF Full, IInv, SpInv

(* The value is an object of the kind that the guard asks for. *)
LEMMA ObjectRefers ==
    ASSUME NEW h, NEW v, IsValue(h, v), NEW kind, IsKind(h, v, kind)
    PROVE  Refers(h, Payload(v), kind)
BY DEF IsValue, IsKind, IsObject, Payload, Refers

LEMMA StepKeeps ==
    ASSUME IInv, NEW op, Step(op), MemoryOK', Grows(heap, heap'), StackInv', SpInv', status' = status
    PROVE  IInv'
<1>1. FnInv' /\ FrameInv'
  BY SameFunction, SameFrames, Decoded DEF Step
<1>2. BpInv' /\ StatusInv'
  BY DEF Step, IInv, BpInv, StatusInv
<1>3. IpInv'
  BY OperandsAre DEF Step, IInv, IpInv
<1> QED BY <1>1, <1>2, <1>3 DEF IInv

(* An instruction that takes n slots and leaves one, and no more memory. *)
LEMMA StackStep ==
    ASSUME IInv, NEW op, Step(op), UNCHANGED <<memory, status>>,
           NEW n \in Nat, n <= sp, sp - n < StackLimit, NEW v, IsValue(heap, v), Replace(n, <<v>>)
    PROVE  IInv'
<1>1. MemoryOK' /\ Grows(heap, heap')
  BY SameMemory
<1>2. IsValue(heap', v)
  BY <1>1, ValueKept
<1>3. StackInv' /\ SpInv'
  BY <1>1, <1>2, ReplaceOne
<1> QED BY <1>1, <1>3, StepKeeps

LEMMA PushStep ==
    ASSUME IInv, NEW op, NEW v, Push(op, v), sp < StackLimit, IsValue(heap, v)
    PROVE  IInv'
<1>1. sp \in Nat /\ sp - 0 < StackLimit
  BY VMAssumption DEF IInv, SpInv
<1> QED BY <1>1, StackStep DEF Push

-----------------------------------------------------------------------------
(* The instructions that leave the heap as it is *)

LEMMA NumberIsValue == ASSUME NEW h, NEW n PROVE IsValue(h, NUMBER(n))
BY DEF IsValue, NUMBER

LEMMA BooleanIsValue == ASSUME NEW h, NEW b PROVE IsValue(h, BOOLEAN_(b))
BY DEF IsValue, BOOLEAN_

LEMMA HaltKeeps == ASSUME IInv, Halt PROVE IInv'
<1>1. MemoryOK' /\ Grows(heap, heap')
  BY SameMemory DEF Halt
<1>2. status # "idle" /\ 1 <= sp /\ sp \in Nat /\ sp <= StackLimit
  BY Decoded, Enough, NeedsOne DEF Halt
<1>3. FnInv' /\ FrameInv'
  BY <1>1, <1>2, SameFunction, SameFrames DEF Halt
<1>4. StackInv'
  BY <1>1, ValuesKept DEF Halt, IInv, StackInv
<1>5. SpInv' /\ BpInv' /\ IpInv' /\ StatusInv'
  BY <1>2, VMAssumption DEF Halt, IInv, SpInv, BpInv, IpInv, StatusInv
<1> QED BY <1>1, <1>3, <1>4, <1>5 DEF IInv

LEMMA ConstKeeps == ASSUME IInv, Const PROVE IInv'
<1>1. At_(OP_CONST) /\ Push(OP_CONST, Constant(Byte(1)))
  BY DEF Const, Push, Step
<1>2. /\ Byte(0) = OP_CONST /\ ~Undefined /\ CodeOK(heap, heap[heap[fn].co])
      /\ Byte(1) \in 0..255 /\ sp < StackLimit
  BY <1>1, Decoded, Operand, OneOperand, Room
<1>3. ~(Byte(1) >= Len(heap[heap[fn].co].constants))
  BY <1>2 DEF Undefined
<1>4. IsSeq(heap[heap[fn].co].constants)
  BY <1>2 DEF CodeOK
<1>5. Byte(1) + 1 \in DOMAIN heap[heap[fn].co].constants
  BY <1>2, <1>3, <1>4, InRange
<1>6. IsValue(heap, Constant(Byte(1)))
  BY <1>2, <1>5 DEF CodeOK, AllValues, Constant
<1> QED BY <1>1, <1>2, <1>6, PushStep

LEMMA GlobalIsValue ==
    ASSUME IInv, NEW k \in 0..255, ~(k >= Len(globals))
    PROVE  k + 1 \in DOMAIN globals /\ GlobalOK(heap, globals[k + 1])
<1>1. k + 1 \in DOMAIN globals
  BY InRange DEF IInv, MemoryOK
<1> QED BY <1>1 DEF IInv, MemoryOK

LEMMA GetGlobalKeeps == ASSUME IInv, GetGlobal PROVE IInv'
<1>1. At_(OP_GET_GLOBAL) /\ Push(OP_GET_GLOBAL, globals[Byte(1) + 1].value)
  BY DEF GetGlobal, Push, Step
<1>2. Byte(0) = OP_GET_GLOBAL /\ ~Undefined /\ Byte(1) \in 0..255 /\ sp < StackLimit
  BY <1>1, Decoded, Operand, OneOperand, Room
<1>3. ~(Byte(1) >= Len(globals))
  BY <1>2 DEF Undefined
<1>4. IsValue(heap, globals[Byte(1) + 1].value)
  BY <1>2, <1>3, GlobalIsValue DEF GlobalOK
<1> QED BY <1>1, <1>2, <1>4, PushStep

LEMMA SetGlobalKeeps == ASSUME IInv, SetGlobal PROVE IInv'
<1>1. At_(OP_SET_GLOBAL) /\ Step(OP_SET_GLOBAL)
  BY DEF SetGlobal, Step
<1>2. Byte(0) = OP_SET_GLOBAL /\ ~Dies /\ Byte(1) \in 0..255
  BY <1>1, Decoded, Operand, OneOperand
<1>3. ~(Byte(1) >= Len(globals))
  BY <1>2 DEF Dies
<1> DEFINE i == Byte(1) + 1
           g == [globals[i] EXCEPT !.value = peek(0)]
<1>4. i \in DOMAIN globals /\ GlobalOK(heap, globals[i])
  BY <1>2, <1>3, GlobalIsValue
<1>5. GlobalOK(heap, g)
  BY <1>4, PeekIsValue DEF GlobalOK
<1>6. globals' = [globals EXCEPT ![i] = g]
  BY DEF SetGlobal
<1> HIDE DEF i, g
<1>7. IsSeq(globals') /\ \A k \in DOMAIN globals' : GlobalOK(heap, globals'[k])
  BY <1>4, <1>5, <1>6, ExceptIsSeq DEF IInv, MemoryOK
<1>8. heap' = heap /\ freed' = freed /\ constantObjects' = constantObjects
  BY DEF SetGlobal
<1>9. MemoryOK' /\ Grows(heap, heap')
  BY <1>7, <1>8 DEF IInv, MemoryOK, HeapOK, Grows
<1>10. StackInv' /\ SpInv'
  BY <1>9, SameStack DEF SetGlobal
<1> QED BY <1>1, <1>9, <1>10, StepKeeps DEF SetGlobal

LEMMA GetLocalKeeps == ASSUME IInv, GetLocal PROVE IInv'
<1>1. At_(OP_GET_LOCAL) /\ Push(OP_GET_LOCAL, Slot(bp + Byte(1)))
  BY DEF GetLocal, Push, Step
<1>2. Byte(1) \in 0..255 /\ sp < StackLimit
  BY <1>1, Operand, OneOperand, Room
<1>3. bp + Byte(1) \in Int
  BY <1>2 DEF IInv, BpInv
<1> QED BY <1>1, <1>2, <1>3, SlotIsValue, PushStep

LEMMA SetLocalKeeps == ASSUME IInv, SetLocal PROVE IInv'
<1>1. At_(OP_SET_LOCAL) /\ Step(OP_SET_LOCAL)
  BY DEF SetLocal, Step
<1>2. Byte(0) = OP_SET_LOCAL /\ ~Undefined /\ Byte(1) \in 0..255
  BY <1>1, Decoded, Operand, OneOperand
<1>3. ~(bp + Byte(1) >= StackLimit)
  BY <1>2 DEF Undefined
<1>4. MemoryOK' /\ Grows(heap, heap')
  BY SameMemory DEF SetLocal
<1>5. bp + Byte(1) \in Nat /\ bp + Byte(1) + Len(<<peek(0)>>) <= StackLimit
  BY <1>2, <1>3, SingleSeq, VMAssumption DEF IInv, BpInv
<1>6. IsSeq(<<peek(0)>>) /\ AllValues(heap', <<peek(0)>>)
  BY <1>4, SingleSeq, PeekIsValue, ValueKept DEF AllValues
<1>7. StackInv'
  BY <1>4, <1>5, <1>6, WrittenOK DEF SetLocal, StackInv
<1>8. SpInv'
  BY DEF SetLocal, IInv, SpInv
<1> QED BY <1>1, <1>4, <1>7, <1>8, StepKeeps DEF SetLocal

LEMMA PopKeeps == ASSUME IInv, Pop PROVE IInv'
<1>1. At_(OP_POP) /\ Step(OP_POP)
  BY DEF Pop, Step
<1>2. MemoryOK' /\ Grows(heap, heap') /\ 1 <= sp
  BY <1>1, SameMemory, Enough, NeedsOne DEF Pop
<1>3. StackInv' /\ SpInv'
  BY <1>2, ReplaceNone DEF Pop
<1> QED BY <1>1, <1>2, <1>3, StepKeeps DEF Pop

LEMMA ArithmeticKeeps ==
    ASSUME IInv, NEW op \in {OP_SUB, OP_MUL, OP_DIV}, NEW n, Arithmetic(op, n)
    PROVE  IInv'
<1>1. At_(op) /\ Step(op)
  BY DEF Arithmetic, Step
<1>2. 2 <= sp /\ sp \in Nat /\ sp <= StackLimit
  BY <1>1, Enough, NeedsTwo
<1>3. sp - 2 < StackLimit
  BY <1>2, VMAssumption
<1> QED BY <1>1, <1>2, <1>3, NumberIsValue, StackStep DEF Arithmetic

LEMMA DivKeeps == ASSUME IInv, Div PROVE IInv'
<1>1. At_(OP_DIV)
  BY DEF Div
<1>2. status # "idle"
  BY <1>1, Decoded
<1>3. CASE Stop("fraction")
  BY <1>2, <1>3, Stopped
<1>4. CASE \E q \in Quotients(Payload(peek(1)), Payload(peek(0))) : Arithmetic(OP_DIV, q)
  BY <1>4, ArithmeticKeeps
<1> QED BY <1>3, <1>4 DEF Div

LEMMA CompareKeeps == ASSUME IInv, Compare PROVE IInv'
<1>1. At_(OP_COMPARE) /\ Step(OP_COMPARE) /\ UNCHANGED <<memory, status>>
  BY DEF Compare, Step
<1>2. 2 <= sp /\ sp \in Nat /\ sp <= StackLimit
  BY <1>1, Enough, NeedsTwo
<1>3. sp - 2 < StackLimit
  BY <1>2, VMAssumption
<1>4. CASE Replace(2, <<>>)
  <2>1. MemoryOK' /\ Grows(heap, heap')
    BY <1>1, SameMemory
  <2>2. StackInv' /\ SpInv'
    BY <1>2, <1>4, <2>1, ReplaceNone
  <2> QED BY <1>1, <2>1, <2>2, StepKeeps
<1>5. ASSUME NEW b, Replace(2, <<BOOLEAN_(b)>>) PROVE IInv'
  BY <1>1, <1>2, <1>3, <1>5, BooleanIsValue, StackStep
<1> QED BY <1>4, <1>5 DEF Compare

LEMMA ScopeExitKeeps == ASSUME IInv, ScopeExit PROVE IInv'
<1>1. At_(OP_SCOPE_EXIT) /\ Step(OP_SCOPE_EXIT) /\ UNCHANGED <<memory, status>>
  BY DEF ScopeExit, Step
<1>2. Byte(0) = OP_SCOPE_EXIT /\ ~Undefined /\ Byte(1) \in 0..255 /\ sp \in Nat /\ sp <= StackLimit
  BY <1>1, Decoded, Operand, OneOperand, VMAssumption DEF IInv, SpInv
<1>3. ~(sp - 1 < Byte(1))
  BY <1>2 DEF Undefined
<1>4. 1 + Byte(1) \in Nat /\ 1 + Byte(1) <= sp /\ sp - (1 + Byte(1)) < StackLimit
  BY <1>2, <1>3, VMAssumption
<1>5. IsValue(heap, peek(0)) /\ Replace(1 + Byte(1), <<peek(0)>>)
  BY PeekIsValue DEF ScopeExit
<1> QED BY <1>1, <1>4, <1>5, StackStep

LEMMA JmpKeeps == ASSUME IInv, Jmp PROVE IInv'
<1>1. At_(OP_JMP) /\ status # "idle"
  BY Decoded DEF Jmp
<1>2. MemoryOK' /\ Grows(heap, heap')
  BY SameMemory DEF Jmp
<1>3. StackInv' /\ SpInv' /\ FrameInv' /\ FnInv'
  BY <1>1, <1>2, SameStack, SameFrames, SameFunction DEF Jmp
<1>4. BpInv' /\ IpInv' /\ StatusInv'
  BY <1>1, Address DEF Jmp, IInv, BpInv, IpInv, StatusInv
<1> QED BY <1>2, <1>3, <1>4 DEF IInv

LEMMA JmpIfFalseKeeps == ASSUME IInv, JmpIfFalse PROVE IInv'
<1>1. At_(OP_JMP_IF_FALSE)
  BY DEF JmpIfFalse
<1>2. status # "idle" /\ 1 <= sp /\ Short(1) \in Nat
  BY <1>1, Decoded, Enough, NeedsOne, Address
<1>3. MemoryOK' /\ Grows(heap, heap')
  BY SameMemory DEF JmpIfFalse
<1>4. StackInv' /\ SpInv'
  BY <1>2, <1>3, ReplaceNone DEF JmpIfFalse
<1>5. FrameInv' /\ FnInv'
  BY <1>2, <1>3, SameFrames, SameFunction DEF JmpIfFalse
<1>6. BpInv' /\ IpInv' /\ StatusInv'
  BY <1>2 DEF JmpIfFalse, IInv, BpInv, IpInv, StatusInv
<1> QED BY <1>3, <1>4, <1>5, <1>6 DEF IInv

LEMMA CallNativeKeeps == ASSUME IInv, CallNative PROVE IInv'
<1>1. At_(OP_CALL) /\ Step(OP_CALL) /\ UNCHANGED <<memory, status>>
  BY DEF CallNative, Step
<1>2. Byte(0) = OP_CALL /\ ~Undefined /\ Byte(1) \in 0..255 /\ sp \in Nat /\ sp <= StackLimit
  BY <1>1, Decoded, Operand, OneOperand, VMAssumption DEF IInv, SpInv
<1>3. ~(sp <= Byte(1))
  BY <1>2 DEF Undefined
<1>4. Byte(1) + 1 \in Nat /\ Byte(1) + 1 <= sp /\ sp - (Byte(1) + 1) < StackLimit
  BY <1>2, <1>3, VMAssumption
<1> QED BY <1>1, <1>4, NumberIsValue, StackStep DEF CallNative

-----------------------------------------------------------------------------
(* Calls and returns *)

LEMMA CalleeIsFunction ==
    ASSUME IInv, Call
    PROVE  Refers(heap, Payload(Callee), "FUNCTION") /\ Byte(1) \in 0..255
<1>1. Byte(1) \in 0..255
  BY Operand, OneOperand DEF Call
<1>2. IsValue(heap, Callee)
  BY <1>1, PeekIsValue DEF Callee
<1> QED BY <1>1, <1>2, ObjectRefers DEF Call, Is

LEMMA CallHeap ==
    ASSUME IInv, Call
    PROVE  HeapOK(heap') /\ Grows(heap, heap')
<1> DEFINE f == Payload(Callee)
           n == heap[heap[f].co].freeCount
           left == Shrunk(heap[f])
           o == [kind |-> "FUNCTION", co |-> heap[f].co, cells |-> left]
<1>1. HeapOK(heap) /\ Refers(heap, f, "FUNCTION")
  BY CalleeIsFunction DEF IInv, MemoryOK
<1>2. FunctionOK(heap, heap[f]) /\ CodeOK(heap, heap[heap[f].co])
  BY <1>1, ObjectOfHeap DEF FunctionOK
<1>3. n \in Nat /\ left = [i \in 1..n |-> IF i <= Len(heap[f].cells) THEN heap[f].cells[i] ELSE Null]
  BY <1>2 DEF CodeOK, Shrunk
<1>4. DOMAIN heap[f].cells = 1..Len(heap[f].cells) /\ Len(heap[f].cells) \in Nat
  BY <1>2, SeqShape DEF FunctionOK
<1>5. heap' = [heap EXCEPT ![f] = [heap[f] EXCEPT !.cells = left]]
  BY DEF Call
<1>6. [heap[f] EXCEPT !.cells = left] = o
  BY <1>2 DEF FunctionOK
<1>7. f \in DOMAIN heap /\ o.kind = heap[f].kind
  BY <1>1 DEF Refers
<1> HIDE DEF n, left, f
<1>8. left = [i \in 1..n |-> left[i]]
  BY <1>3
<1>9. IsSeq(left) /\ DOMAIN left = 1..n
  BY <1>3, <1>8, FunctionSeq
<1>10. ASSUME NEW k \in DOMAIN left PROVE left[k] = Null \/ Refers(heap, left[k], "CELL")
  <2>1. CASE k <= Len(heap[f].cells)
    <3>1. k \in DOMAIN heap[f].cells /\ left[k] = heap[f].cells[k]
      BY <2>1, <1>3, <1>4, <1>9
    <3> QED BY <3>1, <1>2 DEF FunctionOK
  <2>2. CASE ~(k <= Len(heap[f].cells))
    BY <2>2, <1>3, <1>9
  <2> QED BY <2>1, <2>2
<1>11. Refers(heap, heap[f].co, "CODE")
  BY <1>2 DEF FunctionOK
<1>12. FunctionOK(heap, o) /\ o.kind = "FUNCTION"
  BY <1>9, <1>10, <1>11 DEF FunctionOK
<1>13. ObjectOK(heap, o)
  BY <1>12 DEF ObjectOK
<1> HIDE DEF o
<1> QED BY <1>1, <1>5, <1>6, <1>7, <1>13, UpdateHeap

LEMMA CallKeeps == ASSUME IInv, Call PROVE IInv'
<1>1. At_(OP_CALL) /\ Byte(1) \in 0..255 /\ Refers(heap, Payload(Callee), "FUNCTION")
  BY CalleeIsFunction DEF Call
<1>2. Byte(0) = OP_CALL /\ ~Undefined /\ status = "running" /\ Refers(heap, fn, "FUNCTION")
  BY <1>1, Decoded
<1>3. ~(sp <= Byte(1))
  BY <1>2 DEF Undefined
<1>4. HeapOK(heap') /\ Grows(heap, heap')
  BY CallHeap
<1>5. MemoryOK'
  <2>1. freed' = freed /\ globals' = globals /\ constantObjects' = constantObjects
    BY DEF Call
  <2>2. freed' \subseteq DOMAIN heap'
    BY <2>1, <1>4 DEF IInv, MemoryOK, Grows
  <2> QED BY <1>4, <2>1, <2>2, GrownMemory
<1>6. StackInv' /\ SpInv'
  BY <1>4, SameStack DEF Call
<1>7. BpInv' /\ IpInv' /\ StatusInv'
  <2>1. ASSUME NEW k \in 0..255, ~(sp <= k) PROVE sp - k - 1 \in 0..StackLimit
    BY <2>1, VMAssumption DEF IInv, SpInv
  <2>2. sp - Byte(1) - 1 \in 0..StackLimit
    BY <1>1, <1>3, <2>1
  <2> QED BY <2>2 DEF Call, IInv, BpInv, IpInv, StatusInv
<1>8. FnInv'
  BY <1>1, <1>4, ReferKept DEF Call, FnInv
<1>9. FrameInv'
  <2> DEFINE frame == Frame
  <2>2. frame = [ra |-> ip + 2, bp |-> bp, fn |-> fn]
    BY DEF Frame
  <2> HIDE DEF frame
  <2>3. frame.ra = ip + 2 /\ frame.bp = bp /\ frame.fn = fn
    BY <2>2
  <2>4. frame.ra \in Nat /\ frame.bp \in Nat /\ frame.bp <= StackLimit
    BY <2>3, VMAssumption DEF IInv, IpInv, BpInv
  <2>6. callStack' = Append(callStack, frame)
    BY DEF Call, frame
  <2>7. /\ IsSeq(callStack') /\ DOMAIN callStack = 1..Len(callStack) /\ Len(callStack) \in Nat
        /\ DOMAIN callStack' = 1..Len(callStack) + 1
        /\ \A i \in 1..Len(callStack) : callStack'[i] = callStack[i]
        /\ callStack'[Len(callStack) + 1] = frame
    BY <2>6, AppendIsSeq DEF IInv, FrameInv
  <2>8. ASSUME NEW i \in DOMAIN callStack' PROVE FrameOK(callStack[i])' /\ callStack'[i].bp <= StackLimit
    <3>1. CASE i \in DOMAIN callStack
      BY <3>1, <1>4, <2>7, ReferKept DEF IInv, FrameInv, FrameOK
    <3>2. CASE i = Len(callStack) + 1
      <4>1. Refers(heap', frame.fn, "FUNCTION")
        BY <1>2, <1>4, <2>3, ReferKept
      <4> QED BY <3>2, <4>1, <2>2, <2>3, <2>4, <2>7 DEF FrameOK
    <3> QED BY <2>7, <3>1, <3>2
  <2> QED BY <2>7, <2>8 DEF FrameInv
<1> QED BY <1>5, <1>6, <1>7, <1>8, <1>9 DEF IInv

LEMMA FrontIsSeq ==
    ASSUME NEW s, IsSeq(s), s # <<>>
    PROVE  /\ Len(s) \in DOMAIN s
           /\ IsSeq(SubSeq(s, 1, Len(s) - 1))
           /\ DOMAIN SubSeq(s, 1, Len(s) - 1) \subseteq DOMAIN s
           /\ \A i \in DOMAIN SubSeq(s, 1, Len(s) - 1) : SubSeq(s, 1, Len(s) - 1)[i] = s[i]
<1> DEFINE V == {s[i] : i \in DOMAIN s}
<1>1. s \in Seq(V)
  BY DEF IsSeq
<1> HIDE DEF V
<1>2. Len(s) \in Nat /\ Len(s) # 0 /\ DOMAIN s = 1..Len(s)
  BY <1>1
<1>3. /\ SubSeq(s, 1, Len(s) - 1) \in Seq(V)
      /\ DOMAIN SubSeq(s, 1, Len(s) - 1) = 1..Len(s) - 1
      /\ \A i \in 1..Len(s) - 1 : SubSeq(s, 1, Len(s) - 1)[i] = s[i]
  BY <1>1, <1>2
<1>4. IsSeq(SubSeq(s, 1, Len(s) - 1))
  BY <1>3, SeqOfItsElements
<1>5. 1..Len(s) - 1 \subseteq 1..Len(s) /\ Len(s) \in 1..Len(s)
  BY <1>2
<1> QED BY <1>2, <1>3, <1>4, <1>5

LEMMA ReturnKeeps == ASSUME IInv, Return PROVE IInv'
<1>1. Byte(0) = OP_RETURN /\ ~Undefined /\ status # "idle"
  BY Decoded DEF Return
<1>2. callStack # <<>>
  BY <1>1 DEF Undefined
<1>3. MemoryOK' /\ Grows(heap, heap')
  BY SameMemory DEF Return
<1>4. StackInv' /\ SpInv'
  BY <1>3, SameStack DEF Return
<1> DEFINE frame == callStack[Len(callStack)]
<1>5. FrameOK(frame) /\ frame.bp <= StackLimit
  BY <1>2, FrontIsSeq DEF IInv, FrameInv
<1>6. ip' = frame.ra /\ bp' = frame.bp /\ fn' = frame.fn /\ heap' = heap /\ status' = status
  BY DEF Return, memory
<1> HIDE DEF frame
<1>7. IpInv' /\ BpInv' /\ FnInv' /\ StatusInv'
  BY <1>5, <1>6, VMAssumption DEF FrameOK, IpInv, BpInv, FnInv, StatusInv, IInv
<1>8. FrameInv'
  BY <1>2, <1>6, FrontIsSeq DEF Return, IInv, FrameInv, FrameOK
<1> QED BY <1>3, <1>4, <1>7, <1>8 DEF IInv

-----------------------------------------------------------------------------
(* Cells *)

LEMMA CellsIsSeq == ASSUME IInv, NEW op, At_(op) PROVE IsSeq(cells)
BY Decoded DEF FunctionOK, cells

LEMMA CellRefers ==
    ASSUME IInv, NEW op, At_(op), NEW k \in 0..255, ~(k >= Len(cells)), cells[k + 1] # Null
    PROVE  Refers(heap, cells[k + 1], "CELL")
<1>1. FunctionOK(heap, heap[fn])
  BY Decoded
<1>2. k + 1 \in DOMAIN cells
  BY <1>1, InRange DEF FunctionOK, cells
<1> QED BY <1>1, <1>2 DEF FunctionOK, cells

LEMMA GetCellKeeps == ASSUME IInv, GetCell PROVE IInv'
<1>1. At_(OP_GET_CELL) /\ Push(OP_GET_CELL, heap[cells[Byte(1) + 1]].value)
  BY DEF GetCell, Push, Step
<1>2. Byte(0) = OP_GET_CELL /\ ~Undefined /\ Byte(1) \in 0..255 /\ sp < StackLimit
  BY <1>1, Decoded, Operand, OneOperand, Room
<1>3. ~(Byte(1) >= Len(cells))
  BY <1>2 DEF Undefined
<1>4. Byte(1) < Len(cells)
  BY <1>1, <1>2, <1>3, CellsIsSeq, InRange
<1>5. cells[Byte(1) + 1] # Null
  BY <1>2, <1>4 DEF Undefined
<1>6. Refers(heap, cells[Byte(1) + 1], "CELL")
  BY <1>1, <1>2, <1>3, <1>5, CellRefers
<1>7. IsValue(heap, heap[cells[Byte(1) + 1]].value)
  BY <1>6, ObjectOfHeap DEF IInv, MemoryOK
<1> QED BY <1>1, <1>2, <1>7, PushStep

LEMMA LoadCellKeeps == ASSUME IInv, LoadCell PROVE IInv'
<1>1. At_(OP_LOAD_CELL) /\ Push(OP_LOAD_CELL, OBJECT(cells[Byte(1) + 1]))
  BY DEF LoadCell, Push, Step
<1>2. Byte(0) = OP_LOAD_CELL /\ ~Undefined /\ Byte(1) \in 0..255 /\ sp < StackLimit
  BY <1>1, Decoded, Operand, OneOperand, Room
<1>3. ~(Byte(1) >= Len(cells))
  BY <1>2 DEF Undefined
<1>4. Byte(1) < Len(cells)
  BY <1>1, <1>2, <1>3, CellsIsSeq, InRange
<1>5. cells[Byte(1) + 1] # Null
  BY <1>2, <1>4 DEF Undefined
<1>6. Refers(heap, cells[Byte(1) + 1], "CELL")
  BY <1>1, <1>2, <1>3, <1>5, CellRefers
<1>7. IsValue(heap, OBJECT(cells[Byte(1) + 1]))
  BY <1>6 DEF Refers, IsValue, OBJECT
<1> QED BY <1>1, <1>2, <1>7, PushStep

(* The instructions that may collect: whatever is taken back is there.     *)
LEMMA Collected ==
    ASSUME IInv, NEW op, NEW g, MEM(op, g), HeapOK(g), Grows(heap, g),
           globals' = globals, constantObjects' = constantObjects
    PROVE  MemoryOK' /\ Grows(heap, heap') /\ heap' = g
<1>1. heap' = g /\ freed' \subseteq DOMAIN heap
  BY DEF MEM, IInv, MemoryOK
<1>2. freed' \subseteq DOMAIN heap'
  BY <1>1 DEF Grows
<1> QED BY <1>1, <1>2, GrownMemory

(* The function that runs gets the address of a cell that is not there     *)
(* yet; it is the next one to be allocated.                                *)
LEMMA NewCellHeap ==
    ASSUME NEW h, HeapOK(h), NEW a, Refers(h, a, "FUNCTION"), NEW v, IsValue(h, v)
    PROVE  LET g == Append([h EXCEPT ![a].cells = Append(@, Len(h) + 1)], CellObject(v)) IN
           HeapOK(g) /\ Grows(h, g)
<1> DEFINE n == Len(h)
           more == Append(h[a].cells, n + 1)
           o == [kind |-> "FUNCTION", co |-> h[a].co, cells |-> more]
           h1 == Append(h, CellObject(v))
           g1 == [h1 EXCEPT ![a] = o]
           h2 == [h EXCEPT ![a] = o]
           g == Append(h2, CellObject(v))
<1>1. FunctionOK(h, h[a]) /\ a \in DOMAIN h /\ h[a].kind = "FUNCTION"
  BY ObjectOfHeap DEF Refers
<1>2. [h EXCEPT ![a].cells = Append(@, n + 1)] = h2
  <2>1. h2 = [h EXCEPT ![a] = o] /\ [h EXCEPT ![a].cells = Append(@, n + 1)]
                                     = [h EXCEPT ![a] = [h[a] EXCEPT !.cells = more]]
    OBVIOUS
  <2> HIDE DEF more
  <2>2. [h[a] EXCEPT !.cells = more] = o
    BY <1>1 DEF FunctionOK
  <2> HIDE DEF o, h2
  <2> QED BY <2>1, <2>2
<1>3. ObjectOK(h, CellObject(v)) /\ CellObject(v).kind = "CELL"
  BY DEF ObjectOK, CellObject
<1>4. HeapOK(h1) /\ Grows(h, h1) /\ Refers(h1, n + 1, "CELL")
  BY <1>3, AppendHeap
<1>5. FunctionOK(h1, o)
  <2>1. FunctionOK(h1, h[a]) /\ IsSeq(h[a].cells)
    BY <1>1, <1>4, ReferKept DEF FunctionOK
  <2>2. /\ IsSeq(more) /\ DOMAIN h[a].cells = 1..Len(h[a].cells)
        /\ DOMAIN more = 1..Len(h[a].cells) + 1 /\ Len(h[a].cells) \in Nat
        /\ \A k \in 1..Len(h[a].cells) : more[k] = h[a].cells[k]
        /\ more[Len(h[a].cells) + 1] = n + 1
    BY <2>1, AppendIsSeq
  <2> HIDE DEF more
  <2>3. ASSUME NEW k \in DOMAIN more PROVE more[k] = Null \/ Refers(h1, more[k], "CELL")
    <3>1. CASE k \in DOMAIN h[a].cells
      BY <3>1, <2>1, <2>2 DEF FunctionOK
    <3>2. CASE k = Len(h[a].cells) + 1
      BY <3>2, <2>2, <1>4
    <3> QED BY <2>2, <3>1, <3>2
  <2>4. o = [kind |-> "FUNCTION", co |-> o.co, cells |-> o.cells] /\ o.cells = more /\ o.co = h[a].co
    OBVIOUS
  <2>5. Refers(h1, o.co, "CODE")
    BY <2>1, <2>4 DEF FunctionOK
  <2> HIDE DEF o
  <2> QED BY <2>2, <2>3, <2>4, <2>5 DEF FunctionOK
<1>6. a \in DOMAIN h1 /\ h1[a].kind = o.kind /\ o.kind = "FUNCTION"
  BY <1>1, <1>4 DEF Grows
<1>7. ObjectOK(h1, o)
  BY <1>5, <1>6 DEF ObjectOK
<1>8. HeapOK(g1) /\ Grows(h1, g1)
  <2> HIDE DEF o, h1
  <2> QED BY <1>4, <1>6, <1>7, UpdateHeap
<1>9. g = g1
  <2> DEFINE c == CellObject(v)
  <2> HIDE DEF o, c
  <2>1. IsSeq(h)
    BY DEF HeapOK
  <2>2. IsSeq(h2) /\ Len(h2) = n /\ DOMAIN h2 = DOMAIN h /\ n \in Nat /\ DOMAIN h = 1..n
        /\ h2[a] = o /\ \A b \in DOMAIN h : b # a => h2[b] = h[b]
    BY <1>1, <2>1, ExceptIsSeq, SeqShape
  <2>3. /\ IsSeq(g) /\ Len(g) = n + 1 /\ DOMAIN g = 1..n + 1
        /\ \A i \in 1..n : g[i] = h2[i]
        /\ g[n + 1] = c
    <3> HIDE DEF h2
    <3> QED BY <2>2, AppendIsSeq DEF c
  <2>4. /\ IsSeq(h1) /\ Len(h1) = n + 1 /\ DOMAIN h1 = 1..n + 1
        /\ \A i \in 1..n : h1[i] = h[i]
        /\ h1[n + 1] = c
    BY <2>1, <2>2, AppendIsSeq DEF c
  <2> HIDE DEF h1, h2, g
  <2>5. a \in DOMAIN h1 /\ a \in 1..n
    BY <1>1, <2>2, <2>4
  <2>6. /\ IsSeq(g1) /\ Len(g1) = n + 1 /\ DOMAIN g1 = 1..n + 1
        /\ g1[a] = o /\ \A b \in DOMAIN h1 : b # a => g1[b] = h1[b]
    BY <2>4, <2>5, ExceptIsSeq
  <2>7. g = [i \in 1..n + 1 |-> g[i]] /\ g1 = [i \in 1..n + 1 |-> g1[i]]
    <3> HIDE DEF g1
    <3> QED BY <2>3, <2>6, SeqShape
  <2> HIDE DEF g1
  <2>8. ASSUME NEW i \in 1..n + 1 PROVE g[i] = g1[i]
    <3>1. CASE i = n + 1
      BY <3>1, <2>2, <2>3, <2>4, <2>5, <2>6
    <3>2. CASE i \in 1..n
      BY <3>2, <2>2, <2>3, <2>4, <2>5, <2>6
    <3> QED BY <2>2, <3>1, <3>2
  <2> QED BY <2>7, <2>8
<1>10. Grows(h, g1)
  <2> HIDE DEF h1, g1
  <2> QED BY <1>4, <1>8 DEF Grows
<1>11. HeapOK(g) /\ Grows(h, g)
  <2> HIDE DEF g, g1
  <2> QED BY <1>8, <1>9, <1>10
<1> QED BY <1>2, <1>11

LEMMA SetCellKeeps == ASSUME IInv, SetCell PROVE IInv'
<1>1. At_(OP_SET_CELL) /\ Step(OP_SET_CELL)
  BY DEF SetCell, Step
<1>2. /\ Byte(0) = OP_SET_CELL /\ ~Undefined /\ Byte(1) \in 0..255 /\ Refers(heap, fn, "FUNCTION")
      /\ HeapOK(heap) /\ IsValue(heap, peek(0))
  BY <1>1, Decoded, Operand, OneOperand, PeekIsValue DEF IInv, MemoryOK
<1>3. globals' = globals /\ constantObjects' = constantObjects /\ stack' = stack /\ sp' = sp
      /\ status' = status
  BY DEF SetCell
<1>4. MemoryOK' /\ Grows(heap, heap')
  <2>1. CASE /\ Len(cells) <= Byte(1)
             /\ MEM(OP_SET_CELL, Append([heap EXCEPT ![fn].cells = Append(@, Len(heap) + 1)],
                                        CellObject(peek(0))))
    BY <1>2, <1>3, <2>1, NewCellHeap, Collected
  <2>2. CASE /\ Byte(1) < Len(cells)
             /\ heap' = [heap EXCEPT ![cells[Byte(1) + 1]].value = peek(0)]
             /\ UNCHANGED freed
    <3> DEFINE a == cells[Byte(1) + 1]
               o == [kind |-> "CELL", value |-> peek(0)]
    <3>1. ~(Byte(1) >= Len(cells))
      <4>1. ASSUME NEW k \in 0..255, NEW m \in Nat, k < m PROVE ~(k >= m)
        BY <4>1
      <4>2. Len(cells) \in Nat
        BY <1>1, CellsIsSeq, SeqShape
      <4> QED BY <1>2, <2>2, <4>1, <4>2
    <3>2. a # Null
      BY <1>2, <2>2 DEF Undefined
    <3>3. Refers(heap, a, "CELL")
      BY <1>1, <1>2, <3>1, <3>2, CellRefers
    <3>4. heap[a] = [kind |-> "CELL", value |-> heap[a].value]
      BY <1>2, <3>3, ObjectOfHeap
    <3>5. [heap[a] EXCEPT !.value = peek(0)] = o
      BY <3>4
    <3>6. heap' = [heap EXCEPT ![a] = o]
      BY <2>2, <3>5
    <3>7. ObjectOK(heap, o) /\ o.kind = "CELL"
      BY <1>2 DEF ObjectOK
    <3> HIDE DEF a, o
    <3>8. HeapOK(heap') /\ Grows(heap, heap')
      BY <1>2, <3>3, <3>6, <3>7, UpdateHeap DEF Refers
    <3>9. freed' \subseteq DOMAIN heap'
      BY <2>2, <3>8 DEF Grows, IInv, MemoryOK
    <3> QED BY <1>3, <3>8, <3>9, GrownMemory
  <2> QED BY <2>1, <2>2 DEF SetCell
<1>5. StackInv' /\ SpInv'
  BY <1>3, <1>4, SameStack
<1> QED BY <1>1, <1>3, <1>4, <1>5, StepKeeps

-----------------------------------------------------------------------------
(* Objects *)

LEMMA AddKeeps == ASSUME IInv, Add PROVE IInv'
<1>1. At_(OP_ADD) /\ Step(OP_ADD) /\ status' = status
  BY DEF Add, Step
<1>2. 2 <= sp /\ sp \in Nat /\ sp <= StackLimit
  BY <1>1, Enough, NeedsTwo
<1>3. sp - 2 < StackLimit
  BY <1>2, VMAssumption
<1>4. ASSUME NEW n, Replace(2, <<NUMBER(n)>>), UNCHANGED memory PROVE IInv'
  BY <1>1, <1>2, <1>3, <1>4, NumberIsValue, StackStep
<1>5. CASE Replace(2, <<>>) /\ UNCHANGED memory
  <2>1. MemoryOK' /\ Grows(heap, heap')
    BY <1>5, SameMemory
  <2>2. StackInv' /\ SpInv'
    BY <1>2, <1>5, <2>1, ReplaceNone
  <2> QED BY <1>1, <2>1, <2>2, StepKeeps
<1>6. ASSUME NEW chars, MEM(OP_ADD, Append(heap, StringObject(chars))), Replace(2, <<OBJECT(Len(heap'))>>),
             globals' = globals, constantObjects' = constantObjects
      PROVE  IInv'
  <2>1. ObjectOK(heap, StringObject(chars)) /\ HeapOK(heap)
    BY DEF ObjectOK, StringObject, IInv, MemoryOK
  <2>2. /\ HeapOK(Append(heap, StringObject(chars))) /\ Grows(heap, Append(heap, StringObject(chars)))
        /\ Len(Append(heap, StringObject(chars))) \in DOMAIN Append(heap, StringObject(chars))
    BY <2>1, AppendHeap
  <2>3. MemoryOK' /\ Grows(heap, heap') /\ Len(heap') \in DOMAIN heap'
    BY <1>6, <2>2, Collected
  <2>4. IsValue(heap', OBJECT(Len(heap')))
    BY <2>3 DEF IsValue, OBJECT
  <2>5. StackInv' /\ SpInv'
    BY <1>2, <1>3, <1>6, <2>3, <2>4, ReplaceOne
  <2> QED BY <1>1, <2>3, <2>5, StepKeeps
<1> QED BY <1>4, <1>5, <1>6 DEF Add

LEMMA MakeFunctionKeeps == ASSUME IInv, MakeFunction PROVE IInv'
<1> DEFINE n == Byte(1)
           code == Payload(peek(0))
           captured == [k \in 1..n |-> Captured(k)]
           made == [kind |-> "FUNCTION", co |-> code, cells |-> captured]
           g == Append(heap, made)
<1>1. At_(OP_MAKE_FUNCTION) /\ Step(OP_MAKE_FUNCTION) /\ status' = status
      /\ globals' = globals /\ constantObjects' = constantObjects
  BY DEF MakeFunction, Step
<1>2. Byte(0) = OP_MAKE_FUNCTION /\ ~Undefined /\ n \in 0..255
  BY <1>1, Decoded, Operand, OneOperand
<1>3. n + 1 \in Nat /\ n + 1 <= sp /\ sp - (n + 1) < StackLimit
  <2>1. ASSUME NEW k \in 0..255 PROVE k + 1 \in Nat /\ 1 + k \in Nat /\ 1 + k = k + 1
    OBVIOUS
  <2>2. n + 1 \in Nat /\ 1 + n = n + 1
    BY <1>2, <2>1
  <2>3. n + 1 <= sp /\ sp \in Nat /\ sp <= StackLimit
    BY <1>1, <2>2, Enough, NeedsCells
  <2>4. ASSUME NEW k \in 0..255, k + 1 <= sp PROVE sp - (k + 1) < StackLimit
    BY <2>3, <2>4, VMAssumption
  <2> QED BY <1>2, <2>2, <2>3, <2>4
<1>4. IsKind(heap, peek(0), "CODE") /\ \A k \in 1..n : IsKind(heap, peek(k), "CELL")
  BY <1>2 DEF Undefined
<1>5. Refers(heap, code, "CODE")
  BY <1>4, PeekIsValue, ObjectRefers
<1>6. ASSUME NEW k \in 1..n PROVE Refers(heap, Captured(k), "CELL")
  <2>1. k \in Int
    OBVIOUS
  <2> QED BY <1>4, <2>1, PeekIsValue, ObjectRefers DEF Captured
<1>7. [FunctionObject(code) EXCEPT !.cells = captured] = made
  <2> HIDE DEF captured, code
  <2> QED BY DEF FunctionObject
<1>8. MEM(OP_MAKE_FUNCTION, g) /\ Replace(n + 1, <<OBJECT(Len(heap'))>>)
  BY <1>7 DEF MakeFunction
<1>9. IsSeq(captured) /\ DOMAIN captured = 1..n
  <2>1. ASSUME NEW m \in 0..255 PROVE m \in Nat
    OBVIOUS
  <2>2. n \in Nat /\ captured = [k \in 1..n |-> captured[k]]
    BY <1>2, <2>1
  <2> HIDE DEF captured
  <2> QED BY <2>2, FunctionSeq
<1>10. \A k \in DOMAIN captured : Refers(heap, captured[k], "CELL")
  BY <1>6, <1>9
<1>11. ObjectOK(heap, made)
  <2>1. made = [kind |-> "FUNCTION", co |-> made.co, cells |-> made.cells] /\ made.kind = "FUNCTION"
        /\ made.co = code /\ made.cells = captured
    OBVIOUS
  <2> HIDE DEF made, captured, code
  <2> QED BY <1>5, <1>9, <1>10, <2>1 DEF ObjectOK, FunctionOK
<1>12. HeapOK(g) /\ Grows(heap, g) /\ Len(g) \in DOMAIN g
  <2> HIDE DEF made
  <2> QED BY <1>11, AppendHeap DEF IInv, MemoryOK
<1>13. MemoryOK' /\ Grows(heap, heap') /\ Len(heap') \in DOMAIN heap'
  <2> HIDE DEF g
  <2> QED BY <1>1, <1>8, <1>12, Collected
<1>14. IsValue(heap', OBJECT(Len(heap')))
  BY <1>13 DEF IsValue, OBJECT
<1>15. StackInv' /\ SpInv'
  BY <1>3, <1>8, <1>13, <1>14, ReplaceOne
<1> QED BY <1>1, <1>13, <1>15, StepKeeps

LEMMA ClassPropIsValue ==
    ASSUME NEW h, HeapOK(h), NEW cls, NEW prop
    PROVE  IsValue(h, classProp(h, cls, prop))
<1> DEFINE owners == {c \in lineage(h, cls) : prop \in DOMAIN h[c].properties}
           nearest == {c \in owners : \A d \in owners : d <= c}
<1>1. ASSUME NEW c \in nearest PROVE IsValue(h, h[c].properties[prop])
  <2>1. Refers(h, c, "CLASS") /\ prop \in DOMAIN h[c].properties
    BY DEF lineage, Refers
  <2>2. AllValues(h, h[c].properties)
    BY <2>1, ObjectOfHeap
  <2> QED BY <2>1, <2>2 DEF AllValues
<1>2. classProp(h, cls, prop) = IF nearest = {} THEN Junk ELSE h[CHOOSE c \in nearest : TRUE].properties[prop]
  BY DEF classProp
<1> HIDE DEF nearest
<1>3. CASE nearest = {}
  BY <1>2, <1>3 DEF IsValue, Junk
<1>4. CASE nearest # {}
  <2>1. (CHOOSE c \in nearest : TRUE) \in nearest
    BY <1>4
  <2> QED BY <1>1, <1>2, <1>4, <2>1
<1> QED BY <1>3, <1>4

LEMMA GetPropIsValue ==
    ASSUME NEW h, HeapOK(h), NEW a, Refers(h, a, "INSTANCE") \/ Refers(h, a, "CLASS"), NEW prop
    PROVE  IsValue(h, getProp(h, a, prop))
<1>1. CASE Refers(h, a, "CLASS")
  <2>1. getProp(h, a, prop) = classProp(h, a, prop)
    BY <1>1 DEF getProp, Refers
  <2> QED BY <2>1, ClassPropIsValue
<1>2. CASE Refers(h, a, "INSTANCE") /\ prop \in DOMAIN h[a].properties
  <2>1. getProp(h, a, prop) = h[a].properties[prop]
    BY <1>2 DEF getProp, Refers
  <2>2. AllValues(h, h[a].properties)
    BY <1>2, ObjectOfHeap
  <2> QED BY <1>2, <2>1, <2>2 DEF AllValues
<1>3. CASE Refers(h, a, "INSTANCE") /\ prop \notin DOMAIN h[a].properties
  <2>1. getProp(h, a, prop) = classProp(h, h[a].cls, prop)
    BY <1>3 DEF getProp, Refers
  <2> QED BY <2>1, ClassPropIsValue
<1> QED BY <1>1, <1>2, <1>3

LEMMA NewKeeps == ASSUME IInv, New PROVE IInv'
<1> DEFINE cls == Payload(peek(0))
           made == InstanceObject(cls)
           g == Append(heap, made)
           constructor == classProp(heap, cls, "constructor")
<1>1. At_(OP_NEW) /\ Step(OP_NEW) /\ status' = status
      /\ globals' = globals /\ constantObjects' = constantObjects
      /\ MEM(OP_NEW, g) /\ Replace(1, <<constructor, OBJECT(Len(heap'))>>)
  BY DEF New, Step
<1>2. Byte(0) = OP_NEW /\ ~Undefined /\ 1 <= sp /\ sp \in Nat /\ sp < StackLimit
  BY <1>1, Decoded, Enough, NeedsOne, Room
<1>3. Refers(heap, cls, "CLASS") /\ HeapOK(heap)
  BY <1>2, PeekIsValue, ObjectRefers DEF Undefined, Is, IInv, MemoryOK
<1>4. ObjectOK(heap, made)
  BY <1>3, EmptySeq DEF ObjectOK, InstanceObject, AllValues
<1>5. HeapOK(g) /\ Grows(heap, g) /\ Len(g) \in DOMAIN g
  <2> HIDE DEF made
  <2> QED BY <1>3, <1>4, AppendHeap
<1>6. MemoryOK' /\ Grows(heap, heap') /\ Len(heap') \in DOMAIN heap'
  <2> HIDE DEF g
  <2> QED BY <1>1, <1>5, Collected
<1>7. IsValue(heap', OBJECT(Len(heap')))
  BY <1>6 DEF IsValue, OBJECT
<1>8. IsValue(heap', constructor)
  BY <1>3, <1>6, ClassPropIsValue, ValueKept
<1>9. sp - 1 + 2 <= StackLimit
  BY <1>2, VMAssumption
<1> HIDE DEF constructor
<1>10. StackInv' /\ SpInv'
  BY <1>1, <1>2, <1>6, <1>7, <1>8, <1>9, ReplaceTwo
<1> QED BY <1>1, <1>6, <1>10, StepKeeps

LEMMA GetPropKeeps == ASSUME IInv, GetProp PROVE IInv'
<1>1. At_(OP_GET_PROP) /\ Step(OP_GET_PROP) /\ UNCHANGED <<memory, status>>
  BY DEF GetProp, Step
<1>2. /\ Byte(0) = OP_GET_PROP /\ ~Undefined /\ ~Dies
      /\ 1 <= sp /\ sp \in Nat /\ sp <= StackLimit
  BY <1>1, Decoded, Enough, NeedsOne
<1>3. Is(peek(0), "INSTANCE") \/ Is(peek(0), "CLASS")
  <2>1. ~Unreadable(peek(0))
    BY <1>2 DEF Undefined
  <2> QED BY <1>2, <2>1 DEF Dies
<1>4. Refers(heap, Payload(peek(0)), "INSTANCE") \/ Refers(heap, Payload(peek(0)), "CLASS")
  BY <1>3, PeekIsValue, ObjectRefers DEF Is
<1>5. IsValue(heap, getProp(heap, Payload(peek(0)), Chars(Constant(Byte(1)))))
  BY <1>4, GetPropIsValue DEF IInv, MemoryOK
<1>6. sp - 1 < StackLimit
  BY <1>2, VMAssumption
<1> QED BY <1>1, <1>2, <1>5, <1>6, StackStep DEF GetProp

LEMMA SetPropKeeps == ASSUME IInv, SetProp PROVE IInv'
<1> DEFINE prop == Chars(Constant(Byte(1)))
           a == Payload(peek(0))
           properties == [p \in DOMAIN heap[a].properties \cup {prop} |->
                            IF p = prop THEN peek(1) ELSE heap[a].properties[p]]
           o == [kind |-> "INSTANCE", cls |-> heap[a].cls, properties |-> properties]
<1>1. At_(OP_SET_PROP) /\ Step(OP_SET_PROP) /\ status' = status /\ freed' = freed
      /\ globals' = globals /\ constantObjects' = constantObjects
      /\ heap' = [heap EXCEPT ![a].properties = properties] /\ Replace(2, <<peek(1)>>)
  BY DEF SetProp, Step
<1>2. /\ Byte(0) = OP_SET_PROP /\ ~Undefined /\ IsValue(heap, peek(1))
      /\ 2 <= sp /\ sp \in Nat /\ sp <= StackLimit
  BY <1>1, Decoded, Enough, NeedsTwo, PeekIsValue
<1>3. Refers(heap, a, "INSTANCE") /\ HeapOK(heap)
  BY <1>2, PeekIsValue, ObjectRefers DEF Undefined, Is, IInv, MemoryOK
<1>4. /\ heap[a] = [kind |-> "INSTANCE", cls |-> heap[a].cls, properties |-> heap[a].properties]
      /\ Refers(heap, heap[a].cls, "CLASS") /\ AllValues(heap, heap[a].properties)
  BY <1>3, ObjectOfHeap
<1>5. AllValues(heap, properties)
  BY <1>2, <1>4 DEF AllValues
<1> HIDE DEF properties
<1>6. [heap[a] EXCEPT !.properties = properties] = o
  BY <1>4
<1>7. ObjectOK(heap, o) /\ o.kind = "INSTANCE"
  BY <1>4, <1>5 DEF ObjectOK
<1>8. heap' = [heap EXCEPT ![a] = o]
  BY <1>1, <1>6
<1> HIDE DEF o, a
<1>9. HeapOK(heap') /\ Grows(heap, heap')
  BY <1>3, <1>7, <1>8, UpdateHeap DEF Refers
<1>10. MemoryOK'
  <2>1. freed' \subseteq DOMAIN heap'
    BY <1>1, <1>9 DEF IInv, MemoryOK, Grows
  <2> QED BY <1>1, <1>9, <2>1, GrownMemory
<1>11. IsValue(heap', peek(1)) /\ sp - 2 < StackLimit
  BY <1>2, <1>9, ValueKept, VMAssumption
<1>12. StackInv' /\ SpInv'
  BY <1>1, <1>2, <1>9, <1>11, ReplaceOne
<1> QED BY <1>1, <1>9, <1>10, <1>12, StepKeeps

-----------------------------------------------------------------------------
(* The machine *)

LEMMA LoadKeeps == ASSUME IInv, Load PROVE IInv'
<1>1. Grows(heap, heap') /\ MemoryOK' /\ FnInv' /\ StatusInv'
  BY DEF Load, FnInv, StatusInv
<1>2. SpInv' /\ BpInv' /\ IpInv'
  BY VMAssumption DEF Load, SpInv, BpInv, IpInv
<1>3. StackInv'
  BY <1>1, ValuesKept DEF Load, IInv, StackInv
<1>4. FrameInv'
  BY <1>1, SameFrames DEF Load
<1> QED BY <1>1, <1>2, <1>3, <1>4 DEF IInv

LEMMA ListedKeeps == ASSUME IInv, Listed PROVE IInv'
<1>1. MemoryOK' /\ Grows(heap, heap') /\ status # "idle"
  BY SameMemory DEF Listed
<1>2. StackInv' /\ SpInv' /\ FrameInv' /\ FnInv'
  BY <1>1, SameStack, SameFrames, SameFunction DEF Listed
<1>3. BpInv' /\ IpInv' /\ StatusInv'
  BY DEF Listed, IInv, BpInv, IpInv, StatusInv
<1> QED BY <1>1, <1>2, <1>3 DEF IInv

LEMMA EvalKeeps == ASSUME IInv, Eval PROVE IInv'
<1>1. CASE Fatal \/ Wild \/ GcWild \/ Missing
  BY <1>1, Stopped DEF Fatal, Wild, GcWild, Missing, Running
<1>2. CASE Sub \/ Mul
  BY <1>2, ArithmeticKeeps DEF Sub, Mul
<1>3. CASE Halt \/ Const \/ Add \/ Div \/ Compare \/ JmpIfFalse \/ Jmp
  BY <1>3, HaltKeeps, ConstKeeps, AddKeeps, DivKeeps, CompareKeeps, JmpIfFalseKeeps, JmpKeeps
<1>4. CASE GetGlobal \/ SetGlobal \/ Pop \/ GetLocal \/ SetLocal \/ ScopeExit
  BY <1>4, GetGlobalKeeps, SetGlobalKeeps, PopKeeps, GetLocalKeeps, SetLocalKeeps, ScopeExitKeeps
<1>5. CASE CallNative \/ Call \/ Return \/ GetCell \/ SetCell \/ LoadCell \/ MakeFunction
  BY <1>5, CallNativeKeeps, CallKeeps, ReturnKeeps, GetCellKeeps, SetCellKeeps, LoadCellKeeps,
     MakeFunctionKeeps
<1>6. CASE New \/ GetProp \/ SetProp
  BY <1>6, NewKeeps, GetPropKeeps, SetPropKeeps
<1> QED BY <1>1, <1>2, <1>3, <1>4, <1>5, <1>6 DEF Eval

LEMMA IdleIInv == Idle => IInv
<1> SUFFICES ASSUME Idle PROVE IInv
  OBVIOUS
<1>1. StackInv /\ FrameInv
  BY EmptySeq, VMAssumption DEF Idle, StackInv, FrameInv, AllValues
<1>2. MemoryOK /\ SpInv /\ BpInv /\ IpInv /\ FnInv /\ StatusInv
  BY VMAssumption DEF Idle, SpInv, BpInv, IpInv, FnInv, StatusInv
<1> QED BY <1>1, <1>2 DEF IInv

LEMMA StutterKeeps == ASSUME IInv, UNCHANGED machineVars PROVE IInv'
<1>1. MemoryOK' /\ Grows(heap, heap')
  BY SameMemory DEF machineVars
<1>2. StackInv' /\ SpInv' /\ FrameInv'
  BY <1>1, SameStack, SameFrames DEF machineVars
<1>3. FnInv' /\ BpInv' /\ IpInv' /\ StatusInv'
  BY DEF machineVars, memory, IInv, FnInv, BpInv, IpInv, StatusInv
<1> QED BY <1>1, <1>2, <1>3 DEF IInv

LEMMA Inductive == MachineSpec => []IInv
<1>1. IInv /\ [MachineNext]_machineVars => IInv'
  BY LoadKeeps, ListedKeeps, EvalKeeps, StutterKeeps DEF MachineNext
<1> QED BY IdleIInv, <1>1, PTL DEF MachineSpec

(* Whatever images the machine is given, and whatever their bytes are:     *)
(* every object keeps the fields of its kind, and every reference on the   *)
(* heap, in a global, on the stack and in a frame is to an object of the   *)
(* kind that the code casts it to.                                         *)
THEOREM TypeCorrect == MachineSpec => []TypeOK
<1>1. IInv => TypeOK
  BY DEF IInv, StackInv, SpInv, BpInv, IpInv, FnInv, FrameInv, StatusInv, TypeOK
<1> QED BY Inductive, <1>1, PTL

(* Whatever images the machine is given, and whatever their bytes are: the *)
(* pointers and the base of every frame stay in the array of the stack,    *)
(* and nothing is written outside of it, before something undefined has    *)
(* been done.                                                              *)
THEOREM StackSafe == MachineSpec => []StackInArray
<1>1. IInv => StackInArray
  BY VMAssumption DEF IInv, StackInv, SpInv, BpInv, FrameInv, StackInArray
<1> QED BY Inductive, <1>1, PTL

=============================================================================
