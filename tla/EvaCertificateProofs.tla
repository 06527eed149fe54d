------------------------- MODULE EvaCertificateProofs --------------------------
(***************************************************************************)
(* A machine whose images have layouts keeps to its frames.                *)
(*                                                                         *)
(* The invariant says of the running function, and of every function that  *)
(* waits for a call to return, that the layout of its code is right about  *)
(* its frame: of the one that runs at ip and up to sp, of the others where *)
(* they are to go on and up to what the callee will leave.  That a frame   *)
(* of the globals' code is at the bottom, and only there, is what makes    *)
(* RETURN find a frame and HALT leave none.                                *)
(***************************************************************************)
EXTENDS EvaCertificate, EvaVMProofs

CodeOf(h, f) == h[h[f].co]

(* Layout says of f's code at offset i what is there from b up to s. *)
Fits(h, f, i, b, s) ==
    LET lay == Layout(CodeOf(h, f)) IN
    /\ i \in DOMAIN lay
    /\ b + lay[i].depth <= s
    /\ lay[i].exact => s = b + lay[i].depth

AllFit(h) == \A a \in DOMAIN h : h[a].kind = "CODE" => IsLayout(h[a], Layout(h[a]))

(* Where the frame above the k-th one begins. *)
NextBase(frames, base, k) == IF k = Len(frames) THEN base ELSE frames[k + 1].bp

Waits(h, frames, base, k) ==
    /\ Fits(h, frames[k].fn, frames[k].ra, frames[k].bp, NextBase(frames, base, k) + 1)
    /\ EntryDepth(CodeOf(h, frames[k].fn)) = 0 <=> k = 1

Balanced ==
    /\ AllFit(heap)
    /\ Fits(heap, fn, ip, bp, sp)
    /\ EntryDepth(CodeOf(heap, fn)) = 0 <=> callStack = <<>>
    /\ \A k \in DOMAIN callStack : Waits(heap, callStack, bp, k)

FramesInv ==
    /\ status = "running" => Balanced
    /\ status \in {"idle", "compiled", "halted"} => callStack = <<>>
    /\ status = "compiled" => ip = 0 /\ sp = 0 /\ bp = 0

-----------------------------------------------------------------------------
(* Code stays as it is *)

KeepsCode(h, g) ==
    /\ \A a \in DOMAIN h :
         /\ a \in DOMAIN g
         /\ h[a].kind = "CODE" => g[a] = h[a]
         /\ h[a].kind = "FUNCTION" => g[a].co = h[a].co
    /\ \A a \in DOMAIN g : g[a].kind = "CODE" => a \in DOMAIN h /\ h[a].kind = "CODE"

LEMMA KeepsItself == ASSUME NEW h PROVE KeepsCode(h, h)
BY DEF KeepsCode

LEMMA KeepsOn ==
    ASSUME NEW h, NEW g, NEW f, KeepsCode(h, g), KeepsCode(g, f), Grows(h, g)
    PROVE  KeepsCode(h, f)
BY DEF KeepsCode, Grows

LEMMA AppendKeepsCode ==
    ASSUME NEW h, IsSeq(h), NEW o, o.kind # "CODE" PROVE KeepsCode(h, Append(h, o))
<1> DEFINE g == Append(h, o)
<1>1. /\ DOMAIN h = 1..Len(h) /\ DOMAIN g = 1..Len(h) + 1 /\ Len(h) \in Nat
      /\ \A i \in 1..Len(h) : g[i] = h[i]
      /\ g[Len(h) + 1] = o
  BY AppendIsSeq
<1> HIDE DEF g
<1>2. KeepsCode(h, g)
  BY <1>1 DEF KeepsCode
<1> QED BY <1>2 DEF g

LEMMA UpdateKeepsCode ==
    ASSUME NEW h, IsSeq(h), NEW a \in DOMAIN h, NEW o, o.kind = h[a].kind, o.kind # "CODE",
           o.kind = "FUNCTION" => o.co = h[a].co
    PROVE  KeepsCode(h, [h EXCEPT ![a] = o])
<1> DEFINE g == [h EXCEPT ![a] = o]
<1>1. DOMAIN g = DOMAIN h /\ g[a] = o /\ \A b \in DOMAIN h : b # a => g[b] = h[b]
  BY ExceptIsSeq
<1> HIDE DEF g
<1>2. KeepsCode(h, g)
  BY <1>1 DEF KeepsCode
<1> QED BY <1>2 DEF g

LEMMA SameCode ==
    ASSUME NEW h, HeapOK(h), NEW g, KeepsCode(h, g), NEW f, Refers(h, f, "FUNCTION")
    PROVE  CodeOf(g, f) = CodeOf(h, f)
<1>1. Refers(h, h[f].co, "CODE")
  BY ObjectOfHeap DEF FunctionOK
<1>2. g[f].co = h[f].co /\ g[h[f].co] = h[h[f].co]
  BY <1>1 DEF KeepsCode, Refers
<1> QED BY <1>2 DEF CodeOf

LEMMA StillFit ==
    ASSUME NEW h, NEW g, KeepsCode(h, g), AllFit(h) PROVE AllFit(g)
BY DEF KeepsCode, AllFit

LEMMA StillFits ==
    ASSUME NEW h, HeapOK(h), NEW g, KeepsCode(h, g), NEW f, Refers(h, f, "FUNCTION"),
           NEW i, NEW b, NEW s, Fits(h, f, i, b, s)
    PROVE  Fits(g, f, i, b, s)
BY SameCode DEF Fits

LEMMA StillWaits ==
    ASSUME IInv, NEW g, KeepsCode(heap, g), NEW k \in DOMAIN callStack, NEW b,
           Waits(heap, callStack, b, k)
    PROVE  Waits(g, callStack, b, k)
<1>1. HeapOK(heap) /\ Refers(heap, callStack[k].fn, "FUNCTION")
  BY DEF IInv, MemoryOK, FrameInv, FrameOK
<1>2. CodeOf(g, callStack[k].fn) = CodeOf(heap, callStack[k].fn)
  BY <1>1, SameCode
<1> QED BY <1>1, <1>2, StillFits DEF Waits

-----------------------------------------------------------------------------
(* The instruction that the layout lets be carried out *)

LEMMA Running_ ==
    ASSUME IInv, Balanced, status = "running"
    PROVE  LET co == CodeOf(heap, fn)
               lay == Layout(co)
           IN /\ HeapOK(heap) /\ Refers(heap, fn, "FUNCTION") /\ Refers(heap, heap[fn].co, "CODE")
              /\ co = heap[heap[fn].co] /\ IsLayout(co, lay)
              /\ ip \in DOMAIN lay /\ ip \in Nat /\ lay[ip].depth \in Nat
              /\ Carried(co, lay, ip)
              /\ bp + lay[ip].depth <= sp
              /\ lay[ip].exact => sp = bp + lay[ip].depth
              /\ sp \in Nat /\ bp \in Nat
<1> DEFINE co == CodeOf(heap, fn)
           lay == Layout(co)
<1>1. HeapOK(heap) /\ Refers(heap, fn, "FUNCTION")
  BY DEF IInv, MemoryOK, FnInv
<1>2. Refers(heap, heap[fn].co, "CODE")
  BY <1>1, ObjectOfHeap DEF FunctionOK
<1>3. IsLayout(co, lay)
  BY <1>2 DEF Balanced, AllFit, CodeOf, Refers
<1>4. ip \in DOMAIN lay /\ bp + lay[ip].depth <= sp /\ (lay[ip].exact => sp = bp + lay[ip].depth)
  BY DEF Balanced, Fits
<1>5. sp \in Nat /\ bp \in Nat
  BY VMAssumption DEF IInv, SpInv, BpInv
<1> HIDE DEF lay
<1>6. ip \in Nat /\ lay[ip].depth \in Nat /\ Carried(co, lay, ip)
  BY <1>3, <1>4 DEF IsLayout
<1>7. co = heap[heap[fn].co]
  BY DEF CodeOf
<1> QED BY <1>1, <1>2, <1>3, <1>4, <1>5, <1>6, <1>7 DEF lay

LEMMA BytesAre ==
    ASSUME IInv
    PROVE  LET co == CodeOf(heap, fn) IN
           /\ Byte(0) = OpCodeAt(co, ip) /\ Byte(1) = OperandAt(co, ip)
           /\ Short(1) = TargetAt(co, ip)
           /\ HasInstruction <=> Entire(co, ip)
<1>1. ip \in Nat
  BY DEF IInv, IpInv
<1>2. Code = CodeOf(heap, fn).code
  BY DEF Code, CodeOf
<1>3. ip + 1 + 0 = ip + 1 /\ ip + 1 + 1 = ip + 2 /\ ip + 1 + (1 + 1) = ip + 3
  BY <1>1
<1>4. /\ Byte(0) = CodeOf(heap, fn).code[ip + 1] /\ Byte(1) = CodeOf(heap, fn).code[ip + 2]
      /\ Byte(1 + 1) = CodeOf(heap, fn).code[ip + 3]
  BY <1>2, <1>3 DEF Byte
<1> QED BY <1>2, <1>4 DEF OpCodeAt, OperandAt, TargetAt, Short, HasInstruction, Entire

(* The instructions after which the next one in the code follows. *)
Straight ==
    {OP_CONST, OP_ADD, OP_SUB, OP_MUL, OP_DIV, OP_COMPARE, OP_GET_GLOBAL, OP_SET_GLOBAL, OP_POP,
     OP_GET_LOCAL, OP_SET_LOCAL, OP_SCOPE_EXIT, OP_CALL, OP_GET_CELL, OP_SET_CELL, OP_LOAD_CELL,
     OP_MAKE_FUNCTION, OP_NEW, OP_GET_PROP, OP_SET_PROP}

LEMMA StraightOn ==
    ASSUME NEW co, NEW i, OpCodeAt(co, i) \in Straight
    PROVE  Successors(co, i) = {i + 1 + Operands(OpCodeAt(co, i))}
BY DEF Successors, Straight, OP_HALT, OP_RETURN, OP_JMP, OP_JMP_IF_FALSE, OP_CONST, OP_ADD, OP_SUB,
       OP_MUL, OP_DIV, OP_COMPARE, OP_GET_GLOBAL, OP_SET_GLOBAL, OP_POP, OP_GET_LOCAL, OP_SET_LOCAL,
       OP_SCOPE_EXIT, OP_CALL, OP_GET_CELL, OP_SET_CELL, OP_LOAD_CELL, OP_MAKE_FUNCTION, OP_NEW,
       OP_GET_PROP, OP_SET_PROP

LEMMA TakesTwo ==
    ASSUME NEW op \in {OP_ADD, OP_SUB, OP_MUL, OP_DIV, OP_COMPARE, OP_SET_PROP}, NEW n
    PROVE  Takes(op, n) = 2 /\ Leaves(op) = 1 /\ op \in Straight
BY DEF Takes, Leaves, Straight, OP_HALT, OP_RETURN, OP_CONST, OP_ADD, OP_SUB, OP_MUL, OP_DIV, OP_COMPARE,
       OP_JMP_IF_FALSE, OP_JMP, OP_GET_GLOBAL, OP_SET_GLOBAL, OP_POP, OP_GET_LOCAL, OP_SET_LOCAL,
       OP_SCOPE_EXIT, OP_CALL, OP_GET_CELL, OP_SET_CELL, OP_LOAD_CELL, OP_MAKE_FUNCTION, OP_NEW,
       OP_GET_PROP, OP_SET_PROP

LEMMA TakesMore ==
    ASSUME NEW op \in {OP_SCOPE_EXIT, OP_CALL, OP_MAKE_FUNCTION}, NEW n
    PROVE  Takes(op, n) = n + 1 /\ Leaves(op) = 1 /\ op \in Straight
BY DEF Takes, Leaves, Straight, OP_HALT, OP_RETURN, OP_CONST, OP_ADD, OP_SUB, OP_MUL, OP_DIV, OP_COMPARE,
       OP_JMP_IF_FALSE, OP_JMP, OP_GET_GLOBAL, OP_SET_GLOBAL, OP_POP, OP_GET_LOCAL, OP_SET_LOCAL,
       OP_SCOPE_EXIT, OP_CALL, OP_GET_CELL, OP_SET_CELL, OP_LOAD_CELL, OP_MAKE_FUNCTION, OP_NEW,
       OP_GET_PROP, OP_SET_PROP

LEMMA TakesNone ==
    ASSUME NEW op \in {OP_CONST, OP_GET_GLOBAL, OP_GET_LOCAL, OP_GET_CELL, OP_LOAD_CELL}, NEW n
    PROVE  Takes(op, n) = 0 /\ Leaves(op) = 1 /\ op \in Straight
BY DEF Takes, Leaves, Straight, OP_HALT, OP_RETURN, OP_CONST, OP_ADD, OP_SUB, OP_MUL, OP_DIV, OP_COMPARE,
       OP_JMP_IF_FALSE, OP_JMP, OP_GET_GLOBAL, OP_SET_GLOBAL, OP_POP, OP_GET_LOCAL, OP_SET_LOCAL,
       OP_SCOPE_EXIT, OP_CALL, OP_GET_CELL, OP_SET_CELL, OP_LOAD_CELL, OP_MAKE_FUNCTION, OP_NEW,
       OP_GET_PROP, OP_SET_PROP

LEMMA TakesOne ==
    ASSUME NEW op \in {OP_SET_GLOBAL, OP_SET_LOCAL, OP_SET_CELL, OP_GET_PROP}, NEW n
    PROVE  Takes(op, n) = 1 /\ Leaves(op) = 1 /\ op \in Straight
BY DEF Takes, Leaves, Straight, OP_HALT, OP_RETURN, OP_CONST, OP_ADD, OP_SUB, OP_MUL, OP_DIV, OP_COMPARE,
       OP_JMP_IF_FALSE, OP_JMP, OP_GET_GLOBAL, OP_SET_GLOBAL, OP_POP, OP_GET_LOCAL, OP_SET_LOCAL,
       OP_SCOPE_EXIT, OP_CALL, OP_GET_CELL, OP_SET_CELL, OP_LOAD_CELL, OP_MAKE_FUNCTION, OP_NEW,
       OP_GET_PROP, OP_SET_PROP

LEMMA TakesOther ==
    ASSUME NEW n
    PROVE  /\ Takes(OP_POP, n) = 1 /\ Leaves(OP_POP) = 0 /\ OP_POP \in Straight
           /\ Takes(OP_NEW, n) = 1 /\ Leaves(OP_NEW) = 2 /\ OP_NEW \in Straight
           /\ Takes(OP_JMP, n) = 0 /\ Leaves(OP_JMP) = 0
           /\ Takes(OP_JMP_IF_FALSE, n) = 1 /\ Leaves(OP_JMP_IF_FALSE) = 0
BY DEF Takes, Leaves, Straight, OP_HALT, OP_RETURN, OP_CONST, OP_ADD, OP_SUB, OP_MUL, OP_DIV, OP_COMPARE,
       OP_JMP_IF_FALSE, OP_JMP, OP_GET_GLOBAL, OP_SET_GLOBAL, OP_POP, OP_GET_LOCAL, OP_SET_LOCAL,
       OP_SCOPE_EXIT, OP_CALL, OP_GET_CELL, OP_SET_CELL, OP_LOAD_CELL, OP_MAKE_FUNCTION, OP_NEW,
       OP_GET_PROP, OP_SET_PROP

LEMMA OperandByte ==
    ASSUME IInv, CodeOK(heap, heap[heap[fn].co]), HasInstruction, Operands(Byte(0)) = 1
    PROVE  Byte(1) \in 0..255
<1>1. Code \in Seq(0..255) /\ ip + 1 < Len(Code) /\ ip \in Nat
  BY DEF CodeOK, Code, HasInstruction, IInv, IpInv
<1>2. ip + 1 + 1 \in 1..Len(Code)
  BY <1>1
<1> QED BY <1>1, <1>2, ElementOf DEF Byte

LEMMA TakesSome ==
    ASSUME IInv, CodeOK(heap, heap[heap[fn].co]), HasInstruction
    PROVE  Takes(Byte(0), Byte(1)) \in Nat
<1>1. CASE Byte(0) \in {OP_SCOPE_EXIT, OP_CALL, OP_MAKE_FUNCTION}
  <2>1. Byte(1) \in 0..255
    BY <1>1, OneOperand, OperandByte
  <2>2. ASSUME NEW k \in 0..255 PROVE k + 1 \in Nat
    OBVIOUS
  <2> QED BY <1>1, <2>1, <2>2, TakesMore
<1>2. CASE Byte(0) \notin {OP_SCOPE_EXIT, OP_CALL, OP_MAKE_FUNCTION}
  <2> DEFINE op == Byte(0)
             n == Byte(1)
  <2> HIDE DEF op, n
  <2>1. ASSUME op \notin {OP_SCOPE_EXIT, OP_CALL, OP_MAKE_FUNCTION} PROVE Takes(op, n) \in {0, 1, 2}
    BY <2>1 DEF Takes
  <2> QED BY <1>2, <2>1 DEF op, n
<1> QED BY <1>1, <1>2

-----------------------------------------------------------------------------
(* A step within the function that is running *)

(* What follows the instruction is where the layout has it. *)
LEMMA Successor ==
    ASSUME IInv, Balanced, status = "running", NEW j \in Successors(CodeOf(heap, fn), ip),
           NEW top \in Nat, NEW taken \in Nat, NEW left \in Nat, top = sp + left - taken,
           Takes(Byte(0), Byte(1)) = taken, Leaves(Byte(0)) = left
    PROVE  Fits(heap, fn, j, bp, top)
<1> DEFINE co == CodeOf(heap, fn)
           lay == Layout(co)
<1>1. /\ Carried(co, lay, ip) /\ IsLayout(co, lay)
      /\ lay[ip].depth \in Nat /\ sp \in Nat /\ bp \in Nat
      /\ bp + lay[ip].depth <= sp
      /\ lay[ip].exact => sp = bp + lay[ip].depth
  BY Running_
<1>2. Byte(0) = OpCodeAt(co, ip) /\ Byte(1) = OperandAt(co, ip)
  BY BytesAre
<1> HIDE DEF co, lay
<1>3. After(co, lay, ip) = lay[ip].depth + left - taken
  BY <1>2 DEF After
<1>4. /\ j \in DOMAIN lay /\ lay[j].depth <= After(co, lay, ip)
      /\ lay[j].exact => lay[ip].exact /\ lay[j].depth = After(co, lay, ip)
  BY <1>1 DEF Carried, co
<1>5. lay[j].depth \in Nat
  BY <1>1, <1>4 DEF IsLayout
<1>6. bp + lay[j].depth <= top /\ (lay[j].exact => top = bp + lay[j].depth)
  BY <1>1, <1>3, <1>4, <1>5
<1> QED BY <1>4, <1>6 DEF Fits, co, lay

LEMMA SameFrame ==
    ASSUME IInv, Balanced, status = "running", KeepsCode(heap, heap'),
           fn' = fn, bp' = bp, callStack' = callStack, Fits(heap, fn, ip', bp, sp')
    PROVE  Balanced'
<1>1. HeapOK(heap) /\ Refers(heap, fn, "FUNCTION")
  BY Running_
<1>2. AllFit(heap')
  BY StillFit DEF Balanced
<1>3. Fits(heap', fn', ip', bp', sp')
  BY <1>1, StillFits
<1>4. EntryDepth(CodeOf(heap', fn')) = 0 <=> callStack' = <<>>
  BY <1>1, SameCode DEF Balanced
<1>5. ASSUME NEW k \in DOMAIN callStack' PROVE Waits(heap', callStack', bp', k)
  BY <1>5, StillWaits DEF Balanced
<1> QED BY <1>2, <1>3, <1>4, <1>5 DEF Balanced

LEMMA StraightKeeps ==
    ASSUME IInv, Balanced, NEW op \in Straight, Step(op), KeepsCode(heap, heap'),
           NEW taken \in Nat, NEW left \in Nat, sp' = sp + left - taken, sp' \in Nat,
           Takes(op, Byte(1)) = taken, Leaves(op) = left
    PROVE  Balanced'
<1>1. Byte(0) = op /\ status = "running" /\ ip' = ip + 1 + Operands(op)
      /\ fn' = fn /\ bp' = bp /\ callStack' = callStack
  BY Decoded DEF Step
<1>2. ip' \in Successors(CodeOf(heap, fn), ip)
  BY <1>1, BytesAre, StraightOn
<1>3. Fits(heap, fn, ip', bp, sp')
  BY <1>1, <1>2, Successor
<1> QED BY <1>1, <1>3, SameFrame

LEMMA Replaced ==
    ASSUME IInv, NEW n \in Nat, n <= sp
    PROVE  /\ Replace(n, <<>>) => sp' = sp + 0 - n /\ sp' \in Nat
           /\ \A v : Replace(n, <<v>>) => sp' = sp + 1 - n /\ sp' \in Nat
           /\ \A v, w : Replace(n, <<v, w>>) => sp' = sp + 2 - n /\ sp' \in Nat
<1>1. sp \in Nat
  BY VMAssumption DEF IInv, SpInv
<1>2. ASSUME Replace(n, <<>>) PROVE sp' = sp - n
  BY <1>1, <1>2, EmptySeq DEF Replace
<1>3. ASSUME NEW v, Replace(n, <<v>>) PROVE sp' = sp - n + 1
  BY <1>3, SingleSeq DEF Replace
<1>4. ASSUME NEW v, NEW w, Replace(n, <<v, w>>) PROVE sp' = sp - n + 2
  BY <1>4, PairSeq DEF Replace
<1> QED BY <1>1, <1>2, <1>3, <1>4

LEMMA ReplaceKeeps ==
    ASSUME IInv, Balanced, NEW op \in Straight, Step(op), KeepsCode(heap, heap'),
           NEW taken \in Nat, taken <= sp, Takes(op, Byte(1)) = taken,
           \/ \E v : Replace(taken, <<v>>) /\ Leaves(op) = 1
           \/ \E v, w : Replace(taken, <<v, w>>) /\ Leaves(op) = 2
           \/ Replace(taken, <<>>) /\ Leaves(op) = 0
    PROVE  Balanced'
<1>1. CASE \E v : Replace(taken, <<v>>) /\ Leaves(op) = 1
  <2>1. sp' = sp + 1 - taken /\ sp' \in Nat
    BY <1>1, Replaced
  <2> QED BY <1>1, <2>1, StraightKeeps
<1>2. CASE \E v, w : Replace(taken, <<v, w>>) /\ Leaves(op) = 2
  <2>1. sp' = sp + 2 - taken /\ sp' \in Nat
    BY <1>2, Replaced
  <2> QED BY <1>2, <2>1, StraightKeeps
<1>3. CASE Replace(taken, <<>>) /\ Leaves(op) = 0
  <2>1. sp' = sp + 0 - taken /\ sp' \in Nat
    BY <1>3, Replaced
  <2> QED BY <1>3, <2>1, StraightKeeps
<1> QED BY <1>1, <1>2, <1>3

LEMMA SameHeap == ASSUME UNCHANGED memory PROVE KeepsCode(heap, heap')
<1>1. heap' = heap
  BY DEF memory
<1> QED BY <1>1, KeepsItself

LEMMA PushBalanced ==
    ASSUME IInv, Balanced, NEW op \in {OP_CONST, OP_GET_GLOBAL, OP_GET_LOCAL, OP_GET_CELL, OP_LOAD_CELL},
           NEW v, Push(op, v)
    PROVE  Balanced'
<1>1. Step(op) /\ Replace(0, <<v>>) /\ KeepsCode(heap, heap')
  BY SameHeap DEF Push
<1>2. 0 \in Nat /\ 0 <= sp
  BY VMAssumption DEF IInv, SpInv
<1> QED BY <1>1, <1>2, TakesNone, ReplaceKeeps

(* SET_GLOBAL, SET_LOCAL and SET_CELL write what is on top, and leave it.  *)
LEMMA SetBalanced ==
    ASSUME IInv, Balanced, NEW op \in {OP_SET_GLOBAL, OP_SET_LOCAL, OP_SET_CELL},
           Step(op), sp' = sp, KeepsCode(heap, heap')
    PROVE  Balanced'
<1>1. Takes(op, Byte(1)) = 1 /\ Leaves(op) = 1 /\ op \in Straight
  BY TakesOne
<1>2. sp' = sp + 1 - 1 /\ sp' \in Nat /\ 1 \in Nat
  BY VMAssumption DEF IInv, SpInv
<1> QED BY <1>1, <1>2, StraightKeeps

LEMMA PairBalanced ==
    ASSUME IInv, Balanced, NEW op \in {OP_ADD, OP_SUB, OP_MUL, OP_DIV, OP_COMPARE, OP_SET_PROP},
           Step(op), KeepsCode(heap, heap'), NEW v, Replace(2, <<v>>)
    PROVE  Balanced'
<1>1. 2 \in Nat /\ 2 <= sp
  BY Enough, NeedsTwo DEF Step
<1> QED BY <1>1, TakesTwo, ReplaceKeeps

LEMMA AddBalanced == ASSUME IInv, Balanced, Add, Orderly PROVE Balanced'
<1>1. Step(OP_ADD) /\ Byte(0) = OP_ADD
  BY Decoded DEF Add, Step
<1>2. Numbers \/ Strings
  BY <1>1 DEF Orderly
<1>3. CASE Numbers /\ Replace(2, <<NUMBER(Payload(peek(1)) + Payload(peek(0)))>>) /\ UNCHANGED memory
  BY <1>1, <1>3, SameHeap, PairBalanced
<1>4. CASE /\ MEM(OP_ADD, Append(heap, StringObject(Chars(peek(1)) \o Chars(peek(0)))))
           /\ Replace(2, <<OBJECT(Len(heap'))>>)
  <2> DEFINE o == StringObject(Chars(peek(1)) \o Chars(peek(0)))
  <2>1. heap' = Append(heap, o)
    BY <1>4 DEF MEM
  <2>2. o.kind # "CODE"
    BY DEF StringObject
  <2> HIDE DEF o
  <2>3. KeepsCode(heap, heap')
    BY <2>1, <2>2, AppendKeepsCode DEF IInv, MemoryOK, HeapOK
  <2> QED BY <1>1, <1>4, <2>3, PairBalanced
<1> QED BY <1>2, <1>3, <1>4 DEF Add

LEMMA ArithmeticBalanced ==
    ASSUME IInv, Balanced, NEW op \in {OP_SUB, OP_MUL, OP_DIV}, NEW n, Arithmetic(op, n) PROVE Balanced'
BY SameHeap, PairBalanced DEF Arithmetic

LEMMA CompareBalanced == ASSUME IInv, Balanced, Compare, Orderly PROVE Balanced'
<1>1. Step(OP_COMPARE) /\ Byte(0) = OP_COMPARE /\ KeepsCode(heap, heap')
  BY Decoded, SameHeap DEF Compare, Step
<1>2. Numbers \/ Strings
  BY <1>1 DEF Orderly
<1>3. ASSUME NEW b, Replace(2, <<BOOLEAN_(b)>>) PROVE Balanced'
  BY <1>1, <1>3, PairBalanced
<1> QED BY <1>2, <1>3 DEF Compare

LEMMA PopBalanced == ASSUME IInv, Balanced, Pop PROVE Balanced'
<1>1. Step(OP_POP) /\ KeepsCode(heap, heap') /\ Replace(1, <<>>)
  BY SameHeap DEF Pop
<1>2. 1 \in Nat /\ 1 <= sp
  BY <1>1, Enough, NeedsOne DEF Step
<1> QED BY <1>1, <1>2, TakesOther, ReplaceKeeps

(* SCOPE_EXIT, MAKE_FUNCTION and the call of a native function. *)
LEMMA ManyBalanced ==
    ASSUME IInv, Balanced, NEW op \in {OP_SCOPE_EXIT, OP_CALL, OP_MAKE_FUNCTION}, Step(op),
           KeepsCode(heap, heap'), NEW v, Replace(Byte(1) + 1, <<v>>), Byte(1) + 1 <= sp
    PROVE  Balanced'
<1>1. Byte(1) \in 0..255
  BY Operand, OneOperand DEF Step
<1> DEFINE n == Byte(1)
<1>2. n + 1 \in Nat
  <2> HIDE DEF n
  <2> QED BY <1>1 DEF n
<1> QED BY <1>2, TakesMore, ReplaceKeeps

LEMMA OperandNext == ASSUME NEW k \in 0..255 PROVE 1 + k = k + 1 /\ k \in Nat
OBVIOUS

LEMMA ScopeExitBalanced == ASSUME IInv, Balanced, ScopeExit PROVE Balanced'
<1>1. Step(OP_SCOPE_EXIT) /\ KeepsCode(heap, heap') /\ Replace(1 + Byte(1), <<peek(0)>>)
  BY SameHeap DEF ScopeExit
<1>2. Byte(0) = OP_SCOPE_EXIT /\ ~Undefined /\ Byte(1) \in 0..255 /\ sp \in Nat
  BY <1>1, Decoded, Operand, OneOperand, VMAssumption DEF Step, IInv, SpInv
<1>3. ~(sp - 1 < Byte(1))
  BY <1>2 DEF Undefined
<1>4. ASSUME NEW k \in 0..255, ~(sp - 1 < k) PROVE k + 1 <= sp
  BY <1>2, <1>4
<1>5. 1 + Byte(1) = Byte(1) + 1 /\ Byte(1) + 1 <= sp
  BY <1>2, <1>3, <1>4, OperandNext
<1> QED BY <1>1, <1>5, ManyBalanced

LEMMA CallNativeBalanced == ASSUME IInv, Balanced, CallNative PROVE Balanced'
<1>1. Step(OP_CALL) /\ KeepsCode(heap, heap')
      /\ Replace(Byte(1) + 1, <<NUMBER(Native(heap[Payload(Callee)].name))>>)
  BY SameHeap DEF CallNative
<1>2. Byte(0) = OP_CALL /\ ~Undefined /\ Byte(1) \in 0..255 /\ sp \in Nat
  BY <1>1, Decoded, Operand, OneOperand, VMAssumption DEF Step, IInv, SpInv
<1>3. ~(sp <= Byte(1))
  BY <1>2 DEF Undefined
<1>4. ASSUME NEW k \in 0..255, ~(sp <= k) PROVE k + 1 <= sp
  BY <1>2, <1>4
<1> QED BY <1>1, <1>2, <1>3, <1>4, ManyBalanced

LEMMA MakeFunctionBalanced == ASSUME IInv, Balanced, MakeFunction PROVE Balanced'
<1> DEFINE made == [FunctionObject(Payload(peek(0))) EXCEPT !.cells = [k \in 1..Byte(1) |-> Captured(k)]]
<1>1. /\ Step(OP_MAKE_FUNCTION) /\ heap' = Append(heap, made)
      /\ Replace(Byte(1) + 1, <<OBJECT(Len(heap'))>>)
  BY DEF MakeFunction, MEM
<1>2. made.kind # "CODE"
  BY DEF FunctionObject
<1> HIDE DEF made
<1>3. KeepsCode(heap, heap')
  BY <1>1, <1>2, AppendKeepsCode DEF IInv, MemoryOK, HeapOK
<1>4. Byte(1) \in 0..255
  BY <1>1, Operand, OneOperand DEF Step
<1>5. 1 + Byte(1) \in Nat /\ 1 + Byte(1) = Byte(1) + 1
  BY <1>4, OperandNext
<1>6. Byte(1) + 1 <= sp
  BY <1>1, <1>5, Enough, NeedsCells DEF Step
<1> QED BY <1>1, <1>3, <1>6, ManyBalanced

LEMMA NewBalanced == ASSUME IInv, Balanced, New PROVE Balanced'
<1> DEFINE made == InstanceObject(Payload(peek(0)))
<1>1. /\ Step(OP_NEW) /\ heap' = Append(heap, made)
      /\ Replace(1, <<classProp(heap, Payload(peek(0)), "constructor"), OBJECT(Len(heap'))>>)
  BY DEF New, MEM
<1>2. made.kind # "CODE"
  BY DEF InstanceObject
<1> HIDE DEF made
<1>3. KeepsCode(heap, heap')
  BY <1>1, <1>2, AppendKeepsCode DEF IInv, MemoryOK, HeapOK
<1>4. 1 \in Nat /\ 1 <= sp
  BY <1>1, Enough, NeedsOne DEF Step
<1> QED BY <1>1, <1>3, <1>4, TakesOther, ReplaceKeeps

LEMMA GetPropBalanced == ASSUME IInv, Balanced, GetProp PROVE Balanced'
<1>1. Step(OP_GET_PROP) /\ KeepsCode(heap, heap')
      /\ Replace(1, <<getProp(heap, Payload(peek(0)), Chars(Constant(Byte(1))))>>)
  BY SameHeap DEF GetProp
<1>2. 1 \in Nat /\ 1 <= sp
  BY <1>1, Enough, NeedsOne DEF Step
<1> QED BY <1>1, <1>2, TakesOne, ReplaceKeeps

LEMMA SetPropBalanced == ASSUME IInv, Balanced, SetProp PROVE Balanced'
<1> DEFINE a == Payload(peek(0))
           prop == Chars(Constant(Byte(1)))
           properties == [p \in DOMAIN heap[a].properties \cup {prop} |->
                            IF p = prop THEN peek(1) ELSE heap[a].properties[p]]
           o == [heap[a] EXCEPT !.properties = properties]
<1>1. Step(OP_SET_PROP) /\ Replace(2, <<peek(1)>>) /\ heap' = [heap EXCEPT ![a].properties = properties]
  BY DEF SetProp
<1>2. Byte(0) = OP_SET_PROP /\ ~Undefined
  BY <1>1, Decoded DEF Step
<1>3. Refers(heap, a, "INSTANCE") /\ HeapOK(heap)
  BY <1>2, PeekIsValue, ObjectRefers DEF Undefined, Is, IInv, MemoryOK
<1>4. heap[a] = [kind |-> "INSTANCE", cls |-> heap[a].cls, properties |-> heap[a].properties]
  BY <1>3, ObjectOfHeap
<1> HIDE DEF properties
<1>5. heap' = [heap EXCEPT ![a] = o]
  BY <1>1
<1>6. o.kind = "INSTANCE" /\ heap[a].kind = "INSTANCE"
  BY <1>4
<1> HIDE DEF o, a
<1>7. KeepsCode(heap, heap')
  BY <1>3, <1>5, <1>6, UpdateKeepsCode DEF HeapOK, Refers
<1> QED BY <1>1, <1>7, PairBalanced

LEMMA SetCellBalanced == ASSUME IInv, Balanced, SetCell PROVE Balanced'
<1>1. Step(OP_SET_CELL) /\ sp' = sp
  BY DEF SetCell
<1>2. /\ Byte(0) = OP_SET_CELL /\ ~Undefined /\ Byte(1) \in 0..255 /\ Refers(heap, fn, "FUNCTION")
      /\ HeapOK(heap)
  BY <1>1, Decoded, Operand, OneOperand DEF Step, IInv, MemoryOK
<1>3. CASE heap' = Append([heap EXCEPT ![fn].cells = Append(@, Len(heap) + 1)], CellObject(peek(0)))
  <2> DEFINE o == [heap[fn] EXCEPT !.cells = Append(heap[fn].cells, Len(heap) + 1)]
             h == [heap EXCEPT ![fn] = o]
             cell == CellObject(peek(0))
  <2>1. heap' = Append(h, cell)
    BY <1>3
  <2>2. heap[fn] = [kind |-> "FUNCTION", co |-> heap[fn].co, cells |-> heap[fn].cells]
        /\ IsSeq(heap) /\ fn \in DOMAIN heap
    BY <1>2, ObjectOfHeap DEF FunctionOK, HeapOK, Refers
  <2>3. o.kind = "FUNCTION" /\ heap[fn].kind = "FUNCTION" /\ o.co = heap[fn].co
    BY <2>2
  <2>4. cell.kind # "CODE"
    BY DEF CellObject
  <2> HIDE DEF o, cell
  <2>5. KeepsCode(heap, h)
    BY <2>2, <2>3, UpdateKeepsCode
  <2>6. IsSeq(h) /\ DOMAIN h = DOMAIN heap /\ h[fn] = o /\ \A b \in DOMAIN heap : b # fn => h[b] = heap[b]
    BY <2>2, ExceptIsSeq
  <2> HIDE DEF h
  <2>7. Grows(heap, h)
    BY <2>3, <2>6 DEF Grows
  <2>8. KeepsCode(h, heap')
    BY <2>1, <2>4, <2>6, AppendKeepsCode
  <2>9. KeepsCode(heap, heap')
    BY <2>5, <2>7, <2>8, KeepsOn
  <2> QED BY <1>1, <2>9, SetBalanced
<1>4. CASE Byte(1) < Len(cells) /\ heap' = [heap EXCEPT ![cells[Byte(1) + 1]].value = peek(0)]
  <2> DEFINE a == cells[Byte(1) + 1]
             o == [heap[a] EXCEPT !.value = peek(0)]
  <2>1. ~(Byte(1) >= Len(cells))
    <3>1. ASSUME NEW k \in 0..255, NEW m \in Nat, k < m PROVE ~(k >= m)
      BY <3>1
    <3>2. Len(cells) \in Nat
      BY <1>1, CellsIsSeq, SeqShape DEF Step
    <3> QED BY <1>2, <1>4, <3>1, <3>2
  <2>2. a # Null
    BY <1>2, <1>4 DEF Undefined
  <2>3. Refers(heap, a, "CELL")
    BY <1>1, <1>2, <2>1, <2>2, CellRefers DEF Step
  <2>4. heap[a] = [kind |-> "CELL", value |-> heap[a].value]
    BY <1>2, <2>3, ObjectOfHeap
  <2>5. o.kind = "CELL" /\ heap[a].kind = "CELL"
    BY <2>4
  <2>6. heap' = [heap EXCEPT ![a] = o]
    BY <1>4
  <2> HIDE DEF o, a
  <2>7. KeepsCode(heap, heap')
    BY <1>2, <2>3, <2>5, <2>6, UpdateKeepsCode DEF HeapOK, Refers
  <2> QED BY <1>1, <2>7, SetBalanced
<1> QED BY <1>3, <1>4 DEF SetCell, MEM

LEMMA SetterBalanced == ASSUME IInv, Balanced, SetGlobal \/ SetLocal PROVE Balanced'
<1>1. CASE SetGlobal
  <2>1. Step(OP_SET_GLOBAL) /\ sp' = sp /\ heap' = heap
    BY <1>1 DEF SetGlobal
  <2> QED BY <2>1, KeepsItself, SetBalanced
<1>2. CASE SetLocal
  BY <1>2, SameHeap, SetBalanced DEF SetLocal
<1> QED BY <1>1, <1>2

-----------------------------------------------------------------------------
(* Jumps *)

LEMMA JumpsTo ==
    ASSUME NEW co, NEW i
    PROVE  /\ OpCodeAt(co, i) = OP_JMP => Successors(co, i) = {TargetAt(co, i)}
           /\ OpCodeAt(co, i) = OP_JMP_IF_FALSE => Successors(co, i) = {i + 3, TargetAt(co, i)}
BY DEF Successors, OP_HALT, OP_RETURN, OP_JMP, OP_JMP_IF_FALSE

LEMMA JmpBalanced == ASSUME IInv, Balanced, Jmp PROVE Balanced'
<1>1. Byte(0) = OP_JMP /\ status = "running"
  BY Decoded DEF Jmp
<1>2. ip' = Short(1) /\ fn' = fn /\ bp' = bp /\ sp' = sp /\ callStack' = callStack
      /\ KeepsCode(heap, heap')
  BY SameHeap DEF Jmp
<1>3. ip' \in Successors(CodeOf(heap, fn), ip)
  BY <1>1, <1>2, BytesAre, JumpsTo
<1>4. sp \in Nat /\ 0 \in Nat /\ sp = sp + 0 - 0
  BY VMAssumption DEF IInv, SpInv
<1>5. Fits(heap, fn, ip', bp, sp)
  BY <1>1, <1>3, <1>4, TakesOther, Successor
<1> QED BY <1>1, <1>2, <1>5, SameFrame

LEMMA JmpIfFalseBalanced == ASSUME IInv, Balanced, JmpIfFalse PROVE Balanced'
<1>1. At_(OP_JMP_IF_FALSE) /\ Byte(0) = OP_JMP_IF_FALSE /\ status = "running"
  BY Decoded DEF JmpIfFalse
<1>2. /\ ip' = ip + 3 \/ ip' = Short(1)
      /\ fn' = fn /\ bp' = bp /\ Replace(1, <<>>) /\ callStack' = callStack
      /\ KeepsCode(heap, heap')
  BY SameHeap DEF JmpIfFalse
<1>3. ip' \in Successors(CodeOf(heap, fn), ip)
  BY <1>1, <1>2, BytesAre, JumpsTo
<1>4. 0 \in Nat /\ 1 \in Nat /\ 1 <= sp
  BY <1>1, Enough, NeedsOne
<1>5. sp' = sp + 0 - 1 /\ sp' \in Nat
  BY <1>2, <1>4, Replaced
<1>6. Fits(heap, fn, ip', bp, sp')
  BY <1>1, <1>3, <1>4, <1>5, TakesOther, Successor
<1> QED BY <1>1, <1>2, <1>6, SameFrame

-----------------------------------------------------------------------------
(* Calls and returns *)

LEMMA CallKeepsCode == ASSUME IInv, Call PROVE KeepsCode(heap, heap')
<1> DEFINE f == Payload(Callee)
           o == [heap[f] EXCEPT !.cells = Shrunk(heap[f])]
<1>1. HeapOK(heap) /\ Refers(heap, f, "FUNCTION")
  BY CalleeIsFunction DEF IInv, MemoryOK
<1>2. heap[f] = [kind |-> "FUNCTION", co |-> heap[f].co, cells |-> heap[f].cells]
  BY <1>1, ObjectOfHeap DEF FunctionOK
<1>3. heap' = [heap EXCEPT ![f] = o]
  BY DEF Call
<1>4. o.kind = "FUNCTION" /\ heap[f].kind = "FUNCTION" /\ o.co = heap[f].co
  BY <1>2
<1> HIDE DEF o, f
<1> QED BY <1>1, <1>3, <1>4, UpdateKeepsCode DEF HeapOK, Refers

(* The callee finds its arguments, and only these, in its frame. *)
LEMMA CalleeFits ==
    ASSUME IInv, Balanced, Call, Orderly
    PROVE  /\ Fits(heap, Payload(Callee), 0, sp - Byte(1) - 1, sp)
           /\ EntryDepth(CodeOf(heap, Payload(Callee))) # 0
<1> DEFINE f == Payload(Callee)
           n == Byte(1)
           co == CodeOf(heap, f)
           lay == Layout(co)
<1>1. HeapOK(heap) /\ Refers(heap, f, "FUNCTION") /\ n \in 0..255
  BY CalleeIsFunction DEF IInv, MemoryOK
<1>2. Refers(heap, heap[f].co, "CODE")
  BY <1>1, ObjectOfHeap DEF FunctionOK
<1>3. IsLayout(co, lay)
  BY <1>2 DEF Balanced, AllFit, CodeOf, Refers
<1>4. EntryDepth(co) = n + 1
  <2>1. Byte(0) = OP_CALL /\ Is(Callee, "FUNCTION")
    BY Decoded DEF Call
  <2> QED BY <2>1 DEF Orderly, CodeOf
<1>5. sp \in Nat
  BY VMAssumption DEF IInv, SpInv
<1> HIDE DEF f, n, co, lay
<1>6. /\ 0 \in DOMAIN lay /\ lay[0].depth <= n + 1
      /\ lay[0].exact => lay[0].depth = n + 1
  BY <1>3, <1>4 DEF IsLayout
<1>7. lay[0].depth \in Nat
  BY <1>3, <1>6 DEF IsLayout
<1>8. n + 1 # 0 /\ sp - n - 1 + lay[0].depth <= sp
      /\ (lay[0].exact => sp = sp - n - 1 + lay[0].depth)
  BY <1>1, <1>5, <1>6, <1>7
<1> QED BY <1>4, <1>6, <1>8 DEF Fits, f, n, co, lay

LEMMA CallBalanced == ASSUME IInv, Balanced, Call, Orderly PROVE Balanced'
<1> DEFINE f == Payload(Callee)
           L == Len(callStack)
           base == sp - Byte(1) - 1
<1>1. /\ Byte(0) = OP_CALL /\ status = "running" /\ Byte(1) \in 0..255
      /\ ~Undefined /\ HeapOK(heap) /\ Refers(heap, fn, "FUNCTION") /\ Refers(heap, f, "FUNCTION")
      /\ sp \in Nat
  BY Decoded, CalleeIsFunction, VMAssumption DEF Call, IInv, MemoryOK, SpInv
<1>2. /\ callStack' = Append(callStack, Frame) /\ fn' = f /\ bp' = base /\ ip' = 0 /\ sp' = sp
  BY DEF Call
<1>3. KeepsCode(heap, heap')
  BY CallKeepsCode
<1>4. Frame = [ra |-> ip + 2, bp |-> bp, fn |-> fn]
  BY DEF Frame
<1>5. base + 1 \in Nat /\ base + 1 = sp + 1 - (Byte(1) + 1) /\ Byte(1) + 1 \in Nat
  <2>1. ~(sp <= Byte(1))
    BY <1>1 DEF Undefined
  <2>2. ASSUME NEW k \in 0..255, ~(sp <= k)
        PROVE  sp - k - 1 + 1 \in Nat /\ sp - k - 1 + 1 = sp + 1 - (k + 1) /\ k + 1 \in Nat
    BY <1>1, <2>2
  <2> QED BY <1>1, <2>1, <2>2
<1> HIDE DEF base
<1>6. Fits(heap, fn, ip + 2, bp, base + 1)
  <2>1. Operands(OP_CALL) = 1 /\ ip \in Nat
    BY OneOperand DEF IInv, IpInv
  <2>2. ip + 1 + 1 = ip + 2
    BY <2>1
  <2>3. ip + 2 \in Successors(CodeOf(heap, fn), ip)
    BY <1>1, <2>1, <2>2, BytesAre, StraightOn, TakesMore
  <2>4. Takes(Byte(0), Byte(1)) = Byte(1) + 1 /\ Leaves(Byte(0)) = 1 /\ 1 \in Nat
    BY <1>1, TakesMore
  <2> QED BY <1>1, <1>5, <2>3, <2>4, Successor
<1>7. Fits(heap', fn, ip + 2, bp, base + 1)
  BY <1>1, <1>3, <1>6, StillFits
<1>8. Fits(heap', f, 0, base, sp) /\ EntryDepth(CodeOf(heap', f)) # 0
  BY <1>1, <1>3, CalleeFits, StillFits, SameCode DEF base
<1>9. AllFit(heap')
  BY <1>3, StillFit DEF Balanced
<1>10. /\ DOMAIN callStack = 1..L /\ DOMAIN callStack' = 1..L + 1 /\ L \in Nat
       /\ Len(callStack') = L + 1
       /\ \A i \in 1..L : callStack'[i] = callStack[i]
       /\ callStack'[L + 1] = Frame
       /\ callStack = <<>> <=> L = 0
  <2>1. IsSeq(callStack)
    BY DEF IInv, FrameInv
  <2>2. callStack = <<>> <=> L = 0
    BY <2>1, SeqShape DEF IsSeq
  <2> QED BY <1>2, <2>1, <2>2, AppendIsSeq
<1>11. callStack' # <<>>
  BY <1>10, EmptySeq
<1>12. Waits(heap', callStack', base, L + 1)
  <2>1. NextBase(callStack', base, L + 1) = base
    BY <1>10 DEF NextBase
  <2>2. EntryDepth(CodeOf(heap', fn)) = 0 <=> L = 0
    BY <1>1, <1>3, <1>10, SameCode DEF Balanced
  <2>3. L + 1 = 1 <=> L = 0
    BY <1>10
  <2>4. callStack'[L + 1].fn = fn /\ callStack'[L + 1].ra = ip + 2 /\ callStack'[L + 1].bp = bp
    BY <1>4, <1>10
  <2> QED BY <1>7, <2>1, <2>2, <2>3, <2>4 DEF Waits
<1>13. ASSUME NEW k \in 1..L PROVE Waits(heap', callStack', base, k)
  <2>1. Waits(heap', callStack, bp, k)
    BY <1>3, <1>10, StillWaits DEF Balanced
  <2>2. callStack'[k] = callStack[k]
    BY <1>10
  <2>3. NextBase(callStack', base, k) = NextBase(callStack, bp, k)
    <3>1. k # L + 1 /\ (k = L \/ k + 1 \in 1..L)
      <4>1. L \in Nat
        BY <1>10
      <4> HIDE DEF L
      <4> QED BY <4>1
    <3>2. CASE k = L
      BY <3>1, <3>2, <1>4, <1>10 DEF NextBase
    <3>3. CASE k # L
      BY <3>1, <3>3, <1>10 DEF NextBase
    <3> QED BY <3>2, <3>3
  <2> QED BY <2>1, <2>2, <2>3 DEF Waits
<1>14. ASSUME NEW k \in DOMAIN callStack' PROVE Waits(heap', callStack', base, k)
  <2>1. k \in 1..L \/ k = L + 1
    BY <1>10
  <2> QED BY <2>1, <1>12, <1>13
<1> QED BY <1>2, <1>8, <1>9, <1>11, <1>14 DEF Balanced

LEMMA ReturnBalanced == ASSUME IInv, Balanced, Return PROVE Balanced'
<1> DEFINE L == Len(callStack)
           frame == callStack[L]
<1>1. Byte(0) = OP_RETURN /\ status = "running" /\ ~Undefined
  BY Decoded DEF Return
<1>2. callStack # <<>>
  BY <1>1 DEF Undefined
<1>3. /\ ip' = frame.ra /\ bp' = frame.bp /\ fn' = frame.fn /\ heap' = heap /\ sp' = sp
      /\ callStack' = SubSeq(callStack, 1, L - 1)
  BY DEF Return, memory
<1>4. sp = bp + 1
  <2>1. OpCodeAt(CodeOf(heap, fn), ip) = OP_RETURN
    BY <1>1, BytesAre
  <2> DEFINE lay == Layout(CodeOf(heap, fn))
  <2>2. Carried(CodeOf(heap, fn), lay, ip) /\ (lay[ip].exact => sp = bp + lay[ip].depth)
    BY <1>1, Running_
  <2> HIDE DEF lay
  <2>3. lay[ip].exact /\ lay[ip].depth = 1
    BY <2>1, <2>2 DEF Carried
  <2> QED BY <2>2, <2>3
<1>5. IsSeq(callStack) /\ DOMAIN callStack = 1..L /\ L \in Nat /\ L # 0
  <2>1. IsSeq(callStack)
    BY DEF IInv, FrameInv
  <2> QED BY <1>2, <2>1, SeqShape DEF IsSeq
<1>6. /\ Len(callStack') = L - 1 /\ DOMAIN callStack' = 1..L - 1
      /\ \A k \in 1..L - 1 : callStack'[k] = callStack[k]
      /\ callStack' = <<>> <=> L = 1
  <2> DEFINE V == {callStack[k] : k \in DOMAIN callStack}
  <2>1. callStack \in Seq(V)
    BY <1>5 DEF IsSeq
  <2> HIDE DEF V
  <2>2. /\ SubSeq(callStack, 1, L - 1) \in Seq(V)
        /\ Len(SubSeq(callStack, 1, L - 1)) = L - 1
        /\ DOMAIN SubSeq(callStack, 1, L - 1) = 1..L - 1
        /\ \A k \in 1..L - 1 : SubSeq(callStack, 1, L - 1)[k] = callStack[k]
    BY <1>5, <2>1
  <2>3. callStack' \in Seq(V) /\ Len(callStack') = L - 1
    BY <1>3, <2>2
  <2>4. ASSUME NEW s \in Seq(V) PROVE s = <<>> <=> Len(s) = 0
    OBVIOUS
  <2>5. callStack' = <<>> <=> L - 1 = 0
    BY <2>3, <2>4
  <2>6. L - 1 = 0 <=> L = 1
    BY <1>5
  <2> QED BY <1>3, <2>2, <2>5, <2>6
<1>7. Waits(heap, callStack, bp, L)
  BY <1>5 DEF Balanced
<1>8. NextBase(callStack, bp, L) = bp
  BY DEF NextBase
<1>9. Fits(heap, frame.fn, frame.ra, frame.bp, sp) /\ (EntryDepth(CodeOf(heap, frame.fn)) = 0 <=> L = 1)
  BY <1>4, <1>7, <1>8 DEF Waits
<1>10. ASSUME NEW k \in DOMAIN callStack' PROVE Waits(heap, callStack', frame.bp, k)
  <2>1. Waits(heap, callStack, bp, k) /\ k \in 1..L - 1 /\ callStack'[k] = callStack[k]
    BY <1>5, <1>6 DEF Balanced
  <2>2. NextBase(callStack', frame.bp, k) = NextBase(callStack, bp, k)
    <3>1. k # L /\ (k = L - 1 => k + 1 = L) /\ (k # L - 1 => k + 1 \in 1..L - 1)
      BY <1>5, <2>1
    <3> QED BY <3>1, <1>6 DEF NextBase
  <2> QED BY <2>1, <2>2 DEF Waits
<1> HIDE DEF frame
<1> QED BY <1>3, <1>6, <1>9, <1>10 DEF Balanced

-----------------------------------------------------------------------------
(* The machine *)

LEMMA EvalBalanced ==
    ASSUME IInv, Balanced, status = "running", Eval,
           HasInstruction => Orderly
    PROVE  FramesInv'
<1>1. CASE Fatal \/ Wild \/ GcWild \/ Missing
  BY <1>1 DEF Fatal, Wild, GcWild, Missing, Stop, FramesInv
<1>2. CASE Halt
  <2>1. Byte(0) = OP_HALT /\ status' = "halted" /\ callStack' = callStack
    BY <1>2, Decoded DEF Halt
  <2>2. Carried(CodeOf(heap, fn), Layout(CodeOf(heap, fn)), ip)
    BY Running_
  <2>3. OpCodeAt(CodeOf(heap, fn), ip) = OP_HALT
    BY <2>1, BytesAre
  <2>4. EntryDepth(CodeOf(heap, fn)) = 0
    BY <2>2, <2>3 DEF Carried
  <2> QED BY <2>1, <2>4 DEF Balanced, FramesInv
<1>3. CASE Div
  <2>1. CASE Stop("fraction")
    BY <2>1 DEF Stop, FramesInv
  <2>2. ASSUME NEW q, Arithmetic(OP_DIV, q) PROVE FramesInv'
    BY <2>2, ArithmeticBalanced DEF Arithmetic, FramesInv
  <2> QED BY <1>3, <2>1, <2>2 DEF Div
<1>4. ASSUME Balanced', status' = status PROVE FramesInv'
  BY <1>4 DEF FramesInv
<1>5. CASE Const \/ GetGlobal \/ GetLocal \/ GetCell \/ LoadCell
  BY <1>4, <1>5, PushBalanced DEF Const, GetGlobal, GetLocal, GetCell, LoadCell, Push
<1>6. CASE Add \/ Compare
  <2>1. HasInstruction
    BY <1>6 DEF Add, Compare, Step, At_
  <2> QED BY <1>4, <1>6, <2>1, AddBalanced, CompareBalanced DEF Add, Compare
<1>7. CASE Sub \/ Mul
  BY <1>4, <1>7, ArithmeticBalanced DEF Sub, Mul, Arithmetic
<1>8. CASE JmpIfFalse \/ Jmp
  BY <1>4, <1>8, JmpIfFalseBalanced, JmpBalanced DEF JmpIfFalse, Jmp
<1>9. CASE SetGlobal \/ SetLocal \/ SetCell
  BY <1>4, <1>9, SetterBalanced, SetCellBalanced DEF SetGlobal, SetLocal, SetCell
<1>10. CASE Pop \/ ScopeExit \/ CallNative \/ MakeFunction
  BY <1>4, <1>10, PopBalanced, ScopeExitBalanced, CallNativeBalanced, MakeFunctionBalanced
     DEF Pop, ScopeExit, CallNative, MakeFunction
<1>11. CASE Call
  <2>1. Orderly
    BY <1>11 DEF Call, At_
  <2> QED BY <1>4, <1>11, <2>1, CallBalanced DEF Call
<1>12. CASE Return
  BY <1>4, <1>12, ReturnBalanced DEF Return
<1>13. CASE New \/ GetProp \/ SetProp
  BY <1>4, <1>13, NewBalanced, GetPropBalanced, SetPropBalanced DEF New, GetProp, SetProp
<1> QED BY <1>1, <1>2, <1>3, <1>5, <1>6, <1>7, <1>8, <1>9, <1>10, <1>11, <1>12, <1>13 DEF Eval

(* The code of an image that has a layout begins with an empty frame. *)
LEMMA ListedBalanced == ASSUME IInv, FramesInv, Listed, status' = "running" => Verified PROVE FramesInv'
<1>1. /\ status = "compiled" /\ status' \in {"running", "died", "undefined"}
      /\ heap' = heap /\ UNCHANGED <<sp, bp, ip, fn, callStack>>
  BY DEF Listed, memory
<1>2. callStack = <<>> /\ ip = 0 /\ sp = 0 /\ bp = 0
  BY <1>1 DEF FramesInv
<1>3. CASE status' = "running"
  <2> DEFINE co == CodeOf(heap, fn)
             lay == Layout(co)
  <2>1. AllFit(heap) /\ EntryDepth(co) = 0
    BY <1>3 DEF Verified, AllFit, RunningCode, CodeOf
  <2>2. HeapOK(heap) /\ Refers(heap, fn, "FUNCTION")
    BY <1>1 DEF IInv, MemoryOK, FnInv
  <2>3. Refers(heap, heap[fn].co, "CODE")
    BY <2>2, ObjectOfHeap DEF FunctionOK
  <2>4. IsLayout(co, lay)
    BY <2>1, <2>3 DEF AllFit, CodeOf, Refers
  <2> HIDE DEF co, lay
  <2>5. 0 \in DOMAIN lay /\ lay[0].depth = 0
    <3>1. 0 \in DOMAIN lay /\ lay[0].depth <= 0
      BY <2>1, <2>4 DEF IsLayout
    <3>2. lay[0].depth \in Nat
      BY <2>4, <3>1 DEF IsLayout
    <3> QED BY <3>1, <3>2
  <2>6. Fits(heap, fn, 0, 0, 0)
    BY <2>5 DEF Fits, co, lay
  <2>7. Balanced'
    BY <1>1, <1>2, <2>1, <2>6, EmptySeq DEF Balanced, co
  <2> QED BY <1>3, <2>7 DEF FramesInv
<1> QED BY <1>1, <1>3 DEF FramesInv

LEMMA FramesStep == ASSUME IInv, FramesInv, [VerifiedNext]_machineVars PROVE FramesInv'
<1>1. CASE Load
  BY <1>1 DEF Load, FramesInv
<1>2. CASE Listed /\ (status' = "running" => Verified)
  BY <1>2, ListedBalanced
<1>3. CASE Eval /\ (HasInstruction => Orderly)
  <2>1. status = "running"
    BY <1>3 DEF Eval, Fatal, Wild, GcWild, Missing, Halt, Const, Add, Sub, Mul, Div, Compare, JmpIfFalse,
       Jmp, GetGlobal, SetGlobal, Pop, GetLocal, SetLocal, ScopeExit, CallNative, Call, Return, GetCell,
       SetCell, LoadCell, MakeFunction, New, GetProp, SetProp, Arithmetic, Push, Step, At_, Running
  <2> QED BY <1>3, <2>1, EvalBalanced DEF FramesInv
<1>4. CASE UNCHANGED machineVars
  BY <1>4 DEF machineVars, memory, FramesInv, Balanced
<1> QED BY <1>1, <1>2, <1>3, <1>4 DEF VerifiedNext

LEMMA FramesInductive == VerifiedSpec => [](IInv /\ FramesInv)
<1>1. [VerifiedNext]_machineVars => [MachineNext]_machineVars
  BY DEF VerifiedNext, MachineNext
<1>2. VerifiedSpec => []IInv
  BY <1>1, Inductive, PTL DEF VerifiedSpec, MachineSpec
<1>3. Idle => FramesInv
  BY DEF Idle, FramesInv
<1>4. IInv /\ FramesInv /\ [VerifiedNext]_machineVars => FramesInv'
  BY FramesStep
<1> QED BY <1>2, <1>3, <1>4, PTL DEF VerifiedSpec

(* Whatever code with a layout the machine is given: when a function       *)
(* returns, its result is where the callee was, with the caller's operands *)
(* below.                                                                  *)
THEOREM FramesBalanced == VerifiedSpec => []FrameBalanced
<1>1. IInv /\ FramesInv => FrameBalanced
  <2> SUFFICES ASSUME IInv, FramesInv, Running, Byte(0) = OP_RETURN PROVE sp = bp + 1
    BY DEF FrameBalanced
  <2> DEFINE lay == Layout(CodeOf(heap, fn))
  <2>1. Carried(CodeOf(heap, fn), lay, ip) /\ (lay[ip].exact => sp = bp + lay[ip].depth)
    BY Running_ DEF FramesInv, Running
  <2>2. OpCodeAt(CodeOf(heap, fn), ip) = OP_RETURN
    BY BytesAre
  <2> HIDE DEF lay
  <2>3. lay[ip].exact /\ lay[ip].depth = 1
    BY <2>1, <2>2 DEF Carried
  <2> QED BY <2>1, <2>3
<1> QED BY FramesInductive, <1>1, PTL

(* Whatever code with a layout the machine is given: it executes only what *)
(* the disassembler has printed as an instruction.                         *)
THEOREM InstructionsPrinted == VerifiedSpec => []OnInstruction
<1>1. IInv /\ FramesInv => OnInstruction
  <2> SUFFICES ASSUME IInv, FramesInv, Running PROVE ip \in disassemble(RunningCode)
    BY DEF OnInstruction
  <2> DEFINE lay == Layout(CodeOf(heap, fn))
  <2>1. IsLayout(CodeOf(heap, fn), lay) /\ ip \in DOMAIN lay
    BY Running_ DEF FramesInv, Running
  <2> HIDE DEF lay
  <2> QED BY <2>1 DEF IsLayout, RunningCode, CodeOf
<1> QED BY FramesInductive, <1>1, PTL

(* Whatever code with a layout the machine is given: no function takes an  *)
(* operand of its caller's, reads or writes a variable outside its frame,  *)
(* returns without a frame to return to, or runs past the end of its code. *)
THEOREM FramesKept == VerifiedSpec => []WithinFrame
<1>1. IInv /\ FramesInv => WithinFrame
  <2> SUFFICES ASSUME IInv, FramesInv, Running PROVE WithinFrame
    BY DEF WithinFrame
  <2> DEFINE co == CodeOf(heap, fn)
             lay == Layout(co)
  <2>1. /\ Carried(co, lay, ip) /\ lay[ip].depth \in Nat
        /\ bp + lay[ip].depth <= sp /\ bp \in Nat /\ sp \in Nat
    BY Running_ DEF FramesInv, Running
  <2>2. Byte(0) = OpCodeAt(co, ip) /\ Byte(1) = OperandAt(co, ip) /\ (HasInstruction <=> Entire(co, ip))
    BY BytesAre
  <2>3. EntryDepth(co) = 0 <=> callStack = <<>>
    BY DEF FramesInv, Running, Balanced
  <2>4. CodeOK(heap, co)
    <3>1. HeapOK(heap) /\ Refers(heap, fn, "FUNCTION")
      BY DEF IInv, MemoryOK, FnInv, Running
    <3>2. Refers(heap, heap[fn].co, "CODE")
      BY <3>1, ObjectOfHeap DEF FunctionOK
    <3> QED BY <3>1, <3>2, ObjectOfHeap DEF CodeOf
  <2> HIDE DEF co, lay
  <2>5. /\ HasInstruction /\ Takes(Byte(0), Byte(1)) <= lay[ip].depth
        /\ Byte(0) \in Locals => Byte(1) < lay[ip].depth
        /\ Byte(0) = OP_RETURN => callStack # <<>>
    BY <2>1, <2>2, <2>3 DEF Carried
  <2>6. bp + Takes(Byte(0), Byte(1)) <= sp
    <3>1. Takes(Byte(0), Byte(1)) \in Nat
      BY <2>4, <2>5, TakesSome DEF co, CodeOf
    <3> QED BY <2>1, <2>5, <3>1
  <2>7. Byte(0) \in Locals => bp + Byte(1) < sp
    <3> SUFFICES ASSUME Byte(0) \in Locals PROVE bp + Byte(1) < sp
      OBVIOUS
    <3>1. Byte(1) \in 0..255
      BY <2>4, <2>5, OperandByte, OneOperand DEF Locals, co, CodeOf
    <3>2. ASSUME NEW k \in 0..255, k < lay[ip].depth PROVE bp + k < sp
      BY <2>1, <3>2
    <3> QED BY <2>5, <3>1, <3>2
  <2> QED BY <2>5, <2>6, <2>7 DEF WithinFrame
<1> QED BY FramesInductive, <1>1, PTL

=============================================================================
