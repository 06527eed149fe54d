-------------------------- MODULE EvaDefinedProofs ----------------------------
(***************************************************************************)
(* No program does what C++ leaves undefined, if the compiler does its     *)
(* part and the types of operands are right.                               *)
(*                                                                         *)
(* The invariant: what the disassembler has looked up is still there, and  *)
(* so is what is known of the code (Images); of the function that runs,    *)
(* and of those that wait, the cells are there that are known to be where  *)
(* they go on (Counted); and on top of the stack is what is known to be    *)
(* (Prepared), of which a function that waits knows nothing.  With those   *)
(* of EvaVMProofs, EvaCertificateProofs and EvaLifetimeProofs it refutes   *)
(* every condition under which an instruction is undefined.                *)
(***************************************************************************)
EXTENDS EvaDefined, EvaLifetimeProofs

KnownAt(h, f, i) == KnownOf(h, CodeOf(h, f))[i]

(* At i in its code, the function f has the cells that are known of. *)
Counted(h, f, i) ==
    /\ i \in DOMAIN KnownOf(h, CodeOf(h, f))
    /\ KnownAt(h, f, i).cells <= Len(h[f].cells)

Unprepared(known) == known.loaded = 0 /\ known.code = Null

(* What is known to be on top of the stack is there. *)
PeekOf(st, s, k) == SlotOf(st, s - 1 - k)
Above(known) == IF known.code = Null THEN 1 ELSE 0
Prepared(h, st, s, known) ==
    /\ known.code # Null => Holds(st, s - 1, known.code)
    /\ \A k \in 1..known.loaded : IsKind(h, PeekOf(st, s, k - Above(known)), "CELL")

(* What the disassembler has looked up, where execution may come. *)
LookedUp(h, gl, co) ==
    \A i \in DOMAIN Layout(co) :
        OpCodeAt(co, i) \in Indexed => ~OutOfRange(h, gl, co, OpCodeAt(co, i), OperandAt(co, i))

Images(h, gl) ==
    /\ \A a \in DOMAIN h : h[a].kind = "CODE" =>
         LookedUp(h, gl, h[a]) /\ IsKnowledge(h, h[a], KnownOf(h, h[a]))
    /\ \A a \in DOMAIN h : h[a].kind = "FUNCTION" => Whole(h, a)

Supplied ==
    /\ Images(heap, globals)
    /\ Counted(heap, fn, ip) /\ Prepared(heap, stack, sp, KnownAt(heap, fn, ip))
    /\ \A k \in DOMAIN callStack :
         /\ Counted(heap, callStack[k].fn, callStack[k].ra)
         /\ Unprepared(KnownAt(heap, callStack[k].fn, callStack[k].ra))

LinkInv == status = "running" => Supplied

-----------------------------------------------------------------------------
(* What is known of code stays so *)

LEMMA SameCodes ==
    ASSUME NEW h, HeapOK(h), NEW g, KeepsCode(h, g), Grows(h, g), NEW a, Refers(h, a, "CODE")
    PROVE  /\ g[a] = h[a] /\ Refers(g, a, "CODE")
           /\ Codes(g, g[a]) = Codes(h, h[a]) /\ KnownOf(g, g[a]) = KnownOf(h, h[a])
<1> DEFINE co == h[a]
<1>1. g[a] = co /\ Refers(g, a, "CODE")
  BY ReferKept DEF KeepsCode, Refers
<1>2. AllValues(h, co.constants)
  BY ObjectOfHeap DEF CodeOK
<1> HIDE DEF co
<1>3. ASSUME NEW k \in DOMAIN co.constants
      PROVE  IsKind(g, co.constants[k], "CODE") <=> IsKind(h, co.constants[k], "CODE")
  <2>1. IsObject(co.constants[k]) => Payload(co.constants[k]) \in DOMAIN h
    BY <1>2, ObjectValue DEF AllValues
  <2> QED BY <2>1 DEF IsKind, Grows
<1>4. Codes(g, co) = Codes(h, co)
  BY <1>3 DEF Codes
<1>5. KnownOf(g, co) = KnownOf(h, co)
  BY <1>4 DEF KnownOf
<1> QED BY <1>1, <1>4, <1>5 DEF co

LEMMA SameKnown ==
    ASSUME NEW h, HeapOK(h), NEW g, KeepsCode(h, g), Grows(h, g), NEW f, Refers(h, f, "FUNCTION")
    PROVE  CodeOf(g, f) = CodeOf(h, f) /\ KnownOf(g, CodeOf(g, f)) = KnownOf(h, CodeOf(h, f))
<1>1. Refers(h, h[f].co, "CODE")
  BY ObjectOfHeap DEF FunctionOK
<1>2. CodeOf(g, f) = CodeOf(h, f)
  BY SameCode
<1>3. CodeOf(h, f) = h[h[f].co]
  BY DEF CodeOf
<1>4. g[h[f].co] = h[h[f].co] /\ KnownOf(g, g[h[f].co]) = KnownOf(h, h[h[f].co])
  BY <1>1, SameCodes
<1> QED BY <1>2, <1>3, <1>4

LEMMA StillKnowledge ==
    ASSUME NEW h, HeapOK(h), NEW g, KeepsCode(h, g), Grows(h, g), NEW a, Refers(h, a, "CODE"),
           NEW known, IsKnowledge(h, h[a], known)
    PROVE  IsKnowledge(g, g[a], known)
<1> DEFINE co == h[a]
<1>1. g[a] = co /\ Codes(g, co) = Codes(h, co)
  BY SameCodes
<1>2. IsKnowledge(h, co, known)
  OBVIOUS
<1> HIDE DEF co
<1>3. ASSUME NEW i \in DOMAIN known
      PROVE  /\ known[i].code = Null \/ Refers(g, known[i].code, "CODE")
             /\ Provided(g, co, known, i)
  <2>1. /\ known[i].code = Null \/ Refers(h, known[i].code, "CODE")
        /\ Provided(h, co, known, i)
    BY <1>2 DEF IsKnowledge
  <2>2. known[i].code # Null => g[known[i].code] = h[known[i].code]
    BY <2>1, SameCodes
  <2> QED BY <1>1, <2>1, <2>2, ReferKept DEF Provided
<1>4. IsKnowledge(g, co, known)
  BY <1>2, <1>3 DEF IsKnowledge
<1> QED BY <1>1, <1>4

(* The operand of an instruction that is whole. *)
LEMMA OperandOf ==
    ASSUME NEW co, co.code \in Seq(0..255), NEW i \in Nat, Entire(co, i), Operands(OpCodeAt(co, i)) = 1
    PROVE  OperandAt(co, i) \in 0..255 /\ i + 1 < Len(co.code)
<1>1. i + 1 < Len(co.code)
  BY DEF Entire
<1>2. i + 2 \in 1..Len(co.code)
  BY <1>1
<1> QED BY <1>1, <1>2, ElementOf DEF OperandAt

LEMMA StillLookedUp ==
    ASSUME NEW h, HeapOK(h), NEW g, KeepsCode(h, g), Grows(h, g), NEW a, Refers(h, a, "CODE"),
           NEW gl, NEW gm, Len(gm) = Len(gl), IsLayout(h[a], Layout(h[a])), LookedUp(h, gl, h[a])
    PROVE  LookedUp(g, gm, g[a])
<1> DEFINE co == h[a]
           lay == Layout(co)
<1>1. g[a] = co
  BY SameCodes
<1>2. CodeOK(h, co) /\ IsLayout(co, lay) /\ LookedUp(h, gl, co)
  BY ObjectOfHeap
<1> HIDE DEF co
<1> SUFFICES ASSUME NEW i \in DOMAIN lay, OpCodeAt(co, i) \in Indexed
             PROVE  ~OutOfRange(g, gm, co, OpCodeAt(co, i), OperandAt(co, i))
  BY <1>1 DEF LookedUp
<1> DEFINE op == OpCodeAt(co, i)
           n == OperandAt(co, i)
<1>3. ~OutOfRange(h, gl, co, op, n)
  BY <1>2 DEF LookedUp
<1> HIDE DEF lay
<1>4. n \in 0..255
  <2>1. Operands(op) = 1
    BY OneOperand DEF Indexed, Locals, Globals, Cells, Properties
  <2>2. i \in Nat /\ Entire(co, i)
    BY <1>2 DEF IsLayout, Carried
  <2> QED BY <1>2, <2>1, <2>2, OperandOf DEF CodeOK
<1> HIDE DEF op, n
<1>5. ASSUME n < Len(co.constants), IsKind(h, co.constants[n + 1], "STRING")
      PROVE  IsKind(g, co.constants[n + 1], "STRING")
  <2>1. n + 1 \in DOMAIN co.constants
    <3>1. DOMAIN co.constants = 1..Len(co.constants) /\ Len(co.constants) \in Nat
      BY <1>2, SeqShape DEF CodeOK
    <3> QED BY <1>4, <1>5, <3>1
  <2>2. IsObject(co.constants[n + 1]) => Payload(co.constants[n + 1]) \in DOMAIN h
    BY <1>2, <2>1, ObjectValue DEF CodeOK, AllValues
  <2> QED BY <1>5, <2>2 DEF IsKind, Grows
<1>6. ~OutOfRange(g, gm, co, op, n)
  BY <1>3, <1>5 DEF OutOfRange
<1> QED BY <1>6 DEF op, n

(* Of two heaps, one after the other: the functions that are not as they   *)
(* were have all their cells.                                              *)
Evolves(h, g) ==
    /\ KeepsCode(h, g) /\ Grows(h, g)
    /\ \A a \in DOMAIN g : g[a].kind = "FUNCTION" => (a \in DOMAIN h /\ g[a] = h[a]) \/ Whole(g, a)

LEMMA StillWhole ==
    ASSUME NEW h, HeapOK(h), NEW g, KeepsCode(h, g), NEW f, Refers(h, f, "FUNCTION"), g[f] = h[f], Whole(h, f)
    PROVE  Whole(g, f)
<1>1. Refers(h, h[f].co, "CODE")
  BY ObjectOfHeap DEF FunctionOK
<1>2. g[h[f].co] = h[h[f].co]
  BY <1>1 DEF KeepsCode, Refers
<1> QED BY <1>2 DEF Whole

LEMMA StillImages ==
    ASSUME NEW h, HeapOK(h), AllFit(h), NEW g, Evolves(h, g), NEW gl, NEW gm, Len(gm) = Len(gl), Images(h, gl)
    PROVE  Images(g, gm)
<1>1. ASSUME NEW a \in DOMAIN g, g[a].kind = "CODE"
      PROVE  LookedUp(g, gm, g[a]) /\ IsKnowledge(g, g[a], KnownOf(g, g[a]))
  <2>1. Refers(h, a, "CODE") /\ KeepsCode(h, g) /\ Grows(h, g)
    BY <1>1 DEF Evolves, KeepsCode, Refers
  <2>2. LookedUp(h, gl, h[a]) /\ IsKnowledge(h, h[a], KnownOf(h, h[a])) /\ IsLayout(h[a], Layout(h[a]))
    BY <2>1 DEF Images, AllFit, Refers
  <2>3. KnownOf(g, g[a]) = KnownOf(h, h[a])
    BY <2>1, SameCodes
  <2> QED BY <2>1, <2>2, <2>3, StillLookedUp, StillKnowledge
<1>2. ASSUME NEW a \in DOMAIN g, g[a].kind = "FUNCTION" PROVE Whole(g, a)
  <2>1. ASSUME a \in DOMAIN h, g[a] = h[a] PROVE Whole(g, a)
    BY <1>2, <2>1, StillWhole DEF Images, Evolves, Refers
  <2> QED BY <1>2, <2>1 DEF Evolves
<1> QED BY <1>1, <1>2 DEF Images

(* No function loses cells. *)
KeepsCells(h, g) ==
    \A a \in DOMAIN h : h[a].kind = "FUNCTION" => Len(h[a].cells) \in Nat /\ Len(g[a].cells) \in Nat
                                                  /\ Len(h[a].cells) <= Len(g[a].cells)

(* What is known of a function, of which there is code. *)
LEMMA KnowledgeIs ==
    ASSUME NEW h, HeapOK(h), NEW gl, Images(h, gl), NEW f, Refers(h, f, "FUNCTION")
    PROVE  LET known == KnownOf(h, CodeOf(h, f)) IN
           /\ IsKnowledge(h, CodeOf(h, f), known) /\ LookedUp(h, gl, CodeOf(h, f))
           /\ Whole(h, f) /\ CodeOf(h, f) = h[h[f].co] /\ CodeOK(h, CodeOf(h, f)) /\ FunctionOK(h, h[f])
           /\ Len(h[f].cells) \in Nat /\ CodeOf(h, f).freeCount \in Nat
           /\ 0 \in DOMAIN known /\ Weaker(known[0], Nothing(EntryCells(CodeOf(h, f))))
           /\ \A i \in DOMAIN known :
                /\ known[i] = [cells |-> known[i].cells, loaded |-> known[i].loaded, code |-> known[i].code]
                /\ known[i].cells \in Nat /\ known[i].loaded \in Nat
                /\ known[i].code = Null \/ Refers(h, known[i].code, "CODE")
                /\ Provided(h, CodeOf(h, f), known, i)
<1> DEFINE co == CodeOf(h, f)
           known == KnownOf(h, co)
<1>1. Refers(h, h[f].co, "CODE") /\ FunctionOK(h, h[f])
  BY ObjectOfHeap DEF FunctionOK
<1>2. CodeOK(h, h[h[f].co]) /\ co = h[h[f].co]
  BY <1>1, ObjectOfHeap DEF CodeOf
<1>3. IsKnowledge(h, co, known) /\ LookedUp(h, gl, co) /\ Whole(h, f)
  BY <1>1, <1>2 DEF Images, Refers
<1>4. Len(h[f].cells) \in Nat /\ co.freeCount \in Nat
  BY <1>1, <1>2, SeqShape DEF FunctionOK, CodeOK
<1> HIDE DEF co, known
<1>5. /\ 0 \in DOMAIN known /\ Weaker(known[0], Nothing(EntryCells(co)))
      /\ \A i \in DOMAIN known :
           /\ known[i] = [cells |-> known[i].cells, loaded |-> known[i].loaded, code |-> known[i].code]
           /\ known[i].cells \in Nat /\ known[i].loaded \in Nat
           /\ known[i].code = Null \/ Refers(h, known[i].code, "CODE")
           /\ Provided(h, co, known, i)
  BY <1>3 DEF IsKnowledge
<1> QED BY <1>1, <1>2, <1>3, <1>4, <1>5 DEF co, known

LEMMA StillCounted ==
    ASSUME NEW h, HeapOK(h), NEW gl, Images(h, gl), NEW g, KeepsCode(h, g), Grows(h, g),
           NEW f, Refers(h, f, "FUNCTION"), NEW i, Counted(h, f, i),
           \/ Len(h[f].cells) <= Len(g[f].cells) /\ Len(g[f].cells) \in Nat
           \/ KnownAt(h, f, i).cells <= Len(g[f].cells)
    PROVE  Counted(g, f, i) /\ KnownAt(g, f, i) = KnownAt(h, f, i)
<1> DEFINE known == KnownOf(h, CodeOf(h, f))
<1>1. KnownOf(g, CodeOf(g, f)) = known
  BY SameKnown
<1>2. i \in DOMAIN known /\ known[i].cells <= Len(h[f].cells)
  BY DEF Counted, KnownAt
<1>3. known[i].cells \in Nat /\ Len(h[f].cells) \in Nat
  BY <1>2, KnowledgeIs
<1>4. \/ Len(h[f].cells) <= Len(g[f].cells) /\ Len(g[f].cells) \in Nat
      \/ known[i].cells <= Len(g[f].cells)
  BY DEF KnownAt
<1>5. KnownAt(g, f, i) = KnownAt(h, f, i) /\ KnownAt(h, f, i) = known[i]
  BY <1>1 DEF KnownAt
<1> HIDE DEF known
<1>6. known[i].cells <= Len(g[f].cells)
  BY <1>2, <1>3, <1>4
<1> QED BY <1>1, <1>2, <1>5, <1>6 DEF Counted

-----------------------------------------------------------------------------
(* What an instruction teaches *)

LEMMA NothingIs ==
    ASSUME NEW c PROVE Nothing(c).cells = c /\ Nothing(c).loaded = 0 /\ Nothing(c).code = Null
BY DEF Nothing

LEMMA WeakerNothing ==
    ASSUME NEW known, known.loaded \in Nat, NEW c, Weaker(known, Nothing(c))
    PROVE  known.cells <= c /\ Unprepared(known)
<1>1. known.loaded <= 0 => known.loaded = 0
  OBVIOUS
<1> QED BY <1>1, NothingIs DEF Weaker, Unprepared

LEMMA LearntPlain ==
    ASSUME NEW codes, NEW co, NEW i, NEW known, OpCodeAt(co, i) \notin {OP_LOAD_CELL, OP_CONST, OP_SET_CELL}
    PROVE  Learnt(codes, co, i, known) = Nothing(known.cells)
BY DEF Learnt

LEMMA LearntSetCell ==
    ASSUME NEW codes, NEW co, NEW i, NEW known, OpCodeAt(co, i) = OP_SET_CELL
    PROVE  Learnt(codes, co, i, known) =
             IF known.cells <= OperandAt(co, i) THEN Nothing(known.cells + 1) ELSE Nothing(known.cells)
BY DEF Learnt, OP_LOAD_CELL, OP_CONST, OP_SET_CELL

LEMMA LearntLoadCell ==
    ASSUME NEW codes, NEW co, NEW i, NEW known, OpCodeAt(co, i) = OP_LOAD_CELL,
           known = [cells |-> known.cells, loaded |-> known.loaded, code |-> known.code]
    PROVE  LET learnt == Learnt(codes, co, i, known) IN
           /\ learnt.cells = known.cells /\ learnt.code = Null
           /\ learnt.loaded = IF known.code = Null THEN known.loaded + 1 ELSE 1
<1> DEFINE more == IF known.code = Null THEN known.loaded + 1 ELSE 1
<1>1. Learnt(codes, co, i, known) = [known EXCEPT !.loaded = more, !.code = Null]
  BY DEF Learnt, OP_LOAD_CELL, OP_CONST, OP_SET_CELL
<1> HIDE DEF more
<1>2. Learnt(codes, co, i, known).loaded = more
  BY <1>1
<1>3. Learnt(codes, co, i, known).cells = known.cells /\ Learnt(codes, co, i, known).code = Null
  BY <1>1
<1> QED BY <1>2, <1>3 DEF more

LEMMA LearntConst ==
    ASSUME NEW codes, NEW co, NEW i, NEW known, OpCodeAt(co, i) = OP_CONST,
           known = [cells |-> known.cells, loaded |-> known.loaded, code |-> known.code]
    PROVE  LET learnt == Learnt(codes, co, i, known) IN
           /\ OperandAt(co, i) + 1 \in codes =>
                /\ learnt.cells = known.cells
                /\ learnt.code = Payload(co.constants[OperandAt(co, i) + 1])
                /\ learnt.loaded = IF known.code = Null THEN known.loaded ELSE 0
           /\ OperandAt(co, i) + 1 \notin codes => learnt = Nothing(known.cells)
<1> DEFINE n == OperandAt(co, i)
           code == Payload(co.constants[n + 1])
<1>1. Learnt(codes, co, i, known) =
        IF n + 1 \in codes
          THEN [known EXCEPT !.loaded = IF known.code = Null THEN known.loaded ELSE 0, !.code = code]
          ELSE Nothing(known.cells)
  BY DEF Learnt, OP_LOAD_CELL, OP_CONST, OP_SET_CELL
<1> HIDE DEF n, code
<1> QED BY <1>1 DEF n, code

LEMMA WeakerPrepared ==
    ASSUME NEW h, NEW st, NEW s, NEW known, NEW learnt, known.loaded \in Nat, learnt.loaded \in Nat,
           Weaker(known, learnt), Prepared(h, st, s, learnt)
    PROVE  Prepared(h, st, s, known)
<1>1. CASE known.loaded = 0 /\ known.code = Null
  <2>1. 1..0 = {}
    OBVIOUS
  <2> QED BY <1>1, <2>1 DEF Prepared
<1>2. CASE known.loaded <= learnt.loaded /\ known.code = learnt.code
  <2>1. 1..known.loaded \subseteq 1..learnt.loaded
    BY <1>2
  <2> QED BY <1>2, <2>1 DEF Prepared, Above
<1> QED BY <1>1, <1>2 DEF Weaker

LEMMA UnpreparedIs ==
    ASSUME NEW h, NEW st, NEW s, NEW known, Unprepared(known) PROVE Prepared(h, st, s, known)
<1>1. 1..0 = {}
  OBVIOUS
<1> QED BY <1>1 DEF Prepared, Unprepared

-----------------------------------------------------------------------------
(* A step within the function that is running *)

Known_ == KnownAt(heap, fn, ip)
Learnt_ == Learnt(Codes(heap, CodeOf(heap, fn)), CodeOf(heap, fn), ip, Known_)

LEMMA RunningKnown ==
    ASSUME IInv, Balanced, Supplied, status = "running"
    PROVE  LET co == CodeOf(heap, fn)
               known == KnownOf(heap, co)
           IN /\ HeapOK(heap) /\ Refers(heap, fn, "FUNCTION") /\ AllFit(heap) /\ Images(heap, globals)
              /\ HasInstruction /\ Byte(0) = OpCodeAt(co, ip) /\ Byte(1) = OperandAt(co, ip)
              /\ co = heap[heap[fn].co] /\ CodeOK(heap, co) /\ LookedUp(heap, globals, co) /\ ip \in DOMAIN Layout(co)
              /\ Whole(heap, fn) /\ IsSeq(cells) /\ Len(cells) \in Nat
              /\ ip \in DOMAIN known /\ Known_ = known[ip]
              /\ Known_ = [cells |-> Known_.cells, loaded |-> Known_.loaded, code |-> Known_.code]
              /\ Known_.cells \in Nat /\ Known_.loaded \in Nat /\ Known_.cells <= Len(cells)
              /\ Known_.code = Null \/ Refers(heap, Known_.code, "CODE")
              /\ Provided(heap, co, known, ip)
              /\ \A i \in DOMAIN known : known[i].cells \in Nat /\ known[i].loaded \in Nat
              /\ Prepared(heap, stack, sp, Known_)
<1> DEFINE co == CodeOf(heap, fn)
           known == KnownOf(heap, co)
<1>1. HeapOK(heap) /\ Refers(heap, fn, "FUNCTION") /\ ip \in DOMAIN Layout(co)
  BY Running_
<1>2. AllFit(heap) /\ Images(heap, globals) /\ HasInstruction
  BY Instruction DEF Balanced, Supplied
<1>3. Byte(0) = OpCodeAt(co, ip) /\ Byte(1) = OperandAt(co, ip)
  BY BytesAre
<1>4. Known_ = known[ip] /\ ip \in DOMAIN known /\ Known_.cells <= Len(cells) /\ Prepared(heap, stack, sp, Known_)
  BY DEF Supplied, Counted, Known_, KnownAt, cells
<1>5. /\ LookedUp(heap, globals, co) /\ Whole(heap, fn) /\ co = heap[heap[fn].co] /\ CodeOK(heap, co)
      /\ FunctionOK(heap, heap[fn]) /\ Len(heap[fn].cells) \in Nat
      /\ \A i \in DOMAIN known :
           /\ known[i] = [cells |-> known[i].cells, loaded |-> known[i].loaded, code |-> known[i].code]
           /\ known[i].cells \in Nat /\ known[i].loaded \in Nat
           /\ known[i].code = Null \/ Refers(heap, known[i].code, "CODE")
           /\ Provided(heap, co, known, i)
  BY <1>1, <1>2, KnowledgeIs
<1>6. IsSeq(cells) /\ Len(cells) \in Nat
  BY <1>5 DEF FunctionOK, cells
<1> HIDE DEF co, known
<1> QED BY <1>1, <1>2, <1>3, <1>4, <1>5, <1>6 DEF co, known

LEMMA StillWaiting ==
    ASSUME IInv, Supplied, Evolves(heap, heap'), KeepsCells(heap, heap'), callStack' = callStack
    PROVE  \A k \in DOMAIN callStack' :
             /\ Counted(heap', callStack'[k].fn, callStack'[k].ra)
             /\ Unprepared(KnownAt(heap', callStack'[k].fn, callStack'[k].ra))
<1> SUFFICES ASSUME NEW k \in DOMAIN callStack
             PROVE  /\ Counted(heap', callStack[k].fn, callStack[k].ra)
                    /\ Unprepared(KnownAt(heap', callStack[k].fn, callStack[k].ra))
  OBVIOUS
<1> DEFINE f == callStack[k].fn
           i == callStack[k].ra
<1>1. HeapOK(heap) /\ Refers(heap, f, "FUNCTION")
  BY DEF IInv, MemoryOK, FrameInv, FrameOK
<1>2. Images(heap, globals) /\ Counted(heap, f, i) /\ Unprepared(KnownAt(heap, f, i))
  BY DEF Supplied
<1>3. Len(heap[f].cells) <= Len(heap'[f].cells) /\ Len(heap'[f].cells) \in Nat
  BY <1>1 DEF KeepsCells, Refers
<1>4. KeepsCode(heap, heap') /\ Grows(heap, heap')
  BY DEF Evolves
<1> HIDE DEF f, i
<1>5. Counted(heap', f, i) /\ KnownAt(heap', f, i) = KnownAt(heap, f, i)
  BY <1>1, <1>2, <1>3, <1>4, StillCounted
<1> QED BY <1>2, <1>5 DEF f, i

LEMMA StepSupplied ==
    ASSUME IInv, Balanced, Supplied, status = "running", Evolves(heap, heap'), KeepsCells(heap, heap'),
           Len(globals') = Len(globals), UNCHANGED <<fn, callStack>>,
           ip' \in Successors(CodeOf(heap, fn), ip),
           Learnt_.cells <= Len(heap'[fn].cells), Learnt_.cells \in Nat, Learnt_.loaded \in Nat,
           Prepared(heap', stack', sp', Learnt_)
    PROVE  Supplied'
<1> DEFINE co == CodeOf(heap, fn)
           known == KnownOf(heap, co)
<1>1. /\ HeapOK(heap) /\ Refers(heap, fn, "FUNCTION") /\ AllFit(heap) /\ Images(heap, globals)
      /\ Provided(heap, co, known, ip) /\ Known_ = known[ip]
      /\ \A i \in DOMAIN known : known[i].cells \in Nat /\ known[i].loaded \in Nat
  BY RunningKnown
<1>2. Images(heap', globals')
  BY <1>1, StillImages
<1>3. ip' \in DOMAIN known /\ Weaker(known[ip'], Learnt_)
  <2>1. \A j \in Successors(co, ip) : j \in DOMAIN known /\ Weaker(known[j], Learnt(Codes(heap, co), co, ip, known[ip]))
    BY <1>1 DEF Provided
  <2> QED BY <1>1, <2>1 DEF Learnt_
<1>4. KeepsCode(heap, heap') /\ Grows(heap, heap')
  BY DEF Evolves
<1>5. KnownOf(heap', CodeOf(heap', fn)) = known
  BY <1>1, <1>4, SameKnown
<1>6. KnownAt(heap', fn', ip') = known[ip']
  BY <1>5 DEF KnownAt
<1> HIDE DEF co, known
<1>7. known[ip'].cells <= Len(heap'[fn].cells)
  <2>1. known[ip'].cells \in Nat /\ known[ip'].cells <= Learnt_.cells
    BY <1>1, <1>3 DEF Weaker
  <2>2. Len(heap'[fn].cells) \in Nat
    BY <1>1 DEF KeepsCells, Refers
  <2> QED BY <2>1, <2>2
<1>8. Counted(heap', fn', ip')
  BY <1>3, <1>5, <1>6, <1>7 DEF Counted
<1>9. Prepared(heap', stack', sp', known[ip'])
  BY <1>1, <1>3, WeakerPrepared
<1> QED BY <1>2, <1>6, <1>8, <1>9, StillWaiting DEF Supplied

(* An instruction that says nothing about the top of the stack. *)
LEMMA PlainSupplied ==
    ASSUME IInv, Balanced, Supplied, status = "running", Evolves(heap, heap'), KeepsCells(heap, heap'),
           Len(globals') = Len(globals), UNCHANGED <<fn, callStack>>,
           ip' \in Successors(CodeOf(heap, fn), ip),
           Byte(0) \notin {OP_LOAD_CELL, OP_CONST, OP_SET_CELL}
    PROVE  Supplied'
<1>1. /\ Byte(0) = OpCodeAt(CodeOf(heap, fn), ip) /\ Refers(heap, fn, "FUNCTION")
      /\ Known_.cells \in Nat /\ Known_.cells <= Len(heap[fn].cells)
  BY RunningKnown DEF cells
<1>2. Learnt_ = Nothing(Known_.cells)
  BY <1>1, LearntPlain DEF Learnt_
<1>3. Learnt_.cells = Known_.cells /\ Learnt_.loaded = 0 /\ Unprepared(Learnt_)
  BY <1>2, NothingIs DEF Unprepared
<1>4. Known_.cells <= Len(heap'[fn].cells)
  BY <1>1 DEF KeepsCells, Refers
<1>5. 0 \in Nat
  OBVIOUS
<1> QED BY <1>1, <1>3, <1>4, <1>5, UnpreparedIs, StepSupplied

-----------------------------------------------------------------------------
(* Memory, as the instructions change it *)

LEMMA SameFunctions ==
    ASSUME NEW h, HeapOK(h), NEW g, KeepsCode(h, g), Grows(h, g),
           \A a \in DOMAIN g : g[a].kind = "FUNCTION" => a \in DOMAIN h /\ g[a] = h[a]
    PROVE  Evolves(h, g) /\ KeepsCells(h, g)
<1>1. ASSUME NEW a \in DOMAIN h, h[a].kind = "FUNCTION"
      PROVE  g[a] = h[a] /\ Len(h[a].cells) \in Nat /\ Len(h[a].cells) <= Len(h[a].cells)
  <2>1. g[a] = h[a]
    BY <1>1 DEF Grows
  <2>2. FunctionOK(h, h[a])
    BY <1>1, ObjectOfHeap DEF Refers
  <2>3. Len(h[a].cells) \in Nat
    BY <2>2, SeqShape DEF FunctionOK
  <2>4. \A n \in Nat : n <= n
    OBVIOUS
  <2> QED BY <2>1, <2>3, <2>4
<1>2. KeepsCells(h, g)
  BY <1>1 DEF KeepsCells
<1> QED BY <1>2 DEF Evolves

LEMMA ItselfEvolves ==
    ASSUME NEW h, HeapOK(h) PROVE Evolves(h, h) /\ KeepsCells(h, h)
<1>1. KeepsCode(h, h) /\ Grows(h, h)
  BY KeepsItself DEF Grows
<1> QED BY <1>1, SameFunctions

LEMMA AppendEvolves ==
    ASSUME NEW h, HeapOK(h), NEW o, o.kind \notin {"CODE", "FUNCTION"}
    PROVE  Evolves(h, Append(h, o)) /\ KeepsCells(h, Append(h, o))
<1> DEFINE g == Append(h, o)
<1>1. /\ DOMAIN h = 1..Len(h) /\ DOMAIN g = 1..Len(h) + 1 /\ Len(h) \in Nat
      /\ \A i \in 1..Len(h) : g[i] = h[i]
      /\ g[Len(h) + 1] = o
  BY AppendIsSeq DEF HeapOK
<1>2. KeepsCode(h, g)
  BY AppendKeepsCode DEF HeapOK
<1> HIDE DEF g
<1>3. Grows(h, g) /\ \A a \in DOMAIN g : g[a].kind = "FUNCTION" => a \in DOMAIN h /\ g[a] = h[a]
  BY <1>1 DEF Grows
<1>4. Evolves(h, g) /\ KeepsCells(h, g)
  BY <1>2, <1>3, SameFunctions
<1> QED BY <1>4 DEF g

LEMMA UpdateEvolves ==
    ASSUME NEW h, HeapOK(h), NEW a \in DOMAIN h, NEW o, o.kind = h[a].kind, o.kind \notin {"CODE", "FUNCTION"}
    PROVE  Evolves(h, [h EXCEPT ![a] = o]) /\ KeepsCells(h, [h EXCEPT ![a] = o])
<1> DEFINE g == [h EXCEPT ![a] = o]
<1>1. DOMAIN g = DOMAIN h /\ g[a] = o /\ \A b \in DOMAIN h : b # a => g[b] = h[b]
  BY ExceptIsSeq DEF HeapOK
<1>2. KeepsCode(h, g)
  BY UpdateKeepsCode DEF HeapOK
<1> HIDE DEF g
<1>3. Grows(h, g) /\ \A b \in DOMAIN g : g[b].kind = "FUNCTION" => b \in DOMAIN h /\ g[b] = h[b]
  BY <1>1 DEF Grows
<1>4. Evolves(h, g) /\ KeepsCells(h, g)
  BY <1>2, <1>3, SameFunctions
<1> QED BY <1>4 DEF g

(* The instructions that are followed by the next one and neither push a   *)
(* code object or a cell nor set one.                                      *)
LEMMA OnwardSupplied ==
    ASSUME IInv, Balanced, Supplied, NEW op \in Straight, Step(op), op \notin {OP_LOAD_CELL, OP_CONST, OP_SET_CELL},
           Evolves(heap, heap'), KeepsCells(heap, heap'), Len(globals') = Len(globals)
    PROVE  Supplied'
<1>1. Byte(0) = op /\ status = "running" /\ ip' = ip + 1 + Operands(op)
      /\ fn' = fn /\ callStack' = callStack
  BY Decoded DEF Step
<1>2. ip' \in Successors(CodeOf(heap, fn), ip)
  BY <1>1, BytesAre, StraightOn
<1> QED BY <1>1, <1>2, PlainSupplied

LEMMA QuietSupplied ==
    ASSUME IInv, Balanced, Supplied, NEW op \in Straight, Step(op), op \notin {OP_LOAD_CELL, OP_CONST, OP_SET_CELL},
           UNCHANGED memory
    PROVE  Supplied'
<1>1. heap' = heap /\ globals' = globals /\ HeapOK(heap)
  BY DEF memory, IInv, MemoryOK
<1> QED BY <1>1, ItselfEvolves, OnwardSupplied

LEMMA Plain ==
    {OP_GET_GLOBAL, OP_GET_LOCAL, OP_GET_CELL, OP_ADD, OP_SUB, OP_MUL, OP_DIV, OP_COMPARE, OP_POP, OP_SET_GLOBAL,
     OP_SET_LOCAL, OP_SCOPE_EXIT, OP_CALL, OP_MAKE_FUNCTION, OP_NEW, OP_GET_PROP, OP_SET_PROP}
      \subseteq Straight \ {OP_LOAD_CELL, OP_CONST, OP_SET_CELL}
BY DEF Straight, OP_CONST, OP_ADD, OP_SUB,
       OP_MUL, OP_DIV, OP_COMPARE, OP_GET_GLOBAL, OP_SET_GLOBAL, OP_POP, OP_GET_LOCAL, OP_SET_LOCAL,
       OP_SCOPE_EXIT, OP_CALL, OP_GET_CELL, OP_SET_CELL, OP_LOAD_CELL, OP_MAKE_FUNCTION, OP_NEW,
       OP_GET_PROP, OP_SET_PROP

LEMMA QuietActions ==
    ASSUME IInv, Balanced, Supplied,
           \/ GetGlobal \/ GetLocal \/ GetCell \/ Sub \/ Mul \/ Compare \/ Pop \/ SetLocal \/ ScopeExit
           \/ CallNative \/ GetProp \/ \E q : Arithmetic(OP_DIV, q)
    PROVE  Supplied'
BY QuietSupplied, Plain DEF GetGlobal, GetLocal, GetCell, Sub, Mul, Compare, Pop, SetLocal, ScopeExit, CallNative,
                            GetProp, Push, Arithmetic

LEMMA JumpsSupplied == ASSUME IInv, Balanced, Supplied, Jmp \/ JmpIfFalse PROVE Supplied'
<1>1. /\ status = "running" /\ Byte(0) \in {OP_JMP, OP_JMP_IF_FALSE}
      /\ ip' = Short(1) \/ (ip' = ip + 3 /\ Byte(0) = OP_JMP_IF_FALSE)
      /\ UNCHANGED <<fn, callStack>> /\ UNCHANGED memory
  BY Decoded DEF Jmp, JmpIfFalse
<1>2. ip' \in Successors(CodeOf(heap, fn), ip)
  BY <1>1, BytesAre, JumpsTo
<1>3. Byte(0) \notin {OP_LOAD_CELL, OP_CONST, OP_SET_CELL}
  BY <1>1 DEF OP_JMP, OP_JMP_IF_FALSE, OP_LOAD_CELL, OP_CONST, OP_SET_CELL
<1>4. heap' = heap /\ globals' = globals /\ HeapOK(heap)
  BY <1>1 DEF memory, IInv, MemoryOK
<1> QED BY <1>1, <1>2, <1>3, <1>4, ItselfEvolves, PlainSupplied

LEMMA SetGlobalSupplied == ASSUME IInv, Balanced, Supplied, SetGlobal PROVE Supplied'
<1>1. Step(OP_SET_GLOBAL) /\ heap' = heap /\ HeapOK(heap) /\ IsSeq(globals)
      /\ globals' = [globals EXCEPT ![Byte(1) + 1].value = peek(0)]
  BY DEF SetGlobal, IInv, MemoryOK
<1>2. Len(globals') = Len(globals)
  <2> DEFINE n == Len(globals)
  <2>1. globals = [i \in 1..n |-> globals[i]] /\ n \in Nat
    BY <1>1, SeqShape
  <2>2. globals' = [i \in 1..n |-> globals'[i]]
    BY <1>1, <2>1
  <2> HIDE DEF n
  <2>3. Len(globals') = n
    BY <2>1, <2>2, FunctionSeq
  <2> QED BY <2>3 DEF n
<1> QED BY <1>1, <1>2, ItselfEvolves, OnwardSupplied, Plain

LEMMA AddSupplied == ASSUME IInv, Balanced, Supplied, Add PROVE Supplied'
<1>1. Step(OP_ADD) /\ HeapOK(heap)
  BY DEF Add, IInv, MemoryOK
<1>2. CASE UNCHANGED memory
  BY <1>1, <1>2, QuietSupplied, Plain
<1>3. CASE /\ MEM(OP_ADD, Append(heap, StringObject(Chars(peek(1)) \o Chars(peek(0)))))
           /\ UNCHANGED <<globals, constantObjects>>
  <2> DEFINE o == StringObject(Chars(peek(1)) \o Chars(peek(0)))
  <2>1. heap' = Append(heap, o) /\ globals' = globals
    BY <1>3 DEF MEM
  <2>2. o.kind \notin {"CODE", "FUNCTION"}
    BY DEF StringObject
  <2> HIDE DEF o
  <2> QED BY <1>1, <2>1, <2>2, AppendEvolves, OnwardSupplied, Plain
<1> QED BY <1>2, <1>3 DEF Add

LEMMA NewSupplied == ASSUME IInv, Balanced, Supplied, New PROVE Supplied'
<1> DEFINE o == InstanceObject(Payload(peek(0)))
<1>1. Step(OP_NEW) /\ HeapOK(heap) /\ heap' = Append(heap, o) /\ globals' = globals
  BY DEF New, MEM, IInv, MemoryOK
<1>2. o.kind \notin {"CODE", "FUNCTION"}
  BY DEF InstanceObject
<1> HIDE DEF o
<1> QED BY <1>1, <1>2, AppendEvolves, OnwardSupplied, Plain

LEMMA SetPropSupplied == ASSUME IInv, Balanced, Supplied, SetProp PROVE Supplied'
<1> DEFINE a == Payload(peek(0))
           prop == Chars(Constant(Byte(1)))
           properties == [p \in DOMAIN heap[a].properties \cup {prop} |->
                            IF p = prop THEN peek(1) ELSE heap[a].properties[p]]
           o == [heap[a] EXCEPT !.properties = properties]
<1>1. Step(OP_SET_PROP) /\ globals' = globals /\ heap' = [heap EXCEPT ![a].properties = properties]
  BY DEF SetProp
<1>2. Byte(0) = OP_SET_PROP /\ ~Undefined
  BY <1>1, Decoded DEF Step
<1>3. Refers(heap, a, "INSTANCE") /\ HeapOK(heap)
  BY <1>2, PeekIsValue, ObjectRefers DEF Undefined, Is, IInv, MemoryOK
<1>4. heap[a] = [kind |-> "INSTANCE", cls |-> heap[a].cls, properties |-> heap[a].properties]
  BY <1>3, ObjectOfHeap
<1> HIDE DEF properties
<1>5. heap' = [heap EXCEPT ![a] = o]
  BY <1>1
<1>6. o.kind = "INSTANCE" /\ heap[a].kind = "INSTANCE" /\ a \in DOMAIN heap
  BY <1>3, <1>4 DEF Refers
<1> HIDE DEF o, a
<1>7. Evolves(heap, heap') /\ KeepsCells(heap, heap')
  BY <1>3, <1>5, <1>6, UpdateEvolves
<1> QED BY <1>1, <1>7, OnwardSupplied, Plain

-----------------------------------------------------------------------------
(* The instructions that push what MAKE_FUNCTION takes *)

LEMMA PushedSlots ==
    ASSUME IInv, NEW v, Replace(0, <<v>>)
    PROVE  /\ SlotOf(stack', sp' - 1) = v /\ sp' - 1 = sp
           /\ PeekOf(stack', sp', 0) = v
           /\ \A k \in Nat : PeekOf(stack', sp', k + 1) = PeekOf(stack, sp, k)
<1>1. sp \in Nat /\ sp' = sp + 1 /\ stack' = Written(sp, <<v>>)
  <2>1. sp \in Nat
    BY VMAssumption DEF IInv, SpInv
  <2>2. stack' = Written(sp - 0, <<v>>) /\ sp' = sp - 0 + 1
    BY SingleSeq DEF Replace
  <2>3. sp - 0 = sp
    BY <2>1
  <2> QED BY <2>1, <2>2, <2>3
<1>2. \A i \in Nat : SlotOf(stack', i) = IF i \in sp..sp THEN <<v>>[i - sp + 1] ELSE SlotOf(stack, i)
  <2>1. sp + 1 - 1 = sp
    BY <1>1
  <2>2. IsSeq(<<v>>) /\ Len(<<v>>) = 1
    BY SingleSeq
  <2>3. \A i \in Nat : SlotOf(Written(sp, <<v>>), i) =
            IF i \in sp..sp + Len(<<v>>) - 1 THEN <<v>>[i - sp + 1] ELSE SlotOf(stack, i)
    BY <1>1, <2>2, WrittenSlots
  <2> QED BY <1>1, <2>1, <2>2, <2>3
<1>3. SlotOf(stack', sp) = v
  <2>1. sp \in sp..sp /\ sp - sp + 1 = 1
    BY <1>1
  <2> QED BY <1>1, <1>2, <2>1, SingleSeq
<1>4. sp' - 1 = sp /\ sp' - 1 - 0 = sp
  BY <1>1
<1>5. ASSUME NEW k \in Nat PROVE PeekOf(stack', sp', k + 1) = PeekOf(stack, sp, k)
  <2>1. sp' - 1 - (k + 1) = sp - 1 - k
    BY <1>1
  <2>2. CASE sp - 1 - k \in Nat
    <3>1. sp - 1 - k \notin sp..sp
      BY <1>1
    <3> QED BY <1>2, <2>1, <2>2, <3>1 DEF PeekOf
  <2>3. CASE sp - 1 - k \notin Nat
    <3>1. \A n : sp - 1 - k \notin 0..n
      BY <1>1, <2>3
    <3> QED BY <2>1, <3>1 DEF PeekOf, SlotOf
  <2> QED BY <2>2, <2>3
<1> QED BY <1>3, <1>4, <1>5 DEF PeekOf

LEMMA NotNull == ASSUME NEW h, HeapOK(h), NEW a \in DOMAIN h PROVE a # Null
<1>1. DOMAIN h = 1..Len(h) /\ Len(h) \in Nat
  BY SeqShape DEF HeapOK
<1>2. \A n \in 1..Len(h) : n # 0
  BY <1>1
<1> QED BY <1>1, <1>2 DEF Null

LEMMA PushOnward ==
    ASSUME IInv, Balanced, Supplied, NEW op \in {OP_CONST, OP_LOAD_CELL}, NEW v, Push(op, v),
           Learnt_.cells = Known_.cells, Learnt_.loaded \in Nat, Prepared(heap, stack', sp', Learnt_)
    PROVE  Supplied'
<1>1. Byte(0) = op /\ status = "running" /\ ip' = ip + 1 + Operands(op)
      /\ fn' = fn /\ callStack' = callStack /\ heap' = heap /\ globals' = globals
  BY Decoded DEF Push, Step, memory
<1>2. ip' \in Successors(CodeOf(heap, fn), ip)
  <2>1. op \in Straight
    BY TakesNone
  <2> QED BY <1>1, <2>1, BytesAre, StraightOn
<1>3. HeapOK(heap) /\ Known_.cells \in Nat /\ Known_.cells <= Len(heap'[fn].cells)
  BY <1>1, RunningKnown DEF cells
<1> QED BY <1>1, <1>2, <1>3, ItselfEvolves, StepSupplied

LEMMA ConstSupplied == ASSUME IInv, Balanced, Supplied, Const PROVE Supplied'
<1> DEFINE co == CodeOf(heap, fn)
           n == OperandAt(co, ip)
           v == co.constants[n + 1]
<1>1. /\ Push(OP_CONST, Constant(Byte(1))) /\ Byte(0) = OP_CONST /\ status = "running"
  BY Decoded DEF Const, Push, Step
<1>2. /\ HeapOK(heap) /\ CodeOK(heap, co) /\ OpCodeAt(co, ip) = OP_CONST /\ n = Byte(1) /\ co = heap[heap[fn].co]
      /\ Known_ = [cells |-> Known_.cells, loaded |-> Known_.loaded, code |-> Known_.code]
      /\ Known_.loaded \in Nat /\ Prepared(heap, stack, sp, Known_)
  BY <1>1, RunningKnown
<1>3. Push(OP_CONST, v)
  BY <1>1, <1>2 DEF Constant
<1>4. Replace(0, <<v>>)
  BY <1>3 DEF Push
<1> HIDE DEF co, n
<1>5. /\ Holds(stack', sp' - 1, Payload(v)) <=> IsObject(v)
      /\ \A k \in Nat : PeekOf(stack', sp', k + 1) = PeekOf(stack, sp, k)
  BY <1>4, PushedSlots DEF Holds
<1>6. CASE n + 1 \notin Codes(heap, co)
  <2>1. Learnt_ = Nothing(Known_.cells)
    BY <1>2, <1>6, LearntConst DEF Learnt_, co, n
  <2>2. Learnt_.cells = Known_.cells /\ Learnt_.loaded = 0 /\ Unprepared(Learnt_) /\ 0 \in Nat
    BY <2>1, NothingIs DEF Unprepared
  <2> QED BY <1>3, <2>2, UnpreparedIs, PushOnward
<1>7. CASE n + 1 \in Codes(heap, co)
  <2>1. /\ Learnt_.cells = Known_.cells /\ Learnt_.code = Payload(v)
        /\ Learnt_.loaded = IF Known_.code = Null THEN Known_.loaded ELSE 0
    BY <1>2, <1>7, LearntConst DEF Learnt_, co, n
  <2>2. n + 1 \in DOMAIN co.constants /\ IsKind(heap, v, "CODE")
    BY <1>7 DEF Codes
  <2>3. IsObject(v) /\ Payload(v) \in DOMAIN heap
    BY <1>2, <2>2, ObjectRefers DEF CodeOK, AllValues, Refers, IsKind
  <2>4. Learnt_.code # Null
    BY <1>2, <2>1, <2>3, NotNull
  <2> HIDE DEF v
  <2>5. Learnt_.loaded \in Nat
    BY <1>2, <2>1
  <2>6. ASSUME NEW k \in 1..Learnt_.loaded PROVE IsKind(heap, PeekOf(stack', sp', k - Above(Learnt_)), "CELL")
    <3>1. Known_.code = Null /\ k \in 1..Known_.loaded
      <4>1. 1..0 = {}
        OBVIOUS
      <4> QED BY <2>1, <2>6, <4>1
    <3>2. Above(Known_) = 1 /\ Above(Learnt_) = 0
      BY <2>4, <3>1 DEF Above
    <3>3. IsKind(heap, PeekOf(stack, sp, k - 1), "CELL")
      BY <1>2, <3>1, <3>2 DEF Prepared
    <3>4. k - 1 \in Nat /\ k - 1 + 1 = k - 0
      BY <1>2, <3>1
    <3> QED BY <1>5, <3>2, <3>3, <3>4
  <2>7. Prepared(heap, stack', sp', Learnt_)
    BY <1>5, <2>1, <2>3, <2>6 DEF Prepared
  <2> QED BY <1>3, <2>1, <2>5, <2>7, PushOnward
<1> QED BY <1>6, <1>7

LEMMA LoadCellSupplied == ASSUME IInv, Balanced, Supplied, LoadCell PROVE Supplied'
<1> DEFINE v == OBJECT(cells[Byte(1) + 1])
<1>1. /\ Push(OP_LOAD_CELL, v) /\ At_(OP_LOAD_CELL) /\ Byte(0) = OP_LOAD_CELL /\ status = "running"
      /\ ~Undefined /\ Byte(1) \in 0..255
  BY Decoded, Operand, OneOperand DEF LoadCell, Push, Step
<1>2. /\ HeapOK(heap) /\ OpCodeAt(CodeOf(heap, fn), ip) = OP_LOAD_CELL
      /\ Known_ = [cells |-> Known_.cells, loaded |-> Known_.loaded, code |-> Known_.code]
      /\ Known_.loaded \in Nat /\ Prepared(heap, stack, sp, Known_) /\ Len(cells) \in Nat
  BY <1>1, RunningKnown
<1>3. IsKind(heap, v, "CELL")
  <2>1. ~(Byte(1) >= Len(cells))
    BY <1>1 DEF Undefined
  <2>2. Byte(1) < Len(cells)
    BY <1>1, <2>1, CellsIsSeq, InRange
  <2>3. cells[Byte(1) + 1] # Null
    BY <1>1, <2>2 DEF Undefined
  <2>4. Refers(heap, cells[Byte(1) + 1], "CELL")
    BY <1>1, <2>1, <2>3, CellRefers
  <2> QED BY <2>4 DEF IsKind, IsObject, OBJECT, Payload, Refers
<1> HIDE DEF v
<1>4. Replace(0, <<v>>)
  BY <1>1 DEF Push
<1>5. PeekOf(stack', sp', 0) = v /\ \A k \in Nat : PeekOf(stack', sp', k + 1) = PeekOf(stack, sp, k)
  BY <1>4, PushedSlots
<1>6. /\ Learnt_.cells = Known_.cells /\ Learnt_.code = Null
      /\ Learnt_.loaded = IF Known_.code = Null THEN Known_.loaded + 1 ELSE 1
  BY <1>2, LearntLoadCell DEF Learnt_
<1>7. Learnt_.loaded \in Nat
  BY <1>2, <1>6
<1>8. ASSUME NEW k \in 1..Learnt_.loaded PROVE IsKind(heap, PeekOf(stack', sp', k - 1), "CELL")
  <2>1. CASE k = 1
    <3>1. 1 - 1 = 0
      OBVIOUS
    <3> QED BY <1>3, <1>5, <2>1, <3>1
  <2>2. CASE k # 1
    <3>1. Known_.code = Null /\ k - 1 \in 1..Known_.loaded
      <4>1. CASE Known_.code = Null
        BY <1>2, <1>6, <1>8, <2>2, <4>1
      <4>2. CASE Known_.code # Null
        BY <1>6, <1>8, <2>2, <4>2
      <4> QED BY <4>1, <4>2
    <3>2. Above(Known_) = 1
      BY <3>1 DEF Above
    <3>3. IsKind(heap, PeekOf(stack, sp, k - 1 - 1), "CELL")
      BY <1>2, <3>1, <3>2 DEF Prepared
    <3>4. k - 1 - 1 \in Nat /\ k - 1 - 1 + 1 = k - 1
      BY <1>2, <3>1
    <3> QED BY <1>5, <3>3, <3>4
  <2> QED BY <2>1, <2>2
<1>9. Prepared(heap, stack', sp', Learnt_)
  BY <1>6, <1>8 DEF Prepared, Above
<1> QED BY <1>1, <1>6, <1>7, <1>9, PushOnward

-----------------------------------------------------------------------------
(* Cells and functions, as they are made *)

(* A function that has the cells its code captures can have one more. *)
LEMMA OneMoreWhole ==
    ASSUME NEW h, HeapOK(h), NEW g, KeepsCode(h, g), NEW f, Refers(h, f, "FUNCTION"), Whole(h, f),
           NEW a, a # Null, g[f].cells = Append(h[f].cells, a)
    PROVE  /\ Whole(g, f)
           /\ Len(h[f].cells) \in Nat /\ Len(g[f].cells) = Len(h[f].cells) + 1
<1> DEFINE m == Len(h[f].cells)
<1>1. Refers(h, h[f].co, "CODE") /\ IsSeq(h[f].cells)
  BY ObjectOfHeap DEF FunctionOK
<1>2. g[f].co = h[f].co /\ g[h[f].co] = h[h[f].co]
  BY <1>1 DEF KeepsCode, Refers
<1>3. h[h[f].co].freeCount \in Nat
  BY <1>1, ObjectOfHeap DEF CodeOK
<1>4. /\ m \in Nat /\ Len(g[f].cells) = m + 1 /\ DOMAIN g[f].cells = 1..m + 1 /\ DOMAIN h[f].cells = 1..m
      /\ \A k \in 1..m : g[f].cells[k] = h[f].cells[k]
      /\ g[f].cells[m + 1] = a
  BY <1>1, AppendIsSeq
<1>5. h[h[f].co].freeCount <= m
  BY DEF Whole
<1> HIDE DEF m
<1>6. h[h[f].co].freeCount <= m + 1
  BY <1>3, <1>4, <1>5
<1>7. ASSUME NEW k \in 1..m + 1 PROVE g[f].cells[k] # Null
  <2>1. k \in 1..m \/ k = m + 1
    BY <1>4
  <2>2. \A j \in 1..m : h[f].cells[j] # Null
    BY <1>4 DEF Whole
  <2> QED BY <1>4, <2>1, <2>2
<1>8. Whole(g, f)
  BY <1>2, <1>4, <1>6, <1>7 DEF Whole
<1> QED BY <1>4, <1>8 DEF m

LEMMA NewCellEvolves ==
    ASSUME NEW h, HeapOK(h), \A a \in DOMAIN h : h[a].kind = "FUNCTION" => Whole(h, a),
           NEW f, Refers(h, f, "FUNCTION"), NEW v, IsValue(h, v)
    PROVE  LET g == Append([h EXCEPT ![f].cells = Append(@, Len(h) + 1)], CellObject(v)) IN
           /\ Evolves(h, g) /\ KeepsCells(h, g)
           /\ Len(g[f].cells) = Len(h[f].cells) + 1
<1> DEFINE n == Len(h)
           o == [h[f] EXCEPT !.cells = Append(h[f].cells, n + 1)]
           m == [h EXCEPT ![f] = o]
           cell == CellObject(v)
           g == Append(m, cell)
<1>1. [h EXCEPT ![f].cells = Append(@, Len(h) + 1)] = m
  OBVIOUS
<1>2. IsSeq(h) /\ f \in DOMAIN h /\ n \in Nat /\ DOMAIN h = 1..n
      /\ h[f] = [kind |-> "FUNCTION", co |-> h[f].co, cells |-> h[f].cells]
  BY ObjectOfHeap, SeqShape DEF FunctionOK, HeapOK, Refers
<1>3. o.kind = "FUNCTION" /\ h[f].kind = "FUNCTION" /\ o.co = h[f].co /\ o.cells = Append(h[f].cells, n + 1)
  BY <1>2
<1>4. cell.kind = "CELL"
  BY DEF CellObject
<1>5. Grows(h, g)
  BY <1>1, NewCellHeap
<1> HIDE DEF o, cell, n
<1>6. KeepsCode(h, m)
  BY <1>2, <1>3, UpdateKeepsCode
<1>7. IsSeq(m) /\ Len(m) = n /\ DOMAIN m = DOMAIN h /\ m[f] = o /\ \A b \in DOMAIN h : b # f => m[b] = h[b]
  BY <1>2, ExceptIsSeq DEF n
<1> HIDE DEF m
<1>8. Grows(h, m)
  BY <1>3, <1>7 DEF Grows
<1>9. KeepsCode(m, g)
  BY <1>4, <1>7, AppendKeepsCode
<1>10. KeepsCode(h, g)
  BY <1>6, <1>8, <1>9, KeepsOn
<1>11. DOMAIN g = 1..n + 1 /\ g[n + 1] = cell /\ \A i \in 1..n : g[i] = m[i]
  BY <1>7, AppendIsSeq
<1> HIDE DEF g
<1>12. g[f] = o /\ n + 1 # 0
  BY <1>2, <1>7, <1>11
<1>13. Whole(g, f) /\ Len(h[f].cells) \in Nat /\ Len(g[f].cells) = Len(h[f].cells) + 1
  <2>1. n + 1 # Null /\ g[f].cells = Append(h[f].cells, n + 1) /\ Whole(h, f)
    BY <1>2, <1>3, <1>12 DEF Null
  <2> QED BY <1>10, <2>1, OneMoreWhole
<1>14. ASSUME NEW a \in DOMAIN g, g[a].kind = "FUNCTION" PROVE (a \in DOMAIN h /\ g[a] = h[a]) \/ Whole(g, a)
  <2>1. a \in 1..n \/ a = n + 1
    BY <1>2, <1>11
  <2> QED BY <1>2, <1>4, <1>7, <1>11, <1>13, <1>14, <2>1
<1>15. Evolves(h, g)
  BY <1>5, <1>10, <1>14 DEF Evolves
<1>16. ASSUME NEW a \in DOMAIN h, h[a].kind = "FUNCTION"
       PROVE  Len(h[a].cells) \in Nat /\ Len(g[a].cells) \in Nat /\ Len(h[a].cells) <= Len(g[a].cells)
  <2>1. CASE a = f
    <3>1. ASSUME NEW k \in Nat PROVE k + 1 \in Nat /\ k <= k + 1
      OBVIOUS
    <3> QED BY <1>13, <2>1, <3>1
  <2>2. CASE a # f
    <3>1. g[a] = h[a]
      BY <1>2, <1>7, <1>11, <2>2
    <3>2. FunctionOK(h, h[a])
      BY <1>16, ObjectOfHeap DEF Refers
    <3>3. Len(h[a].cells) \in Nat
      BY <3>2, SeqShape DEF FunctionOK
    <3>4. \A k \in Nat : k <= k
      OBVIOUS
    <3> QED BY <3>1, <3>3, <3>4
  <2> QED BY <2>1, <2>2
<1>17. KeepsCells(h, g)
  BY <1>16 DEF KeepsCells
<1> QED BY <1>1, <1>13, <1>15, <1>17 DEF g, cell, n

LEMMA SetCellSupplied == ASSUME IInv, Balanced, Supplied, SetCell PROVE Supplied'
<1>1. /\ Step(OP_SET_CELL) /\ globals' = globals /\ Byte(0) = OP_SET_CELL /\ status = "running"
      /\ ~Undefined /\ Byte(1) \in 0..255 /\ fn' = fn /\ callStack' = callStack
      /\ ip' = ip + 1 + Operands(OP_SET_CELL)
  BY Decoded, Operand, OneOperand DEF SetCell, Step
<1>2. /\ HeapOK(heap) /\ Refers(heap, fn, "FUNCTION") /\ Images(heap, globals)
      /\ Byte(0) = OpCodeAt(CodeOf(heap, fn), ip) /\ Byte(1) = OperandAt(CodeOf(heap, fn), ip)
      /\ Len(cells) \in Nat /\ Known_.cells \in Nat /\ Known_.cells <= Len(cells)
  BY <1>1, RunningKnown
<1>3. ip' \in Successors(CodeOf(heap, fn), ip)
  BY <1>1, <1>2, StraightOn DEF Straight
<1>4. Learnt_ = IF Known_.cells <= Byte(1) THEN Nothing(Known_.cells + 1) ELSE Nothing(Known_.cells)
  BY <1>1, <1>2, LearntSetCell DEF Learnt_
<1>5. /\ Learnt_.cells = IF Known_.cells <= Byte(1) THEN Known_.cells + 1 ELSE Known_.cells
      /\ Learnt_.loaded = 0 /\ Unprepared(Learnt_)
  BY <1>4, NothingIs DEF Unprepared
<1>6. Learnt_.cells \in Nat /\ Learnt_.loaded \in Nat
  BY <1>2, <1>5
<1>7. ASSUME Evolves(heap, heap'), KeepsCells(heap, heap'), Learnt_.cells <= Len(heap'[fn].cells) PROVE Supplied'
  BY <1>1, <1>3, <1>5, <1>6, <1>7, UnpreparedIs, StepSupplied
<1>8. CASE heap' = Append([heap EXCEPT ![fn].cells = Append(@, Len(heap) + 1)], CellObject(peek(0)))
  <2>1. IsValue(heap, peek(0))
    BY PeekIsValue
  <2>2. Evolves(heap, heap') /\ KeepsCells(heap, heap') /\ Len(heap'[fn].cells) = Len(cells) + 1
    BY <1>2, <1>8, <2>1, NewCellEvolves DEF Images, cells
  <2>3. Learnt_.cells <= Len(cells) + 1
    BY <1>2, <1>5
  <2> QED BY <1>7, <2>2, <2>3
<1>9. CASE Byte(1) < Len(cells) /\ heap' = [heap EXCEPT ![cells[Byte(1) + 1]].value = peek(0)]
  <2> DEFINE a == cells[Byte(1) + 1]
             o == [heap[a] EXCEPT !.value = peek(0)]
  <2>1. ~(Byte(1) >= Len(cells))
    <3>1. ASSUME NEW k \in 0..255, NEW m \in Nat, k < m PROVE ~(k >= m)
      BY <3>1
    <3> QED BY <1>1, <1>2, <1>9, <3>1
  <2>2. a # Null
    BY <1>1, <1>9 DEF Undefined
  <2>3. Refers(heap, a, "CELL")
    BY <1>1, <2>1, <2>2, CellRefers DEF Step
  <2>4. heap[a] = [kind |-> "CELL", value |-> heap[a].value]
    BY <1>2, <2>3, ObjectOfHeap
  <2>5. o.kind = "CELL" /\ heap[a].kind = "CELL" /\ a \in DOMAIN heap
    BY <2>3, <2>4 DEF Refers
  <2>6. heap' = [heap EXCEPT ![a] = o]
    BY <1>9
  <2> HIDE DEF o, a
  <2>7. Evolves(heap, heap') /\ KeepsCells(heap, heap')
    BY <1>2, <2>5, <2>6, UpdateEvolves
  <2>8. Len(cells) <= Len(heap'[fn].cells) /\ Len(heap'[fn].cells) \in Nat
    BY <1>2, <2>7 DEF KeepsCells, Refers, cells
  <2>9. Learnt_.cells <= Len(cells)
    <3>1. ASSUME NEW k \in 0..255, NEW m \in Nat, k < m, NEW c \in Nat, c <= m
          PROVE  (IF c <= k THEN c + 1 ELSE c) <= m
      BY <3>1
    <3> QED BY <1>1, <1>2, <1>5, <1>9, <3>1
  <2>10. Learnt_.cells <= Len(heap'[fn].cells)
    BY <1>2, <1>6, <2>8, <2>9
  <2> QED BY <1>7, <2>7, <2>10
<1> QED BY <1>8, <1>9 DEF SetCell, MEM

LEMMA MadeEvolves ==
    ASSUME NEW h, HeapOK(h), NEW o, o.kind = "FUNCTION", Refers(h, o.co, "CODE"),
           h[o.co].freeCount <= Len(o.cells), \A k \in DOMAIN o.cells : o.cells[k] # Null
    PROVE  Evolves(h, Append(h, o)) /\ KeepsCells(h, Append(h, o))
<1> DEFINE g == Append(h, o)
           n == Len(h)
<1>1. /\ DOMAIN h = 1..n /\ DOMAIN g = 1..n + 1 /\ n \in Nat
      /\ \A i \in 1..n : g[i] = h[i]
      /\ g[n + 1] = o
  BY AppendIsSeq DEF HeapOK
<1>2. KeepsCode(h, g)
  BY AppendKeepsCode DEF HeapOK
<1> HIDE DEF g, n
<1>3. Grows(h, g)
  BY <1>1 DEF Grows
<1>4. Whole(g, n + 1)
  BY <1>1 DEF Whole, Refers
<1>5. ASSUME NEW a \in DOMAIN g, a # n + 1 PROVE a \in DOMAIN h /\ g[a] = h[a]
  BY <1>1, <1>5
<1>6. Evolves(h, g)
  BY <1>2, <1>3, <1>4, <1>5 DEF Evolves
<1>7. ASSUME NEW a \in DOMAIN h, h[a].kind = "FUNCTION"
      PROVE  g[a] = h[a] /\ Len(h[a].cells) \in Nat /\ Len(h[a].cells) <= Len(h[a].cells)
  <2>1. g[a] = h[a]
    BY <1>1
  <2>2. FunctionOK(h, h[a])
    BY <1>7, ObjectOfHeap DEF Refers
  <2>3. Len(h[a].cells) \in Nat
    BY <2>2, SeqShape DEF FunctionOK
  <2>4. \A m \in Nat : m <= m
    OBVIOUS
  <2> QED BY <2>1, <2>3, <2>4
<1>8. KeepsCells(h, g)
  BY <1>7 DEF KeepsCells
<1> QED BY <1>6, <1>8 DEF g

(* What MAKE_FUNCTION finds on top of the stack, if it is known. *)
LEMMA Makes ==
    ASSUME IInv, Balanced, Supplied, status = "running", Byte(0) = OP_MAKE_FUNCTION
    PROVE  /\ IsObject(peek(0)) /\ Refers(heap, Payload(peek(0)), "CODE")
           /\ heap[Payload(peek(0))].freeCount <= Byte(1)
           /\ Byte(1) <= Known_.loaded
           /\ \A k \in 1..Known_.loaded : IsKind(heap, peek(k), "CELL")
<1>1. /\ Known_ = KnownOf(heap, CodeOf(heap, fn))[ip] /\ Byte(1) = OperandAt(CodeOf(heap, fn), ip)
      /\ Byte(0) = OpCodeAt(CodeOf(heap, fn), ip)
      /\ Known_.code = Null \/ Refers(heap, Known_.code, "CODE")
      /\ Known_.loaded \in Nat
      /\ Provided(heap, CodeOf(heap, fn), KnownOf(heap, CodeOf(heap, fn)), ip)
      /\ Prepared(heap, stack, sp, Known_)
  BY RunningKnown
<1>2. /\ Known_.code # Null /\ Byte(1) <= Known_.loaded
      /\ heap[Known_.code].freeCount <= Byte(1)
  BY <1>1 DEF Provided
<1>3. Holds(stack, sp - 1, Known_.code)
      /\ \A k \in 1..Known_.loaded : IsKind(heap, PeekOf(stack, sp, k - Above(Known_)), "CELL")
  BY <1>1, <1>2 DEF Prepared
<1>4. Above(Known_) = 0
  BY <1>2 DEF Above
<1>5. \A k : peek(k) = PeekOf(stack, sp, k)
  BY SlotIs DEF peek, PeekOf
<1>6. peek(0) = SlotOf(stack, sp - 1)
  <2>1. sp - 1 - 0 = sp - 1
    BY VMAssumption DEF IInv, SpInv
  <2> QED BY <2>1, <1>5 DEF PeekOf
<1>7. IsObject(peek(0)) /\ Payload(peek(0)) = Known_.code
  BY <1>3, <1>6 DEF Holds
<1>8. ASSUME NEW k \in 1..Known_.loaded PROVE IsKind(heap, peek(k), "CELL")
  <2>1. k - 0 = k
    OBVIOUS
  <2> QED BY <1>3, <1>4, <1>5, <2>1
<1> QED BY <1>1, <1>2, <1>7, <1>8

LEMMA MakeFunctionSupplied == ASSUME IInv, Balanced, Supplied, MakeFunction PROVE Supplied'
<1> DEFINE n == Byte(1)
           code == Payload(peek(0))
           captured == [k \in 1..n |-> Captured(k)]
           made == [kind |-> "FUNCTION", co |-> code, cells |-> captured]
           g == Append(heap, made)
<1>1. Step(OP_MAKE_FUNCTION) /\ globals' = globals /\ HeapOK(heap)
      /\ heap' = Append(heap, [FunctionObject(code) EXCEPT !.cells = captured])
  BY DEF MakeFunction, MEM, IInv, MemoryOK
<1>2. Byte(0) = OP_MAKE_FUNCTION /\ ~Undefined /\ n \in 0..255 /\ status = "running"
  BY <1>1, Decoded, Operand, OneOperand DEF Step
<1>3. Refers(heap, code, "CODE") /\ heap[code].freeCount <= n
  BY <1>2, Makes
<1>4. \A k \in 1..n : IsKind(heap, peek(k), "CELL")
  BY <1>2 DEF Undefined
<1>5. ASSUME NEW k \in 1..n PROVE Captured(k) # Null
  <2>1. Refers(heap, Captured(k), "CELL")
    <3>1. k \in Int
      OBVIOUS
    <3> QED BY <1>4, <3>1, PeekIsValue, ObjectRefers DEF Captured
  <2> QED BY <1>1, <2>1, NotNull DEF Refers
<1>6. [FunctionObject(code) EXCEPT !.cells = captured] = made
  <2> HIDE DEF captured, code
  <2> QED BY DEF FunctionObject
<1>7. DOMAIN captured = 1..n /\ Len(captured) = n /\ \A k \in DOMAIN captured : captured[k] # Null
  <2>1. ASSUME NEW m \in 0..255 PROVE m \in Nat
    OBVIOUS
  <2>2. n \in Nat /\ captured = [k \in 1..n |-> captured[k]]
    BY <1>2, <2>1
  <2>3. \A k \in 1..n : captured[k] # Null
    BY <1>5
  <2> HIDE DEF captured
  <2> QED BY <2>2, <2>3, FunctionSeq
<1>8. made.kind = "FUNCTION" /\ made.co = code /\ made.cells = captured
  OBVIOUS
<1> HIDE DEF made, captured, code, n
<1>9. Evolves(heap, heap') /\ KeepsCells(heap, heap')
  BY <1>1, <1>3, <1>6, <1>7, <1>8, MadeEvolves
<1> QED BY <1>1, <1>9, OnwardSupplied, Plain

-----------------------------------------------------------------------------
(* Calls and returns *)

LEMMA CallEvolves ==
    ASSUME IInv, Balanced, Supplied, Call
    PROVE  LET f == Payload(Callee) IN
           /\ HeapOK(heap) /\ Refers(heap, f, "FUNCTION")
           /\ Evolves(heap, heap')
           /\ \A a \in DOMAIN heap : a # f => heap'[a] = heap[a]
           /\ Len(heap'[f].cells) = CodeOf(heap, f).freeCount
<1> DEFINE f == Payload(Callee)
           n == CodeOf(heap, f).freeCount
           left == Shrunk(heap[f])
           o == [heap[f] EXCEPT !.cells = left]
<1>1. HeapOK(heap) /\ Refers(heap, f, "FUNCTION") /\ Images(heap, globals)
  BY CalleeIsFunction DEF IInv, MemoryOK, Supplied
<1>2. /\ Whole(heap, f) /\ CodeOf(heap, f) = heap[heap[f].co] /\ n \in Nat /\ FunctionOK(heap, heap[f])
      /\ Len(heap[f].cells) \in Nat
  BY <1>1, KnowledgeIs
<1>3. left = [i \in 1..n |-> IF i <= Len(heap[f].cells) THEN heap[f].cells[i] ELSE Null]
  BY <1>2 DEF Shrunk
<1>4. heap' = [heap EXCEPT ![f] = o]
  BY DEF Call
<1>5. heap[f] = [kind |-> "FUNCTION", co |-> heap[f].co, cells |-> heap[f].cells]
  BY <1>2 DEF FunctionOK
<1>6. o.kind = "FUNCTION" /\ o.co = heap[f].co /\ o.cells = left
  BY <1>5
<1>7. n <= Len(heap[f].cells) /\ \A k \in DOMAIN heap[f].cells : heap[f].cells[k] # Null
  BY <1>2 DEF Whole
<1>8. DOMAIN heap[f].cells = 1..Len(heap[f].cells)
  BY <1>2, SeqShape DEF FunctionOK
<1>9. KeepsCode(heap, heap') /\ Grows(heap, heap')
  BY CallKeepsCode, CallHeap
<1> HIDE DEF n, left, o, f
<1>10. DOMAIN left = 1..n /\ Len(left) = n
  <2>1. left = [i \in 1..n |-> left[i]]
    BY <1>3
  <2> QED BY <1>2, <2>1, FunctionSeq
<1>11. \A k \in DOMAIN left : left[k] # Null
  <2> SUFFICES ASSUME NEW k \in 1..n PROVE left[k] # Null
    BY <1>10
  <2>1. k \in 1..Len(heap[f].cells) /\ k <= Len(heap[f].cells)
    BY <1>2, <1>7
  <2> QED BY <1>3, <1>7, <1>8, <2>1
<1>12. DOMAIN heap' = DOMAIN heap /\ heap'[f] = o /\ \A a \in DOMAIN heap : a # f => heap'[a] = heap[a]
  BY <1>1, <1>4, ExceptIsSeq DEF HeapOK, Refers
<1>13. Whole(heap', f)
  <2>1. heap'[heap[f].co] = heap[heap[f].co]
    BY <1>2, <1>9 DEF FunctionOK, KeepsCode, Refers
  <2>2. heap[heap[f].co].freeCount = n
    BY <1>2 DEF n
  <2>3. \A m \in Nat : m <= m
    OBVIOUS
  <2> QED BY <1>2, <1>6, <1>10, <1>11, <1>12, <2>1, <2>2, <2>3 DEF Whole
<1>14. Evolves(heap, heap')
  BY <1>9, <1>12, <1>13 DEF Evolves
<1> QED BY <1>1, <1>6, <1>10, <1>12, <1>14 DEF f, n

(* A function that waits still has its cells, when another one is called,  *)
(* and also when it is called itself, if it leaves what it has set.        *)
LEMMA CallLeaves ==
    ASSUME IInv, Balanced, Supplied, Call, NEW f, Refers(heap, f, "FUNCTION"), NEW i,
           Counted(heap, f, i), Unprepared(KnownAt(heap, f, i)), Leaves_(Payload(Callee), f, i)
    PROVE  Counted(heap', f, i) /\ Unprepared(KnownAt(heap', f, i))
<1> DEFINE c == Payload(Callee)
<1>1. /\ HeapOK(heap) /\ Evolves(heap, heap') /\ Images(heap, globals)
      /\ \A a \in DOMAIN heap : a # c => heap'[a] = heap[a]
      /\ Len(heap'[c].cells) = CodeOf(heap, c).freeCount
  BY CallEvolves DEF Supplied
<1>2. CodeOf(heap, c) = heap[heap[c].co]
  BY DEF CodeOf
<1>3. Leaves_(c, f, i)
  OBVIOUS
<1> HIDE DEF c
<1>4. CASE f = c
  <2>1. KnownAt(heap, f, i).cells <= Len(heap'[f].cells)
    BY <1>1, <1>2, <1>3, <1>4 DEF Leaves_, KnownAt
  <2> QED BY <1>1, <2>1, StillCounted DEF Evolves
<1>5. CASE f # c
  <2>1. heap'[f] = heap[f]
    BY <1>1, <1>5 DEF Refers
  <2>2. Len(heap[f].cells) \in Nat
    BY <1>1, KnowledgeIs
  <2>3. \A m \in Nat : m <= m
    OBVIOUS
  <2> QED BY <1>1, <2>1, <2>2, <2>3, StillCounted DEF Evolves
<1> QED BY <1>4, <1>5

LEMMA CallSupplied == ASSUME IInv, Balanced, Supplied, Call, Typed PROVE Supplied'
<1> DEFINE f == Payload(Callee)
           L == Len(callStack)
<1>1. /\ Byte(0) = OP_CALL /\ status = "running" /\ Is(Callee, "FUNCTION") /\ globals' = globals
      /\ callStack' = Append(callStack, Frame) /\ fn' = f /\ ip' = 0
  BY Decoded DEF Call
<1>2. /\ Leaves_(f, fn, ip + 2)
      /\ \A k \in DOMAIN callStack : Leaves_(f, callStack[k].fn, callStack[k].ra)
  BY <1>1 DEF Typed, Is
<1>3. /\ HeapOK(heap) /\ Refers(heap, f, "FUNCTION") /\ Evolves(heap, heap')
      /\ Len(heap'[f].cells) = CodeOf(heap, f).freeCount
  BY CallEvolves
<1>4. AllFit(heap) /\ Images(heap, globals) /\ Len(globals') = Len(globals)
  BY <1>1 DEF Balanced, Supplied
<1>5. Images(heap', globals')
  BY <1>3, <1>4, StillImages
<1>6. Counted(heap', f, 0) /\ Unprepared(KnownAt(heap', f, 0))
  <2> DEFINE co == CodeOf(heap, f)
             known == KnownOf(heap, co)
  <2>1. /\ 0 \in DOMAIN known /\ Weaker(known[0], Nothing(EntryCells(co))) /\ co.freeCount \in Nat
        /\ known[0].loaded \in Nat /\ known[0].cells \in Nat
    BY <1>3, <1>4, KnowledgeIs
  <2>2. KnownOf(heap', CodeOf(heap', f)) = known
    BY <1>3, SameKnown DEF Evolves
  <2> HIDE DEF co, known
  <2>3. known[0].cells <= EntryCells(co) /\ Unprepared(known[0])
    BY <2>1, WeakerNothing
  <2>4. known[0].cells <= co.freeCount
    BY <2>1, <2>3 DEF EntryCells
  <2> QED BY <1>3, <2>1, <2>2, <2>3, <2>4 DEF Counted, KnownAt, co
<1>7. Counted(heap', fn, ip + 2) /\ Unprepared(KnownAt(heap', fn, ip + 2))
  <2> DEFINE co == CodeOf(heap, fn)
             known == KnownOf(heap, co)
  <2>1. /\ Refers(heap, fn, "FUNCTION") /\ Byte(0) = OpCodeAt(co, ip)
        /\ Known_ = known[ip] /\ Known_.cells \in Nat /\ Known_.cells <= Len(cells) /\ Len(cells) \in Nat
        /\ Provided(heap, co, known, ip)
        /\ \A i \in DOMAIN known : known[i].cells \in Nat /\ known[i].loaded \in Nat
    BY <1>1, RunningKnown
  <2>2. ip + 2 \in Successors(co, ip)
    <3>1. Operands(OP_CALL) = 1 /\ ip \in Nat
      BY OneOperand DEF IInv, IpInv
    <3>2. ip + 1 + 1 = ip + 2
      BY <3>1
    <3> QED BY <1>1, <2>1, <3>1, <3>2, StraightOn DEF Straight
  <2>3. Learnt_ = Nothing(Known_.cells)
    <3>1. OP_CALL \notin {OP_LOAD_CELL, OP_CONST, OP_SET_CELL}
      BY Plain
    <3> QED BY <1>1, <2>1, <3>1, LearntPlain DEF Learnt_
  <2>4. ip + 2 \in DOMAIN known /\ Weaker(known[ip + 2], Nothing(Known_.cells))
    BY <2>1, <2>2, <2>3 DEF Provided, Learnt_
  <2>5. known[ip + 2].cells <= Known_.cells /\ Unprepared(known[ip + 2])
    BY <2>1, <2>4, WeakerNothing
  <2> HIDE DEF co, known
  <2>6. known[ip + 2].cells <= Len(cells)
    BY <2>1, <2>4, <2>5
  <2>7. Counted(heap, fn, ip + 2) /\ Unprepared(KnownAt(heap, fn, ip + 2))
    BY <2>4, <2>5, <2>6 DEF Counted, KnownAt, cells, known, co
  <2> QED BY <1>2, <2>1, <2>7, CallLeaves
<1>8. ASSUME NEW k \in DOMAIN callStack
      PROVE  /\ Counted(heap', callStack[k].fn, callStack[k].ra)
             /\ Unprepared(KnownAt(heap', callStack[k].fn, callStack[k].ra))
  <2>1. Refers(heap, callStack[k].fn, "FUNCTION")
    BY DEF IInv, FrameInv, FrameOK
  <2> QED BY <1>2, <2>1, CallLeaves DEF Supplied
<1>9. /\ DOMAIN callStack = 1..L /\ DOMAIN callStack' = 1..L + 1 /\ L \in Nat
      /\ \A i \in 1..L : callStack'[i] = callStack[i]
      /\ callStack'[L + 1] = Frame
  BY <1>1, AppendIsSeq DEF IInv, FrameInv
<1>10. Frame.fn = fn /\ Frame.ra = ip + 2
  BY DEF Frame
<1> HIDE DEF L, f
<1>11. ASSUME NEW k \in DOMAIN callStack'
       PROVE  /\ Counted(heap', callStack'[k].fn, callStack'[k].ra)
              /\ Unprepared(KnownAt(heap', callStack'[k].fn, callStack'[k].ra))
  <2>1. k \in 1..L \/ k = L + 1
    BY <1>9
  <2> QED BY <1>7, <1>8, <1>9, <1>10, <2>1
<1>12. Prepared(heap', stack', sp', KnownAt(heap', f, 0))
  BY <1>6, UnpreparedIs
<1> QED BY <1>1, <1>5, <1>6, <1>11, <1>12 DEF Supplied

LEMMA ReturnSupplied == ASSUME IInv, Balanced, Supplied, Return PROVE Supplied'
<1> DEFINE L == Len(callStack)
           frame == callStack[L]
<1>1. Byte(0) = OP_RETURN /\ ~Undefined
  BY Decoded DEF Return
<1>2. callStack # <<>> /\ IsSeq(callStack)
  BY <1>1 DEF Undefined, IInv, FrameInv
<1>3. /\ ip' = frame.ra /\ fn' = frame.fn /\ heap' = heap /\ globals' = globals
      /\ callStack' = SubSeq(callStack, 1, L - 1)
  BY DEF Return, memory
<1>4. /\ L \in DOMAIN callStack
      /\ \A k \in DOMAIN callStack' : k \in DOMAIN callStack /\ callStack'[k] = callStack[k]
  BY <1>2, <1>3, FrontIsSeq
<1>5. Counted(heap, frame.fn, frame.ra) /\ Unprepared(KnownAt(heap, frame.fn, frame.ra))
  BY <1>4 DEF Supplied
<1>6. Prepared(heap, stack', sp', KnownAt(heap, frame.fn, frame.ra))
  BY <1>5, UnpreparedIs
<1>7. Images(heap, globals)
  BY DEF Supplied
<1> HIDE DEF frame, L
<1>8. ASSUME NEW k \in DOMAIN callStack'
      PROVE  /\ Counted(heap, callStack'[k].fn, callStack'[k].ra)
             /\ Unprepared(KnownAt(heap, callStack'[k].fn, callStack'[k].ra))
  BY <1>4 DEF Supplied
<1> QED BY <1>3, <1>5, <1>6, <1>7, <1>8 DEF Supplied

-----------------------------------------------------------------------------
(* The machine *)

LEMMA EvalSupplied ==
    ASSUME IInv, Balanced, Supplied, status = "running", Eval, HasInstruction => Typed
    PROVE  LinkInv'
<1>1. CASE Fatal \/ Wild \/ GcWild \/ Missing
  BY <1>1 DEF Fatal, Wild, GcWild, Missing, Stop, LinkInv
<1>2. CASE Halt
  BY <1>2 DEF Halt, LinkInv
<1>3. CASE Div
  <2>1. CASE Stop("fraction")
    BY <2>1 DEF Stop, LinkInv
  <2>2. CASE \E q : Arithmetic(OP_DIV, q)
    BY <2>2, QuietActions DEF LinkInv
  <2> QED BY <1>3, <2>1, <2>2 DEF Div
<1>4. CASE \/ GetGlobal \/ GetLocal \/ GetCell \/ Sub \/ Mul \/ Compare \/ Pop \/ SetLocal \/ ScopeExit
           \/ CallNative \/ GetProp
  BY <1>4, QuietActions DEF LinkInv
<1>5. CASE Const \/ LoadCell \/ SetCell \/ MakeFunction
  BY <1>5, ConstSupplied, LoadCellSupplied, SetCellSupplied, MakeFunctionSupplied DEF LinkInv
<1>6. CASE Add \/ New \/ SetProp \/ SetGlobal
  BY <1>6, AddSupplied, NewSupplied, SetPropSupplied, SetGlobalSupplied DEF LinkInv
<1>7. CASE JmpIfFalse \/ Jmp \/ Return
  BY <1>7, JumpsSupplied, ReturnSupplied DEF LinkInv
<1>8. CASE Call
  <2>1. HasInstruction
    BY <1>8 DEF Call, At_
  <2> QED BY <1>8, <2>1, CallSupplied DEF LinkInv
<1> QED BY <1>1, <1>2, <1>3, <1>4, <1>5, <1>6, <1>7, <1>8 DEF Eval

(* What the disassembler has gone over is where execution may come. *)
LEMMA ListedLookedUp ==
    ASSUME NEW co, IsLayout(co, Layout(co)), NEW h, NEW gl, ~Astray(h, gl, co) PROVE LookedUp(h, gl, co)
<1> DEFINE lay == Layout(co)
<1> SUFFICES ASSUME NEW i \in DOMAIN lay, OpCodeAt(co, i) \in Indexed
             PROVE  ~OutOfRange(h, gl, co, OpCodeAt(co, i), OperandAt(co, i))
  BY DEF LookedUp
<1>1. i \in disassemble(co) /\ Entire(co, i)
  <2> HIDE DEF lay
  <2>1. IsLayout(co, lay)
    BY DEF lay
  <2> QED BY <2>1 DEF IsLayout, Carried
<1> DEFINE op == co.code[i + 1]
<1>2. op = OpCodeAt(co, i) /\ co.code[i + 2] = OperandAt(co, i)
  BY DEF OpCodeAt, OperandAt
<1> HIDE DEF op, lay
<1>3. IsOpCode(op) /\ Operands(op) = 1
  BY <1>2, OneOperand DEF IsOpCode, Indexed, Locals, Globals, Cells, Properties
<1>4. i + 1 < Len(co.code)
  BY <1>1, <1>2, <1>3 DEF Entire
<1>5. ~(op \in Indexed /\ i + 1 < Len(co.code) /\ OutOfRange(h, gl, co, op, co.code[i + 2]))
  BY <1>1, <1>3 DEF Astray, op
<1> QED BY <1>2, <1>4, <1>5

LEMMA ListedSupplied ==
    ASSUME IInv, FramesInv, Listed, status' = "running" => Verified /\ Linked PROVE LinkInv'
<1>1. /\ status = "compiled" /\ heap' = heap /\ globals' = globals
      /\ UNCHANGED <<stack, sp, ip, fn, callStack>>
  BY DEF Listed, memory
<1>2. callStack = <<>> /\ ip = 0 /\ HeapOK(heap) /\ Refers(heap, fn, "FUNCTION")
  BY <1>1 DEF FramesInv, IInv, MemoryOK, FnInv
<1> SUFFICES ASSUME status' = "running" PROVE Supplied'
  BY DEF LinkInv
<1>3. Verified /\ Linked
  OBVIOUS
<1>4. Images(heap, globals)
  BY <1>3, ListedLookedUp DEF Images, Linked, Verified
<1> DEFINE co == CodeOf(heap, fn)
           known == KnownOf(heap, co)
<1>5. EntryDepth(co) = 0
  BY <1>3 DEF Verified, RunningCode, CodeOf
<1>6. /\ 0 \in DOMAIN known /\ Weaker(known[0], Nothing(EntryCells(co)))
      /\ known[0].loaded \in Nat /\ known[0].cells \in Nat /\ Len(heap[fn].cells) \in Nat
  BY <1>2, <1>4, KnowledgeIs
<1>7. Counted(heap, fn, 0) /\ Unprepared(KnownAt(heap, fn, 0))
  <2> HIDE DEF co, known
  <2>1. known[0].cells <= 0 /\ Unprepared(known[0])
    BY <1>5, <1>6, WeakerNothing DEF EntryCells
  <2>2. known[0].cells <= Len(heap[fn].cells)
    BY <1>6, <2>1
  <2> QED BY <1>6, <2>1, <2>2 DEF Counted, KnownAt, known, co
<1>8. Prepared(heap, stack, sp, KnownAt(heap, fn, 0))
  BY <1>7, UnpreparedIs
<1> HIDE DEF co, known
<1> QED BY <1>1, <1>2, <1>4, <1>7, <1>8, EmptySeq DEF Supplied

LEMMA LinkStep ==
    ASSUME IInv, FramesInv, LinkInv, [DefinedNext]_machineVars PROVE LinkInv'
<1>1. CASE Load
  BY <1>1 DEF Load, LinkInv
<1>2. CASE Listed /\ (status' = "running" => Verified /\ Linked)
  BY <1>2, ListedSupplied
<1>3. CASE Eval /\ (HasInstruction => Typed)
  <2>1. status = "running"
    BY <1>3 DEF Eval, Fatal, Wild, GcWild, Missing, Halt, Const, Add, Sub, Mul, Div, Compare, JmpIfFalse,
       Jmp, GetGlobal, SetGlobal, Pop, GetLocal, SetLocal, ScopeExit, CallNative, Call, Return, GetCell,
       SetCell, LoadCell, MakeFunction, New, GetProp, SetProp, Arithmetic, Push, Step, At_, Running
  <2> QED BY <1>3, <2>1, EvalSupplied DEF FramesInv, LinkInv
<1>4. CASE UNCHANGED machineVars
  BY <1>4 DEF machineVars, memory, LinkInv, Supplied
<1> QED BY <1>1, <1>2, <1>3, <1>4 DEF DefinedNext

LEMMA DefinedIsRooted == DefinedSpec => RootedSpec
<1>1. [DefinedNext]_machineVars => [RootedNext]_machineVars
  BY DEF DefinedNext, RootedNext
<1> QED BY <1>1, PTL DEF DefinedSpec, RootedSpec

LEMMA LinkInductive == DefinedSpec => [](IInv /\ FramesInv /\ LifeInv /\ LinkInv)
<1>1. Fresh => LinkInv
  BY DEF Fresh, Idle, LinkInv
<1>2. IInv /\ FramesInv /\ LinkInv /\ [DefinedNext]_machineVars => LinkInv'
  BY LinkStep
<1> QED BY <1>1, <1>2, DefinedIsRooted, LifeInductive, PTL DEF DefinedSpec

-----------------------------------------------------------------------------
(* No instruction is undefined *)

(* The operands of a kind are those that Typed and Orderly speak of. *)
LEMMA KindsApart ==
    ASSUME NEW v
    PROVE  /\ IsNumber(v) => ~IsJunk(v)
           /\ \A kind : Is(v, kind) => ~IsJunk(v)
BY DEF IsNumber, IsJunk, Is, IsKind, IsObject

LEMMA OperandsTyped ==
    ASSUME IInv, Present, Orderly, Typed
    PROVE  LET op == Byte(0) IN
           /\ op \in {OP_ADD, OP_COMPARE, OP_GET_PROP} => ~Unreadable(peek(0))
           /\ op \in {OP_ADD, OP_COMPARE} => ~Unreadable(peek(1))
           /\ op \in {OP_SUB, OP_MUL, OP_DIV} => IsNumber(peek(0)) /\ IsNumber(peek(1))
           /\ op = OP_JMP_IF_FALSE => IsBoolean(peek(0))
           /\ op = OP_NEW => Is(peek(0), "CLASS")
           /\ op = OP_SET_PROP => Is(peek(0), "INSTANCE")
           /\ op = OP_CALL => Is(Callee, "FUNCTION") \/ Is(Callee, "NATIVE")
           /\ op = OP_CALL /\ Is(Callee, "NATIVE") =>
                \A k \in 0..Args(heap[Payload(Callee)].name) - 1 : IsNumber(peek(k))
<1> DEFINE op == Byte(0)
<1>1. ~Stale(peek(0)) /\ ~Stale(peek(1)) /\ (op = OP_CALL => ~Stale(Callee))
  BY DEF Present
<1>2. \A kind : /\ IsKind(heap, peek(0), kind) => Is(peek(0), kind)
                /\ op = OP_CALL /\ IsKind(heap, Callee, kind) => Is(Callee, kind)
  BY <1>1 DEF Is
<1>3. \A kind : Is(Callee, kind) => IsKind(heap, Callee, kind)
  BY DEF Is
<1>4. op \in {OP_ADD, OP_COMPARE} => ~IsJunk(peek(0)) /\ ~IsJunk(peek(1))
  BY KindsApart DEF Orderly, Numbers, Strings
<1>5. op = OP_GET_PROP => ~IsJunk(peek(0))
  BY DEF Typed
<1> HIDE DEF op
<1>6. op \in {OP_ADD, OP_COMPARE, OP_GET_PROP} => ~Unreadable(peek(0))
  BY <1>1, <1>4, <1>5 DEF Unreadable
<1>7. op \in {OP_ADD, OP_COMPARE} => ~Unreadable(peek(1))
  BY <1>1, <1>4 DEF Unreadable
<1> QED BY <1>2, <1>3, <1>6, <1>7 DEF Typed, Numbers, op

(* The indexes that the disassembler has looked up, and those of variables *)
(* in their frame.                                                         *)
LEMMA OperandsInRange ==
    ASSUME IInv, Balanced, Supplied, status = "running"
    PROVE  LET op == Byte(0)
               n == Byte(1)
               constants == heap[heap[fn].co].constants
           IN /\ op \in {OP_CONST, OP_GET_PROP, OP_SET_PROP} => ~(n >= Len(constants))
              /\ op \in {OP_GET_PROP, OP_SET_PROP} => ~(n < Len(constants) /\ ~IsKind(heap, Constant(n), "STRING"))
              /\ op = OP_GET_GLOBAL => ~(n >= Len(globals))
              /\ op \in {OP_GET_LOCAL, OP_SET_LOCAL} => ~(bp + n >= StackLimit)
              /\ op \in {OP_SCOPE_EXIT, OP_CALL} => ~(sp - 1 < n) /\ ~(sp <= n)
              /\ op = OP_RETURN => callStack # <<>>
<1> DEFINE op == Byte(0)
           n == Byte(1)
           co == CodeOf(heap, fn)
<1>1. /\ op = OpCodeAt(co, ip) /\ n = OperandAt(co, ip) /\ HasInstruction
      /\ co = heap[heap[fn].co] /\ CodeOK(heap, co) /\ LookedUp(heap, globals, co) /\ ip \in DOMAIN Layout(co)
  BY RunningKnown
<1>2. op \in Indexed => ~OutOfRange(heap, globals, co, op, n)
  BY <1>1 DEF LookedUp
<1>3. /\ sp \in Nat /\ bp \in Nat
      /\ bp + Takes(op, n) <= sp
      /\ op \in Locals => bp + n < sp
  BY Instruction
<1>4. op \in {OP_CONST, OP_GET_PROP, OP_SET_PROP, OP_GET_GLOBAL, OP_GET_LOCAL, OP_SET_LOCAL, OP_SCOPE_EXIT, OP_CALL}
        => n \in 0..255
  BY <1>1, OneOperand, OperandByte
<1>5. Constant(n) = co.constants[n + 1]
  BY <1>1 DEF Constant
<1>6. op = OP_RETURN => callStack # <<>>
  <2>1. Carried(co, Layout(co), ip)
    BY Running_
  <2>2. op = OP_RETURN => EntryDepth(co) # 0
    BY <1>1, <2>1 DEF Carried
  <2> QED BY <2>2 DEF Balanced
<1>7. sp <= StackLimit
  BY DEF IInv, SpInv
<1>8. op \in {OP_SCOPE_EXIT, OP_CALL} => Takes(op, n) = n + 1
  BY TakesMore
<1> HIDE DEF op, n, co
<1>9. /\ op \in {OP_CONST, OP_GET_PROP, OP_SET_PROP} => ~(n >= Len(co.constants))
      /\ op \in {OP_GET_PROP, OP_SET_PROP} =>
           ~(n < Len(co.constants) /\ ~IsKind(heap, co.constants[n + 1], "STRING"))
      /\ op = OP_GET_GLOBAL => ~(n >= Len(globals))
  BY <1>2 DEF OutOfRange, Indexed, Locals, Globals, Cells, Properties
<1>10. ASSUME NEW k \in 0..255
       PROVE  /\ bp + k < sp => ~(bp + k >= StackLimit)
              /\ bp + (k + 1) <= sp => ~(sp - 1 < k) /\ ~(sp <= k)
  <2>1. sp <= StackLimit /\ StackLimit \in Nat
    BY <1>7, VMAssumption
  <2> QED BY <1>3, <2>1
<1>11. op \in {OP_GET_LOCAL, OP_SET_LOCAL} => ~(bp + n >= StackLimit)
  BY <1>3, <1>4, <1>10 DEF Locals
<1>12. op \in {OP_SCOPE_EXIT, OP_CALL} => ~(sp - 1 < n) /\ ~(sp <= n)
  BY <1>3, <1>4, <1>8, <1>10
<1> QED BY <1>1, <1>5, <1>6, <1>9, <1>11, <1>12 DEF op, n

(* The cells that an instruction asks for *)
LEMMA CellsThere ==
    ASSUME IInv, Balanced, Supplied, Present, status = "running"
    PROVE  LET op == Byte(0) IN
           /\ op \in {OP_GET_CELL, OP_LOAD_CELL} => ~(Byte(1) >= Len(cells))
           /\ op \in {OP_GET_CELL, OP_LOAD_CELL, OP_SET_CELL} => ~(Byte(1) < Len(cells) /\ cells[Byte(1) + 1] = Null)
           /\ op = OP_MAKE_FUNCTION =>
                IsKind(heap, peek(0), "CODE") /\ \A k \in 1..Byte(1) : IsKind(heap, peek(k), "CELL")
<1> DEFINE op == Byte(0)
           n == Byte(1)
           co == CodeOf(heap, fn)
<1>1. /\ op = OpCodeAt(co, ip) /\ n = OperandAt(co, ip) /\ HasInstruction
      /\ co = heap[heap[fn].co] /\ CodeOK(heap, co) /\ Whole(heap, fn) /\ IsSeq(cells) /\ Len(cells) \in Nat
      /\ Known_ = KnownOf(heap, co)[ip] /\ Known_.cells \in Nat /\ Known_.loaded \in Nat
      /\ Known_.cells <= Len(cells)
      /\ Provided(heap, co, KnownOf(heap, co), ip)
  BY RunningKnown
<1>2. op \in {OP_GET_CELL, OP_LOAD_CELL, OP_SET_CELL, OP_MAKE_FUNCTION} => n \in 0..255
  BY <1>1, OneOperand, OperandByte
<1>3. op \in {OP_GET_CELL, OP_LOAD_CELL} => n < Known_.cells
  BY <1>1 DEF Provided
<1>4. \A k \in DOMAIN cells : cells[k] # Null
  BY <1>1 DEF Whole, cells
<1>5. ASSUME op = OP_MAKE_FUNCTION
      PROVE  IsKind(heap, peek(0), "CODE") /\ \A k \in 1..n : IsKind(heap, peek(k), "CELL")
  <2>1. IsObject(peek(0)) /\ Refers(heap, Payload(peek(0)), "CODE")
        /\ n <= Known_.loaded /\ \A k \in 1..Known_.loaded : IsKind(heap, peek(k), "CELL")
    BY <1>5, Makes
  <2> HIDE DEF n
  <2>2. 1..n \subseteq 1..Known_.loaded
    <3>1. ASSUME NEW k \in 0..255, NEW m \in Nat, k <= m PROVE 1..k \subseteq 1..m
      BY <3>1
    <3>2. n \in 0..255 /\ Known_.loaded \in Nat /\ n <= Known_.loaded
      BY <1>1, <1>2, <1>5, <2>1
    <3> QED BY <3>1, <3>2
  <2> QED BY <2>1, <2>2 DEF IsKind, Refers
<1> HIDE DEF op, n, co
<1>6. ASSUME NEW k \in 0..255, k < Known_.cells PROVE ~(k >= Len(cells))
  <2>1. ASSUME NEW c \in Nat, NEW m \in Nat, c <= m, k < c PROVE ~(k >= m)
    BY <2>1
  <2> QED BY <1>1, <1>6, <2>1
<1>7. ASSUME NEW k \in 0..255, k < Len(cells) PROVE cells[k + 1] # Null
  <2>1. ~(k >= Len(cells))
    <3>1. ASSUME NEW m \in Nat, k < m PROVE ~(k >= m)
      BY <3>1
    <3> QED BY <1>1, <1>7, <3>1
  <2> QED BY <1>1, <1>4, <2>1, InRange
<1>8. op \in {OP_GET_CELL, OP_LOAD_CELL} => ~(n >= Len(cells))
  BY <1>2, <1>3, <1>6
<1>9. op \in {OP_GET_CELL, OP_LOAD_CELL, OP_SET_CELL} => ~(n < Len(cells) /\ cells[n + 1] = Null)
  BY <1>2, <1>7
<1> QED BY <1>5, <1>8, <1>9 DEF op, n

LEMMA NotUndefined ==
    ASSUME IInv, FramesInv, LifeInv, LinkInv, status = "running", Orderly, Typed PROVE ~Undefined
<1>1. Present /\ Balanced /\ Supplied
  BY AllPresent DEF FramesInv, LinkInv
<1>2. fn \notin freed /\ (Byte(0) \in {OP_GET_CELL, OP_SET_CELL} =>
         (Byte(1) < Len(cells) => cells[Byte(1) + 1] \notin freed))
  BY <1>1 DEF Present
<1> QED BY <1>1, <1>2, OperandsTyped, OperandsInRange, CellsThere DEF Undefined

LEMMA StaysDefined ==
    ASSUME IInv, FramesInv, LifeInv, LinkInv, CollectionsDefined, NeverUndefined, [DefinedNext]_machineVars
    PROVE  NeverUndefined'
<1>1. CASE Load
  BY <1>1 DEF Load, NeverUndefined
<1>2. CASE Listed /\ status' # "undefined"
  BY <1>2 DEF NeverUndefined
<1>3. CASE Eval /\ (HasInstruction => Orderly /\ Typed)
  <2>1. status = "running"
    BY <1>3 DEF Eval, Fatal, Wild, GcWild, Missing, Halt, Const, Add, Sub, Mul, Div, Compare, JmpIfFalse,
       Jmp, GetGlobal, SetGlobal, Pop, GetLocal, SetLocal, ScopeExit, CallNative, Call, Return, GetCell,
       SetCell, LoadCell, MakeFunction, New, GetProp, SetProp, Arithmetic, Push, Step, At_, Running
  <2>2. ~Wild
    <3>1. HasInstruction
      BY <2>1, Instruction DEF FramesInv
    <3>2. ~Undefined
      BY <1>3, <2>1, <3>1, NotUndefined
    <3> QED BY <3>1, <3>2 DEF Wild
  <2>3. ~GcWild
    BY DEF GcWild, CollectionsDefined
  <2>4. status' # "undefined"
    BY <1>3, <2>1, <2>2, <2>3 DEF Eval, Fatal, Missing, Halt, Const, Add, Sub, Mul, Div, Compare, JmpIfFalse,
       Jmp, GetGlobal, SetGlobal, Pop, GetLocal, SetLocal, ScopeExit, CallNative, Call, Return, GetCell,
       SetCell, LoadCell, MakeFunction, New, GetProp, SetProp, Arithmetic, Push, Stop
  <2> QED BY <2>4 DEF NeverUndefined
<1>4. CASE UNCHANGED machineVars
  BY <1>4 DEF machineVars, NeverUndefined
<1> QED BY <1>1, <1>2, <1>3, <1>4 DEF DefinedNext

(* Whatever programs are given, one after the other, to a machine whose    *)
(* code has layouts, keeps its callees, and has had its indexes and cells  *)
(* looked up (Linked): none does what C++ leaves undefined as it runs, as  *)
(* long as the operands are of the types the instructions take, captured   *)
(* variables hold no object made at run time, and no function is called    *)
(* again while it counts on cells it has set for itself.                   *)
THEOREM NothingUndefined == DefinedSpec => []NeverUndefined
<1>1. IInv /\ FramesInv /\ LifeInv /\ LinkInv /\ CollectionsDefined /\ NeverUndefined /\ [DefinedNext]_machineVars
        => NeverUndefined'
  BY StaysDefined
<1>2. Fresh => NeverUndefined
  BY DEF Fresh, Idle, NeverUndefined
<1>3. DefinedSpec => []CollectionsDefined
  BY DefinedIsRooted, CollectionsAreDefined, PTL
<1> QED BY <1>1, <1>2, <1>3, LinkInductive, PTL DEF DefinedSpec
=============================================================================
