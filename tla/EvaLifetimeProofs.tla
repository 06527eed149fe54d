-------------------------- MODULE EvaLifetimeProofs ---------------------------
(***************************************************************************)
(* No collection takes what a machine goes on to use, if the compiler does *)
(* its part.                                                               *)
(*                                                                         *)
(* The invariant: what an object in memory refers to is there as well, and *)
(* is a constant if the collector does not follow the reference (HeapSafe, *)
(* C for the constants, F for what is gone); no global (GlobalsSafe) and   *)
(* no slot below sp (Live) refers to what is gone.  That is not enough for *)
(* the functions that run, which no root of the collector names: each is   *)
(* in the slot where its frame begins, except the globals' code and,       *)
(* before a RETURN, the one that returns (Anchored).  It is inductive only *)
(* with those of EvaVMProofs and EvaCertificateProofs, which say what the  *)
(* slots hold and that no function writes below its own frame.             *)
(***************************************************************************)
EXTENDS EvaLifetime, EvaCertificateProofs, FiniteSetTheorems

-----------------------------------------------------------------------------
(* What mark() reaches *)

Closed(T, P) == \A o \in T : P[o] \subseteq T
Least(D, P, S) == {o \in D : \A T \in SUBSET D : S \subseteq T /\ Closed(T, P) => o \in T}
Extended(S, P) == S \cup UNION {P[o] : o \in S}
Marks(D, P, mark) ==
    mark = [seen \in SUBSET D |-> IF Extended(seen, P) = seen THEN seen ELSE mark[Extended(seen, P)]]

LEMMA LeastShape ==
    ASSUME NEW D, NEW P \in [D -> SUBSET D], NEW S \in SUBSET D
    PROVE  /\ Extended(S, P) \in SUBSET D /\ S \subseteq Extended(S, P)
           /\ Least(D, P, S) \in SUBSET D /\ S \subseteq Least(D, P, S) /\ Closed(Least(D, P, S), P)
           /\ Extended(S, P) = S => Least(D, P, S) = S
           /\ Least(D, P, Extended(S, P)) = Least(D, P, S)
<1>1. Extended(S, P) \in SUBSET D /\ S \subseteq Extended(S, P)
  BY DEF Extended
<1>2. Least(D, P, S) \in SUBSET D /\ S \subseteq Least(D, P, S)
  BY DEF Least
<1>3. Closed(Least(D, P, S), P)
  <2> SUFFICES ASSUME NEW o \in Least(D, P, S), NEW d \in P[o] PROVE d \in Least(D, P, S)
    BY DEF Closed
  <2>1. o \in D /\ d \in D
    BY <1>2
  <2>2. ASSUME NEW T \in SUBSET D, S \subseteq T, Closed(T, P) PROVE d \in T
    <3>1. o \in T
      BY <2>2 DEF Least
    <3> QED BY <2>2, <3>1 DEF Closed
  <2> QED BY <2>1, <2>2 DEF Least
<1>4. ASSUME Extended(S, P) = S PROVE Least(D, P, S) = S
  <2>1. Closed(S, P)
    BY <1>4 DEF Extended, Closed
  <2> QED BY <2>1 DEF Least
<1>5. ASSUME NEW T \in SUBSET D, Closed(T, P) PROVE S \subseteq T <=> Extended(S, P) \subseteq T
  BY <1>5 DEF Closed, Extended
<1>6. Least(D, P, Extended(S, P)) = Least(D, P, S)
  BY <1>5 DEF Least
<1> QED BY <1>1, <1>2, <1>3, <1>4, <1>6

(* The recursion of mark() has a solution. *)
LEMMA MarksExists ==
    ASSUME NEW D, NEW P \in [D -> SUBSET D] PROVE \E mark : Marks(D, P, mark)
<1> DEFINE least == [S \in SUBSET D |-> Least(D, P, S)]
<1>1. ASSUME NEW S \in SUBSET D
      PROVE  Least(D, P, S) = IF Extended(S, P) = S THEN S ELSE least[Extended(S, P)]
  <2>1. Extended(S, P) \in SUBSET D /\ Least(D, P, Extended(S, P)) = Least(D, P, S)
        /\ (Extended(S, P) = S => Least(D, P, S) = S)
    BY LeastShape
  <2> QED BY <2>1
<1>2. Marks(D, P, least)
  BY <1>1, Zenon DEF Marks
<1> HIDE DEF least
<1> QED BY <1>2

(* Every solution ends with the least set that holds what it began with    *)
(* and is closed: each step that is not the last adds to it.               *)
LEMMA MarksLeast ==
    ASSUME NEW D, IsFiniteSet(D), NEW P \in [D -> SUBSET D], NEW mark, Marks(D, P, mark),
           NEW R \in SUBSET D
    PROVE  mark[R] = Least(D, P, R)
<1> DEFINE Wrong == {C \in SUBSET D : mark[D \ C] # Least(D, P, D \ C)}
<1>1. SUFFICES Wrong = {}
  <2>1. D \ (D \ R) = R /\ D \ R \in SUBSET D
    OBVIOUS
  <2> QED BY <1>1, <2>1
<1>2. SUFFICES ASSUME Wrong # {} PROVE FALSE
  OBVIOUS
<1>3. PICK C \in Wrong : \A B \in Wrong : ~ (<<B, C>> \in StrictSubsetOrdering(D))
  <2>1. FiniteSubsetsOf(D) = SUBSET D
    BY FS_FiniteSubsetsOfFinite
  <2>2. IsWellFoundedOn(StrictSubsetOrdering(D), SUBSET D)
    BY <2>1, FS_StrictSubsetOrderingWellFounded
  <2>3. Wrong \subseteq SUBSET D
    OBVIOUS
  <2> HIDE DEF Wrong
  <2> QED BY <1>2, <2>2, <2>3, WFMin
<1> DEFINE S == D \ C
           more == Extended(S, P)
           B == D \ more
<1>4. S \in SUBSET D /\ mark[S] # Least(D, P, S) /\ C \in SUBSET D
  OBVIOUS
<1>5. mark[S] = IF more = S THEN S ELSE mark[more]
  <2> HIDE DEF S
  <2> QED BY <1>4 DEF Marks
<1>6. /\ more \in SUBSET D /\ S \subseteq more
      /\ more = S => Least(D, P, S) = S
      /\ Least(D, P, more) = Least(D, P, S)
  <2> HIDE DEF S
  <2> QED BY <1>4, LeastShape
<1>7. more # S
  BY <1>4, <1>5, <1>6
<1>8. mark[more] # Least(D, P, more)
  BY <1>4, <1>5, <1>6, <1>7
<1> HIDE DEF more
<1>9. D \ B = more /\ B \in SUBSET D /\ B \subseteq C /\ B # C
  BY <1>4, <1>6, <1>7
<1>10. B \in Wrong
  BY <1>8, <1>9
<1>11. <<B, C>> \in StrictSubsetOrdering(D)
  BY <1>4, <1>9 DEF StrictSubsetOrdering
<1> QED BY <1>3, <1>10, <1>11

-----------------------------------------------------------------------------
(* References *)

Pointers(o) ==
    CASE o.kind = "FUNCTION" -> {o.cells[k] : k \in DOMAIN o.cells} \ {Null}
      [] o.kind = "INSTANCE" -> Referenced({o.properties[p] : p \in DOMAIN o.properties})
      [] OTHER -> {}

LEMMA PointersByKind ==
    ASSUME NEW o
    PROVE  /\ o.kind = "FUNCTION" => Pointers(o) = {o.cells[k] : k \in DOMAIN o.cells} \ {Null}
           /\ o.kind = "INSTANCE" => Pointers(o) = Referenced({o.properties[p] : p \in DOMAIN o.properties})
           /\ o.kind \notin {"FUNCTION", "INSTANCE"} => Pointers(o) = {}
BY DEF Pointers

LEMMA NotTracedByKind ==
    ASSUME NEW o
    PROVE  /\ o.kind = "FUNCTION" => NotTraced(o) = {o.co}
           /\ o.kind = "CODE" => NotTraced(o) = Referenced({o.constants[k] : k \in DOMAIN o.constants})
           /\ o.kind = "CELL" => NotTraced(o) = Referenced({o.value})
           /\ o.kind = "INSTANCE" => NotTraced(o) = {o.cls}
           /\ o.kind = "CLASS" => Referenced({o.properties[p] : p \in DOMAIN o.properties}) \subseteq NotTraced(o)
           /\ o.kind \notin {"FUNCTION", "CODE", "CELL", "INSTANCE", "CLASS"} => NotTraced(o) = {}
BY DEF NotTraced

Gone(v, F) == IsObject(v) /\ Payload(v) \in F

LEMMA PointersAre == \A a : getPointers(a) = Pointers(heap[a])
BY DEF getPointers, Pointers

LEMMA ReferencedOne ==
    ASSUME NEW v, NEW A
    PROVE  /\ Referenced({v}) \subseteq A <=> (IsObject(v) => Payload(v) \in A)
           /\ Referenced({v}) \cap A = {} <=> ~Gone(v, A)
BY DEF Referenced, Gone

LEMMA ReferencedAll ==
    ASSUME NEW f, NEW A
    PROVE  /\ Referenced({f[i] : i \in DOMAIN f}) \subseteq A
                <=> \A i \in DOMAIN f : IsObject(f[i]) => Payload(f[i]) \in A
           /\ Referenced({f[i] : i \in DOMAIN f}) \cap A = {} <=> \A i \in DOMAIN f : ~Gone(f[i], A)
<1>1. Referenced({f[i] : i \in DOMAIN f}) = {Payload(f[i]) : i \in {j \in DOMAIN f : IsObject(f[j])}}
  BY DEF Referenced
<1> QED BY <1>1 DEF Gone

LEMMA StaleIsGone == \A v : Stale(v) <=> Gone(v, freed)
BY DEF Stale, Gone

LEMMA ObjectValue ==
    ASSUME NEW h, NEW v, IsValue(h, v), IsObject(v) PROVE Payload(v) \in DOMAIN h
BY DEF IsValue, IsObject, Payload

LEMMA PointersInHeap ==
    ASSUME NEW h, HeapOK(h), NEW a \in DOMAIN h
    PROVE  Pointers(h[a]) \subseteq DOMAIN h
<1> DEFINE o == h[a]
<1>1. Refers(h, a, o.kind)
  BY DEF Refers
<1> SUFFICES Pointers(o) \subseteq DOMAIN h
  OBVIOUS
<1>2. CASE o.kind = "FUNCTION"
  <2>1. FunctionOK(h, o)
    BY <1>1, <1>2, ObjectOfHeap
  <2> HIDE DEF o
  <2>2. \A k \in DOMAIN o.cells : o.cells[k] = Null \/ o.cells[k] \in DOMAIN h
    BY <2>1 DEF FunctionOK, Refers
  <2>3. Pointers(o) = {o.cells[k] : k \in DOMAIN o.cells} \ {Null}
    BY <1>2, PointersByKind
  <2> QED BY <2>2, <2>3
<1>3. CASE o.kind = "INSTANCE"
  <2>1. AllValues(h, o.properties)
    BY <1>1, <1>3, ObjectOfHeap
  <2>2. \A p \in DOMAIN o.properties : IsObject(o.properties[p]) => Payload(o.properties[p]) \in DOMAIN h
    BY <2>1, ObjectValue DEF AllValues
  <2> HIDE DEF o
  <2>3. Pointers(o) = Referenced({o.properties[p] : p \in DOMAIN o.properties})
    BY <1>3, PointersByKind
  <2>4. Referenced({o.properties[p] : p \in DOMAIN o.properties}) \subseteq DOMAIN h
    BY <2>2, ReferencedAll
  <2> QED BY <2>3, <2>4
<1>4. CASE o.kind # "FUNCTION" /\ o.kind # "INSTANCE"
  BY <1>4, PointersByKind
<1> QED BY <1>2, <1>3, <1>4

-----------------------------------------------------------------------------
(* What is marked, of the heap as it is *)

LEMMA MarkedIsLeast ==
    ASSUME HeapOK(heap), NEW top, getGCRoots(top) \subseteq DOMAIN heap
    PROVE  /\ Marked(top) \subseteq DOMAIN heap /\ getGCRoots(top) \subseteq Marked(top)
           /\ \A o \in Marked(top) : Pointers(heap[o]) \subseteq Marked(top)
           /\ \A T \in SUBSET DOMAIN heap :
                 getGCRoots(top) \subseteq T /\ (\A o \in T : Pointers(heap[o]) \subseteq T)
                   => Marked(top) \subseteq T
<1> DEFINE D == DOMAIN heap
           P == [o \in D |-> Pointers(heap[o])]
           R == getGCRoots(top)
           mark == CHOOSE mark : mark =
             [seen \in SUBSET DOMAIN heap |->
                LET more == seen \cup UNION {getPointers(o) : o \in seen}
                IN IF more = seen THEN seen ELSE mark[more]]
<1>1. IsFiniteSet(D)
  <2>1. D = 1..Len(heap) /\ Len(heap) \in Nat
    BY SeqShape DEF HeapOK
  <2> QED BY <2>1, FS_Interval
<1>2. P \in [D -> SUBSET D]
  BY PointersInHeap
<1>3. ASSUME NEW S \in SUBSET D PROVE S \cup UNION {getPointers(o) : o \in S} = Extended(S, P)
  BY PointersAre DEF Extended
<1>4. Marks(D, P, mark)
  <2>1. \E m : Marks(D, P, m)
    BY <1>2, MarksExists
  <2>2. \A m : Marks(D, P, m) <=>
           m = [seen \in SUBSET DOMAIN heap |->
                  LET more == seen \cup UNION {getPointers(o) : o \in seen}
                  IN IF more = seen THEN seen ELSE m[more]]
    <3> TAKE m
    <3>1. \A S \in SUBSET D :
             (IF Extended(S, P) = S THEN S ELSE m[Extended(S, P)]) =
             LET more == S \cup UNION {getPointers(o) : o \in S} IN IF more = S THEN S ELSE m[more]
      BY <1>3
    <3> HIDE DEF P
    <3> QED BY <3>1 DEF Marks
  <2> HIDE DEF P
  <2> QED BY <2>1, <2>2
<1>5. Marked(top) = mark[R]
  BY DEF Marked
<1> HIDE DEF mark
<1>6. R \in SUBSET D
  OBVIOUS
<1>7. Marked(top) = Least(D, P, R)
  BY <1>1, <1>2, <1>4, <1>5, <1>6, MarksLeast
<1>8. /\ Least(D, P, R) \in SUBSET D /\ R \subseteq Least(D, P, R) /\ Closed(Least(D, P, R), P)
  BY <1>2, <1>6, LeastShape
<1>9. \A T \in SUBSET D : Closed(T, P) <=> \A o \in T : Pointers(heap[o]) \subseteq T
  BY DEF Closed
<1>10. \A T \in SUBSET D : R \subseteq T /\ Closed(T, P) => Least(D, P, R) \subseteq T
  BY DEF Least
<1> QED BY <1>7, <1>8, <1>9, <1>10

-----------------------------------------------------------------------------
(* The memory that a collection leaves *)

(* What an object in memory refers to is there, C the constants and F what *)
(* has been taken back.                                                    *)
Sound(o, C, F) == NotTraced(o) \subseteq C /\ Pointers(o) \cap F = {}

HeapSafe(h, C, F) ==
    /\ C \cap F = {}
    /\ \A a \in DOMAIN h : h[a].kind \in {"CODE", "CLASS"} => a \in C
    /\ \A a \in DOMAIN h \ F : Sound(h[a], C, F)

GlobalsSafe(gl, F) == \A i \in DOMAIN gl : ~Gone(gl[i].value, F)

LEMMA AppendSafe ==
    ASSUME NEW h, IsSeq(h), NEW C, NEW F, F \subseteq DOMAIN h, HeapSafe(h, C, F),
           NEW o, o.kind \notin {"CODE", "CLASS"}, Sound(o, C, F)
    PROVE  HeapSafe(Append(h, o), C, F) /\ Len(h) + 1 \notin F /\ Len(Append(h, o)) = Len(h) + 1
<1> DEFINE g == Append(h, o)
<1>1. /\ DOMAIN h = 1..Len(h) /\ DOMAIN g = 1..Len(h) + 1 /\ Len(h) \in Nat /\ Len(g) = Len(h) + 1
      /\ \A i \in 1..Len(h) : g[i] = h[i]
      /\ g[Len(h) + 1] = o
  BY AppendIsSeq
<1> HIDE DEF g
<1>2. ASSUME NEW a \in DOMAIN g PROVE (a \in DOMAIN h /\ g[a] = h[a]) \/ (a \notin DOMAIN h /\ g[a] = o)
  BY <1>1
<1>3. HeapSafe(g, C, F)
  BY <1>2 DEF HeapSafe
<1>4. Len(h) + 1 \notin DOMAIN h
  BY <1>1
<1> QED BY <1>1, <1>3, <1>4 DEF g

LEMMA UpdateSafe ==
    ASSUME NEW h, IsSeq(h), NEW C, NEW F, HeapSafe(h, C, F),
           NEW a \in DOMAIN h, NEW o, o.kind = h[a].kind, a \notin F => Sound(o, C, F)
    PROVE  HeapSafe([h EXCEPT ![a] = o], C, F)
<1> DEFINE g == [h EXCEPT ![a] = o]
<1>1. DOMAIN g = DOMAIN h /\ g[a] = o /\ \A b \in DOMAIN h : b # a => g[b] = h[b]
  BY ExceptIsSeq
<1> HIDE DEF g
<1>2. HeapSafe(g, C, F)
  BY <1>1 DEF HeapSafe
<1> QED BY <1>2 DEF g

SlotOf(st, i) == IF i \in 0..Len(st) - 1 THEN st[i + 1] ELSE Junk
Live(st, n, F) == \A i \in 0..n - 1 : ~Gone(SlotOf(st, i), F)

LEMMA SlotIs == \A i : Slot(i) = SlotOf(stack, i)
BY DEF Slot, SlotOf

(* Nothing that is marked is gone, nor is a root.                          *)
LEMMA MarkedLives ==
    ASSUME IInv, HeapSafe(heap, constantObjects, freed), GlobalsSafe(globals, freed),
           NEW top \in Int, Live(stack, top, freed)
    PROVE  /\ getGCRoots(top) \subseteq DOMAIN heap
           /\ Marked(top) \cap freed = {}
<1>1. HeapOK(heap) /\ constantObjects \subseteq DOMAIN heap
  BY DEF IInv, MemoryOK
<1>2. ASSUME NEW i \in 0..top - 1, IsObject(Slot(i)) PROVE Payload(Slot(i)) \in DOMAIN heap \ freed
  <2>1. IsValue(heap, Slot(i)) /\ ~Gone(Slot(i), freed)
    BY SlotIsValue, SlotIs DEF Live
  <2> QED BY <1>2, <2>1, ObjectValue DEF Gone
<1>3. ASSUME NEW i \in DOMAIN globals, IsObject(globals[i].value)
      PROVE  Payload(globals[i].value) \in DOMAIN heap \ freed
  <2>1. IsValue(heap, globals[i].value) /\ ~Gone(globals[i].value, freed)
    BY DEF IInv, MemoryOK, GlobalOK, GlobalsSafe
  <2> QED BY <1>3, <2>1, ObjectValue DEF Gone
<1>4. constantObjects \subseteq DOMAIN heap \ freed
  BY <1>1 DEF HeapSafe
<1>5. Referenced({Slot(i) : i \in 0..top - 1}) \subseteq DOMAIN heap \ freed
  BY <1>2 DEF Referenced
<1>6. Referenced({globals[i].value : i \in DOMAIN globals}) \subseteq DOMAIN heap \ freed
  BY <1>3 DEF Referenced
<1>7. getGCRoots(top) \subseteq DOMAIN heap \ freed
  BY <1>4, <1>5, <1>6 DEF getGCRoots
<1>8. \A o \in DOMAIN heap \ freed : Pointers(heap[o]) \subseteq DOMAIN heap \ freed
  BY <1>1, PointersInHeap DEF HeapSafe, Sound
<1>9. Marked(top) \subseteq DOMAIN heap \ freed
  BY <1>1, <1>7, <1>8, MarkedIsLeast
<1> QED BY <1>7, <1>9

(* A collection keeps the constants, what the slots below top and the      *)
(* globals refer to, and the references of what it keeps.                  *)
LEMMA CollectionSafe ==
    ASSUME IInv, HeapSafe(heap, constantObjects, freed), GlobalsSafe(globals, freed),
           NEW top \in Int, Live(stack, top, freed), NEW F, F = freed \/ F = DOMAIN heap \ Marked(top)
    PROVE  /\ F \subseteq DOMAIN heap
           /\ HeapSafe(heap, constantObjects, F) /\ GlobalsSafe(globals, F) /\ Live(stack, top, F)
<1>1. CASE F = freed
  BY <1>1 DEF IInv, MemoryOK
<1>2. CASE F = DOMAIN heap \ Marked(top)
  <2> DEFINE M == Marked(top)
  <2>1. HeapOK(heap) /\ getGCRoots(top) \subseteq DOMAIN heap /\ M \cap freed = {}
    BY MarkedLives DEF IInv, MemoryOK
  <2>2. M \subseteq DOMAIN heap /\ getGCRoots(top) \subseteq M /\ \A o \in M : Pointers(heap[o]) \subseteq M
    BY <2>1, MarkedIsLeast
  <2> HIDE DEF M
  <2>3. F = DOMAIN heap \ M
    BY <1>2 DEF M
  <2>4. constantObjects \subseteq M /\ Referenced({Slot(i) : i \in 0..top - 1}) \subseteq M
        /\ Referenced({globals[i].value : i \in DOMAIN globals}) \subseteq M
    BY <2>2 DEF getGCRoots
  <2>5. ASSUME NEW a \in DOMAIN heap \ F PROVE Sound(heap[a], constantObjects, F)
    <3>1. a \in M /\ a \in DOMAIN heap \ freed
      BY <2>1, <2>3
    <3>2. NotTraced(heap[a]) \subseteq constantObjects /\ Pointers(heap[a]) \subseteq M
      BY <2>2, <3>1 DEF HeapSafe, Sound
    <3> QED BY <2>3, <3>2 DEF Sound
  <2>6. HeapSafe(heap, constantObjects, F)
    BY <2>3, <2>4, <2>5 DEF HeapSafe
  <2>7. GlobalsSafe(globals, F)
    <3> SUFFICES ASSUME NEW i \in DOMAIN globals, IsObject(globals[i].value), Payload(globals[i].value) \in F
                 PROVE  FALSE
      BY DEF GlobalsSafe, Gone
    <3>1. Payload(globals[i].value) \in M
      BY <2>4 DEF Referenced
    <3> QED BY <2>3, <3>1
  <2>8. Live(stack, top, F)
    <3> SUFFICES ASSUME NEW i \in 0..top - 1, IsObject(Slot(i)), Payload(Slot(i)) \in F PROVE FALSE
      BY SlotIs DEF Live, Gone
    <3>1. Payload(Slot(i)) \in M
      BY <2>4 DEF Referenced
    <3> QED BY <2>3, <3>1
  <2> QED BY <2>3, <2>6, <2>7, <2>8
<1> QED BY <1>1, <1>2

-----------------------------------------------------------------------------
(* The slots that an instruction writes *)

LEMMA WrittenSlots ==
    ASSUME IInv, NEW base \in Nat, NEW vs, IsSeq(vs), NEW i \in Nat
    PROVE  SlotOf(Written(base, vs), i) =
             IF i \in base..base + Len(vs) - 1 THEN vs[i - base + 1] ELSE SlotOf(stack, i)
<1> DEFINE m == IF base + Len(vs) > Len(stack) THEN base + Len(vs) ELSE Len(stack)
           W == Written(base, vs)
<1>1. Len(vs) \in Nat /\ DOMAIN vs = 1..Len(vs) /\ Len(stack) \in Nat
  BY SeqShape DEF IInv, StackInv
<1>2. m \in Nat /\ base + Len(vs) <= m /\ Len(stack) <= m
  BY <1>1
<1>3. W = [k \in 1..m |-> IF k \in base + 1 .. base + Len(vs) THEN vs[k - base] ELSE Slot(k - 1)]
  BY DEF Written
<1> HIDE DEF m, W
<1>4. W = [k \in 1..m |-> W[k]]
  BY <1>3
<1>5. Len(W) = m
  BY <1>2, <1>4, FunctionSeq
<1>6. CASE i < m
  <2>1. SlotOf(W, i) = W[i + 1] /\ i + 1 \in 1..m
    BY <1>2, <1>5, <1>6 DEF SlotOf
  <2>2. i + 1 \in base + 1 .. base + Len(vs) <=> i \in base..base + Len(vs) - 1
    BY <1>1
  <2>3. i + 1 - base = i - base + 1 /\ i + 1 - 1 = i
    OBVIOUS
  <2> QED BY <1>3, <2>1, <2>2, <2>3, SlotIs DEF W
<1>7. CASE ~(i < m)
  <2>1. i \notin base..base + Len(vs) - 1 /\ i \notin 0..Len(stack) - 1 /\ i \notin 0..m - 1
    BY <1>1, <1>2, <1>7
  <2> QED BY <1>5, <2>1 DEF SlotOf, W
<1> QED BY <1>6, <1>7

LEMMA Instruction ==
    ASSUME IInv, Balanced, status = "running"
    PROVE  /\ HasInstruction
           /\ sp \in Nat /\ bp \in Nat /\ ip \in Nat
           /\ Takes(Byte(0), Byte(1)) \in Nat /\ bp + Takes(Byte(0), Byte(1)) <= sp
           /\ Byte(0) = OP_RETURN => sp = bp + 1
           /\ Byte(0) \in Locals => bp + Byte(1) < sp
<1> DEFINE co == CodeOf(heap, fn)
           lay == Layout(co)
<1>1. /\ HeapOK(heap) /\ Refers(heap, heap[fn].co, "CODE") /\ co = heap[heap[fn].co]
      /\ lay[ip].depth \in Nat /\ Carried(co, lay, ip)
      /\ bp + lay[ip].depth <= sp /\ sp \in Nat /\ bp \in Nat /\ ip \in Nat
      /\ lay[ip].exact => sp = bp + lay[ip].depth
  BY Running_
<1>2. Byte(0) = OpCodeAt(co, ip) /\ Byte(1) = OperandAt(co, ip) /\ (HasInstruction <=> Entire(co, ip))
  BY BytesAre
<1>3. CodeOK(heap, heap[heap[fn].co])
  BY <1>1, ObjectOfHeap
<1> HIDE DEF co, lay
<1>4. /\ HasInstruction /\ Takes(Byte(0), Byte(1)) <= lay[ip].depth
      /\ Byte(0) = OP_RETURN => lay[ip].exact /\ lay[ip].depth = 1
      /\ Byte(0) \in Locals => Byte(1) < lay[ip].depth
  BY <1>1, <1>2 DEF Carried
<1>5. Takes(Byte(0), Byte(1)) \in Nat
  BY <1>3, <1>4, TakesSome
<1>6. ASSUME NEW k \in Nat, k <= lay[ip].depth PROVE bp + k <= sp
  BY <1>1, <1>6
<1>7. ASSUME NEW k \in Nat, k < lay[ip].depth PROVE bp + k < sp
  BY <1>1, <1>7
<1>8. Byte(0) \in Locals => Byte(1) \in Nat
  <2>1. Byte(0) \in Locals => Byte(1) \in 0..255
    BY <1>3, <1>4, OperandByte, OneOperand DEF Locals
  <2>2. 0..255 \subseteq Nat
    OBVIOUS
  <2> QED BY <2>1, <2>2
<1> QED BY <1>1, <1>4, <1>5, <1>6, <1>7, <1>8

(* The code of a function that was called takes nothing from where the     *)
(* callee is, except with the SCOPE_EXIT that comes before its RETURN.     *)
LEMMA AboveCallee ==
    ASSUME IInv, Balanced, status = "running", CalleesKept, callStack # <<>>, Byte(0) # OP_RETURN
    PROVE  /\ \/ bp + Takes(Byte(0), Byte(1)) < sp
              \/ Byte(0) = OP_SCOPE_EXIT /\ OpCodeAt(CodeOf(heap, fn), ip + 2) = OP_RETURN
           /\ bp < sp
           /\ Byte(0) = OP_SET_LOCAL => Byte(1) # 0
<1> DEFINE co == CodeOf(heap, fn)
           lay == Layout(co)
<1>1. /\ Refers(heap, heap[fn].co, "CODE") /\ co = heap[heap[fn].co] /\ ip \in DOMAIN lay
      /\ lay[ip].depth \in Nat
      /\ bp + lay[ip].depth <= sp /\ sp \in Nat /\ bp \in Nat
  BY Running_
<1>2. Byte(0) = OpCodeAt(co, ip) /\ Byte(1) = OperandAt(co, ip)
  BY BytesAre
<1>3. EntryDepth(co) # 0
  BY DEF Balanced
<1>4. KeepsCallee(co, lay)
  BY <1>1 DEF CalleesKept, Refers
<1>5. Takes(Byte(0), Byte(1)) \in Nat /\ bp + Takes(Byte(0), Byte(1)) <= sp
  BY Instruction
<1> HIDE DEF co, lay
<1>6. /\ \/ Takes(Byte(0), Byte(1)) < lay[ip].depth
         \/ Byte(0) = OP_SCOPE_EXIT /\ OpCodeAt(co, ip + 2) = OP_RETURN
      /\ Byte(0) = OP_SET_LOCAL => Byte(1) # 0
  BY <1>1, <1>2, <1>3, <1>4 DEF KeepsCallee
<1>7. CASE Takes(Byte(0), Byte(1)) < lay[ip].depth
  <2>1. bp + Takes(Byte(0), Byte(1)) < sp /\ bp < sp
    BY <1>1, <1>5, <1>7
  <2> QED BY <1>6, <2>1
<1>8. CASE Byte(0) = OP_SCOPE_EXIT /\ OpCodeAt(co, ip + 2) = OP_RETURN
  <2>1. Takes(Byte(0), Byte(1)) = Byte(1) + 1
    BY <1>8, TakesMore
  <2>2. Byte(1) \in 0..255
    <3>1. HasInstruction
      BY Instruction
    <3>2. CodeOK(heap, heap[heap[fn].co])
      BY <1>1, ObjectOfHeap DEF IInv, MemoryOK
    <3> QED BY <1>8, <3>1, <3>2, OperandByte, OneOperand
  <2>3. ASSUME NEW k \in 0..255, bp + (k + 1) <= sp PROVE bp < sp
    BY <1>1, <2>3
  <2>4. bp < sp
    BY <1>5, <2>1, <2>2, <2>3
  <2> QED BY <1>6, <1>8, <2>4 DEF co
<1> QED BY <1>6, <1>7, <1>8

-----------------------------------------------------------------------------
(* The functions that run *)

Holds(st, i, f) == IsObject(SlotOf(st, i)) /\ Payload(SlotOf(st, i)) = f

(* Of the running function f, at i in its code and with its frame at b,    *)
(* and of those that wait for it: each is in the slot where its frame      *)
(* begins, except the globals' code, which is a constant.                  *)
Anchored(h, C, F, st, frames, f, i, b) ==
    /\ f \notin F
    /\ frames = <<>> => f \in C
    /\ frames # <<>> =>
         /\ frames[1].fn \in C
         /\ Holds(st, b, f) \/ OpCodeAt(CodeOf(h, f), i) = OP_RETURN
    /\ \A k \in DOMAIN frames : k # 1 => frames[k].bp < b /\ Holds(st, frames[k].bp, frames[k].fn)
    /\ \A j, k \in DOMAIN frames : j # 1 /\ j < k => frames[j].bp < frames[k].bp

Alive == HeapSafe(heap, constantObjects, freed) /\ GlobalsSafe(globals, freed)

Rooted ==
    /\ CalleesKept
    /\ Live(stack, sp, freed)
    /\ Anchored(heap, constantObjects, freed, stack, callStack, fn, ip, bp)

LifeInv ==
    /\ Alive
    /\ status = "compiled" => fn \in constantObjects
    /\ status = "running" => Rooted

LEMMA CalleesStill == ASSUME CalleesKept, KeepsCode(heap, heap') PROVE CalleesKept'
BY DEF CalleesKept, KeepsCode

LEMMA FramesBelow ==
    ASSUME IInv PROVE \A k \in DOMAIN callStack : callStack[k].bp \in Nat
BY DEF IInv, FrameInv, FrameOK

(* A step within the running function that leaves the slots below its      *)
(* frame, and the first one unless what comes next is RETURN.              *)
LEMMA StillAnchored ==
    ASSUME IInv, Rooted, status = "running", KeepsCode(heap, heap'),
           UNCHANGED <<bp, fn, callStack, constantObjects>>,
           \A i \in Nat : i < bp => SlotOf(stack', i) = SlotOf(stack, i),
           callStack # <<>> => \/ Byte(0) # OP_RETURN /\ SlotOf(stack', bp) = SlotOf(stack, bp)
                               \/ OpCodeAt(CodeOf(heap, fn), ip') = OP_RETURN,
           fn \notin freed'
    PROVE  Anchored(heap', constantObjects', freed', stack', callStack', fn', ip', bp')
<1>1. Anchored(heap, constantObjects, freed, stack, callStack, fn, ip, bp)
  BY DEF Rooted
<1>2. CodeOf(heap', fn) = CodeOf(heap, fn)
  BY SameCode DEF IInv, MemoryOK, FnInv
<1>3. Byte(0) = OpCodeAt(CodeOf(heap, fn), ip)
  BY BytesAre
<1>4. callStack # <<>> => Holds(stack', bp, fn) \/ OpCodeAt(CodeOf(heap', fn), ip') = OP_RETURN
  BY <1>1, <1>2, <1>3 DEF Anchored, Holds
<1>5. ASSUME NEW k \in DOMAIN callStack, k # 1
      PROVE  callStack[k].bp < bp /\ Holds(stack', callStack[k].bp, callStack[k].fn)
  <2>1. callStack[k].bp < bp /\ Holds(stack, callStack[k].bp, callStack[k].fn)
    BY <1>1, <1>5 DEF Anchored
  <2> QED BY <2>1, FramesBelow DEF Holds
<1> QED BY <1>1, <1>4, <1>5 DEF Anchored

(* What an instruction of the running function leaves for the next one. *)
LEMMA StepRooted ==
    ASSUME IInv, Rooted, status = "running", KeepsCode(heap, heap'),
           UNCHANGED <<bp, fn, callStack, constantObjects, status>>,
           HeapSafe(heap', constantObjects', freed'), GlobalsSafe(globals', freed'),
           Live(stack', sp', freed'),
           \A i \in Nat : i < bp => SlotOf(stack', i) = SlotOf(stack, i),
           callStack # <<>> => \/ Byte(0) # OP_RETURN /\ SlotOf(stack', bp) = SlotOf(stack, bp)
                               \/ OpCodeAt(CodeOf(heap, fn), ip') = OP_RETURN,
           fn \notin freed'
    PROVE  LifeInv'
<1>1. CalleesKept'
  BY CalleesStill DEF Rooted
<1>2. Anchored(heap, constantObjects, freed, stack, callStack, fn, ip, bp)'
  BY StillAnchored
<1> QED BY <1>1, <1>2 DEF LifeInv, Alive, Rooted

(* What is on the stack, above what the next instruction takes, keeps the  *)
(* running function from being collected.                                  *)
LEMMA Survives ==
    ASSUME IInv, Balanced, Rooted, status = "running", Byte(0) # OP_RETURN, Byte(0) # OP_SCOPE_EXIT,
           NEW top \in Int, sp - Takes(Byte(0), Byte(1)) <= top, NEW F,
           HeapSafe(heap, constantObjects, F), Live(stack, top, F)
    PROVE  fn \notin F
<1>1. Anchored(heap, constantObjects, freed, stack, callStack, fn, ip, bp)
  BY DEF Rooted
<1>2. CASE callStack = <<>>
  BY <1>1, <1>2 DEF Anchored, HeapSafe
<1>3. CASE callStack # <<>>
  <2>1. bp + Takes(Byte(0), Byte(1)) < sp
    BY <1>3, AboveCallee DEF Rooted
  <2>2. sp \in Nat /\ bp \in Nat /\ Takes(Byte(0), Byte(1)) \in Nat
    BY Instruction
  <2>3. bp \in 0..top - 1
    BY <2>1, <2>2
  <2>4. Holds(stack, bp, fn)
    <3>1. Byte(0) = OpCodeAt(CodeOf(heap, fn), ip)
      BY BytesAre
    <3> QED BY <1>1, <1>3, <3>1 DEF Anchored
  <2>5. ~Gone(SlotOf(stack, bp), F)
    BY <2>3 DEF Live
  <2> QED BY <2>4, <2>5 DEF Holds, Gone
<1> QED BY <1>2, <1>3

(* An instruction that replaces what it takes: with what is still there.   *)
LEMMA ReplaceRooted ==
    ASSUME IInv, Balanced, Rooted, status = "running", KeepsCode(heap, heap'),
           UNCHANGED <<bp, fn, callStack, constantObjects, status>>,
           HeapSafe(heap', constantObjects', freed'), GlobalsSafe(globals', freed'),
           NEW n, n = Takes(Byte(0), Byte(1)), Live(stack, sp - n, freed'),
           NEW vs, IsSeq(vs), Replace(n, vs), \A i \in DOMAIN vs : ~Gone(vs[i], freed'),
           Byte(0) # OP_RETURN, Byte(0) = OP_SCOPE_EXIT => ip' = ip + 2,
           fn \notin freed'
    PROVE  LifeInv'
<1>1. sp \in Nat /\ bp \in Nat /\ n \in Nat /\ bp + n <= sp
  BY Instruction
<1>2. Len(vs) \in Nat /\ DOMAIN vs = 1..Len(vs)
  BY SeqShape
<1> DEFINE base == sp - n
<1>3. base \in Nat /\ bp <= base /\ sp' = base + Len(vs) /\ stack' = Written(base, vs)
  BY <1>1 DEF Replace
<1> HIDE DEF base
<1>4. \A i \in Nat : SlotOf(stack', i) =
          IF i \in base..base + Len(vs) - 1 THEN vs[i - base + 1] ELSE SlotOf(stack, i)
  BY <1>3, WrittenSlots
<1>5. \A i \in Nat : i < base => SlotOf(stack', i) = SlotOf(stack, i)
  BY <1>3, <1>4
<1>6. \A i \in Nat : i < bp => SlotOf(stack', i) = SlotOf(stack, i)
  BY <1>1, <1>3, <1>5
<1>7. Live(stack', sp', freed')
  <2> SUFFICES ASSUME NEW i \in 0..sp' - 1 PROVE ~Gone(SlotOf(stack', i), freed')
    BY DEF Live
  <2>1. i \in Nat
    OBVIOUS
  <2>2. CASE i < base
    <3>1. i \in 0..base - 1
      BY <1>3, <2>1, <2>2
    <3>2. ~Gone(SlotOf(stack, i), freed')
      BY <3>1 DEF Live, base
    <3> QED BY <1>5, <2>1, <2>2, <3>2
  <2>3. CASE ~(i < base)
    <3>1. i \in base..base + Len(vs) - 1 /\ i - base + 1 \in DOMAIN vs
      BY <1>2, <1>3, <2>1, <2>3
    <3> QED BY <1>4, <2>1, <3>1
  <2> QED BY <2>2, <2>3
<1>8. ASSUME callStack # <<>>
      PROVE  \/ Byte(0) # OP_RETURN /\ SlotOf(stack', bp) = SlotOf(stack, bp)
             \/ OpCodeAt(CodeOf(heap, fn), ip') = OP_RETURN
  <2>1. CASE bp + n < sp
    <3>1. bp < base
      BY <1>1, <2>1 DEF base
    <3> QED BY <1>1, <1>5, <3>1
  <2>2. CASE Byte(0) = OP_SCOPE_EXIT /\ OpCodeAt(CodeOf(heap, fn), ip + 2) = OP_RETURN
    BY <2>2
  <2> QED BY <1>8, <2>1, <2>2, AboveCallee DEF Rooted
<1> QED BY <1>6, <1>7, <1>8, StepRooted

(* The same, of an instruction that leaves memory as it is. *)
LEMMA StackRooted ==
    ASSUME IInv, Balanced, LifeInv, NEW op, Step(op), op # OP_RETURN, UNCHANGED <<memory, status>>,
           Takes(op, Byte(1)) \in Nat,
           NEW vs, IsSeq(vs), Replace(Takes(op, Byte(1)), vs), \A i \in DOMAIN vs : ~Gone(vs[i], freed)
    PROVE  LifeInv'
<1>1. Byte(0) = op /\ status = "running" /\ ip' = ip + 1 + Operands(op)
      /\ UNCHANGED <<bp, fn, callStack>>
  BY Decoded DEF Step
<1>2. /\ heap' = heap /\ freed' = freed /\ globals' = globals /\ constantObjects' = constantObjects
      /\ status' = status /\ KeepsCode(heap, heap')
  BY SameHeap DEF memory
<1>3. Rooted /\ HeapSafe(heap', constantObjects', freed') /\ GlobalsSafe(globals', freed')
  BY <1>1, <1>2 DEF LifeInv, Alive
<1>4. fn \notin freed'
  BY <1>2, <1>3 DEF Rooted, Anchored
<1>5. Live(stack, sp - Takes(op, Byte(1)), freed')
  <2> DEFINE n == Takes(op, Byte(1))
  <2>1. n \in Nat /\ sp \in Nat
    BY VMAssumption DEF IInv, SpInv
  <2> HIDE DEF n
  <2>2. 0..sp - n - 1 \subseteq 0..sp - 1
    BY <2>1
  <2> QED BY <1>2, <1>3, <2>2 DEF Rooted, Live, n
<1>6. op = OP_SCOPE_EXIT => ip' = ip + 2
  <2>1. op = OP_SCOPE_EXIT => Operands(op) = 1
    BY OneOperand
  <2>2. ip \in Nat
    BY DEF IInv, IpInv
  <2> QED BY <1>1, <2>1, <2>2
<1> QED BY <1>1, <1>2, <1>3, <1>4, <1>5, <1>6, ReplaceRooted

LEMMA StackOne ==
    ASSUME IInv, Balanced, LifeInv, NEW op, Step(op), op # OP_RETURN, UNCHANGED <<memory, status>>,
           NEW n \in Nat, n = Takes(op, Byte(1)), NEW v, Replace(n, <<v>>), ~Gone(v, freed)
    PROVE  LifeInv'
<1>1. IsSeq(<<v>>) /\ \A i \in DOMAIN <<v>> : ~Gone(<<v>>[i], freed)
  BY SingleSeq
<1> QED BY <1>1, StackRooted

LEMMA PlainIsThere ==
    ASSUME NEW F PROVE /\ \A n : ~Gone(NUMBER(n), F)
                       /\ \A b : ~Gone(BOOLEAN_(b), F)
                       /\ ~Gone(Junk, F)
BY DEF Gone, IsObject, NUMBER, BOOLEAN_, Junk

-----------------------------------------------------------------------------
(* The instructions that leave memory as it is *)

(* What is on the stack is there. *)
LEMMA SlotIsThere ==
    ASSUME IInv, Rooted, NEW i \in Int, i < sp PROVE ~Gone(Slot(i), freed)
<1>1. CASE i \in 0..sp - 1
  BY <1>1, SlotIs DEF Rooted, Live
<1>2. CASE i \notin 0..sp - 1
  <2>1. sp \in Nat
    BY VMAssumption DEF IInv, SpInv
  <2>2. i \notin 0..Len(stack) - 1
    BY <1>2, <2>1
  <2> QED BY <2>2, PlainIsThere DEF Slot
<1> QED BY <1>1, <1>2

LEMMA PeekIsThere ==
    ASSUME IInv, Rooted, NEW k \in Nat PROVE ~Gone(peek(k), freed)
<1>1. sp - 1 - k \in Int /\ sp - 1 - k < sp
  BY VMAssumption DEF IInv, SpInv
<1> QED BY <1>1, SlotIsThere DEF peek

LEMMA RunningRooted ==
    ASSUME IInv, LifeInv, NEW op, At_(op)
    PROVE  /\ Alive /\ Rooted /\ status = "running" /\ Byte(0) = op
           /\ fn \in DOMAIN heap \ freed
           /\ \A a \in DOMAIN heap \ freed : Sound(heap[a], constantObjects, freed)
           /\ constantObjects \cap freed = {}
<1>1. status = "running" /\ Byte(0) = op /\ fn \in DOMAIN heap
  BY Decoded DEF Refers
<1>2. Alive /\ Rooted
  BY <1>1 DEF LifeInv
<1> QED BY <1>1, <1>2 DEF Alive, HeapSafe, Rooted, Anchored

LEMMA CodeOfRunning ==
    ASSUME IInv, LifeInv, NEW op, At_(op)
    PROVE  LET co == heap[heap[fn].co] IN
           /\ heap[fn].co \in constantObjects
           /\ \A k \in DOMAIN co.constants : IsObject(co.constants[k]) => Payload(co.constants[k]) \in constantObjects
<1> DEFINE a == heap[fn].co
           co == heap[a]
<1>1. /\ Refers(heap, fn, "FUNCTION") /\ Refers(heap, a, "CODE")
      /\ \A o \in DOMAIN heap \ freed : NotTraced(heap[o]) \subseteq constantObjects
      /\ \A o \in DOMAIN heap : heap[o].kind \in {"CODE", "CLASS"} => o \in constantObjects
      /\ constantObjects \cap freed = {}
  BY Decoded, RunningRooted DEF Sound, Alive, HeapSafe
<1>2. a \in constantObjects
  BY <1>1 DEF Refers
<1>3. NotTraced(co) \subseteq constantObjects /\ co.kind = "CODE"
  BY <1>1, <1>2 DEF Refers
<1> HIDE DEF co
<1>4. NotTraced(co) = Referenced({co.constants[k] : k \in DOMAIN co.constants})
  BY <1>3, NotTracedByKind
<1>5. Referenced({co.constants[k] : k \in DOMAIN co.constants}) \subseteq constantObjects
  BY <1>3, <1>4
<1>6. \A k \in DOMAIN co.constants : IsObject(co.constants[k]) => Payload(co.constants[k]) \in constantObjects
  BY <1>5, ReferencedAll
<1> QED BY <1>2, <1>6 DEF co

LEMMA PushRooted ==
    ASSUME IInv, Balanced, LifeInv, NEW op \in {OP_CONST, OP_GET_GLOBAL, OP_GET_LOCAL, OP_GET_CELL, OP_LOAD_CELL},
           NEW v, Push(op, v), ~Gone(v, freed)
    PROVE  LifeInv'
<1>1. op # OP_RETURN
  BY DEF OP_CONST, OP_GET_GLOBAL, OP_GET_LOCAL, OP_GET_CELL, OP_LOAD_CELL, OP_RETURN
<1>2. Takes(op, Byte(1)) = 0
  BY TakesNone
<1> QED BY <1>1, <1>2, StackOne DEF Push

LEMMA ConstRooted == ASSUME IInv, Balanced, LifeInv, Const PROVE LifeInv'
<1>1. At_(OP_CONST) /\ Push(OP_CONST, Constant(Byte(1)))
  BY DEF Const, Push, Step
<1>2. Byte(0) = OP_CONST /\ ~Undefined /\ CodeOK(heap, heap[heap[fn].co]) /\ Byte(1) \in 0..255
  BY <1>1, Decoded, Operand, OneOperand
<1>3. ~(Byte(1) >= Len(heap[heap[fn].co].constants)) /\ IsSeq(heap[heap[fn].co].constants)
  BY <1>2 DEF Undefined, CodeOK
<1>4. Byte(1) + 1 \in DOMAIN heap[heap[fn].co].constants
  BY <1>2, <1>3, InRange
<1>5. IsObject(Constant(Byte(1))) => Payload(Constant(Byte(1))) \in constantObjects
  BY <1>1, <1>4, CodeOfRunning DEF Constant
<1>6. ~Gone(Constant(Byte(1)), freed)
  BY <1>1, <1>5, RunningRooted DEF Gone
<1> QED BY <1>1, <1>6, PushRooted

LEMMA GetGlobalRooted == ASSUME IInv, Balanced, LifeInv, GetGlobal PROVE LifeInv'
<1>1. At_(OP_GET_GLOBAL) /\ Push(OP_GET_GLOBAL, globals[Byte(1) + 1].value)
  BY DEF GetGlobal, Push, Step
<1>2. Byte(0) = OP_GET_GLOBAL /\ ~Undefined /\ Byte(1) \in 0..255 /\ IsSeq(globals)
  BY <1>1, Decoded, Operand, OneOperand DEF IInv, MemoryOK
<1>3. ~(Byte(1) >= Len(globals))
  BY <1>2 DEF Undefined
<1>4. Byte(1) + 1 \in DOMAIN globals
  BY <1>2, <1>3, InRange
<1>5. ~Gone(globals[Byte(1) + 1].value, freed)
  BY <1>1, <1>4, RunningRooted DEF Alive, GlobalsSafe
<1> QED BY <1>1, <1>5, PushRooted

LEMMA GetLocalRooted == ASSUME IInv, Balanced, LifeInv, GetLocal PROVE LifeInv'
<1>1. At_(OP_GET_LOCAL) /\ Push(OP_GET_LOCAL, Slot(bp + Byte(1)))
  BY DEF GetLocal, Push, Step
<1>2. Byte(0) = OP_GET_LOCAL /\ status = "running" /\ Rooted /\ Byte(1) \in 0..255 /\ bp \in Nat
  BY <1>1, RunningRooted, Operand, OneOperand, Instruction
<1>3. bp + Byte(1) < sp
  BY <1>2, Instruction DEF Locals
<1>4. bp + Byte(1) \in Int
  <2>1. ASSUME NEW k \in 0..255 PROVE bp + k \in Int
    BY <1>2
  <2> QED BY <1>2, <2>1
<1>5. ~Gone(Slot(bp + Byte(1)), freed)
  BY <1>2, <1>3, <1>4, SlotIsThere
<1> QED BY <1>1, <1>5, PushRooted

(* The cells of the running function are there, and what is in them is a   *)
(* constant or no object.                                                  *)
LEMMA CellsOfRunning ==
    ASSUME IInv, LifeInv, NEW op, At_(op), Operands(op) = 1, Byte(1) < Len(cells), cells[Byte(1) + 1] # Null
    PROVE  LET a == cells[Byte(1) + 1] IN
           /\ Refers(heap, a, "CELL") /\ a \notin freed
           /\ IsObject(heap[a].value) => Payload(heap[a].value) \in constantObjects
<1> DEFINE a == cells[Byte(1) + 1]
<1>1. Byte(1) \in 0..255 /\ IsSeq(cells)
  BY Operand, CellsIsSeq
<1>2. ~(Byte(1) >= Len(cells))
  <2>1. ASSUME NEW k \in 0..255, NEW m \in Nat, k < m PROVE ~(k >= m)
    BY <2>1
  <2>2. Len(cells) \in Nat
    BY <1>1, SeqShape
  <2> QED BY <1>1, <2>1, <2>2
<1>3. Refers(heap, a, "CELL") /\ Byte(1) + 1 \in DOMAIN cells
  BY <1>1, <1>2, CellRefers, InRange
<1>4. Pointers(heap[fn]) \cap freed = {} /\ \A o \in DOMAIN heap \ freed : NotTraced(heap[o]) \subseteq constantObjects
  BY RunningRooted DEF Sound
<1>5. a \in Pointers(heap[fn])
  <2>1. heap[fn].kind = "FUNCTION"
    BY Decoded DEF Refers
  <2> DEFINE f == heap[fn]
  <2>2. cells = f.cells /\ f.kind = "FUNCTION"
    BY <2>1 DEF cells
  <2> HIDE DEF f
  <2>3. Pointers(f) = {f.cells[k] : k \in DOMAIN f.cells} \ {Null}
    BY <2>2, PointersByKind
  <2>4. a \in Pointers(f)
    BY <1>3, <2>2, <2>3
  <2> QED BY <2>4 DEF f
<1>6. a \notin freed
  BY <1>4, <1>5
<1>7. NotTraced(heap[a]) \subseteq constantObjects /\ heap[a].kind = "CELL"
  BY <1>3, <1>4, <1>6 DEF Refers
<1> DEFINE o == heap[a]
<1>8. NotTraced(o) \subseteq constantObjects /\ o.kind = "CELL"
  BY <1>7
<1> HIDE DEF o
<1>9. NotTraced(o) = Referenced({o.value})
  BY <1>8, NotTracedByKind
<1>10. Referenced({o.value}) \subseteq constantObjects
  BY <1>8, <1>9
<1>11. IsObject(o.value) => Payload(o.value) \in constantObjects
  BY <1>10, ReferencedOne
<1> QED BY <1>3, <1>6, <1>11 DEF o

LEMMA GetCellRooted == ASSUME IInv, Balanced, LifeInv, GetCell \/ LoadCell PROVE LifeInv'
<1> DEFINE a == cells[Byte(1) + 1]
<1>1. PICK op \in {OP_GET_CELL, OP_LOAD_CELL} :
        At_(op) /\ (Push(op, heap[a].value) \/ Push(op, OBJECT(a)))
  BY DEF GetCell, LoadCell, Push, Step
<1>2. Operands(op) = 1
  BY <1>1, OneOperand
<1>3. Byte(0) = op /\ ~Undefined /\ Byte(1) \in 0..255 /\ IsSeq(cells)
  BY <1>1, <1>2, Decoded, Operand, CellsIsSeq
<1>4. ~(Byte(1) >= Len(cells))
  BY <1>3 DEF Undefined
<1>5. Byte(1) < Len(cells)
  BY <1>3, <1>4, InRange
<1>6. a # Null
  BY <1>3, <1>5 DEF Undefined
<1>7. a \notin freed /\ (IsObject(heap[a].value) => Payload(heap[a].value) \in constantObjects)
      /\ constantObjects \cap freed = {}
  BY <1>1, <1>2, <1>5, <1>6, CellsOfRunning, RunningRooted
<1>8. ~Gone(heap[a].value, freed) /\ ~Gone(OBJECT(a), freed)
  BY <1>7 DEF Gone, OBJECT, Payload
<1> HIDE DEF a
<1> QED BY <1>1, <1>8, PushRooted

LEMMA NotReturn ==
    ASSUME NEW op \in {OP_HALT, OP_ADD, OP_SUB, OP_MUL, OP_DIV, OP_COMPARE, OP_JMP_IF_FALSE, OP_JMP,
                       OP_SET_GLOBAL, OP_POP, OP_SET_LOCAL, OP_SCOPE_EXIT, OP_CALL, OP_SET_CELL,
                       OP_MAKE_FUNCTION, OP_NEW, OP_GET_PROP, OP_SET_PROP}
    PROVE  op # OP_RETURN
BY DEF OP_HALT, OP_ADD, OP_SUB, OP_MUL, OP_DIV, OP_COMPARE, OP_JMP_IF_FALSE, OP_JMP, OP_SET_GLOBAL, OP_POP,
       OP_SET_LOCAL, OP_SCOPE_EXIT, OP_CALL, OP_SET_CELL, OP_MAKE_FUNCTION, OP_NEW, OP_GET_PROP, OP_SET_PROP,
       OP_RETURN

LEMMA NotScopeExit ==
    ASSUME NEW op \in {OP_ADD, OP_JMP_IF_FALSE, OP_JMP, OP_SET_GLOBAL, OP_SET_LOCAL, OP_CALL,
                       OP_SET_CELL, OP_MAKE_FUNCTION, OP_NEW, OP_SET_PROP}
    PROVE  op # OP_SCOPE_EXIT
BY DEF OP_ADD, OP_JMP_IF_FALSE, OP_JMP, OP_SET_GLOBAL, OP_SET_LOCAL, OP_SCOPE_EXIT, OP_CALL, OP_SET_CELL,
       OP_MAKE_FUNCTION, OP_NEW, OP_SET_PROP

LEMMA PairRooted ==
    ASSUME IInv, Balanced, LifeInv, NEW op \in {OP_ADD, OP_SUB, OP_MUL, OP_DIV, OP_COMPARE}, Step(op),
           UNCHANGED <<memory, status>>,
           \/ \E n : Replace(2, <<NUMBER(n)>>)
           \/ \E b : Replace(2, <<BOOLEAN_(b)>>)
           \/ Replace(2, <<>>)
    PROVE  LifeInv'
<1>1. Takes(op, Byte(1)) = 2 /\ 2 \in Nat /\ op # OP_RETURN
  BY TakesTwo, NotReturn
<1>2. CASE \E n : Replace(2, <<NUMBER(n)>>)
  BY <1>1, <1>2, PlainIsThere, StackOne
<1>3. CASE \E b : Replace(2, <<BOOLEAN_(b)>>)
  BY <1>1, <1>3, PlainIsThere, StackOne
<1>4. CASE Replace(2, <<>>)
  BY <1>1, <1>4, EmptySeq, StackRooted
<1> QED BY <1>2, <1>3, <1>4

LEMMA ArithmeticRooted ==
    ASSUME IInv, Balanced, LifeInv, NEW op \in {OP_SUB, OP_MUL, OP_DIV}, NEW n, Arithmetic(op, n) PROVE LifeInv'
BY PairRooted DEF Arithmetic

LEMMA CompareRooted == ASSUME IInv, Balanced, LifeInv, Compare PROVE LifeInv'
BY PairRooted DEF Compare

LEMMA PopRooted == ASSUME IInv, Balanced, LifeInv, Pop PROVE LifeInv'
<1>1. Takes(OP_POP, Byte(1)) = 1 /\ 1 \in Nat /\ OP_POP # OP_RETURN
  BY TakesOther, NotReturn
<1> QED BY <1>1, EmptySeq, StackRooted DEF Pop

LEMMA ScopeExitRooted == ASSUME IInv, Balanced, LifeInv, ScopeExit PROVE LifeInv'
<1>1. Step(OP_SCOPE_EXIT) /\ At_(OP_SCOPE_EXIT) /\ UNCHANGED <<memory, status>>
      /\ Replace(1 + Byte(1), <<peek(0)>>)
  BY DEF ScopeExit, Step
<1>2. Byte(1) \in 0..255
  BY <1>1, Operand, OneOperand
<1>3. 1 + Byte(1) \in Nat /\ 1 + Byte(1) = Byte(1) + 1
  BY <1>2, OperandNext
<1>4. Takes(OP_SCOPE_EXIT, Byte(1)) = 1 + Byte(1) /\ OP_SCOPE_EXIT # OP_RETURN
  BY <1>3, TakesMore, NotReturn
<1>5. ~Gone(peek(0), freed)
  BY <1>1, RunningRooted, PeekIsThere
<1> QED BY <1>1, <1>3, <1>4, <1>5, StackOne

LEMMA CallNativeRooted == ASSUME IInv, Balanced, LifeInv, CallNative PROVE LifeInv'
<1> DEFINE v == NUMBER(Native(heap[Payload(Callee)].name))
<1>1. Step(OP_CALL) /\ At_(OP_CALL) /\ UNCHANGED <<memory, status>> /\ Replace(Byte(1) + 1, <<v>>)
  BY DEF CallNative, Step
<1>2. Byte(1) \in 0..255
  BY <1>1, Operand, OneOperand
<1>3. Byte(1) + 1 \in Nat
  BY <1>2, OperandNext
<1>4. Takes(OP_CALL, Byte(1)) = Byte(1) + 1 /\ OP_CALL # OP_RETURN
  BY TakesMore, NotReturn
<1>5. ~Gone(v, freed)
  BY PlainIsThere
<1> HIDE DEF v
<1> QED BY <1>1, <1>3, <1>4, <1>5, StackOne

LEMMA ClassOf ==
    ASSUME HeapSafe(heap, constantObjects, freed), NEW c \in DOMAIN heap, heap[c].kind = "CLASS"
    PROVE  /\ c \in constantObjects /\ c \notin freed
           /\ \A p \in DOMAIN heap[c].properties :
                 IsObject(heap[c].properties[p]) => Payload(heap[c].properties[p]) \in constantObjects
<1>1. c \in constantObjects /\ c \notin freed /\ NotTraced(heap[c]) \subseteq constantObjects
  BY DEF HeapSafe, Sound
<1> DEFINE o == heap[c]
<1>2. NotTraced(o) \subseteq constantObjects /\ o.kind = "CLASS"
  BY <1>1
<1> HIDE DEF o
<1>3. Referenced({o.properties[p] : p \in DOMAIN o.properties}) \subseteq NotTraced(o)
  BY <1>2, NotTracedByKind
<1>4. Referenced({o.properties[p] : p \in DOMAIN o.properties}) \subseteq constantObjects
  BY <1>2, <1>3
<1>5. \A p \in DOMAIN o.properties : IsObject(o.properties[p]) => Payload(o.properties[p]) \in constantObjects
  BY <1>4, ReferencedAll
<1> QED BY <1>1, <1>5 DEF o

(* A property of a class is a constant, or no object. *)
LEMMA ClassPropConstant ==
    ASSUME HeapSafe(heap, constantObjects, freed), NEW cls, NEW prop
    PROVE  LET v == classProp(heap, cls, prop) IN IsObject(v) => Payload(v) \in constantObjects
<1> DEFINE owners == {c \in lineage(heap, cls) : prop \in DOMAIN heap[c].properties}
           nearest == {c \in owners : \A d \in owners : d <= c}
           v == classProp(heap, cls, prop)
<1>1. ASSUME NEW c \in nearest
      PROVE  LET w == heap[c].properties[prop] IN IsObject(w) => Payload(w) \in constantObjects
  <2>1. c \in DOMAIN heap /\ heap[c].kind = "CLASS" /\ prop \in DOMAIN heap[c].properties
    BY DEF lineage
  <2> QED BY <2>1, ClassOf
<1>2. v = IF nearest = {} THEN Junk ELSE heap[CHOOSE c \in nearest : TRUE].properties[prop]
  BY DEF classProp
<1> SUFFICES IsObject(v) => Payload(v) \in constantObjects
  OBVIOUS
<1> HIDE DEF nearest, v
<1>3. CASE nearest = {}
  BY <1>2, <1>3 DEF IsObject, Junk
<1>4. CASE nearest # {}
  <2>1. (CHOOSE c \in nearest : TRUE) \in nearest
    BY <1>4
  <2> QED BY <1>1, <1>2, <1>4, <2>1
<1> QED BY <1>3, <1>4

LEMMA PropIsThere ==
    ASSUME IInv, HeapSafe(heap, constantObjects, freed), NEW a, a \notin freed,
           Refers(heap, a, "INSTANCE") \/ Refers(heap, a, "CLASS"), NEW prop
    PROVE  ~Gone(getProp(heap, a, prop), freed)
<1>1. ASSUME NEW cls PROVE ~Gone(classProp(heap, cls, prop), freed)
  <2> DEFINE v == classProp(heap, cls, prop)
  <2>1. IsObject(v) => Payload(v) \in constantObjects
    BY ClassPropConstant
  <2> HIDE DEF v
  <2>2. ~Gone(v, freed)
    BY <2>1 DEF Gone, HeapSafe
  <2> QED BY <2>2 DEF v
<1>2. CASE Refers(heap, a, "CLASS")
  <2>1. getProp(heap, a, prop) = classProp(heap, a, prop)
    BY <1>2 DEF getProp, Refers
  <2> QED BY <1>1, <2>1
<1>3. CASE Refers(heap, a, "INSTANCE") /\ prop \in DOMAIN heap[a].properties
  <2> DEFINE o == heap[a]
  <2>1. getProp(heap, a, prop) = o.properties[prop]
    BY <1>3 DEF getProp, Refers
  <2>2. Pointers(o) \cap freed = {} /\ o.kind = "INSTANCE" /\ prop \in DOMAIN o.properties
    BY <1>3 DEF HeapSafe, Sound, Refers
  <2> HIDE DEF o
  <2>3. Pointers(o) = Referenced({o.properties[p] : p \in DOMAIN o.properties})
    BY <2>2, PointersByKind
  <2>4. Referenced({o.properties[p] : p \in DOMAIN o.properties}) \cap freed = {}
    BY <2>2, <2>3
  <2>5. \A p \in DOMAIN o.properties : ~Gone(o.properties[p], freed)
    BY <2>4, ReferencedAll
  <2> QED BY <2>1, <2>2, <2>5
<1>4. CASE Refers(heap, a, "INSTANCE") /\ prop \notin DOMAIN heap[a].properties
  <2>1. getProp(heap, a, prop) = classProp(heap, heap[a].cls, prop)
    BY <1>4 DEF getProp, Refers
  <2> QED BY <1>1, <2>1
<1> QED BY <1>2, <1>3, <1>4

LEMMA GetPropRooted == ASSUME IInv, Balanced, LifeInv, GetProp PROVE LifeInv'
<1> DEFINE a == Payload(peek(0))
           v == getProp(heap, a, Chars(Constant(Byte(1))))
<1>1. Step(OP_GET_PROP) /\ At_(OP_GET_PROP) /\ UNCHANGED <<memory, status>> /\ Replace(1, <<v>>)
  BY DEF GetProp, Step
<1>2. Byte(0) = OP_GET_PROP /\ ~Undefined /\ ~Dies /\ HeapOK(heap)
  BY <1>1, Decoded DEF IInv, MemoryOK
<1>3. Is(peek(0), "INSTANCE") \/ Is(peek(0), "CLASS")
  BY <1>2 DEF Dies, Undefined
<1>4. ~Stale(peek(0)) /\ (IsKind(heap, peek(0), "INSTANCE") \/ IsKind(heap, peek(0), "CLASS"))
  BY <1>3 DEF Is
<1>5. a \notin freed /\ (Refers(heap, a, "INSTANCE") \/ Refers(heap, a, "CLASS"))
  BY <1>4, PeekIsValue, ObjectRefers DEF Stale, IsKind
<1>6. HeapSafe(heap, constantObjects, freed)
  BY <1>1, RunningRooted DEF Alive
<1> HIDE DEF a
<1>7. ~Gone(v, freed)
  BY <1>5, <1>6, PropIsThere
<1> HIDE DEF v
<1>8. Takes(OP_GET_PROP, Byte(1)) = 1 /\ 1 \in Nat /\ OP_GET_PROP # OP_RETURN
  BY TakesOne, NotReturn
<1> QED BY <1>1, <1>7, <1>8, StackOne

(* An instruction that leaves the stack as it is. *)
LEMMA StillRooted ==
    ASSUME IInv, Balanced, Rooted, status = "running", KeepsCode(heap, heap'),
           UNCHANGED <<bp, fn, callStack, constantObjects, status, stack, sp>>,
           HeapSafe(heap', constantObjects', freed'), GlobalsSafe(globals', freed'),
           Live(stack, sp, freed'), Byte(0) # OP_RETURN, fn \notin freed'
    PROVE  LifeInv'
BY StepRooted

LEMMA JmpRooted == ASSUME IInv, Balanced, LifeInv, Jmp PROVE LifeInv'
<1>1. At_(OP_JMP) /\ UNCHANGED <<memory, stack, sp, bp, fn, callStack, status>>
  BY DEF Jmp
<1>2. Alive /\ Rooted /\ status = "running" /\ Byte(0) # OP_RETURN
  BY <1>1, RunningRooted, NotReturn
<1>3. heap' = heap /\ globals' = globals /\ freed' = freed /\ constantObjects' = constantObjects
      /\ KeepsCode(heap, heap')
  BY <1>1, SameHeap DEF memory
<1>4. HeapSafe(heap', constantObjects', freed') /\ GlobalsSafe(globals', freed') /\ Live(stack, sp, freed')
      /\ fn \notin freed'
  BY <1>2, <1>3 DEF Alive, Rooted, Anchored
<1> QED BY <1>1, <1>2, <1>3, <1>4, StillRooted

LEMMA JmpIfFalseRooted == ASSUME IInv, Balanced, LifeInv, JmpIfFalse PROVE LifeInv'
<1>1. At_(OP_JMP_IF_FALSE) /\ Replace(1, <<>>) /\ UNCHANGED <<memory, bp, fn, callStack, status>>
  BY DEF JmpIfFalse
<1>2. Alive /\ Rooted /\ status = "running" /\ Byte(0) # OP_RETURN /\ Byte(0) # OP_SCOPE_EXIT
  BY <1>1, RunningRooted, NotReturn, NotScopeExit
<1>3. heap' = heap /\ globals' = globals /\ freed' = freed /\ constantObjects' = constantObjects
      /\ KeepsCode(heap, heap')
  BY <1>1, SameHeap DEF memory
<1>4. HeapSafe(heap', constantObjects', freed') /\ GlobalsSafe(globals', freed') /\ fn \notin freed'
  BY <1>2, <1>3 DEF Alive, Rooted, Anchored
<1>5. Takes(Byte(0), Byte(1)) = 1
  BY <1>1, RunningRooted, TakesOther
<1>6. Live(stack, sp - 1, freed')
  <2>1. 0..sp - 1 - 1 \subseteq 0..sp - 1
    BY VMAssumption DEF IInv, SpInv
  <2> QED BY <1>2, <1>3, <2>1 DEF Rooted, Live
<1> QED BY <1>1, <1>2, <1>3, <1>4, <1>5, <1>6, EmptySeq, ReplaceRooted

LEMMA SetGlobalRooted == ASSUME IInv, Balanced, LifeInv, SetGlobal PROVE LifeInv'
<1> DEFINE k == Byte(1) + 1
           g == [globals[k] EXCEPT !.value = peek(0)]
<1>1. At_(OP_SET_GLOBAL) /\ UNCHANGED <<heap, freed, constantObjects, stack, sp, bp, fn, callStack, status>>
      /\ globals' = [globals EXCEPT ![k].value = peek(0)]
  BY DEF SetGlobal, Step
<1>2. Alive /\ Rooted /\ status = "running" /\ Byte(0) # OP_RETURN
  BY <1>1, RunningRooted, NotReturn
<1>3. Byte(0) = OP_SET_GLOBAL /\ ~Dies /\ Byte(1) \in 0..255 /\ IsSeq(globals)
  BY <1>1, Decoded, Operand, OneOperand DEF IInv, MemoryOK
<1>4. ~(Byte(1) >= Len(globals))
  BY <1>3 DEF Dies
<1>5. k \in DOMAIN globals
  BY <1>3, <1>4, InRange
<1>6. globals[k] = [name |-> globals[k].name, value |-> globals[k].value]
  BY <1>5 DEF IInv, MemoryOK, GlobalOK
<1>7. g.value = peek(0) /\ globals' = [globals EXCEPT ![k] = g]
  BY <1>1, <1>6
<1> HIDE DEF g, k
<1>8. DOMAIN globals' = DOMAIN globals /\ globals'[k] = g
      /\ \A i \in DOMAIN globals : i # k => globals'[i] = globals[i]
  BY <1>3, <1>5, <1>7, ExceptIsSeq
<1>9. ~Gone(peek(0), freed)
  BY <1>2, PeekIsThere
<1>10. GlobalsSafe(globals', freed)
  BY <1>2, <1>7, <1>8, <1>9 DEF Alive, GlobalsSafe
<1>11. KeepsCode(heap, heap')
  BY <1>1, KeepsItself
<1>12. HeapSafe(heap', constantObjects', freed') /\ GlobalsSafe(globals', freed') /\ Live(stack, sp, freed')
       /\ fn \notin freed'
  BY <1>1, <1>2, <1>10 DEF Alive, Rooted, Anchored
<1> QED BY <1>1, <1>2, <1>11, <1>12, StillRooted

LEMMA SetLocalRooted == ASSUME IInv, Balanced, LifeInv, SetLocal PROVE LifeInv'
<1> DEFINE k == bp + Byte(1)
<1>1. At_(OP_SET_LOCAL) /\ UNCHANGED <<memory, sp, bp, fn, callStack, status>>
      /\ stack' = Written(k, <<peek(0)>>)
  BY DEF SetLocal, Step
<1>2. Alive /\ Rooted /\ status = "running" /\ Byte(0) # OP_RETURN /\ Byte(0) = OP_SET_LOCAL
  BY <1>1, RunningRooted, NotReturn
<1>3. heap' = heap /\ globals' = globals /\ freed' = freed /\ constantObjects' = constantObjects
      /\ KeepsCode(heap, heap')
  BY <1>1, SameHeap DEF memory
<1>4. HeapSafe(heap', constantObjects', freed') /\ GlobalsSafe(globals', freed') /\ fn \notin freed'
  BY <1>2, <1>3 DEF Alive, Rooted, Anchored
<1>5. bp \in Nat /\ sp \in Nat /\ Byte(1) \in 0..255 /\ k < sp
  BY <1>1, <1>2, Instruction, Operand, OneOperand DEF Locals
<1>6. k \in Nat /\ bp <= k /\ (Byte(1) # 0 => bp < k)
  <2>1. ASSUME NEW m \in 0..255 PROVE bp + m \in Nat /\ bp <= bp + m /\ (m # 0 => bp < bp + m)
    BY <1>5
  <2> QED BY <1>5, <2>1
<1> HIDE DEF k
<1>7. ASSUME NEW i \in Nat PROVE SlotOf(stack', i) = IF i = k THEN peek(0) ELSE SlotOf(stack, i)
  <2>1. SlotOf(Written(k, <<peek(0)>>), i) =
          IF i \in k..k + Len(<<peek(0)>>) - 1 THEN <<peek(0)>>[i - k + 1] ELSE SlotOf(stack, i)
    BY <1>6, SingleSeq, WrittenSlots
  <2>2. Len(<<peek(0)>>) = 1 /\ <<peek(0)>>[1] = peek(0)
    BY SingleSeq
  <2>3. (i \in k..k + 1 - 1 <=> i = k) /\ (i = k => i - k + 1 = 1)
    BY <1>6
  <2> QED BY <1>1, <2>1, <2>2, <2>3
<1>8. ~Gone(peek(0), freed)
  BY <1>2, PeekIsThere
<1>9. Live(stack', sp', freed')
  <2>1. \A i \in 0..sp - 1 : i \in Nat /\ ~Gone(SlotOf(stack, i), freed)
    BY <1>2 DEF Rooted, Live
  <2> QED BY <1>1, <1>3, <1>7, <1>8, <2>1 DEF Live
<1>10. \A i \in Nat : i < bp => SlotOf(stack', i) = SlotOf(stack, i)
  BY <1>5, <1>6, <1>7
<1>11. callStack # <<>> => SlotOf(stack', bp) = SlotOf(stack, bp)
  <2>1. callStack # <<>> => Byte(1) # 0
    BY <1>2, AboveCallee DEF Rooted
  <2>2. bp # k => SlotOf(stack', bp) = SlotOf(stack, bp)
    BY <1>5, <1>7
  <2>3. Byte(1) # 0 => bp # k
    BY <1>5, <1>6
  <2> QED BY <2>1, <2>2, <2>3
<1> QED BY <1>1, <1>2, <1>3, <1>4, <1>9, <1>10, <1>11, StepRooted

-----------------------------------------------------------------------------
(* The instructions that allocate *)

LEMMA PoppedIs == Popped(OP_ADD) = 2 /\ Popped(OP_SET_CELL) = 0 /\ Popped(OP_NEW) = 1 /\ Popped(OP_MAKE_FUNCTION) = 1
BY DEF Popped, OP_ADD, OP_SET_CELL, OP_NEW, OP_MAKE_FUNCTION

Allocators == {OP_ADD, OP_SET_CELL, OP_NEW, OP_MAKE_FUNCTION}

LEMMA PoppedTaken ==
    ASSUME IInv, Balanced, NEW op \in Allocators, At_(op)
    PROVE  /\ Takes(op, Byte(1)) \in Nat /\ Popped(op) \in Nat /\ sp \in Nat
           /\ sp - Takes(op, Byte(1)) <= sp - Popped(op) \/ op = OP_SET_CELL
           /\ sp - Takes(op, Byte(1)) <= sp
<1>1. sp \in Nat
  BY VMAssumption DEF IInv, SpInv
<1>2. CASE op = OP_MAKE_FUNCTION
  <2>1. Byte(1) \in 0..255 /\ Takes(op, Byte(1)) = Byte(1) + 1 /\ Popped(op) = 1
    BY <1>2, Operand, OneOperand, TakesMore, PoppedIs
  <2>2. ASSUME NEW k \in 0..255 PROVE k + 1 \in Nat /\ sp - (k + 1) <= sp - 1 /\ sp - (k + 1) <= sp
    BY <1>1, <2>2
  <2>3. 1 \in Nat
    OBVIOUS
  <2> QED BY <1>1, <2>1, <2>2, <2>3
<1>3. CASE op \in {OP_ADD, OP_SET_CELL, OP_NEW}
  <2>1. /\ op = OP_ADD => Takes(op, Byte(1)) = 2 /\ Popped(op) = 2
        /\ op = OP_SET_CELL => Takes(op, Byte(1)) = 1 /\ Popped(op) = 0
        /\ op = OP_NEW => Takes(op, Byte(1)) = 1 /\ Popped(op) = 1
    BY <1>3, TakesTwo, TakesOne, TakesOther, PoppedIs
  <2>2. sp - 2 <= sp - 2 /\ sp - 1 <= sp - 1 /\ sp - 2 <= sp /\ sp - 1 <= sp /\ {0, 1, 2} \subseteq Nat
    BY <1>1
  <2> QED BY <1>1, <1>3, <2>1, <2>2
<1> QED BY <1>2, <1>3 DEF Allocators

(* Whether MEM collects or not, what the instruction has not popped stays. *)
LEMMA Collects ==
    ASSUME IInv, Balanced, LifeInv, NEW op \in Allocators, At_(op), NEW g, MEM(op, g)
    PROVE  /\ heap' = g /\ freed' \subseteq DOMAIN heap
           /\ HeapSafe(heap, constantObjects, freed') /\ GlobalsSafe(globals, freed')
           /\ Live(stack, sp - Popped(op), freed') /\ Live(stack, sp - Takes(op, Byte(1)), freed')
           /\ fn \notin freed'
<1> DEFINE top == sp - Popped(op)
           n == Takes(op, Byte(1))
<1>1. n \in Nat /\ Popped(op) \in Nat /\ sp \in Nat /\ (sp - n <= top \/ op = OP_SET_CELL) /\ sp - n <= sp
  BY PoppedTaken
<1>2. heap' = g /\ (freed' = freed \/ freed' = DOMAIN heap \ Marked(top))
  BY DEF MEM
<1>3. Alive /\ Rooted /\ status = "running" /\ Byte(0) = op
  BY RunningRooted
<1>4. op = OP_SET_CELL => Popped(op) = 0
  BY PoppedIs
<1> HIDE DEF n
<1>5. top \in Int /\ top <= sp /\ sp - n <= top
  BY <1>1, <1>4
<1> HIDE DEF top
<1>6. Live(stack, top, freed)
  <2>1. 0..top - 1 \subseteq 0..sp - 1
    BY <1>1, <1>5
  <2> QED BY <1>3, <2>1 DEF Rooted, Live
<1>7. freed' \subseteq DOMAIN heap /\ HeapSafe(heap, constantObjects, freed') /\ GlobalsSafe(globals, freed')
      /\ Live(stack, top, freed')
  BY <1>2, <1>3, <1>5, <1>6, CollectionSafe DEF Alive
<1>8. op # OP_RETURN /\ op # OP_SCOPE_EXIT
  BY NotReturn, NotScopeExit DEF Allocators
<1>9. fn \notin freed'
  BY <1>3, <1>5, <1>7, <1>8, Survives DEF n
<1>10. Live(stack, sp - n, freed')
  <2>1. 0..sp - n - 1 \subseteq 0..top - 1
    BY <1>1, <1>5
  <2> QED BY <1>7, <2>1 DEF Live
<1> QED BY <1>2, <1>7, <1>9, <1>10 DEF top, n

(* A new object, and the results on the stack. *)
LEMMA AllocateRooted ==
    ASSUME IInv, Balanced, LifeInv, NEW op \in {OP_ADD, OP_NEW, OP_MAKE_FUNCTION}, Step(op),
           NEW o, o.kind \notin {"CODE", "CLASS"}, MEM(op, Append(heap, o)), Sound(o, constantObjects, freed'),
           UNCHANGED <<globals, constantObjects, status>>,
           NEW vs, IsSeq(vs), Replace(Takes(op, Byte(1)), vs),
           \A i \in DOMAIN vs : vs[i] = OBJECT(Len(heap')) \/ ~Gone(vs[i], freed')
    PROVE  LifeInv'
<1>1. At_(op) /\ op \in Allocators /\ UNCHANGED <<bp, fn, callStack>>
  BY DEF Step, Allocators
<1>2. Rooted /\ status = "running" /\ Byte(0) = op /\ op # OP_RETURN /\ op # OP_SCOPE_EXIT
  BY <1>1, RunningRooted, NotReturn, NotScopeExit
<1>3. /\ heap' = Append(heap, o) /\ freed' \subseteq DOMAIN heap
      /\ HeapSafe(heap, constantObjects, freed') /\ GlobalsSafe(globals, freed')
      /\ Live(stack, sp - Takes(op, Byte(1)), freed') /\ fn \notin freed'
  BY <1>1, Collects
<1>4. IsSeq(heap)
  BY DEF IInv, MemoryOK, HeapOK
<1>5. KeepsCode(heap, heap')
  BY <1>3, <1>4, AppendKeepsCode
<1>6. HeapSafe(heap', constantObjects, freed') /\ Len(heap') \notin freed'
  BY <1>3, <1>4, AppendSafe
<1>7. \A i \in DOMAIN vs : ~Gone(vs[i], freed')
  BY <1>6 DEF Gone, OBJECT, Payload
<1> QED BY <1>1, <1>2, <1>3, <1>5, <1>6, <1>7, ReplaceRooted

LEMMA PlainObject ==
    ASSUME NEW o, o.kind \in {"STRING", "NATIVE"}, NEW C, NEW F PROVE Sound(o, C, F)
<1>1. Pointers(o) = {} /\ NotTraced(o) = {}
  BY PointersByKind, NotTracedByKind
<1> QED BY <1>1 DEF Sound

LEMMA AddRooted == ASSUME IInv, Balanced, LifeInv, Add PROVE LifeInv'
<1>1. Step(OP_ADD) /\ At_(OP_ADD) /\ status' = status /\ Takes(OP_ADD, Byte(1)) = 2
  BY TakesTwo DEF Add, Step
<1>2. CASE /\ \/ Replace(2, <<>>)
              \/ \E n : Replace(2, <<NUMBER(n)>>)
           /\ UNCHANGED memory
  BY <1>1, <1>2, PairRooted
<1>3. ASSUME NEW chars, MEM(OP_ADD, Append(heap, StringObject(chars))), Replace(2, <<OBJECT(Len(heap'))>>),
             UNCHANGED <<globals, constantObjects>>
      PROVE  LifeInv'
  <2> DEFINE o == StringObject(chars)
             v == OBJECT(Len(heap'))
  <2>1. o.kind = "STRING"
    BY DEF StringObject
  <2>2. MEM(OP_ADD, Append(heap, o)) /\ Replace(2, <<v>>)
    BY <1>3
  <2> HIDE DEF o
  <2>3. Sound(o, constantObjects, freed')
    BY <2>1, PlainObject
  <2>4. IsSeq(<<v>>) /\ \A i \in DOMAIN <<v>> : <<v>>[i] = v
    BY SingleSeq
  <2> QED BY <1>1, <1>3, <2>1, <2>2, <2>3, <2>4, AllocateRooted
<1> QED BY <1>2, <1>3 DEF Add

LEMMA CodeIsConstant ==
    ASSUME Alive, NEW a, Refers(heap, a, "CODE") \/ Refers(heap, a, "CLASS") PROVE a \in constantObjects
BY DEF Alive, HeapSafe, Refers

LEMMA NewRooted == ASSUME IInv, Balanced, LifeInv, New PROVE LifeInv'
<1> DEFINE cls == Payload(peek(0))
           made == InstanceObject(cls)
           constructor == classProp(heap, cls, "constructor")
           v == OBJECT(Len(heap'))
<1>1. Step(OP_NEW) /\ At_(OP_NEW) /\ UNCHANGED <<globals, constantObjects, status>>
      /\ MEM(OP_NEW, Append(heap, made)) /\ Replace(1, <<constructor, v>>) /\ Takes(OP_NEW, Byte(1)) = 1
  BY TakesOther DEF New, Step
<1>2. Byte(0) = OP_NEW /\ ~Undefined
  BY <1>1, Decoded
<1>3. Refers(heap, cls, "CLASS")
  BY <1>2, PeekIsValue, ObjectRefers DEF Undefined, Is
<1>4. cls \in constantObjects
  BY <1>1, <1>3, RunningRooted, CodeIsConstant
<1>5. made.kind = "INSTANCE" /\ made.cls = cls /\ made.properties = <<>>
  BY DEF InstanceObject
<1>6. HeapSafe(heap, constantObjects, freed')
  BY <1>1, Collects DEF Allocators
<1>7. ~Gone(constructor, freed')
  <2>1. IsObject(constructor) => Payload(constructor) \in constantObjects
    BY <1>1, RunningRooted, ClassPropConstant DEF Alive
  <2> HIDE DEF constructor
  <2> QED BY <1>6, <2>1 DEF Gone, HeapSafe
<1> HIDE DEF made, constructor, cls
<1>8. Sound(made, constantObjects, freed')
  <2>3. NotTraced(made) = {made.cls}
    BY <1>5, NotTracedByKind
  <2>1. Pointers(made) = Referenced({made.properties[p] : p \in DOMAIN made.properties})
    BY <1>5, PointersByKind
  <2>2. Pointers(made) = {}
    BY <1>5, <2>1, EmptySeq DEF Referenced
  <2> QED BY <1>4, <1>5, <2>2, <2>3 DEF Sound
<1>9. /\ IsSeq(<<constructor, v>>) /\ DOMAIN <<constructor, v>> = {1, 2}
      /\ <<constructor, v>>[1] = constructor /\ <<constructor, v>>[2] = v
  BY PairSeq
<1>10. \A i \in DOMAIN <<constructor, v>> : <<constructor, v>>[i] = v \/ ~Gone(<<constructor, v>>[i], freed')
  BY <1>7, <1>9
<1> QED BY <1>1, <1>5, <1>8, <1>9, <1>10, AllocateRooted

LEMMA MakeFunctionRooted == ASSUME IInv, Balanced, LifeInv, MakeFunction PROVE LifeInv'
<1> DEFINE n == Byte(1)
           co == Payload(peek(0))
           captured == [k \in 1..n |-> Captured(k)]
           made == [FunctionObject(co) EXCEPT !.cells = captured]
           v == OBJECT(Len(heap'))
<1>1. Step(OP_MAKE_FUNCTION) /\ At_(OP_MAKE_FUNCTION) /\ UNCHANGED <<globals, constantObjects, status>>
      /\ MEM(OP_MAKE_FUNCTION, Append(heap, made)) /\ Replace(n + 1, <<v>>)
      /\ Takes(OP_MAKE_FUNCTION, Byte(1)) = n + 1
  BY TakesMore DEF MakeFunction, Step
<1>2. Byte(0) = OP_MAKE_FUNCTION /\ ~Undefined /\ n \in 0..255
  BY <1>1, Decoded, Operand, OneOperand
<1>3. IsKind(heap, peek(0), "CODE") /\ \A k \in 1..n : IsKind(heap, peek(k), "CELL")
  BY <1>2 DEF Undefined
<1>4. Refers(heap, co, "CODE")
  BY <1>3, PeekIsValue, ObjectRefers
<1>5. co \in constantObjects
  BY <1>1, <1>4, RunningRooted, CodeIsConstant
<1>6. made.kind = "FUNCTION" /\ made.co = co /\ made.cells = captured
  BY DEF FunctionObject
<1>7. Live(stack, sp - 1, freed')
  BY <1>1, Collects, PoppedIs DEF Allocators
<1>8. sp \in Nat /\ n + 1 <= sp
  <2>1. 1 + n \in Nat /\ 1 + n = n + 1
    BY <1>2, OperandNext
  <2> QED BY <1>1, <2>1, Enough, NeedsCells
<1>9. ASSUME NEW k \in 1..n PROVE captured[k] \notin freed'
  <2>1. sp - 1 - k \in 0..sp - 1 - 1
    <3>1. ASSUME NEW m \in 0..255, NEW j \in 1..m, m + 1 <= sp PROVE sp - 1 - j \in 0..sp - 1 - 1
      BY <1>8, <3>1
    <3> QED BY <1>2, <1>8, <3>1
  <2>2. ~Gone(peek(k), freed')
    BY <1>7, <2>1, SlotIs DEF Live, peek
  <2>3. IsObject(peek(k))
    BY <1>3 DEF IsKind
  <2> QED BY <2>2, <2>3 DEF Gone, Captured
<1>10. DOMAIN captured = 1..n
  OBVIOUS
<1> HIDE DEF made, captured, co
<1>11. Sound(made, constantObjects, freed')
  <2>1. NotTraced(made) = {made.co} /\ Pointers(made) = {made.cells[k] : k \in DOMAIN made.cells} \ {Null}
    BY <1>6, NotTracedByKind, PointersByKind
  <2> QED BY <1>5, <1>6, <1>9, <1>10, <2>1 DEF Sound
<1>12. IsSeq(<<v>>) /\ \A i \in DOMAIN <<v>> : <<v>>[i] = v
  BY SingleSeq
<1> QED BY <1>1, <1>6, <1>11, <1>12, AllocateRooted

-----------------------------------------------------------------------------
(* The instructions that change an object *)

LEMMA FunctionSound ==
    ASSUME NEW o, o.kind = "FUNCTION", NEW C, NEW F
    PROVE  Sound(o, C, F) <=> o.co \in C /\ \A k \in DOMAIN o.cells : o.cells[k] = Null \/ o.cells[k] \notin F
<1>1. NotTraced(o) = {o.co}
  BY NotTracedByKind
<1>2. Pointers(o) = {o.cells[k] : k \in DOMAIN o.cells} \ {Null}
  BY PointersByKind
<1> QED BY <1>1, <1>2 DEF Sound

LEMMA CellSound ==
    ASSUME NEW o, o.kind = "CELL", NEW C, NEW F, Referenced({o.value}) \subseteq C
    PROVE  Sound(o, C, F)
<1>1. NotTraced(o) = Referenced({o.value}) /\ Pointers(o) = {}
  BY NotTracedByKind, PointersByKind
<1> QED BY <1>1 DEF Sound

LEMMA SetCellRooted == ASSUME IInv, Balanced, LifeInv, Tame, SetCell PROVE LifeInv'
<1>1. Step(OP_SET_CELL) /\ At_(OP_SET_CELL)
      /\ UNCHANGED <<globals, constantObjects, stack, sp, bp, fn, callStack, status>>
  BY DEF SetCell, Step
<1>2. Alive /\ Rooted /\ status = "running" /\ Byte(0) = OP_SET_CELL /\ Byte(0) # OP_RETURN
      /\ fn \in DOMAIN heap \ freed
  BY <1>1, RunningRooted, NotReturn
<1>3. /\ ~Undefined /\ Refers(heap, fn, "FUNCTION") /\ HeapOK(heap) /\ IsSeq(heap)
      /\ Operands(OP_SET_CELL) = 1 /\ Byte(1) \in 0..255 /\ IsSeq(cells)
  BY <1>1, Decoded, Operand, OneOperand, CellsIsSeq DEF IInv, MemoryOK, HeapOK
<1> DEFINE cell == CellObject(peek(0))
<1>4. cell.kind = "CELL" /\ Referenced({cell.value}) \subseteq constantObjects
  BY <1>2 DEF CellObject, Tame
<1>5. ASSUME NEW F PROVE Sound(cell, constantObjects, F)
  <2> HIDE DEF cell
  <2> QED BY <1>4, CellSound
<1>6. CASE MEM(OP_SET_CELL, Append([heap EXCEPT ![fn].cells = Append(@, Len(heap) + 1)], cell))
  <2> DEFINE f == heap[fn]
             more == Append(f.cells, Len(heap) + 1)
             o == [f EXCEPT !.cells = more]
             h == [heap EXCEPT ![fn] = o]
  <2>1. MEM(OP_SET_CELL, Append(h, cell))
    BY <1>6
  <2>2. /\ heap' = Append(h, cell) /\ freed' \subseteq DOMAIN heap
        /\ HeapSafe(heap, constantObjects, freed') /\ GlobalsSafe(globals, freed')
        /\ Live(stack, sp, freed') /\ fn \notin freed'
    <3> HIDE DEF h, cell
    <3>1. sp - Popped(OP_SET_CELL) = sp
      BY PoppedIs, VMAssumption DEF IInv, SpInv
    <3> QED BY <1>1, <2>1, <3>1, Collects DEF Allocators
  <2>3. f = [kind |-> "FUNCTION", co |-> f.co, cells |-> f.cells]
        /\ IsSeq(f.cells) /\ fn \in DOMAIN heap
    BY <1>3, ObjectOfHeap DEF FunctionOK, Refers
  <2>4. Sound(f, constantObjects, freed')
    BY <2>2, <2>3 DEF HeapSafe
  <2> HIDE DEF f
  <2>5. /\ DOMAIN f.cells = 1..Len(f.cells) /\ DOMAIN more = 1..Len(f.cells) + 1 /\ Len(f.cells) \in Nat
        /\ \A k \in 1..Len(f.cells) : more[k] = f.cells[k]
        /\ more[Len(f.cells) + 1] = Len(heap) + 1
    BY <2>3, AppendIsSeq
  <2> HIDE DEF more
  <2>6. o.kind = "FUNCTION" /\ f.kind = "FUNCTION" /\ o.co = f.co /\ o.cells = more
    BY <2>3
  <2> HIDE DEF o
  <2>7. Len(heap) + 1 \notin freed'
    <3>1. DOMAIN heap = 1..Len(heap) /\ Len(heap) \in Nat
      BY <1>3, SeqShape
    <3> QED BY <2>2, <3>1
  <2>8. \A k \in DOMAIN more : more[k] = Null \/ more[k] \notin freed'
    <3>1. \A k \in DOMAIN f.cells : f.cells[k] = Null \/ f.cells[k] \notin freed'
      BY <2>4, <2>6, FunctionSound
    <3>2. ASSUME NEW k \in DOMAIN more PROVE k \in DOMAIN f.cells \/ k = Len(f.cells) + 1
      BY <2>5
    <3> QED BY <2>5, <2>7, <3>1, <3>2
  <2>9. Sound(o, constantObjects, freed')
    <3>1. f.co \in constantObjects
      BY <2>4, <2>6, FunctionSound
    <3> QED BY <2>6, <2>8, <3>1, FunctionSound
  <2>10. IsSeq(h) /\ DOMAIN h = DOMAIN heap /\ h[fn] = o /\ \A b \in DOMAIN heap : b # fn => h[b] = heap[b]
    BY <1>3, <2>3, ExceptIsSeq
  <2>11. o.kind = heap[fn].kind /\ o.kind # "CODE" /\ o.co = heap[fn].co
    BY <2>6 DEF f
  <2>12. HeapSafe(h, constantObjects, freed')
    BY <1>3, <2>2, <2>3, <2>9, <2>11, UpdateSafe
  <2>13. KeepsCode(heap, h)
    BY <1>3, <2>3, <2>11, UpdateKeepsCode
  <2> HIDE DEF h, cell
  <2>14. Grows(heap, h)
    BY <2>10, <2>11 DEF Grows
  <2>15. KeepsCode(heap, heap')
    <3>1. KeepsCode(h, heap')
      BY <1>4, <2>2, <2>10, AppendKeepsCode
    <3> QED BY <2>13, <2>14, <3>1, KeepsOn
  <2>16. freed' \subseteq DOMAIN h
    BY <2>2, <2>10
  <2>17. HeapSafe(heap', constantObjects, freed')
    BY <1>4, <1>5, <2>2, <2>10, <2>12, <2>16, AppendSafe
  <2> QED BY <1>1, <1>2, <2>2, <2>15, <2>17, StillRooted
<1>7. CASE /\ Byte(1) < Len(cells)
           /\ heap' = [heap EXCEPT ![cells[Byte(1) + 1]].value = peek(0)]
           /\ UNCHANGED freed
  <2> DEFINE a == cells[Byte(1) + 1]
             o == [heap[a] EXCEPT !.value = peek(0)]
  <2>1. a # Null
    BY <1>2, <1>3, <1>7 DEF Undefined
  <2>2. Refers(heap, a, "CELL")
    BY <1>1, <1>3, <1>7, <2>1, CellsOfRunning
  <2>3. heap[a] = [kind |-> "CELL", value |-> heap[a].value]
    BY <1>3, <2>2, ObjectOfHeap
  <2>4. o.kind = "CELL" /\ heap[a].kind = "CELL" /\ o.value = peek(0)
    BY <2>3
  <2>5. heap' = [heap EXCEPT ![a] = o]
    BY <1>7
  <2> HIDE DEF o, a
  <2>6. Sound(o, constantObjects, freed)
    BY <1>2, <2>4, CellSound DEF Tame
  <2>7. HeapSafe(heap', constantObjects, freed)
    BY <1>2, <1>3, <2>2, <2>4, <2>5, <2>6, UpdateSafe DEF Alive, Refers
  <2>8. KeepsCode(heap, heap')
    BY <1>3, <2>2, <2>4, <2>5, UpdateKeepsCode DEF Refers
  <2>9. HeapSafe(heap', constantObjects', freed') /\ GlobalsSafe(globals', freed') /\ Live(stack, sp, freed')
        /\ fn \notin freed'
    BY <1>1, <1>2, <1>7, <2>7 DEF Alive, Rooted
  <2> QED BY <1>1, <1>2, <2>8, <2>9, StillRooted
<1> QED BY <1>6, <1>7 DEF SetCell

LEMMA SetPropRooted == ASSUME IInv, Balanced, LifeInv, SetProp PROVE LifeInv'
<1> DEFINE a == Payload(peek(0))
           prop == Chars(Constant(Byte(1)))
           old == heap[a].properties
           properties == [p \in DOMAIN old \cup {prop} |-> IF p = prop THEN peek(1) ELSE old[p]]
           o == [heap[a] EXCEPT !.properties = properties]
           v == peek(1)
<1>1. Step(OP_SET_PROP) /\ At_(OP_SET_PROP) /\ Replace(2, <<v>>)
      /\ heap' = [heap EXCEPT ![a].properties = properties]
      /\ UNCHANGED <<globals, freed, constantObjects, bp, fn, callStack, status>>
  BY DEF SetProp, Step
<1>2. Alive /\ Rooted /\ status = "running" /\ Byte(0) = OP_SET_PROP /\ ~Undefined
      /\ Byte(0) # OP_RETURN /\ Byte(0) # OP_SCOPE_EXIT /\ Takes(Byte(0), Byte(1)) = 2
  BY <1>1, RunningRooted, Decoded, NotReturn, NotScopeExit, TakesTwo
<1>3. HeapOK(heap) /\ IsSeq(heap) /\ Is(peek(0), "INSTANCE")
  BY <1>2 DEF Undefined, IInv, MemoryOK, HeapOK
<1>4. ~Stale(peek(0)) /\ IsKind(heap, peek(0), "INSTANCE")
  BY <1>3 DEF Is
<1>5. Refers(heap, a, "INSTANCE") /\ a \notin freed
  BY <1>4, PeekIsValue, ObjectRefers DEF Stale, IsKind
<1>6. heap[a] = [kind |-> "INSTANCE", cls |-> heap[a].cls, properties |-> heap[a].properties]
  BY <1>3, <1>5, ObjectOfHeap
<1>7. ~Gone(v, freed)
  BY <1>2, PeekIsThere
<1>8. Sound(heap[a], constantObjects, freed)
  BY <1>2, <1>5 DEF Alive, HeapSafe, Refers
<1>9. /\ DOMAIN properties = DOMAIN old \cup {prop} /\ properties[prop] = v
      /\ \A p \in DOMAIN old : p # prop => properties[p] = old[p]
  OBVIOUS
<1> HIDE DEF properties, v, prop
<1>10. heap' = [heap EXCEPT ![a] = o]
  BY <1>1
<1>11. /\ o.kind = "INSTANCE" /\ o.cls = heap[a].cls /\ o.properties = properties
       /\ heap[a].kind = "INSTANCE" /\ heap[a].properties = old
  BY <1>6
<1> HIDE DEF o, old
<1>12. Sound(o, constantObjects, freed)
  <2> DEFINE i == heap[a]
  <2>1. Sound(i, constantObjects, freed) /\ i.kind = "INSTANCE" /\ i.properties = old /\ o.cls = i.cls
    BY <1>8, <1>11
  <2> HIDE DEF i
  <2>2. NotTraced(i) = {i.cls} /\ NotTraced(o) = {o.cls}
    BY <1>11, <2>1, NotTracedByKind
  <2>3. Pointers(i) = Referenced({i.properties[p] : p \in DOMAIN i.properties})
    BY <2>1, PointersByKind
  <2>4. Pointers(o) = Referenced({o.properties[p] : p \in DOMAIN o.properties})
    BY <1>11, PointersByKind
  <2>5. Referenced({i.properties[p] : p \in DOMAIN i.properties}) \cap freed = {}
    BY <2>1, <2>3 DEF Sound
  <2>6. \A p \in DOMAIN i.properties : ~Gone(i.properties[p], freed)
    BY <2>5, ReferencedAll
  <2>7. \A p \in DOMAIN o.properties : ~Gone(o.properties[p], freed)
    <3> TAKE p \in DOMAIN o.properties
    <3>1. CASE p = prop
      BY <1>7, <1>9, <1>11, <3>1
    <3>2. CASE p # prop
      <4>1. p \in DOMAIN old /\ properties[p] = old[p]
        BY <1>9, <1>11, <3>2
      <4> QED BY <1>11, <2>1, <2>6, <4>1
    <3> QED BY <3>1, <3>2
  <2>8. Referenced({o.properties[p] : p \in DOMAIN o.properties}) \cap freed = {}
    <3> DEFINE f == o.properties
    <3>1. \A p \in DOMAIN f : ~Gone(f[p], freed)
      BY <2>7
    <3> HIDE DEF f
    <3>2. Referenced({f[p] : p \in DOMAIN f}) \cap freed = {} <=> \A p \in DOMAIN f : ~Gone(f[p], freed)
      BY ReferencedAll, Zenon
    <3> QED BY <3>1, <3>2 DEF f
  <2> QED BY <2>1, <2>2, <2>4, <2>8 DEF Sound
<1> HIDE DEF a
<1>13. HeapSafe(heap', constantObjects, freed)
  BY <1>2, <1>3, <1>5, <1>10, <1>11, <1>12, UpdateSafe DEF Alive, Refers
<1>14. KeepsCode(heap, heap')
  BY <1>3, <1>5, <1>10, <1>11, UpdateKeepsCode DEF Refers
<1>15. HeapSafe(heap', constantObjects', freed') /\ GlobalsSafe(globals', freed') /\ fn \notin freed'
  BY <1>1, <1>2, <1>13 DEF Alive, Rooted, Anchored
<1>16. Live(stack, sp - 2, freed')
  <2>1. 0..sp - 2 - 1 \subseteq 0..sp - 1
    BY VMAssumption DEF IInv, SpInv
  <2> QED BY <1>1, <1>2, <2>1 DEF Rooted, Live
<1>17. IsSeq(<<v>>) /\ \A i \in DOMAIN <<v>> : ~Gone(<<v>>[i], freed')
  BY <1>1, <1>7, SingleSeq
<1> QED BY <1>1, <1>2, <1>14, <1>15, <1>16, <1>17, ReplaceRooted

-----------------------------------------------------------------------------
(* Calls and returns *)

LEMMA CallAlive ==
    ASSUME IInv, LifeInv, Call
    PROVE  HeapSafe(heap', constantObjects, freed) /\ Payload(Callee) \notin freed /\ IsObject(Callee)
<1> DEFINE a == Payload(Callee)
           f == heap[a]
           left == Shrunk(f)
           o == [f EXCEPT !.cells = left]
<1>1. At_(OP_CALL) /\ Is(Callee, "FUNCTION") /\ heap' = [heap EXCEPT ![a] = o]
  BY DEF Call
<1>2. HeapOK(heap) /\ IsSeq(heap) /\ Refers(heap, a, "FUNCTION") /\ Alive
  BY <1>1, CalleeIsFunction, RunningRooted DEF IInv, MemoryOK, HeapOK
<1>3. a \notin freed /\ IsObject(Callee)
  BY <1>1 DEF Is, IsKind, Stale
<1>4. f = [kind |-> "FUNCTION", co |-> f.co, cells |-> f.cells] /\ IsSeq(f.cells) /\ f.kind = "FUNCTION"
  <2>1. FunctionOK(heap, f) /\ f.kind = "FUNCTION"
    BY <1>2, ObjectOfHeap DEF Refers
  <2> HIDE DEF f
  <2> QED BY <2>1 DEF FunctionOK
<1>5. Sound(f, constantObjects, freed)
  BY <1>2, <1>3 DEF Alive, HeapSafe, Refers
<1> HIDE DEF f
<1>6. left = [i \in 1..heap[f.co].freeCount |-> IF i <= Len(f.cells) THEN f.cells[i] ELSE Null]
  BY DEF Shrunk
<1> HIDE DEF left
<1>7. o.kind = "FUNCTION" /\ o.co = f.co /\ o.cells = left
  BY <1>4
<1> HIDE DEF o
<1>8. f.co \in constantObjects /\ \A k \in DOMAIN f.cells : f.cells[k] = Null \/ f.cells[k] \notin freed
  BY <1>4, <1>5, FunctionSound
<1>9. ASSUME NEW k \in DOMAIN left PROVE left[k] = Null \/ left[k] \notin freed
  <2>1. k \in 1..heap[f.co].freeCount /\ DOMAIN f.cells = 1..Len(f.cells) /\ Len(f.cells) \in Nat
    BY <1>4, <1>6, SeqShape
  <2>2. CASE k <= Len(f.cells)
    <3>1. k \in DOMAIN f.cells
      BY <2>1, <2>2
    <3> QED BY <1>6, <1>8, <2>1, <2>2, <3>1
  <2>3. CASE ~(k <= Len(f.cells))
    BY <1>6, <2>1, <2>3
  <2> QED BY <2>2, <2>3
<1>10. Sound(o, constantObjects, freed)
  BY <1>7, <1>8, <1>9, FunctionSound
<1>11. HeapSafe(heap', constantObjects, freed)
  <2>1. o.kind = heap[a].kind
    BY <1>4, <1>7 DEF f
  <2> HIDE DEF a
  <2> QED BY <1>1, <1>2, <1>10, <2>1, UpdateSafe DEF Alive, Refers
<1> QED BY <1>3, <1>11

(* The callee is in the slot where its frame begins, and its caller is in  *)
(* the one where its own began, further down.                              *)
LEMMA CallRooted == ASSUME IInv, Balanced, LifeInv, Call PROVE LifeInv'
<1> DEFINE f == Payload(Callee)
           L == Len(callStack)
           base == sp - Byte(1) - 1
<1>1. At_(OP_CALL) /\ callStack' = Append(callStack, Frame) /\ fn' = f /\ bp' = base
      /\ UNCHANGED <<globals, freed, constantObjects, stack, sp, status>>
  BY DEF Call
<1>2. Alive /\ Rooted /\ status = "running" /\ Byte(0) = OP_CALL /\ Byte(1) \in 0..255
      /\ Byte(0) # OP_RETURN /\ Byte(0) # OP_SCOPE_EXIT
  BY <1>1, RunningRooted, NotReturn, NotScopeExit, Operand, OneOperand
<1>3. HeapSafe(heap', constantObjects, freed) /\ f \notin freed /\ IsObject(Callee)
  BY CallAlive
<1>4. Anchored(heap, constantObjects, freed, stack, callStack, fn, ip, bp)
  BY <1>2 DEF Rooted
<1>5. Frame.bp = bp /\ Frame.fn = fn
  BY DEF Frame
<1>6. /\ DOMAIN callStack = 1..L /\ DOMAIN callStack' = 1..L + 1 /\ L \in Nat
      /\ \A i \in 1..L : callStack'[i] = callStack[i]
      /\ callStack'[L + 1] = Frame
      /\ callStack = <<>> <=> L = 0
  <2>1. IsSeq(callStack)
    BY DEF IInv, FrameInv
  <2>2. callStack = <<>> <=> L = 0
    BY <2>1, SeqShape DEF IsSeq
  <2> QED BY <1>1, <2>1, <2>2, AppendIsSeq
<1> HIDE DEF L
<1>7. base \in Nat /\ base < sp /\ base = sp - 1 - Byte(1) /\ sp \in Nat /\ bp \in Nat
  <2>1. Takes(Byte(0), Byte(1)) = Byte(1) + 1 /\ sp \in Nat /\ bp \in Nat /\ bp + Takes(Byte(0), Byte(1)) <= sp
    BY <1>2, Instruction, TakesMore
  <2>2. ASSUME NEW k \in 0..255, bp + (k + 1) <= sp
        PROVE  sp - k - 1 \in Nat /\ sp - k - 1 < sp /\ sp - k - 1 = sp - 1 - k
    BY <2>1, <2>2
  <2> QED BY <1>2, <2>1, <2>2
<1>8. L # 0 => bp < base
  <2> SUFFICES ASSUME L # 0 PROVE bp < base
    OBVIOUS
  <2>1. bp + Takes(Byte(0), Byte(1)) < sp /\ Takes(Byte(0), Byte(1)) = Byte(1) + 1
    BY <1>2, <1>6, AboveCallee, TakesMore DEF Rooted
  <2>2. ASSUME NEW k \in 0..255, bp + (k + 1) < sp PROVE bp < sp - k - 1
    BY <1>7, <2>2
  <2> QED BY <1>2, <2>1, <2>2
<1>9. Holds(stack, base, f)
  <2>1. Callee = SlotOf(stack, base)
    BY <1>7, SlotIs DEF Callee, peek
  <2> QED BY <1>3, <2>1 DEF Holds
<1>10. L # 0 => Holds(stack, bp, fn)
  <2>1. Byte(0) = OpCodeAt(CodeOf(heap, fn), ip)
    BY BytesAre
  <2> QED BY <1>2, <1>4, <1>6, <2>1 DEF Anchored
<1> HIDE DEF f, base
<1>11. callStack'[1].fn \in constantObjects
  <2>1. CASE L = 0
    <3>1. callStack'[1] = Frame
      BY <1>6, <2>1
    <3> QED BY <1>4, <1>5, <1>6, <2>1, <3>1 DEF Anchored
  <2>2. CASE L # 0
    <3>1. 1 \in 1..L
      BY <1>6, <2>2
    <3> QED BY <1>4, <1>6, <2>2, <3>1 DEF Anchored
  <2> QED BY <2>1, <2>2
<1>12. ASSUME NEW k \in DOMAIN callStack', k # 1
       PROVE  callStack'[k].bp < base /\ Holds(stack, callStack'[k].bp, callStack'[k].fn)
              /\ \A j \in DOMAIN callStack' : j # 1 /\ j < k => callStack'[j].bp < callStack'[k].bp
  <2>1. L # 0 /\ (k \in 1..L \/ k = L + 1)
    BY <1>6, <1>12
  <2>2. CASE k \in 1..L
    <3>1. callStack[k].bp < bp /\ Holds(stack, callStack[k].bp, callStack[k].fn) /\ callStack'[k] = callStack[k]
      BY <1>4, <1>6, <1>12, <2>2 DEF Anchored
    <3>2. callStack[k].bp < base
      <4>1. callStack[k].bp \in Nat
        BY <1>6, <2>2, FramesBelow
      <4> QED BY <1>7, <1>8, <2>1, <3>1, <4>1
    <3>3. ASSUME NEW j \in DOMAIN callStack', j # 1, j < k PROVE callStack'[j].bp < callStack'[k].bp
      <4>1. j \in 1..L
        BY <1>6, <2>2, <3>3
      <4>2. callStack[j].bp < callStack[k].bp
        BY <1>4, <1>6, <2>2, <3>3, <4>1 DEF Anchored
      <4> QED BY <1>6, <3>1, <4>1, <4>2
    <3> QED BY <3>1, <3>2, <3>3
  <2>3. CASE k = L + 1
    <3>1. callStack'[k].bp = bp /\ callStack'[k].fn = fn
      BY <1>5, <1>6, <2>3
    <3>2. ASSUME NEW j \in DOMAIN callStack', j # 1, j < k PROVE callStack'[j].bp < bp
      <4>1. j \in 1..L
        BY <1>6, <2>3, <3>2
      <4>2. callStack'[j] = callStack[j]
        BY <1>6, <4>1
      <4> QED BY <1>4, <1>6, <3>2, <4>1, <4>2 DEF Anchored
    <3> QED BY <1>8, <1>10, <2>1, <3>1, <3>2
  <2> QED BY <2>1, <2>2, <2>3
<1>13. callStack' # <<>>
  <2>1. 1 \in 1..L + 1
    BY <1>6
  <2> QED BY <1>6, <2>1, EmptySeq
<1>14. Anchored(heap', constantObjects, freed, stack, callStack', f, ip', base)
  <2>1. ASSUME NEW j \in DOMAIN callStack', NEW k \in DOMAIN callStack', j # 1, j < k PROVE k # 1
    BY <1>6, <2>1
  <2> QED BY <1>3, <1>9, <1>11, <1>12, <1>13, <2>1 DEF Anchored
<1>15. CalleesKept'
  BY <1>2, CallKeepsCode, CalleesStill DEF Rooted
<1>16. Live(stack, sp, freed) /\ GlobalsSafe(globals, freed)
  BY <1>2 DEF Alive, Rooted
<1> QED BY <1>1, <1>2, <1>3, <1>14, <1>15, <1>16 DEF LifeInv, Alive, Rooted

LEMMA ReturnRooted == ASSUME IInv, Balanced, LifeInv, Return PROVE LifeInv'
<1> DEFINE L == Len(callStack)
           frame == callStack[L]
<1>1. /\ At_(OP_RETURN) /\ bp' = frame.bp /\ fn' = frame.fn
      /\ UNCHANGED <<memory, stack, sp, status>>
      /\ callStack' = SubSeq(callStack, 1, L - 1)
  BY DEF Return
<1>2. Alive /\ Rooted /\ status = "running" /\ Byte(0) = OP_RETURN /\ ~Undefined
  BY <1>1, RunningRooted, Decoded
<1>3. callStack # <<>>
  BY <1>2 DEF Undefined
<1>4. heap' = heap /\ globals' = globals /\ freed' = freed /\ constantObjects' = constantObjects
  BY <1>1 DEF memory
<1>5. Anchored(heap, constantObjects, freed, stack, callStack, fn, ip, bp)
  BY <1>2 DEF Rooted
<1>6. IsSeq(callStack) /\ DOMAIN callStack = 1..L /\ L \in Nat /\ L # 0
  <2>1. IsSeq(callStack)
    BY DEF IInv, FrameInv
  <2> QED BY <1>3, <2>1, SeqShape DEF IsSeq
<1>7. /\ DOMAIN callStack' = 1..L - 1
      /\ \A k \in 1..L - 1 : callStack'[k] = callStack[k]
      /\ callStack' = <<>> <=> L = 1
  <2> DEFINE V == {callStack[k] : k \in DOMAIN callStack}
  <2>1. callStack \in Seq(V)
    BY <1>6 DEF IsSeq
  <2> HIDE DEF V
  <2>2. /\ SubSeq(callStack, 1, L - 1) \in Seq(V)
        /\ Len(SubSeq(callStack, 1, L - 1)) = L - 1
        /\ DOMAIN SubSeq(callStack, 1, L - 1) = 1..L - 1
        /\ \A k \in 1..L - 1 : SubSeq(callStack, 1, L - 1)[k] = callStack[k]
    BY <1>6, <2>1
  <2>3. callStack' \in Seq(V) /\ Len(callStack') = L - 1
    BY <1>1, <2>2
  <2>4. ASSUME NEW s \in Seq(V) PROVE s = <<>> <=> Len(s) = 0
    OBVIOUS
  <2>5. callStack' = <<>> <=> L - 1 = 0
    BY <2>3, <2>4
  <2>6. L - 1 = 0 <=> L = 1
    BY <1>6
  <2> QED BY <1>1, <2>2, <2>5, <2>6
<1> HIDE DEF L
<1>8. L # 1 => frame.bp < bp /\ Holds(stack, frame.bp, frame.fn)
  <2>1. L \in DOMAIN callStack
    BY <1>6
  <2> QED BY <1>5, <2>1 DEF Anchored
<1>9. L = 1 => frame.fn \in constantObjects
  BY <1>3, <1>5 DEF Anchored
<1>10. frame.fn \notin freed
  <2>1. CASE L = 1
    BY <1>2, <1>9, <2>1 DEF Alive, HeapSafe
  <2>2. CASE L # 1
    <3>1. frame.bp \in Nat /\ bp \in Nat /\ sp = bp + 1
      <4>1. L \in DOMAIN callStack
        BY <1>6
      <4> QED BY <1>2, <4>1, Instruction, FramesBelow
    <3>2. frame.bp \in 0..sp - 1
      BY <1>8, <2>2, <3>1
    <3>3. ~Gone(SlotOf(stack, frame.bp), freed)
      BY <1>2, <3>2 DEF Rooted, Live
    <3> QED BY <1>8, <2>2, <3>3 DEF Gone, Holds
  <2> QED BY <2>1, <2>2
<1>11. L # 1 => callStack'[1].fn \in constantObjects
  <2>1. L # 1 => 1 \in 1..L - 1
    BY <1>6
  <2> QED BY <1>3, <1>5, <1>7, <2>1 DEF Anchored
<1>12. ASSUME NEW k \in DOMAIN callStack', k # 1
       PROVE  callStack'[k].bp < frame.bp /\ Holds(stack, callStack'[k].bp, callStack'[k].fn)
              /\ \A j \in DOMAIN callStack' : j # 1 /\ j < k => callStack'[j].bp < callStack'[k].bp
  <2>1. k \in 1..L - 1 /\ k \in DOMAIN callStack /\ L \in DOMAIN callStack /\ k < L /\ callStack'[k] = callStack[k]
    BY <1>6, <1>7
  <2>2. callStack[k].bp < frame.bp /\ Holds(stack, callStack[k].bp, callStack[k].fn)
    BY <1>5, <1>12, <2>1 DEF Anchored
  <2>3. ASSUME NEW j \in DOMAIN callStack', j # 1, j < k PROVE callStack'[j].bp < callStack'[k].bp
    <3>1. j \in DOMAIN callStack /\ callStack'[j] = callStack[j]
      BY <1>6, <1>7
    <3>2. callStack[j].bp < callStack[k].bp
      BY <1>5, <2>1, <2>3, <3>1 DEF Anchored
    <3> QED BY <2>1, <3>1, <3>2
  <2> QED BY <2>1, <2>2, <2>3
<1> HIDE DEF frame
<1>13. Anchored(heap, constantObjects, freed, stack, callStack', frame.fn, ip', frame.bp)
  <2>1. ASSUME NEW j \in DOMAIN callStack', NEW k \in DOMAIN callStack', j # 1, j < k PROVE k # 1
    BY <1>6, <1>7, <2>1
  <2> QED BY <1>7, <1>8, <1>9, <1>10, <1>11, <1>12, <2>1 DEF Anchored
<1>14. CalleesKept'
  <2>1. KeepsCode(heap, heap')
    BY <1>4, KeepsItself
  <2> QED BY <1>2, <2>1, CalleesStill DEF Rooted
<1>15. Live(stack, sp, freed) /\ HeapSafe(heap, constantObjects, freed) /\ GlobalsSafe(globals, freed)
  BY <1>2 DEF Alive, Rooted
<1> QED BY <1>1, <1>2, <1>4, <1>13, <1>14, <1>15 DEF LifeInv, Alive, Rooted

-----------------------------------------------------------------------------
(* The machine *)

LEMMA EvalRooted ==
    ASSUME IInv, Balanced, LifeInv, status = "running", Eval, HasInstruction => Tame
    PROVE  LifeInv'
<1>1. ASSUME UNCHANGED memory, status' \notin {"compiled", "running"} PROVE LifeInv'
  BY <1>1 DEF LifeInv, Alive, memory
<1>2. CASE Fatal \/ Wild \/ GcWild \/ Missing
  BY <1>1, <1>2 DEF Fatal, Wild, GcWild, Missing, Stop
<1>3. CASE Halt
  BY <1>1, <1>3 DEF Halt
<1>4. CASE Div
  <2>1. CASE Stop("fraction")
    BY <1>1, <2>1 DEF Stop
  <2>2. ASSUME NEW q, Arithmetic(OP_DIV, q) PROVE LifeInv'
    BY <2>2, ArithmeticRooted
  <2> QED BY <1>4, <2>1, <2>2 DEF Div
<1>5. CASE Const \/ GetGlobal \/ GetLocal \/ GetCell \/ LoadCell
  BY <1>5, ConstRooted, GetGlobalRooted, GetLocalRooted, GetCellRooted
<1>6. CASE Add \/ Compare \/ Pop \/ ScopeExit \/ CallNative
  BY <1>6, AddRooted, CompareRooted, PopRooted, ScopeExitRooted, CallNativeRooted
<1>7. CASE Sub \/ Mul
  BY <1>7, ArithmeticRooted DEF Sub, Mul
<1>8. CASE JmpIfFalse \/ Jmp \/ SetGlobal \/ SetLocal
  BY <1>8, JmpIfFalseRooted, JmpRooted, SetGlobalRooted, SetLocalRooted
<1>9. CASE SetCell
  <2>1. HasInstruction
    BY <1>9 DEF SetCell, Step, At_
  <2> QED BY <1>9, <2>1, SetCellRooted
<1>10. CASE MakeFunction \/ New \/ GetProp \/ SetProp
  BY <1>10, MakeFunctionRooted, NewRooted, GetPropRooted, SetPropRooted
<1>11. CASE Call \/ Return
  BY <1>11, CallRooted, ReturnRooted
<1> QED BY <1>2, <1>3, <1>4, <1>5, <1>6, <1>7, <1>8, <1>9, <1>10, <1>11 DEF Eval

LEMMA ListedRooted ==
    ASSUME IInv, FramesInv, LifeInv, Listed, status' = "running" => CalleesKept PROVE LifeInv'
<1>1. /\ status = "compiled" /\ status' \in {"running", "died", "undefined"}
      /\ heap' = heap /\ freed' = freed /\ constantObjects' = constantObjects /\ globals' = globals
      /\ UNCHANGED <<stack, sp, bp, ip, fn, callStack>>
  BY DEF Listed, memory
<1>2. callStack = <<>> /\ sp = 0 /\ fn \in constantObjects /\ Alive
  BY <1>1 DEF FramesInv, LifeInv
<1>3. Alive'
  BY <1>1, <1>2 DEF Alive
<1>4. CASE status' = "running"
  <2>1. CalleesKept'
    BY <1>1, <1>4, KeepsItself, CalleesStill
  <2>2. Live(stack, 0, freed)
    BY DEF Live
  <2>3. Anchored(heap, constantObjects, freed, stack, callStack, fn, ip, bp)
    BY <1>2, EmptySeq DEF Anchored, Alive, HeapSafe
  <2> QED BY <1>1, <1>2, <1>3, <1>4, <2>1, <2>2, <2>3 DEF LifeInv, Rooted
<1> QED BY <1>1, <1>3, <1>4 DEF LifeInv

(* The compiler adds constants, and gives old objects no reference to      *)
(* anything else.                                                          *)
LEMMA LoadRooted == ASSUME IInv, LifeInv, Load, OfConstants PROVE LifeInv'
<1> DEFINE C == constantObjects
           D == constantObjects'
<1>1. freed' = freed /\ status' \in {"compiled", "died"} /\ DOMAIN heap \subseteq DOMAIN heap'
      /\ (\A a \in DOMAIN heap : heap'[a].kind = heap[a].kind) /\ freed \subseteq DOMAIN heap
  BY DEF Load, Grows, IInv, MemoryOK
<1>2. D = C \cup (DOMAIN heap' \ DOMAIN heap) /\ fn' \in D
  BY DEF OfConstants
<1>3. C \cap freed = {} /\ D \cap freed = {} /\ C \subseteq D
  BY <1>1, <1>2 DEF LifeInv, Alive, HeapSafe
<1>4. ASSUME NEW a \in DOMAIN heap'
      PROVE  \/ a \in DOMAIN heap /\ heap'[a] = heap[a]
             \/ a \in D /\ Pointers(heap'[a]) \subseteq D /\ NotTraced(heap'[a]) \subseteq D
  <2>1. getPointers(a)' = Pointers(heap'[a])
    BY DEF getPointers, Pointers
  <2> QED BY <2>1 DEF OfConstants
<1>5. ASSUME NEW a \in DOMAIN heap', heap'[a].kind \in {"CODE", "CLASS"} PROVE a \in D
  <2>1. CASE a \in DOMAIN heap
    BY <1>1, <1>3, <1>5, <2>1 DEF LifeInv, Alive, HeapSafe
  <2>2. CASE a \notin DOMAIN heap
    BY <1>2, <2>2
  <2> QED BY <2>1, <2>2
<1>6. ASSUME NEW a \in DOMAIN heap' \ freed PROVE Sound(heap'[a], D, freed)
  <2>1. CASE a \in DOMAIN heap /\ heap'[a] = heap[a]
    <3>1. Sound(heap[a], C, freed)
      BY <2>1, <1>6 DEF LifeInv, Alive, HeapSafe
    <3> QED BY <1>3, <2>1, <3>1 DEF Sound
  <2>2. CASE Pointers(heap'[a]) \subseteq D /\ NotTraced(heap'[a]) \subseteq D
    BY <1>3, <2>2 DEF Sound
  <2> QED BY <1>4, <2>1, <2>2
<1>7. HeapSafe(heap', D, freed)
  <2> HIDE DEF D
  <2> QED BY <1>3, <1>5, <1>6 DEF HeapSafe
<1>8. GlobalsSafe(globals', freed)
  <2> SUFFICES ASSUME NEW i \in DOMAIN globals' PROVE ~Gone(globals'[i].value, freed)
    BY DEF GlobalsSafe
  <2>1. CASE i \in DOMAIN globals /\ globals'[i] = globals[i]
    BY <2>1 DEF LifeInv, Alive, GlobalsSafe
  <2>2. CASE Referenced({globals'[i].value}) \subseteq D
    <3> DEFINE v == globals'[i].value
    <3>1. Referenced({v}) \subseteq D
      BY <2>2
    <3> HIDE DEF v, D
    <3>2. IsObject(v) => Payload(v) \in D
      BY <3>1, ReferencedOne
    <3>3. ~Gone(v, freed)
      BY <1>3, <3>2 DEF Gone
    <3> QED BY <3>3 DEF v
  <2> QED BY <2>1, <2>2 DEF OfConstants
<1> QED BY <1>1, <1>2, <1>7, <1>8 DEF LifeInv, Alive

LEMMA FreshRooted == Fresh => LifeInv
<1> SUFFICES ASSUME Fresh PROVE LifeInv
  OBVIOUS
<1>1. freed = {} /\ status = "idle" /\ \A a \in DOMAIN heap : heap[a].kind = "NATIVE"
  BY DEF Fresh, Idle
<1>2. \A a \in DOMAIN heap : Sound(heap[a], constantObjects, freed)
  BY <1>1, PlainObject
<1>3. HeapSafe(heap, constantObjects, freed)
  BY <1>1, <1>2 DEF HeapSafe
<1>4. GlobalsSafe(globals, freed)
  BY <1>1 DEF GlobalsSafe, Gone
<1> QED BY <1>1, <1>3, <1>4 DEF LifeInv, Alive

LEMMA LifeStep == ASSUME IInv, FramesInv, LifeInv, [RootedNext]_machineVars PROVE LifeInv'
<1>1. CASE Load /\ OfConstants
  BY <1>1, LoadRooted
<1>2. CASE Listed /\ (status' = "running" => Verified /\ CalleesKept)
  BY <1>2, ListedRooted
<1>3. CASE Eval /\ (HasInstruction => Orderly /\ Tame)
  <2>1. status = "running"
    BY <1>3 DEF Eval, Fatal, Wild, GcWild, Missing, Halt, Const, Add, Sub, Mul, Div, Compare, JmpIfFalse,
       Jmp, GetGlobal, SetGlobal, Pop, GetLocal, SetLocal, ScopeExit, CallNative, Call, Return, GetCell,
       SetCell, LoadCell, MakeFunction, New, GetProp, SetProp, Arithmetic, Push, Step, At_, Running
  <2> QED BY <1>3, <2>1, EvalRooted DEF FramesInv
<1>4. CASE UNCHANGED machineVars
  BY <1>4 DEF machineVars, memory, LifeInv, Alive, Rooted, CalleesKept
<1> QED BY <1>1, <1>2, <1>3, <1>4 DEF RootedNext

LEMMA LifeInductive == RootedSpec => [](IInv /\ FramesInv /\ LifeInv)
<1>1. [RootedNext]_machineVars => [VerifiedNext]_machineVars
  BY DEF RootedNext, VerifiedNext
<1>2. Fresh => Idle
  BY DEF Fresh
<1>3. RootedSpec => [](IInv /\ FramesInv)
  BY <1>1, <1>2, FramesInductive, PTL DEF RootedSpec, VerifiedSpec
<1>4. IInv /\ FramesInv /\ LifeInv /\ [RootedNext]_machineVars => LifeInv'
  BY LifeStep
<1> QED BY <1>3, <1>4, FreshRooted, PTL DEF RootedSpec

-----------------------------------------------------------------------------

(* Whatever programs are given, one after the other, to a machine that has *)
(* the compiler's code and whose captured variables hold no object made at *)
(* run time: no collection takes what the machine can go on to use.        *)
THEOREM NothingIsLost == RootedSpec => []NothingLost
<1>1. IInv /\ FramesInv /\ LifeInv => NothingLost
  <2> SUFFICES ASSUME IInv, FramesInv, LifeInv, Running PROVE NothingLost
    BY DEF NothingLost
  <2>1. Rooted /\ Alive /\ status = "running" /\ Balanced
    BY DEF Running, LifeInv, FramesInv
  <2>2. Anchored(heap, constantObjects, freed, stack, callStack, fn, ip, bp)
    BY <2>1 DEF Rooted
  <2>3. fn \notin freed
    BY <2>2 DEF Anchored
  <2>4. ASSUME NEW k \in DOMAIN callStack PROVE callStack[k].fn \notin freed
    <3>1. CASE k = 1
      <4>1. callStack # <<>>
        BY EmptySeq
      <4> QED BY <2>1, <2>2, <3>1, <4>1 DEF Anchored, Alive, HeapSafe
    <3>2. CASE k # 1
      <4>1. callStack[k].bp < bp /\ Holds(stack, callStack[k].bp, callStack[k].fn)
        BY <2>2, <3>2 DEF Anchored
      <4>2. callStack[k].bp \in Nat /\ bp \in Nat /\ sp \in Nat /\ bp <= sp
        <5>1. bp + Takes(Byte(0), Byte(1)) <= sp /\ Takes(Byte(0), Byte(1)) \in Nat /\ bp \in Nat /\ sp \in Nat
          BY <2>1, Instruction
        <5>2. bp <= sp
          BY <5>1
        <5> QED BY <5>1, <5>2, FramesBelow
      <4>3. callStack[k].bp \in 0..sp - 1
        BY <4>1, <4>2
      <4>4. ~Gone(SlotOf(stack, callStack[k].bp), freed)
        BY <2>1, <4>3 DEF Rooted, Live
      <4> QED BY <4>1, <4>4 DEF Holds, Gone
    <3> QED BY <3>1, <3>2
  <2>5. \A i \in 0..sp - 1 : ~Stale(Slot(i))
    BY <2>1, SlotIs, StaleIsGone DEF Rooted, Live
  <2>6. \A i \in DOMAIN globals : ~Stale(globals[i].value)
    BY <2>1, StaleIsGone DEF Alive, GlobalsSafe
  <2>7. ASSUME NEW a \in DOMAIN heap \ freed PROVE (getPointers(a) \cup NotTraced(heap[a])) \cap freed = {}
    <3>1. NotTraced(heap[a]) \subseteq constantObjects /\ Pointers(heap[a]) \cap freed = {}
          /\ constantObjects \cap freed = {}
      BY <2>1 DEF Alive, HeapSafe, Sound
    <3>2. getPointers(a) = Pointers(heap[a])
      BY PointersAre
    <3> QED BY <3>1, <3>2
  <2> QED BY <2>3, <2>4, <2>5, <2>6, <2>7 DEF NothingLost
<1> QED BY LifeInductive, <1>1, PTL

(* Under the same conditions, a collection that begins goes through.       *)
THEOREM CollectionsAreDefined == RootedSpec => []CollectionsDefined
<1>1. IInv /\ FramesInv /\ LifeInv => CollectionsDefined
  <2> DEFINE op == Byte(0)
             top == sp - Popped(op)
  <2> SUFFICES ASSUME IInv, FramesInv, LifeInv, Running, HasInstruction, ~Dies, ~Undefined,
                      Allocates(op), GcUndefined(op)
               PROVE  FALSE
    BY DEF CollectionsDefined
  <2>1. Rooted /\ Alive /\ status = "running" /\ Balanced
    BY DEF Running, LifeInv, FramesInv
  <2>2. op \in {OP_ADD, OP_SET_CELL, OP_NEW, OP_MAKE_FUNCTION}
    BY DEF Allocates
  <2>3. Popped(op) \in Nat /\ sp \in Nat /\ (op = OP_SET_CELL => Popped(op) = 0)
    <3>1. Popped(op) \in {0, 1, 2} /\ (op = OP_SET_CELL => Popped(op) = 0)
      BY <2>2, PoppedIs
    <3> QED BY <3>1, VMAssumption DEF IInv, SpInv
  <2> HIDE DEF op
  <2>4. top \in Int /\ 0..top - 1 \subseteq 0..sp - 1 /\ (op = OP_SET_CELL => top = sp)
    BY <2>3
  <2>5. Live(stack, top, freed)
    BY <2>1, <2>4 DEF Rooted, Live
  <2> HIDE DEF top
  <2>6. Marked(top) \cap freed = {}
    BY <2>1, <2>4, <2>5, MarkedLives DEF Alive
  <2>7. op = OP_SET_CELL /\ fn \notin Marked(sp)
    BY <2>6 DEF GcUndefined, top
  <2>8. Live(stack, sp, freed) /\ HeapSafe(heap, constantObjects, DOMAIN heap \ Marked(sp))
        /\ Live(stack, sp, DOMAIN heap \ Marked(sp))
    <3>1. Live(stack, sp, freed)
      BY <2>1 DEF Rooted
    <3>2. sp \in Int
      BY <2>3
    <3> QED BY <2>1, <3>1, <3>2, CollectionSafe DEF Alive
  <2>9. op # OP_RETURN /\ op # OP_SCOPE_EXIT
    BY <2>7, NotReturn, NotScopeExit
  <2>10. sp - Takes(op, Byte(1)) <= sp /\ sp \in Int
    <3>1. Takes(op, Byte(1)) = 1
      BY <2>7, TakesOne
    <3> QED BY <2>3, <3>1
  <2>11. fn \notin DOMAIN heap \ Marked(sp)
    BY <2>1, <2>8, <2>9, <2>10, Survives DEF op
  <2>12. fn \in DOMAIN heap
    BY <2>1 DEF IInv, FnInv, Refers
  <2> QED BY <2>7, <2>11, <2>12
<1> QED BY LifeInductive, <1>1, PTL

-----------------------------------------------------------------------------
(* The machine without collections.  Its definitions are those of the       *)
(* machine with `freed` empty: all that does not ask what is gone is the    *)
(* same, and where the running instruction asks, nothing is (Present).      *)

LEMMA EndlessOps ==
    /\ Endless!OP_HALT = OP_HALT /\ Endless!OP_CONST = OP_CONST /\ Endless!OP_ADD = OP_ADD
    /\ Endless!OP_SUB = OP_SUB /\ Endless!OP_MUL = OP_MUL /\ Endless!OP_DIV = OP_DIV
    /\ Endless!OP_COMPARE = OP_COMPARE /\ Endless!OP_JMP_IF_FALSE = OP_JMP_IF_FALSE /\ Endless!OP_JMP = OP_JMP
    /\ Endless!OP_GET_GLOBAL = OP_GET_GLOBAL /\ Endless!OP_SET_GLOBAL = OP_SET_GLOBAL /\ Endless!OP_POP = OP_POP
    /\ Endless!OP_GET_LOCAL = OP_GET_LOCAL /\ Endless!OP_SET_LOCAL = OP_SET_LOCAL /\ Endless!OP_SCOPE_EXIT = OP_SCOPE_EXIT
    /\ Endless!OP_CALL = OP_CALL /\ Endless!OP_RETURN = OP_RETURN /\ Endless!OP_GET_CELL = OP_GET_CELL
    /\ Endless!OP_SET_CELL = OP_SET_CELL /\ Endless!OP_LOAD_CELL = OP_LOAD_CELL /\ Endless!OP_MAKE_FUNCTION = OP_MAKE_FUNCTION
    /\ Endless!OP_NEW = OP_NEW /\ Endless!OP_GET_PROP = OP_GET_PROP /\ Endless!OP_SET_PROP = OP_SET_PROP
BY DEF OP_HALT, Endless!OP_HALT, OP_CONST, Endless!OP_CONST, OP_ADD,
       Endless!OP_ADD, OP_SUB, Endless!OP_SUB, OP_MUL, Endless!OP_MUL,
       OP_DIV, Endless!OP_DIV, OP_COMPARE, Endless!OP_COMPARE,
       OP_JMP_IF_FALSE, Endless!OP_JMP_IF_FALSE, OP_JMP, Endless!OP_JMP,
       OP_GET_GLOBAL, Endless!OP_GET_GLOBAL, OP_SET_GLOBAL,
       Endless!OP_SET_GLOBAL, OP_POP, Endless!OP_POP, OP_GET_LOCAL,
       Endless!OP_GET_LOCAL, OP_SET_LOCAL, Endless!OP_SET_LOCAL,
       OP_SCOPE_EXIT, Endless!OP_SCOPE_EXIT, OP_CALL, Endless!OP_CALL,
       OP_RETURN, Endless!OP_RETURN, OP_GET_CELL, Endless!OP_GET_CELL,
       OP_SET_CELL, Endless!OP_SET_CELL, OP_LOAD_CELL, Endless!OP_LOAD_CELL,
       OP_MAKE_FUNCTION, Endless!OP_MAKE_FUNCTION, OP_NEW, Endless!OP_NEW,
       OP_GET_PROP, Endless!OP_GET_PROP, OP_SET_PROP, Endless!OP_SET_PROP

LEMMA EndlessData ==
    /\ \A i : Endless!Slot(i) = Slot(i)
    /\ \A k : Endless!peek(k) = peek(k)
    /\ Endless!Code = Code
    /\ \A k : Endless!Byte(k) = Byte(k)
    /\ Endless!Short(1) = Short(1)
    /\ \A k : Endless!Constant(k) = Constant(k)
    /\ Endless!cells = cells
    /\ \A op : Endless!Operands(op) = Operands(op)
    /\ Endless!HasInstruction = HasInstruction
    /\ Endless!Callee = Callee
    /\ Endless!Full = Full
    /\ Endless!Frame = Frame
    /\ \A op : Endless!Needs(op) = Needs(op)
<1>1. \A i : Endless!Slot(i) = Slot(i)
  BY DEF Endless!Slot, Slot, Endless!Junk, Junk
<1>2. \A k : Endless!peek(k) = peek(k)
  BY <1>1 DEF Endless!peek, peek
<1>3. Endless!Code = Code
  BY DEF Endless!Code, Code
<1>4. \A k : Endless!Byte(k) = Byte(k)
  BY <1>3 DEF Endless!Byte, Byte
<1>5. Endless!Short(1) = Short(1)
  BY <1>4 DEF Endless!Short, Short
<1>6. (\A k : Endless!Constant(k) = Constant(k)) /\ Endless!cells = cells
  BY DEF Endless!Constant, Constant, Endless!cells, cells
<1>7. \A op : Endless!Operands(op) = Operands(op)
  BY EndlessOps DEF Endless!Operands, Operands
<1>8. Endless!HasInstruction = HasInstruction
  BY <1>3, <1>4, <1>7 DEF Endless!HasInstruction, HasInstruction
<1>9. Endless!Callee = Callee
  BY <1>2, <1>4 DEF Endless!Callee, Callee
<1>10. Endless!Full = Full /\ Endless!Frame = Frame
  BY DEF Endless!Full, Full, Endless!Frame, Frame
<1>11. \A op : Endless!Needs(op) = Needs(op)
  BY <1>4, EndlessOps DEF Endless!Needs, Needs
<1> QED BY <1>1, <1>2, <1>3, <1>4, <1>5, <1>6, <1>7, <1>8, <1>9, <1>10, <1>11

LEMMA EndlessValues ==
    /\ \A n : Endless!NUMBER(n) = NUMBER(n)
    /\ \A b : Endless!BOOLEAN_(b) = BOOLEAN_(b)
    /\ \A a : Endless!OBJECT(a) = OBJECT(a)
    /\ \A v : Endless!Payload(v) = Payload(v)
    /\ \A v : Endless!IsNumber(v) <=> IsNumber(v)
    /\ \A v : Endless!IsBoolean(v) <=> IsBoolean(v)
    /\ \A v : Endless!IsObject(v) <=> IsObject(v)
    /\ \A v : Endless!IsJunk(v) <=> IsJunk(v)
    /\ \A h, v, kind : Endless!IsKind(h, v, kind) <=> IsKind(h, v, kind)
    /\ Endless!Null = Null /\ Endless!Junk = Junk
    /\ \A s : Endless!StringObject(s) = StringObject(s)
    /\ \A v : Endless!CellObject(v) = CellObject(v)
    /\ \A a : Endless!FunctionObject(a) = FunctionObject(a)
    /\ \A a : Endless!InstanceObject(a) = InstanceObject(a)
    /\ \A s : Endless!Rank(s) = Rank(s)
    /\ \A name : Endless!Args(name) = Args(name)
BY DEF Endless!NUMBER, NUMBER, Endless!BOOLEAN_, BOOLEAN_, Endless!OBJECT, OBJECT, Endless!Payload, Payload,
       Endless!IsNumber, IsNumber, Endless!IsBoolean, IsBoolean, Endless!IsObject, IsObject,
       Endless!IsJunk, IsJunk, Endless!IsKind, IsKind, Endless!Null, Null, Endless!Junk, Junk,
       Endless!StringObject, StringObject, Endless!CellObject, CellObject, Endless!FunctionObject, FunctionObject,
       Endless!InstanceObject, InstanceObject, Endless!Rank, Rank, Endless!Args, Args

LEMMA EndlessProps ==
    /\ \A h, c, p : Endless!classProp(h, c, p) = classProp(h, c, p)
    /\ \A h, c, p : Endless!getProp(h, c, p) = getProp(h, c, p)
<1>1. \A h, c : Endless!lineage(h, c) = lineage(h, c)
  BY DEF Endless!lineage, lineage, Endless!Null, Null
<1>2. \A h, c, p : Endless!classProp(h, c, p) = classProp(h, c, p)
  <2> TAKE h, c, p
  <2> DEFINE owners(line) == {d \in line : p \in DOMAIN h[d].properties}
             nearest(line) == {d \in owners(line) : \A e \in owners(line) : e <= d}
             found(line) == IF nearest(line) = {} THEN Junk
                            ELSE h[CHOOSE d \in nearest(line) : TRUE].properties[p]
  <2>1. Endless!classProp(h, c, p) = found(Endless!lineage(h, c))
    BY DEF Endless!classProp, Endless!Junk, Junk
  <2>2. classProp(h, c, p) = found(lineage(h, c))
    BY DEF classProp
  <2> HIDE DEF found
  <2> QED BY <1>1, <2>1, <2>2
<1>3. \A h, c, p : Endless!getProp(h, c, p) = getProp(h, c, p)
  BY <1>2 DEF Endless!getProp, getProp
<1> QED BY <1>2, <1>3

LEMMA EndlessStack ==
    /\ \A base, vs : Endless!Written(base, vs) = Written(base, vs)
    /\ \A n, vs : Endless!Replace(n, vs) <=> Replace(n, vs)
<1>1. \A base, vs : Endless!Written(base, vs) = Written(base, vs)
  BY EndlessData DEF Endless!Written, Written
<1> QED BY <1>1 DEF Endless!Replace, Replace

LEMMA EndlessStale == \A v : ~Endless!Stale(v)
BY DEF Endless!Stale

LEMMA EndlessIs == \A v, kind : Endless!Is(v, kind) <=> IsKind(heap, v, kind)
BY EndlessStale, EndlessValues DEF Endless!Is

(* What the instruction to come looks at is there.                         *)
Present ==
    /\ HasInstruction
    /\ \A k \in Nat : ~Stale(peek(k))
    /\ fn \notin freed
    /\ Byte(0) = OP_CALL => ~Stale(Callee)
    /\ Byte(0) \in {OP_GET_CELL, OP_SET_CELL} =>
         (Byte(1) < Len(cells) => cells[Byte(1) + 1] \notin freed)

LEMMA AllPresent ==
    ASSUME IInv, FramesInv, LifeInv, status = "running" PROVE Present
<1>1. Balanced /\ Rooted /\ Alive
  BY DEF FramesInv, LifeInv
<1>2. HasInstruction
  BY <1>1, Instruction
<1>3. \A k \in Nat : ~Stale(peek(k))
  BY <1>1, PeekIsThere, StaleIsGone
<1>4. fn \notin freed
  BY <1>1 DEF Rooted, Anchored
<1>5. Refers(heap, fn, "FUNCTION") /\ FunctionOK(heap, heap[fn]) /\ CodeOK(heap, heap[heap[fn].co])
  <2>1. HeapOK(heap) /\ Refers(heap, fn, "FUNCTION") /\ Refers(heap, heap[fn].co, "CODE")
    BY <1>1, Running_
  <2> QED BY <2>1, ObjectOfHeap
<1>6. ASSUME Byte(0) \in {OP_CALL, OP_GET_CELL, OP_SET_CELL} PROVE Byte(1) \in 0..255
  BY <1>2, <1>5, <1>6, OneOperand, OperandByte
<1>7. Byte(0) = OP_CALL => ~Stale(Callee)
  <2>1. 0..255 \subseteq Nat
    OBVIOUS
  <2> QED BY <1>3, <1>6, <2>1 DEF Callee
<1>8. ASSUME Byte(0) \in {OP_GET_CELL, OP_SET_CELL}, Byte(1) < Len(cells) PROVE cells[Byte(1) + 1] \notin freed
  <2>1. IsSeq(cells)
    BY <1>5 DEF FunctionOK, cells
  <2>2. Byte(1) \in 0..255
    BY <1>6, <1>8
  <2>3. Byte(1) + 1 \in DOMAIN cells
    <3>1. Len(cells) \in Nat
      BY <2>1, SeqShape
    <3>2. \A k \in 0..255 : k < Len(cells) => ~(k >= Len(cells))
      BY <3>1
    <3> QED BY <1>8, <2>1, <2>2, <3>2, InRange
  <2>4. fn \in DOMAIN heap \ freed /\ heap[fn].kind = "FUNCTION"
    BY <1>4, <1>5 DEF Refers
  <2>5. Pointers(heap[fn]) \cap freed = {}
    BY <1>1, <2>4 DEF Alive, HeapSafe, Sound
  <2>6. Pointers(heap[fn]) = {cells[k] : k \in DOMAIN cells} \ {Null}
    BY <2>4, PointersByKind DEF cells
  <2>7. cells[Byte(1) + 1] = Null \/ cells[Byte(1) + 1] \in Pointers(heap[fn])
    BY <2>3, <2>6
  <2>8. Null \notin freed
    <3>1. freed \subseteq DOMAIN heap /\ DOMAIN heap = 1..Len(heap) /\ Len(heap) \in Nat
      BY SeqShape DEF IInv, MemoryOK, HeapOK
    <3>2. Null \notin 1..Len(heap)
      BY <3>1 DEF Null
    <3> QED BY <3>1, <3>2
  <2> QED BY <2>5, <2>7, <2>8
<1> QED BY <1>2, <1>3, <1>4, <1>7, <1>8 DEF Present

LEMMA EndlessGuards ==
    ASSUME Present
    PROVE  /\ Endless!Numbers <=> Numbers
           /\ Endless!Strings <=> Strings
           /\ Byte(0) = OP_CALL => \A kind : Endless!Is(Callee, kind) <=> Is(Callee, kind)
           /\ Endless!Dies <=> Dies
           /\ Endless!Undefined <=> Undefined
           /\ Endless!Unresolved <=> Unresolved
<1>1. ~Stale(peek(0)) /\ ~Stale(peek(1)) /\ \A k \in Nat : ~Stale(peek(k))
  BY DEF Present
<1>2. Endless!Numbers <=> Numbers
  BY EndlessData, EndlessValues DEF Endless!Numbers, Numbers
<1>3. \A kind : /\ Endless!Is(peek(0), kind) <=> Is(peek(0), kind)
                /\ Endless!Is(peek(1), kind) <=> Is(peek(1), kind)
  BY <1>1, EndlessIs DEF Is
<1>4. Endless!Strings <=> Strings
  BY <1>3, EndlessData DEF Endless!Strings, Strings
<1>5. ASSUME Byte(0) = OP_CALL PROVE \A kind : Endless!Is(Callee, kind) <=> Is(Callee, kind)
  <2>1. ~Stale(Callee)
    BY <1>5 DEF Present
  <2> QED BY <2>1, EndlessIs DEF Is
<1>6. /\ Endless!Unreadable(peek(0)) <=> Unreadable(peek(0))
      /\ Endless!Unreadable(peek(1)) <=> Unreadable(peek(1))
  BY <1>1, EndlessStale, EndlessValues DEF Endless!Unreadable, Unreadable
<1>7. Endless!Dies <=> Dies
  BY <1>2, <1>3, <1>4, <1>5, <1>6, EndlessData, EndlessOps DEF Endless!Dies, Dies
<1>8. fn \notin freed /\ (Byte(0) \in {OP_GET_CELL, OP_SET_CELL} =>
         (Byte(1) < Len(cells) => cells[Byte(1) + 1] \notin freed))
  BY DEF Present
<1>9. Endless!Undefined <=> Undefined
  BY <1>2, <1>3, <1>4, <1>5, <1>6, <1>8, EndlessData, EndlessOps, EndlessValues DEF Endless!Undefined, Undefined
<1>10. Endless!Unresolved <=> Unresolved
  BY EndlessData, EndlessOps, EndlessValues, EndlessProps DEF Endless!Unresolved, Unresolved
<1> QED BY <1>2, <1>4, <1>5, <1>7, <1>9, <1>10

LEMMA EndlessMemory ==
    /\ UNCHANGED memory => UNCHANGED Endless!memory
    /\ UNCHANGED machineVars => UNCHANGED Endless!machineVars
    /\ \A op, g : MEM(op, g) => Endless!MEM(op, g)
BY DEF memory, Endless!memory, machineVars, Endless!machineVars, MEM, Endless!MEM

LEMMA EndlessStop == \A how : Stop(how) => Endless!Stop(how)
BY EndlessMemory DEF Stop, Endless!Stop

LEMMA EndlessStep ==
    ASSUME Present
    PROVE  /\ \A op : At_(op) => Endless!At_(op)
           /\ \A op : Step(op) => Endless!Step(op)
           /\ \A op, v : Push(op, v) => Endless!Push(op, v)
           /\ \A op, n : Arithmetic(op, n) => Endless!Arithmetic(op, n)
<1>1. \A op : At_(op) => Endless!At_(op)
  BY EndlessData, EndlessGuards DEF At_, Endless!At_, Running, Endless!Running
<1>2. \A op : Step(op) => Endless!Step(op)
  BY <1>1, EndlessData DEF Step, Endless!Step
<1>3. \A op, v : Push(op, v) => Endless!Push(op, v)
  BY <1>2, EndlessStack, EndlessMemory DEF Push, Endless!Push
<1>4. \A op, n : Arithmetic(op, n) => Endless!Arithmetic(op, n)
  BY <1>2, EndlessStack, EndlessMemory, EndlessValues DEF Arithmetic, Endless!Arithmetic
<1> QED BY <1>1, <1>2, <1>3, <1>4

LEMMA EndlessEnds ==
    ASSUME Present
    PROVE  /\ Fatal => Endless!Fatal
           /\ Wild => Endless!Wild
           /\ Missing => Endless!Missing
           /\ Halt => Endless!Halt
<1>1. Halt => Endless!Halt
  BY EndlessStep, EndlessOps, EndlessMemory DEF Halt, Endless!Halt
<1> QED BY <1>1, EndlessData, EndlessGuards, EndlessStop
        DEF Fatal, Endless!Fatal, Wild, Endless!Wild, Missing, Endless!Missing, Running, Endless!Running

LEMMA EndlessPush ==
    ASSUME Present
    PROVE  /\ Const => Endless!Const
           /\ GetGlobal => Endless!GetGlobal
           /\ GetLocal => Endless!GetLocal
           /\ GetCell => Endless!GetCell
           /\ LoadCell => Endless!LoadCell
BY EndlessStep, EndlessOps, EndlessData, EndlessValues
   DEF Const, Endless!Const, GetGlobal, Endless!GetGlobal, GetLocal, Endless!GetLocal, GetCell, Endless!GetCell,
       LoadCell, Endless!LoadCell

LEMMA EndlessArithmetic ==
    ASSUME Present
    PROVE  /\ Sub => Endless!Sub
           /\ Mul => Endless!Mul
           /\ Div => Endless!Div
<1>1. \A a, b : Endless!Quotients(a, b) = Quotients(a, b)
  BY DEF Quotients, Endless!Quotients, Magnitude, Endless!Magnitude
<1>2. Div => Endless!Div
  BY <1>1, EndlessStep, EndlessOps, EndlessData, EndlessValues, EndlessStop DEF Div, Endless!Div
<1> QED BY <1>2, EndlessStep, EndlessOps, EndlessData, EndlessValues DEF Sub, Endless!Sub, Mul, Endless!Mul

LEMMA EndlessOperators ==
    ASSUME Present
    PROVE  /\ Add => Endless!Add
           /\ Compare => Endless!Compare
<1>1. \A v : Endless!Chars(v) = Chars(v)
  BY EndlessValues DEF Chars, Endless!Chars
<1>2. \A op, a, b : Endless!Compared(op, a, b) = Compared(op, a, b)
  BY DEF Compared, Endless!Compared
<1>3. Add => Endless!Add
  BY <1>1, EndlessStep, EndlessOps, EndlessData, EndlessValues, EndlessGuards, EndlessStack, EndlessMemory
     DEF Add, Endless!Add
<1>4. Compare => Endless!Compare
  BY <1>1, <1>2, EndlessStep, EndlessOps, EndlessData, EndlessValues, EndlessGuards, EndlessStack, EndlessMemory
     DEF Compare, Endless!Compare
<1> QED BY <1>3, <1>4

LEMMA EndlessFlow ==
    ASSUME Present
    PROVE  /\ JmpIfFalse => Endless!JmpIfFalse
           /\ Jmp => Endless!Jmp
           /\ Return => Endless!Return
           /\ Pop => Endless!Pop
           /\ ScopeExit => Endless!ScopeExit
BY EndlessStep, EndlessOps, EndlessData, EndlessValues, EndlessStack, EndlessMemory
   DEF JmpIfFalse, Endless!JmpIfFalse, Jmp, Endless!Jmp, Return, Endless!Return, Pop, Endless!Pop,
       ScopeExit, Endless!ScopeExit

LEMMA EndlessSet ==
    ASSUME Present
    PROVE  /\ SetGlobal => Endless!SetGlobal
           /\ SetLocal => Endless!SetLocal
           /\ SetCell => Endless!SetCell
           /\ SetProp => Endless!SetProp
<1>1. \A v : Endless!Chars(v) = Chars(v)
  BY EndlessValues DEF Chars, Endless!Chars
<1>2. SetGlobal => Endless!SetGlobal
  BY EndlessStep, EndlessOps, EndlessData DEF SetGlobal, Endless!SetGlobal
<1>3. SetLocal => Endless!SetLocal
  BY EndlessStep, EndlessOps, EndlessData, EndlessStack, EndlessMemory DEF SetLocal, Endless!SetLocal
<1>4. SetCell => Endless!SetCell
  BY EndlessStep, EndlessOps, EndlessData, EndlessValues, EndlessMemory DEF SetCell, Endless!SetCell
<1>5. SetProp => Endless!SetProp
  BY <1>1, EndlessStep, EndlessOps, EndlessData, EndlessValues, EndlessStack DEF SetProp, Endless!SetProp
<1> QED BY <1>2, <1>3, <1>4, <1>5

LEMMA EndlessCalls ==
    ASSUME Present
    PROVE  /\ CallNative => Endless!CallNative
           /\ Call => Endless!Call
<1>1. \A name : Endless!Native(name) = Native(name)
  BY EndlessData, EndlessValues DEF Native, Endless!Native
<1>2. \A f : Endless!Shrunk(f) = Shrunk(f)
  BY EndlessValues DEF Shrunk, Endless!Shrunk
<1>3. \A op : At_(op) => Byte(0) = op
  BY DEF At_
<1>4. CallNative => Endless!CallNative
  BY <1>1, <1>3, EndlessStep, EndlessOps, EndlessData, EndlessValues, EndlessGuards, EndlessStack, EndlessMemory
     DEF CallNative, Endless!CallNative, Step
<1>5. Call => Endless!Call
  BY <1>2, <1>3, EndlessStep, EndlessOps, EndlessData, EndlessValues, EndlessGuards DEF Call, Endless!Call
<1> QED BY <1>4, <1>5

LEMMA EndlessMakes ==
    ASSUME Present
    PROVE  /\ MakeFunction => Endless!MakeFunction
           /\ New => Endless!New
           /\ GetProp => Endless!GetProp
<1>1. \A v : Endless!Chars(v) = Chars(v)
  BY EndlessValues DEF Chars, Endless!Chars
<1>2. \A k : Endless!Captured(k) = Captured(k)
  BY EndlessData, EndlessValues DEF Captured, Endless!Captured
<1>3. MakeFunction => Endless!MakeFunction
  BY <1>2, EndlessStep, EndlessOps, EndlessData, EndlessValues, EndlessStack, EndlessMemory
     DEF MakeFunction, Endless!MakeFunction
<1>4. New => Endless!New
  BY EndlessStep, EndlessOps, EndlessData, EndlessValues, EndlessStack, EndlessMemory, EndlessProps
     DEF New, Endless!New
<1>5. GetProp => Endless!GetProp
  BY <1>1, EndlessStep, EndlessOps, EndlessData, EndlessValues, EndlessStack, EndlessMemory, EndlessProps
     DEF GetProp, Endless!GetProp
<1> QED BY <1>3, <1>4, <1>5

LEMMA EndlessImages ==
    /\ MemoryOK => Endless!MemoryOK
    /\ MemoryOK' => Endless!MemoryOK'
<1>1. \A s : Endless!IsSeq(s) <=> IsSeq(s)
  BY DEF IsSeq, Endless!IsSeq
<1>2. \A h, a, kind : Endless!Refers(h, a, kind) <=> Refers(h, a, kind)
  BY DEF Refers, Endless!Refers
<1>3. \A h, v : Endless!IsValue(h, v) <=> IsValue(h, v)
  BY DEF IsValue, Endless!IsValue
<1>4. \A h, f : Endless!AllValues(h, f) <=> AllValues(h, f)
  BY <1>3 DEF AllValues, Endless!AllValues
<1>5. \A h, o : Endless!FunctionOK(h, o) <=> FunctionOK(h, o)
  BY <1>1, <1>2 DEF FunctionOK, Endless!FunctionOK, Null, Endless!Null
<1>6. \A h, o : Endless!CodeOK(h, o) <=> CodeOK(h, o)
  BY <1>1, <1>4 DEF CodeOK, Endless!CodeOK
<1>7. \A h, o : Endless!ObjectOK(h, o) <=> ObjectOK(h, o)
  BY <1>2, <1>3, <1>4, <1>5, <1>6 DEF ObjectOK, Endless!ObjectOK, Null, Endless!Null
<1>8. \A h : Endless!HeapOK(h) <=> HeapOK(h)
  BY <1>1, <1>7 DEF HeapOK, Endless!HeapOK
<1>9. \A h, g : Endless!GlobalOK(h, g) <=> GlobalOK(h, g)
  BY <1>3 DEF GlobalOK, Endless!GlobalOK
<1> QED BY <1>1, <1>8, <1>9 DEF MemoryOK, Endless!MemoryOK

LEMMA EndlessExec ==
    /\ Idle => Endless!Idle
    /\ Load => Endless!Load
    /\ Listed => Endless!Listed
<1>1. \A h, g : Endless!Grows(h, g) <=> Grows(h, g)
  BY DEF Grows, Endless!Grows
<1>2. \A h, a, kind : Endless!Refers(h, a, kind) <=> Refers(h, a, kind)
  BY DEF Refers, Endless!Refers
<1> QED BY <1>1, <1>2, EndlessImages, EndlessMemory, EndlessValues
        DEF Idle, Endless!Idle, Load, Endless!Load, Listed, Endless!Listed

(* A collection leaves the machine where it would be without it.           *)
LEMMA EndlessSteps ==
    ASSUME IInv, FramesInv, LifeInv, CollectionsDefined, [RootedNext]_machineVars
    PROVE  [Endless!MachineNext]_(Endless!machineVars)
<1>1. CASE Load \/ Listed
  BY <1>1, EndlessExec DEF Endless!MachineNext
<1>2. CASE Eval
  <2>1. status = "running"
    BY <1>2 DEF Eval, Fatal, Wild, GcWild, Missing, Halt, Const, Add, Sub, Mul, Div, Compare, JmpIfFalse,
       Jmp, GetGlobal, SetGlobal, Pop, GetLocal, SetLocal, ScopeExit, CallNative, Call, Return, GetCell,
       SetCell, LoadCell, MakeFunction, New, GetProp, SetProp, Arithmetic, Push, Step, At_, Running
  <2>2. Present
    BY <2>1, AllPresent
  <2>3. ~GcWild
    BY DEF GcWild, CollectionsDefined
  <2>4. Endless!Eval
    BY <1>2, <2>2, <2>3, EndlessEnds, EndlessPush, EndlessArithmetic, EndlessOperators, EndlessFlow,
       EndlessSet, EndlessCalls, EndlessMakes DEF Eval, Endless!Eval
  <2> QED BY <2>4 DEF Endless!MachineNext
<1>3. CASE UNCHANGED machineVars
  BY <1>3, EndlessMemory
<1> QED BY <1>1, <1>2, <1>3 DEF RootedNext

(* Whatever programs are given to a machine that has the compiler's code,  *)
(* and whose captured variables hold no object made at run time, they run  *)
(* as they would if memory had no end and nothing were collected.          *)
THEOREM CollectorUnnoticed == RootedSpec => Unnoticed
<1>1. Fresh => Endless!Idle
  BY EndlessExec DEF Fresh
<1>2. IInv /\ FramesInv /\ LifeInv /\ CollectionsDefined /\ [RootedNext]_machineVars
        => [Endless!MachineNext]_(Endless!machineVars)
  BY EndlessSteps
<1>3. RootedSpec => [](IInv /\ FramesInv /\ LifeInv) /\ []CollectionsDefined
  BY LifeInductive, CollectionsAreDefined
<1> QED BY <1>1, <1>2, <1>3, PTL DEF RootedSpec, Unnoticed, Endless!MachineSpec

=============================================================================
