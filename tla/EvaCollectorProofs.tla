------------------------- MODULE EvaCollectorProofs -------------------------
(***************************************************************************)
(* What is proved of EvaCollector for every heap size, threshold and set   *)
(* of programs.                                                            *)
(***************************************************************************)
EXTENDS EvaCollector, FiniteSetTheorems, TLAPS

-----------------------------------------------------------------------------
(* Type correctness.  A kind is looked up in Size when an object is made,  *)
(* freed or cleaned up, so it matters that an address in the list always   *)
(* holds a typed object and that a pending request names a kind.           *)

Allocating == {"mem", "mark", "sweep", "alloc"}

TypeInv ==
    /\ TypeOK
    /\ \A o \in objects : kind[o] \in Kind
    /\ unswept \subseteq objects
    /\ pc \in Allocating => request.kind \in Kind

LEMMA InitTypeInv == Init => TypeInv
<1>1. Cardinality(Natives) \in Nat
  BY ConstantsAssumption, FS_Subset, FS_CardinalityType
<1>2. Size["NATIVE"] \in Nat
  BY ConstantsAssumption DEF Kind
<1> SUFFICES ASSUME Init PROVE TypeInv
  OBVIOUS
<1>3. bytesAllocated \in Int
  BY <1>1, <1>2 DEF Init
<1>4. marked \in [Obj -> BOOLEAN]
  BY ConstantsAssumption DEF Init
<1>5. kind \in [Obj -> Kind \cup {"NONE"}] /\ \A o \in objects : kind[o] \in Kind
  BY ConstantsAssumption DEF Init, Kind
<1>6. request \in Request
  BY DEF Init, NoRequest, Request
<1> QED
  BY <1>3, <1>4, <1>5, <1>6, ConstantsAssumption DEF Init, TypeInv, TypeOK, Allocating

(* operator new and a constructor leave a well-formed heap. *)
LEMMA NewTypes ==
    ASSUME TypeInv, NEW o, NEW k \in Kind, NEW l \in SUBSET Obj, New(o, k, l)
    PROVE  /\ objects' \subseteq Obj
           /\ kind' \in [Obj -> Kind \cup {"NONE"}]
           /\ \A x \in objects' : kind'[x] \in Kind
           /\ link' \in [Obj -> SUBSET Obj]
           /\ marked' \in [Obj -> BOOLEAN]
           /\ bytesAllocated' \in Int
           /\ unswept \subseteq objects'
<1>1. o \in Obj \ objects
  BY DEF New
<1>2. bytesAllocated' \in Int
  BY ConstantsAssumption DEF New, TypeInv, TypeOK
<1>3. marked' \in [Obj -> BOOLEAN]
  BY ConstantsAssumption DEF New, TypeInv, TypeOK
<1> QED
  BY <1>1, <1>2, <1>3 DEF New, Typed, TypeInv, TypeOK

LEMMA PushableTypes == TypeInv => Pushable \subseteq Obj
<1> SUFFICES ASSUME TypeInv PROVE Pushable \subseteq Obj
  OBVIOUS
<1>1. Cells \subseteq Obj
  BY DEF Cells, TypeInv, TypeOK
<1>2. \A o \in Obj : slots[o] \subseteq Obj
  BY DEF TypeInv, TypeOK
<1>3. stack \subseteq Obj /\ getGCRoots \subseteq Obj
  BY DEF getGCRoots, TypeInv, TypeOK
<1>4. (UNION {slots[c] : c \in Cells}) \subseteq Obj
  BY <1>1, <1>2
<1>5. (UNION {slots[i] : i \in {o \in stack : kind[o] = "INSTANCE"}}) \subseteq Obj
  BY <1>2, <1>3
<1> QED
  BY <1>1, <1>3, <1>4, <1>5 DEF Pushable

(* Every step keeps the heap well-formed: one step below for each action.  *)
LEMMA NextTypeInv == TypeInv /\ [Next]_vars => TypeInv'
<1> SUFFICES ASSUME TypeInv, [Next]_vars PROVE TypeInv'
  OBVIOUS
<1> USE DEF gcVars, rootVars, heapVars
<1>1. CASE BeginExec
  BY <1>1, ConstantsAssumption DEF BeginExec, TypeInv, TypeOK, Kind, Allocating
<1>2. CASE CompileLeaf
  <2>1. PICK o \in Obj, k \in {"CODE", "STRING"} : CompileObject(o, k, {})
    BY <1>2 DEF CompileLeaf
  <2>2. k \in Kind
    BY DEF Kind
  <2> QED
    BY <1>2, <2>1, <2>2, NewTypes DEF CompileLeaf, CompileObject, TypeInv, TypeOK, Allocating
<1>3. CASE CompileFunction
  <2>1. PICK o \in Obj, co \in Constants("CODE") : CompileObject(o, "FUNCTION", {co})
    BY <1>3 DEF CompileFunction
  <2>2. {co} \in SUBSET Obj /\ "FUNCTION" \in Kind
    BY DEF Constants, TypeInv, TypeOK, Kind
  <2> QED
    BY <1>3, <2>1, <2>2, NewTypes DEF CompileFunction, CompileObject, TypeInv, TypeOK, Allocating
<1>4. CASE CompileClass
  <2>1. PICK o \in Obj, super \in {{}} \cup {{c} : c \in Constants("CLASS")} :
          CompileObject(o, "CLASS", super) /\ globals' = globals \cup {o}
    BY <1>4 DEF CompileClass
  <2>2. super \in SUBSET Obj /\ "CLASS" \in Kind
    BY DEF Constants, TypeInv, TypeOK, Kind
  <2> QED
    BY <1>4, <2>1, <2>2, NewTypes DEF CompileClass, CompileObject, TypeInv, TypeOK, Allocating
<1>5. CASE CompileReference
  BY <1>5 DEF CompileReference, Constants, TypeInv, TypeOK, Allocating
<1>6. CASE StartEval
  BY <1>6 DEF StartEval, TypeInv, TypeOK, Allocating
<1>7. CASE Halt
  BY <1>7 DEF Halt, TypeInv, TypeOK, Allocating
<1>8. CASE Cleanup
  BY <1>8 DEF Cleanup, TypeInv, TypeOK, Allocating
<1>9. CASE CleanupDelete
  BY <1>9, ConstantsAssumption DEF CleanupDelete, SizeOf, TypeInv, TypeOK, Allocating
<1>10. CASE CleanupDone
  BY <1>10 DEF CleanupDone, TypeInv, TypeOK, Allocating
<1>11. CASE Push
  BY <1>11, PushableTypes DEF Push, TypeInv, TypeOK, Allocating
<1>12. CASE Drop
  BY <1>12 DEF Drop, TypeInv, TypeOK, Allocating
<1>13. CASE SetGlobal
  BY <1>13 DEF SetGlobal, TypeInv, TypeOK, Allocating
<1>14. CASE SetProp
  BY <1>14 DEF SetProp, TypeInv, TypeOK, Allocating
<1>15. CASE SetCell
  BY <1>15 DEF SetCell, Capturable, TypeInv, TypeOK, Allocating
<1>16. CASE Call
  BY <1>16 DEF Call, TypeInv, TypeOK, Allocating
<1>17. CASE Return
  BY <1>17 DEF Return, TypeInv, TypeOK, Allocating
<1>18. CASE UseFreed
  BY <1>18 DEF UseFreed, TypeInv, TypeOK, Allocating
<1>19. CASE AskMemory
  <2>1. ASSUME NEW r \in Request, r.kind \in Kind, Ask(r) PROVE TypeInv'
    BY <2>1 DEF Ask, TypeInv, TypeOK, Allocating
  <2>2. CASE AskString
    BY <2>1, <2>2 DEF AskString, NoRequest, Request, Kind
  <2>3. CASE AskCell
    BY <2>1, <2>3 DEF AskCell, Capturable, Request, Kind, TypeInv, TypeOK
  <2>4. CASE AskFunction
    BY <2>1, <2>4 DEF AskFunction, Constants, Request, Kind, TypeInv, TypeOK
  <2>5. CASE AskInstance
    BY <2>1, <2>5 DEF AskInstance, Constants, Request, Kind, TypeInv, TypeOK
  <2> QED
    BY <1>19, <2>2, <2>3, <2>4, <2>5 DEF AskMemory
<1>20. CASE maybeGC
  BY <1>20 DEF maybeGC, MarkFrom, getGCRoots, TypeInv, TypeOK, Allocating
<1>21. CASE Allocate
  <2>1. PICK o \in Obj \ objects : New(o, request.kind, request.link)
    BY <1>21 DEF Allocate
  <2>2. request.kind \in Kind /\ request.link \in SUBSET Obj
    BY <1>21 DEF Allocate, TypeInv, TypeOK, Request, Allocating
  <2> QED
    <3>1. request.slots \subseteq Obj
      BY DEF TypeInv, TypeOK, Request
    <3>2. slots' \in [Obj -> SUBSET Obj] /\ stack' \subseteq Obj
      BY <1>21, <2>1, <3>1 DEF Allocate, TypeInv, TypeOK
    <3>3. request' \in Request
      BY <1>21 DEF Allocate, NoRequest, Request
    <3> QED
      BY <1>21, <2>1, <2>2, <3>2, <3>3, NewTypes DEF Allocate, TypeInv, TypeOK, Allocating
<1>22. CASE Die
  BY <1>22 DEF Die, TypeInv, TypeOK, Allocating
<1>23. CASE MarkStep
  BY <1>23 DEF MarkStep, FirstVisit, getPointers, TypeInv, TypeOK, Allocating
<1>24. CASE MarkFreed
  BY <1>24 DEF MarkFreed, TypeInv, TypeOK, Allocating
<1>25. CASE MarkDone
  BY <1>25 DEF MarkDone, TypeInv, TypeOK, Allocating
<1>26. CASE SweepKeep
  BY <1>26 DEF SweepKeep, ClearMark, TypeInv, TypeOK, Allocating
<1>27. CASE SweepFree
  BY <1>27, ConstantsAssumption DEF SweepFree, SizeOf, TypeInv, TypeOK, Allocating
<1>28. CASE SweepDone
  BY <1>28 DEF SweepDone, TypeInv, TypeOK, Allocating
<1>29. CASE UNCHANGED vars
  BY <1>29 DEF vars, TypeInv, TypeOK, Allocating
<1> QED
  BY <1>1, <1>2, <1>3, <1>4, <1>5, <1>6, <1>7, <1>8, <1>9, <1>10, <1>11, <1>12, <1>13,
     <1>14, <1>15, <1>16, <1>17, <1>18, <1>19, <1>20, <1>21, <1>22, <1>23, <1>24, <1>25,
     <1>26, <1>27, <1>28, <1>29 DEF Next, Compile, Move, Collect

(* The state of the collector is well-typed: sweep() and cleanup() look up *)
(* the size of typed objects only, and a MEM expression names a type.      *)
THEOREM TypeCorrect == Spec => []TypeOK
<1>1. TypeInv => TypeOK
  BY DEF TypeInv
<1> QED
  BY InitTypeInv, NextTypeInv, <1>1, PTL DEF Spec

-----------------------------------------------------------------------------
(* The byte count.  One more object of a kind is Size[k] more bytes, one   *)
(* object less as many fewer, whatever else is in the set.                 *)

SizeSum(c) ==
    Size["STRING"] * c["STRING"] + Size["CODE"] * c["CODE"] + Size["NATIVE"] * c["NATIVE"]
      + Size["FUNCTION"] * c["FUNCTION"] + Size["CELL"] * c["CELL"] + Size["CLASS"] * c["CLASS"]
      + Size["INSTANCE"] * c["INSTANCE"]

Census(S, kd) == [k \in Kind |-> Cardinality({o \in S : kd[o] = k})]

LEMMA MultiplySuccessor == \A a, b \in Int : a * (b + 1) = a * b + a
  OBVIOUS

LEMMA SizeNatural == \A k \in Kind : Size[k] \in Nat
  BY ConstantsAssumption

LEMMA SizeSumNatural == ASSUME NEW c \in [Kind -> Nat] PROVE SizeSum(c) \in Nat
<1>1. \A a, b \in Nat : a * b \in Nat
  OBVIOUS
<1>2. \A k \in Kind : Size[k] * c[k] \in Nat
  BY <1>1, SizeNatural
<1> QED
  BY <1>2 DEF SizeSum, Kind

LEMMA SizeSumGrows ==
    ASSUME NEW c \in [Kind -> Nat], NEW k \in Kind
    PROVE  SizeSum([c EXCEPT ![k] = @ + 1]) = SizeSum(c) + Size[k]
<1> DEFINE d == [c EXCEPT ![k] = @ + 1]
<1>1. Size[k] * d[k] = Size[k] * c[k] + Size[k]
  BY MultiplySuccessor, SizeNatural
<1>2. \A j \in Kind \ {k} : Size[j] * d[j] = Size[j] * c[j]
  OBVIOUS
<1>3. \A j \in Kind : Size[j] * c[j] \in Int /\ Size[j] \in Int
  BY SizeNatural
<1> HIDE DEF d
<1>4. \A j \in Kind : Size[j] * d[j] = IF j = k THEN Size[j] * c[j] + Size[k] ELSE Size[j] * c[j]
  BY <1>1, <1>2
<1> QED
  <2> DEFINE p == [j \in Kind |-> Size[j] * c[j]]
             q == [j \in Kind |-> Size[j] * d[j]]
  <2>1. p \in [Kind -> Int] /\ Size[k] \in Int
    BY <1>3
  <2>2. q = [p EXCEPT ![k] = @ + Size[k]]
    BY <1>4
  <2>3. SizeSum(c) = p["STRING"] + p["CODE"] + p["NATIVE"] + p["FUNCTION"] + p["CELL"]
                       + p["CLASS"] + p["INSTANCE"]
    BY DEF SizeSum, Kind
  <2>4. SizeSum(d) = q["STRING"] + q["CODE"] + q["NATIVE"] + q["FUNCTION"] + q["CELL"]
                       + q["CLASS"] + q["INSTANCE"]
    BY DEF SizeSum, Kind
  <2> HIDE DEF p, q
  <2>5. SizeSum(d) = SizeSum(c) + Size[k]
    BY <2>1, <2>2, <2>3, <2>4 DEF Kind
  <2> QED
    BY <2>5 DEF d

LEMMA CensusTypes == ASSUME NEW S, IsFiniteSet(S), NEW kd PROVE Census(S, kd) \in [Kind -> Nat]
  BY FS_Subset, FS_CardinalityType DEF Census

(* The census of a set with one more object, given the kinds afterwards.   *)
LEMMA CensusGrows ==
    ASSUME NEW S, IsFiniteSet(S), NEW o, o \notin S, NEW kd, NEW ke,
           \A x \in S : ke[x] = kd[x], ke[o] \in Kind
    PROVE  Census(S \cup {o}, ke) = [Census(S, kd) EXCEPT ![ke[o]] = @ + 1]
<1> SUFFICES ASSUME NEW k \in Kind
             PROVE  Cardinality({x \in S \cup {o} : ke[x] = k}) =
                      IF k = ke[o] THEN Cardinality({x \in S : kd[x] = k}) + 1
                      ELSE Cardinality({x \in S : kd[x] = k})
  BY DEF Census
<1> DEFINE before == {x \in S : kd[x] = k}
<1>1. IsFiniteSet(before) /\ o \notin before
  BY FS_Subset
<1>2. CASE k = ke[o]
  <2>1. {x \in S \cup {o} : ke[x] = k} = before \cup {o}
    BY <1>2
  <2> QED
    BY <1>1, <1>2, <2>1, FS_AddElement
<1>3. CASE k # ke[o]
  <2>1. {x \in S \cup {o} : ke[x] = k} = before
    BY <1>3
  <2> QED
    BY <1>3, <2>1
<1> QED
  BY <1>2, <1>3

LEMMA BytesGrow ==
    ASSUME NEW S, IsFiniteSet(S), NEW o, o \notin S, NEW kd, NEW ke,
           \A x \in S : ke[x] = kd[x], ke[o] \in Kind
    PROVE  /\ SizeSum(Census(S \cup {o}, ke)) = SizeSum(Census(S, kd)) + Size[ke[o]]
           /\ SizeSum(Census(S, kd)) \in Nat
<1> DEFINE c == Census(S, kd)
           d == Census(S \cup {o}, ke)
<1>1. c \in [Kind -> Nat]
  BY CensusTypes
<1>2. d = [c EXCEPT ![ke[o]] = @ + 1]
  BY CensusGrows
<1> HIDE DEF c, d
<1>3. SizeSum(d) = SizeSum(c) + Size[ke[o]] /\ SizeSum(c) \in Nat
  BY <1>1, <1>2, SizeSumGrows, SizeSumNatural
<1> QED
  BY <1>3 DEF c, d

LEMMA BytesAsSum == BytesIn(Undeleted) = SizeSum(Census(Undeleted, kind))
  BY DEF BytesIn, BytesOf, SizeSum, Census, Kind

LEMMA NoBytes == ASSUME NEW kd PROVE SizeSum(Census({}, kd)) = 0
<1>1. \A k \in Kind : {o \in {} : kd[o] = k} = {} /\ Census({}, kd)[k] = 0
  BY FS_EmptySet DEF Census
<1>2. \A a \in Nat : a * 0 = 0
  OBVIOUS
<1> QED
  BY <1>1, <1>2, SizeNatural DEF SizeSum, Kind

BytesInv == bytesAllocated = SizeSum(Census(Undeleted, kind))

LEMMA UndeletedFinite == TypeInv => IsFiniteSet(Undeleted) /\ Undeleted \subseteq objects
  BY ConstantsAssumption, FS_Subset DEF Undeleted, TypeInv, TypeOK

LEMMA InitBytes == Init => BytesInv
<1> SUFFICES ASSUME Init PROVE BytesInv
  OBVIOUS
<1> DEFINE n == Cardinality(Natives)
<1>1. Undeleted = Natives /\ IsFiniteSet(Natives) /\ n \in Nat
  BY ConstantsAssumption, FS_Subset, FS_CardinalityType DEF Init, Undeleted
<1>2. \A k \in Kind : {o \in Natives : kind[o] = k} = IF k = "NATIVE" THEN Natives ELSE {}
  BY ConstantsAssumption DEF Init, Kind
<1>3. \A k \in Kind : Census(Natives, kind)[k] = IF k = "NATIVE" THEN n ELSE 0
  BY <1>2, FS_EmptySet DEF Census
<1>4. \A a \in Nat : a * 0 = 0
  OBVIOUS
<1>5. bytesAllocated = Size["NATIVE"] * n /\ Size["NATIVE"] * n \in Nat
  BY <1>1, SizeNatural DEF Init, Kind
<1> HIDE DEF n
<1>6. SizeSum(Census(Natives, kind)) = Size["NATIVE"] * n
  BY <1>3, <1>4, <1>5, SizeNatural DEF SizeSum, Kind
<1> QED
  BY <1>1, <1>5, <1>6 DEF BytesInv

(* operator new and the constructor of one object, outside cleanup().      *)
LEMMA NewBytes ==
    ASSUME TypeInv, BytesInv, NEW o, NEW k \in Kind, NEW l, New(o, k, l),
           pc # "cleanup", pc' # "cleanup"
    PROVE  BytesInv'
<1>1. IsFiniteSet(objects) /\ Undeleted = objects /\ Undeleted' = objects \cup {o} /\ o \notin objects
  BY UndeletedFinite DEF New, Undeleted
<1>2. (\A x \in objects : kind'[x] = kind[x]) /\ kind'[o] = k
  BY DEF New, Typed, TypeInv, TypeOK
<1>3. bytesAllocated' = bytesAllocated + Size[k]
  BY DEF New
<1>4. SizeSum(Census(objects \cup {o}, kind')) = SizeSum(Census(objects, kind)) + Size[k]
  BY <1>1, <1>2, BytesGrow
<1> QED
  BY <1>1, <1>3, <1>4 DEF BytesInv

(* operator delete of one object.                                          *)
LEMMA DeleteBytes ==
    ASSUME TypeInv, BytesInv, NEW o \in Undeleted, bytesAllocated' = bytesAllocated - SizeOf(o),
           Undeleted' = Undeleted \ {o}, \A x \in Undeleted \ {o} : kind'[x] = kind[x]
    PROVE  BytesInv'
<1> DEFINE S == Undeleted \ {o}
<1>1. IsFiniteSet(S) /\ o \notin S /\ S \cup {o} = Undeleted
  BY UndeletedFinite, FS_Subset
<1>2. kind[o] \in Kind /\ Size[kind[o]] \in Nat
  BY UndeletedFinite, SizeNatural DEF TypeInv
<1> HIDE DEF S
<1>3. /\ SizeSum(Census(S \cup {o}, kind)) = SizeSum(Census(S, kind')) + Size[kind[o]]
      /\ SizeSum(Census(S, kind')) \in Nat
  <2>1. \A x \in S : kind[x] = kind'[x]
    BY DEF S
  <2> QED
    BY <1>1, <1>2, <2>1, BytesGrow
<1>4. bytesAllocated = SizeSum(Census(Undeleted, kind)) /\ bytesAllocated' = bytesAllocated - Size[kind[o]]
  BY DEF BytesInv, SizeOf
<1>5. bytesAllocated' = SizeSum(Census(S, kind'))
  <2> DEFINE before == SizeSum(Census(Undeleted, kind))
             after == SizeSum(Census(S, kind'))
  <2>1. before = after + Size[kind[o]] /\ after \in Nat
    BY <1>1, <1>3
  <2>2. bytesAllocated' = before - Size[kind[o]]
    BY <1>4
  <2> HIDE DEF before, after
  <2>3. bytesAllocated' = after
    BY <1>2, <2>1, <2>2
  <2> QED
    BY <2>3 DEF after
<1> QED
  BY <1>5 DEF BytesInv, S

LEMMA NextBytes == TypeInv /\ BytesInv /\ [Next]_vars => BytesInv'
<1> SUFFICES ASSUME TypeInv, BytesInv, [Next]_vars PROVE BytesInv'
  OBVIOUS
<1> USE DEF heapVars, rootVars, gcVars
<1>1. ASSUME UNCHANGED <<bytesAllocated, kind>>, Undeleted' = Undeleted PROVE BytesInv'
  BY <1>1 DEF BytesInv
<1>2. CASE BeginExec
  <2>1. PICK co \in Obj \ objects : \E main \in Obj \ (objects \cup {co}) :
          /\ objects' = objects \cup {co, main}
          /\ kind' = [kind EXCEPT ![co] = "CODE", ![main] = "FUNCTION"]
          /\ bytesAllocated' = bytesAllocated + Size["CODE"] + Size["FUNCTION"]
          /\ pc = "exec" /\ pc' = "compile"
    BY <1>2 DEF BeginExec
  <2>2. PICK main \in Obj \ (objects \cup {co}) :
          /\ objects' = objects \cup {co, main}
          /\ kind' = [kind EXCEPT ![co] = "CODE", ![main] = "FUNCTION"]
          /\ bytesAllocated' = bytesAllocated + Size["CODE"] + Size["FUNCTION"]
          /\ pc = "exec" /\ pc' = "compile"
    BY <2>1
  <2> DEFINE mid == objects \cup {co}
  <2>3. Undeleted = objects /\ Undeleted' = mid \cup {main} /\ IsFiniteSet(objects) /\ IsFiniteSet(mid)
    BY <2>2, UndeletedFinite, FS_AddElement DEF Undeleted
  <2>4. /\ kind'[co] = "CODE" /\ kind'[main] = "FUNCTION"
        /\ \A x \in objects : kind'[x] = kind[x]
    BY <2>2 DEF TypeInv, TypeOK
  <2>5. SizeSum(Census(mid, kind')) = SizeSum(Census(objects, kind)) + Size["CODE"]
    <3>1. co \notin objects /\ kind'[co] \in Kind
      BY <2>4 DEF Kind
    <3>2. IsFiniteSet(objects) /\ \A x \in objects : kind'[x] = kind[x]
      BY <2>3, <2>4
    <3>3. SizeSum(Census(objects \cup {co}, kind')) = SizeSum(Census(objects, kind)) + Size[kind'[co]]
      BY <3>1, <3>2, BytesGrow
    <3> QED
      BY <2>4, <3>3
  <2>6. SizeSum(Census(mid \cup {main}, kind')) = SizeSum(Census(mid, kind')) + Size["FUNCTION"]
    <3>1. main \notin mid /\ kind'[main] \in Kind /\ \A x \in mid : kind'[x] = kind'[x]
      BY <2>2, <2>4 DEF Kind
    <3> HIDE DEF mid
    <3> QED
      BY <2>3, <2>4, <3>1, BytesGrow
  <2>7. bytesAllocated = SizeSum(Census(objects, kind))
    BY <2>3 DEF BytesInv
  <2> HIDE DEF mid
  <2> QED
    BY <2>2, <2>3, <2>5, <2>6, <2>7 DEF BytesInv
<1>3. CASE Compile
  <2>1. ASSUME NEW o, NEW k \in Kind, NEW l, CompileObject(o, k, l), UNCHANGED pc PROVE BytesInv'
    BY <2>1, NewBytes DEF CompileObject
  <2>2. CASE CompileLeaf
    BY <2>1, <2>2 DEF CompileLeaf, Kind
  <2>3. CASE CompileFunction
    BY <2>1, <2>3 DEF CompileFunction, Kind
  <2>4. CASE CompileClass
    BY <2>1, <2>4 DEF CompileClass, Kind
  <2>5. CASE CompileReference
    BY <1>1, <2>5 DEF CompileReference, Undeleted
  <2> QED
    BY <1>3, <2>2, <2>3, <2>4, <2>5 DEF Compile
<1>4. CASE StartEval \/ Halt
  BY <1>1, <1>4 DEF StartEval, Halt, Undeleted
<1>5. CASE Cleanup
  BY <1>1, <1>5 DEF Cleanup, Undeleted
<1>6. CASE CleanupDelete
  <2>1. PICK o \in unswept : bytesAllocated' = bytesAllocated - SizeOf(o) /\ unswept' = unswept \ {o}
    BY <1>6 DEF CleanupDelete
  <2>2. Undeleted = unswept /\ Undeleted' = unswept' /\ UNCHANGED kind
    BY <1>6 DEF CleanupDelete, Undeleted
  <2> QED
    BY <2>1, <2>2, DeleteBytes
<1>7. CASE CleanupDone
  <2>1. Undeleted = {} /\ Undeleted' = {} /\ UNCHANGED bytesAllocated
    BY <1>7 DEF CleanupDone, Undeleted
  <2> QED
    BY <2>1, NoBytes DEF BytesInv
<1>8. CASE Move
  BY <1>1, <1>8 DEF Move, Push, Drop, SetGlobal, SetProp, SetCell, Call, Return, Undeleted
<1>9. CASE AskMemory
  <2>1. ASSUME NEW r, Ask(r) PROVE BytesInv'
    BY <1>1, <2>1 DEF Ask, Undeleted
  <2> QED
    BY <1>9, <2>1 DEF AskMemory, AskString, AskCell, AskFunction, AskInstance
<1>10. CASE UseFreed \/ maybeGC \/ Die
  BY <1>1, <1>10 DEF UseFreed, maybeGC, Die, Undeleted
<1>11. CASE Allocate
  <2>1. PICK o : New(o, request.kind, request.link)
    BY <1>11 DEF Allocate
  <2>2. request.kind \in Kind /\ pc = "alloc" /\ pc' = "eval"
    BY <1>11 DEF Allocate, TypeInv, Allocating
  <2> QED
    BY <2>1, <2>2, NewBytes
<1>12. CASE MarkStep \/ MarkFreed \/ MarkDone \/ SweepKeep \/ SweepDone
  BY <1>1, <1>12 DEF MarkStep, MarkFreed, MarkDone, SweepKeep, SweepDone, Undeleted
<1>13. CASE SweepFree
  <2>1. PICK o \in unswept :
          /\ objects' = objects \ {o}
          /\ bytesAllocated' = bytesAllocated - SizeOf(o)
          /\ kind' = [kind EXCEPT ![o] = "NONE"]
    BY <1>13 DEF SweepFree
  <2>2. Undeleted = objects /\ Undeleted' = objects \ {o} /\ o \in Undeleted
    BY <1>13, <2>1 DEF SweepFree, Undeleted, TypeInv
  <2>3. \A x \in Undeleted \ {o} : kind'[x] = kind[x]
    BY <2>1, <2>2 DEF TypeInv, TypeOK
  <2> QED
    BY <2>1, <2>2, <2>3, DeleteBytes
<1>14. CASE UNCHANGED vars
  BY <1>1, <1>14 DEF vars, Undeleted
<1> QED
  BY <1>2, <1>3, <1>4, <1>5, <1>6, <1>7, <1>8, <1>9, <1>10, <1>11, <1>12, <1>13, <1>14
  DEF Next, Collect

(* The byte count never drifts from the memory it counts, whatever the     *)
(* sizes of the kinds, through collections and the end of the VM, and so   *)
(* it is never negative: as a size_t it does not wrap around.              *)
THEOREM BytesCounted == Spec => [](BytesExact /\ bytesAllocated \in Nat)
<1>1. TypeInv /\ BytesInv => BytesExact /\ bytesAllocated \in Nat
  BY BytesAsSum, UndeletedFinite, CensusTypes, SizeSumNatural DEF BytesInv, BytesExact
<1> QED
  BY InitTypeInv, NextTypeInv, InitBytes, NextBytes, <1>1, PTL DEF Spec

-----------------------------------------------------------------------------
(* The thread of control: who may act while the collector runs.            *)

Waiting == {"mem", "mark", "sweep"}

LEMMA ControlFlow ==
    ASSUME [Next]_vars
    PROVE  /\ pc = "mem" => maybeGC \/ UNCHANGED vars
           /\ pc = "mark" => MarkStep \/ MarkFreed \/ MarkDone \/ UNCHANGED vars
           /\ pc = "sweep" => SweepKeep \/ SweepFree \/ SweepDone \/ UNCHANGED vars
           /\ pc \notin Waiting => pc' \notin {"mark", "sweep"}
<1> USE DEF heapVars, rootVars, gcVars, Waiting
<1>1. BeginExec \/ StartEval \/ Halt => pc \notin Waiting /\ pc' \notin Waiting
  BY DEF BeginExec, StartEval, Halt
<1>2. Compile => pc \notin Waiting /\ pc' \notin Waiting
  <2>1. CompileLeaf => pc = "compile" /\ pc' = pc
    BY DEF CompileLeaf, CompileObject
  <2>2. CompileFunction => pc = "compile" /\ pc' = pc
    BY DEF CompileFunction, CompileObject
  <2>3. CompileClass => pc = "compile" /\ pc' = pc
    BY DEF CompileClass, CompileObject
  <2>4. CompileReference => pc = "compile" /\ pc' = pc
    BY DEF CompileReference
  <2> QED
    BY <2>1, <2>2, <2>3, <2>4 DEF Compile
<1>3. Cleanup \/ CleanupDelete \/ CleanupDone => pc \notin Waiting /\ pc' \notin Waiting
  BY DEF Cleanup, CleanupDelete, CleanupDone
<1>4. Move => pc = "eval" /\ pc' = pc
  <2>1. Push => pc = "eval" /\ pc' = pc
    BY DEF Push
  <2>2. Drop \/ SetGlobal \/ SetProp => pc = "eval" /\ pc' = pc
    BY DEF Drop, SetGlobal, SetProp
  <2>3. SetCell \/ Call \/ Return => pc = "eval" /\ pc' = pc
    BY DEF SetCell, Call, Return
  <2> QED
    BY <2>1, <2>2, <2>3 DEF Move
<1>5. UseFreed \/ Allocate \/ Die => pc \notin Waiting /\ pc' \notin Waiting
  BY DEF UseFreed, Allocate, Die
<1>6. AskMemory => pc = "eval" /\ pc' = "mem"
  BY DEF AskMemory, AskString, AskCell, AskFunction, AskInstance, Ask
<1>7. maybeGC => pc = "mem"
  BY DEF maybeGC
<1>8. MarkStep \/ MarkFreed \/ MarkDone => pc = "mark"
  BY DEF MarkStep, MarkFreed, MarkDone
<1>9. SweepKeep \/ SweepFree \/ SweepDone => pc = "sweep"
  BY DEF SweepKeep, SweepFree, SweepDone
<1>10. UNCHANGED vars => pc' = pc
  BY DEF vars
<1> QED
  BY <1>1, <1>2, <1>3, <1>4, <1>5, <1>6, <1>7, <1>8, <1>9, <1>10 DEF Next, Collect

-----------------------------------------------------------------------------
(* What the collector guarantees whatever the program does and whatever    *)
(* the mark bits of new objects hold.                                      *)

Marked == {o \in Obj : marked[o]}

MarkInv ==
    /\ pc = "mark" => getGCRoots \subseteq worklist \cup Marked
    /\ pc = "sweep" => \A o \in getGCRoots \cap unswept : marked[o]
    /\ SweepClearsMarks

LEMMA NextMarkInv == TypeInv /\ MarkInv /\ [Next]_vars => MarkInv'
<1> SUFFICES ASSUME TypeInv, MarkInv, [Next]_vars PROVE MarkInv'
  OBVIOUS
<1> USE DEF heapVars, rootVars, gcVars, getGCRoots, Marked, SweepClearsMarks
<1>1. CASE maybeGC
  BY <1>1 DEF maybeGC, MarkFrom, MarkInv
<1>2. CASE MarkStep
  <2>1. PICK o \in worklist : worklist' = (worklist \ {o}) \cup FirstVisit(o)
                              /\ marked' = [marked EXCEPT ![o] = TRUE]
    BY <1>2 DEF MarkStep
  <2>2. \A x \in Obj : marked'[x] <=> x = o \/ marked[x]
    BY <2>1 DEF TypeInv, TypeOK
  <2>3. pc' = "mark" /\ getGCRoots' = getGCRoots /\ getGCRoots \subseteq Obj
    BY <1>2 DEF MarkStep, TypeInv, TypeOK
  <2> QED
    BY <1>2, <2>1, <2>2, <2>3 DEF MarkStep, MarkInv
<1>3. CASE MarkFreed
  BY <1>3 DEF MarkFreed, MarkInv
<1>4. CASE MarkDone
  BY <1>4 DEF MarkDone, MarkInv
<1>5. CASE SweepKeep
  BY <1>5 DEF SweepKeep, ClearMark, MarkInv, TypeInv, TypeOK
<1>6. CASE SweepFree
  BY <1>6 DEF SweepFree, MarkInv, TypeInv, TypeOK
<1>7. CASE SweepDone
  BY <1>7 DEF SweepDone, MarkInv
<1>8. CASE pc \notin Waiting
  BY <1>8, ControlFlow DEF MarkInv
<1>9. CASE UNCHANGED vars
  BY <1>9 DEF vars, MarkInv
<1> QED
  BY <1>1, <1>2, <1>3, <1>4, <1>5, <1>6, <1>7, <1>8, <1>9, ControlFlow DEF Waiting

LEMMA InductiveMarkInv == Spec => [](TypeInv /\ MarkInv)
<1>1. Init => MarkInv
  BY DEF Init, MarkInv, SweepClearsMarks
<1> QED
  BY InitTypeInv, NextTypeInv, NextMarkInv, <1>1, PTL DEF Spec

(* Every survivor of a sweep starts the next cycle unmarked, even when its *)
(* constructor left the mark bit to chance.                                *)
THEOREM MarksCleared == Spec => []SweepClearsMarks
<1>1. MarkInv => SweepClearsMarks
  BY DEF MarkInv
<1> QED
  BY InductiveMarkInv, <1>1, PTL

(* No root is freed, even when stray mark bits stop the marking early.     *)
THEOREM RootsAlwaysSurvive == Spec => RootsSurvive
<1>1. TypeInv /\ MarkInv /\ [Next]_vars
        => [pc = "sweep" => getGCRoots \cap objects \subseteq objects']_vars
  <2> SUFFICES ASSUME TypeInv, MarkInv, [Next]_vars, pc = "sweep"
               PROVE  getGCRoots \cap objects \subseteq objects' \/ UNCHANGED vars
    OBVIOUS
  <2>1. CASE SweepKeep \/ SweepDone
    BY <2>1 DEF SweepKeep, SweepDone, heapVars
  <2>2. CASE SweepFree
    BY <2>2 DEF SweepFree, MarkInv
  <2> QED
    BY <2>1, <2>2, ControlFlow
<1> QED
  BY InductiveMarkInv, <1>1, PTL DEF Spec, RootsSurvive

-----------------------------------------------------------------------------
(* Memory safety, for the programs that keep to three rules: a new object  *)
(* is unmarked, a captured variable holds no run-time object, and a        *)
(* function does not assign to its own name.  Each rule is necessary: the  *)
(* runs strayMark, cellValue and callee break one of them.                 *)

Disciplined == FreshMarks = {FALSE} /\ ~CaptureAny /\ ~OverwriteCallee

(* The objects a running sweep leaves: all, outside of a sweep.            *)
Kept == IF pc = "sweep" THEN {o \in objects : o \notin unswept \/ marked[o]} ELSE objects

(* What the thread holds without telling the collector, it finds anyway.   *)
RootedInv ==
    /\ frames \subseteq stack \cup constantObjects
    /\ pc = "compile" => frames \subseteq constantObjects
    /\ \A f \in frames : kind[f] = "FUNCTION"
    /\ request.link \subseteq constantObjects
    /\ request.slots \subseteq stack \cup constantObjects
    /\ request.owner \subseteq frames
    /\ request.kind = "FUNCTION" => \A c \in request.slots : kind[c] = "CELL"
    /\ request.kind \notin {"FUNCTION", "INSTANCE"} => request.slots \subseteq constantObjects
    /\ pc \in Allocating \cup {"died"} \/ request = NoRequest

(* What getPointers leaves out is kept by the compiler's list.             *)
UntracedInv == \A o \in objects :
    /\ link[o] \subseteq constantObjects
    /\ kind[o] \notin {"FUNCTION", "INSTANCE"} => slots[o] \subseteq constantObjects

HeapInv ==
    /\ getGCRoots \subseteq Kept
    /\ \A o \in Kept : slots[o] \subseteq Kept /\ link[o] \subseteq Kept

(* Marking has no object behind it that leads to one it has not seen.      *)
WorklistInv ==
    /\ pc = "mark" => worklist \subseteq objects
    /\ pc = "mark" => \A o \in objects : marked[o] => getPointers(o) \subseteq worklist \cup Marked
    /\ pc \notin {"mark", "sweep"} => \A o \in objects : ~marked[o]

SafeInv == RootedInv /\ UntracedInv /\ HeapInv /\ WorklistInv /\ pc # "undefined"

(* The thread's references lead to objects in memory. *)
LEMMA HeldKept ==
    ASSUME SafeInv
    PROVE  /\ Kept \subseteq objects
           /\ stack \subseteq Kept /\ globals \subseteq Kept /\ constantObjects \subseteq Kept
           /\ frames \subseteq Kept
           /\ Held \subseteq Kept
  BY DEF SafeInv, RootedInv, HeapInv, Kept, getGCRoots, Held

(* A new object changes nothing of those that exist. *)
LEMMA NewSafe ==
    ASSUME Disciplined, TypeInv, NEW o, NEW k, NEW l, New(o, k, l)
    PROVE  /\ o \in Obj /\ o \notin objects /\ objects' = objects \cup {o}
           /\ kind'[o] = k /\ link'[o] = l /\ ~marked'[o]
           /\ \A x \in objects : kind'[x] = kind[x] /\ link'[x] = link[x] /\ marked'[x] = marked[x]
  BY DEF New, Typed, Disciplined, TypeInv, TypeOK

LEMMA CompileObjectSafe ==
    ASSUME Disciplined, TypeInv, SafeInv, NEW o, NEW k, NEW l \in SUBSET constantObjects,
           CompileObject(o, k, l), globals' \subseteq globals \cup {o},
           UNCHANGED <<stack, frames, pc, gcVars>>
    PROVE  SafeInv'
<1> USE DEF gcVars
<1>1. New(o, k, l) /\ pc = "compile" /\ pc' = "compile" /\ constantObjects' = constantObjects \cup {o}
      /\ slots' = [slots EXCEPT ![o] = {}]
  BY DEF CompileObject
<1>2. slots'[o] = {} /\ \A x \in objects : slots'[x] = slots[x]
  BY <1>1, NewSafe DEF TypeInv, TypeOK
<1>3. RootedInv'
  BY <1>1, NewSafe, HeldKept DEF SafeInv, RootedInv, Kept
<1>4. UntracedInv'
  BY <1>1, <1>2, NewSafe DEF SafeInv, UntracedInv
<1>5. HeapInv'
  BY <1>1, <1>2, NewSafe, HeldKept DEF SafeInv, HeapInv, Kept, getGCRoots
<1>6. WorklistInv'
  BY <1>1, NewSafe DEF SafeInv, WorklistInv
<1> QED
  BY <1>1, <1>3, <1>4, <1>5, <1>6 DEF SafeInv

LEMMA CompileSafe ==
    ASSUME Disciplined, TypeInv, SafeInv, Compile
    PROVE  SafeInv'
<1> USE DEF gcVars
<1>1. CASE CompileLeaf
  <2>1. PICK o \in Obj, k \in {"CODE", "STRING"} : CompileObject(o, k, {})
    BY <1>1 DEF CompileLeaf
  <2> QED
    BY <1>1, <2>1, CompileObjectSafe DEF CompileLeaf
<1>2. CASE CompileFunction
  <2>1. PICK o \in Obj, co \in Constants("CODE") : CompileObject(o, "FUNCTION", {co})
    BY <1>2 DEF CompileFunction
  <2>2. {co} \in SUBSET constantObjects
    BY DEF Constants
  <2> QED
    BY <1>2, <2>1, <2>2, CompileObjectSafe DEF CompileFunction
<1>3. CASE CompileClass
  <2>1. PICK o \in Obj, super \in {{}} \cup {{c} : c \in Constants("CLASS")} :
          CompileObject(o, "CLASS", super) /\ globals' = globals \cup {o}
    BY <1>3 DEF CompileClass
  <2>2. super \in SUBSET constantObjects
    BY DEF Constants
  <2> QED
    BY <1>3, <2>1, <2>2, CompileObjectSafe DEF CompileClass
<1>4. CASE CompileReference
  <2> USE DEF rootVars
  <2>1. PICK c \in Obj, d \in constantObjects : link' = [link EXCEPT ![c] = @ \cup {d}]
    BY <1>4 DEF CompileReference, Constants, TypeInv, TypeOK
  <2>2. \A x \in Obj : link'[x] \subseteq link[x] \cup {d}
    BY <2>1 DEF TypeInv, TypeOK
  <2>3. pc = "compile" /\ UNCHANGED <<objects, kind, slots, marked, rootVars, pc, gcVars>>
    BY <1>4 DEF CompileReference
  <2>4. RootedInv'
    BY <2>3 DEF SafeInv, RootedInv
  <2>5. UntracedInv'
    BY <2>2, <2>3 DEF SafeInv, UntracedInv, TypeInv, TypeOK
  <2>6. HeapInv'
    BY <2>2, <2>3, HeldKept DEF SafeInv, HeapInv, Kept, getGCRoots, TypeInv, TypeOK
  <2>7. WorklistInv'
    BY <2>3 DEF SafeInv, WorklistInv
  <2> QED
    BY <2>3, <2>4, <2>5, <2>6, <2>7 DEF SafeInv
<1> QED
  BY <1>1, <1>2, <1>3, <1>4 DEF Compile

LEMMA BeginExecSafe ==
    ASSUME Disciplined, TypeInv, SafeInv, BeginExec
    PROVE  SafeInv'
<1> USE DEF gcVars
<1>1. PICK co, main :
        /\ co \in Obj \ objects /\ main \in Obj \ (objects \cup {co})
        /\ objects' = objects \cup {co, main}
        /\ kind' = [kind EXCEPT ![co] = "CODE", ![main] = "FUNCTION"]
        /\ link' = [link EXCEPT ![co] = {}, ![main] = {co}]
        /\ slots' = [slots EXCEPT ![co] = {}, ![main] = {}]
        /\ marked' = [marked EXCEPT ![co] = FALSE, ![main] = FALSE]
        /\ constantObjects' = constantObjects \cup {co, main}
        /\ frames' = {main}
  BY DEF BeginExec, Disciplined
<1>2. pc = "exec" /\ pc' = "compile" /\ UNCHANGED <<stack, globals, gcVars>>
  BY DEF BeginExec
<1>3. /\ kind'[main] = "FUNCTION" /\ link'[co] = {} /\ link'[main] = {co}
      /\ slots'[co] = {} /\ slots'[main] = {} /\ ~marked'[co] /\ ~marked'[main]
      /\ \A x \in objects : kind'[x] = kind[x] /\ link'[x] = link[x] /\ slots'[x] = slots[x]
                             /\ marked'[x] = marked[x]
  BY <1>1 DEF TypeInv, TypeOK
<1>4. RootedInv'
  BY <1>1, <1>2, <1>3, HeldKept DEF SafeInv, RootedInv, Allocating, NoRequest
<1>5. UntracedInv'
  BY <1>1, <1>3 DEF SafeInv, UntracedInv
<1>6. HeapInv'
  BY <1>1, <1>2, <1>3, HeldKept DEF SafeInv, HeapInv, Kept, getGCRoots
<1>7. WorklistInv'
  BY <1>1, <1>2, <1>3 DEF SafeInv, WorklistInv
<1> QED
  BY <1>2, <1>4, <1>5, <1>6, <1>7 DEF SafeInv

(* A step that only drops or copies references. *)
LEMMA RootsMoveSafe ==
    ASSUME TypeInv, SafeInv, UNCHANGED <<heapVars, constantObjects, gcVars>>,
           pc \in {"exec", "compile", "eval"}, pc' \in {"exec", "compile", "eval"},
           pc' = "compile" => frames' \subseteq constantObjects,
           stack' \subseteq objects, globals' \subseteq objects,
           frames' \subseteq stack' \cup constantObjects,
           \A f \in frames' : kind[f] = "FUNCTION"
    PROVE  SafeInv'
<1> USE DEF heapVars, gcVars
<1>1. request = NoRequest
  BY DEF SafeInv, RootedInv, Allocating
<1>2. RootedInv'
  BY <1>1 DEF SafeInv, RootedInv, NoRequest
<1>3. UntracedInv'
  BY DEF SafeInv, UntracedInv
<1>4. HeapInv'
  BY HeldKept DEF SafeInv, HeapInv, Kept, getGCRoots
<1>5. WorklistInv'
  BY DEF SafeInv, WorklistInv
<1> QED
  BY <1>2, <1>3, <1>4, <1>5 DEF SafeInv

LEMMA PushableSafe ==
    ASSUME SafeInv, pc = "eval"
    PROVE  Pushable \subseteq objects /\ Cells \subseteq objects
<1>1. stack \subseteq objects /\ frames \subseteq objects /\ getGCRoots \subseteq objects
  BY HeldKept DEF Kept, Held
<1>2. \A o \in objects : slots[o] \subseteq objects
  BY DEF SafeInv, HeapInv, Kept
<1>3. Cells \subseteq objects
  BY <1>1, <1>2 DEF Cells
<1>4. (UNION {slots[c] : c \in Cells}) \subseteq objects
  BY <1>2, <1>3
<1>5. (UNION {slots[i] : i \in {o \in stack : kind[o] = "INSTANCE"}}) \subseteq objects
  BY <1>1, <1>2
<1> QED
  BY <1>1, <1>3, <1>4, <1>5 DEF Pushable

(* A step that writes the fields of one traced object, or a cell's value.  *)
LEMMA FieldWriteSafe ==
    ASSUME TypeInv, SafeInv, pc = "eval", pc' = "eval",
           UNCHANGED <<objects, kind, link, marked, stack, globals, constantObjects, gcVars>>,
           NEW w \in objects, NEW S \in SUBSET objects,
           slots' = [slots EXCEPT ![w] = S],
           kind[w] \in {"FUNCTION", "INSTANCE"} \/ S \subseteq constantObjects,
           frames' \subseteq stack \cup constantObjects,
           \A f \in frames' : kind[f] = "FUNCTION"
    PROVE  SafeInv'
<1> USE DEF gcVars
<1>1. request = NoRequest
  BY DEF SafeInv, RootedInv, Allocating
<1>2. slots'[w] = S /\ \A x \in objects : x # w => slots'[x] = slots[x]
  BY DEF TypeInv, TypeOK
<1>3. RootedInv'
  BY <1>1 DEF SafeInv, RootedInv, NoRequest
<1>4. UntracedInv'
  BY <1>2 DEF SafeInv, UntracedInv
<1>5. HeapInv'
  BY <1>2, HeldKept DEF SafeInv, HeapInv, Kept, getGCRoots
<1>6. WorklistInv'
  BY DEF SafeInv, WorklistInv
<1> QED
  BY <1>3, <1>4, <1>5, <1>6 DEF SafeInv

LEMMA MoveSafe ==
    ASSUME Disciplined, TypeInv, SafeInv, Move
    PROVE  SafeInv'
<1> USE DEF heapVars, rootVars, gcVars
<1>a. /\ stack \subseteq objects /\ globals \subseteq objects
      /\ frames \subseteq stack \cup constantObjects
      /\ \A f \in frames : kind[f] = "FUNCTION"
      /\ \A o \in objects : pc = "eval" => slots[o] \subseteq objects
  BY HeldKept DEF SafeInv, RootedInv, HeapInv, Kept
<1>1. CASE Push
  BY <1>1, <1>a, PushableSafe, RootsMoveSafe DEF Push
<1>2. CASE Drop
  BY <1>2, <1>a, RootsMoveSafe DEF Drop, Disciplined
<1>3. CASE SetGlobal
  BY <1>3, <1>a, RootsMoveSafe DEF SetGlobal
<1>4. CASE Return
  BY <1>4, <1>a, RootsMoveSafe DEF Return
<1>5. CASE SetProp
  <2>0. PICK i \in {o \in stack \cap objects : kind[o] = "INSTANCE"} :
          \E new \in {{}} \cup {{v} : v \in stack}, old \in {{}} \cup {{p} : p \in slots[i]} :
            slots' = [slots EXCEPT ![i] = (slots[i] \ old) \cup new]
    BY <1>5 DEF SetProp
  <2>1. PICK new \in {{}} \cup {{v} : v \in stack}, old \in {{}} \cup {{p} : p \in slots[i]} :
            slots' = [slots EXCEPT ![i] = (slots[i] \ old) \cup new]
    BY <2>0
  <2>2. /\ pc = "eval" /\ pc' = "eval"
        /\ UNCHANGED <<objects, kind, link, marked, stack, frames, globals, constantObjects, gcVars>>
    BY <1>5 DEF SetProp
  <2>3. (slots[i] \ old) \cup new \in SUBSET objects
    BY <1>a, <2>2
  <2>4. i \in objects /\ kind[i] = "INSTANCE"
    OBVIOUS
  <2> QED
    BY <1>a, <2>1, <2>2, <2>3, <2>4, FieldWriteSafe
<1>6. CASE SetCell
  <2>1. PICK f \in frames \cap objects : \E c \in slots[f] \cap objects, value \in Capturable :
          slots' = [slots EXCEPT ![c] = value]
    BY <1>6 DEF SetCell
  <2>2. PICK c \in slots[f] \cap objects, value \in Capturable : slots' = [slots EXCEPT ![c] = value]
    BY <2>1
  <2>3. value \in SUBSET objects /\ value \subseteq constantObjects
    BY <1>a DEF Capturable, Disciplined
  <2>4. /\ pc = "eval" /\ pc' = "eval"
        /\ UNCHANGED <<objects, kind, link, marked, stack, frames, globals, constantObjects, gcVars>>
    BY <1>6 DEF SetCell
  <2> QED
    BY <1>a, <2>2, <2>3, <2>4, FieldWriteSafe
<1>7. CASE Call
  <2>1. PICK f \in {o \in stack \cap objects : kind[o] = "FUNCTION"} : \E kept \in SUBSET slots[f] :
          slots' = [slots EXCEPT ![f] = kept] /\ frames' = frames \cup {f}
    BY <1>7 DEF Call
  <2>2. PICK kept \in SUBSET slots[f] : slots' = [slots EXCEPT ![f] = kept] /\ frames' = frames \cup {f}
    BY <2>1
  <2>3. /\ pc = "eval" /\ pc' = "eval"
        /\ UNCHANGED <<objects, kind, link, marked, stack, globals, constantObjects, gcVars>>
    BY <1>7 DEF Call
  <2>4. f \in objects /\ kind[f] = "FUNCTION" /\ kept \in SUBSET objects
    BY <1>a, <2>3
  <2>5. frames' \subseteq stack \cup constantObjects /\ \A g \in frames' : kind[g] = "FUNCTION"
    BY <1>a, <2>2
  <2> QED
    BY <2>2, <2>3, <2>4, <2>5, FieldWriteSafe
<1> QED
  BY <1>1, <1>2, <1>3, <1>4, <1>5, <1>6, <1>7 DEF Move

LEMMA AskSafe ==
    ASSUME Disciplined, TypeInv, SafeInv, AskMemory
    PROVE  SafeInv'
<1> USE DEF heapVars, rootVars
<1>1. ASSUME NEW r, Ask(r), r.link \subseteq constantObjects, r.owner \subseteq frames,
             r.slots \subseteq stack \cup constantObjects,
             r.kind = "FUNCTION" => \A c \in r.slots : kind[c] = "CELL",
             r.kind \notin {"FUNCTION", "INSTANCE"} => r.slots \subseteq constantObjects
      PROVE  SafeInv'
  <2>1. RootedInv'
    BY <1>1 DEF Ask, SafeInv, RootedInv, Allocating
  <2>2. UntracedInv' /\ HeapInv' /\ WorklistInv'
    BY <1>1 DEF Ask, SafeInv, UntracedInv, HeapInv, WorklistInv, Kept, getGCRoots
  <2> QED
    BY <1>1, <2>1, <2>2 DEF Ask, SafeInv
<1>2. CASE AskString
  BY <1>1, <1>2 DEF AskString, NoRequest
<1>3. CASE AskCell
  <2>1. PICK f \in frames, value \in Capturable :
          Ask([kind |-> "CELL", link |-> {}, slots |-> value, owner |-> {f}])
    BY <1>3 DEF AskCell
  <2>2. value \subseteq constantObjects
    BY DEF Capturable, Disciplined
  <2> QED
    BY <1>1, <2>1, <2>2
<1>4. CASE AskFunction
  BY <1>1, <1>4 DEF AskFunction, Constants
<1>5. CASE AskInstance
  BY <1>1, <1>5 DEF AskInstance, Constants
<1> QED
  BY <1>2, <1>3, <1>4, <1>5 DEF AskMemory

LEMMA AllocateSafe ==
    ASSUME Disciplined, TypeInv, SafeInv, Allocate
    PROVE  SafeInv'
<1>1. PICK o \in Obj \ objects :
        /\ New(o, request.kind, request.link)
        /\ slots' = [x \in Obj |-> IF x = o THEN request.slots
                                   ELSE IF x \in request.owner THEN slots[x] \cup {o}
                                   ELSE slots[x]]
        /\ stack' = CASE request.kind = "CELL" -> stack
                      [] request.kind = "FUNCTION" -> (stack \ request.slots) \cup {o}
                      [] OTHER -> stack \cup {o}
  BY DEF Allocate
<1>2. /\ pc = "alloc" /\ pc' = "eval" /\ request' = NoRequest
      /\ UNCHANGED <<frames, globals, constantObjects, worklist, unswept>>
  BY DEF Allocate
<1>3. /\ slots'[o] = request.slots
      /\ \A x \in objects : slots'[x] \subseteq slots[x] \cup {o}
      /\ \A x \in objects : x \notin request.owner => slots'[x] = slots[x]
  BY <1>1 DEF TypeInv, TypeOK
<1>4. /\ stack' \subseteq stack \cup {o}
      /\ \A x \in stack : x \notin stack' => kind[x] = "CELL"
  BY <1>1 DEF SafeInv, RootedInv
<1>5. /\ frames \subseteq objects /\ stack \subseteq objects /\ globals \subseteq objects
      /\ constantObjects \subseteq objects
      /\ \A f \in frames : kind[f] = "FUNCTION"
      /\ request.slots \subseteq objects /\ request.owner \subseteq frames
  BY HeldKept DEF Kept, SafeInv, RootedInv
<1>6. /\ objects' = objects \cup {o} /\ kind'[o] = request.kind /\ link'[o] = request.link
      /\ ~marked'[o]
      /\ \A x \in objects : kind'[x] = kind[x] /\ link'[x] = link[x] /\ marked'[x] = marked[x]
  BY <1>1, NewSafe
<1>7. RootedInv'
  BY <1>2, <1>4, <1>5, <1>6 DEF SafeInv, RootedInv, NoRequest
<1>8. UntracedInv'
  <2>1. \A x \in objects : kind[x] \notin {"FUNCTION", "INSTANCE"} => slots'[x] = slots[x]
    BY <1>3, <1>5
  <2> QED
    BY <1>2, <1>3, <1>6, <2>1 DEF SafeInv, UntracedInv, RootedInv
<1>9. HeapInv'
  <2>1. Kept = objects /\ Kept' = objects \cup {o}
    BY <1>2, <1>6 DEF Kept
  <2>2. \A x \in objects : slots'[x] \subseteq Kept' /\ link'[x] \subseteq Kept'
    BY <1>3, <1>6, <2>1 DEF SafeInv, HeapInv
  <2>3. slots'[o] \subseteq Kept' /\ link'[o] \subseteq Kept'
    BY <1>3, <1>5, <1>6, <2>1 DEF SafeInv, RootedInv
  <2>4. getGCRoots' \subseteq Kept'
    BY <1>2, <1>4, <1>5, <2>1 DEF getGCRoots
  <2> QED
    BY <2>1, <2>2, <2>3, <2>4 DEF HeapInv
<1>10. WorklistInv'
  BY <1>2, <1>6 DEF SafeInv, WorklistInv
<1> QED
  BY <1>2, <1>7, <1>8, <1>9, <1>10 DEF SafeInv

(* The marks are a cut: when the worklist is empty, nothing marked leads   *)
(* to anything unmarked.                                                   *)
LEMMA MarkSafe ==
    ASSUME TypeInv, MarkInv, SafeInv, maybeGC \/ MarkStep \/ MarkFreed \/ MarkDone
    PROVE  SafeInv'
<1> USE DEF heapVars, rootVars, gcVars
<1>1. CASE maybeGC
  <2>1. RootedInv' /\ UntracedInv' /\ HeapInv'
    BY <1>1 DEF maybeGC, SafeInv, RootedInv, UntracedInv, HeapInv, Kept, getGCRoots, Allocating
  <2>2. WorklistInv'
    BY <1>1, HeldKept DEF maybeGC, MarkFrom, SafeInv, WorklistInv, HeapInv, Kept
  <2> QED
    BY <1>1, <2>1, <2>2 DEF maybeGC, SafeInv
<1>2. CASE MarkStep
  <2>1. PICK o \in worklist :
          /\ worklist' = (worklist \ {o}) \cup FirstVisit(o)
          /\ marked' = [marked EXCEPT ![o] = TRUE]
    BY <1>2 DEF MarkStep
  <2>2. pc = "mark" /\ pc' = "mark"
        /\ UNCHANGED <<objects, kind, link, slots, bytesAllocated, rootVars, request, unswept>>
    BY <1>2 DEF MarkStep
  <2>3. \A x \in Obj : marked'[x] <=> x = o \/ marked[x]
    BY <2>1 DEF TypeInv, TypeOK
  <2>4. RootedInv' /\ UntracedInv' /\ HeapInv'
    BY <2>2 DEF SafeInv, RootedInv, UntracedInv, HeapInv, Kept, getGCRoots
  <2>5. WorklistInv'
    <3>1. \A x \in objects : getPointers(x) \subseteq objects
      BY <2>2 DEF getPointers, SafeInv, HeapInv, Kept
    <3>2. worklist' \subseteq objects
      BY <2>1, <2>2, <3>1 DEF FirstVisit, SafeInv, WorklistInv
    <3>3. Marked' = Marked \cup {o}
      BY <2>1, <2>3 DEF Marked, TypeInv, TypeOK
    <3>4. worklist \cup Marked \subseteq worklist' \cup Marked'
      BY <2>1, <3>3
    <3>5. getPointers(o) \subseteq worklist' \cup Marked'
      BY <2>1, <2>2, <3>4 DEF FirstVisit, SafeInv, WorklistInv
    <3>6. ASSUME NEW x \in objects, marked'[x] PROVE getPointers(x)' \subseteq worklist' \cup Marked'
      <4>1. getPointers(x)' = getPointers(x)
        BY <2>2 DEF getPointers
      <4>2. x = o \/ marked[x]
        BY <2>3, <3>6 DEF TypeInv, TypeOK
      <4> QED
        BY <2>2, <3>4, <3>5, <4>1, <4>2 DEF SafeInv, WorklistInv
    <3> QED
      BY <2>2, <3>2, <3>6 DEF WorklistInv
  <2> QED
    BY <2>2, <2>4, <2>5 DEF SafeInv
<1>3. CASE MarkFreed
  BY <1>3 DEF MarkFreed, SafeInv, WorklistInv
<1>4. CASE MarkDone
  <2>1. pc = "mark" /\ pc' = "sweep" /\ worklist = {} /\ unswept' = objects
        /\ UNCHANGED <<heapVars, rootVars, request>>
    BY <1>4 DEF MarkDone
  <2>2. RootedInv' /\ UntracedInv' /\ WorklistInv'
    BY <2>1 DEF SafeInv, RootedInv, UntracedInv, WorklistInv, Allocating
  <2>3. Kept' = {x \in objects : marked[x]}
    BY <2>1 DEF Kept
  <2>4. getGCRoots \subseteq Kept'
    BY <2>1, <2>3 DEF MarkInv, Marked, SafeInv, HeapInv, Kept
  <2>5. ASSUME NEW x \in Kept' PROVE slots[x] \subseteq Kept' /\ link[x] \subseteq Kept'
    <3>1. slots[x] \subseteq objects /\ link[x] \subseteq constantObjects
      BY <2>1, <2>3 DEF SafeInv, HeapInv, UntracedInv, Kept
    <3>2. getPointers(x) \subseteq Marked
      BY <2>1, <2>3 DEF SafeInv, WorklistInv
    <3>3. kind[x] \in {"FUNCTION", "INSTANCE"} => slots[x] \subseteq Kept'
      BY <2>3, <3>1, <3>2 DEF getPointers, Marked
    <3>4. kind[x] \notin {"FUNCTION", "INSTANCE"} => slots[x] \subseteq constantObjects
      BY <2>3 DEF SafeInv, UntracedInv
    <3> QED
      BY <2>4, <3>1, <3>3, <3>4 DEF getGCRoots
  <2>6. HeapInv'
    BY <2>1, <2>4, <2>5 DEF HeapInv, getGCRoots
  <2> QED
    BY <2>1, <2>2, <2>6 DEF SafeInv
<1> QED
  BY <1>1, <1>2, <1>3, <1>4

LEMMA SweepSafe ==
    ASSUME TypeInv, MarkInv, SafeInv, SweepKeep \/ SweepFree \/ SweepDone
    PROVE  SafeInv'
<1> USE DEF heapVars, rootVars, gcVars
<1>1. CASE SweepKeep
  <2>1. PICK o \in unswept : marked[o] /\ marked' = [marked EXCEPT ![o] = FALSE]
                            /\ unswept' = unswept \ {o}
    BY <1>1 DEF SweepKeep, ClearMark
  <2>2. pc = "sweep" /\ pc' = "sweep"
        /\ UNCHANGED <<objects, kind, link, slots, rootVars, request, worklist>>
    BY <1>1 DEF SweepKeep
  <2>3. Kept' = Kept
    BY <2>1, <2>2 DEF Kept, TypeInv, TypeOK
  <2>4. RootedInv' /\ UntracedInv' /\ WorklistInv'
    BY <2>2 DEF SafeInv, RootedInv, UntracedInv, WorklistInv
  <2>5. HeapInv'
    BY <2>2, <2>3 DEF SafeInv, HeapInv, getGCRoots
  <2> QED
    BY <2>2, <2>4, <2>5 DEF SafeInv
<1>2. CASE SweepFree
  <2>1. PICK o \in unswept :
          /\ ~marked[o] /\ objects' = objects \ {o} /\ unswept' = unswept \ {o}
          /\ kind' = [kind EXCEPT ![o] = "NONE"]
          /\ link' = [link EXCEPT ![o] = {}]
          /\ slots' = [slots EXCEPT ![o] = {}]
    BY <1>2 DEF SweepFree
  <2>2. pc = "sweep" /\ pc' = "sweep" /\ UNCHANGED <<marked, rootVars, request, worklist>>
    BY <1>2 DEF SweepFree
  <2>3. Kept' = Kept /\ o \notin Kept
    BY <2>1, <2>2 DEF Kept
  <2>4. \A x \in Obj : x # o => kind'[x] = kind[x] /\ link'[x] = link[x] /\ slots'[x] = slots[x]
    BY <2>1 DEF TypeInv, TypeOK
  <2>5. Kept \subseteq Obj /\ frames \subseteq Kept /\ stack \subseteq Kept /\ constantObjects \subseteq Kept
    BY HeldKept DEF TypeInv, TypeOK, Kept
  <2>6. RootedInv'
    BY <2>2, <2>3, <2>4, <2>5 DEF SafeInv, RootedInv
  <2>7. UntracedInv'
    BY <2>1, <2>2, <2>4 DEF SafeInv, UntracedInv, TypeInv, TypeOK
  <2>8. HeapInv'
    BY <2>2, <2>3, <2>4, <2>5 DEF SafeInv, HeapInv, getGCRoots
  <2>9. WorklistInv'
    BY <2>2 DEF SafeInv, WorklistInv
  <2> QED
    BY <2>2, <2>6, <2>7, <2>8, <2>9 DEF SafeInv
<1>3. CASE SweepDone
  <2>1. pc = "sweep" /\ pc' = "alloc" /\ unswept = {} /\ UNCHANGED <<heapVars, rootVars, gcVars>>
    BY <1>3 DEF SweepDone
  <2>2. Kept = objects /\ Kept' = objects
    BY <2>1 DEF Kept
  <2>3. RootedInv' /\ UntracedInv'
    BY <2>1 DEF SafeInv, RootedInv, UntracedInv, Allocating
  <2>4. HeapInv'
    BY <2>1, <2>2 DEF SafeInv, HeapInv, getGCRoots
  <2>5. WorklistInv'
    BY <2>1 DEF WorklistInv, MarkInv, SweepClearsMarks
  <2> QED
    BY <2>1, <2>3, <2>4, <2>5 DEF SafeInv
<1> QED
  BY <1>1, <1>2, <1>3

LEMMA EndSafe ==
    ASSUME TypeInv, SafeInv, Cleanup \/ CleanupDelete \/ CleanupDone \/ Die
    PROVE  SafeInv'
<1> USE DEF heapVars, rootVars, gcVars
<1>1. CASE Cleanup \/ CleanupDelete
  BY <1>1 DEF Cleanup, CleanupDelete, SafeInv, RootedInv, UntracedInv, HeapInv, WorklistInv, Kept,
              getGCRoots, Allocating
<1>2. CASE CleanupDone
  BY <1>2 DEF CleanupDone, SafeInv, RootedInv, UntracedInv, HeapInv, WorklistInv, Kept,
              getGCRoots, Allocating, NoRequest
<1>3. CASE Die
  BY <1>3 DEF Die, SafeInv, RootedInv, UntracedInv, HeapInv, WorklistInv, Kept, getGCRoots, Allocating
<1> QED
  BY <1>1, <1>2, <1>3

LEMMA NextSafeInv ==
    ASSUME Disciplined, TypeInv, MarkInv, SafeInv, [Next]_vars
    PROVE  SafeInv'
<1> USE DEF heapVars, rootVars, gcVars
<1>1. CASE BeginExec \/ Compile
  BY <1>1, BeginExecSafe, CompileSafe
<1>2. CASE StartEval
  BY <1>2, HeldKept, RootsMoveSafe DEF StartEval, SafeInv, RootedInv, Kept
<1>3. CASE Halt
  BY <1>3, HeldKept, RootsMoveSafe DEF Halt, SafeInv, RootedInv, Kept
<1>4. CASE Cleanup \/ CleanupDelete \/ CleanupDone \/ Die
  BY <1>4, EndSafe
<1>5. CASE Move
  BY <1>5, MoveSafe
<1>6. CASE UseFreed
  BY <1>6, HeldKept, PushableSafe DEF UseFreed, Used, Kept
<1>7. CASE AskMemory \/ Allocate
  BY <1>7, AskSafe, AllocateSafe
<1>8. CASE maybeGC \/ MarkStep \/ MarkFreed \/ MarkDone
  BY <1>8, MarkSafe
<1>9. CASE SweepKeep \/ SweepFree \/ SweepDone
  BY <1>9, SweepSafe
<1>10. CASE UNCHANGED vars
  BY <1>10 DEF vars, SafeInv, RootedInv, UntracedInv, HeapInv, WorklistInv, Kept, getGCRoots,
               getPointers, Marked
<1> QED
  BY <1>1, <1>2, <1>3, <1>4, <1>5, <1>6, <1>7, <1>8, <1>9, <1>10 DEF Next, Collect

LEMMA InitSafeInv == Disciplined /\ Init => SafeInv
<1> SUFFICES ASSUME Disciplined, Init PROVE SafeInv
  OBVIOUS
<1>1. \A o \in objects : ~marked[o]
  BY ConstantsAssumption DEF Init, Disciplined
<1>2. RootedInv
  BY DEF Init, RootedInv, NoRequest
<1>3. UntracedInv /\ HeapInv
  BY ConstantsAssumption DEF Init, UntracedInv, HeapInv, Kept, getGCRoots
<1> QED
  BY <1>1, <1>2, <1>3 DEF Init, SafeInv, WorklistInv

LEMMA InductiveSafeInv == Disciplined => (Spec => [](TypeInv /\ MarkInv /\ SafeInv))
<1> SUFFICES ASSUME Disciplined PROVE Spec => [](TypeInv /\ MarkInv /\ SafeInv)
  OBVIOUS
<1>1. Init => SafeInv
  BY InitSafeInv
<1>2. TypeInv /\ MarkInv /\ SafeInv /\ [Next]_vars => SafeInv'
  BY NextSafeInv
<1> QED
  BY InductiveMarkInv, <1>1, <1>2, PTL DEF Spec

-----------------------------------------------------------------------------
(* Reachability. *)

LEMMA ReachLeast ==
    ASSUME NEW R, NEW edges, NEW S \in SUBSET Obj, R \subseteq S, Heap!IsClosed(S, edges)
    PROVE  Heap!ReachableFrom(R, edges) \subseteq S
  BY DEF Heap!ReachableFrom

(* No program that keeps to the rules can follow a reference to freed      *)
(* memory.                                                                 *)
THEOREM MemorySafe == Disciplined => (Spec => []NoDangling)
<1>1. TypeInv /\ SafeInv => NoDangling
  <2> SUFFICES ASSUME TypeInv, SafeInv PROVE NoDangling
    OBVIOUS
  <2>1. Kept \in SUBSET Obj /\ Held \subseteq Kept
    BY HeldKept DEF TypeInv, TypeOK, Kept
  <2>2. Heap!IsClosed(Kept, Fields)
    BY <2>1 DEF Heap!IsClosed, Fields, SafeInv, HeapInv
  <2>3. Heap!ReachableFrom(Held, Fields) \subseteq Kept
    BY <2>1, <2>2, ReachLeast
  <2> QED
    BY <2>3, HeldKept DEF NoDangling, Heap!NoDangling, Heap!Reach
<1> QED
  BY <1>1, InductiveSafeInv, PTL

LEMMA ReachClosed ==
    ASSUME NEW R \in SUBSET Obj, NEW edges \in [Obj -> SUBSET Obj]
    PROVE  /\ R \subseteq Heap!ReachableFrom(R, edges)
           /\ Heap!ReachableFrom(R, edges) \subseteq Obj
           /\ Heap!IsClosed(Heap!ReachableFrom(R, edges), edges)
<1> DEFINE Reach == Heap!ReachableFrom(R, edges)
<1>1. R \subseteq Reach /\ Reach \subseteq Obj
  BY DEF Heap!ReachableFrom
<1>2. ASSUME NEW x \in Reach, NEW y \in edges[x] PROVE y \in Reach
  <2>1. y \in Obj
    BY <1>1
  <2>2. ASSUME NEW S \in SUBSET Obj, R \subseteq S, Heap!IsClosed(S, edges) PROVE y \in S
    <3>1. x \in S
      BY <2>2, ReachLeast
    <3> QED
      BY <2>2, <3>1 DEF Heap!IsClosed
  <2> QED
    BY <2>1, <2>2 DEF Heap!ReachableFrom
<1> QED
  BY <1>1, <1>2 DEF Heap!IsClosed

Edges == [o \in Obj |-> getPointers(o)]

LEMMA TracedFacts ==
    ASSUME TypeInv
    PROVE  /\ Edges \in [Obj -> SUBSET Obj]
           /\ getGCRoots \subseteq Traced
           /\ Traced \subseteq Obj
           /\ \A x \in Traced : getPointers(x) \subseteq Traced
<1>1. Edges \in [Obj -> SUBSET Obj] /\ getGCRoots \in SUBSET Obj
  BY DEF Edges, getPointers, getGCRoots, TypeInv, TypeOK
<1>2. Traced = Heap!ReachableFrom(getGCRoots, Edges)
  BY DEF Traced, Edges
<1>3. /\ getGCRoots \subseteq Traced /\ Traced \subseteq Obj
      /\ Heap!IsClosed(Traced, Edges)
  BY <1>1, <1>2, ReachClosed
<1> QED
  BY <1>1, <1>3 DEF Heap!IsClosed, Edges

(* Any closed set of addresses that holds the roots holds what is traced.  *)
LEMMA TracedLeast ==
    ASSUME NEW S \in SUBSET Obj, getGCRoots \subseteq S, \A x \in S : getPointers(x) \subseteq S
    PROVE  Traced \subseteq S
<1>1. Heap!IsClosed(S, Edges)
  BY DEF Heap!IsClosed, Edges
<1> QED
  BY <1>1, ReachLeast DEF Traced, Edges

-----------------------------------------------------------------------------
(* Exactness: what the marking reached is what the roots lead to.          *)

Running == {"compile", "eval", "mem", "mark", "sweep", "alloc"}

LEMMA ConstantsStay ==
    ASSUME [Next]_vars
    PROVE  /\ constantObjects \subseteq constantObjects' \/ pc' = "closed"
           /\ pc \notin Running /\ pc' \in Running => BeginExec
           /\ pc \notin Waiting /\ pc' = "alloc" => UNCHANGED vars
<1> USE DEF heapVars, rootVars, gcVars, Running, Waiting
<1>1. BeginExec => constantObjects \subseteq constantObjects' /\ pc' = "compile"
  BY DEF BeginExec
<1>2. Compile => constantObjects \subseteq constantObjects' /\ pc = "compile" /\ pc' = "compile"
  <2>1. CompileLeaf => constantObjects \subseteq constantObjects' /\ pc = "compile" /\ pc' = "compile"
    BY DEF CompileLeaf, CompileObject
  <2>2. CompileFunction => constantObjects \subseteq constantObjects' /\ pc = "compile" /\ pc' = "compile"
    BY DEF CompileFunction, CompileObject
  <2>3. CompileClass => constantObjects \subseteq constantObjects' /\ pc = "compile" /\ pc' = "compile"
    BY DEF CompileClass, CompileObject
  <2>4. CompileReference => constantObjects \subseteq constantObjects' /\ pc = "compile" /\ pc' = "compile"
    BY DEF CompileReference
  <2> QED
    BY <2>1, <2>2, <2>3, <2>4 DEF Compile
<1>3. StartEval \/ Halt \/ UseFreed \/ Allocate \/ Die
        => constantObjects' = constantObjects /\ pc \in Running /\ pc' # "alloc"
  BY DEF StartEval, Halt, UseFreed, Allocate, Die
<1>4. Cleanup \/ CleanupDelete => constantObjects' = constantObjects /\ pc' = "cleanup"
  BY DEF Cleanup, CleanupDelete
<1>5. CleanupDone => pc' = "closed"
  BY DEF CleanupDone
<1>6. Move => constantObjects' = constantObjects /\ pc = "eval" /\ pc' = "eval"
  <2>1. Push \/ Drop \/ SetGlobal => constantObjects' = constantObjects /\ pc = "eval" /\ pc' = "eval"
    BY DEF Push, Drop, SetGlobal
  <2>2. SetProp \/ SetCell => constantObjects' = constantObjects /\ pc = "eval" /\ pc' = "eval"
    BY DEF SetProp, SetCell
  <2>3. Call \/ Return => constantObjects' = constantObjects /\ pc = "eval" /\ pc' = "eval"
    BY DEF Call, Return
  <2> QED
    BY <2>1, <2>2, <2>3 DEF Move
<1>7. AskMemory => constantObjects' = constantObjects /\ pc = "eval" /\ pc' = "mem"
  BY DEF AskMemory, AskString, AskCell, AskFunction, AskInstance, Ask
<1>8. maybeGC \/ Collect => constantObjects' = constantObjects /\ pc \in Waiting
  BY DEF maybeGC, Collect, MarkStep, MarkFreed, MarkDone, SweepKeep, SweepFree, SweepDone
<1>9. UNCHANGED vars => constantObjects' = constantObjects /\ pc' = pc
  BY DEF vars
<1> QED
  BY <1>1, <1>2, <1>3, <1>4, <1>5, <1>6, <1>7, <1>8, <1>9 DEF Next

ExactInv ==
    /\ pc \in Running => constantObjects # {}
    /\ pc = "mark" => worklist \subseteq Traced /\ \A o \in objects : marked[o] => o \in Traced
    /\ pc = "sweep" => Kept \subseteq Traced
    /\ GarbageBounded

LEMMA KeptTraced ==
    ASSUME TypeInv, SafeInv
    PROVE  Traced \subseteq Kept
<1>1. Kept \in SUBSET Obj /\ getGCRoots \subseteq Kept
  BY HeldKept DEF TypeInv, TypeOK, SafeInv, HeapInv
<1>2. \A x \in Kept : getPointers(x) \subseteq Kept
  BY DEF getPointers, SafeInv, HeapInv
<1> QED
  BY <1>1, <1>2, TracedLeast

LEMMA NextExactInv ==
    ASSUME Disciplined, TypeInv, MarkInv, SafeInv, ExactInv, [Next]_vars
    PROVE  ExactInv'
<1> USE DEF heapVars, rootVars, gcVars
<1>1. pc' \in Running => constantObjects' # {}
  BY ConstantsStay DEF ExactInv, BeginExec, Running
<1>2. CASE maybeGC
  <2>1. Traced' = Traced
    BY <1>2 DEF maybeGC, Traced, getGCRoots, getPointers
  <2> QED
    BY <1>1, <1>2, <2>1, TracedFacts DEF maybeGC, MarkFrom, SkipGC, getGCRoots, ExactInv, Running,
       SafeInv, WorklistInv, GarbageBounded
<1>3. CASE MarkStep
  <2>1. Traced' = Traced
    BY <1>3 DEF MarkStep, Traced, getGCRoots, getPointers
  <2>2. PICK o \in worklist :
          /\ worklist' = (worklist \ {o}) \cup FirstVisit(o)
          /\ marked' = [marked EXCEPT ![o] = TRUE]
    BY <1>3 DEF MarkStep
  <2>3. pc = "mark" /\ pc' = "mark" /\ objects' = objects
    BY <1>3 DEF MarkStep
  <2>4. worklist' \subseteq Traced
    BY <2>2, <2>3, TracedFacts DEF ExactInv, FirstVisit
  <2>5. \A x \in objects : marked'[x] => x = o \/ marked[x]
    BY <2>2 DEF TypeInv, TypeOK
  <2> QED
    BY <1>1, <2>1, <2>2, <2>3, <2>4, <2>5 DEF ExactInv, GarbageBounded
<1>4. CASE MarkFreed
  BY <1>1, <1>4 DEF MarkFreed, ExactInv, GarbageBounded
<1>5. CASE MarkDone
  <2>1. Traced' = Traced
    BY <1>5 DEF MarkDone, Traced, getGCRoots, getPointers
  <2> QED
    BY <1>1, <1>5, <2>1 DEF MarkDone, ExactInv, GarbageBounded, Kept
<1>6. CASE SweepKeep
  <2>1. Traced' = Traced /\ pc = "sweep" /\ pc' = "sweep"
    BY <1>6 DEF SweepKeep, Traced, getGCRoots, getPointers
  <2>2. Kept' \subseteq Kept
    BY <1>6 DEF SweepKeep, ClearMark, Kept, TypeInv, TypeOK
  <2> QED
    BY <1>1, <2>1, <2>2 DEF ExactInv, GarbageBounded
<1>7. CASE SweepFree
  <2>1. PICK o \in unswept :
          /\ ~marked[o] /\ objects' = objects \ {o} /\ unswept' = unswept \ {o}
          /\ kind' = [kind EXCEPT ![o] = "NONE"] /\ slots' = [slots EXCEPT ![o] = {}]
    BY <1>7 DEF SweepFree
  <2>2. pc = "sweep" /\ pc' = "sweep" /\ marked' = marked /\ getGCRoots' = getGCRoots
    BY <1>7 DEF SweepFree, getGCRoots
  <2>3. Kept' = Kept /\ o \notin Kept /\ Kept \subseteq Obj
    BY <2>1, <2>2 DEF Kept, TypeInv, TypeOK
  <2>4. \A x \in Kept : getPointers(x)' = getPointers(x)
    BY <2>1, <2>3 DEF getPointers, TypeInv, TypeOK
  <2>5. TypeInv'
    BY NextTypeInv
  <2>6. getGCRoots \subseteq Traced' /\ \A x \in Traced' : getPointers(x)' \subseteq Traced'
    <3>1. (getGCRoots \subseteq Traced /\ \A x \in Traced : getPointers(x) \subseteq Traced)'
      BY <2>5, TracedFacts, PTL
    <3> QED
      BY <2>2, <3>1
  <2>7. Traced \subseteq Traced' \cap Kept
    <3>1. getGCRoots \subseteq Kept /\ \A x \in Kept : getPointers(x) \subseteq Kept
      BY DEF getPointers, SafeInv, HeapInv
    <3>2. \A x \in Traced' \cap Kept : getPointers(x) \subseteq Traced' \cap Kept
      BY <2>4, <2>6, <3>1
    <3> QED
      BY <2>3, <2>6, <3>1, <3>2, TracedLeast
  <2> QED
    BY <1>1, <2>2, <2>3, <2>7 DEF ExactInv, GarbageBounded
<1>8. CASE SweepDone
  <2>1. Traced' = Traced /\ pc = "sweep" /\ pc' = "alloc" /\ objects' = objects /\ unswept = {}
    BY <1>8 DEF SweepDone, Traced, getGCRoots, getPointers
  <2>2. objects = Traced
    BY <2>1, KeptTraced DEF ExactInv, Kept
  <2> QED
    BY <1>1, <2>1, <2>2 DEF ExactInv, GarbageBounded
<1>9. CASE UNCHANGED vars
  <2>1. Traced' = Traced
    BY <1>9 DEF vars, Traced, getGCRoots, getPointers
  <2> QED
    BY <1>9, <2>1 DEF vars, ExactInv, GarbageBounded, Kept
<1>10. CASE pc \notin Waiting /\ ~UNCHANGED vars
  BY <1>1, <1>10, ControlFlow, ConstantsStay DEF ExactInv, GarbageBounded
<1> QED
  BY <1>2, <1>3, <1>4, <1>5, <1>6, <1>7, <1>8, <1>9, <1>10, ControlFlow DEF Waiting

LEMMA InductiveExactInv ==
    Disciplined => (Spec => [](TypeInv /\ SafeInv /\ ExactInv))
<1> SUFFICES ASSUME Disciplined PROVE Spec => [](TypeInv /\ SafeInv /\ ExactInv)
  OBVIOUS
<1>1. Init => ExactInv
  BY DEF Init, ExactInv, Running, GarbageBounded
<1>2. TypeInv /\ MarkInv /\ SafeInv /\ ExactInv /\ [Next]_vars => ExactInv'
  BY NextExactInv
<1> QED
  BY InductiveSafeInv, <1>1, <1>2, PTL DEF Spec

(* sweep() leaves the objects the roots lead to, all of them and no other. *)
THEOREM SweepExact == Disciplined => (Spec => []CollectionExact)
<1>1. TypeInv /\ SafeInv /\ ExactInv => CollectionExact
  BY KeptTraced DEF ExactInv, CollectionExact, Kept
<1> QED
  BY InductiveExactInv, <1>1, PTL

(* Above the threshold an object is allocated only among live objects.     *)
THEOREM MemoryBounded == Disciplined => (Spec => []GarbageBounded)
<1>1. ExactInv => GarbageBounded
  BY DEF ExactInv
<1> QED
  BY InductiveExactInv, <1>1, PTL

-----------------------------------------------------------------------------
(* The collector implements the heap's promise (EvaHeap), for every heap     *)
(* size, threshold and set of programs that keeps to the three rules above.  *)
(* The abstract roots are what the thread holds, the abstract fields what an *)
(* object in memory refers to.                                               *)

Reachable == Heap!ReachableFrom(Held, Fields)

(* What a step may refer to: what was reachable, and what it allocated.      *)
Known == Reachable \cup (objects' \ objects)

LEMMA HeapTypes == TypeInv => Heap!TypeOK
  BY DEF TypeInv, TypeOK, Heap!TypeOK, Held, getGCRoots, Fields, Request

LEMMA ReachableFacts ==
    ASSUME TypeInv
    PROVE  /\ Held \subseteq Reachable /\ Reachable \subseteq Obj
           /\ \A x \in Reachable : slots[x] \subseteq Reachable /\ link[x] \subseteq Reachable
<1>1. Held \in SUBSET Obj /\ Fields \in [Obj -> SUBSET Obj]
  BY HeapTypes DEF Heap!TypeOK
<1>2. /\ Held \subseteq Reachable /\ Reachable \subseteq Obj
      /\ Heap!IsClosed(Reachable, Fields)
  BY <1>1, ReachClosed DEF Reachable
<1> QED
  BY <1>2 DEF Heap!IsClosed, Fields

(* Whatever the program can reach, a running sweep has kept. *)
LEMMA ReachableKept ==
    ASSUME TypeInv, SafeInv
    PROVE  Reachable \subseteq Kept /\ Kept \subseteq objects
<1>1. Kept \in SUBSET Obj /\ Held \subseteq Kept /\ Kept \subseteq objects
  BY HeldKept DEF TypeInv, TypeOK, Kept
<1>2. Heap!IsClosed(Kept, Fields)
  BY <1>1 DEF Heap!IsClosed, Fields, SafeInv, HeapInv
<1> QED
  BY <1>1, <1>2, ReachLeast DEF Reachable

(* The thread's own references are reachable. *)
LEMMA HeldReachable ==
    ASSUME TypeInv
    PROVE  /\ stack \subseteq Reachable /\ frames \subseteq Reachable
           /\ globals \subseteq Reachable /\ constantObjects \subseteq Reachable
           /\ request.link \subseteq Reachable /\ request.slots \subseteq Reachable
           /\ request.owner \subseteq Reachable
  BY ReachableFacts DEF Held, getGCRoots

(* A step whose references, in the thread and in memory, are all to objects  *)
(* it could reach or has just allocated, is a step of the abstract program.  *)
LEMMA StepMutates ==
    ASSUME TypeInv, TypeInv', objects \subseteq objects', Held' \subseteq Known,
           \A x \in Known : slots'[x] \subseteq Known /\ link'[x] \subseteq Known
    PROVE  Heap!Mutate
<1>1. Heap!TypeOK'
  BY HeapTypes, PTL
<1>2. Known \in SUBSET Obj
  BY ReachableFacts DEF Known, TypeInv, TypeOK
<1>3. Heap!IsClosed(Known, Fields')
  BY <1>2 DEF Heap!IsClosed, Fields
<1>4. Heap!ReachableFrom(Held', Fields') \subseteq Known
  BY <1>2, <1>3, ReachLeast
<1> QED
  BY <1>1, <1>4 DEF Heap!Mutate, Heap!Reach, Known, Reachable

(* The same, when the step writes no field. *)
LEMMA RootsMutate ==
    ASSUME TypeInv, TypeInv', UNCHANGED <<objects, slots, link>>, Held' \subseteq Reachable
    PROVE  Heap!Mutate
  BY StepMutates, ReachableFacts DEF Known

(* The same, when the step writes the fields of one object. *)
LEMMA WriteMutates ==
    ASSUME TypeInv, TypeInv', UNCHANGED <<objects, link>>, Held' \subseteq Reachable,
           NEW w, NEW S \in SUBSET Reachable, slots' = [slots EXCEPT ![w] = S]
    PROVE  Heap!Mutate
<1>1. Known = Reachable
  BY DEF Known
<1>2. \A x \in Reachable : slots'[x] \subseteq Reachable
  BY ReachableFacts DEF TypeInv, TypeOK
<1> QED
  BY <1>1, <1>2, StepMutates, ReachableFacts

LEMMA CompileMutates ==
    ASSUME TypeInv, TypeInv', NEW o, NEW k, NEW l \in SUBSET constantObjects,
           CompileObject(o, k, l), globals' \subseteq globals \cup {o},
           UNCHANGED <<stack, frames, gcVars>>
    PROVE  Heap!Mutate
<1>1. /\ o \in Obj \ objects /\ objects' = objects \cup {o}
      /\ link' = [link EXCEPT ![o] = l] /\ slots' = [slots EXCEPT ![o] = {}]
      /\ constantObjects' = constantObjects \cup {o}
  BY DEF CompileObject, New
<1>2. Known = Reachable \cup {o}
  BY <1>1 DEF Known
<1>3. Held' \subseteq Known
  BY <1>1, <1>2, ReachableFacts DEF Held, getGCRoots, gcVars
<1>4. \A x \in Known : slots'[x] \subseteq Known /\ link'[x] \subseteq Known
  BY <1>1, <1>2, ReachableFacts, HeldReachable DEF TypeInv, TypeOK
<1> QED
  BY <1>1, <1>3, <1>4, StepMutates

LEMMA BeginMutates ==
    ASSUME TypeInv, TypeInv', BeginExec
    PROVE  Heap!Mutate
<1>1. PICK co \in Obj \ objects : \E main \in Obj \ (objects \cup {co}) :
        /\ objects' = objects \cup {co, main}
        /\ link' = [link EXCEPT ![co] = {}, ![main] = {co}]
        /\ slots' = [slots EXCEPT ![co] = {}, ![main] = {}]
        /\ constantObjects' = constantObjects \cup {co, main}
        /\ frames' = {main}
  BY DEF BeginExec
<1>2. PICK main \in Obj \ (objects \cup {co}) :
        /\ objects' = objects \cup {co, main}
        /\ link' = [link EXCEPT ![co] = {}, ![main] = {co}]
        /\ slots' = [slots EXCEPT ![co] = {}, ![main] = {}]
        /\ constantObjects' = constantObjects \cup {co, main}
        /\ frames' = {main}
  BY <1>1
<1>3. UNCHANGED <<stack, globals, request>>
  BY DEF BeginExec, gcVars
<1>4. Known = Reachable \cup {co, main}
  BY <1>2 DEF Known
<1>5. Held' \subseteq Known
  BY <1>2, <1>3, <1>4, HeldReachable DEF Held, getGCRoots
<1>6. \A x \in Known : slots'[x] \subseteq Known /\ link'[x] \subseteq Known
  BY <1>2, <1>4, ReachableFacts DEF TypeInv, TypeOK
<1> QED
  BY <1>2, <1>5, <1>6, StepMutates

(* What an instruction pushes was reachable: it follows at most two fields   *)
(* from a root.                                                              *)
LEMMA PushableReachable == TypeInv => Pushable \subseteq Reachable /\ Cells \subseteq Reachable
<1> SUFFICES ASSUME TypeInv PROVE Pushable \subseteq Reachable /\ Cells \subseteq Reachable
  OBVIOUS
<1>1. Cells \subseteq Reachable
  BY ReachableFacts, HeldReachable DEF Cells
<1>2. (UNION {slots[c] : c \in Cells}) \subseteq Reachable
  BY <1>1, ReachableFacts
<1>3. (UNION {slots[i] : i \in {o \in stack : kind[o] = "INSTANCE"}}) \subseteq Reachable
  BY ReachableFacts, HeldReachable
<1> QED
  BY <1>1, <1>2, <1>3, HeldReachable DEF Pushable, getGCRoots

LEMMA MoveMutates ==
    ASSUME TypeInv, TypeInv', Move
    PROVE  Heap!Mutate
<1> USE DEF heapVars, rootVars, gcVars
<1>a. ASSUME UNCHANGED request, stack' \subseteq Reachable, frames' \subseteq Reachable,
             globals' \subseteq Reachable, constantObjects' = constantObjects
      PROVE  Held' \subseteq Reachable
  BY <1>a, HeldReachable DEF Held, getGCRoots
<1>1. CASE Push
  BY <1>1, <1>a, PushableReachable, HeldReachable, RootsMutate DEF Push
<1>2. CASE Drop
  BY <1>2, <1>a, HeldReachable, RootsMutate DEF Drop
<1>3. CASE SetGlobal
  BY <1>3, <1>a, HeldReachable, RootsMutate DEF SetGlobal
<1>4. CASE Return
  BY <1>4, <1>a, HeldReachable, RootsMutate DEF Return
<1>5. CASE SetProp
  <2>1. PICK i \in {o \in stack \cap objects : kind[o] = "INSTANCE"} :
          \E new \in {{}} \cup {{v} : v \in stack}, old \in {{}} \cup {{p} : p \in slots[i]} :
            slots' = [slots EXCEPT ![i] = (slots[i] \ old) \cup new]
    BY <1>5 DEF SetProp
  <2>2. PICK new \in {{}} \cup {{v} : v \in stack}, old \in {{}} \cup {{p} : p \in slots[i]} :
            slots' = [slots EXCEPT ![i] = (slots[i] \ old) \cup new]
    BY <2>1
  <2>3. (slots[i] \ old) \cup new \in SUBSET Reachable
    BY ReachableFacts, HeldReachable
  <2> QED
    BY <1>5, <1>a, <2>2, <2>3, HeldReachable, WriteMutates DEF SetProp
<1>6. CASE SetCell
  <2>1. PICK c \in Obj, value \in Capturable : slots' = [slots EXCEPT ![c] = value]
    BY <1>6 DEF SetCell, TypeInv, TypeOK
  <2>2. value \in SUBSET Reachable
    BY HeldReachable DEF Capturable
  <2> QED
    BY <1>6, <1>a, <2>1, <2>2, HeldReachable, WriteMutates DEF SetCell
<1>7. CASE Call
  <2>1. PICK f \in stack : \E kept \in SUBSET slots[f] :
          slots' = [slots EXCEPT ![f] = kept] /\ frames' = frames \cup {f}
    BY <1>7 DEF Call
  <2>2. PICK kept \in SUBSET slots[f] : slots' = [slots EXCEPT ![f] = kept] /\ frames' = frames \cup {f}
    BY <2>1
  <2>3. kept \in SUBSET Reachable /\ frames' \subseteq Reachable
    BY <2>2, ReachableFacts, HeldReachable
  <2> QED
    BY <1>7, <1>a, <2>2, <2>3, HeldReachable, WriteMutates DEF Call
<1> QED
  BY <1>1, <1>2, <1>3, <1>4, <1>5, <1>6, <1>7 DEF Move

(* A MEM(...) expression moves references from the operand stack to C++      *)
(* locals, where the collector does not see them.                            *)
LEMMA AskMutates ==
    ASSUME TypeInv, TypeInv', AskMemory
    PROVE  Heap!Mutate
<1> USE DEF heapVars, rootVars
<1>1. ASSUME NEW r, Ask(r), r.link \subseteq Reachable, r.slots \subseteq Reachable,
             r.owner \subseteq Reachable
      PROVE  Heap!Mutate
  <2>1. Held' \subseteq Reachable
    BY <1>1, HeldReachable DEF Ask, Held, getGCRoots
  <2> QED
    BY <1>1, <2>1, RootsMutate DEF Ask
<1>2. CASE AskString
  BY <1>1, <1>2 DEF AskString, NoRequest
<1>3. CASE AskCell
  <2>1. PICK f \in frames, value \in Capturable :
          Ask([kind |-> "CELL", link |-> {}, slots |-> value, owner |-> {f}])
    BY <1>3 DEF AskCell
  <2>2. value \subseteq Reachable
    BY HeldReachable DEF Capturable
  <2> QED
    BY <1>1, <2>1, <2>2, HeldReachable
<1>4. CASE AskFunction
  <2>1. PICK co \in constantObjects, cells \in SUBSET stack :
          Ask([kind |-> "FUNCTION", link |-> {co}, slots |-> cells, owner |-> {}])
    BY <1>4 DEF AskFunction, Constants
  <2> QED
    BY <1>1, <2>1, HeldReachable
<1>5. CASE AskInstance
  BY <1>1, <1>5, HeldReachable DEF AskInstance, Constants
<1> QED
  BY <1>2, <1>3, <1>4, <1>5 DEF AskMemory

LEMMA AllocateMutates ==
    ASSUME TypeInv, TypeInv', Allocate
    PROVE  Heap!Mutate
<1>1. PICK o \in Obj \ objects :
        /\ objects' = objects \cup {o}
        /\ link' = [link EXCEPT ![o] = request.link]
        /\ slots' = [x \in Obj |-> IF x = o THEN request.slots
                                   ELSE IF x \in request.owner THEN slots[x] \cup {o}
                                   ELSE slots[x]]
        /\ stack' = CASE request.kind = "CELL" -> stack
                      [] request.kind = "FUNCTION" -> (stack \ request.slots) \cup {o}
                      [] OTHER -> stack \cup {o}
  BY DEF Allocate, New
<1>2. request' = NoRequest /\ UNCHANGED <<frames, globals, constantObjects>>
  BY DEF Allocate
<1>3. Known = Reachable \cup {o}
  BY <1>1 DEF Known
<1>4. stack' \subseteq Known
  BY <1>1, <1>3, HeldReachable
<1>5. Held' \subseteq Known
  BY <1>2, <1>3, <1>4, HeldReachable DEF Held, getGCRoots, NoRequest
<1>6. \A x \in Known : slots'[x] \subseteq Known /\ link'[x] \subseteq Known
  BY <1>1, <1>3, ReachableFacts, HeldReachable DEF TypeInv, TypeOK
<1> QED
  BY <1>1, <1>5, <1>6, StepMutates

LEMMA CompilingMutates ==
    ASSUME TypeInv, TypeInv', Compile
    PROVE  Heap!Mutate
<1>1. CASE CompileLeaf
  <2>1. PICK o \in Obj, k \in {"CODE", "STRING"} : CompileObject(o, k, {})
    BY <1>1 DEF CompileLeaf
  <2> QED
    BY <1>1, <2>1, CompileMutates DEF CompileLeaf
<1>2. CASE CompileFunction
  <2>1. PICK o \in Obj, co \in Constants("CODE") : CompileObject(o, "FUNCTION", {co})
    BY <1>2 DEF CompileFunction
  <2>2. {co} \in SUBSET constantObjects
    BY DEF Constants
  <2> QED
    BY <1>2, <2>1, <2>2, CompileMutates DEF CompileFunction
<1>3. CASE CompileClass
  <2>1. PICK o \in Obj, super \in {{}} \cup {{c} : c \in Constants("CLASS")} :
          CompileObject(o, "CLASS", super) /\ globals' = globals \cup {o}
    BY <1>3 DEF CompileClass
  <2>2. super \in SUBSET constantObjects
    BY DEF Constants
  <2> QED
    BY <1>3, <2>1, <2>2, CompileMutates DEF CompileClass
<1>4. CASE CompileReference
  <2> USE DEF rootVars, gcVars
  <2>1. PICK c, d \in constantObjects : link' = [link EXCEPT ![c] = @ \cup {d}]
    BY <1>4 DEF CompileReference, Constants
  <2>2. \A x \in Obj : link'[x] \subseteq link[x] \cup {d}
    BY <2>1 DEF TypeInv, TypeOK
  <2>3. UNCHANGED <<objects, slots, Held>>
    BY <1>4 DEF CompileReference, Held, getGCRoots
  <2>4. Known = Reachable
    BY <2>3 DEF Known
  <2> QED
    BY <2>2, <2>3, <2>4, ReachableFacts, HeldReachable, StepMutates
<1> QED
  BY <1>1, <1>2, <1>3, <1>4 DEF Compile

(* sweep() gives back an unmarked object: nothing kept leads to it.          *)
LEMMA SweepFrees ==
    ASSUME TypeInv, SafeInv, SweepFree
    PROVE  Heap!Free
<1>1. PICK o \in unswept :
        /\ ~marked[o] /\ objects' = objects \ {o}
        /\ link' = [link EXCEPT ![o] = {}] /\ slots' = [slots EXCEPT ![o] = {}]
  BY DEF SweepFree
<1>2. pc = "sweep" /\ UNCHANGED Held
  BY DEF SweepFree, rootVars, Held, getGCRoots
<1>3. o \in objects /\ o \in Obj /\ o \notin Kept
  BY <1>1, <1>2 DEF Kept, TypeInv, TypeOK
<1>4. o \notin Heap!Reach
  BY <1>3, ReachableKept DEF Heap!Reach, Reachable
<1>5. Fields' = [Fields EXCEPT ![o] = {}]
  BY <1>1, <1>3 DEF Fields, TypeInv, TypeOK
<1> QED
  BY <1>1, <1>2, <1>3, <1>4, <1>5 DEF Heap!Free

(* ~EvaVM: the program is over and everything is given back.                 *)
LEMMA CleanupCloses ==
    ASSUME TypeInv, SafeInv, CleanupDone
    PROVE  Heap!Close
<1>1. request = NoRequest /\ request' = NoRequest
  BY DEF CleanupDone, SafeInv, RootedInv, Allocating, gcVars
<1>2. Held' = {}
  BY <1>1 DEF CleanupDone, Held, getGCRoots, NoRequest
<1>3. Fields' = Fields
  BY DEF CleanupDone, Fields
<1> QED
  BY <1>2, <1>3 DEF CleanupDone, Heap!Close

(* Steps the abstract heap does not see: the collector at work, and ends.    *)
LEMMA HeapStutters ==
    ASSUME \/ Cleanup \/ CleanupDelete \/ UseFreed \/ maybeGC \/ Die
           \/ MarkStep \/ MarkFreed \/ MarkDone \/ SweepKeep \/ SweepDone
           \/ UNCHANGED vars
    PROVE  UNCHANGED Heap!vars
<1> USE DEF heapVars, rootVars, gcVars
<1>1. UNCHANGED <<objects, slots, link, stack, frames, globals, constantObjects, request>>
  BY DEF Cleanup, CleanupDelete, UseFreed, maybeGC, Die, MarkStep, MarkFreed, MarkDone,
         SweepKeep, SweepDone, vars
<1> QED
  BY <1>1 DEF Heap!vars, Held, getGCRoots, Fields

LEMMA NextImplements ==
    ASSUME TypeInv, TypeInv', SafeInv, [Next]_vars
    PROVE  [Heap!Next]_(Heap!vars)
<1>1. CASE BeginExec \/ Compile \/ Move \/ AskMemory \/ Allocate
  BY <1>1, BeginMutates, CompilingMutates, MoveMutates, AskMutates, AllocateMutates DEF Heap!Next
<1>2. CASE StartEval
  <2>1. Held' \subseteq Reachable /\ UNCHANGED <<objects, slots, link>>
    BY <1>2, HeldReachable DEF StartEval, Held, getGCRoots, heapVars, gcVars
  <2> QED
    BY <2>1, RootsMutate DEF Heap!Next
<1>3. CASE Halt
  <2>1. Held' \subseteq Reachable /\ UNCHANGED <<objects, slots, link>>
    BY <1>3, HeldReachable DEF Halt, Held, getGCRoots, heapVars, gcVars
  <2> QED
    BY <2>1, RootsMutate DEF Heap!Next
<1>4. CASE SweepFree
  BY <1>4, SweepFrees DEF Heap!Next
<1>5. CASE CleanupDone
  BY <1>5, CleanupCloses DEF Heap!Next
<1>6. CASE \/ Cleanup \/ CleanupDelete \/ UseFreed \/ maybeGC \/ Die
           \/ MarkStep \/ MarkFreed \/ MarkDone \/ SweepKeep \/ SweepDone
           \/ UNCHANGED vars
  BY <1>6, HeapStutters
<1> QED
  BY <1>1, <1>2, <1>3, <1>4, <1>5, <1>6 DEF Next, Collect

(* The collector with its mutator implements the abstract heap: for the      *)
(* programs that keep to the rules, a step of the VM never finds a reference *)
(* it had lost, and sweep() takes memory back only from unreachable objects. *)
THEOREM CollectorImplementsHeap == Disciplined => (Spec => HeapPromise)
<1> SUFFICES ASSUME Disciplined PROVE Spec => HeapPromise
  OBVIOUS
<1>1. TypeInv /\ SafeInv => Heap!TypeOK /\ Heap!Reach \subseteq objects
  BY HeapTypes, ReachableKept DEF Heap!Reach, Reachable
<1>2. Init => Heap!Init
  BY <1>1, InitTypeInv, InitSafeInv DEF Heap!Init
<1>3. TypeInv /\ TypeInv' /\ SafeInv /\ [Next]_vars => [Heap!Next]_(Heap!vars)
  BY NextImplements
<1>4. Spec => [](TypeInv /\ MarkInv /\ SafeInv)
  BY InductiveSafeInv
<1> QED
  BY <1>2, <1>3, <1>4, PTL DEF Spec, HeapPromise

=============================================================================
