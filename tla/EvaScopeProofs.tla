--------------------------- MODULE EvaScopeProofs ---------------------------
(***************************************************************************)
(* What is proved of the scope analysis for programs of every size.        *)
(***************************************************************************)
EXTENDS EvaScope, TLAPS

(* The scopes opened so far are a tree of which `chain` is the ancestry;   *)
(* they are numbered down every path, so that no ancestor of a scope lies  *)
(* between it and its parent.                                              *)
TreeInv ==
    /\ type[1] = "GLOBAL" /\ parent[1] = 0 /\ chain[1] = {1}
    /\ \A s \in Opened : 1 \in chain[s] /\ s \in chain[s] /\ chain[s] \subseteq 1..s
    /\ \A s \in Opened \ {1} :
          /\ type[s] # "GLOBAL"
          /\ parent[s] \in 1..(s - 1)
          /\ chain[s] = chain[parent[s]] \cup {s}
    /\ \A s \in Opened : \A t \in chain[s] :
          chain[t] \subseteq chain[s] /\ \A u \in chain[s] : u <= t => u \in chain[t]

(* A scope that is not open yet knows nothing. *)
FreshInv ==
    \A s \in ScopeId \ Opened :
        free[s] = {} /\ cell[s] = {} /\ \A n \in Name : binder[s][n] = 0

ScopeInv == TypeOK /\ TreeInv /\ FreshInv

LEMMA InitScopeInv == Init => ScopeInv
  BY ScopeAssumption DEF Init, ScopeInv, TypeOK, TreeInv, FreshInv, Opened, ScopeId, ScopeType

LEMMA OpenTables ==
    ASSUME ScopeInv, NEW t \in ScopeType, NEW N \in SUBSET Name, NEW outer \in SUBSET Name,
           Open(t, N, outer)
    PROVE  /\ opened + 1 \in ScopeId /\ opened \in ScopeId /\ scope \in 1..opened /\ scope \in ScopeId
           /\ allocInfo' \in [ScopeId -> [Name -> AllocType \cup {"NONE"}]]
           /\ binder' \in [ScopeId -> [Name -> 0..MaxScopes]]
           /\ \A s \in ScopeId \ {scope, opened + 1} :
                 allocInfo'[s] = allocInfo[s] /\ binder'[s] = binder[s]
           /\ \A n \in Name :
                 /\ allocInfo'[scope][n] = IF n \in outer THEN DeclaredType(scope) ELSE allocInfo[scope][n]
                 /\ binder'[scope][n] = IF n \in outer THEN scope ELSE binder[scope][n]
           /\ \A n \in N : allocInfo'[opened + 1][n] = "LOCAL" /\ binder'[opened + 1][n] = opened + 1
           /\ \A n \in Name \ N : /\ allocInfo'[opened + 1][n] = allocInfo[opened + 1][n]
                                 /\ binder'[opened + 1][n] = binder[opened + 1][n]
<1>1. /\ opened + 1 \in ScopeId /\ opened \in ScopeId
      /\ scope \in 1..opened /\ scope \in ScopeId /\ scope # opened + 1
  BY ScopeAssumption DEF Open, ScopeInv, TypeOK, ScopeId
<1>2. DeclaredType(scope) \in AllocType \cup {"NONE"} /\ "LOCAL" \in AllocType \cup {"NONE"}
  BY DEF DeclaredType, AllocType
<1>3. scope \in 0..MaxScopes /\ opened + 1 \in 0..MaxScopes
  BY <1>1, ScopeAssumption DEF ScopeId
<1> DEFINE a == addLocal(allocInfo, scope, outer, DeclaredType(scope))
           b == addLocal(binder, scope, outer, scope)
<1>4. /\ a \in [ScopeId -> [Name -> AllocType \cup {"NONE"}]]
      /\ \A r \in ScopeId \ {scope} : a[r] = allocInfo[r]
      /\ \A n \in Name : a[scope][n] = IF n \in outer THEN DeclaredType(scope) ELSE allocInfo[scope][n]
  BY <1>1, <1>2 DEF ScopeInv, TypeOK, addLocal, a
<1>5. /\ b \in [ScopeId -> [Name -> 0..MaxScopes]]
      /\ \A r \in ScopeId \ {scope} : b[r] = binder[r]
      /\ \A n \in Name : b[scope][n] = IF n \in outer THEN scope ELSE binder[scope][n]
  BY <1>1, <1>3 DEF ScopeInv, TypeOK, addLocal, b
<1> HIDE DEF a, b
<1>6. /\ addLocal(a, opened + 1, N, "LOCAL") \in [ScopeId -> [Name -> AllocType \cup {"NONE"}]]
      /\ \A r \in ScopeId \ {opened + 1} : addLocal(a, opened + 1, N, "LOCAL")[r] = a[r]
      /\ \A n \in Name : addLocal(a, opened + 1, N, "LOCAL")[opened + 1][n]
                           = IF n \in N THEN "LOCAL" ELSE a[opened + 1][n]
  BY <1>1, <1>2, <1>4 DEF addLocal
<1>7. /\ addLocal(b, opened + 1, N, opened + 1) \in [ScopeId -> [Name -> 0..MaxScopes]]
      /\ \A r \in ScopeId \ {opened + 1} : addLocal(b, opened + 1, N, opened + 1)[r] = b[r]
      /\ \A n \in Name : addLocal(b, opened + 1, N, opened + 1)[opened + 1][n]
                           = IF n \in N THEN opened + 1 ELSE b[opened + 1][n]
  BY <1>1, <1>3, <1>5 DEF addLocal
<1>8. allocInfo' = addLocal(a, opened + 1, N, "LOCAL") /\ binder' = addLocal(b, opened + 1, N, opened + 1)
  BY DEF Open, a, b
<1> QED
  BY <1>1, <1>4, <1>5, <1>6, <1>7, <1>8

LEMMA OpenScopeInv ==
    ASSUME ScopeInv, NEW t \in ScopeType \ {"GLOBAL"}, NEW N \in SUBSET Name, NEW outer \in SUBSET Name,
           Open(t, N, outer)
    PROVE  ScopeInv'
<1>1. /\ opened + 1 \in ScopeId /\ opened \in ScopeId /\ scope \in 1..opened /\ scope \in ScopeId
      /\ Opened' = Opened \cup {opened + 1} /\ opened + 1 \notin Opened
      /\ 1 \in Opened /\ Opened \subseteq ScopeId /\ Opened' \subseteq ScopeId
  BY OpenTables, ScopeAssumption DEF Open, Opened, ScopeId, ScopeInv, TypeOK
<1>2. TypeOK'
  <2>1. /\ allocInfo' \in [ScopeId -> [Name -> AllocType \cup {"NONE"}]]
        /\ binder' \in [ScopeId -> [Name -> 0..MaxScopes]]
    BY OpenTables
  <2>2. scope \in 0..MaxScopes
    BY <1>1, ScopeAssumption DEF ScopeId
  <2>3. opened' \in ScopeId /\ scope' \in 1..opened'
    BY <1>1, ScopeAssumption DEF Open, ScopeId
  <2> QED
    BY <1>1, <2>1, <2>2, <2>3 DEF Open, ScopeInv, TypeOK
<1>3. /\ \A s \in Opened : type'[s] = type[s] /\ parent'[s] = parent[s] /\ chain'[s] = chain[s]
      /\ type'[opened + 1] = t /\ parent'[opened + 1] = scope
      /\ chain'[opened + 1] = chain[scope] \cup {opened + 1}
  BY <1>1 DEF Open, ScopeInv, TypeOK
<1>4. TreeInv'
  <2>1. type'[1] = "GLOBAL" /\ parent'[1] = 0 /\ chain'[1] = {1}
    BY <1>1, <1>3 DEF ScopeInv, TreeInv
  <2>2. chain[scope] \subseteq 1..scope /\ 1 \in chain[scope]
    BY <1>1 DEF ScopeInv, TreeInv, Opened
  <2>3. \A s \in Opened' : 1 \in chain'[s] /\ s \in chain'[s] /\ chain'[s] \subseteq 1..s
    <3>1. chain'[opened + 1] \subseteq 1..(opened + 1)
      BY <1>1, <1>3, <2>2, ScopeAssumption DEF ScopeId
    <3> QED
      BY <1>1, <1>3, <2>2, <3>1 DEF ScopeInv, TreeInv
  <2>4. \A s \in Opened' \ {1} :
          type'[s] # "GLOBAL" /\ parent'[s] \in 1..(s - 1) /\ chain'[s] = chain'[parent'[s]] \cup {s}
    <3>1. CASE TRUE
      <4>1. ASSUME NEW s \in Opened \ {1}
            PROVE  type'[s] # "GLOBAL" /\ parent'[s] \in 1..(s - 1) /\ chain'[s] = chain'[parent'[s]] \cup {s}
        <5>1. parent[s] \in Opened
          BY <4>1 DEF ScopeInv, TreeInv, Opened, TypeOK, ScopeId
        <5> QED
          BY <1>3, <4>1, <5>1 DEF ScopeInv, TreeInv
      <4>2. scope \in Opened /\ scope \in 1..(opened + 1 - 1)
        BY <1>1 DEF Opened, ScopeId
      <4> QED
        BY <1>1, <1>3, <4>1, <4>2
    <3> QED
      BY <3>1
  <2>5. ASSUME NEW s \in Opened', NEW u \in chain'[s]
        PROVE  chain'[u] \subseteq chain'[s] /\ \A v \in chain'[s] : v <= u => v \in chain'[u]
    <3>1. CASE s \in Opened
      <4>1. chain[s] \subseteq Opened
        BY <3>1 DEF ScopeInv, TreeInv, Opened, TypeOK, ScopeId
      <4> QED
        BY <1>3, <2>5, <3>1, <4>1 DEF ScopeInv, TreeInv
    <3>2. CASE s = opened + 1 /\ u = opened + 1
      BY <3>2
    <3>3. CASE s = opened + 1 /\ u \in chain[scope]
      <4>1. scope \in Opened /\ u \in Opened /\ u < opened + 1
        BY <1>1, <2>2, <3>3 DEF Opened, ScopeId
      <4>2. chain'[u] = chain[u] /\ chain[u] \subseteq chain[scope]
        BY <1>3, <3>3, <4>1 DEF ScopeInv, TreeInv
      <4>3. \A v \in chain[scope] : v <= u => v \in chain[u]
        BY <3>3, <4>1 DEF ScopeInv, TreeInv
      <4>4. ~(opened + 1 <= u)
        BY <1>1, <4>1 DEF Opened, ScopeId
      <4> QED
        BY <1>3, <3>3, <4>2, <4>3, <4>4
    <3> QED
      BY <1>1, <1>3, <2>5, <3>1, <3>2, <3>3
  <2> QED
    BY <2>1, <2>3, <2>4, <2>5 DEF TreeInv
<1>5. FreshInv'
  <2>1. ASSUME NEW s \in ScopeId \ Opened'
        PROVE  free'[s] = {} /\ cell'[s] = {} /\ \A n \in Name : binder'[s][n] = 0
    <3>1. s \in ScopeId \ Opened /\ s \notin {scope, opened + 1}
      BY <1>1, <2>1 DEF Opened
    <3>2. binder'[s] = binder[s]
      BY <3>1, OpenTables
    <3> QED
      BY <3>1, <3>2 DEF ScopeInv, FreshInv, Open
  <2> QED
    BY <2>1 DEF FreshInv
<1> QED
  BY <1>2, <1>4, <1>5 DEF ScopeInv

(* Where a lookup goes: up the parents, from the current scope to the owner. *)
LEMMA PathToOwner ==
    ASSUME ScopeInv, NEW n \in Name \ Known(scope), NEW owner \in chain[scope], FirstKnows(n, owner)
    PROVE  /\ scope \in Opened /\ owner \in Opened /\ Opened \subseteq ScopeId
           /\ chain[scope] \subseteq Opened /\ Passed(owner) \subseteq Opened \ {1, owner}
           /\ owner # scope /\ scope \in Passed(owner)
           /\ \A s \in Passed(owner) : parent[s] \in Passed(owner) \cup {owner}
           /\ resolve(owner) \in AllocType
           /\ resolve(owner) = "CELL" => owner # 1
<1>1. scope \in Opened /\ 1 \in Opened /\ Opened \subseteq ScopeId
  BY ScopeAssumption DEF ScopeInv, TypeOK, Opened, ScopeId
<1>2. chain[scope] \subseteq 1..scope /\ chain[scope] \subseteq Opened /\ scope \in chain[scope]
  BY <1>1 DEF ScopeInv, TreeInv, TypeOK, Opened, ScopeId
<1>3. owner \in Opened /\ owner # scope /\ owner < scope
  BY <1>1, <1>2 DEF FirstKnows, Opened, ScopeId
<1>4. Passed(owner) \subseteq Opened \ {1, owner} /\ scope \in Passed(owner)
  BY <1>1, <1>2, <1>3 DEF Passed, Opened, ScopeId
<1>5. ASSUME NEW s \in Passed(owner) PROVE parent[s] \in Passed(owner) \cup {owner}
  <2>1. s \in Opened \ {1} /\ s \in chain[scope] /\ owner < s
    BY <1>4, <1>5 DEF Passed
  <2>2. chain[s] = chain[parent[s]] \cup {s} /\ parent[s] \in 1..(s - 1) /\ parent[s] \in Opened
    <3>1. chain[s] = chain[parent[s]] \cup {s} /\ parent[s] \in 1..(s - 1)
      BY <2>1 DEF ScopeInv, TreeInv
    <3>2. s \in 1..opened /\ opened \in Nat
      BY <2>1, ScopeAssumption DEF ScopeInv, Opened, TypeOK, ScopeId
    <3> QED
      BY <3>1, <3>2 DEF Opened
  <2>3. parent[s] \in chain[parent[s]] /\ chain[parent[s]] \subseteq 1..parent[s]
    BY <2>2 DEF ScopeInv, TreeInv
  <2>4. chain[s] \subseteq chain[scope] /\ owner \in chain[s]
    BY <1>1, <1>3, <2>1 DEF ScopeInv, TreeInv, Opened, ScopeId
  <2>5. parent[s] \in chain[scope] /\ owner \in 1..parent[s]
    BY <2>1, <2>2, <2>3, <2>4 DEF Opened, ScopeId
  <2>6. owner \in Nat /\ parent[s] \in Nat
    BY <1>1, <1>3, <2>2 DEF Opened, ScopeId
  <2> QED
    BY <2>5, <2>6 DEF Passed
<1>6. resolve(owner) \in AllocType /\ (resolve(owner) = "CELL" => owner # 1)
  BY DEF resolve, DeclaredType, AllocType, ScopeInv, TreeInv
<1> QED
  BY <1>1, <1>2, <1>3, <1>4, <1>5, <1>6

(* What a reference does, scope by scope: to a variable it captures ... *)
Captures(n, owner, meant) ==
    /\ promote(n, owner)
    /\ binder' = [s \in ScopeId |-> IF s \in Passed(owner)
                                    THEN [binder[s] EXCEPT ![n] = meant]
                                    ELSE binder[s]]

LEMMA CaptureStep ==
    ASSUME ScopeInv, NEW n \in Name \ Known(scope), NEW owner \in chain[scope],
           NEW meant \in chain[scope], FirstKnows(n, owner), Captures(n, owner, meant)
    PROVE  /\ allocInfo' \in [ScopeId -> [Name -> AllocType \cup {"NONE"}]]
           /\ binder' \in [ScopeId -> [Name -> 0..MaxScopes]]
           /\ free' \in [ScopeId -> SUBSET Name] /\ cell' \in [ScopeId -> SUBSET Name]
           /\ \A s \in ScopeId, m \in Name \ {n} :
                 /\ allocInfo'[s][m] = allocInfo[s][m] /\ binder'[s][m] = binder[s][m]
                 /\ m \in free'[s] <=> m \in free[s]
                 /\ m \in cell'[s] <=> m \in cell[s]
           /\ \A s \in Passed(owner) :
                 allocInfo'[s][n] = "CELL" /\ binder'[s][n] = meant /\ free'[s] = free[s] \cup {n}
           /\ \A s \in ScopeId \ Passed(owner) : binder'[s][n] = binder[s][n] /\ free'[s] = free[s]
           /\ allocInfo'[owner][n] = "CELL" /\ cell'[owner] = cell[owner] \cup {n}
           /\ \A s \in ScopeId \ {owner} : cell'[s] = cell[s]
           /\ \A s \in ScopeId \ (Passed(owner) \cup {owner}) : allocInfo'[s][n] = allocInfo[s][n]
<1>1. /\ owner \in ScopeId /\ Passed(owner) \subseteq ScopeId /\ meant \in 0..MaxScopes
      /\ "CELL" \in AllocType \cup {"NONE"}
  BY PathToOwner DEF ScopeId, AllocType
<1>2. /\ cell' = [cell EXCEPT ![owner] = @ \cup {n}]
      /\ free' = [s \in ScopeId |-> IF s \in Passed(owner) THEN free[s] \cup {n} ELSE free[s]]
      /\ allocInfo' = [s \in ScopeId |-> IF s \in Passed(owner) \cup {owner}
                                         THEN [allocInfo[s] EXCEPT ![n] = "CELL"]
                                         ELSE allocInfo[s]]
      /\ binder' = [s \in ScopeId |-> IF s \in Passed(owner)
                                      THEN [binder[s] EXCEPT ![n] = meant]
                                      ELSE binder[s]]
  BY DEF Captures, promote, FreeIn, Promoted
<1>3. /\ allocInfo' \in [ScopeId -> [Name -> AllocType \cup {"NONE"}]]
      /\ binder' \in [ScopeId -> [Name -> 0..MaxScopes]]
      /\ \A s \in ScopeId, m \in Name \ {n} :
            allocInfo'[s][m] = allocInfo[s][m] /\ binder'[s][m] = binder[s][m]
  BY <1>1, <1>2 DEF ScopeInv, TypeOK
<1>4. /\ free' \in [ScopeId -> SUBSET Name] /\ cell' \in [ScopeId -> SUBSET Name]
      /\ \A s \in ScopeId, m \in Name \ {n} :
            (m \in free'[s] <=> m \in free[s]) /\ (m \in cell'[s] <=> m \in cell[s])
  BY <1>1, <1>2 DEF ScopeInv, TypeOK
<1>5. /\ \A s \in Passed(owner) :
            allocInfo'[s][n] = "CELL" /\ binder'[s][n] = meant /\ free'[s] = free[s] \cup {n}
      /\ \A s \in ScopeId \ Passed(owner) : binder'[s][n] = binder[s][n] /\ free'[s] = free[s]
  BY <1>1, <1>2 DEF ScopeInv, TypeOK
<1>6. /\ allocInfo'[owner][n] = "CELL" /\ cell'[owner] = cell[owner] \cup {n}
      /\ \A s \in ScopeId \ {owner} : cell'[s] = cell[s]
      /\ \A s \in ScopeId \ (Passed(owner) \cup {owner}) : allocInfo'[s][n] = allocInfo[s][n]
  BY <1>1, <1>2 DEF ScopeInv, TypeOK
<1> QED
  BY <1>3, <1>4, <1>5, <1>6

(* ... and to one that it does not. *)
LookedUp(n, owner, meant) ==
    /\ allocInfo' = [allocInfo EXCEPT ![scope][n] = resolve(owner)]
    /\ binder' = [binder EXCEPT ![scope][n] = meant]
    /\ UNCHANGED <<free, cell>>

(* The two ways in which a name is referred to. *)
LEMMA ReferenceCases ==
    ASSUME ScopeInv, Reference
    PROVE  /\ UNCHANGED <<opened, scope, type, parent, chain, pc>>
           /\ \E n \in Name \ Known(scope) : \E owner, meant \in chain[scope] :
                 /\ FirstKnows(n, owner) /\ FirstDeclares(n, meant) /\ MayRefer(n, owner)
                 /\ \/ resolve(owner) = "CELL" /\ Captures(n, owner, meant)
                    \/ resolve(owner) # "CELL" /\ LookedUp(n, owner, meant)
  BY DEF Reference, tree, Captures, LookedUp

LEMMA ReferenceScopeInv ==
    ASSUME ScopeInv, Reference
    PROVE  ScopeInv'
<1>1. PICK n \in Name \ Known(scope), owner \in chain[scope], meant \in chain[scope] :
        /\ FirstKnows(n, owner)
        /\ \/ resolve(owner) = "CELL" /\ Captures(n, owner, meant)
           \/ resolve(owner) # "CELL" /\ LookedUp(n, owner, meant)
  BY ReferenceCases
<1>2. UNCHANGED <<opened, scope, type, parent, chain, pc>>
  BY ReferenceCases
<1>3. TreeInv'
  BY <1>2 DEF ScopeInv, TreeInv, Opened
<1>4. /\ scope \in Opened /\ owner \in Opened /\ Passed(owner) \subseteq Opened
      /\ Opened \subseteq ScopeId /\ Opened' = Opened /\ resolve(owner) \in AllocType
      /\ chain[scope] \subseteq Opened
  BY <1>1, <1>2, PathToOwner DEF Opened
<1>5. CASE Captures(n, owner, meant)
  <2>1. TypeOK'
    BY <1>1, <1>2, <1>5, CaptureStep DEF ScopeInv, TypeOK
  <2>2. ASSUME NEW s \in ScopeId \ Opened
        PROVE  free'[s] = {} /\ cell'[s] = {} /\ \A m \in Name : binder'[s][m] = 0
    <3>1. s \notin Passed(owner) /\ s # owner
      BY <1>4, <2>2
    <3>2. free'[s] = free[s] /\ cell'[s] = cell[s] /\ \A m \in Name : binder'[s][m] = binder[s][m]
      BY <1>1, <1>5, <3>1, CaptureStep
    <3> QED
      BY <3>2 DEF ScopeInv, FreshInv
  <2> QED
    BY <1>3, <1>4, <2>1, <2>2 DEF ScopeInv, FreshInv
<1>6. CASE LookedUp(n, owner, meant)
  <2>1. scope \in ScopeId /\ meant \in 0..MaxScopes
    <3>1. scope \in ScopeId /\ meant \in ScopeId
      BY <1>4
    <3> QED
      BY <3>1, ScopeAssumption DEF ScopeId
  <2>2. TypeOK'
    BY <1>2, <1>4, <1>6, <2>1 DEF LookedUp, ScopeInv, TypeOK
  <2>3. FreshInv'
    BY <1>4, <1>6, <2>1 DEF LookedUp, ScopeInv, TypeOK, FreshInv
  <2> QED
    BY <1>3, <2>2, <2>3 DEF ScopeInv
<1> QED
  BY <1>1, <1>5, <1>6

LEMMA DeclareTables ==
    ASSUME ScopeInv, DeclareVar
    PROVE  \E n \in Name :
             /\ Redeclare \/ n \notin Known(scope)
             /\ scope \in Opened /\ scope \in ScopeId
             /\ allocInfo' = [allocInfo EXCEPT ![scope][n] = DeclaredType(scope)]
             /\ binder' = [binder EXCEPT ![scope][n] = scope]
             /\ UNCHANGED <<tree, free, cell, pc>>
<1>1. scope \in Opened /\ scope \in ScopeId
  BY ScopeAssumption DEF ScopeInv, TypeOK, Opened, ScopeId
<1>2. PICK n \in Name : /\ Redeclare \/ n \notin Known(scope)
                        /\ allocInfo' = addLocal(allocInfo, scope, {n}, DeclaredType(scope))
                        /\ binder' = addLocal(binder, scope, {n}, scope)
                        /\ UNCHANGED <<tree, free, cell, pc>>
  BY DEF DeclareVar, MayDeclare
<1>3. addLocal(allocInfo, scope, {n}, DeclaredType(scope)) = [allocInfo EXCEPT ![scope][n] = DeclaredType(scope)]
  BY <1>1 DEF addLocal, ScopeInv, TypeOK
<1>4. addLocal(binder, scope, {n}, scope) = [binder EXCEPT ![scope][n] = scope]
  BY <1>1 DEF addLocal, ScopeInv, TypeOK
<1> QED
  BY <1>1, <1>2, <1>3, <1>4

(* Every step keeps the tree of scopes well formed. *)
LEMMA NextScopeInv == ScopeInv /\ [Next]_vars => ScopeInv'
<1> SUFFICES ASSUME ScopeInv, [Next]_vars PROVE ScopeInv'
  OBVIOUS
<1>1. CASE OpenBlock
  BY <1>1, OpenScopeInv DEF OpenBlock, ScopeType
<1>2. CASE OpenFunction
  BY <1>2, OpenScopeInv DEF OpenFunction, ScopeType
<1>3. CASE OpenLambda
  BY <1>3, OpenScopeInv DEF OpenLambda, ScopeType
<1>4. CASE OpenClass
  BY <1>4, OpenScopeInv DEF OpenClass, ScopeType
<1>5. CASE Close
  <2>1. scope \in Opened
    BY DEF ScopeInv, TypeOK, Opened
  <2>2. CASE scope = 1
    <3>1. UNCHANGED <<opened, scope, type, parent, chain, allocInfo, free, cell, binder>> /\ pc' = "done"
      BY <1>5, <2>2 DEF Close, IsRoot, ScopeInv, TreeInv
    <3> QED
      BY <3>1 DEF ScopeInv, TypeOK, TreeInv, FreshInv, Opened
  <2>3. CASE scope # 1
    <3>1. parent[scope] \in 1..opened /\ parent[scope] # 0
      BY <2>1, <2>3 DEF ScopeInv, TypeOK, TreeInv, Opened, ScopeId
    <3>2. scope' = parent[scope] /\ UNCHANGED <<opened, type, parent, chain, allocInfo, free, cell, binder, pc>>
      BY <1>5, <3>1 DEF Close, IsRoot
    <3> QED
      BY <3>1, <3>2 DEF ScopeInv, TypeOK, TreeInv, FreshInv, Opened
  <2> QED
    BY <2>2, <2>3
<1>6. CASE DeclareVar
  <2>1. PICK n \in Name :
             /\ scope \in Opened /\ scope \in ScopeId
             /\ allocInfo' = [allocInfo EXCEPT ![scope][n] = DeclaredType(scope)]
             /\ binder' = [binder EXCEPT ![scope][n] = scope]
             /\ UNCHANGED <<tree, free, cell, pc>>
    BY <1>6, DeclareTables
  <2>2. TypeOK'
    BY <2>1 DEF ScopeInv, TypeOK, tree, DeclaredType, AllocType, ScopeId
  <2>3. TreeInv' /\ FreshInv'
    BY <2>1 DEF ScopeInv, TypeOK, TreeInv, FreshInv, tree, Opened
  <2> QED
    BY <2>2, <2>3 DEF ScopeInv
<1>7. CASE Reference
  BY <1>7, ReferenceScopeInv
<1>8. CASE ReferenceError
  BY <1>8 DEF ReferenceError, tree, ScopeInv, TypeOK, TreeInv, FreshInv, Opened
<1>9. CASE UNCHANGED vars
  BY <1>9 DEF vars, tree, ScopeInv, TypeOK, TreeInv, FreshInv, Opened
<1> QED
  BY <1>1, <1>2, <1>3, <1>4, <1>5, <1>6, <1>7, <1>8, <1>9 DEF Next

(* The tables of the analysis always hold what the generator expects. *)
THEOREM ScopeTypeCorrect == Spec => []TypeOK
<1>1. ScopeInv => TypeOK
  BY DEF ScopeInv
<1> QED
  BY <1>1, InitScopeInv, NextScopeInv, PTL DEF Spec

-----------------------------------------------------------------------------
(* Closures are given the cells they capture, whatever the program.        *)

LEMMA OpenedGrows ==
    ASSUME ScopeInv, OpenBlock \/ OpenFunction \/ OpenLambda \/ OpenClass
    PROVE  /\ Opened' = Opened \cup {opened + 1} /\ opened + 1 \in ScopeId \ Opened
           /\ \A s \in Opened : parent'[s] = parent[s]
           /\ UNCHANGED <<free, cell>>
<1>1. opened' = opened + 1 /\ opened < MaxScopes
  BY DEF OpenBlock, OpenFunction, OpenLambda, OpenClass, Open
<1>2. parent' = [parent EXCEPT ![opened + 1] = scope] /\ UNCHANGED <<free, cell>>
  BY DEF OpenBlock, OpenFunction, OpenLambda, OpenClass, Open
<1> QED
  BY <1>1, <1>2, ScopeAssumption DEF Opened, ScopeInv, TypeOK, ScopeId

LEMMA NextFreeThreaded == ScopeInv /\ FreeThreaded /\ [Next]_vars => FreeThreaded'
<1> SUFFICES ASSUME ScopeInv, FreeThreaded, [Next]_vars PROVE FreeThreaded'
  OBVIOUS
<1>1. CASE OpenBlock \/ OpenFunction \/ OpenLambda \/ OpenClass
  <2>1. free[opened + 1] = {}
    BY <1>1, OpenedGrows DEF ScopeInv, FreshInv
  <2> QED
    BY <1>1, <2>1, OpenedGrows DEF FreeThreaded
<1>2. CASE Reference
  <2>1. PICK n \in Name \ Known(scope), owner \in chain[scope], meant \in chain[scope] :
          /\ FirstKnows(n, owner)
          /\ Captures(n, owner, meant) \/ LookedUp(n, owner, meant)
    BY <1>2, ReferenceCases
  <2>2. Opened' = Opened /\ parent' = parent
    BY <1>2, ReferenceCases DEF Opened
  <2>3. CASE LookedUp(n, owner, meant)
    BY <2>2, <2>3 DEF LookedUp, FreeThreaded
  <2>4. CASE Captures(n, owner, meant)
    <3>1. /\ Passed(owner) \subseteq Opened \ {1} /\ Opened \subseteq ScopeId /\ owner \in Opened
          /\ \A s \in Passed(owner) : parent[s] \in Passed(owner) \cup {owner}
      BY <2>1, PathToOwner
    <3>2. \A s \in ScopeId : free[s] \subseteq free'[s] /\ cell[s] \subseteq cell'[s]
      BY <2>1, <2>4, CaptureStep
    <3>3. \A s \in Passed(owner) : free'[s] = free[s] \cup {n}
      BY <2>1, <2>4, CaptureStep
    <3>4. \A s \in ScopeId \ Passed(owner) : free'[s] = free[s]
      BY <2>1, <2>4, CaptureStep
    <3>5. n \in cell'[owner]
      BY <2>1, <2>4, CaptureStep
    <3>6. ASSUME NEW s \in Opened, free'[s] # {}
          PROVE  parent[s] # 0 /\ free'[s] \subseteq free'[parent[s]] \cup cell'[parent[s]]
      <4>1. CASE s \in Passed(owner)
        <5>1. parent[s] \in Opened /\ parent[s] # 0
          BY <3>1, <4>1 DEF ScopeInv, TreeInv, Opened
        <5>2. free[s] \subseteq free[parent[s]] \cup cell[parent[s]]
          BY <3>6 DEF FreeThreaded
        <5>3. n \in free'[parent[s]] \cup cell'[parent[s]]
          BY <3>1, <3>3, <3>5, <4>1
        <5> QED
          BY <3>1, <3>2, <3>3, <4>1, <5>1, <5>2, <5>3
      <4>2. CASE s \notin Passed(owner)
        <5>1. free'[s] = free[s] /\ parent[s] # 0 /\ free[s] \subseteq free[parent[s]] \cup cell[parent[s]]
          BY <3>1, <3>4, <3>6, <4>2 DEF FreeThreaded
        <5>2. parent[s] \in ScopeId
          BY <5>1, <3>1, ScopeAssumption DEF ScopeInv, TypeOK, ScopeId
        <5> QED
          BY <3>2, <5>1, <5>2
      <4> QED
        BY <4>1, <4>2
    <3> QED
      BY <2>2, <3>6 DEF FreeThreaded
  <2> QED
    BY <2>1, <2>3, <2>4
<1>3. CASE Close \/ DeclareVar \/ ReferenceError \/ UNCHANGED vars
  BY <1>3 DEF Close, DeclareVar, ReferenceError, vars, tree, FreeThreaded, Opened
<1> QED
  BY <1>1, <1>2, <1>3 DEF Next

(* Every variable a closure captures can be loaded where the closure is    *)
(* made: its parent scope captures it too, or owns its cell.               *)
THEOREM FreeVariablesThreaded == Spec => []FreeThreaded
<1>1. Init => FreeThreaded
  BY ScopeAssumption DEF Init, FreeThreaded, Opened, ScopeId
<1> QED
  BY <1>1, InitScopeInv, NextScopeInv, NextFreeThreaded, PTL DEF Spec

-----------------------------------------------------------------------------
(* For the programs that mention a name only in the scope that declares it *)
(* or across a function, every scope agrees on where the variable is.      *)

Careful == ~ReadThrough /\ ~ShareCaptured /\ ~Redeclare

NameOK(s, n) ==
    /\ n \in Known(s) <=> binder[s][n] # 0
    /\ n \in free[s] \cup cell[s] => allocInfo[s][n] = "CELL"
    /\ n \in free[s] => binder[s][n] # s /\ n \notin cell[s]
    /\ binder[s][n] # 0 => (binder[s][n] = 1 <=> allocInfo[s][n] = "GLOBAL")
    /\ binder[s][n] # 0 /\ n \in cell[binder[s][n]] => allocInfo[s][n] = "CELL"

NameInv == \A s \in ScopeId, n \in Name : NameOK(s, n)

(* New declarations, of names their scope did not know. *)
LEMMA DeclareNameInv ==
    ASSUME ScopeInv, NameInv, UNCHANGED <<free, cell>>,
           \A s \in ScopeId, n \in Name :
              \/ allocInfo'[s][n] = allocInfo[s][n] /\ binder'[s][n] = binder[s][n]
              \/ /\ n \notin Known(s)
                 /\ binder'[s][n] = s
                 /\ allocInfo'[s][n] = IF s = 1 THEN "GLOBAL" ELSE "LOCAL"
    PROVE  NameInv'
<1> SUFFICES ASSUME NEW s \in ScopeId, NEW n \in Name PROVE NameOK(s, n)'
  BY DEF NameInv
<1>1. NameOK(s, n)
  BY DEF NameInv
<1>2. CASE allocInfo'[s][n] = allocInfo[s][n] /\ binder'[s][n] = binder[s][n]
  BY <1>1, <1>2 DEF NameOK, Known
<1>3. CASE n \notin Known(s) /\ binder'[s][n] = s /\ allocInfo'[s][n] = IF s = 1 THEN "GLOBAL" ELSE "LOCAL"
  <2>1. n \notin free[s] /\ n \notin cell[s] /\ s # 0
    BY <1>1, <1>3 DEF NameOK, Known, ScopeId
  <2> QED
    BY <1>3, <2>1 DEF NameOK, Known
<1> QED
  BY <1>2, <1>3

LEMMA DeclaredTypes == ScopeInv => \A s \in Opened : DeclaredType(s) = IF s = 1 THEN "GLOBAL" ELSE "LOCAL"
  BY DEF ScopeInv, TreeInv, DeclaredType

LEMMA OpenNameInv ==
    ASSUME ScopeInv, NameInv, NEW t \in ScopeType, NEW N \in SUBSET Name, NEW outer \in SUBSET Name,
           Open(t, N, outer), \A n \in outer : n \notin Known(scope)
    PROVE  NameInv'
<1>1. opened + 1 \in ScopeId /\ opened \in ScopeId /\ scope \in Opened /\ scope \in ScopeId
      /\ opened + 1 # 1 /\ opened + 1 \notin Opened /\ scope # opened + 1
  BY ScopeAssumption DEF Open, ScopeInv, TypeOK, Opened, ScopeId
<1>2. ASSUME NEW s \in ScopeId, NEW n \in Name
      PROVE  \/ allocInfo'[s][n] = allocInfo[s][n] /\ binder'[s][n] = binder[s][n]
             \/ /\ n \notin Known(s)
                /\ binder'[s][n] = s
                /\ allocInfo'[s][n] = IF s = 1 THEN "GLOBAL" ELSE "LOCAL"
  <2>1. CASE s \notin {scope, opened + 1}
    BY <2>1, OpenTables
  <2>2. CASE s = scope
    <3>1. /\ allocInfo'[scope][n] = IF n \in outer THEN DeclaredType(scope) ELSE allocInfo[scope][n]
          /\ binder'[scope][n] = IF n \in outer THEN scope ELSE binder[scope][n]
      BY OpenTables
    <3> QED
      BY <1>1, <2>2, <3>1, DeclaredTypes
  <2>3. CASE s = opened + 1
    <3>1. binder[opened + 1][n] = 0
      BY <1>1 DEF ScopeInv, FreshInv
    <3>2. n \notin Known(opened + 1)
      BY <1>1, <3>1 DEF NameInv, NameOK
    <3>3. CASE n \in N
      BY <1>1, <2>3, <3>2, <3>3, OpenTables
    <3>4. CASE n \notin N
      BY <1>1, <2>3, <3>4, OpenTables
    <3> QED
      BY <3>3, <3>4
  <2> QED
    BY <2>1, <2>2, <2>3
<1>3. UNCHANGED <<free, cell>>
  BY DEF Open
<1> QED
  BY <1>2, <1>3, DeclareNameInv

(* With no reads through other scopes, a lookup stops at the declaration. *)
LEMMA OwnerMeant ==
    ASSUME ScopeInv, NameInv, NEW n \in Name \ Known(scope), NEW owner \in chain[scope],
           NEW meant \in chain[scope], FirstKnows(n, owner), FirstDeclares(n, meant), Declares(owner, n)
    PROVE  meant = owner
<1>1. owner \in ScopeId /\ meant \in ScopeId
  BY PathToOwner
<1>2. n \in Known(meant)
  BY <1>1 DEF NameInv, NameOK, FirstDeclares, Declares, ScopeId
<1>3. ~(meant > owner)
  BY <1>2 DEF FirstKnows, Passed
<1>4. ~(owner > meant)
  BY DEF FirstDeclares, Passed
<1> QED
  BY <1>1, <1>3, <1>4 DEF ScopeId

LEMMA ReferenceNameInv ==
    ASSUME Careful, ScopeInv, NameInv, Reference
    PROVE  NameInv'
<1>1. PICK n \in Name \ Known(scope), owner \in chain[scope], meant \in chain[scope] :
        /\ FirstKnows(n, owner) /\ FirstDeclares(n, meant) /\ MayRefer(n, owner)
        /\ \/ resolve(owner) = "CELL" /\ Captures(n, owner, meant)
           \/ resolve(owner) # "CELL" /\ LookedUp(n, owner, meant)
  BY ReferenceCases
<1>2. /\ scope \in Opened /\ owner \in Opened /\ Opened \subseteq ScopeId
      /\ Passed(owner) \subseteq Opened \ {1, owner} /\ scope \in Passed(owner) /\ owner # scope
      /\ resolve(owner) = "CELL" => owner # 1
  BY <1>1, PathToOwner
<1>3. meant = owner /\ binder[owner][n] = owner
  BY <1>1, OwnerMeant DEF MayRefer, Careful, Declares
<1>4. owner # 0 /\ NameOK(owner, n)
  BY <1>2 DEF NameInv, ScopeId
<1>5. CASE resolve(owner) = "CELL" /\ Captures(n, owner, meant)
  <2>1. owner # 1 /\ \A s \in ScopeId \ {owner} : binder[s][n] = owner => allocInfo[s][n] # "LOCAL"
    BY <1>1, <1>2, <1>5 DEF MayRefer, Careful
  <2>2. ASSUME NEW s \in ScopeId, NEW m \in Name PROVE NameOK(s, m)'
    <3>1. NameOK(s, m)
      BY DEF NameInv
    <3>2. CASE m # n
      <4>1. /\ allocInfo'[s][m] = allocInfo[s][m] /\ binder'[s][m] = binder[s][m]
            /\ m \in free'[s] <=> m \in free[s]
            /\ \A t \in ScopeId : m \in cell'[t] <=> m \in cell[t]
        BY <1>1, <1>5, <3>2, CaptureStep
      <4>2. binder[s][m] \in 0..MaxScopes
        BY DEF ScopeInv, TypeOK
      <4> QED
        BY <3>1, <4>1, <4>2 DEF NameOK, Known, ScopeId
    <3>3. CASE m = n /\ s \in Passed(owner)
      <4>1. allocInfo'[s][n] = "CELL" /\ binder'[s][n] = owner /\ s # owner
        BY <1>1, <1>2, <1>3, <1>5, <3>3, CaptureStep
      <4>2. n \notin Known(s)
        BY <1>1, <3>3 DEF FirstKnows
      <4>3. n \notin cell[s]
        BY <3>1, <3>3, <4>2 DEF NameOK, Known
      <4>4. n \notin cell'[s]
        BY <1>1, <1>5, <4>1, <4>3, CaptureStep
      <4> QED
        BY <1>4, <2>1, <3>3, <4>1, <4>4 DEF NameOK, Known
    <3>4. CASE m = n /\ s = owner
      <4>1. allocInfo'[s][n] = "CELL" /\ binder'[s][n] = owner /\ free'[s] = free[s]
        BY <1>1, <1>2, <1>3, <1>5, <3>4, CaptureStep
      <4>2. n \notin free[s]
        BY <1>3, <1>4, <3>4 DEF NameOK
      <4> QED
        BY <1>4, <2>1, <3>4, <4>1, <4>2 DEF NameOK, Known
    <3>5. CASE m = n /\ s \notin Passed(owner) \cup {owner}
      <4>1. /\ allocInfo'[s][n] = allocInfo[s][n] /\ binder'[s][n] = binder[s][n]
            /\ free'[s] = free[s] /\ cell'[s] = cell[s]
        BY <1>1, <1>5, <3>5, CaptureStep
      <4>2. \A t \in ScopeId \ {owner} : cell'[t] = cell[t]
        BY <1>1, <1>5, CaptureStep
      <4>3. binder[s][n] = owner => allocInfo[s][n] = "CELL"
        <5>1. allocInfo[s][n] \in AllocType \cup {"NONE"}
          BY DEF ScopeInv, TypeOK
        <5> QED
          BY <1>4, <2>1, <3>1, <3>5, <5>1 DEF NameOK, Known, AllocType
      <4>4. binder[s][n] \in 0..MaxScopes
        BY DEF ScopeInv, TypeOK
      <4> QED
        BY <3>1, <3>5, <4>1, <4>2, <4>3, <4>4 DEF NameOK, Known, ScopeId
    <3> QED
      BY <3>2, <3>3, <3>4, <3>5
  <2> QED
    BY <2>2 DEF NameInv
<1>6. CASE resolve(owner) # "CELL" /\ LookedUp(n, owner, meant)
  <2>1. resolve(owner) = IF owner = 1 THEN "GLOBAL" ELSE "LOCAL"
    BY <1>2, <1>6, DeclaredTypes DEF resolve
  <2>2. owner # 1 => allocInfo[owner][n] # "CELL"
    BY <1>1, <2>1 DEF MayRefer, Careful
  <2>3. n \notin cell[owner]
    BY <1>3, <1>4, <2>2 DEF NameOK
  <2>4. /\ n \notin Known(scope) /\ NameOK(scope, n)
        /\ UNCHANGED <<free, cell>>
        /\ allocInfo'[scope][n] = resolve(owner) /\ binder'[scope][n] = owner
        /\ \A s \in ScopeId, m \in Name : s # scope \/ m # n =>
              allocInfo'[s][m] = allocInfo[s][m] /\ binder'[s][m] = binder[s][m]
    BY <1>2, <1>3, <1>6 DEF LookedUp, ScopeInv, TypeOK, NameInv
  <2> scope' = scope
    BY ReferenceCases
  <2>5. NameOK(scope, n)'
    <3>1. n \notin free[scope] /\ n \notin cell[scope]
      BY <1>2, <2>4 DEF NameOK, Known
    <3>2. allocInfo'[scope][n] = IF owner = 1 THEN "GLOBAL" ELSE "LOCAL"
      BY <2>1, <2>4
    <3>3. binder'[scope][n] = owner /\ owner # 0 /\ free' = free /\ cell' = cell
      BY <1>4, <2>4
    <3> QED
      BY <2>3, <3>1, <3>2, <3>3 DEF NameOK, Known
  <2>6. ASSUME NEW s \in ScopeId, NEW m \in Name, s # scope \/ m # n PROVE NameOK(s, m)'
    <3>1. /\ allocInfo'[s][m] = allocInfo[s][m] /\ binder'[s][m] = binder[s][m]
          /\ free' = free /\ cell' = cell
      BY <2>4, <2>6
    <3>2. NameOK(s, m)
      BY DEF NameInv
    <3> QED
      BY <3>1, <3>2 DEF NameOK, Known
  <2> QED
    BY <2>5, <2>6 DEF NameInv
<1> QED
  BY <1>1, <1>5, <1>6

LEMMA NextNameInv == Careful /\ ScopeInv /\ NameInv /\ [Next]_vars => NameInv'
<1> SUFFICES ASSUME Careful, ScopeInv, NameInv, [Next]_vars PROVE NameInv'
  OBVIOUS
<1>1. CASE OpenBlock
  BY <1>1, OpenNameInv DEF OpenBlock, ScopeType
<1>2. CASE OpenFunction
  <2>1. PICK n \in Name, params \in SUBSET Name : n \notin Known(scope) /\ Open("FUNCTION", params \cup {n}, {n})
    BY <1>2 DEF OpenFunction, MayDeclare, Careful
  <2> QED
    BY <2>1, OpenNameInv DEF ScopeType
<1>3. CASE OpenLambda
  BY <1>3, OpenNameInv DEF OpenLambda, ScopeType
<1>4. CASE OpenClass
  <2>1. PICK n \in Name : n \notin Known(scope) /\ Open("CLASS", {}, {n})
    BY <1>4 DEF OpenClass, MayDeclare, Careful
  <2> QED
    BY <2>1, OpenNameInv DEF ScopeType
<1>5. CASE DeclareVar
  <2>1. PICK n \in Name :
             /\ n \notin Known(scope)
             /\ scope \in Opened /\ scope \in ScopeId
             /\ allocInfo' = [allocInfo EXCEPT ![scope][n] = DeclaredType(scope)]
             /\ binder' = [binder EXCEPT ![scope][n] = scope]
             /\ UNCHANGED <<tree, free, cell, pc>>
    BY <1>5, DeclareTables DEF Careful
  <2>2. \A s \in ScopeId, m \in Name :
              \/ allocInfo'[s][m] = allocInfo[s][m] /\ binder'[s][m] = binder[s][m]
              \/ /\ m \notin Known(s)
                 /\ binder'[s][m] = s
                 /\ allocInfo'[s][m] = IF s = 1 THEN "GLOBAL" ELSE "LOCAL"
    BY <2>1, DeclaredTypes DEF ScopeInv, TypeOK
  <2> QED
    BY <2>1, <2>2, DeclareNameInv
<1>6. CASE Reference
  BY <1>6, ReferenceNameInv
<1>7. CASE Close \/ ReferenceError \/ UNCHANGED vars
  <2>1. UNCHANGED <<allocInfo, binder, free, cell>>
    BY <1>7 DEF Close, ReferenceError, vars
  <2> QED
    BY <2>1 DEF NameInv, NameOK, Known
<1> QED
  BY <1>1, <1>2, <1>3, <1>4, <1>5, <1>6, <1>7 DEF Next

LEMMA InitNameInv == Init => NameInv
  BY DEF Init, NameInv, NameOK, Known, ScopeId

LEMMA NameInvImplies ==
    ScopeInv /\ NameInv => GlobalsStayGlobal /\ PromotedEverywhere /\ OneCellPerName
<1> SUFFICES ASSUME ScopeInv, NameInv
             PROVE  GlobalsStayGlobal /\ PromotedEverywhere /\ OneCellPerName
  OBVIOUS
<1>1. Opened \subseteq ScopeId /\ \A s \in ScopeId : free[s] \subseteq Name
  BY ScopeAssumption DEF ScopeInv, TypeOK, Opened, ScopeId
<1>2. GlobalsStayGlobal
  BY <1>1 DEF GlobalsStayGlobal, GlobalsNotCaptured, NameInv, NameOK
<1>3. PromotedEverywhere
  BY <1>1 DEF PromotedEverywhere, NameInv, NameOK
<1>4. OneCellPerName
  BY <1>1 DEF OneCellPerName, NameInv, NameOK
<1> QED
  BY <1>2, <1>3, <1>4

LEMMA CarefulInvariant == ASSUME Careful PROVE Spec => [](ScopeInv /\ NameInv)
<1>1. ScopeInv /\ NameInv /\ [Next]_vars => (ScopeInv /\ NameInv)'
  BY NextScopeInv, NextNameInv
<1> QED
  BY <1>1, InitScopeInv, InitNameInv, PTL DEF Spec

(* A global variable is reached as one from every scope that uses it. *)
THEOREM GlobalsAreGlobal == ASSUME Careful PROVE Spec => []GlobalsStayGlobal
  BY CarefulInvariant, NameInvImplies, PTL

(* A captured variable is in its cell for every scope that uses it. *)
THEOREM CapturedAreCells == ASSUME Careful PROVE Spec => []PromotedEverywhere
  BY CarefulInvariant, NameInvImplies, PTL

(* No function both captures a variable and owns it. *)
THEOREM CellsAreUnique == ASSUME Careful PROVE Spec => []OneCellPerName
  BY CarefulInvariant, NameInvImplies, PTL

-----------------------------------------------------------------------------
(* A function reaches the variables of another through its closure alone.  *)

(* Every scope lies in the code of some function: the innermost on its     *)
(* path to the root.                                                       *)
Innermost(s, f) ==
    /\ f \in chain[s] \cap Functions
    /\ \A g \in chain[s] \cap Functions : g <= f

FunctionInv == \A s \in Opened : \E f \in ScopeId : Innermost(s, f)

(* A name denotes a declaration of an enclosing scope; every function      *)
(* between the two, unless the declaration is global, captures the name    *)
(* and finds it in a cell.                                                 *)
Captured(s, n, b) ==
    b # 0 => /\ b \in chain[s]
             /\ b # 1 => \A t \in chain[s] : t > b /\ type[t] = "FUNCTION" =>
                            n \in free[t] /\ n \in cell[b]

ForeignInv == \A s \in Opened, n \in Name : Captured(s, n, binder[s][n])

(* A scope's own declaration is behind no other scope. *)
LEMMA OwnCaptured == ScopeInv => \A s \in Opened, n \in Name : Captured(s, n, s)
<1> SUFFICES ASSUME ScopeInv, NEW s \in Opened, NEW n \in Name PROVE Captured(s, n, s)
  OBVIOUS
<1>1. s \in chain[s] /\ \A t \in chain[s] : ~(t > s)
  BY ScopeAssumption DEF ScopeInv, TreeInv, TypeOK, Opened, ScopeId
<1> QED
  BY <1>1 DEF Captured

LEMMA OpenForeign ==
    ASSUME ScopeInv, FunctionInv, ForeignInv,
           NEW t \in ScopeType \ {"GLOBAL"}, NEW N \in SUBSET Name, NEW outer \in SUBSET Name,
           Open(t, N, outer)
    PROVE  FunctionInv' /\ ForeignInv'
<1>0. PICK new \in ScopeId : new = opened + 1
  BY OpenTables
<1>a. /\ opened + 1 \in ScopeId \ Opened /\ scope \in Opened /\ Opened \subseteq ScopeId
      /\ Opened' = Opened \cup {opened + 1}
  BY OpenTables, ScopeAssumption DEF Open, ScopeInv, TypeOK, Opened, ScopeId
<1>c. \A s \in Opened : chain[s] \subseteq Opened /\ \A u \in chain[s] : u < opened + 1
  BY ScopeAssumption DEF ScopeInv, TreeInv, TypeOK, Opened, ScopeId
<1>1. /\ new \in ScopeId \ Opened /\ scope \in Opened /\ Opened \subseteq ScopeId
      /\ Opened' = Opened \cup {new}
      /\ \A s \in Opened : chain[s] \subseteq Opened /\ \A u \in chain[s] : u < new
  BY <1>0, <1>a, <1>c
<1>2. /\ \A s \in Opened : type'[s] = type[s] /\ chain'[s] = chain[s]
      /\ type'[new] = t /\ chain'[new] = chain[scope] \cup {new}
      /\ UNCHANGED <<free, cell>>
  BY <1>0, <1>1 DEF Open, ScopeInv, TypeOK
<1>3. ScopeInv'
  BY OpenScopeInv
<1>4. \A s \in Opened : s \in Functions' <=> s \in Functions
  BY <1>1, <1>2 DEF Functions
<1>5. FunctionInv'
  <2>1. ASSUME NEW s \in Opened, NEW f \in ScopeId, Innermost(s, f) PROVE Innermost(s, f)'
    BY <1>1, <1>2, <1>4, <2>1 DEF Innermost
  <2>2. PICK f \in ScopeId : Innermost(scope, f)
    BY <1>1 DEF FunctionInv
  <2>3. CASE t = "FUNCTION"
    <3>1. new \in Functions'
      BY <1>1, <1>2, <2>3 DEF Functions
    <3>2. new <= new /\ \A u \in chain[scope] : u <= new
      BY <1>1 DEF Opened, ScopeId
    <3>3. Innermost(new, new)'
      BY <1>2, <3>1, <3>2 DEF Innermost
    <3> QED
      BY <1>1, <2>1, <3>3 DEF FunctionInv
  <2>4. CASE t # "FUNCTION"
    <3>1. new # 1
      BY <1>1, ScopeAssumption DEF ScopeInv, TypeOK, Opened, ScopeId
    <3>2. new \notin Functions'
      BY <1>2, <2>4, <3>1 DEF Functions
    <3>3. Innermost(new, f)'
      BY <1>1, <1>2, <1>4, <2>2, <3>2 DEF Innermost
    <3> QED
      BY <1>1, <2>1, <3>3 DEF FunctionInv
  <2> QED
    BY <2>3, <2>4
<1>b. (\A s \in Opened, n \in Name : Captured(s, n, s))'
  BY <1>3, OwnCaptured, PTL
<1>6. ASSUME NEW s \in Opened', NEW n \in Name PROVE Captured(s, n, binder[s][n])'
  <2>1. CASE binder'[s][n] = s
    BY <1>b, <2>1 DEF Captured
  <2>2. CASE s = new /\ binder'[s][n] # s
    <3>1. binder[s][n] = 0
      BY <1>1, <2>2 DEF ScopeInv, FreshInv
    <3>2. binder'[s][n] = binder[s][n]
      BY <1>0, <2>2, OpenTables
    <3> QED
      BY <3>1, <3>2 DEF Captured
  <2>3. CASE s \in Opened /\ binder'[s][n] # s
    <3>1. binder'[s][n] = binder[s][n]
      BY <1>0, <1>1, <2>3, OpenTables
    <3>2. Captured(s, n, binder[s][n])
      BY <2>3 DEF ForeignInv
    <3> QED
      BY <1>1, <1>2, <2>3, <3>1, <3>2 DEF Captured
  <2> QED
    BY <1>1, <1>6, <2>1, <2>2, <2>3
<1> QED
  BY <1>5, <1>6 DEF ForeignInv

LEMMA ReferenceForeign ==
    ASSUME Careful, ScopeInv, NameInv, ForeignInv, Reference
    PROVE  ForeignInv'
<1>1. PICK n \in Name \ Known(scope), owner \in chain[scope], meant \in chain[scope] :
        /\ FirstKnows(n, owner) /\ FirstDeclares(n, meant) /\ MayRefer(n, owner)
        /\ \/ resolve(owner) = "CELL" /\ Captures(n, owner, meant)
           \/ resolve(owner) # "CELL" /\ LookedUp(n, owner, meant)
  BY ReferenceCases
<1>2. Opened' = Opened /\ UNCHANGED <<scope, type, chain>>
  BY ReferenceCases DEF Opened
<1>3. meant = owner
  BY <1>1, OwnerMeant DEF MayRefer, Careful
<1>4. /\ scope \in Opened /\ Opened \subseteq ScopeId /\ owner \in Opened
      /\ chain[scope] \subseteq Opened /\ Passed(owner) \subseteq Opened
  BY <1>1, PathToOwner
<1>5. CASE resolve(owner) = "CELL" /\ Captures(n, owner, meant)
  <2>1. \A r \in ScopeId : free[r] \subseteq free'[r] /\ cell[r] \subseteq cell'[r]
    BY <1>1, <1>5, CaptureStep
  <2>2. ASSUME NEW s \in Opened, NEW m \in Name PROVE Captured(s, m, binder[s][m])'
    <3>1. CASE m = n /\ s \in Passed(owner)
      <4>1. binder'[s][n] = owner /\ n \in cell'[owner] /\ \A r \in Passed(owner) : n \in free'[r]
        BY <1>1, <1>3, <1>5, <3>1, CaptureStep
      <4>2. owner \in chain[s] /\ chain[s] \subseteq chain[scope]
        BY <1>4, <3>1, ScopeAssumption DEF Passed, ScopeInv, TreeInv, Opened, ScopeId
      <4>3. \A r \in chain[s] : r > owner => r \in Passed(owner)
        BY <4>2 DEF Passed
      <4> QED
        BY <1>2, <3>1, <4>1, <4>2, <4>3 DEF Captured
    <3>2. CASE ~(m = n /\ s \in Passed(owner))
      <4>1. binder'[s][m] = binder[s][m]
        BY <1>1, <1>4, <1>5, <3>2, CaptureStep
      <4>2. Captured(s, m, binder[s][m])
        BY DEF ForeignInv
      <4>3. chain[s] \subseteq ScopeId
        BY <1>4, ScopeAssumption DEF ScopeInv, TypeOK
      <4> QED
        BY <1>2, <2>1, <4>1, <4>2, <4>3 DEF Captured
    <3> QED
      BY <3>1, <3>2
  <2> QED
    BY <1>2, <2>2 DEF ForeignInv
<1>6. CASE resolve(owner) # "CELL" /\ LookedUp(n, owner, meant)
  <2>1. /\ UNCHANGED <<free, cell>> /\ binder'[scope][n] = owner
        /\ \A s \in ScopeId, m \in Name : s # scope \/ m # n => binder'[s][m] = binder[s][m]
    BY <1>3, <1>4, <1>6 DEF LookedUp, ScopeInv, TypeOK
  <2>2. owner = 1 \/ \A s \in chain[scope] : s > owner => type[s] # "FUNCTION"
    BY <1>4, <1>6 DEF resolve, CrossesFunction, Passed, ScopeInv, TreeInv
  <2>3. Captured(scope, n, binder[scope][n])'
    BY <1>2, <2>1, <2>2 DEF Captured
  <2>4. ASSUME NEW s \in Opened, NEW m \in Name, s # scope \/ m # n
        PROVE  Captured(s, m, binder[s][m])'
    <3>1. Captured(s, m, binder[s][m]) /\ binder'[s][m] = binder[s][m]
      BY <1>4, <2>1, <2>4 DEF ForeignInv
    <3> QED
      BY <1>2, <2>1, <3>1 DEF Captured
  <2> QED
    BY <1>2, <2>3, <2>4 DEF ForeignInv
<1> QED
  BY <1>1, <1>5, <1>6

LEMMA NextForeign ==
    Careful /\ ScopeInv /\ NameInv /\ FunctionInv /\ ForeignInv /\ [Next]_vars
      => FunctionInv' /\ ForeignInv'
<1> SUFFICES ASSUME Careful, ScopeInv, NameInv, FunctionInv, ForeignInv, [Next]_vars
             PROVE  FunctionInv' /\ ForeignInv'
  OBVIOUS
<1>1. CASE OpenBlock
  BY <1>1, OpenForeign DEF OpenBlock, ScopeType
<1>2. CASE OpenFunction
  BY <1>2, OpenForeign DEF OpenFunction, ScopeType
<1>3. CASE OpenLambda
  BY <1>3, OpenForeign DEF OpenLambda, ScopeType
<1>4. CASE OpenClass
  BY <1>4, OpenForeign DEF OpenClass, ScopeType
<1>5. CASE UNCHANGED <<opened, type, chain>>
  <2>1. FunctionInv'
    BY <1>5 DEF FunctionInv, Innermost, Functions, Opened
  <2>2. CASE Reference
    BY <2>1, <2>2, ReferenceForeign
  <2>3. CASE DeclareVar
    <3>1. PICK n \in Name : /\ scope \in Opened /\ scope \in ScopeId
                            /\ binder' = [binder EXCEPT ![scope][n] = scope]
                            /\ UNCHANGED <<free, cell>>
      BY <2>3, DeclareTables
    <3>2. ASSUME NEW s \in Opened, NEW m \in Name PROVE Captured(s, m, binder[s][m])'
      <4>1. binder'[s][m] \in {binder[s][m], s}
        BY <3>1, ScopeAssumption DEF ScopeInv, TypeOK, Opened, ScopeId
      <4>2. Captured(s, m, binder[s][m]) /\ Captured(s, m, s)
        BY OwnCaptured DEF ForeignInv
      <4> QED
        BY <1>5, <3>1, <4>1, <4>2 DEF Captured
    <3> QED
      BY <1>5, <2>1, <3>2 DEF ForeignInv, Opened
  <2>4. CASE Close \/ ReferenceError \/ UNCHANGED vars
    <3>1. UNCHANGED <<binder, free, cell>>
      BY <2>4 DEF Close, ReferenceError, vars
    <3> QED
      BY <1>5, <2>1, <3>1 DEF ForeignInv, Captured, Opened
  <2>5. ~OpenBlock /\ ~OpenFunction /\ ~OpenLambda /\ ~OpenClass
    <3>1. Opened' = Opened
      BY <1>5 DEF Opened
    <3> QED
      BY <3>1, OpenedGrows
  <2> QED
    BY <2>2, <2>3, <2>4, <2>5 DEF Next
<1>6. Close \/ DeclareVar \/ Reference \/ ReferenceError \/ UNCHANGED vars
        => UNCHANGED <<opened, type, chain>>
  BY ReferenceCases DEF Close, DeclareVar, ReferenceError, vars, tree
<1> QED
  BY <1>1, <1>2, <1>3, <1>4, <1>5, <1>6 DEF Next

(* FunctionOf chooses the innermost function, which exists. *)
LEMMA InnermostUnique ==
    ASSUME ScopeInv, FunctionInv, NEW s \in Opened
    PROVE  Innermost(s, FunctionOf(s)) /\ FunctionOf(s) \in Opened
<1>1. chain[s] \subseteq Opened
  BY ScopeAssumption DEF ScopeInv, TreeInv, TypeOK, Opened, ScopeId
<1>2. PICK f \in ScopeId : Innermost(s, f)
  BY DEF FunctionInv
<1>3. f \in chain[s] \cap Functions /\ \A g \in chain[s] \cap Functions : g <= f
  BY <1>2 DEF Innermost
<1>4. /\ FunctionOf(s) \in chain[s] \cap Functions
      /\ \A g \in chain[s] \cap Functions : g <= FunctionOf(s)
  BY <1>3 DEF FunctionOf
<1> QED
  BY <1>1, <1>4 DEF Innermost

LEMMA ForeignInvImplies ==
    ScopeInv /\ NameInv /\ FunctionInv /\ ForeignInv => NoForeignSlot
<1> SUFFICES ASSUME ScopeInv, NameInv, FunctionInv, ForeignInv,
                    NEW s \in Opened, NEW n \in Name, binder[s][n] \notin {0, 1}
             PROVE  IF FunctionOf(s) = FunctionOf(binder[s][n])
                    THEN allocInfo[s][n] \in {"LOCAL", "CELL"}
                    ELSE allocInfo[s][n] = "CELL" /\ n \in free[FunctionOf(s)] /\ n \in cell[binder[s][n]]
  BY DEF NoForeignSlot
<1> DEFINE b == binder[s][n]
<1>1. Opened \subseteq ScopeId /\ chain[s] \subseteq Opened
  BY ScopeAssumption DEF ScopeInv, TreeInv, TypeOK, Opened, ScopeId
<1>2. b \in chain[s] /\ b \in Opened /\ Captured(s, n, b) /\ NameOK(s, n)
  BY <1>1 DEF ForeignInv, Captured, NameInv
<1>3. Innermost(s, FunctionOf(s)) /\ Innermost(b, FunctionOf(b))
      /\ FunctionOf(s) \in Opened /\ FunctionOf(b) \in Opened
  BY <1>2, InnermostUnique
<1>4. CASE FunctionOf(s) <= b
  <2>1. FunctionOf(s) \in chain[b] /\ FunctionOf(b) \in chain[s]
    BY <1>2, <1>3, <1>4 DEF ScopeInv, TreeInv, Innermost
  <2>2. FunctionOf(s) <= FunctionOf(b) /\ FunctionOf(b) <= FunctionOf(s)
    BY <1>3, <2>1 DEF Innermost
  <2>3. FunctionOf(s) = FunctionOf(b)
    <3>1. \A i, j \in ScopeId : i <= j /\ j <= i => i = j
      BY ScopeAssumption DEF ScopeId
    <3> QED
      BY <1>1, <1>3, <2>2, <3>1
  <2>4. allocInfo[s][n] \in AllocType \cup {"NONE"}
    BY <1>1 DEF ScopeInv, TypeOK
  <2> QED
    BY <1>1, <1>2, <2>3, <2>4 DEF NameOK, Known, AllocType
<1>5. CASE FunctionOf(s) > b
  <2>1. FunctionOf(s) \in chain[s] /\ type[FunctionOf(s)] = "FUNCTION"
    <3>1. \A i \in ScopeId : ~(1 > i)
      BY ScopeAssumption DEF ScopeId
    <3>2. FunctionOf(s) # 1
      BY <1>1, <1>2, <1>5, <3>1
    <3> QED
      BY <1>3, <3>2 DEF Innermost, Functions
  <2>2. n \in free[FunctionOf(s)] /\ n \in cell[b]
    BY <1>2, <1>5, <2>1 DEF Captured
  <2>3. FunctionOf(s) # FunctionOf(b)
    BY <1>2, <1>3, <1>5 DEF Innermost, ScopeInv, TreeInv, Opened
  <2> QED
    BY <1>2, <2>2, <2>3 DEF NameOK
<1> QED
  BY <1>1, <1>2, <1>3, <1>4, <1>5 DEF ScopeId

(* The code of a function addresses no slot of another function's frame.   *)
THEOREM SlotsAreOwn == ASSUME Careful PROVE Spec => []NoForeignSlot
<1>1. Init => FunctionInv /\ ForeignInv
  <2> SUFFICES ASSUME Init PROVE FunctionInv /\ ForeignInv
    OBVIOUS
  <2>1. Opened = {1} /\ 1 \in ScopeId /\ chain[1] = {1}
    BY ScopeAssumption DEF Init, Opened, ScopeId
  <2>2. Innermost(1, 1)
    BY <2>1 DEF Innermost, Functions
  <2>3. \A n \in Name : binder[1][n] = 0
    BY <2>1 DEF Init
  <2> QED
    BY <2>1, <2>2, <2>3 DEF FunctionInv, ForeignInv, Captured
<1>2. ScopeInv /\ NameInv /\ FunctionInv /\ ForeignInv /\ [Next]_vars => FunctionInv' /\ ForeignInv'
  BY NextForeign
<1> QED
  BY <1>1, <1>2, CarefulInvariant, ForeignInvImplies, PTL DEF Spec

=============================================================================
