------------------------------- MODULE EvaScope -------------------------------
(***************************************************************************)
(* The second pass of the compiler: analyze (src/compiler/EvaCompiler.h)   *)
(* walks the program and decides, on a tree of Scopes                      *)
(* (src/compiler/Scope.h), whether each name is a global, a slot of the    *)
(* operand stack or a cell of a closure.                                   *)
(*                                                                         *)
(* The program is not a datum here: its text is the sequence of the scopes *)
(* it opens, the names it declares and the names it refers to, chosen one  *)
(* at a time, so that a behaviour is the analysis of an arbitrary program. *)
(* Expressions that neither open a scope nor mention a name are absent.    *)
(***************************************************************************)
EXTENDS Integers

CONSTANTS
    Name,
    MaxScopes,      \* bound: scopes in the program
    ReadThrough,    \* may a name be looked up through a scope that looked
                    \* it up itself, and so knows it without declaring it?
    ShareCaptured,  \* may a variable that a closure captures be used, too,
                    \* in a block nested in its own function?
    Redeclare       \* may a scope declare a name it already knows?

ASSUME ScopeAssumption ==
    /\ MaxScopes \in Nat \ {0}
    /\ ReadThrough \in BOOLEAN
    /\ ShareCaptured \in BOOLEAN
    /\ Redeclare \in BOOLEAN

ScopeType == {"GLOBAL", "FUNCTION", "BLOCK", "CLASS"}
AllocType == {"GLOBAL", "LOCAL", "CELL"}

ScopeId == 1..MaxScopes     \* in the order they are opened; 1 is global

VARIABLES
    opened,     \* how many scopes there are in scopeInfo_
    scope,      \* the `scope` argument of the analyze() that is running
    type, parent, allocInfo, free, cell,    \* the members of each Scope
    chain,      \* chain[s]: s and the scopes its `parent` pointers lead to
    binder,     \* history: binder[s][n] is the scope whose declaration the
                \* name n denotes in the text of s; 0 if n is not used there
    pc          \* "analyze", "done" or "died"

tree == <<opened, scope, type, parent, chain>>
vars == <<tree, allocInfo, free, cell, binder, pc>>

TypeOK ==
    /\ opened \in ScopeId
    /\ scope \in 1..opened
    /\ type \in [ScopeId -> ScopeType]
    /\ parent \in [ScopeId -> 0..MaxScopes]
    /\ chain \in [ScopeId -> SUBSET ScopeId]
    /\ allocInfo \in [ScopeId -> [Name -> AllocType \cup {"NONE"}]]
    /\ free \in [ScopeId -> SUBSET Name]
    /\ cell \in [ScopeId -> SUBSET Name]
    /\ binder \in [ScopeId -> [Name -> 0..MaxScopes]]
    /\ pc \in {"analyze", "done", "died"}

-----------------------------------------------------------------------------

(* exec wraps the program in (begin ...): its scope is the global one.     *)
Init ==
    /\ opened = 1
    /\ scope = 1
    /\ type = [s \in ScopeId |-> IF s = 1 THEN "GLOBAL" ELSE "BLOCK"]
    /\ parent = [s \in ScopeId |-> 0]
    /\ chain = [s \in ScopeId |-> IF s = 1 THEN {1} ELSE {}]
    /\ allocInfo = [s \in ScopeId |-> [n \in Name |-> "NONE"]]
    /\ free = [s \in ScopeId |-> {}]
    /\ cell = [s \in ScopeId |-> {}]
    /\ binder = [s \in ScopeId |-> [n \in Name |-> 0]]
    /\ pc = "analyze"

Known(s) == {n \in Name : allocInfo[s][n] # "NONE"}

DeclaredType(s) == IF type[s] = "GLOBAL" THEN "GLOBAL" ELSE "LOCAL"

MayDeclare(n) == pc = "analyze" /\ (Redeclare \/ n \notin Known(scope))

(* addLocal of the names N of scope s, on top of the table t *)
addLocal(t, s, N, value) ==
    [t EXCEPT ![s] = [n \in Name |-> IF n \in N THEN value ELSE @[n]]]

(* A new Scope under the current one, in which analyze() goes on.  The     *)
(* names N are its function's name and parameters; `outer` is the name     *)
(* that the scope's own declaration gives to it in the current scope.      *)
Open(t, N, outer) ==
    /\ opened < MaxScopes
    /\ opened' = opened + 1
    /\ scope' = opened + 1
    /\ type' = [type EXCEPT ![opened + 1] = t]
    /\ parent' = [parent EXCEPT ![opened + 1] = scope]
    /\ chain' = [chain EXCEPT ![opened + 1] = chain[scope] \cup {opened + 1}]
    /\ allocInfo' = addLocal(addLocal(allocInfo, scope, outer, DeclaredType(scope)),
                             opened + 1, N, "LOCAL")
    /\ binder' = addLocal(addLocal(binder, scope, outer, scope), opened + 1, N, opened + 1)
    /\ UNCHANGED <<free, cell, pc>>

(* (begin ...) *)
OpenBlock == pc = "analyze" /\ Open("BLOCK", {}, {})

(* (def n (params) body): in its own scope, n is the running function      *)
OpenFunction == \E n \in Name, params \in SUBSET Name :
    MayDeclare(n) /\ Open("FUNCTION", params \cup {n}, {n})

(* (lambda (params) body) *)
OpenLambda == \E params \in SUBSET Name :
    pc = "analyze" /\ Open("FUNCTION", params, {})

(* (class n super ...) *)
OpenClass == \E n \in Name :
    MayDeclare(n) /\ Open("CLASS", {}, {n})

(* Mutant: the walk goes past the root, to its null parent. *)
IsNull(s) == s = 0
IsRoot(s) == parent[s] = 0

(* analyze() returns from the expression that opened the scope *)
Close ==
    /\ pc = "analyze"
    /\ IF IsRoot(scope)
       THEN pc' = "done" /\ UNCHANGED scope
       ELSE scope' = parent[scope] /\ UNCHANGED pc
    /\ UNCHANGED <<opened, type, parent, chain, allocInfo, free, cell, binder>>

(* (var n ...): the initializer is analysed after the declaration *)
DeclareVar == \E n \in Name :
    /\ MayDeclare(n)
    /\ allocInfo' = addLocal(allocInfo, scope, {n}, DeclaredType(scope))
    /\ binder' = addLocal(binder, scope, {n}, scope)
    /\ UNCHANGED <<tree, free, cell, pc>>

-----------------------------------------------------------------------------
(* A reference to a name: maybePromote.                                    *)

(* The scopes that a lookup leaves behind on its way up to `owner`. *)
Passed(owner) == {s \in chain[scope] : s > owner}

(* Where resolve() stops: the first scope that knows the name. *)
FirstKnows(n, owner) == n \in Known(owner) /\ \A s \in Passed(owner) : n \notin Known(s)

Declares(s, n) == binder[s][n] = s

(* Where the text of the program has the declaration of the name. *)
FirstDeclares(n, s) == Declares(s, n) /\ \A t \in Passed(s) : ~Declares(t, n)

CrossesFunction(owner) == \E s \in Passed(owner) : type[s] = "FUNCTION"

(* Mutants: a global variable found past a function is captured like any   *)
(* other; the boundary of a function is not noticed.                       *)
resolveAnyOwner(owner) == IF CrossesFunction(owner) THEN "CELL" ELSE DeclaredType(owner)
resolveOneFunction(owner) == DeclaredType(owner)

(* resolve(), for a name that the current scope does not know *)
resolve(owner) ==
    IF type[owner] # "GLOBAL" /\ CrossesFunction(owner) THEN "CELL" ELSE DeclaredType(owner)

(* Mutants: only the scope of the reference is told that the name is free; *)
(* the walk up the parents does not stop before the owner.                 *)
FreeHere(owner) == {scope}
FreeToOwner(owner) == Passed(owner) \cup {owner}
FreeIn(owner) == Passed(owner)

(* Mutant: the owner goes on to treat the name as its local. *)
PromotedUsers(owner) == FreeIn(owner)
Promoted(owner) == FreeIn(owner) \cup {owner}

(* promote() *)
promote(n, owner) ==
    /\ cell' = [cell EXCEPT ![owner] = @ \cup {n}]
    /\ free' = [s \in ScopeId |-> IF s \in FreeIn(owner) THEN free[s] \cup {n} ELSE free[s]]
    /\ allocInfo' = [s \in ScopeId |-> IF s \in Promoted(owner)
                                       THEN [allocInfo[s] EXCEPT ![n] = "CELL"]
                                       ELSE allocInfo[s]]

(* The programs that keep to what ReadThrough and ShareCaptured allow. *)
MayRefer(n, owner) ==
    /\ ReadThrough \/ Declares(owner, n)
    /\ ShareCaptured \/
         CASE resolve(owner) = "LOCAL" -> allocInfo[owner][n] # "CELL"
           [] resolve(owner) = "CELL" ->
                \A s \in ScopeId \ {owner} : binder[s][n] = owner => allocInfo[s][n] # "LOCAL"
           [] OTHER -> TRUE

(* A name that the current scope knows resolves to what that scope says of *)
(* it, and nothing changes; the first mention of any other name does this. *)
Reference == \E n \in Name \ Known(scope) : \E owner, meant \in chain[scope] :
    /\ pc = "analyze"
    /\ FirstKnows(n, owner) /\ FirstDeclares(n, meant)
    /\ MayRefer(n, owner)
    /\ IF resolve(owner) = "CELL"
       THEN /\ promote(n, owner)
            /\ binder' = [s \in ScopeId |-> IF s \in Passed(owner)
                                            THEN [binder[s] EXCEPT ![n] = meant]
                                            ELSE binder[s]]
       ELSE /\ allocInfo' = [allocInfo EXCEPT ![scope][n] = resolve(owner)]
            /\ binder' = [binder EXCEPT ![scope][n] = meant]
            /\ UNCHANGED <<free, cell>>
    /\ UNCHANGED <<tree, pc>>

(* "[Scope] Reference error": DIE ends the process *)
ReferenceError == \E n \in Name :
    /\ pc = "analyze"
    /\ \A s \in chain[scope] : n \notin Known(s)
    /\ pc' = "died"
    /\ UNCHANGED <<tree, allocInfo, free, cell, binder>>

-----------------------------------------------------------------------------

Next ==
    \/ OpenBlock \/ OpenFunction \/ OpenLambda \/ OpenClass \/ Close
    \/ DeclareVar \/ Reference \/ ReferenceError

Spec == Init /\ [][Next]_vars

-----------------------------------------------------------------------------
(* Properties *)

Opened == 1..opened

(* The function a scope's code belongs to; the global scope's is "main".   *)
Functions == {1} \cup {f \in Opened : type[f] = "FUNCTION"}
FunctionOf(s) == CHOOSE f \in chain[s] \cap Functions : \A g \in chain[s] \cap Functions : g <= f

(* "Thread the variable as free in all parent scopes" (Scope.h): a free    *)
(* variable of a scope is one its parent can hand down, as a free variable *)
(* or a cell of its own.  compileFunction loads it from there.             *)
FreeThreaded ==
    \A s \in Opened : free[s] # {} => parent[s] # 0 /\ free[s] \subseteq free[parent[s]] \cup cell[parent[s]]

(* "hence should be promoted to a cell (unless its actually global)"       *)
(* (Scope.h): what a name of the global scope denotes is never captured.   *)
GlobalsNotCaptured ==
    \A s \in Opened, n \in Name : binder[s][n] = 1 => n \notin free[s] \cup cell[s]

(* ... and is reached as a global variable from every scope that uses it.  *)
GlobalsStayGlobal ==
    GlobalsNotCaptured /\ \A s \in Opened, n \in Name : binder[s][n] = 1 => allocInfo[s][n] = "GLOBAL"

(* "Promote a variable from local (stack) to cell (heap)" (Scope.h): a     *)
(* variable that has been promoted is read on the stack by no scope.       *)
PromotedEverywhere ==
    \A s \in Opened, n \in Name :
        binder[s][n] # 0 /\ n \in cell[binder[s][n]] => allocInfo[s][n] = "CELL"

(* A slot of the operand stack is addressed only by the code of the        *)
(* function that owns the slot: any other gets the variable by a closure,  *)
(* which holds a cell of the scope that declares it.                       *)
NoForeignSlot ==
    \A s \in Opened, n \in Name : binder[s][n] \notin {0, 1} =>
        IF FunctionOf(s) = FunctionOf(binder[s][n])
        THEN allocInfo[s][n] \in {"LOCAL", "CELL"}
        ELSE allocInfo[s][n] = "CELL" /\ n \in free[FunctionOf(s)] /\ n \in cell[binder[s][n]]

(* A function captures a variable or owns it, never both: getCellIndex     *)
(* finds one cell for a name.                                              *)
OneCellPerName == \A s \in Opened : free[s] \cap cell[s] = {}

=============================================================================
