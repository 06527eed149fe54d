----------------------------- MODULE EvaAnalyzer -----------------------------
(***************************************************************************)
(* The syntax tree the parser hands over (struct Exp) and the compiler's   *)
(* second pass over it: analyze (src/compiler/EvaCompiler.h) with the      *)
(* Scopes it leaves in scopeInfo_ (src/compiler/Scope.h).  EvaScope checks *)
(* the same pass over arbitrary programs; here it is a function of one     *)
(* program, for the code generator to use.                                 *)
(***************************************************************************)
EXTENDS Integers, Sequences, SequencesExt

Number(n) == [type |-> "NUMBER", number |-> n]
String(s) == [type |-> "STRING", string |-> s]
Symbol(s) == [type |-> "SYMBOL", string |-> s]
List(l) == [type |-> "LIST", list |-> l]

(* exp.list[i] and exp.list.size() *)
At(exp, i) == exp.list[i + 1]
Size(exp) == Len(exp.list)

isTaggedList(exp, tag) == exp.type = "LIST" /\ At(exp, 0) = Symbol(tag)

(* The addresses of the nodes, by which scopeInfo_ knows the scopes, are   *)
(* their paths from the root; the analysis threads [scopes, died].         *)
NoScope == <<-1>>
NewScope(type, parent) ==
    [type |-> type, parent |-> parent, allocInfo |-> <<>>, free |-> {}, cell |-> {}]

open(a, path, type, parent) == [a EXCEPT !.scopes = (path :> NewScope(type, parent)) @@ @]

setAlloc(a, s, name, allocType) == [a EXCEPT !.scopes[s].allocInfo = (name :> allocType) @@ @]

declared(scope) == IF scope.type = "GLOBAL" THEN "GLOBAL" ELSE "LOCAL"
addLocal(a, s, name) == setAlloc(a, s, name, declared(a.scopes[s]))

RECURSIVE resolve(_, _, _, _)
resolve(scopes, s, name, allocType) ==
    LET up == scopes[s].parent
        crossed == IF scopes[s].type = "FUNCTION" THEN "CELL" ELSE allocType
    IN CASE name \in DOMAIN scopes[s].allocInfo -> <<s, allocType>>
         [] name \notin DOMAIN scopes[s].allocInfo /\ up = NoScope -> <<NoScope, crossed>>
         [] OTHER -> resolve(scopes, up, name,
                             IF scopes[up].type = "GLOBAL" THEN "GLOBAL" ELSE crossed)

\* Mutant: the functions between the two do not pass the cell on.
promoteHere(a, s, name, owner) ==
    LET marked == setAlloc(setAlloc(a, s, name, "CELL"), owner, name, "CELL")
    IN [marked EXCEPT !.scopes[s].free = @ \cup {name}, !.scopes[owner].cell = @ \cup {name}]

(* The walk of `scope = scope->parent` from s to its owner: addFree on     *)
(* every scope it passes, after addCell on the owner.                      *)
promote(a, s, name, owner) ==
    LET passed == {t \in DOMAIN a.scopes : IsPrefix(t, s) /\ IsStrictPrefix(owner, t)}
        marked == [t \in DOMAIN a.scopes |->
                     IF t \in passed \cup {owner}
                     THEN [a.scopes[t] EXCEPT !.allocInfo = (name :> "CELL") @@ @] ELSE a.scopes[t]]
    IN [a EXCEPT !.scopes = [t \in DOMAIN marked |->
            CASE t = owner -> [marked[t] EXCEPT !.cell = @ \cup {name}]
              [] t \in passed -> [marked[t] EXCEPT !.free = @ \cup {name}]
              [] OTHER -> marked[t]]]

maybePromote(a, s, name) ==
    LET known == name \in DOMAIN a.scopes[s].allocInfo
        initAllocType == IF known THEN a.scopes[s].allocInfo[name] ELSE declared(a.scopes[s])
        found == resolve(a.scopes, s, name, initAllocType)
    IN CASE initAllocType = "CELL" -> a
         [] initAllocType # "CELL" /\ found[1] = NoScope -> [a EXCEPT !.died = TRUE]
         [] initAllocType # "CELL" /\ found[1] # NoScope /\ found[2] = "CELL" ->
              promote(a, s, name, found[1])
         [] OTHER -> setAlloc(a, s, name, found[2])

addLocals(a, s, params) ==
    FoldLeft(LAMBDA b, param : addLocal(b, s, param.string), a, params.list)

RECURSIVE analyze(_, _, _, _)

Indexes(i, exp) == [k \in 1..(Size(exp) - i) |-> i + k - 1]

analyzeAt(a, exp, path, i, s) == analyze(a, At(exp, i), Append(path, i), s)

analyzeFrom(a, exp, path, i, s) ==
    FoldLeft(LAMBDA b, k : analyzeAt(b, exp, path, k, s), a, Indexes(i, exp))

analyzeDef(a, exp, path, s) ==
    LET name == At(exp, 1).string
        inner == open(addLocal(a, s, name), path, "FUNCTION", s)
    IN analyzeAt(addLocals(addLocal(inner, path, name), path, At(exp, 2)), exp, path, 3, path)

(* A name in the place of the function that is called is not looked at:    *)
(* the walk over a call starts at its first argument.                      *)
analyze(a, exp, path, s) ==
    IF a.died \/ exp.type \in {"NUMBER", "STRING"} THEN a ELSE
    CASE exp.type = "SYMBOL" ->
           IF exp.string \in {"true", "false", "null"} THEN a ELSE maybePromote(a, s, exp.string)
      [] isTaggedList(exp, "begin") ->
           analyzeFrom(open(a, path, IF s = NoScope THEN "GLOBAL" ELSE "BLOCK", s),
                       exp, path, 1, path)
      [] isTaggedList(exp, "var") ->
           analyzeAt(addLocal(a, s, At(exp, 1).string), exp, path, 2, s)
      [] isTaggedList(exp, "def") -> analyzeDef(a, exp, path, s)
      [] isTaggedList(exp, "lambda") ->
           analyzeAt(addLocals(open(a, path, "FUNCTION", s), path, At(exp, 1)), exp, path, 2, path)
      [] isTaggedList(exp, "class") ->
           analyzeFrom(addLocal(open(a, path, "CLASS", s), s, At(exp, 1).string),
                       exp, path, 3, path)
      [] isTaggedList(exp, "prop") -> analyzeAt(a, exp, path, 1, s)
      [] OTHER -> analyzeFrom(a, exp, path, 1, s)

=============================================================================
