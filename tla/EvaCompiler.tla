----------------------------- MODULE EvaCompiler -----------------------------
(***************************************************************************)
(* The third pass of the compiler: gen (src/compiler/EvaCompiler.h) turns  *)
(* the syntax tree and the scopes that analyze left into bytecode.         *)
(*                                                                         *)
(* The operators thread the compiler's state through the recursion:        *)
(*   heap, globals     the objects and the global variables there are      *)
(*   co, classObject   the code object and the class being compiled        *)
(*   classes           classObjects_                                       *)
(*   scopes, stack     scopeInfo_ and scopeStack_                          *)
(*   died              whether DIE or an exception has ended the process   *)
(***************************************************************************)
EXTENDS EvaValue, EvaAnalyzer, OpCode

code(c) == c.heap[c.co]

-----------------------------------------------------------------------------
(* Writing the current code object. *)

\* Mutant: operands are not cut to a byte.
emitWide(c, bytes) == [c EXCEPT !.heap[c.co].code = @ \o bytes]

(* An operand is a uint8_t: what does not fit is cut to its low byte, and  *)
(* the -1 of a name that is not found becomes 255.                         *)
emit(c, bytes) ==
    [c EXCEPT !.heap[c.co].code = @ \o [i \in DOMAIN bytes |-> bytes[i] % 256]]

getOffset(c) == Len(code(c).code) % 65536

patchJumpAddress(c, offset, value) ==
    [c EXCEPT !.heap[c.co].code[offset + 1] = (value \div 256) % 256,
              !.heap[c.co].code[offset + 2] = value % 256]

alloc(c, object) == [c EXCEPT !.heap = Append(@, object)]
newest(c) == Len(c.heap)

addConstant(c, v) == [c EXCEPT !.heap[c.co].constants = Append(@, v)]
emitConst(c, i) == emit(c, <<OP_CONST, i>>)
emitLastConst(c) == emitConst(c, Len(code(c).constants) - 1)

addName(c, name) ==
    [c EXCEPT !.heap[c.co].locals = Append(@, [name |-> name, scopeLevel |-> code(c).scopeLevel]),
              !.heap[c.co].everLocals = Max({@, Len(code(c).locals) + 1})]

lastIndex(names, name) == Max({0} \cup {i \in DOMAIN names : names[i] = name}) - 1
namesOf(vars) == [i \in DOMAIN vars |-> vars[i].name]

getLocalIndex(c, name) == lastIndex(namesOf(code(c).locals), name)
getCellIndex(c, name) == lastIndex(code(c).cellNames, name)
getGlobalIndex(c, name) == lastIndex(namesOf(c.globals), name)

define(c, name) ==
    IF getGlobalIndex(c, name) # -1 THEN c
    ELSE [c EXCEPT !.globals = Append(@, [name |-> name, value |-> NUMBER(0)])]

(* numericConstIdx, booleanConstIdx and stringConstIdx: a constant already *)
(* in the pool is used again.                                              *)
scalarConst(c, v, i) ==
    LET found == {k \in DOMAIN code(c).constants : code(c).constants[k] = v}
    IN IF found # {} THEN emit(c, <<i, Min(found) - 1>>)
       ELSE LET added == addConstant(c, v) IN emit(added, <<i, Len(code(added).constants) - 1>>)

stringConst(c, s, i) ==
    LET pool == code(c).constants
        found == {k \in DOMAIN pool : IsKind(c.heap, pool[k], "STRING")
                                      /\ c.heap[Payload(pool[k])].string = s}
        made == alloc(c, StringObject(s))
    IN IF found # {} THEN scalarConst(c, pool[Min(found)], i)
       ELSE scalarConst(made, OBJECT(newest(made)), i)

allocType(c, name) ==
    LET info == c.scopes[Last(c.stack)].allocInfo
    IN IF name \in DOMAIN info THEN info[name] ELSE "GLOBAL"  \* what map::operator[] makes

(* scopeInfo_.at(&exp) throws for a tree that analyze did not come to, one *)
(* in the place of the function that is called; nobody catches it.         *)
pushScope(c, path) == [c EXCEPT !.stack = Append(@, path), !.died = @ \/ path \notin DOMAIN c.scopes]
popScope(c) == [c EXCEPT !.stack = Front(@)]

(* emit the opcode, with the index of the name in the globals *)
emitGlobal(c, op, name) ==
    IF getGlobalIndex(c, name) = -1 THEN [c EXCEPT !.died = TRUE]
    ELSE emit(c, <<op, getGlobalIndex(c, name)>>)

-----------------------------------------------------------------------------
(* Blocks *)

isBlock(exp) == isTaggedList(exp, "begin")
isDeclaration(exp) == \E tag \in {"var", "def", "class"} : isTaggedList(exp, tag)

isGlobalScope(c) == code(c).name = "main" /\ code(c).scopeLevel = 1
isFunctionBody(c) == code(c).name # "main" /\ code(c).scopeLevel = 1

blockEnter(c) == [c EXCEPT !.heap[c.co].scopeLevel = @ + 1]

(* The locals that the block declared are at the end of the list.  (Once   *)
(* main has lost its last one the code looks before the first; what it     *)
(* finds there is the size of a memory chunk, which is no scope level.)    *)
getVarsCountOnScopeExit(c) ==
    LET locals == code(c).locals
    IN Len(locals) - Max({0} \cup {i \in DOMAIN locals :
                                     locals[i].scopeLevel # code(c).scopeLevel})

\* Mutants: the callee is not counted; every block pops what the function's does.
paramsOnly(c) == IF isFunctionBody(c) THEN code(c).arity ELSE 0
paramsOfAny(c) == IF code(c).name # "main" THEN code(c).arity + 1 ELSE 0
paramsCount(c) == IF isFunctionBody(c) THEN code(c).arity + 1 ELSE 0

blockExit(c) ==
    LET varsCount == getVarsCountOnScopeExit(c)
        left == [c EXCEPT !.heap[c.co].locals = SubSeq(@, 1, Len(@) - varsCount),
                          !.heap[c.co].scopeLevel = @ - 1]
    IN IF varsCount > 0 \/ code(c).arity > 0
       THEN emit(left, <<OP_SCOPE_EXIT, varsCount + paramsCount(c)>>) ELSE left

-----------------------------------------------------------------------------
(* Expressions *)

RECURSIVE gen(_, _, _)

genAt(c, exp, path, i) == gen(c, At(exp, i), Append(path, i))
genFrom(c, exp, path, i) ==
    FoldLeft(LAMBDA d, k : genAt(d, exp, path, k), c, Indexes(i, exp))

genVariable(c, name) ==
    LET type == allocType(c, name)
    IN CASE type = "LOCAL" -> emit(c, <<OP_GET_LOCAL, getLocalIndex(c, name)>>)
         [] type = "CELL" -> emit(c, <<OP_GET_CELL, getCellIndex(c, name)>>)
         [] type = "GLOBAL" -> emitGlobal(c, OP_GET_GLOBAL, name)

binaryOp == [ o \in {"+", "-", "*", "/"} |->
                CASE o = "+" -> OP_ADD [] o = "-" -> OP_SUB [] o = "*" -> OP_MUL [] o = "/" -> OP_DIV ]
compareOps_ == <<"<", ">", "==", "<=", ">=", "!=">>
compareOp(o) == (CHOOSE i \in DOMAIN compareOps_ : compareOps_[i] = o) - 1

jump(c, op) == emit(c, <<op, 0, 0>>)
\* Mutant: one byte further, as it is at the end of a loop.
patchPastHere(c, hole) == patchJumpAddress(c, hole, getOffset(c) + 1)
patchToHere(c, hole) == patchJumpAddress(c, hole, getOffset(c))

genIf(c, exp, path) ==
    LET test == jump(genAt(c, exp, path, 1), OP_JMP_IF_FALSE)
        consequent == jump(genAt(test, exp, path, 2), OP_JMP)
        patched == patchToHere(consequent, getOffset(test) - 2)
        alternate == IF Size(exp) = 4 THEN genAt(patched, exp, path, 3) ELSE patched
    IN patchToHere(alternate, getOffset(consequent) - 2)

\* Mutant: the way out leads back to the test.
closeLoopForever(c, start, hole) ==
    LET back == jump(c, OP_JMP)
    IN patchJumpAddress(patchJumpAddress(back, getOffset(back) - 2, start), hole, start)

(* The jump back to the test, and the way out: one byte further than the   *)
(* end of the loop, over the OP_POP that the enclosing block is to emit.   *)
closeLoop(c, start, hole) ==
    LET back == jump(c, OP_JMP)
    IN patchJumpAddress(patchJumpAddress(back, getOffset(back) - 2, start), hole,
                        getOffset(back) + 1)

genWhile(c, exp, path) ==
    LET test == jump(genAt(c, exp, path, 1), OP_JMP_IF_FALSE)
    IN closeLoop(genAt(test, exp, path, 2), getOffset(c), getOffset(test) - 2)

genFor(c, exp, path) ==
    LET var == genAt(c, exp, path, 1)
        test == jump(genAt(var, exp, path, 2), OP_JMP_IF_FALSE)
    IN closeLoop(genFrom(test, exp, path, 3), getOffset(var), getOffset(test) - 2)

genSet(c, exp, path) ==
    LET target == At(exp, 1)
        name == target.string
        type == allocType(c, name)
        value == genAt(c, exp, path, 2)
    IN IF isTaggedList(target, "prop")
       THEN LET instance == genAt(value, target, Append(path, 1), 1)
            IN stringConst(instance, At(target, 2).string, OP_SET_PROP)
       ELSE CASE type = "LOCAL" -> emit(value, <<OP_SET_LOCAL, getLocalIndex(value, name)>>)
              [] type = "CELL" -> emit(value, <<OP_SET_CELL, getCellIndex(value, name)>>)
              [] type = "GLOBAL" -> emitGlobal(value, OP_SET_GLOBAL, name)

genExpression(c, exp, path, i) ==
    LET d == genAt(c, exp, path, i)
    IN IF i = Size(exp) - 1 \/ isDeclaration(At(exp, i)) THEN d ELSE emit(d, <<OP_POP>>)

genBegin(c, exp, path) ==
    popScope(blockExit(FoldLeft(LAMBDA d, i : genExpression(d, exp, path, i),
                                blockEnter(pushScope(c, path)), Indexes(1, exp))))

-----------------------------------------------------------------------------
(* Functions *)

sorted(names) == SelectSeq(Lexicon, LAMBDA name : name \in names)

(* A parameter that a closure captures is copied to its cell on entry:     *)
(* OP_SET_CELL takes what is on top of the stack, the last argument.       *)
addParam(c, name) ==
    LET added == addName(c, name)
        cell == getCellIndex(added, name)
    IN IF cell = -1 THEN added ELSE emit(added, <<OP_SET_CELL, cell>>)

addParams(c, params) == FoldLeft(LAMBDA d, param : addParam(d, param.string), c, params.list)

allocCode(c, fnName, params) ==
    alloc(c, CodeObject(IF c.classObject = Null THEN fnName ELSE c.heap[c.classObject].name \o "." \o fnName,
                        Size(params)))

enterFunction(c, co, scope) ==
    [addConstant(c, OBJECT(co)) EXCEPT
        !.co = co,
        !.classObject = Null,
        !.heap[co].freeCount = Cardinality(scope.free),
        !.heap[co].cellNames = sorted(scope.free) \o sorted(scope.cell)]

epilogue(c, params, body) ==
    emit(IF isBlock(body) THEN c ELSE emit(c, <<OP_SCOPE_EXIT, Size(params) + 1>>), <<OP_RETURN>>)

(* The code object of the function whose body is exp.list[i].              *)
functionCode(c, exp, path, fnName, params, i) ==
    LET made == allocCode(c, fnName, params)
        entered == enterFunction(made, newest(made), c.scopes[path])
    IN epilogue(genAt(addParams(addName(entered, fnName), params), exp, path, i), params, At(exp, i))

(* A method is stored in its class and then goes on as a function of its   *)
(* own, whose code by now is that of the surrounding function.             *)
storeMethod(c, fnName, fnCode) ==
    LET made == alloc(c, FunctionObject(fnCode))
    IN IF c.classObject = Null THEN c
       ELSE [made EXCEPT !.heap[c.classObject].properties = (fnName :> OBJECT(newest(made))) @@ @]

loadCells(c, free) ==
    FoldLeft(LAMBDA d, name : emit(d, <<OP_LOAD_CELL, getCellIndex(d, name)>>), c, sorted(free))

(* What the surrounding code does with the function: one that captures     *)
(* nothing is made here and now.                                           *)
leaveFunction(c, compiled, fnName, free) ==
    LET back == [compiled EXCEPT !.co = c.co, !.classObject = c.classObject]
        stored == storeMethod(back, fnName, compiled.co)
        simple == alloc(stored, FunctionObject(IF c.classObject = Null THEN compiled.co ELSE c.co))
        closure == emit(emitLastConst(loadCells(stored, free)), <<OP_MAKE_FUNCTION, Cardinality(free)>>)
    IN CASE compiled.died -> compiled
         [] ~compiled.died /\ free = {} -> emitLastConst(addConstant(simple, OBJECT(newest(simple))))
         [] OTHER -> closure

compileFunction(c, exp, path, fnName, params, i) ==
    LET entered == pushScope(c, path)
    IN IF entered.died THEN entered
       ELSE popScope(leaveFunction(c, functionCode(entered, exp, path, fnName, params, i),
                                   fnName, c.scopes[path].free))

genVar(c, exp, path) ==
    LET name == At(exp, 1).string
        init == At(exp, 2)
        type == allocType(c, name)
        value == IF isTaggedList(init, "lambda")
                 THEN compileFunction(c, init, Append(path, 2), name, At(init, 1), 2)
                 ELSE genAt(c, exp, path, 2)
        local == addName(value, name)
        cells == Append(code(value).cellNames, name)
    IN CASE type = "GLOBAL" -> emitGlobal(define(value, name), OP_SET_GLOBAL, name)
         [] type = "CELL" -> emit([value EXCEPT !.heap[c.co].cellNames = cells],
                                  <<OP_SET_CELL, Len(cells) - 1, OP_POP>>)
         [] type = "LOCAL" -> emit(local, <<OP_SET_LOCAL, getLocalIndex(local, name)>>)

genDef(c, exp, path) ==
    LET name == At(exp, 1).string
        made == compileFunction(c, exp, path, name, At(exp, 2), 3)
        local == addName(made, name)
    IN CASE c.classObject # Null -> made
         [] c.classObject = Null /\ isGlobalScope(made) ->
              emitGlobal(define(made, name), OP_SET_GLOBAL, name)
         [] OTHER -> emit(local, <<OP_SET_LOCAL, getLocalIndex(local, name)>>)

-----------------------------------------------------------------------------
(* Classes *)

getClassByName(c, name) ==
    LET found == SelectSeq(c.classes, LAMBDA cls : c.heap[cls].name = name)
    IN IF found = <<>> THEN Null ELSE Head(found)

(* The constructor found in the class, its own or an ancestor's, is made   *)
(* to return self: three bytes go in before its last three.                *)
returnSelf(c, cls) ==
    LET constructor == classProp(c.heap, cls, "constructor")
        fnCode == c.heap[Payload(constructor)].co
    IN IF IsJunk(constructor) THEN [c EXCEPT !.died = TRUE]
       ELSE [c EXCEPT !.heap[fnCode].code =
                SubSeq(@, 1, Len(@) - 3) \o <<OP_POP, OP_GET_LOCAL, 1>> \o SubSeq(@, Len(@) - 2, Len(@))]

genClass(c, exp, path) ==
    LET name == At(exp, 1).string
        super == IF At(exp, 2).string = "null" THEN Null ELSE getClassByName(c, At(exp, 2).string)
        made == alloc(c, ClassObject(name, super))
        cls == newest(made)
        global == define(addConstant([made EXCEPT !.classes = Append(@, cls)], OBJECT(cls)), name)
        installed == [global EXCEPT !.globals[getGlobalIndex(global, name) + 1].value = OBJECT(cls)]
        inside == [pushScope(installed, path) EXCEPT !.classObject = cls]
        body == IF Size(exp) > 3 THEN popScope(genFrom(inside, exp, path, 3)) ELSE installed
    IN IF body.died THEN body ELSE returnSelf([body EXCEPT !.classObject = c.classObject], cls)

genNew(c, exp, path) ==
    LET name == At(exp, 1).string
        cls == getClassByName(c, name)
        constructor == classProp(c.heap, cls, "constructor")
        args == genFrom(emit(emitGlobal(c, OP_GET_GLOBAL, name), <<OP_NEW>>), exp, path, 2)
        arity == args.heap[args.heap[Payload(constructor)].co].arity
    IN IF cls = Null \/ IsJunk(constructor) THEN [c EXCEPT !.died = TRUE]
       ELSE emit(args, <<OP_CALL, arity>>)

genSuper(c, exp) ==
    LET cls == getClassByName(c, At(exp, 1).string)
    IN IF cls = Null \/ c.heap[cls].superClass = Null THEN [c EXCEPT !.died = TRUE]
       ELSE emitGlobal(c, OP_GET_GLOBAL, c.heap[c.heap[cls].superClass].name)

-----------------------------------------------------------------------------

Tagged(exp, tags) == \E tag \in tags : isTaggedList(exp, tag)

gen(c, exp, path) ==
    IF c.died THEN c ELSE
    CASE exp.type = "NUMBER" -> scalarConst(c, NUMBER(exp.number), OP_CONST)
      [] exp.type = "STRING" -> stringConst(c, exp.string, OP_CONST)
      [] exp.type = "SYMBOL" ->
           IF exp.string \in {"true", "false"}
           THEN scalarConst(c, BOOLEAN_(exp.string = "true"), OP_CONST)
           ELSE genVariable(c, exp.string)
      [] Tagged(exp, DOMAIN binaryOp) ->
           emit(genAt(genAt(c, exp, path, 1), exp, path, 2), <<binaryOp[At(exp, 0).string]>>)
      [] Tagged(exp, Range(compareOps_)) ->
           emit(genAt(genAt(c, exp, path, 1), exp, path, 2),
                <<OP_COMPARE, compareOp(At(exp, 0).string)>>)
      [] isTaggedList(exp, "if") -> genIf(c, exp, path)
      [] isTaggedList(exp, "while") -> genWhile(c, exp, path)
      [] isTaggedList(exp, "for") -> genFor(c, exp, path)
      [] isTaggedList(exp, "var") -> genVar(c, exp, path)
      [] isTaggedList(exp, "set") -> genSet(c, exp, path)
      [] isTaggedList(exp, "begin") -> genBegin(c, exp, path)
      [] isTaggedList(exp, "def") -> genDef(c, exp, path)
      [] isTaggedList(exp, "lambda") ->
           compileFunction(c, exp, path, "lambda", At(exp, 1), 2)
      [] isTaggedList(exp, "class") -> genClass(c, exp, path)
      [] isTaggedList(exp, "new") -> genNew(c, exp, path)
      [] isTaggedList(exp, "prop") -> stringConst(genAt(c, exp, path, 1), At(exp, 2).string, OP_GET_PROP)
      [] isTaggedList(exp, "super") -> genSuper(c, exp)
      [] OTHER -> emit(genFrom(c, exp, path, 0), <<OP_CALL, Size(exp) - 1>>)

(* A compiler before its first program: the natives and the constants that *)
(* setGlobalVariables leaves in Global.                                    *)
NewCompiler ==
    [heap |-> <<NativeObject("square"), NativeObject("sum")>>,
     globals |-> << [name |-> "square", value |-> OBJECT(1)], [name |-> "sum", value |-> OBJECT(2)],
                    [name |-> "x", value |-> NUMBER(10)], [name |-> "y", value |-> NUMBER(20)] >>,
     co |-> Null, classObject |-> Null, classes |-> <<>>, scopes |-> <<>>, stack |-> <<>>,
     died |-> FALSE, main |-> Null]

compile(c, exp) ==
    LET made == alloc(c, CodeObject("main", 0))
        main == alloc(made, FunctionObject(newest(made)))
        scopes == analyze([scopes |-> <<>>, died |-> FALSE], exp, <<>>, NoScope)
        started == [main EXCEPT !.co = newest(made), !.main = newest(main),
                                !.scopes = scopes.scopes, !.died = scopes.died]
    IN emit(gen(started, exp, <<>>), <<OP_HALT>>)

(* exec wraps the program in a block *)
Program(exps) == List(<<Symbol("begin")>> \o exps)

=============================================================================
