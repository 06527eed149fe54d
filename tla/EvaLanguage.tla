----------------------------- MODULE EvaLanguage -----------------------------
(***************************************************************************)
(* What an Eva program means, in the language's own terms: lexical scope,  *)
(* a binding for every declaration, closures over bindings, classes with   *)
(* single inheritance.  There is no stack here, no cell and no bytecode:   *)
(* the result of a program under the compiler and the VM is compared with  *)
(* the value found here.                                                   *)
(*                                                                         *)
(* A state is the values of the bindings, the properties of the objects    *)
(* and the classes by name; the meaning of an expression in an environment *)
(* (names to bindings) is its value, the environment it leaves to the next *)
(* expression of its block, and the state.                                 *)
(***************************************************************************)
EXTENDS EvaValue, EvaAnalyzer

Closure(params, body, env) == <<"CLOSURE", [params |-> params.list, body |-> body, env |-> env]>>

Result(v, env, st) == [value |-> v, env |-> env, state |-> st]

Bind(r, name, v) ==
    Result(v, (name :> Len(r.state.bindings) + 1) @@ r.env,
           [r.state EXCEPT !.bindings = Append(@, v)])

Assign(r, name) == Result(r.value, r.env, [r.state EXCEPT !.bindings[r.env[name]] = r.value])

RECURSIVE Member(_, _, _)
Member(st, class, prop) ==
    IF prop \in DOMAIN st.classes[class].methods THEN st.classes[class].methods[prop]
    ELSE Member(st, st.classes[class].super, prop)

Property(st, v, prop) ==
    CASE v[1] = "CLASS" -> Member(st, Payload(v), prop)
      [] v[1] = "INSTANCE" /\ prop \in DOMAIN st.objects[Payload(v)].properties ->
           st.objects[Payload(v)].properties[prop]
      [] OTHER -> Member(st, st.objects[Payload(v)].class, prop)

Calculate(op, a, b) ==
    CASE op = "+" -> NUMBER(a + b) [] op = "-" -> NUMBER(a - b) [] op = "*" -> NUMBER(a * b)
      [] op = "<" -> BOOLEAN_(a < b) [] op = ">" -> BOOLEAN_(a > b) [] op = "==" -> BOOLEAN_(a = b)
      [] op = "<=" -> BOOLEAN_(a <= b) [] op = ">=" -> BOOLEAN_(a >= b) [] op = "!=" -> BOOLEAN_(a # b)

Operators == {"+", "-", "*", "<", ">", "==", "<=", ">=", "!="}

RECURSIVE Meaning(_, _, _)

In(e, r) == Meaning(e, r.env, r.state)

(* the values of e.list[i], e.list[i+1], ..., one after the other *)
RECURSIVE Values(_, _, _, _)
Values(e, i, r, values) ==
    IF i = Size(e) THEN [values |-> values, state |-> r.state]
    ELSE LET next == In(At(e, i), r)
         IN Values(e, i + 1, Result(next.value, r.env, next.state), Append(values, next.value))

Apply(f, args, st) ==
    LET bound == FoldLeft(LAMBDA r, i : Bind(r, f.params[i].string, args[i]),
                          Result(Junk, f.env, st), [i \in DOMAIN args |-> i])
    IN In(f.body, bound)

ApplyValue(f, args, st) ==
    CASE f = <<"NATIVE", "sum">> -> Result(NUMBER(Payload(args[1]) + Payload(args[2])), <<>>, st)
      [] f = <<"NATIVE", "square">> -> Result(NUMBER(Payload(args[1]) * Payload(args[1])), <<>>, st)
      [] OTHER -> Apply(Payload(f), args, st)

RECURSIVE Loop(_, _, _, _)
Loop(test, steps, env, st) ==
    LET tested == Meaning(test, env, st)
        stepped == FoldLeft(LAMBDA s, e : Meaning(e, env, s).state, tested.state, steps)
    IN IF Payload(tested.value) THEN Loop(test, steps, env, stepped) ELSE tested.state

Method(e, env) == Closure(At(e, 2), At(e, 3), env)

DeclareClass(e, env, st) ==
    LET defs == {At(e, i) : i \in 3..Size(e) - 1}
        class == At(e, 1).string
        methods == [m \in {At(d, 1).string : d \in defs} |->
                      Method(CHOOSE d \in defs : At(d, 1).string = m, env)]
        known == (class :> [super |-> At(e, 2).string, methods |-> methods]) @@ st.classes
    IN Bind(Result(Junk, env, [st EXCEPT !.classes = known]), class, <<"CLASS", class>>)

Create(e, env, st) ==
    LET class == At(e, 1).string
        args == Values(e, 2, Result(Junk, env, st), <<>>)
        made == Append(args.state.objects, [class |-> class, properties |-> <<>>])
        self == <<"INSTANCE", Len(made)>>
        after == ApplyValue(Member(st, class, "constructor"), <<self>> \o args.values,
                            [args.state EXCEPT !.objects = made])
    IN Result(self, env, after.state)

Update(e, env, st) ==
    LET value == Meaning(At(e, 2), env, st)
        target == In(At(At(e, 1), 1), value)
        prop == At(At(e, 1), 2).string
    IN IF ~isTaggedList(At(e, 1), "prop") THEN Assign(value, At(e, 1).string)
       ELSE Result(value.value, env,
                   [target.state EXCEPT !.objects[Payload(target.value)].properties =
                      (prop :> value.value) @@ @])

Block(e, env, st) ==
    LET last == FoldLeft(LAMBDA r, i : In(At(e, i), r), Result(Junk, env, st), Indexes(1, e))
    IN Result(last.value, env, last.state)

Meaning(e, env, st) ==
    CASE e.type = "NUMBER" -> Result(NUMBER(e.number), env, st)
      [] e.type = "STRING" -> Result(<<"STRING", e.string>>, env, st)
      [] e.type = "SYMBOL" ->
           Result(IF e.string \in {"true", "false"} THEN BOOLEAN_(e.string = "true")
                  ELSE st.bindings[env[e.string]], env, st)
      [] \E op \in Operators : isTaggedList(e, op) ->
           LET args == Values(e, 1, Result(Junk, env, st), <<>>)
               strings == args.values[1][1] = "STRING"
           IN Result(IF At(e, 0).string = "+" /\ strings
                     THEN <<"STRING", Payload(args.values[1]) \o Payload(args.values[2])>>
                     ELSE IF strings
                     THEN Calculate(At(e, 0).string, Rank(Payload(args.values[1])), Rank(Payload(args.values[2])))
                     ELSE Calculate(At(e, 0).string, Payload(args.values[1]), Payload(args.values[2])),
                     env, args.state)
      [] isTaggedList(e, "if") ->
           LET test == Meaning(At(e, 1), env, st)
           IN In(At(e, IF Payload(test.value) THEN 2 ELSE 3), test)
      [] isTaggedList(e, "while") ->
           Result(Junk, env, Loop(At(e, 1), <<At(e, 2)>>, env, st))
      [] isTaggedList(e, "for") ->
           LET init == Meaning(At(e, 1), env, st)
           IN Result(Junk, init.env, Loop(At(e, 2), <<At(e, 3), At(e, 4)>>, init.env, init.state))
      [] isTaggedList(e, "var") ->
           LET declared_ == Bind(Result(Junk, env, st), At(e, 1).string, Junk)
           IN Assign(In(At(e, 2), declared_), At(e, 1).string)
      [] isTaggedList(e, "def") ->
           LET declared_ == Bind(Result(Junk, env, st), At(e, 1).string, Junk)
           IN Assign(Result(Method(e, declared_.env), declared_.env, declared_.state), At(e, 1).string)
      [] isTaggedList(e, "lambda") -> Result(Closure(At(e, 1), At(e, 2), env), env, st)
      [] isTaggedList(e, "set") -> Update(e, env, st)
      [] isTaggedList(e, "begin") -> Block(e, env, st)
      [] isTaggedList(e, "class") -> DeclareClass(e, env, st)
      [] isTaggedList(e, "new") -> Create(e, env, st)
      [] isTaggedList(e, "prop") ->
           LET object == Meaning(At(e, 1), env, st)
           IN Result(Property(object.state, object.value, At(e, 2).string), env, object.state)
      [] isTaggedList(e, "super") ->
           Result(<<"CLASS", st.classes[At(e, 1).string].super>>, env, st)
      [] OTHER ->
           LET f == Meaning(At(e, 0), env, st)
               args == Values(e, 1, Result(f.value, env, f.state), <<>>)
           IN Result(ApplyValue(f.value, args.values, args.state).value, env,
                     ApplyValue(f.value, args.values, args.state).state)

(* The natives are bound; the result of a program is the value of its last *)
(* expression.                                                             *)
ProgramMeaning(e) ==
    Meaning(e, [square |-> 1, sum |-> 2],
            [bindings |-> << <<"NATIVE", "square">>, <<"NATIVE", "sum">> >>,
             objects |-> <<>>, classes |-> <<>>]).value

=============================================================================
