-------------------------------- MODULE MCEva ---------------------------------
(* Families of small programs for TLC. *)
EXTENDS EvaSystem

MCLexicon == <<"A", "B", "a", "ab", "add", "b", "c", "constructor", "d", "f", "g", "h", "i", "k",
               "lambda", "m", "main", "n", "self", "sum", "x", "y">>

N(n) == Number(n)
S(s) == Symbol(s)
Op(op, a, b) == List(<<S(op), a, b>>)
If(test, a, b) == List(<<S("if"), test, a, b>>)
While(test, body) == List(<<S("while"), test, body>>)
For(var, test, change, body) == List(<<S("for"), var, test, change, body>>)
Var(name, e) == List(<<S("var"), S(name), e>>)
Set(name, e) == List(<<S("set"), S(name), e>>)
Begin(exps) == Program(exps)
Params(names) == List([i \in DOMAIN names |-> S(names[i])])
Def(name, params, body) == List(<<S("def"), S(name), Params(params), body>>)
Lambda(params, body) == List(<<S("lambda"), Params(params), body>>)
Call_(f, args) == List(<<f>> \o args)
Class(name, super, defs) == List(<<S("class"), S(name), S(super)>> \o defs)
New_(name, args) == List(<<S("new"), S(name)>> \o args)
Prop(e, name) == List(<<S("prop"), e, S(name)>>)
Super(name) == List(<<S("super"), S(name)>>)
SetProp_(e, name, v) == List(<<S("set"), Prop(e, name), v>>)
Send(e, name, args) == Call_(Prop(e, name), <<e>> \o args)

Inc(name, by) == Set(name, Op("+", S(name), by))

Alone(programs) == {<<p>> : p \in programs}

-----------------------------------------------------------------------------
(* Expressions, branches, loops and blocks, at the top level. *)

Simple(name) == {N(2), S(name), Op("-", S(name), N(1)), Op("*", S(name), S(name))}
Test(name) == {Op("<", S(name), N(2)), Op("==", N(2), S(name))}

Steps ==
    {Set("a", e) : e \in Simple("a")}
    \cup {While(t, Inc("a", N(1))) : t \in Test("a") \ {Op("==", N(2), S("a"))}}
    \cup {For(Var("i", N(0)), Op("<", S("i"), S("a")), Inc("i", N(1)), Inc("c", e)) : e \in {S("i"), S("a")}}
    \cup {If(t, Set("a", N(0)), e) : t \in Test("a"), e \in Simple("a")}
    \cup {Begin(<<Var("b", e), Var("d", S("b")), Inc("b", S("d")), Set("a", S("b"))>>) : e \in Simple("a")}
    \cup {Begin(<<Var("b", e), Begin(<<Var("b", N(5)), Inc("a", S("b"))>>), S("b")>>) : e \in Simple("c")}
    \cup {Begin(<<Var("b", N(0)), While(Op("<", S("b"), N(2)), Begin(<<Var("d", S("b")), Inc("b", N(1)), Inc("a", S("d"))>>)), S("b")>>)}

Lasts == {S("a"), Op("+", S("a"), S("c")), If(Op(">=", S("a"), N(2)), S("a"), S("c")),
          Begin(<<Var("b", S("a")), Inc("b", N(1)), Op("!=", S("b"), S("c"))>>),
          Begin(<<Var("b", N(4)), Begin(<<Var("b", N(5)), Inc("a", S("b"))>>), Op("-", N(9), S("b"))>>)}

StraightPrograms ==
    {<<Var("a", N(n)), Var("c", N(1)), s, last>> : n \in {0, 1, 2}, s \in Steps, last \in Lasts}

-----------------------------------------------------------------------------
(* Functions *)

Bodies ==
    {Op("+", S("n"), N(1)), Call_(S("sum"), <<S("n"), S("n")>>),
     If(Op("<", S("n"), N(1)), N(0), Op("+", S("n"), Call_(S("f"), <<Op("-", S("n"), N(1))>>))),
     Begin(<<S("n")>>),
     Begin(<<Var("a", Op("*", S("n"), N(2))), Inc("a", S("n")), S("a")>>),
     Begin(<<Var("a", S("n")), Begin(<<Var("b", S("a")), Inc("n", S("b"))>>), Op("-", S("a"), S("n"))>>),
     Begin(<<Def("g", <<"b">>, Op("*", S("b"), N(3))), Call_(S("g"), <<S("n")>>)>>),
     Begin(<<Def("g", <<"a", "b">>, Begin(<<Var("d", S("b")), Op("-", S("a"), S("d"))>>)),
             Op("+", Call_(S("g"), <<S("n"), N(1)>>), Call_(S("g"), <<N(5), S("n")>>))>>),
     Begin(<<Var("g", Lambda(<<"b">>, Begin(<<S("b")>>))), Op("+", N(1), Call_(S("g"), <<S("n")>>))>>)}

F(e) == Call_(S("f"), <<e>>)

Uses == {F(N(2)), Op("+", F(N(1)), F(N(2))), Op("-", N(1), F(F(N(1)))), F(Op("+", F(N(0)), N(1))),
         Call_(S("sum"), <<F(N(1)), F(N(0))>>),
         If(Op("<", F(N(0)), F(N(1))), F(N(2)), Call_(S("square"), <<F(N(1))>>)),
         Begin(<<Var("k", F(N(1))), Op("*", S("k"), F(S("k")))>>)}

FunctionPrograms == {<<Def("f", <<"n">>, body), use>> : body \in Bodies, use \in Uses}
    \cup {<<Var("f", Lambda(<<"n">>, body)), Var("h", S("f")), Call_(S("h"), <<use>>)>> :
             body \in Bodies \ {b \in Bodies : isTaggedList(b, "if")}, use \in {F(N(1)), F(F(N(2)))}}

-----------------------------------------------------------------------------
(* Closures: each captures one variable, a block's or a last parameter.    *)

Counter == Def("f", <<>>, Begin(<<Var("c", N(0)), Def("g", <<>>, Inc("c", N(1))), S("g")>>))
Account == Def("f", <<"n">>, Begin(<<Def("g", <<"a">>, Inc("n", S("a"))), S("g")>>))
Adder == Def("f", <<"a", "n">>, Lambda(<<"b">>, Op("+", S("b"), S("n"))))
Deep == Def("f", <<"n">>, Begin(<<Def("g", <<>>, Lambda(<<"a">>, Inc("n", S("a")))), Call_(S("g"), <<>>)>>))
Late == Def("f", <<"n">>, Begin(<<Var("g", Lambda(<<"a">>, Op("*", S("n"), S("a")))), Inc("n", N(3)), S("g")>>))

Maker(def, args) == [def |-> def, args |-> args]
Makers == {Maker(Counter, <<>>)} \cup {Maker(Account, <<N(n)>>) : n \in {1, 5}}
    \cup {Maker(Deep, <<N(2)>>), Maker(Late, <<N(1)>>), Maker(Adder, <<N(7), N(2)>>)}

Arity(m) == IF m.def = Counter THEN <<>> ELSE <<N(3)>>

(* Two closures of one maker, called in every order. *)
Twins(m, calls) ==
    <<m.def, Var("k", Call_(S("f"), m.args)), Var("h", Call_(S("f"), m.args))>>
    \o [i \in DOMAIN calls |-> Call_(S(calls[i]), Arity(m))]
    \o <<Op("+", Op("*", N(100), Call_(S("k"), Arity(m))), Call_(S("h"), Arity(m)))>>

(* Two closures that share a variable, with its owner and each other. *)
Shared(x, y) ==
    <<Var("k", N(0)),
      Def("f", <<"n">>, Begin(<<Def("g", <<>>, Inc("n", N(1))), Def("h", <<>>, Op("*", S("n"), N(10))),
                                Set("k", S("h")), x, Set("n", Op("+", S("n"), N(4))), S("g")>>)),
      Var("a", Call_(S("f"), <<N(2)>>)), y, Op("+", Call_(S("a"), <<>>), Call_(S("k"), <<>>))>>

(* A variable of a block of the main program. *)
MainCell(e) ==
    <<Var("a", N(1)),
      Begin(<<Var("c", N(3)), Set("c", e), Def("g", <<"b">>, Inc("c", S("b"))),
              Op("+", Call_(S("g"), <<N(1)>>), Op("+", Call_(S("g"), <<S("c")>>), S("c")))>>)>>

ClosurePrograms ==
    {Twins(m, calls) : m \in Makers, calls \in UNION {[1..n -> {"k", "h"}] : n \in 0..3}}
    \cup {Shared(x, y) : x \in {S("n"), Call_(S("g"), <<>>), Call_(S("h"), <<>>)},
                          y \in {N(0), Call_(S("a"), <<>>), Call_(S("k"), <<>>)}}
    \cup {MainCell(e) : e \in {N(2), Op("+", S("c"), N(1))}}

-----------------------------------------------------------------------------
(* Classes *)

SelfProp(p) == Prop(S("self"), p)
Point(tail) == Class("A", "null", <<
    Def("constructor", <<"self", "a">>, Begin(<<SetProp_(S("self"), "x", S("a")), tail>>)),
    Def("add", <<"self", "n">>, SetProp_(S("self"), "x", Op("+", SelfProp("x"), S("n")))),
    Def("sum", <<"self">>, SelfProp("x"))>>)

Override == {<<>>, <<Def("sum", <<"self">>, Op("*", Call_(Prop(Super("B"), "sum"), <<S("self")>>), SelfProp("y")))>>}
Derived(methods) == Class("B", "A", <<
    Def("constructor", <<"self", "a", "b">>, Begin(<<
        Call_(Prop(Super("B"), "constructor"), <<S("self"), S("a")>>),
        SetProp_(S("self"), "y", S("b"))>>))>> \o methods)

Heir == Class("B", "A", <<Def("sum", <<"self">>, Op("+", SelfProp("x"), N(40)))>>)

Acts == {Send(S("a"), "add", <<N(3)>>), Send(S("b"), "add", <<N(5)>>), SetProp_(S("a"), "x", N(9)),
         Call_(Prop(S("B"), "sum"), <<S("b")>>), SetProp_(S("b"), "y", Send(S("a"), "sum", <<>>)),
         SetProp_(S("b"), "sum", Prop(S("A"), "sum")),
         Begin(<<Var("d", Send(S("b"), "sum", <<>>)), Var("i", N(1)), Op("+", S("d"), S("i"))>>)}

Sums == Op("+", Op("*", N(100), Send(S("a"), "sum", <<>>)), Send(S("b"), "sum", <<>>))

ObjectPrograms ==
    {<<Point(tail), Derived(methods), Var("a", New_("A", <<N(1)>>)), Var("b", New_("B", <<N(2), N(4)>>)),
       act, then, Sums>> :
         tail \in {S("self"), N(0)}, methods \in Override, act \in Acts, then \in Acts}
    \cup {<<Point(N(0)), Heir, Var("a", New_("A", <<N(1)>>)), Var("b", New_("B", <<N(2)>>)), act, Sums>> :
             act \in Acts \ {SetProp_(S("b"), "y", Send(S("a"), "sum", <<>>))}}
    \cup {<<Point(S("a")), Def("f", <<"a">>, Send(New_("A", <<S("a")>>), "add", <<N(1)>>)),
             Op("+", Call_(S("f"), <<N(2)>>), Call_(S("f"), <<N(3)>>))>>}

(* Strings *)
StringPrograms ==
    {<<Var("a", String(x)), Var("c", Op("+", S("a"), String(y))),
       If(Op(o, S("c"), String(z)), S("c"), S("a"))>> :
         x \in {"a"}, y \in {"b"}, z \in {"ab", "b"}, o \in {"<", "==", "!=", ">="}}

-----------------------------------------------------------------------------
(* Objects made as the program runs, held by the stack, by globals and by  *)
(* each other while more are made.                                         *)

Link == Class("A", "null", <<
    Def("constructor", <<"self", "a">>, Begin(<<SetProp_(S("self"), "x", S("a")), N(0)>>)),
    Def("add", <<"self">>, New_("A", <<S("self")>>))>>)
Chain(e) == Prop(Prop(e, "x"), "x")
More == Op("+", String("a"), String("b"))

GarbagePrograms ==
    {<<Var("c", String("a")), Var("a", N(0)),
       While(Op("<", S("a"), N(2)), Begin(<<Inc("a", N(1)), Inc("c", e)>>)), S("c")>> : e \in {S("c"), String("b")}}
    \cup {<<Def("f", <<"n">>, Op("+", S("n"), Op("+", String("b"), S("n")))),
             Op("+", F(String("a")), F(F(String("b"))))>>}
    \cup {<<Link, Var("a", New_("A", <<New_("A", <<More>>)>>)), Var("c", More), then, Op("+", S("c"), More)>> :
             then \in {SetProp_(S("a"), "y", S("c")), Set("a", New_("A", <<S("a")>>)),
                       Set("a", New_("A", <<New_("A", <<S("c")>>)>>)), Set("c", Op("+", S("c"), Chain(S("a"))))}}
    \cup {<<Link, Var("a", New_("A", <<More>>)), Prop(Chain(Send(Call_(Prop(S("A"), "add"), <<S("a")>>), "add", <<>>)), "x")>>}
    \cup {<<m.def, Op("-", Call_(Call_(S("f"), m.args), Arity(m)), Call_(Call_(S("f"), m.args), Arity(m)))>> : m \in Makers}

-----------------------------------------------------------------------------
(* One program after the other, on one machine. *)

Then(first, rest) == <<first \o <<N(0)>> >> \o rest

FunctionSessions == {Then(<<Def("f", <<"n">>, body)>>, << <<use>>, <<F(N(3))>> >>) : body \in Bodies, use \in Uses}

ClosureSessions ==
    {Then(<<m.def, Var("k", Call_(S("f"), m.args)), Var("h", Call_(S("f"), m.args))>>,
          << <<Var("b", N(1)), Call_(S(calls[1]), Arity(m))>>, <<Call_(S(calls[2]), Arity(m))>>,
             <<Op("+", Op("*", N(100), Call_(S("k"), Arity(m))), Call_(S("h"), Arity(m)))>> >>) :
        m \in Makers, calls \in [1..2 -> {"k", "h"}]}

(* What a later program cannot name it reaches through an earlier function. *)
SharedSessions ==
    {Then(<<Var("a", More), Def("f", <<>>, S("a")), Def("h", <<"n">>, Set("a", S("n")))>>,
          << <<Call_(S("h"), <<e>>)>>, <<Var("c", More), Op("+", Call_(S("f"), <<>>), S("c"))>> >>) :
        e \in {String("a"), More}}

ClassSessions ==
    {Then(<<Point(tail), Def("h", <<>>, New_("A", <<N(1)>>))>>,
          << <<second, Var("b", New_("B", args)), Def("f", <<>>, S("b")), Send(S("b"), "add", <<N(5)>>)>>,
             <<Var("a", Call_(S("h"), <<>>)), Send(S("a"), "add", <<N(3)>>),
               Op("+", Op("*", N(100), Send(S("a"), "sum", <<>>)), Send(Call_(S("f"), <<>>), "sum", <<>>))>> >>) :
        tail \in {S("self"), N(0)},
        <<second, args>> \in {<<Heir, <<N(2)>> >>, <<Derived(<<>>), <<N(2), N(4)>> >>}}

-----------------------------------------------------------------------------
(* Programs that show where the code and its comments part. *)

(* A variable among operands: k is 4, not 12.  A captured first parameter:  *)
(* a is 8, not 7.  Two captures: each is found in the other's cell.  A      *)
(* value left by each iteration of h's loop: b is 0, not 100.  m's callee   *)
(* below its result: n is 100, not 105.  The same and an argument in a      *)
(* function called main: x is 10, not 105.  A captured parameter set in a  *)
(* block that does not know of the capture: y is 1, not 5.                 *)
Misplaced ==
    <<Var("k", Op("+", N(10), Begin(<<Var("d", N(2)), S("d")>>))),
      Def("f", <<"a", "b">>, Begin(<<Var("c", S("k")), Lambda(<<>>, Op("-", S("a"), S("c")))>>)),
      Var("g", Call_(S("f"), <<N(7), N(8)>>)),
      Var("i", N(2)),
      Def("h", <<>>, Begin(<<While(Op(">", S("i"), N(0)), Set("i", Op("-", S("i"), N(1)))), S("i")>>)),
      Var("b", Op("-", N(100), Call_(S("h"), <<>>))),
      Def("m", <<>>, Begin(<<N(5)>>)),
      Var("n", Op("+", N(100), Call_(S("m"), <<>>))),
      Def("main", <<"n">>, Begin(<<S("n")>>)),
      Var("x", Op("+", N(100), Call_(S("main"), <<N(5)>>))),
      Def("add", <<"n">>, Begin(<<Begin(<<Set("n", N(5))>>), Def("d", <<>>, S("n")), Call_(S("d"), <<>>)>>)),
      Var("y", Call_(S("add"), <<N(1)>>)),
      Op("+", Call_(S("g"), <<>>), Op("+", S("x"), Op("+", S("b"), Op("+", S("n"), S("y")))))>>

-----------------------------------------------------------------------------
(* Programs that compile and go wrong as they run: operands of the wrong   *)
(* kind, properties that are not there, values that are not functions,     *)
(* recursion without an end, blocks among operands, captured parameters.   *)

Known == <<Var("a", N(2)), Def("f", <<"n">>, Op("+", S("n"), N(1))),
           Class("A", "null", <<Def("constructor", <<"self">>, SetProp_(S("self"), "x", N(6)))>>),
           Var("b", New_("A", <<>>))>>

Operands_ == {N(3), S("true"), String("a"), S("a"), S("f"), S("A"), S("b")}

CarelessSteps ==
    {Op(o, x, y) : o \in {"+", "/", "<"}, x \in Operands_, y \in Operands_}
    \cup {Call_(x, <<y>>) : x \in Operands_ \ {S("true"), String("a")}, y \in Operands_}
    \cup {If(x, N(1), S("a")) : x \in Operands_}
    \cup {Prop(x, p) : x \in Operands_, p \in {"x", "y", "constructor"}}
    \cup {SetProp_(x, "x", y) : x \in Operands_, y \in {N(1), S("f")}}
    \cup {Set(x, y) : x \in {"a", "f", "A"}, y \in Operands_}
    \cup {Op("+", x, Begin(<<Var("i", y), S("i")>>)) : x \in {N(3), String("a")}, y \in Operands_}
    \cup {Begin(<<Var("i", x), Def("g", <<>>, Op("+", S("i"), N(1))), Call_(S("g"), <<>>)>>) : x \in Operands_}

CarelessLasts ==
    {S("a"), F(S("a")), Prop(S("b"), "x"), New_("A", <<N(1)>>), Op("/", S("a"), N(0)),
     Begin(<<Def("h", <<"n">>, Begin(<<Op("+", N(1), F(S("n")))>>)), Call_(S("h"), <<S("a")>>)>>),
     Begin(<<Def("h", <<"n">>, Op("+", N(1), Call_(S("h"), <<S("n")>>))), Call_(S("h"), <<S("a")>>)>>)}

CarelessPrograms == {Known \o <<step, last>> : step \in CarelessSteps, last \in CarelessLasts}

(* A run-time string in a captured variable, which no collection traces;   *)
(* a function that gives up its own name while it runs.                    *)
Untraced ==
    {<<Def("f", <<"n">>, Begin(<<Def("g", <<>>, S("n")), S("g")>>)), Var("k", Call_(S("f"), <<More>>)), Var("c", More), last>> :
        last \in {Op("+", S("c"), Call_(S("k"), <<>>)), Begin(<<Var("d", Call_(S("k"), <<>>)), Op("+", S("c"), S("c"))>>)}}
    \cup {<<Def("f", <<"n">>, Begin(<<
               Def("g", <<>>, Begin(<<Set("g", S("n")), Var("c", N(1)), Def("h", <<>>, S("c")), Op("+", S("n"), S("c"))>>)),
               S("g")>>)),
             Call_(Call_(S("f"), <<N(3)>>), <<>>)>>}

(* A function made where it is called (the first is a test that is         *)
(* commented out in src/test/functions.h), and a block: neither is analysed. *)
Unanalysed ==
    {Call_(Lambda(<<"x">>, Op("*", S("x"), S("x"))), <<N(2)>>), Call_(Begin(<<S("f")>>), <<N(2)>>),
     Call_(Lambda(<<>>, N(1)), <<>>)}

(* The bytes of returnSelf in the middle of an instruction, a variable     *)
(* that is used before its declaration, no program at all, a captured      *)
(* variable that is declared again, the variable of another program.       *)
Sum_(e) == Op("+", N(1), Op("+", N(1), e))
Constructed(body) == Class("A", "null", <<Def("constructor", <<>>, Begin(<<body>>))>>)
Misread ==
    {<<Constructed(body), N(1)>> :
        body \in {Op("+", N(1), N(2)), List(<<S("if"), Op("<", N(2), N(1)), Sum_(Sum_(Sum_(N(1))))>>)}}
    \cup {<<Var("a", N(1)), Begin(<<S("a"), Var("a", N(2)), S("a")>>)>>, <<>>}
    \cup {<<Begin(<<Var("c", N(1)), Def("g", <<>>, S("c")), Var("c", N(2)), last>>)>> :
             last \in {S("c"), Call_(S("g"), <<>>)}}

CarelessSessions ==
    LET unanalysed == {Known \o <<call, S("a")>> : call \in Unanalysed}
        programs == CarelessPrograms \cup Untraced \cup Misread \cup unanalysed
        late == {S("a"), S("x"), Set("a", N(3)), Call_(S("a"), <<N(1)>>)}
    IN Alone(programs) \cup {Then(<<Var("a", N(1))>>, << <<second>> >>) : second \in late}


-----------------------------------------------------------------------------

ControlPrograms == StraightPrograms \cup StringPrograms \cup
    {<<Var("a", N(1)), Var("c", N(1)), s, t, Op("+", S("a"), S("c"))>> : s \in Steps, t \in Steps}

ProgramSessions ==
    LET programs == ControlPrograms \cup FunctionPrograms \cup ClosurePrograms \cup ObjectPrograms
                      \cup GarbagePrograms
        sessions == FunctionSessions \cup ClosureSessions \cup SharedSessions \cup ClassSessions
    IN Alone(programs) \cup sessions

MisplacedSessions == Alone({Misplaced})

=============================================================================
