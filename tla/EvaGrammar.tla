------------------------------ MODULE EvaGrammar ------------------------------
(***************************************************************************)
(* The language the parser is to read (src/parser/EvaGrammar.bnf), without *)
(* cursor, table or stacks: a rule is a set of texts, a token the longest  *)
(* that the first rule to match can give, an expression an atom or what    *)
(* stands between two parentheses that belong to each other.               *)
(***************************************************************************)
EXTENDS EvaParser, SequencesExt

AllIn(t, S) == t # <<>> /\ \A i \in DOMAIN t : t[i] \in S
Ends(t, first, last) == IsPrefix(first, t) /\ IsSuffix(last, t)

In(rule, t) ==
    CASE rule = 1 -> t = <<"(">>
      [] rule = 2 -> t = <<")">>
      [] rule = 3 -> IsPrefix(<<"/", "/">>, t) /\ Newline \notin ToSet(t)
      [] rule = 4 -> Len(t) >= 4 /\ Ends(t, <<"/", "*">>, <<"*", "/">>)
      [] rule = 5 -> AllIn(t, Space)
      [] rule = 6 -> Len(t) >= 2 /\ Ends(t, <<"\"">>, <<"\"">>) /\ "\"" \notin ToSet(SubSeq(t, 2, Len(t) - 1))
      [] rule = 7 -> AllIn(t, Digits)
      [] rule = 8 -> AllIn(t, SymbolChars)

(* what the rule takes from i on: of comments with an end the shortest     *)
Lengths(s, i, rule) == {n \in 1..Len(s) - i : In(rule, SubSeq(s, i + 1, i + n))}
Taken(s, i, rule) == IF rule = 4 THEN Min(Lengths(s, i, rule)) ELSE Max(Lengths(s, i, rule))

End == 9    \* what the end of a text is listed as, like a rule

(* The tokens of s from i on; the last one is the end or a character that  *)
(* begins none.                                                            *)
RECURSIVE Tokens(_, _)
Tokens(s, i) ==
    LET rules == {rule \in Rules : Lengths(s, i, rule) # {}}
        n == Taken(s, i, Min(rules))
        here == [rule |-> Min(rules), text |-> SubSeq(s, i + 1, i + n), at |-> i]
    IN CASE i = Len(s) -> << [rule |-> End, text |-> <<>>, at |-> i] >>
         [] i < Len(s) /\ rules = {} -> << [rule |-> NoRule, text |-> <<>>, at |-> i] >>
         [] OTHER -> (IF Min(rules) \in 3..5 THEN <<>> ELSE <<here>>) \o Tokens(s, i + n)

Open(ts, n) ==
    Cardinality({i \in 1..n : ts[i].rule = 1}) - Cardinality({i \in 1..n : ts[i].rule = 2})

IsExp(ts) ==
    \/ Len(ts) = 1 /\ ts[1].rule \in 6..8
    \/ Len(ts) > 1 /\ ts[1].rule = 1 /\ Open(ts, Len(ts)) = 0
       /\ \A i \in 1..Len(ts) - 1 : Open(ts, i) > 0

RECURSIVE Tree(_)
Tree(ts) ==
    LET ends == SetToSortSeq({i \in 1..Len(ts) - 1 : Open(ts, i) = 1}, <)
    IN CASE Len(ts) = 1 /\ ts[1].rule = 7 -> [type |-> "NUMBER", number |-> stoi(ts[1].text)]
         [] Len(ts) = 1 /\ ts[1].rule = 6 ->
              [type |-> "STRING", string |-> SubSeq(ts[1].text, 2, Len(ts[1].text) - 1)]
         [] Len(ts) = 1 /\ ts[1].rule = 8 -> [type |-> "SYMBOL", string |-> ts[1].text]
         [] OTHER -> [type |-> "LIST",
                      list |-> [k \in 1..Len(ends) - 1 |-> Tree(SubSeq(ts, ends[k] + 1, ends[k + 1]))]]

Small(ts) == \A i \in DOMAIN ts : ts[i].rule = 7 => stoi(ts[i].text) <= IntMax

(* The first token that cannot follow those before it. *)
FirstBad(ts) ==
    Min({i \in DOMAIN ts : ts[i].rule = NoRule
                           \/ (i > 1 /\ Open(ts, i - 1) = 0 /\ ts[i].rule # End)
                           \/ (ts[i].rule = End /\ Open(ts, i - 1) > 0)})

PlaceOf(s, i) ==
    LET before == {0} \cup {j \in 1..i : s[j] = Newline}
    IN Place(Cardinality(before), i - Max(before))

-----------------------------------------------------------------------------

(* The parser accepts the texts of the language and no others, and returns *)
(* their tree, whatever it has read before.                                *)
ParseRight ==
    LET ts == Tokens(str_, 0)
        exp == Front(ts)
        good == Last(ts).rule = End /\ IsExp(exp) /\ Small(exp)
    IN /\ pc = "accepted" => good /\ result = Tree(exp)
       /\ pc = "thrown" => ~good

(* An error is reported at the line and the column of the first token that *)
(* cannot follow the text before it, and as the end of the input only when *)
(* there is a parenthesis left open.                                       *)
ErrorPlaced ==
    pc = "thrown" /\ result # Error("out of range") =>
        LET ts == Tokens(str_, 0)
            bad == ts[FirstBad(ts)]
        IN result = IF bad.rule = End THEN Error("end of input") ELSE PlaceOf(str_, bad.at)

(* Every text is read to its end or to its first error.                    *)
Answers == pc = "lex" ~> pc \in {"accepted", "thrown"}

=============================================================================
