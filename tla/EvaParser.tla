------------------------------ MODULE EvaParser -------------------------------
(***************************************************************************)
(* The parser (src/parser/EvaParser.h): the tokenizer that cuts a source   *)
(* text into tokens and the LR loop that builds the syntax tree from them, *)
(* over three stacks that live as long as the parser.  One parser serves   *)
(* all programs a VM executes, also after one of them was not accepted.    *)
(*                                                                         *)
(* Characters are strings of one letter; of those in no class a lexical    *)
(* rule tells apart, one stands for all.                                   *)
(***************************************************************************)
EXTENDS Integers, Sequences, FiniteSets

CONSTANTS
    Characters, \* all there are in a text
    Texts,      \* the programs that may be handed to exec, as sequences of characters
    IntMax      \* the largest int

ASSUME TextsAssumption ==
    /\ Texts \subseteq Seq(Characters) /\ {"(", ")", "b", "e", "g", " "} \subseteq Characters
    /\ IntMax \in Nat

VARIABLES
    str_, cursor_,                      \* the text, the offset of the next character
    currentLine_, currentColumn_, currentLineBeginOffset_,
    token,                              \* the look-ahead
    statesStack, valuesStack, tokensStack,
    pc,         \* "idle", "lex" in getNextToken, "parse" in the loop, and how it ended
    result      \* what parse returned, or the place an error was reported at

tokenizer == <<str_, cursor_, currentLine_, currentColumn_, currentLineBeginOffset_>>
stacks == <<statesStack, valuesStack, tokensStack>>
vars == <<tokenizer, token, stacks, pc, result>>

-----------------------------------------------------------------------------
(* The lexical rules *)

Newline == "\n"
Quote == "\""
Space == {" ", Newline}
Digits == {"0", "1", "2", "3", "4", "5", "6", "7", "8", "9"}
Word == Digits \cup {"_", "a", "b", "c", "d", "e", "f", "g", "x", "y", "z"}
SymbolChars == Word \cup {"-", "+", "*", "=", "!", "<", ">", "/"}

NumberToken == 4
StringToken == 5
SymbolToken == 6
OpenToken == 7
CloseToken == 8
EofToken == 9
Empty == -1

Size == Len(str_)
Char(i) == IF i < Size THEN str_[i + 1] ELSE ""

Offsets(i) == i..Size - 1
Least(S) == IF S = {} THEN Size ELSE CHOOSE j \in S : \A k \in S : j <= k

RunOf(S, i) == Least({j \in Offsets(i) : Char(j) \notin S}) - i

(* The length of what the rule matches at i, 0 where it does not match.    *)
Matched(rule, i) ==
    CASE rule = 1 -> IF Char(i) = "(" THEN 1 ELSE 0
      [] rule = 2 -> IF Char(i) = ")" THEN 1 ELSE 0
      [] rule = 3 -> IF Char(i) = "/" /\ Char(i + 1) = "/"
                     THEN Least({j \in Offsets(i) : Char(j) = Newline}) - i ELSE 0
      [] rule = 4 -> LET end == Least({j \in Offsets(i + 2) : Char(j) = "*" /\ Char(j + 1) = "/"})
                     IN IF Char(i) = "/" /\ Char(i + 1) = "*" /\ end < Size THEN end + 2 - i ELSE 0
      [] rule = 5 -> RunOf(Space, i)
      [] rule = 6 -> LET end == Least({j \in Offsets(i + 1) : Char(j) = Quote})
                     IN IF Char(i) = Quote /\ end < Size THEN end + 1 - i ELSE 0
      [] rule = 7 -> RunOf(Digits, i)
      [] rule = 8 -> RunOf(SymbolChars, i)

Rules == 1..8
lexRule == <<OpenToken, CloseToken, Empty, Empty, Empty, StringToken, NumberToken, SymbolToken>>

NoRule == 0

(* The first of the rules that matches at the cursor *)
LexRule ==
    LET applicable == {rule \in Rules : Matched(rule, cursor_) > 0}
    IN IF applicable = {} THEN NoRule
       ELSE CHOOSE rule \in applicable : \A other \in applicable : rule <= other

-----------------------------------------------------------------------------
(* getNextToken: one step for each thing it cuts off *)

\* Mutant: the line begins one further.
captureLocationsLate(length) ==
    LET ends == {j \in cursor_..cursor_ + length - 1 : Char(j) = Newline}
    IN /\ cursor_' = cursor_ + length
       /\ currentLine_' = currentLine_ + Cardinality(ends)
       /\ currentLineBeginOffset_' =
            IF ends = {} THEN currentLineBeginOffset_ ELSE 2 + CHOOSE j \in ends : \A k \in ends : k <= j
       /\ currentColumn_' = cursor_' - currentLineBeginOffset_'
       /\ UNCHANGED str_

\* Mutant: of the lines that end in what was matched only one is counted.
captureLocationsOnce(length) ==
    LET ends == {j \in cursor_..cursor_ + length - 1 : Char(j) = Newline}
    IN /\ cursor_' = cursor_ + length
       /\ currentLine_' = IF ends = {} THEN currentLine_ ELSE currentLine_ + 1
       /\ currentLineBeginOffset_' =
            IF ends = {} THEN currentLineBeginOffset_ ELSE 1 + CHOOSE j \in ends : \A k \in ends : k <= j
       /\ currentColumn_' = cursor_' - currentLineBeginOffset_'
       /\ UNCHANGED str_

(* captureLocations_, and the advance of the cursor *)
captureLocations_(length) ==
    LET ends == {j \in cursor_..cursor_ + length - 1 : Char(j) = Newline}
    IN /\ cursor_' = cursor_ + length
       /\ currentLine_' = currentLine_ + Cardinality(ends)
       /\ currentLineBeginOffset_' =
            IF ends = {} THEN currentLineBeginOffset_ ELSE 1 + CHOOSE j \in ends : \A k \in ends : k <= j
       /\ currentColumn_' = cursor_' - currentLineBeginOffset_'
       /\ UNCHANGED str_

\* Mutant: the column at which the token ends.
toTokenEnd(type, value) ==
    [type |-> type, value |-> value, startLine |-> currentLine_,
     startColumn |-> cursor_ + Len(value) - currentLineBeginOffset_]

toToken(type, value) ==
    [type |-> type, value |-> value, startLine |-> currentLine_,
     startColumn |-> cursor_ - currentLineBeginOffset_]

(* Space and comments are passed over, getNextToken calls itself.          *)
Skip ==
    /\ pc = "lex"
    /\ LET rule == LexRule
       IN /\ rule # NoRule /\ lexRule[rule] = Empty
          /\ captureLocations_(Matched(rule, cursor_))
    /\ UNCHANGED <<token, stacks, pc, result>>

Read ==
    /\ pc = "lex"
    /\ LET rule == LexRule
           length == Matched(rule, cursor_)
       IN /\ rule # NoRule /\ lexRule[rule] # Empty
          /\ captureLocations_(length)
          /\ token' = toToken(lexRule[rule], SubSeq(str_, cursor_ + 1, cursor_ + length))
    /\ pc' = "parse"
    /\ UNCHANGED <<stacks, result>>

\* Mutant: the end is not taken for one.
ReadEndPast ==
    /\ pc = "lex" /\ cursor_ > Size
    /\ cursor_' = cursor_ + 1
    /\ token' = toToken(EofToken, <<"$">>)
    /\ pc' = "parse"
    /\ UNCHANGED <<str_, currentLine_, currentColumn_, currentLineBeginOffset_, stacks, result>>

(* The end of the text is left behind: no more tokens.  (The place of the  *)
(* end, in the code that of the last thing cut off, is never shown.)       *)
ReadEnd ==
    /\ pc = "lex" /\ cursor_ = Size
    /\ cursor_' = cursor_ + 1
    /\ token' = toToken(EofToken, <<"$">>)
    /\ pc' = "parse"
    /\ UNCHANGED <<str_, currentLine_, currentColumn_, currentLineBeginOffset_, stacks, result>>

hasMoreTokens == cursor_ <= Size

Throw(what) == pc' = "thrown" /\ result' = what

Error(what) == [error |-> what]
Place(line, column) == [error |-> "unexpected", line |-> line, column |-> column]
NoResult == Error("none")

UnexpectedCharacter ==
    /\ pc = "lex" /\ cursor_ < Size /\ LexRule = NoRule
    /\ Throw(Place(currentLine_, currentColumn_))
    /\ UNCHANGED <<tokenizer, token, stacks>>

-----------------------------------------------------------------------------
(* The table *)

Shift(state) == <<"Shift", state>>
Reduce(production) == <<"Reduce", production>>
Transit(state) == <<"Transit", state>>
Accept == <<"Accept", 0>>
None == <<"None", 0>>   \* the row has no entry for the column

\* the columns of the nonterminals
EXP == 0
ATOM == 1
LIST == 2
ENTRIES == 3

table_(state, column) ==
    CASE state \in {0, 8} /\ column \in NumberToken..OpenToken -> Shift(column)
      [] state = 8 /\ column = CloseToken -> Shift(9)
      [] state \in 2..6 /\ column \in NumberToken..EofToken -> Reduce(state - 1)
      [] state = 9 /\ column \in NumberToken..EofToken -> Reduce(6)
      [] state = 7 /\ column \in NumberToken..CloseToken -> Reduce(7)
      [] state = 10 /\ column \in NumberToken..CloseToken -> Reduce(8)
      [] state = 1 /\ column = EofToken -> Accept
      [] state \in {0, 8} /\ column \in {ATOM, LIST} -> Transit(column + 1)
      [] state = 0 /\ column = EXP -> Transit(1)
      [] state = 8 /\ column = EXP -> Transit(10)
      [] state = 7 /\ column = ENTRIES -> Transit(8)
      [] OTHER -> None

(* productions_[p]: what it makes, of how many symbols: values, tokens. *)
Production(made, values, tokens) == [made |-> made, values |-> values, tokens |-> tokens]
productions_(p) ==
    CASE p \in 1..2 -> Production(EXP, 1, 0)
      [] p \in 3..5 -> Production(ATOM, 0, 1)
      [] p = 6 -> Production(LIST, 1, 2)
      [] p = 7 -> Production(ENTRIES, 0, 0)
      [] p = 8 -> Production(ENTRIES, 2, 0)

-----------------------------------------------------------------------------
(* The tree: struct Exp *)

stoi(digits) ==
    LET digit(c) == CHOOSE d \in 0..9 : c = <<"0", "1", "2", "3", "4", "5", "6", "7", "8", "9">>[d + 1]
        upTo[k \in 0..Len(digits)] == IF k = 0 THEN 0 ELSE 10 * upTo[k - 1] + digit(digits[k])
    IN upTo[Len(digits)]

\* Mutant: a string is not told from a symbol.
AtomNamed(text) == [type |-> "SYMBOL", string |-> text]
Atom(text) ==
    IF text[1] = Quote THEN [type |-> "STRING", string |-> SubSeq(text, 2, Len(text) - 1)]
    ELSE [type |-> "SYMBOL", string |-> text]
ListOf(exps) == [type |-> "LIST", list |-> exps]

-----------------------------------------------------------------------------
(* The loop *)

Top(stack) == stack[Len(stack)]
Without(stack, n) == SubSeq(stack, 1, Len(stack) - n)

entry == table_(Top(statesStack), token.type)

ShiftToken ==
    /\ pc = "parse" /\ entry[1] = "Shift"
    /\ tokensStack' = Append(tokensStack, token.value)
    /\ statesStack' = Append(statesStack, entry[2])
    /\ pc' = "lex"
    /\ UNCHANGED <<tokenizer, token, valuesStack, result>>

rule_ == productions_(entry[2])
rhsLength == rule_.values + rule_.tokens
\* Mutant: the transition is looked up before the states are popped.
entryBefore == table_(Top(statesStack), rule_.made)
nextStateEntry == table_(Top(Without(statesStack, rhsLength)), rule_.made)
CanReduce ==
    /\ Len(statesStack) > rhsLength
    /\ Len(valuesStack) >= rule_.values
    /\ Len(tokensStack) >= rule_.tokens
    /\ nextStateEntry[1] = "Transit"

Overflows == entry[2] = 3 /\ tokensStack # <<>> /\ stoi(Top(tokensStack)) > IntMax

(* back() or pop_back() of an empty vector, or no transition to go on with *)
Corrupt == pc' = "undefined" /\ UNCHANGED <<tokenizer, token, stacks, result>>

(* what the handler of the production pushes *)
Handled ==
    CASE entry[2] = 3 -> [type |-> "NUMBER", number |-> stoi(Top(tokensStack))]
      [] entry[2] \in {4, 5} -> Atom(Top(tokensStack))
      [] entry[2] = 7 -> ListOf(<<>>)
      [] entry[2] = 8 -> [valuesStack[Len(valuesStack) - 1] EXCEPT !.list = Append(@, Top(valuesStack))]
      [] OTHER -> Top(valuesStack)

Reduced ==
    /\ valuesStack' = Append(Without(valuesStack, rule_.values), Handled)
    /\ tokensStack' = Without(tokensStack, rule_.tokens)
    /\ statesStack' = Append(Without(statesStack, rhsLength), nextStateEntry[2])
    /\ UNCHANGED <<tokenizer, token, pc, result>>

ReduceBy ==
    /\ pc = "parse" /\ entry[1] = "Reduce" /\ ~Overflows
    /\ IF CanReduce THEN Reduced ELSE Corrupt

(* stoi throws when the handler has popped the token and the states are gone. *)
NumberTooLarge ==
    /\ pc = "parse" /\ entry[1] = "Reduce" /\ Overflows
    /\ tokensStack' = Without(tokensStack, 1)
    /\ statesStack' = Without(statesStack, 1)
    /\ Throw(Error("out of range"))
    /\ UNCHANGED <<tokenizer, token, valuesStack>>

Unexpected == IF token.type = EofToken /\ ~hasMoreTokens THEN Error("end of input")
              ELSE Place(token.startLine, token.startColumn)

UnexpectedToken ==
    /\ pc = "parse" /\ entry = None
    /\ Throw(Unexpected)
    /\ UNCHANGED <<tokenizer, token, stacks>>

(* Accept pops the state and the value, and checks that only the start is left. *)
Accepted ==
    /\ valuesStack' = Without(valuesStack, 1)
    /\ IF Without(statesStack, 1) # <<0>> \/ hasMoreTokens
       THEN Throw(Unexpected) /\ statesStack' = Without(statesStack, 1)
       ELSE pc' = "accepted" /\ result' = Top(valuesStack) /\ statesStack' = Without(statesStack, 2)
    /\ UNCHANGED <<tokenizer, token, tokensStack>>

AcceptText ==
    /\ pc = "parse" /\ entry = Accept
    /\ IF valuesStack # <<>> THEN Accepted ELSE Corrupt

-----------------------------------------------------------------------------

NoToken == [type |-> Empty, value |-> <<>>, startLine |-> 0, startColumn |-> 0]

Init ==
    /\ str_ = <<>> /\ cursor_ = 0
    /\ currentLine_ = 1 /\ currentColumn_ = 0 /\ currentLineBeginOffset_ = 0
    /\ token = NoToken /\ result = NoResult
    /\ statesStack = <<>> /\ valuesStack = <<>> /\ tokensStack = <<>>
    /\ pc = "idle"

(* exec puts the program in a block before it is parsed. *)
Begin == <<"(", "b", "e", "g", " ">>
Wrapped(text) == Begin \o text \o <<")">>

Done == pc \in {"idle", "accepted", "thrown"}

\* Mutant: the stacks are not cleared.
ParseOn(text) ==
    /\ Done
    /\ str_' = Wrapped(text) /\ cursor_' = 0
    /\ currentLine_' = 1 /\ currentColumn_' = 0 /\ currentLineBeginOffset_' = 0
    /\ statesStack' = Append(statesStack, 0) /\ UNCHANGED <<valuesStack, tokensStack>>
    /\ token' = NoToken /\ result' = NoResult
    /\ pc' = "lex"

Parse(text) ==
    /\ Done
    /\ str_' = Wrapped(text) /\ cursor_' = 0
    /\ currentLine_' = 1 /\ currentColumn_' = 0 /\ currentLineBeginOffset_' = 0
    /\ statesStack' = <<0>> /\ valuesStack' = <<>> /\ tokensStack' = <<>>
    /\ token' = NoToken /\ result' = NoResult
    /\ pc' = "lex"

getNextToken == Skip \/ Read \/ ReadEnd \/ UnexpectedCharacter
Loop == ShiftToken \/ ReduceBy \/ NumberTooLarge \/ UnexpectedToken \/ AcceptText

Next == (\E text \in Texts : Parse(text)) \/ getNextToken \/ Loop

(* parse is one thread's loop: once begun, it goes on as long as it can.   *)
Spec == Init /\ [][Next]_vars /\ WF_vars(getNextToken \/ Loop)

-----------------------------------------------------------------------------

(* The stacks belong to each other: below the top, the states are those of *)
(* a list that was opened and of the entries it has so far, in turn, each  *)
(* with its token and its value.                                           *)
ValueStates == {1, 2, 3, 10}
TokenStates == {4, 5, 6, 7, 9}
Depth == (Len(statesStack) - 1) \div 2  \* the lists that are open below the top

StatesAgree ==
    LET n == Len(statesStack)
        top == Top(statesStack)
    IN /\ n > 0 /\ statesStack[1] = 0
       /\ \A i \in 2..n - 1 : statesStack[i] = IF i % 2 = 0 THEN 7 ELSE 8
       /\ n % 2 = 1 => top = IF n = 1 THEN 0 ELSE 8
       /\ n % 2 = 0 => top \in ValueStates \cup TokenStates
       /\ top = 1 => n = 2
       /\ top \in {9, 10} => n >= 4

Topped(states) == Len(statesStack) % 2 = 0 /\ Top(statesStack) \in states

IsList(v) == v.type = "LIST" /\ v = ListOf(v.list)

StacksAgree ==
    pc \in {"lex", "parse"} =>
        /\ StatesAgree
        /\ Len(tokensStack) = IF Topped(TokenStates) THEN Depth + 1 ELSE Depth
        /\ Len(valuesStack) = IF Topped(ValueStates) THEN Depth + 1 ELSE Depth
        /\ \A i \in 1..Depth : IsList(valuesStack[i])

(* Nothing is taken from an empty stack, at() finds the transition it asks *)
(* for and the assertion on it holds, whatever the text.                   *)
NeverCorrupt == pc # "undefined"

(* The cursor stays in the text or one past its end, the line and the      *)
(* column it is at are a place of the text, and the states are rows of the *)
(* table.                                                                  *)
TypeOK ==
    /\ str_ \in Seq(Characters) /\ cursor_ \in 0..Len(str_) + 1
    /\ currentLine_ \in Nat \ {0} /\ currentColumn_ \in Nat /\ currentLineBeginOffset_ \in 0..Len(str_)
    /\ token.type \in NumberToken..EofToken \cup {Empty}
    /\ statesStack \in Seq(0..10)
    /\ pc \in {"idle", "lex", "parse", "accepted", "thrown", "undefined"}

(* The character at offset i is in that column of that line.               *)
IsPlace(line, column, i) ==
    /\ line = 1 + Cardinality({j \in 0..i - 1 : Char(j) = Newline})
    /\ column \in 0..i
    /\ column = i \/ Char(i - column - 1) = Newline
    /\ \A j \in i - column..i - 1 : Char(j) # Newline

TokenRead ==
    LET start == cursor_ - Len(token.value)
    IN /\ start >= 0 /\ token.value = SubSeq(str_, start + 1, cursor_)
       /\ IsPlace(token.startLine, token.startColumn, start)

(* Line and column are kept up to date piece by piece, as pieces of any    *)
(* number of lines are cut off (src/parser/EvaParser.h, captureLocations_). *)
(* They are always those of the cursor; the look-ahead is what the text    *)
(* has before the cursor and knows the place where it begins; an error is  *)
(* reported at one of the two.                                             *)
LocationsExact ==
    /\ cursor_ <= Size => IsPlace(currentLine_, currentColumn_, cursor_)
    /\ pc = "parse" /\ token.type # EofToken => TokenRead
    /\ pc = "thrown" /\ result.error = "unexpected" =>
          \E i \in {cursor_, cursor_ - Len(token.value)} : IsPlace(result.line, result.column, i)

=============================================================================
