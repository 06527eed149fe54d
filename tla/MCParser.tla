------------------------------ MODULE MCParser -------------------------------
(* Texts for TLC: every sequence of a few pieces. *)
EXTENDS EvaGrammar

CONSTANTS Pieces, MaxPieces

MCPieces == {<<"(">>, <<")">>, <<"1">>, <<"a">>, <<"\"">>, <<"/">>, <<"/", "*">>, <<"*", "/">>,
             <<Newline>>, <<"?">>}

MCCharacters == SymbolChars \cup Space \cup {"(", ")", Quote, "?"}

MCTexts == {FlattenSeq(t) : t \in UNION {[1..n -> Pieces] : n \in 0..MaxPieces}}

=============================================================================
