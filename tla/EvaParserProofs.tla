--------------------------- MODULE EvaParserProofs ----------------------------
(***************************************************************************)
(* The stacks of the parser agree whatever text it is given, so it takes   *)
(* nothing from an empty one and finds every transition it looks up; and   *)
(* the places it keeps are those of the text.                              *)
(*                                                                         *)
(* StacksAgree is inductive once the stacks are known to be sequences.     *)
(* The places need IInv (a reduction never fails, and Accept is reached    *)
(* with two states) and more: where the current line begins, that no rule  *)
(* matches beyond the end of the text, and that the end is behind the      *)
(* cursor exactly when it is the look-ahead.                               *)
(***************************************************************************)
EXTENDS EvaParser, FiniteSetTheorems, WellFoundedInduction, TLAPS

IsSeq(s) == s \in Seq({s[i] : i \in DOMAIN s})

Sequences_ ==
    pc \in {"lex", "parse"} =>
        statesStack \in Seq(0..10) /\ IsSeq(valuesStack) /\ IsSeq(tokensStack)

IInv == Sequences_ /\ StacksAgree /\ NeverCorrupt

-----------------------------------------------------------------------------
(* Sequences *)

LEMMA SeqOfItsElements ==
    ASSUME NEW S, NEW s \in Seq(S) PROVE IsSeq(s)
<1>1. s \in [1..Len(s) -> S] /\ Len(s) \in Nat
  OBVIOUS
<1>2. \A i \in 1..Len(s) : s[i] \in {s[k] : k \in DOMAIN s}
  BY <1>1
<1> QED BY <1>1, <1>2 DEF IsSeq

LEMMA EmptyIsSeq == IsSeq(<<>>)
BY SeqOfItsElements, <<>> \in Seq({})

LEMMA AppendSeq ==
    ASSUME NEW S, NEW s \in Seq(S), NEW v \in S
    PROVE  /\ Append(s, v) \in Seq(S)
           /\ Len(Append(s, v)) = Len(s) + 1 /\ Len(s) \in Nat
           /\ \A i \in 1..Len(s) : Append(s, v)[i] = s[i]
           /\ Append(s, v)[Len(s) + 1] = v
OBVIOUS

LEMMA WithoutSeq ==
    ASSUME NEW S, NEW s \in Seq(S), NEW n \in Nat, n <= Len(s)
    PROVE  /\ Without(s, n) \in Seq(S)
           /\ Len(Without(s, n)) = Len(s) - n /\ Len(s) \in Nat
           /\ \A i \in 1..Len(s) - n : Without(s, n)[i] = s[i]
BY DEF Without

LEMMA AppendIsSeq ==
    ASSUME NEW s, IsSeq(s), NEW v
    PROVE  /\ IsSeq(Append(s, v))
           /\ Len(Append(s, v)) = Len(s) + 1 /\ Len(s) \in Nat
           /\ \A i \in 1..Len(s) : Append(s, v)[i] = s[i]
           /\ Append(s, v)[Len(s) + 1] = v
<1> DEFINE V == {s[i] : i \in DOMAIN s} \cup {v}
<1>1. s \in Seq(V)
  BY DEF IsSeq
<1>2. v \in V
  OBVIOUS
<1> HIDE DEF V
<1>3. Append(s, v) \in Seq(V)
  BY <1>1, <1>2, AppendSeq
<1>4. IsSeq(Append(s, v))
  BY <1>3, SeqOfItsElements
<1> QED BY <1>1, <1>2, <1>4, AppendSeq

LEMMA WithoutIsSeq ==
    ASSUME NEW s, IsSeq(s), NEW n \in Nat, n <= Len(s)
    PROVE  /\ IsSeq(Without(s, n))
           /\ Len(Without(s, n)) = Len(s) - n /\ Len(s) \in Nat
           /\ \A i \in 1..Len(s) - n : Without(s, n)[i] = s[i]
<1> DEFINE V == {s[i] : i \in DOMAIN s}
<1>1. s \in Seq(V)
  BY DEF IsSeq
<1> HIDE DEF V
<1>2. Without(s, n) \in Seq(V)
  BY <1>1, WithoutSeq
<1>3. IsSeq(Without(s, n))
  BY <1>2, SeqOfItsElements
<1> QED BY <1>1, <1>3, WithoutSeq

(* Halves: the lists that are open below a stack of n states.             *)
LEMMA Parity ==
    ASSUME NEW n \in Nat
    PROVE  /\ n % 2 \in {0, 1} /\ (n + 1) % 2 = 1 - (n % 2) /\ (n + 2) % 2 = n % 2
           /\ n \div 2 \in Nat /\ 2 * (n \div 2) <= n
           /\ (n + 2) \div 2 = n \div 2 + 1
           /\ (n % 2 = 0 => (n + 1) \div 2 = n \div 2)
           /\ (n % 2 = 1 => (n + 1) \div 2 = n \div 2 + 1)
<1>1. n % 2 \in {0, 1} /\ (n + 1) % 2 = 1 - (n % 2)
  OBVIOUS
<1>2. (n + 2) % 2 = n % 2
  OBVIOUS
<1>3. n \div 2 \in Nat
  OBVIOUS
<1>4. 2 * (n \div 2) <= n
  OBVIOUS
<1>5. (n + 2) \div 2 = n \div 2 + 1
  OBVIOUS
<1>6. (n % 2 = 0 => (n + 1) \div 2 = n \div 2)
  OBVIOUS
<1>7. (n % 2 = 1 => (n + 1) \div 2 = n \div 2 + 1)
  OBVIOUS
<1> QED BY <1>1, <1>2, <1>3, <1>4, <1>5, <1>6, <1>7

-----------------------------------------------------------------------------
(* What the table says *)

LEMMA TableShifts ==
    ASSUME NEW s, NEW c, table_(s, c)[1] = "Shift"
    PROVE  s \in {0, 8} /\ (table_(s, c)[2] \in 4..7 \/ (s = 8 /\ table_(s, c)[2] = 9))
BY DEF table_, Shift, Reduce, Transit, Accept, None, NumberToken, OpenToken, CloseToken, EofToken,
       EXP, ATOM, LIST, ENTRIES

LEMMA TableReduces ==
    ASSUME NEW s, NEW c, table_(s, c)[1] = "Reduce"
    PROVE  \/ s \in 2..6 /\ table_(s, c)[2] = s - 1
           \/ s = 9 /\ table_(s, c)[2] = 6
           \/ s = 7 /\ table_(s, c)[2] = 7
           \/ s = 10 /\ table_(s, c)[2] = 8
BY DEF table_, Shift, Reduce, Transit, Accept, None, NumberToken, OpenToken, CloseToken, EofToken,
       EXP, ATOM, LIST, ENTRIES

LEMMA TableAccepts ==
    ASSUME NEW s, NEW c, table_(s, c) = Accept
    PROVE  s = 1
BY DEF table_, Shift, Reduce, Transit, Accept, None, NumberToken, OpenToken, CloseToken, EofToken,
       EXP, ATOM, LIST, ENTRIES

LEMMA TableTransits ==
    /\ table_(0, EXP) = Transit(1) /\ table_(8, EXP) = Transit(10)
    /\ table_(0, ATOM) = Transit(2) /\ table_(8, ATOM) = Transit(2)
    /\ table_(0, LIST) = Transit(3) /\ table_(8, LIST) = Transit(3)
    /\ table_(7, ENTRIES) = Transit(8)
BY DEF table_, Shift, Reduce, Transit, Accept, None, NumberToken, OpenToken, CloseToken, EofToken,
       EXP, ATOM, LIST, ENTRIES

-----------------------------------------------------------------------------
(* The steps of the loop *)

(* What the invariant says when the loop is about to take a step.         *)
LEMMA Typed ==
    ASSUME IInv, pc = "parse"
    PROVE  /\ statesStack \in Seq(0..10) /\ IsSeq(valuesStack) /\ IsSeq(tokensStack)
           /\ Len(statesStack) \in Nat /\ Len(statesStack) > 0
           /\ Len(valuesStack) \in Nat /\ Len(tokensStack) \in Nat
           /\ Top(statesStack) = statesStack[Len(statesStack)]
           /\ Top(statesStack) \in 0..10
<1>1. statesStack \in Seq(0..10) /\ IsSeq(valuesStack) /\ IsSeq(tokensStack)
  BY DEF IInv, Sequences_
<1>2. Len(statesStack) \in Nat /\ Len(statesStack) > 0
  BY <1>1 DEF IInv, StacksAgree, StatesAgree
<1>3. Len(valuesStack) \in Nat /\ Len(tokensStack) \in Nat
  BY <1>1 DEF IsSeq
<1> QED BY <1>1, <1>2, <1>3 DEF Top

Height == Len(statesStack)
Upper == statesStack[Height]

ShapeOK ==
    /\ Height \in Nat /\ Height > 0 /\ Depth \in Nat
    /\ statesStack[1] = 0
    /\ \A i \in 2..Height - 1 : statesStack[i] = IF i % 2 = 0 THEN 7 ELSE 8
    /\ Height % 2 = 1 => Upper = IF Height = 1 THEN 0 ELSE 8
    /\ Height % 2 = 0 => Upper \in ValueStates \cup TokenStates
    /\ Upper = 1 => Height = 2
    /\ Upper \in {9, 10} => Height >= 4

CountsOK ==
    /\ Height % 2 = 1 => Len(tokensStack) = Depth /\ Len(valuesStack) = Depth
    /\ Height % 2 = 0 /\ Upper \in TokenStates =>
          Len(tokensStack) = Depth + 1 /\ Len(valuesStack) = Depth
    /\ Height % 2 = 0 /\ Upper \in ValueStates =>
          Len(tokensStack) = Depth /\ Len(valuesStack) = Depth + 1
    /\ \A i \in 1..Depth : IsList(valuesStack[i])

LEMMA Disjoint == ValueStates \cap TokenStates = {}
BY DEF ValueStates, TokenStates

LEMMA Parts == ASSUME IInv, pc = "parse" PROVE ShapeOK /\ CountsOK
<1>1. Height \in Nat /\ Height > 0 /\ Depth \in Nat /\ Top(statesStack) = Upper
  BY Typed DEF Height, Depth, Upper
<1>2. ShapeOK
  BY <1>1 DEF IInv, StacksAgree, StatesAgree, ShapeOK, Height
<1>3. /\ Len(tokensStack) = IF Topped(TokenStates) THEN Depth + 1 ELSE Depth
      /\ Len(valuesStack) = IF Topped(ValueStates) THEN Depth + 1 ELSE Depth
      /\ \A i \in 1..Depth : IsList(valuesStack[i])
  BY <1>1 DEF IInv, StacksAgree
<1> QED BY <1>1, <1>2, <1>3, Disjoint DEF CountsOK, Topped, Height

LEMMA Whole ==
    ASSUME pc' \in {"lex", "parse"}, statesStack' \in Seq(0..10),
           IsSeq(valuesStack'), IsSeq(tokensStack'), ShapeOK', CountsOK'
    PROVE  IInv'
<1>1. Top(statesStack)' = Upper' /\ Depth' \in Nat /\ Height' = Len(statesStack)' /\ Height' \in Nat
  BY DEF Top, Upper, Height, ShapeOK
<1>2. Sequences_'
  BY DEF Sequences_, IsSeq
<1>3. StatesAgree'
  BY <1>1 DEF StatesAgree, ShapeOK
<1>4. Height' % 2 \in {0, 1} /\ (Height' % 2 = 0 => Upper' \in ValueStates \cup TokenStates)
  BY <1>1, Parity DEF ShapeOK
<1>5. /\ Len(tokensStack)' = IF Topped(TokenStates)' THEN Depth' + 1 ELSE Depth'
      /\ Len(valuesStack)' = IF Topped(ValueStates)' THEN Depth' + 1 ELSE Depth'
  BY <1>1, <1>4, Disjoint DEF CountsOK, Topped
<1>6. \A i \in 1..Depth' : IsList(valuesStack[i])'
  BY DEF CountsOK
<1>7. StacksAgree'
  BY <1>3, <1>5, <1>6 DEF StacksAgree
<1> QED BY <1>2, <1>7 DEF IInv, NeverCorrupt

LEMMA ShiftAgrees == ASSUME IInv, ShiftToken PROVE IInv'
<1> DEFINE next == entry[2]
<1>1. statesStack \in Seq(0..10) /\ IsSeq(valuesStack) /\ IsSeq(tokensStack)
  BY Typed DEF ShiftToken
<1>2. pc = "parse" /\ pc' = "lex" /\ valuesStack' = valuesStack
  BY DEF ShiftToken
<1>3. ShapeOK /\ CountsOK /\ Height \in Nat /\ Height > 0
  BY <1>2, Parts DEF ShapeOK
<1>4. Upper \in {0, 8} /\ (next \in 4..7 \/ (Upper = 8 /\ next = 9))
  BY <1>2, Typed, TableShifts DEF ShiftToken, entry, Upper, Height
<1>5. /\ statesStack' \in Seq(0..10) /\ Height' = Height + 1
      /\ \A i \in 1..Height : statesStack'[i] = statesStack[i]
      /\ Upper' = next
  BY <1>1, <1>4, AppendSeq DEF ShiftToken, Height, Upper
<1>6. IsSeq(tokensStack') /\ Len(tokensStack') = Len(tokensStack) + 1
  BY <1>1, AppendIsSeq DEF ShiftToken
<1> HIDE DEF next
<1>7. Height % 2 = 1 /\ (Height + 1) % 2 = 0 /\ Depth' = Depth /\ (Upper = 8 => Height >= 3)
  <2>1. Height % 2 = 1
    BY <1>3, <1>4, Parity DEF ShapeOK, ValueStates, TokenStates
  <2>2. (Height + 1) % 2 = 0 /\ Height # 2
    BY <1>3, <2>1, Parity
  <2>3. Depth' = Height \div 2 /\ Depth = (Height - 1) \div 2
    BY <1>3, <1>5 DEF Depth, Height
  <2>4. Height - 1 \in Nat /\ (Height - 1) % 2 = 0 /\ Height - 1 + 1 = Height
    BY <1>3, <2>1
  <2>5. Upper = 8 => Height # 1
    BY <1>3, <2>1 DEF ShapeOK
  <2> QED BY <1>3, <2>1, <2>2, <2>3, <2>4, <2>5, Parity
<1>8. next \in TokenStates /\ next \notin ValueStates /\ (next = 9 => Height + 1 >= 4)
      /\ next \notin {1, 10}
  BY <1>3, <1>4, <1>7 DEF TokenStates, ValueStates
<1>9. \A i \in 2..Height' - 1 : statesStack'[i] = IF i % 2 = 0 THEN 7 ELSE 8
  <2> SUFFICES ASSUME NEW i \in 2..Height PROVE statesStack'[i] = IF i % 2 = 0 THEN 7 ELSE 8
    BY <1>3, <1>5
  <2>1. CASE i = Height
    BY <1>3, <1>5, <1>7, <2>1 DEF ShapeOK, Upper
  <2>2. CASE i \in 2..Height - 1
    BY <1>3, <1>5, <2>2 DEF ShapeOK
  <2> QED BY <1>3, <2>1, <2>2
<1>10. ShapeOK'
  BY <1>3, <1>5, <1>7, <1>8, <1>9 DEF ShapeOK
<1>11. CountsOK'
  BY <1>2, <1>3, <1>5, <1>6, <1>7, <1>8 DEF CountsOK
<1> QED BY <1>1, <1>2, <1>5, <1>6, <1>10, <1>11, Whole

LEMMA Reductions ==
    ASSUME IInv, pc = "parse", entry[1] = "Reduce"
    PROVE  LET n == Len(statesStack)
               top == Top(statesStack)
           IN \/ top \in {2, 3} /\ n % 2 = 0 /\ rule_ = Production(EXP, 1, 0)
              \/ top \in {4, 5, 6} /\ n % 2 = 0 /\ rule_ = Production(ATOM, 0, 1)
              \/ top = 9 /\ n % 2 = 0 /\ n >= 4 /\ entry[2] = 6 /\ rule_ = Production(LIST, 1, 2)
              \/ top = 7 /\ n % 2 = 0 /\ entry[2] = 7 /\ rule_ = Production(ENTRIES, 0, 0)
              \/ top = 10 /\ n % 2 = 0 /\ n >= 4 /\ entry[2] = 8 /\ rule_ = Production(ENTRIES, 2, 0)
<1>1. /\ StatesAgree /\ Len(statesStack) \in Nat /\ Len(statesStack) > 0
      /\ Top(statesStack) \in 0..10
  BY Typed DEF IInv, StacksAgree
<1>2. \/ Top(statesStack) \in 2..6 /\ entry[2] = Top(statesStack) - 1
      \/ Top(statesStack) = 9 /\ entry[2] = 6
      \/ Top(statesStack) = 7 /\ entry[2] = 7
      \/ Top(statesStack) = 10 /\ entry[2] = 8
  BY TableReduces DEF entry
<1>3. Len(statesStack) % 2 = 0 /\ (Top(statesStack) \in {9, 10} => Len(statesStack) >= 4)
  BY <1>1, <1>2 DEF StatesAgree
<1> HIDE DEF entry
<1>4. CASE Top(statesStack) \in 2..3
  BY <1>2, <1>3, <1>4 DEF rule_, productions_
<1>5. CASE Top(statesStack) \in 4..6
  BY <1>2, <1>3, <1>5 DEF rule_, productions_
<1>6. CASE Top(statesStack) \in {7, 9, 10}
  BY <1>2, <1>3, <1>6 DEF rule_, productions_
<1> QED BY <1>2, <1>4, <1>5, <1>6

LEMMA PopPush ==
    ASSUME IInv, pc = "parse", NEW k \in Nat, k < Height, NEW new \in 0..10
    PROVE  /\ Top(Without(statesStack, k)) = statesStack[Height - k]
           /\ statesStack' = Append(Without(statesStack, k), new) =>
                 /\ statesStack' \in Seq(0..10) /\ Height' = Height - k + 1 /\ Upper' = new
                 /\ \A i \in 1..Height - k : statesStack'[i] = statesStack[i]
<1>1. statesStack \in Seq(0..10) /\ Height \in Nat /\ k <= Len(statesStack)
  BY Typed DEF Height
<1>2. /\ Without(statesStack, k) \in Seq(0..10) /\ Len(Without(statesStack, k)) = Height - k
      /\ \A i \in 1..Height - k : Without(statesStack, k)[i] = statesStack[i]
  BY <1>1, WithoutSeq DEF Height
<1>3. Top(Without(statesStack, k)) = statesStack[Height - k]
  BY <1>1, <1>2 DEF Top
<1> SUFFICES ASSUME statesStack' = Append(Without(statesStack, k), new)
             PROVE  /\ statesStack' \in Seq(0..10) /\ Height' = Height - k + 1 /\ Upper' = new
                    /\ \A i \in 1..Height - k : statesStack'[i] = statesStack[i]
  BY <1>3
<1>4. /\ statesStack' \in Seq(0..10) /\ Len(statesStack') = Height - k + 1
      /\ \A i \in 1..Height - k : statesStack'[i] = Without(statesStack, k)[i]
      /\ statesStack'[Height - k + 1] = new
  BY <1>2, AppendSeq
<1> QED BY <1>1, <1>2, <1>4 DEF Height, Upper

(* What is below the top, under an even number of states. *)
LEMMA Below ==
    ASSUME ShapeOK, Height % 2 = 0
    PROVE  /\ Height >= 2 /\ (Height - 1) % 2 = 1
           /\ statesStack[Height - 1] = IF Height = 2 THEN 0 ELSE 8
           /\ Height >= 4 => statesStack[Height - 2] = 7 /\ (Height - 2) % 2 = 0
           /\ Height >= 4 => statesStack[Height - 3] = IF Height = 4 THEN 0 ELSE 8
<1>1. Height \in Nat /\ Height > 0 /\ Height # 1 /\ Height # 3
  BY Parity DEF ShapeOK
<1>2. (Height - 1) % 2 = 1
  BY <1>1
<1>3. statesStack[Height - 1] = IF Height = 2 THEN 0 ELSE 8
  <2>1. CASE Height = 2
    BY <2>1 DEF ShapeOK
  <2>2. CASE Height >= 4
    BY <1>1, <1>2, <2>2 DEF ShapeOK
  <2> QED BY <1>1, <2>1, <2>2
<1>4. ASSUME Height >= 4
      PROVE  /\ statesStack[Height - 2] = 7 /\ (Height - 2) % 2 = 0
             /\ statesStack[Height - 3] = IF Height = 4 THEN 0 ELSE 8
  <2>1. (Height - 2) % 2 = 0 /\ (Height - 3) % 2 = 1
    BY <1>1, <1>4
  <2>2. statesStack[Height - 2] = 7
    BY <1>1, <1>4, <2>1 DEF ShapeOK
  <2>3. CASE Height = 4
    BY <2>1, <2>2, <2>3 DEF ShapeOK
  <2>4. CASE Height > 4
    <3>1. Height - 3 \in 2..Height - 1
      BY <1>1, <2>4
    <3> QED BY <2>1, <2>2, <2>4, <3>1 DEF ShapeOK
  <2> QED BY <1>1, <1>4, <2>1, <2>2, <2>3, <2>4
<1> QED BY <1>1, <1>2, <1>3, <1>4

LEMMA Halves ==
    ASSUME ShapeOK, Height % 2 = 0
    PROVE  /\ Depth = Height \div 2 - 1
           /\ Height >= 4 => Depth > 0
           /\ (Height' = Height => Depth' = Depth)
           /\ (Height' = Height + 1 => Depth' = Depth + 1 /\ Height' % 2 = 1)
           /\ (Height' = Height - 1 => Depth' = Depth /\ Height' % 2 = 1)
           /\ (Height' = Height - 2 => Depth' = Depth - 1 /\ Height' % 2 = 0)
<1>1. Height \in Nat /\ Height > 0 /\ Depth = (Height - 1) \div 2 /\ Depth' = (Height' - 1) \div 2
  BY DEF ShapeOK, Depth, Height
<1>2. Depth = Height \div 2 - 1
  BY <1>1
<1>3. Height >= 4 => Depth > 0
  BY <1>1
<1>4. Height' = Height => Depth' = Depth
  BY <1>1
<1>5. Height' = Height + 1 => Depth' = Depth + 1 /\ Height' % 2 = 1
  BY <1>1
<1>6. Height' = Height - 1 => Depth' = Depth /\ Height' % 2 = 1
  BY <1>1
<1>7. Height' = Height - 2 => Depth' = Depth - 1 /\ Height' % 2 = 0
  BY <1>1
<1> QED BY <1>2, <1>3, <1>4, <1>5, <1>6, <1>7

(* The stacks hold what the production takes, and the row below has its    *)
(* transition.                                                             *)
LEMMA ReduceCan ==
    ASSUME IInv, pc = "parse", entry[1] = "Reduce"
    PROVE  CanReduce /\ rhsLength \in Nat /\ rhsLength < Height
           /\ \/ /\ Upper \in {2, 3} /\ rule_.values = 1 /\ rule_.tokens = 0
                 /\ nextStateEntry[2] = IF Height = 2 THEN 1 ELSE 10
              \/ /\ Upper \in {4, 5, 6} /\ rule_.values = 0 /\ rule_.tokens = 1
                 /\ nextStateEntry[2] = 2
              \/ /\ Upper = 9 /\ Height >= 4 /\ rule_.values = 1 /\ rule_.tokens = 2
                 /\ nextStateEntry[2] = 3 /\ entry[2] = 6
              \/ /\ Upper = 7 /\ rule_.values = 0 /\ rule_.tokens = 0
                 /\ nextStateEntry[2] = 8 /\ entry[2] = 7
              \/ /\ Upper = 10 /\ Height >= 4 /\ rule_.values = 2 /\ rule_.tokens = 0
                 /\ nextStateEntry[2] = 8 /\ entry[2] = 8
<1> DEFINE n == Height
<1>1. ShapeOK /\ CountsOK /\ Top(statesStack) = Upper /\ Height = Len(statesStack)
  BY Parts, Typed DEF Upper, Height
<1>2. Height % 2 = 0 /\ Height \in Nat /\ Depth \in Nat
  BY <1>1, Reductions DEF ShapeOK
<1>3. Height >= 2 /\ Height >= 4 => Depth > 0
  BY <1>1, <1>2, Below, Halves
<1>4. /\ statesStack[Height - 1] = IF Height = 2 THEN 0 ELSE 8
      /\ Height >= 4 => /\ statesStack[Height - 2] = 7
                        /\ statesStack[Height - 3] = IF Height = 4 THEN 0 ELSE 8
  BY <1>1, <1>2, Below
<1>5. \A k \in Nat : k < Height => Top(Without(statesStack, k)) = statesStack[Height - k]
  BY PopPush
<1>6. /\ Upper \in TokenStates => Len(tokensStack) = Depth + 1 /\ Len(valuesStack) = Depth
      /\ Upper \in ValueStates => Len(tokensStack) = Depth /\ Len(valuesStack) = Depth + 1
  BY <1>1, <1>2 DEF CountsOK
<1>7. Height >= 2
  BY <1>1, <1>2, Below
<1>8. CASE Upper \in {2, 3} /\ rule_ = Production(EXP, 1, 0)
  <2>1. rule_.values = 1 /\ rule_.tokens = 0 /\ rule_.made = EXP /\ rhsLength = 1
    BY <1>8 DEF Production, rhsLength
  <2>2. nextStateEntry = Transit(IF Height = 2 THEN 1 ELSE 10)
    BY <1>2, <1>4, <1>5, <1>7, <2>1, TableTransits DEF nextStateEntry
  <2>3. nextStateEntry[1] = "Transit" /\ nextStateEntry[2] = IF Height = 2 THEN 1 ELSE 10
    BY <2>2 DEF Transit
  <2>4. Len(tokensStack) = Depth /\ Len(valuesStack) = Depth + 1
    BY <1>6, <1>8 DEF ValueStates
  <2> QED BY <1>1, <1>2, <1>7, <1>8, <2>1, <2>3, <2>4 DEF CanReduce
<1>9. CASE Upper \in {4, 5, 6} /\ rule_ = Production(ATOM, 0, 1)
  <2>1. rule_.values = 0 /\ rule_.tokens = 1 /\ rule_.made = ATOM /\ rhsLength = 1
    BY <1>9 DEF Production, rhsLength
  <2>2. nextStateEntry = Transit(2)
    BY <1>2, <1>4, <1>5, <1>7, <2>1, TableTransits DEF nextStateEntry
  <2>3. nextStateEntry[1] = "Transit" /\ nextStateEntry[2] = 2
    BY <2>2 DEF Transit
  <2>4. Len(tokensStack) = Depth + 1 /\ Len(valuesStack) = Depth
    BY <1>6, <1>9 DEF TokenStates
  <2> QED BY <1>1, <1>2, <1>7, <1>9, <2>1, <2>3, <2>4 DEF CanReduce
<1>10. CASE Upper = 9 /\ Height >= 4 /\ entry[2] = 6 /\ rule_ = Production(LIST, 1, 2)
  <2>1. rule_.values = 1 /\ rule_.tokens = 2 /\ rule_.made = LIST /\ rhsLength = 3
    BY <1>10 DEF Production, rhsLength
  <2>2. nextStateEntry = Transit(3)
    BY <1>2, <1>4, <1>5, <1>10, <2>1, TableTransits DEF nextStateEntry
  <2>3. nextStateEntry[1] = "Transit" /\ nextStateEntry[2] = 3
    BY <2>2 DEF Transit
  <2>4. Len(tokensStack) = Depth + 1 /\ Len(valuesStack) = Depth /\ Depth > 0
    BY <1>1, <1>2, <1>6, <1>10, Halves DEF TokenStates
  <2> QED BY <1>1, <1>2, <1>10, <2>1, <2>3, <2>4 DEF CanReduce
<1>11. CASE Upper = 7 /\ entry[2] = 7 /\ rule_ = Production(ENTRIES, 0, 0)
  <2>1. rule_.values = 0 /\ rule_.tokens = 0 /\ rule_.made = ENTRIES /\ rhsLength = 0
    BY <1>11 DEF Production, rhsLength
  <2>2. Top(Without(statesStack, 0)) = statesStack[Height - 0] /\ Height - 0 = Height
    BY <1>2, <1>5, <1>7
  <2>3. nextStateEntry = Transit(8)
    BY <1>11, <2>1, <2>2, TableTransits DEF nextStateEntry, Upper
  <2>4. nextStateEntry[1] = "Transit" /\ nextStateEntry[2] = 8
    BY <2>3 DEF Transit
  <2>5. Len(tokensStack) = Depth + 1 /\ Len(valuesStack) = Depth
    BY <1>6, <1>11 DEF TokenStates
  <2> QED BY <1>1, <1>2, <1>7, <1>11, <2>1, <2>4, <2>5 DEF CanReduce
<1>12. CASE Upper = 10 /\ Height >= 4 /\ entry[2] = 8 /\ rule_ = Production(ENTRIES, 2, 0)
  <2>1. rule_.values = 2 /\ rule_.tokens = 0 /\ rule_.made = ENTRIES /\ rhsLength = 2
    BY <1>12 DEF Production, rhsLength
  <2>2. nextStateEntry = Transit(8)
    BY <1>2, <1>4, <1>5, <1>12, <2>1, TableTransits DEF nextStateEntry
  <2>3. nextStateEntry[1] = "Transit" /\ nextStateEntry[2] = 8
    BY <2>2 DEF Transit
  <2>4. Len(tokensStack) = Depth /\ Len(valuesStack) = Depth + 1 /\ Depth > 0
    BY <1>1, <1>2, <1>6, <1>12, Halves DEF ValueStates
  <2> QED BY <1>1, <1>2, <1>12, <2>1, <2>3, <2>4 DEF CanReduce
<1> QED BY <1>1, <1>8, <1>9, <1>10, <1>11, <1>12, Reductions

LEMMA HandledIsList ==
    ASSUME NEW v, IsList(v), NEW e
    PROVE  IsList([v EXCEPT !.list = Append(@, e)])
<1>1. v = [type |-> "LIST", list |-> v.list]
  BY DEF IsList, ListOf
<1> DEFINE w == [v EXCEPT !.list = Append(v.list, e)]
<1>2. w = [type |-> "LIST", list |-> Append(v.list, e)]
  BY <1>1
<1>3. w.type = "LIST" /\ w.list = Append(v.list, e)
  BY <1>2
<1> QED BY <1>2, <1>3 DEF IsList, ListOf

LEMMA ReduceAgrees == ASSUME IInv, ReduceBy PROVE IInv'
<1>1. pc = "parse" /\ entry[1] = "Reduce"
  BY DEF ReduceBy
<1>2. CanReduce /\ rhsLength \in Nat /\ rhsLength < Height
  BY <1>1, ReduceCan
<1>3. Reduced
  BY <1>2 DEF ReduceBy
<1>4. ShapeOK /\ CountsOK /\ IsSeq(valuesStack) /\ IsSeq(tokensStack)
  BY <1>1, Parts, Typed
<1>5. Height % 2 = 0 /\ Height \in Nat /\ Depth \in Nat /\ Height >= 2
  BY <1>1, <1>4, Reductions, Below DEF ShapeOK, Height
<1> DEFINE new == nextStateEntry[2]
<1>6. /\ IsSeq(Without(valuesStack, rule_.values)) /\ IsSeq(valuesStack') /\ IsSeq(tokensStack')
      /\ Len(valuesStack') = Len(valuesStack) - rule_.values + 1
      /\ Len(tokensStack') = Len(tokensStack) - rule_.tokens
      /\ \A i \in 1..Len(valuesStack) - rule_.values : valuesStack'[i] = valuesStack[i]
      /\ valuesStack'[Len(valuesStack) - rule_.values + 1] = Handled
  <2>1. rule_.values \in Nat /\ rule_.tokens \in Nat
    BY <1>1, ReduceCan
  <2>2. rule_.values <= Len(valuesStack) /\ rule_.tokens <= Len(tokensStack)
    BY <1>2 DEF CanReduce
  <2>3. /\ IsSeq(Without(valuesStack, rule_.values))
        /\ Len(Without(valuesStack, rule_.values)) = Len(valuesStack) - rule_.values
        /\ \A i \in 1..Len(valuesStack) - rule_.values : Without(valuesStack, rule_.values)[i] = valuesStack[i]
    BY <1>4, <2>1, <2>2, WithoutIsSeq
  <2>4. IsSeq(tokensStack') /\ Len(tokensStack') = Len(tokensStack) - rule_.tokens
    BY <1>3, <1>4, <2>1, <2>2, WithoutIsSeq DEF Reduced
  <2>5. valuesStack' = Append(Without(valuesStack, rule_.values), Handled)
    BY <1>3 DEF Reduced
  <2> QED BY <2>3, <2>4, <2>5, AppendIsSeq
<1>7. \A k \in 0..10 : new = k =>
         /\ statesStack' \in Seq(0..10) /\ Height' = Height - rhsLength + 1 /\ Upper' = new
         /\ \A i \in 1..Height - rhsLength : statesStack'[i] = statesStack[i]
  BY <1>1, <1>2, <1>3, PopPush DEF Reduced
<1>8. pc' = "parse"
  BY <1>1, <1>3 DEF Reduced
<1>9. /\ Upper \in TokenStates => Len(tokensStack) = Depth + 1 /\ Len(valuesStack) = Depth
      /\ Upper \in ValueStates => Len(tokensStack) = Depth /\ Len(valuesStack) = Depth + 1
      /\ \A i \in 1..Depth : IsList(valuesStack[i])
  BY <1>4, <1>5 DEF CountsOK
<1>10. CASE /\ Upper \in {2, 3} /\ rule_.values = 1 /\ rule_.tokens = 0
            /\ new = IF Height = 2 THEN 1 ELSE 10
  <2>1. rhsLength = 1 /\ new \in {1, 10} /\ Upper \in ValueStates
    BY <1>10 DEF rhsLength, ValueStates
  <2> HIDE DEF new
  <2>2. /\ statesStack' \in Seq(0..10) /\ Height' = Height /\ Upper' = new
        /\ \A i \in 1..Height - 1 : statesStack'[i] = statesStack[i]
    BY <1>5, <1>7, <2>1
  <2>3. Depth' = Depth
    BY <1>4, <1>5, <2>2, Halves
  <2>4. ShapeOK'
    BY <1>4, <1>5, <1>10, <2>1, <2>2, <2>3, Below DEF ShapeOK, ValueStates
  <2>5. /\ Len(tokensStack') = Depth /\ Len(valuesStack') = Depth + 1
        /\ \A i \in 1..Depth : IsList(valuesStack'[i])
    BY <1>5, <1>6, <1>9, <1>10, <2>1
  <2>6. CountsOK'
    BY <1>5, <2>1, <2>2, <2>3, <2>5 DEF CountsOK, ValueStates, TokenStates
  <2> QED BY <1>6, <1>8, <2>2, <2>4, <2>6, Whole
<1>11. CASE Upper \in {4, 5, 6} /\ rule_.values = 0 /\ rule_.tokens = 1 /\ new = 2
  <2>1. rhsLength = 1 /\ Upper \in TokenStates
    BY <1>11 DEF rhsLength, TokenStates
  <2> HIDE DEF new
  <2>2. /\ statesStack' \in Seq(0..10) /\ Height' = Height /\ Upper' = 2
        /\ \A i \in 1..Height - 1 : statesStack'[i] = statesStack[i]
    BY <1>5, <1>7, <1>11, <2>1
  <2>3. Depth' = Depth
    BY <1>4, <1>5, <2>2, Halves
  <2>4. ShapeOK'
    BY <1>4, <1>5, <2>2, <2>3, Below DEF ShapeOK, ValueStates
  <2>5. /\ Len(tokensStack') = Depth /\ Len(valuesStack') = Depth + 1
        /\ \A i \in 1..Depth : IsList(valuesStack'[i])
    BY <1>5, <1>6, <1>9, <1>11, <2>1
  <2>6. CountsOK'
    BY <1>5, <2>2, <2>3, <2>5 DEF CountsOK, ValueStates, TokenStates
  <2> QED BY <1>6, <1>8, <2>2, <2>4, <2>6, Whole
<1>12. CASE Upper = 9 /\ Height >= 4 /\ rule_.values = 1 /\ rule_.tokens = 2 /\ new = 3 /\ entry[2] = 6
  <2>1. rhsLength = 3 /\ Upper \in TokenStates
    BY <1>12 DEF rhsLength, TokenStates
  <2> HIDE DEF new
  <2>2. /\ statesStack' \in Seq(0..10) /\ Height' = Height - 2 /\ Upper' = 3
        /\ \A i \in 1..Height - 3 : statesStack'[i] = statesStack[i]
    BY <1>5, <1>7, <1>12, <2>1
  <2>3. Depth' = Depth - 1 /\ Height' % 2 = 0 /\ Depth > 0
    BY <1>4, <1>5, <1>12, <2>2, Halves
  <2>4. ShapeOK'
    BY <1>4, <1>5, <1>12, <2>2, <2>3 DEF ShapeOK, ValueStates
  <2>5. /\ Len(tokensStack') = Depth - 1 /\ Len(valuesStack') = Depth
        /\ \A i \in 1..Depth - 1 : IsList(valuesStack'[i])
    BY <1>5, <1>6, <1>9, <1>12, <2>1, <2>3
  <2>6. CountsOK'
    BY <1>5, <2>2, <2>3, <2>5 DEF CountsOK, ValueStates, TokenStates
  <2> QED BY <1>6, <1>8, <2>2, <2>4, <2>6, Whole
<1>13. CASE Upper = 7 /\ rule_.values = 0 /\ rule_.tokens = 0 /\ new = 8 /\ entry[2] = 7
  <2>1. rhsLength = 0 /\ Upper \in TokenStates /\ Handled = ListOf(<<>>)
    BY <1>13 DEF rhsLength, TokenStates, Handled
  <2> HIDE DEF new
  <2>2. /\ statesStack' \in Seq(0..10) /\ Height' = Height + 1 /\ Upper' = 8
        /\ \A i \in 1..Height : statesStack'[i] = statesStack[i]
    BY <1>5, <1>7, <1>13, <2>1
  <2>3. Depth' = Depth + 1 /\ Height' % 2 = 1
    BY <1>4, <1>5, <2>2, Halves
  <2>4. ShapeOK'
    <3>1. \A i \in 2..Height' - 1 : statesStack'[i] = IF i % 2 = 0 THEN 7 ELSE 8
      <4> SUFFICES ASSUME NEW i \in 2..Height PROVE statesStack'[i] = IF i % 2 = 0 THEN 7 ELSE 8
        BY <1>5, <2>2
      <4>1. CASE i = Height
        BY <1>5, <1>13, <2>2, <4>1 DEF Upper
      <4>2. CASE i \in 2..Height - 1
        BY <1>4, <1>5, <2>2, <4>2 DEF ShapeOK
      <4> QED BY <1>5, <4>1, <4>2
    <3> QED BY <1>4, <1>5, <2>2, <2>3, <3>1 DEF ShapeOK
  <2>5. /\ Len(tokensStack') = Depth + 1 /\ Len(valuesStack') = Depth + 1
        /\ \A i \in 1..Depth : IsList(valuesStack'[i])
    BY <1>5, <1>6, <1>9, <1>13, <2>1
  <2>6. IsList(valuesStack'[Depth + 1])
    BY <1>5, <1>6, <1>9, <1>13, <2>1 DEF IsList, ListOf
  <2>7. CountsOK'
    BY <1>5, <2>2, <2>3, <2>5, <2>6 DEF CountsOK
  <2> QED BY <1>6, <1>8, <2>2, <2>4, <2>7, Whole
<1>14. CASE Upper = 10 /\ Height >= 4 /\ rule_.values = 2 /\ rule_.tokens = 0 /\ new = 8 /\ entry[2] = 8
  <2>1. rhsLength = 2 /\ Upper \in ValueStates
    BY <1>14 DEF rhsLength, ValueStates
  <2> HIDE DEF new
  <2>2. /\ statesStack' \in Seq(0..10) /\ Height' = Height - 1 /\ Upper' = 8
        /\ \A i \in 1..Height - 2 : statesStack'[i] = statesStack[i]
    BY <1>5, <1>7, <1>14, <2>1
  <2>3. Depth' = Depth /\ Height' % 2 = 1 /\ Depth > 0
    BY <1>4, <1>5, <1>14, <2>2, Halves
  <2>4. ShapeOK'
    BY <1>4, <1>5, <1>14, <2>2, <2>3 DEF ShapeOK
  <2>5. Len(valuesStack) = Depth + 1 /\ Len(tokensStack) = Depth
    BY <1>9, <2>1
  <2>6. Handled = [valuesStack[Depth] EXCEPT !.list = Append(@, Top(valuesStack))]
    <3>1. Len(valuesStack) - 1 = Depth
      BY <1>5, <2>5
    <3>2. entry[2] = 8
      BY <1>14
    <3> HIDE DEF entry
    <3> QED BY <3>1, <3>2 DEF Handled
  <2>7. IsList(Handled)
    <3>1. IsList(valuesStack[Depth])
      BY <1>5, <1>9, <2>3
    <3> QED BY <3>1, <2>6, HandledIsList
  <2>8. /\ Len(tokensStack') = Depth /\ Len(valuesStack') = Depth
        /\ \A i \in 1..Depth : IsList(valuesStack'[i])
    BY <1>5, <1>6, <1>9, <1>14, <2>3, <2>5, <2>7
  <2>9. CountsOK'
    BY <1>5, <2>2, <2>3, <2>8 DEF CountsOK
  <2> QED BY <1>6, <1>8, <2>2, <2>4, <2>9, Whole
<1> QED BY <1>1, <1>10, <1>11, <1>12, <1>13, <1>14, ReduceCan

-----------------------------------------------------------------------------

LEMMA InitIInv == Init => IInv
BY DEF Init, IInv, Sequences_, StacksAgree, NeverCorrupt

LEMMA ParseAgrees == ASSUME NEW text \in Texts, Parse(text) PROVE IInv'
<1>1. statesStack' = <<0>> /\ valuesStack' = <<>> /\ tokensStack' = <<>> /\ pc' = "lex"
  BY DEF Parse
<1>2. statesStack' \in Seq(0..10) /\ Height' = 1 /\ Upper' = 0 /\ Depth' = 0
  BY <1>1 DEF Height, Upper, Depth
<1>3. IsSeq(valuesStack') /\ IsSeq(tokensStack')
  BY <1>1, EmptyIsSeq
<1>4. ShapeOK'
  BY <1>1, <1>2 DEF ShapeOK
<1>5. CountsOK'
  BY <1>1, <1>2 DEF CountsOK
<1> QED BY <1>1, <1>2, <1>3, <1>4, <1>5, Whole

(* The tokenizer leaves the stacks alone. *)
LEMMA SameStacks ==
    ASSUME IInv, UNCHANGED stacks, pc \in {"lex", "parse"} \/ pc' \notin {"lex", "parse"},
           pc' # "undefined"
    PROVE  IInv'
BY DEF IInv, Sequences_, StacksAgree, StatesAgree, Topped, Depth, Top, stacks, NeverCorrupt, IsSeq

LEMMA NextIInv == IInv /\ [Next]_vars => IInv'
<1> SUFFICES ASSUME IInv, [Next]_vars PROVE IInv'
  OBVIOUS
<1>1. CASE \E text \in Texts : Parse(text)
  BY <1>1, ParseAgrees
<1>2. CASE getNextToken
  BY <1>2, SameStacks DEF getNextToken, Skip, Read, ReadEnd, UnexpectedCharacter, Throw, captureLocations_, stacks
<1>3. CASE ShiftToken
  BY <1>3, ShiftAgrees
<1>4. CASE ReduceBy
  BY <1>4, ReduceAgrees
<1>5. CASE NumberTooLarge
  BY <1>5 DEF NumberTooLarge, Throw, IInv, Sequences_, StacksAgree, NeverCorrupt
<1>6. CASE UnexpectedToken
  BY <1>6 DEF UnexpectedToken, Throw, IInv, Sequences_, StacksAgree, NeverCorrupt
<1>7. CASE AcceptText
  <2>1. pc = "parse" /\ Top(statesStack) = 1
    BY <1>7, TableAccepts DEF AcceptText, entry
  <2>2. ShapeOK /\ CountsOK /\ Upper = 1
    BY <2>1, Parts, Typed DEF Upper, Height
  <2>3. Len(valuesStack) = Depth + 1 /\ Depth \in Nat
    <3>1. Height = 2 /\ Depth \in Nat /\ Upper \in ValueStates
      BY <2>2 DEF ShapeOK, ValueStates
    <3>2. Height % 2 = 0
      BY <3>1
    <3> QED BY <2>2, <3>1, <3>2 DEF CountsOK
  <2>4. valuesStack # <<>>
    <3>1. Len(valuesStack) # 0
      BY <2>3
    <3>2. Len(<<>>) = 0
      OBVIOUS
    <3> QED BY <3>1, <3>2
  <2> QED BY <1>7, <2>4 DEF AcceptText, Accepted, Throw, IInv, Sequences_, StacksAgree, NeverCorrupt
<1>8. CASE UNCHANGED vars
  BY <1>8 DEF vars, stacks, IInv, Sequences_, StacksAgree, StatesAgree, Topped, Depth, Top, NeverCorrupt, IsSeq
<1> QED BY <1>1, <1>2, <1>3, <1>4, <1>5, <1>6, <1>7, <1>8 DEF Next, Loop

LEMMA Inductive == Spec => []IInv
<1> QED BY InitIInv, NextIInv, PTL DEF Spec

(* In any text, while it is read: the stack of states is that of the lists *)
(* that are open and what they have so far, each state has its token or    *)
(* its value on the other two stacks, and a value an element is appended   *)
(* to is a list.                                                           *)
THEOREM ParserStacks == Spec => []StacksAgree
<1>1. IInv => StacksAgree
  BY DEF IInv
<1> QED BY Inductive, <1>1, PTL

(* Whatever text the parser is given, and whatever it has read before: no  *)
(* reduction takes from an empty stack, each finds its transition, and     *)
(* there is a value to return when the text is accepted.                   *)
THEOREM ParserSafe == Spec => []NeverCorrupt
<1>1. IInv => NeverCorrupt
  BY DEF IInv
<1> QED BY Inductive, <1>1, PTL

-----------------------------------------------------------------------------
(* Places.  A set of offsets that is not empty has a least and a greatest  *)
(* element, so what the lexical rules choose is there.                     *)

LEMMA LeastExists ==
    ASSUME NEW S \in SUBSET Nat, S # {} PROVE \E j \in S : \A k \in S : j <= k
<1> DEFINE R == {ss \in Nat \X Nat : ss[1] < ss[2]}
<1>1. IsWellFoundedOn(R, Nat)
  BY NatLessThanWellFounded DEF OpToRel
<1>2. PICK x \in S : \A y \in S : <<y, x>> \notin R
  <2> HIDE DEF R
  <2> QED BY <1>1, WFMin
<1>3. ASSUME NEW k \in S PROVE x <= k
  <2>1. k \in Nat /\ x \in Nat /\ <<k, x>> \notin R
    BY <1>2
  <2>2. ~(k < x)
    BY <2>1
  <2> QED BY <2>1, <2>2
<1> QED BY <1>3

LEMMA GreatestExists ==
    ASSUME NEW n \in Nat, NEW S \in SUBSET (0..n), S # {} PROVE \E j \in S : \A k \in S : k <= j
<1> DEFINE T == {n - k : k \in S}
<1>1. \A k \in S : n - k \in Nat
  OBVIOUS
<1>2. T \in SUBSET Nat
  BY <1>1
<1>3. T # {}
  OBVIOUS
<1>4. PICK t \in T : \A u \in T : t <= u
  <2> HIDE DEF T
  <2> QED BY <1>2, <1>3, LeastExists
<1>5. PICK j \in S : t = n - j
  BY <1>4
<1>6. ASSUME NEW k \in S PROVE k <= j
  <2>1. n - k \in T
    OBVIOUS
  <2>2. n - j <= n - k
    BY <1>4, <1>5, <2>1
  <2>3. k \in Nat /\ j \in Nat
    OBVIOUS
  <2> QED BY <2>2, <2>3
<1> QED BY <1>6

-----------------------------------------------------------------------------
(* A piece of n characters moves a place.  In a text with the newlines N,  *)
(* the character at offset i is in that line, which begins there.          *)

Ends(N, first, last) == {j \in first..last : j \in N}

InLine(N, line, begin, i) ==
    /\ begin \in 0..i
    /\ line = 1 + Cardinality(Ends(N, 0, i - 1))
    /\ begin = 0 \/ begin - 1 \in N
    /\ \A j \in begin..i - 1 : j \notin N

LEMMA EndsFinite ==
    ASSUME NEW N, NEW a \in Int, NEW b \in Int
    PROVE  IsFiniteSet(Ends(N, a, b)) /\ Cardinality(Ends(N, a, b)) \in Nat
<1>1. Ends(N, a, b) \in SUBSET (a..b)
  BY DEF Ends
<1>2. IsFiniteSet(a..b)
  BY FS_Interval
<1>3. IsFiniteSet(Ends(N, a, b))
  BY <1>1, <1>2, FS_Subset
<1> QED BY <1>3, FS_CardinalityType

LEMMA EndsAdd ==
    ASSUME NEW N, NEW i \in Nat, NEW n \in Nat
    PROVE  Cardinality(Ends(N, 0, i + n - 1)) =
             Cardinality(Ends(N, 0, i - 1)) + Cardinality(Ends(N, i, i + n - 1))
<1> DEFINE A == Ends(N, 0, i - 1)
           B == Ends(N, i, i + n - 1)
<1>1. Ends(N, 0, i + n - 1) = A \cup B
  BY DEF Ends
<1>2. A \cap B = {}
  BY DEF Ends
<1>3. /\ IsFiniteSet(A) /\ IsFiniteSet(B)
      /\ Cardinality(A) \in Nat /\ Cardinality(B) \in Nat
  BY EndsFinite
<1> HIDE DEF A, B
<1>4. Cardinality(A \cup B) = Cardinality(A) + Cardinality(B) - Cardinality({})
  BY <1>2, <1>3, FS_Union
<1>5. Cardinality({}) = 0
  BY FS_EmptySet
<1>6. Cardinality(A \cup B) = Cardinality(A) + Cardinality(B)
  BY <1>3, <1>4, <1>5
<1> QED BY <1>1, <1>6 DEF A, B

LEMMA PieceMoves ==
    ASSUME NEW N, NEW i \in Nat, NEW n \in Nat, NEW line, NEW begin, InLine(N, line, begin, i),
           NEW ends, ends = Ends(N, i, i + n - 1)
    PROVE  InLine(N, line + Cardinality(ends),
                  IF ends = {} THEN begin ELSE 1 + CHOOSE j \in ends : \A k \in ends : k <= j, i + n)
<1>1. line + Cardinality(ends) = 1 + Cardinality(Ends(N, 0, i + n - 1))
  <2>1. Cardinality(Ends(N, 0, i - 1)) \in Nat /\ Cardinality(ends) \in Nat
    BY EndsFinite
  <2>2. line = 1 + Cardinality(Ends(N, 0, i - 1))
    BY DEF InLine
  <2>3. Cardinality(Ends(N, 0, i + n - 1)) = Cardinality(Ends(N, 0, i - 1)) + Cardinality(ends)
    BY EndsAdd
  <2> QED BY <2>1, <2>2, <2>3
<1>2. begin \in 0..i /\ (begin = 0 \/ begin - 1 \in N) /\ \A j \in begin..i - 1 : j \notin N
  BY DEF InLine
<1>3. CASE ends = {}
  <2>1. \A j \in i..i + n - 1 : j \notin N
    BY <1>3 DEF Ends
  <2>2. begin \in 0..i + n /\ \A j \in begin..i + n - 1 : j \notin N
    BY <1>2, <2>1
  <2> QED BY <1>1, <1>2, <1>3, <2>2 DEF InLine
<1>4. CASE ends # {}
  <2>1. ends \in SUBSET (0..i + n) /\ i + n \in Nat
    BY DEF Ends
  <2>2. \E j \in ends : \A k \in ends : k <= j
    BY <1>4, <2>1, GreatestExists
  <2> DEFINE m == CHOOSE j \in ends : \A k \in ends : k <= j
  <2>3. m \in ends /\ \A k \in ends : k <= m
    BY <2>2
  <2> HIDE DEF m
  <2>4. m \in i..i + n - 1 /\ m \in N
    BY <2>3 DEF Ends
  <2>5. ASSUME NEW j \in 1 + m..i + n - 1, j \in N PROVE FALSE
    <3>1. j \in i..i + n - 1 /\ ~(j <= m)
      BY <2>4
    <3>2. j \in ends
      BY <2>5, <3>1 DEF Ends
    <3> QED BY <2>3, <3>1, <3>2
  <2>6. 1 + m - 1 = m /\ 1 + m \in 0..i + n
    BY <2>4
  <2>7. InLine(N, line + Cardinality(ends), 1 + m, i + n)
    BY <1>1, <2>4, <2>5, <2>6 DEF InLine
  <2> QED BY <1>4, <2>7 DEF m
<1> QED BY <1>3, <1>4

-----------------------------------------------------------------------------
(* The lexical rules match inside the text.                                *)

LEMMA CharInside ==
    ASSUME NEW i, Char(i) \in {"(", ")", "/"} PROVE i < Size
<1> SUFFICES ASSUME ~(i < Size) PROVE FALSE
  OBVIOUS
<1>1. Char(i) = ""
  BY DEF Char
<1> HIDE DEF Char
<1> QED BY <1>1

LEMMA LeastOffset ==
    ASSUME Size \in Nat, NEW i \in Nat, NEW S, S \subseteq Offsets(i)
    PROVE  Least(S) = Size \/ (Least(S) \in S /\ Least(S) \in i..Size - 1)
<1> DEFINE size == Size
<1>1. S \in SUBSET Nat
  BY DEF Offsets
<1>2. CASE S = {}
  BY <1>2 DEF Least
<1>3. CASE S # {}
  <2>1. \E j \in S : \A k \in S : j <= k
    BY <1>1, <1>3, LeastExists
  <2>2. Least(S) = CHOOSE j \in S : \A k \in S : j <= k
    BY <1>3 DEF Least
  <2>3. Least(S) \in S
    BY <2>1, <2>2
  <2> QED BY <2>3 DEF Offsets
<1> QED BY <1>2, <1>3

LEMMA RunInside ==
    ASSUME Size \in Nat, NEW i \in Nat, NEW S, RunOf(S, i) > 0
    PROVE  RunOf(S, i) \in Nat \ {0} /\ i + RunOf(S, i) <= Size
<1> DEFINE T == {j \in Offsets(i) : Char(j) \notin S}
           end == Least(T)
           size == Size
<1>1. T \subseteq Offsets(i)
  OBVIOUS
<1>2. RunOf(S, i) = end - i
  BY DEF RunOf
<1> HIDE DEF T
<1>3. end = size \/ end \in i..size - 1
  BY <1>1, LeastOffset
<1> HIDE DEF end, size
<1>4. end - i > 0 /\ size \in Nat
  BY <1>2 DEF size
<1> QED BY <1>2, <1>3, <1>4 DEF size

LEMMA MatchedInside ==
    ASSUME Size \in Nat, NEW i \in Nat, NEW rule \in Rules, Matched(rule, i) > 0
    PROVE  Matched(rule, i) \in Nat \ {0} /\ i + Matched(rule, i) <= Size
<1> DEFINE n == Matched(rule, i)
           size == Size
<1>0. size \in Nat /\ n > 0
  OBVIOUS
<1> SUFFICES n \in Nat \ {0} /\ i + n <= size
  OBVIOUS
<1>1. CASE rule = 1
  <2>1. n = IF Char(i) = "(" THEN 1 ELSE 0
    BY <1>1 DEF Matched
  <2> HIDE DEF n
  <2>2. Char(i) = "(" /\ n = 1
    BY <1>0, <2>1
  <2>3. i < size
    BY <2>2, CharInside
  <2> HIDE DEF size
  <2> QED BY <1>0, <2>2, <2>3
<1>2. CASE rule = 2
  <2>1. n = IF Char(i) = ")" THEN 1 ELSE 0
    BY <1>2 DEF Matched
  <2> HIDE DEF n
  <2>2. Char(i) = ")" /\ n = 1
    BY <1>0, <2>1
  <2>3. i < size
    BY <2>2, CharInside
  <2> HIDE DEF size
  <2> QED BY <1>0, <2>2, <2>3
<1>3. CASE rule = 3
  <2> DEFINE S == {j \in Offsets(i) : Char(j) = Newline}
             end == Least(S)
  <2>1. n = IF Char(i) = "/" /\ Char(i + 1) = "/" THEN end - i ELSE 0
    BY <1>3 DEF Matched
  <2>2. S \subseteq Offsets(i)
    OBVIOUS
  <2> HIDE DEF n, S
  <2>3. end = size \/ end \in i..size - 1
    BY <2>2, LeastOffset
  <2> HIDE DEF size, end
  <2> QED BY <1>0, <2>1, <2>3
<1>4. CASE rule = 4
  <2> DEFINE S == {j \in Offsets(i + 2) : Char(j) = "*" /\ Char(j + 1) = "/"}
             end == Least(S)
  <2>1. n = IF Char(i) = "/" /\ Char(i + 1) = "*" /\ end < Size THEN end + 2 - i ELSE 0
    BY <1>4 DEF Matched
  <2>2. S \subseteq Offsets(i + 2) /\ \A j \in S : Char(j + 1) = "/"
    OBVIOUS
  <2> HIDE DEF n, S
  <2>3. i + 2 \in Nat
    OBVIOUS
  <2>4. end = size \/ (end \in S /\ end \in i + 2..size - 1)
    BY <2>2, <2>3, LeastOffset
  <2>5. end < size /\ n = end + 2 - i
    BY <1>0, <2>1
  <2> HIDE DEF end
  <2>6. end \in S /\ end \in i + 2..size - 1
    <3> HIDE DEF size
    <3> QED BY <1>0, <2>4, <2>5
  <2>7. end + 1 < size
    BY <2>2, <2>6, CharInside
  <2> HIDE DEF size
  <2> QED BY <1>0, <2>5, <2>6, <2>7
<1>5. CASE rule = 5
  <2>1. n = RunOf(Space, i)
    BY <1>5 DEF Matched
  <2> HIDE DEF n
  <2> QED BY <1>0, <2>1, RunInside
<1>6. CASE rule = 6
  <2> DEFINE S == {j \in Offsets(i + 1) : Char(j) = Quote}
             end == Least(S)
  <2>1. n = IF Char(i) = Quote /\ end < Size THEN end + 1 - i ELSE 0
    BY <1>6 DEF Matched
  <2>2. S \subseteq Offsets(i + 1)
    OBVIOUS
  <2> HIDE DEF n, S
  <2>3. i + 1 \in Nat
    OBVIOUS
  <2>4. end = size \/ end \in i + 1..size - 1
    BY <2>2, <2>3, LeastOffset
  <2>5. end < size /\ n = end + 1 - i
    BY <1>0, <2>1
  <2> HIDE DEF end, size
  <2> QED BY <1>0, <2>4, <2>5
<1>7. CASE rule = 7
  <2>1. n = RunOf(Digits, i)
    BY <1>7 DEF Matched
  <2> HIDE DEF n
  <2> QED BY <1>0, <2>1, RunInside
<1>8. CASE rule = 8
  <2>1. n = RunOf(SymbolChars, i)
    BY <1>8 DEF Matched
  <2> HIDE DEF n
  <2> QED BY <1>0, <2>1, RunInside
<1>9. rule = 1 \/ rule = 2 \/ rule = 3 \/ rule = 4 \/ rule = 5 \/ rule = 6 \/ rule = 7 \/ rule = 8
  BY DEF Rules
<1> QED BY <1>1, <1>2, <1>3, <1>4, <1>5, <1>6, <1>7, <1>8, <1>9

LEMMA RuleApplies ==
    ASSUME LexRule # NoRule PROVE LexRule \in Rules /\ Matched(LexRule, cursor_) > 0
<1> DEFINE applicable == {rule \in Rules : Matched(rule, cursor_) > 0}
<1>1. applicable # {}
  BY DEF LexRule
<1>2. LexRule = CHOOSE rule \in applicable : \A other \in applicable : rule <= other
  BY <1>1 DEF LexRule
<1>3. applicable \subseteq Rules
  OBVIOUS
<1>4. \A rule \in applicable : Matched(rule, cursor_) > 0
  OBVIOUS
<1> HIDE DEF applicable
<1>5. applicable \in SUBSET Nat
  BY <1>3 DEF Rules
<1>6. \E rule \in applicable : \A other \in applicable : rule <= other
  BY <1>1, <1>5, LeastExists
<1>7. LexRule \in applicable
  BY <1>2, <1>6
<1> QED BY <1>3, <1>4, <1>7

-----------------------------------------------------------------------------
(* The places the parser keeps                                             *)

Newlines == {j \in Int : Char(j) = Newline}

InPlace(N, line, column, i) == i \in Nat /\ column \in 0..i /\ InLine(N, line, i - column, i)

Located == currentColumn_ = cursor_ - currentLineBeginOffset_
           /\ InLine(Newlines, currentLine_, currentLineBeginOffset_, cursor_)

TokenLocated ==
    LET start == cursor_ - Len(token.value)
    IN /\ token.value = SubSeq(str_, start + 1, cursor_)
       /\ InPlace(Newlines, token.startLine, token.startColumn, start)

ErrorLocated ==
    \E i \in {cursor_, cursor_ - Len(token.value)} : InPlace(Newlines, result.line, result.column, i)

CursorTyped ==
    /\ str_ \in Seq(Characters) /\ cursor_ \in 0..Size + 1
    /\ currentLine_ \in Nat \ {0} /\ currentColumn_ \in Nat /\ currentLineBeginOffset_ \in 0..Size
    /\ cursor_ <= Size => Located

ReadsOn ==
    /\ pc = "lex" => cursor_ <= Size
    /\ pc = "parse" /\ token.type # EofToken => cursor_ <= Size /\ TokenLocated
    /\ pc = "parse" /\ token.type = EofToken => cursor_ > Size
    /\ pc = "thrown" /\ result.error = "unexpected" => ErrorLocated

StepTyped ==
    /\ token.type \in NumberToken..EofToken \cup {Empty}
    /\ statesStack \in Seq(0..10)
    /\ pc \in {"idle", "lex", "parse", "accepted", "thrown", "undefined"}

PInv == CursorTyped /\ ReadsOn /\ StepTyped

LEMMA PlaceIs ==
    ASSUME NEW line, NEW column, NEW i, InPlace(Newlines, line, column, i)
    PROVE  IsPlace(line, column, i)
<1>1. i \in Nat /\ column \in 0..i /\ InLine(Newlines, line, i - column, i)
  BY DEF InPlace
<1>2. \A j \in Int : j \in Newlines <=> Char(j) = Newline
  BY DEF Newlines
<1>3. Ends(Newlines, 0, i - 1) = {j \in 0..i - 1 : Char(j) = Newline}
  BY <1>2 DEF Ends
<1>4. /\ line = 1 + Cardinality(Ends(Newlines, 0, i - 1))
      /\ i - column = 0 \/ i - column - 1 \in Newlines
      /\ \A j \in i - column..i - 1 : j \notin Newlines
  BY <1>1 DEF InLine
<1>5. column = i \/ Char(i - column - 1) = Newline
  BY <1>1, <1>2, <1>4
<1>6. \A j \in i - column..i - 1 : Char(j) # Newline
  BY <1>1, <1>2, <1>4
<1> QED BY <1>1, <1>3, <1>4, <1>5, <1>6 DEF IsPlace

LEMMA LineStart == ASSUME NEW N PROVE InLine(N, 1, 0, 0)
<1>1. Ends(N, 0, 0 - 1) = {}
  BY DEF Ends
<1>2. Cardinality(Ends(N, 0, 0 - 1)) = 0
  BY <1>1, FS_EmptySet
<1> QED BY <1>2 DEF InLine

LEMMA LineTyped ==
    ASSUME NEW N, NEW line, NEW begin, NEW i \in Nat, InLine(N, line, begin, i)
    PROVE  line \in Nat \ {0} /\ begin \in 0..i /\ i - begin \in 0..i /\ InPlace(N, line, i - begin, i)
<1>1. Cardinality(Ends(N, 0, i - 1)) \in Nat
  BY EndsFinite
<1>2. line = 1 + Cardinality(Ends(N, 0, i - 1)) /\ begin \in 0..i
  BY DEF InLine
<1>3. line \in Nat \ {0}
  BY <1>1, <1>2
<1>4. i - begin \in 0..i /\ i - (i - begin) = begin
  BY <1>2
<1> QED BY <1>2, <1>3, <1>4 DEF InPlace

LEMMA CaptureMoves ==
    ASSUME CursorTyped, cursor_ <= Size, NEW n \in Nat, cursor_ + n <= Size, captureLocations_(n)
    PROVE  CursorTyped' /\ cursor_' = cursor_ + n /\ Size' = Size /\ Newlines' = Newlines /\ str_' = str_
<1> DEFINE ends == {j \in cursor_..cursor_ + n - 1 : Char(j) = Newline}
           newBegin == IF ends = {} THEN currentLineBeginOffset_
                       ELSE 1 + CHOOSE j \in ends : \A k \in ends : k <= j
<1>1. /\ cursor_' = cursor_ + n /\ str_' = str_
      /\ currentLine_' = currentLine_ + Cardinality(ends)
      /\ currentLineBeginOffset_' = newBegin
      /\ currentColumn_' = cursor_' - currentLineBeginOffset_'
  BY DEF captureLocations_
<1>2. Size' = Size
  BY <1>1 DEF Size
<1>3. Newlines' = Newlines
  BY <1>1 DEF Newlines, Char, Size
<1>4. cursor_ \in Nat /\ Size \in Nat /\ str_ \in Seq(Characters) /\ Located
  BY DEF CursorTyped, Size
<1>5. ends = Ends(Newlines, cursor_, cursor_ + n - 1)
  <2>1. \A j \in Int : j \in Newlines <=> Char(j) = Newline
    BY DEF Newlines
  <2>2. \A j \in cursor_..cursor_ + n - 1 : j \in Int
    BY <1>4
  <2> QED BY <2>1, <2>2 DEF Ends
<1> HIDE DEF ends
<1>6. InLine(Newlines, currentLine_ + Cardinality(ends), newBegin, cursor_ + n)
  BY <1>4, <1>5, PieceMoves DEF Located
<1> HIDE DEF newBegin
<1>7. Located'
  BY <1>1, <1>3, <1>6 DEF Located
<1>8. /\ currentLine_' \in Nat \ {0} /\ currentLineBeginOffset_' \in 0..cursor_ + n
      /\ currentColumn_' \in 0..cursor_ + n
  <2>1. PICK i \in Nat : i = cursor_ + n
    BY <1>4
  <2>2. InLine(Newlines, currentLine_', currentLineBeginOffset_', i)
    BY <1>1, <1>6, <2>1, Zenon
  <2>3. currentLine_' \in Nat \ {0} /\ currentLineBeginOffset_' \in 0..i /\ i - currentLineBeginOffset_' \in 0..i
    BY <2>2, LineTyped
  <2> QED BY <1>1, <2>1, <2>3
<1>9. cursor_' \in 0..Size' + 1 /\ currentLineBeginOffset_' \in 0..Size' /\ currentColumn_' \in Nat
  BY <1>1, <1>2, <1>4, <1>8
<1> QED BY <1>1, <1>2, <1>3, <1>4, <1>7, <1>8, <1>9 DEF CursorTyped

-----------------------------------------------------------------------------
(* The steps *)

LEMMA InitPInv == Init => PInv
<1> SUFFICES ASSUME Init PROVE PInv
  OBVIOUS
<1>1. /\ str_ = <<>> /\ cursor_ = 0
      /\ currentLine_ = 1 /\ currentColumn_ = 0 /\ currentLineBeginOffset_ = 0
      /\ token.type = Empty /\ pc = "idle" /\ statesStack = <<>>
  BY DEF Init, NoToken
<1>2. str_ \in Seq(Characters) /\ statesStack \in Seq(0..10) /\ Size = 0
  BY <1>1 DEF Size
<1>3. Located
  BY <1>1, LineStart DEF Located
<1> QED BY <1>1, <1>2, <1>3 DEF PInv, CursorTyped, ReadsOn, StepTyped

LEMMA ParsePlaces == ASSUME NEW text \in Texts, Parse(text) PROVE PInv'
<1>1. /\ str_' = Wrapped(text) /\ cursor_' = 0
      /\ currentLine_' = 1 /\ currentColumn_' = 0 /\ currentLineBeginOffset_' = 0
      /\ token'.type = Empty /\ pc' = "lex" /\ statesStack' = <<0>>
  BY DEF Parse, NoToken
<1>2. str_' \in Seq(Characters)
  <2>1. text \in Seq(Characters)
    BY TextsAssumption
  <2>2. Begin \in Seq(Characters)
    <3>1. \A a, b, c, d, e \in Characters : <<a, b, c, d, e>> \in Seq(Characters)
      OBVIOUS
    <3>2. "(" \in Characters /\ "b" \in Characters /\ "e" \in Characters /\ "g" \in Characters
          /\ " " \in Characters
      BY TextsAssumption, Zenon
    <3> QED BY <3>1, <3>2, Zenon DEF Begin
  <2>3. <<")">> \in Seq(Characters)
    <3>1. \A c \in Characters : <<c>> \in Seq(Characters)
      OBVIOUS
    <3>2. ")" \in Characters
      BY TextsAssumption, Zenon
    <3> QED BY <3>1, <3>2, Zenon
  <2>4. Begin \o text \in Seq(Characters)
    BY <2>1, <2>2
  <2>5. Wrapped(text) \in Seq(Characters)
    BY <2>3, <2>4 DEF Wrapped
  <2> QED BY <1>1, <2>5
<1>3. Size' \in Nat
  BY <1>2 DEF Size
<1>4. statesStack' \in Seq(0..10)
  BY <1>1
<1>5. Located'
  BY <1>1, LineStart DEF Located
<1>6. CursorTyped'
  <2>1. cursor_' \in 0..Size' + 1 /\ currentLineBeginOffset_' \in 0..Size'
    <3>1. \A n \in Nat : 0 \in 0..n + 1 /\ 0 \in 0..n
      OBVIOUS
    <3> QED BY <1>1, <1>3, <3>1, Zenon
  <2>2. currentLine_' \in Nat \ {0} /\ currentColumn_' \in Nat
    BY <1>1
  <2> QED BY <1>2, <1>5, <2>1, <2>2 DEF CursorTyped
<1> QED BY <1>1, <1>3, <1>4, <1>6 DEF PInv, ReadsOn, StepTyped

LEMMA Captured ==
    ASSUME PInv, pc = "lex", NEW rule, rule = LexRule, rule # NoRule,
           captureLocations_(Matched(rule, cursor_))
    PROVE  /\ CursorTyped' /\ Newlines' = Newlines /\ str_' = str_
           /\ rule \in Rules /\ Matched(rule, cursor_) \in Nat
           /\ cursor_' = cursor_ + Matched(rule, cursor_) /\ cursor_' <= Size /\ Size' = Size
<1>1. rule \in Rules /\ Matched(rule, cursor_) > 0
  BY RuleApplies
<1>2. CursorTyped /\ cursor_ <= Size /\ cursor_ \in Nat /\ Size \in Nat
  BY DEF PInv, CursorTyped, ReadsOn, Size
<1>3. Matched(rule, cursor_) \in Nat \ {0} /\ cursor_ + Matched(rule, cursor_) <= Size
  BY <1>1, <1>2, MatchedInside
<1> QED BY <1>1, <1>2, <1>3, CaptureMoves

LEMMA SkipPlaces == ASSUME PInv, Skip PROVE PInv'
<1>1. PICK rule : rule = LexRule /\ rule # NoRule /\ captureLocations_(Matched(rule, cursor_))
  BY DEF Skip
<1>2. pc = "lex" /\ token' = token /\ statesStack' = statesStack /\ pc' = pc
  BY DEF Skip, stacks
<1>3. CursorTyped' /\ cursor_' <= Size'
  BY <1>1, <1>2, Captured
<1> QED BY <1>2, <1>3 DEF PInv, ReadsOn, StepTyped

LEMMA PieceLength ==
    ASSUME NEW S, NEW s \in Seq(S), NEW i \in Nat, NEW n \in Nat, i + n <= Len(s)
    PROVE  Len(SubSeq(s, i + 1, i + n)) = n
OBVIOUS

LEMMA ReadPlaces == ASSUME PInv, Read PROVE PInv'
<1> DEFINE length == Matched(LexRule, cursor_)
<1>1. /\ LexRule # NoRule /\ lexRule[LexRule] # Empty
      /\ captureLocations_(length)
      /\ token' = toToken(lexRule[LexRule], SubSeq(str_, cursor_ + 1, cursor_ + length))
  BY DEF Read
<1>2. pc = "lex" /\ pc' = "parse" /\ statesStack' = statesStack
  BY DEF Read, stacks
<1>3. /\ CursorTyped' /\ Newlines' = Newlines /\ str_' = str_ /\ LexRule \in Rules /\ length \in Nat
      /\ cursor_' = cursor_ + length /\ cursor_' <= Size /\ Size' = Size
  BY <1>1, <1>2, Captured
<1> HIDE DEF length
<1>4. cursor_ \in Nat /\ Size \in Nat /\ str_ \in Seq(Characters) /\ Located
  BY <1>2 DEF PInv, CursorTyped, ReadsOn, Size
<1>5. lexRule[LexRule] \in {OpenToken, CloseToken, StringToken, NumberToken, SymbolToken}
  <2>1. LexRule \in {1, 2, 6, 7, 8}
    BY <1>1, <1>3 DEF Rules, lexRule
  <2> QED BY <2>1 DEF lexRule
<1>6. /\ token'.type = lexRule[LexRule] /\ token'.value = SubSeq(str_, cursor_ + 1, cursor_ + length)
      /\ token'.startLine = currentLine_ /\ token'.startColumn = cursor_ - currentLineBeginOffset_
  BY <1>1 DEF toToken
<1>7. Len(token'.value) = length
  <2>1. cursor_ + length <= Len(str_)
    BY <1>3 DEF Size
  <2> QED BY <1>3, <1>4, <1>6, <2>1, PieceLength
<1>8. InPlace(Newlines, currentLine_, cursor_ - currentLineBeginOffset_, cursor_)
  BY <1>4, LineTyped DEF Located
<1>9. TokenLocated'
  <2>1. cursor_' - Len(token'.value) = cursor_
    BY <1>3, <1>4, <1>7
  <2> QED BY <1>3, <1>6, <1>8, <2>1 DEF TokenLocated
<1>10. token'.type \in NumberToken..EofToken /\ token'.type # EofToken
  BY <1>5, <1>6 DEF OpenToken, CloseToken, StringToken, NumberToken, SymbolToken, EofToken
<1> QED BY <1>2, <1>3, <1>9, <1>10 DEF PInv, ReadsOn, StepTyped

LEMMA ReadEndPlaces == ASSUME PInv, ReadEnd PROVE PInv'
<1>1. /\ cursor_ = Size /\ cursor_' = cursor_ + 1 /\ token'.type = EofToken /\ pc' = "parse"
      /\ statesStack' = statesStack /\ str_' = str_ /\ currentLine_' = currentLine_
      /\ currentColumn_' = currentColumn_ /\ currentLineBeginOffset_' = currentLineBeginOffset_
  BY DEF ReadEnd, stacks, toToken
<1>2. Size' = Size /\ Size \in Nat
  BY <1>1 DEF Size, PInv, CursorTyped
<1>3. cursor_' \in 0..Size' + 1 /\ ~(cursor_' <= Size')
  BY <1>1, <1>2
<1>4. CursorTyped'
  BY <1>1, <1>2, <1>3 DEF PInv, CursorTyped
<1>5. EofToken \in NumberToken..EofToken
  BY DEF EofToken, NumberToken
<1>6. cursor_' > Size'
  BY <1>1, <1>2
<1> QED BY <1>1, <1>4, <1>5, <1>6 DEF PInv, ReadsOn, StepTyped

(* The loop leaves the tokenizer alone. *)
LEMMA LoopPlaces ==
    ASSUME PInv, UNCHANGED <<tokenizer, token>>, statesStack' \in Seq(0..10),
           \/ pc' = "lex" /\ cursor_ <= Size
           \/ pc' = "parse" /\ pc = "parse"
           \/ pc' = "accepted"
           \/ pc' = "thrown" /\ (result'.error = "unexpected" => ErrorLocated')
    PROVE  PInv'
<1>1. /\ str_' = str_ /\ cursor_' = cursor_ /\ token' = token
      /\ currentLine_' = currentLine_ /\ currentColumn_' = currentColumn_
      /\ currentLineBeginOffset_' = currentLineBeginOffset_
  BY DEF tokenizer
<1>2. Size' = Size /\ Newlines' = Newlines
  BY <1>1 DEF Newlines, Char, Size
<1>3. Located' = Located /\ TokenLocated' = TokenLocated
  BY <1>1, <1>2 DEF Located, TokenLocated
<1>4. CursorTyped'
  BY <1>1, <1>2, <1>3 DEF PInv, CursorTyped
<1>5. ReadsOn'
  BY <1>1, <1>2, <1>3 DEF PInv, ReadsOn
<1>6. StepTyped'
  BY <1>1 DEF PInv, StepTyped
<1> QED BY <1>4, <1>5, <1>6 DEF PInv

LEMMA UnexpectedLocated ==
    ASSUME PInv, pc = "parse", UNCHANGED <<tokenizer, token>>, result' = Unexpected,
           result'.error = "unexpected"
    PROVE  ErrorLocated'
<1>1. str_' = str_ /\ cursor_' = cursor_ /\ token' = token
  BY DEF tokenizer
<1>2. Newlines' = Newlines
  BY <1>1 DEF Newlines, Char, Size
<1>3. token.type = EofToken => ~hasMoreTokens
  BY DEF PInv, CursorTyped, ReadsOn, hasMoreTokens, Size
<1>4. token.type # EofToken
  BY <1>3 DEF Unexpected, Error
<1>5. result'.line = token.startLine /\ result'.column = token.startColumn
  BY <1>4 DEF Unexpected, Place
<1>6. TokenLocated
  BY <1>4 DEF PInv, ReadsOn
<1> QED BY <1>1, <1>2, <1>5, <1>6 DEF ErrorLocated, TokenLocated

LEMMA CharacterLocated ==
    ASSUME PInv, UnexpectedCharacter PROVE ErrorLocated'
<1>1. /\ str_' = str_ /\ cursor_' = cursor_ /\ cursor_ < Size
      /\ result'.line = currentLine_ /\ result'.column = currentColumn_
  BY DEF UnexpectedCharacter, tokenizer, Throw, Place
<1>2. Newlines' = Newlines
  BY <1>1 DEF Newlines, Char, Size
<1>3. cursor_ \in Nat /\ Located
  BY <1>1 DEF PInv, CursorTyped, Size
<1>4. InPlace(Newlines, currentLine_, currentColumn_, cursor_)
  BY <1>3, LineTyped DEF Located
<1> QED BY <1>1, <1>2, <1>4 DEF ErrorLocated

LEMMA TableShiftsColumn ==
    ASSUME NEW s, NEW c, table_(s, c)[1] = "Shift" PROVE c # EofToken
BY DEF table_, Shift, Reduce, Transit, Accept, None, NumberToken, OpenToken, CloseToken, EofToken,
       EXP, ATOM, LIST, ENTRIES

LEMMA NextPInv == IInv /\ PInv /\ [Next]_vars => PInv'
<1> SUFFICES ASSUME IInv, PInv, [Next]_vars PROVE PInv'
  OBVIOUS
<1>1. IInv'
  BY NextIInv
<1>2. statesStack \in Seq(0..10)
  BY DEF PInv, StepTyped
<1>3. CASE \E text \in Texts : Parse(text)
  BY <1>3, ParsePlaces
<1>4. CASE Skip
  BY <1>4, SkipPlaces
<1>5. CASE Read
  BY <1>5, ReadPlaces
<1>6. CASE ReadEnd
  BY <1>6, ReadEndPlaces
<1>7. CASE UnexpectedCharacter
  <2>1. UNCHANGED <<tokenizer, token>> /\ statesStack' = statesStack /\ pc' = "thrown"
    BY <1>7 DEF UnexpectedCharacter, stacks, Throw
  <2> QED BY <1>2, <1>7, <2>1, LoopPlaces, CharacterLocated
<1>8. CASE ShiftToken
  <2>1. pc = "parse" /\ pc' = "lex" /\ UNCHANGED <<tokenizer, token>> /\ entry[1] = "Shift"
    BY <1>8 DEF ShiftToken
  <2>2. token.type # EofToken
    BY <2>1, TableShiftsColumn DEF entry
  <2>3. cursor_ <= Size
    BY <2>1, <2>2 DEF PInv, ReadsOn
  <2>4. statesStack' \in Seq(0..10)
    BY <1>1, <2>1 DEF IInv, Sequences_
  <2> QED BY <2>1, <2>3, <2>4, LoopPlaces
<1>9. CASE ReduceBy
  <2>1. pc' # "undefined"
    BY <1>1 DEF IInv, NeverCorrupt
  <2>2. pc = "parse" /\ Reduced
    BY <1>9, <2>1 DEF ReduceBy, Corrupt
  <2>3. pc' = "parse" /\ UNCHANGED <<tokenizer, token>>
    BY <2>2 DEF Reduced
  <2>4. statesStack' \in Seq(0..10)
    BY <1>1, <2>3 DEF IInv, Sequences_
  <2> QED BY <2>2, <2>3, <2>4, LoopPlaces
<1>10. CASE NumberTooLarge
  <2>1. /\ pc = "parse" /\ pc' = "thrown" /\ UNCHANGED <<tokenizer, token>>
        /\ statesStack' = Without(statesStack, 1) /\ result' = Error("out of range")
    BY <1>10 DEF NumberTooLarge, Throw
  <2>2. result'.error # "unexpected"
    BY <2>1 DEF Error
  <2>3. Without(statesStack, 1) \in Seq(0..10)
    <3>1. 1 \in Nat /\ 1 <= Len(statesStack)
      <4>1. pc = "parse"
        BY <2>1
      <4>2. Len(statesStack) \in Nat /\ Len(statesStack) > 0
        BY <4>1, Typed
      <4> QED BY <4>2
    <3> QED BY <1>2, <3>1, WithoutSeq
  <2> QED BY <2>1, <2>2, <2>3, LoopPlaces
<1>11. CASE UnexpectedToken
  <2>1. /\ pc = "parse" /\ pc' = "thrown" /\ UNCHANGED <<tokenizer, token>>
        /\ statesStack' = statesStack /\ result' = Unexpected
    BY <1>11 DEF UnexpectedToken, Throw, stacks
  <2> QED BY <1>2, <2>1, LoopPlaces, UnexpectedLocated
<1>12. CASE AcceptText
  <2>1. pc' # "undefined"
    BY <1>1 DEF IInv, NeverCorrupt
  <2>2. pc = "parse" /\ entry = Accept /\ Accepted
    BY <1>12, <2>1 DEF AcceptText, Corrupt
  <2>3. Len(statesStack) = 2
    <3>1. Top(statesStack) = 1
      BY <2>2, TableAccepts DEF entry
    <3>2. ShapeOK /\ Upper = 1
      BY <2>2, <3>1, Parts, Typed DEF Upper, Height
    <3> QED BY <3>2 DEF ShapeOK, Height
  <2>4. Without(statesStack, 1) \in Seq(0..10) /\ Without(statesStack, 2) \in Seq(0..10)
    <3>1. 1 \in Nat /\ 2 \in Nat /\ 1 <= Len(statesStack) /\ 2 <= Len(statesStack)
      BY <2>3
    <3> QED BY <1>2, <3>1, WithoutSeq
  <2>5. UNCHANGED <<tokenizer, token>> /\ statesStack' \in Seq(0..10)
    BY <2>2, <2>4 DEF Accepted
  <2>6. pc' = "accepted" \/ (pc' = "thrown" /\ result' = Unexpected)
    BY <2>2 DEF Accepted, Throw
  <2> QED BY <2>2, <2>5, <2>6, LoopPlaces, UnexpectedLocated
<1>13. CASE UNCHANGED vars
  <2>1. UNCHANGED <<tokenizer, token>> /\ pc' = pc /\ statesStack' = statesStack /\ result' = result
    BY <1>13 DEF vars, stacks
  <2>2. Newlines' = Newlines /\ Size' = Size
    BY <2>1 DEF tokenizer, Newlines, Char, Size
  <2> QED BY <2>1, <2>2 DEF PInv, CursorTyped, ReadsOn, StepTyped, Located, TokenLocated, ErrorLocated, tokenizer
<1> QED BY <1>3, <1>4, <1>5, <1>6, <1>7, <1>8, <1>9, <1>10, <1>11, <1>12, <1>13 DEF Next, Loop, getNextToken

LEMMA PlacesKept == Spec => []PInv
<1> QED BY InitIInv, NextIInv, InitPInv, NextPInv, PTL DEF Spec

(* In any text, and in any number of texts one after the other: the cursor *)
(* stays in the text or one past its end, no rule matches beyond it, the   *)
(* line and the column stay those of a place, and the states are rows of   *)
(* the table.                                                              *)
THEOREM ParserTypes == Spec => []TypeOK
<1>1. PInv => TypeOK
  BY DEF PInv, CursorTyped, StepTyped, TypeOK, Size
<1> QED BY PlacesKept, <1>1, PTL

(* The line and the column the tokenizer keeps piece by piece are those of *)
(* the cursor, the token's those of where it begins, and the error's those *)
(* of the character or of the token nothing could be done with, however    *)
(* many lines a string, a comment or a stretch of space goes over.         *)
THEOREM PlacesExact == Spec => []LocationsExact
<1>1. PInv => LocationsExact
  <2> SUFFICES ASSUME PInv PROVE LocationsExact
    OBVIOUS
  <2>1. ASSUME cursor_ <= Size PROVE IsPlace(currentLine_, currentColumn_, cursor_)
    <3>1. cursor_ \in Nat /\ Located
      BY <2>1 DEF PInv, CursorTyped, Size
    <3>2. InPlace(Newlines, currentLine_, currentColumn_, cursor_)
      BY <3>1, LineTyped DEF Located
    <3> QED BY <3>2, PlaceIs
  <2>2. ASSUME pc = "parse", token.type # EofToken PROVE TokenRead
    <3>1. TokenLocated
      BY <2>2 DEF PInv, ReadsOn
    <3>2. cursor_ - Len(token.value) >= 0
      BY <3>1 DEF TokenLocated, InPlace
    <3>3. IsPlace(token.startLine, token.startColumn, cursor_ - Len(token.value))
      BY <3>1, PlaceIs DEF TokenLocated
    <3> QED BY <3>1, <3>2, <3>3 DEF TokenRead, TokenLocated
  <2>3. ASSUME pc = "thrown", result.error = "unexpected"
        PROVE  \E i \in {cursor_, cursor_ - Len(token.value)} : IsPlace(result.line, result.column, i)
    <3>1. PICK i \in {cursor_, cursor_ - Len(token.value)} : InPlace(Newlines, result.line, result.column, i)
      BY <2>3 DEF PInv, ReadsOn, ErrorLocated
    <3> QED BY <3>1, PlaceIs
  <2> QED BY <2>1, <2>2, <2>3 DEF LocationsExact
<1> QED BY PlacesKept, <1>1, PTL

=============================================================================
