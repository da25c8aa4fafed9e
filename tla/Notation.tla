------------------------------ MODULE Notation ------------------------------
(***************************************************************************)
(* "Inorder to Postorder and Preorder.cpp": each line read is turned into  *)
(* prefix notation, scanning it from its end, then into postfix notation,  *)
(* scanning it from its start, with a stack of operators.                  *)
(*                                                                         *)
(* A character is what the code tells apart: a digit, the operators of the *)
(* two priorities, the braces, and any other.  The stack and the result    *)
(* hold places of the line, so that equal characters are not mixed up.     *)
(***************************************************************************)
EXTENDS Integers, SequencesExt

CONSTANT Inputs  \* the lines that may be read

Chars == {"digit", "+", "*", "(", ")", "other"}

ASSUME NotationAssumption == Inputs \subseteq Seq(Chars)

VARIABLES
  pc,      \* "read" a line, the function that runs, "show" its results
  inorder,
  i,       \* the place the scan is at
  op,      \* the stack, its top last
  result,
  pre      \* what preorder() returned

vars == <<pc, inorder, i, op, result, pre>>

Init == pc = "read" /\ inorder = <<>> /\ i = 0 /\ op = <<>> /\ result = <<>> /\ pre = <<>>

-----------------------------------------------------------------------------

priority(c) ==
  CASE c = "+" -> 1
    [] c = "*" -> 2
    [] c \in {"(", ")"} -> 0

\* The brace that comes first in the direction of the scan, and the other.
Left  == IF pc = "post" THEN "(" ELSE ")"
Right == IF pc = "post" THEN ")" ELSE "("

Scanning == pc \in {"pre", "post"} /\ i \in 1..Len(inorder)
Char == inorder[i]
Top  == inorder[Last(op)]

Next_i == i' = IF pc = "post" THEN i + 1 ELSE i - 1
Push == op' = Append(op, i)
Pop  == op' = Front(op)
Emit(k) == result' = IF pc = "post" THEN Append(result, k) ELSE <<k>> \o result

Operand ==
  /\ Scanning
  /\ Char = "digit"
  /\ Emit(i)
  /\ Next_i
  /\ UNCHANGED <<pc, inorder, op, pre>>

LeftBrace ==
  /\ Scanning
  /\ Char = Left
  /\ Push
  /\ Next_i
  /\ UNCHANGED <<pc, inorder, result, pre>>

Mut_RightBracePops == Scanning /\ Char = Right /\ op # <<>> /\ Top # Left /\ Pop
  /\ UNCHANGED <<pc, inorder, i, result, pre>>

\* Pop up to the brace that this one closes ...
RightBracePops ==
  /\ Scanning
  /\ Char = Right
  /\ op # <<>>
  /\ Top # Left
  /\ Emit(Last(op))
  /\ Pop
  /\ UNCHANGED <<pc, inorder, i, pre>>

\* ... and then the brace.
RightBrace ==
  /\ Scanning
  /\ Char = Right
  /\ op # <<>>
  /\ Top = Left
  /\ Pop
  /\ Next_i
  /\ UNCHANGED <<pc, inorder, result, pre>>

\* Operators of one priority group to the left: from the left, the one on the
\* stack is older and goes first; from the right it is younger and stays.
Mut_YieldsRight == priority(Char) <= priority(Top)
Mut_YieldsLeft  == priority(Char) < priority(Top)

Yields == IF pc = "post" THEN priority(Char) <= priority(Top)
                         ELSE priority(Char) < priority(Top)

Operators == {"+", "*", "other"}

\* priority() of another character runs off its end.
Known(c) == c # "other"

OperatorPops ==
  /\ Scanning
  /\ Char \in Operators
  /\ op # <<>>
  /\ Known(Char) /\ Known(Top)
  /\ Yields
  /\ Emit(Last(op))
  /\ Pop
  /\ UNCHANGED <<pc, inorder, i, pre>>

Operator ==
  /\ Scanning
  /\ Char \in Operators
  /\ op # <<>> => Known(Char) /\ Known(Top) /\ ~Yields
  /\ Push
  /\ Next_i
  /\ UNCHANGED <<pc, inorder, result, pre>>

\* A brace with nothing to close makes top() look below the stack, and after
\* an unknown operator the comparison has no value: from here on the program
\* may do anything.
Undefined ==
  /\ Scanning
  /\ \/ Char = Right /\ op = <<>>
     \/ Char \in Operators /\ op # <<>> /\ ~(Known(Char) /\ Known(Top))
  /\ pc' = "undefined"
  /\ UNCHANGED <<inorder, i, op, result, pre>>

-----------------------------------------------------------------------------

Scanned == pc \in {"pre", "post"} /\ i \notin 1..Len(inorder)

Mut_PopRest == Scanned /\ op # <<>> /\ Emit(Last(op)) /\ Pop /\ Next_i
  /\ UNCHANGED <<pc, inorder, pre>>

\* What is left on the stack, braces that nothing closed included.
PopRest ==
  /\ Scanned
  /\ op # <<>>
  /\ Emit(Last(op))
  /\ Pop
  /\ UNCHANGED <<pc, inorder, i, pre>>

PreorderReturns ==
  /\ Scanned
  /\ pc = "pre"
  /\ op = <<>>
  /\ pc' = "post"
  /\ pre' = result
  /\ result' = <<>>
  /\ i' = 1
  /\ UNCHANGED <<inorder, op>>

PostorderReturns ==
  /\ Scanned
  /\ pc = "post"
  /\ op = <<>>
  /\ pc' = "show"
  /\ UNCHANGED <<inorder, i, op, result, pre>>

\* main()
ReadLine ==
  /\ pc = "read"
  /\ inorder' \in Inputs
  /\ pc' = "pre"
  /\ i' = Len(inorder')
  /\ UNCHANGED <<op, result, pre>>

Show ==
  /\ pc = "show"
  /\ pc' = "read"
  /\ inorder' = <<>> /\ i' = 0 /\ result' = <<>> /\ pre' = <<>>
  /\ UNCHANGED op

EndOfInput ==
  /\ pc = "read"
  /\ pc' = "exited"
  /\ UNCHANGED <<inorder, i, op, result, pre>>

Next ==
  \/ ReadLine \/ EndOfInput
  \/ Operand \/ LeftBrace \/ RightBracePops \/ RightBrace
  \/ OperatorPops \/ Operator \/ Undefined
  \/ PopRest \/ PreorderReturns \/ PostorderReturns \/ Show

Spec == Init /\ [][Next]_vars

-----------------------------------------------------------------------------
(* What a line means: how it groups, and how a tree is written.              *)

\* The brackets open at place k, counted from place a.
Depth(s, a, k) == Cardinality({j \in a..k : s[j] = "("}) - Cardinality({j \in a..k : s[j] = ")"})

\* The root of s[a..b]: of the operators in no braces, the last of the lowest.
Roots(s, a, b) ==
  LET outer == {k \in a..b : s[k] \in {"+", "*"} /\ Depth(s, a, k) = 0} IN
  {k \in outer : \A j \in outer : \/ priority(s[j]) > priority(s[k])
                                  \/ (priority(s[j]) = priority(s[k]) /\ j <= k)}

\* d, ( E ), E + E and E * E.
WellFormed(s) ==
  LET E[ab \in (1..Len(s)) \X (1..Len(s))] ==
        LET a == ab[1]  b == ab[2] IN
        \/ a = b /\ s[a] = "digit"
        \/ a + 1 < b /\ s[a] = "(" /\ s[b] = ")" /\ E[<<a + 1, b - 1>>]
        \/ \E k \in a + 1..b - 1 :
             s[k] \in {"+", "*"} /\ E[<<a, k - 1>>] /\ E[<<k + 1, b>>]
  IN  s # <<>> /\ E[<<1, Len(s)>>]

\* The places of a well-formed s, written the way `place' puts a root k
\* between or beside the texts l and r of its two sides.  (The sections are all
\* that the recursion may come to, so that W exists for any s.)
Written(s, place(_, _, _)) ==
  LET W[ab \in (1..Len(s) + 1) \X (0..Len(s))] ==
        LET a == ab[1]  b == ab[2]  roots == Roots(s, a, b) IN
        IF roots # {} THEN LET k == CHOOSE k \in roots : TRUE
                           IN  place(k, W[<<a, k - 1>>], W[<<k + 1, b>>])
        ELSE IF a < b THEN W[<<a + 1, b - 1>>] ELSE <<a>>
  IN  W[<<1, Len(s)>>]

Prefix(s)  == Written(s, LAMBDA k, l, r : <<k>> \o l \o r)
Postfix(s) == Written(s, LAMBDA k, l, r : l \o r \o <<k>>)

-----------------------------------------------------------------------------

Places == 1..Len(inorder)
Braces == {k \in Places : inorder[k] \in {"(", ")"}}

TypeOK ==
  /\ pc \in {"read", "pre", "post", "show", "undefined", "exited"}
  /\ inorder \in Seq(Chars)
  /\ i \in 0..Len(inorder) + 1
  /\ op \in Seq(Places) /\ result \in Seq(Places) /\ pre \in Seq(Places)

\* Above a brace or another operator lies an operator of higher priority when
\* scanning from the left ("the higher the bigger priority"), of no lower
\* priority from the right ("the above should be no lesser than below").
StackOrdered ==
  \A k \in 1..Len(op) - 1 :
    LET below == inorder[op[k]]  above == inorder[op[k + 1]] IN
    above \in {"+", "*"} =>
      /\ Known(below)
      /\ pc = "post" => priority(below) < priority(above)
      /\ pc = "pre"  => priority(below) <= priority(above)

\* At any time each character scanned, braces aside, is exactly once on the
\* stack or in the result, whatever the line is: none is lost or repeated by
\* the pops, and each pass writes all of them.
NothingLost ==
  LET seen == CASE pc = "pre"  -> i + 1..Len(inorder)
                [] pc = "post" -> 1..i - 1
                [] pc = "show" -> Places
      held == op \o result
  IN  pc \in {"pre", "post", "show"} =>
        /\ seen \ Braces \subseteq Range(held) /\ Range(held) \subseteq seen
        /\ \A k \in seen \ Braces : Cardinality({n \in 1..Len(held) : held[n] = k}) = 1

\* A well-formed line is never undefined, and what is shown of it is the
\* prefix and the postfix notation of the expression, grouped to the left.
RightNotation ==
  /\ pc = "undefined" => ~WellFormed(inorder)
  /\ pc = "show" /\ WellFormed(inorder) =>
       pre = Prefix(inorder) /\ result = Postfix(inorder)
=============================================================================
