---------------------------- MODULE ConsoleProofs ----------------------------
(***************************************************************************)
(* The three console programs, each by itself, for inputs of any size.     *)
(*                                                                         *)
(* Notation: the stack of preorder() and postorder() is ordered for lines  *)
(* of every length.  What has to be added to make the invariant inductive  *)
(* is that no digit is ever pushed, so that priority() is defined on the   *)
(* stack, and that a pass starts with an empty one.  That no character is  *)
(* lost needs more: the stack and the result share no place.               *)
(* That the notation is right is proved along the expression: from any     *)
(* stack that is ready for it, the scan of an expression leaves what comes *)
(* to its notation when the stack is popped.                               *)
(*                                                                         *)
(* The timer: it is on time, for minutes and hours of any length and       *)
(* sleeps that may take any time, because of what its last look at the     *)
(* clock told it and how far it can have counted since.                    *)
(*                                                                         *)
(* The search: taking each character at its first place finds a keyword    *)
(* wherever it is, and ranks no line above one that starts with it.        *)
(***************************************************************************)
EXTENDS Notation, Countdown, FuzzySearch, NatRecursion,
        SequenceTheorems, FiniteSetTheorems, TLAPS

NoDigits == \A k \in 1..Len(op) : inorder[op[k]] # "digit"

\* Where the locals of the two functions hold nothing yet, or nothing any more.
Clear ==
  /\ pc \in {"read", "show", "exited"} => op = <<>>
  /\ pc \in {"read", "exited"} => result = <<>> /\ pre = <<>>

IInv == TypeOK /\ Clear /\ NoDigits /\ StackOrdered

-----------------------------------------------------------------------------

\* The first n elements of s.
LEMMA Shortened ==
  ASSUME NEW S, NEW s, NEW n \in Nat, \A k \in 1..n : s[k] \in S
  PROVE  /\ SubSeq(s, 1, n) \in Seq(S) /\ Len(SubSeq(s, 1, n)) = n
         /\ \A k \in 1..n : SubSeq(s, 1, n)[k] = s[k]
<1>1. SubSeq(s, 1, n) \in Seq(S)
  BY SubSeqProperties
<1>2. Len(SubSeq(s, 1, n)) = n
  BY SubSeqProperties
<1>3. \A k \in 1..n : SubSeq(s, 1, n)[k] = s[k]
  BY SubSeqProperties
<1> QED
  BY <1>1, <1>2, <1>3, Zenon

\* What a pop leaves, and what it takes.
LEMMA FrontLast ==
  ASSUME NEW S, NEW s \in Seq(S), s # <<>>
  PROVE  /\ Front(s) \in Seq(S) /\ Len(Front(s)) = Len(s) - 1
         /\ \A k \in 1..Len(s) - 1 : Front(s)[k] = s[k]
         /\ Len(s) \in Nat \ {0} /\ Last(s) = s[Len(s)] /\ Last(s) \in S
<1> DEFINE n == Len(s) - 1
<1>1. Len(s) \in Nat \ {0} /\ Last(s) = s[Len(s)] /\ Last(s) \in S
  BY DEF Last
<1>2. n \in Nat /\ \A k \in 1..n : s[k] \in S
  BY <1>1
<1>3. Front(s) = SubSeq(s, 1, n)
  BY DEF Front
<1> HIDE DEF n
<1>4. /\ SubSeq(s, 1, n) \in Seq(S) /\ Len(SubSeq(s, 1, n)) = n
      /\ \A k \in 1..n : SubSeq(s, 1, n)[k] = s[k]
  BY <1>2, Shortened
<1> QED
  BY <1>1, <1>3, <1>4, Zenon DEF n

\* priority() of what may lie on the stack.
LEMMA Priorities ==
  /\ priority("+") = 1 /\ priority("*") = 2
  /\ priority("(") = 0 /\ priority(")") = 0
  BY DEF priority

LEMMA InitInv == Init => IInv
  BY DEF Init, IInv, TypeOK, Clear, NoDigits, StackOrdered, Places

-----------------------------------------------------------------------------

\* Popping keeps the order, and emitting the top keeps the types.
LEMMA PopInv ==
  ASSUME IInv, op # <<>>, Pop, Emit(Last(op)), pc \in {"pre", "post"},
         UNCHANGED <<pc, inorder, i, pre>>
  PROVE  IInv'
<1>1. /\ op' \in Seq(Places) /\ Len(op') = Len(op) - 1 /\ Len(op) \in Nat \ {0}
      /\ \A k \in 1..Len(op') : op'[k] = op[k]
      /\ Last(op) \in Places
  BY FrontLast DEF IInv, TypeOK, Pop
<1>2. result' \in Seq(Places)
  BY <1>1 DEF Emit, IInv, TypeOK
<1>3. TypeOK'
  BY <1>1, <1>2 DEF IInv, TypeOK, Places
<1>4. Clear' /\ NoDigits'
  BY <1>1 DEF IInv, Clear, NoDigits
<1>5. StackOrdered'
  BY <1>1 DEF IInv, StackOrdered
<1> QED
  BY <1>3, <1>4, <1>5 DEF IInv

\* Pushing keeps the order when what is pushed is no operator, or when it lies
\* on nothing, or when it does not make the top yield.
LEMMA PushInv ==
  ASSUME IInv, Scanning, Push, Next_i, Char # "digit",
         Char \in {"+", "*"} /\ op # <<>> => Known(Top) /\ ~Yields,
         UNCHANGED <<pc, inorder, result, pre>>
  PROVE  IInv'
<1>1. /\ i \in Places /\ op' = Append(op, i) /\ op' \in Seq(Places)
      /\ Len(op') = Len(op) + 1 /\ Len(op) \in Nat
      /\ \A k \in 1..Len(op) : op'[k] = op[k]
      /\ op'[Len(op')] = i
  BY DEF Push, Scanning, IInv, TypeOK, Places
<1>2. TypeOK'
  BY <1>1 DEF IInv, TypeOK, Next_i, Scanning, Places
<1>3. Clear'
  BY DEF IInv, Clear, Scanning
<1>4. NoDigits'
  BY <1>1 DEF IInv, NoDigits, Char
<1>5. ASSUME NEW k \in 1..Len(op') - 1, inorder[op'[k + 1]] \in {"+", "*"}
      PROVE  /\ Known(inorder[op'[k]])
             /\ pc = "post" => priority(inorder[op'[k]]) < priority(inorder[op'[k + 1]])
             /\ pc = "pre"  => priority(inorder[op'[k]]) <= priority(inorder[op'[k + 1]])
  <2>1. CASE k < Len(op)
    BY <2>1, <1>1, <1>5 DEF IInv, StackOrdered
  <2>2. CASE k = Len(op)
    <3>1. op # <<>> /\ op'[k] = Last(op) /\ op'[k + 1] = i
      BY <2>2, <1>1 DEF Last
    <3>2. Known(Top) /\ ~Yields /\ Char \in {"+", "*"}
      BY <3>1, <1>5 DEF Char
    <3>3. Top \in {"+", "*", "(", ")"}
      BY <3>1, <3>2, <2>2, <1>1 DEF Known, Top, IInv, TypeOK, NoDigits, Chars, Places, Last
    <3> QED
      BY <3>1, <3>2, <3>3, Priorities DEF Yields, Char, Top
  <2> QED
    BY <1>1, <2>1, <2>2
<1>6. StackOrdered'
  BY <1>5 DEF StackOrdered
<1> QED
  BY <1>2, <1>3, <1>4, <1>6 DEF IInv

\* Every step of main() and of the two functions keeps the invariant.
LEMMA StepInv == IInv /\ [Next]_vars => IInv'
<1> SUFFICES ASSUME IInv, [Next]_vars PROVE IInv'
  OBVIOUS
<1>1. CASE ReadLine
  BY <1>1, NotationAssumption DEF ReadLine, IInv, TypeOK, Clear, NoDigits, StackOrdered, Places
<1>2. CASE EndOfInput
  BY <1>2 DEF EndOfInput, IInv, TypeOK, Clear, NoDigits, StackOrdered, Places
<1>3. CASE Operand
  <2>1. result' \in Seq(Places)
    <3>1. i \in Places /\ result \in Seq(Places)
      BY <1>3 DEF Operand, Scanning, IInv, TypeOK, Places
    <3>2. Append(result, i) \in Seq(Places) /\ <<i>> \o result \in Seq(Places)
      BY <3>1
    <3> QED
      BY <1>3, <3>2 DEF Operand, Emit
  <2>2. TypeOK'
    BY <1>3, <2>1 DEF Operand, Scanning, Next_i, IInv, TypeOK, Places
  <2> QED
    BY <1>3, <2>2 DEF Operand, Scanning, IInv, Clear, NoDigits, StackOrdered
<1>4. CASE LeftBrace
  BY <1>4, PushInv DEF LeftBrace, Left
<1>5. CASE RightBracePops
  BY <1>5, PopInv DEF RightBracePops, Scanning
<1>6. CASE RightBrace
  <2>1. /\ op' \in Seq(Places) /\ Len(op') = Len(op) - 1 /\ Len(op) \in Nat \ {0}
        /\ \A k \in 1..Len(op') : op'[k] = op[k]
    BY <1>6, FrontLast DEF RightBrace, IInv, TypeOK, Pop
  <2>2. TypeOK'
    BY <1>6, <2>1 DEF RightBrace, Scanning, Next_i, IInv, TypeOK, Places
  <2>3. Clear'
    BY <1>6 DEF RightBrace, Scanning, IInv, Clear
  <2>4. NoDigits'
    BY <1>6, <2>1 DEF RightBrace, IInv, NoDigits
  <2>5. StackOrdered'
    <3>1. pc' = pc /\ inorder' = inorder
      BY <1>6 DEF RightBrace
    <3> QED
      BY <3>1, <2>1 DEF IInv, StackOrdered
  <2> QED
    BY <2>2, <2>3, <2>4, <2>5 DEF IInv
<1>7. CASE OperatorPops
  BY <1>7, PopInv DEF OperatorPops, Scanning
<1>8. CASE Operator
  BY <1>8, PushInv DEF Operator, Operators
<1>9. CASE Undefined
  BY <1>9 DEF Undefined, Scanning, IInv, TypeOK, Clear, NoDigits, StackOrdered, Places
<1>10. CASE PopRest
  BY <1>10, PopInv DEF PopRest, Scanned
<1>11. CASE PreorderReturns
  BY <1>11 DEF PreorderReturns, IInv, TypeOK, Clear, NoDigits, StackOrdered, Places
<1>12. CASE PostorderReturns
  BY <1>12 DEF PostorderReturns, IInv, TypeOK, Clear, NoDigits, StackOrdered, Places
<1>13. CASE Show
  BY <1>13 DEF Show, IInv, TypeOK, Clear, NoDigits, StackOrdered, Places
<1>14. CASE UNCHANGED vars
  BY <1>14 DEF vars, IInv, TypeOK, Clear, NoDigits, StackOrdered, Places
<1> QED
  BY <1>1, <1>2, <1>3, <1>4, <1>5, <1>6, <1>7, <1>8, <1>9, <1>10, <1>11, <1>12, <1>13, <1>14
  DEF Next

LEMMA Invariance == Spec => []IInv
  BY InitInv, StepInv, PTL DEF Spec

-----------------------------------------------------------------------------

\* The places on the stack and in the results are places of the line.
THEOREM TypeCorrect == Spec => []TypeOK
  BY Invariance, PTL DEF IInv

\* The stack is ordered as the comments in the code say, in both directions.
THEOREM StackAlwaysOrdered == Spec => []StackOrdered
  BY Invariance, PTL DEF IInv

-----------------------------------------------------------------------------
(* What was scanned is held *)

\* The places that were scanned.
Seen == CASE pc = "pre" -> i + 1..Len(inorder)
          [] pc = "post" -> 1..i - 1
          [] pc = "show" -> Places
          [] OTHER -> {}

\* The stack o and the result r hold places that were seen, no place twice,
\* and of those that were seen they lack nothing but braces.
Kept(o, r, seen, braces) ==
  /\ \A a, b \in 1..Len(o) : o[a] = o[b] => a = b
  /\ \A a, b \in 1..Len(r) : r[a] = r[b] => a = b
  /\ \A a \in 1..Len(o), b \in 1..Len(r) : o[a] # r[b]
  /\ \A a \in 1..Len(o) : o[a] \in seen
  /\ \A b \in 1..Len(r) : r[b] \in seen
  /\ \A k \in seen \ braces : (\E a \in 1..Len(o) : o[a] = k) \/ (\E b \in 1..Len(r) : r[b] = k)

\* t is r with x put in at p.
PutAt(r, p, x, t) ==
  /\ p \in 1..Len(r) + 1 /\ Len(t) = Len(r) + 1
  /\ \A j \in 1..Len(r) + 1 : t[j] = IF j < p THEN r[j] ELSE IF j = p THEN x ELSE r[j - 1]

\* o without its last element.
Shorter(o, u) == Len(u) = Len(o) - 1 /\ \A j \in 1..Len(o) - 1 : u[j] = o[j]

KInv == /\ IInv
        /\ pc = "post" => i >= 1
        /\ pc # "undefined" => Kept(op, result, Seen, Braces)

\* Where the elements of t come from.
LEMMA PutIs ==
  ASSUME NEW r, Len(r) \in Nat, NEW p, NEW x, NEW t, PutAt(r, p, x, t)
  PROVE  /\ p \in 1..Len(t) /\ t[p] = x
         /\ \A j \in 1..Len(r) : \E m \in 1..Len(t) : m # p /\ t[m] = r[j]
         /\ \E f \in [1..Len(t) -> Nat] :
              \A m \in 1..Len(t) : m # p =>
                /\ f[m] \in 1..Len(r) /\ t[m] = r[f[m]]
                /\ \A n \in 1..Len(t) : n # p /\ f[m] = f[n] => m = n
<1>1. /\ p \in 1..Len(r) + 1 /\ Len(t) = Len(r) + 1
      /\ \A j \in 1..Len(r) + 1 : t[j] = IF j < p THEN r[j] ELSE IF j = p THEN x ELSE r[j - 1]
  BY DEF PutAt
<1>2. p \in 1..Len(t) /\ t[p] = x
  BY <1>1
<1>3. ASSUME NEW j \in 1..Len(r) PROVE \E m \in 1..Len(t) : m # p /\ t[m] = r[j]
  <2>1. CASE j < p
    BY <1>1, <2>1
  <2>2. CASE ~(j < p)
    <3>1. j + 1 \in 1..Len(r) + 1 /\ ~(j + 1 < p) /\ j + 1 # p /\ (j + 1) - 1 = j
      BY <1>1, <2>2
    <3> QED
      BY <1>1, <3>1
  <2> QED
    BY <2>1, <2>2
<1> DEFINE f == [m \in 1..Len(t) |-> IF m < p THEN m ELSE m - 1]
<1>4. f \in [1..Len(t) -> Nat]
  BY <1>1
<1>5. ASSUME NEW m \in 1..Len(t), m # p
      PROVE  /\ f[m] \in 1..Len(r) /\ t[m] = r[f[m]]
             /\ \A n \in 1..Len(t) : n # p /\ f[m] = f[n] => m = n
  BY <1>1, <1>5
<1> HIDE DEF f
<1> QED
  BY <1>2, <1>3, <1>4, <1>5

\* A place that is scanned and put on the stack or into the result is kept.
LEMMA KeptPush ==
  ASSUME NEW o, NEW r, NEW seen, NEW braces, Kept(o, r, seen, braces),
         Len(o) \in Nat, Len(r) \in Nat, NEW x, x \notin seen, NEW u, NEW p, PutAt(o, p, x, u)
  PROVE  Kept(u, r, seen \cup {x}, braces) /\ Kept(r, u, seen \cup {x}, braces)
<1>1. p \in 1..Len(u) /\ u[p] = x
  BY PutIs
<1>2. \A j \in 1..Len(o) : \E m \in 1..Len(u) : m # p /\ u[m] = o[j]
  BY PutIs
<1>3. PICK f \in [1..Len(u) -> Nat] :
        \A m \in 1..Len(u) : m # p =>
          /\ f[m] \in 1..Len(o) /\ u[m] = o[f[m]]
          /\ \A n \in 1..Len(u) : n # p /\ f[m] = f[n] => m = n
  BY PutIs
<1>4. /\ \A a, b \in 1..Len(o) : o[a] = o[b] => a = b
      /\ \A a, b \in 1..Len(r) : r[a] = r[b] => a = b
      /\ \A a \in 1..Len(o), b \in 1..Len(r) : o[a] # r[b]
      /\ \A a \in 1..Len(o) : o[a] \in seen
      /\ \A b \in 1..Len(r) : r[b] \in seen
      /\ \A k \in seen \ braces : (\E a \in 1..Len(o) : o[a] = k) \/ (\E b \in 1..Len(r) : r[b] = k)
  BY DEF Kept
<1>5. \A m \in 1..Len(u) : m # p => u[m] \in seen
  BY <1>3, <1>4
<1>6. \A a, b \in 1..Len(u) : u[a] = u[b] => a = b
  <2> TAKE a, b \in 1..Len(u)
  <2> HAVE u[a] = u[b]
  <2>1. CASE a = p \/ b = p
    BY <1>1, <1>5, <2>1
  <2>2. CASE a # p /\ b # p
    <3>1. f[a] \in 1..Len(o) /\ f[b] \in 1..Len(o) /\ o[f[a]] = o[f[b]]
      BY <1>3, <2>2
    <3>2. f[a] = f[b]
      BY <1>4, <3>1
    <3> QED
      BY <1>3, <2>2, <3>2
  <2> QED
    BY <2>1, <2>2
<1>7. \A a \in 1..Len(u), b \in 1..Len(r) : u[a] # r[b]
  <2> TAKE a \in 1..Len(u), b \in 1..Len(r)
  <2>1. CASE a = p
    BY <1>1, <1>4, <2>1
  <2>2. CASE a # p
    <3>1. f[a] \in 1..Len(o) /\ u[a] = o[f[a]]
      BY <1>3, <2>2
    <3> QED
      BY <1>4, <3>1
  <2> QED
    BY <2>1, <2>2
<1>8. \A a \in 1..Len(u) : u[a] \in seen \cup {x}
  BY <1>1, <1>5
<1>9. \A k \in (seen \cup {x}) \ braces : (\E a \in 1..Len(u) : u[a] = k) \/ (\E b \in 1..Len(r) : r[b] = k)
  <2> TAKE k \in (seen \cup {x}) \ braces
  <2>1. CASE k = x
    BY <1>1, <2>1
  <2>2. CASE k # x
    <3>1. (\E a \in 1..Len(o) : o[a] = k) \/ (\E b \in 1..Len(r) : r[b] = k)
      BY <1>4, <2>2
    <3>2. CASE \E a \in 1..Len(o) : o[a] = k
      <4>1. PICK a \in 1..Len(o) : o[a] = k
        BY <3>2
      <4> QED
        BY <1>2, <4>1
    <3> QED
      BY <3>1, <3>2
  <2> QED
    BY <2>1, <2>2
<1>10. Kept(u, r, seen \cup {x}, braces)
  BY <1>4, <1>6, <1>7, <1>8, <1>9 DEF Kept
<1>11. Kept(r, u, seen \cup {x}, braces)
  BY <1>4, <1>6, <1>7, <1>8, <1>9 DEF Kept
<1> QED
  BY <1>10, <1>11

\* So is what goes from the top of the stack to the result.
LEMMA KeptPop ==
  ASSUME NEW o, NEW r, NEW seen, NEW braces, Kept(o, r, seen, braces),
         Len(o) \in Nat \ {0}, Len(r) \in Nat,
         NEW u, Shorter(o, u), NEW t, NEW p, PutAt(r, p, o[Len(o)], t)
  PROVE  Kept(u, t, seen, braces)
<1> DEFINE x == o[Len(o)]
<1>1. /\ \A a, b \in 1..Len(o) : o[a] = o[b] => a = b
      /\ \A a, b \in 1..Len(r) : r[a] = r[b] => a = b
      /\ \A a \in 1..Len(o), b \in 1..Len(r) : o[a] # r[b]
      /\ \A a \in 1..Len(o) : o[a] \in seen
      /\ \A b \in 1..Len(r) : r[b] \in seen
      /\ \A k \in seen \ braces : (\E a \in 1..Len(o) : o[a] = k) \/ (\E b \in 1..Len(r) : r[b] = k)
  BY DEF Kept
<1>2. /\ \A a \in 1..Len(u) : a \in 1..Len(o) /\ u[a] = o[a] /\ a # Len(o)
      /\ \A a \in 1..Len(o) : a # Len(o) => a \in 1..Len(u)
      /\ Len(u) \in Nat /\ Len(o) \in 1..Len(o)
  BY DEF Shorter
<1>3. Kept(u, r, seen \ {x}, braces)
  <2>1. \A a, b \in 1..Len(u) : u[a] = u[b] => a = b
    BY <1>1, <1>2
  <2>2. \A a \in 1..Len(u), b \in 1..Len(r) : u[a] # r[b]
    BY <1>1, <1>2
  <2>3. \A a \in 1..Len(u) : u[a] \in seen \ {x}
    BY <1>1, <1>2
  <2>4. \A b \in 1..Len(r) : r[b] \in seen \ {x}
    BY <1>1, <1>2
  <2>5. \A k \in (seen \ {x}) \ braces : (\E a \in 1..Len(u) : u[a] = k) \/ (\E b \in 1..Len(r) : r[b] = k)
    <3> TAKE k \in (seen \ {x}) \ braces
    <3>1. \A a \in 1..Len(o) : o[a] = k => a # Len(o)
      OBVIOUS
    <3> QED
      BY <1>1, <1>2, <3>1
  <2> QED
    BY <1>1, <2>1, <2>2, <2>3, <2>4, <2>5 DEF Kept
<1>4. Kept(r, u, seen \ {x}, braces)
  BY <1>3 DEF Kept
<1>5. x \in seen
  BY <1>1, <1>2
<1> HIDE DEF x
<1>6. x = o[Len(o)] /\ x \notin seen \ {x} /\ (seen \ {x}) \cup {x} = seen
  BY <1>5 DEF x
<1>7. PutAt(r, p, x, t)
  BY <1>6
<1>8. Kept(u, t, (seen \ {x}) \cup {x}, braces)
  BY <1>2, <1>4, <1>6, <1>7, KeptPush
<1> QED
  BY <1>6, <1>8

\* A brace may be dropped, from the stack and from the line.
LEMMA KeptDrop ==
  ASSUME NEW o, NEW r, NEW seen, NEW braces, Kept(o, r, seen, braces),
         Len(o) \in Nat \ {0}, o[Len(o)] \in braces, NEW x \in braces, NEW u, Shorter(o, u)
  PROVE  Kept(u, r, seen \cup {x}, braces)
<1>1. /\ \A a, b \in 1..Len(o) : o[a] = o[b] => a = b
      /\ \A a, b \in 1..Len(r) : r[a] = r[b] => a = b
      /\ \A a \in 1..Len(o), b \in 1..Len(r) : o[a] # r[b]
      /\ \A a \in 1..Len(o) : o[a] \in seen
      /\ \A b \in 1..Len(r) : r[b] \in seen
      /\ \A k \in seen \ braces : (\E a \in 1..Len(o) : o[a] = k) \/ (\E b \in 1..Len(r) : r[b] = k)
  BY DEF Kept
<1>2. /\ \A a \in 1..Len(u) : a \in 1..Len(o) /\ u[a] = o[a]
      /\ \A a \in 1..Len(o) : a # Len(o) => a \in 1..Len(u)
  BY DEF Shorter
<1>3. \A a, b \in 1..Len(u) : u[a] = u[b] => a = b
  BY <1>1, <1>2
<1>4. \A a \in 1..Len(u), b \in 1..Len(r) : u[a] # r[b]
  BY <1>1, <1>2
<1>5. \A k \in (seen \cup {x}) \ braces : (\E a \in 1..Len(u) : u[a] = k) \/ (\E b \in 1..Len(r) : r[b] = k)
  <2> TAKE k \in (seen \cup {x}) \ braces
  <2>1. k \in seen \ braces /\ k # o[Len(o)]
    OBVIOUS
  <2>2. \A a \in 1..Len(o) : o[a] = k => a # Len(o)
    BY <2>1
  <2> QED
    BY <1>1, <1>2, <2>1, <2>2
<1> QED
  BY <1>1, <1>2, <1>3, <1>4, <1>5 DEF Kept

-----------------------------------------------------------------------------

\* An append puts in at the end.
LEMMA AtEnd ==
  ASSUME NEW S, NEW s \in Seq(S), NEW x \in S
  PROVE  PutAt(s, Len(s) + 1, x, Append(s, x))
  BY AppendProperties DEF PutAt

\* preorder() writes from the end of its result to the start.
LEMMA AtStart ==
  ASSUME NEW S, NEW s \in Seq(S), NEW x \in S
  PROVE  PutAt(s, 1, x, <<x>> \o s)
<1>1. <<x>> \in Seq(S) /\ Len(<<x>>) = 1 /\ <<x>>[1] = x /\ Len(s) \in Nat
  OBVIOUS
<1>2. /\ Len(<<x>> \o s) = 1 + Len(s)
      /\ \A j \in 1..1 + Len(s) : (<<x>> \o s)[j] = IF j <= 1 THEN <<x>>[j] ELSE s[j - 1]
  BY <1>1, ConcatProperties
<1> QED
  BY <1>1, <1>2 DEF PutAt

\* Either way the result is longer by the place that is emitted.
LEMMA Emitted ==
  ASSUME TypeOK, NEW x \in Places, Emit(x)
  PROVE  \E p : PutAt(result, p, x, result')
<1>1. result \in Seq(Places)
  BY DEF TypeOK
<1>2. CASE pc = "post"
  BY <1>1, <1>2, AtEnd DEF Emit
<1>3. CASE pc # "post"
  BY <1>1, <1>3, AtStart DEF Emit
<1> QED
  BY <1>2, <1>3

\* A pop takes the last element of the stack.
LEMMA Popped ==
  ASSUME TypeOK, op # <<>>, Pop
  PROVE  /\ Len(op) \in Nat \ {0} /\ Last(op) = op[Len(op)] /\ Last(op) \in Places
         /\ Shorter(op, op')
  BY FrontLast DEF TypeOK, Pop, Shorter

\* The next character is the next to be seen.
LEMMA SeesNext ==
  ASSUME TypeOK, Scanning, Next_i, UNCHANGED <<pc, inorder>>
  PROVE  Seen' = Seen \cup {i} /\ i \notin Seen /\ i \in Places
<1>1. i \in Nat /\ Len(inorder) \in Nat /\ i \in Places
  BY DEF TypeOK, Scanning, Places
<1>2. CASE pc = "pre"
  <2>1. Seen = i + 1..Len(inorder) /\ Seen' = i - 1 + 1..Len(inorder)
    BY <1>2 DEF Seen, Next_i
  <2> QED
    BY <1>1, <2>1 DEF Scanning
<1>3. CASE pc = "post"
  <2>1. Seen = 1..i - 1 /\ Seen' = 1..i' - 1 /\ i' = i + 1
    <3>1. pc' = "post" /\ i' = i + 1
      BY <1>3 DEF Next_i
    <3> QED
      BY <1>3, <3>1 DEF Seen
  <2> QED
    BY <1>1, <2>1 DEF Scanning
<1> QED
  BY <1>1, <1>2, <1>3 DEF Scanning

\* A pop to the result.
LEMMA PopKept ==
  ASSUME KInv, op # <<>>, Pop, Emit(Last(op)), pc \in {"pre", "post"},
         UNCHANGED <<pc, inorder, i, pre>>
  PROVE  KInv'
<1>1. IInv' /\ TypeOK
  BY PopInv DEF KInv, IInv
<1>2. Len(op) \in Nat \ {0} /\ Last(op) = op[Len(op)] /\ Last(op) \in Places /\ Shorter(op, op')
  BY <1>1, Popped
<1>3. PICK p : PutAt(result, p, Last(op), result')
  BY <1>1, <1>2, Emitted
<1>4. Kept(op, result, Seen, Braces) /\ Seen' = Seen /\ Braces' = Braces /\ Len(result) \in Nat
  BY <1>1 DEF KInv, Seen, Braces, Places, TypeOK
<1>5. PutAt(result, p, op[Len(op)], result')
  BY <1>2, <1>3
<1>6. Kept(op', result', Seen, Braces)
  BY <1>2, <1>4, <1>5, KeptPop
<1> QED
  BY <1>1, <1>4, <1>6 DEF KInv

\* A push of the next character.
LEMMA PushKept ==
  ASSUME KInv, Scanning, Push, Next_i, IInv', UNCHANGED <<pc, inorder, result, pre>>
  PROVE  KInv'
<1>1. TypeOK /\ Len(op) \in Nat /\ Len(result) \in Nat /\ op \in Seq(Places)
  BY DEF KInv, IInv, TypeOK
<1>2. Seen' = Seen \cup {i} /\ i \notin Seen /\ i \in Places
  BY <1>1, SeesNext
<1>3. PutAt(op, Len(op) + 1, i, op')
  BY <1>1, <1>2, AtEnd DEF Push
<1>4. Kept(op, result, Seen, Braces) /\ Braces' = Braces
  BY DEF KInv, Scanning, Braces, Places
<1>5. Kept(op', result, Seen \cup {i}, Braces)
  BY <1>1, <1>2, <1>3, <1>4, KeptPush
<1>6. pc' = "post" => i' >= 1
  BY <1>1 DEF Next_i, Scanning, TypeOK
<1> QED
  BY <1>2, <1>4, <1>5, <1>6 DEF KInv

\* Where the stack is empty and nothing was seen, nothing is missing.
LEMMA KeptNone ==
  ASSUME NEW o, NEW r, o = <<>>, r = <<>>, NEW braces
  PROVE  Kept(o, r, {}, braces)
<1>1. Len(o) = 0 /\ Len(r) = 0 /\ 1..0 = {}
  OBVIOUS
<1> QED
  BY <1>1 DEF Kept

\* At the start there is no line.
LEMMA InitKept == Init => KInv
<1> SUFFICES ASSUME Init PROVE KInv
  OBVIOUS
<1>1. Kept(op, result, {}, Braces)
  BY KeptNone DEF Init
<1>2. Seen = {} /\ pc # "post"
  BY DEF Init, Seen
<1> QED
  BY <1>1, <1>2, InitInv DEF KInv

\* Every step keeps what was seen.
LEMMA StepKept == KInv /\ [Next]_vars => KInv'
<1> SUFFICES ASSUME KInv, [Next]_vars PROVE KInv'
  OBVIOUS
<1>0. IInv /\ IInv' /\ TypeOK
  BY StepInv DEF KInv, IInv
<1>1. CASE ReadLine
  <2>1. op' = <<>> /\ result' = <<>> /\ pc' = "pre" /\ i' = Len(inorder')
    BY <1>0, <1>1 DEF ReadLine, IInv, Clear
  <2>2. Len(inorder') \in Nat
    BY <1>0 DEF IInv, TypeOK
  <2>3. Seen' = {}
    BY <2>1, <2>2 DEF Seen
  <2>4. Kept(op', result', {}, Braces')
    BY <2>1, KeptNone
  <2> QED
    BY <1>0, <2>1, <2>3, <2>4 DEF KInv
<1>2. CASE EndOfInput
  <2>1. Seen' = {} /\ Seen = {} /\ Braces' = Braces /\ pc' = "exited" /\ UNCHANGED <<op, result>> /\ pc = "read"
    BY <1>2 DEF EndOfInput, Seen, Braces, Places
  <2> QED
    BY <1>0, <2>1 DEF KInv
<1>3. CASE Operand
  <2>1. Scanning /\ Next_i /\ Emit(i) /\ UNCHANGED <<pc, inorder, op, pre>>
    BY <1>3 DEF Operand
  <2>2. Seen' = Seen \cup {i} /\ i \notin Seen /\ i \in Places
    BY <1>0, <2>1, SeesNext
  <2>3. PICK p : PutAt(result, p, i, result')
    BY <1>0, <2>1, <2>2, Emitted
  <2>4. Kept(op, result, Seen, Braces) /\ Braces' = Braces /\ Len(op) \in Nat /\ Len(result) \in Nat
    BY <1>0, <2>1 DEF KInv, Scanning, Braces, Places, TypeOK
  <2>5. Kept(result, op, Seen, Braces)
    BY <2>4 DEF Kept
  <2>6. Kept(op, result', Seen \cup {i}, Braces)
    BY <2>2, <2>3, <2>4, <2>5, KeptPush
  <2>7. pc' = "post" => i' >= 1
    BY <1>0, <2>1 DEF Next_i, Scanning, TypeOK
  <2> QED
    BY <1>0, <2>1, <2>2, <2>4, <2>6, <2>7 DEF KInv
<1>4. CASE LeftBrace
  BY <1>0, <1>4, PushKept DEF LeftBrace
<1>5. CASE RightBracePops
  BY <1>5, PopKept DEF RightBracePops, Scanning
<1>6. CASE RightBrace
  <2>1. Scanning /\ Next_i /\ op # <<>> /\ Pop /\ Top = Left /\ Char = Right /\ UNCHANGED <<pc, inorder, result, pre>>
    BY <1>6 DEF RightBrace
  <2>2. Seen' = Seen \cup {i} /\ i \notin Seen /\ i \in Places
    BY <1>0, <2>1, SeesNext
  <2>3. Len(op) \in Nat \ {0} /\ Last(op) = op[Len(op)] /\ Last(op) \in Places /\ Shorter(op, op')
    BY <1>0, <2>1, Popped
  <2>4. op[Len(op)] \in Braces /\ i \in Braces
    BY <2>1, <2>2, <2>3 DEF Braces, Top, Left, Char, Right
  <2>5. Kept(op, result, Seen, Braces) /\ Braces' = Braces
    BY <2>1 DEF KInv, Scanning, Braces, Places
  <2>6. Kept(op', result, Seen \cup {i}, Braces)
    BY <2>3, <2>4, <2>5, KeptDrop
  <2>7. pc' = "post" => i' >= 1
    BY <1>0, <2>1 DEF Next_i, Scanning, TypeOK
  <2> QED
    BY <1>0, <2>1, <2>2, <2>5, <2>6, <2>7 DEF KInv
<1>7. CASE OperatorPops
  BY <1>7, PopKept DEF OperatorPops, Scanning
<1>8. CASE Operator
  BY <1>0, <1>8, PushKept DEF Operator
<1>9. CASE Undefined
  BY <1>0, <1>9 DEF KInv, Undefined
<1>10. CASE PopRest
  BY <1>10, PopKept DEF PopRest, Scanned
<1>11. CASE PreorderReturns
  <2>1. op' = <<>> /\ result' = <<>> /\ pc' = "post" /\ i' = 1
    BY <1>11 DEF PreorderReturns
  <2>2. Seen' = {}
    BY <2>1 DEF Seen
  <2>3. Kept(op', result', {}, Braces')
    BY <2>1, KeptNone
  <2> QED
    BY <1>0, <2>1, <2>2, <2>3 DEF KInv
<1>12. CASE PostorderReturns
  <2>1. pc = "post" /\ pc' = "show" /\ i \notin 1..Len(inorder) /\ UNCHANGED <<inorder, op, result>>
    BY <1>12 DEF PostorderReturns, Scanned
  <2>2. i \in 0..Len(inorder) + 1 /\ Len(inorder) \in Nat /\ i >= 1
    BY <1>0, <2>1 DEF KInv, TypeOK
  <2>3. i = Len(inorder) + 1
    BY <2>1, <2>2
  <2>4. Seen' = Seen /\ Braces' = Braces
    BY <2>1, <2>2, <2>3 DEF Seen, Braces, Places
  <2> QED
    BY <1>0, <2>1, <2>4 DEF KInv
<1>13. CASE Show
  <2>1. op' = <<>> /\ result' = <<>> /\ pc' = "read"
    BY <1>0, <1>13 DEF Show, IInv, Clear
  <2>2. Seen' = {}
    BY <2>1 DEF Seen
  <2>3. Kept(op', result', {}, Braces')
    BY <2>1, KeptNone
  <2> QED
    BY <1>0, <2>1, <2>2, <2>3 DEF KInv
<1>14. CASE UNCHANGED vars
  BY <1>0, <1>14 DEF vars, KInv, Seen, Braces, Places
<1> QED
  BY <1>1, <1>2, <1>3, <1>4, <1>5, <1>6, <1>7, <1>8, <1>9, <1>10, <1>11, <1>12, <1>13, <1>14
  DEF Next

\* What is kept is once on the stack or in the result.
LEMMA KeptOnce ==
  ASSUME TypeOK, NEW seen, NEW braces, Kept(op, result, seen, braces)
  PROVE  LET held == op \o result IN
         /\ seen \ braces \subseteq Range(held) /\ Range(held) \subseteq seen
         /\ \A k \in seen \ braces : Cardinality({n \in 1..Len(held) : held[n] = k}) = 1
<1> DEFINE held == op \o result
<1>1. op \in Seq(Places) /\ result \in Seq(Places) /\ Len(op) \in Nat /\ Len(result) \in Nat
  BY DEF TypeOK
<1>2. /\ held \in Seq(Places) /\ Len(held) = Len(op) + Len(result)
      /\ \A n \in 1..Len(op) + Len(result) :
           held[n] = IF n <= Len(op) THEN op[n] ELSE result[n - Len(op)]
  BY <1>1, ConcatProperties
<1>3. DOMAIN held = 1..Len(held)
  BY <1>2
<1> HIDE DEF held
<1>4. \A a \in 1..Len(op) : a \in 1..Len(held) /\ held[a] = op[a]
  BY <1>1, <1>2
<1>5. ASSUME NEW b \in 1..Len(result)
      PROVE  Len(op) + b \in 1..Len(held) /\ held[Len(op) + b] = result[b]
  <2>1. /\ Len(op) + b \in 1..Len(op) + Len(result) /\ ~(Len(op) + b <= Len(op))
        /\ (Len(op) + b) - Len(op) = b
    BY <1>1
  <2> QED
    BY <1>2, <2>1
<1>6. \A n \in 1..Len(held) : \/ n \in 1..Len(op) /\ held[n] = op[n]
                              \/ n - Len(op) \in 1..Len(result) /\ held[n] = result[n - Len(op)]
  BY <1>1, <1>2
<1>7. /\ \A a, b \in 1..Len(op) : op[a] = op[b] => a = b
      /\ \A a, b \in 1..Len(result) : result[a] = result[b] => a = b
      /\ \A a \in 1..Len(op), b \in 1..Len(result) : op[a] # result[b]
      /\ \A a \in 1..Len(op) : op[a] \in seen
      /\ \A b \in 1..Len(result) : result[b] \in seen
      /\ \A k \in seen \ braces : (\E a \in 1..Len(op) : op[a] = k) \/ (\E b \in 1..Len(result) : result[b] = k)
  BY DEF Kept
<1>8. ASSUME NEW k \in seen \ braces PROVE \E n \in 1..Len(held) : held[n] = k
  <2>1. CASE \E a \in 1..Len(op) : op[a] = k
    BY <1>4, <2>1
  <2>2. CASE \E b \in 1..Len(result) : result[b] = k
    <3>1. PICK b \in 1..Len(result) : result[b] = k
      BY <2>2
    <3> QED
      BY <1>5, <3>1
  <2> QED
    BY <1>7, <2>1, <2>2
<1>9. \A n, m \in 1..Len(held) : held[n] = held[m] => n = m
  <2> TAKE n, m \in 1..Len(held)
  <2> HAVE held[n] = held[m]
  <2>1. CASE n \in 1..Len(op) /\ held[n] = op[n]
    <3>1. CASE m \in 1..Len(op) /\ held[m] = op[m]
      BY <1>7, <2>1, <3>1
    <3>2. CASE m - Len(op) \in 1..Len(result) /\ held[m] = result[m - Len(op)]
      BY <1>7, <2>1, <3>2
    <3> QED
      BY <1>6, <3>1, <3>2
  <2>2. CASE n - Len(op) \in 1..Len(result) /\ held[n] = result[n - Len(op)]
    <3>1. m - Len(op) \in 1..Len(result) /\ held[m] = result[m - Len(op)]
      BY <1>6, <1>7, <2>2
    <3>2. n - Len(op) = m - Len(op)
      BY <1>7, <2>2, <3>1
    <3> QED
      BY <1>1, <3>2
  <2> QED
    BY <1>6, <2>1, <2>2
<1>10. Range(held) = {held[n] : n \in 1..Len(held)}
  BY <1>3 DEF Range
<1>11. seen \ braces \subseteq Range(held)
  BY <1>8, <1>10
<1>12. Range(held) \subseteq seen
  BY <1>6, <1>7, <1>10
<1>13. ASSUME NEW k \in seen \ braces PROVE Cardinality({n \in 1..Len(held) : held[n] = k}) = 1
  <2>1. PICK n \in 1..Len(held) : held[n] = k
    BY <1>8
  <2>2. {m \in 1..Len(held) : held[m] = k} = {n}
    BY <1>9, <2>1
  <2> QED
    BY <2>2, FS_Singleton
<1> QED
  BY <1>11, <1>12, <1>13 DEF held

\* Each character that is no brace is written once by each of the two passes:
\* for every line, well-formed or not, and whatever is popped when.
THEOREM NoneLost == Spec => []NothingLost
<1>1. ASSUME KInv, pc \in {"pre", "post", "show"} PROVE NothingLost
  <2>1. TypeOK /\ Kept(op, result, Seen, Braces)
    BY <1>1 DEF KInv, IInv
  <2>2. LET held == op \o result IN
        /\ Seen \ Braces \subseteq Range(held) /\ Range(held) \subseteq Seen
        /\ \A k \in Seen \ Braces : Cardinality({n \in 1..Len(held) : held[n] = k}) = 1
    BY <2>1, KeptOnce
  <2>3. CASE pc = "pre"
    BY <2>2, <2>3 DEF Seen, NothingLost
  <2>4. CASE pc = "post"
    BY <2>2, <2>4 DEF Seen, NothingLost
  <2>5. CASE pc = "show"
    BY <2>2, <2>5 DEF Seen, NothingLost
  <2> QED
    BY <1>1, <2>3, <2>4, <2>5
<1>2. KInv => NothingLost
  BY <1>1 DEF NothingLost
<1> QED
  BY <1>2, InitKept, StepKept, PTL DEF Spec
-----------------------------------------------------------------------------
(* What a line means: the two recursive definitions have solutions *)

\* The sections of a line, empty ones included: pairs of a first and a last
\* place; and how long they are.
Sections(s) == (1..Len(s) + 1) \X (0..Len(s))
Size(s) == [ab \in Sections(s) |-> IF ab[1] <= ab[2] THEN ab[2] - ab[1] + 1 ELSE 0]

\* The root between or beside its two sides.
Join(d, k, l, r) == IF d = "pre" THEN <<k>> \o l \o r ELSE l \o r \o <<k>>

\* W has each section of s in the notation that the pass d makes.
WritesOf(s, d, W, a, b) ==
  LET roots == Roots(s, a, b) IN
  IF roots # {} THEN LET k == CHOOSE k \in roots : TRUE
                     IN  Join(d, k, W[<<a, k - 1>>], W[<<k + 1, b>>])
  ELSE IF a < b THEN W[<<a + 1, b - 1>>] ELSE <<a>>

Writes(s, d, W) == W = [ab \in Sections(s) |-> WritesOf(s, d, W, ab[1], ab[2])]

NotationOf(s, d) == IF d = "pre" THEN Prefix(s) ELSE Postfix(s)

LEMMA SectionIs ==
  ASSUME NEW s, Len(s) \in Nat, NEW a \in 1..Len(s) + 1, NEW b \in 0..Len(s)
  PROVE  /\ <<a, b>> \in Sections(s)
         /\ Size(s)[<<a, b>>] = IF a <= b THEN b - a + 1 ELSE 0
  BY DEF Sections, Size

LEMMA SizeType ==
  ASSUME NEW s, Len(s) \in Nat
  PROVE  Size(s) \in [Sections(s) -> 0..Len(s)]
<1>1. ASSUME NEW ab \in Sections(s)
      PROVE  (IF ab[1] <= ab[2] THEN ab[2] - ab[1] + 1 ELSE 0) \in 0..Len(s)
  <2>1. ab[1] \in 1..Len(s) + 1 /\ ab[2] \in 0..Len(s)
    BY <1>1 DEF Sections
  <2> QED
    BY <2>1
<1> QED
  BY <1>1 DEF Size

LEMMA RootsIn == ASSUME NEW s, NEW a, NEW b PROVE Roots(s, a, b) \subseteq a..b
  BY DEF Roots

\* Which sections one section is made of, and that they are smaller.
LEMMA Smaller ==
  ASSUME NEW s, Len(s) \in Nat, NEW a \in 1..Len(s) + 1, NEW b \in 0..Len(s)
  PROVE  /\ \A k \in Roots(s, a, b) :
              /\ k \in Nat /\ <<a, k - 1>> \in Sections(s) /\ <<k + 1, b>> \in Sections(s)
              /\ Size(s)[<<a, k - 1>>] < Size(s)[<<a, b>>] /\ Size(s)[<<k + 1, b>>] < Size(s)[<<a, b>>]
         /\ a < b => <<a + 1, b - 1>> \in Sections(s) /\ Size(s)[<<a + 1, b - 1>>] < Size(s)[<<a, b>>]
<1>1. ASSUME NEW k \in Roots(s, a, b)
      PROVE  /\ k \in Nat /\ <<a, k - 1>> \in Sections(s) /\ <<k + 1, b>> \in Sections(s)
             /\ Size(s)[<<a, k - 1>>] < Size(s)[<<a, b>>] /\ Size(s)[<<k + 1, b>>] < Size(s)[<<a, b>>]
  <2>1. k \in a..b
    BY RootsIn
  <2>2. k \in Nat /\ k - 1 \in 0..Len(s) /\ k + 1 \in 1..Len(s) + 1
    BY <2>1
  <2>3. /\ <<a, k - 1>> \in Sections(s) /\ Size(s)[<<a, k - 1>>] = IF a <= k - 1 THEN k - 1 - a + 1 ELSE 0
        /\ <<k + 1, b>> \in Sections(s) /\ Size(s)[<<k + 1, b>>] = IF k + 1 <= b THEN b - (k + 1) + 1 ELSE 0
        /\ Size(s)[<<a, b>>] = IF a <= b THEN b - a + 1 ELSE 0
    BY <2>2, SectionIs
  <2> QED
    BY <2>1, <2>2, <2>3
<1>2. ASSUME a < b
      PROVE  <<a + 1, b - 1>> \in Sections(s) /\ Size(s)[<<a + 1, b - 1>>] < Size(s)[<<a, b>>]
  <2>1. a + 1 \in 1..Len(s) + 1 /\ b - 1 \in 0..Len(s)
    BY <1>2
  <2>2. /\ <<a + 1, b - 1>> \in Sections(s)
        /\ Size(s)[<<a + 1, b - 1>>] = IF a + 1 <= b - 1 THEN b - 1 - (a + 1) + 1 ELSE 0
        /\ Size(s)[<<a, b>>] = IF a <= b THEN b - a + 1 ELSE 0
    BY <2>1, SectionIs
  <2> QED
    BY <1>2, <2>2
<1> QED
  BY <1>1, <1>2

LEMMA JoinType ==
  ASSUME NEW d, NEW k \in Nat, NEW l \in Seq(Nat), NEW r \in Seq(Nat)
  PROVE  Join(d, k, l, r) \in Seq(Nat)
<1>1. <<k>> \in Seq(Nat)
  OBVIOUS
<1>2. (<<k>> \o l) \o r \in Seq(Nat) /\ (l \o r) \o <<k>> \in Seq(Nat)
  BY <1>1, ConcatProperties
<1> QED
  BY <1>2 DEF Join

\* Such a function exists, so that it is what Written() takes the whole of.
LEMMA WritesExist ==
  ASSUME NEW s, Len(s) \in Nat, NEW d
  PROVE  \E W : Writes(s, d, W)
<1> DEFINE D == Sections(s)
           V == Seq(Nat)
           G == [f \in [D -> V] |-> [ab \in D |-> WritesOf(s, d, f, ab[1], ab[2])]]
<1>0. \A ab \in D : ab[1] \in 1..Len(s) + 1 /\ ab[2] \in 0..Len(s) /\ ab = <<ab[1], ab[2]>>
  BY DEF Sections
<1>1. ASSUME NEW f \in [D -> V], NEW ab \in D PROVE WritesOf(s, d, f, ab[1], ab[2]) \in V
  <2> DEFINE a == ab[1]
             b == ab[2]
  <2>0. a \in 1..Len(s) + 1 /\ b \in 0..Len(s)
    BY <1>0
  <2> HIDE DEF a, b
  <2>1. CASE Roots(s, a, b) # {}
    <3> DEFINE k == CHOOSE k \in Roots(s, a, b) : TRUE
    <3>1. k \in Roots(s, a, b)
      BY <2>1
    <3> HIDE DEF k
    <3>2. k \in Nat /\ f[<<a, k - 1>>] \in V /\ f[<<k + 1, b>>] \in V
      BY <2>0, <3>1, Smaller
    <3>3. Join(d, k, f[<<a, k - 1>>], f[<<k + 1, b>>]) \in V
      BY <3>2, JoinType
    <3> QED
      BY <2>1, <3>3 DEF WritesOf, a, b, k
  <2>2. CASE Roots(s, a, b) = {} /\ a < b
    BY <2>0, <2>2, Smaller DEF WritesOf, a, b
  <2>3. CASE Roots(s, a, b) = {} /\ ~(a < b)
    <3>1. a \in Nat
      BY <2>0
    <3> QED
      BY <2>3, <3>1 DEF WritesOf, a, b
  <2> QED
    BY <2>1, <2>2, <2>3
<1>2. ASSUME NEW f \in [D -> V], NEW g \in [D -> V], NEW ab \in D,
             \A y \in D : Size(s)[y] < Size(s)[ab] => f[y] = g[y]
      PROVE  WritesOf(s, d, f, ab[1], ab[2]) = WritesOf(s, d, g, ab[1], ab[2])
  <2> DEFINE a == ab[1]
             b == ab[2]
  <2>0. a \in 1..Len(s) + 1 /\ b \in 0..Len(s) /\ ab = <<a, b>>
    BY <1>0
  <2> HIDE DEF a, b
  <2>1. CASE Roots(s, a, b) # {}
    <3> DEFINE k == CHOOSE k \in Roots(s, a, b) : TRUE
    <3>1. k \in Roots(s, a, b)
      BY <2>1
    <3> HIDE DEF k
    <3>2. f[<<a, k - 1>>] = g[<<a, k - 1>>] /\ f[<<k + 1, b>>] = g[<<k + 1, b>>]
      BY <1>2, <2>0, <3>1, Smaller
    <3> QED
      BY <2>1, <3>2 DEF WritesOf, a, b, k
  <2>2. CASE Roots(s, a, b) = {} /\ a < b
    BY <1>2, <2>0, <2>2, Smaller DEF WritesOf, a, b
  <2>3. CASE Roots(s, a, b) = {} /\ ~(a < b)
    BY <2>3 DEF WritesOf, a, b
  <2> QED
    BY <2>1, <2>2, <2>3
<1>3. Shrinks(D, V, Size(s), G)
  BY <1>1, <1>2 DEF Shrinks
<1> DEFINE size == Size(s)
           first == [ab \in D |-> <<>>]
           N == Len(s)
<1>4. first \in [D -> V] /\ size \in [D -> 0..N] /\ N \in Nat /\ Shrinks(D, V, size, G)
  BY <1>3, SizeType
<1> HIDE DEF D, V, G, size, first, N
<1>5. PICK W \in [D -> V] : W = G[W]
  BY <1>4, SizeRecursion
<1>6. G[W] = [ab \in D |-> WritesOf(s, d, W, ab[1], ab[2])]
  BY <1>5 DEF G
<1> QED
  BY <1>5, <1>6 DEF Writes, D, V

\* The notations are W's of the whole line.
LEMMA NotationIs ==
  ASSUME NEW s, Len(s) \in Nat, NEW d \in {"pre", "post"}
  PROVE  \E W : Writes(s, d, W) /\ W[<<1, Len(s)>>] = NotationOf(s, d)
<1> DEFINE W == CHOOSE W : W = [ab \in Sections(s) |-> WritesOf(s, d, W, ab[1], ab[2])]
<1>1. PICK V : Writes(s, d, V)
  BY WritesExist
<1>2. W = [ab \in Sections(s) |-> WritesOf(s, d, W, ab[1], ab[2])]
  BY <1>1 DEF Writes
<1>3. W[<<1, Len(s)>>] = NotationOf(s, d)
  <2>1. CASE d = "pre"
    <3>1. W = CHOOSE X : X = [ab \in Sections(s) |-> WritesOf(s, "pre", X, ab[1], ab[2])]
      BY <2>1
    <3> QED
      BY <2>1, <3>1 DEF NotationOf, Prefix, Written, WritesOf, Sections, Join
  <2>2. CASE d = "post"
    <3>1. W = CHOOSE X : X = [ab \in Sections(s) |-> WritesOf(s, "post", X, ab[1], ab[2])]
      BY <2>2
    <3> QED
      BY <2>2, <3>1 DEF NotationOf, Postfix, Written, WritesOf, Sections, Join
  <2> QED
    BY <2>1, <2>2
<1> QED
  BY <1>2, <1>3 DEF Writes

\* E says which sections of s are expressions.
Groups(s, E, a, b) ==
  \/ a = b /\ s[a] = "digit"
  \/ a + 1 < b /\ s[a] = "(" /\ s[b] = ")" /\ E[<<a + 1, b - 1>>]
  \/ \E k \in a + 1..b - 1 : s[k] \in {"+", "*"} /\ E[<<a, k - 1>>] /\ E[<<k + 1, b>>]

Grammar(s, E) == E = [ab \in (1..Len(s)) \X (1..Len(s)) |-> Groups(s, E, ab[1], ab[2])]

LEMMA GrammarExists ==
  ASSUME NEW s, Len(s) \in Nat
  PROVE  \E E : Grammar(s, E)
<1> DEFINE D == (1..Len(s)) \X (1..Len(s))
           V == BOOLEAN
           N == Len(s)
           size == [ab \in D |-> Size(s)[ab]]
           first == [ab \in D |-> TRUE]
           G == [f \in [D -> V] |-> [ab \in D |-> Groups(s, f, ab[1], ab[2])]]
<1>0. \A ab \in D : ab[1] \in 1..Len(s) /\ ab[2] \in 1..Len(s) /\ ab = <<ab[1], ab[2]>>
  OBVIOUS
<1>1. ASSUME NEW f \in [D -> V], NEW ab \in D PROVE Groups(s, f, ab[1], ab[2]) \in V
  BY DEF Groups
<1>2. ASSUME NEW f \in [D -> V], NEW g \in [D -> V], NEW ab \in D,
             \A y \in D : size[y] < size[ab] => f[y] = g[y]
      PROVE  Groups(s, f, ab[1], ab[2]) = Groups(s, g, ab[1], ab[2])
  <2> DEFINE a == ab[1]
             b == ab[2]
  <2>0. a \in 1..Len(s) /\ b \in 1..Len(s) /\ ab = <<a, b>>
    BY <1>0
  <2> HIDE DEF a, b
  <2>1. ASSUME NEW c \in 1..Len(s), NEW e \in 1..Len(s), a <= b, e - c < b - a
        PROVE  f[<<c, e>>] = g[<<c, e>>]
    <3>1. /\ Size(s)[<<c, e>>] = IF c <= e THEN e - c + 1 ELSE 0
          /\ Size(s)[<<a, b>>] = IF a <= b THEN b - a + 1 ELSE 0
      <4>1. /\ a \in 1..Len(s) + 1 /\ b \in 0..Len(s)
            /\ c \in 1..Len(s) + 1 /\ e \in 0..Len(s)
        BY <2>0
      <4> QED
        BY <4>1, SectionIs
    <3>2. <<c, e>> \in D /\ <<a, b>> \in D
      BY <2>0
    <3>3. size[<<c, e>>] < size[<<a, b>>]
      BY <2>0, <2>1, <3>1, <3>2
    <3> QED
      BY <1>2, <2>0, <3>2, <3>3
  <2>2. a + 1 < b => f[<<a + 1, b - 1>>] = g[<<a + 1, b - 1>>]
    <3>1. a + 1 < b => a + 1 \in 1..Len(s) /\ b - 1 \in 1..Len(s) /\ a <= b /\ (b - 1) - (a + 1) < b - a
      BY <2>0
    <3> QED
      BY <2>1, <3>1
  <2>3. \A k \in a + 1..b - 1 : f[<<a, k - 1>>] = g[<<a, k - 1>>] /\ f[<<k + 1, b>>] = g[<<k + 1, b>>]
    <3> TAKE k \in a + 1..b - 1
    <3>1. k - 1 \in 1..Len(s) /\ k + 1 \in 1..Len(s) /\ a <= b /\ (k - 1) - a < b - a /\ b - (k + 1) < b - a
      BY <2>0
    <3> QED
      BY <2>0, <2>1, <3>1
  <2>4. Groups(s, f, a, b) = Groups(s, g, a, b)
    BY <2>2, <2>3 DEF Groups
  <2> QED
    BY <2>4 DEF a, b
<1>3. Shrinks(D, V, size, G)
  <2>1. ASSUME NEW f \in [D -> V] PROVE G[f] \in [D -> V]
    BY <1>1
  <2>2. ASSUME NEW f \in [D -> V], NEW g \in [D -> V], NEW ab \in D,
               \A y \in D : size[y] < size[ab] => f[y] = g[y]
        PROVE  G[f][ab] = G[g][ab]
    <3>1. G[f][ab] = Groups(s, f, ab[1], ab[2]) /\ G[g][ab] = Groups(s, g, ab[1], ab[2])
      BY Zenon
    <3>2. Groups(s, f, ab[1], ab[2]) = Groups(s, g, ab[1], ab[2])
      <4> HIDE DEF D, V, size
      <4> QED
        BY <1>2, <2>2
    <3> QED
      BY <3>1, <3>2, Zenon
  <2> HIDE DEF D, V, size, G
  <2> QED
    BY <2>1, <2>2 DEF Shrinks
<1>4. first \in [D -> V] /\ size \in [D -> 0..N] /\ N \in Nat
  <2>1. Size(s) \in [Sections(s) -> 0..N]
    BY SizeType
  <2>2. D \subseteq Sections(s)
    BY DEF Sections
  <2> QED
    BY <2>1, <2>2
<1> HIDE DEF D, V, G, size, first, N
<1>5. PICK E \in [D -> V] : E = G[E]
  BY <1>3, <1>4, SizeRecursion
<1>6. G[E] = [ab \in D |-> Groups(s, E, ab[1], ab[2])]
  BY <1>5 DEF G
<1> QED
  BY <1>5, <1>6 DEF Grammar, D

LEMMA WellFormedIs ==
  ASSUME NEW s, Len(s) \in Nat, WellFormed(s)
  PROVE  s # <<>> /\ \E E : Grammar(s, E) /\ E[<<1, Len(s)>>]
<1> DEFINE E == CHOOSE E : E = [ab \in (1..Len(s)) \X (1..Len(s)) |-> Groups(s, E, ab[1], ab[2])]
<1>1. PICK F : Grammar(s, F)
  BY GrammarExists
<1>2. E = [ab \in (1..Len(s)) \X (1..Len(s)) |-> Groups(s, E, ab[1], ab[2])]
  BY <1>1 DEF Grammar
<1>3. s # <<>> /\ E[<<1, Len(s)>>]
  BY DEF WellFormed, Groups
<1> QED
  BY <1>2, <1>3 DEF Grammar

-----------------------------------------------------------------------------
(* How the sections of a well-formed line are grouped *)

Line(s, E) == s \in Seq(Chars) /\ Grammar(s, E)

LEMMA GroupsIs ==
  ASSUME NEW s, NEW E, Line(s, E), NEW a \in 1..Len(s), NEW b \in 1..Len(s)
  PROVE  E[<<a, b>>] <=> Groups(s, E, a, b)
<1>1. E = [ab \in (1..Len(s)) \X (1..Len(s)) |-> Groups(s, E, ab[1], ab[2])]
  BY DEF Line, Grammar
<1>2. <<a, b>> \in (1..Len(s)) \X (1..Len(s)) /\ <<a, b>>[1] = a /\ <<a, b>>[2] = b
  OBVIOUS
<1> DEFINE D == (1..Len(s)) \X (1..Len(s))
<1> HIDE DEF D
<1>3. E[<<a, b>>] = Groups(s, E, <<a, b>>[1], <<a, b>>[2])
  BY <1>1, <1>2, Zenon
<1> QED
  BY <1>2, <1>3

\* a..b is an expression, of smaller ones.
Expression(s, E, a, b) == a \in 1..Len(s) /\ b \in 1..Len(s) /\ E[<<a, b>>]

LEMMA ExpressionIs ==
  ASSUME NEW s, NEW E, Line(s, E), NEW a, NEW b, Expression(s, E, a, b)
  PROVE  /\ a \in 1..Len(s) /\ b \in 1..Len(s) /\ a <= b
         /\ \/ a = b /\ s[a] = "digit"
            \/ a + 1 < b /\ s[a] = "(" /\ s[b] = ")" /\ Expression(s, E, a + 1, b - 1)
            \/ \E k \in a + 1..b - 1 : /\ s[k] \in {"+", "*"}
                                       /\ Expression(s, E, a, k - 1) /\ Expression(s, E, k + 1, b)
<1>1. a \in 1..Len(s) /\ b \in 1..Len(s) /\ Groups(s, E, a, b) /\ Len(s) \in Nat
  BY GroupsIs DEF Expression, Line
<1>2. CASE a = b /\ s[a] = "digit"
  BY <1>1, <1>2
<1>3. CASE a + 1 < b /\ s[a] = "(" /\ s[b] = ")" /\ E[<<a + 1, b - 1>>]
  <2>1. a + 1 \in 1..Len(s) /\ b - 1 \in 1..Len(s) /\ a <= b
    BY <1>1, <1>3
  <2> QED
    BY <1>1, <1>3, <2>1 DEF Expression
<1>4. CASE \E k \in a + 1..b - 1 : s[k] \in {"+", "*"} /\ E[<<a, k - 1>>] /\ E[<<k + 1, b>>]
  <2>1. PICK k \in a + 1..b - 1 : s[k] \in {"+", "*"} /\ E[<<a, k - 1>>] /\ E[<<k + 1, b>>]
    BY <1>4
  <2>2. k - 1 \in 1..Len(s) /\ k + 1 \in 1..Len(s) /\ a <= b
    BY <1>1, <2>1
  <2> QED
    BY <1>1, <2>1, <2>2 DEF Expression
<1> QED
  BY <1>1, <1>2, <1>3, <1>4 DEF Groups

\* Two expressions with an operator between are one.
LEMMA ExpressionOf ==
  ASSUME NEW s, NEW E, Line(s, E), NEW a, NEW b, NEW k, k \in Int, s[k] \in {"+", "*"},
         Expression(s, E, a, k - 1), Expression(s, E, k + 1, b)
  PROVE  Expression(s, E, a, b)
<1>1. a \in 1..Len(s) /\ b \in 1..Len(s) /\ Len(s) \in Nat /\ a <= k - 1 /\ k + 1 <= b
  BY ExpressionIs DEF Line
<1>2. k \in a + 1..b - 1
  BY <1>1
<1>3. Groups(s, E, a, b)
  BY <1>2 DEF Groups, Expression
<1> QED
  BY <1>1, <1>3, GroupsIs DEF Expression

\* Induction over the expressions of a line: what holds of one when it holds of
\* all shorter ones holds of all.
Inherits(s, E, P) ==
  \A a, b \in 1..Len(s) :
    /\ Expression(s, E, a, b)
    /\ \A c, e \in 1..Len(s) : Expression(s, E, c, e) /\ e - c < b - a => <<c, e>> \in P
    => <<a, b>> \in P

LEMMA ExpressionInduction ==
  ASSUME NEW s, NEW E, Line(s, E), NEW P, Inherits(s, E, P)
  PROVE  \A a, b \in 1..Len(s) : Expression(s, E, a, b) => <<a, b>> \in P
<1> DEFINE N == Len(s)
           T == {n \in 0..N : \A a, b \in 1..N : Expression(s, E, a, b) /\ b - a < n => <<a, b>> \in P}
<1>0. N \in Nat
  BY DEF Line
<1>1. 0 \in T
  <2>1. ASSUME NEW a \in 1..N, NEW b \in 1..N, Expression(s, E, a, b) PROVE ~(b - a < 0)
    <3>1. a <= b
      BY <2>1, ExpressionIs
    <3> QED
      BY <1>0, <3>1
  <2> QED
    BY <1>0, <2>1
<1>2. ASSUME NEW n \in 0 + 1..N, n - 1 \in T PROVE n \in T
  <2>1. ASSUME NEW a \in 1..N, NEW b \in 1..N, Expression(s, E, a, b), b - a < n
        PROVE  <<a, b>> \in P
    <3>1. ASSUME NEW c \in 1..N, NEW e \in 1..N, Expression(s, E, c, e), e - c < b - a
          PROVE  <<c, e>> \in P
      <4>1. e - c < n - 1
        BY <1>0, <2>1, <3>1
      <4> QED
        BY <1>2, <3>1, <4>1
    <3> QED
      BY <2>1, <3>1 DEF Inherits
  <2> QED
    BY <1>0, <2>1
<1> HIDE DEF T
<1>3. \A n \in 0..N : n \in T
  <2>1. \A n \in 0 + 1..N : n - 1 \in T => n \in T
    BY <1>2
  <2> HIDE DEF N
  <2> QED
    BY <1>0, <1>1, <2>1, Upward
<1>4. N \in T
  BY <1>0, <1>3
<1> QED
  <2> SUFFICES ASSUME NEW a \in 1..N, NEW b \in 1..N, Expression(s, E, a, b) PROVE <<a, b>> \in P
    OBVIOUS
  <2>1. b - a < N
    BY <1>0
  <2> QED
    BY <1>4, <2>1 DEF T

\* How many more ( than ) there are in a..k, of two sections side by side.
LEMMA DepthIs ==
  ASSUME NEW s, NEW a \in Int, NEW m \in Int, NEW k \in Int, a <= m + 1, m <= k
  PROVE  /\ Depth(s, a, k) = Depth(s, a, m) + Depth(s, m + 1, k)
         /\ Depth(s, a, k) \in Int /\ Depth(s, a, m) \in Int /\ Depth(s, m + 1, k) \in Int
<1> DEFINE Has(c, x, y) == {j \in x..y : s[j] = c}
<1>1. ASSUME NEW c, NEW x \in Int, NEW y \in Int PROVE IsFiniteSet(Has(c, x, y))
  <2>1. IsFiniteSet(x..y)
    BY FS_Interval
  <2>2. Has(c, x, y) \in SUBSET (x..y)
    OBVIOUS
  <2> QED
    BY <2>1, <2>2, FS_Subset
<1>2. m + 1 \in Int
  OBVIOUS
<1>3. ASSUME NEW c
      PROVE  /\ Cardinality(Has(c, a, k)) = Cardinality(Has(c, a, m)) + Cardinality(Has(c, m + 1, k))
             /\ Cardinality(Has(c, a, m)) \in Nat /\ Cardinality(Has(c, m + 1, k)) \in Nat
  <2>1. IsFiniteSet(Has(c, a, m)) /\ IsFiniteSet(Has(c, m + 1, k))
    BY <1>1, <1>2
  <2>2. Has(c, a, k) = Has(c, a, m) \cup Has(c, m + 1, k)
    OBVIOUS
  <2>3. Has(c, a, m) \cap Has(c, m + 1, k) = {}
    OBVIOUS
  <2> HIDE DEF Has
  <2>4. /\ Cardinality(Has(c, a, m) \cup Has(c, m + 1, k))
             = Cardinality(Has(c, a, m)) + Cardinality(Has(c, m + 1, k))
                 - Cardinality(Has(c, a, m) \cap Has(c, m + 1, k))
        /\ Cardinality(Has(c, a, m)) \in Nat /\ Cardinality(Has(c, m + 1, k)) \in Nat
    BY <2>1, FS_Union, FS_CardinalityType
  <2>5. Cardinality({}) = 0
    BY FS_EmptySet
  <2>6. Cardinality(Has(c, a, m) \cap Has(c, m + 1, k)) = 0
    BY <2>3, <2>5, Zenon
  <2>7. PICK x \in Nat, y \in Nat : x = Cardinality(Has(c, a, m)) /\ y = Cardinality(Has(c, m + 1, k))
    BY <2>4
  <2>8. Cardinality(Has(c, a, k)) = x + y - 0
    BY <2>2, <2>4, <2>6, <2>7, Zenon
  <2> QED
    BY <2>7, <2>8
<1>4. /\ Depth(s, a, k) = Cardinality(Has("(", a, k)) - Cardinality(Has(")", a, k))
      /\ Depth(s, a, m) = Cardinality(Has("(", a, m)) - Cardinality(Has(")", a, m))
      /\ Depth(s, m + 1, k) = Cardinality(Has("(", m + 1, k)) - Cardinality(Has(")", m + 1, k))
  BY DEF Depth
<1> HIDE DEF Has
<1> QED
  BY <1>3, <1>4

LEMMA DepthOne ==
  ASSUME NEW s, NEW a \in Int
  PROVE  Depth(s, a, a) = IF s[a] = "(" THEN 1 ELSE IF s[a] = ")" THEN -1 ELSE 0
<1>0. Cardinality({}) = 0 /\ Cardinality({a}) = 1
  BY FS_EmptySet, FS_Singleton
<1>1. CASE s[a] = "("
  <2>1. {j \in a..a : s[j] = "("} = {a} /\ {j \in a..a : s[j] = ")"} = {}
    BY <1>1
  <2> QED
    BY <1>1, <1>0, <2>1 DEF Depth
<1>2. CASE s[a] = ")"
  <2>1. {j \in a..a : s[j] = "("} = {} /\ {j \in a..a : s[j] = ")"} = {a}
    BY <1>2
  <2> QED
    BY <1>2, <1>0, <2>1 DEF Depth
<1>3. CASE s[a] # "(" /\ s[a] # ")"
  <2>1. {j \in a..a : s[j] = "("} = {} /\ {j \in a..a : s[j] = ")"} = {}
    BY <1>3
  <2> QED
    BY <1>3, <1>0, <2>1 DEF Depth
<1> QED
  BY <1>1, <1>2, <1>3

\* In an expression no brace closes that was not opened, and in the end all are closed.
Balanced(s) ==
  {ab \in (1..Len(s)) \X (1..Len(s)) :
     /\ \A k \in ab[1]..ab[2] : Depth(s, ab[1], k) >= 0
     /\ Depth(s, ab[1], ab[2]) = 0}

LEMMA BalancedIs ==
  ASSUME NEW s, Len(s) \in Nat, NEW a \in 1..Len(s), NEW b \in 1..Len(s)
  PROVE  <<a, b>> \in Balanced(s) <=> Depth(s, a, b) = 0 /\ \A k \in a..b : Depth(s, a, k) >= 0
  BY DEF Balanced

\* Between braces the depth is at least 1.
LEMMA BracedDepth ==
  ASSUME NEW s, Len(s) \in Nat, NEW a \in 1..Len(s), NEW b \in 1..Len(s), a + 1 < b,
         s[a] = "(", s[b] = ")", <<a + 1, b - 1>> \in Balanced(s)
  PROVE  /\ \A k \in a..b - 1 : Depth(s, a, k) >= 1
         /\ Depth(s, a, b) = 0
<1>1. /\ a + 1 \in 1..Len(s) /\ b - 1 \in 1..Len(s) /\ a \in Int /\ b \in Int
      /\ Depth(s, a + 1, b - 1) = 0 /\ \A k \in a + 1..b - 1 : Depth(s, a + 1, k) >= 0
  <2>1. a + 1 \in 1..Len(s) /\ b - 1 \in 1..Len(s)
    OBVIOUS
  <2> QED
    BY <2>1, BalancedIs
<1>2. Depth(s, a, a) = 1 /\ Depth(s, b, b) = -1
  BY <1>1, DepthOne
<1>3. \A k \in a + 1..b - 1 : Depth(s, a, k) = 1 + Depth(s, a + 1, k) /\ Depth(s, a + 1, k) \in Int
  <2> TAKE k \in a + 1..b - 1
  <2>1. a \in Int /\ k \in Int /\ a <= a + 1 /\ a <= k
    BY <1>1
  <2>2. Depth(s, a, k) = Depth(s, a, a) + Depth(s, a + 1, k) /\ Depth(s, a + 1, k) \in Int
    BY <2>1, DepthIs
  <2> QED
    BY <1>2, <2>2
<1>4. \A k \in a..b - 1 : Depth(s, a, k) >= 1
  <2> TAKE k \in a..b - 1
  <2>1. CASE k = a
    BY <1>2, <2>1
  <2>2. CASE k # a
    <3>1. k \in a + 1..b - 1
      BY <1>1, <2>2
    <3> QED
      BY <1>1, <1>3, <3>1
  <2> QED
    BY <2>1, <2>2
<1>5. Depth(s, a, b) = Depth(s, a, b - 1) + Depth(s, b, b)
  <2>1. b - 1 \in Int /\ a <= (b - 1) + 1 /\ b - 1 <= b /\ (b - 1) + 1 = b
    BY <1>1
  <2> QED
    BY <1>1, <2>1, DepthIs
<1>6. b - 1 \in a + 1..b - 1
  BY <1>1
<1> QED
  BY <1>1, <1>2, <1>3, <1>4, <1>5, <1>6

\* Of two sections with an operator between.
LEMMA JoinedDepth ==
  ASSUME NEW s, NEW a \in Int, NEW k \in Int, a < k, s[k] \in {"+", "*"}, Depth(s, a, k - 1) = 0
  PROVE  /\ Depth(s, a, k) = 0
         /\ \A j \in Int : j > k => Depth(s, a, j) = Depth(s, k + 1, j)
<1>1. k - 1 \in Int /\ (k - 1) + 1 = k /\ a <= k /\ k - 1 <= k
  OBVIOUS
<1>2. Depth(s, a, k) = Depth(s, a, k - 1) + Depth(s, k, k)
  BY <1>1, DepthIs
<1>3. Depth(s, a, k) = 0
  BY <1>2, DepthOne
<1>4. ASSUME NEW j \in Int, j > k PROVE Depth(s, a, j) = Depth(s, k + 1, j)
  <2>1. a <= k + 1 /\ k <= j
    BY <1>4
  <2>2. Depth(s, a, j) = Depth(s, a, k) + Depth(s, k + 1, j) /\ Depth(s, k + 1, j) \in Int
    BY <2>1, DepthIs
  <2> QED
    BY <1>3, <2>2
<1> QED
  BY <1>3, <1>4

LEMMA ExpressionBalanced ==
  ASSUME NEW s, NEW E, Line(s, E), NEW a \in 1..Len(s), NEW b \in 1..Len(s), Expression(s, E, a, b)
  PROVE  <<a, b>> \in Balanced(s)
<1>0. Len(s) \in Nat
  BY DEF Line
<1>1. ASSUME NEW x \in 1..Len(s), NEW y \in 1..Len(s), Expression(s, E, x, y),
             \A c, e \in 1..Len(s) : Expression(s, E, c, e) /\ e - c < y - x => <<c, e>> \in Balanced(s)
      PROVE  <<x, y>> \in Balanced(s)
  <2>1. CASE x = y /\ s[x] = "digit"
    <3>1. \A k \in x..y : Depth(s, x, k) = 0
      BY <1>0, <2>1, DepthOne
    <3>2. y \in x..y
      BY <1>0, <2>1
    <3> QED
      BY <1>0, <3>1, <3>2, BalancedIs
  <2>2. CASE x + 1 < y /\ s[x] = "(" /\ s[y] = ")" /\ Expression(s, E, x + 1, y - 1)
    <3>1. x + 1 \in 1..Len(s) /\ y - 1 \in 1..Len(s) /\ (y - 1) - (x + 1) < y - x
      BY <1>0, <2>2
    <3>2. <<x + 1, y - 1>> \in Balanced(s)
      BY <1>1, <2>2, <3>1
    <3>3. Depth(s, x, y) = 0 /\ \A k \in x..y - 1 : Depth(s, x, k) >= 1
      BY <1>0, <2>2, <3>2, BracedDepth
    <3>4. \A k \in x..y : Depth(s, x, k) >= 0
      <4> TAKE k \in x..y
      <4>1. CASE k = y
        BY <3>3, <4>1
      <4>2. CASE k # y
        <5>1. k \in x..y - 1 /\ x \in Int /\ x - 1 \in Int /\ k \in Int /\ x <= (x - 1) + 1 /\ x - 1 <= k
          BY <1>0, <4>2
        <5>2. Depth(s, x, k) \in Int
          BY <5>1, DepthIs
        <5> QED
          BY <3>3, <5>1, <5>2
      <4> QED
        BY <4>1, <4>2
    <3> QED
      BY <1>0, <3>3, <3>4, BalancedIs
  <2>3. CASE \E k \in x + 1..y - 1 : /\ s[k] \in {"+", "*"}
                                     /\ Expression(s, E, x, k - 1) /\ Expression(s, E, k + 1, y)
    <3>1. PICK k \in x + 1..y - 1 : /\ s[k] \in {"+", "*"}
                                    /\ Expression(s, E, x, k - 1) /\ Expression(s, E, k + 1, y)
      BY <2>3
    <3>2. /\ k - 1 \in 1..Len(s) /\ k + 1 \in 1..Len(s) /\ (k - 1) - x < y - x /\ y - (k + 1) < y - x
          /\ k \in Int /\ x \in Int /\ x < k
      BY <1>0
    <3>3. <<x, k - 1>> \in Balanced(s) /\ <<k + 1, y>> \in Balanced(s)
      BY <1>1, <3>1, <3>2
    <3>4. /\ Depth(s, x, k - 1) = 0 /\ \A j \in x..k - 1 : Depth(s, x, j) >= 0
          /\ Depth(s, k + 1, y) = 0 /\ \A j \in k + 1..y : Depth(s, k + 1, j) >= 0
      BY <1>0, <3>2, <3>3, BalancedIs
    <3>5. Depth(s, x, k) = 0 /\ \A j \in Int : j > k => Depth(s, x, j) = Depth(s, k + 1, j)
      BY <3>1, <3>2, <3>4, JoinedDepth
    <3>6. \A j \in x..y : Depth(s, x, j) >= 0
      <4> TAKE j \in x..y
      <4>1. j \in x..k - 1 \/ j = k \/ (j \in k + 1..y /\ j > k /\ j \in Int)
        BY <1>0, <3>2
      <4> QED
        BY <3>4, <3>5, <4>1
    <3>7. Depth(s, x, y) = 0
      <4>1. y \in Int /\ y > k
        BY <1>0
      <4> QED
        BY <3>4, <3>5, <4>1
    <3> QED
      BY <1>0, <3>6, <3>7, BalancedIs
  <2> QED
    BY <1>1, <2>1, <2>2, <2>3, ExpressionIs
<1>2. Inherits(s, E, Balanced(s))
  BY <1>1 DEF Inherits
<1> QED
  BY <1>2, ExpressionInduction

\* The operators of a section that are in no braces.
Surface(s, a, b) == {k \in a..b : s[k] \in {"+", "*"} /\ Depth(s, a, k) = 0}

LEMMA SurfaceRoots ==
  ASSUME NEW s, NEW a, NEW b
  PROVE  Roots(s, a, b) = {k \in Surface(s, a, b) :
           \A j \in Surface(s, a, b) : \/ priority(s[j]) > priority(s[k])
                                       \/ (priority(s[j]) = priority(s[k]) /\ j <= k)}
  BY DEF Roots, Surface

\* A set of places that is not empty has a last one.
LEMMA LastPlace ==
  ASSUME NEW a \in Int, NEW b \in Int, NEW T \in SUBSET (a..b), T # {}
  PROVE  \E k \in T : \A j \in T : j <= k
<1> DEFINE U == {b - k : k \in T}
<1>1. U \in SUBSET Nat /\ U # {}
  <2>1. ASSUME NEW k \in T PROVE b - k \in Nat
    <3>1. k \in a..b
      OBVIOUS
    <3> QED
      BY <3>1
  <2> QED
    BY <2>1
<1> HIDE DEF U
<1>2. PICK x \in U : \A y \in U : x <= y
  BY <1>1, LeastNat
<1>3. PICK k \in T : x = b - k
  BY <1>2 DEF U
<1>4. ASSUME NEW j \in T PROVE j <= k
  <2>1. b - j \in U
    BY DEF U
  <2>2. x <= b - j /\ k \in Int /\ j \in Int
    BY <1>2, <2>1
  <2> QED
    BY <1>3, <2>2
<1> QED
  BY <1>4

\* Where there is an operator there is a root.
LEMMA RootExists ==
  ASSUME NEW s, NEW a \in Int, NEW b \in Int, Surface(s, a, b) # {}
  PROVE  Roots(s, a, b) # {}
<1> DEFINE S == Surface(s, a, b)
           Low == {k \in S : s[k] = "+"}
<1>0. S \in SUBSET (a..b) /\ Low \in SUBSET (a..b) /\ \A k \in S : s[k] \in {"+", "*"}
  BY DEF Surface
<1>1. CASE Low # {}
  <2>1. PICK k \in Low : \A j \in Low : j <= k
    BY <1>0, <1>1, LastPlace
  <2>2. ASSUME NEW j \in S
        PROVE  priority(s[j]) > priority(s[k]) \/ (priority(s[j]) = priority(s[k]) /\ j <= k)
    BY <1>0, <2>1, Priorities
  <2>3. k \in Roots(s, a, b)
    BY <2>1, <2>2, SurfaceRoots
  <2> QED
    BY <2>3
<1>2. CASE Low = {}
  <2>1. PICK k \in S : \A j \in S : j <= k
    BY <1>0, LastPlace
  <2>2. ASSUME NEW j \in S
        PROVE  priority(s[j]) = priority(s[k]) /\ j <= k
    BY <1>0, <1>2, <2>1
  <2>3. k \in Roots(s, a, b)
    BY <2>1, <2>2, SurfaceRoots
  <2> QED
    BY <2>3
<1> QED
  BY <1>1, <1>2

\* The operators on both sides of one of them.
LEMMA SurfaceSides ==
  ASSUME NEW s, NEW a \in Int, NEW b \in Int, NEW k \in Surface(s, a, b)
  PROVE  Surface(s, a, b) = Surface(s, a, k - 1) \cup {k} \cup Surface(s, k + 1, b)
<1>1. k \in a..b /\ k \in Int /\ s[k] \in {"+", "*"} /\ Depth(s, a, k) = 0
  BY DEF Surface
<1>2. \A j \in k + 1..b : Depth(s, a, j) = Depth(s, k + 1, j)
  <2> TAKE j \in k + 1..b
  <2>1. a <= k + 1 /\ k <= j /\ j \in Int
    BY <1>1
  <2>2. Depth(s, a, j) = Depth(s, a, k) + Depth(s, k + 1, j) /\ Depth(s, k + 1, j) \in Int
    BY <1>1, <2>1, DepthIs
  <2> QED
    BY <1>1, <2>2
<1>3. a..b = (a..k - 1) \cup {k} \cup (k + 1..b)
  BY <1>1
<1> QED
  BY <1>1, <1>2, <1>3 DEF Surface

\* A digit, and an expression in braces, have none.
LEMMA NoSurface ==
  ASSUME NEW s, NEW E, Line(s, E), NEW a \in 1..Len(s), NEW b \in 1..Len(s),
         \/ a = b /\ s[a] = "digit"
         \/ a + 1 < b /\ s[a] = "(" /\ s[b] = ")" /\ Expression(s, E, a + 1, b - 1)
  PROVE  Surface(s, a, b) = {}
<1>0. Len(s) \in Nat
  BY DEF Line
<1>1. CASE a = b /\ s[a] = "digit"
  BY <1>1 DEF Surface
<1>2. CASE a + 1 < b /\ s[a] = "(" /\ s[b] = ")" /\ Expression(s, E, a + 1, b - 1)
  <2>1. a + 1 \in 1..Len(s) /\ b - 1 \in 1..Len(s)
    BY <1>0, <1>2
  <2>2. <<a + 1, b - 1>> \in Balanced(s)
    BY <1>2, <2>1, ExpressionBalanced
  <2>3. \A k \in a..b - 1 : Depth(s, a, k) >= 1
    BY <1>0, <1>2, <2>2, BracedDepth
  <2>4. \A k \in a..b : k = b \/ k \in a..b - 1
    OBVIOUS
  <2> QED
    BY <1>2, <2>3, <2>4 DEF Surface
<1> QED
  BY <1>1, <1>2

\* Each of them has an expression on both sides, whichever the grammar chose.
Divided(s, E) ==
  {ab \in (1..Len(s)) \X (1..Len(s)) :
     \A k \in Surface(s, ab[1], ab[2]) : Expression(s, E, ab[1], k - 1) /\ Expression(s, E, k + 1, ab[2])}

LEMMA DividedIs ==
  ASSUME NEW s, NEW E, NEW a \in 1..Len(s), NEW b \in 1..Len(s)
  PROVE  <<a, b>> \in Divided(s, E) <=>
           \A k \in Surface(s, a, b) : Expression(s, E, a, k - 1) /\ Expression(s, E, k + 1, b)
  BY DEF Divided

LEMMA ExpressionDivided ==
  ASSUME NEW s, NEW E, Line(s, E), NEW a \in 1..Len(s), NEW b \in 1..Len(s), Expression(s, E, a, b)
  PROVE  <<a, b>> \in Divided(s, E)
<1>0. Len(s) \in Nat
  BY DEF Line
<1>1. ASSUME NEW x \in 1..Len(s), NEW y \in 1..Len(s), Expression(s, E, x, y),
             \A c, e \in 1..Len(s) : Expression(s, E, c, e) /\ e - c < y - x => <<c, e>> \in Divided(s, E)
      PROVE  <<x, y>> \in Divided(s, E)
  <2>1. CASE \/ x = y /\ s[x] = "digit"
             \/ x + 1 < y /\ s[x] = "(" /\ s[y] = ")" /\ Expression(s, E, x + 1, y - 1)
    <3>1. Surface(s, x, y) = {}
      BY <2>1, NoSurface
    <3> QED
      BY <3>1, DividedIs
  <2>2. CASE \E k \in x + 1..y - 1 : /\ s[k] \in {"+", "*"}
                                     /\ Expression(s, E, x, k - 1) /\ Expression(s, E, k + 1, y)
    <3>1. PICK r \in x + 1..y - 1 : /\ s[r] \in {"+", "*"}
                                    /\ Expression(s, E, x, r - 1) /\ Expression(s, E, r + 1, y)
      BY <2>2
    <3>2. /\ r - 1 \in 1..Len(s) /\ r + 1 \in 1..Len(s) /\ (r - 1) - x < y - x /\ y - (r + 1) < y - x
          /\ r \in Int /\ x \in Int /\ y \in Int /\ x < r /\ x <= r
      BY <1>0
    <3>3. <<x, r - 1>> \in Divided(s, E) /\ <<r + 1, y>> \in Divided(s, E)
      BY <1>1, <3>1, <3>2
    <3>4. Depth(s, x, r - 1) = 0
      BY <1>0, <3>1, <3>2, ExpressionBalanced, BalancedIs
    <3>5. r \in Surface(s, x, y)
      <4>1. Depth(s, x, r) = 0
        BY <3>1, <3>2, <3>4, JoinedDepth
      <4>2. r \in x..y
        BY <3>2
      <4> QED
        BY <3>1, <4>1, <4>2 DEF Surface
    <3>6. Surface(s, x, y) = Surface(s, x, r - 1) \cup {r} \cup Surface(s, r + 1, y)
      BY <3>2, <3>5, SurfaceSides
    <3>7. ASSUME NEW k \in Surface(s, x, y)
          PROVE  Expression(s, E, x, k - 1) /\ Expression(s, E, k + 1, y)
      <4>0. k \in Int /\ s[k] \in {"+", "*"}
        BY DEF Surface
      <4>1. CASE k = r
        BY <3>1, <4>1
      <4>2. CASE k \in Surface(s, x, r - 1)
        <5>1. Expression(s, E, x, k - 1) /\ Expression(s, E, k + 1, r - 1)
          BY <3>2, <3>3, <4>2, DividedIs
        <5>2. Expression(s, E, k + 1, y)
          BY <3>1, <3>2, <5>1, ExpressionOf
        <5> QED
          BY <5>1, <5>2
      <4>3. CASE k \in Surface(s, r + 1, y)
        <5>1. Expression(s, E, r + 1, k - 1) /\ Expression(s, E, k + 1, y)
          BY <3>2, <3>3, <4>3, DividedIs
        <5>2. Expression(s, E, x, k - 1)
          BY <3>1, <3>2, <5>1, ExpressionOf
        <5> QED
          BY <5>1, <5>2
      <4> QED
        BY <3>6, <4>1, <4>2, <4>3
    <3> QED
      BY <3>7, DividedIs
  <2> QED
    BY <1>1, <2>1, <2>2, ExpressionIs
<1>2. Inherits(s, E, Divided(s, E))
  BY <1>1 DEF Inherits
<1> QED
  BY <1>2, ExpressionInduction

\* An expression is a digit, an expression in braces, or what its root joins:
\* operators to the left of a root are of no lower priority, those to its right
\* of a higher one.
LEMMA RootDivides ==
  ASSUME NEW s, NEW E, Line(s, E), NEW a \in 1..Len(s), NEW b \in 1..Len(s), Expression(s, E, a, b)
  PROVE  \/ /\ Roots(s, a, b) = {} /\ Surface(s, a, b) = {}
            /\ \/ a = b /\ s[a] = "digit"
               \/ a + 1 < b /\ s[a] = "(" /\ s[b] = ")" /\ Expression(s, E, a + 1, b - 1)
         \/ /\ Roots(s, a, b) # {}
            /\ \A k \in Roots(s, a, b) :
                 /\ k \in Int /\ s[k] \in {"+", "*"}
                 /\ Expression(s, E, a, k - 1) /\ Expression(s, E, k + 1, b)
                 /\ Surface(s, a, b) = Surface(s, a, k - 1) \cup {k} \cup Surface(s, k + 1, b)
                 /\ \A j \in Surface(s, a, k - 1) : priority(s[j]) >= priority(s[k])
                 /\ \A j \in Surface(s, k + 1, b) : priority(s[j]) > priority(s[k])
<1>0. Len(s) \in Nat /\ a \in Int /\ b \in Int
  BY DEF Line
<1>1. CASE \/ a = b /\ s[a] = "digit"
           \/ a + 1 < b /\ s[a] = "(" /\ s[b] = ")" /\ Expression(s, E, a + 1, b - 1)
  <2>1. Surface(s, a, b) = {}
    BY <1>1, NoSurface
  <2>2. Roots(s, a, b) = {}
    BY <2>1, SurfaceRoots
  <2> QED
    BY <1>1, <2>1, <2>2
<1>2. CASE \E k \in a + 1..b - 1 : /\ s[k] \in {"+", "*"}
                                   /\ Expression(s, E, a, k - 1) /\ Expression(s, E, k + 1, b)
  <2>1. PICK r \in a + 1..b - 1 : /\ s[r] \in {"+", "*"}
                                  /\ Expression(s, E, a, r - 1) /\ Expression(s, E, r + 1, b)
    BY <1>2
  <2>2. r \in Int /\ a < r /\ r - 1 \in 1..Len(s) /\ r \in a..b
    BY <1>0
  <2>3. Depth(s, a, r - 1) = 0
    BY <1>0, <2>1, <2>2, ExpressionBalanced, BalancedIs
  <2>4. Depth(s, a, r) = 0
    BY <1>0, <2>1, <2>2, <2>3, JoinedDepth
  <2>5. r \in Surface(s, a, b)
    BY <2>1, <2>2, <2>4 DEF Surface
  <2>6. Roots(s, a, b) # {}
    BY <1>0, <2>5, RootExists
  <2>7. ASSUME NEW k \in Roots(s, a, b)
        PROVE  /\ k \in Int /\ s[k] \in {"+", "*"}
               /\ Expression(s, E, a, k - 1) /\ Expression(s, E, k + 1, b)
               /\ Surface(s, a, b) = Surface(s, a, k - 1) \cup {k} \cup Surface(s, k + 1, b)
               /\ \A j \in Surface(s, a, k - 1) : priority(s[j]) >= priority(s[k])
               /\ \A j \in Surface(s, k + 1, b) : priority(s[j]) > priority(s[k])
    <3>1. /\ k \in Surface(s, a, b)
          /\ \A j \in Surface(s, a, b) : \/ priority(s[j]) > priority(s[k])
                                         \/ (priority(s[j]) = priority(s[k]) /\ j <= k)
      BY SurfaceRoots
    <3>2. k \in Int /\ s[k] \in {"+", "*"}
      BY <3>1 DEF Surface
    <3>3. Expression(s, E, a, k - 1) /\ Expression(s, E, k + 1, b)
      BY <3>1, ExpressionDivided, DividedIs
    <3>4. Surface(s, a, b) = Surface(s, a, k - 1) \cup {k} \cup Surface(s, k + 1, b)
      BY <1>0, <3>1, SurfaceSides
    <3>5. ASSUME NEW j \in Surface(s, a, k - 1) PROVE priority(s[j]) >= priority(s[k])
      <4>1. j \in Surface(s, a, b) /\ s[j] \in {"+", "*"}
        BY <3>4 DEF Surface
      <4> QED
        BY <3>1, <3>2, <4>1, Priorities
    <3>6. ASSUME NEW j \in Surface(s, k + 1, b) PROVE priority(s[j]) > priority(s[k])
      <4>1. j \in Surface(s, a, b) /\ s[j] \in {"+", "*"} /\ j \in k + 1..b
        BY <3>4 DEF Surface
      <4>2. ~(j <= k)
        BY <1>0, <3>2, <4>1
      <4> QED
        BY <3>1, <4>1, <4>2
    <3> QED
      BY <3>2, <3>3, <3>4, <3>5, <3>6
  <2> QED
    BY <2>6, <2>7
<1> QED
  BY <1>1, <1>2, ExpressionIs

-----------------------------------------------------------------------------
(* The scan, as steps from a place, a stack and a result *)

Opens(d)    == IF d = "post" THEN "(" ELSE ")"
Closes(d)   == IF d = "post" THEN ")" ELSE "("
Ahead(d, n) == IF d = "post" THEN n + 1 ELSE n - 1
Put(d, r, k)   == IF d = "post" THEN Append(r, k) ELSE <<k>> \o r
Add(d, r, x)   == IF d = "post" THEN r \o x ELSE x \o r
Gives(d, c, t) == IF d = "post" THEN priority(c) <= priority(t) ELSE priority(c) < priority(t)

\* At place n the top of the stack o is popped, and the scan stays.
Pops(s, d, n, o) ==
  /\ o # <<>>
  /\ \/ n \notin 1..Len(s)
     \/ n \in 1..Len(s) /\ s[n] = Closes(d) /\ s[Last(o)] # Opens(d)
     \/ /\ n \in 1..Len(s) /\ s[n] \in Operators
        /\ Known(s[n]) /\ Known(s[Last(o)]) /\ Gives(d, s[n], s[Last(o)])

\* From place n with the stack o and the result r the next is z.
Goes(s, d, n, o, r, z) ==
  \/ Pops(s, d, n, o) /\ z = <<n, Front(o), Put(d, r, Last(o))>>
  \/ n \in 1..Len(s) /\ s[n] = "digit" /\ z = <<Ahead(d, n), o, Put(d, r, n)>>
  \/ n \in 1..Len(s) /\ s[n] = Opens(d) /\ z = <<Ahead(d, n), Append(o, n), r>>
  \/ /\ n \in 1..Len(s) /\ s[n] = Closes(d) /\ o # <<>> /\ s[Last(o)] = Opens(d)
     /\ z = <<Ahead(d, n), Front(o), r>>
  \/ /\ n \in 1..Len(s) /\ s[n] \in Operators
     /\ o # <<>> => Known(s[n]) /\ Known(s[Last(o)]) /\ ~Gives(d, s[n], s[Last(o)])
     /\ z = <<Ahead(d, n), Append(o, n), r>>

Points == Int \X Seq(Nat) \X Seq(Nat)

Point(n, o, r) == n \in Int /\ o \in Seq(Nat) /\ r \in Seq(Nat)

GoesOn(s, d, X) ==
  \A n \in Int, o \in Seq(Nat), r \in Seq(Nat) : \A z \in Points :
    <<n, o, r>> \in X /\ Goes(s, d, n, o, r, z) => z \in X

\* Some number of steps from y, and the scan is at z.
Reaches(s, d, y, z) == \A X \in SUBSET Points : y \in X /\ GoesOn(s, d, X) => z \in X

LEMMA ReachesSame == ASSUME NEW s, NEW d, NEW y PROVE Reaches(s, d, y, y)
  BY DEF Reaches

LEMMA ReachesThen ==
  ASSUME NEW s, NEW d, NEW x, NEW y, NEW z, Reaches(s, d, x, y), Reaches(s, d, y, z)
  PROVE  Reaches(s, d, x, z)
  BY Zenon DEF Reaches

LEMMA ReachesNext ==
  ASSUME NEW s, NEW d, NEW n, NEW o, NEW r, Point(n, o, r), NEW z \in Points, Goes(s, d, n, o, r, z)
  PROVE  Reaches(s, d, <<n, o, r>>, z)
  BY Zenon DEF Reaches, GoesOn, Point

LEMMA PointIs == ASSUME NEW n, NEW o, NEW r, Point(n, o, r) PROVE <<n, o, r>> \in Points
  BY DEF Point, Points

LEMMA PutType ==
  ASSUME NEW d, NEW r \in Seq(Nat), NEW k \in Nat
  PROVE  Put(d, r, k) \in Seq(Nat)
<1>1. <<k>> \in Seq(Nat) /\ Append(r, k) \in Seq(Nat)
  OBVIOUS
<1>2. <<k>> \o r \in Seq(Nat)
  BY <1>1, ConcatProperties
<1> QED
  BY <1>1, <1>2 DEF Put

LEMMA AddType ==
  ASSUME NEW d, NEW r \in Seq(Nat), NEW x \in Seq(Nat)
  PROVE  Add(d, r, x) \in Seq(Nat)
  BY ConcatProperties DEF Add

LEMMA FrontOfAppend ==
  ASSUME NEW o \in Seq(Nat), NEW k \in Nat
  PROVE  /\ Append(o, k) \in Seq(Nat) /\ Append(o, k) # <<>>
         /\ Front(Append(o, k)) = o /\ Last(Append(o, k)) = k
<1> DEFINE t == Append(o, k)
<1>1. /\ t \in Seq(Nat) /\ t # <<>> /\ Len(t) = Len(o) + 1 /\ Len(o) \in Nat
      /\ t[Len(o) + 1] = k /\ \A j \in 1..Len(o) : t[j] = o[j]
  BY AppendProperties
<1> HIDE DEF t
<1>2. /\ Front(t) \in Seq(Nat) /\ Len(Front(t)) = Len(t) - 1
      /\ \A j \in 1..Len(t) - 1 : Front(t)[j] = t[j]
      /\ Last(t) = t[Len(t)]
  BY <1>1, FrontLast
<1>3. Len(Front(t)) = Len(o) /\ \A j \in 1..Len(o) : Front(t)[j] = o[j]
  BY <1>1, <1>2
<1>4. Front(t) = o
  BY <1>2, <1>3, SeqEqual
<1> QED
  BY <1>1, <1>2, <1>4 DEF t

-----------------------------------------------------------------------------
(* What operators on the stack come to when they are popped *)

Unwinds(d, S, X) ==
  \A o \in Seq(Nat), r \in Seq(Nat) :
    <<o, r>> \in X /\ o # <<>> /\ Last(o) \in S => <<Front(o), Put(d, r, Last(o))>> \in X

\* Popping some that are in S leads from the stack and the result y to z.
Drains(d, S, y, z) ==
  \A X \in SUBSET (Seq(Nat) \X Seq(Nat)) : y \in X /\ Unwinds(d, S, X) => z \in X

LEMMA DrainsSame == ASSUME NEW d, NEW S, NEW y PROVE Drains(d, S, y, y)
  BY DEF Drains

LEMMA DrainsThen ==
  ASSUME NEW d, NEW S, NEW x, NEW y, NEW z, Drains(d, S, x, y), Drains(d, S, y, z)
  PROVE  Drains(d, S, x, z)
  BY Zenon DEF Drains

LEMMA DrainsMore ==
  ASSUME NEW d, NEW S, NEW T, S \subseteq T, NEW y, NEW z, Drains(d, S, y, z)
  PROVE  Drains(d, T, y, z)
<1>1. ASSUME NEW X, Unwinds(d, T, X) PROVE Unwinds(d, S, X)
  BY <1>1, Zenon DEF Unwinds
<1> QED
  BY <1>1, Zenon DEF Drains

LEMMA DrainsOne ==
  ASSUME NEW d, NEW S, NEW k \in Nat, k \in S, NEW o \in Seq(Nat), NEW r \in Seq(Nat)
  PROVE  Drains(d, S, <<Append(o, k), r>>, <<o, Put(d, r, k)>>)
<1> SUFFICES ASSUME NEW X \in SUBSET (Seq(Nat) \X Seq(Nat)),
                    <<Append(o, k), r>> \in X, Unwinds(d, S, X)
             PROVE  <<o, Put(d, r, k)>> \in X
  BY DEF Drains
<1> DEFINE t == Append(o, k)
<1>1. t \in Seq(Nat) /\ t # <<>> /\ Front(t) = o /\ Last(t) = k
  BY FrontOfAppend
<1>2. <<t, r>> \in X
  OBVIOUS
<1> HIDE DEF t
<1>3. <<Front(t), Put(d, r, Last(t))>> \in X
  BY <1>1, <1>2, Zenon DEF Unwinds
<1> QED
  BY <1>1, <1>3, Zenon

\* At a place where all of S are popped the scan does so.
PopsAll(s, d, n, S) == \A o \in Seq(Nat) : o # <<>> /\ Last(o) \in S => Pops(s, d, n, o)

LEMMA DrainsReaches ==
  ASSUME NEW s, NEW d, NEW n \in Int, NEW S, PopsAll(s, d, n, S),
         NEW o \in Seq(Nat), NEW r \in Seq(Nat), NEW u, NEW v, Drains(d, S, <<o, r>>, <<u, v>>)
  PROVE  Reaches(s, d, <<n, o, r>>, <<n, u, v>>)
<1> SUFFICES ASSUME NEW X \in SUBSET Points, <<n, o, r>> \in X, GoesOn(s, d, X)
             PROVE  <<n, u, v>> \in X
  BY DEF Reaches
<1> DEFINE Y == {p \in Seq(Nat) \X Seq(Nat) : <<n, p[1], p[2]>> \in X}
<1>1. \A x, y : <<x, y>> \in Y <=> x \in Seq(Nat) /\ y \in Seq(Nat) /\ <<n, x, y>> \in X
  OBVIOUS
<1>2. Y \in SUBSET (Seq(Nat) \X Seq(Nat))
  OBVIOUS
<1> HIDE DEF Y
<1>3. ASSUME NEW x \in Seq(Nat), NEW y \in Seq(Nat), <<x, y>> \in Y, x # <<>>, Last(x) \in S
      PROVE  <<Front(x), Put(d, y, Last(x))>> \in Y
  <2>1. Front(x) \in Seq(Nat) /\ Last(x) \in Nat
    BY <1>3, FrontLast
  <2>2. Put(d, y, Last(x)) \in Seq(Nat)
    BY <2>1, PutType
  <2> DEFINE z == <<n, Front(x), Put(d, y, Last(x))>>
  <2>3. z \in Points
    BY <2>1, <2>2 DEF Points
  <2>4. Pops(s, d, n, x)
    BY <1>3 DEF PopsAll
  <2>5. Goes(s, d, n, x, y, z)
    BY <2>4 DEF Goes
  <2>6. <<n, x, y>> \in X
    BY <1>1, <1>3
  <2> HIDE DEF z
  <2>7. z \in X
    BY <2>3, <2>5, <2>6, Zenon DEF GoesOn
  <2> QED
    BY <1>1, <2>1, <2>2, <2>7, Zenon DEF z
<1>4. Unwinds(d, S, Y)
  BY <1>3 DEF Unwinds
<1>5. <<o, r>> \in Y
  BY <1>1
<1>6. <<u, v>> \in Y
  BY <1>2, <1>4, <1>5, Zenon DEF Drains
<1> QED
  BY <1>1, <1>6

-----------------------------------------------------------------------------
(* What scanning an expression does *)

\* None of S makes what is on top of the stack o yield.
Ready(s, d, S, o) ==
  o # <<>> => Known(s[Last(o)]) /\ \A k \in S : ~Gives(d, s[k], s[Last(o)])

\* From place n to place m the scan adds x to the result, but for what it
\* leaves on the stack, which is operators of S that come to the rest of x when
\* they are popped.
Reads(s, d, n, m, S, x) ==
  /\ n \in Int /\ m \in Int /\ x \in Seq(Nat)
  /\ \A k \in S : k \in 1..Len(s) /\ s[k] \in {"+", "*"}
  /\ \A o \in Seq(Nat), r \in Seq(Nat) :
       Ready(s, d, S, o) =>
         \E u \in Seq(Nat), v \in Seq(Nat) :
           Reaches(s, d, <<n, o, r>>, <<m, u, v>>) /\ Drains(d, S, <<u, v>>, <<o, Add(d, r, x)>>)

LEMMA Associative ==
  ASSUME NEW e \in Seq(Nat), NEW f \in Seq(Nat), NEW g \in Seq(Nat)
  PROVE  (e \o f) \o g = e \o (f \o g)
  BY SMT

LEMMA AheadType == ASSUME NEW d, NEW n \in Int PROVE Ahead(d, n) \in Int
  BY DEF Ahead

LEMMA AddOne ==
  ASSUME NEW d, NEW r \in Seq(Nat), NEW k \in Nat
  PROVE  <<k>> \in Seq(Nat) /\ Put(d, r, k) = Add(d, r, <<k>>)
<1>1. <<k>> \in Seq(Nat) /\ Append(r, k) = r \o <<k>>
  BY AppendIsConcat
<1> QED
  BY <1>1 DEF Put, Add

\* A digit.
LEMMA ReadsDigit ==
  ASSUME NEW s, NEW d, NEW n \in 1..Len(s), n \in Nat, s[n] = "digit"
  PROVE  Reads(s, d, n, Ahead(d, n), {}, <<n>>)
<1>1. ASSUME NEW o \in Seq(Nat), NEW r \in Seq(Nat)
      PROVE  \E u \in Seq(Nat), v \in Seq(Nat) :
               /\ Reaches(s, d, <<n, o, r>>, <<Ahead(d, n), u, v>>)
               /\ Drains(d, {}, <<u, v>>, <<o, Add(d, r, <<n>>)>>)
  <2> DEFINE v == Put(d, r, n)
             z == <<Ahead(d, n), o, v>>
  <2>1. v \in Seq(Nat) /\ v = Add(d, r, <<n>>)
    BY PutType, AddOne
  <2>2. z \in Points
    BY <2>1, AheadType DEF Points
  <2>3. Goes(s, d, n, o, r, z)
    BY DEF Goes
  <2>4. Point(n, o, r)
    BY DEF Point
  <2> HIDE DEF v, z
  <2>5. Reaches(s, d, <<n, o, r>>, z)
    BY <2>2, <2>3, <2>4, ReachesNext
  <2>6. Drains(d, {}, <<o, v>>, <<o, v>>)
    BY DrainsSame
  <2> QED
    BY <2>1, <2>5, <2>6 DEF z
<1>2. <<n>> \in Seq(Nat) /\ Ahead(d, n) \in Int /\ n \in Int
  BY AheadType
<1> QED
  BY <1>1, <1>2 DEF Reads

\* An expression in braces.
LEMMA ReadsBraces ==
  ASSUME NEW s, NEW d \in {"pre", "post"}, NEW n \in 1..Len(s), n \in Nat, NEW m \in 1..Len(s), m \in Nat,
         s[n] = Opens(d), s[m] = Closes(d),
         NEW S, NEW x, Reads(s, d, Ahead(d, n), m, S, x)
  PROVE  Reads(s, d, n, Ahead(d, m), {}, x)
<1>0. /\ Ahead(d, n) \in Int /\ Ahead(d, m) \in Int /\ n \in Int /\ m \in Int /\ x \in Seq(Nat)
      /\ \A k \in S : k \in 1..Len(s) /\ s[k] \in {"+", "*"}
  BY AheadType DEF Reads
<1>1. PopsAll(s, d, m, S)
  <2>1. ASSUME NEW o \in Seq(Nat), o # <<>>, Last(o) \in S PROVE Pops(s, d, m, o)
    <3>1. s[Last(o)] \in {"+", "*"}
      BY <1>0, <2>1
    <3>2. s[Last(o)] # Opens(d)
      BY <3>1 DEF Opens
    <3> QED
      BY <2>1, <3>2 DEF Pops
  <2> QED
    BY <2>1 DEF PopsAll
<1>2. ASSUME NEW o \in Seq(Nat), NEW r \in Seq(Nat)
      PROVE  \E u \in Seq(Nat), v \in Seq(Nat) :
               /\ Reaches(s, d, <<n, o, r>>, <<Ahead(d, m), u, v>>)
               /\ Drains(d, {}, <<u, v>>, <<o, Add(d, r, x)>>)
  <2> DEFINE t == Append(o, n)
             w == Add(d, r, x)
             a == Ahead(d, n)
             b == Ahead(d, m)
  <2>1. t \in Seq(Nat) /\ t # <<>> /\ Front(t) = o /\ Last(t) = n
    BY FrontOfAppend
  <2>2. w \in Seq(Nat)
    BY <1>0, AddType
  <2>3. <<a, t, r>> \in Points /\ <<b, o, w>> \in Points
    BY <1>0, <2>1, <2>2 DEF Points
  <2>4. Goes(s, d, n, o, r, <<a, t, r>>)
    BY DEF Goes
  <2>5. Point(n, o, r) /\ Point(m, t, w)
    BY <1>0, <2>1, <2>2 DEF Point
  <2>6. Goes(s, d, m, t, w, <<b, o, w>>)
    BY <2>1 DEF Goes
  <2>7. Ready(s, d, S, t)
    <3>1. Known(s[n])
      BY DEF Known, Opens
    <3>2. ASSUME NEW k \in S PROVE ~Gives(d, s[k], s[n])
      <4>1. priority(s[k]) \in {1, 2} /\ priority(s[n]) = 0
        BY <1>0, Priorities DEF Opens
      <4> QED
        BY <4>1 DEF Gives
    <3> QED
      BY <2>1, <3>1, <3>2 DEF Ready
  <2> HIDE DEF t, w, a, b
  <2>8. PICK u \in Seq(Nat), v \in Seq(Nat) :
          Reaches(s, d, <<a, t, r>>, <<m, u, v>>) /\ Drains(d, S, <<u, v>>, <<t, w>>)
    BY <2>1, <2>7 DEF Reads, a, w
  <2>9. Reaches(s, d, <<m, u, v>>, <<m, t, w>>)
    BY <1>0, <1>1, <2>8, DrainsReaches
  <2>10. Reaches(s, d, <<n, o, r>>, <<a, t, r>>) /\ Reaches(s, d, <<m, t, w>>, <<b, o, w>>)
    BY <2>3, <2>4, <2>5, <2>6, ReachesNext
  <2>11. Reaches(s, d, <<n, o, r>>, <<b, o, w>>)
    BY <2>8, <2>9, <2>10, ReachesThen
  <2>12. Drains(d, {}, <<o, w>>, <<o, w>>)
    BY DrainsSame
  <2> QED
    BY <2>2, <2>11, <2>12 DEF w, b
<1> QED
  BY <1>0, <1>2 DEF Reads

\* Two expressions with an operator between, which makes the operators of the
\* first yield and is not made to by those of the second.
LEMMA ReadsOperator ==
  ASSUME NEW s, NEW d \in {"pre", "post"}, NEW n, NEW k \in 1..Len(s), k \in Nat, NEW m,
         NEW S, NEW x, Reads(s, d, n, k, S, x),
         NEW T, NEW y, Reads(s, d, Ahead(d, k), m, T, y),
         s[k] \in {"+", "*"},
         \A j \in S : Gives(d, s[k], s[j]),
         \A j \in T : ~Gives(d, s[j], s[k])
  PROVE  Reads(s, d, n, m, S \cup {k} \cup T, Add(d, Add(d, x, y), <<k>>))
<1> DEFINE U == S \cup {k} \cup T
           xyk == Add(d, Add(d, x, y), <<k>>)
           a == Ahead(d, k)
<1>0. /\ n \in Int /\ m \in Int /\ k \in Int /\ a \in Int
      /\ x \in Seq(Nat) /\ y \in Seq(Nat) /\ <<k>> \in Seq(Nat)
      /\ \A j \in U : j \in 1..Len(s) /\ s[j] \in {"+", "*"}
  BY AheadType DEF Reads
<1>1. Add(d, x, y) \in Seq(Nat) /\ xyk \in Seq(Nat)
  BY <1>0, AddType
<1>2. ASSUME NEW r \in Seq(Nat)
      PROVE  Add(d, r, xyk) = Put(d, Add(d, Add(d, r, x), y), k)
  <2>1. Add(d, r, x) \in Seq(Nat) /\ Add(d, Add(d, r, x), y) \in Seq(Nat)
    BY <1>0, AddType
  <2>2. Put(d, Add(d, Add(d, r, x), y), k) = Add(d, Add(d, Add(d, r, x), y), <<k>>)
    BY <2>1, AddOne
  <2>3. ASSUME NEW e \in Seq(Nat), NEW f \in Seq(Nat), NEW g \in Seq(Nat)
        PROVE  Add(d, Add(d, e, f), g) = Add(d, e, Add(d, f, g))
    BY Associative, Zenon DEF Add
  <2>4. Add(d, Add(d, Add(d, r, x), y), <<k>>) = Add(d, Add(d, r, Add(d, x, y)), <<k>>)
    BY <1>0, <2>3
  <2>5. Add(d, Add(d, r, Add(d, x, y)), <<k>>) = Add(d, r, xyk)
    BY <1>0, <1>1, <2>3
  <2> QED
    BY <2>2, <2>4, <2>5
<1> HIDE DEF xyk
<1>3. PopsAll(s, d, k, S)
  <2>1. ASSUME NEW o \in Seq(Nat), o # <<>>, Last(o) \in S PROVE Pops(s, d, k, o)
    <3>1. s[Last(o)] \in {"+", "*"} /\ Gives(d, s[k], s[Last(o)])
      BY <1>0, <2>1
    <3> QED
      BY <2>1, <3>1 DEF Pops, Operators, Known
  <2> QED
    BY <2>1 DEF PopsAll
<1>4. ASSUME NEW o \in Seq(Nat), NEW r \in Seq(Nat), Ready(s, d, U, o)
      PROVE  \E u \in Seq(Nat), v \in Seq(Nat) :
               Reaches(s, d, <<n, o, r>>, <<m, u, v>>) /\ Drains(d, U, <<u, v>>, <<o, Add(d, r, xyk)>>)
  <2> DEFINE t == Append(o, k)
             rx == Add(d, r, x)
             rxy == Add(d, rx, y)
  <2>1. t \in Seq(Nat) /\ t # <<>> /\ Front(t) = o /\ Last(t) = k
    BY FrontOfAppend
  <2>2. rx \in Seq(Nat) /\ rxy \in Seq(Nat)
    BY <1>0, AddType
  <2>3. Ready(s, d, S, o)
    BY <1>4 DEF Ready
  <2>4. Ready(s, d, T, t)
    BY <2>1 DEF Ready, Known
  <2>5. Goes(s, d, k, o, rx, <<a, t, rx>>)
    BY <1>4 DEF Goes, Ready, Operators, Known
  <2>6. Point(k, o, rx) /\ <<a, t, rx>> \in Points
    BY <1>0, <2>1, <2>2 DEF Point, Points
  <2> HIDE DEF t, rx, rxy, a, U
  <2>7. PICK u \in Seq(Nat), v \in Seq(Nat) :
          Reaches(s, d, <<n, o, r>>, <<k, u, v>>) /\ Drains(d, S, <<u, v>>, <<o, rx>>)
    BY <2>3 DEF Reads, rx
  <2>8. Reaches(s, d, <<k, u, v>>, <<k, o, rx>>)
    BY <1>0, <1>3, <2>7, DrainsReaches
  <2>9. Reaches(s, d, <<k, o, rx>>, <<a, t, rx>>)
    BY <2>5, <2>6, ReachesNext
  <2>10. PICK p \in Seq(Nat), q \in Seq(Nat) :
           Reaches(s, d, <<a, t, rx>>, <<m, p, q>>) /\ Drains(d, T, <<p, q>>, <<t, rxy>>)
    BY <2>1, <2>2, <2>4 DEF Reads, a, rxy
  <2>11. Reaches(s, d, <<n, o, r>>, <<m, p, q>>)
    BY <2>7, <2>8, <2>9, <2>10, ReachesThen
  <2>12. Drains(d, U, <<p, q>>, <<t, rxy>>)
    <3>1. T \subseteq U
      BY DEF U
    <3> QED
      BY <2>10, <3>1, DrainsMore
  <2>13. Drains(d, U, <<t, rxy>>, <<o, Put(d, rxy, k)>>)
    <3>1. k \in U
      BY DEF U
    <3> QED
      BY <2>2, <3>1, DrainsOne DEF t
  <2>14. Put(d, rxy, k) = Add(d, r, xyk)
    BY <1>2 DEF rx, rxy
  <2>15. Drains(d, U, <<p, q>>, <<o, Add(d, r, xyk)>>)
    BY <2>12, <2>13, <2>14, DrainsThen
  <2> QED
    BY <2>11, <2>15
<1>5. Reads(s, d, n, m, U, xyk)
  <2> HIDE DEF U
  <2> QED
    BY <1>0, <1>1, <1>4 DEF Reads
<1> QED
  BY <1>5 DEF xyk

\* Every expression is read so, in either direction.
From(d, a, b) == IF d = "post" THEN a ELSE b
Past(d, a, b) == IF d = "post" THEN b + 1 ELSE a - 1

ReadAs(s, d, W) ==
  {ab \in (1..Len(s)) \X (1..Len(s)) :
     Reads(s, d, From(d, ab[1], ab[2]), Past(d, ab[1], ab[2]), Surface(s, ab[1], ab[2]), W[ab])}

LEMMA ReadAsIs ==
  ASSUME NEW s, NEW d, NEW W, NEW a \in 1..Len(s), NEW b \in 1..Len(s)
  PROVE  <<a, b>> \in ReadAs(s, d, W) <=>
           Reads(s, d, From(d, a, b), Past(d, a, b), Surface(s, a, b), W[<<a, b>>])
  BY DEF ReadAs

LEMMA WritesIs ==
  ASSUME NEW s, Len(s) \in Nat, NEW d, NEW W, Writes(s, d, W), NEW a \in 1..Len(s), NEW b \in 1..Len(s)
  PROVE  W[<<a, b>>] = WritesOf(s, d, W, a, b)
<1>1. <<a, b>> \in Sections(s) /\ <<a, b>>[1] = a /\ <<a, b>>[2] = b
  BY DEF Sections
<1>2. W = [ab \in Sections(s) |-> WritesOf(s, d, W, ab[1], ab[2])]
  BY DEF Writes
<1>3. W[<<a, b>>] = WritesOf(s, d, W, <<a, b>>[1], <<a, b>>[2])
  BY <1>1, <1>2, Zenon
<1> QED
  BY <1>1, <1>3, Zenon

\* The step of the induction: from the sides of a root to the whole.
LEMMA RootRead ==
  ASSUME NEW s, Len(s) \in Nat, NEW d \in {"pre", "post"}, NEW W,
         NEW a \in 1..Len(s), NEW b \in 1..Len(s), NEW k \in 1..Len(s), s[k] \in {"+", "*"},
         k - 1 \in 1..Len(s), k + 1 \in 1..Len(s),
         <<a, k - 1>> \in ReadAs(s, d, W), <<k + 1, b>> \in ReadAs(s, d, W),
         Surface(s, a, b) = Surface(s, a, k - 1) \cup {k} \cup Surface(s, k + 1, b),
         \A j \in Surface(s, a, k - 1) : priority(s[j]) >= priority(s[k]),
         \A j \in Surface(s, k + 1, b) : priority(s[j]) > priority(s[k])
  PROVE  Reads(s, d, From(d, a, b), Past(d, a, b), Surface(s, a, b),
               Join(d, k, W[<<a, k - 1>>], W[<<k + 1, b>>]))
<1> DEFINE l == W[<<a, k - 1>>]
           r == W[<<k + 1, b>>]
           L == Surface(s, a, k - 1)
           R == Surface(s, k + 1, b)
<1>0. a \in Nat /\ b \in Nat /\ k \in Nat
  OBVIOUS
<1>1. /\ Reads(s, d, From(d, a, k - 1), Past(d, a, k - 1), L, l)
      /\ Reads(s, d, From(d, k + 1, b), Past(d, k + 1, b), R, r)
  BY ReadAsIs
<1>2. /\ l \in Seq(Nat) /\ r \in Seq(Nat) /\ <<k>> \in Seq(Nat)
      /\ \A j \in L \cup R : s[j] \in {"+", "*"}
  BY <1>0, <1>1 DEF Reads
<1>3. priority(s[k]) \in Int /\ \A j \in L \cup R : priority(s[j]) \in Int
  <2>1. \A c \in {"+", "*"} : priority(c) \in Int
    BY Priorities
  <2> HIDE DEF L, R
  <2> QED
    BY <1>2, <2>1
<1>4. \A j \in L : priority(s[j]) >= priority(s[k])
  OBVIOUS
<1>5. \A j \in R : priority(s[j]) > priority(s[k])
  OBVIOUS
<1> HIDE DEF l, r, L, R
<1>6. CASE d = "post"
  <2>1. /\ From(d, a, b) = a /\ From(d, a, k - 1) = a /\ Past(d, a, k - 1) = k
        /\ From(d, k + 1, b) = Ahead(d, k) /\ Past(d, k + 1, b) = Past(d, a, b)
    BY <1>0, <1>6 DEF From, Past, Ahead
  <2>2. \A j \in L : Gives(d, s[k], s[j])
    BY <1>3, <1>4, <1>6 DEF Gives
  <2>3. \A j \in R : ~Gives(d, s[j], s[k])
    BY <1>3, <1>5, <1>6 DEF Gives
  <2>4. Reads(s, d, a, Past(d, a, b), L \cup {k} \cup R, Add(d, Add(d, l, r), <<k>>))
    BY <1>0, <1>1, <2>1, <2>2, <2>3, ReadsOperator
  <2>5. Add(d, Add(d, l, r), <<k>>) = Join(d, k, l, r)
    BY <1>6, Zenon DEF Add, Join
  <2> QED
    BY <2>1, <2>4, <2>5 DEF l, r, L, R
<1>7. CASE d = "pre"
  <2>1. /\ From(d, a, b) = b /\ From(d, k + 1, b) = b /\ Past(d, k + 1, b) = k
        /\ From(d, a, k - 1) = Ahead(d, k) /\ Past(d, a, k - 1) = Past(d, a, b)
    BY <1>0, <1>7 DEF From, Past, Ahead
  <2>2. \A j \in R : Gives(d, s[k], s[j])
    BY <1>3, <1>5, <1>7 DEF Gives
  <2>3. \A j \in L : ~Gives(d, s[j], s[k])
    BY <1>3, <1>4, <1>7 DEF Gives
  <2>4. Reads(s, d, b, Past(d, a, b), R \cup {k} \cup L, Add(d, Add(d, r, l), <<k>>))
    BY <1>0, <1>1, <2>1, <2>2, <2>3, ReadsOperator
  <2>5. Add(d, Add(d, r, l), <<k>>) = Join(d, k, l, r)
    <3>1. Add(d, Add(d, r, l), <<k>>) = <<k>> \o (l \o r) /\ Join(d, k, l, r) = (<<k>> \o l) \o r
      BY <1>7, Zenon DEF Add, Join
    <3>2. <<k>> \o (l \o r) = (<<k>> \o l) \o r
      BY <1>2, Associative, Zenon
    <3> QED
      BY <3>1, <3>2, Zenon
  <2>6. R \cup {k} \cup L = L \cup {k} \cup R
    OBVIOUS
  <2> QED
    BY <2>1, <2>4, <2>5, <2>6 DEF l, r, L, R
<1> QED
  BY <1>6, <1>7

LEMMA ExpressionRead ==
  ASSUME NEW s, NEW E, Line(s, E), NEW d \in {"pre", "post"}, NEW W, Writes(s, d, W),
         NEW a \in 1..Len(s), NEW b \in 1..Len(s), Expression(s, E, a, b)
  PROVE  <<a, b>> \in ReadAs(s, d, W)
<1>0. Len(s) \in Nat
  BY DEF Line
<1>1. ASSUME NEW x \in 1..Len(s), NEW y \in 1..Len(s), Expression(s, E, x, y),
             \A c, e \in 1..Len(s) : Expression(s, E, c, e) /\ e - c < y - x => <<c, e>> \in ReadAs(s, d, W)
      PROVE  <<x, y>> \in ReadAs(s, d, W)
  <2>0. W[<<x, y>>] = WritesOf(s, d, W, x, y) /\ x \in Nat /\ y \in Nat
    BY <1>0, WritesIs
  <2>1. CASE Roots(s, x, y) = {} /\ Surface(s, x, y) = {} /\ x = y /\ s[x] = "digit"
    <3>1. W[<<x, y>>] = <<x>>
      BY <2>0, <2>1 DEF WritesOf
    <3>2. Reads(s, d, x, Ahead(d, x), {}, <<x>>)
      BY <2>0, <2>1, ReadsDigit
    <3>3. From(d, x, y) = x /\ Past(d, x, y) = Ahead(d, x)
      BY <2>1 DEF From, Past, Ahead
    <3>4. Reads(s, d, From(d, x, y), Past(d, x, y), Surface(s, x, y), W[<<x, y>>])
      BY <2>1, <3>1, <3>2, <3>3, Zenon
    <3> QED
      BY <3>4, ReadAsIs
  <2>2. CASE /\ Roots(s, x, y) = {} /\ Surface(s, x, y) = {}
             /\ x + 1 < y /\ s[x] = "(" /\ s[y] = ")" /\ Expression(s, E, x + 1, y - 1)
    <3>1. /\ W[<<x, y>>] = W[<<x + 1, y - 1>>] /\ x + 1 \in 1..Len(s) /\ y - 1 \in 1..Len(s)
          /\ (y - 1) - (x + 1) < y - x
      BY <1>0, <2>0, <2>2 DEF WritesOf
    <3>2. <<x + 1, y - 1>> \in ReadAs(s, d, W)
      BY <1>1, <2>2, <3>1
    <3> DEFINE S == Surface(s, x + 1, y - 1)
               w == W[<<x + 1, y - 1>>]
    <3>3. Reads(s, d, From(d, x + 1, y - 1), Past(d, x + 1, y - 1), S, w)
      BY <3>1, <3>2, ReadAsIs
    <3> HIDE DEF S, w
    <3>4. Reads(s, d, From(d, x, y), Past(d, x, y), {}, w)
      <4>1. CASE d = "post"
        <5>1. /\ From(d, x, y) = x /\ From(d, x + 1, y - 1) = Ahead(d, x)
              /\ Past(d, x + 1, y - 1) = y /\ Past(d, x, y) = Ahead(d, y)
              /\ s[x] = Opens(d) /\ s[y] = Closes(d)
          BY <2>0, <2>2, <4>1 DEF From, Past, Ahead, Opens, Closes
        <5> QED
          BY <2>0, <3>3, <5>1, ReadsBraces
      <4>2. CASE d = "pre"
        <5>1. /\ From(d, x, y) = y /\ From(d, x + 1, y - 1) = Ahead(d, y)
              /\ Past(d, x + 1, y - 1) = x /\ Past(d, x, y) = Ahead(d, x)
              /\ s[y] = Opens(d) /\ s[x] = Closes(d)
          BY <2>0, <2>2, <4>2 DEF From, Past, Ahead, Opens, Closes
        <5> QED
          BY <2>0, <3>3, <5>1, ReadsBraces
      <4> QED
        BY <4>1, <4>2
    <3>5. Reads(s, d, From(d, x, y), Past(d, x, y), Surface(s, x, y), W[<<x, y>>])
      BY <2>2, <3>1, <3>4, Zenon DEF w
    <3> QED
      BY <3>5, ReadAsIs
  <2>3. CASE /\ Roots(s, x, y) # {}
             /\ \A k \in Roots(s, x, y) :
                  /\ k \in Int /\ s[k] \in {"+", "*"}
                  /\ Expression(s, E, x, k - 1) /\ Expression(s, E, k + 1, y)
                  /\ Surface(s, x, y) = Surface(s, x, k - 1) \cup {k} \cup Surface(s, k + 1, y)
                  /\ \A j \in Surface(s, x, k - 1) : priority(s[j]) >= priority(s[k])
                  /\ \A j \in Surface(s, k + 1, y) : priority(s[j]) > priority(s[k])
    <3> DEFINE k == CHOOSE k \in Roots(s, x, y) : TRUE
    <3>1. k \in Roots(s, x, y)
      BY <2>3
    <3>2. W[<<x, y>>] = Join(d, k, W[<<x, k - 1>>], W[<<k + 1, y>>])
      BY <2>0, <2>3 DEF WritesOf
    <3> HIDE DEF k
    <3>3. /\ k \in Int /\ s[k] \in {"+", "*"}
          /\ Expression(s, E, x, k - 1) /\ Expression(s, E, k + 1, y)
          /\ Surface(s, x, y) = Surface(s, x, k - 1) \cup {k} \cup Surface(s, k + 1, y)
          /\ \A j \in Surface(s, x, k - 1) : priority(s[j]) >= priority(s[k])
          /\ \A j \in Surface(s, k + 1, y) : priority(s[j]) > priority(s[k])
      BY <2>3, <3>1
    <3>4. /\ k - 1 \in 1..Len(s) /\ k + 1 \in 1..Len(s) /\ k \in 1..Len(s)
          /\ (k - 1) - x < y - x /\ y - (k + 1) < y - x
      <4>1. /\ k - 1 \in 1..Len(s) /\ x <= k - 1 /\ k + 1 \in 1..Len(s) /\ k + 1 <= y
        BY <3>3, ExpressionIs
      <4> QED
        BY <1>0, <2>0, <3>3, <4>1
    <3>5. <<x, k - 1>> \in ReadAs(s, d, W) /\ <<k + 1, y>> \in ReadAs(s, d, W)
      BY <1>1, <3>3, <3>4
    <3>6. Reads(s, d, From(d, x, y), Past(d, x, y), Surface(s, x, y),
                Join(d, k, W[<<x, k - 1>>], W[<<k + 1, y>>]))
      BY <1>0, <3>3, <3>4, <3>5, RootRead
    <3> QED
      BY <3>2, <3>6, ReadAsIs
  <2> QED
    BY <1>1, <2>1, <2>2, <2>3, RootDivides
<1>2. Inherits(s, E, ReadAs(s, d, W))
  BY <1>1 DEF Inherits
<1> QED
  BY <1>2, ExpressionInduction

-----------------------------------------------------------------------------
(* What is shown of a well-formed line *)

\* The scan of the whole line, from its start to its end.
LEMMA LineRead ==
  ASSUME NEW s \in Seq(Chars), WellFormed(s), NEW d \in {"pre", "post"}
  PROVE  Reaches(s, d, <<From(d, 1, Len(s)), <<>>, <<>>>>, <<Past(d, 1, Len(s)), <<>>, NotationOf(s, d)>>)
<1> DEFINE L == Len(s)
           a == From(d, 1, L)
           z == Past(d, 1, L)
           S == Surface(s, 1, L)
<1>0. L \in Nat
  OBVIOUS
<1>1. PICK E : Grammar(s, E) /\ E[<<1, L>>]
  BY <1>0, WellFormedIs
<1>2. 1 \in 1..L /\ L \in 1..L
  <2>1. s # <<>>
    BY <1>0, WellFormedIs
  <2>2. L # 0
    BY <2>1, EmptySeq
  <2> QED
    BY <1>0, <2>2
<1>3. PICK W : Writes(s, d, W) /\ W[<<1, L>>] = NotationOf(s, d)
  BY <1>0, NotationIs
<1>4. Line(s, E) /\ Expression(s, E, 1, L)
  BY <1>1, <1>2 DEF Line, Expression
<1>5. <<1, L>> \in ReadAs(s, d, W)
  BY <1>2, <1>3, <1>4, ExpressionRead
<1>6. Reads(s, d, a, z, S, NotationOf(s, d))
  BY <1>2, <1>3, <1>5, ReadAsIs
<1>7. z \in Int /\ z \notin 1..L
  BY <1>0 DEF Past
<1> HIDE DEF L, a, z, S
<1>8. <<>> \in Seq(Nat) /\ Ready(s, d, S, <<>>) /\ NotationOf(s, d) \in Seq(Nat)
  BY <1>6 DEF Ready, Reads
<1>9. Add(d, <<>>, NotationOf(s, d)) = NotationOf(s, d)
  BY <1>8, ConcatEmptySeq DEF Add
<1>10. PICK u \in Seq(Nat), v \in Seq(Nat) :
         /\ Reaches(s, d, <<a, <<>>, <<>>>>, <<z, u, v>>)
         /\ Drains(d, S, <<u, v>>, <<<<>>, NotationOf(s, d)>>)
  BY <1>6, <1>8, <1>9 DEF Reads
<1>11. PopsAll(s, d, z, S)
  BY <1>7 DEF PopsAll, Pops, L
<1>12. Reaches(s, d, <<z, u, v>>, <<z, <<>>, NotationOf(s, d)>>)
  BY <1>7, <1>10, <1>11, DrainsReaches
<1> QED
  BY <1>10, <1>12, ReachesThen DEF a, z, L

\* There is one way to go on, ...
LEMMA OneWay ==
  ASSUME NEW s, NEW d \in {"pre", "post"}, NEW n, NEW o, NEW r, NEW y, NEW z,
         Goes(s, d, n, o, r, y), Goes(s, d, n, o, r, z)
  PROVE  y = z
<1>1. CASE Pops(s, d, n, o)
  <2>1. ~(n \in 1..Len(s) /\ s[n] \in {"digit", Opens(d)})
    BY <1>1 DEF Pops, Opens, Closes, Operators
  <2>2. ~(n \in 1..Len(s) /\ s[n] = Closes(d) /\ s[Last(o)] = Opens(d))
    BY <1>1 DEF Pops, Opens, Closes, Operators
  <2>3. ~(/\ n \in 1..Len(s) /\ s[n] \in Operators
          /\ o # <<>> => Known(s[n]) /\ Known(s[Last(o)]) /\ ~Gives(d, s[n], s[Last(o)]))
    BY <1>1 DEF Pops, Opens, Closes, Operators
  <2> QED
    BY <1>1, <2>1, <2>2, <2>3 DEF Goes
<1>2. CASE ~Pops(s, d, n, o)
  <2>1. Opens(d) \in {"(", ")"} /\ Closes(d) \in {"(", ")"} /\ Opens(d) # Closes(d)
    BY DEF Opens, Closes
  <2>2. CASE s[n] = "digit"
    BY <1>2, <2>1, <2>2 DEF Goes, Operators
  <2>3. CASE s[n] = Opens(d)
    BY <1>2, <2>1, <2>3 DEF Goes, Operators
  <2>4. CASE s[n] = Closes(d)
    BY <1>2, <2>1, <2>4 DEF Goes, Operators
  <2>5. CASE s[n] \notin {"digit", Opens(d), Closes(d)}
    BY <1>2, <2>1, <2>5 DEF Goes, Operators
  <2> QED
    BY <2>2, <2>3, <2>4, <2>5
<1> QED
  BY <1>1, <1>2

\* ... so that whoever goes it comes nearer to where it leads, ...
LEMMA Onward ==
  ASSUME NEW s, NEW d \in {"pre", "post"}, NEW n, NEW o, NEW r, Point(n, o, r), NEW y \in Points,
         Goes(s, d, n, o, r, y), NEW m, m \notin 1..Len(s), NEW w,
         Reaches(s, d, <<n, o, r>>, <<m, <<>>, w>>)
  PROVE  Reaches(s, d, y, <<m, <<>>, w>>)
<1> DEFINE x == <<n, o, r>>
           f == <<m, <<>>, w>>
<1>1. SUFFICES ASSUME NEW X \in SUBSET Points, y \in X, GoesOn(s, d, X)
               PROVE  f \in X
  BY DEF Reaches
<1>2. x # f
  <2> SUFFICES ASSUME n = m, o = <<>> PROVE FALSE
    OBVIOUS
  <2> QED
    BY DEF Goes, Pops
<1>3. x \in Points
  BY PointIs
<1> DEFINE Y == X \cup {x}
<1>4. GoesOn(s, d, Y)
  <2> SUFFICES ASSUME NEW a \in Int, NEW b \in Seq(Nat), NEW c \in Seq(Nat), NEW z \in Points,
                      <<a, b, c>> \in Y, Goes(s, d, a, b, c, z)
               PROVE  z \in Y
    BY DEF GoesOn
  <2>1. CASE <<a, b, c>> \in X
    BY <1>1, <2>1 DEF GoesOn
  <2>2. CASE <<a, b, c>> = x
    <3>1. a = n /\ b = o /\ c = r
      BY <2>2
    <3>2. z = y
      BY <3>1, OneWay
    <3> QED
      BY <1>1, <3>2
  <2> QED
    BY <2>1, <2>2
<1>5. Y \in SUBSET Points /\ x \in Y
  BY <1>3
<1> HIDE DEF x, f
<1>6. f \in Y
  BY <1>4, <1>5, Zenon DEF Reaches, x, f
<1> QED
  BY <1>2, <1>6

\* ... and where there is none, it is there.
LEMMA NoWay ==
  ASSUME NEW s, NEW d, NEW n, NEW o, NEW r, Point(n, o, r), NEW f, Reaches(s, d, <<n, o, r>>, f),
         \A z : ~Goes(s, d, n, o, r, z)
  PROVE  f = <<n, o, r>>
<1> DEFINE X == {<<n, o, r>>}
<1>1. X \in SUBSET Points /\ <<n, o, r>> \in X
  BY PointIs
<1>2. GoesOn(s, d, X)
  <2> SUFFICES ASSUME NEW a \in Int, NEW b \in Seq(Nat), NEW c \in Seq(Nat), NEW z \in Points,
                      <<a, b, c>> \in X, Goes(s, d, a, b, c, z)
               PROVE  FALSE
    BY DEF GoesOn
  <2>1. a = n /\ b = o /\ c = r
    OBVIOUS
  <2> QED
    BY <2>1
<1>3. f \in X
  BY <1>1, <1>2, Zenon DEF Reaches
<1> QED
  BY <1>3

\* As long as a well-formed line is scanned, the scan is on its way to the
\* notation that it makes.
OnItsWay ==
  pc \in {"pre", "post"} /\ WellFormed(inorder) =>
    Reaches(inorder, pc, <<i, op, result>>,
            <<Past(pc, 1, Len(inorder)), <<>>, NotationOf(inorder, pc)>>)

RInv ==
  /\ IInv
  /\ OnItsWay
  /\ pc \in {"post", "show"} /\ WellFormed(inorder) => pre = Prefix(inorder)
  /\ pc = "show" /\ WellFormed(inorder) => result = Postfix(inorder)
  /\ pc = "undefined" => ~WellFormed(inorder)

LEMMA InitRight == Init => RInv
  BY InitInv DEF Init, RInv, OnItsWay

LEMMA PlacesPoint ==
  ASSUME NEW s \in Seq(Chars), NEW n \in 0..Len(s) + 1, NEW o \in Seq(1..Len(s)), NEW r \in Seq(1..Len(s))
  PROVE  Point(n, o, r)
<1>1. ASSUME NEW x \in Seq(1..Len(s)) PROVE x \in Seq(Nat)
  <2>1. Len(x) \in Nat /\ \A k \in 1..Len(x) : x[k] \in Nat
    OBVIOUS
  <2>2. x \in [1..Len(x) -> Nat]
    BY <2>1, LenProperties
  <2> QED
    BY <2>1, <2>2
<1> QED
  BY <1>1 DEF Point

LEMMA SeqOfPlaces == IInv => Point(i, op, result) /\ inorder \in Seq(Chars) /\ Len(inorder) \in Nat
  BY PlacesPoint DEF IInv, TypeOK, Places

\* A step of the scan.
LEMMA StepOnItsWay ==
  ASSUME RInv, IInv', pc \in {"pre", "post"}, UNCHANGED <<pc, inorder, pre>>,
         Goes(inorder, pc, i, op, result, <<i', op', result'>>)
  PROVE  RInv'
<1>1. Point(i, op, result) /\ Len(inorder) \in Nat
  BY SeqOfPlaces DEF RInv
<1>2. Point(i', op', result')
  BY PlacesPoint DEF IInv, TypeOK, Places
<1> DEFINE y == <<i', op', result'>>
           m == Past(pc, 1, Len(inorder))
           w == NotationOf(inorder, pc)
<1>3. y \in Points
  BY <1>2, PointIs
<1>4. m \notin 1..Len(inorder)
  BY <1>1 DEF Past
<1>5. ASSUME WellFormed(inorder) PROVE Reaches(inorder, pc, y, <<m, <<>>, w>>)
  <2>1. Reaches(inorder, pc, <<i, op, result>>, <<m, <<>>, w>>)
    BY <1>5 DEF RInv, OnItsWay
  <2> HIDE DEF y, m, w
  <2>2. Goes(inorder, pc, i, op, result, y)
    BY DEF y
  <2> QED
    BY <1>1, <1>3, <1>4, <2>1, <2>2, Onward
<1>6. OnItsWay'
  BY <1>5 DEF OnItsWay
<1> QED
  BY <1>6 DEF RInv

\* Each step of the code that scans or pops is one.
LEMMA IsStep ==
  ASSUME IInv, \/ Operand \/ LeftBrace \/ RightBracePops \/ RightBrace
               \/ OperatorPops \/ Operator \/ PopRest
  PROVE  /\ pc \in {"pre", "post"} /\ UNCHANGED <<pc, inorder, pre>>
         /\ Goes(inorder, pc, i, op, result, <<i', op', result'>>)
<1>1. pc \in {"pre", "post"} /\ UNCHANGED <<pc, inorder, pre>>
  BY DEF Operand, LeftBrace, RightBracePops, RightBrace, OperatorPops, Operator, PopRest, Scanning, Scanned
<1>2. Left = Opens(pc) /\ Right = Closes(pc)
  BY <1>1 DEF Left, Right, Opens, Closes
<1>3. Next_i => i' = Ahead(pc, i)
  BY DEF Next_i, Ahead
<1>4. \A k : Emit(k) => result' = Put(pc, result, k)
  BY DEF Emit, Put
<1>5. Yields <=> Gives(pc, Char, Top)
  BY <1>1 DEF Yields, Gives
<1> HIDE DEF Left, Right, Next_i, Emit
<1>6. CASE Operand
  BY <1>3, <1>4, <1>6 DEF Operand, Goes, Scanning, Char
<1>7. CASE LeftBrace
  BY <1>2, <1>3, <1>7 DEF LeftBrace, Goes, Scanning, Char, Push
<1>8. CASE RightBracePops
  BY <1>2, <1>4, <1>8 DEF RightBracePops, Goes, Pops, Scanning, Char, Top, Pop
<1>9. CASE RightBrace
  BY <1>2, <1>3, <1>9 DEF RightBrace, Goes, Scanning, Char, Top, Pop
<1>10. CASE OperatorPops
  BY <1>4, <1>5, <1>10 DEF OperatorPops, Goes, Pops, Scanning, Char, Top, Pop
<1>11. CASE Operator
  BY <1>3, <1>5, <1>11 DEF Operator, Goes, Scanning, Char, Top, Push
<1>12. CASE PopRest
  BY <1>4, <1>12 DEF PopRest, Goes, Pops, Scanned, Pop
<1> QED
  BY <1>1, <1>6, <1>7, <1>8, <1>9, <1>10, <1>11, <1>12

\* Where a pass is over the result is the notation.
LEMMA PassOver ==
  ASSUME RInv, Scanned, op = <<>>, WellFormed(inorder)
  PROVE  result = NotationOf(inorder, pc)
<1>1. Point(i, op, result)
  BY SeqOfPlaces DEF RInv
<1>2. \A z : ~Goes(inorder, pc, i, op, result, z)
  BY DEF Scanned, Goes, Pops
<1>3. Reaches(inorder, pc, <<i, op, result>>,
              <<Past(pc, 1, Len(inorder)), <<>>, NotationOf(inorder, pc)>>)
  BY DEF RInv, OnItsWay, Scanned
<1>4. <<Past(pc, 1, Len(inorder)), <<>>, NotationOf(inorder, pc)>> = <<i, op, result>>
  BY <1>1, <1>2, <1>3, NoWay
<1> QED
  BY <1>4

LEMMA StepRight == RInv /\ [Next]_vars => RInv'
<1> SUFFICES ASSUME RInv, [Next]_vars PROVE RInv'
  OBVIOUS
<1>0. IInv /\ IInv'
  BY StepInv DEF RInv
<1>1. CASE ReadLine
  <2>1. pc' = "pre" /\ i' = Len(inorder') /\ op' = <<>> /\ result' = <<>>
    BY <1>0, <1>1 DEF ReadLine, IInv, Clear
  <2>2. inorder' \in Seq(Chars)
    BY <1>0 DEF IInv, TypeOK
  <2>3. From("pre", 1, Len(inorder')) = i'
    BY <2>1 DEF From
  <2>4. WellFormed(inorder') =>
          Reaches(inorder', "pre", <<i', <<>>, <<>>>>,
                  <<Past("pre", 1, Len(inorder')), <<>>, NotationOf(inorder', "pre")>>)
    BY <2>2, <2>3, LineRead
  <2>5. OnItsWay'
    BY <2>1, <2>4 DEF OnItsWay
  <2> QED
    BY <1>0, <2>1, <2>5 DEF RInv
<1>2. CASE EndOfInput
  BY <1>0, <1>2 DEF EndOfInput, RInv, OnItsWay
<1>3. CASE \/ Operand \/ LeftBrace \/ RightBracePops \/ RightBrace
           \/ OperatorPops \/ Operator \/ PopRest
  BY <1>0, <1>3, IsStep, StepOnItsWay
<1>4. CASE Undefined
  <2>1. pc \in {"pre", "post"} /\ i \in 1..Len(inorder) /\ pc' = "undefined" /\ inorder' = inorder
    BY <1>4 DEF Undefined, Scanning
  <2>2. ASSUME WellFormed(inorder) PROVE FALSE
    <3>1. Point(i, op, result) /\ Len(inorder) \in Nat
      BY <1>0, SeqOfPlaces
    <3>2. \A z : ~Goes(inorder, pc, i, op, result, z)
      <4>1. Right = Closes(pc) /\ Right \in {"(", ")"} /\ Right # Opens(pc) /\ Opens(pc) \in {"(", ")"}
        BY <2>1 DEF Right, Closes, Opens
      <4>2. CASE Char = Right /\ op = <<>>
        BY <4>1, <4>2 DEF Goes, Pops, Char, Operators
      <4>3. CASE Char \in Operators /\ op # <<>> /\ ~(Known(Char) /\ Known(Top))
        BY <2>1, <4>1, <4>3 DEF Goes, Pops, Char, Top, Operators
      <4> QED
        BY <1>4, <4>2, <4>3 DEF Undefined
    <3>3. Reaches(inorder, pc, <<i, op, result>>,
                  <<Past(pc, 1, Len(inorder)), <<>>, NotationOf(inorder, pc)>>)
      BY <2>1, <2>2 DEF RInv, OnItsWay
    <3>4. <<Past(pc, 1, Len(inorder)), <<>>, NotationOf(inorder, pc)>> = <<i, op, result>>
      BY <3>1, <3>2, <3>3, NoWay
    <3> QED
      BY <2>1, <3>1, <3>4 DEF Past
  <2> QED
    BY <1>0, <2>1, <2>2 DEF RInv, OnItsWay
<1>5. CASE PreorderReturns
  <2>1. /\ pc = "pre" /\ pc' = "post" /\ inorder' = inorder /\ i' = 1 /\ op' = <<>> /\ result' = <<>>
        /\ pre' = result /\ Scanned /\ op = <<>>
    BY <1>5 DEF PreorderReturns
  <2>2. inorder \in Seq(Chars)
    BY <1>0, SeqOfPlaces
  <2>3. WellFormed(inorder) => pre' = Prefix(inorder)
    BY <2>1, PassOver DEF NotationOf
  <2>4. From("post", 1, Len(inorder)) = 1
    BY DEF From
  <2>5. WellFormed(inorder) =>
          Reaches(inorder, "post", <<1, <<>>, <<>>>>,
                  <<Past("post", 1, Len(inorder)), <<>>, NotationOf(inorder, "post")>>)
    BY <2>2, <2>4, LineRead
  <2>6. OnItsWay'
    BY <2>1, <2>5 DEF OnItsWay
  <2> QED
    BY <1>0, <2>1, <2>3, <2>6 DEF RInv
<1>6. CASE PostorderReturns
  <2>1. /\ pc = "post" /\ pc' = "show" /\ Scanned /\ op = <<>>
        /\ UNCHANGED <<inorder, result, pre>>
    BY <1>6 DEF PostorderReturns
  <2>2. WellFormed(inorder) => result = Postfix(inorder)
    BY <2>1, PassOver DEF NotationOf
  <2> QED
    BY <1>0, <2>1, <2>2 DEF RInv, OnItsWay
<1>7. CASE Show
  BY <1>0, <1>7 DEF Show, RInv, OnItsWay
<1>8. CASE UNCHANGED vars
  BY <1>0, <1>8 DEF vars, RInv, OnItsWay
<1> QED
  BY <1>1, <1>2, <1>3, <1>4, <1>5, <1>6, <1>7, <1>8 DEF Next

\* A well-formed line is never undefined, and what is shown of it is its prefix
\* and its postfix notation.
THEOREM ShowsRightNotation == Spec => []RightNotation
<1>1. RInv => RightNotation
  BY DEF RInv, RightNotation
<1> QED
  BY <1>1, InitRight, StepRight, PTL DEF Spec

-----------------------------------------------------------------------------
(* The timer: times of an hour *)

\* Minutes are as many seconds apart.
LEMMA MinutesApart ==
  ASSUME NEW a \in Nat, NEW b \in Nat
  PROVE  /\ a * SecBase \in Nat
         /\ a < b => a * SecBase + SecBase <= b * SecBase
<1>0. SecBase \in Nat
  BY CountdownAssumption
<1>1. a * SecBase \in Nat
  BY <1>0, SMT
<1>2. ASSUME a < b PROVE a * SecBase + SecBase <= b * SecBase
  <2>1. b - a - 1 \in Nat /\ b = (a + 1) + (b - a - 1)
    BY <1>2
  <2>2. (b - a - 1) * SecBase \in Nat
    BY <1>0, <2>1, SMT
  <2>3. b * SecBase = (a + 1) * SecBase + (b - a - 1) * SecBase
    BY <1>0, <2>1, SMT
  <2>4. (a + 1) * SecBase = a * SecBase + SecBase
    BY <1>0, SMT
  <2> QED
    BY <1>0, <1>1, <2>2, <2>3, <2>4
<1> QED
  BY <1>1, <1>2

\* The bases, and the hour.
LEMMA HourIs ==
  /\ SecBase \in Nat /\ SecBase > 3 /\ SecBase % 2 = 0
  /\ MinBase \in Nat /\ MinBase > 1
  /\ Hour \in Nat /\ Hour = MinBase * SecBase /\ Hour >= 2 * SecBase
<1>1. /\ SecBase \in Nat /\ SecBase > 3 /\ SecBase % 2 = 0
      /\ MinBase \in Nat /\ MinBase > 1
  BY CountdownAssumption
<1>2. MinBase * SecBase \in Nat /\ 1 * SecBase + SecBase <= MinBase * SecBase
  BY <1>1, MinutesApart
<1>3. Hour = MinBase * SecBase
  BY <1>1, SMT DEF Hour
<1> QED
  BY <1>1, <1>2, <1>3

\* What a time is in seconds.
LEMMA TimeIs ==
  ASSUME NEW t \in Times
  PROVE  /\ t.min \in 0..MinBase - 1 /\ t.sec \in 0..SecBase - 1
         /\ t.min * SecBase \in Nat /\ t.min * SecBase + SecBase <= Hour
         /\ Seconds(t) = t.min * SecBase + t.sec
         /\ Seconds(t) \in 0..Hour - 1
<1>1. t.min \in 0..MinBase - 1 /\ t.sec \in 0..SecBase - 1
  BY DEF Times
<1>2. t.min * SecBase \in Nat /\ t.min * SecBase + SecBase <= MinBase * SecBase
  BY <1>1, HourIs, MinutesApart
<1>3. Seconds(t) = t.min * SecBase + t.sec
  BY DEF Seconds
<1> QED
  BY <1>1, <1>2, <1>3, HourIs

\* get_cur_time() is a time, and it is the time on the clock.
LEMMA CurTimeIs ==
  ASSUME NEW w \in 0..Hour - 1
  PROVE  CurTime(w) \in Times /\ Seconds(CurTime(w)) = w
<1> DEFINE m == w \div SecBase
           s == w % SecBase
<1>1. SecBase \in Nat \ {0} /\ w \in Nat
  BY HourIs
<1>2. m \in Nat /\ s \in 0..SecBase - 1 /\ w = SecBase * m + s
  BY <1>1, SMT
<1> HIDE DEF m, s
<1>3. SecBase * m = m * SecBase
  BY <1>1, <1>2, SMT
<1>4. m < MinBase
  <2> SUFFICES ASSUME m >= MinBase PROVE FALSE
    BY <1>2, HourIs
  <2>1. m = MinBase \/ MinBase < m
    BY <1>2, HourIs
  <2>2. m * SecBase >= MinBase * SecBase
    BY <1>2, <2>1, HourIs, MinutesApart
  <2>3. m * SecBase \in Nat
    BY <1>2, MinutesApart
  <2> QED
    BY <1>1, <1>2, <1>3, <2>2, <2>3, HourIs
<1>5. CurTime(w) = [min |-> m, sec |-> s]
  BY DEF CurTime, m, s
<1>6. CurTime(w) \in Times
  BY <1>2, <1>4, <1>5, HourIs DEF Times
<1> QED
  BY <1>2, <1>3, <1>5, <1>6 DEF Seconds

\* time_add() adds within the hour.
LEMMA AddIs ==
  ASSUME NEW a \in Times, NEW b \in Times
  PROVE  LET c == time_add(a, b) IN
         /\ c \in Times
         /\ \/ Seconds(c) = Seconds(a) + Seconds(b)
            \/ Seconds(c) = Seconds(a) + Seconds(b) - Hour
<1> DEFINE carry == IF a.sec + b.sec >= SecBase THEN 1 ELSE 0
           s == a.sec + b.sec - carry * SecBase
           m == a.min + b.min + carry
           n == IF m >= MinBase THEN m - MinBase ELSE m
           c == time_add(a, b)
<1>1. /\ a.min \in 0..MinBase - 1 /\ a.sec \in 0..SecBase - 1
      /\ b.min \in 0..MinBase - 1 /\ b.sec \in 0..SecBase - 1
  BY TimeIs
<1>2. carry \in {0, 1} /\ s \in 0..SecBase - 1 /\ s = a.sec + b.sec - (IF carry = 1 THEN SecBase ELSE 0)
  BY <1>1, HourIs
<1> HIDE DEF carry, s
<1>3. m \in Nat /\ n \in 0..MinBase - 1 /\ (n = m \/ n = m - MinBase)
  BY <1>1, <1>2, HourIs
<1>4. m * SecBase = a.min * SecBase + b.min * SecBase + (IF carry = 1 THEN SecBase ELSE 0)
  <2>1. CASE carry = 0
    <3>1. m = a.min + b.min
      BY <1>1, <2>1
    <3>2. (a.min + b.min) * SecBase = a.min * SecBase + b.min * SecBase
      BY <1>1, HourIs, SMT
    <3>3. a.min * SecBase \in Nat /\ b.min * SecBase \in Nat
      BY TimeIs
    <3> HIDE DEF m
    <3> QED
      BY <2>1, <3>1, <3>2, <3>3
  <2>2. CASE carry = 1
    <3>1. m = a.min + b.min + 1
      BY <2>2
    <3>2. (a.min + b.min + 1) * SecBase = a.min * SecBase + b.min * SecBase + SecBase
      BY <1>1, HourIs, SMT
    <3> HIDE DEF m
    <3> QED
      BY <2>2, <3>1, <3>2
  <2> QED
    BY <1>2, <2>1, <2>2
<1> HIDE DEF m
<1>5. n * SecBase = m * SecBase \/ n * SecBase = m * SecBase - Hour
  <2>1. (m - MinBase) * SecBase = m * SecBase - MinBase * SecBase
    BY <1>3, HourIs, SMT
  <2> QED
    BY <1>3, <2>1, HourIs
<1>6. c = [min |-> n, sec |-> s]
  BY DEF time_add, carry, s, m
<1> HIDE DEF n
<1>7. c \in Times
  BY <1>2, <1>3, <1>6 DEF Times
<1>8. Seconds(c) = n * SecBase + s
  BY <1>6 DEF Seconds
<1>9. /\ Seconds(a) = a.min * SecBase + a.sec /\ a.min * SecBase \in Nat
      /\ Seconds(b) = b.min * SecBase + b.sec /\ b.min * SecBase \in Nat
  BY TimeIs
<1>10. m * SecBase \in Nat /\ n * SecBase \in Nat
  BY <1>3, MinutesApart
<1> HIDE DEF c
<1>11. \/ Seconds(c) = Seconds(a) + Seconds(b)
       \/ Seconds(c) = Seconds(a) + Seconds(b) - Hour
  BY <1>1, <1>2, <1>4, <1>5, <1>8, <1>9, <1>10, HourIs
<1> QED
  BY <1>7, <1>11 DEF c

\* time_sub() subtracts within the hour.
LEMMA SubIs ==
  ASSUME NEW a \in Times, NEW b \in Times
  PROVE  LET c == time_sub(a, b) IN
         /\ c \in Times
         /\ \/ Seconds(c) = Seconds(a) - Seconds(b)
            \/ Seconds(c) = Seconds(a) - Seconds(b) + Hour
<1> DEFINE borrow == IF a.sec - b.sec < 0 THEN 1 ELSE 0
           s == a.sec - b.sec + borrow * SecBase
           m == a.min - b.min - borrow
           n == IF m < 0 THEN m + MinBase ELSE m
           c == time_sub(a, b)
<1>1. /\ a.min \in 0..MinBase - 1 /\ a.sec \in 0..SecBase - 1
      /\ b.min \in 0..MinBase - 1 /\ b.sec \in 0..SecBase - 1
  BY TimeIs
<1>2. borrow \in {0, 1} /\ s \in 0..SecBase - 1 /\ s = a.sec - b.sec + (IF borrow = 1 THEN SecBase ELSE 0)
  BY <1>1, HourIs
<1> HIDE DEF borrow, s
<1>3. m \in Int /\ n \in 0..MinBase - 1 /\ (n = m \/ n = m + MinBase)
  BY <1>1, <1>2, HourIs
<1>4. m * SecBase = a.min * SecBase - b.min * SecBase - (IF borrow = 1 THEN SecBase ELSE 0)
  <2>1. CASE borrow = 0
    <3>1. m = a.min - b.min
      BY <1>1, <2>1
    <3>2. (a.min - b.min) * SecBase = a.min * SecBase - b.min * SecBase
      BY <1>1, HourIs, SMT
    <3>3. a.min * SecBase \in Nat /\ b.min * SecBase \in Nat
      BY TimeIs
    <3> HIDE DEF m
    <3> QED
      BY <2>1, <3>1, <3>2, <3>3
  <2>2. CASE borrow = 1
    <3>1. m = a.min - b.min - 1
      BY <2>2
    <3>2. (a.min - b.min - 1) * SecBase = a.min * SecBase - b.min * SecBase - SecBase
      BY <1>1, HourIs, SMT
    <3> HIDE DEF m
    <3> QED
      BY <2>2, <3>1, <3>2
  <2> QED
    BY <1>2, <2>1, <2>2
<1> HIDE DEF m
<1>5. n * SecBase = m * SecBase \/ n * SecBase = m * SecBase + Hour
  <2>1. (m + MinBase) * SecBase = m * SecBase + MinBase * SecBase
    BY <1>3, HourIs, SMT
  <2> QED
    BY <1>3, <2>1, HourIs
<1>6. c = [min |-> n, sec |-> s]
  BY DEF time_sub, borrow, s, m
<1> HIDE DEF n
<1>7. c \in Times
  BY <1>2, <1>3, <1>6 DEF Times
<1>8. Seconds(c) = n * SecBase + s
  BY <1>6 DEF Seconds
<1>9. /\ Seconds(a) = a.min * SecBase + a.sec /\ a.min * SecBase \in Nat
      /\ Seconds(b) = b.min * SecBase + b.sec /\ b.min * SecBase \in Nat
  BY TimeIs
<1>10. n * SecBase \in Nat
  BY <1>3, MinutesApart
<1> DEFINE A == a.min * SecBase
           B == b.min * SecBase
           M == m * SecBase
           N == n * SecBase
<1>11. /\ M = A - B - (IF borrow = 1 THEN SecBase ELSE 0)
       /\ (N = M \/ N = M + Hour)
       /\ A \in Nat /\ B \in Nat /\ N \in Nat
       /\ Seconds(c) = N + s /\ Seconds(a) = A + a.sec /\ Seconds(b) = B + b.sec
  BY <1>4, <1>5, <1>8, <1>9, <1>10
<1> HIDE DEF c, A, B, M, N
<1>12. \/ Seconds(c) = Seconds(a) - Seconds(b)
       \/ Seconds(c) = Seconds(a) - Seconds(b) + Hour
  <2>1. CASE borrow = 0
    BY <1>1, <1>2, <1>11, <2>1, HourIs
  <2>2. CASE borrow = 1
    <3>1. s = a.sec - b.sec + SecBase /\ M = A - B - SecBase
      BY <1>2, <1>11, <2>2
    <3>2. SecBase \in Nat /\ Hour \in Nat /\ a.sec \in Int /\ b.sec \in Int
      BY <1>1, HourIs
    <3>3. M + s = A + a.sec - (B + b.sec)
      BY <1>11, <3>1, <3>2
    <3>4. M \in Int /\ s \in Int
      BY <1>11, <3>1, <3>2
    <3> QED
      BY <1>11, <3>2, <3>3, <3>4
  <2> QED
    BY <1>2, <2>1, <2>2
<1> QED
  BY <1>7, <1>12 DEF c

\* What the minutes and seconds of a time b say of how far it is from a.
LEMMA FarApart ==
  ASSUME NEW a \in Times, NEW b \in Times
  PROVE  LET left == Seconds(time_sub(a, b)) IN
         /\ left \in 0..Hour - 1
         /\ left <= a.sec => b.min = a.min /\ b.sec = a.sec - left
         /\ b.min = a.min /\ b.sec <= a.sec => left = a.sec - b.sec
         /\ b.min = a.min /\ b.sec > a.sec => left = Hour - (b.sec - a.sec)
         /\ \A x \in 1..SecBase : left = Hour - x =>
              IF a.sec + x < SecBase THEN b.min = a.min /\ b.sec = a.sec + x ELSE b.min # a.min
<1> DEFINE left == Seconds(time_sub(a, b))
<1>1. /\ left \in 0..Hour - 1
      /\ left = Seconds(a) - Seconds(b) \/ left = Seconds(a) - Seconds(b) + Hour
  <2>1. time_sub(a, b) \in Times
    BY SubIs
  <2> QED
    BY <2>1, SubIs, TimeIs
<1> DEFINE A == a.min * SecBase
           B == b.min * SecBase
<1>2. /\ a.min \in 0..MinBase - 1 /\ a.sec \in 0..SecBase - 1 /\ A \in Nat /\ A + SecBase <= Hour
      /\ b.min \in 0..MinBase - 1 /\ b.sec \in 0..SecBase - 1 /\ B \in Nat /\ B + SecBase <= Hour
      /\ Seconds(a) = A + a.sec /\ Seconds(b) = B + b.sec
  BY TimeIs
<1>3. \/ a.min = b.min /\ A = B
      \/ a.min # b.min /\ (A + SecBase <= B \/ B + SecBase <= A)
  <2>0. a.min \in Nat /\ b.min \in Nat
    BY <1>2, HourIs
  <2>1. a.min < b.min => A + SecBase <= B
    BY <2>0, MinutesApart
  <2>2. b.min < a.min => B + SecBase <= A
    BY <2>0, MinutesApart
  <2>3. a.min = b.min => A = B
    OBVIOUS
  <2> HIDE DEF A, B
  <2> QED
    BY <2>0, <2>1, <2>2, <2>3
<1> HIDE DEF left, A, B
<1>4. left = (A + a.sec) - (B + b.sec) \/ left = (A + a.sec) - (B + b.sec) + Hour
  BY <1>1, <1>2
<1>5. left <= a.sec => b.min = a.min /\ b.sec = a.sec - left
  BY <1>1, <1>2, <1>3, <1>4, HourIs
<1>6. b.min = a.min /\ b.sec <= a.sec => left = a.sec - b.sec
  BY <1>1, <1>2, <1>3, <1>4, HourIs
<1>7. b.min = a.min /\ b.sec > a.sec => left = Hour - (b.sec - a.sec)
  BY <1>1, <1>2, <1>3, <1>4, HourIs
<1>8. ASSUME NEW x \in 1..SecBase, left = Hour - x
      PROVE  IF a.sec + x < SecBase THEN b.min = a.min /\ b.sec = a.sec + x ELSE b.min # a.min
  BY <1>1, <1>2, <1>3, <1>4, <1>8, HourIs
<1> QED
  BY <1>1, <1>5, <1>6, <1>7, <1>8 DEF left

\* A number is its remainder and a number of whole parts.
LEMMA WholeAndRest ==
  ASSUME NEW h \in Nat \ {0}, NEW w \in Nat
  PROVE  w % h \in 0..h - 1 /\ \E r \in Nat : w = (w % h) + r * h
<1> DEFINE d == w \div h
<1>1. d \in Nat /\ w % h \in 0..h - 1 /\ w = h * d + (w % h)
  BY SMT
<1> HIDE DEF d
<1>2. h * d = d * h
  BY <1>1, SMT
<1>3. d * h \in Nat
  BY <1>1, SMT
<1>4. w = (w % h) + d * h
  BY <1>1, <1>2, <1>3
<1> QED
  BY <1>1, <1>4

\* A number of hours in seconds.
LEMMA Hours ==
  ASSUME NEW a \in Int, NEW b \in Int
  PROVE  /\ a * Hour \in Int /\ b * Hour \in Int
         /\ (a + b) * Hour = a * Hour + b * Hour
         /\ (a - b) * Hour = a * Hour - b * Hour
         /\ a < b => a * Hour + Hour <= b * Hour
         /\ a <= b => a * Hour <= b * Hour
<1>0. Hour \in Nat
  BY HourIs
<1>1. a * Hour \in Int /\ b * Hour \in Int
  BY <1>0, SMT
<1>2. (a + b) * Hour = a * Hour + b * Hour /\ (a - b) * Hour = a * Hour - b * Hour
  BY <1>0, SMT
<1>3. ASSUME a < b PROVE a * Hour + Hour <= b * Hour
  <2>1. b - a - 1 \in Nat /\ b = (a + 1) + (b - a - 1)
    BY <1>3
  <2>2. (b - a - 1) * Hour \in Nat
    BY <1>0, <2>1, SMT
  <2>3. b * Hour = (a + 1) * Hour + (b - a - 1) * Hour
    BY <1>0, <2>1, SMT
  <2>4. (a + 1) * Hour = a * Hour + Hour
    BY <1>0, SMT
  <2> QED
    BY <1>0, <1>1, <2>2, <2>3, <2>4
<1>4. ASSUME a <= b PROVE a * Hour <= b * Hour
  <2>1. CASE a = b
    BY <1>1, <2>1
  <2>2. CASE a < b
    BY <1>0, <1>1, <1>3, <2>2
  <2> QED
    BY <1>4, <2>1, <2>2
<1> QED
  BY <1>1, <1>2, <1>3, <1>4

\* Minutes that are too far apart for the seconds are the same minute.
LEMMA SameMinute ==
  ASSUME NEW S \in Nat, NEW A \in Nat, NEW B \in Nat, NEW am \in Nat, NEW bm \in Nat,
         NEW sa \in 0..S - 1, NEW sb \in 0..S - 1,
         am < bm => A + S <= B, bm < am => B + S <= A, am = bm => A = B, A + sa = B + sb
  PROVE  am = bm /\ sa = sb
<1>1. am = bm
  OBVIOUS
<1> QED
  BY <1>1

\* A time is known by its seconds of the hour; its minute and its second are
\* their quotient and their remainder.
LEMMA MinSecIs ==
  ASSUME NEW t \in Times
  PROVE  /\ \A u \in Times : Seconds(u) = Seconds(t) => u = t
         /\ Seconds(t) \div SecBase = t.min
         /\ Seconds(t) % SecBase = t.sec
<1>1. ASSUME NEW a \in Times, NEW b \in Times, Seconds(a) = Seconds(b) PROVE a = b
  <2> DEFINE A == a.min * SecBase
             B == b.min * SecBase
  <2>1. /\ a.min \in Nat /\ a.sec \in 0..SecBase - 1 /\ A \in Nat /\ Seconds(a) = A + a.sec
        /\ b.min \in Nat /\ b.sec \in 0..SecBase - 1 /\ B \in Nat /\ Seconds(b) = B + b.sec
    BY TimeIs, HourIs
  <2>2. (a.min < b.min => A + SecBase <= B) /\ (b.min < a.min => B + SecBase <= A)
    BY <2>1, MinutesApart
  <2> DEFINE am == a.min
             bm == b.min
             sa == a.sec
             sb == b.sec
  <2>3. A + sa = B + sb /\ SecBase \in Nat
    BY <1>1, <2>1, HourIs
  <2>4. am \in Nat /\ bm \in Nat /\ sa \in 0..SecBase - 1 /\ sb \in 0..SecBase - 1
    BY <2>1
  <2>5. am = bm => A = B
    OBVIOUS
  <2> HIDE DEF A, B, am, bm, sa, sb
  <2>6. am = bm /\ sa = sb
    BY <2>1, <2>2, <2>3, <2>4, <2>5, SameMinute DEF am, bm
  <2> QED
    BY <2>6 DEF Times, am, bm, sa, sb
<1> DEFINE w == Seconds(t)
<1>2. w \in 0..Hour - 1
  BY TimeIs
<1>3. CurTime(w) \in Times /\ Seconds(CurTime(w)) = w
  BY <1>2, CurTimeIs
<1>4. CurTime(w) = t
  BY <1>1, <1>3
<1> QED
  BY <1>1, <1>4 DEF CurTime

Early(t, d) == d \div SecBase \in {0, MinBase - 1} /\ t.sec < d % SecBase

\* In the target's minute and not an hour late, the time left is in it too,
\* unless the duration was all but one of the minutes of an hour.
LEMMA InLastMinute ==
  ASSUME NEW t \in Times, NEW c \in Times, NEW d \in 0..Hour - 1, NEW l \in Nat,
         l + Seconds(time_sub(t, c)) = d, c.min = t.min
  PROVE  Early(t, d) \/ Seconds(time_sub(t, c)) <= t.sec
<1> DEFINE left == Seconds(time_sub(t, c))
<1>0. /\ t.sec \in 0..SecBase - 1 /\ c.sec \in 0..SecBase - 1
      /\ SecBase \in Nat /\ Hour \in Nat
  BY TimeIs, HourIs
<1>1. CASE c.sec <= t.sec
  <2>1. left = t.sec - c.sec
    BY <1>1, FarApart
  <2> HIDE DEF left
  <2>2. left <= t.sec
    BY <1>0, <2>1
  <2> QED
    BY <2>2 DEF left
<1>2. CASE c.sec > t.sec
  <2>1. left = Hour - (c.sec - t.sec)
    BY <1>2, FarApart
  <2> HIDE DEF left
  <2>2. d = l + left
    BY DEF left
  <2>3. MinBase - 1 \in 0..MinBase - 1 /\ MinBase - 1 \in Nat
    BY HourIs
  <2>4. (MinBase - 1) * SecBase = Hour - SecBase
    <3>1. (MinBase - 1) * SecBase = MinBase * SecBase - SecBase
      BY HourIs, SMT
    <3> QED
      BY <3>1, HourIs
  <2> DEFINE s == d - (Hour - SecBase)
             u == [min |-> MinBase - 1, sec |-> s]
  <2>5. s \in 0..SecBase - 1 /\ s > t.sec
    BY <1>0, <1>2, <2>1, <2>2
  <2>6. u \in Times /\ u.min = MinBase - 1 /\ u.sec = s
    BY <2>3, <2>5 DEF Times
  <2>7. Seconds(u) = Hour - SecBase + s
    BY <2>4, <2>6 DEF Seconds
  <2>8. Seconds(u) = d
    BY <1>0, <2>7
  <2> HIDE DEF u, s
  <2>9. d \div SecBase = MinBase - 1 /\ d % SecBase = s
    BY <2>6, <2>8, MinSecIs
  <2> QED
    BY <2>5, <2>9 DEF Early
<1> QED
  BY <1>0, <1>1, <1>2

-----------------------------------------------------------------------------
(* The timer: from one look at the clock to the next *)

\* A sum of less than an hour and some hours.
LEMMA WholeHours ==
  ASSUME NEW d \in 0..Hour - 1, NEW n \in Nat, NEW j \in Int, n = d + j * Hour
  PROVE  j \in Nat
<1> SUFFICES ASSUME j < 0 PROVE FALSE
  OBVIOUS
<1>1. Hour \in Nat /\ 0 * Hour = 0 /\ j * Hour \in Int
  BY HourIs, Hours
<1>2. j * Hour + Hour <= 0 * Hour
  BY Hours
<1> DEFINE J == j * Hour
<1>3. n = d + J
  OBVIOUS
<1> HIDE DEF J
<1> QED
  BY <1>1, <1>2, <1>3 DEF J

\* Three numbers of hours, and one more or less.
LEMMA HoursSum ==
  ASSUME NEW k \in Nat, NEW q \in Nat, NEW r \in Nat
  PROVE  /\ k * Hour \in Int /\ q * Hour \in Int /\ r * Hour \in Int
         /\ (k + q + r) * Hour = k * Hour + q * Hour + r * Hour
         /\ (k + q + r + 1) * Hour = k * Hour + q * Hour + r * Hour + Hour
         /\ (k + q + r - 1) * Hour = k * Hour + q * Hour + r * Hour - Hour
<1>0. Hour \in Nat /\ 1 * Hour = Hour
  BY HourIs
<1>1. k \in Int /\ q \in Int /\ r \in Int /\ k + q \in Int /\ k + q + r \in Int
  OBVIOUS
<1>2. k * Hour \in Int /\ q * Hour \in Int /\ (k + q) * Hour = k * Hour + q * Hour
  BY <1>1, Hours
<1>3. r * Hour \in Int /\ ((k + q) + r) * Hour = (k + q) * Hour + r * Hour
  BY <1>1, Hours
<1> DEFINE m == k + q + r
<1> HIDE DEF m
<1>4. (m + 1) * Hour = m * Hour + 1 * Hour
  BY <1>1, Hours DEF m
<1>5. (m - 1) * Hour = m * Hour - 1 * Hour
  BY <1>1, Hours DEF m
<1> QED
  BY <1>0, <1>2, <1>3, <1>4, <1>5 DEF m

\* Two looks: k hours, then k2, since the target; o seconds, then o2, too much;
\* s seconds shown before the turn that ends e2 seconds after the start.
Between(d, k, k2, o, o2, s, e2, left2) ==
  /\ k <= o /\ o <= o2
  /\ e2 + left2 = d + k2 * Hour
  /\ e2 <= d + k * Hour - s + 2 + (o2 - o)

\* The second of them finds that the time is not over; or sleeps drawn out
\* since the first account for the hours missed; or it is over by one second or
\* two. And an hour is missed only by more than what was too much.
Found(d, k, k2, o, o2, s, e2, left2) ==
  /\ \/ e2 <= d + k * Hour /\ k2 <= k
     \/ k2 <= o2
     \/ e2 > d /\ \E x \in {1, 2} : left2 = Hour - x /\ x + s <= 2
  /\ \/ e2 <= d + k * Hour /\ k2 <= k
     \/ \E x \in 1..2 + (o2 - o) :
          e2 = d + k * Hour + x /\ (x < Hour => k2 = k + 1 /\ left2 = Hour - x)

LEMMA WhatALookFinds ==
  ASSUME NEW d \in 0..Hour - 1, NEW k \in Nat, NEW k2 \in Nat, NEW o \in Nat, NEW o2 \in Nat,
         NEW s \in Nat, NEW e2 \in Nat, NEW left2 \in 0..Hour - 1, Between(d, k, k2, o, o2, s, e2, left2)
  PROVE  Found(d, k, k2, o, o2, s, e2, left2)
<1>0. Hour \in Nat /\ Hour > 7
  BY HourIs
<1> DEFINE K == k * Hour
           K2 == k2 * Hour
           x == e2 - d - K
<1>1. K \in Int /\ K2 \in Int /\ K >= 0
  <2>1. 0 * Hour = 0
    BY <1>0
  <2> QED
    BY <2>1, Hours
<1>2. e2 + left2 = d + K2 /\ e2 <= d + K - s + 2 + (o2 - o) /\ k <= o /\ o <= o2
  BY DEF Between
<1>3. k < k2 => K + Hour <= K2
  BY Hours
<1>4. k + 1 < k2 => K + 2 * Hour <= K2
  <2>1. ASSUME k + 1 < k2 PROVE (k + 1) * Hour + Hour <= K2
    BY <2>1, Hours
  <2>2. (k + 1) * Hour = K + 1 * Hour /\ 1 * Hour = Hour
    BY <1>0, Hours
  <2> QED
    BY <1>0, <1>1, <2>1, <2>2
<1>5. k2 <= k => K2 <= K
  BY Hours
<1>6. ASSUME e2 <= d + K PROVE k2 <= k
  <2> SUFFICES ASSUME k < k2 PROVE FALSE
    OBVIOUS
  <2> HIDE DEF K, K2, x
  <2> QED
    BY <1>0, <1>1, <1>2, <1>3, <1>6
<1>7. ASSUME e2 > d + K
      PROVE  x \in 1..2 + (o2 - o) /\ x + s <= 2 + (o2 - o) /\ e2 = d + K + x /\ e2 > d /\ k < k2
  <2>1. x \in 1..2 + (o2 - o) /\ x + s <= 2 + (o2 - o) /\ e2 = d + K + x /\ e2 > d
    <3> HIDE DEF K, K2
    <3> QED
      BY <1>1, <1>2, <1>7
  <2>2. k < k2
    <3> SUFFICES ASSUME k2 <= k PROVE FALSE
      OBVIOUS
    <3> HIDE DEF K, K2, x
    <3> QED
      BY <1>0, <1>1, <1>2, <1>5, <1>7
  <2> QED
    BY <2>1, <2>2
<1>8. ASSUME e2 > d + K, x < Hour PROVE k2 = k + 1 /\ left2 = Hour - x
  <2>1. x \in 1..Hour - 1 /\ e2 = d + K + x /\ k < k2
    BY <1>0, <1>7, <1>8
  <2>2. k2 = k + 1
    <3> SUFFICES ASSUME k + 1 < k2 PROVE FALSE
      BY <2>1
    <3> HIDE DEF K, K2, x
    <3> QED
      BY <1>0, <1>1, <1>2, <1>4, <2>1
  <2>3. K2 = K + 1 * Hour /\ 1 * Hour = Hour
    BY <1>0, <2>2, Hours
  <2> HIDE DEF K, K2, x
  <2> QED
    BY <1>0, <1>1, <1>2, <2>1, <2>2, <2>3
<1>9. ASSUME e2 > d + K, o2 > o PROVE k2 <= o2
  <2> DEFINE gap == o2 - o
             I == gap * Hour
  <2>0. gap \in Nat /\ gap >= 1
    BY <1>9
  <2>1. I \in Int /\ I >= 8 * gap
    <3>1. PICK h \in Nat : Hour = 8 + h
      <4>1. Hour - 8 \in Nat /\ Hour = 8 + (Hour - 8)
        BY <1>0
      <4> QED
        BY <4>1
    <3> HIDE DEF gap
    <3>2. gap * (8 + h) = gap * 8 + gap * h /\ gap * h \in Nat
      BY <2>0, SMT
    <3> QED
      BY <2>0, <3>1, <3>2
  <2>2. (k + gap) * Hour = K + I
    BY <2>0, Hours
  <2>3. ASSUME k + gap < k2 PROVE FALSE
    <3>1. (k + gap) * Hour + Hour <= K2
      BY <2>0, <2>3, Hours
    <3>2. e2 <= d + K - s + 2 + gap
      BY <1>2
    <3> HIDE DEF K, K2, x, I, gap
    <3> QED
      BY <1>0, <1>1, <1>2, <2>0, <2>1, <2>2, <3>1, <3>2
  <2> QED
    BY <1>2, <2>0, <2>3
<1>10. ASSUME e2 > d + K, o2 = o PROVE \E y \in {1, 2} : left2 = Hour - y /\ y + s <= 2
  <2>1. x \in {1, 2} /\ x + s <= 2 /\ x < Hour
    BY <1>0, <1>7, <1>10
  <2> QED
    BY <1>8, <1>10, <2>1
<1>11. e2 <= d + K \/ e2 > d + K
  BY <1>1
<1>12. o2 > o \/ o2 = o
  BY <1>2
<1>13. ASSUME e2 > d + K
       PROVE  \E y \in 1..2 + (o2 - o) : e2 = d + K + y /\ (y < Hour => k2 = k + 1 /\ left2 = Hour - y)
  <2>1. x \in 1..2 + (o2 - o) /\ e2 = d + K + x /\ (x < Hour => k2 = k + 1 /\ left2 = Hour - x)
    BY <1>7, <1>8, <1>13
  <2> HIDE DEF x
  <2> QED
    BY <2>1
<1> HIDE DEF x
<1> QED
  BY <1>6, <1>7, <1>9, <1>10, <1>11, <1>12, <1>13 DEF Found

-----------------------------------------------------------------------------
(* The timer: the inductive invariant *)

\* The time that was left at the last look at the clock.
TimeLeft == Seconds(time_sub(target, cur))

\* The last look was l seconds after the start, when the sleeps had taken o
\* seconds too much and k hours had gone by since the target. The n turns since
\* then counted 2 * n seconds.
Looked(l, o, k) ==
  /\ l <= elapsed /\ o <= overrun /\ k <= o
  /\ l + TimeLeft = duration + k * Hour
  /\ \E q \in Nat : Seconds(cur) + elapsed - l = wall + q * Hour
  /\ remain.min = time_sub(target, cur).min
  /\ \E n \in Nat : TimeLeft = Seconds(remain) + 2 * n /\ elapsed - l <= 2 * n + (overrun - o)
  /\ TimeLeft <= target.sec => is_last_min
  /\ target.sec + 2 + overrun < SecBase => k = 0
  /\ is_last_min /\ k = 0 => FlagTooEarly \/ TimeLeft <= target.sec

TimerInv ==
  /\ TimerTypeOK
  /\ timer = "loop" => \E l \in Nat, o \in Nat, k \in Nat : Looked(l, o, k)
  /\ timer = "done" => EndsPromptly /\ NotEarly

LEMMA TimerInitInv == TimerInit => TimerInv
<1> SUFFICES ASSUME TimerInit PROVE TimerInv
  OBVIOUS
<1> USE DEF TimerInit
<1>0. Hour \in Nat /\ Hour > 0 /\ SecBase \in Nat /\ 0 * Hour = 0
  BY HourIs
<1>1. cur \in Times /\ Seconds(cur) = wall
  BY CurTimeIs
<1>2. /\ target \in Times /\ Seconds(target) \in 0..Hour - 1
      /\ Seconds(target) = wall + duration \/ Seconds(target) = wall + duration - Hour
  BY <1>1, AddIs, TimeIs
<1>3. /\ time_sub(target, cur) \in Times /\ TimeLeft \in 0..Hour - 1
      /\ TimeLeft = Seconds(target) - wall \/ TimeLeft = Seconds(target) - wall + Hour
  BY <1>1, <1>2, SubIs, TimeIs DEF TimeLeft
<1>4. /\ duration \in 0..Hour - 1
      /\ remain.min \in 0..MinBase - 1 /\ remain.sec \in 0..SecBase - 1
      /\ duration = remain.min * SecBase + remain.sec
  BY TimeIs
<1>5. TimeLeft = duration
  BY <1>0, <1>2, <1>3, <1>4
<1>6. time_sub(target, cur) = remain
  BY <1>3, <1>5, MinSecIs DEF TimeLeft
<1>7. TimerTypeOK
  BY <1>0, <1>1, <1>2, <1>4, CountdownAssumption DEF TimerTypeOK
<1>8. TimeLeft <= target.sec => is_last_min
  <2> SUFFICES ASSUME TimeLeft <= target.sec, remain.min # 0 PROVE FALSE
    OBVIOUS
  <2>1. 0 < remain.min /\ remain.min \in Nat
    BY <1>4
  <2>2. 0 * SecBase + SecBase <= remain.min * SecBase /\ remain.min * SecBase \in Nat
    BY <2>1, MinutesApart
  <2>3. target.sec <= SecBase - 1 /\ target.sec \in Nat
    BY <1>2, TimeIs
  <2>4. 0 * SecBase = 0
    BY <1>0
  <2> DEFINE M == remain.min * SecBase
  <2> HIDE DEF M
  <2> QED
    BY <1>0, <1>4, <1>5, <2>2, <2>3, <2>4 DEF M
<1>9. is_last_min => FlagTooEarly \/ TimeLeft <= target.sec
  <2> SUFFICES ASSUME remain.min = 0, ~(TimeLeft <= target.sec) PROVE FlagTooEarly
    OBVIOUS
  <2>1. duration \div SecBase = 0 /\ duration % SecBase = remain.sec
    BY MinSecIs
  <2>2. duration = remain.sec
    BY <1>0, <1>4
  <2>3. target.sec \in Nat /\ target.sec < duration
    BY <1>2, <1>4, <1>5, TimeIs
  <2> QED
    BY <2>1, <2>2, <2>3 DEF FlagTooEarly
<1>10. Looked(0, 0, 0)
  <2>1. Seconds(cur) + elapsed - 0 = wall + 0 * Hour
    BY <1>0, <1>1, <1>4
  <2>2. TimeLeft = Seconds(remain) + 2 * 0 /\ elapsed - 0 <= 2 * 0 + (overrun - 0)
    BY <1>4, <1>5
  <2>3. 0 + TimeLeft = duration + 0 * Hour
    BY <1>0, <1>4, <1>5
  <2> QED
    BY <1>6, <1>8, <1>9, <2>1, <2>2, <2>3 DEF Looked
<1> QED
  BY <1>7, <1>10 DEF TimerInv

\* What a turn does to the state, whatever the time is.
LEMMA TurnEffect ==
  ASSUME TimerTypeOK, Turn
  PROVE  /\ TimerTypeOK' /\ timer = "loop" /\ target' = target /\ duration' = duration
         /\ is_last_min' = (is_last_min \/ cur'.min = target.min)
         /\ timer' = "loop" => ~Over
         /\ timer' = "done" => Over
         /\ overrun <= overrun' /\ elapsed <= elapsed'
         /\ elapsed' - elapsed <= 2 + (overrun' - overrun)
         /\ \E r \in Nat : wall + (elapsed' - elapsed) = wall' + r * Hour
         /\ \/ cur' = cur /\ remain.sec >= 2 /\ remain'.min = remain.min /\ remain'.sec = remain.sec - 2
            \/ remain.sec < 2 /\ cur' = CurTime(wall') /\ remain' = time_sub(target, cur')
<1>0. Hour \in Nat \ {0} /\ SecBase \in Nat
  BY HourIs
<1>1. PICK nap \in Naps :
        /\ overrun' = IF nap > 2 THEN overrun + nap - 2 ELSE overrun
        /\ overrun' <= MaxOverrun
        /\ wall' = (wall + nap) % Hour
        /\ elapsed' = elapsed + nap
        /\ Refresh(wall')
  BY DEF Turn
<1>2. nap \in Nat /\ MaxOverrun \in Nat
  BY CountdownAssumption
<1>3. overrun \in Nat /\ elapsed \in Nat /\ wall \in Nat
  BY <1>0 DEF TimerTypeOK
<1>4. /\ overrun' \in 0..MaxOverrun /\ elapsed' \in Nat /\ overrun <= overrun' /\ elapsed <= elapsed'
      /\ elapsed' - elapsed <= 2 + (overrun' - overrun) /\ elapsed' - elapsed = nap
  BY <1>1, <1>2, <1>3
<1>5. /\ wall' \in 0..Hour - 1
      /\ \E r \in Nat : wall + (elapsed' - elapsed) = wall' + r * Hour
  <2> DEFINE w == wall + nap
  <2>1. w \in Nat
    BY <1>2, <1>3
  <2> HIDE DEF w
  <2>2. w % Hour \in 0..Hour - 1 /\ \E r \in Nat : w = (w % Hour) + r * Hour
    BY <1>0, <2>1, WholeAndRest
  <2>5. wall' = w % Hour
    BY <1>1 DEF w
  <2>6. wall + (elapsed' - elapsed) = w
    BY <1>4 DEF w
  <2> QED
    BY <2>2, <2>5, <2>6
<1>6. remain \in Times /\ target \in Times /\ cur \in Times /\ remain.sec \in 0..SecBase - 1
  BY TimeIs DEF TimerTypeOK
<1>7. /\ remain' \in Times /\ cur' \in Times
      /\ \/ cur' = cur /\ remain.sec >= 2 /\ remain'.min = remain.min /\ remain'.sec = remain.sec - 2
         \/ remain.sec < 2 /\ cur' = CurTime(wall') /\ remain' = time_sub(target, cur')
  <2>1. CASE remain.sec - 2 < 0
    <3>1. remain.sec < 2 /\ cur' = CurTime(wall') /\ remain' = time_sub(target, cur')
      BY <1>1, <1>6, <2>1 DEF Refresh
    <3>2. cur' \in Times
      BY <1>5, <3>1, CurTimeIs
    <3> QED
      BY <1>6, <3>1, <3>2, SubIs
  <2>2. CASE ~(remain.sec - 2 < 0)
    <3>1. cur' = cur /\ remain' = [remain EXCEPT !.sec = @ - 2]
      BY <1>1, <2>2 DEF Refresh
    <3>2. remain.sec >= 2 /\ remain.sec - 2 \in 0..SecBase - 1
      BY <1>0, <1>6, <2>2
    <3> QED
      BY <1>6, <3>1, <3>2 DEF Times
  <2> QED
    BY <2>1, <2>2
<1>8. /\ timer = "loop" /\ target' = target /\ duration' = duration
      /\ is_last_min' = (is_last_min \/ cur'.min = target.min)
      /\ timer' = IF Over THEN "done" ELSE "loop"
  BY DEF Turn
<1>9. TimerTypeOK'
  BY <1>4, <1>5, <1>7, <1>8 DEF TimerTypeOK
<1> QED
  BY <1>4, <1>5, <1>7, <1>8, <1>9

\* Late by k hours, and by what was too much since then, is late by as many
\* hours as there were seconds too much.
LEMMA LateBy ==
  ASSUME NEW d \in Nat, NEW e2 \in Nat, NEW k \in Nat, NEW o \in Nat, NEW o2 \in Nat, NEW t \in Nat,
         k <= o, o <= o2, e2 <= d + k * Hour + 2 + (o2 - o),
         t + 2 + o2 < SecBase => k = 0
  PROVE  e2 <= d + 2 + IF t + 2 + o2 < SecBase THEN o2 ELSE o2 * Hour
<1>0. Hour \in Nat /\ Hour > 0 /\ SecBase \in Nat
  BY HourIs
<1> DEFINE K == k * Hour
           O == o * Hour
           O2 == o2 * Hour
           I == (o2 - o) * Hour
<1>1. K \in Int /\ O \in Int /\ O2 \in Int /\ I = O2 - O /\ K <= O
  <2>1. k \in Int /\ o \in Int /\ o2 \in Int
    OBVIOUS
  <2>2. K \in Int /\ O \in Int /\ K <= O
    BY <2>1, Hours
  <2>3. O2 \in Int /\ I = O2 - O
    BY <2>1, Hours
  <2> QED
    BY <2>2, <2>3
<1>2. o2 - o <= I
  <2>1. o2 - o \in Nat
    OBVIOUS
  <2>2. PICK h \in Nat : Hour = 1 + h
    <3>1. Hour - 1 \in Nat /\ Hour = 1 + (Hour - 1)
      BY <1>0
    <3> QED
      BY <3>1
  <2> DEFINE gap == o2 - o
  <2> HIDE DEF gap
  <2>3. gap * (1 + h) = gap + gap * h /\ gap * h \in Nat
    BY <2>1, SMT DEF gap
  <2>4. gap <= gap * Hour
    BY <2>1, <2>2, <2>3 DEF gap
  <2> QED
    BY <2>4 DEF gap
<1>3. e2 <= d + K + 2 + (o2 - o)
  OBVIOUS
<1>4. k = 0 => K = 0
  BY <1>0
<1> HIDE DEF K, O, O2, I
<1>5. e2 <= d + 2 + O2
  BY <1>1, <1>2, <1>3
<1>6. t + 2 + o2 < SecBase => e2 <= d + 2 + o2
  BY <1>3, <1>4
<1> QED
  BY <1>5, <1>6 DEF O2

\* A turn ends at most two seconds, and what was too much since the last look,
\* after the time that it shows is over.
LEMMA TurnInTime ==
  ASSUME TimerTypeOK, Turn, NEW l \in Nat, NEW o \in Nat, NEW k \in Nat, Looked(l, o, k)
  PROVE  /\ elapsed' <= duration + k * Hour - Seconds(remain) + 2 + (overrun' - o)
         /\ EndsPromptly'
<1>0. Hour \in Nat /\ k * Hour \in Int
  BY HourIs, Hours
<1>1. /\ duration \in Nat /\ elapsed \in Nat /\ overrun \in Nat /\ remain \in Times /\ target \in Times
      /\ Seconds(remain) \in Nat /\ target.sec \in Nat
  BY TimeIs DEF TimerTypeOK
<1>2. /\ elapsed' \in Nat /\ overrun' \in Nat /\ overrun <= overrun'
      /\ elapsed' - elapsed <= 2 + (overrun' - overrun)
      /\ target' = target /\ duration' = duration
  BY TurnEffect DEF TimerTypeOK
<1>3. PICK n \in Nat : TimeLeft = Seconds(remain) + 2 * n /\ elapsed - l <= 2 * n + (overrun - o)
  BY DEF Looked
<1>4. l + TimeLeft = duration + k * Hour /\ k <= o /\ o <= overrun
  BY DEF Looked
<1>5. TimeLeft \in Int
  BY <1>1, <1>3
<1>6. /\ elapsed' <= duration + k * Hour - Seconds(remain) + 2 + (overrun' - o)
      /\ elapsed' <= duration + k * Hour + 2 + (overrun' - o)
  <2>1. PICK K \in Int : K = k * Hour
    BY <1>0
  <2>2. PICK s \in Nat : s = Seconds(remain)
    BY <1>1
  <2>3. PICK left \in Int : left = TimeLeft
    BY <1>5
  <2>4. PICK d \in Nat : d = duration
    BY <1>1
  <2>5. PICK e \in Nat : e = elapsed
    BY <1>1
  <2>6. PICK e2 \in Nat : e2 = elapsed'
    BY <1>2
  <2>7. PICK v \in Nat : v = overrun
    BY <1>1
  <2>8. PICK v2 \in Nat : v2 = overrun'
    BY <1>2
  <2>9. l + left = d + K /\ left = s + 2 * n /\ e - l <= 2 * n + (v - o) /\ e2 - e <= 2 + (v2 - v)
    BY <1>2, <1>3, <1>4, <2>1, <2>2, <2>3, <2>4, <2>5, <2>6, <2>7, <2>8
  <2>10. e2 <= d + K - s + 2 + (v2 - o) /\ e2 <= d + K + 2 + (v2 - o)
    BY <2>9
  <2> QED
    BY <2>1, <2>2, <2>3, <2>4, <2>5, <2>6, <2>7, <2>8, <2>10
<1>7. target.sec + 2 + overrun' < SecBase => k = 0
  <2>1. target.sec + 2 + overrun < SecBase => k = 0
    BY DEF Looked
  <2> QED
    BY <1>1, <1>2, <2>1, HourIs
<1>8. o <= overrun'
  BY <1>1, <1>2, <1>4
<1>9. elapsed' <= duration + 2 + IF target.sec + 2 + overrun' < SecBase THEN overrun' ELSE overrun' * Hour
  BY <1>1, <1>2, <1>4, <1>6, <1>7, <1>8, LateBy
<1> QED
  BY <1>2, <1>6, <1>9 DEF EndsPromptly

\* A turn that does not look at the clock.
Counted == cur' = cur /\ remain'.min = remain.min /\ remain'.sec = remain.sec - 2

LEMMA NoLook ==
  ASSUME TimerTypeOK, Turn, NEW l \in Nat, NEW o \in Nat, NEW k \in Nat, Looked(l, o, k),
         Counted
  PROVE  Looked(l, o, k)'
<1>0. Hour \in Nat /\ SecBase \in Nat /\ SecBase > 3
  BY HourIs
<1>1. /\ duration \in 0..Hour - 1 /\ elapsed \in Nat /\ overrun \in Nat /\ wall \in Nat
      /\ remain \in Times /\ target \in Times /\ cur \in Times
      /\ remain.min * SecBase \in Nat /\ remain.sec \in Nat /\ Seconds(remain) = remain.min * SecBase + remain.sec
      /\ Seconds(cur) \in Nat /\ target.sec \in Nat
  BY TimeIs DEF TimerTypeOK
<1>2. /\ target' = target /\ duration' = duration
      /\ is_last_min' = (is_last_min \/ cur.min = target.min)
      /\ overrun <= overrun' /\ elapsed <= elapsed'
      /\ elapsed' - elapsed <= 2 + (overrun' - overrun)
      /\ elapsed' \in Nat /\ overrun' \in Nat /\ wall' \in Nat
  BY TurnEffect DEF TimerTypeOK, Counted
<1>3. time_sub(target, cur)' = time_sub(target, cur) /\ TimeLeft' = TimeLeft /\ Seconds(cur)' = Seconds(cur)
  BY <1>2 DEF TimeLeft, Counted
<1>4. /\ TimeLeft \in Nat
      /\ l <= elapsed /\ o <= overrun /\ k <= o /\ l + TimeLeft = duration + k * Hour
      /\ remain.min = time_sub(target, cur).min
      /\ TimeLeft <= target.sec => is_last_min
      /\ target.sec + 2 + overrun < SecBase => k = 0
      /\ is_last_min /\ k = 0 => FlagTooEarly \/ TimeLeft <= target.sec
  BY <1>1, SubIs, TimeIs DEF Looked, TimeLeft
<1>5. \E q \in Nat : Seconds(cur)' + elapsed' - l = wall' + q * Hour
  <2>1. PICK q \in Nat : Seconds(cur) + elapsed - l = wall + q * Hour
    BY DEF Looked
  <2>2. PICK r \in Nat : wall + (elapsed' - elapsed) = wall' + r * Hour
    BY TurnEffect
  <2>3. (q + r) * Hour = q * Hour + r * Hour /\ q * Hour \in Int /\ r * Hour \in Int
    <3>1. q \in Int /\ r \in Int
      OBVIOUS
    <3> QED
      BY <3>1, Hours
  <2> DEFINE Q == q * Hour
             R == r * Hour
             c == Seconds(cur)
  <2> HIDE DEF Q, R, c
  <2>4. c + elapsed' - l = wall' + (Q + R)
    BY <1>1, <1>2, <2>1, <2>2, <2>3 DEF Q, R, c
  <2>5. c + elapsed' - l = wall' + (q + r) * Hour
    BY <2>3, <2>4 DEF Q, R
  <2> QED
    BY <1>3, <2>5 DEF c
<1>6. \E n \in Nat : TimeLeft' = Seconds(remain') + 2 * n /\ elapsed' - l <= 2 * n + (overrun' - o)
  <2>1. PICK n \in Nat : TimeLeft = Seconds(remain) + 2 * n /\ elapsed - l <= 2 * n + (overrun - o)
    BY DEF Looked
  <2>2. Seconds(remain') = Seconds(remain) - 2
    <3>1. Seconds(remain') = remain.min * SecBase + (remain.sec - 2)
      BY DEF Seconds, Counted
    <3> QED
      BY <1>1, <3>1
  <2>3. k * Hour \in Int
    BY <1>0, SMT
  <2>4. /\ TimeLeft = (Seconds(remain) - 2) + 2 * (n + 1)
        /\ elapsed' - l <= 2 * (n + 1) + (overrun' - o)
    <3>1. PICK K \in Int : K = k * Hour
      BY <2>3
    <3>2. PICK s \in Nat : s = Seconds(remain)
      BY <1>1
    <3>3. PICK left \in Int : left = TimeLeft
      BY <1>4
    <3>4. PICK d \in Nat : d = duration
      BY <1>1
    <3>5. PICK e \in Nat : e = elapsed
      BY <1>1
    <3>6. PICK e2 \in Nat : e2 = elapsed'
      BY <1>2
    <3>7. PICK v \in Nat : v = overrun
      BY <1>1
    <3>8. PICK v2 \in Nat : v2 = overrun'
      BY <1>2
    <3>9. left = s + 2 * n /\ e - l <= 2 * n + (v - o) /\ e2 - e <= 2 + (v2 - v)
      BY <1>2, <2>1, <3>1, <3>2, <3>3, <3>4, <3>5, <3>6, <3>7, <3>8
    <3>10. left = (s - 2) + 2 * (n + 1) /\ e2 - l <= 2 * (n + 1) + (v2 - o)
      BY <3>9
    <3> QED
      BY <3>1, <3>2, <3>3, <3>4, <3>5, <3>6, <3>7, <3>8, <3>10
  <2>5. n + 1 \in Nat /\ TimeLeft' = Seconds(remain') + 2 * (n + 1)
    BY <1>3, <2>2, <2>4
  <2> QED
    BY <2>4, <2>5
<1>7. is_last_min' /\ k = 0 => FlagTooEarly \/ TimeLeft <= target.sec
  <2> SUFFICES ASSUME k = 0, cur.min = target.min PROVE FlagTooEarly \/ TimeLeft <= target.sec
    BY <1>2, <1>4
  <2>1. l + TimeLeft = duration
    <3>1. 0 * Hour = 0
      BY <1>0
    <3> QED
      BY <1>1, <1>4, <3>1
  <2> QED
    BY <1>1, <2>1, InLastMinute DEF TimeLeft, Early, FlagTooEarly
<1>8. FlagTooEarly' = FlagTooEarly
  BY <1>2 DEF FlagTooEarly
<1>9. l <= elapsed' /\ o <= overrun' /\ (target.sec + 2 + overrun' < SecBase => k = 0)
  BY <1>0, <1>1, <1>2, <1>4
<1> QED
  BY <1>2, <1>3, <1>4, <1>5, <1>6, <1>7, <1>8, <1>9 DEF Looked, Counted

\* A look a second or two after the end of the target's minute finds the flag
\* set: it was set at the last look, the minute being even.
LEMMA FlagAtEnd ==
  ASSUME NEW left \in Nat, left <= SecBase - 1, NEW t \in Nat, NEW x \in {1, 2}, NEW s \in Nat, x + s <= 2,
         NEW n \in Nat, left = s + 2 * n, t + x >= SecBase
  PROVE  left <= t
<1>1. PICK b \in Nat : SecBase = 2 * b
  <2>1. SecBase \in Nat /\ SecBase % 2 = 0
    BY HourIs
  <2> DEFINE h == SecBase \div 2
  <2>2. h \in Nat /\ SecBase = 2 * h
    BY <2>1, SMT
  <2> QED
    BY <2>2
<1>2. CASE x = 1
  BY <1>1, <1>2
<1>3. CASE x = 2
  <2>1. s = 0 /\ left = 2 * n /\ 2 * n <= 2 * b - 1 /\ t >= 2 * b - 2
    BY <1>1, <1>3
  <2>2. n <= b - 1
    BY <2>1
  <2> QED
    BY <2>1, <2>2
<1> QED
  BY <1>2, <1>3

\* A turn that looks at the clock.
Saw == remain.sec < 2 /\ cur' = CurTime(wall') /\ remain' = time_sub(target, cur')

LEMMA Look ==
  ASSUME TimerTypeOK, Turn, NEW l \in Nat, NEW o \in Nat, NEW k \in Nat, Looked(l, o, k), Saw
  PROVE  \/ \E l2 \in Nat, o2 \in Nat, k2 \in Nat : Looked(l2, o2, k2)'
         \/ Over /\ elapsed' > duration
<1>0. Hour \in Nat /\ Hour > 0 /\ SecBase \in Nat /\ SecBase > 3 /\ Hour >= 2 * SecBase /\ k * Hour \in Int
  BY HourIs, Hours
<1>1. /\ duration \in 0..Hour - 1 /\ elapsed \in Nat /\ overrun \in Nat /\ wall \in Nat
      /\ remain \in Times /\ target \in Times /\ cur \in Times
      /\ target.sec \in 0..SecBase - 1 /\ Seconds(remain) \in Nat
      /\ Seconds(cur) \in Nat /\ Seconds(target) \in Nat
  BY TimeIs DEF TimerTypeOK
<1>2. /\ target' = target /\ duration' = duration
      /\ is_last_min' = (is_last_min \/ cur'.min = target.min)
      /\ overrun <= overrun' /\ elapsed <= elapsed'
      /\ elapsed' \in Nat /\ overrun' \in Nat /\ wall' \in Nat
      /\ wall' \in 0..Hour - 1 /\ cur' \in Times
  BY TurnEffect DEF TimerTypeOK
<1>3. /\ Seconds(cur') = wall' /\ cur' = CurTime(wall') /\ remain' = time_sub(target, cur')
      /\ TimeLeft' = Seconds(remain') /\ TimeLeft' = Seconds(time_sub(target, cur'))
  <2>1. cur' = CurTime(wall') /\ remain' = time_sub(target, cur')
    BY DEF Saw
  <2>2. Seconds(cur') = wall'
    BY <1>2, <2>1, CurTimeIs
  <2> QED
    BY <1>2, <2>1, <2>2 DEF TimeLeft
<1>4. /\ TimeLeft \in 0..Hour - 1 /\ TimeLeft' \in 0..Hour - 1
      /\ TimeLeft = Seconds(target) - Seconds(cur) \/ TimeLeft = Seconds(target) - Seconds(cur) + Hour
      /\ TimeLeft' = Seconds(target) - wall' \/ TimeLeft' = Seconds(target) - wall' + Hour
  <2>1. time_sub(target, cur) \in Times /\ time_sub(target, cur') \in Times
    BY <1>1, <1>2, SubIs
  <2>2. TimeLeft \in 0..Hour - 1 /\ TimeLeft' \in 0..Hour - 1
    BY <1>3, <2>1, TimeIs DEF TimeLeft
  <2>3. TimeLeft = Seconds(target) - Seconds(cur) \/ TimeLeft = Seconds(target) - Seconds(cur) + Hour
    BY <1>1, SubIs DEF TimeLeft
  <2>4. TimeLeft' = Seconds(target) - Seconds(cur') \/ TimeLeft' = Seconds(target) - Seconds(cur') + Hour
    BY <1>1, <1>2, <1>3, SubIs
  <2> QED
    BY <1>3, <2>2, <2>3, <2>4
<1>5. PICK k2 \in Nat : elapsed' + TimeLeft' = duration + k2 * Hour
  <2>1. PICK q \in Nat : Seconds(cur) + elapsed - l = wall + q * Hour
    BY DEF Looked
  <2>2. PICK r \in Nat : wall + (elapsed' - elapsed) = wall' + r * Hour
    BY TurnEffect
  <2>3. l + TimeLeft = duration + k * Hour
    BY DEF Looked
  <2>4. /\ k * Hour \in Int /\ q * Hour \in Int /\ r * Hour \in Int /\ k + q + r \in Int
        /\ (k + q + r) * Hour = k * Hour + q * Hour + r * Hour
        /\ (k + q + r + 1) * Hour = k * Hour + q * Hour + r * Hour + Hour
        /\ (k + q + r - 1) * Hour = k * Hour + q * Hour + r * Hour - Hour
    <3>1. k * Hour \in Int /\ q * Hour \in Int /\ r * Hour \in Int
      BY HoursSum
    <3>2. (k + q + r) * Hour = k * Hour + q * Hour + r * Hour
      BY HoursSum, Zenon
    <3>3. (k + q + r + 1) * Hour = k * Hour + q * Hour + r * Hour + Hour
      BY HoursSum, Zenon
    <3>4. (k + q + r - 1) * Hour = k * Hour + q * Hour + r * Hour - Hour
      BY HoursSum, Zenon
    <3>5. k + q + r \in Int
      OBVIOUS
    <3> QED
      BY <3>1, <3>2, <3>3, <3>4, <3>5
  <2>5. \E j \in Int : elapsed' + TimeLeft' = duration + j * Hour
    <3>1. PICK K \in Int : K = k * Hour
      BY <2>4
    <3>2. PICK Q \in Int : Q = q * Hour
      BY <2>4
    <3>3. PICK R \in Int : R = r * Hour
      BY <2>4
    <3>4. PICK H \in Nat : H = Hour
      BY <1>0
    <3>5. PICK m \in Int : m = k + q + r
      BY <2>4
    <3>6. PICK t \in Nat : t = Seconds(target)
      BY <1>1
    <3>7. PICK c \in Nat : c = Seconds(cur)
      BY <1>1
    <3>8. PICK w \in Nat : w = wall
      BY <1>1
    <3>9. PICK w2 \in Nat : w2 = wall'
      BY <1>2
    <3>10. PICK d \in Nat : d = duration
      BY <1>1
    <3>11. PICK e \in Nat : e = elapsed
      BY <1>1
    <3>12. PICK e2 \in Nat : e2 = elapsed'
      BY <1>2
    <3>13. PICK left \in Int : left = TimeLeft
      BY <1>4
    <3>14. PICK left2 \in Nat : left2 = TimeLeft'
      BY <1>4
    <3>15. /\ l + left = d + K /\ c + e - l = w + Q /\ w + (e2 - e) = w2 + R
           /\ left = t - c \/ left = t - c + H
           /\ left2 = t - w2 \/ left2 = t - w2 + H
      BY <1>4, <2>1, <2>2, <2>3, <3>1, <3>2, <3>3, <3>4, <3>5, <3>6, <3>7, <3>8, <3>9, <3>10, <3>11, <3>12, <3>13, <3>14
    <3>16. \/ e2 + left2 = d + (K + Q + R - H)
           \/ e2 + left2 = d + (K + Q + R)
           \/ e2 + left2 = d + (K + Q + R + H)
      BY <3>15
    <3>17. m * Hour = K + Q + R /\ (m + 1) * Hour = K + Q + R + H /\ (m - 1) * Hour = K + Q + R - H
      BY <2>4, <3>1, <3>2, <3>3, <3>4, <3>5, <3>6, <3>7, <3>8, <3>9, <3>10, <3>11, <3>12, <3>13, <3>14
    <3>18. \E j \in Int : e2 + left2 = d + j * Hour
      BY <3>16, <3>17
    <3> QED
      BY <3>10, <3>12, <3>14, <3>18
  <2>6. PICK j \in Int : elapsed' + TimeLeft' = duration + j * Hour
    BY <2>5
  <2>7. j \in Nat
    <3>1. elapsed' + TimeLeft' \in Nat
      BY <1>2, <1>4
    <3> QED
      BY <1>1, <2>6, <3>1, WholeHours
  <2> QED
    BY <2>6, <2>7
<1>6. PICK n \in Nat : TimeLeft = Seconds(remain) + 2 * n
  BY DEF Looked
<1>7. k <= o /\ o <= overrun' /\ TimeLeft \in Nat
  BY <1>1, <1>2, <1>4 DEF Looked
<1>8. elapsed' <= duration + k * Hour - Seconds(remain) + 2 + (overrun' - o)
  BY TurnInTime
<1>9. /\ \/ elapsed' <= duration + k * Hour /\ k2 <= k
         \/ k2 <= overrun'
         \/ elapsed' > duration /\ \E x \in {1, 2} : TimeLeft' = Hour - x /\ x + Seconds(remain) <= 2
      /\ \/ elapsed' <= duration + k * Hour /\ k2 <= k
         \/ \E x \in 1..2 + (overrun' - o) :
              elapsed' = duration + k * Hour + x /\ (x < Hour => k2 = k + 1 /\ TimeLeft' = Hour - x)
  <2>1. /\ overrun' \in Nat /\ elapsed' \in Nat /\ TimeLeft' \in 0..Hour - 1 /\ Seconds(remain) \in Nat
        /\ duration \in 0..Hour - 1
    BY <1>1, <1>2, <1>4
  <2>2. Between(duration, k, k2, o, overrun', Seconds(remain), elapsed', TimeLeft')
    BY <1>5, <1>7, <1>8 DEF Between
  <2>3. Found(duration, k, k2, o, overrun', Seconds(remain), elapsed', TimeLeft')
    BY <2>1, <2>2, WhatALookFinds
  <2> QED
    BY <2>3 DEF Found
\* A second or two after the end of the target's minute, or more in the minute.
<1>10. ASSUME NEW x \in 1..SecBase, TimeLeft' = Hour - x, target.sec + x < SecBase PROVE Over
  <2>1. cur'.min = target.min /\ cur'.sec = target.sec + x
    <3>1. Seconds(time_sub(target, cur')) = Hour - x /\ target \in Times /\ cur' \in Times
      BY <1>1, <1>2, <1>3, <1>10
    <3> QED
      BY <1>10, <3>1, FarApart
  <2>2. cur'.sec > target.sec
    BY <1>1, <2>1
  <2> QED
    BY <1>2, <2>1, <2>2 DEF Over
<1>11. ASSUME NEW x \in {1, 2}, TimeLeft' = Hour - x, x + Seconds(remain) <= 2 PROVE Over
  <2>0. x \in 1..SecBase
    BY <1>0
  <2>1. CASE target.sec + x < SecBase
    BY <1>10, <1>11, <2>0, <2>1
  <2>2. CASE ~(target.sec + x < SecBase)
    <3>1. cur'.min # target.min
      <4>1. Seconds(time_sub(target, cur')) = Hour - x /\ target \in Times /\ cur' \in Times
        BY <1>1, <1>2, <1>3, <1>11
      <4> QED
        BY <2>0, <2>2, <4>1, FarApart
    <3>2. remain.min = 0
      <4> SUFFICES ASSUME remain.min # 0 PROVE FALSE
        OBVIOUS
      <4>1. remain.min \in Nat /\ 0 < remain.min /\ remain.sec \in Nat
        BY <1>1, TimeIs, HourIs
      <4>2. 0 * SecBase + SecBase <= remain.min * SecBase /\ remain.min * SecBase \in Nat
        BY <4>1, MinutesApart
      <4>3. 0 * SecBase = 0 /\ Seconds(remain) = remain.min * SecBase + remain.sec
        BY <1>0, <1>1, TimeIs
      <4>4. PICK M \in Nat : M = remain.min * SecBase
        BY <4>2
      <4> QED
        BY <1>0, <1>1, <1>11, <4>1, <4>2, <4>3, <4>4
    <3>3. TimeLeft <= SecBase - 1
      <4> DEFINE u == time_sub(target, cur)
      <4>1. u \in Times /\ u.min = 0
        BY <1>1, <3>2, SubIs DEF Looked
      <4>2. Seconds(u) = 0 * SecBase + u.sec /\ u.sec \in 0..SecBase - 1
        BY <4>1, TimeIs DEF Seconds
      <4>3. 0 * SecBase = 0
        BY <1>0
      <4> QED
        BY <1>0, <4>2, <4>3 DEF TimeLeft
    <3>4. target.sec \in Nat /\ Seconds(remain) \in Nat /\ target.sec + x >= SecBase
      BY <1>0, <1>1, <2>2
    <3>5. TimeLeft <= target.sec
      BY <1>6, <1>7, <1>11, <3>3, <3>4, FlagAtEnd
    <3>6. is_last_min
      BY <3>5 DEF Looked
    <3> QED
      BY <1>2, <3>1, <3>6 DEF Over
  <2> QED
    BY <2>1, <2>2
<1>12. k * Hour >= 0
  <2>1. 0 * Hour = 0 /\ k \in Int /\ 0 <= k
    BY <1>0
  <2> QED
    BY <2>1, Hours
<1>13. ASSUME ~(Over /\ elapsed' > duration)
       PROVE  k2 <= overrun' /\ (target.sec + 2 + overrun' < SecBase => k2 = 0)
  <2>0. target.sec + 2 + overrun' < SecBase => k = 0
    <3>1. target.sec + 2 + overrun' < SecBase => target.sec + 2 + overrun < SecBase
      BY <1>0, <1>1, <1>2
    <3> QED
      BY <3>1 DEF Looked
  <2>1. CASE k2 <= k
    BY <1>2, <1>7, <2>0, <2>1
  <2>2. CASE ~(k2 <= k)
    <3>1. PICK x \in 1..2 + (overrun' - o) :
            elapsed' = duration + k * Hour + x /\ (x < Hour => TimeLeft' = Hour - x)
      BY <1>9, <2>2
    <3>2. elapsed' > duration
      <4>1. PICK K \in Int : K = k * Hour
        BY <1>0
      <4> QED
        BY <1>1, <1>2, <1>12, <3>1, <4>1
    <3>3. ~Over
      BY <1>13, <3>2
    <3>4. k2 <= overrun'
      BY <1>9, <1>11, <2>2, <3>3
    <3>5. ASSUME target.sec + 2 + overrun' < SecBase PROVE FALSE
      <4>1. x \in 1..SecBase /\ x < Hour /\ target.sec + x < SecBase
        <5>1. PICK t \in Nat : t = target.sec
          BY <1>1
        <5>2. PICK v \in Nat : v = overrun'
          BY <1>2
        <5>3. PICK B \in Nat : B = SecBase
          BY <1>0
        <5>4. x <= 2 + (v - o) /\ t + 2 + v < B
          <6>1. x \in 1..2 + (v - o)
            BY <3>1, <5>2
          <6>2. t + 2 + v < B
            BY <3>5, <5>1, <5>2, <5>3
          <6> QED
            BY <6>1, <6>2
        <5>5. x <= B /\ t + x < B
          BY <5>4
        <5>6. x < Hour
          BY <1>0, <5>3, <5>5
        <5> QED
          BY <3>1, <5>1, <5>3, <5>5, <5>6
      <4> QED
        BY <1>10, <3>1, <3>3, <4>1
    <3> QED
      BY <3>4, <3>5
  <2> QED
    BY <2>1, <2>2
<1>14. ASSUME k2 <= overrun', target.sec + 2 + overrun' < SecBase => k2 = 0
       PROVE  Looked(elapsed, overrun, k2)'
  <2>3. TimeLeft' <= target.sec => is_last_min'
    <3> SUFFICES ASSUME TimeLeft' <= target.sec PROVE is_last_min'
      OBVIOUS
    <3>1. Seconds(time_sub(target, cur')) <= target.sec
      BY <1>3
    <3>2. cur'.min = target.min
      BY <1>1, <1>2, <3>1, FarApart
    <3> QED
      BY <1>2, <3>2
  <2>4. is_last_min' /\ k2 = 0 => FlagTooEarly \/ TimeLeft' <= target.sec
    <3> SUFFICES ASSUME is_last_min', k2 = 0 PROVE FlagTooEarly \/ TimeLeft' <= target.sec
      OBVIOUS
    <3>1. elapsed' + TimeLeft' = duration
      <4>1. 0 * Hour = 0
        BY <1>0
      <4> QED
        BY <1>1, <1>5, <4>1
    <3>2. CASE is_last_min
      <4>1. l <= elapsed /\ l + TimeLeft = duration + k * Hour /\ (k = 0 => FlagTooEarly \/ TimeLeft <= target.sec)
        BY <3>2 DEF Looked
      <4>2. k = 0
        <5> SUFFICES ASSUME 0 < k PROVE FALSE
          OBVIOUS
        <5>1. 0 * Hour + Hour <= k * Hour /\ 0 * Hour = 0
          <6>1. k \in Int /\ 0 * Hour = 0
            BY <1>0
          <6> QED
            BY <6>1, Hours
        <5>2. PICK K \in Int : K = k * Hour
          BY <1>0
        <5>3. PICK d \in Nat : d = duration
          BY <1>1
        <5>4. PICK e2 \in Nat : e2 = elapsed'
          BY <1>2
        <5>5. PICK H \in Nat : H = Hour
          BY <1>0
        <5>6. PICK a \in 0..H - 1 : a = TimeLeft
          BY <1>4, <5>5
        <5>7. PICK b \in Nat : b = TimeLeft'
          BY <1>4
        <5>8. e2 + b = d /\ l <= e2 /\ l + a = d + K /\ H <= K
          <6>1. e2 + b = d
            BY <3>1, <5>3, <5>4, <5>7
          <6>2. l <= e2
            BY <1>1, <1>2, <4>1, <5>4
          <6>3. l + a = d + K
            BY <4>1, <5>2, <5>3, <5>6
          <6>4. H <= K
            BY <5>1, <5>2, <5>5
          <6> QED
            BY <6>1, <6>2, <6>3, <6>4
        <5> QED
          BY <5>8
      <4>3. l + TimeLeft = duration
        <5>1. 0 * Hour = 0
          BY <1>0
        <5> QED
          BY <1>1, <4>1, <4>2, <5>1
      <4>4. TimeLeft' <= TimeLeft
        <5>1. PICK d \in Nat : d = duration
          BY <1>1
        <5>2. PICK e2 \in Nat : e2 = elapsed'
          BY <1>2
        <5>3. PICK a \in Nat : a = TimeLeft
          BY <1>7
        <5>4. PICK b \in Nat : b = TimeLeft'
          BY <1>4
        <5>5. e2 + b = d /\ l <= e2 /\ l + a = d
          <6>1. e2 + b = d
            BY <3>1, <5>1, <5>2, <5>4
          <6>2. l <= e2
            BY <1>1, <1>2, <4>1, <5>2
          <6>3. l + a = d
            BY <4>3, <5>1, <5>3
          <6> QED
            BY <6>1, <6>2, <6>3
        <5>6. b <= a
          BY <5>5
        <5> QED
          BY <5>3, <5>4, <5>6
      <4>5. CASE TimeLeft <= target.sec
        <5>1. TimeLeft \in Int /\ TimeLeft' \in Int /\ target.sec \in Int
          BY <1>1, <1>4
        <5> QED
          BY <4>4, <4>5, <5>1
      <4> QED
        BY <4>1, <4>2, <4>5
    <3>3. CASE cur'.min = target.min
      <4>1. elapsed' + Seconds(time_sub(target, cur')) = duration
        BY <1>3, <3>1
      <4>2. Early(target, duration) \/ Seconds(time_sub(target, cur')) <= target.sec
        BY <1>1, <1>2, <3>3, <4>1, InLastMinute
      <4> QED
        BY <1>3, <4>2 DEF Early, FlagTooEarly
    <3> QED
      BY <1>2, <3>2, <3>3
  <2>5. Seconds(cur') + elapsed' - elapsed' = wall' + 0 * Hour
    <3>1. 0 * Hour = 0
      BY <1>0
    <3> QED
      BY <1>2, <1>3, <3>1
  <2>6. TimeLeft' = Seconds(remain') + 2 * 0 /\ elapsed' - elapsed' <= 2 * 0 + (overrun' - overrun')
    <3>1. elapsed' - elapsed' = 0 /\ overrun' - overrun' = 0
      <4>1. PICK e2 \in Nat : e2 = elapsed'
        BY <1>2
      <4>2. PICK v2 \in Nat : v2 = overrun'
        BY <1>2
      <4>3. e2 - e2 = 0 /\ v2 - v2 = 0
        OBVIOUS
      <4> QED
        BY <4>1, <4>2, <4>3
    <3>2. TimeLeft' \in Nat
      BY <1>4
    <3> QED
      BY <1>3, <3>1, <3>2
  <2>7. FlagTooEarly' = FlagTooEarly
    BY <1>2 DEF FlagTooEarly
  <2>8. \E q \in Nat : Seconds(cur') + elapsed' - elapsed' = wall' + q * Hour
    BY <2>5
  <2>9. \E n2 \in Nat : /\ TimeLeft' = Seconds(remain') + 2 * n2
                        /\ elapsed' - elapsed' <= 2 * n2 + (overrun' - overrun')
    BY <2>6
  <2>10. elapsed' <= elapsed' /\ overrun' <= overrun'
    BY <1>2
  <2>11. Seconds(cur)' = Seconds(cur') /\ Seconds(remain)' = Seconds(remain')
    BY DEF Seconds
  <2>12. remain'.min = time_sub(target, cur)'.min
    BY <1>2, <1>3
  <2> QED
    BY <1>2, <1>5, <1>14, <2>3, <2>4, <2>7, <2>8, <2>9, <2>10, <2>11, <2>12 DEF Looked
<1> QED
  BY <1>2, <1>13, <1>14

\* The loop is left after the time asked for, the flag's exception apart.
LEMMA OverNotEarly ==
  ASSUME TimerTypeOK, Turn, Over, NEW l \in Nat, NEW o \in Nat, NEW k \in Nat, Looked(l, o, k)'
  PROVE  elapsed' > duration \/ FlagTooEarly
<1>0. Hour \in Nat /\ 0 * Hour = 0 /\ k * Hour \in Int
  BY HourIs, Hours
<1>1. /\ target' = target /\ duration' = duration /\ cur' \in Times /\ target \in Times
      /\ duration \in Nat /\ elapsed' \in Nat
  BY TurnEffect DEF TimerTypeOK
<1>2. /\ l <= elapsed' /\ l + TimeLeft' = duration + k * Hour
      /\ is_last_min' /\ k = 0 => FlagTooEarly' \/ TimeLeft' <= target.sec
  BY <1>1 DEF Looked
<1>3. TimeLeft' = Seconds(time_sub(target, cur')) /\ TimeLeft' \in 0..Hour - 1
  BY <1>1, SubIs, TimeIs DEF TimeLeft
<1>4. is_last_min' /\ (cur'.min # target.min \/ cur'.sec > target.sec)
  BY DEF Over
<1>5. ~(TimeLeft' <= target.sec)
  <2> SUFFICES ASSUME TimeLeft' <= target.sec PROVE FALSE
    OBVIOUS
  <2>1. cur'.min = target.min /\ cur'.sec = target.sec - TimeLeft'
    BY <1>1, <1>3, FarApart
  <2>2. target.sec \in Nat /\ TimeLeft' \in Nat
    BY <1>1, <1>3, TimeIs
  <2> QED
    BY <1>4, <2>1, <2>2
<1>6. CASE k = 0
  BY <1>1, <1>2, <1>4, <1>5, <1>6 DEF FlagTooEarly
<1>7. CASE 0 < k
  <2>1. 0 * Hour + Hour <= k * Hour
    BY <1>7, Hours
  <2>2. PICK K \in Int : K = k * Hour
    BY <1>0
  <2>3. PICK H \in Nat : H = Hour
    BY <1>0
  <2>4. PICK a \in 0..H - 1 : a = TimeLeft'
    BY <1>3, <2>3
  <2>5. PICK d \in Nat : d = duration
    BY <1>1
  <2>6. PICK e2 \in Nat : e2 = elapsed'
    BY <1>1
  <2>7. H <= K
    BY <1>0, <2>1, <2>2, <2>3
  <2>8. l <= e2 /\ l + a = d + K
    BY <1>2, <2>2, <2>4, <2>5, <2>6
  <2>9. e2 > d
    BY <2>7, <2>8
  <2> QED
    BY <2>5, <2>6, <2>9
<1> QED
  BY <1>6, <1>7

LEMMA TimerStep == TimerInv /\ [Turn]_timing => TimerInv'
<1> SUFFICES ASSUME TimerInv, [Turn]_timing PROVE TimerInv'
  OBVIOUS
<1>1. CASE UNCHANGED timing
  <2>1. /\ TimerTypeOK' = TimerTypeOK /\ timer' = timer
        /\ EndsPromptly' = EndsPromptly /\ NotEarly' = NotEarly
    BY <1>1 DEF timing, TimerTypeOK, EndsPromptly, NotEarly, FlagTooEarly
  <2>2. ASSUME NEW l \in Nat, NEW o \in Nat, NEW k \in Nat, Looked(l, o, k) PROVE Looked(l, o, k)'
    BY <1>1, <2>2 DEF timing, Looked, TimeLeft, FlagTooEarly
  <2> QED
    BY <2>1, <2>2 DEF TimerInv
<1>2. CASE Turn
  <2>1. /\ TimerTypeOK /\ TimerTypeOK' /\ timer = "loop"
        /\ timer' = "loop" => ~Over
        /\ timer' = "done" => Over
        /\ target' = target /\ duration' = duration
    BY <1>2, TurnEffect DEF TimerInv
  <2>2. PICK l \in Nat, o \in Nat, k \in Nat : Looked(l, o, k)
    BY <2>1 DEF TimerInv
  <2>3. EndsPromptly'
    BY <1>2, <2>1, <2>2, TurnInTime
  <2>4. \/ \E l2 \in Nat, o2 \in Nat, k2 \in Nat : Looked(l2, o2, k2)'
        \/ Over /\ elapsed' > duration
    <3>1. CASE remain.sec >= 2 /\ cur' = cur /\ remain'.min = remain.min /\ remain'.sec = remain.sec - 2
      <4>1. Looked(l, o, k)'
        BY <1>2, <2>1, <2>2, <3>1, NoLook DEF Counted
      <4> QED
        BY <4>1
    <3>2. CASE Saw
      BY <1>2, <2>1, <2>2, <3>2, Look
    <3> QED
      BY <1>2, <2>1, <3>1, <3>2, TurnEffect DEF Saw
  <2>5. ASSUME Over PROVE elapsed' > duration \/ FlagTooEarly
    BY <1>2, <2>1, <2>4, <2>5, OverNotEarly
  <2>6. timer' = "done" => NotEarly'
    <3>1. FlagTooEarly' = FlagTooEarly
      BY <2>1 DEF FlagTooEarly
    <3> QED
      BY <2>1, <2>5, <3>1 DEF NotEarly
  <2>7. timer' = "loop" => \E l2 \in Nat, o2 \in Nat, k2 \in Nat : Looked(l2, o2, k2)'
    BY <2>1, <2>4
  <2> QED
    BY <2>1, <2>3, <2>6, <2>7 DEF TimerInv
<1> QED
  BY <1>1, <1>2

\* What the invariant says of a timer that runs.
LEMMA WhileItRuns ==
  ASSUME TimerInv, timer = "loop"
  PROVE  EndsPromptly /\ (elapsed <= duration => Seconds(remain) <= duration - elapsed + overrun)
<1>1. PICK l \in Nat, o \in Nat, k \in Nat : Looked(l, o, k)
  BY DEF TimerInv
<1>2. Hour \in Nat /\ 0 * Hour = 0 /\ k * Hour \in Int /\ (0 < k => 0 * Hour + Hour <= k * Hour)
  BY HourIs, Hours
<1>3. /\ duration \in Nat /\ elapsed \in Nat /\ overrun \in Nat /\ remain \in Times
      /\ target \in Times /\ cur \in Times /\ Seconds(remain) \in Nat /\ target.sec \in Nat
  BY TimeIs DEF TimerInv, TimerTypeOK
<1>4. TimeLeft \in 0..Hour - 1
  BY <1>3, SubIs, TimeIs DEF TimeLeft
<1>5. /\ l <= elapsed /\ k <= o /\ o <= overrun /\ l + TimeLeft = duration + k * Hour
      /\ target.sec + 2 + overrun < SecBase => k = 0
  BY <1>1 DEF Looked
<1>6. PICK n \in Nat : TimeLeft = Seconds(remain) + 2 * n /\ elapsed - l <= 2 * n + (overrun - o)
  BY <1>1 DEF Looked
<1>7. PICK K \in Int : K = k * Hour
  BY <1>2
<1>8. PICK H \in Nat : H = Hour
  BY <1>2
<1>9. PICK a \in 0..H - 1 : a = TimeLeft
  BY <1>4, <1>8
<1>10. PICK d \in Nat : d = duration
  BY <1>3
<1>11. PICK e \in Nat : e = elapsed
  BY <1>3
<1>12. PICK s \in Nat : s = Seconds(remain)
  BY <1>3
<1>13. PICK v \in Nat : v = overrun
  BY <1>3
<1>14. l <= e /\ o <= v /\ l + a = d + K /\ a = s + 2 * n /\ e - l <= 2 * n + (v - o)
  BY <1>5, <1>6, <1>7, <1>9, <1>10, <1>11, <1>12, <1>13
<1>15. EndsPromptly
  <2>1. e <= d + K + 2 + (v - o)
    BY <1>14
  <2>2. elapsed <= duration + k * Hour + 2 + (overrun - o)
    BY <1>7, <1>10, <1>11, <1>13, <2>1
  <2>3. elapsed <= duration + 2 + IF target.sec + 2 + overrun < SecBase THEN overrun ELSE overrun * Hour
    BY <1>3, <1>5, <2>2, LateBy
  <2> QED
    BY <2>3 DEF EndsPromptly
<1>16. ASSUME elapsed <= duration PROVE Seconds(remain) <= duration - elapsed + overrun
  <2>1. k = 0
    <3> SUFFICES ASSUME 0 < k PROVE FALSE
      OBVIOUS
    <3>1. H <= K
      BY <1>2, <1>7, <1>8
    <3>2. e <= d
      BY <1>10, <1>11, <1>16
    <3> QED
      BY <1>14, <3>1, <3>2
  <2>2. K = 0
    BY <1>2, <1>7, <2>1
  <2>3. s <= d - e + v
    BY <1>14, <2>2
  <2> QED
    BY <1>10, <1>11, <1>12, <1>13, <2>3
<1> QED
  BY <1>15, <1>16

\* Whatever the sleeps take, the variables of countdown.cpp's main() keep their
\* types: the minutes and seconds it computes with stay within the hour.
THEOREM TimerTypeCorrect == TimerSpec => []TimerTypeOK
<1>1. TimerInv => TimerTypeOK
  BY DEF TimerInv
<1> QED
  BY <1>1, TimerInitInv, TimerStep, PTL DEF TimerSpec

\* The timer does not go off before its time, the flag's exception apart.
THEOREM GoesOffNotEarly == TimerSpec => []NotEarly
<1>1. TimerInv => NotEarly
  BY DEF TimerInv, TimerTypeOK, NotEarly
<1> QED
  BY <1>1, TimerInitInv, TimerStep, PTL DEF TimerSpec

\* The timer goes off in time, and an hour late for each second too much at the
\* worst.
THEOREM GoesOffPromptly == TimerSpec => []EndsPromptly
<1>1. TimerInv => EndsPromptly
  BY WhileItRuns DEF TimerInv, TimerTypeOK
<1> QED
  BY <1>1, TimerInitInv, TimerStep, PTL DEF TimerSpec

\* Sleeps cut short never make the timer show more than what is left.
THEOREM ShowsNotMore == TimerSpec => []ShownNotMore
<1>1. TimerInv => ShownNotMore
  BY WhileItRuns DEF ShownNotMore
<1> QED
  BY <1>1, TimerInitInv, TimerStep, PTL DEF TimerSpec

-----------------------------------------------------------------------------
(* The search: what positional_match() finds *)

\* strchr() finds the first one.
LEMMA StrchrIs ==
  ASSUME NEW S, NEW hay \in Seq(S), NEW k \in 0..Len(hay), NEW c
  PROVE  /\ strchr(hay, k, c) \in k + 1..Len(hay) + 1
         /\ strchr(hay, k, c) <= Len(hay) => hay[strchr(hay, k, c)] = c
         /\ \A j \in k + 1..Len(hay) : hay[j] = c => strchr(hay, k, c) <= j
<1> DEFINE found == {j \in k + 1..Len(hay) : hay[j] = c}
<1>0. Len(hay) \in Nat
  OBVIOUS
<1>1. strchr(hay, k, c) = IF found = {} THEN Len(hay) + 1 ELSE CHOOSE j \in found : \A l \in found : j <= l
  BY DEF strchr
<1>2. CASE found = {}
  <2>1. strchr(hay, k, c) = Len(hay) + 1
    BY <1>1, <1>2
  <2>2. \A j \in k + 1..Len(hay) : hay[j] # c
    BY <1>2
  <2> QED
    BY <1>0, <2>1, <2>2
<1>3. CASE found # {}
  <2>1. found \in SUBSET Nat
    BY <1>0
  <2>2. \E j \in found : \A l \in found : j <= l
    BY <1>3, <2>1, LeastNat
  <2>3. PICK j \in found : strchr(hay, k, c) = j /\ \A l \in found : j <= l
    BY <1>1, <1>3, <2>2, Zenon
  <2> QED
    BY <1>0, <2>3
<1> QED
  BY <1>2, <1>3

\* Where the characters of needle are found, one behind the other.
FoundAt(hay, needle, place) ==
  /\ place \in [0..Len(needle) -> 0..Len(hay) + 1]
  /\ place[0] = 0
  /\ \A n \in 1..Len(needle) :
       place[n] = IF place[n - 1] > Len(hay) THEN Len(hay) + 1 ELSE strchr(hay, place[n - 1], needle[n])

Consecutive(needle, place) == {n \in 1..Len(needle) : n = 1 \/ place[n] = place[n - 1] + 1}

LEMMA MatchIs ==
  ASSUME NEW S, NEW hay \in Seq(S), NEW needle \in Seq(S)
  PROVE  \E place : /\ FoundAt(hay, needle, place)
                    /\ positional_match(hay, needle) =
                         IF place[Len(needle)] > Len(hay) THEN 0 ELSE Cardinality(Consecutive(needle, place))
<1> DEFINE L == Len(needle)
           H == Len(hay)
           V == 0..H + 1
           Then(n, p) == IF p > H THEN H + 1 ELSE strchr(hay, p, needle[n])
           place[n \in 0..L] == IF n = 0 THEN 0 ELSE IF place[n - 1] > H THEN H + 1 ELSE strchr(hay, place[n - 1], needle[n])
           G == [q \in Nat \X V |-> Then(q[1], q[2])]
<1>0. L \in Nat /\ H \in Nat
  OBVIOUS
<1>1. ASSUME NEW n, NEW p \in V PROVE Then(n, p) \in V
  <2>1. CASE p > H
    BY <1>0, <2>1
  <2>2. CASE ~(p > H)
    <3>1. p \in 0..Len(hay)
      BY <1>0, <2>2
    <3>2. strchr(hay, p, needle[n]) \in p + 1..Len(hay) + 1
      BY <3>1, StrchrIs
    <3> QED
      BY <1>0, <2>2, <3>2
  <2> QED
    BY <2>1, <2>2
<1>2. \A n \in 0 + 1..L, p \in V : G[<<n, p>>] = Then(n, p) /\ G[<<n, p>>] \in V
  <2>1. \A n \in 0 + 1..L : n \in Nat
    OBVIOUS
  <2> HIDE DEF Then
  <2> QED
    BY <1>1, <2>1
<1>3. 0 \in V /\ 0 \in Nat /\ 0 <= L
  BY <1>0
<1> HIDE DEF G, V
<1>4. PICK f \in [0..L -> V] : f[0] = 0 /\ \A n \in 0 + 1..L : f[n] = G[<<n, f[n - 1]>>]
  <2>1. Recursive(V, 0, 0, L, G)
    BY <1>0, <1>2, <1>3, Recursion
  <2> QED
    BY <2>1 DEF Recursive
<1>5. \A n \in 1..L : n \in 0 + 1..L /\ n - 1 \in 0..L /\ n # 0
  BY <1>0
<1>6. \A n \in 1..L : f[n] = Then(n, f[n - 1])
  <2> HIDE DEF Then
  <2> QED
    BY <1>2, <1>4, <1>5
<1>7. f = [n \in 0..L |-> IF n = 0 THEN 0 ELSE IF f[n - 1] > H THEN H + 1 ELSE strchr(hay, f[n - 1], needle[n])]
  <2> DEFINE g == [n \in 0..L |-> IF n = 0 THEN 0 ELSE Then(n, f[n - 1])]
  <2>1. ASSUME NEW n \in 0..L PROVE f[n] = g[n]
    <3>1. n = 0 \/ n \in 1..L
      BY <1>0
    <3> HIDE DEF Then
    <3> QED
      BY <1>4, <1>5, <1>6, <3>1
  <2>2. f = g
    <3> HIDE DEF Then
    <3> QED
      BY <1>4, <2>1
  <2> QED
    BY <2>2
<1>8. place = [n \in 0..L |-> IF n = 0 THEN 0 ELSE IF place[n - 1] > H THEN H + 1 ELSE strchr(hay, place[n - 1], needle[n])]
  BY <1>7
<1>9. positional_match(hay, needle) = IF place[L] > H THEN 0 ELSE Cardinality({n \in 1..L : n = 1 \/ place[n] = place[n - 1] + 1})
  BY DEF positional_match
<1> HIDE DEF place
<1>10. place[0] = 0 /\ \A n \in 1..L : place[n] = Then(n, place[n - 1])
  <2>1. place[0] = 0
    BY <1>0, <1>8
  <2>2. ASSUME NEW n \in 1..L PROVE place[n] = Then(n, place[n - 1])
    <3>1. n \in 0..L /\ n # 0
      BY <1>0
    <3> QED
      BY <1>8, <3>1
  <2> QED
    BY <2>1, <2>2
<1>11. \A n \in 0..L : place[n] = f[n]
  <2> DEFINE T == {n \in 0..L : place[n] = f[n]}
  <2>1. 0 \in T
    BY <1>0, <1>4, <1>10
  <2>2. \A n \in 0 + 1..L : n - 1 \in T => n \in T
    <3> HIDE DEF Then
    <3>1. \A n \in 0 + 1..L : n \in 1..L /\ n \in 0..L
      BY <1>0
    <3> QED
      BY <1>6, <1>10, <3>1
  <2> HIDE DEF T
  <2>3. \A n \in 0..L : n \in T
    BY <1>0, <2>1, <2>2, Upward
  <2> QED
    BY <2>3 DEF T
<1>12. place \in [0..L -> V]
  BY <1>4, <1>8, <1>11
<1> QED
  BY <1>9, <1>10, <1>12 DEF FoundAt, Consecutive, V

\* As long as nothing is missing, each character is behind the one before.
LEMMA PlacesGrow ==
  ASSUME NEW S, NEW hay \in Seq(S), NEW needle \in Seq(S), NEW place, FoundAt(hay, needle, place),
         place[Len(needle)] <= Len(hay)
  PROVE  \A n \in 1..Len(needle) :
           /\ n - 1 \in 0..Len(needle) /\ place[n - 1] \in 0..Len(hay)
           /\ place[n] \in place[n - 1] + 1..Len(hay) /\ place[n] \in 1..Len(hay)
           /\ hay[place[n]] = needle[n]
<1> DEFINE L == Len(needle)
           H == Len(hay)
<1>0. L \in Nat /\ H \in Nat /\ place \in [0..L -> 0..H + 1] /\ place[0] = 0
  BY DEF FoundAt
<1>1. ASSUME NEW m \in 0..L, place[m] > H PROVE FALSE
  <2> DEFINE T == {n \in m..L : place[n] > H}
  <2>1. m \in T
    BY <1>0, <1>1
  <2>2. ASSUME NEW n \in m + 1..L, n - 1 \in T PROVE n \in T
    <3>1. n \in 1..L /\ n \in m..L
      BY <1>0
    <3>2. place[n] = H + 1
      BY <2>2, <3>1 DEF FoundAt
    <3> QED
      BY <1>0, <3>1, <3>2
  <2> HIDE DEF T
  <2>3. m \in Nat /\ m <= L
    BY <1>0
  <2>4. \A n \in m..L : n \in T
    BY <1>0, <2>1, <2>2, <2>3, Upward
  <2>5. L \in T
    BY <1>0, <2>3, <2>4
  <2> QED
    BY <1>0, <2>5 DEF T
<1>2. ASSUME NEW n \in 1..L
      PROVE  /\ n - 1 \in 0..L /\ place[n - 1] \in 0..H
             /\ place[n] \in place[n - 1] + 1..H /\ place[n] \in 1..H
             /\ hay[place[n]] = needle[n]
  <2>1. n - 1 \in 0..L /\ n \in 0..L
    BY <1>0
  <2>2. place[n - 1] \in 0..H /\ place[n] \in 0..H
    BY <1>0, <1>1, <2>1
  <2>3. place[n] = strchr(hay, place[n - 1], needle[n])
    BY <1>0, <2>2 DEF FoundAt
  <2>4. place[n] \in place[n - 1] + 1..H + 1 /\ (place[n] <= H => hay[place[n]] = needle[n])
    BY <2>2, <2>3, StrchrIs
  <2> QED
    BY <1>0, <2>1, <2>2, <2>4
<1> QED
  BY <1>2

\* What needle may do in hay: the reference's places.
Fits(needle, hay, p) ==
  /\ p \in [1..Len(needle) -> 1..Len(hay)]
  /\ \A n \in 1..Len(needle) : hay[p[n]] = needle[n]
  /\ \A n \in 1..Len(needle) - 1 : p[n] < p[n + 1]

\* No places are further in front than the first ones.
LEMMA FirstPlaces ==
  ASSUME NEW S, NEW hay \in Seq(S), NEW needle \in Seq(S), NEW place, FoundAt(hay, needle, place),
         NEW p, Fits(needle, hay, p)
  PROVE  /\ \A n \in 1..Len(needle) : place[n] <= p[n]
         /\ place[Len(needle)] <= Len(hay)
<1> DEFINE L == Len(needle)
           H == Len(hay)
<1>0. L \in Nat /\ H \in Nat /\ place \in [0..L -> 0..H + 1] /\ place[0] = 0
  BY DEF FoundAt
<1>1. \A n \in 1..L : p[n] \in 1..H /\ hay[p[n]] = needle[n]
  BY DEF Fits
<1> DEFINE T == {n \in 0..L : n = 0 \/ place[n] <= p[n]}
<1>2. 0 \in T
  BY <1>0
<1>3. ASSUME NEW n \in 0 + 1..L, n - 1 \in T PROVE n \in T
  <2>1. n \in 1..L /\ n \in 0..L /\ n - 1 \in 0..L
    BY <1>0
  <2>2. place[n - 1] < p[n] /\ place[n - 1] \in 0..H
    <3>1. CASE n = 1
      BY <1>0, <1>1, <2>1, <3>1
    <3>2. CASE n # 1
      <4>1. n - 1 \in 1..L /\ n - 1 \in 1..L - 1 /\ (n - 1) + 1 = n
        BY <1>0, <2>1, <3>2
      <4>2. p[n - 1] < p[n]
        BY <4>1 DEF Fits
      <4>3. place[n - 1] <= p[n - 1]
        BY <1>3, <4>1
      <4>4. p[n] \in 1..H /\ p[n - 1] \in 1..H /\ place[n - 1] \in 0..H + 1
        BY <1>0, <1>1, <2>1, <4>1
      <4> QED
        BY <1>0, <4>2, <4>3, <4>4
    <3> QED
      BY <3>1, <3>2
  <2>3. place[n] = strchr(hay, place[n - 1], needle[n])
    BY <1>0, <2>1, <2>2 DEF FoundAt
  <2>4. p[n] \in place[n - 1] + 1..H /\ hay[p[n]] = needle[n]
    BY <1>0, <1>1, <2>1, <2>2
  <2>5. place[n] <= p[n]
    BY <2>2, <2>3, <2>4, StrchrIs
  <2> QED
    BY <2>1, <2>5
<1> HIDE DEF T
<1>4. \A n \in 0..L : n \in T
  BY <1>0, <1>2, <1>3, Upward
<1>5. \A n \in 1..L : place[n] <= p[n]
  BY <1>0, <1>4 DEF T
<1>6. place[L] <= H
  <2>1. L = 0 \/ L \in 1..L
    BY <1>0
  <2>2. L \in 0..L /\ place[L] \in 0..H + 1
    BY <1>0
  <2> QED
    BY <1>0, <1>1, <1>5, <2>1, <2>2
<1> QED
  BY <1>5, <1>6

\* positional_match() finds what is there in order, and scores no more than the
\* length of needle.
LEMMA MatchExact ==
  ASSUME NEW S, NEW hay \in Seq(S), NEW needle \in Seq(S)
  PROVE  /\ positional_match(hay, needle) \in 0..Len(needle)
         /\ positional_match(hay, needle) > 0 <=> needle # <<>> /\ AppearsIn(needle, hay)
<1> DEFINE L == Len(needle)
           H == Len(hay)
<1>0. L \in Nat /\ H \in Nat /\ (needle = <<>> <=> L = 0)
  OBVIOUS
<1>1. PICK place : /\ FoundAt(hay, needle, place)
                   /\ positional_match(hay, needle) =
                        IF place[L] > H THEN 0 ELSE Cardinality(Consecutive(needle, place))
  BY MatchIs
<1> DEFINE C == Consecutive(needle, place)
<1>2. IsFiniteSet(C) /\ Cardinality(C) \in 0..L
  <2>1. IsFiniteSet(1..L) /\ Cardinality(1..L) = L
    <3>1. 1 \in Int /\ L \in Int /\ (IF 1 > L THEN 0 ELSE L - 1 + 1) = L
      BY <1>0
    <3> QED
      BY <3>1, FS_Interval
  <2>2. C \subseteq 1..L
    BY DEF Consecutive
  <2>3. IsFiniteSet(C) /\ Cardinality(C) <= Cardinality(1..L)
    BY <2>1, <2>2, FS_Subset
  <2>4. Cardinality(C) \in Nat
    BY <2>3, FS_CardinalityType
  <2> QED
    BY <1>0, <2>1, <2>3, <2>4
<1>3. Cardinality(C) > 0 <=> L # 0
  <2>1. Cardinality(C) = 0 <=> C = {}
    BY <1>2, FS_EmptySet
  <2>2. L # 0 => 1 \in C
    BY <1>0 DEF Consecutive
  <2>3. L = 0 => C = {}
    BY <1>0 DEF Consecutive
  <2> QED
    BY <1>0, <1>2, <2>1, <2>2, <2>3
<1>4. place[L] \in 0..H + 1
  BY <1>0, <1>1 DEF FoundAt
<1>5. ASSUME ~(place[L] > H) PROVE AppearsIn(needle, hay)
  <2>0. place[L] <= H
    BY <1>0, <1>4, <1>5
  <2>1. \A n \in 1..L : /\ n - 1 \in 0..L /\ place[n - 1] \in 0..H
                        /\ place[n] \in place[n - 1] + 1..H /\ place[n] \in 1..H
                        /\ hay[place[n]] = needle[n]
    BY <1>1, <2>0, PlacesGrow
  <2> DEFINE p == [n \in 1..L |-> place[n]]
  <2>2. p \in [1..L -> 1..H] /\ \A n \in 1..L : hay[p[n]] = needle[n]
    BY <2>1
  <2>3. ASSUME NEW n \in 1..L - 1 PROVE p[n] < p[n + 1]
    <3>1. n \in 1..L /\ n + 1 \in 1..L /\ (n + 1) - 1 = n
      BY <1>0
    <3>2. place[n + 1] \in place[n] + 1..H /\ place[n] \in 0..H
      BY <2>1, <3>1
    <3> QED
      BY <3>1, <3>2
  <2> QED
    BY <2>2, <2>3 DEF AppearsIn
<1>6. ASSUME AppearsIn(needle, hay) PROVE ~(place[L] > H)
  <2>1. PICK p : Fits(needle, hay, p)
    BY <1>6 DEF AppearsIn, Fits
  <2>2. place[L] <= H
    BY <1>1, <2>1, FirstPlaces
  <2> QED
    BY <1>0, <1>4, <2>2
<1> QED
  BY <1>0, <1>1, <1>2, <1>3, <1>5, <1>6

\* The best score is that of a line that starts with needle.
LEMMA MatchPerfect ==
  ASSUME NEW S, NEW hay \in Seq(S), NEW needle \in Seq(S), needle # <<>>
  PROVE  positional_match(hay, needle) = Len(needle) /\ starts_with(hay, needle[1]) <=> IsPrefix(needle, hay)
<1> DEFINE L == Len(needle)
           H == Len(hay)
<1>0. L \in Nat /\ H \in Nat /\ L > 0 /\ 1 \in 1..L /\ (hay = <<>> <=> H = 0)
  OBVIOUS
<1>1. PICK place : /\ FoundAt(hay, needle, place)
                   /\ positional_match(hay, needle) =
                        IF place[L] > H THEN 0 ELSE Cardinality(Consecutive(needle, place))
  BY MatchIs
<1> DEFINE C == Consecutive(needle, place)
<1>2. IsFiniteSet(1..L) /\ Cardinality(1..L) = L /\ C \subseteq 1..L
  <2>1. 1 \in Int /\ L \in Int /\ (IF 1 > L THEN 0 ELSE L - 1 + 1) = L
    BY <1>0
  <2>2. IsFiniteSet(1..L) /\ Cardinality(1..L) = L
    BY <2>1, FS_Interval
  <2> QED
    BY <2>2 DEF Consecutive
<1>3. IsPrefix(needle, hay) <=> L <= H /\ \A n \in 1..L : hay[n] = needle[n]
  <2>1. ASSUME L <= H
        PROVE  SubSeq(needle, 1, L) = SubSeq(hay, 1, L) <=> \A n \in 1..L : hay[n] = needle[n]
    <3>1. SubSeq(needle, 1, L) = needle
      OBVIOUS
    <3>2. SubSeq(hay, 1, L) \in Seq(S) /\ Len(SubSeq(hay, 1, L)) = L /\ \A n \in 1..L : SubSeq(hay, 1, L)[n] = hay[n]
      BY <1>0, <2>1
    <3> QED
      BY <1>0, <3>1, <3>2
  <2> QED
    BY <2>1 DEF IsPrefix
<1>4. place[0] = 0 /\ place[L] \in 0..H + 1
  BY <1>0, <1>1 DEF FoundAt
<1>5. ASSUME positional_match(hay, needle) = L, starts_with(hay, needle[1])
      PROVE  L <= H /\ \A n \in 1..L : hay[n] = needle[n]
  <2>1. place[L] <= H /\ Cardinality(C) = L
    BY <1>0, <1>1, <1>4, <1>5
  <2>2. C = 1..L
    BY <1>2, <2>1, FS_Subset
  <2>3. \A n \in 1..L : /\ place[n] \in place[n - 1] + 1..H /\ place[n] \in 1..H
                        /\ hay[place[n]] = needle[n]
    BY <1>1, <2>1, PlacesGrow
  <2>4. place[1] = 1
    <3>1. H > 0 /\ hay[1] = needle[1] /\ 1 \in 0 + 1..H
      BY <1>0, <1>5 DEF starts_with
    <3>2. place[1] = strchr(hay, 0, needle[1])
      BY <1>0, <1>4 , <1>1 DEF FoundAt
    <3>3. place[1] <= 1
      BY <1>0, <3>1, <3>2, StrchrIs
    <3> QED
      BY <1>0, <2>3, <3>3
  <2> DEFINE T == {n \in 1..L : place[n] = n}
  <2>5. 1 \in T
    BY <1>0, <2>4
  <2>6. ASSUME NEW n \in 1 + 1..L, n - 1 \in T PROVE n \in T
    <3>1. n \in 1..L /\ n # 1
      BY <1>0
    <3>2. place[n] = place[n - 1] + 1
      BY <2>2, <3>1 DEF Consecutive
    <3> QED
      BY <2>6, <3>1, <3>2
  <2> HIDE DEF T
  <2>7. \A n \in 1..L : n \in T
    BY <1>0, <2>5, <2>6, Upward
  <2>8. \A n \in 1..L : place[n] = n
    BY <2>7 DEF T
  <2>9. L <= H
    BY <1>0, <2>1, <2>8
  <2> QED
    BY <2>3, <2>8, <2>9
<1>6. ASSUME L <= H, \A n \in 1..L : hay[n] = needle[n]
      PROVE  positional_match(hay, needle) = L /\ starts_with(hay, needle[1])
  <2> DEFINE p == [n \in 1..L |-> n]
  <2>1. Fits(needle, hay, p)
    BY <1>0, <1>6 DEF Fits
  <2> HIDE DEF p
  <2>2. (\A n \in 1..L : place[n] <= p[n]) /\ place[L] <= H
    BY <1>1, <2>1, FirstPlaces
  <2>3. \A n \in 1..L : place[n] <= n
    BY <2>2 DEF p
  <2>4. \A n \in 1..L : /\ n - 1 \in 0..L /\ place[n - 1] \in 0..H
                        /\ place[n] \in place[n - 1] + 1..H
    BY <1>1, <2>2, PlacesGrow
  <2> DEFINE T == {n \in 0..L : place[n] = n}
  <2>5. 0 \in T
    BY <1>0, <1>4
  <2>6. ASSUME NEW n \in 0 + 1..L, n - 1 \in T PROVE n \in T
    <3>1. n \in 1..L /\ n \in 0..L
      BY <1>0
    <3> QED
      BY <2>3, <2>4, <2>6, <3>1
  <2> HIDE DEF T
  <2>7. \A n \in 0..L : n \in T
    BY <1>0, <2>5, <2>6, Upward
  <2>8. ASSUME NEW n \in 1..L PROVE place[n] = n /\ place[n - 1] = n - 1
    <3>1. n \in 0..L /\ n - 1 \in 0..L
      BY <1>0
    <3> QED
      BY <2>7, <3>1 DEF T
  <2>9. C = 1..L
    BY <2>8 DEF Consecutive
  <2>10. ~(place[L] > H)
    BY <1>0, <1>4, <2>2
  <2>11. positional_match(hay, needle) = L
    BY <1>1, <1>2, <2>9, <2>10
  <2> QED
    BY <1>0, <1>6, <2>11 DEF starts_with
<1> QED
  BY <1>3, <1>5, <1>6

-----------------------------------------------------------------------------
(* The search: scores *)

FileChars == DOMAIN tolower

\* The string that starts with s ends at the first NUL.
LEMMA CStringIs ==
  ASSUME NEW s \in Seq(FileChars \cup {NUL})
  PROVE  /\ CString(s) \in Seq(FileChars)
         /\ CString(s) # <<>> => s # <<>> /\ CString(s)[1] = s[1]
<1> DEFINE L == Len(s)
           Ends(t) == /\ NUL \notin Range(t)
                      /\ Len(t) < Len(s) => s[Len(t) + 1] = NUL
<1>0. L \in Nat /\ NUL \notin FileChars
  BY FuzzySearchAssumption DEF FileChars
<1>1. \A l \in 0..L : /\ SubSeq(s, 1, l) \in Seq(FileChars \cup {NUL}) /\ Len(SubSeq(s, 1, l)) = l
                      /\ \A k \in 1..l : SubSeq(s, 1, l)[k] = s[k]
  BY <1>0
<1>2. \A l \in 0..L : NUL \in Range(SubSeq(s, 1, l)) <=> \E k \in 1..l : s[k] = NUL
  <2>1. ASSUME NEW l \in 0..L PROVE Range(SubSeq(s, 1, l)) = {s[k] : k \in 1..l}
    <3>1. DOMAIN SubSeq(s, 1, l) = 1..l
      BY <1>1
    <3> QED
      BY <1>1, <3>1 DEF Range
  <2> QED
    BY <2>1
<1>3. \E t \in Prefixes(s) : Ends(t)
  <2> DEFINE Z == {k \in 1..L : s[k] = NUL}
  <2>1. CASE Z = {}
    <3>1. L \in 0..L
      BY <1>0
    <3>2. Ends(SubSeq(s, 1, L))
      BY <1>0, <1>1, <1>2, <2>1, <3>1
    <3> QED
      BY <3>1, <3>2 DEF Prefixes
  <2>2. CASE Z # {}
    <3>1. Z \in SUBSET Nat
      BY <1>0
    <3>2. PICK j \in Z : \A k \in Z : j <= k
      BY <2>2, <3>1, LeastNat
    <3>3. j - 1 \in 0..L /\ (j - 1) + 1 = j /\ \A k \in 1..j - 1 : s[k] # NUL
      BY <1>0, <3>2
    <3>4. Ends(SubSeq(s, 1, j - 1))
      BY <1>1, <1>2, <3>2, <3>3
    <3> QED
      BY <3>3, <3>4 DEF Prefixes
  <2> QED
    BY <2>1, <2>2
<1> DEFINE c == CString(s)
<1>5. CString(s) \in Prefixes(s) /\ NUL \notin Range(CString(s))
  BY <1>3, Zenon DEF CString
<1>6. PICK l \in 0..L : c = SubSeq(s, 1, l)
  BY <1>5 DEF Prefixes
<1>7. \A k \in 1..l : k \in 1..L /\ c[k] = s[k] /\ s[k] # NUL /\ s[k] \in FileChars \cup {NUL}
  BY <1>0, <1>1, <1>2, <1>5, <1>6
<1>8. c \in Seq(FileChars)
  <2>1. c \in [1..l -> FileChars]
    <3>1. c \in Seq(FileChars \cup {NUL}) /\ Len(c) = l
      BY <1>1, <1>6
    <3>2. \A k \in 1..l : c[k] \in FileChars
      BY <1>7
    <3> HIDE DEF c
    <3> QED
      BY <3>1, <3>2
  <2> QED
    BY <1>0, <2>1
<1>9. c # <<>> => s # <<>> /\ c[1] = s[1]
  <2>1. c # <<>> => 1 \in 1..l
    BY <1>0, <1>1, <1>6
  <2>2. s = <<>> => L = 0
    OBVIOUS
  <2> QED
    BY <1>0, <1>7, <2>1, <2>2
<1> QED
  BY <1>8, <1>9

\* What s_tolower() makes of a line of the file.
LEMMA LowerIs ==
  ASSUME NEW line \in Seq(FileChars)
  PROVE  s_tolower(line) \in Seq(FileChars)
<1> DEFINE n == IF Len(line) < MAX_INPUT - 1 THEN Len(line) ELSE MAX_INPUT - 1
<1>1. MAX_INPUT \in Nat \ {0} /\ tolower \in [FileChars -> FileChars] /\ Len(line) \in Nat
  BY FuzzySearchAssumption DEF FileChars
<1>2. n \in Nat /\ n <= Len(line)
  BY <1>1
<1>3. s_tolower(line) = [k \in 1..n |-> tolower[line[k]]]
  BY DEF s_tolower
<1> HIDE DEF n
<1>4. \A k \in 1..n : line[k] \in FileChars /\ tolower[line[k]] \in FileChars
  BY <1>1, <1>2
<1> QED
  BY <1>2, <1>3, <1>4

\* Every score is a number, whatever lies behind input.
LEMMA ScoreType ==
  ASSUME NEW line \in Seq(FileChars), NEW in \in Seq(FileChars \cup {NUL}), NEW b \in Behind
  PROVE  Score(line, in, b) \in Nat
<1> DEFINE s == IF Len(in) < MAX_INPUT THEN in ELSE in \o b
           m == positional_match(s_tolower(line), Needle(in, b))
<1>1. b \in Seq(FileChars)
  BY FuzzySearchAssumption DEF FileChars
<1>2. s \in Seq(FileChars \cup {NUL})
  <2>1. b \in Seq(FileChars \cup {NUL})
    BY <1>1
  <2> QED
    BY <2>1
<1>3. Needle(in, b) \in Seq(FileChars)
  BY <1>2, CStringIs DEF Needle
<1>4. Len(Needle(in, b)) \in Nat
  BY <1>3
<1>5. m \in Nat
  BY <1>3, <1>4, LowerIs, MatchExact
<1>6. Score(line, in, b) = IF m > 0 /\ starts_with(s_tolower(line), in[1]) THEN m + 1 ELSE m
  BY DEF Score
<1> QED
  BY <1>5, <1>6

\* With a zero behind it, input is scored by what it says: a score of 0 is that
\* of no match, and the best is that of a line that starts with the keyword.
LEMMA ScoreIs ==
  ASSUME NEW line \in Seq(FileChars), NEW in \in Seq(FileChars \cup {NUL}), Len(in) < MAX_INPUT, NEW b
  PROVE  LET w == CString(in)
             hay == s_tolower(line)
             score == Score(line, in, b) IN
         /\ score \in 0..Len(w) + 1 /\ Len(w) \in Nat
         /\ score > 0 <=> w # <<>> /\ AppearsIn(w, hay)
         /\ w # <<>> => (score = Len(w) + 1 <=> IsPrefix(w, hay))
<1> DEFINE w == CString(in)
           hay == s_tolower(line)
           m == positional_match(hay, w)
           score == Score(line, in, b)
<1>1. w \in Seq(FileChars) /\ Len(w) \in Nat /\ (w # <<>> => w[1] = in[1])
  BY CStringIs
<1>2. hay \in Seq(FileChars)
  BY LowerIs
<1>3. Needle(in, b) = w
  BY DEF Needle
<1>4. score = IF m > 0 /\ starts_with(hay, in[1]) THEN m + 1 ELSE m
  BY <1>3 DEF Score
<1> HIDE DEF w, hay, m, score
<1>5. m \in 0..Len(w) /\ (m > 0 <=> w # <<>> /\ AppearsIn(w, hay))
  BY <1>1, <1>2, MatchExact DEF m
<1>6. w # <<>> => (m = Len(w) /\ starts_with(hay, w[1]) <=> IsPrefix(w, hay))
  BY <1>1, <1>2, MatchPerfect DEF m
<1>7. score \in 0..Len(w) + 1 /\ (score > 0 <=> m > 0)
  BY <1>1, <1>4, <1>5
<1>8. ASSUME w # <<>> PROVE score = Len(w) + 1 <=> m = Len(w) /\ starts_with(hay, w[1])
  <2>1. Len(w) > 0
    BY <1>1, <1>8
  <2> QED
    BY <1>1, <1>4, <1>5, <1>8, <2>1
<1> QED
  BY <1>1, <1>5, <1>6, <1>7, <1>8 DEF w, hay, score

-----------------------------------------------------------------------------
(* The search: the invariant *)

\* The sequences of the elements of a finite set.
LEMMA OrderIs ==
  ASSUME NEW T, IsFiniteSet(T), NEW order \in SetToSeqs(T)
  PROVE  /\ order \in Seq(T)
         /\ {order[k] : k \in 1..Len(order)} = T
         /\ \A k, l \in 1..Len(order) : order[k] = order[l] => k = l
<1> DEFINE n == Cardinality(T)
<1>1. n \in Nat
  BY FS_CardinalityType
<1>2. order \in [1..n -> T] /\ \A k, l \in 1..n : k # l => order[k] # order[l]
  BY DEF SetToSeqs
<1>3. IsFiniteSet(1..n) /\ Cardinality(1..n) = n
  <2>1. 1 \in Int /\ n \in Int /\ (IF 1 > n THEN 0 ELSE n - 1 + 1) = n
    BY <1>1
  <2> HIDE DEF n
  <2> QED
    BY <2>1, FS_Interval
<1>4. order \in Injection(1..n, T)
  BY <1>2 DEF Injection, IsInjective
<1>5. order \in Surjection(1..n, T)
  BY <1>3, <1>4, FS_Injection
<1>6. \A t \in T : \E k \in 1..n : order[k] = t
  BY <1>5 DEF Surjection
<1>7. order \in Seq(T) /\ Len(order) = n
  BY <1>1, <1>2
<1> QED
  BY <1>2, <1>6, <1>7

\* What is shown, as Type leaves it: the lines of list that score, each once,
\* the better behind.
Shown(score, order, in) ==
  /\ score \in [1..Len(list) -> Nat]
  /\ \A n \in 1..Len(list) : \E b \in Behind : score[n] = Score(list[n], in, b)
  /\ order \in Seq(1..Len(list))
  /\ {order[k] : k \in 1..Len(order)} = {n \in 1..Len(list) : score[n] > 0}
  /\ \A k, l \in 1..Len(order) : order[k] = order[l] => k = l
  /\ \A k \in 1..Len(order) - 1 : score[order[k]] <= score[order[k + 1]]

LEMMA TypeEffect ==
  ASSUME SearchTypeOK, Type
  PROVE  /\ phase = "type" /\ list' = list /\ max_size' = max_size
         /\ input' \in Seq(FileChars \cup {NUL}) /\ Len(input') = Len(input) + 1
         /\ phase' = IF Len(input') = MAX_INPUT THEN "done" ELSE "type"
         /\ \E score, order : /\ Shown(score, order, input')
                              /\ matches' = [k \in 1..Len(order) |-> [score |-> score[order[k]], str |-> order[k]]]
<1>0. /\ list \in Seq(Lines) /\ Lines \subseteq Seq(FileChars) /\ Len(list) \in Nat
      /\ \A n \in 1..Len(list) : list[n] \in Seq(FileChars)
  BY FuzzySearchAssumption DEF SearchTypeOK, FileChars
<1>1. phase = "type" /\ list' = list /\ max_size' = max_size /\ phase' = IF Len(input') = MAX_INPUT THEN "done" ELSE "type"
  BY DEF Type
<1>2. input' \in Seq(FileChars \cup {NUL}) /\ Len(input') = Len(input) + 1
  <2>1. PICK c \in Typed : input' = Append(input, IF c = NUL THEN c ELSE tolower[c])
    BY DEF Type
  <2>2. (IF c = NUL THEN c ELSE tolower[c]) \in FileChars \cup {NUL}
    BY FuzzySearchAssumption DEF FileChars
  <2>3. input \in Seq(FileChars \cup {NUL})
    BY DEF SearchTypeOK, FileChars
  <2> QED
    BY <2>1, <2>2, <2>3
<1> DEFINE Scores(b) == [n \in 1..Len(list) |-> Score(list[n], input', b[n])]
           Hits(s) == {n \in 1..Len(list) : s[n] > 0}
<1>3. PICK b \in [1..Len(list) -> Behind] : \E order \in SetToSeqs(Hits(Scores(b))) :
         /\ \A k \in 1..Len(order) - 1 : Scores(b)[order[k]] <= Scores(b)[order[k + 1]]
         /\ matches' = [k \in 1..Len(order) |-> [score |-> Scores(b)[order[k]], str |-> order[k]]]
  BY DEF Type
<1> DEFINE score == Scores(b)
<1>4. PICK order \in SetToSeqs(Hits(score)) :
         /\ \A k \in 1..Len(order) - 1 : score[order[k]] <= score[order[k + 1]]
         /\ matches' = [k \in 1..Len(order) |-> [score |-> score[order[k]], str |-> order[k]]]
  BY <1>3
<1>5. \A n \in 1..Len(list) : score[n] = Score(list[n], input', b[n]) /\ b[n] \in Behind
  OBVIOUS
<1>6. score \in [1..Len(list) -> Nat]
  <2>1. ASSUME NEW n \in 1..Len(list) PROVE Score(list[n], input', b[n]) \in Nat
    BY <1>0, <1>2, ScoreType
  <2> QED
    BY <2>1
<1> HIDE DEF score
<1>7. IsFiniteSet(Hits(score)) /\ Hits(score) \subseteq 1..Len(list)
  <2>1. IsFiniteSet(1..Len(list))
    BY <1>0, FS_Interval
  <2>2. Hits(score) \in SUBSET (1..Len(list))
    OBVIOUS
  <2> HIDE DEF Hits
  <2> QED
    BY <2>1, <2>2, FS_Subset
<1>8. /\ order \in Seq(Hits(score))
      /\ {order[k] : k \in 1..Len(order)} = Hits(score)
      /\ \A k, l \in 1..Len(order) : order[k] = order[l] => k = l
  <2> HIDE DEF Hits
  <2> QED
    BY <1>7, OrderIs
<1>9. order \in Seq(1..Len(list))
  <2> HIDE DEF Hits
  <2> QED
    BY <1>7, <1>8
<1>10. Shown(score, order, input')
  BY <1>4, <1>5, <1>6, <1>8, <1>9 DEF Shown
<1> QED
  BY <1>1, <1>2, <1>4, <1>10

SearchInv ==
  /\ SearchTypeOK
  /\ phase \in {"load", "failed"} => input = <<>> /\ matches = <<>>
  /\ phase = "type" => Len(input) < MAX_INPUT
  /\ MatchedExactly
  /\ KeywordPreferred

LEMMA SearchInitInv == SearchInit => SearchInv
<1> SUFFICES ASSUME SearchInit PROVE SearchInv
  OBVIOUS
<1>1. SearchTypeOK
  BY FuzzySearchAssumption DEF SearchInit, SearchTypeOK
<1>2. ~Terminated
  BY FuzzySearchAssumption DEF SearchInit, Terminated
<1> QED
  BY <1>1, <1>2 DEF SearchInit, SearchInv, MatchedExactly, KeywordPreferred

\* Scores that do not fall from one to the next do not fall at all.
LEMMA Ascending ==
  ASSUME NEW N \in Nat, NEW f \in [1..N -> Nat], \A k \in 1..N - 1 : f[k] <= f[k + 1]
  PROVE  \A k \in 1..N : \A l \in 1..k : f[l] <= f[k]
<1> SUFFICES ASSUME NEW k \in 1..N, NEW l \in 1..k PROVE f[l] <= f[k]
  OBVIOUS
<1> DEFINE T == {j \in l..k : f[l] <= f[j]}
<1>1. l \in Nat /\ k \in Nat /\ l <= k /\ l \in T
  OBVIOUS
<1>2. ASSUME NEW j \in l + 1..k, j - 1 \in T PROVE j \in T
  <2>1. j - 1 \in 1..N - 1 /\ (j - 1) + 1 = j /\ j \in l..k /\ l \in 1..N /\ j \in 1..N /\ j - 1 \in 1..N
    OBVIOUS
  <2>2. f[j - 1] <= f[j]
    BY <2>1
  <2>3. f[l] \in Nat /\ f[j - 1] \in Nat /\ f[j] \in Nat
    BY <2>1
  <2>4. f[l] <= f[j]
    BY <1>2, <2>2, <2>3
  <2> QED
    BY <2>1, <2>4
<1> HIDE DEF T
<1>3. \A j \in l..k : j \in T
  BY <1>1, <1>2, Upward
<1>4. k \in T
  BY <1>1, <1>3
<1> QED
  BY <1>4 DEF T

\* What a search shows is right.
LEMMA TypeShows ==
  ASSUME SearchTypeOK, Type
  PROVE  MatchedExactly' /\ KeywordPreferred' /\ matches' \in Seq([score : Nat, str : 1..Len(list)])
<1>1. PICK score, order : /\ Shown(score, order, input')
                          /\ matches' = [k \in 1..Len(order) |-> [score |-> score[order[k]], str |-> order[k]]]
  BY TypeEffect
<1>2. /\ list' = list /\ input' \in Seq(FileChars \cup {NUL}) /\ Len(list) \in Nat
      /\ \A n \in 1..Len(list) : list[n] \in Seq(FileChars)
  BY TypeEffect, FuzzySearchAssumption DEF SearchTypeOK, FileChars
<1>3. /\ score \in [1..Len(list) -> Nat] /\ order \in Seq(1..Len(list))
      /\ {order[k] : k \in 1..Len(order)} = {n \in 1..Len(list) : score[n] > 0}
      /\ \A k, l \in 1..Len(order) : order[k] = order[l] => k = l
      /\ \A k \in 1..Len(order) - 1 : score[order[k]] <= score[order[k + 1]]
  BY <1>1 DEF Shown
<1>4. Len(order) \in Nat /\ \A k \in 1..Len(order) : order[k] \in 1..Len(list) /\ score[order[k]] \in Nat /\ score[order[k]] > 0
  BY <1>3
<1>5. /\ Len(matches') = Len(order)
      /\ \A k \in 1..Len(order) : matches'[k] = [score |-> score[order[k]], str |-> order[k]] /\ matches'[k].str = order[k]
      /\ matches' \in Seq([score : Nat, str : 1..Len(list)])
  BY <1>1, <1>4
<1> DEFINE w == CString(input')
<1>6. ASSUME Terminated', NEW n \in 1..Len(list)
      PROVE  /\ score[n] \in 0..Len(w) + 1 /\ Len(w) \in Nat
             /\ score[n] > 0 <=> w # <<>> /\ AppearsIn(w, s_tolower(list[n]))
             /\ w # <<>> => (score[n] = Len(w) + 1 <=> IsPrefix(w, s_tolower(list[n])))
  <2>1. PICK b \in Behind : score[n] = Score(list[n], input', b)
    BY <1>1 DEF Shown
  <2>2. Len(input') < MAX_INPUT
    BY <1>6, FuzzySearchAssumption DEF Terminated
  <2> QED
    BY <1>2, <2>1, <2>2, ScoreIs
<1>7. Keyword' = w
  BY DEF Keyword
<1> HIDE DEF w
<1>8. ASSUME Terminated'
      PROVE  /\ {matches'[k].str : k \in 1..Len(matches')} =
                  {n \in 1..Len(list) : w # <<>> /\ AppearsIn(w, s_tolower(list[n]))}
             /\ \A k, l \in 1..Len(matches') : matches'[k].str = matches'[l].str => k = l
  <2>1. {matches'[k].str : k \in 1..Len(matches')} = {order[k] : k \in 1..Len(order)}
    BY <1>5
  <2>2. {n \in 1..Len(list) : score[n] > 0} = {n \in 1..Len(list) : w # <<>> /\ AppearsIn(w, s_tolower(list[n]))}
    BY <1>6, <1>8
  <2>3. ASSUME NEW k \in 1..Len(matches'), NEW l \in 1..Len(matches'), matches'[k].str = matches'[l].str
        PROVE  k = l
    <3>1. k \in 1..Len(order) /\ l \in 1..Len(order)
      BY <1>5
    <3>2. order[k] = order[l]
      BY <1>5, <2>3, <3>1
    <3> QED
      BY <1>3, <3>1, <3>2
  <2> QED
    BY <1>3, <2>1, <2>2, <2>3
<1>9. ASSUME Terminated', NEW k \in 1..Len(order), NEW l \in 1..k, IsPrefix(w, s_tolower(list[order[l]]))
      PROVE  IsPrefix(w, s_tolower(list[order[k]]))
  <2>0. l \in 1..Len(order)
    BY <1>4
  <2> DEFINE f == [q \in 1..Len(order) |-> score[order[q]]]
  <2>1. f \in [1..Len(order) -> Nat] /\ \A q \in 1..Len(order) - 1 : f[q] <= f[q + 1]
    <3>1. \A q \in 1..Len(order) - 1 : q \in 1..Len(order) /\ q + 1 \in 1..Len(order)
      BY <1>4
    <3> QED
      BY <1>3, <1>4, <3>1
  <2>2. f[l] <= f[k]
    <3> HIDE DEF f
    <3> QED
      BY <1>4, <2>1, Ascending
  <2>3. score[order[l]] <= score[order[k]]
    BY <2>0, <2>2
  <2>4. order[l] \in 1..Len(list) /\ order[k] \in 1..Len(list) /\ score[order[l]] > 0
    BY <1>4, <2>0
  <2>5. w # <<>> /\ score[order[l]] = Len(w) + 1
    BY <1>6, <1>9, <2>4
  <2>6. score[order[k]] \in 0..Len(w) + 1 /\ Len(w) \in Nat
    BY <1>6, <1>9, <2>4
  <2>7. score[order[k]] = Len(w) + 1
    BY <2>3, <2>5, <2>6
  <2> QED
    BY <1>6, <1>9, <2>4, <2>5, <2>7
<1>10. MatchedExactly'
  BY <1>2, <1>7, <1>8 DEF MatchedExactly
<1>11. KeywordPreferred'
  <2>1. ASSUME Terminated', NEW k \in 1..Len(matches'), NEW l \in 1..k, IsPrefix(w, s_tolower(list[matches'[l].str]))
        PROVE  IsPrefix(w, s_tolower(list[matches'[k].str]))
    <3>1. k \in 1..Len(order) /\ l \in 1..Len(order)
      BY <1>4, <1>5
    <3> QED
      BY <1>5, <1>9, <2>1, <3>1
  <2> QED
    BY <1>2, <1>7, <2>1 DEF KeywordPreferred
<1> QED
  BY <1>5, <1>10, <1>11

LEMMA SearchStep == SearchInv /\ [SearchNext]_searching => SearchInv'
<1> SUFFICES ASSUME SearchInv, [SearchNext]_searching PROVE SearchInv'
  OBVIOUS
<1>0. /\ list \in Seq(Lines) /\ Len(list) \in Nat /\ max_size \in Nat /\ MAX_INPUT \in Nat \ {0}
      /\ SearchTypeOK
  BY FuzzySearchAssumption DEF SearchInv, SearchTypeOK
<1>1. CASE UNCHANGED searching
  <2>1. SearchTypeOK' = SearchTypeOK /\ MatchedExactly' = MatchedExactly /\ KeywordPreferred' = KeywordPreferred
    BY <1>1 DEF searching, SearchTypeOK, MatchedExactly, KeywordPreferred, Terminated, Keyword
  <2> QED
    BY <1>1, <2>1 DEF searching, SearchInv
<1>2. CASE LoadLine
  <2>1. phase = "load" /\ input' = input /\ matches' = matches /\ input = <<>> /\ matches = <<>>
    BY <1>2 DEF LoadLine, SearchInv
  <2>2. PICK line \in Lines : list' = Append(list, line)
    BY <1>2 DEF LoadLine
  <2>3. list' \in Seq(Lines) /\ Len(list') = Len(list) + 1
    BY <1>0, <2>2
  <2>4. Len(list) < max_size
    BY <2>1 DEF SearchInv, SearchTypeOK
  <2>5. /\ phase' \in {"load", "failed"} /\ max_size' \in Nat
        /\ phase' # "failed" => Len(list') < max_size'
    BY <1>0, <1>2, <2>1, <2>3, <2>4 DEF LoadLine
  <2>6. SearchTypeOK'
    BY <1>0, <2>1, <2>3, <2>5 DEF SearchTypeOK
  <2>7. ~Terminated'
    BY <1>0, <2>1 DEF Terminated
  <2> QED
    BY <2>1, <2>5, <2>6, <2>7 DEF SearchInv, MatchedExactly, KeywordPreferred
<1>3. CASE Loaded
  <2>1. /\ phase' = "type" /\ list' = list /\ max_size' = max_size /\ input' = input /\ matches' = matches
        /\ input = <<>> /\ phase = "load"
    BY <1>3 DEF Loaded, SearchInv
  <2>2. SearchTypeOK'
    BY <2>1 DEF SearchInv, SearchTypeOK
  <2>3. ~Terminated' /\ Len(input') < MAX_INPUT
    BY <1>0, <2>1 DEF Terminated
  <2> QED
    BY <2>1, <2>2, <2>3 DEF SearchInv, MatchedExactly, KeywordPreferred
<1>4. CASE Type
  <2>1. /\ phase = "type" /\ list' = list /\ max_size' = max_size
        /\ input' \in Seq(FileChars \cup {NUL}) /\ Len(input') = Len(input) + 1
        /\ phase' = IF Len(input') = MAX_INPUT THEN "done" ELSE "type"
    BY <1>0, <1>4, TypeEffect
  <2>2. MatchedExactly' /\ KeywordPreferred' /\ matches' \in Seq([score : Nat, str : 1..Len(list)])
    BY <1>0, <1>4, TypeShows
  <2>3. Len(input) < MAX_INPUT /\ Len(input) \in Nat
    BY <2>1 DEF SearchInv, SearchTypeOK
  <2>4. Len(input') <= MAX_INPUT /\ (phase' = "type" => Len(input') < MAX_INPUT) /\ phase' \in {"type", "done"}
    BY <1>0, <2>1, <2>3
  <2>5. SearchTypeOK'
    BY <1>0, <2>1, <2>2, <2>4 DEF SearchTypeOK, FileChars
  <2> QED
    BY <2>2, <2>4, <2>5 DEF SearchInv
<1> QED
  BY <1>1, <1>2, <1>3, <1>4 DEF SearchNext

\* Whatever is loaded and typed: list_construct() has a cell for the next line,
\* and input and buf hold what is put into them.
THEOREM SearchTypeCorrect == SearchSpec => []SearchTypeOK
<1>1. SearchInv => SearchTypeOK
  BY DEF SearchInv
<1> QED
  BY <1>1, SearchInitInv, SearchStep, PTL DEF SearchSpec

\* positional_match() misses no line and shows none that does not match.
THEOREM MatchesAreExact == SearchSpec => []MatchedExactly
<1>1. SearchInv => MatchedExactly
  BY DEF SearchInv
<1> QED
  BY <1>1, SearchInitInv, SearchStep, PTL DEF SearchSpec

\* What starts with the keyword comes last, where the best is shown.
THEOREM KeywordComesLast == SearchSpec => []KeywordPreferred
<1>1. SearchInv => KeywordPreferred
  BY DEF SearchInv
<1> QED
  BY <1>1, SearchInitInv, SearchStep, PTL DEF SearchSpec
=============================================================================
