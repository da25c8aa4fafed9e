------------------------------- MODULE Deques -------------------------------
(***************************************************************************)
(* What the lists of list.h are for: sequences of nodes, on which the last *)
(* call had the effect that its name and its comment there describe.  A    *)
(* place is a node, or a head, which comes before the first node of its    *)
(* list and also behind the last.                                          *)
(***************************************************************************)
EXTENDS Naturals, SequencesExt

CONSTANTS Heads, Nodes, NULL

VARIABLES lists, last

Index(s, n) == CHOOSE i \in 1..Len(s) : s[i] = n

\* t comes behind, or before, the place at.
After(ls, at, t) ==
  [h \in Heads |->
     IF h = at THEN t \o ls[h]
     ELSE IF Contains(ls[h], at)
     THEN LET i == Index(ls[h], at) IN SubSeq(ls[h], 1, i) \o t \o SubSeq(ls[h], i + 1, Len(ls[h]))
     ELSE ls[h]]
Before(ls, at, t) ==
  [h \in Heads |->
     IF h = at THEN ls[h] \o t
     ELSE IF Contains(ls[h], at)
     THEN LET i == Index(ls[h], at) IN SubSeq(ls[h], 1, i - 1) \o t \o SubSeq(ls[h], i, Len(ls[h]))
     ELSE ls[h]]

Removed(ls, n) ==
  [h \in Heads |-> IF Contains(ls[h], n) THEN RemoveAt(ls[h], Index(ls[h], n)) ELSE ls[h]]
Renamed(ls, new(_)) == [h \in Heads |-> [i \in DOMAIN ls[h] |-> new(ls[h][i])]]

\* The list of head old becomes that of new; a node takes old's place.
Replaced(ls, old, new) ==
  IF old \in Heads THEN [ls EXCEPT ![new] = ls[old], ![old] = <<>>]
  ELSE Renamed(ls, LAMBDA n : IF n = old THEN new ELSE n)

\* The first i entries of h go to the list of head l.
Cut(ls, l, h, i) ==
  [ls EXCEPT ![l] = SubSeq(ls[h], 1, i), ![h] = SubSeq(ls[h], i + 1, Len(ls[h]))]

\* From first to last, both included, and the lists without that.
Section(ls, first, last_) ==
  LET h == CHOOSE h \in Heads : Contains(ls[h], first)
  IN  SubSeq(ls[h], Index(ls[h], first), Index(ls[h], last_))
Without(ls, first, last_) ==
  [h \in Heads |->
     IF Contains(ls[h], first)
     THEN SubSeq(ls[h], 1, Index(ls[h], first) - 1)
            \o SubSeq(ls[h], Index(ls[h], last_) + 1, Len(ls[h]))
     ELSE ls[h]]

\* The lists after call a.
Effect(a, ls) ==
  IF a[1] \in {"init", "for_each", "ask_list", "ask_entry"} THEN ls ELSE
  LET x == a[2] IN
  CASE a[1] = "add" -> After(ls, a[3], <<x>>)
    [] a[1] = "add_tail" -> Before(ls, a[3], <<x>>)
    [] a[1] = "del" -> Removed(ls, x)
    [] a[1] = "replace" -> Replaced(ls, x, a[3])
    [] a[1] = "swap" -> Renamed(ls, LAMBDA n : IF n = x THEN a[3] ELSE IF n = a[3] THEN x ELSE n)
    [] a[1] = "move" -> After(Removed(ls, x), a[3], <<x>>)
    [] a[1] = "move_tail" -> Before(Removed(ls, x), a[3], <<x>>)
    [] a[1] = "bulk_move_tail" ->
         Before(Without(ls, a[3], a[4]), x, Section(ls, a[3], a[4]))
    [] a[1] = "rotate_left" ->
         [ls EXCEPT ![x] = IF @ = <<>> THEN @ ELSE Append(Tail(@), Head(@))]
    [] a[1] = "rotate_to_front" ->
         LET i == Index(ls[a[3]], x)
         IN  [ls EXCEPT ![a[3]] = SubSeq(@, i, Len(@)) \o SubSeq(@, 1, i - 1)]
    [] a[1] = "cut_position" -> Cut(ls, x, a[3], IF a[4] = a[3] THEN 0 ELSE Index(ls[a[3]], a[4]))
    [] a[1] = "cut_before" ->
         Cut(ls, x, a[3], IF a[4] = a[3] THEN Len(ls[a[3]]) ELSE Index(ls[a[3]], a[4]) - 1)
    [] a[1] = "splice" -> After([ls EXCEPT ![x] = <<>>], a[3], ls[x])
    [] a[1] = "splice_tail" -> Before([ls EXCEPT ![x] = <<>>], a[3], ls[x])

\* What call a answers.
Answered(a, ls) ==
  /\ a[1] = "ask_list" =>
       LET s == ls[a[2]]
       IN  a[3] = [empty |-> s = <<>>, singular |-> Len(s) = 1,
                   first |-> IF s = <<>> THEN NULL ELSE Head(s), count |-> Len(s)]
  /\ a[1] = "ask_entry" =>
       LET s == ls[a[3].head]
           i == Index(s, a[2])
       IN  /\ a[3].first <=> i = 1
           /\ a[3].last <=> i = Len(s)
           /\ a[3].next = s[(i % Len(s)) + 1]
           /\ s[(Index(s, a[3].prev) % Len(s)) + 1] = a[2]

Init == lists = [h \in Heads |-> <<>>] /\ last = <<"none">>

Next == lists' = Effect(last', lists) /\ Answered(last', lists)

Spec == Init /\ [][Next]_<<lists, last>>
=============================================================================
