------------------------------ MODULE ListHead ------------------------------
(***************************************************************************)
(* The list_head of list.h, as operations on the memory of its pointers: a *)
(* head and the entries of its list are links of one ring, and nothing but *)
(* the caller's knowledge tells the head from an entry.                    *)
(***************************************************************************)
EXTENDS Naturals, FiniteSets, Sequences

CONSTANTS
  Heads, Nodes,
  NULL,
  Poison,  \* LIST_POISON1 and 2
  Wild     \* what memory holds before it is written

Links == Heads \cup Nodes

ASSUME ListHeadAssumption ==
  /\ Heads \cap Nodes = {}
  /\ {NULL, Poison, Wild} \cap Links = {}
  /\ IsFiniteSet(Nodes)

Pointers == [Links -> Links \cup {NULL, Poison, Wild}]

INIT_LIST_HEAD(m, l) ==
  [next |-> [m.next EXCEPT ![l] = l], prev |-> [m.prev EXCEPT ![l] = l]]

\* __list_del(): p and q become neighbours.
Join(m, p, q) ==
  [next |-> [m.next EXCEPT ![p] = q], prev |-> [m.prev EXCEPT ![q] = p]]

\* __list_add()
AddBetween(m, new, prev, next) ==
  [next |-> [m.next EXCEPT ![new] = next, ![prev] = new],
   prev |-> [m.prev EXCEPT ![next] = new, ![new] = prev]]

list_add(m, new, head)      == AddBetween(m, new, head, m.next[head])
list_add_tail(m, new, head) == AddBetween(m, new, m.prev[head], head)

\* __list_del_entry()
Unlink(m, e) == Join(m, m.prev[e], m.next[e])

\* __list_del_clearprev()
list_del_clearprev(m, e) == [Unlink(m, e) EXCEPT !.prev[e] = NULL]

list_del(m, e)      == [Unlink(m, e) EXCEPT !.next[e] = Poison, !.prev[e] = Poison]
list_del_init(m, e) == INIT_LIST_HEAD(Unlink(m, e), e)

\* When old is alone its next is old itself, so that the second store is to
\* old.prev, which is read again by the third: new is alone afterwards.
list_replace(m, old, new) ==
  LET next == m.next[old]
      prev == [m.prev EXCEPT ![next] = new]
  IN  [next |-> [m.next EXCEPT ![new] = next, ![prev[old]] = new],
       prev |-> [prev EXCEPT ![new] = prev[old]]]

list_replace_init(m, old, new) == INIT_LIST_HEAD(list_replace(m, old, new), old)

\* Gives up when entry1 is right before entry2.
Mut_swap(m, entry1, entry2) ==
  IF m.prev[entry2] = entry1 THEN m
  ELSE list_add(list_replace(list_del(m, entry2), entry1, entry2), entry1, m.prev[entry2])

list_swap(m, entry1, entry2) ==
  LET pos == IF m.prev[entry2] = entry1 THEN entry2 ELSE m.prev[entry2]
  IN  list_add(list_replace(list_del(m, entry2), entry1, entry2), entry1, pos)

list_move(m, e, head)      == list_add(Unlink(m, e), e, head)
list_move_tail(m, e, head) == list_add_tail(Unlink(m, e), e, head)

list_bulk_move_tail(m, head, first, last) ==
  LET out == Join(m, m.prev[first], m.next[last])
  IN  Join(Join(out, out.prev[head], first), last, head)

list_empty(m, h) == m.next[h] = h
list_is_singular(m, h) == ~list_empty(m, h) /\ m.next[h] = m.prev[h]

list_rotate_left(m, h) == IF list_empty(m, h) THEN m ELSE list_move_tail(m, m.next[h], h)
list_rotate_to_front(m, e, h) == list_move_tail(m, h, e)

list_cut_position(m, list, head, entry) ==
  CASE list_empty(m, head) -> m
    [] list_is_singular(m, head) /\ entry # head /\ entry # m.next[head] -> m
    [] ~list_empty(m, head) /\ entry = head -> INIT_LIST_HEAD(m, list)
    [] OTHER -> Join(Join(Join(m, list, m.next[head]), entry, list), head, m.next[entry])

\* As if entry could not be the first.
Mut_cut_before(m, list, head, entry) ==
  Join(Join(Join(m, list, m.next[head]), m.prev[entry], list), head, entry)

list_cut_before(m, list, head, entry) ==
  IF m.next[head] = entry THEN INIT_LIST_HEAD(m, list)
  ELSE Join(Join(Join(m, list, m.next[head]), m.prev[entry], list), head, entry)

\* __list_splice()
SpliceBetween(m, list, prev, next) ==
  Join(Join(m, prev, m.next[list]), m.prev[list], next)

list_splice(m, list, head) ==
  IF list_empty(m, list) THEN m ELSE SpliceBetween(m, list, head, m.next[head])
list_splice_tail(m, list, head) ==
  IF list_empty(m, list) THEN m ELSE SpliceBetween(m, list, m.prev[head], head)
list_splice_init(m, list, head) ==
  IF list_empty(m, list) THEN m ELSE INIT_LIST_HEAD(list_splice(m, list, head), list)
list_splice_tail_init(m, list, head) ==
  IF list_empty(m, list) THEN m ELSE INIT_LIST_HEAD(list_splice_tail(m, list, head), list)

\* The pointers that list_for_each() goes through, when `link' is m.next, or
\* list_for_each_prev(), when it is m.prev: entries, then for ever the head.
Cursor(link, h) ==
  LET cell[k \in 0..Cardinality(Nodes)] ==
        IF k = 0 THEN link[h]
        ELSE LET pos == cell[k - 1] IN IF pos \in Nodes THEN link[pos] ELSE pos
  IN  cell

\* The entries among them.
Entries(link, h) ==
  LET cell == Cursor(link, h)
  IN  [k \in 1..Cardinality({j \in DOMAIN cell : cell[j] \in Nodes}) |-> cell[k - 1]]

list_count_nodes(m, h)         == Len(Entries(m.next, h))
list_first_entry_or_null(m, h) == IF list_empty(m, h) THEN NULL ELSE m.next[h]
list_is_first(m, e, h)         == m.prev[e] = h
list_is_last(m, e, h)          == m.next[e] = h

\* Round the list, without the head.
list_next_entry_circular(m, e, h) == m.next[IF list_is_last(m, e, h) THEN h ELSE e]
list_prev_entry_circular(m, e, h) == m.prev[IF list_is_first(m, e, h) THEN h ELSE e]
=============================================================================
