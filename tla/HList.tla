------------------------------- MODULE HList -------------------------------
(***************************************************************************)
(* The hlist of list.h, as operations on the memory of its pointers.  A    *)
(* place that holds a pointer to a node is a slot: the `first' of a head   *)
(* or the `next' of a node.  m.at is what every slot holds, and m.pprev of *)
(* a node is the slot that points to it, so that a node is taken out of a  *)
(* list without knowing which list, or whether it is the first.            *)
(***************************************************************************)
EXTENDS Naturals, FiniteSets

CONSTANTS
  Heads, Nodes,
  NULL,
  Poison,  \* LIST_POISON1 and 2, left in a deleted node
  Wild     \* what memory holds before it is written and after it is freed

First(h)  == <<"first", h>>
NextOf(n) == <<"next", n>>
Slots == {First(h) : h \in Heads} \cup {NextOf(n) : n \in Nodes}

\* None of them is the address of a node, or of a slot.
ASSUME HListAssumption ==
  /\ {NULL, Poison, Wild} \cap (Nodes \cup Slots) = {}
  /\ IsFiniteSet(Nodes)

Memory == [at : [Slots -> Nodes \cup {NULL, Poison, Wild}],
           pprev : [Nodes -> Slots \cup {NULL, Poison, Wild}]]

\* Node x, unless it is NULL, gets p for its pprev.
Pointed(pprev, x, p) == [y \in Nodes |-> IF y = x THEN p ELSE pprev[y]]

hlist_empty(m, h) == m.at[First(h)] = NULL
hlist_unhashed(m, n) == m.pprev[n] = NULL

hlist_add_head(m, n, h) ==
  LET first == m.at[First(h)]
  IN  [at |-> [m.at EXCEPT ![NextOf(n)] = first, ![First(h)] = n],
       pprev |-> [Pointed(m.pprev, first, NextOf(n)) EXCEPT ![n] = First(h)]]

\* __hlist_del()
Unlink(m, n) ==
  LET next == m.at[NextOf(n)] IN
  [at |-> [m.at EXCEPT ![m.pprev[n]] = next],
   pprev |-> Pointed(m.pprev, next, m.pprev[n])]

Mut_del(m, n) ==
  [at |-> [m.at EXCEPT ![m.pprev[n]] = m.at[NextOf(n)], ![NextOf(n)] = Poison],
   pprev |-> [m.pprev EXCEPT ![n] = Poison]]

hlist_del(m, n) ==
  LET u == Unlink(m, n) IN
  [at |-> [u.at EXCEPT ![NextOf(n)] = Poison],
   pprev |-> [u.pprev EXCEPT ![n] = Poison]]

INIT_HLIST_NODE(m, n) ==
  [at |-> [m.at EXCEPT ![NextOf(n)] = NULL], pprev |-> [m.pprev EXCEPT ![n] = NULL]]

hlist_del_init(m, n) ==
  IF hlist_unhashed(m, n) THEN m
  ELSE INIT_HLIST_NODE(Unlink(m, n), n)

\* Writes through next's pprev after it was changed.
Mut_add_before(m, n, next) ==
  [at |-> [m.at EXCEPT ![NextOf(n)] = n],
   pprev |-> [m.pprev EXCEPT ![n] = m.pprev[next], ![next] = NextOf(n)]]

hlist_add_before(m, n, next) ==
  [at |-> [m.at EXCEPT ![NextOf(n)] = next, ![m.pprev[next]] = n],
   pprev |-> [m.pprev EXCEPT ![n] = m.pprev[next], ![next] = NextOf(n)]]

\* Forgets the node that followed.
Mut_add_behind(m, n, prev) ==
  [at |-> [m.at EXCEPT ![NextOf(n)] = m.at[NextOf(prev)], ![NextOf(prev)] = n],
   pprev |-> [m.pprev EXCEPT ![n] = NextOf(prev)]]

hlist_add_behind(m, n, prev) ==
  LET next == m.at[NextOf(prev)]
  IN  [at |-> [m.at EXCEPT ![NextOf(n)] = next, ![NextOf(prev)] = n],
       pprev |-> [Pointed(m.pprev, next, NextOf(n)) EXCEPT ![n] = NextOf(prev)]]

\* n is its own predecessor, so that it can be deleted without a list.
hlist_add_fake(m, n) == [m EXCEPT !.pprev = [@ EXCEPT ![n] = NextOf(n)]]
hlist_fake(m, n) == m.pprev[n] = NextOf(n)

hlist_is_singular_node(m, n, h) == m.at[NextOf(n)] = NULL /\ m.pprev[n] = First(h)

\* Leaves the first node's pprev.
Mut_move_list(m, old, new) ==
  [m EXCEPT !.at = [@ EXCEPT ![First(new)] = m.at[First(old)], ![First(old)] = NULL]]

hlist_move_list(m, old, new) ==
  LET first == m.at[First(old)]
  IN  [at |-> [m.at EXCEPT ![First(new)] = first, ![First(old)] = NULL],
       pprev |-> Pointed(m.pprev, first, First(new))]

\* The pointers an hlist_for_each_entry() from slot s goes through: nodes,
\* then for ever the first pointer that is none.
Cursor(m, s) ==
  LET cell[k \in 0..Cardinality(Nodes)] ==
        IF k = 0 THEN m.at[s]
        ELSE LET pos == cell[k - 1] IN IF pos \in Nodes THEN m.at[NextOf(pos)] ELSE pos
  IN  cell

\* The nodes it visits, in order and as a set; and whether it comes to an end.
Items(m, s) ==
  LET cell == Cursor(m, s)
  IN  [k \in 1..Cardinality({j \in DOMAIN cell : cell[j] \in Nodes}) |-> cell[k - 1]]
Visited(m, s) == LET cell == Cursor(m, s) IN {cell[k] : k \in DOMAIN cell} \cap Nodes
Ends(m, s) == Cursor(m, s)[Cardinality(Nodes)] = NULL
=============================================================================
