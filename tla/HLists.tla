------------------------------- MODULE HLists -------------------------------
(***************************************************************************)
(* The hlist operations of list.h used as they are meant to be: nodes are  *)
(* put on lists and taken off in any order by somebody who knows which     *)
(* nodes are on a list, and need not know on which.                        *)
(***************************************************************************)
EXTENDS HList

\* A node is no head.
ASSUME HListsAssumption == Heads \cap Nodes = {}

VARIABLES
  mem,    \* heads and nodes
  listed, \* the nodes that are on a list
  last    \* history: the last call, in the words of module Deques

vars == <<mem, listed, last>>

\* HLIST_HEAD_INIT for the heads; nodes hold anything.
Init ==
  /\ mem = [at |-> [s \in Slots |-> IF s[1] = "first" THEN NULL ELSE Wild],
            pprev |-> [n \in Nodes |-> Wild]]
  /\ listed = {}
  /\ last = <<"none">>

AddHead(n, h) ==
  /\ n \notin listed
  /\ mem' = hlist_add_head(mem, n, h)
  /\ listed' = listed \cup {n}
  /\ last' = <<"add", n, h>>

AddBefore(n, next) ==
  /\ n \notin listed
  /\ next \in listed
  /\ mem' = hlist_add_before(mem, n, next)
  /\ listed' = listed \cup {n}
  /\ last' = <<"add_tail", n, next>>

AddBehind(n, prev) ==
  /\ n \notin listed
  /\ prev \in listed
  /\ mem' = hlist_add_behind(mem, n, prev)
  /\ listed' = listed \cup {n}
  /\ last' = <<"add", n, prev>>

\* Of a node that was initialised.
AddFake(n) ==
  /\ n \notin listed
  /\ hlist_unhashed(mem, n)
  /\ mem' = hlist_add_fake(mem, n)
  /\ UNCHANGED listed
  /\ last' = <<"init", n>>

Del(n) ==
  /\ n \in listed \/ hlist_fake(mem, n)
  /\ mem' = hlist_del(mem, n)
  /\ listed' = listed \ {n}
  /\ last' = <<"del", n>>

InitNode(n) ==
  /\ n \notin listed
  /\ mem' = INIT_HLIST_NODE(mem, n)
  /\ UNCHANGED listed
  /\ last' = <<"init", n>>

\* Of a node that is on a list, or was initialised since it was on one.
DelInit(n) ==
  /\ n \in listed \/ hlist_fake(mem, n) \/ hlist_unhashed(mem, n)
  /\ mem' = hlist_del_init(mem, n)
  /\ listed' = listed \ {n}
  /\ last' = <<"del", n>>

MoveList(old, new) ==
  /\ old # new
  /\ hlist_empty(mem, new)
  /\ mem' = hlist_move_list(mem, old, new)
  /\ UNCHANGED listed
  /\ last' = <<"replace", old, new>>

Next ==
  \/ \E n \in Nodes, h \in Heads : AddHead(n, h)
  \/ \E n, m \in Nodes : AddBefore(n, m) \/ AddBehind(n, m)
  \/ \E n \in Nodes : AddFake(n) \/ Del(n) \/ InitNode(n) \/ DelInit(n)
  \/ \E old, new \in Heads : MoveList(old, new)

Spec == Init /\ [][Next]_vars

-----------------------------------------------------------------------------

\* A slot that holds a node is what the node's pprev says, and the other way
\* round; a node on a list is followed by a node or by NULL, and a node on
\* none points to none and looks deleted, unhashed or fake.
Linked ==
  /\ mem \in Memory /\ listed \subseteq Nodes
  /\ \A s \in Slots : mem.at[s] \in Nodes =>
       mem.at[s] \in listed /\ mem.pprev[mem.at[s]] = s
  /\ \A n \in listed : mem.pprev[n] \in Slots /\ mem.at[mem.pprev[n]] = n
  /\ \A n \in listed : mem.at[NextOf(n)] \in Nodes \cup {NULL}
  /\ \A n \in Nodes \ listed :
       /\ mem.at[NextOf(n)] \notin Nodes
       /\ mem.pprev[n] \in Slots => hlist_fake(mem, n)
       /\ hlist_fake(mem, n) \/ hlist_unhashed(mem, n) => mem.at[NextOf(n)] = NULL
  /\ \A h \in Heads : mem.at[First(h)] \in Nodes \cup {NULL}

\* hlist_is_singular_node() says of a listed node that it is alone on list h,
\* although it looks at the node only; with move_list in between as well.
SingularMeansAlone ==
  \A n \in listed, h \in Heads :
    hlist_is_singular_node(mem, n, h) <=> Items(mem, First(h)) = <<n>>

D == INSTANCE Deques WITH lists <- [h \in Heads |-> Items(mem, First(h))]

\* The lists, as they are walked, are sequences on which each operation does
\* what its name says, whichever pointers it writes: nothing else comes, goes
\* or changes its place.
AreLists == D!Spec
=============================================================================
