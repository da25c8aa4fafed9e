----------------------------- MODULE ListHeads -----------------------------
(***************************************************************************)
(* The list_head operations used as list.h says: entries go on lists, off  *)
(* them and between them, whole lists are cut and joined, and a loop that  *)
(* is safe against removal runs while its body takes entries out, or drops *)
(* the lock.  Callers hold a lock; only list_empty_careful() is used       *)
(* without it, on another CPU, which sees the stores of a deletion arrive  *)
(* one by one.  The build's smp_store_release() and smp_load_acquire() are *)
(* barriers for the compiler; the CPU is one that keeps stores, and loads, *)
(* in order.                                                               *)
(***************************************************************************)
EXTENDS ListHead, SequencesExt

VARIABLES
  mem,     \* heads and nodes
  live,    \* the heads that are initialised, and not left behind by a splice
  listed,  \* the nodes that are on a list
  loop,    \* a loop's direction, head, pos and n; history: the rest
  others,  \* mem as other CPUs see it
  test,    \* how far another CPU's list_empty_careful() of a deleted entry is
  last     \* history: the last call

vars == <<mem, live, listed, loop, others, test, last>>

NoLoop == [dir |-> "next", head |-> NULL, pos |-> NULL, n |-> NULL, rest |-> <<>>,
           dropped |-> FALSE]
Quiet  == others = mem /\ test = "none"
Idle   == loop = NoLoop /\ Quiet

Init ==
  /\ mem = [next |-> [l \in Links |-> Wild], prev |-> [l \in Links |-> Wild]]
  /\ live = {} /\ listed = {}
  /\ loop = NoLoop
  /\ others = mem /\ test = "none"
  /\ last = <<"none">>

-----------------------------------------------------------------------------
(* What callers know *)

Places   == live \cup listed
Of(h)    == Range(Entries(mem.next, h))
Alone(n) == mem.next[n] = n /\ mem.prev[n] = n

\* A head that holds nothing, and one that may be given something.
Unused(h)  == h \in live => list_empty(mem, h)
Removable(n) == n \in Nodes /\ (n \in listed \/ Alone(n))

\* While a loop runs, only its body does anything, and to its entry only; while
\* its lock is dropped, others do, but not to that entry, which is pinned.
InBody(n) == Idle \/ loop.dropped # (loop.pos = n)

\* The lock's release shows m to the other CPUs.
Stored(m) == mem' = m /\ others' = m /\ UNCHANGED test

-----------------------------------------------------------------------------
(* One entry *)

Initialise(l) ==
  /\ Idle
  /\ (l \in Heads /\ Unused(l)) \/ l \in Nodes \ listed
  /\ Stored(INIT_LIST_HEAD(mem, l))
  /\ live' = live \cup ({l} \cap Heads)
  /\ last' = <<"init", l>>
  /\ UNCHANGED <<listed, loop>>

Add(n, at) ==
  /\ Idle \/ loop.dropped
  /\ n \in Nodes \ listed
  /\ at \in Places
  /\ \/ Stored(list_add(mem, n, at))      /\ last' = <<"add", n, at>>
     \/ Stored(list_add_tail(mem, n, at)) /\ last' = <<"add_tail", n, at>>
  /\ listed' = listed \cup {n}
  /\ UNCHANGED <<live, loop>>

Del(n) ==
  /\ InBody(n)
  /\ Removable(n)
  /\ \E m \in {list_del(mem, n), list_del_init(mem, n), list_del_clearprev(mem, n)} : Stored(m)
  /\ listed' = listed \ {n}
  /\ last' = <<"del", n>>
  /\ UNCHANGED <<live, loop>>

\* Of two nodes or of two heads.
Replace(old, new) ==
  /\ Idle
  /\ \/ Removable(old) /\ new \in Nodes \ listed
     \/ old \in live /\ new \in Heads /\ Unused(new)
  /\ old # new
  /\ \/ /\ Stored(list_replace(mem, old, new))
        /\ live' = IF old \in Heads THEN (live \ {old}) \cup {new} ELSE live
     \/ /\ Stored(list_replace_init(mem, old, new))
        /\ live' = IF old \in Heads THEN live \cup {new} ELSE live
  /\ listed' = IF old \in listed THEN (listed \ {old}) \cup {new} ELSE listed
  /\ last' = <<"replace", old, new>>
  /\ UNCHANGED loop

Swap(entry1, entry2) ==
  /\ Idle
  /\ entry1 \in listed /\ entry2 \in listed /\ entry1 # entry2
  /\ Stored(list_swap(mem, entry1, entry2))
  /\ last' = <<"swap", entry1, entry2>>
  /\ UNCHANGED <<live, listed, loop>>

\* The body of a loop moves its entry to another list.
Move(n, at) ==
  /\ InBody(n)
  /\ Idle \/ loop.dropped \/ at \in live \ {loop.head}
  /\ Removable(n)
  /\ at \in Places /\ at # n
  /\ \/ Stored(list_move(mem, n, at))      /\ last' = <<"move", n, at>>
     \/ Stored(list_move_tail(mem, n, at)) /\ last' = <<"move_tail", n, at>>
  /\ listed' = listed \cup {n}
  /\ UNCHANGED <<live, loop>>

-----------------------------------------------------------------------------
(* Whole lists *)

\* From the i-th to the j-th entry of h, to before another place of h's ring.
BulkMoveTail(h, i, j, at) ==
  LET s == Entries(mem.next, h) IN
  /\ Idle
  /\ h \in live
  /\ i <= j /\ j <= Len(s)
  /\ at \in ({h} \cup Range(s)) \ {s[k] : k \in i..j}
  /\ Stored(list_bulk_move_tail(mem, at, s[i], s[j]))
  /\ last' = <<"bulk_move_tail", at, s[i], s[j]>>
  /\ UNCHANGED <<live, listed, loop>>

RotateLeft(h) ==
  /\ Idle
  /\ h \in live
  /\ Stored(list_rotate_left(mem, h))
  /\ last' = <<"rotate_left", h>>
  /\ UNCHANGED <<live, listed, loop>>

RotateToFront(n, h) ==
  /\ Idle
  /\ h \in live
  /\ n \in Of(h)
  /\ Stored(list_rotate_to_front(mem, n, h))
  /\ last' = <<"rotate_to_front", n, h>>
  /\ UNCHANGED <<live, listed, loop>>

\* An empty head has nothing to cut: list_cut_position() then leaves l as it
\* is, initialised or not, while list_cut_before() initialises it.
CutPosition(l, h, entry) ==
  /\ Idle
  /\ h \in live /\ l # h /\ Unused(l)
  /\ entry \in {h} \cup Of(h)
  /\ Stored(list_cut_position(mem, l, h, entry))
  /\ live' = IF list_empty(mem, h) THEN live ELSE live \cup {l}
  /\ last' = <<"cut_position", l, h, entry>>
  /\ UNCHANGED <<listed, loop>>

CutBefore(l, h, entry) ==
  /\ Idle
  /\ h \in live /\ l # h /\ Unused(l)
  /\ entry \in {h} \cup Of(h)
  /\ Stored(list_cut_before(mem, l, h, entry))
  /\ live' = live \cup {l}
  /\ last' = <<"cut_before", l, h, entry>>
  /\ UNCHANGED <<listed, loop>>

\* What is not initialised again goes on pointing at the entries it had.
Splice(l, at) ==
  /\ Idle
  /\ l \in live
  /\ at \in Places \ ({l} \cup Of(l))
  /\ \/ Stored(list_splice(mem, l, at)) /\ last' = <<"splice", l, at>>
     \/ Stored(list_splice_tail(mem, l, at)) /\ last' = <<"splice_tail", l, at>>
  /\ live' = IF list_empty(mem, l) THEN live ELSE live \ {l}
  /\ UNCHANGED <<listed, loop>>

SpliceInit(l, at) ==
  /\ Idle
  /\ l \in live
  /\ at \in Places \ ({l} \cup Of(l))
  /\ \/ Stored(list_splice_init(mem, l, at)) /\ last' = <<"splice", l, at>>
     \/ Stored(list_splice_tail_init(mem, l, at)) /\ last' = <<"splice_tail", l, at>>
  /\ UNCHANGED <<live, listed, loop>>

-----------------------------------------------------------------------------
(* Questions *)

AskList(h) ==
  /\ Idle
  /\ h \in live
  /\ last' = <<"ask_list", h,
               [empty |-> list_empty(mem, h), singular |-> list_is_singular(mem, h),
                first |-> list_first_entry_or_null(mem, h), count |-> list_count_nodes(mem, h)]>>
  /\ UNCHANGED <<mem, live, listed, loop, others, test>>

AskEntry(n, h) ==
  /\ Idle
  /\ h \in live
  /\ n \in Of(h)
  /\ last' = <<"ask_entry", n,
               [head |-> h, first |-> list_is_first(mem, n, h), last |-> list_is_last(mem, n, h),
                next |-> list_next_entry_circular(mem, n, h),
                prev |-> list_prev_entry_circular(mem, n, h)]>>
  /\ UNCHANGED <<mem, live, listed, loop, others, test>>

-----------------------------------------------------------------------------
(* Loops that are safe against removal *)

\* The entries from pos on, in the direction dir, of the list of h.
Ahead(dir, h, pos) ==
  LET s == IF dir = "next" THEN Entries(mem.next, h) ELSE Reverse(Entries(mem.next, h))
  IN  IF pos = h THEN <<>> ELSE SubSeq(s, SelectInSeq(s, LAMBDA e : e = pos), Len(s))

\* From an entry on, or from behind it; from the list's beginning if `at' is
\* the head.
LoopStart(dir, h, at) ==
  /\ Idle
  /\ h \in live
  /\ at \in {h} \cup Of(h)
  /\ \E pos \in {at, mem[dir][at]} :
       loop' = [dir |-> dir, head |-> h, pos |-> pos, n |-> mem[dir][pos],
                rest |-> Ahead(dir, h, pos), dropped |-> FALSE]
  /\ last' = <<"for_each">>
  /\ UNCHANGED <<mem, live, listed, others, test>>

\* n is read again only when the body does not need it any more.
Mut_LoopNext ==
  /\ loop # NoLoop /\ ~loop.dropped /\ loop.pos # loop.head
  /\ loop' = [loop EXCEPT !.pos = mem[loop.dir][@], !.rest = Tail(@)]
  /\ UNCHANGED <<mem, live, listed, others, test, last>>

LoopNext ==
  /\ loop # NoLoop /\ ~loop.dropped
  /\ loop.pos # loop.head
  /\ loop' = [loop EXCEPT !.pos = loop.n, !.n = mem[loop.dir][loop.n], !.rest = Tail(@)]
  /\ UNCHANGED <<mem, live, listed, others, test, last>>

LoopEnds ==
  /\ loop # NoLoop /\ ~loop.dropped
  /\ loop.pos = loop.head
  /\ loop' = NoLoop
  /\ UNCHANGED <<mem, live, listed, others, test, last>>

\* The body lets go of the lock, its entry pinned, ...
DropLock ==
  /\ loop # NoLoop /\ ~loop.dropped
  /\ loop.dir = "next" /\ loop.pos \in Of(loop.head)
  /\ loop' = [loop EXCEPT !.dropped = TRUE]
  /\ UNCHANGED <<mem, live, listed, others, test, last>>

\* ... and takes it again: list_safe_reset_next().
ResetNext ==
  /\ loop.dropped
  /\ loop' = [loop EXCEPT !.n = mem.next[loop.pos], !.dropped = FALSE,
                          !.rest = Ahead("next", loop.head, loop.pos)]
  /\ UNCHANGED <<mem, live, listed, others, test, last>>

-----------------------------------------------------------------------------
(* A deletion and a test without the lock *)

\* list_del_init() or list_del_init_careful(), which store the same.
DelInit(n, how) ==
  /\ Idle
  /\ n \in listed
  /\ mem' = list_del_init(mem, n)
  /\ listed' = listed \ {n}
  /\ last' = <<"del", n, how>>
  /\ UNCHANGED <<live, loop, others, test>>

Late(f, l) == others[f][l] # mem[f][l]

\* When the store of f of l may be seen.  All are WRITE_ONCE(), and stay in
\* order, but that of the next entry's prev, which the compiler may do at any
\* time, though not after the smp_store_release() of list_del_init_careful().
InOrder(f, l) ==
  LET first == IF last[3] = "careful" THEN "prev" ELSE "next"  \* of the entry's own
  IN  l = last[2] =>
        \A g \in {"next", "prev"}, k \in Links :
          Late(g, k) /\ <<g, k>> # <<f, l>> =>
            \/ k = l /\ f = first
            \/ k # l /\ g = "prev" /\ <<last[3], f>> # <<"careful", "next">>

Arrive(f, l) ==
  /\ Late(f, l)
  /\ InOrder(f, l)
  /\ others' = [others EXCEPT ![f][l] = mem[f][l]]
  /\ UNCHANGED <<mem, live, listed, loop, test, last>>

\* list_empty_careful() of the entry: its next, ...
TestNext ==
  /\ loop = NoLoop
  /\ test = "none"
  /\ last[1] = "del" /\ Len(last) = 3
  /\ test' = IF others.next[last[2]] = last[2] THEN "next" ELSE "none"
  /\ UNCHANGED <<mem, live, listed, loop, others, last>>

Mut_TestPrev == test = "next" /\ test' = "empty"
  /\ UNCHANGED <<mem, live, listed, loop, others, last>>

\* ... and its prev.
TestPrev ==
  /\ test = "next"
  /\ test' = IF others.prev[last[2]] = last[2] THEN "empty" ELSE "none"
  /\ UNCHANGED <<mem, live, listed, loop, others, last>>

Tested ==
  /\ test = "empty"
  /\ test' = "none"
  /\ UNCHANGED <<mem, live, listed, loop, others, last>>

-----------------------------------------------------------------------------

Next ==
  \/ \E l \in Links : Initialise(l)
  \/ \E n \in Nodes, at \in Links : Add(n, at) \/ Move(n, at)
  \/ \E n \in Nodes : Del(n)
  \/ \E old, new \in Links : Replace(old, new)
  \/ \E e, f \in Nodes : Swap(e, f)
  \/ \E h \in Heads, i, j \in 1..Cardinality(Nodes), at \in Links : BulkMoveTail(h, i, j, at)
  \/ \E h \in Heads : RotateLeft(h) \/ AskList(h)
  \/ \E dir \in {"next", "prev"}, h \in Heads, at \in Links : LoopStart(dir, h, at)
  \/ \E n \in Nodes, h \in Heads : RotateToFront(n, h) \/ AskEntry(n, h)
  \/ \E l, h \in Heads, entry \in Links : CutPosition(l, h, entry) \/ CutBefore(l, h, entry)
  \/ \E l \in Heads, at \in Links : Splice(l, at) \/ SpliceInit(l, at)
  \/ LoopNext \/ LoopEnds \/ DropLock \/ ResetNext
  \/ \E n \in Nodes, how \in {"init", "careful"} : DelInit(n, how)
  \/ \E f \in {"next", "prev"}, l \in Links : Arrive(f, l)
  \/ TestNext \/ TestPrev \/ Tested

Spec == Init /\ [][Next]_vars

-----------------------------------------------------------------------------

\* The rings: from every head in use and every node on a list, next and then
\* prev, or prev and then next, lead back, and never to a link that is not in
\* use.  A node on none is pointed to by none of them.
Ringed ==
  /\ mem.next \in Pointers /\ mem.prev \in Pointers
  /\ live \subseteq Heads /\ listed \subseteq Nodes
  /\ \A l \in Places :
       /\ mem.next[l] \in Places /\ mem.prev[mem.next[l]] = l
       /\ mem.prev[l] \in Places /\ mem.next[mem.prev[l]] = l

\* A loop that is safe against removal is at every entry that was on its list
\* when it began, or after the lock was dropped, in order and in either
\* direction, whatever its body does to the entry it is at, and whatever
\* others did while the lock was dropped.
LoopVisitsAll ==
  loop # NoLoop /\ ~loop.dropped =>
    loop.pos = IF loop.rest = <<>> THEN loop.head ELSE Head(loop.rest)

\* When list_empty_careful() says that a deleted entry is alone, the deletion
\* will not write to the entry any more, which its owner may free or use again;
\* and all that list_del_init_careful() did, there and before, can be seen.
TestSaysDone ==
  test = "empty" =>
    \A f \in {"next", "prev"}, l \in Links :
      Late(f, l) => l # last[2] /\ last[3] # "careful"

D == INSTANCE Deques
       WITH lists <- [h \in Heads |-> IF h \in live THEN Entries(mem.next, h) ELSE <<>>]

\* The lists are sequences, each call does to them what its comment in list.h
\* says, wherever its arguments are: next to each other, at an end, on one list
\* or on two, or the head itself; and each question is answered truly.
AreDeques == D!Spec
=============================================================================
