----------------------------- MODULE HashTable -----------------------------
(***************************************************************************)
(* simple_ht.c: a table of hlists, its five operations walking the list of *)
(* one bucket entry by entry.  The allocator is part of the model, because *)
(* most of what can go wrong is about it: an entry that is freed loses     *)
(* what it held, malloc() may fail, and each key and value is an object    *)
(* that somebody has to free.                                              *)
(*                                                                         *)
(* A call starts with an action of its own, then one action is one turn of *)
(* its loop, and what the loop body returns from is its last action.       *)
(***************************************************************************)
EXTENDS HList, Sequences, Functions

CONSTANTS
  Keys,       \* what keys can contain: equal key_len and bytes
  KeyObjs,    \* allocated copies of keys
  ValueObjs,  \* allocated values
  HashSize,   \* the hash_size asked for
  Hash,       \* the callback's result for every key
  NbStats,    \* the nb_stats that bucket_stats is called with
  Words,      \* what the caller's array may hold then, in every element
  Absent

\* __round_down_power_2()
RoundDownPower2(size) ==
  LET res[v \in 0..size] == IF v <= 1 THEN 1 ELSE 2 * res[v \div 2] IN res[size]

Size == RoundDownPower2(HashSize)

\* The mask size - 1 of a power of two is the remainder.
Bucket(k) == Hash[k] % Size

ASSUME HashTableAssumption ==
  /\ HashSize \in Nat
  /\ Hash \in [Keys -> Nat]
  /\ NbStats \subseteq Nat \ {0} /\ Words \subseteq Nat
  /\ Heads = 0..Size - 1
  /\ KeyObjs \cap ValueObjs = {} /\ Absent \notin ValueObjs
  /\ Wild \notin KeyObjs \cup ValueObjs

VARIABLES
  pc,      \* the call that is running and has the table
  mem,     \* heads and nodes
  alloc,   \* the entries malloc() has given and free() has not taken back
  key,     \* an entry's key object
  value,   \* an entry's value object
  content, \* the key a key object contains
  owner,   \* who has to free an object: "free" if it is not allocated
  arg,     \* the key, key object and value object of the running call
  pos,     \* the loop's cursor
  bkt,     \* the bucket destroy is in
  ret      \* what the last call was given and returned

objects == <<key, value, content, owner>>
vars == <<pc, mem, alloc, objects, arg, pos, bkt, ret>>

Objects == KeyObjs \cup ValueObjs
NoArg == [k |-> Absent, ko |-> Wild, vo |-> Wild]

Init ==
  /\ pc = "none"
  /\ mem = [at |-> [s \in Slots |-> Wild], pprev |-> [n \in Nodes |-> Wild]]
  /\ alloc = {}
  /\ key = [n \in Nodes |-> Wild] /\ value = [n \in Nodes |-> Wild]
  /\ content = [ko \in KeyObjs |-> Absent]
  /\ owner = [o \in Objects |-> "free"]
  /\ arg = NoArg /\ pos = NULL /\ bkt = 0
  /\ ret = <<"none">>

-----------------------------------------------------------------------------
(* simple_ht_create() *)

Mut_Create == pc = "none" /\ pc' = "idle"
  /\ UNCHANGED <<mem, alloc, objects, arg, pos, bkt, ret>>

\* (When malloc() fails there is no table, and all is as before.)
Create ==
  /\ pc = "none"
  /\ mem' = [mem EXCEPT !.at = [s \in Slots |-> IF s[1] = "first" THEN NULL ELSE @[s]]]
  /\ pc' = "idle"
  /\ UNCHANGED <<alloc, objects, arg, pos, bkt, ret>>

-----------------------------------------------------------------------------
(* What the calls share *)

Call(op, k) ==
  /\ pc = "idle"
  /\ pc' = op
  /\ pos' = mem.at[First(Bucket(k))]
  /\ UNCHANGED <<mem, alloc, key, value, bkt, ret>>

Matches == content[key[pos]] = arg.k

\* The loop goes on to the next entry.
Advance(op) ==
  /\ pc = op
  /\ pos # NULL
  /\ ~Matches
  /\ pos' = mem.at[NextOf(pos)]
  /\ UNCHANGED <<pc, mem, alloc, objects, arg, bkt, ret>>

Return(r) == pc' = "idle" /\ ret' = r /\ pos' = NULL /\ arg' = NoArg /\ UNCHANGED bkt

\* free() of a set of objects, and of an entry, of the memory m.
Freed(objs) == [o \in Objects |-> IF o \in objs THEN "free" ELSE owner[o]]
FreeEntry(m, n) ==
  /\ mem' = [at |-> [m.at EXCEPT ![NextOf(n)] = Wild], pprev |-> [m.pprev EXCEPT ![n] = Wild]]
  /\ alloc' = alloc \ {n}
  /\ key' = [key EXCEPT ![n] = Wild]
  /\ value' = [value EXCEPT ![n] = Wild]

-----------------------------------------------------------------------------
(* simple_ht_insert() *)

\* The caller allocates a key and a value and hands them over.
InsertCall(k, ko, vo) ==
  /\ owner[ko] = "free" /\ owner[vo] = "free"
  /\ owner' = [owner EXCEPT ![ko] = "caller", ![vo] = "caller"]
  /\ content' = [content EXCEPT ![ko] = k]
  /\ arg' = [k |-> k, ko |-> ko, vo |-> vo]
  /\ Call("insert", k)

InsertAdvance == Advance("insert")

Mut_InsertUpdate ==
  /\ pc = "insert" /\ pos # NULL /\ Matches
  /\ value' = [value EXCEPT ![pos] = arg.vo]
  /\ owner' = [owner EXCEPT ![arg.ko] = "table", ![arg.vo] = "table"]
  /\ Return(<<"insert", arg.k, arg.vo, TRUE>>)
  /\ UNCHANGED <<mem, alloc, key, content>>

Mut_InsertKeepsOld ==
  /\ pc = "insert" /\ pos # NULL /\ Matches
  /\ owner' = [Freed({arg.vo}) EXCEPT ![arg.ko] = "table"]
  /\ Return(<<"insert", arg.k, arg.vo, TRUE>>)
  /\ UNCHANGED <<mem, alloc, key, value, content>>

\* The key is there: its entry gets the new value and keeps its old key object.
InsertUpdate ==
  /\ pc = "insert"
  /\ pos # NULL
  /\ Matches
  /\ value' = [value EXCEPT ![pos] = arg.vo]
  /\ owner' = [Freed({value[pos]}) EXCEPT ![arg.ko] = "table", ![arg.vo] = "table"]
  /\ Return(<<"insert", arg.k, arg.vo, TRUE>>)
  /\ UNCHANGED <<mem, alloc, key, content>>

InsertNew(n) ==
  /\ pc = "insert"
  /\ pos = NULL
  /\ n \notin alloc
  /\ alloc' = alloc \cup {n}
  /\ key' = [key EXCEPT ![n] = arg.ko]
  /\ value' = [value EXCEPT ![n] = arg.vo]
  /\ mem' = hlist_add_head([at |-> [mem.at EXCEPT ![NextOf(n)] = NULL],
                            pprev |-> [mem.pprev EXCEPT ![n] = NULL]],
                           n, Bucket(arg.k))
  /\ owner' = [owner EXCEPT ![arg.ko] = "table", ![arg.vo] = "table"]
  /\ Return(<<"insert", arg.k, arg.vo, TRUE>>)
  /\ UNCHANGED content

\* malloc() fails; the caller still has its key and value, and frees them.
InsertFails ==
  /\ pc = "insert"
  /\ pos = NULL
  /\ owner' = Freed({arg.ko, arg.vo})
  /\ Return(<<"insert", arg.k, arg.vo, FALSE>>)
  /\ UNCHANGED <<mem, alloc, key, value, content>>

-----------------------------------------------------------------------------
(* simple_ht_lookup() and simple_ht_remove(): the key they are given is the  *)
(* caller's and stays so                                                     *)

LookupCall(k) ==
  /\ arg' = [NoArg EXCEPT !.k = k]
  /\ Call("lookup", k)
  /\ UNCHANGED <<content, owner>>

LookupAdvance == Advance("lookup")

LookupReturns ==
  /\ pc = "lookup"
  /\ pos # NULL => Matches
  /\ Return(<<"lookup", arg.k, IF pos = NULL THEN Absent ELSE value[pos]>>)
  /\ UNCHANGED <<mem, alloc, objects>>

RemoveCall(k) ==
  /\ arg' = [NoArg EXCEPT !.k = k]
  /\ Call("remove", k)
  /\ UNCHANGED <<content, owner>>

RemoveAdvance == Advance("remove")

Mut_RemoveFound ==
  /\ pc = "remove" /\ pos # NULL /\ Matches
  /\ owner' = Freed({value[pos]})
  /\ FreeEntry(hlist_del(mem, pos), pos)
  /\ Return(<<"remove", arg.k>>)
  /\ UNCHANGED content

RemoveFound ==
  /\ pc = "remove"
  /\ pos # NULL
  /\ Matches
  /\ owner' = Freed({key[pos], value[pos]})
  /\ FreeEntry(hlist_del(mem, pos), pos)
  /\ Return(<<"remove", arg.k>>)
  /\ UNCHANGED content

RemoveMiss ==
  /\ pc = "remove"
  /\ pos = NULL
  /\ Return(<<"remove", arg.k>>)
  /\ UNCHANGED <<mem, alloc, objects>>

-----------------------------------------------------------------------------
(* simple_ht_destroy() *)

DestroyCall ==
  /\ pc = "idle"
  /\ pc' = "destroy"
  /\ bkt' = 0
  /\ pos' = mem.at[First(0)]
  /\ ret' = <<"destroy">>
  /\ UNCHANGED <<mem, alloc, objects, arg>>

Mut_DestroyEntry ==
  /\ pc = "destroy" /\ pos # NULL
  /\ owner' = Freed({key[pos], value[pos]})
  /\ FreeEntry(mem, pos)
  /\ pos' = mem'.at[NextOf(pos)]
  /\ UNCHANGED <<pc, content, arg, bkt, ret>>

\* The entry's next is read before the entry is freed, and entries are freed
\* without being taken out of the list.
DestroyEntry ==
  /\ pc = "destroy"
  /\ pos # NULL
  /\ pos' = mem.at[NextOf(pos)]
  /\ owner' = Freed({key[pos], value[pos]})
  /\ FreeEntry(mem, pos)
  /\ UNCHANGED <<pc, content, arg, bkt, ret>>

DestroyBucket ==
  /\ pc = "destroy"
  /\ pos = NULL
  /\ bkt < Size - 1
  /\ bkt' = bkt + 1
  /\ pos' = mem.at[First(bkt + 1)]
  /\ UNCHANGED <<pc, mem, alloc, objects, arg, ret>>

\* free(ht): the heads go with the table.
DestroyReturns ==
  /\ pc = "destroy"
  /\ pos = NULL
  /\ bkt = Size - 1
  /\ pc' = "none"
  /\ bkt' = 0
  /\ mem' = [mem EXCEPT !.at = [s \in Slots |-> IF s[1] = "first" THEN Wild ELSE @[s]]]
  /\ UNCHANGED <<alloc, objects, arg, pos, ret>>

-----------------------------------------------------------------------------
(* simple_ht_bucket_stats(): it changes the caller's array only, and is one  *)
(* action.                                                                   *)

Mut_Class(count, nb) == IF count < nb - 2 THEN count ELSE nb - 1

\* Where a bucket of that many entries is counted.
Class(count, nb) == IF count <= nb - 2 THEN count ELSE nb - 1

\* memset() clears nb bytes of the array, which has nb words of four bytes.
Cleared(j, w, nb) ==
  CASE 4 * (j + 1) <= nb -> 0
    [] 4 * j >= nb       -> w
    [] OTHER             -> w - (w % <<1, 256, 65536, 16777216>>[(nb % 4) + 1])

BucketStats(nb, w) ==
  /\ pc = "idle"
  /\ ret' = <<"stats", nb, w,
              [j \in 0..nb - 1 |->
                 IF nb < 2 THEN w
                 ELSE Cleared(j, w, nb)
                      + Cardinality({h \in Heads : Class(Len(Items(mem, First(h))), nb) = j})]>>
  /\ UNCHANGED <<pc, mem, alloc, objects, arg, pos, bkt>>

-----------------------------------------------------------------------------

Step ==
  \/ InsertAdvance \/ InsertUpdate \/ (\E n \in Nodes : InsertNew(n)) \/ InsertFails
  \/ LookupAdvance \/ LookupReturns
  \/ RemoveAdvance \/ RemoveFound \/ RemoveMiss
  \/ DestroyEntry \/ DestroyBucket \/ DestroyReturns

Next ==
  \/ Create
  \/ \E k \in Keys, ko \in KeyObjs, vo \in ValueObjs : InsertCall(k, ko, vo)
  \/ \E k \in Keys : LookupCall(k) \/ RemoveCall(k)
  \/ DestroyCall
  \/ \E nb \in NbStats, w \in Words : BucketStats(nb, w)
  \/ Step

Spec == Init /\ [][Next]_vars

-----------------------------------------------------------------------------

\* Between create and destroy the table is whole.
Whole == pc \in {"idle", "insert", "lookup", "remove"}

\* Every variable has its type.
TypeOK ==
  /\ pc \in {"none", "idle", "insert", "lookup", "remove", "destroy"}
  /\ mem \in Memory
  /\ alloc \subseteq Nodes
  /\ key \in [Nodes -> KeyObjs \cup {Wild}]
  /\ value \in [Nodes -> ValueObjs \cup {Wild}]
  /\ content \in [KeyObjs -> Keys \cup {Absent}]
  /\ owner \in [Objects -> {"free", "caller", "table"}]
  /\ arg \in [k : Keys \cup {Absent}, ko : KeyObjs \cup {Wild}, vo : ValueObjs \cup {Wild}]
  /\ pos \in Nodes \cup {NULL}
  /\ bkt \in 0..Size - 1

\* No call follows a pointer into freed or unwritten memory: its cursor is at
\* an entry that is allocated, whatever the calls before have removed.
CursorSafe == pos # NULL => pos \in alloc

\* The lists are the table: each bucket's list ends, the entries on them are
\* all that are allocated, every entry's pprev leads back to it, it is in the
\* bucket of its key, and no key is there twice.
ListsSound ==
  Whole =>
    /\ \A h \in Heads : Ends(mem, First(h))
    /\ alloc = UNION {Visited(mem, First(h)) : h \in Heads}
    /\ \A n \in alloc : mem.pprev[n] \in Slots /\ mem.at[mem.pprev[n]] = n
    /\ \A h \in Heads : \A n \in Visited(mem, First(h)) : Bucket(content[key[n]]) = h
    /\ \A n, o \in alloc : content[key[n]] = content[key[o]] => n = o

\* Each entry owns its key and value objects alone, so none is freed twice or
\* used after it was; and a value that was handed over and not freed yet is
\* always in an entry, so none is lost, however it is replaced or removed.
ObjectsOwned ==
  /\ \A n \in alloc : owner[key[n]] = "table" /\ owner[value[n]] = "table"
  /\ \A n, o \in alloc : n # o => key[n] # key[o] /\ value[n] # value[o]
  /\ \A vo \in ValueObjs : owner[vo] = "table" => \E n \in alloc : value[n] = vo
  /\ pc = "none" => alloc = {}

\* The map that the lists hold, which destroy gives up when it is called.
CurrentMap ==
  [k \in Keys |->
     LET found == {n \in Visited(mem, First(Bucket(k))) : content[key[n]] = k}
     IN  IF Whole /\ found # {} THEN value[CHOOSE n \in found : TRUE] ELSE Absent]

KV == INSTANCE KeyValueMap WITH map <- CurrentMap, Values <- ValueObjs

\* The table is the map simple_ht.h promises: walking, linking and freeing are
\* invisible, and each call answers, and changes the map, as the map would; an
\* insert that succeeds leaves the value it was given under its key.
IsMap == KV!Spec

\* The number of keys of the map in bucket h.
BucketSize(h) == Cardinality({k \in Keys : Bucket(k) = h /\ CurrentMap[k] # Absent})

\* The stats shown say how many buckets have size 0, 1, ..., nb - 2, and more.
Exact(nb, stats) ==
  /\ \A j \in 0..nb - 2 : stats[j] = Cardinality({h \in Heads : BucketSize(h) = j})
  /\ stats[nb - 1] = Cardinality({h \in Heads : BucketSize(h) > nb - 2})

StatsAsked == pc = "idle" /\ ret[1] = "stats" /\ ret[2] >= 2

\* Into an array of zeros, bucket_stats counts each bucket by the number of
\* the map's keys in it, whatever was replaced and removed on the way.
StatsCounted == StatsAsked /\ ret[3] = 0 => Exact(ret[2], ret[4])

\* simple_ht.h says that it counts, and asks nothing of what the array holds.
StatsExact == StatsAsked => Exact(ret[2], ret[4])

\* A key object that is nobody's but the table's, and in none of its entries.
Stray(ko) == owner[ko] = "table" /\ \A n \in alloc : key[n] # ko

\* A key object goes with its entry, by remove or destroy; only an insert whose
\* key is there already takes one over and has no place for it.
KeysKept ==
  [][\A ko \in KeyObjs :
       ~Stray(ko) /\ Stray(ko)' => ko = arg.ko /\ CurrentMap[arg.k] # Absent]_vars
=============================================================================
