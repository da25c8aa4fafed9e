---------------------------- MODULE KeyValueMap ----------------------------
(***************************************************************************)
(* What simple_ht.h promises: a map from keys to values.  Every operation  *)
(* takes effect at once and leaves in ret what it was called with and what *)
(* it answered.                                                            *)
(***************************************************************************)
CONSTANTS Keys, Values, Absent

VARIABLES map, ret

Init ==
  /\ map = [k \in Keys |-> Absent]
  /\ ret = <<"none">>

Insert(k, v) ==
  /\ map' = [map EXCEPT ![k] = v]
  /\ ret' = <<"insert", k, v, TRUE>>

\* Internal failure: only when there was something to allocate.
InsertFails(k, v) ==
  /\ map[k] = Absent
  /\ ret' = <<"insert", k, v, FALSE>>
  /\ UNCHANGED map

Lookup(k) ==
  /\ ret' = <<"lookup", k, map[k]>>
  /\ UNCHANGED map

Remove(k) ==
  /\ map' = [map EXCEPT ![k] = Absent]
  /\ ret' = <<"remove", k>>

Destroy ==
  /\ map' = [k \in Keys |-> Absent]
  /\ ret' = <<"destroy">>

\* Statistics are about buckets, of which a map knows nothing.
Stats ==
  /\ ret'[1] = "stats"
  /\ UNCHANGED map

Next ==
  \/ \E k \in Keys, v \in Values : Insert(k, v) \/ InsertFails(k, v)
  \/ \E k \in Keys : Lookup(k) \/ Remove(k)
  \/ Destroy
  \/ Stats

Spec == Init /\ [][Next]_<<map, ret>>
=============================================================================
