---------------------------- MODULE MCClockCache ----------------------------
(* Small caches: three keys, a capacity of two that may start lower, two     *)
(* writers and two readers.                                                  *)
EXTENDS ClockCache

CONSTANTS k1, k2, k3, v1, v2

MCKeys == {k1, k2, k3}
MCValues == {v1, v2}

E(k, v) == [key |-> k, value |-> v]

(* Single inserts, a second value for a key, and a batch. *)
MCInsertBatches == {<<E(k1, v1)>>, <<E(k1, v2)>>, <<E(k2, v1), E(k3, v1)>>}

(* Get of one key and GetValues of two. *)
MCGetBatches == {<<k1>>, <<k2, k1>>}
=============================================================================
