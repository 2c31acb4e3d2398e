---------------------------- MODULE ForgetfulMap ----------------------------
(* What the CLOCK cache promises its callers: a map that never changes the   *)
(* value of a key it holds, that holds at most `capacity` keys, and that     *)
(* forgets a key only to make room for another one when it is full.          *)
EXTENDS Integers

CONSTANTS Keys, Values, Absent

VARIABLES content,   \* the value of every key, or Absent
          size,      \* how many entries are taken
          capacity   \* how many entries there are

mapVars == <<content, size, capacity>>

MapInit ==
    /\ content = [k \in Keys |-> Absent]
    /\ size = 0
    /\ capacity \in Nat

(* A new key takes a free entry. *)
Add(k, v) ==
    /\ content[k] = Absent
    /\ size < capacity
    /\ content' = [content EXCEPT ![k] = v]
    /\ size' = size + 1
    /\ UNCHANGED capacity

(* A new key takes the entry of another one, and only when none is free. *)
Displace(k, v, victim) ==
    /\ content[k] = Absent
    /\ content[victim] # Absent
    /\ size = capacity
    /\ content' = [content EXCEPT ![k] = v, ![victim] = Absent]
    /\ UNCHANGED <<size, capacity>>

Grow ==
    /\ capacity' \in Nat
    /\ capacity' > capacity
    /\ UNCHANGED <<content, size>>

MapNext ==
    \/ \E k \in Keys, v \in Values : Add(k, v)
    \/ \E k, victim \in Keys, v \in Values : Displace(k, v, victim)
    \/ Grow

MapSpec == MapInit /\ [][MapNext]_mapVars
=============================================================================
