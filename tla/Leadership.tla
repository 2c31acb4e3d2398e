------------------------------ MODULE Leadership ------------------------------
(***************************************************************************)
(* What the election promises to a high-availability group: at most one    *)
(* leader, and a new one only after the old one has lost or given up the   *)
(* lock.  It does not promise that the old one knows.                      *)
(***************************************************************************)
CONSTANTS Instances, NoOne

VARIABLE leader

Init == leader = NoOne

Elect(i) == leader = NoOne /\ leader' = i

Vacate == leader # NoOne /\ leader' = NoOne

Next == (\E i \in Instances : Elect(i)) \/ Vacate

Spec == Init /\ [][Next]_leader

===============================================================================
