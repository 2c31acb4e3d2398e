------------------------------ MODULE MCIngest ------------------------------
(* Instances of Ingest for TLC: call c1 writes all metrics, every other    *)
(* call only m1, where it meets c1.                                        *)
EXTENDS Ingest, TLC

CONSTANTS c1, m1

MCRows   == [c \in Calls |-> IF c = c1 THEN Metrics ELSE {m1}]
MCSize   == [r \in Requests |-> 1]
MCLabels == [r \in Requests |-> Series]

(* The pooled buffers are interchangeable. *)
Symmetry == Permutations(Buffers)
=============================================================================
