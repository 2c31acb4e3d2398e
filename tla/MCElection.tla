------------------------------ MODULE MCElection ------------------------------
(* Instances of Election for TLC.                                            *)
EXTENDS Election, TLC

Symmetry == Permutations(Instances)

===============================================================================
