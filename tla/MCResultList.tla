---------------------------- MODULE MCResultList ----------------------------
(***************************************************************************)
(* ResultList for TLC: the addresses and the lists are interchangeable.    *)
(***************************************************************************)
EXTENDS ResultList, TLC

Symmetry == Permutations(Nodes) \cup Permutations(Handles)
=============================================================================
