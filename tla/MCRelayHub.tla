---------------------------- MODULE MCRelayHub -----------------------------
(* The relay on small instances: its ids are interchangeable.              *)
EXTENDS RelayHub, TLC

Symmetry == Permutations(Conns) \cup Permutations(Requests) \cup Permutations(Asks)
=============================================================================
