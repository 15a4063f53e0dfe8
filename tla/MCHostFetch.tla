---------------------------- MODULE MCHostFetch ----------------------------
(* Instances of HostFetch: pages of one host, on two instances. *)
EXTENDS HostFetch, TLC

CONSTANT h1

OneHost == [p \in Pages |-> h1]

Symmetry == Permutations(Instances) \cup Permutations(Pages)
=============================================================================
