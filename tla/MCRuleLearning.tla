-------------------------- MODULE MCRuleLearning --------------------------
(* Instances of RuleLearning: pages of an old and a new layout of two hosts. *)
EXTENDS RuleLearning, TLC

CONSTANTS a1, a2, b1, h1, h2

HostsOfPages == [p \in Pages |-> IF p = b1 THEN h2 ELSE h1]
NewLayouts == [p \in Pages |-> 2]
PartPages == {a1}

TwoProviders == <<"gemini", "openai">>
SameCost == [p \in ToSet(TwoProviders) |-> 1]

InstanceSymmetry == Permutations(Instances)
=============================================================================
