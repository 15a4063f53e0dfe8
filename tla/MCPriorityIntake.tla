-------------------------- MODULE MCPriorityIntake --------------------------
(* Two partitions: a reference arrives at one intake before a message that *)
(* does not decode, its retry and another reference at the other intake.   *)
EXTENDS PriorityIntake, TLC

CONSTANTS i1, i2, a1, a2, b1, x1, a, b

MCLog == (i1 :> <<a1, x1>>) @@ (i2 :> <<a2, b1>>)
MCIdOf == [m \in Messages |-> CASE m \in {a1, a2} -> a [] m = b1 -> b [] OTHER -> NoId]
MCRankOf == [m \in Messages |-> CASE m = a1 -> 2 [] m = a2 -> 1 [] OTHER -> 3]
Symmetry == Permutations(Consumers)
=============================================================================
