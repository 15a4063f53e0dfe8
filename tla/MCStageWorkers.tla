-------------------------- MODULE MCStageWorkers --------------------------
(* One new article, a URL that has come before and may have left a row     *)
(* with the same body, and two interchangeable workers, one of which can   *)
(* lag a whole cycle behind the other.                                     *)
EXTENDS StageWorkers, TLC

WorkerSymmetry == Permutations(Consumers)

(* Bound: a failure and a duplicate's reparse meet in ZSET mode only.  In  *)
(* Kafka mode each of the two is explored without the other.               *)
FailuresApart == zset \/ doubled = {} \/ faults = 0

MCSpec == StageInit /\ [][StageNext /\ FailuresApart']_stageVars
=============================================================================
