--------------------------- MODULE MCFetcherPool ---------------------------
(* Two jobs and two workers: one worker's commit can pass the other's      *)
(* offset, a retried job meets the gate's lock of its first try, and a     *)
(* restart between the two reads some messages again.  The workers are     *)
(* interchangeable.                                                        *)
EXTENDS FetcherPool, TLC

WorkerSymmetry == Permutations(Workers)
=============================================================================
