---------------------------- MODULE MCStageGate ----------------------------
(* Two workers in one pod behind one permit and a third in another pod, on *)
(* one URL: workers meet at the semaphore and pods at the lock.             *)
EXTENDS StageGateLease

CONSTANTS w3, p1, p2

MCPodOf == [w \in Workers |-> IF w = w3 THEN p2 ELSE p1]

=============================================================================
