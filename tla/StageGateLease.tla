-------------------------- MODULE StageGateLease --------------------------
(***************************************************************************)
(* The stage gate implements a lease: the owner of a URL's lock is the     *)
(* worker whose token Redis holds, and a worker claims the URL from the    *)
(* SET that answered it to the script that deletes the key.                *)
(***************************************************************************)
EXTENDS StageGate

CONSTANTS Free, Stray, NoUrl

ASSUME StageGateLeaseAssumption ==
  /\ Free \notin Workers /\ Stray \notin Workers /\ Free # Stray
  /\ NoUrl \notin Urls

Owners(u) == {w \in Workers : token[w] # NoToken /\ url[w] = u /\ token[w] = lock[u]}

OwnerOf(u) == IF lock[u] = NoToken THEN Free
              ELSE IF Owners(u) = {} THEN Stray
              ELSE CHOOSE w \in Workers : w \in Owners(u)

ClaimOf(w) == IF token[w] = NoToken THEN NoUrl ELSE url[w]

Leases == INSTANCE Lease WITH Clients <- Workers, Keys <- Urls, NoKey <- NoUrl,
                              owner <- [u \in Urls |-> OwnerOf(u)],
                              claim <- [w \in Workers |-> ClaimOf(w)]

(* Every step of Acquire, release, a TTL or a crash is a step of the lease *)
(* or none: a worker is granted a URL only while nobody's lease is on it,  *)
(* a release ends no lease but the worker's own, however late it comes and *)
(* whatever Redis answered, and a claim is never handed over.              *)
LeaseKept == Leases!Spec
=============================================================================
