------------------------------- MODULE Lease -------------------------------
(***************************************************************************)
(* What the URL lock of the stage gate promises, without its tokens, its   *)
(* Redis calls and its semaphore: a lease on a key.  A client that was     *)
(* granted a key holds a claim until it gives the claim up; nobody tells   *)
(* it when the lease has lapsed before that, or was never given back.      *)
(***************************************************************************)
CONSTANTS Clients, Keys,
          Free,      \* the owner of a key under no lease
          Stray,     \* the owner of a lease no client can give back
          NoKey      \* what a client without a claim claims

VARIABLES owner,     \* whose lease each key is under
          claim      \* the key each client was granted and has not given up

leases == <<owner, claim>>

Init == /\ owner = [k \in Keys |-> Free]
        /\ claim = [c \in Clients |-> NoKey]

Grant(c, k) == /\ owner[k] = Free /\ claim[c] = NoKey
               /\ owner' = [owner EXCEPT ![k] = c]
               /\ claim' = [claim EXCEPT ![c] = k]

(* The lease is granted and the client does not hear of it. *)
GrantUnheard(k) == /\ owner[k] = Free
                   /\ owner' = [owner EXCEPT ![k] = Stray]
                   /\ UNCHANGED claim

Lapse(k) == /\ owner[k] # Free
            /\ owner' = [owner EXCEPT ![k] = Free]
            /\ UNCHANGED claim

(* Giving up a claim frees the key at most of the client's own lease; when *)
(* the server does not hear of it, the lease is left to lapse.             *)
GiveUp(c) ==
  /\ claim[c] # NoKey
  /\ \E left \in {Free, Stray} :
       owner' = [k \in Keys |-> IF owner[k] = c THEN left ELSE owner[k]]
  /\ claim' = [claim EXCEPT ![c] = NoKey]

(* Clients die together and leave their leases behind. *)
Die(C) ==
  /\ owner' = [k \in Keys |-> IF owner[k] \in C THEN Stray ELSE owner[k]]
  /\ claim' = [c \in Clients |-> IF c \in C THEN NoKey ELSE claim[c]]

Next == \/ \E c \in Clients : GiveUp(c) \/ \E k \in Keys : Grant(c, k)
        \/ \E k \in Keys : GrantUnheard(k) \/ Lapse(k)
        \/ \E C \in SUBSET Clients : Die(C)

Spec == Init /\ [][Next]_leases

=============================================================================
