----------------------------- MODULE StageGate -----------------------------
(***************************************************************************)
(* The gate every worker of a pipeline stage passes before it works on a   *)
(* URL (internal/locks): a counting semaphore local to the process, and a  *)
(* lock on the URL kept in Redis, owned by a token and bounded by a TTL.   *)
(* stageGate.Acquire takes the permit first and the lock second; release() *)
(* gives the permit back first and the lock second.                        *)
(*                                                                         *)
(* A pod is one process with its own semaphore.  A Redis call may fail     *)
(* before or after the server has applied it.  A worker whose Acquire      *)
(* failed for a reason other than its context goes on without the gate.    *)
(***************************************************************************)
EXTENDS Naturals, FiniteSets

CONSTANTS Workers,   \* goroutines that call Acquire
          Pods,      \* processes, each with one semaphore for the stage
          PodOf,     \* the process a worker runs in
          Urls,      \* normalised URLs, the lock keys of one stage
          Tokens,    \* values newLockToken may draw
          NoToken,   \* no lock in Redis, or no token in hand
          Capacity   \* permits of one semaphore

ASSUME StageGateAssumption ==
  /\ PodOf \in [Workers -> Pods]
  /\ NoToken \notin Tokens
  /\ Capacity \in Nat \ {0}
  /\ IsFiniteSet(Workers)

VARIABLES pc,        \* where each worker is in Acquire, in its work or in release
          result,    \* what Acquire is returning to each worker
          url,       \* the URL each worker asked for
          token,     \* the token release() has captured
          permits,   \* permits taken from each pod's xsem.Weighted
          inFlight,  \* the counter weightedSemaphore keeps beside it
          lock,      \* Redis: the token stored under each URL's key
          overran    \* workers whose lock's TTL ran out while they held it

vars == <<pc, result, url, token, permits, inFlight, lock, overran>>

PCs == {"idle", "wait", "admitted", "setnx", "holding", "release", "post",
        "unlock", "open"}
Results == {"none", "held", "skip", "error"}

TypeOK ==
  /\ pc \in [Workers -> PCs]
  /\ result \in [Workers -> Results]
  /\ url \in [Workers -> Urls]
  /\ token \in [Workers -> Tokens \cup {NoToken}]
  /\ permits \in [Pods -> Nat]
  /\ inFlight \in [Pods -> Nat]
  /\ lock \in [Urls -> Tokens \cup {NoToken}]
  /\ overran \subseteq Workers

Init ==
  /\ pc = [w \in Workers |-> "idle"]
  /\ result = [w \in Workers |-> "none"]
  /\ url \in [Workers -> Urls]
  /\ token = [w \in Workers |-> NoToken]
  /\ permits = [p \in Pods |-> 0]
  /\ inFlight = [p \in Pods |-> 0]
  /\ lock = [u \in Urls |-> NoToken]
  /\ overran = {}

(* A drawn token differs from every token in Redis and in a worker's hand. *)
Fresh == {t \in Tokens : /\ \A u \in Urls : lock[u] # t
                         /\ \A w \in Workers : token[w] # t}

Goto(w, label) == pc' = [pc EXCEPT ![w] = label]

---------------------------------------------------------------------------
(* stageGate.Acquire                                                       *)

Enter(w, u) ==
  /\ pc[w] = "idle"
  /\ url' = [url EXCEPT ![w] = u]
  /\ Goto(w, "wait")
  /\ UNCHANGED <<result, token, permits, inFlight, lock, overran>>

Room(p) == permits[p] < Capacity

(* xsem.Weighted.Acquire blocks while the semaphore is full. *)
TakePermit(w) ==
  /\ pc[w] = "wait"
  /\ Room(PodOf[w])
  /\ permits' = [permits EXCEPT ![PodOf[w]] = @ + 1]
  /\ Goto(w, "admitted")
  /\ UNCHANGED <<result, url, token, inFlight, lock, overran>>

(* The context ends while the worker waits: Acquire returns the error. *)
CancelWait(w) ==
  /\ pc[w] = "wait"
  /\ Goto(w, "idle")
  /\ UNCHANGED <<result, url, token, permits, inFlight, lock, overran>>

CountIn(w) ==
  /\ pc[w] = "admitted"
  /\ inFlight' = [inFlight EXCEPT ![PodOf[w]] = @ + 1]
  /\ Goto(w, "setnx")
  /\ UNCHANGED <<result, url, token, permits, lock, overran>>

(* SET key token NX EX ttl, and the caller learns that it holds the lock. *)
LockTaken(w) ==
  /\ pc[w] = "setnx"
  /\ lock[url[w]] = NoToken
  /\ \E t \in Fresh : /\ lock' = [lock EXCEPT ![url[w]] = t]
                      /\ token' = [token EXCEPT ![w] = t]
  /\ result' = [result EXCEPT ![w] = "held"]
  /\ Goto(w, "holding")
  /\ UNCHANGED <<url, permits, inFlight, overran>>

(* Where Acquire goes when it does not get the lock: it gives the permit   *)
(* back before it returns.                                                 *)
WithoutPermitBack == "idle"
OnBusy == "release"
OnError == "release"

LockBusy(w) ==
  /\ pc[w] = "setnx"
  /\ lock[url[w]] # NoToken
  /\ result' = [result EXCEPT ![w] = "skip"]
  /\ Goto(w, OnBusy)
  /\ UNCHANGED <<url, token, permits, inFlight, lock, overran>>

(* The call fails; the server may have stored the token all the same, and  *)
(* then nobody is left who knows it.                                       *)
LockFails(w) ==
  /\ pc[w] = "setnx"
  /\ \/ UNCHANGED lock
     \/ /\ lock[url[w]] = NoToken
        /\ \E t \in Fresh : lock' = [lock EXCEPT ![url[w]] = t]
  /\ result' = [result EXCEPT ![w] = "error"]
  /\ Goto(w, OnError)
  /\ UNCHANGED <<url, token, permits, inFlight, overran>>

---------------------------------------------------------------------------
(* release(), and the failure paths of Acquire that share its semaphore    *)
(* half.                                                                   *)

FinishWork(w) ==
  /\ pc[w] = "holding"
  /\ Goto(w, "release")
  /\ UNCHANGED <<result, url, token, permits, inFlight, lock, overran>>

(* weightedSemaphore.Release, its compare-and-swap on inFlight: a caller   *)
(* that finds it at zero leaves without returning a permit.                *)
CountOut(w) ==
  /\ pc[w] = "release"
  /\ IF inFlight[PodOf[w]] = 0
       THEN /\ Goto(w, IF result[w] = "held" THEN "unlock" ELSE "idle")
            /\ UNCHANGED inFlight
       ELSE /\ inFlight' = [inFlight EXCEPT ![PodOf[w]] = @ - 1]
            /\ Goto(w, "post")
  /\ UNCHANGED <<result, url, token, permits, lock, overran>>

PermitsReturned == 1

(* xsem.Weighted.Release, and the return of Acquire to a caller that did   *)
(* not get the lock: a skip ends the attempt, an error lets the worker go  *)
(* on without the gate unless its context has ended.                       *)
ReturnPermit(w) ==
  /\ pc[w] = "post"
  /\ permits' = [permits EXCEPT ![PodOf[w]] = @ - PermitsReturned]
  /\ \/ result[w] = "held"  /\ Goto(w, "unlock")
     \/ result[w] = "skip"  /\ Goto(w, "idle")
     \/ result[w] = "error" /\ (Goto(w, "open") \/ Goto(w, "idle"))
  /\ UNCHANGED <<result, url, token, inFlight, lock, overran>>

AnyOwner(w) == TRUE
Owned(w) == lock[url[w]] = token[w]

(* The Lua script deletes the key only while it holds the caller's token.  *)
(* The reply does not matter: a failure is logged and the token forgotten. *)
Unlock(w) ==
  /\ pc[w] = "unlock"
  /\ \/ lock' = [lock EXCEPT ![url[w]] = IF Owned(w) THEN NoToken ELSE @]
     \/ UNCHANGED lock
  /\ token' = [token EXCEPT ![w] = NoToken]
  /\ result' = [result EXCEPT ![w] = "none"]
  /\ overran' = overran \ {w}
  /\ Goto(w, "idle")
  /\ UNCHANGED <<url, permits, inFlight>>

(* The end of a job that ran without the gate. *)
FinishOpen(w) ==
  /\ pc[w] = "open"
  /\ Goto(w, "idle")
  /\ UNCHANGED <<result, url, token, permits, inFlight, lock, overran>>

---------------------------------------------------------------------------
(* The environment                                                         *)

Expire(u) ==
  /\ lock[u] # NoToken
  /\ overran' = overran \cup {w \in Workers : token[w] = lock[u]}
  /\ lock' = [lock EXCEPT ![u] = NoToken]
  /\ UNCHANGED <<pc, result, url, token, permits, inFlight>>

(* A process dies: its semaphore is gone, its locks stay until the TTL. *)
Crash(p) ==
  LET dead == {w \in Workers : PodOf[w] = p}
      reset(f, v) == [w \in Workers |-> IF w \in dead THEN v ELSE f[w]]
  IN  /\ \E w \in dead : pc[w] # "idle"
      /\ pc' = reset(pc, "idle")
      /\ result' = reset(result, "none")
      /\ token' = reset(token, NoToken)
      /\ overran' = overran \ dead
      /\ permits' = [permits EXCEPT ![p] = 0]
      /\ inFlight' = [inFlight EXCEPT ![p] = 0]
      /\ UNCHANGED <<url, lock>>

Acquire(w) == \/ \E u \in Urls : Enter(w, u)
              \/ TakePermit(w) \/ CancelWait(w) \/ CountIn(w)
              \/ LockTaken(w) \/ LockBusy(w) \/ LockFails(w)

Release(w) == FinishWork(w) \/ CountOut(w) \/ ReturnPermit(w) \/ Unlock(w)
              \/ FinishOpen(w)

Next == \/ \E w \in Workers : Acquire(w) \/ Release(w)
        \/ \E u \in Urls : Expire(u)
        \/ \E p \in Pods : Crash(p)

(* A worker that is not blocked runs; the waiters of xsem.Weighted are     *)
(* served in order, so one that waits is not passed over for ever; Redis   *)
(* enforces the TTL.                                                       *)
Fairness ==
  /\ \A w \in Workers : /\ SF_vars(TakePermit(w))
                        /\ WF_vars(CountIn(w))
                        /\ WF_vars(LockTaken(w) \/ LockBusy(w) \/ LockFails(w))
                        /\ WF_vars(Release(w))
  /\ \A u \in Urls : WF_vars(Expire(u))

Spec == Init /\ [][Next]_vars

LiveSpec == Spec /\ Fairness

---------------------------------------------------------------------------
(* Properties                                                              *)

(* Where a worker has taken a permit, and where it is counted besides. *)
PermitPCs == {"admitted", "setnx", "holding", "release", "post"}
CountedPCs == {"setnx", "holding", "release"}

NumAt(at, p, S) == Cardinality({w \in Workers : PodOf[w] = p /\ at[w] \in S})

(* The permits taken from a semaphore are those of the workers between its *)
(* Acquire and its Release, and InFlight() counts the workers in between:  *)
(* no path of Acquire or release leaks a permit, and none returns a permit *)
(* that is another worker's.                                               *)
PermitsAccounted ==
  \A p \in Pods : /\ permits[p] = NumAt(pc, p, PermitPCs)
                  /\ inFlight[p] = NumAt(pc, p, CountedPCs)

(* The counter InFlight() reports stays between zero and the permits       *)
(* taken, which stay within Capacity: Acquire counts after it takes, and   *)
(* Release discounts before it returns.                                    *)
InFlightWithinPermits ==
  \A p \in Pods : inFlight[p] <= permits[p] /\ permits[p] <= Capacity

Gated(w) == pc[w] = "holding"

(* A worker that works under the gate and has not outlived the TTL still   *)
(* has its own token in Redis: no other worker's release, skip, error or   *)
(* crash has removed it.                                                   *)
LockKeptWhileHeld ==
  \A w \in Workers :
    Gated(w) /\ w \notin overran => lock[url[w]] = token[w]

(* Two workers of any pods work on one URL under the gate only after the   *)
(* lock of one of them has outlived its TTL.                               *)
ExclusiveUntilTTL ==
  \A v, w \in Workers :
    v # w /\ Gated(v) /\ Gated(w) /\ url[v] = url[w]
      => v \in overran \/ w \in overran

(* A worker that calls Acquire comes to an answer and, when it is let in,  *)
(* through its work and its release, whatever Redis answers.               *)
AcquireEnds == \A w \in Workers : pc[w] = "wait" ~> pc[w] = "idle"
=============================================================================
