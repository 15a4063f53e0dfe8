--------------------------- MODULE CircuitBreaker ---------------------------
(***************************************************************************)
(* The circuit breaker of one crawl source (pkg/resilience) and the fetch  *)
(* workers that ask it for leave: the registry that makes one breaker per  *)
(* source, Allow before a fetch, RecordSuccess or RecordFailure after it.  *)
(* Each breaker operation runs under the breaker's mutex, so it is one     *)
(* step; a fetch lasts from one such step to another, and what it reports  *)
(* may reach a breaker that has changed state since it let the fetch in.   *)
(***************************************************************************)
EXTENDS Naturals, FiniteSets

CONSTANTS Workers,      \* fetch workers of all pools, which share the registry
          MaxFailures   \* CircuitBreakerConfig.MaxFailures

ASSUME CircuitBreakerAssumption == MaxFailures \in Nat \ {0} /\ IsFiniteSet(Workers)

VARIABLES pc,       \* "idle", "lookup", "create", "admit" or "fetch"
          mine,     \* the breaker Get returned to each worker
          probing,  \* workers whose fetch was let in as a HalfOpen probe
          reg,      \* the breaker the registry maps the source to; 0 is none
          state,    \* each breaker's cbState
          failures, \* each breaker's consecutive failures
          elapsed,  \* each breaker: OpenTimeout has passed since openedAt
          probe     \* each breaker's probeActive

breaker == <<state, failures, elapsed, probe>>
vars == <<pc, mine, probing, reg, breaker>>

(* Every worker could make a breaker of its own if Get let it. *)
Breakers == 1..Cardinality(Workers)

States == {"closed", "open", "half_open"}

TypeOK ==
  /\ pc \in [Workers -> {"idle", "lookup", "create", "admit", "fetch"}]
  /\ mine \in [Workers -> Breakers \cup {0}]
  /\ probing \subseteq Workers
  /\ reg \in Breakers \cup {0}
  /\ state \in [Breakers -> States]
  /\ failures \in [Breakers -> 0..MaxFailures]
  /\ elapsed \in [Breakers -> BOOLEAN]
  /\ probe \in [Breakers -> BOOLEAN]

Init ==
  /\ pc = [w \in Workers |-> "idle"]
  /\ mine = [w \in Workers |-> 0]
  /\ probing = {}
  /\ reg = 0
  /\ state = [b \in Breakers |-> "closed"]
  /\ failures = [b \in Breakers |-> 0]
  /\ elapsed = [b \in Breakers |-> FALSE]
  /\ probe = [b \in Breakers |-> FALSE]

Goto(w, label) == pc' = [pc EXCEPT ![w] = label]

---------------------------------------------------------------------------
(* CircuitBreakerRegistry.Get                                              *)

NewJob(w) ==
  /\ pc[w] = "idle"
  /\ Goto(w, "lookup")
  /\ UNCHANGED <<mine, probing, reg, breaker>>

(* The look under the read lock. *)
Lookup(w) ==
  /\ pc[w] = "lookup"
  /\ IF reg # 0 THEN mine' = [mine EXCEPT ![w] = reg] /\ Goto(w, "admit")
                ELSE UNCHANGED mine /\ Goto(w, "create")
  /\ UNCHANGED <<probing, reg, breaker>>

FoundOrNew == IF reg # 0 THEN reg ELSE 1

(* The second look under the write lock, and the breaker it may make. *)
Create(w) ==
  /\ pc[w] = "create"
  /\ reg' = FoundOrNew
  /\ mine' = [mine EXCEPT ![w] = FoundOrNew]
  /\ Goto(w, "admit")
  /\ UNCHANGED <<probing, breaker>>

---------------------------------------------------------------------------
(* CircuitBreaker                                                          *)

Admits(b) == \/ state[b] = "closed"
             \/ state[b] = "open" /\ elapsed[b]
             \/ state[b] = "half_open" /\ ~probe[b]

(* Allow lets the fetch in; outside Closed it does so as the probe. *)
Allow(w) ==
  /\ pc[w] = "admit"
  /\ Admits(mine[w])
  /\ IF state[mine[w]] = "closed"
       THEN UNCHANGED <<state, probe, probing>>
       ELSE /\ state' = [state EXCEPT ![mine[w]] = "half_open"]
            /\ probe' = [probe EXCEPT ![mine[w]] = TRUE]
            /\ probing' = probing \cup {w}
  /\ Goto(w, "fetch")
  /\ UNCHANGED <<mine, reg, failures, elapsed>>

(* Allow refuses: the job goes to the dead-letter topic. *)
Refuse(w) ==
  /\ pc[w] = "admit"
  /\ ~Admits(mine[w])
  /\ Goto(w, "idle")
  /\ UNCHANGED <<mine, probing, reg, breaker>>

ResetWhenClosed(b) == IF state[b] = "closed" THEN 0 ELSE failures[b]
AfterSuccess(b) == 0

RecordSuccess(w) ==
  LET b == mine[w] IN
  /\ pc[w] = "fetch"
  /\ failures' = [failures EXCEPT ![b] = AfterSuccess(b)]
  /\ IF state[b] = "half_open"
       THEN /\ state' = [state EXCEPT ![b] = "closed"]
            /\ probe' = [probe EXCEPT ![b] = FALSE]
       ELSE UNCHANGED <<state, probe>>
  /\ probing' = probing \ {w}
  /\ Goto(w, "idle")
  /\ UNCHANGED <<mine, reg, elapsed>>

CountsTo(b) == IF state[b] = "closed" THEN failures[b] + 1 ELSE failures[b]

OnlyClosedOpens(b) == state[b] = "closed" /\ CountsTo(b) >= MaxFailures
FailureOpens(b) == \/ state[b] = "closed" /\ CountsTo(b) >= MaxFailures
                   \/ state[b] = "half_open"

(* A failure in Closed counts, and opens the breaker at the threshold; one *)
(* in HalfOpen opens it; one that comes when it is Open changes nothing.   *)
RecordFailure(w) ==
  LET b == mine[w] IN
  /\ pc[w] = "fetch"
  /\ failures' = [failures EXCEPT ![b] = CountsTo(b)]
  /\ IF FailureOpens(b)
       THEN /\ state' = [state EXCEPT ![b] = "open"]
            /\ elapsed' = [elapsed EXCEPT ![b] = FALSE]
            /\ probe' = [probe EXCEPT ![b] = IF state[b] = "half_open" THEN FALSE ELSE @]
       ELSE UNCHANGED <<state, elapsed, probe>>
  /\ probing' = probing \ {w}
  /\ Goto(w, "idle")
  /\ UNCHANGED <<mine, reg>>

(* The clock passes openedAt + OpenTimeout. *)
Elapse(b) ==
  /\ state[b] = "open" /\ ~elapsed[b]
  /\ elapsed' = [elapsed EXCEPT ![b] = TRUE]
  /\ UNCHANGED <<pc, mine, probing, reg, state, failures, probe>>

Reports(w) == RecordSuccess(w) \/ RecordFailure(w)

Next == \/ \E w \in Workers : \/ NewJob(w) \/ Lookup(w) \/ Create(w)
                              \/ Allow(w) \/ Refuse(w) \/ Reports(w)
        \/ \E b \in Breakers : Elapse(b)

Spec == Init /\ [][Next]_vars

---------------------------------------------------------------------------
(* Properties                                                              *)

(* All workers of a source ask the same breaker, whatever the order in     *)
(* which their first jobs reach the registry.                              *)
OneBreaker == \A v, w \in Workers : mine[v] # 0 /\ mine[w] # 0 => mine[v] = mine[w]

(* A breaker in HalfOpen always has the fetch it is waiting for: there is  *)
(* a probe under way, so that no order of late results leaves it refusing  *)
(* every job for ever.                                                     *)
HalfOpenHasProbe ==
  \A b \in Breakers : state[b] = "half_open" =>
    probe[b] /\ \E w \in probing : mine[w] = b /\ pc[w] = "fetch"

(* A closed breaker is always below the threshold: it never opens on the   *)
(* first failure after it has closed, nor on failures from before.         *)
ClosedBelowThreshold ==
  \A b \in Breakers : state[b] = "closed" => failures[b] < MaxFailures /\ ~probe[b]

(* A breaker that refuses lets a fetch in again, as long as jobs keep      *)
(* coming and fetches end: neither Open nor a HalfOpen whose probe has     *)
(* gone astray is for ever.                                                *)
RefusalEnds == \A b \in Breakers : ~Admits(b) ~> Admits(b)

(* HalfOpen lets a single probe through at a time. *)
SingleProbe == \A v, w \in probing : v = w
=============================================================================
