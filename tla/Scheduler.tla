------------------------------ MODULE Scheduler -----------------------------
(***************************************************************************)
(* The scheduler's table of entries over the publisher                     *)
(* (internal/scheduler/scheduler.go and resolver.go).  Operators edit the  *)
(* rows of scheduler_entries; a loop reads them and, under the scheduler's *)
(* lock, cancels the goroutine of an entry that is gone or has changed and *)
(* starts another.  A goroutine that is cancelled in the middle of         *)
(* PublishSeed goes on to its end beside its successor, and may take one   *)
(* more tick, for select prefers neither channel; its calls then have a    *)
(* context that has ended.  Gone is the publisher seen by such goroutines. *)
(***************************************************************************)
EXTENDS Publisher

CONSTANTS Versions,   \* interval, priority, type and timeout of an entry
          Static,     \* the version of sourceCategoryURLs and the environment
          MaxChanges  \* bound: edits of the table

ASSUME SchedulerAssumption == Static \in Versions /\ MaxChanges \in Nat

VARIABLES rows,      \* the enabled row of each URL: a set of one version or none
          changes,   \* edits of the table so far
          running,   \* Scheduler.running, likewise
          read,      \* rows that the loop holds between Resolve and the lock: one or none
          other,     \* the cancelled goroutine of an entry
          gspc,      \* its place in PublishSeed
          gguarded   \* whether it acquired the marker itself

table == <<rows, changes, running, read>>
cancelled == <<other, gspc, gguarded>>
allvars == <<vars, table, cancelled>>

Gone == INSTANCE Publisher WITH spc <- gspc, guarded <- gguarded

SchedulerInit ==
  /\ Init
  /\ rows = [s \in Seeds |-> {Static}] /\ changes = 0
  /\ running = rows
  /\ read = {}
  /\ other = [s \in Seeds |-> "none"]
  /\ gspc = [s \in Seeds |-> "idle"] /\ gguarded = {}

---------------------------------------------------------------------------
(* The loop                                                                *)

(* An insert, an update or a delete of an operator. *)
Edit(s) ==
  /\ changes < MaxChanges /\ changes' = changes + 1
  /\ \E row \in {{}} \cup {{v} : v \in Versions} :
       row # rows[s] /\ rows' = [rows EXCEPT ![s] = row]
  /\ UNCHANGED <<vars, running, read, cancelled>>

(* Invalidate and Resolve. *)
Resolve ==
  /\ read = {}
  /\ read' = {rows}
  /\ UNCHANGED <<vars, rows, changes, running, cancelled>>

(* The loop has dropped the last snapshot itself, so that there is none to *)
(* fall back on: the running entries stay as they are.                     *)
ResolveFails ==
  /\ read = {}
  /\ Fault
  /\ UNCHANGED <<marker, seen, scheduler, pages, worker, ghost, table, cancelled>>

SameURL(old, new) == old # {} /\ new # {}
Same(old, new) == old = new

(* The diff and the spawns, under the lock.  Bound: one cancelled          *)
(* goroutine of an entry at a time.                                        *)
Refresh ==
  /\ read # {}
  /\ \E desired \in read :
       LET out == {s \in Seeds : running[s] # {} /\ ~Same(running[s], desired[s])}
           fresh == out \cup {s \in Seeds : running[s] = {}}
       IN /\ \A s \in out : other[s] = "none"
          /\ running' = [s \in Seeds |-> IF s \in fresh THEN desired[s] ELSE running[s]]
          /\ other' = [s \in Seeds |-> IF s \in out THEN "cancelled" ELSE other[s]]
          /\ gspc' = [s \in Seeds |-> IF s \in out THEN spc[s] ELSE gspc[s]]
          /\ gguarded' = gguarded \cup (guarded \cap out)
          /\ spc' = [s \in Seeds |-> IF s \in out THEN "idle" ELSE spc[s]]
          /\ guarded' = guarded \ out
  /\ read' = {}
  /\ UNCHANGED <<marker, seen, pages, worker, faults, ghost, rows, changes>>

---------------------------------------------------------------------------
(* The goroutines                                                          *)

(* The goroutine in the table. *)
Emits(s) == running[s] # {} /\ Seeding(s) /\ UNCHANGED <<table, cancelled>>

Stumbles(s) ==
  /\ running[s] # {} /\ (SeedUnchecked(s) \/ SeedFails(s))
  /\ UNCHANGED <<table, cancelled>>

(* A cancelled one in PublishSeed. *)
GoneEmits(s) ==
  /\ Gone!SeedPublished(s) \/ Gone!SeedReleases(s)
  /\ UNCHANGED <<spc, guarded, table, other>>

(* Its publish fails; the release of the marker does not need the context. *)
GoneFails(s) ==
  /\ Gone!SeedFails(s)
  /\ UNCHANGED <<spc, guarded, table, other>>

(* select takes the tick: the guard cannot be asked, the publish is allowed. *)
GoneTicks(s) ==
  /\ other[s] = "cancelled" /\ gspc[s] = "idle"
  /\ other' = [other EXCEPT ![s] = "last"]
  /\ gspc' = [gspc EXCEPT ![s] = "publish"]
  /\ UNCHANGED <<vars, table, gguarded>>

GoneReturns(s) ==
  /\ other[s] # "none" /\ gspc[s] = "idle"
  /\ other' = [other EXCEPT ![s] = "none"]
  /\ UNCHANGED <<vars, table, gspc, gguarded>>

---------------------------------------------------------------------------

(* Death and Start; when the first read fails the static entries run. *)
Restart ==
  /\ Dies(guarded \cup gguarded)
  /\ running' \in {rows, [s \in Seeds |-> {Static}]}
  /\ read' = {}
  /\ other' = [s \in Seeds |-> "none"]
  /\ gspc' = [s \in Seeds |-> "idle"] /\ gguarded' = {}
  /\ UNCHANGED <<rows, changes>>

Pipeline ==
  /\ \/ \E w \in Workers : \/ \E s \in Seeds : Parse(w, s) \/ ParseNothing(w, s)
                           \/ Chaining(w) \/ Cancelled(w) \/ BatchFails(w)
                           \/ \E u \in Urls : FailOpen(w, u)
     \/ \E s \in Seeds : PageLost(s)
     \/ \E u \in Urls : MarkerExpires(u) \/ SeenExpires(u)
  /\ UNCHANGED <<table, cancelled>>

SchedulerNext ==
  \/ \E s \in Seeds : \/ Edit(s) \/ Emits(s) \/ Stumbles(s)
                      \/ GoneEmits(s) \/ GoneFails(s) \/ GoneTicks(s) \/ GoneReturns(s)
  \/ Resolve \/ ResolveFails \/ Refresh
  \/ Pipeline
  \/ Restart

(* As in Publisher; the ticker of the loop runs, a cancelled goroutine ends. *)
SchedulerFairness ==
  /\ WF_allvars(Resolve) /\ WF_allvars(Refresh)
  /\ \A s \in Seeds : /\ WF_allvars(Emits(s))
                      /\ WF_allvars(GoneEmits(s) \/ GoneReturns(s))
  /\ SF_allvars(\E w \in Workers, s \in Seeds : Parse(w, s) /\ UNCHANGED <<table, cancelled>>)
  /\ \A w \in Workers : WF_allvars(Chaining(w) /\ UNCHANGED <<table, cancelled>>)
  /\ \A u \in Urls : WF_allvars(MarkerExpires(u) /\ UNCHANGED <<table, cancelled>>)
  /\ \A u \in Articles : WF_allvars(SeenExpires(u) /\ UNCHANGED <<table, cancelled>>)

SchedulerSpec ==
  SchedulerInit /\ [][SchedulerNext]_allvars /\ SchedulerFairness

---------------------------------------------------------------------------
(* Properties                                                              *)

(* As MarkedForAReason in Publisher, with the goroutines that a refresh    *)
(* has cancelled: no cancellation leaves a marker that keeps the seed of   *)
(* the goroutine's own successor out.                                      *)
CancelledLeaveNoMarker ==
  \A u \in marker \ astray :
    \/ \E w \in Workers : u \in batch[w]
    \/ u \in Articles /\ entered[u] > 0
    \/ u \in Seeds /\ (UnderWay(u) \/ u \in gguarded)

(* What an operator writes takes effect: the running entries come to be    *)
(* the enabled rows, after failed reads, a start with the static entries,  *)
(* and an edit between the loop's read and its diff.                       *)
TableTakesEffect == <>[](running = rows)

(* An entry that stays in the table is seeded again and again, whatever    *)
(* refreshes replace its goroutine and however the one before ended.       *)
EnabledSeedResumes ==
  \A s \in Seeds : <>[](rows[s] # {}) => []<>(pages[s] > 0)

(* While some category stays in the table, an article whose marker is gone *)
(* enters again.                                                           *)
ArticleReturnsWhileEnabled ==
  <>[](\E s \in Seeds : rows[s] # {}) => ArticleReturns
=============================================================================
