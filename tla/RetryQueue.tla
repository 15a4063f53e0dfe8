----------------------------- MODULE RetryQueue -----------------------------
(***************************************************************************)
(* Delayed retries (internal/bus/retry.go over pkg/redis/retry_queue.go):  *)
(* a worker that requeues a job stores it in Redis, as a member of a ZSET  *)
(* scored by its due time and a string with the payload, both under the    *)
(* job's ID; a scheduler in every process polls the ZSET, publishes what   *)
(* is due to the crawl topic and then acknowledges it, by job ID.          *)
(*                                                                         *)
(* A Redis pipeline is two commands other clients may come between.  Any   *)
(* call may fail before or after it took effect, and a process may die     *)
(* between two steps.  The payload of an entry is the job's retry count.   *)
(***************************************************************************)
EXTENDS Naturals, FiniteSets

CONSTANTS Jobs, Workers, Schedulers,
          MaxRetries,  \* CrawlJob.MaxRetries
          MaxFaults    \* bound: calls that fail and processes that die

ASSUME RetryQueueAssumption == /\ MaxRetries \in Nat /\ MaxFaults \in Nat
                               /\ IsFiniteSet(Schedulers)

VARIABLES topic,    \* crawl messages published and not consumed
          zset,     \* retry:queue: "none", "later" or "due", by job ID
          entry,    \* retry:entry:<job>: the payload's retry count; 0 is none
          wpc, wmsg,       \* each worker: where it is in Enqueue, and its message
          spc,      \* where each scheduler is in pollOnce
          scanned,  \* the job IDs its ZRANGE returned, before the GETs
          items,    \* the payloads it peeked and has still to publish; 0 is none
          cur,      \* the item it is republishing, a job
          faults,   \* failed calls and dead processes so far
          owed,     \* jobs Enqueue has accepted and nobody has published since
          overtaken, \* jobs requeued while a scheduler had them in hand
          copies    \* how often each scheduler has published a message since
                    \* Enqueue stored it last

redis == <<zset, entry>>
worker == <<wpc, wmsg>>
scheduler == <<spc, scanned, items, cur>>
ghost == <<owed, overtaken, copies>>
vars == <<topic, redis, worker, scheduler, faults, ghost>>

Messages == [job : Jobs, retry : 0..MaxRetries]
SPCs == {"idle", "fetch", "publish", "ackZRem", "ackDel", "reZAdd", "reSet"}

TypeOK ==
  /\ topic \subseteq Messages
  /\ zset \in [Jobs -> {"none", "later", "due"}]
  /\ entry \in [Jobs -> 0..MaxRetries]
  /\ wpc \in [Workers -> {"idle", "handle", "zadd", "set"}]
  /\ wmsg \in [Workers -> Messages]
  /\ spc \in [Schedulers -> SPCs]
  /\ scanned \in [Schedulers -> SUBSET Jobs]
  /\ items \in [Schedulers -> [Jobs -> 0..MaxRetries]]
  /\ cur \in [Schedulers -> Jobs]
  /\ faults \in 0..MaxFaults
  /\ owed \subseteq Jobs /\ overtaken \subseteq Jobs
  /\ copies \in [Schedulers -> [Messages -> Nat]]

NoItems == [j \in Jobs |-> 0]

Init ==
  /\ topic = {m \in Messages : m.retry = 0}
  /\ zset = [j \in Jobs |-> "none"]
  /\ entry = NoItems
  /\ wpc = [w \in Workers |-> "idle"]
  /\ wmsg \in [Workers -> {m \in Messages : m.retry = 0}]
  /\ spc = [s \in Schedulers |-> "idle"]
  /\ scanned = [s \in Schedulers |-> {}]
  /\ items = [s \in Schedulers |-> NoItems]
  /\ cur \in [Schedulers -> Jobs]
  /\ faults = 0
  /\ owed = {} /\ overtaken = {}
  /\ copies = [s \in Schedulers |-> [m \in Messages |-> 0]]

WGoto(w, label) == wpc' = [wpc EXCEPT ![w] = label]
SGoto(s, label) == spc' = [spc EXCEPT ![s] = label]

(* A call fails or a process dies. *)
Fault == faults < MaxFaults /\ faults' = faults + 1

(* What a scheduler remembers of a job from its last ZRANGE on. *)
InHand(s, j) == \/ spc[s] # "idle" /\ (j \in scanned[s] \/ items[s][j] # 0)
                \/ spc[s] \in {"ackZRem", "ackDel", "reZAdd", "reSet"} /\ cur[s] = j

---------------------------------------------------------------------------
(* A worker that consumes a job and requeues it                            *)

Consume(w, m) ==
  /\ wpc[w] = "idle" /\ m \in topic
  /\ topic' = topic \ {m}
  /\ wmsg' = [wmsg EXCEPT ![w] = m]
  /\ WGoto(w, "handle")
  /\ UNCHANGED <<redis, scheduler, ghost, faults>>

(* Fetched, or out of retries and dead-lettered: the job has left. *)
Finish(w) ==
  /\ wpc[w] = "handle"
  /\ WGoto(w, "idle")
  /\ UNCHANGED <<topic, redis, wmsg, scheduler, ghost, faults>>

MayRetry(m) == m.retry < MaxRetries

Requeue(w) ==
  /\ wpc[w] = "handle" /\ MayRetry(wmsg[w])
  /\ WGoto(w, "zadd")
  /\ UNCHANGED <<topic, redis, wmsg, scheduler, ghost, faults>>

EnqueueZAdd(w) ==
  LET j == wmsg[w].job IN
  /\ wpc[w] = "zadd"
  /\ zset' = [zset EXCEPT ![j] = "later"]
  /\ overtaken' = IF \E s \in Schedulers : InHand(s, j) THEN overtaken \cup {j}
                                                        ELSE overtaken
  /\ WGoto(w, "set")
  /\ UNCHANGED <<topic, entry, wmsg, scheduler, owed, copies, faults>>

(* EnqueueRetry returns nil: the message is committed. *)
EnqueueSet(w) ==
  LET j == wmsg[w].job
      next == [job |-> j, retry |-> wmsg[w].retry + 1] IN
  /\ wpc[w] = "set"
  /\ entry' = [entry EXCEPT ![j] = wmsg[w].retry + 1]
  /\ owed' = owed \cup {j}
  /\ overtaken' = IF \E s \in Schedulers : InHand(s, j) THEN overtaken \cup {j}
                                                        ELSE overtaken
  /\ copies' = [s \in Schedulers |-> [copies[s] EXCEPT ![next] = 0]]
  /\ WGoto(w, "idle")
  /\ UNCHANGED <<topic, zset, wmsg, scheduler, faults>>

(* EnqueueRetry fails or the worker dies, after neither, one or both of    *)
(* its commands: the message is delivered again.                           *)
EnqueueFails(w) ==
  LET j == wmsg[w].job IN
  /\ wpc[w] \in {"handle", "zadd", "set"}
  /\ Fault
  /\ \/ UNCHANGED <<redis, overtaken>>
     \/ /\ wpc[w] = "set"
        /\ entry' = [entry EXCEPT ![j] = wmsg[w].retry + 1]
        /\ overtaken' = IF \E s \in Schedulers : InHand(s, j) THEN overtaken \cup {j}
                                                              ELSE overtaken
        /\ UNCHANGED zset
  /\ topic' = topic \cup {wmsg[w]}
  /\ WGoto(w, "idle")
  /\ UNCHANGED <<wmsg, scheduler, owed, copies>>

---------------------------------------------------------------------------
(* pollOnce: PeekDueRetries                                                *)

(* The delay is longer than the time between two commands of a pipeline.  *)
Due(j) ==
  /\ zset[j] = "later"
  /\ \A w \in Workers : wpc[w] = "set" => wmsg[w].job # j
  /\ \A s \in Schedulers : spc[s] = "reSet" => cur[s] # j
  /\ zset' = [zset EXCEPT ![j] = "due"]
  /\ UNCHANGED <<topic, entry, worker, scheduler, ghost, faults>>

DueIDs == {j \in Jobs : zset[j] = "due"}

PopsAtScan(j) == IF zset[j] = "due" THEN "none" ELSE zset[j]
AfterScan(j) == zset[j]

(* ZRANGE BYSCORE -inf..now: what is due stays in the ZSET. *)
Scan(s) ==
  /\ spc[s] = "idle" /\ DueIDs # {}
  /\ scanned' = [scanned EXCEPT ![s] = DueIDs]
  /\ zset' = [j \in Jobs |-> AfterScan(j)]
  /\ SGoto(s, "fetch")
  /\ UNCHANGED <<topic, entry, worker, items, cur, ghost, faults>>

(* The GETs; the IDs without a payload are removed from the ZSET next. *)
Fetch(s) ==
  /\ spc[s] = "fetch"
  /\ items' = [items EXCEPT ![s] = [j \in Jobs |-> IF j \in scanned[s] THEN entry[j] ELSE 0]]
  /\ scanned' = [scanned EXCEPT ![s] = {j \in scanned[s] : entry[j] = 0}]
  /\ SGoto(s, "publish")
  /\ UNCHANGED <<topic, redis, worker, cur, ghost, faults>>

PurgeStale(s) ==
  /\ spc[s] = "publish" /\ scanned[s] # {}
  /\ zset' = [j \in Jobs |-> IF j \in scanned[s] THEN "none" ELSE zset[j]]
  /\ scanned' = [scanned EXCEPT ![s] = {}]
  /\ UNCHANGED <<topic, entry, worker, spc, items, cur, ghost, faults>>

---------------------------------------------------------------------------
(* republish                                                               *)

AckAnyway == "ackZRem"
OnPublishFailure == "reZAdd"

RescheduledAnyway == "reZAdd"
OnPublish == "ackZRem"

Publishes(s, m) ==
  /\ topic' = topic \cup {m}
  /\ owed' = owed \ {m.job}
  /\ copies' = [copies EXCEPT ![s][m] = @ + 1]

Publish(s, j) ==
  /\ spc[s] = "publish" /\ scanned[s] = {} /\ items[s][j] # 0
  /\ Publishes(s, [job |-> j, retry |-> items[s][j]])
  /\ cur' = [cur EXCEPT ![s] = j]
  /\ SGoto(s, OnPublish)
  /\ UNCHANGED <<redis, worker, scanned, items, overtaken, faults>>

PublishFails(s, j) ==
  /\ spc[s] = "publish" /\ scanned[s] = {} /\ items[s][j] # 0
  /\ Fault
  /\ \/ UNCHANGED <<topic, owed, copies>>
     \/ Publishes(s, [job |-> j, retry |-> items[s][j]])
  /\ cur' = [cur EXCEPT ![s] = j]
  /\ SGoto(s, OnPublishFailure)
  /\ UNCHANGED <<redis, worker, scanned, items, overtaken>>

(* The item is finished with, its ack or its reschedule done or failed. *)
Drop(s) ==
  /\ items' = [items EXCEPT ![s][cur[s]] = 0]
  /\ SGoto(s, "publish")

AckZRem(s) ==
  /\ spc[s] = "ackZRem"
  /\ zset' = [zset EXCEPT ![cur[s]] = "none"]
  /\ SGoto(s, "ackDel")
  /\ UNCHANGED <<topic, entry, worker, scanned, items, cur, ghost, faults>>

AckDel(s) ==
  /\ spc[s] = "ackDel"
  /\ entry' = [entry EXCEPT ![cur[s]] = 0]
  /\ Drop(s)
  /\ UNCHANGED <<topic, zset, worker, scanned, cur, ghost, faults>>

RescheduleZAdd(s) ==
  /\ spc[s] = "reZAdd"
  /\ zset' = [zset EXCEPT ![cur[s]] = "later"]
  /\ SGoto(s, "reSet")
  /\ UNCHANGED <<topic, entry, worker, scanned, items, cur, ghost, faults>>

RescheduleSet(s) ==
  /\ spc[s] = "reSet"
  /\ entry' = [entry EXCEPT ![cur[s]] = items[s][cur[s]]]
  /\ Drop(s)
  /\ UNCHANGED <<topic, zset, worker, scanned, cur, ghost, faults>>

CallFails(s) ==
  /\ spc[s] \in {"ackZRem", "ackDel", "reZAdd", "reSet"}
  /\ Fault
  /\ Drop(s)
  /\ UNCHANGED <<topic, redis, worker, scanned, cur, ghost>>

BatchDone(s) ==
  /\ spc[s] = "publish" /\ scanned[s] = {} /\ items[s] = NoItems
  /\ SGoto(s, "idle")
  /\ UNCHANGED <<topic, redis, worker, scanned, items, cur, ghost, faults>>

(* The peek fails, or the process dies: what it had in hand is forgotten. *)
Abandon(s) ==
  /\ spc[s] # "idle"
  /\ Fault
  /\ SGoto(s, "idle")
  /\ scanned' = [scanned EXCEPT ![s] = {}]
  /\ items' = [items EXCEPT ![s] = NoItems]
  /\ UNCHANGED <<topic, redis, worker, cur, ghost>>

Polls(s) == \/ Scan(s) \/ Fetch(s) \/ PurgeStale(s)
            \/ \E j \in Jobs : Publish(s, j) \/ PublishFails(s, j)
            \/ AckZRem(s) \/ AckDel(s) \/ RescheduleZAdd(s) \/ RescheduleSet(s)
            \/ CallFails(s) \/ BatchDone(s)

Next == \/ \E w \in Workers : \/ \E m \in Messages : Consume(w, m)
                              \/ Finish(w) \/ Requeue(w)
                              \/ EnqueueZAdd(w) \/ EnqueueSet(w) \/ EnqueueFails(w)
        \/ \E j \in Jobs : Due(j)
        \/ \E s \in Schedulers : Polls(s) \/ Abandon(s)

Spec == Init /\ [][Next]_vars

(* Enqueue returns, time passes and schedulers poll, if need be after a    *)
(* restart; the faults come to an end.                                     *)
Fairness ==
  /\ \A w \in Workers : WF_vars(EnqueueSet(w))
  /\ \A j \in Jobs : WF_vars(Due(j))
  /\ \A s \in Schedulers : WF_vars(Polls(s))

LiveSpec == Spec /\ Fairness

---------------------------------------------------------------------------
(* Properties                                                              *)

(* A retry that Enqueue has accepted stays in Redis until a scheduler has  *)
(* published it, whichever calls fail and whichever processes die -- as    *)
(* long as the job is not requeued while a scheduler has it in hand.       *)
OwedIsKept ==
  \A j \in owed \ overtaken : zset[j] # "none" /\ entry[j] # 0

(* Two schedulers may publish one retry, but each of them does so once     *)
(* after it was stored, and once more for each call that failed and each   *)
(* process that died: no order of peeks, acknowledgements, reschedules of  *)
(* an older payload and requeues of the copies multiplies a job.           *)
PublishedOnceEach ==
  \A s \in Schedulers, m \in Messages : copies[s][m] <= 1 + faults

(* What is owed is published in the end. *)
OwedIsPublished == \A j \in Jobs : j \in owed ~> j \notin owed \ overtaken

(* At-least-once without the proviso. *)
AcceptedIsKept == \A j \in owed : zset[j] # "none"
=============================================================================
