-------------------------- MODULE RetryQueueProofs --------------------------
(***************************************************************************)
(* For any number of jobs, workers, schedulers, retries and faults: an     *)
(* accepted retry stays in Redis until it is published, unless the job is  *)
(* requeued while a scheduler has it in hand; and a stored retry is        *)
(* published once by each scheduler and once more for each fault.          *)
(*                                                                         *)
(* And for any number of instances, hosts and pages, and any limits: of    *)
(* the parser's rules, which are learned under a lock in the same Redis,   *)
(* how many generations run and how many calls of the LLM they make, who   *)
(* frees a lock, and that a disabled host stays disabled.                  *)
(***************************************************************************)
EXTENDS RetryQueue, RuleLearning, FiniteSetTheorems, WellFoundedInduction, TLAPS

AckSteps == {"ackZRem", "ackDel"}
AfterPublish == AckSteps \cup {"reZAdd", "reSet"}

(* A worker that is requeueing a job has a retry left for it.              *)
RetriesLeft ==
  \A w \in Workers : wpc[w] \in {"zadd", "set"} => MayRetry(wmsg[w])

(* A scheduler that has not fetched payloads has none; the item that it is *)
(* republishing is one it has fetched, and it has purged by then.          *)
ItemsAreFetched ==
  \A s \in Schedulers :
    /\ spc[s] \in {"idle", "fetch"} => \A j \in Jobs : items[s][j] = 0
    /\ spc[s] \in AfterPublish => items[s][cur[s]] # 0 /\ scanned[s] = {}

(* What a scheduler is about to remove is not owed: it has published it,   *)
(* or has found no payload for it.                                         *)
RemovedIsNotOwed ==
  \A s \in Schedulers :
    /\ spc[s] \in AckSteps => cur[s] \notin owed \ overtaken
    /\ spc[s] = "publish" => scanned[s] \cap (owed \ overtaken) = {}

(* A job whose member a worker has just set is not in a scheduler's hand,  *)
(* and not yet due.                                                        *)
EnqueuedIsAlone ==
  \A w \in Workers : wpc[w] = "set" =>
    \/ wmsg[w].job \in overtaken
    \/ /\ zset[wmsg[w].job] = "later"
       /\ \A s \in Schedulers : ~InHand(s, wmsg[w].job)

(* A member is not due while a pipeline has still to set its payload.     *)
Unfinished(j) == \/ \E w \in Workers : wpc[w] = "set" /\ wmsg[w].job = j
                 \/ \E s \in Schedulers : spc[s] = "reSet" /\ cur[s] = j
DueIsComplete == \A j \in Jobs : zset[j] = "due" => ~Unfinished(j)

IInv == /\ TypeOK /\ RetriesLeft /\ ItemsAreFetched /\ RemovedIsNotOwed
        /\ EnqueuedIsAlone /\ DueIsComplete /\ OwedIsKept

LEMMA InitIInv == Init => IInv
BY RetryQueueAssumption DEF Init, IInv, TypeOK, RetriesLeft, ItemsAreFetched,
       RemovedIsNotOwed, EnqueuedIsAlone, DueIsComplete, OwedIsKept, SPCs, NoItems,
       AckSteps, AfterPublish

LEMMA ConsumeKeeps ==
  ASSUME IInv, NEW w \in Workers, NEW m \in Messages, Consume(w, m)
  PROVE  IInv'
<1>1. TypeOK'
  BY DEF IInv, TypeOK, Consume, WGoto, redis, scheduler, ghost
<1>2. RetriesLeft'
  BY DEF IInv, RetriesLeft, Consume, WGoto
<1>3. ItemsAreFetched'
  BY DEF IInv, ItemsAreFetched, Consume, scheduler
<1>4. RemovedIsNotOwed'
  BY DEF IInv, RemovedIsNotOwed, Consume, scheduler, ghost
<1>5. EnqueuedIsAlone'
  BY DEF IInv, EnqueuedIsAlone, InHand, Consume, WGoto, redis, scheduler, ghost
<1>6. DueIsComplete'
  BY DEF IInv, DueIsComplete, Unfinished, Consume, WGoto, redis, scheduler
<1>7. OwedIsKept'
  BY DEF IInv, OwedIsKept, Consume, redis, ghost
<1> QED BY <1>1, <1>2, <1>3, <1>4, <1>5, <1>6, <1>7 DEF IInv

LEMMA FinishKeeps ==
  ASSUME IInv, NEW w \in Workers, Finish(w)
  PROVE  IInv'
<1>1. TypeOK'
  BY DEF IInv, TypeOK, Finish, WGoto, redis, scheduler, ghost
<1>2. RetriesLeft'
  BY DEF IInv, RetriesLeft, Finish, WGoto
<1>3. ItemsAreFetched'
  BY DEF IInv, ItemsAreFetched, Finish, scheduler
<1>4. RemovedIsNotOwed'
  BY DEF IInv, RemovedIsNotOwed, Finish, scheduler, ghost
<1>5. EnqueuedIsAlone'
  BY DEF IInv, EnqueuedIsAlone, InHand, Finish, WGoto, redis, scheduler, ghost
<1>6. DueIsComplete'
  BY DEF IInv, DueIsComplete, Unfinished, Finish, WGoto, redis, scheduler
<1>7. OwedIsKept'
  BY DEF IInv, OwedIsKept, Finish, redis, ghost
<1> QED BY <1>1, <1>2, <1>3, <1>4, <1>5, <1>6, <1>7 DEF IInv

LEMMA RequeueKeeps ==
  ASSUME IInv, NEW w \in Workers, Requeue(w)
  PROVE  IInv'
<1>1. TypeOK'
  BY DEF IInv, TypeOK, Requeue, WGoto, redis, scheduler, ghost
<1>2. RetriesLeft'
  BY DEF IInv, RetriesLeft, Requeue, WGoto
<1>3. ItemsAreFetched'
  BY DEF IInv, ItemsAreFetched, Requeue, scheduler
<1>4. RemovedIsNotOwed'
  BY DEF IInv, RemovedIsNotOwed, Requeue, scheduler, ghost
<1>5. EnqueuedIsAlone'
  BY DEF IInv, EnqueuedIsAlone, InHand, Requeue, WGoto, redis, scheduler, ghost
<1>6. DueIsComplete'
  BY DEF IInv, DueIsComplete, Unfinished, Requeue, WGoto, redis, scheduler
<1>7. OwedIsKept'
  BY DEF IInv, OwedIsKept, Requeue, redis, ghost
<1> QED BY <1>1, <1>2, <1>3, <1>4, <1>5, <1>6, <1>7 DEF IInv

LEMMA EnqueueZAddKeeps ==
  ASSUME IInv, NEW w \in Workers, EnqueueZAdd(w)
  PROVE  IInv'
<1>1. TypeOK'
  BY DEF IInv, TypeOK, Messages, EnqueueZAdd, WGoto, scheduler
<1>2. RetriesLeft'
  BY DEF IInv, RetriesLeft, EnqueueZAdd, WGoto
<1>3. ItemsAreFetched'
  BY DEF IInv, ItemsAreFetched, EnqueueZAdd, scheduler
<1>4. RemovedIsNotOwed'
  BY DEF IInv, RemovedIsNotOwed, EnqueueZAdd, scheduler
<1>5. EnqueuedIsAlone'
  BY DEF IInv, TypeOK, EnqueuedIsAlone, InHand, EnqueueZAdd, WGoto, scheduler, Messages
<1>6. DueIsComplete'
  BY DEF IInv, TypeOK, DueIsComplete, Unfinished, EnqueueZAdd, WGoto, scheduler
<1>7. OwedIsKept'
  BY DEF IInv, OwedIsKept, EnqueueZAdd
<1> QED BY <1>1, <1>2, <1>3, <1>4, <1>5, <1>6, <1>7 DEF IInv

LEMMA EnqueueSetKeeps ==
  ASSUME IInv, NEW w \in Workers, EnqueueSet(w)
  PROVE  IInv'
<1>1. TypeOK'
  <2>1. /\ wmsg[w].job \in Jobs /\ wmsg[w].retry + 1 \in 0..MaxRetries
        /\ [job |-> wmsg[w].job, retry |-> wmsg[w].retry + 1] \in Messages
    BY RetryQueueAssumption DEF IInv, TypeOK, Messages, EnqueueSet, RetriesLeft, MayRetry
  <2>2. copies' \in [Schedulers -> [Messages -> Nat]]
    BY <2>1 DEF EnqueueSet, IInv, TypeOK
  <2> QED BY <2>1, <2>2 DEF EnqueueSet, WGoto, scheduler, IInv, TypeOK
<1>2. RetriesLeft'
  BY DEF IInv, RetriesLeft, EnqueueSet, WGoto
<1>3. ItemsAreFetched'
  BY DEF IInv, ItemsAreFetched, EnqueueSet, scheduler
<1>4. RemovedIsNotOwed'
  BY DEF IInv, RemovedIsNotOwed, AckSteps, EnqueueSet, InHand, scheduler
<1>5. EnqueuedIsAlone'
  BY DEF IInv, EnqueuedIsAlone, InHand, EnqueueSet, WGoto, scheduler
<1>6. DueIsComplete'
  BY DEF IInv, DueIsComplete, Unfinished, EnqueueSet, WGoto, scheduler
<1>7. OwedIsKept'
  BY DEF IInv, TypeOK, OwedIsKept, EnqueueSet, Messages, EnqueuedIsAlone
<1> QED BY <1>1, <1>2, <1>3, <1>4, <1>5, <1>6, <1>7 DEF IInv

LEMMA EnqueueFailsKeeps ==
  ASSUME IInv, NEW w \in Workers, EnqueueFails(w)
  PROVE  IInv'
<1>1. TypeOK'
  <2>1. wmsg[w] \in Messages /\ topic' = topic \cup {wmsg[w]} /\ faults' \in 0..MaxFaults
    BY RetryQueueAssumption DEF EnqueueFails, Fault, IInv, TypeOK
  <2>2. wpc[w] = "set" => wmsg[w].retry + 1 \in 0..MaxRetries
    BY RetryQueueAssumption DEF IInv, TypeOK, RetriesLeft, MayRetry, Messages
  <2>3. wmsg[w].job \in Jobs
    BY <2>1 DEF Messages
  <2>4. entry' \in [Jobs -> 0..MaxRetries] /\ zset' = zset
    BY <2>2 DEF EnqueueFails, redis, IInv, TypeOK
  <2>5. overtaken' \subseteq Jobs
    BY <2>3 DEF EnqueueFails, IInv, TypeOK
  <2> QED BY <2>1, <2>4, <2>5 DEF EnqueueFails, WGoto, scheduler, IInv, TypeOK
<1>2. RetriesLeft'
  BY DEF IInv, RetriesLeft, EnqueueFails, WGoto
<1>3. ItemsAreFetched'
  BY DEF IInv, ItemsAreFetched, EnqueueFails, scheduler
<1>4. RemovedIsNotOwed'
  BY DEF IInv, RemovedIsNotOwed, EnqueueFails, scheduler
<1>5. EnqueuedIsAlone'
  BY DEF IInv, EnqueuedIsAlone, InHand, EnqueueFails, redis, WGoto, scheduler
<1>6. DueIsComplete'
  BY DEF IInv, DueIsComplete, Unfinished, EnqueueFails, WGoto, redis, scheduler
<1>7. OwedIsKept'
  BY DEF IInv, TypeOK, OwedIsKept, EnqueueFails, redis, Messages
<1> QED BY <1>1, <1>2, <1>3, <1>4, <1>5, <1>6, <1>7 DEF IInv

LEMMA DueKeeps ==
  ASSUME IInv, NEW j \in Jobs, Due(j)
  PROVE  IInv'
<1>1. TypeOK'
  BY DEF IInv, TypeOK, Due, worker, scheduler, ghost
<1>2. RetriesLeft'
  BY DEF IInv, RetriesLeft, Due, worker
<1>3. ItemsAreFetched'
  BY DEF IInv, ItemsAreFetched, Due, scheduler
<1>4. RemovedIsNotOwed'
  BY DEF IInv, RemovedIsNotOwed, Due, scheduler, ghost
<1>5. EnqueuedIsAlone'
  BY DEF IInv, EnqueuedIsAlone, InHand, Due, worker, scheduler, ghost
<1>6. DueIsComplete'
  BY DEF IInv, DueIsComplete, Unfinished, Due, worker, scheduler
<1>7. OwedIsKept'
  BY DEF IInv, OwedIsKept, Due, ghost
<1> QED BY <1>1, <1>2, <1>3, <1>4, <1>5, <1>6, <1>7 DEF IInv

LEMMA ScanKeeps ==
  ASSUME IInv, NEW s \in Schedulers, Scan(s)
  PROVE  IInv'
<1>1. TypeOK'
  BY DEF IInv, TypeOK, SPCs, Scan, DueIDs, AfterScan, SGoto, worker, ghost
<1>2. RetriesLeft'
  BY DEF IInv, RetriesLeft, Scan, worker
<1>3. ItemsAreFetched'
  BY DEF IInv, ItemsAreFetched, AfterPublish, AckSteps, Scan, SGoto
<1>4. RemovedIsNotOwed'
  BY DEF IInv, RemovedIsNotOwed, AckSteps, Scan, SGoto, ghost
<1>5. EnqueuedIsAlone'
  BY DEF IInv, TypeOK, EnqueuedIsAlone, InHand, Scan, DueIDs, AfterScan, SGoto, worker,
         ghost, ItemsAreFetched, Messages
<1>6. DueIsComplete'
  BY DEF IInv, DueIsComplete, Unfinished, Scan, SGoto, AfterScan, worker
<1>7. OwedIsKept'
  BY DEF IInv, TypeOK, OwedIsKept, Scan, AfterScan, ghost
<1> QED BY <1>1, <1>2, <1>3, <1>4, <1>5, <1>6, <1>7 DEF IInv

LEMMA FetchKeeps ==
  ASSUME IInv, NEW s \in Schedulers, Fetch(s)
  PROVE  IInv'
<1>1. TypeOK'
  BY RetryQueueAssumption DEF IInv, TypeOK, SPCs, Fetch, SGoto, redis, worker, ghost
<1>2. RetriesLeft'
  BY DEF IInv, RetriesLeft, Fetch, worker
<1>3. ItemsAreFetched'
  BY DEF IInv, TypeOK, ItemsAreFetched, AfterPublish, AckSteps, Fetch, SGoto
<1>4. RemovedIsNotOwed'
  BY DEF IInv, TypeOK, RemovedIsNotOwed, AckSteps, Fetch, SGoto, ghost, OwedIsKept
<1>5. EnqueuedIsAlone'
  BY DEF IInv, TypeOK, EnqueuedIsAlone, InHand, Fetch, SGoto, redis, worker, ghost, Messages
<1>6. DueIsComplete'
  BY DEF IInv, DueIsComplete, Unfinished, Fetch, SGoto, redis, worker
<1>7. OwedIsKept'
  BY DEF IInv, OwedIsKept, Fetch, redis, ghost
<1> QED BY <1>1, <1>2, <1>3, <1>4, <1>5, <1>6, <1>7 DEF IInv

LEMMA PurgeStaleKeeps ==
  ASSUME IInv, NEW s \in Schedulers, PurgeStale(s)
  PROVE  IInv'
<1>1. TypeOK'
  BY DEF IInv, TypeOK, PurgeStale, worker, ghost
<1>2. RetriesLeft'
  BY DEF IInv, RetriesLeft, PurgeStale, worker
<1>3. ItemsAreFetched'
  BY DEF IInv, ItemsAreFetched, PurgeStale
<1>4. RemovedIsNotOwed'
  BY DEF IInv, RemovedIsNotOwed, PurgeStale, ghost
<1>5. EnqueuedIsAlone'
  BY DEF IInv, TypeOK, EnqueuedIsAlone, InHand, PurgeStale, worker, ghost, Messages
<1>6. DueIsComplete'
  BY DEF IInv, DueIsComplete, Unfinished, PurgeStale, worker
<1>7. OwedIsKept'
  BY DEF IInv, TypeOK, OwedIsKept, PurgeStale, ghost, RemovedIsNotOwed
<1> QED BY <1>1, <1>2, <1>3, <1>4, <1>5, <1>6, <1>7 DEF IInv

LEMMA PublishKeeps ==
  ASSUME IInv, NEW s \in Schedulers, NEW j \in Jobs, Publish(s, j)
  PROVE  IInv'
<1>1. TypeOK'
  <2>1. [job |-> j, retry |-> items[s][j]] \in Messages
    BY DEF IInv, TypeOK, Messages
  <2>2. copies' \in [Schedulers -> [Messages -> Nat]]
    BY <2>1 DEF Publish, Publishes, IInv, TypeOK
  <2> QED BY <2>1, <2>2 DEF Publish, Publishes, OnPublish, SPCs, SGoto, redis, worker,
                 IInv, TypeOK
<1>2. RetriesLeft'
  BY DEF IInv, RetriesLeft, Publish, worker
<1>3. ItemsAreFetched'
  BY DEF IInv, TypeOK, ItemsAreFetched, Publish, OnPublish, SGoto
<1>4. RemovedIsNotOwed'
  BY DEF IInv, TypeOK, RemovedIsNotOwed, Publish, Publishes, SGoto
<1>5. EnqueuedIsAlone'
  BY DEF IInv, TypeOK, EnqueuedIsAlone, InHand, Publish, SGoto, redis, worker
<1>6. DueIsComplete'
  BY DEF IInv, DueIsComplete, Unfinished, Publish, SGoto, OnPublish, redis, worker
<1>7. OwedIsKept'
  BY DEF IInv, OwedIsKept, Publish, Publishes, redis
<1> QED BY <1>1, <1>2, <1>3, <1>4, <1>5, <1>6, <1>7 DEF IInv

LEMMA PublishFailsKeeps ==
  ASSUME IInv, NEW s \in Schedulers, NEW j \in Jobs, PublishFails(s, j)
  PROVE  IInv'
<1>1. TypeOK'
  <2>1. [job |-> j, retry |-> items[s][j]] \in Messages
    BY DEF IInv, TypeOK, Messages
  <2>2. copies' \in [Schedulers -> [Messages -> Nat]]
    <3>1. copies' = copies \/ Publishes(s, [job |-> j, retry |-> items[s][j]])
      BY DEF PublishFails
    <3> QED BY <2>1, <3>1 DEF Publishes, IInv, TypeOK
  <2>3. topic' \subseteq Messages /\ owed' \subseteq Jobs /\ faults' \in 0..MaxFaults
    BY <2>1, RetryQueueAssumption DEF PublishFails, Publishes, Fault, IInv, TypeOK
  <2> QED BY <2>2, <2>3 DEF PublishFails, OnPublishFailure, SPCs, SGoto, redis, worker,
                 IInv, TypeOK
<1>2. RetriesLeft'
  BY DEF IInv, RetriesLeft, PublishFails, worker
<1>3. ItemsAreFetched'
  BY DEF IInv, TypeOK, ItemsAreFetched, PublishFails, SGoto, OnPublishFailure
<1>4. RemovedIsNotOwed'
  BY DEF IInv, RemovedIsNotOwed, AckSteps, PublishFails, Publishes, SGoto, OnPublishFailure
<1>5. EnqueuedIsAlone'
  BY DEF IInv, TypeOK, EnqueuedIsAlone, InHand, PublishFails, SGoto, redis, worker
<1>6. DueIsComplete'
  BY DEF IInv, DueIsComplete, Unfinished, PublishFails, SGoto, OnPublishFailure, redis,
         worker
<1>7. OwedIsKept'
  BY DEF IInv, OwedIsKept, PublishFails, Publishes, redis
<1> QED BY <1>1, <1>2, <1>3, <1>4, <1>5, <1>6, <1>7 DEF IInv

LEMMA AckZRemKeeps ==
  ASSUME IInv, NEW s \in Schedulers, AckZRem(s)
  PROVE  IInv'
<1>1. TypeOK'
  BY DEF IInv, TypeOK, SPCs, AckZRem, SGoto, worker, ghost
<1>2. RetriesLeft'
  BY DEF IInv, RetriesLeft, AckZRem, worker
<1>3. ItemsAreFetched'
  BY DEF IInv, ItemsAreFetched, AfterPublish, AckSteps, AckZRem, SGoto
<1>4. RemovedIsNotOwed'
  BY DEF IInv, RemovedIsNotOwed, AckSteps, AckZRem, SGoto, ghost
<1>5. EnqueuedIsAlone'
  BY DEF IInv, EnqueuedIsAlone, InHand, AckZRem, SGoto, worker, ghost
<1>6. DueIsComplete'
  BY DEF IInv, DueIsComplete, Unfinished, AckZRem, SGoto, worker
<1>7. OwedIsKept'
  BY DEF IInv, OwedIsKept, AckZRem, ghost, RemovedIsNotOwed, AckSteps
<1> QED BY <1>1, <1>2, <1>3, <1>4, <1>5, <1>6, <1>7 DEF IInv

LEMMA AckDelKeeps ==
  ASSUME IInv, NEW s \in Schedulers, AckDel(s)
  PROVE  IInv'
<1>1. TypeOK'
  BY RetryQueueAssumption DEF IInv, TypeOK, SPCs, AckDel, Drop, worker, ghost, SGoto
<1>2. RetriesLeft'
  BY DEF IInv, RetriesLeft, AckDel, worker
<1>3. ItemsAreFetched'
  BY DEF IInv, TypeOK, ItemsAreFetched, AfterPublish, AckSteps, AckDel, Drop, SGoto
<1>4. RemovedIsNotOwed'
  BY DEF IInv, RemovedIsNotOwed, AckSteps, AckDel, Drop, ghost, SGoto, ItemsAreFetched,
         AfterPublish
<1>5. EnqueuedIsAlone'
  BY DEF IInv, EnqueuedIsAlone, InHand, AckDel, Drop, worker, ghost, SGoto
<1>6. DueIsComplete'
  BY DEF IInv, DueIsComplete, Unfinished, AckDel, SGoto, Drop, worker
<1>7. OwedIsKept'
  BY DEF IInv, OwedIsKept, AckDel, ghost, RemovedIsNotOwed, AckSteps
<1> QED BY <1>1, <1>2, <1>3, <1>4, <1>5, <1>6, <1>7 DEF IInv

LEMMA RescheduleZAddKeeps ==
  ASSUME IInv, NEW s \in Schedulers, RescheduleZAdd(s)
  PROVE  IInv'
<1>1. TypeOK'
  BY DEF IInv, TypeOK, SPCs, RescheduleZAdd, SGoto, worker, ghost
<1>2. RetriesLeft'
  BY DEF IInv, RetriesLeft, RescheduleZAdd, worker
<1>3. ItemsAreFetched'
  BY DEF IInv, ItemsAreFetched, AfterPublish, RescheduleZAdd, SGoto
<1>4. RemovedIsNotOwed'
  BY DEF IInv, RemovedIsNotOwed, AckSteps, RescheduleZAdd, SGoto, ghost
<1>5. EnqueuedIsAlone'
  BY DEF IInv, EnqueuedIsAlone, InHand, RescheduleZAdd, SGoto, worker, ghost
<1>6. DueIsComplete'
  BY DEF IInv, TypeOK, DueIsComplete, Unfinished, RescheduleZAdd, SGoto, worker
<1>7. OwedIsKept'
  BY DEF IInv, OwedIsKept, RescheduleZAdd, ghost
<1> QED BY <1>1, <1>2, <1>3, <1>4, <1>5, <1>6, <1>7 DEF IInv

LEMMA RescheduleSetKeeps ==
  ASSUME IInv, NEW s \in Schedulers, RescheduleSet(s)
  PROVE  IInv'
<1>1. TypeOK'
  BY RetryQueueAssumption DEF IInv, TypeOK, SPCs, RescheduleSet, Drop, worker, ghost, SGoto
<1>2. RetriesLeft'
  BY DEF IInv, RetriesLeft, RescheduleSet, worker
<1>3. ItemsAreFetched'
  BY DEF IInv, TypeOK, ItemsAreFetched, AfterPublish, AckSteps, RescheduleSet, Drop, SGoto
<1>4. RemovedIsNotOwed'
  BY DEF IInv, RemovedIsNotOwed, AckSteps, RescheduleSet, Drop, ghost, SGoto,
         ItemsAreFetched, AfterPublish
<1>5. EnqueuedIsAlone'
  BY DEF IInv, EnqueuedIsAlone, InHand, RescheduleSet, Drop, worker, ghost, SGoto
<1>6. DueIsComplete'
  BY DEF IInv, DueIsComplete, Unfinished, RescheduleSet, SGoto, Drop, worker
<1>7. OwedIsKept'
  BY DEF IInv, OwedIsKept, RescheduleSet, ghost, ItemsAreFetched, AfterPublish
<1> QED BY <1>1, <1>2, <1>3, <1>4, <1>5, <1>6, <1>7 DEF IInv

LEMMA CallFailsKeeps ==
  ASSUME IInv, NEW s \in Schedulers, CallFails(s)
  PROVE  IInv'
<1>1. TypeOK'
  BY RetryQueueAssumption DEF IInv, TypeOK, SPCs, CallFails, Fault, Drop, redis, worker,
         ghost, SGoto
<1>2. RetriesLeft'
  BY DEF IInv, RetriesLeft, CallFails, worker
<1>3. ItemsAreFetched'
  BY DEF IInv, TypeOK, ItemsAreFetched, AfterPublish, AckSteps, CallFails, Drop, SGoto
<1>4. RemovedIsNotOwed'
  BY DEF IInv, RemovedIsNotOwed, AckSteps, CallFails, Drop, ghost, SGoto,
         ItemsAreFetched, AfterPublish
<1>5. EnqueuedIsAlone'
  BY DEF IInv, EnqueuedIsAlone, InHand, CallFails, Drop, redis, worker, ghost, SGoto
<1>6. DueIsComplete'
  BY DEF IInv, DueIsComplete, Unfinished, CallFails, SGoto, Drop, redis, worker
<1>7. OwedIsKept'
  BY DEF IInv, OwedIsKept, CallFails, redis, ghost
<1> QED BY <1>1, <1>2, <1>3, <1>4, <1>5, <1>6, <1>7 DEF IInv

LEMMA BatchDoneKeeps ==
  ASSUME IInv, NEW s \in Schedulers, BatchDone(s)
  PROVE  IInv'
<1>1. TypeOK'
  BY DEF IInv, TypeOK, SPCs, BatchDone, SGoto, redis, worker, ghost
<1>2. RetriesLeft'
  BY DEF IInv, RetriesLeft, BatchDone, worker
<1>3. ItemsAreFetched'
  BY DEF IInv, ItemsAreFetched, AfterPublish, AckSteps, BatchDone, NoItems, SGoto
<1>4. RemovedIsNotOwed'
  BY DEF IInv, RemovedIsNotOwed, AckSteps, BatchDone, SGoto, ghost
<1>5. EnqueuedIsAlone'
  BY DEF IInv, EnqueuedIsAlone, InHand, BatchDone, SGoto, redis, worker, ghost
<1>6. DueIsComplete'
  BY DEF IInv, DueIsComplete, Unfinished, BatchDone, SGoto, redis, worker
<1>7. OwedIsKept'
  BY DEF IInv, OwedIsKept, BatchDone, redis, ghost
<1> QED BY <1>1, <1>2, <1>3, <1>4, <1>5, <1>6, <1>7 DEF IInv

LEMMA AbandonKeeps ==
  ASSUME IInv, NEW s \in Schedulers, Abandon(s)
  PROVE  IInv'
<1>1. TypeOK'
  BY RetryQueueAssumption DEF IInv, TypeOK, SPCs, Abandon, Fault, SGoto, NoItems, redis,
         worker, ghost
<1>2. RetriesLeft'
  BY DEF IInv, RetriesLeft, Abandon, worker
<1>3. ItemsAreFetched'
  BY DEF IInv, TypeOK, ItemsAreFetched, AfterPublish, AckSteps, Abandon, SGoto, NoItems
<1>4. RemovedIsNotOwed'
  BY DEF IInv, RemovedIsNotOwed, AckSteps, Abandon, SGoto, ghost
<1>5. EnqueuedIsAlone'
  BY DEF IInv, TypeOK, EnqueuedIsAlone, InHand, Abandon, SGoto, redis, worker, ghost
<1>6. DueIsComplete'
  BY DEF IInv, DueIsComplete, Unfinished, Abandon, SGoto, redis, worker
<1>7. OwedIsKept'
  BY DEF IInv, OwedIsKept, Abandon, redis, ghost
<1> QED BY <1>1, <1>2, <1>3, <1>4, <1>5, <1>6, <1>7 DEF IInv

LEMMA NextKeeps == IInv /\ [Next]_vars => IInv'
<1> SUFFICES ASSUME IInv, [Next]_vars
             PROVE  IInv'
  OBVIOUS
<1>1. ASSUME NEW w \in Workers, NEW m \in Messages, Consume(w, m)
      PROVE  IInv'
  BY <1>1, ConsumeKeeps
<1>2. ASSUME NEW w \in Workers, Finish(w) \/ Requeue(w)
      PROVE  IInv'
  BY <1>2, FinishKeeps, RequeueKeeps
<1>3. ASSUME NEW w \in Workers, EnqueueZAdd(w) \/ EnqueueSet(w) \/ EnqueueFails(w)
      PROVE  IInv'
  BY <1>3, EnqueueZAddKeeps, EnqueueSetKeeps, EnqueueFailsKeeps
<1>4. ASSUME NEW j \in Jobs, Due(j)
      PROVE  IInv'
  BY <1>4, DueKeeps
<1>5. ASSUME NEW s \in Schedulers, Scan(s) \/ Fetch(s) \/ PurgeStale(s)
      PROVE  IInv'
  BY <1>5, ScanKeeps, FetchKeeps, PurgeStaleKeeps
<1>6. ASSUME NEW s \in Schedulers, NEW j \in Jobs, Publish(s, j) \/ PublishFails(s, j)
      PROVE  IInv'
  BY <1>6, PublishKeeps, PublishFailsKeeps
<1>7. ASSUME NEW s \in Schedulers,
             AckZRem(s) \/ AckDel(s) \/ RescheduleZAdd(s) \/ RescheduleSet(s) \/ CallFails(s)
      PROVE  IInv'
  BY <1>7, AckZRemKeeps, AckDelKeeps, RescheduleZAddKeeps, RescheduleSetKeeps,
     CallFailsKeeps
<1>8. ASSUME NEW s \in Schedulers, BatchDone(s) \/ Abandon(s)
      PROVE  IInv'
  BY <1>8, BatchDoneKeeps, AbandonKeeps
<1>9. CASE UNCHANGED vars
  BY <1>9 DEF vars, redis, worker, scheduler, ghost, IInv, TypeOK, RetriesLeft,
         ItemsAreFetched, RemovedIsNotOwed, EnqueuedIsAlone, DueIsComplete, Unfinished,
         OwedIsKept, InHand
<1> QED BY <1>1, <1>2, <1>3, <1>4, <1>5, <1>6, <1>7, <1>8, <1>9 DEF Next, Polls

LEMMA IInvHolds == Spec => []IInv
BY InitIInv, NextKeeps, PTL DEF Spec

(* The types of the queue's state are as declared.                         *)
THEOREM RetryQueueTypes == Spec => []TypeOK
BY IInvHolds, PTL DEF IInv

(* A retry that Enqueue has accepted is in Redis, member and payload,      *)
(* until a scheduler publishes it, however many calls of Enqueue, PeekDue, *)
(* AckRetry and RescheduleRetry fail halfway and whichever process dies;   *)
(* unless the job is requeued while a scheduler has it in hand.            *)
THEOREM AcceptedRetryIsKept == Spec => []OwedIsKept
BY IInvHolds, PTL DEF IInv

(* What a scheduler that has published, and not acknowledged, may yet put  *)
(* back: each of them costs the failure of its publish.                    *)
PutsBack(m) == {s \in Schedulers : /\ spc[s] \in {"reZAdd", "reSet"}
                                   /\ cur[s] = m.job /\ items[s][m.job] = m.retry}

(* A scheduler acknowledges what it has in hand before it scans again.     *)
Acknowledges(s, j) == items[s][j] # 0 /\ ~(spc[s] = "ackDel" /\ cur[s] = j)

(* A scheduler may publish m without another failure or another Enqueue:   *)
(* it has it in hand, is about to fetch it, or finds its member.           *)
MayPublish(s, m) ==
  /\ m.retry # 0
  /\ \/ items[s][m.job] = m.retry /\ ~(spc[s] \in AfterPublish /\ cur[s] = m.job)
     \/ entry[m.job] = m.retry /\ spc[s] = "fetch" /\ m.job \in scanned[s]
     \/ /\ entry[m.job] = m.retry /\ zset[m.job] # "none"
        /\ ~Unfinished(m.job) /\ ~Acknowledges(s, m.job)

Ahead(s, m) == IF MayPublish(s, m) THEN 1 ELSE 0

CopiesBudgeted ==
  \A m \in Messages :
    /\ Cardinality(PutsBack(m)) <= faults
    /\ \A s \in Schedulers :
         copies[s][m] + Ahead(s, m) + Cardinality(PutsBack(m)) <= 1 + faults

LEMMA PutsBackFinite ==
  ASSUME NEW m
  PROVE  IsFiniteSet(PutsBack(m)) /\ Cardinality(PutsBack(m)) \in Nat
BY RetryQueueAssumption, FS_Subset, FS_CardinalityType DEF PutsBack

LEMMA PutsBackShrinks ==
  ASSUME NEW m, PutsBack(m)' \subseteq PutsBack(m)
  PROVE  /\ Cardinality(PutsBack(m)') <= Cardinality(PutsBack(m))
         /\ Cardinality(PutsBack(m)') \in Nat
BY PutsBackFinite, FS_Subset, FS_CardinalityType

(* The kinds of step: one that costs nothing, one that fails, and the      *)
(* three that change what a message has left.                              *)
Quiet ==
  /\ faults' = faults /\ copies' = copies
  /\ \A m \in Messages : /\ PutsBack(m)' \subseteq PutsBack(m)
                         /\ \A s \in Schedulers : MayPublish(s, m)' => MayPublish(s, m)

Failing ==
  /\ faults' = faults + 1 /\ copies' = copies
  /\ \A m \in Messages : PutsBack(m)' \subseteq PutsBack(m)

Storing ==
  /\ faults' = faults
  /\ \A m \in Messages :
       /\ PutsBack(m)' \subseteq PutsBack(m)
       /\ \A s \in Schedulers :
            \/ copies'[s][m] = 0
            \/ copies'[s][m] = copies[s][m] /\ (MayPublish(s, m)' => MayPublish(s, m))

Publishing ==
  /\ faults' = faults
  /\ \A m \in Messages :
       /\ PutsBack(m)' \subseteq PutsBack(m)
       /\ \A s \in Schedulers :
            \/ /\ copies'[s][m] = copies[s][m] + 1
               /\ MayPublish(s, m) /\ ~MayPublish(s, m)'
            \/ copies'[s][m] = copies[s][m] /\ (MayPublish(s, m)' => MayPublish(s, m))

FailingToPublish ==
  /\ faults' = faults + 1
  /\ \A m \in Messages :
       /\ \E t \in Schedulers : PutsBack(m)' \subseteq PutsBack(m) \cup {t}
       /\ \A s \in Schedulers :
            \/ /\ copies'[s][m] = copies[s][m] + 1
               /\ MayPublish(s, m) /\ ~MayPublish(s, m)'
            \/ copies'[s][m] = copies[s][m] /\ (MayPublish(s, m)' => MayPublish(s, m))

PuttingBack ==
  /\ faults' = faults /\ copies' = copies
  /\ \A m \in Messages :
       \/ \E t \in PutsBack(m) : PutsBack(m)' \subseteq PutsBack(m) \ {t}
       \/ /\ PutsBack(m)' \subseteq PutsBack(m)
          /\ \A s \in Schedulers : MayPublish(s, m)' => MayPublish(s, m)

LEMMA BudgetStays ==
  ASSUME IInv, CopiesBudgeted,
         \/ Quiet \/ Failing \/ Storing \/ Publishing \/ FailingToPublish \/ PuttingBack
  PROVE  CopiesBudgeted'
<1> SUFFICES ASSUME NEW m \in Messages
             PROVE  /\ Cardinality(PutsBack(m)') <= faults'
                    /\ \A s \in Schedulers :
                         copies'[s][m] + Ahead(s, m)' + Cardinality(PutsBack(m)') <= 1 + faults'
  BY DEF CopiesBudgeted
<1> DEFINE back == Cardinality(PutsBack(m))
           back2 == Cardinality(PutsBack(m)')
<1>1. /\ back \in Nat /\ faults \in Nat /\ back <= faults
      /\ \A s \in Schedulers : /\ copies[s][m] \in Nat
                               /\ copies[s][m] + Ahead(s, m) + back <= 1 + faults
                               /\ Ahead(s, m) \in {0, 1} /\ Ahead(s, m)' \in {0, 1}
  BY PutsBackFinite DEF IInv, TypeOK, CopiesBudgeted, Ahead
<1>2. /\ PutsBack(m)' \subseteq PutsBack(m) => back2 \in Nat /\ back2 <= back
      /\ \A t \in Schedulers :
           PutsBack(m)' \subseteq PutsBack(m) \cup {t} => back2 \in Nat /\ back2 <= back + 1
      /\ \A t \in PutsBack(m) :
           PutsBack(m)' \subseteq PutsBack(m) \ {t} => back2 \in Nat /\ back2 <= back - 1
  <2>1. ASSUME PutsBack(m)' \subseteq PutsBack(m)  PROVE back2 \in Nat /\ back2 <= back
    BY <2>1, PutsBackShrinks
  <2>2. ASSUME NEW t \in Schedulers, PutsBack(m)' \subseteq PutsBack(m) \cup {t}
        PROVE  back2 \in Nat /\ back2 <= back + 1
    <3>1. /\ IsFiniteSet(PutsBack(m) \cup {t})
          /\ Cardinality(PutsBack(m) \cup {t}) <= back + 1
          /\ Cardinality(PutsBack(m) \cup {t}) \in Nat
      BY PutsBackFinite, FS_AddElement, FS_CardinalityType
    <3>2. back2 <= Cardinality(PutsBack(m) \cup {t}) /\ back2 \in Nat
      BY <2>2, <3>1, FS_Subset, FS_CardinalityType
    <3> QED BY <1>1, <3>1, <3>2
  <2>3. ASSUME NEW t \in PutsBack(m), PutsBack(m)' \subseteq PutsBack(m) \ {t}
        PROVE  back2 \in Nat /\ back2 <= back - 1
    <3>1. IsFiniteSet(PutsBack(m) \ {t}) /\ Cardinality(PutsBack(m) \ {t}) = back - 1
      BY PutsBackFinite, FS_RemoveElement
    <3> QED BY <2>3, <3>1, FS_Subset, FS_CardinalityType
  <2> QED BY <2>1, <2>2, <2>3
<1>3. \A s \in Schedulers : /\ MayPublish(s, m) => Ahead(s, m) = 1
                            /\ ~MayPublish(s, m) => Ahead(s, m) = 0
                            /\ ~MayPublish(s, m)' => Ahead(s, m)' = 0
                            /\ (MayPublish(s, m)' => MayPublish(s, m))
                                 => Ahead(s, m)' <= Ahead(s, m)
  BY DEF Ahead
<1> HIDE DEF back, back2
<1>4. CASE Quiet
  BY <1>1, <1>2, <1>3, <1>4 DEF Quiet, back2
<1>5. CASE Failing
  BY <1>1, <1>2, <1>3, <1>5 DEF Failing, back2
<1>6. CASE Storing
  BY <1>1, <1>2, <1>3, <1>6 DEF Storing, back2
<1>7. CASE Publishing
  BY <1>1, <1>2, <1>3, <1>7 DEF Publishing, back2
<1>8. CASE FailingToPublish
  <2>1. back2 \in Nat /\ back2 <= back + 1
    BY <1>2, <1>8 DEF FailingToPublish
  <2> QED BY <1>1, <1>3, <1>8, <2>1 DEF FailingToPublish, back2
<1>9. CASE PuttingBack
  BY <1>1, <1>2, <1>3, <1>9 DEF PuttingBack, back2
<1> QED BY <1>4, <1>5, <1>6, <1>7, <1>8, <1>9

LEMMA WorkersBudget ==
  ASSUME IInv, NEW w \in Workers,
         \/ \E m \in Messages : Consume(w, m)
         \/ Finish(w) \/ Requeue(w) \/ EnqueueZAdd(w)
  PROVE  Quiet
<1>1. /\ entry' = entry /\ scheduler' = scheduler /\ copies' = copies /\ faults' = faults
      /\ \A j \in Jobs : \/ Unfinished(j)'
                         \/ zset'[j] = zset[j] /\ (Unfinished(j) => Unfinished(j)')
  BY DEF IInv, TypeOK, Unfinished, Consume, Finish, Requeue, EnqueueZAdd, WGoto, redis,
         scheduler, ghost
<1>2. \A m \in Messages : m.job \in Jobs /\ PutsBack(m)' = PutsBack(m)
  BY <1>1 DEF PutsBack, scheduler, Messages
<1> QED BY <1>1, <1>2 DEF Quiet, MayPublish, Acknowledges, scheduler

LEMMA StoresBudget ==
  ASSUME IInv, NEW w \in Workers, EnqueueSet(w)
  PROVE  Storing
<1> DEFINE j == wmsg[w].job
           next == [job |-> j, retry |-> wmsg[w].retry + 1]
<1>1. j \in Jobs /\ next \in Messages /\ scheduler' = scheduler /\ zset' = zset
      /\ faults' = faults
  BY RetryQueueAssumption DEF IInv, TypeOK, Messages, RetriesLeft, MayRetry, EnqueueSet
<1>2. /\ \A s \in Schedulers, m \in Messages :
           copies'[s][m] = IF m = next THEN 0 ELSE copies[s][m]
      /\ entry' = [entry EXCEPT ![j] = next.retry]
  BY <1>1 DEF IInv, TypeOK, EnqueueSet
<1>3. \A m \in Messages : m.job = j /\ m.retry = next.retry => m = next
  BY <1>1 DEF Messages
<1>4. \A m \in Messages : m.job \in Jobs /\ PutsBack(m)' = PutsBack(m)
  BY <1>1 DEF PutsBack, scheduler, Messages
<1>5. ASSUME NEW m \in Messages, NEW s \in Schedulers, m # next, MayPublish(s, m)'
      PROVE  MayPublish(s, m)
  <2>1. CASE m.job = j
    <3>1. entry'[m.job] # m.retry
      BY <1>1, <1>2, <1>3, <1>5, <2>1 DEF IInv, TypeOK
    <3> QED BY <1>1, <1>5, <3>1 DEF MayPublish, scheduler
  <2>2. CASE m.job # j
    <3>1. entry'[m.job] = entry[m.job]
      BY <1>2, <1>4, <2>2
    <3>2. Unfinished(m.job) => Unfinished(m.job)'
      BY <1>1, <2>2 DEF Unfinished, EnqueueSet, WGoto, scheduler, IInv, TypeOK
    <3> QED BY <1>1, <1>5, <3>1, <3>2 DEF MayPublish, Acknowledges, scheduler
  <2> QED BY <2>1, <2>2
<1> QED BY <1>1, <1>2, <1>4, <1>5 DEF Storing

LEMMA FailuresBudget ==
  ASSUME IInv, \/ \E w \in Workers : EnqueueFails(w)
               \/ \E s \in Schedulers : CallFails(s) \/ Abandon(s)
  PROVE  Failing
BY DEF IInv, TypeOK, Failing, PutsBack, EnqueueFails, CallFails, Abandon, Fault, Drop,
       SGoto, redis, scheduler, ghost

LEMMA PeeksBudget ==
  ASSUME IInv, NEW s \in Schedulers, Scan(s) \/ Fetch(s) \/ PurgeStale(s) \/ BatchDone(s)
  PROVE  Quiet
<1>1. CASE Scan(s)
  BY <1>1 DEF IInv, TypeOK, ItemsAreFetched, DueIsComplete, Quiet, PutsBack, MayPublish,
         Unfinished, Acknowledges, Scan, DueIDs, AfterScan, SGoto, worker, ghost,
         Messages
<1>2. CASE Fetch(s)
  BY <1>2 DEF IInv, ItemsAreFetched, Quiet, PutsBack, MayPublish, Unfinished,
         Acknowledges, Fetch, SGoto, redis, worker, ghost, Messages
<1>3. CASE PurgeStale(s)
  BY <1>3 DEF Quiet, PutsBack, MayPublish, Unfinished, Acknowledges, PurgeStale, worker,
         ghost, Messages
<1>4. CASE BatchDone(s)
  BY <1>4 DEF Quiet, PutsBack, MayPublish, AfterPublish, AckSteps, Unfinished,
         Acknowledges, BatchDone, SGoto, redis, worker, ghost
<1> QED BY <1>1, <1>2, <1>3, <1>4

LEMMA DueBudget ==
  ASSUME IInv, NEW j \in Jobs, Due(j)
  PROVE  Quiet
BY DEF Quiet, PutsBack, MayPublish, Unfinished, Acknowledges, Due, worker, scheduler, ghost

LEMMA AcksBudget ==
  ASSUME IInv, NEW s \in Schedulers, AckZRem(s) \/ AckDel(s) \/ RescheduleZAdd(s)
  PROVE  Quiet
<1>1. CASE AckZRem(s)
  BY <1>1 DEF IInv, TypeOK, Quiet, PutsBack, MayPublish, AfterPublish, AckSteps,
         Unfinished, Acknowledges, AckZRem, SGoto, worker, ghost
<1>2. CASE AckDel(s)
  BY <1>2 DEF IInv, TypeOK, Quiet, PutsBack, MayPublish, Unfinished, Acknowledges,
         AckDel, Drop, SGoto, worker, ghost
<1>3. CASE RescheduleZAdd(s)
  BY <1>3 DEF IInv, TypeOK, Quiet, PutsBack, MayPublish, AfterPublish, Unfinished,
         Acknowledges, RescheduleZAdd, SGoto, worker, ghost
<1> QED BY <1>1, <1>2, <1>3

LEMMA PublishBudget ==
  ASSUME IInv, NEW s \in Schedulers, NEW j \in Jobs
  PROVE  /\ Publish(s, j) => Publishing
         /\ PublishFails(s, j) => FailingToPublish
<1> DEFINE m0 == [job |-> j, retry |-> items[s][j]]
<1>1. m0 \in Messages /\ \A m \in Messages : m.job \in Jobs
  BY DEF IInv, TypeOK, Messages
<1>2. \A m \in Messages : m.job = j /\ m.retry = items[s][j] => m = m0
  BY DEF Messages
<1>3. ASSUME spc[s] = "publish", items[s][j] # 0, UNCHANGED <<redis, worker, scanned, items>>,
             cur' = [cur EXCEPT ![s] = j],
             NEW label \in {"ackZRem", "reZAdd"}, spc' = [spc EXCEPT ![s] = label]
      PROVE  /\ MayPublish(s, m0) /\ ~MayPublish(s, m0)'
             /\ \A m \in Messages, t \in Schedulers : MayPublish(t, m)' => MayPublish(t, m)
             /\ \A m \in Messages : /\ label = "ackZRem" => PutsBack(m)' \subseteq PutsBack(m)
                                    /\ PutsBack(m)' \subseteq PutsBack(m) \cup {s}
  <2>1. \A i \in Jobs : Unfinished(i) => Unfinished(i)'
    BY <1>3 DEF Unfinished, worker
  <2>2. MayPublish(s, m0) /\ ~MayPublish(s, m0)'
    BY <1>3 DEF MayPublish, AfterPublish, AckSteps, Acknowledges, IInv, TypeOK
  <2>3. ASSUME NEW m \in Messages, NEW t \in Schedulers, MayPublish(t, m)'
        PROVE  MayPublish(t, m)
    BY <1>1, <1>3, <2>1, <2>3 DEF MayPublish, AfterPublish, AckSteps, Acknowledges, redis
  <2>4. ASSUME NEW m \in Messages
        PROVE  /\ label = "ackZRem" => PutsBack(m)' \subseteq PutsBack(m)
               /\ PutsBack(m)' \subseteq PutsBack(m) \cup {s}
    BY <1>3 DEF PutsBack
  <2> QED BY <2>2, <2>3, <2>4
<1>4. ASSUME Publishes(s, m0)
      PROVE  \A m \in Messages, t \in Schedulers :
               copies'[t][m] = IF t = s /\ m = m0 THEN copies[t][m] + 1 ELSE copies[t][m]
  BY <1>1, <1>4 DEF Publishes, IInv, TypeOK
<1>5. ASSUME Publish(s, j)  PROVE Publishing
  BY <1>3, <1>4, <1>5 DEF Publish, OnPublish, SGoto, Publishing
<1>6. ASSUME PublishFails(s, j)  PROVE FailingToPublish
  <2>1. /\ MayPublish(s, m0) /\ ~MayPublish(s, m0)'
        /\ \A m \in Messages, t \in Schedulers : MayPublish(t, m)' => MayPublish(t, m)
        /\ \A m \in Messages : PutsBack(m)' \subseteq PutsBack(m) \cup {s}
    BY <1>3, <1>6 DEF PublishFails, OnPublishFailure, SGoto
  <2> QED BY <1>4, <1>6, <2>1 DEF PublishFails, Fault, FailingToPublish
<1> QED BY <1>5, <1>6

LEMMA PutBackBudget ==
  ASSUME IInv, NEW s \in Schedulers, RescheduleSet(s)
  PROVE  PuttingBack
<1> DEFINE j == cur[s]
<1>1. /\ j \in Jobs /\ entry' = [entry EXCEPT ![j] = items[s][j]]
      /\ items' = [items EXCEPT ![s][j] = 0] /\ items[s][j] # 0
      /\ spc' = [spc EXCEPT ![s] = "publish"] /\ spc[s] = "reSet"
      /\ UNCHANGED <<zset, wpc, wmsg, scanned, cur, faults, copies>>
  BY DEF RescheduleSet, Drop, SGoto, worker, ghost, IInv, TypeOK, ItemsAreFetched,
         AfterPublish
<1>2. ASSUME NEW m \in Messages, m.job = j, m.retry = items[s][j]
      PROVE  s \in PutsBack(m) /\ PutsBack(m)' \subseteq PutsBack(m) \ {s}
  BY <1>1, <1>2 DEF PutsBack, IInv, TypeOK
<1>3. ASSUME NEW m \in Messages, ~(m.job = j /\ m.retry = items[s][j])
      PROVE  /\ PutsBack(m)' \subseteq PutsBack(m)
             /\ \A t \in Schedulers : MayPublish(t, m)' => MayPublish(t, m)
  <2>1. m.job \in Jobs
    BY DEF Messages
  <2>2. PutsBack(m)' \subseteq PutsBack(m)
    BY <1>1 DEF PutsBack, IInv, TypeOK
  <2>3. ASSUME NEW t \in Schedulers, MayPublish(t, m)'  PROVE MayPublish(t, m)
    <3>1. CASE m.job = j
      <4>1. entry'[m.job] # m.retry
        BY <1>1, <1>3, <3>1 DEF IInv, TypeOK
      <4>2. items'[t][m.job] = m.retry /\ m.retry # 0
        BY <2>3, <4>1 DEF MayPublish
      <4>3. t # s
        BY <1>1, <3>1, <4>2 DEF IInv, TypeOK
      <4> QED BY <1>1, <2>3, <4>1, <4>3 DEF MayPublish
    <3>2. CASE m.job # j
      <4>1. /\ entry'[m.job] = entry[m.job] /\ items'[t][m.job] = items[t][m.job]
            /\ Unfinished(m.job) => Unfinished(m.job)'
        BY <1>1, <2>1, <3>2 DEF Unfinished
      <4> QED BY <1>1, <2>3, <3>2, <4>1 DEF MayPublish, Acknowledges
    <3> QED BY <3>1, <3>2
  <2> QED BY <2>2, <2>3
<1> QED BY <1>1, <1>2, <1>3 DEF PuttingBack

LEMMA BudgetHolds == Spec => []CopiesBudgeted
<1>1. Init => CopiesBudgeted
  <2> SUFFICES ASSUME Init, NEW m \in Messages
               PROVE  /\ Cardinality(PutsBack(m)) <= faults
                      /\ \A s \in Schedulers :
                           copies[s][m] + Ahead(s, m) + Cardinality(PutsBack(m)) <= 1 + faults
    BY DEF CopiesBudgeted
  <2>1. PutsBack(m) = {}
    BY DEF Init, PutsBack
  <2>2. faults = 0 /\ \A s \in Schedulers : copies[s][m] = 0 /\ Ahead(s, m) \in {0, 1}
    BY DEF Init, Ahead
  <2> QED BY <2>1, <2>2, FS_EmptySet
<1>2. IInv /\ CopiesBudgeted /\ [Next]_vars => CopiesBudgeted'
  <2> SUFFICES ASSUME IInv, CopiesBudgeted, [Next]_vars  PROVE CopiesBudgeted'
    OBVIOUS
  <2>1. CASE UNCHANGED vars
    <3>1. Quiet
      BY <2>1 DEF vars, redis, worker, scheduler, ghost, Quiet, PutsBack, MayPublish,
             Unfinished, Acknowledges
    <3> QED BY <3>1, BudgetStays
  <2>2. ASSUME NEW w \in Workers,
               \/ \E m \in Messages : Consume(w, m)
               \/ Finish(w) \/ Requeue(w) \/ EnqueueZAdd(w) \/ EnqueueSet(w) \/ EnqueueFails(w)
        PROVE  CopiesBudgeted'
    BY <2>2, WorkersBudget, StoresBudget, FailuresBudget, BudgetStays
  <2>3. ASSUME NEW j \in Jobs, Due(j)  PROVE CopiesBudgeted'
    BY <2>3, DueBudget, BudgetStays
  <2>4. ASSUME NEW s \in Schedulers, Polls(s) \/ Abandon(s)  PROVE CopiesBudgeted'
    BY <2>4, PeeksBudget, AcksBudget, PublishBudget, PutBackBudget, FailuresBudget,
       BudgetStays
       DEF Polls
  <2> QED BY <2>1, <2>2, <2>3, <2>4 DEF Next
<1> QED BY <1>1, <1>2, IInvHolds, PTL DEF Spec

(* pollOnce and republish: a scheduler publishes a retry once after it was *)
(* stored and once more for each failed call and dead process, whatever is *)
(* requeued, acknowledged, purged or put back in between.                  *)
THEOREM RetriesDoNotMultiply == Spec => []PublishedOnceEach
<1>1. IInv /\ CopiesBudgeted => PublishedOnceEach
  <2> SUFFICES ASSUME IInv, CopiesBudgeted, NEW s \in Schedulers, NEW m \in Messages
               PROVE  copies[s][m] <= 1 + faults
    BY DEF PublishedOnceEach
  <2>1. /\ copies[s][m] \in Nat /\ Ahead(s, m) \in Nat /\ faults \in Nat
        /\ Cardinality(PutsBack(m)) \in Nat
    BY PutsBackFinite DEF IInv, TypeOK, Ahead
  <2> QED BY <2>1 DEF CopiesBudgeted
<1> QED BY <1>1, IInvHolds, BudgetHolds, PTL

---------------------------------------------------------------------------
(* How the parser learns its rules                                         *)

(* What the assumption says, in parts.                                     *)
LEMMA LearnerConstants ==
  /\ IsFiniteSet(Hosts) /\ IsFiniteSet(Pages) /\ Layouts \subseteq Nat /\ Layouts # {}
  /\ HostOf \in [Pages -> Hosts] /\ LayoutOf \in [Pages -> Layouts]
  /\ Nobody \notin Pages /\ Nobody \notin Instances
  /\ MaxVersion \in Nat /\ MaxVersion >= 1 /\ StaleThreshold \in Nat
  /\ BreakerThreshold \in Nat /\ BreakerThreshold >= 1 /\ Cap \in Nat /\ Cap >= 1
  /\ MaxLLMRetries \in Nat /\ MaxTrouble \in Nat
BY RuleLearningAssumption

(* A set of numbers has a least one: the layout of the oldest rule.        *)
LEMMA Least ==
  ASSUME NEW S \in SUBSET Nat, S # {}
  PROVE  \E x \in S : \A y \in S : x <= y
<1>. DEFINE R == OpToRel(<, Nat)
<1>1. R = {pair \in Nat \X Nat : pair[1] < pair[2]}
  BY DEF OpToRel
<1>2. IsWellFoundedOn(R, Nat)
  BY NatLessThanWellFounded, Zenon
<1>. HIDE DEF R
<1>3. PICK x \in S : \A y \in S : ~(<<y, x>> \in R)
  BY <1>2, WFMin, Zenon
<1>4. \A y \in S : x <= y
  <2>. SUFFICES ASSUME NEW y \in S, y < x  PROVE FALSE
    OBVIOUS
  <2>. QED  BY <1>1, <1>3
<1>. QED  BY <1>4

(* A bounded one has a greatest: Max, by which versions and paths are chosen.*)
LEMMA Greatest ==
  ASSUME NEW n \in Nat, NEW S \in SUBSET (0..n), S # {}
  PROVE  Max(S) \in S /\ \A y \in S : Max(S) >= y
<1>. DEFINE T == {n - x : x \in S}
<1>1. \A x \in S : x \in Nat /\ n - x \in Nat
  <2>1. S \subseteq 0..n
    OBVIOUS
  <2>2. \A x \in S : x \in Nat /\ x <= n
    BY <2>1
  <2>. QED  BY <2>2
<1>2. PICK t \in T : \A u \in T : t <= u
  <2>1. T \in SUBSET Nat /\ T # {}
    BY <1>1
  <2>. QED  BY <2>1, Least
<1>3. PICK x \in S : t = n - x
  OBVIOUS
<1>4. \A y \in S : x >= y
  BY <1>1, <1>2, <1>3
<1>. QED  BY <1>4 DEF Max

(* What the rule store reads are rows that it has: candidates, the row of a*)
(* natural key, the resolved rule; and a last version is a version.        *)
LEMMA RowsRead ==
  ASSUME NEW rows \in SUBSET Rule, NEW path, NEW inPart
  PROVE  /\ LastVersion(rows, path) \in 0..MaxVersion
         /\ rows = {} => LastVersion(rows, path) = 0
         /\ FindActiveCandidates(rows) \subseteq rows
         /\ Resolve(rows, inPart) \subseteq rows
<1>. DEFINE S == {0} \cup {r.version : r \in {q \in rows : q.path = path}}
<1>1. S \subseteq 0..MaxVersion /\ S # {}
  BY LearnerConstants DEF Rule
<1>2. Max(S) \in S
  BY <1>1, LearnerConstants, Greatest
<1>3. LastVersion(rows, path) \in S
  BY <1>2 DEF LastVersion
<1>4. rows = {} => S = {0}
  OBVIOUS
<1>5. FindActiveCandidates(rows) \subseteq rows /\ Resolve(rows, inPart) \subseteq rows
  BY DEF FindActiveCandidates, Resolve
<1>. HIDE DEF S
<1>6. LastVersion(rows, path) \in 0..MaxVersion
  BY <1>1, <1>3
<1>7. rows = {} => LastVersion(rows, path) = 0
  BY <1>3, <1>4
<1>. QED  BY <1>5, <1>6, <1>7

---------------------------------------------------------------------------
(* The types, in parts                                                     *)
RowsTyped ==
  /\ rules \in [Hosts -> SUBSET Rule] /\ refining \in [Hosts -> SUBSET Rule]
  /\ samples \in [Hosts -> [1..MaxVersion -> SUBSET Pages]]
CachesTyped ==
  /\ cache \in [Instances -> [Hosts -> SUBSET SUBSET Rule]]
  /\ known \in [Instances -> [Hosts -> SUBSET BOOLEAN]]
ParseTyped ==
  /\ at \in [Pages -> ParseSteps] /\ on \in [Pages -> Instances \cup {Nobody}]
  /\ view \in [Pages -> SUBSET Rule] /\ stale \in [Pages -> BOOLEAN]
  /\ retries \in [Pages -> 0..MaxLLMRetries]
Generations == [step : GenSteps, on : Instances \cup {Nobody}, stale : BOOLEAN, blind : BOOLEAN,
                version : 0..MaxVersion, batch : SUBSET Pages]
GenTyped == gen \in [Pages -> Generations]
KeysTyped ==
  /\ lock \in [Hosts -> Pages \cup {Nobody}] /\ pending \in [Hosts -> SUBSET Pages]
  /\ stales \in [Hosts -> Nat] /\ used \in Nat
HeldTyped ==
  /\ token \in [Instances -> [Hosts -> Pages \cup {Nobody}]]
  /\ strikes \in [Instances -> [Hosts -> 0..BreakerThreshold]]
  /\ blocked \in [Instances -> SUBSET Hosts]
CountsTyped ==
  /\ calls \in [Pages -> Nat] /\ quietly \subseteq Hosts
  /\ failures \in 0..MaxTrouble /\ expiries \in 0..MaxTrouble /\ disables \in 0..MaxTrouble
LearnerTyped ==
  /\ RowsTyped /\ CachesTyped /\ ParseTyped /\ GenTyped /\ KeysTyped /\ HeldTyped /\ CountsTyped

(* Together they are the type invariant.                                   *)
LEMMA TypesInParts == RulesTypeOK <=> LearnerTyped
BY DEF RulesTypeOK, LearnerTyped, RowsTyped, CachesTyped, ParseTyped, GenTyped,
       Generations, KeysTyped, HeldTyped, CountsTyped

(* An update of a table of an instance and a host.                         *)
LEMMA Nested ==
  ASSUME NEW A, NEW B, NEW C, NEW f \in [A -> [B -> C]], NEW a, NEW b, NEW c,
         a \in A /\ b \in B => c \in C
  PROVE  [f EXCEPT ![a][b] = c] \in [A -> [B -> C]]
OBVIOUS

(* What may go wrong is bounded.                                           *)
LEMMA FailsTyped ==
  ASSUME CountsTyped
  PROVE  /\ failures \in Nat /\ expiries \in Nat /\ disables \in Nat
         /\ NoFailure => failures' = failures /\ failures' \in 0..MaxTrouble
         /\ Fails => failures' = failures + 1 /\ failures' \in 0..MaxTrouble
         /\ Calm => expiries + 1 \in 0..MaxTrouble /\ disables + 1 \in 0..MaxTrouble
<1>1. /\ failures \in 0..MaxTrouble /\ expiries \in 0..MaxTrouble /\ disables \in 0..MaxTrouble
      /\ MaxTrouble \in Nat
  BY LearnerConstants DEF CountsTyped
<1>. QED  BY <1>1 DEF NoFailure, Fails, Calm

(* A generation has its parts, and an ended one has none.                  *)
LEMMA GenerationTyped ==
  ASSUME GenTyped
  PROVE  /\ NoGen \in Generations
         /\ NoGen.step = "idle" /\ NoGen.on = Nobody /\ NoGen.batch = {} /\ NoGen.version = 0
         /\ \A p \in Pages :
              /\ gen[p] \in Generations
              /\ gen[p].step \in GenSteps /\ gen[p].on \in Instances \cup {Nobody}
              /\ gen[p].stale \in BOOLEAN /\ gen[p].blind \in BOOLEAN
              /\ gen[p].version \in 0..MaxVersion /\ gen[p].batch \in SUBSET Pages
<1>1. NoGen \in Generations
  BY LearnerConstants DEF NoGen, Generations, GenSteps
<1>. QED  BY <1>1 DEF NoGen, Generations, GenTyped

(* A generation that goes on changes its step only.                        *)
LEMMA GenerationGoes ==
  ASSUME GenTyped, NEW p \in Pages, NEW step \in GenSteps, GenGoes(p, step)
  PROVE  /\ GenTyped'
         /\ gen'[p].step = step /\ gen'[p].on = gen[p].on /\ gen'[p].stale = gen[p].stale
         /\ gen'[p].blind = gen[p].blind /\ gen'[p].version = gen[p].version
         /\ gen'[p].batch = gen[p].batch
         /\ \A q \in Pages \ {p} : gen'[q] = gen[q]
BY DEF GenGoes, Generations, GenTyped

(* Nor does one that changes more than its step leave the types.           *)
LEMMA GenerationSet ==
  ASSUME GenTyped, NEW p \in Pages, NEW step \in GenSteps
  PROVE  /\ \A b \in BOOLEAN : gen' = [gen EXCEPT ![p].step = step, ![p].blind = b] => GenTyped'
         /\ \A v \in 0..MaxVersion :
              gen' = [gen EXCEPT ![p].step = step, ![p].version = v] => GenTyped'
         /\ \A S \in SUBSET Pages :
              gen' = [gen EXCEPT ![p].step = step, ![p].batch = S] => GenTyped'
<1>1. ASSUME NEW g \in Generations
      PROVE  /\ \A b \in BOOLEAN : [g EXCEPT !.step = step, !.blind = b] \in Generations
             /\ \A v \in 0..MaxVersion : [g EXCEPT !.step = step, !.version = v] \in Generations
             /\ \A S \in SUBSET Pages : [g EXCEPT !.step = step, !.batch = S] \in Generations
  BY DEF Generations
<1>2. ASSUME NEW g \in Generations, gen' = [gen EXCEPT ![p] = g]  PROVE GenTyped'
  BY <1>2 DEF GenTyped
<1>3. gen[p] \in Generations
  BY DEF GenTyped
<1>4. ASSUME NEW b \in BOOLEAN, gen' = [gen EXCEPT ![p].step = step, ![p].blind = b]
      PROVE  GenTyped'
  BY <1>1, <1>2, <1>3, <1>4
<1>5. ASSUME NEW v \in 0..MaxVersion, gen' = [gen EXCEPT ![p].step = step, ![p].version = v]
      PROVE  GenTyped'
  BY <1>1, <1>2, <1>3, <1>5
<1>6. ASSUME NEW S \in SUBSET Pages, gen' = [gen EXCEPT ![p].step = step, ![p].batch = S]
      PROVE  GenTyped'
  BY <1>1, <1>2, <1>3, <1>6
<1>. QED  BY <1>4, <1>5, <1>6

(* HasAnyRule answers yes or no.                                           *)
LEMMA WantsTyped ==
  ASSUME NEW rows
  PROVE  ShouldEnqueueLLMOnNoRule(rows) \in BOOLEAN
BY DEF ShouldEnqueueLLMOnNoRule

(* How a step moves a generation: to one of these steps, on its instance,  *)
(* with its batch and version, and blind if it was.                        *)
Moved(p, from, to) ==
  /\ gen[p].step = from /\ gen'[p].step \in to
  /\ gen'[p].on = gen[p].on /\ gen'[p].batch = gen[p].batch /\ gen'[p].version = gen[p].version
  /\ gen[p].blind => gen'[p].blind
  /\ \A q \in Pages \ {p} : gen'[q] = gen[q]

(* The steps of runOnce, in order.                                         *)
LEMMA GenerationMoves ==
  ASSUME GenTyped, NEW p \in Pages
  PROVE  /\ PreCheck(p) => Moved(p, "check", {"flush", "budget"})
         /\ Allow(p) => Moved(p, "budget", {"record", "release"})
         /\ RecordCall(p) => Moved(p, "record", {"call"})
         /\ CallLLM(p) => Moved(p, "call", {"release", "version", "insert"})
         /\ Insert(p) => Moved(p, "insert", {"invalidate", "release"})
         /\ Invalidate(p) => Moved(p, "invalidate", {"flush"})
         /\ ReadVersion(p) =>
              /\ gen[p].step = "version" /\ gen'[p].step = "insert"
              /\ gen'[p].on = gen[p].on /\ gen'[p].batch = gen[p].batch
              /\ gen'[p].blind = gen[p].blind
              /\ gen'[p].version = LastVersion(rules[HostOf[p]], "any")
              /\ \A q \in Pages \ {p} : gen'[q] = gen[q]
         /\ Flush(p) =>
              \/ Moved(p, "flush", {"release"}) /\ pending' = pending
              \/ /\ gen[p].step = "flush" /\ gen'[p].step = "requeue" /\ gen'[p].on = gen[p].on
                 /\ gen'[p].batch = pending[HostOf[p]] /\ gen'[p].version = gen[p].version
                 /\ pending' = [pending EXCEPT ![HostOf[p]] = {}]
                 /\ \A q \in Pages \ {p} : gen'[q] = gen[q]
         /\ RequeueParsing(p) =>
              /\ gen[p].step = "requeue" /\ gen'[p].step = "release" /\ gen'[p].on = gen[p].on
              /\ gen'[p].batch = {} /\ gen'[p].version = gen[p].version
              /\ \A q \in Pages \ {p} : gen'[q] = gen[q]
         /\ Release(p) =>
              /\ gen[p].step = "release" /\ gen'[p] = NoGen
              /\ \A q \in Pages \ {p} : gen'[q] = gen[q]
         /\ TryAcquire(p) =>
              /\ gen[p].step = "idle" /\ gen'[p].step = "check" /\ gen'[p].on = on[p]
              /\ gen'[p].batch = {} /\ gen'[p].version = 0
              /\ \A q \in Pages \ {p} : gen'[q] = gen[q]
<1>1. ASSUME NEW from, NEW to \in SUBSET GenSteps, gen[p].step = from,
             \E step \in to : GenGoes(p, step)
      PROVE  Moved(p, from, to)
  BY <1>1, GenerationGoes DEF Moved
<1>2. PreCheck(p) => Moved(p, "check", {"flush", "budget"})
  <2>. SUFFICES ASSUME PreCheck(p)  PROVE Moved(p, "check", {"flush", "budget"})
    OBVIOUS
  <2>1. CASE gen' = [gen EXCEPT ![p].step = "budget", ![p].blind = TRUE]
    BY <2>1 DEF PreCheck, Moved, GenTyped
  <2>2. CASE GenGoes(p, "flush") \/ GenGoes(p, "budget")
    BY <1>1, <2>2 DEF PreCheck, GenSteps
  <2>. QED  BY <2>1, <2>2 DEF PreCheck
<1>3. Allow(p) => Moved(p, "budget", {"record", "release"})
  BY <1>1 DEF Allow, GenSteps
<1>4. RecordCall(p) => Moved(p, "record", {"call"})
  BY <1>1 DEF RecordCall, GenSteps
<1>5. CallLLM(p) => Moved(p, "call", {"release", "version", "insert"})
  BY <1>1 DEF CallLLM, GenSteps
<1>6. Insert(p) => Moved(p, "insert", {"invalidate", "release"})
  BY <1>1 DEF Insert, GenSteps
<1>7. Invalidate(p) => Moved(p, "invalidate", {"flush"})
  BY <1>1 DEF Invalidate, GenSteps
<1>8. ASSUME ReadVersion(p)
      PROVE  /\ gen[p].step = "version" /\ gen'[p].step = "insert"
             /\ gen'[p].on = gen[p].on /\ gen'[p].batch = gen[p].batch
             /\ gen'[p].blind = gen[p].blind
             /\ gen'[p].version = LastVersion(rules[HostOf[p]], "any")
             /\ \A q \in Pages \ {p} : gen'[q] = gen[q]
  BY <1>8 DEF ReadVersion, GenTyped
<1>9. ASSUME Flush(p)
      PROVE  \/ Moved(p, "flush", {"release"}) /\ pending' = pending
             \/ /\ gen[p].step = "flush" /\ gen'[p].step = "requeue" /\ gen'[p].on = gen[p].on
                /\ gen'[p].batch = pending[HostOf[p]] /\ gen'[p].version = gen[p].version
                /\ pending' = [pending EXCEPT ![HostOf[p]] = {}]
                /\ \A q \in Pages \ {p} : gen'[q] = gen[q]
  <2>1. CASE GenGoes(p, "release") /\ UNCHANGED pending
    BY <1>1, <1>9, <2>1 DEF Flush, GenSteps
  <2>2. CASE /\ gen' = [gen EXCEPT ![p].step = "requeue", ![p].batch = pending[HostOf[p]]]
             /\ pending' = [pending EXCEPT ![HostOf[p]] = {}]
    BY <1>9, <2>2 DEF Flush, GenTyped
  <2>. QED  BY <1>9, <2>1, <2>2 DEF Flush
<1>10. ASSUME RequeueParsing(p)
       PROVE  /\ gen[p].step = "requeue" /\ gen'[p].step = "release" /\ gen'[p].on = gen[p].on
              /\ gen'[p].batch = {} /\ gen'[p].version = gen[p].version
              /\ \A q \in Pages \ {p} : gen'[q] = gen[q]
  BY <1>10 DEF RequeueParsing, GenTyped
<1>11. Release(p) => /\ gen[p].step = "release" /\ gen'[p] = NoGen
                     /\ \A q \in Pages \ {p} : gen'[q] = gen[q]
  BY DEF Release, GenTyped
<1>12. ASSUME TryAcquire(p)
       PROVE  /\ gen[p].step = "idle" /\ gen'[p].step = "check" /\ gen'[p].on = on[p]
              /\ gen'[p].batch = {} /\ gen'[p].version = 0
              /\ \A q \in Pages \ {p} : gen'[q] = gen[q]
  BY <1>12, GenerationTyped DEF TryAcquire, GenTyped
<1>. QED  BY <1>2, <1>3, <1>4, <1>5, <1>6, <1>7, <1>8, <1>9, <1>10, <1>11, <1>12

(* Forgetting a host's cached rules, and counting its rate limits.         *)
LEMMA ForgetTyped ==
  ASSUME CachesTyped, NEW i, NEW h, Forget(i, h)
  PROVE  CachesTyped'
<1>1. cache' \in [Instances -> [Hosts -> SUBSET SUBSET Rule]]
  BY Nested DEF CachesTyped, Forget
<1>2. known' \in [Instances -> [Hosts -> SUBSET BOOLEAN]]
  BY Nested DEF CachesTyped, Forget
<1>. QED  BY <1>1, <1>2 DEF CachesTyped

LEMMA BreakerTyped ==
  ASSUME HeldTyped, NEW i, NEW h \in Hosts, UNCHANGED token,
         Recover(i, h) \/ Strike(i, h) \/ UNCHANGED breaker
  PROVE  HeldTyped'
<1>. DEFINE n == IF strikes[i][h] < BreakerThreshold THEN strikes[i][h] + 1
                 ELSE BreakerThreshold
<1>1. i \in Instances => n \in 0..BreakerThreshold
  BY LearnerConstants DEF HeldTyped
<1>2. 0 \in 0..BreakerThreshold
  BY LearnerConstants
<1>. HIDE DEF n
<1>3. CASE Recover(i, h)
  <2>1. strikes' \in [Instances -> [Hosts -> 0..BreakerThreshold]]
    BY <1>2, <1>3, Nested DEF Recover, HeldTyped
  <2>. QED  BY <1>3, <2>1 DEF Recover, HeldTyped
<1>4. CASE Strike(i, h)
  <2>1. strikes' = [strikes EXCEPT ![i][h] = n]
    BY <1>4 DEF Strike, n
  <2>2. strikes' \in [Instances -> [Hosts -> 0..BreakerThreshold]]
    BY <1>1, <2>1, Nested DEF HeldTyped
  <2>3. \/ blocked' = [blocked EXCEPT ![i] = @ \cup {h}]
        \/ blocked' = [blocked EXCEPT ![i] = @]
    BY <1>4 DEF Strike
  <2>4. blocked' \in [Instances -> SUBSET Hosts]
    BY <2>3 DEF HeldTyped
  <2>. QED  BY <2>2, <2>4 DEF HeldTyped
<1>. QED  BY <1>3, <1>4 DEF HeldTyped, breaker

---------------------------------------------------------------------------
(* The parts of the invariant                                              *)

(* A page that a worker parses has its instance; no other page has one.    *)
Resting == {"fetched", "pending", "left", "done"}
PageHasWorker ==
  \A p \in Pages : IF at[p] \in Resting THEN on[p] = Nobody ELSE on[p] \in Instances

(* A generation runs on an instance, and has a batch only to requeue it.   *)
GenerationHasInstance ==
  \A p \in Pages : /\ gen[p].step # "idle" => gen[p].on \in Instances
                   /\ gen[p].batch # {} => gen[p].step = "requeue"

(* A waiting page is in the list of its own host, or in the batch that one *)
(* generation has taken from that list, and in no two of them.             *)
WaitsOnce ==
  /\ \A h \in Hosts : \A q \in pending[h] : at[q] = "pending" /\ HostOf[q] = h
  /\ \A p \in Pages : \A q \in gen[p].batch :
       /\ at[q] = "pending" /\ HostOf[q] = HostOf[p] /\ q \notin pending[HostOf[p]]
       /\ \A r \in Pages \ {p} : q \notin gen[r].batch

(* A page is the sample of a generation that has yet to call the LLM only  *)
(* while its message has been dealt with.                                  *)
Asks == {"check", "budget", "record", "call"}
SampleIsLeft == \A p \in Pages : gen[p].step \in Asks => at[p] = "left"

(* Every call but the first has cost the sample a retry; before a call, and*)
(* while it may be parsed again, the sample has one call in hand.          *)
CallsPaid ==
  \A p \in Pages : /\ calls[p] <= retries[p] + 1
                   /\ (at[p] \notin {"left", "done"} \/ gen[p].step \in Asks)
                        => calls[p] <= retries[p]

(* Over any set of hosts: the generations that run are no more than the    *)
(* locks that are held and those that have expired under a generation.     *)
GenerationsOf(S) == {p \in Pages : HostOf[p] \in S /\ gen[p].step # "idle"}
LockedOf(S) == {h \in S : lock[h] # Nobody}
LocksCover ==
  \A S \in SUBSET Hosts : Cardinality(GenerationsOf(S)) <= Cardinality(LockedOf(S)) + expiries

(* The calls of the window and those that Allow has let pass: one for each *)
(* host, besides, and one for each lock and each command that failed.      *)
Recording == {p \in Pages : gen[p].step = "record"}
CallsWithinCap ==
  used + Cardinality(Recording) <= Cap - 1 + Cardinality(Hosts) + expiries + failures

(* A host that has rows has one with version 1, the row that PreCheck asks *)
(* for, and it is there before a later version or a refined rule.          *)
FirstRow(h) == FindByNaturalKey(rules[h], "any", 1)
FirstRowStays ==
  /\ \A h \in Hosts : rules[h] # {} => FirstRow(h) # {}
  /\ \A h \in Hosts : refining[h] # {} => rules[h] # {}
  /\ \A p \in Pages : gen[p].version > 0 => rules[HostOf[p]] # {}

(* A host that was disabled in quiet has rows, none of them enabled; the   *)
(* refiner has none in hand, and a generation that has passed PreCheck has *)
(* done so blindly, because its lookup failed.                             *)
Learns == {"budget", "record", "call", "version", "insert"}
QuietIsOff ==
  \A h \in quietly :
    /\ rules[h] # {} /\ ~HasEnabled(rules[h]) /\ refining[h] = {}
    /\ \A p \in Pages : HostOf[p] = h /\ gen[p].step \in Learns => gen[p].blind

---------------------------------------------------------------------------
(* The types stay                                                          *)

(* Every step keeps the types.                                             *)
LEMMA TypesStay ==
  ASSUME RowsTyped, CachesTyped, ParseTyped, GenTyped, KeysTyped, HeldTyped, CountsTyped,
         PageHasWorker, GenerationHasInstance, [RulesNext]_rulesVars
  PROVE  LearnerTyped'
<1>1. CASE UNCHANGED rulesVars
  BY <1>1 DEF rulesVars, LearnerTyped, RowsTyped, CachesTyped, ParseTyped, GenTyped,
         KeysTyped, HeldTyped, CountsTyped, parse, keys, breaker, caches, bounds
<1>2. ASSUME NEW p \in Pages, Parse(p)
      PROVE  LearnerTyped'
  <2>1. ASSUME NEW i \in Instances, Lookup(p, i)
        PROVE  LearnerTyped'
    <3>1. RowsTyped' /\ CachesTyped' /\ GenTyped' /\ KeysTyped' /\ HeldTyped' /\ CountsTyped'
      BY <2>1 DEF Lookup, RowsTyped, CachesTyped, GenTyped, KeysTyped, HeldTyped,
             CountsTyped, keys, breaker, caches, bounds
    <3>2. ParseTyped'
      <4>1. view' \in [Pages -> SUBSET Rule]
        <5>1. /\ HostOf[p] \in Hosts /\ rules[HostOf[p]] \in SUBSET Rule
              /\ cache[i][HostOf[p]] \in SUBSET SUBSET Rule
          BY LearnerConstants DEF RowsTyped, CachesTyped
        <5>2. cache[i][HostOf[p]] # {} =>
                (CHOOSE s \in cache[i][HostOf[p]] : TRUE) \in SUBSET Rule
          BY <5>1
        <5>3. FindActiveCandidates(rules[HostOf[p]]) \in SUBSET Rule
          BY <5>1, RowsRead
        <5>. QED  BY <2>1, <5>2, <5>3 DEF Lookup, ParseTyped
      <4>. QED  BY <2>1, <4>1 DEF Lookup, ParseTyped, ParseSteps
    <3>. QED  BY <3>1, <3>2 DEF LearnerTyped
  <2>2. CASE StoreCache(p)
    <3>1. RowsTyped' /\ GenTyped' /\ KeysTyped' /\ HeldTyped' /\ CountsTyped'
      BY <2>2 DEF StoreCache, RowsTyped, GenTyped, KeysTyped, HeldTyped, CountsTyped,
             keys, breaker, bounds
    <3>2. CachesTyped'
      <4>1. {view[p]} \in SUBSET SUBSET Rule
        BY DEF ParseTyped
      <4>2. cache' \in [Instances -> [Hosts -> SUBSET SUBSET Rule]]
        BY <2>2, <4>1, Nested DEF StoreCache, CachesTyped
      <4>. QED  BY <2>2, <4>2 DEF StoreCache, CachesTyped
    <3>3. ParseTyped'
      BY <2>2 DEF StoreCache, Goes, ParseTyped, ParseSteps
    <3>. QED  BY <3>1, <3>2, <3>3 DEF LearnerTyped
  <2>3. CASE Parsed(p)
    <3>1. CachesTyped' /\ GenTyped' /\ KeysTyped' /\ HeldTyped' /\ CountsTyped'
      BY <2>3 DEF Parsed, CachesTyped, GenTyped, KeysTyped, HeldTyped, CountsTyped,
             keys, breaker, caches, bounds
    <3>2. RowsTyped'
      <4>1. PICK r \in Fits(p) : samples' = IF r.path = "any"
                                  THEN [samples EXCEPT ![HostOf[p]][r.version] = @ \cup {p}]
                                  ELSE samples
        BY <2>3 DEF Parsed
      <4>2. HostOf[p] \in Hosts
        BY LearnerConstants
      <4>3. samples' \in [Hosts -> [1..MaxVersion -> SUBSET Pages]]
        <5>1. r.version \in 1..MaxVersion =>
                samples[HostOf[p]][r.version] \cup {p} \in SUBSET Pages
          BY <4>2 DEF RowsTyped
        <5>2. [samples EXCEPT ![HostOf[p]][r.version] = samples[HostOf[p]][r.version] \cup {p}]
                \in [Hosts -> [1..MaxVersion -> SUBSET Pages]]
          <6>. DEFINE new == samples[HostOf[p]][r.version] \cup {p}
                       v == r.version
          <6>1. v \in 1..MaxVersion => new \in SUBSET Pages
            BY <5>1
          <6>. HIDE DEF new, v
          <6>2. [samples EXCEPT ![HostOf[p]][v] = new]
                  \in [Hosts -> [1..MaxVersion -> SUBSET Pages]]
            BY <6>1, Nested DEF RowsTyped
          <6>. QED  BY <6>2 DEF new, v
        <5>. QED  BY <4>1, <5>2 DEF RowsTyped
      <4>. QED  BY <2>3, <4>3 DEF Parsed, RowsTyped
    <3>3. ParseTyped'
      BY <2>3 DEF Parsed, Ends, ParseTyped, ParseSteps
    <3>. QED  BY <3>1, <3>2, <3>3 DEF LearnerTyped
  <2>4. CASE NoRule(p)
    <3>1. RowsTyped' /\ CachesTyped' /\ GenTyped' /\ KeysTyped' /\ HeldTyped' /\ CountsTyped'
      BY <2>4 DEF NoRule, RowsTyped, CachesTyped, GenTyped, KeysTyped, HeldTyped,
             CountsTyped, keys, breaker, caches, bounds
    <3>2. ParseTyped'
      BY <2>4 DEF NoRule, Goes, ParseTyped, ParseSteps
    <3>. QED  BY <3>1, <3>2 DEF LearnerTyped
  <2>5. CASE RuleFails(p)
    <3>1. RowsTyped' /\ CachesTyped' /\ GenTyped' /\ HeldTyped' /\ CountsTyped'
      BY <2>5 DEF RuleFails, RowsTyped, CachesTyped, GenTyped, HeldTyped, CountsTyped,
             breaker, caches, bounds
    <3>2. ParseTyped'
      BY <2>5 DEF RuleFails, Goes, ParseTyped, ParseSteps
    <3>3. KeysTyped'
      BY <2>5, LearnerConstants DEF RuleFails, KeysTyped
    <3>. QED  BY <3>1, <3>2, <3>3 DEF LearnerTyped
  <2>6. CASE CountStale(p)
    <3>1. RowsTyped' /\ CachesTyped' /\ GenTyped' /\ KeysTyped' /\ HeldTyped' /\ CountsTyped'
      BY <2>6 DEF CountStale, RowsTyped, CachesTyped, GenTyped, KeysTyped, HeldTyped,
             CountsTyped, keys, breaker, caches, bounds
    <3>2. ParseTyped'
      BY <2>6, RowsRead, LearnerConstants DEF CountStale, Goes, Ends, ParseTyped,
             ParseSteps, parse, keys, breaker, caches, bounds, RowsTyped, CachesTyped,
             GenerationHasInstance, PageHasWorker, Resting
    <3>. QED  BY <3>1, <3>2 DEF LearnerTyped
  <2>7. CASE HasAnyRule(p)
    <3>1. RowsTyped' /\ GenTyped' /\ KeysTyped' /\ HeldTyped'
      BY <2>7 DEF HasAnyRule, RowsTyped, GenTyped, KeysTyped, HeldTyped, keys, breaker
    <3>2. CachesTyped'
      <4>. DEFINE answer == ShouldEnqueueLLMOnNoRule(rules[HostOf[p]])
      <4>1. {answer} \in SUBSET BOOLEAN
        BY WantsTyped
      <4>2. known' = known \/ known' = [known EXCEPT ![on[p]][HostOf[p]] = {answer}]
        BY <2>7 DEF HasAnyRule
      <4>. HIDE DEF answer
      <4>3. [known EXCEPT ![on[p]][HostOf[p]] = {answer}]
              \in [Instances -> [Hosts -> SUBSET BOOLEAN]]
        BY <4>1, Nested DEF CachesTyped
      <4>. QED  BY <2>7, <4>2, <4>3 DEF HasAnyRule, CachesTyped
    <3>3. ParseTyped'
      BY <2>7, RowsRead, LearnerConstants DEF HasAnyRule, Goes, Ends, ParseTyped,
             ParseSteps, parse, keys, breaker, caches, bounds, RowsTyped, CachesTyped,
             GenerationHasInstance, PageHasWorker, Resting
    <3>4. CountsTyped'
      BY <2>7, FailsTyped DEF HasAnyRule, CountsTyped
    <3>. QED  BY <3>1, <3>2, <3>3, <3>4 DEF LearnerTyped
  <2>8. CASE Refused(p)
    <3>1. RowsTyped' /\ CachesTyped' /\ GenTyped' /\ KeysTyped' /\ HeldTyped'
      BY <2>8 DEF Refused, RowsTyped, CachesTyped, GenTyped, KeysTyped, HeldTyped, keys,
             breaker, caches
    <3>2. ParseTyped'
      BY <2>8 DEF Refused, Ends, ParseTyped, ParseSteps
    <3>3. CountsTyped'
      BY <2>8, FailsTyped DEF Refused, CountsTyped
    <3>. QED  BY <3>1, <3>2, <3>3 DEF LearnerTyped
  <2>9. CASE TryAcquire(p)
    <3>1. RowsTyped' /\ CachesTyped' /\ CountsTyped'
      BY <2>9 DEF TryAcquire, RowsTyped, CachesTyped, CountsTyped, caches, bounds
    <3>2. ParseTyped'
      BY <2>9 DEF TryAcquire, Ends, ParseTyped, ParseSteps
    <3>3. GenTyped'
      <4>1. on[p] \in Instances /\ stale[p] \in BOOLEAN
        BY <2>9 DEF TryAcquire, PageHasWorker, Resting, ParseTyped
      <4>2. [NoGen EXCEPT !.step = "check", !.on = on[p], !.stale = stale[p]] \in Generations
        BY <4>1, GenerationTyped DEF Generations, GenSteps
      <4>. QED  BY <2>9, <4>2 DEF TryAcquire, GenTyped
    <3>4. KeysTyped'
      BY <2>9, LearnerConstants DEF TryAcquire, KeysTyped
    <3>5. HeldTyped'
      <4>1. token' \in [Instances -> [Hosts -> Pages \cup {Nobody}]]
        BY <2>9, Nested DEF TryAcquire, HeldTyped
      <4>. QED  BY <2>9, <4>1 DEF TryAcquire, HeldTyped, breaker
    <3>. QED  BY <3>1, <3>2, <3>3, <3>4, <3>5 DEF LearnerTyped
  <2>10. CASE Defer(p)
    <3>1. RowsTyped' /\ CachesTyped' /\ GenTyped' /\ KeysTyped' /\ HeldTyped' /\ CountsTyped'
      BY <2>10 DEF Defer, RowsTyped, CachesTyped, GenTyped, KeysTyped, HeldTyped,
             CountsTyped, keys, breaker, caches, bounds
    <3>2. ParseTyped'
      BY <2>10 DEF Defer, Goes, ParseTyped, ParseSteps
    <3>. QED  BY <3>1, <3>2 DEF LearnerTyped
  <2>11. CASE Push(p)
    <3>1. RowsTyped' /\ CachesTyped' /\ GenTyped' /\ HeldTyped'
      BY <2>11 DEF Push, RowsTyped, CachesTyped, GenTyped, HeldTyped, breaker, caches
    <3>2. ParseTyped'
      BY <2>11, RowsRead, LearnerConstants DEF Push, Ends, ParseTyped, ParseSteps,
             parse, keys, breaker, caches, bounds, RowsTyped, CachesTyped,
             GenerationHasInstance, PageHasWorker, Resting
    <3>3. KeysTyped'
      BY <2>11 DEF Push, KeysTyped
    <3>4. CountsTyped'
      BY <2>11, FailsTyped DEF Push, CountsTyped
    <3>. QED  BY <3>1, <3>2, <3>3, <3>4 DEF LearnerTyped
  <2>. QED  BY <1>2, <2>1, <2>2, <2>3, <2>4, <2>5, <2>6, <2>7, <2>8, <2>9, <2>10, <2>11
               DEF Parse
<1>3. ASSUME NEW p \in Pages, Generate(p)
      PROVE  LearnerTyped'
  <2>1. CASE PreCheck(p)
    <3>1. RowsTyped' /\ ParseTyped' /\ KeysTyped' /\ HeldTyped'
      BY <2>1 DEF PreCheck, RowsTyped, ParseTyped, KeysTyped, HeldTyped, parse, keys,
             breaker
    <3>2. CachesTyped'
      <4>1. Forget(gen[p].on, HostOf[p]) \/ UNCHANGED caches
        BY <2>1 DEF PreCheck
      <4>. QED  BY <4>1, ForgetTyped DEF CachesTyped, caches
    <3>3. GenTyped'
      <4>1. \/ GenGoes(p, "flush") \/ GenGoes(p, "budget")
            \/ gen' = [gen EXCEPT ![p].step = "budget", ![p].blind = TRUE]
        BY <2>1 DEF PreCheck
      <4>2. CASE gen' = [gen EXCEPT ![p].step = "budget", ![p].blind = TRUE]
        <5>1. "budget" \in GenSteps
          BY DEF GenSteps
        <5>. QED  BY <4>2, <5>1, GenerationSet
      <4>. QED  BY <4>1, <4>2, GenerationGoes DEF GenSteps
    <3>4. CountsTyped'
      BY <2>1, FailsTyped DEF PreCheck, CountsTyped
    <3>. QED  BY <3>1, <3>2, <3>3, <3>4 DEF LearnerTyped
  <2>2. CASE Allow(p)
    <3>1. RowsTyped' /\ CachesTyped' /\ ParseTyped' /\ KeysTyped'
      BY <2>2 DEF Allow, RowsTyped, CachesTyped, ParseTyped, KeysTyped, parse, keys,
         caches
    <3>2. GenTyped'
      BY <2>2, GenerationTyped, GenerationGoes, LearnerConstants, RowsRead
         DEF Allow, GenGoes, Recover, GenTyped, GenSteps, parse, keys, breaker, caches,
             bounds, RowsTyped, ParseTyped, GenerationHasInstance, PageHasWorker,
             Resting
    <3>3. HeldTyped'
      <4>1. HostOf[p] \in Hosts /\ UNCHANGED token
        BY <2>2, LearnerConstants DEF Allow
      <4>2. Recover(gen[p].on, HostOf[p]) \/ Strike(gen[p].on, HostOf[p]) \/ UNCHANGED breaker
        BY <2>2 DEF Allow
      <4>. QED  BY <4>1, <4>2, BreakerTyped
    <3>4. CountsTyped'
      BY <2>2, FailsTyped DEF Allow, CountsTyped
    <3>. QED  BY <3>1, <3>2, <3>3, <3>4 DEF LearnerTyped
  <2>3. CASE RecordCall(p)
    <3>1. RowsTyped' /\ CachesTyped' /\ ParseTyped' /\ HeldTyped' /\ CountsTyped'
      BY <2>3 DEF RecordCall, RowsTyped, CachesTyped, ParseTyped, HeldTyped,
             CountsTyped, parse, breaker, caches, bounds
    <3>2. KeysTyped'
      BY <2>3 DEF RecordCall, KeysTyped
    <3>3. GenTyped'
      BY <2>3, GenerationTyped, GenerationGoes, LearnerConstants, RowsRead
         DEF RecordCall, GenGoes, GenTyped, GenSteps, parse, keys, breaker, caches,
             bounds, RowsTyped, ParseTyped, GenerationHasInstance, PageHasWorker,
             Resting
    <3>. QED  BY <3>1, <3>2, <3>3 DEF LearnerTyped
  <2>4. CASE CallLLM(p)
    <3>1. RowsTyped' /\ CachesTyped' /\ KeysTyped'
      BY <2>4 DEF CallLLM, RowsTyped, CachesTyped, KeysTyped, keys, caches
    <3>2. CountsTyped'
      BY <2>4 DEF CallLLM, CountsTyped, bounds
    <3>3. GenTyped'
      BY <2>4, GenerationTyped, GenerationGoes, LearnerConstants, RowsRead
         DEF CallLLM, GenGoes, Strike, Recover, RequeueForLLMRetry, NextRetry, Goes,
             GenTyped, GenSteps, parse, keys, breaker, caches, bounds, RowsTyped,
             ParseTyped, GenerationHasInstance, PageHasWorker, Resting
    <3>4. HeldTyped'
      <4>1. HostOf[p] \in Hosts /\ UNCHANGED token
        BY <2>4, LearnerConstants DEF CallLLM
      <4>2. Recover(gen[p].on, HostOf[p]) \/ Strike(gen[p].on, HostOf[p]) \/ UNCHANGED breaker
        BY <2>4 DEF CallLLM
      <4>. QED  BY <4>1, <4>2, BreakerTyped
    <3>5. ParseTyped'
      <4>1. UNCHANGED <<at, on, retries>> \/ RequeueForLLMRetry(p)
        BY <2>4 DEF CallLLM
      <4>2. /\ at' \in [Pages -> ParseSteps] /\ on' = on
            /\ retries' \in [Pages -> 0..MaxLLMRetries]
        <5>1. CASE UNCHANGED <<at, on, retries>>
          BY <5>1 DEF ParseTyped
        <5>2. CASE RequeueForLLMRetry(p) /\ NextRetry(p) <= MaxLLMRetries
          <6>1. retries[p] \in 0..MaxLLMRetries /\ MaxLLMRetries \in Nat
            BY LearnerConstants DEF ParseTyped
          <6>2. retries[p] + 1 \in 0..MaxLLMRetries /\ ~(retries[p] + 1 > MaxLLMRetries)
            BY <5>2, <6>1 DEF NextRetry
          <6>. QED  BY <5>2, <6>2 DEF RequeueForLLMRetry, NextRetry, Goes, ParseTyped,
                           ParseSteps
        <5>3. CASE RequeueForLLMRetry(p) /\ NextRetry(p) > MaxLLMRetries
          BY <5>3 DEF RequeueForLLMRetry, ParseTyped
        <5>4. NextRetry(p) \in Nat /\ MaxLLMRetries \in Nat
          BY LearnerConstants DEF NextRetry, ParseTyped
        <5>. QED  BY <4>1, <5>1, <5>2, <5>3, <5>4
      <4>. QED  BY <2>4, <4>2 DEF CallLLM, ParseTyped
    <3>. QED  BY <3>1, <3>2, <3>3, <3>4, <3>5 DEF LearnerTyped
  <2>5. CASE ReadVersion(p)
    <3>1. RowsTyped' /\ CachesTyped' /\ ParseTyped' /\ KeysTyped' /\ HeldTyped' /\ CountsTyped'
      BY <2>5 DEF ReadVersion, RowsTyped, CachesTyped, ParseTyped, KeysTyped, HeldTyped,
             CountsTyped, parse, keys, breaker, caches, bounds
    <3>2. GenTyped'
      <4>1. LastVersion(rules[HostOf[p]], "any") \in 0..MaxVersion
        BY RowsRead, LearnerConstants DEF RowsTyped
      <4>2. gen' = [gen EXCEPT ![p].step = "insert",
                               ![p].version = LastVersion(rules[HostOf[p]], "any")]
        BY <2>5 DEF ReadVersion
      <4>3. "insert" \in GenSteps
        BY DEF GenSteps
      <4>. QED  BY <4>1, <4>2, <4>3, GenerationSet
    <3>. QED  BY <3>1, <3>2 DEF LearnerTyped
  <2>6. CASE Insert(p)
    <3>1. CachesTyped' /\ ParseTyped' /\ KeysTyped'
      BY <2>6 DEF Insert, CachesTyped, ParseTyped, KeysTyped, parse, keys, caches
    <3>2. RowsTyped'
      <4>1. rules' = rules \/ rules' = [rules EXCEPT ![HostOf[p]] = @ \cup {Learned(p)}]
        BY <2>6 DEF Insert
      <4>2. Learned(p) \in Rule
        <5>1. /\ gen[p].version \in 0..MaxVersion /\ gen[p].version < MaxVersion
              /\ LayoutOf[p] \in Layouts /\ MaxVersion \in Nat
          BY <2>6, GenerationTyped, LearnerConstants DEF Insert
        <5>. QED  BY <5>1 DEF Learned, Rule, Paths
      <4>. QED  BY <2>6, <4>1, <4>2 DEF Insert, RowsTyped
    <3>3. GenTyped'
      BY <2>6, GenerationTyped, GenerationGoes, LearnerConstants, RowsRead
         DEF Insert, GenGoes, Recover, GenTyped, GenSteps, parse, keys, breaker, caches,
             bounds, RowsTyped, ParseTyped, GenerationHasInstance, PageHasWorker,
             Resting
    <3>4. HeldTyped'
      <4>1. HostOf[p] \in Hosts /\ UNCHANGED token
        BY <2>6, LearnerConstants DEF Insert
      <4>2. Recover(gen[p].on, HostOf[p]) \/ Strike(gen[p].on, HostOf[p]) \/ UNCHANGED breaker
        BY <2>6 DEF Insert
      <4>. QED  BY <4>1, <4>2, BreakerTyped
    <3>5. CountsTyped'
      BY <2>6, FailsTyped DEF Insert, CountsTyped
    <3>. QED  BY <3>1, <3>2, <3>3, <3>4, <3>5 DEF LearnerTyped
  <2>7. CASE Invalidate(p)
    <3>1. RowsTyped' /\ ParseTyped' /\ KeysTyped' /\ HeldTyped' /\ CountsTyped'
      BY <2>7 DEF Invalidate, RowsTyped, ParseTyped, KeysTyped, HeldTyped, CountsTyped,
             parse, keys, breaker, bounds
    <3>2. CachesTyped'
      BY <2>7, LearnerConstants DEF Invalidate, Forget, CachesTyped,
         GenerationHasInstance
    <3>3. GenTyped'
      BY <2>7, GenerationTyped, GenerationGoes, LearnerConstants, RowsRead
         DEF Invalidate, Forget, GenGoes, GenTyped, GenSteps, parse, keys, breaker,
             caches, bounds, RowsTyped, ParseTyped, GenerationHasInstance,
             PageHasWorker, Resting
    <3>. QED  BY <3>1, <3>2, <3>3 DEF LearnerTyped
  <2>8. CASE Flush(p)
    <3>1. RowsTyped' /\ CachesTyped' /\ ParseTyped'
      BY <2>8 DEF Flush, RowsTyped, CachesTyped, ParseTyped, parse, caches
    <3>2. HeldTyped'
      <4>1. HostOf[p] \in Hosts /\ UNCHANGED token
        BY <2>8, LearnerConstants DEF Flush
      <4>2. Recover(gen[p].on, HostOf[p]) \/ Strike(gen[p].on, HostOf[p]) \/ UNCHANGED breaker
        BY <2>8 DEF Flush
      <4>. QED  BY <4>1, <4>2, BreakerTyped
    <3>3. GenTyped'
      <4>1. pending[HostOf[p]] \in SUBSET Pages
        BY LearnerConstants DEF KeysTyped
      <4>2. \/ GenGoes(p, "release")
            \/ gen' = [gen EXCEPT ![p].step = "requeue", ![p].batch = pending[HostOf[p]]]
        BY <2>8 DEF Flush
      <4>3. CASE gen' = [gen EXCEPT ![p].step = "requeue", ![p].batch = pending[HostOf[p]]]
        <5>1. "requeue" \in GenSteps
          BY DEF GenSteps
        <5>. QED  BY <4>1, <4>3, <5>1, GenerationSet
      <4>. QED  BY <4>2, <4>3, GenerationGoes DEF GenSteps
    <3>4. KeysTyped'
      BY <2>8 DEF Flush, KeysTyped
    <3>5. CountsTyped'
      BY <2>8, FailsTyped DEF Flush, CountsTyped
    <3>. QED  BY <3>1, <3>2, <3>3, <3>4, <3>5 DEF LearnerTyped
  <2>9. CASE RequeueParsing(p)
    <3>1. RowsTyped' /\ CachesTyped' /\ HeldTyped'
      BY <2>9 DEF RequeueParsing, RowsTyped, CachesTyped, HeldTyped, breaker, caches
    <3>2. CountsTyped'
      <4>1. PICK failed \in SUBSET gen[p].batch :
              /\ failures' = failures + Cardinality(failed)
              /\ failed # {} => failures' + expiries + disables <= MaxTrouble
        BY <2>9 DEF RequeueParsing
      <4>2. /\ Cardinality(failed) \in Nat /\ (failed = {} => Cardinality(failed) = 0)
        BY GenerationTyped, LearnerConstants, FS_Subset, FS_CardinalityType, FS_EmptySet
      <4>3. failures' \in 0..MaxTrouble
        BY <4>1, <4>2, LearnerConstants DEF CountsTyped
      <4>. QED  BY <2>9, <4>3 DEF RequeueParsing, CountsTyped
    <3>3. ParseTyped'
      BY <2>9 DEF RequeueParsing, ParseTyped, ParseSteps
    <3>4. KeysTyped'
      <4>1. gen[p].batch \subseteq Pages
        BY GenerationTyped
      <4>2. \E failed \in SUBSET gen[p].batch :
              pending' = [pending EXCEPT ![HostOf[p]] = @ \cup failed]
        BY <2>9 DEF RequeueParsing
      <4>3. pending' \in [Hosts -> SUBSET Pages]
        BY <4>1, <4>2 DEF KeysTyped
      <4>. QED  BY <2>9, <4>3 DEF RequeueParsing, KeysTyped
    <3>5. GenTyped'
      <4>1. gen' = [gen EXCEPT ![p].step = "release", ![p].batch = {}]
        BY <2>9 DEF RequeueParsing
      <4>2. "release" \in GenSteps /\ {} \in SUBSET Pages
        BY DEF GenSteps
      <4>3. \A S \in SUBSET Pages :
              gen' = [gen EXCEPT ![p].step = "release", ![p].batch = S] => GenTyped'
        BY <4>2, GenerationSet
      <4>. QED  BY <4>1, <4>2, <4>3
    <3>. QED  BY <3>1, <3>2, <3>3, <3>4, <3>5 DEF LearnerTyped
  <2>10. CASE Release(p)
    <3>1. RowsTyped' /\ CachesTyped' /\ ParseTyped' /\ CountsTyped'
      BY <2>10 DEF Release, RowsTyped, CachesTyped, ParseTyped, CountsTyped, parse,
             caches, bounds
    <3>2. KeysTyped'
      BY <2>10, LearnerConstants DEF Release, KeysTyped
    <3>3. HeldTyped'
      BY <2>10, Nested, LearnerConstants DEF Release, NoGen, OwnsLock, HeldTyped, parse,
             keys, breaker, caches, bounds, KeysTyped, ParseTyped,
             GenerationHasInstance, PageHasWorker, Resting
    <3>4. GenTyped'
      BY <2>10, GenerationTyped DEF Release, GenTyped
    <3>. QED  BY <3>1, <3>2, <3>3, <3>4 DEF LearnerTyped
  <2>. QED  BY <1>3, <2>1, <2>2, <2>3, <2>4, <2>5, <2>6, <2>7, <2>8, <2>9, <2>10
               DEF Generate
<1>4. CASE Environment
  <2>1. ASSUME NEW i \in Instances, NEW h \in Hosts, Expire(i, h)
        PROVE  LearnerTyped'
    <3>1. RowsTyped' /\ ParseTyped' /\ GenTyped' /\ KeysTyped' /\ HeldTyped' /\ CountsTyped'
      BY <2>1 DEF Expire, RowsTyped, ParseTyped, GenTyped, KeysTyped, HeldTyped,
             CountsTyped, parse, keys, breaker, bounds
    <3>2. CachesTyped'
      <4>1. [cache EXCEPT ![i][h] = {}] \in [Instances -> [Hosts -> SUBSET SUBSET Rule]]
        BY DEF CachesTyped
      <4>2. [known EXCEPT ![i][h] = {}] \in [Instances -> [Hosts -> SUBSET BOOLEAN]]
        BY DEF CachesTyped
      <4>. QED  BY <2>1, <4>1, <4>2 DEF Expire, CachesTyped
    <3>. QED  BY <3>1, <3>2 DEF LearnerTyped
  <2>2. ASSUME NEW i \in Instances, NEW h \in Hosts, CooldownPasses(i, h)
        PROVE  LearnerTyped'
    <3>1. RowsTyped' /\ CachesTyped' /\ ParseTyped' /\ GenTyped' /\ KeysTyped' /\ CountsTyped'
      BY <2>2 DEF CooldownPasses, RowsTyped, CachesTyped, ParseTyped, GenTyped,
             KeysTyped, CountsTyped, parse, keys, caches, bounds
    <3>2. HeldTyped'
      BY <2>2, LearnerConstants DEF CooldownPasses, Recover, HeldTyped, parse, keys,
             KeysTyped, ParseTyped, GenerationHasInstance, PageHasWorker, Resting
    <3>. QED  BY <3>1, <3>2 DEF LearnerTyped
  <2>3. ASSUME NEW i \in Instances, NEW h \in Hosts, Refine(h, i)
        PROVE  LearnerTyped'
    <3>1. ParseTyped' /\ GenTyped' /\ KeysTyped' /\ HeldTyped' /\ CountsTyped'
      BY <2>3 DEF Refine, ParseTyped, GenTyped, KeysTyped, HeldTyped, CountsTyped,
             parse, keys, breaker, bounds
    <3>2. RowsTyped'
      <4>1. PICK r \in refining[h], pattern \in Inferred :
              \/ /\ pattern # "none" /\ LastVersion(rules[h], pattern) + 1 <= MaxVersion
                 /\ rules' = [rules EXCEPT ![h] = @ \cup
                               {[r EXCEPT !.path = pattern, !.version = LastVersion(rules[h], pattern) + 1]}]
                 /\ samples' = [samples EXCEPT ![h][r.version] = {}]
              \/ pattern = "none" /\ UNCHANGED <<rules, samples>>
        BY <2>3 DEF Refine
      <4>2. r \in Rule /\ rules[h] \in SUBSET Rule
        BY DEF RowsTyped
      <4>3. samples' \in [Hosts -> [1..MaxVersion -> SUBSET Pages]]
        <5>. DEFINE v == r.version
        <5>1. samples' = samples \/ samples' = [samples EXCEPT ![h][v] = {}]
          BY <4>1
        <5>. HIDE DEF v
        <5>2. [samples EXCEPT ![h][v] = {}] \in [Hosts -> [1..MaxVersion -> SUBSET Pages]]
          BY Nested DEF RowsTyped
        <5>. QED  BY <5>1, <5>2 DEF RowsTyped
      <4>4. rules' \in [Hosts -> SUBSET Rule]
        <5>1. CASE UNCHANGED rules
          BY <5>1 DEF RowsTyped
        <5>2. CASE /\ pattern # "none" /\ LastVersion(rules[h], pattern) + 1 <= MaxVersion
                   /\ rules' = [rules EXCEPT ![h] = @ \cup
                                 {[r EXCEPT !.path = pattern, !.version = LastVersion(rules[h], pattern) + 1]}]
          <6>1. LastVersion(rules[h], pattern) + 1 \in 1..MaxVersion
            BY <4>2, <5>2, RowsRead
          <6>2. pattern \in Paths
            BY <5>2 DEF Inferred, Paths
          <6>3. [r EXCEPT !.path = pattern, !.version = LastVersion(rules[h], pattern) + 1]
                  \in Rule
            BY <4>2, <6>1, <6>2 DEF Rule
          <6>. QED  BY <5>2, <6>3 DEF RowsTyped
        <5>. QED  BY <4>1, <5>1, <5>2
      <4>5. refining' \in [Hosts -> SUBSET Rule]
        BY <2>3 DEF Refine, RowsTyped
      <4>. QED  BY <4>3, <4>4, <4>5 DEF RowsTyped
    <3>3. CachesTyped'
      <4>1. Forget(i, h) \/ UNCHANGED caches
        BY <2>3 DEF Refine
      <4>. QED  BY <4>1, ForgetTyped DEF CachesTyped, caches
    <3>. QED  BY <3>1, <3>2, <3>3 DEF LearnerTyped
  <2>4. ASSUME NEW h \in Hosts, WindowSlides(h)
        PROVE  LearnerTyped'
    <3>1. RowsTyped' /\ CachesTyped' /\ ParseTyped' /\ GenTyped' /\ HeldTyped' /\ CountsTyped'
      BY <2>4 DEF WindowSlides, RowsTyped, CachesTyped, ParseTyped, GenTyped, HeldTyped,
             CountsTyped, parse, breaker, caches, bounds
    <3>2. KeysTyped'
      BY <2>4 DEF WindowSlides, KeysTyped
    <3>. QED  BY <3>1, <3>2 DEF LearnerTyped
  <2>5. ASSUME NEW h \in Hosts, LockExpires(h)
        PROVE  LearnerTyped'
    <3>1. RowsTyped' /\ CachesTyped' /\ ParseTyped' /\ GenTyped' /\ HeldTyped'
      BY <2>5 DEF LockExpires, RowsTyped, CachesTyped, ParseTyped, GenTyped, HeldTyped,
             parse, breaker, caches
    <3>2. KeysTyped'
      BY <2>5 DEF LockExpires, KeysTyped
    <3>3. CountsTyped'
      BY <2>5, FailsTyped DEF LockExpires, CountsTyped
    <3>. QED  BY <3>1, <3>2, <3>3 DEF LearnerTyped
  <2>6. ASSUME NEW h \in Hosts, RefineRead(h)
        PROVE  LearnerTyped'
    <3>1. CachesTyped' /\ ParseTyped' /\ GenTyped' /\ KeysTyped' /\ HeldTyped' /\ CountsTyped'
      BY <2>6 DEF RefineRead, CachesTyped, ParseTyped, GenTyped, KeysTyped, HeldTyped,
             CountsTyped, parse, keys, breaker, caches, bounds
    <3>2. RowsTyped'
      <4>1. FindActiveCandidates(rules[h]) \subseteq Rule
        BY RowsRead DEF RowsTyped
      <4>. QED  BY <2>6, <4>1 DEF RefineRead, RowsTyped
    <3>. QED  BY <3>1, <3>2 DEF LearnerTyped
  <2>7. ASSUME NEW h \in Hosts, Disable(h)
        PROVE  LearnerTyped'
    <3>1. CachesTyped' /\ ParseTyped' /\ GenTyped' /\ KeysTyped' /\ HeldTyped'
      BY <2>7 DEF Disable, CachesTyped, ParseTyped, GenTyped, KeysTyped, HeldTyped,
             parse, keys, breaker, caches
    <3>2. RowsTyped'
      <4>1. ASSUME NEW r \in rules[h]  PROVE [r EXCEPT !.on = FALSE] \in Rule
        <5>1. r \in Rule
          BY <4>1 DEF RowsTyped
        <5>. QED  BY <5>1 DEF Rule
      <4>. QED  BY <2>7, <4>1 DEF Disable, RowsTyped
    <3>3. CountsTyped'
      BY <2>7, FailsTyped DEF Disable, CountsTyped
    <3>. QED  BY <3>1, <3>2, <3>3 DEF LearnerTyped
  <2>8. CASE BudgetSlides
    <3>1. RowsTyped' /\ CachesTyped' /\ ParseTyped' /\ GenTyped' /\ HeldTyped' /\ CountsTyped'
      BY <2>8 DEF BudgetSlides, RowsTyped, CachesTyped, ParseTyped, GenTyped, HeldTyped,
             CountsTyped, parse, breaker, caches, bounds
    <3>2. KeysTyped'
      BY <2>8 DEF BudgetSlides, KeysTyped
    <3>. QED  BY <3>1, <3>2 DEF LearnerTyped
  <2>9. ASSUME NEW i \in Instances, Restart(i)
        PROVE  LearnerTyped'
    <3>1. RowsTyped' /\ KeysTyped'
      BY <2>9 DEF Restart, RowsTyped, KeysTyped, keys
    <3>2. CountsTyped'
      BY <2>9, FailsTyped DEF Restart, CountsTyped
    <3>3. ParseTyped'
      BY <2>9 DEF Restart, ParseTyped, ParseSteps
    <3>4. GenTyped'
      BY <2>9, GenerationTyped DEF Restart, GenTyped
    <3>5. CachesTyped'
      BY <2>9 DEF Restart, CachesTyped
    <3>6. HeldTyped'
      BY <2>9, LearnerConstants DEF Restart, HeldTyped
    <3>. QED  BY <3>1, <3>2, <3>3, <3>4, <3>5, <3>6 DEF LearnerTyped
  <2>. QED 
    BY <1>4, <2>1, <2>2, <2>3, <2>4, <2>5, <2>6, <2>7, <2>8, <2>9 DEF Environment
<1>. QED  BY <1>1, <1>2, <1>3, <1>4 DEF RulesNext

---------------------------------------------------------------------------
(* What a step does with pages, their messages and their calls             *)

(* The generation of p is the only one that changes.                       *)
OnlyIn(p) == \A q \in Pages \ {p} : gen'[q] = gen[q]

(* No page moves.                                                          *)
Still == UNCHANGED <<at, on, retries, gen, pending, calls>>
(* ParsePage goes on with a page, or ends with it.                         *)
PageMoves(p) ==
  /\ at[p] \notin {"pending", "left", "done"} /\ at'[p] \notin {"fetched", "pending"}
  /\ IF at'[p] \in Resting THEN on'[p] = Nobody ELSE on'[p] \in Instances
  /\ \A q \in Pages \ {p} : at'[q] = at[q] /\ on'[q] = on[q]
  /\ UNCHANGED <<retries, gen, pending, calls>>
(* PendingQueue.Push.                                                      *)
PageWaits(p) ==
  /\ at[p] = "push" /\ at'[p] = "pending" /\ on'[p] = Nobody
  /\ \A q \in Pages \ {p} : at'[q] = at[q] /\ on'[q] = on[q]
  /\ pending' = [pending EXCEPT ![HostOf[p]] = pending[HostOf[p]] \cup {p}]
  /\ UNCHANGED <<retries, gen, calls>>
(* TryAcquire, and go runOnce.                                             *)
Acquires(p) ==
  /\ at[p] = "enqueue" /\ at'[p] = "left" /\ on'[p] = Nobody
  /\ \A q \in Pages \ {p} : at'[q] = at[q] /\ on'[q] = on[q]
  /\ gen[p].step = "idle" /\ gen'[p].step = "check" /\ gen'[p].on = on[p]
  /\ gen'[p].batch = {} /\ OnlyIn(p)
  /\ UNCHANGED <<retries, pending, calls>>
(* A step of runOnce that calls nobody.                                    *)
GenerationGoesOn(p) ==
  /\ gen[p].step \notin {"idle", "requeue"} /\ gen'[p].step \notin {"idle", "check"}
  /\ gen'[p].step \in Asks => gen[p].step \in Asks
  /\ gen'[p].on = gen[p].on /\ gen'[p].batch = gen[p].batch /\ OnlyIn(p)
  /\ UNCHANGED <<at, on, retries, pending, calls>>
(* A call of the LLM, with the sample's retry if the answer is unfit.      *)
Calls(p) ==
  /\ gen[p].step = "call" /\ gen'[p].step \in {"release", "version", "insert"}
  /\ gen'[p].on = gen[p].on /\ gen'[p].batch = gen[p].batch /\ OnlyIn(p)
  /\ calls'[p] = calls[p] + 1 /\ \A q \in Pages \ {p} : calls'[q] = calls[q]
  /\ \A q \in Pages \ {p} : at'[q] = at[q] /\ retries'[q] = retries[q]
  /\ \/ at'[p] = at[p] /\ retries'[p] = retries[p]
     \/ at'[p] = "fetched" /\ retries'[p] = retries[p] + 1
  /\ UNCHANGED <<on, pending>>
(* PendingQueue.Flush takes the whole list.                                *)
TakesList(p) ==
  /\ gen[p].step = "flush" /\ gen'[p].step = "requeue" /\ gen'[p].on = gen[p].on
  /\ gen'[p].batch = pending[HostOf[p]] /\ OnlyIn(p)
  /\ pending' = [pending EXCEPT ![HostOf[p]] = {}]
  /\ UNCHANGED <<at, on, retries, calls>>
(* RequeueParsing, page by page.                                           *)
Requeues(p) ==
  /\ gen[p].step = "requeue" /\ gen'[p].step = "release" /\ gen'[p].on = gen[p].on
  /\ gen'[p].batch = {} /\ OnlyIn(p)
  /\ \E failed \in SUBSET gen[p].batch :
       /\ at' = [q \in Pages |-> IF q \in gen[p].batch \ failed THEN "fetched" ELSE at[q]]
       /\ pending' = [pending EXCEPT ![HostOf[p]] = pending[HostOf[p]] \cup failed]
  /\ UNCHANGED <<on, retries, calls>>
(* The end of a generation.                                                *)
Releases(p) ==
  /\ gen[p].step = "release" /\ gen'[p].step = "idle" /\ gen'[p].batch = {} /\ OnlyIn(p)
  /\ UNCHANGED <<at, on, retries, pending, calls>>
(* The end of an instance, and of its pages' parses and its generations.   *)
Restarts(i) ==
  /\ at' = [p \in Pages |-> IF on[p] = i THEN "fetched" ELSE at[p]]
  /\ on' = [p \in Pages |-> IF on[p] = i THEN Nobody ELSE on[p]]
  /\ gen' = [p \in Pages |-> IF gen[p].on = i THEN NoGen ELSE gen[p]]
  /\ UNCHANGED <<retries, pending, calls>>
Shape ==
  \/ Still
  \/ \E p \in Pages :
       \/ PageMoves(p) \/ PageWaits(p) \/ Acquires(p) \/ GenerationGoesOn(p) \/ Calls(p)
       \/ TakesList(p) \/ Requeues(p) \/ Releases(p)
  \/ \E i \in Instances : Restarts(i)

(* Every step is one of these.                                             *)
LEMMA EveryStepHasAShape ==
  ASSUME ParseTyped, GenTyped, KeysTyped, CountsTyped, PageHasWorker,
         GenerationHasInstance, SampleIsLeft, [RulesNext]_rulesVars
  PROVE  Shape
<1>1. CASE UNCHANGED rulesVars
  BY <1>1 DEF rulesVars, parse, keys, Shape, Still
<1>2. ASSUME NEW p \in Pages, Parse(p)
      PROVE  Shape
  <2>1. ASSUME NEW i \in Instances, Lookup(p, i)
        PROVE  Shape
    <3>1. PageMoves(p)
      BY <2>1, <1>2 DEF Lookup, PageMoves, ParseTyped, Resting, keys
    <3>. QED  BY <3>1 DEF Shape
  <2>2. CASE StoreCache(p)
    <3>1. PageMoves(p)
      BY <2>2, <1>2 DEF StoreCache, Goes, PageMoves, PageHasWorker, Resting, keys
    <3>. QED  BY <3>1 DEF Shape
  <2>3. CASE Parsed(p)
    <3>1. PageMoves(p)
      BY <2>3, <1>2 DEF Parsed, Ends, PageMoves, ParseTyped, Resting, keys
    <3>. QED  BY <3>1 DEF Shape
  <2>4. CASE NoRule(p)
    <3>1. PageMoves(p)
      BY <2>4, <1>2 DEF NoRule, Goes, PageMoves, PageHasWorker, Resting, keys
    <3>. QED  BY <3>1 DEF Shape
  <2>5. CASE RuleFails(p)
    <3>1. PageMoves(p)
      BY <2>5, <1>2 DEF RuleFails, Goes, PageMoves, PageHasWorker, Resting
    <3>. QED  BY <3>1 DEF Shape
  <2>6. CASE CountStale(p)
    <3>1. PageMoves(p)
      BY <2>6, <1>2 DEF CountStale, Goes, Ends, PageMoves, ParseTyped, PageHasWorker,
             Resting, keys
    <3>. QED  BY <3>1 DEF Shape
  <2>7. CASE HasAnyRule(p)
    <3>1. PageMoves(p)
      BY <2>7, <1>2 DEF HasAnyRule, Goes, Ends, PageMoves, ParseTyped, PageHasWorker,
             Resting, keys
    <3>. QED  BY <3>1 DEF Shape
  <2>8. CASE Refused(p)
    <3>1. PageMoves(p)
      BY <2>8, <1>2 DEF Refused, Ends, PageMoves, ParseTyped, Resting, keys
    <3>. QED  BY <3>1 DEF Shape
  <2>9. CASE TryAcquire(p)
    <3>1. Acquires(p)
      <4>1. /\ gen[p].step = "idle" /\ gen'[p].step = "check" /\ gen'[p].on = on[p]
            /\ gen'[p].batch = {} /\ OnlyIn(p)
        BY <2>9, GenerationMoves DEF OnlyIn
      <4>2. /\ at[p] = "enqueue" /\ at'[p] = "left" /\ on'[p] = Nobody
            /\ \A q \in Pages \ {p} : at'[q] = at[q] /\ on'[q] = on[q]
            /\ UNCHANGED <<retries, pending, calls>>
        BY <2>9 DEF TryAcquire, Ends, ParseTyped
      <4>. QED  BY <4>1, <4>2 DEF Acquires
    <3>. QED  BY <3>1 DEF Shape
  <2>10. CASE Defer(p)
    <3>1. PageMoves(p)
      BY <2>10, <1>2 DEF Defer, Goes, PageMoves, PageHasWorker, Resting, keys
    <3>. QED  BY <3>1 DEF Shape
  <2>11. CASE Push(p)
    <3>1. PageMoves(p) \/ PageWaits(p)
      BY <2>11, <1>2 DEF Push, Ends, PageMoves, PageWaits, ParseTyped, Resting
    <3>. QED  BY <3>1 DEF Shape
  <2>. QED  BY <1>2, <2>1, <2>2, <2>3, <2>4, <2>5, <2>6, <2>7, <2>8, <2>9, <2>10, <2>11
               DEF Parse
<1>3. ASSUME NEW p \in Pages, Generate(p)
      PROVE  Shape
  <2>1. CASE PreCheck(p)
    <3>1. GenerationGoesOn(p)
      <4>1. Moved(p, "check", {"flush", "budget"})
        BY <2>1, GenerationMoves
      <4>2. UNCHANGED <<at, on, retries, pending, calls>>
        BY <2>1 DEF PreCheck, keys, parse
      <4>. QED  BY <4>1, <4>2 DEF Moved, OnlyIn, GenerationGoesOn, Asks
    <3>. QED  BY <3>1 DEF Shape
  <2>2. CASE Allow(p)
    <3>1. GenerationGoesOn(p)
      <4>1. Moved(p, "budget", {"record", "release"})
        BY <2>2, GenerationMoves
      <4>2. UNCHANGED <<at, on, retries, pending, calls>>
        BY <2>2 DEF Allow, keys, parse
      <4>. QED  BY <4>1, <4>2 DEF Moved, OnlyIn, GenerationGoesOn, Asks
    <3>. QED  BY <3>1 DEF Shape
  <2>3. CASE RecordCall(p)
    <3>1. GenerationGoesOn(p)
      <4>1. Moved(p, "record", {"call"})
        BY <2>3, GenerationMoves
      <4>2. UNCHANGED <<at, on, retries, pending, calls>>
        BY <2>3 DEF RecordCall, parse
      <4>. QED  BY <4>1, <4>2 DEF Moved, OnlyIn, GenerationGoesOn, Asks
    <3>. QED  BY <3>1 DEF Shape
  <2>4. CASE CallLLM(p)
    <3>1. Calls(p)
      <4>1. Moved(p, "call", {"release", "version", "insert"})
        BY <2>4, GenerationMoves
      <4>2. \/ UNCHANGED <<at, on, retries>>
            \/ /\ retries' = [retries EXCEPT ![p] = retries[p] + 1]
               /\ at' = [at EXCEPT ![p] = "fetched"] /\ UNCHANGED on
        BY <2>4 DEF CallLLM, RequeueForLLMRetry, NextRetry, Goes
      <4>3. calls'[p] = calls[p] + 1 /\ \A q \in Pages \ {p} : calls'[q] = calls[q]
        BY <2>4 DEF CallLLM, CountsTyped
      <4>4. UNCHANGED pending
        BY <2>4 DEF CallLLM, keys
      <4>. QED  BY <4>1, <4>2, <4>3, <4>4 DEF Calls, Moved, OnlyIn, ParseTyped
    <3>. QED  BY <3>1 DEF Shape
  <2>5. CASE ReadVersion(p)
    <3>1. GenerationGoesOn(p)
      <4>1. /\ gen[p].step = "version" /\ gen'[p].step = "insert"
            /\ gen'[p].on = gen[p].on /\ gen'[p].batch = gen[p].batch
            /\ \A q \in Pages \ {p} : gen'[q] = gen[q]
        BY <2>5, GenerationMoves
      <4>2. UNCHANGED <<at, on, retries, pending, calls>>
        BY <2>5 DEF ReadVersion, keys, parse
      <4>. QED  BY <4>1, <4>2 DEF OnlyIn, GenerationGoesOn, Asks
    <3>. QED  BY <3>1 DEF Shape
  <2>6. CASE Insert(p)
    <3>1. GenerationGoesOn(p)
      <4>1. Moved(p, "insert", {"invalidate", "release"})
        BY <2>6, GenerationMoves
      <4>2. UNCHANGED <<at, on, retries, pending, calls>>
        BY <2>6 DEF Insert, keys, parse
      <4>. QED  BY <4>1, <4>2 DEF Moved, OnlyIn, GenerationGoesOn, Asks
    <3>. QED  BY <3>1 DEF Shape
  <2>7. CASE Invalidate(p)
    <3>1. GenerationGoesOn(p)
      <4>1. Moved(p, "invalidate", {"flush"})
        BY <2>7, GenerationMoves
      <4>2. UNCHANGED <<at, on, retries, pending, calls>>
        BY <2>7 DEF Invalidate, keys, parse
      <4>. QED  BY <4>1, <4>2 DEF Moved, OnlyIn, GenerationGoesOn, Asks
    <3>. QED  BY <3>1 DEF Shape
  <2>8. CASE Flush(p)
    <3>1. GenerationGoesOn(p) \/ TakesList(p)
      <4>1. \/ Moved(p, "flush", {"release"}) /\ pending' = pending
            \/ /\ gen[p].step = "flush" /\ gen'[p].step = "requeue" /\ gen'[p].on = gen[p].on
               /\ gen'[p].batch = pending[HostOf[p]] /\ gen'[p].version = gen[p].version
               /\ pending' = [pending EXCEPT ![HostOf[p]] = {}]
               /\ \A q \in Pages \ {p} : gen'[q] = gen[q]
        BY <2>8, GenerationMoves
      <4>2. UNCHANGED <<at, on, retries, calls>>
        BY <2>8 DEF Flush, parse
      <4>. QED  BY <4>1, <4>2 DEF Moved, OnlyIn, GenerationGoesOn, TakesList, Asks
    <3>. QED  BY <3>1 DEF Shape
  <2>9. CASE RequeueParsing(p)
    <3>1. Requeues(p)
      BY <2>9, GenerationMoves DEF RequeueParsing, OnlyIn, Requeues, keys
    <3>. QED  BY <3>1 DEF Shape
  <2>10. CASE Release(p)
    <3>1. Releases(p)
      BY <2>10, GenerationMoves, GenerationTyped DEF Release, OnlyIn, Releases, keys,
         parse
    <3>. QED  BY <3>1 DEF Shape
  <2>. QED  BY <1>3, <2>1, <2>2, <2>3, <2>4, <2>5, <2>6, <2>7, <2>8, <2>9, <2>10
               DEF Generate
<1>4. CASE Environment
  <2>1. ASSUME NEW i \in Instances, NEW h \in Hosts, Expire(i, h)
        PROVE  Shape
    <3>1. Still
      BY <2>1 DEF Expire, Still, keys, parse
    <3>. QED  BY <3>1 DEF Shape
  <2>2. ASSUME NEW i \in Instances, NEW h \in Hosts, CooldownPasses(i, h)
        PROVE  Shape
    <3>1. Still
      BY <2>2 DEF CooldownPasses, Still, keys, parse
    <3>. QED  BY <3>1 DEF Shape
  <2>3. ASSUME NEW i \in Instances, NEW h \in Hosts, Refine(h, i)
        PROVE  Shape
    <3>1. Still
      BY <2>3 DEF Refine, Still, keys, parse
    <3>. QED  BY <3>1 DEF Shape
  <2>4. ASSUME NEW h \in Hosts, WindowSlides(h)
        PROVE  Shape
    <3>1. Still
      BY <2>4 DEF WindowSlides, Still, parse
    <3>. QED  BY <3>1 DEF Shape
  <2>5. ASSUME NEW h \in Hosts, LockExpires(h)
        PROVE  Shape
    <3>1. Still
      BY <2>5 DEF LockExpires, Still, parse
    <3>. QED  BY <3>1 DEF Shape
  <2>6. ASSUME NEW h \in Hosts, RefineRead(h)
        PROVE  Shape
    <3>1. Still
      BY <2>6 DEF RefineRead, Still, keys, parse
    <3>. QED  BY <3>1 DEF Shape
  <2>7. ASSUME NEW h \in Hosts, Disable(h)
        PROVE  Shape
    <3>1. Still
      BY <2>7 DEF Disable, Still, keys, parse
    <3>. QED  BY <3>1 DEF Shape
  <2>8. CASE BudgetSlides
    <3>1. Still
      BY <2>8 DEF BudgetSlides, Still, parse
    <3>. QED  BY <3>1 DEF Shape
  <2>9. ASSUME NEW i \in Instances, Restart(i)
        PROVE  Shape
    <3>1. Restarts(i)
      BY <2>9 DEF Restart, Restarts, keys
    <3>. QED  BY <3>1 DEF Shape
  <2>. QED 
    BY <1>4, <2>1, <2>2, <2>3, <2>4, <2>5, <2>6, <2>7, <2>8, <2>9 DEF Environment
<1>. QED  BY <1>1, <1>2, <1>3, <1>4 DEF RulesNext

(* They keep pages and generations on their instances.                     *)
LEMMA OwnersStay ==
  ASSUME ParseTyped, GenTyped, PageHasWorker, GenerationHasInstance, WaitsOnce,
         SampleIsLeft, Shape
  PROVE  PageHasWorker' /\ GenerationHasInstance'
<1>1. CASE Still
  BY <1>1 DEF Still, PageHasWorker, GenerationHasInstance
<1>2. ASSUME NEW p \in Pages, PageMoves(p)
      PROVE  PageHasWorker' /\ GenerationHasInstance'
  BY <1>2 DEF PageMoves, PageHasWorker, GenerationHasInstance
<1>3. ASSUME NEW p \in Pages, PageWaits(p)
      PROVE  PageHasWorker' /\ GenerationHasInstance'
  BY <1>3 DEF PageWaits, PageHasWorker, GenerationHasInstance, Resting
<1>4. ASSUME NEW p \in Pages, Acquires(p)
      PROVE  PageHasWorker' /\ GenerationHasInstance'
  BY <1>4 DEF Acquires, OnlyIn, PageHasWorker, GenerationHasInstance, Resting
<1>5. ASSUME NEW p \in Pages, GenerationGoesOn(p) \/ Releases(p)
      PROVE  PageHasWorker' /\ GenerationHasInstance'
  BY <1>5 DEF GenerationGoesOn, Releases, OnlyIn, PageHasWorker, GenerationHasInstance
<1>6. ASSUME NEW p \in Pages, Calls(p), at[p] = "left"
      PROVE  PageHasWorker' /\ GenerationHasInstance'
  BY <1>6 DEF Calls, OnlyIn, PageHasWorker, GenerationHasInstance, Resting
<1>7. ASSUME NEW p \in Pages, TakesList(p)
      PROVE  PageHasWorker' /\ GenerationHasInstance'
  BY <1>7 DEF TakesList, OnlyIn, PageHasWorker, GenerationHasInstance
<1>8. ASSUME NEW p \in Pages, Requeues(p)
      PROVE  PageHasWorker' /\ GenerationHasInstance'
  BY <1>8 DEF Requeues, OnlyIn, PageHasWorker, GenerationHasInstance, WaitsOnce, Resting
<1>9. ASSUME NEW i \in Instances, Restarts(i)
      PROVE  PageHasWorker' /\ GenerationHasInstance'
  BY <1>9, GenerationTyped DEF Restarts, PageHasWorker, GenerationHasInstance, Resting
<1>. QED  BY <1>1, <1>2, <1>3, <1>4, <1>5, <1>6, <1>7, <1>8, <1>9
             DEF Shape, SampleIsLeft, Asks, Calls

(* They leave a waiting page in one place: Flush takes it from the list into*)
(* a batch, RequeueParsing from the batch into the topic, or back.         *)
LEMMA WaitersStay ==
  ASSUME ParseTyped, GenTyped, KeysTyped, PageHasWorker, GenerationHasInstance,
         WaitsOnce, SampleIsLeft, Shape
  PROVE  WaitsOnce'
<1>1. CASE Still
  BY <1>1 DEF Still, WaitsOnce
<1>2. ASSUME NEW p \in Pages, PageMoves(p)
      PROVE  WaitsOnce'
  BY <1>2, GenerationTyped DEF PageMoves, WaitsOnce, KeysTyped
<1>3. ASSUME NEW p \in Pages, PageWaits(p)
      PROVE  WaitsOnce'
  BY <1>3, GenerationTyped DEF PageWaits, WaitsOnce, KeysTyped
<1>4. ASSUME NEW p \in Pages, Acquires(p)
      PROVE  WaitsOnce'
  BY <1>4, GenerationTyped DEF Acquires, OnlyIn, WaitsOnce, KeysTyped
<1>5. ASSUME NEW p \in Pages, GenerationGoesOn(p) \/ Releases(p)
      PROVE  WaitsOnce'
  BY <1>5 DEF GenerationGoesOn, Releases, OnlyIn, WaitsOnce
<1>6. ASSUME NEW p \in Pages, Calls(p), at[p] = "left"
      PROVE  WaitsOnce'
  BY <1>6, GenerationTyped DEF Calls, OnlyIn, WaitsOnce, KeysTyped
<1>7. ASSUME NEW p \in Pages, TakesList(p)
      PROVE  WaitsOnce'
  BY <1>7, LearnerConstants DEF TakesList, OnlyIn, WaitsOnce, KeysTyped
<1>8. ASSUME NEW p \in Pages, Requeues(p)
      PROVE  WaitsOnce'
  BY <1>8, GenerationTyped DEF Requeues, OnlyIn, WaitsOnce, KeysTyped
<1>9. ASSUME NEW i \in Instances, Restarts(i)
      PROVE  WaitsOnce'
  <2>1. \A q \in Pages : at[q] = "pending" => at'[q] = "pending"
    BY <1>9, LearnerConstants DEF Restarts, PageHasWorker, Resting
  <2>2. \A q \in Pages : gen'[q].batch \subseteq gen[q].batch
    BY <1>9, GenerationTyped DEF Restarts
  <2>. QED  BY <1>9, <2>1, <2>2, GenerationTyped DEF Restarts, WaitsOnce, KeysTyped
<1>. QED  BY <1>1, <1>2, <1>3, <1>4, <1>5, <1>6, <1>7, <1>8, <1>9
             DEF Shape, SampleIsLeft, Asks, Calls

(* A page is called again only by RequeueForLLMRetry, which counts, or after*)
(* a parse that ended, as the page of a list, without a call of its own.   *)
LEMMA CallsStayPaid ==
  ASSUME ParseTyped, GenTyped, KeysTyped, CountsTyped, PageHasWorker, WaitsOnce,
         SampleIsLeft, CallsPaid, Shape
  PROVE  SampleIsLeft' /\ CallsPaid'
<1>0. \A p \in Pages : calls[p] \in Nat /\ retries[p] \in Nat
  BY DEF CountsTyped, ParseTyped
<1>1. CASE Still
  BY <1>1 DEF Still, SampleIsLeft, CallsPaid
<1>2. ASSUME NEW p \in Pages, PageMoves(p)
      PROVE  SampleIsLeft' /\ CallsPaid'
  BY <1>2 DEF PageMoves, SampleIsLeft, CallsPaid
<1>3. ASSUME NEW p \in Pages, PageWaits(p)
      PROVE  SampleIsLeft' /\ CallsPaid'
  BY <1>3 DEF PageWaits, SampleIsLeft, CallsPaid
<1>4. ASSUME NEW p \in Pages, Acquires(p)
      PROVE  SampleIsLeft' /\ CallsPaid'
  BY <1>4 DEF Acquires, OnlyIn, SampleIsLeft, CallsPaid
<1>5. ASSUME NEW p \in Pages, GenerationGoesOn(p) \/ Releases(p)
      PROVE  SampleIsLeft' /\ CallsPaid'
  BY <1>5 DEF GenerationGoesOn, Releases, OnlyIn, SampleIsLeft, CallsPaid, Asks
<1>6. ASSUME NEW p \in Pages, Calls(p), at[p] = "left"
      PROVE  SampleIsLeft' /\ CallsPaid'
  BY <1>0, <1>6 DEF Calls, OnlyIn, SampleIsLeft, CallsPaid, Asks
<1>7. ASSUME NEW p \in Pages, TakesList(p)
      PROVE  SampleIsLeft' /\ CallsPaid'
  BY <1>7 DEF TakesList, OnlyIn, SampleIsLeft, CallsPaid, Asks
<1>8. ASSUME NEW p \in Pages, Requeues(p)
      PROVE  SampleIsLeft' /\ CallsPaid'
  BY <1>8 DEF Requeues, OnlyIn, SampleIsLeft, CallsPaid, WaitsOnce, Asks
<1>9. ASSUME NEW i \in Instances, Restarts(i)
      PROVE  SampleIsLeft' /\ CallsPaid'
  <2>1. \A q \in Pages : \/ at'[q] = at[q]
                         \/ at[q] \notin Resting /\ at'[q] = "fetched"
    BY <1>9, LearnerConstants DEF Restarts, PageHasWorker
  <2>2. \A q \in Pages : gen'[q].step \in Asks => gen[q].step \in Asks
    BY <1>9, GenerationTyped DEF Restarts, Asks
  <2>. QED  BY <1>9, <2>1, <2>2 DEF Restarts, Resting, SampleIsLeft, CallsPaid
<1>. QED  BY <1>1, <1>2, <1>3, <1>4, <1>5, <1>6, <1>7, <1>8, <1>9
             DEF Shape, SampleIsLeft, Asks, Calls

---------------------------------------------------------------------------
(* What a step does with locks and generations                             *)

(* A lock is taken with a generation, given back with its end, or expires. *)
Locks ==
  \/ /\ UNCHANGED <<lock, expiries>>
     /\ \A p \in Pages : gen'[p].step # "idle" => gen[p].step # "idle"
  \/ \E p \in Pages :
       /\ TryAcquire(p) /\ UNCHANGED expiries /\ OnlyIn(p) /\ gen[p].step = "idle"
       /\ lock[HostOf[p]] = Nobody /\ lock' = [lock EXCEPT ![HostOf[p]] = p]
  \/ \E p \in Pages :
       /\ Release(p) /\ UNCHANGED expiries /\ OnlyIn(p)
       /\ gen[p].step # "idle" /\ gen'[p].step = "idle"
       /\ lock' = lock \/ lock' = [lock EXCEPT ![HostOf[p]] = Nobody]
  \/ \E h \in Hosts :
       /\ LockExpires(h) /\ UNCHANGED gen /\ lock' = [lock EXCEPT ![h] = Nobody]
       /\ \/ Running(h) = {} /\ expiries' = expiries
          \/ expiries' = expiries + 1

(* Every step is one of these.                                             *)
LEMMA LocksMove ==
  ASSUME GenTyped, KeysTyped, CountsTyped, GenerationHasInstance, [RulesNext]_rulesVars
  PROVE  Locks
<1>1. CASE UNCHANGED rulesVars
  BY <1>1 DEF rulesVars, bounds, keys, Locks
<1>2. ASSUME NEW p \in Pages, Parse(p)
      PROVE  Locks
  <2>1. ASSUME NEW i \in Instances, Lookup(p, i)
        PROVE  Locks
    BY <2>1 DEF Lookup, keys, bounds, Locks
  <2>2. CASE StoreCache(p)
    BY <2>2 DEF StoreCache, keys, bounds, Locks
  <2>3. CASE Parsed(p)
    BY <2>3 DEF Parsed, keys, bounds, Locks
  <2>4. CASE NoRule(p)
    BY <2>4 DEF NoRule, keys, bounds, Locks
  <2>5. CASE RuleFails(p)
    BY <2>5 DEF RuleFails, bounds, Locks
  <2>6. CASE CountStale(p)
    BY <2>6 DEF CountStale, keys, bounds, Locks
  <2>7. CASE HasAnyRule(p)
    BY <2>7 DEF HasAnyRule, keys, Locks
  <2>8. CASE Refused(p)
    BY <2>8 DEF Refused, keys, Locks
  <2>9. CASE TryAcquire(p)
    <3>1. gen[p].step = "idle" /\ OnlyIn(p)
      BY <2>9, GenerationMoves DEF OnlyIn
    <3>2. /\ lock[HostOf[p]] = Nobody /\ lock' = [lock EXCEPT ![HostOf[p]] = p]
          /\ UNCHANGED expiries
      BY <2>9 DEF TryAcquire, NotHeld, bounds
    <3>. QED  BY <2>9, <3>1, <3>2 DEF Locks
  <2>10. CASE Defer(p)
    BY <2>10 DEF Defer, keys, bounds, Locks
  <2>11. CASE Push(p)
    BY <2>11 DEF Push, Locks
  <2>. QED  BY <1>2, <2>1, <2>2, <2>3, <2>4, <2>5, <2>6, <2>7, <2>8, <2>9, <2>10, <2>11
               DEF Parse
<1>3. ASSUME NEW p \in Pages, Generate(p)
      PROVE  Locks
  <2>1. CASE PreCheck(p)
    <3>1. UNCHANGED lock /\ UNCHANGED expiries
      BY <2>1 DEF PreCheck, keys
    <3>2. \A q \in Pages : gen'[q].step # "idle" => gen[q].step # "idle"
      <4>1. Moved(p, "check", {"flush", "budget"})
        BY <2>1, GenerationMoves
      <4>. QED  BY <4>1 DEF Moved
    <3>. QED  BY <3>1, <3>2 DEF Locks
  <2>2. CASE Allow(p)
    <3>1. UNCHANGED lock /\ UNCHANGED expiries
      BY <2>2 DEF Allow, keys
    <3>2. \A q \in Pages : gen'[q].step # "idle" => gen[q].step # "idle"
      <4>1. Moved(p, "budget", {"record", "release"})
        BY <2>2, GenerationMoves
      <4>. QED  BY <4>1 DEF Moved
    <3>. QED  BY <3>1, <3>2 DEF Locks
  <2>3. CASE RecordCall(p)
    <3>1. UNCHANGED lock /\ UNCHANGED expiries
      BY <2>3 DEF RecordCall, bounds
    <3>2. \A q \in Pages : gen'[q].step # "idle" => gen[q].step # "idle"
      <4>1. Moved(p, "record", {"call"})
        BY <2>3, GenerationMoves
      <4>. QED  BY <4>1 DEF Moved
    <3>. QED  BY <3>1, <3>2 DEF Locks
  <2>4. CASE CallLLM(p)
    <3>1. UNCHANGED lock /\ UNCHANGED expiries
      BY <2>4 DEF CallLLM, keys, bounds
    <3>2. \A q \in Pages : gen'[q].step # "idle" => gen[q].step # "idle"
      <4>1. Moved(p, "call", {"release", "version", "insert"})
        BY <2>4, GenerationMoves
      <4>. QED  BY <4>1 DEF Moved
    <3>. QED  BY <3>1, <3>2 DEF Locks
  <2>5. CASE ReadVersion(p)
    <3>1. UNCHANGED lock /\ UNCHANGED expiries
      BY <2>5 DEF ReadVersion, keys, bounds
    <3>2. \A q \in Pages : gen'[q].step # "idle" => gen[q].step # "idle"
      <4>1. /\ gen[p].step = "version" /\ gen'[p].step = "insert"
            /\ gen'[p].on = gen[p].on /\ gen'[p].batch = gen[p].batch
            /\ \A q \in Pages \ {p} : gen'[q] = gen[q]
        BY <2>5, GenerationMoves
      <4>. QED  BY <4>1
    <3>. QED  BY <3>1, <3>2 DEF Locks
  <2>6. CASE Insert(p)
    <3>1. UNCHANGED lock /\ UNCHANGED expiries
      BY <2>6 DEF Insert, keys
    <3>2. \A q \in Pages : gen'[q].step # "idle" => gen[q].step # "idle"
      <4>1. Moved(p, "insert", {"invalidate", "release"})
        BY <2>6, GenerationMoves
      <4>. QED  BY <4>1 DEF Moved
    <3>. QED  BY <3>1, <3>2 DEF Locks
  <2>7. CASE Invalidate(p)
    <3>1. UNCHANGED lock /\ UNCHANGED expiries
      BY <2>7 DEF Invalidate, keys, bounds
    <3>2. \A q \in Pages : gen'[q].step # "idle" => gen[q].step # "idle"
      <4>1. Moved(p, "invalidate", {"flush"})
        BY <2>7, GenerationMoves
      <4>. QED  BY <4>1 DEF Moved
    <3>. QED  BY <3>1, <3>2 DEF Locks
  <2>8. CASE Flush(p)
    <3>1. UNCHANGED lock /\ UNCHANGED expiries
      BY <2>8 DEF Flush
    <3>2. \A q \in Pages : gen'[q].step # "idle" => gen[q].step # "idle"
      <4>1. /\ gen[p].step = "flush"
            /\ \A q \in Pages \ {p} : gen'[q] = gen[q]
        BY <2>8, GenerationMoves DEF Moved
      <4>. QED  BY <4>1
    <3>. QED  BY <3>1, <3>2 DEF Locks
  <2>9. CASE RequeueParsing(p)
    <3>1. UNCHANGED lock /\ UNCHANGED expiries
      BY <2>9 DEF RequeueParsing
    <3>2. \A q \in Pages : gen'[q].step # "idle" => gen[q].step # "idle"
      <4>1. /\ gen[p].step = "requeue"
            /\ \A q \in Pages \ {p} : gen'[q] = gen[q]
        BY <2>9, GenerationMoves
      <4>. QED  BY <4>1
    <3>. QED  BY <3>1, <3>2 DEF Locks
  <2>10. CASE Release(p)
    <3>1. gen[p].step # "idle" /\ gen'[p].step = "idle" /\ OnlyIn(p)
      BY <2>10, GenerationMoves, GenerationTyped DEF OnlyIn
    <3>2. /\ UNCHANGED expiries
          /\ lock' = lock \/ lock' = [lock EXCEPT ![HostOf[p]] = Nobody]
      BY <2>10 DEF Release, KeysTyped, bounds
    <3>. QED  BY <2>10, <3>1, <3>2 DEF Locks
  <2>. QED  BY <1>3, <2>1, <2>2, <2>3, <2>4, <2>5, <2>6, <2>7, <2>8, <2>9, <2>10
               DEF Generate
<1>4. CASE Environment
  <2>1. ASSUME NEW i \in Instances, NEW h \in Hosts, Expire(i, h)
        PROVE  Locks
    BY <2>1 DEF Expire, keys, bounds, Locks
  <2>2. ASSUME NEW i \in Instances, NEW h \in Hosts, CooldownPasses(i, h)
        PROVE  Locks
    BY <2>2 DEF CooldownPasses, keys, bounds, Locks
  <2>3. ASSUME NEW i \in Instances, NEW h \in Hosts, Refine(h, i)
        PROVE  Locks
    BY <2>3 DEF Refine, keys, bounds, Locks
  <2>4. ASSUME NEW h \in Hosts, WindowSlides(h)
        PROVE  Locks
    BY <2>4 DEF WindowSlides, bounds, Locks
  <2>5. ASSUME NEW h \in Hosts, LockExpires(h)
        PROVE  Locks
    BY <2>5 DEF LockExpires, Locks
  <2>6. ASSUME NEW h \in Hosts, RefineRead(h)
        PROVE  Locks
    BY <2>6 DEF RefineRead, keys, bounds, Locks
  <2>7. ASSUME NEW h \in Hosts, Disable(h)
        PROVE  Locks
    BY <2>7 DEF Disable, keys, Locks
  <2>8. CASE BudgetSlides
    BY <2>8 DEF BudgetSlides, bounds, Locks
  <2>9. ASSUME NEW i \in Instances, Restart(i)
        PROVE  Locks
    <3>1. UNCHANGED lock /\ UNCHANGED expiries
      BY <2>9 DEF Restart, keys
    <3>2. \A q \in Pages : gen'[q].step # "idle" => gen[q].step # "idle"
      BY <2>9, GenerationTyped DEF Restart
    <3>. QED  BY <3>1, <3>2 DEF Locks
  <2>. QED 
    BY <1>4, <2>1, <2>2, <2>3, <2>4, <2>5, <2>6, <2>7, <2>8, <2>9 DEF Environment
<1>. QED  BY <1>1, <1>2, <1>3, <1>4 DEF RulesNext

(* One element adds at most one.                                           *)
LEMMA OneMore ==
  ASSUME NEW S, NEW T, NEW x, IsFiniteSet(S), S \subseteq T \cup {x}, T \subseteq S
  PROVE  Cardinality(S) <= Cardinality(T) + 1 /\ Cardinality(T) \in Nat
<1>1. IsFiniteSet(T)
  BY FS_Subset
<1>2. S = T \/ S = T \cup {x}
  OBVIOUS
<1>3. Cardinality(T) \in Nat
  BY <1>1, FS_CardinalityType
<1>4. CASE S = T
  BY <1>3, <1>4
<1>5. CASE S = T \cup {x} /\ x \notin T
  <2>1. Cardinality(T \cup {x}) = Cardinality(T) + 1
    BY <1>1, <1>5, FS_AddElement
  <2>2. Cardinality(S) = Cardinality(T) + 1
    BY <1>5, <2>1
  <2>. QED  BY <1>3, <2>2
<1>. QED  BY <1>2, <1>4, <1>5

(* They keep the generations covered: TryAcquire adds a lock with the      *)
(* generation, Release takes at most its own host's with it, and an expiry *)
(* counts if a generation was running.                                     *)
LEMMA LocksStayCovering ==
  ASSUME GenTyped, KeysTyped, CountsTyped, LocksCover, Locks
  PROVE  LocksCover'
<1>0. /\ expiries \in Nat /\ IsFiniteSet(Hosts) /\ IsFiniteSet(Pages)
      /\ HostOf \in [Pages -> Hosts]
      /\ Nobody \notin Pages
  BY FailsTyped, LearnerConstants
<1>1. \A S \in SUBSET Hosts :
        /\ IsFiniteSet(GenerationsOf(S)) /\ IsFiniteSet(LockedOf(S))
        /\ Cardinality(GenerationsOf(S)) \in Nat /\ Cardinality(LockedOf(S)) \in Nat
        /\ Cardinality(GenerationsOf(S)) <= Cardinality(LockedOf(S)) + expiries
  <2>. SUFFICES ASSUME NEW S \in SUBSET Hosts
                PROVE  IsFiniteSet(GenerationsOf(S)) /\ IsFiniteSet(LockedOf(S))
    BY FS_CardinalityType DEF LocksCover
  <2>1. GenerationsOf(S) \subseteq Pages /\ LockedOf(S) \subseteq Hosts
    BY DEF GenerationsOf, LockedOf
  <2>. QED  BY <1>0, <2>1, FS_Subset
<1>. SUFFICES ASSUME NEW S \in SUBSET Hosts
              PROVE  Cardinality(GenerationsOf(S)') <= Cardinality(LockedOf(S)') + expiries'
  BY DEF LocksCover
<1>2. CASE /\ UNCHANGED <<lock, expiries>>
           /\ \A p \in Pages : gen'[p].step # "idle" => gen[p].step # "idle"
  <2>1. GenerationsOf(S)' \subseteq GenerationsOf(S) /\ LockedOf(S)' = LockedOf(S)
    BY <1>2 DEF GenerationsOf, LockedOf
  <2>2. /\ Cardinality(GenerationsOf(S)') \in Nat
        /\ Cardinality(GenerationsOf(S)') <= Cardinality(GenerationsOf(S))
    BY <1>1, <2>1, FS_Subset, FS_CardinalityType
  <2>. QED  BY <1>0, <1>1, <1>2, <2>1, <2>2
<1>3. ASSUME NEW p \in Pages, UNCHANGED expiries, OnlyIn(p), gen[p].step = "idle",
             lock[HostOf[p]] = Nobody, lock' = [lock EXCEPT ![HostOf[p]] = p]
      PROVE  Cardinality(GenerationsOf(S)') <= Cardinality(LockedOf(S)') + expiries'
  <2>1. CASE HostOf[p] \in S
    <3>1. LockedOf(S)' = LockedOf(S) \cup {HostOf[p]} /\ HostOf[p] \notin LockedOf(S)
      BY <1>0, <1>3, <2>1 DEF LockedOf, KeysTyped
    <3>2. GenerationsOf(S)' \subseteq GenerationsOf(S) \cup {p} /\ p \notin GenerationsOf(S)
      BY <1>3 DEF GenerationsOf, OnlyIn
    <3>3. Cardinality(LockedOf(S)') = Cardinality(LockedOf(S)) + 1
      BY <1>1, <3>1, FS_AddElement
    <3>4. /\ IsFiniteSet(GenerationsOf(S) \cup {p})
          /\ Cardinality(GenerationsOf(S) \cup {p}) = Cardinality(GenerationsOf(S)) + 1
      BY <1>1, <3>2, FS_AddElement
    <3>5. /\ Cardinality(GenerationsOf(S)') \in Nat
          /\ Cardinality(GenerationsOf(S)') <= Cardinality(GenerationsOf(S)) + 1
      BY <3>2, <3>4, FS_Subset, FS_CardinalityType
    <3>. QED  BY <1>0, <1>1, <1>3, <3>3, <3>5
  <2>2. CASE HostOf[p] \notin S
    <3>1. LockedOf(S)' = LockedOf(S) /\ GenerationsOf(S)' = GenerationsOf(S)
      BY <1>3, <2>2 DEF LockedOf, GenerationsOf, OnlyIn
    <3>. QED  BY <1>1, <1>3, <3>1
  <2>. QED  BY <2>1, <2>2
<1>4. ASSUME NEW p \in Pages, UNCHANGED expiries, OnlyIn(p), gen[p].step # "idle",
             gen'[p].step = "idle",
             lock' = lock \/ lock' = [lock EXCEPT ![HostOf[p]] = Nobody]
      PROVE  Cardinality(GenerationsOf(S)') <= Cardinality(LockedOf(S)') + expiries'
  <2>1. CASE HostOf[p] \in S
    <3>1. GenerationsOf(S)' = GenerationsOf(S) \ {p} /\ p \in GenerationsOf(S)
      BY <1>4, <2>1 DEF GenerationsOf, OnlyIn
    <3>2. Cardinality(GenerationsOf(S)') = Cardinality(GenerationsOf(S)) - 1
      BY <1>1, <3>1, FS_RemoveElement
    <3>3. /\ LockedOf(S) \subseteq LockedOf(S)' \cup {HostOf[p]}
          /\ LockedOf(S)' \subseteq LockedOf(S)
      BY <1>4 DEF LockedOf, KeysTyped
    <3>4. /\ Cardinality(LockedOf(S)) <= Cardinality(LockedOf(S)') + 1
          /\ Cardinality(LockedOf(S)') \in Nat
      BY <1>1, <3>3, OneMore
    <3>. QED  BY <1>0, <1>1, <1>4, <3>2, <3>4
  <2>2. CASE HostOf[p] \notin S
    <3>1. LockedOf(S)' = LockedOf(S) /\ GenerationsOf(S)' = GenerationsOf(S)
      BY <1>4, <2>2 DEF LockedOf, GenerationsOf, OnlyIn, KeysTyped
    <3>. QED  BY <1>1, <1>4, <3>1
  <2>. QED  BY <2>1, <2>2
<1>5. ASSUME NEW h \in Hosts, UNCHANGED gen, lock' = [lock EXCEPT ![h] = Nobody],
             (Running(h) = {} /\ expiries' = expiries) \/ expiries' = expiries + 1
      PROVE  Cardinality(GenerationsOf(S)') <= Cardinality(LockedOf(S)') + expiries'
  <2>1. GenerationsOf(S)' = GenerationsOf(S)
    BY <1>5 DEF GenerationsOf
  <2>2. CASE expiries' = expiries + 1
    <3>1. LockedOf(S) \subseteq LockedOf(S)' \cup {h} /\ LockedOf(S)' \subseteq LockedOf(S)
      BY <1>5 DEF LockedOf
    <3>2. /\ Cardinality(LockedOf(S)) <= Cardinality(LockedOf(S)') + 1
          /\ Cardinality(LockedOf(S)') \in Nat
      BY <1>1, <3>1, OneMore
    <3>. QED  BY <1>0, <1>1, <2>1, <2>2, <3>2
  <2>3. CASE Running(h) = {} /\ expiries' = expiries
    <3>1. GenerationsOf(S) = GenerationsOf(S \ {h})
      BY <2>3 DEF GenerationsOf, Running
    <3>2. LockedOf(S)' = LockedOf(S \ {h})
      BY <1>5 DEF LockedOf, KeysTyped
    <3>3. S \ {h} \in SUBSET Hosts
      OBVIOUS
    <3>. QED  BY <1>1, <2>1, <2>3, <3>1, <3>2, <3>3
  <2>. QED  BY <1>5, <2>2, <2>3
<1>. QED  BY <1>2, <1>3, <1>4, <1>5 DEF Locks

---------------------------------------------------------------------------
(* What a step does with the LLM's budget                                  *)

(* Allow lets a call pass while there is room, or when its command fails;  *)
(* RecordCall counts it; the window slides.                                *)
Spends ==
  \/ /\ used' = used /\ \A p \in Pages : gen'[p].step = "record" => gen[p].step = "record"
     /\ failures' >= failures /\ expiries' >= expiries
  \/ \E p \in Pages :
       /\ UNCHANGED <<used, expiries>> /\ OnlyIn(p) /\ gen[p].step = "budget"
       /\ (used < Cap /\ failures' = failures) \/ failures' = failures + 1
  \/ \E p \in Pages :
       /\ UNCHANGED <<expiries, failures>> /\ OnlyIn(p) /\ gen[p].step = "record"
       /\ gen'[p].step # "record" /\ used' = used + 1
  \/ used' = 0 /\ UNCHANGED <<gen, expiries, failures>>

(* Every step is one of these.                                             *)
LEMMA CallsSpend ==
  ASSUME GenTyped, KeysTyped, CountsTyped, GenerationHasInstance, [RulesNext]_rulesVars
  PROVE  Spends
<1>1. CASE UNCHANGED rulesVars
  BY <1>1, FailsTyped DEF rulesVars, bounds, keys, Spends
<1>2. ASSUME NEW p \in Pages, Parse(p)
      PROVE  Spends
  <2>1. ASSUME NEW i \in Instances, Lookup(p, i)
        PROVE  Spends
    BY <2>1, FailsTyped DEF Lookup, keys, bounds, Spends
  <2>2. CASE StoreCache(p)
    BY <2>2, FailsTyped DEF StoreCache, keys, bounds, Spends
  <2>3. CASE Parsed(p)
    BY <2>3, FailsTyped DEF Parsed, keys, bounds, Spends
  <2>4. CASE NoRule(p)
    BY <2>4, FailsTyped DEF NoRule, keys, bounds, Spends
  <2>5. CASE RuleFails(p)
    BY <2>5, FailsTyped DEF RuleFails, bounds, Spends
  <2>6. CASE CountStale(p)
    BY <2>6, FailsTyped DEF CountStale, keys, bounds, Spends
  <2>7. CASE HasAnyRule(p)
    BY <2>7, FailsTyped DEF HasAnyRule, keys, Spends
  <2>8. CASE Refused(p)
    BY <2>8, FailsTyped DEF Refused, keys, Spends
  <2>9. CASE TryAcquire(p)
    <3>1. used' = used /\ failures' >= failures /\ expiries' >= expiries
      BY <2>9, FailsTyped DEF TryAcquire, bounds
    <3>2. \A q \in Pages : gen'[q].step = "record" => gen[q].step = "record"
      BY <2>9, GenerationMoves
    <3>. QED  BY <3>1, <3>2 DEF Spends
  <2>10. CASE Defer(p)
    BY <2>10, FailsTyped DEF Defer, keys, bounds, Spends
  <2>11. CASE Push(p)
    BY <2>11, FailsTyped DEF Push, Spends
  <2>. QED  BY <1>2, <2>1, <2>2, <2>3, <2>4, <2>5, <2>6, <2>7, <2>8, <2>9, <2>10, <2>11
               DEF Parse
<1>3. ASSUME NEW p \in Pages, Generate(p)
      PROVE  Spends
  <2>1. CASE PreCheck(p)
    <3>1. used' = used /\ failures' >= failures /\ expiries' >= expiries
      BY <2>1, FailsTyped DEF PreCheck, keys
    <3>2. \A q \in Pages : gen'[q].step = "record" => gen[q].step = "record"
      <4>1. Moved(p, "check", {"flush", "budget"})
        BY <2>1, GenerationMoves
      <4>. QED  BY <4>1 DEF Moved
    <3>. QED  BY <3>1, <3>2 DEF Spends
  <2>2. CASE Allow(p)
    <3>1. Moved(p, "budget", {"record", "release"})
      BY <2>2, GenerationMoves
    <3>2. UNCHANGED used /\ UNCHANGED expiries
      BY <2>2 DEF Allow, keys
    <3>3. \/ used < Cap /\ failures' = failures
          \/ failures' = failures + 1
          \/ GenGoes(p, "release") /\ failures' = failures
      BY <2>2 DEF Allow, WithinCap, NoFailure, Fails
    <3>4. CASE GenGoes(p, "release") /\ failures' = failures
      <4>1. gen'[p].step = "release"
        BY <3>4, GenerationGoes DEF GenSteps
      <4>. QED  BY <3>1, <3>2, <3>4, <4>1, FailsTyped DEF Spends, Moved
    <3>. QED  BY <3>1, <3>2, <3>3, <3>4 DEF Spends, Moved, OnlyIn
  <2>3. CASE RecordCall(p)
    <3>1. Moved(p, "record", {"call"})
      BY <2>3, GenerationMoves
    <3>2. used' = used + 1 /\ UNCHANGED <<expiries, failures>>
      BY <2>3 DEF RecordCall, bounds
    <3>. QED  BY <3>1, <3>2 DEF Spends, Moved, OnlyIn
  <2>4. CASE CallLLM(p)
    <3>1. used' = used /\ failures' >= failures /\ expiries' >= expiries
      BY <2>4, FailsTyped DEF CallLLM, keys, bounds
    <3>2. \A q \in Pages : gen'[q].step = "record" => gen[q].step = "record"
      <4>1. Moved(p, "call", {"release", "version", "insert"})
        BY <2>4, GenerationMoves
      <4>. QED  BY <4>1 DEF Moved
    <3>. QED  BY <3>1, <3>2 DEF Spends
  <2>5. CASE ReadVersion(p)
    <3>1. used' = used /\ failures' >= failures /\ expiries' >= expiries
      BY <2>5, FailsTyped DEF ReadVersion, keys, bounds
    <3>2. \A q \in Pages : gen'[q].step = "record" => gen[q].step = "record"
      <4>1. /\ gen[p].step = "version" /\ gen'[p].step = "insert"
            /\ gen'[p].on = gen[p].on /\ gen'[p].batch = gen[p].batch
            /\ \A q \in Pages \ {p} : gen'[q] = gen[q]
        BY <2>5, GenerationMoves
      <4>. QED  BY <4>1
    <3>. QED  BY <3>1, <3>2 DEF Spends
  <2>6. CASE Insert(p)
    <3>1. used' = used /\ failures' >= failures /\ expiries' >= expiries
      BY <2>6, FailsTyped DEF Insert, keys
    <3>2. \A q \in Pages : gen'[q].step = "record" => gen[q].step = "record"
      <4>1. Moved(p, "insert", {"invalidate", "release"})
        BY <2>6, GenerationMoves
      <4>. QED  BY <4>1 DEF Moved
    <3>. QED  BY <3>1, <3>2 DEF Spends
  <2>7. CASE Invalidate(p)
    <3>1. used' = used /\ failures' >= failures /\ expiries' >= expiries
      BY <2>7, FailsTyped DEF Invalidate, keys, bounds
    <3>2. \A q \in Pages : gen'[q].step = "record" => gen[q].step = "record"
      <4>1. Moved(p, "invalidate", {"flush"})
        BY <2>7, GenerationMoves
      <4>. QED  BY <4>1 DEF Moved
    <3>. QED  BY <3>1, <3>2 DEF Spends
  <2>8. CASE Flush(p)
    <3>1. used' = used /\ failures' >= failures /\ expiries' >= expiries
      BY <2>8, FailsTyped DEF Flush
    <3>2. \A q \in Pages : gen'[q].step = "record" => gen[q].step = "record"
      <4>1. /\ gen[p].step = "flush" /\ gen'[p].step \in {"requeue", "release"}
            /\ \A q \in Pages \ {p} : gen'[q] = gen[q]
        BY <2>8, GenerationMoves DEF Moved
      <4>. QED  BY <4>1
    <3>. QED  BY <3>1, <3>2 DEF Spends
  <2>9. CASE RequeueParsing(p)
    <3>1. used' = used /\ failures' >= failures /\ expiries' >= expiries
      <4>1. PICK failed \in SUBSET gen[p].batch : failures' = failures + Cardinality(failed)
        BY <2>9 DEF RequeueParsing
      <4>2. Cardinality(failed) \in Nat
        <5>1. failed \subseteq Pages
          BY GenerationTyped
        <5>. QED  BY <5>1, LearnerConstants, FS_Subset, FS_CardinalityType
      <4>. QED  BY <2>9, <4>1, <4>2, FailsTyped DEF RequeueParsing
    <3>2. \A q \in Pages : gen'[q].step = "record" => gen[q].step = "record"
      <4>1. /\ gen[p].step = "requeue" /\ gen'[p].step = "release"
            /\ \A q \in Pages \ {p} : gen'[q] = gen[q]
        BY <2>9, GenerationMoves
      <4>. QED  BY <4>1
    <3>. QED  BY <3>1, <3>2 DEF Spends
  <2>10. CASE Release(p)
    <3>1. used' = used /\ failures' >= failures /\ expiries' >= expiries
      BY <2>10, FailsTyped DEF Release, bounds
    <3>2. \A q \in Pages : gen'[q].step = "record" => gen[q].step = "record"
      BY <2>10, GenerationMoves, GenerationTyped
    <3>. QED  BY <3>1, <3>2 DEF Spends
  <2>. QED  BY <1>3, <2>1, <2>2, <2>3, <2>4, <2>5, <2>6, <2>7, <2>8, <2>9, <2>10
               DEF Generate
<1>4. CASE Environment
  <2>1. ASSUME NEW i \in Instances, NEW h \in Hosts, Expire(i, h)
        PROVE  Spends
    BY <2>1, FailsTyped DEF Expire, keys, bounds, Spends
  <2>2. ASSUME NEW i \in Instances, NEW h \in Hosts, CooldownPasses(i, h)
        PROVE  Spends
    BY <2>2, FailsTyped DEF CooldownPasses, keys, bounds, Spends
  <2>3. ASSUME NEW i \in Instances, NEW h \in Hosts, Refine(h, i)
        PROVE  Spends
    BY <2>3, FailsTyped DEF Refine, keys, bounds, Spends
  <2>4. ASSUME NEW h \in Hosts, WindowSlides(h)
        PROVE  Spends
    BY <2>4, FailsTyped DEF WindowSlides, bounds, Spends
  <2>5. ASSUME NEW h \in Hosts, LockExpires(h)
        PROVE  Spends
    BY <2>5, FailsTyped DEF LockExpires, Spends
  <2>6. ASSUME NEW h \in Hosts, RefineRead(h)
        PROVE  Spends
    BY <2>6, FailsTyped DEF RefineRead, keys, bounds, Spends
  <2>7. ASSUME NEW h \in Hosts, Disable(h)
        PROVE  Spends
    BY <2>7, FailsTyped DEF Disable, keys, Spends
  <2>8. CASE BudgetSlides
    BY <2>8 DEF BudgetSlides, bounds, Spends
  <2>9. ASSUME NEW i \in Instances, Restart(i)
        PROVE  Spends
    <3>1. used' = used /\ failures' >= failures /\ expiries' >= expiries
      BY <2>9, FailsTyped DEF Restart, keys
    <3>2. \A q \in Pages : gen'[q].step = "record" => gen[q].step = "record"
      BY <2>9, GenerationTyped DEF Restart
    <3>. QED  BY <3>1, <3>2 DEF Spends
  <2>. QED 
    BY <1>4, <2>1, <2>2, <2>3, <2>4, <2>5, <2>6, <2>7, <2>8, <2>9 DEF Environment
<1>. QED  BY <1>1, <1>2, <1>3, <1>4 DEF RulesNext

(* They keep the window within the cap, but for a call of each host: the   *)
(* calls between Allow and RecordCall are of generations, and these are    *)
(* covered by locks.                                                       *)
LEMMA CallsStayWithinCap ==
  ASSUME GenTyped, KeysTyped, CountsTyped, CountsTyped', LocksCover, CallsWithinCap, Spends
  PROVE  CallsWithinCap'
<1>0. /\ expiries \in Nat /\ failures \in Nat /\ used \in Nat /\ Cap \in Nat /\ Cap >= 1
      /\ expiries' \in Nat /\ failures' \in Nat
      /\ Cardinality(Hosts) \in Nat /\ IsFiniteSet(Recording) /\ Cardinality(Recording) \in Nat
  <2>1. Recording \subseteq Pages
    BY DEF Recording
  <2>. QED  BY <2>1, LearnerConstants, FS_Subset, FS_CardinalityType
               DEF KeysTyped, CountsTyped
<1>1. used + Cardinality(Recording) <= Cap - 1 + Cardinality(Hosts) + expiries + failures
  BY DEF CallsWithinCap
<1>2. /\ IsFiniteSet(GenerationsOf(Hosts)) /\ Cardinality(GenerationsOf(Hosts)) \in Nat
      /\ Cardinality(GenerationsOf(Hosts)) <= Cardinality(Hosts) + expiries
  <2>1. /\ GenerationsOf(Hosts) \subseteq Pages /\ LockedOf(Hosts) \subseteq Hosts
        /\ Hosts \in SUBSET Hosts
    BY DEF GenerationsOf, LockedOf
  <2>2. Cardinality(GenerationsOf(Hosts)) <= Cardinality(LockedOf(Hosts)) + expiries
    BY <2>1 DEF LocksCover
  <2>3. /\ Cardinality(LockedOf(Hosts)) \in Nat
        /\ Cardinality(LockedOf(Hosts)) <= Cardinality(Hosts)
    BY <2>1, LearnerConstants, FS_Subset, FS_CardinalityType
  <2>. QED  BY <1>0, <2>1, <2>2, <2>3, LearnerConstants, FS_Subset, FS_CardinalityType
<1>3. Recording \subseteq GenerationsOf(Hosts)
  BY LearnerConstants DEF Recording, GenerationsOf
<1>4. CASE /\ used' = used /\ \A p \in Pages : gen'[p].step = "record" => gen[p].step = "record"
           /\ failures' >= failures /\ expiries' >= expiries
  <2>1. Recording' \subseteq Recording
    BY <1>4 DEF Recording
  <2>2. Cardinality(Recording') \in Nat /\ Cardinality(Recording') <= Cardinality(Recording)
    BY <1>0, <2>1, FS_Subset, FS_CardinalityType
  <2>. QED  BY <1>0, <1>1, <1>4, <2>2 DEF CallsWithinCap
<1>5. ASSUME NEW p \in Pages, UNCHANGED <<used, expiries>>, OnlyIn(p),
             gen[p].step = "budget",
             (used < Cap /\ failures' = failures) \/ failures' = failures + 1
      PROVE  CallsWithinCap'
  <2>1. /\ p \notin Recording /\ p \in GenerationsOf(Hosts)
        /\ Recording' \subseteq Recording \cup {p}
    BY <1>5, LearnerConstants DEF Recording, GenerationsOf, OnlyIn
  <2>2. /\ IsFiniteSet(Recording \cup {p})
        /\ Cardinality(Recording \cup {p}) = Cardinality(Recording) + 1
    BY <1>0, <2>1, FS_AddElement
  <2>3. Recording \cup {p} \subseteq GenerationsOf(Hosts)
    BY <1>3, <2>1
  <2>4. Cardinality(Recording) + 1 <= Cardinality(GenerationsOf(Hosts))
    BY <1>2, <2>2, <2>3, FS_Subset
  <2>5. Cardinality(Recording') \in Nat /\ Cardinality(Recording') <= Cardinality(Recording) + 1
    BY <2>1, <2>2, FS_Subset, FS_CardinalityType
  <2>. QED  BY <1>0, <1>1, <1>2, <1>5, <2>4, <2>5 DEF CallsWithinCap
<1>6. ASSUME NEW p \in Pages, UNCHANGED <<expiries, failures>>, OnlyIn(p),
             gen[p].step = "record",
             gen'[p].step # "record", used' = used + 1
      PROVE  CallsWithinCap'
  <2>1. p \in Recording /\ Recording' = Recording \ {p}
    BY <1>6 DEF Recording, OnlyIn
  <2>2. Cardinality(Recording') = Cardinality(Recording) - 1
    BY <1>0, <2>1, FS_RemoveElement
  <2>. QED  BY <1>0, <1>1, <1>6, <2>2 DEF CallsWithinCap
<1>7. CASE used' = 0 /\ UNCHANGED <<gen, expiries, failures>>
  <2>1. Recording' = Recording
    BY <1>7 DEF Recording
  <2>2. Cardinality(Recording) <= Cardinality(GenerationsOf(Hosts))
    BY <1>2, <1>3, FS_Subset
  <2>. QED  BY <1>0, <1>2, <1>7, <2>1, <2>2 DEF CallsWithinCap
<1>. QED  BY <1>4, <1>5, <1>6, <1>7 DEF Spends

---------------------------------------------------------------------------
(* What a step does with the rows of a host                                *)

(* A generation keeps what it has read of them.                            *)
SameGeneration(q) ==
  /\ gen'[q].version = gen[q].version \/ gen'[q].version = 0
  /\ gen'[q].step \in Learns => gen[q].step \in Learns /\ (gen[q].blind => gen'[q].blind)
(* PreCheck goes on where there is no row, or an enabled one.              *)
LooksUp(p) ==
  /\ gen[p].step = "check" /\ gen'[p].version = gen[p].version /\ OnlyIn(p)
  /\ gen'[p].step \in Learns =>
       gen'[p].blind \/ FirstRow(HostOf[p]) = {} \/ HasEnabled(FirstRow(HostOf[p]))
(* InsertNextVersion reads and inserts.                                    *)
ReadsVersion(p) ==
  /\ gen[p].step = "version" /\ gen'[p].blind = gen[p].blind /\ OnlyIn(p)
  /\ gen'[p].version > 0 => rules[HostOf[p]] # {}
Inserts(p) ==
  /\ gen[p].step = "insert" /\ gen'[p].step \notin Learns /\ gen'[p].version = gen[p].version
  /\ OnlyIn(p) /\ quietly' = quietly \ {HostOf[p]}
  /\ rules' = [rules EXCEPT ![HostOf[p]] = rules[HostOf[p]] \cup {Learned(p)}]
(* The refiner reads an enabled rule, and inserts a copy of it.            *)
ReadsToRefine(h) ==
  /\ HasEnabled(rules[h]) /\ UNCHANGED <<rules, gen, quietly>>
  /\ \E r : refining' = [refining EXCEPT ![h] = {r}]
Refines(h) ==
  /\ refining[h] # {} /\ refining' = [refining EXCEPT ![h] = {}] /\ UNCHANGED <<gen, quietly>>
  /\ rules' = rules \/ \E r : rules' = [rules EXCEPT ![h] = rules[h] \cup {r}]
(* An operator disables every row of a host.                               *)
Disables(h) ==
  /\ HasEnabled(rules[h])
  /\ rules' = [rules EXCEPT ![h] = {[r EXCEPT !.on = FALSE] : r \in rules[h]}]
  /\ \/ quietly' = quietly
     \/ /\ quietly' = quietly \cup {h} /\ refining[h] = {}
        /\ \A p \in Pages : HostOf[p] = h => gen[p].step \notin Learns
  /\ UNCHANGED <<gen, refining>>
(* What may become of the rows.                                            *)
RowsChange ==
  \/ UNCHANGED <<rules, refining, quietly>> /\ \A q \in Pages : SameGeneration(q)
  \/ \E p \in Pages :
       \/ UNCHANGED <<rules, refining, quietly>> /\ (LooksUp(p) \/ ReadsVersion(p))
       \/ Inserts(p) /\ UNCHANGED refining
  \/ \E h \in Hosts : ReadsToRefine(h) \/ Refines(h) \/ Disables(h)

(* Every step is one of these.                                             *)
LEMMA RowsDoChange ==
  ASSUME RowsTyped, GenTyped, CountsTyped, GenerationHasInstance, [RulesNext]_rulesVars
  PROVE  RowsChange
<1>1. CASE UNCHANGED rulesVars
  BY <1>1 DEF rulesVars, RowsChange, SameGeneration
<1>2. ASSUME NEW p \in Pages, Parse(p)
      PROVE  RowsChange
  <2>1. ASSUME NEW i \in Instances, Lookup(p, i)
        PROVE  RowsChange
    BY <2>1 DEF Lookup, SameGeneration, RowsChange
  <2>2. CASE StoreCache(p)
    BY <2>2 DEF StoreCache, SameGeneration, RowsChange
  <2>3. CASE Parsed(p)
    BY <2>3 DEF Parsed, SameGeneration, RowsChange
  <2>4. CASE NoRule(p)
    BY <2>4 DEF NoRule, SameGeneration, RowsChange
  <2>5. CASE RuleFails(p)
    BY <2>5 DEF RuleFails, SameGeneration, RowsChange
  <2>6. CASE CountStale(p)
    BY <2>6 DEF CountStale, SameGeneration, RowsChange
  <2>7. CASE HasAnyRule(p)
    BY <2>7 DEF HasAnyRule, SameGeneration, RowsChange
  <2>8. CASE Refused(p)
    BY <2>8 DEF Refused, SameGeneration, RowsChange
  <2>9. CASE TryAcquire(p)
    <3>1. UNCHANGED rules /\ UNCHANGED refining /\ UNCHANGED quietly
      BY <2>9 DEF TryAcquire
    <3>2. \A q \in Pages : SameGeneration(q)
      BY <2>9, GenerationMoves DEF SameGeneration, Learns
    <3>. QED  BY <3>1, <3>2 DEF RowsChange
  <2>10. CASE Defer(p)
    BY <2>10 DEF Defer, SameGeneration, RowsChange
  <2>11. CASE Push(p)
    BY <2>11 DEF Push, SameGeneration, RowsChange
  <2>. QED  BY <1>2, <2>1, <2>2, <2>3, <2>4, <2>5, <2>6, <2>7, <2>8, <2>9, <2>10, <2>11
               DEF Parse
<1>3. ASSUME NEW p \in Pages, Generate(p)
      PROVE  RowsChange
  <2>1. CASE PreCheck(p)
    <3>1. UNCHANGED rules /\ UNCHANGED refining /\ UNCHANGED quietly
      BY <2>1 DEF PreCheck
    <3>2. Moved(p, "check", {"flush", "budget"})
      BY <2>1, GenerationMoves
    <3>3. \/ GenGoes(p, "flush")
          \/ MayLearn(FirstRow(HostOf[p]), gen[p].stale)
          \/ gen' = [gen EXCEPT ![p].step = "budget", ![p].blind = TRUE]
      BY <2>1 DEF PreCheck, FirstRow
    <3>4. GenGoes(p, "flush") => gen'[p].step = "flush"
      BY GenerationGoes DEF GenSteps
    <3>5. gen' = [gen EXCEPT ![p].step = "budget", ![p].blind = TRUE] => gen'[p].blind
      BY DEF GenTyped
    <3>6. LooksUp(p)
      BY <3>2, <3>3, <3>4, <3>5 DEF LooksUp, Moved, OnlyIn, MayLearn, Learns
    <3>. QED  BY <3>1, <3>6 DEF RowsChange
  <2>2. CASE Allow(p)
    <3>1. UNCHANGED rules /\ UNCHANGED refining /\ UNCHANGED quietly
      BY <2>2 DEF Allow
    <3>2. \A q \in Pages : SameGeneration(q)
      <4>1. Moved(p, "budget", {"record", "release"})
        BY <2>2, GenerationMoves
      <4>. QED  BY <4>1 DEF Moved, SameGeneration, Learns
    <3>. QED  BY <3>1, <3>2 DEF RowsChange
  <2>3. CASE RecordCall(p)
    <3>1. UNCHANGED rules /\ UNCHANGED refining /\ UNCHANGED quietly
      BY <2>3 DEF RecordCall
    <3>2. \A q \in Pages : SameGeneration(q)
      <4>1. Moved(p, "record", {"call"})
        BY <2>3, GenerationMoves
      <4>. QED  BY <4>1 DEF Moved, SameGeneration, Learns
    <3>. QED  BY <3>1, <3>2 DEF RowsChange
  <2>4. CASE CallLLM(p)
    <3>1. UNCHANGED rules /\ UNCHANGED refining /\ UNCHANGED quietly
      BY <2>4 DEF CallLLM
    <3>2. \A q \in Pages : SameGeneration(q)
      <4>1. Moved(p, "call", {"release", "version", "insert"})
        BY <2>4, GenerationMoves
      <4>. QED  BY <4>1 DEF Moved, SameGeneration, Learns
    <3>. QED  BY <3>1, <3>2 DEF RowsChange
  <2>5. CASE ReadVersion(p)
    <3>1. UNCHANGED rules /\ UNCHANGED refining /\ UNCHANGED quietly
      BY <2>5 DEF ReadVersion
    <3>2. gen'[p].version > 0 => rules[HostOf[p]] # {}
      <4>1. rules[HostOf[p]] \in SUBSET Rule
        BY LearnerConstants DEF RowsTyped
      <4>2. gen'[p].version = LastVersion(rules[HostOf[p]], "any")
        BY <2>5, GenerationMoves
      <4>. QED  BY <4>1, <4>2, RowsRead
    <3>3. /\ gen[p].step = "version" /\ gen'[p].blind = gen[p].blind
          /\ \A q \in Pages \ {p} : gen'[q] = gen[q]
      BY <2>5, GenerationMoves
    <3>4. ReadsVersion(p)
      BY <3>2, <3>3 DEF ReadsVersion, OnlyIn
    <3>. QED  BY <3>1, <3>4 DEF RowsChange
  <2>6. CASE Insert(p)
    <3>1. Moved(p, "insert", {"invalidate", "release"})
      BY <2>6, GenerationMoves
    <3>2. UNCHANGED refining
      BY <2>6 DEF Insert
    <3>3. CASE UNCHANGED <<rules, quietly>>
      <4>1. \A q \in Pages : SameGeneration(q)
        BY <3>1 DEF Moved, SameGeneration, Learns
      <4>. QED  BY <3>2, <3>3, <4>1 DEF RowsChange
    <3>4. CASE ~UNCHANGED <<rules, quietly>>
      <4>1. /\ rules' = [rules EXCEPT ![HostOf[p]] = rules[HostOf[p]] \cup {Learned(p)}]
            /\ quietly' = quietly \ {HostOf[p]}
        BY <2>6, <3>4 DEF Insert
      <4>2. Inserts(p)
        BY <3>1, <4>1 DEF Inserts, Moved, OnlyIn, Learns
      <4>. QED  BY <3>2, <4>2 DEF RowsChange
    <3>. QED  BY <3>3, <3>4
  <2>7. CASE Invalidate(p)
    <3>1. UNCHANGED rules /\ UNCHANGED refining /\ UNCHANGED quietly
      BY <2>7 DEF Invalidate
    <3>2. \A q \in Pages : SameGeneration(q)
      <4>1. Moved(p, "invalidate", {"flush"})
        BY <2>7, GenerationMoves
      <4>. QED  BY <4>1 DEF Moved, SameGeneration, Learns
    <3>. QED  BY <3>1, <3>2 DEF RowsChange
  <2>8. CASE Flush(p)
    <3>1. UNCHANGED rules /\ UNCHANGED refining /\ UNCHANGED quietly
      BY <2>8 DEF Flush
    <3>2. \A q \in Pages : SameGeneration(q)
      <4>1. /\ gen[p].step = "flush" /\ gen'[p].step \in {"requeue", "release"}
            /\ gen'[p].version = gen[p].version
            /\ \A q \in Pages \ {p} : gen'[q] = gen[q]
        BY <2>8, GenerationMoves DEF Moved
      <4>. QED  BY <4>1 DEF SameGeneration, Learns
    <3>. QED  BY <3>1, <3>2 DEF RowsChange
  <2>9. CASE RequeueParsing(p)
    <3>1. UNCHANGED rules /\ UNCHANGED refining /\ UNCHANGED quietly
      BY <2>9 DEF RequeueParsing
    <3>2. \A q \in Pages : SameGeneration(q)
      <4>1. /\ gen[p].step = "requeue" /\ gen'[p].step = "release"
            /\ gen'[p].version = gen[p].version
            /\ \A q \in Pages \ {p} : gen'[q] = gen[q]
        BY <2>9, GenerationMoves
      <4>. QED  BY <4>1 DEF SameGeneration, Learns
    <3>. QED  BY <3>1, <3>2 DEF RowsChange
  <2>10. CASE Release(p)
    <3>1. UNCHANGED rules /\ UNCHANGED refining /\ UNCHANGED quietly
      BY <2>10 DEF Release
    <3>2. \A q \in Pages : SameGeneration(q)
      BY <2>10, GenerationMoves, GenerationTyped DEF SameGeneration, Learns
    <3>. QED  BY <3>1, <3>2 DEF RowsChange
  <2>. QED  BY <1>3, <2>1, <2>2, <2>3, <2>4, <2>5, <2>6, <2>7, <2>8, <2>9, <2>10
               DEF Generate
<1>4. CASE Environment
  <2>1. ASSUME NEW i \in Instances, NEW h \in Hosts, Expire(i, h)
        PROVE  RowsChange
    BY <2>1 DEF Expire, SameGeneration, RowsChange
  <2>2. ASSUME NEW i \in Instances, NEW h \in Hosts, CooldownPasses(i, h)
        PROVE  RowsChange
    BY <2>2 DEF CooldownPasses, SameGeneration, RowsChange
  <2>3. ASSUME NEW i \in Instances, NEW h \in Hosts, Refine(h, i)
        PROVE  RowsChange
    <3>1. Refines(h)
      <4>1. /\ refining[h] # {} /\ UNCHANGED <<gen, quietly>>
            /\ refining' = [refining EXCEPT ![h] = {}]
        BY <2>3 DEF Refine
      <4>2. rules' = rules \/ \E r : rules' = [rules EXCEPT ![h] = rules[h] \cup {r}]
        BY <2>3 DEF Refine
      <4>. QED  BY <4>1, <4>2 DEF Refines
    <3>. QED  BY <3>1 DEF RowsChange
  <2>4. ASSUME NEW h \in Hosts, WindowSlides(h)
        PROVE  RowsChange
    BY <2>4 DEF WindowSlides, SameGeneration, RowsChange
  <2>5. ASSUME NEW h \in Hosts, LockExpires(h)
        PROVE  RowsChange
    BY <2>5 DEF LockExpires, SameGeneration, RowsChange
  <2>6. ASSUME NEW h \in Hosts, RefineRead(h)
        PROVE  RowsChange
    <3>1. ReadsToRefine(h)
      <4>1. PICK r \in FindActiveCandidates(rules[h]) : refining' = [refining EXCEPT ![h] = {r}]
        BY <2>6 DEF RefineRead
      <4>. QED  BY <2>6, <4>1 DEF RefineRead, ReadsToRefine, HasEnabled
    <3>. QED  BY <3>1, <2>6 DEF RowsChange
  <2>7. ASSUME NEW h \in Hosts, Disable(h)
        PROVE  RowsChange
    <3>1. Disables(h)
      BY <2>7 DEF Disable, Disables, UnderWay, Learns
    <3>. QED  BY <3>1 DEF RowsChange
  <2>8. CASE BudgetSlides
    BY <2>8 DEF BudgetSlides, SameGeneration, RowsChange
  <2>9. ASSUME NEW i \in Instances, Restart(i)
        PROVE  RowsChange
    <3>1. UNCHANGED rules /\ UNCHANGED refining /\ UNCHANGED quietly
      BY <2>9 DEF Restart
    <3>2. \A q \in Pages : SameGeneration(q)
      BY <2>9, GenerationTyped DEF Restart, SameGeneration, Learns
    <3>. QED  BY <3>1, <3>2 DEF RowsChange
  <2>. QED 
    BY <1>4, <2>1, <2>2, <2>3, <2>4, <2>5, <2>6, <2>7, <2>8, <2>9 DEF Environment
<1>. QED  BY <1>1, <1>2, <1>3, <1>4 DEF RulesNext

(* Disabled rows are still there, and none is enabled.                     *)
LEMMA DisabledRows ==
  ASSUME NEW rows \in SUBSET Rule
  PROVE  /\ ~HasEnabled({[r EXCEPT !.on = FALSE] : r \in rows})
         /\ FindByNaturalKey(rows, "any", 1) # {}
              => FindByNaturalKey({[r EXCEPT !.on = FALSE] : r \in rows}, "any", 1) # {}
         /\ \A r \in {[r EXCEPT !.on = FALSE] : r \in rows} : ~r.on
<1>. DEFINE off == {[r EXCEPT !.on = FALSE] : r \in rows}
<1>1. \A r \in rows : [r EXCEPT !.on = FALSE] \in off
  OBVIOUS
<1>2. \A r \in rows : /\ [r EXCEPT !.on = FALSE].on = FALSE
                      /\ [r EXCEPT !.on = FALSE].path = r.path
                      /\ [r EXCEPT !.on = FALSE].version = r.version
  OBVIOUS
<1>3. \A r \in off : ~r.on
  BY <1>2
<1>4. ~HasEnabled(off)
  BY <1>3 DEF HasEnabled, FindActiveCandidates
<1>5. ASSUME FindByNaturalKey(rows, "any", 1) # {}
      PROVE  FindByNaturalKey(off, "any", 1) # {}
  <2>1. PICK r \in rows : r.path = "any" /\ r.version = 1
    BY <1>5 DEF FindByNaturalKey
  <2>2. [r EXCEPT !.on = FALSE] \in FindByNaturalKey(off, "any", 1)
    BY <1>1, <1>2, <2>1 DEF FindByNaturalKey
  <2>. QED  BY <2>2
<1>. QED  BY <1>3, <1>4, <1>5

(* Rows are never deleted, and the first that is inserted has version 1.   *)
LEMMA FirstRowRemains ==
  ASSUME RowsTyped, GenTyped, FirstRowStays, RowsChange
  PROVE  FirstRowStays'
<1>1. \A p \in Pages : gen[p].version \in Nat /\ HostOf[p] \in Hosts
  BY GenerationTyped, LearnerConstants
<1>2. CASE UNCHANGED <<rules, refining, quietly>> /\ \A q \in Pages : SameGeneration(q)
  BY <1>2 DEF SameGeneration, FirstRowStays, FirstRow
<1>3. ASSUME NEW p \in Pages, UNCHANGED <<rules, refining, quietly>>,
             LooksUp(p) \/ ReadsVersion(p)
      PROVE  FirstRowStays'
  BY <1>3 DEF LooksUp, ReadsVersion, OnlyIn, FirstRowStays, FirstRow
<1>4. ASSUME NEW p \in Pages, Inserts(p), UNCHANGED refining
      PROVE  FirstRowStays'
  <2>1. FirstRow(HostOf[p])' # {}
    <3>1. CASE FirstRow(HostOf[p]) # {}
      BY <1>1, <1>4, <3>1 DEF Inserts, FirstRow, FindByNaturalKey
    <3>2. CASE gen[p].version = 0
      <4>1. Learned(p).path = "any" /\ Learned(p).version = 1
        BY <3>2 DEF Learned
      <4>2. Learned(p) \in rules'[HostOf[p]]
        BY <1>1, <1>4 DEF Inserts, RowsTyped
      <4>. QED  BY <4>1, <4>2 DEF FirstRow, FindByNaturalKey
    <3>. QED  BY <1>1, <3>1, <3>2 DEF FirstRowStays
  <2>2. \A h \in Hosts : rules[h] \subseteq rules'[h] /\ (h # HostOf[p] => rules'[h] = rules[h])
    BY <1>1, <1>4 DEF Inserts
  <2>3. \A h \in Hosts : rules'[h] # {} => FirstRow(h)' # {}
    BY <2>1, <2>2 DEF FirstRowStays, FirstRow
  <2>4. \A q \in Pages : gen'[q].version = gen[q].version
    BY <1>4 DEF Inserts, OnlyIn
  <2>5. \A h \in Hosts : refining'[h] # {} => rules'[h] # {}
    BY <1>4, <2>2 DEF FirstRowStays
  <2>6. \A q \in Pages : gen'[q].version > 0 => rules'[HostOf[q]] # {}
    BY <1>1, <2>2, <2>4 DEF FirstRowStays
  <2>. QED  BY <2>3, <2>5, <2>6 DEF FirstRowStays
<1>5. ASSUME NEW h \in Hosts, ReadsToRefine(h)
      PROVE  FirstRowStays'
  BY <1>5 DEF ReadsToRefine, FirstRowStays, FirstRow, HasEnabled, FindActiveCandidates
<1>6. ASSUME NEW h \in Hosts, Refines(h)
      PROVE  FirstRowStays'
  <2>1. \A g \in Hosts : rules[g] \subseteq rules'[g] /\ (g # h => rules'[g] = rules[g])
    BY <1>6 DEF Refines, RowsTyped
  <2>2. FirstRow(h) # {} /\ \A g \in Hosts : FirstRow(g) # {} => FirstRow(g)' # {}
    BY <1>6, <2>1 DEF Refines, FirstRowStays, FirstRow, FindByNaturalKey
  <2>. QED  BY <1>1, <1>6, <2>1, <2>2 DEF Refines, FirstRowStays
<1>7. ASSUME NEW h \in Hosts, Disables(h)
      PROVE  FirstRowStays'
  <2>1. rules[h] \in SUBSET Rule /\ rules[h] # {}
    BY <1>7 DEF Disables, HasEnabled, FindActiveCandidates, RowsTyped
  <2>2. FirstRow(h)' # {} /\ \A g \in Hosts \ {h} : rules'[g] = rules[g]
    BY <1>7, <2>1, DisabledRows DEF Disables, FirstRowStays, FirstRow, RowsTyped
  <2>3. rules'[h] # {}
    BY <2>2 DEF FirstRow, FindByNaturalKey
  <2>4. \A g \in Hosts : rules'[g] # {} => FirstRow(g)' # {}
    BY <2>2 DEF FirstRowStays, FirstRow
  <2>. QED  BY <1>1, <1>7, <2>2, <2>3, <2>4 DEF Disables, FirstRowStays
<1>. QED  BY <1>2, <1>3, <1>4, <1>5, <1>6, <1>7 DEF RowsChange

(* What was disabled in quiet stays so: a new generation finds the disabled*)
(* first row, the refiner finds no enabled rule.                           *)
LEMMA QuietStaysOff ==
  ASSUME RowsTyped, GenTyped, CountsTyped, FirstRowStays, QuietIsOff, RowsChange
  PROVE  QuietIsOff'
<1>1. CASE UNCHANGED <<rules, refining, quietly>> /\ \A q \in Pages : SameGeneration(q)
  BY <1>1 DEF SameGeneration, QuietIsOff
<1>2. ASSUME NEW p \in Pages, UNCHANGED <<rules, refining, quietly>>,
             LooksUp(p) \/ ReadsVersion(p)
      PROVE  QuietIsOff'
  <2>1. CASE ReadsVersion(p)
    BY <1>2, <2>1 DEF ReadsVersion, OnlyIn, QuietIsOff, Learns
  <2>2. CASE LooksUp(p)
    <3>1. HostOf[p] \in quietly => FirstRow(HostOf[p]) # {} /\ ~HasEnabled(FirstRow(HostOf[p]))
      BY LearnerConstants DEF QuietIsOff, FirstRowStays, FirstRow, FindByNaturalKey,
             HasEnabled, FindActiveCandidates
    <3>. QED  BY <1>2, <2>2, <3>1 DEF LooksUp, OnlyIn, QuietIsOff
  <2>. QED  BY <1>2, <2>1, <2>2
<1>3. ASSUME NEW p \in Pages, Inserts(p), UNCHANGED refining
      PROVE  QuietIsOff'
  <2>1. \A h \in quietly' : h \in quietly /\ h # HostOf[p] /\ rules'[h] = rules[h]
    BY <1>3 DEF Inserts
  <2>. QED  BY <1>3, <2>1 DEF Inserts, OnlyIn, QuietIsOff
<1>4. ASSUME NEW h \in Hosts, ReadsToRefine(h)
      PROVE  QuietIsOff'
  <2>1. h \notin quietly
    BY <1>4 DEF ReadsToRefine, QuietIsOff
  <2>. QED  BY <1>4, <2>1 DEF ReadsToRefine, QuietIsOff
<1>5. ASSUME NEW h \in Hosts, Refines(h)
      PROVE  QuietIsOff'
  <2>1. h \notin quietly
    BY <1>5 DEF Refines, QuietIsOff
  <2>. QED  BY <1>5, <2>1 DEF Refines, QuietIsOff, RowsTyped, CountsTyped
<1>6. ASSUME NEW h \in Hosts, Disables(h)
      PROVE  QuietIsOff'
  <2>1. h \notin quietly /\ rules[h] # {} /\ rules[h] \in SUBSET Rule
    BY <1>6 DEF Disables, QuietIsOff, HasEnabled, FindActiveCandidates, RowsTyped
  <2>2. rules'[h] = {[r EXCEPT !.on = FALSE] : r \in rules[h]}
    BY <1>6 DEF Disables, RowsTyped
  <2>3. ~HasEnabled(rules'[h])
    BY <2>1, <2>2, DisabledRows
  <2>4. rules'[h] # {}
    BY <2>1, <2>2
  <2>5. \A g \in Hosts \ {h} : rules'[g] = rules[g]
    BY <1>6 DEF Disables
  <2>6. \A g \in quietly : rules'[g] = rules[g]
    BY <2>1, <2>5 DEF CountsTyped
  <2>7. UNCHANGED <<gen, refining>>
    BY <1>6 DEF Disables
  <2>8. CASE quietly' = quietly
    BY <2>6, <2>7, <2>8 DEF QuietIsOff
  <2>9. CASE /\ quietly' = quietly \cup {h} /\ refining[h] = {}
             /\ \A p \in Pages : HostOf[p] = h => gen[p].step \notin Learns
    BY <2>3, <2>4, <2>6, <2>7, <2>9 DEF QuietIsOff
  <2>. QED  BY <1>6, <2>8, <2>9 DEF Disables
<1>. QED  BY <1>1, <1>2, <1>3, <1>4, <1>5, <1>6 DEF RowsChange

---------------------------------------------------------------------------
(* The inductive invariant, and what follows from it                       *)
RulesIInv ==
  /\ LearnerTyped /\ PageHasWorker /\ GenerationHasInstance /\ WaitsOnce
  /\ SampleIsLeft /\ CallsPaid /\ LocksCover /\ CallsWithinCap
  /\ FirstRowStays /\ QuietIsOff

(* The learner's invariant holds.                                          *)
LEMMA RulesIInvHolds == RulesSpec => []RulesIInv
<1>1. RulesInit => RulesIInv
  <2>. SUFFICES ASSUME RulesInit  PROVE RulesIInv
    OBVIOUS
  <2>0. /\ \A p \in Pages : /\ gen[p] = NoGen /\ at[p] = "fetched" /\ on[p] = Nobody
                            /\ calls[p] = 0 /\ retries[p] = 0
        /\ \A h \in Hosts : pending[h] = {} /\ refining[h] = {} /\ lock[h] = Nobody
        /\ NoGen.step = "idle" /\ NoGen.on = Nobody /\ NoGen.batch = {} /\ NoGen.version = 0
        /\ NoGen \in Generations
        /\ used = 0 /\ expiries = 0 /\ failures = 0 /\ quietly = {}
    BY LearnerConstants DEF RulesInit, NoGen, Generations, GenSteps
  <2>1. RowsTyped
    <3>1. \A enabled \in BOOLEAN : OldRule(enabled) \in Rule
      <4>1. PICK l \in Layouts : \A m \in Layouts : l <= m
        BY LearnerConstants, Least
      <4>2. (CHOOSE k \in Layouts : \A m \in Layouts : k <= m) \in Layouts
        BY <4>1
      <4>. QED  BY <4>2, LearnerConstants DEF OldRule, Rule, Paths
    <3>2. rules \in [Hosts -> SUBSET Rule]
      <4>. DEFINE First == {{}} \cup {{OldRule(enabled)} : enabled \in BOOLEAN}
      <4>1. First \subseteq SUBSET Rule
        BY <3>1
      <4>2. rules \in [Hosts -> First]
        BY DEF RulesInit
      <4>. HIDE DEF First
      <4>. QED  BY <4>1, <4>2
    <3>. QED  BY <3>2 DEF RulesInit, RowsTyped
  <2>2. CachesTyped /\ ParseTyped
    BY LearnerConstants DEF RulesInit, CachesTyped, ParseTyped, ParseSteps
  <2>3. GenTyped
    BY <2>0 DEF RulesInit, GenTyped
  <2>4. KeysTyped /\ HeldTyped /\ CountsTyped
    BY LearnerConstants DEF RulesInit, KeysTyped, HeldTyped, CountsTyped
  <2>5. PageHasWorker /\ GenerationHasInstance /\ WaitsOnce /\ SampleIsLeft /\ CallsPaid
    BY <2>0 DEF PageHasWorker, Resting, GenerationHasInstance, WaitsOnce, SampleIsLeft,
           CallsPaid, Asks
  <2>6. LocksCover
    <3>1. \A S \in SUBSET Hosts : GenerationsOf(S) = {} /\ LockedOf(S) = {}
      BY <2>0 DEF GenerationsOf, LockedOf
    <3>. QED  BY <2>0, <3>1, FS_EmptySet DEF LocksCover
  <2>7. CallsWithinCap
    <3>1. Recording = {}
      BY <2>0 DEF Recording
    <3>. QED  BY <2>0, <3>1, FS_EmptySet, FS_CardinalityType, LearnerConstants
                 DEF CallsWithinCap
  <2>8. FirstRowStays
    <3>1. \A h \in Hosts :
            rules[h] = {} \/ \E enabled \in BOOLEAN : rules[h] = {OldRule(enabled)}
      BY DEF RulesInit
    <3>2. \A h \in Hosts : rules[h] # {} => FirstRow(h) # {}
      BY <3>1 DEF FirstRow, FindByNaturalKey, OldRule
    <3>. QED  BY <2>0, <3>2 DEF FirstRowStays
  <2>9. QuietIsOff
    BY <2>0 DEF QuietIsOff
  <2>. QED  BY <2>1, <2>2, <2>3, <2>4, <2>5, <2>6, <2>7, <2>8, <2>9
               DEF RulesIInv, LearnerTyped
<1>2. RulesIInv /\ [RulesNext]_rulesVars => RulesIInv'
  <2>. SUFFICES ASSUME RulesIInv, [RulesNext]_rulesVars  PROVE RulesIInv'
    OBVIOUS
  <2>0. /\ RowsTyped /\ CachesTyped /\ ParseTyped /\ GenTyped /\ KeysTyped /\ HeldTyped
        /\ CountsTyped
        /\ PageHasWorker /\ GenerationHasInstance /\ WaitsOnce /\ SampleIsLeft /\ CallsPaid
        /\ LocksCover /\ CallsWithinCap /\ FirstRowStays /\ QuietIsOff
    BY DEF RulesIInv, LearnerTyped
  <2>1. LearnerTyped'
    BY <2>0, TypesStay
  <2>2. CountsTyped'
    BY <2>1 DEF LearnerTyped
  <2>3. Shape
    BY <2>0, EveryStepHasAShape
  <2>4. PageHasWorker' /\ GenerationHasInstance'
    BY <2>0, <2>3, OwnersStay
  <2>5. WaitsOnce'
    BY <2>0, <2>3, WaitersStay
  <2>6. SampleIsLeft' /\ CallsPaid'
    BY <2>0, <2>3, CallsStayPaid
  <2>7. LocksCover'
    BY <2>0, LocksMove, LocksStayCovering
  <2>8. CallsWithinCap'
    BY <2>0, <2>2, CallsSpend, CallsStayWithinCap
  <2>9. FirstRowStays' /\ QuietIsOff'
    BY <2>0, RowsDoChange, FirstRowRemains, QuietStaysOff
  <2>. QED  BY <2>1, <2>4, <2>5, <2>6, <2>7, <2>8, <2>9 DEF RulesIInv
<1>. QED  BY <1>1, <1>2, PTL DEF RulesSpec

(* The types hold: a page's message never carries more than maxLLMRetries, *)
(* a breaker never counts past its threshold, and a rule's version is one. *)
THEOREM RuleTypes == RulesSpec => []RulesTypeOK
<1>1. RulesIInv => RulesTypeOK
  BY TypesInParts DEF RulesIInv
<1>. QED  BY <1>1, RulesIInvHolds, PTL

(* InflightLocker.TryAcquire and Release: one generation of a host runs at a*)
(* time, on however many instances, and one more for each lock whose TTL   *)
(* has passed under a running one.                                         *)
THEOREM OneGenerationAtATime == RulesSpec => []GenerationsExclusive
<1>1. RulesIInv => GenerationsExclusive
  <2>. SUFFICES ASSUME RulesIInv, NEW h \in Hosts
                PROVE  Cardinality(Running(h)) <= 1 + expiries
    BY DEF GenerationsExclusive
  <2>1. Running(h) = GenerationsOf({h}) /\ LockedOf({h}) \subseteq {h}
    BY DEF Running, GenerationsOf, LockedOf
  <2>2. Cardinality(LockedOf({h})) \in Nat /\ Cardinality(LockedOf({h})) <= 1
    <3>1. IsFiniteSet({h}) /\ Cardinality({h}) = 1
      BY FS_Singleton
    <3>. QED  BY <2>1, <3>1, FS_Subset, FS_CardinalityType
  <2>3. Cardinality(GenerationsOf({h})) <= Cardinality(LockedOf({h})) + expiries
    BY DEF RulesIInv, LocksCover
  <2>4. expiries \in Nat /\ Cardinality(Running(h)) \in Nat
    <3>1. Running(h) \subseteq Pages
      BY DEF Running
    <3>. QED  BY <3>1, LearnerConstants, FailsTyped, FS_Subset, FS_CardinalityType
                 DEF RulesIInv, LearnerTyped
  <2>. QED  BY <2>1, <2>2, <2>3, <2>4
<1>. QED  BY <1>1, RulesIInvHolds, PTL

(* RequeueForLLMRetry: a page is sent to the LLM once and once for each    *)
(* retry that its message carries, however often it waits in the list, is  *)
(* requeued by other generations, delivered again, or fails its rule.      *)
THEOREM CallsOfAPage == RulesSpec => []CallsPerPage
<1>1. RulesIInv => CallsPerPage
  <2>. SUFFICES ASSUME RulesIInv, NEW p \in Pages
                PROVE  calls[p] <= MaxLLMRetries + 1
    BY DEF CallsPerPage
  <2>1. calls[p] \in Nat /\ retries[p] \in 0..MaxLLMRetries /\ calls[p] <= retries[p] + 1
    BY DEF RulesIInv, LearnerTyped, CountsTyped, ParseTyped, CallsPaid
  <2>. QED  BY <2>1, LearnerConstants
<1>. QED  BY <1>1, RulesIInvHolds, PTL

(* llmBudget.Allow and RecordCall are two commands: the calls of a window  *)
(* pass the limit by less than the number of hosts, and by one for each    *)
(* lock that has expired under a generation and each failed command.       *)
THEOREM CallsOfAWindow == RulesSpec => []BudgetOvershoot
<1>1. RulesIInv => BudgetOvershoot
  <2>. SUFFICES ASSUME RulesIInv
                PROVE  used <= Cap - 1 + Cardinality(Hosts) + expiries + failures
    BY DEF BudgetOvershoot
  <2>1. /\ used \in Nat /\ Cap \in Nat /\ Cardinality(Hosts) \in Nat
        /\ expiries \in Nat /\ failures \in Nat
    BY LearnerConstants, FailsTyped, FS_CardinalityType DEF RulesIInv, LearnerTyped,
           KeysTyped
  <2>2. Cardinality(Recording) \in Nat
    <3>1. Recording \subseteq Pages
      BY DEF Recording
    <3>. QED  BY <3>1, LearnerConstants, FS_Subset, FS_CardinalityType
  <2>. QED  BY <2>1, <2>2 DEF RulesIInv, CallsWithinCap
<1>. QED  BY <1>1, RulesIInvHolds, PTL

(* InflightLocker.Release compares tokens: a host's lock goes only by its  *)
(* TTL or by the instance that holds its token.                            *)
THEOREM LocksGoByHolder == RulesSpec => LockFreedByHolder
<1>1. RulesIInv /\ [RulesNext]_rulesVars =>
        \A h \in Hosts :
          lock[h] # Nobody /\ lock'[h] # lock[h] =>
            \/ \E i \in Instances : token[i][h] = lock[h] /\ token'[i][h] = Nobody
            \/ LockExpires(h)
  <2>. SUFFICES ASSUME RulesIInv, [RulesNext]_rulesVars, NEW h \in Hosts,
                       lock[h] # Nobody, lock'[h] # lock[h]
                PROVE  \/ \E i \in Instances : token[i][h] = lock[h] /\ token'[i][h] = Nobody
                       \/ LockExpires(h)
    OBVIOUS
  <2>0. KeysTyped /\ HeldTyped /\ GenTyped /\ GenerationHasInstance
    BY DEF RulesIInv, LearnerTyped
  <2>1. Locks
    BY <2>0, LocksMove DEF RulesIInv, LearnerTyped
  <2>2. ASSUME NEW p \in Pages, TryAcquire(p)
        PROVE  FALSE
    BY <2>0, <2>2 DEF TryAcquire, NotHeld
  <2>3. ASSUME NEW p \in Pages, Release(p)
        PROVE  \E i \in Instances : token[i][h] = lock[h] /\ token'[i][h] = Nobody
    <3>1. gen[p].on \in Instances /\ HostOf[p] \in Hosts
      BY <2>0, <2>3 DEF Release, GenerationHasInstance
    <3>2. HostOf[p] = h /\ OwnsLock(gen[p].on, h)
      BY <2>0, <2>3 DEF Release
    <3>3. token'[gen[p].on][h] = Nobody
      BY <2>0, <2>3, <3>1, <3>2 DEF Release, HeldTyped
    <3>. QED  BY <3>1, <3>2, <3>3 DEF OwnsLock
  <2>4. ASSUME NEW g \in Hosts, LockExpires(g)
        PROVE  LockExpires(h)
    <3>1. g = h
      BY <2>0, <2>4 DEF LockExpires
    <3>. QED  BY <2>4, <3>1
  <2>. QED  BY <2>1, <2>2, <2>3, <2>4 DEF Locks
<1>. QED  BY <1>1, RulesIInvHolds, PTL DEF RulesSpec, LockFreedByHolder

(* A host that an operator has disabled while nothing was under way gets an*)
(* enabled rule only from a generation whose PreCheck lookup had failed.   *)
THEOREM DisabledHostsStayOff == RulesSpec => DisableHolds
<1>1. RulesIInv /\ [RulesNext]_rulesVars =>
        \A h \in quietly : \A r \in rules'[h] \ rules[h] :
          r.on => \E p \in Pages : gen[p].step = "insert" /\ gen[p].blind
  <2>. SUFFICES ASSUME RulesIInv, [RulesNext]_rulesVars, NEW h \in quietly,
                       NEW r \in rules'[h] \ rules[h], r.on
                PROVE  \E p \in Pages : gen[p].step = "insert" /\ gen[p].blind
    OBVIOUS
  <2>0. /\ RowsTyped /\ GenTyped /\ CountsTyped /\ GenerationHasInstance /\ QuietIsOff
        /\ h \in Hosts
    BY DEF RulesIInv, LearnerTyped, CountsTyped
  <2>1. RowsChange
    BY <2>0, RowsDoChange
  <2>2. CASE UNCHANGED rules
    BY <2>2
  <2>3. ASSUME NEW p \in Pages, Inserts(p)
        PROVE  gen[p].step = "insert" /\ gen[p].blind
    BY <2>0, <2>3 DEF Inserts, QuietIsOff, Learns
  <2>4. ASSUME NEW g \in Hosts, Refines(g)
        PROVE  FALSE
    BY <2>0, <2>4 DEF Refines, QuietIsOff, RowsTyped
  <2>5. ASSUME NEW g \in Hosts, Disables(g)
        PROVE  FALSE
    BY <2>0, <2>5 DEF Disables, QuietIsOff
  <2>. QED  BY <2>1, <2>2, <2>3, <2>4, <2>5 DEF RowsChange, ReadsToRefine
<1>. QED  BY <1>1, RulesIInvHolds, PTL DEF RulesSpec, DisableHolds
=============================================================================
