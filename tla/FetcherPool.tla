---------------------------- MODULE FetcherPool ----------------------------
(***************************************************************************)
(* A fetcher worker pool over one Kafka partition: the consumer harness    *)
(* (internal/workerpool) that polls messages into a channel, the workers   *)
(* that take them through KafkaConsumerPool.Handle                         *)
(* (internal/processor/fetcher/worker), and the ways a job leaves a        *)
(* worker: done, dropped, sent to the dead-letter topic, or handed to the  *)
(* retry scheduler that puts it back on the topic later.                   *)
(*                                                                         *)
(* Offsets are committed by message, by several workers, over one reader:  *)
(* a commit of an offset covers every offset before it.  The process may   *)
(* stop, be killed and start again from the committed offset.  The stage   *)
(* gate and the circuit breaker appear here only by their answers (modules *)
(* StageGate and CircuitBreaker), the delayed retries only by their        *)
(* content (module RetryQueue).                                            *)
(***************************************************************************)
EXTENDS Naturals, Sequences

CONSTANTS NumJobs,     \* crawl jobs, on the partition in the order of their number
          Workers,     \* worker goroutines of the pool
          MaxRetries,  \* CrawlJob.MaxRetries
          ChanCap,     \* capacity of the jobs channel
          MaxLog,      \* bound: messages on the partition
          MaxRestarts  \* bound: times the process starts again

ASSUME FetcherPoolAssumption ==
  /\ NumJobs \in Nat /\ NumJobs <= MaxLog
  /\ MaxRetries \in Nat /\ ChanCap \in Nat \ {0}
  /\ MaxLog \in Nat /\ MaxRestarts \in Nat

Jobs == 1..NumJobs

VARIABLES log,       \* the partition: messages [job, retry], by offset
          committed, \* the group's committed offset: all up to it are consumed
          next,      \* the offset the reader fetches next
          poll,      \* the offset poll() holds between fetch and send; 0 is none
          jobs,      \* the jobs channel, of offsets
          pc,        \* where each worker is in Handle
          cur,       \* the offset each worker handles
          gated,     \* workers that hold the stage gate's URL lock
          locked,    \* jobs whose URL is locked in Redis
          delayed,   \* the retry scheduler's entry of each job: its retry count
          done, dlq, dropped,  \* jobs fetched, dead-lettered, refused by a gate
          forsaken,  \* offsets left uncommitted by a worker that is through with them
          up,        \* "running", "stopping" or "down"
          restarts

outcome == <<delayed, done, dlq, dropped>>
process == <<up, restarts>>
reader == <<next, poll, jobs>>
vars == <<log, committed, reader, pc, cur, gated, locked, outcome, forsaken, process>>

(* A worker is responsible for its message in these places. *)
Working == {"start", "gate", "breaker", "fetch", "toDLQ", "toRetry"}
PCs == Working \cup {"idle", "commit", "release"}

Offsets == 1..MaxLog
Messages == [job : Jobs, retry : Nat]

TypeOK ==
  /\ log \in Seq(Messages) /\ Len(log) <= MaxLog
  /\ committed \in 0..MaxLog
  /\ next \in 1..(Len(log) + 1) /\ committed < next
  /\ poll \in 0..MaxLog
  /\ jobs \in Seq(Offsets) /\ Len(jobs) <= ChanCap
  /\ pc \in [Workers -> PCs]
  /\ cur \in [Workers -> 0..MaxLog]
  /\ gated \subseteq Workers
  /\ locked \subseteq Jobs
  /\ delayed \in [Jobs -> Nat]
  /\ done \subseteq Jobs /\ dlq \subseteq Jobs /\ dropped \subseteq Jobs
  /\ forsaken \subseteq 1..Len(log)
  /\ up \in {"running", "stopping", "down"}
  /\ restarts \in 0..MaxRestarts

Init ==
  /\ log = [j \in Jobs |-> [job |-> j, retry |-> 0]]
  /\ committed = 0 /\ next = 1 /\ poll = 0 /\ jobs = <<>>
  /\ pc = [w \in Workers |-> "idle"]
  /\ cur = [w \in Workers |-> 0]
  /\ gated = {} /\ locked = {}
  /\ delayed = [j \in Jobs |-> 0]
  /\ done = {} /\ dlq = {} /\ dropped = {}
  /\ forsaken = {}
  /\ up = "running" /\ restarts = 0

Job(w) == log[cur[w]].job
Retry(w) == log[cur[w]].retry
At(w, label) == pc[w] = label /\ up # "down"
Goto(w, label) == pc' = [pc EXCEPT ![w] = label]

(* Handle returns without a commit. *)
Forsake(w) == forsaken' = forsaken \cup {cur[w]}

---------------------------------------------------------------------------
(* workerpool: poll, dispatch, worker                                      *)

FetchMessage ==
  /\ up = "running" /\ poll = 0 /\ next <= Len(log)
  /\ poll' = next
  /\ next' = next + 1
  /\ forsaken' = forsaken \ {next}
  /\ UNCHANGED <<log, committed, jobs, pc, cur, gated, locked, outcome, process>>

ChannelHasRoom == Len(jobs) < ChanCap

Dispatch ==
  /\ up # "down" /\ poll # 0 /\ ChannelHasRoom
  /\ jobs' = Append(jobs, poll)
  /\ poll' = 0
  /\ UNCHANGED <<log, committed, next, pc, cur, gated, locked, outcome, forsaken, process>>

(* poll() finds its context done: the message it holds is let go. *)
PollEnds ==
  /\ up = "stopping" /\ poll # 0
  /\ forsaken' = forsaken \cup {poll}
  /\ poll' = 0
  /\ UNCHANGED <<log, committed, next, jobs, pc, cur, gated, locked, outcome, process>>

Take(w) ==
  /\ At(w, "idle") /\ jobs # <<>>
  /\ cur' = [cur EXCEPT ![w] = Head(jobs)]
  /\ jobs' = Tail(jobs)
  /\ Goto(w, "start")
  /\ UNCHANGED <<log, committed, next, poll, gated, locked, outcome, forsaken, process>>

---------------------------------------------------------------------------
(* processJob                                                              *)

(* The URL guard or the precheck refuses the job. *)
GuardDrops(w) ==
  /\ At(w, "start")
  /\ dropped' = dropped \cup {Job(w)}
  /\ Goto(w, "commit")
  /\ UNCHANGED <<log, committed, reader, cur, gated, locked, delayed, done, dlq,
                 forsaken, process>>

Undecodable(w) ==
  /\ At(w, "start") /\ Retry(w) = 0
  /\ Goto(w, "toDLQ")
  /\ UNCHANGED <<log, committed, reader, cur, gated, locked, outcome, forsaken, process>>

Proceed(w) ==
  /\ At(w, "start")
  /\ Goto(w, "gate")
  /\ UNCHANGED <<log, committed, reader, cur, gated, locked, outcome, forsaken, process>>

(* The context ends while a retried job waits for its ScheduledAt, or in   *)
(* the gate's Acquire.                                                     *)
Aborted(w) ==
  /\ up = "stopping"
  /\ \/ pc[w] = "start" /\ Retry(w) > 0
     \/ pc[w] = "gate"
  /\ Forsake(w)
  /\ Goto(w, "idle")
  /\ UNCHANGED <<log, committed, reader, cur, gated, locked, outcome, process>>

GateAcquired(w) ==
  /\ At(w, "gate") /\ Job(w) \notin locked
  /\ locked' = locked \cup {Job(w)}
  /\ gated' = gated \cup {w}
  /\ Goto(w, "breaker")
  /\ UNCHANGED <<log, committed, reader, cur, outcome, forsaken, process>>

(* An infrastructure error of the gate: the job goes on without it. *)
GateFails(w) ==
  /\ At(w, "gate")
  /\ Goto(w, "breaker")
  /\ UNCHANGED <<log, committed, reader, cur, gated, locked, outcome, forsaken, process>>

LaterExhausted(w) == Retry(w) > MaxRetries
Exhausted(w) == Retry(w) >= MaxRetries
Again(w) == IF Exhausted(w) THEN "toDLQ" ELSE "toRetry"

ReturnOnly(w) == "release"
SkipsTo(w) == Again(w)

(* The URL is locked by another worker: requeueGateSkip. *)
GateHeld(w) ==
  /\ At(w, "gate") /\ Job(w) \in locked
  /\ Goto(w, SkipsTo(w))
  /\ UNCHANGED <<log, committed, reader, cur, gated, locked, outcome, forsaken, process>>

BreakerRefuses(w) ==
  /\ At(w, "breaker")
  /\ Goto(w, "toDLQ")
  /\ UNCHANGED <<log, committed, reader, cur, gated, locked, outcome, forsaken, process>>

BreakerAllows(w) ==
  /\ At(w, "breaker")
  /\ Goto(w, "fetch")
  /\ UNCHANGED <<log, committed, reader, cur, gated, locked, outcome, forsaken, process>>

(* The handler has stored the raw page and published its reference. *)
FetchSucceeds(w) ==
  /\ At(w, "fetch")
  /\ done' = done \cup {Job(w)}
  /\ Goto(w, "commit")
  /\ UNCHANGED <<log, committed, reader, cur, gated, locked, delayed, dlq, dropped,
                 forsaken, process>>

FetchFails(w) ==
  /\ At(w, "fetch")
  /\ Goto(w, Again(w))
  /\ UNCHANGED <<log, committed, reader, cur, gated, locked, outcome, forsaken, process>>

---------------------------------------------------------------------------
(* sendToDLQ, requeueWithRetry, Commit and the deferred release            *)

SendToDLQ(w) ==
  /\ At(w, "toDLQ")
  /\ dlq' = dlq \cup {Job(w)}
  /\ Goto(w, "commit")
  /\ UNCHANGED <<log, committed, reader, cur, gated, locked, delayed, done, dropped,
                 forsaken, process>>

(* The scheduler keys its entries by job ID: a later one replaces it. *)
RequeueWithRetry(w) ==
  /\ At(w, "toRetry")
  /\ delayed' = [delayed EXCEPT ![Job(w)] = Retry(w) + 1]
  /\ Goto(w, "commit")
  /\ UNCHANGED <<log, committed, reader, cur, gated, locked, done, dlq, dropped,
                 forsaken, process>>

CommitAnyway == "commit"
AfterPublishFailure == "release"

(* The publisher or the retry scheduler reports an error, after it took    *)
(* the job or without: the message is left uncommitted "to preserve" it.   *)
PublishFails(w) ==
  /\ \/ At(w, "toDLQ") /\ dlq' \in {dlq, dlq \cup {Job(w)}} /\ UNCHANGED delayed
     \/ At(w, "toRetry") /\ UNCHANGED dlq
        /\ delayed' \in {delayed, [delayed EXCEPT ![Job(w)] = Retry(w) + 1]}
  /\ Goto(w, AfterPublishFailure)
  /\ IF AfterPublishFailure = "commit" THEN UNCHANGED forsaken ELSE Forsake(w)
  /\ UNCHANGED <<log, committed, reader, cur, gated, locked, done, dropped, process>>

(* The broker keeps the offset of the last commit. *)
Commit(w) ==
  /\ At(w, "commit")
  /\ committed' = cur[w]
  /\ Goto(w, "release")
  /\ UNCHANGED <<log, reader, cur, gated, locked, outcome, forsaken, process>>

CommitFails(w) ==
  /\ At(w, "commit")
  /\ Goto(w, "release")
  /\ UNCHANGED <<log, committed, reader, cur, gated, locked, outcome, forsaken, process>>

Release(w) ==
  /\ At(w, "release")
  /\ locked' = IF w \in gated THEN locked \ {Job(w)} ELSE locked
  /\ gated' = gated \ {w}
  /\ Goto(w, "idle")
  /\ UNCHANGED <<log, committed, reader, cur, outcome, forsaken, process>>

---------------------------------------------------------------------------
(* The environment                                                         *)

(* The retry scheduler publishes a due entry. *)
RetryDue(j) ==
  /\ delayed[j] # 0 /\ Len(log) < MaxLog
  /\ log' = Append(log, [job |-> j, retry |-> delayed[j]])
  /\ delayed' = [delayed EXCEPT ![j] = 0]
  /\ UNCHANGED <<committed, reader, pc, cur, gated, locked, done, dlq, dropped,
                 forsaken, process>>

(* The TTL of a lock that a dead process has left. *)
LockExpires(j) ==
  /\ j \in locked /\ \A w \in gated : Job(w) # j
  /\ locked' = locked \ {j}
  /\ UNCHANGED <<log, committed, reader, pc, cur, gated, outcome, forsaken, process>>

(* Shutdown: the context of poll and of the workers is cancelled. *)
Stop ==
  /\ up = "running" /\ restarts < MaxRestarts
  /\ up' = "stopping"
  /\ UNCHANGED <<log, committed, reader, pc, cur, gated, locked, outcome, forsaken, restarts>>

InHand == {o \in 1..Len(log) : \/ o = poll
                               \/ \E i \in 1..Len(jobs) : jobs[i] = o
                               \/ \E w \in Workers : pc[w] \in Working /\ cur[w] = o}

(* The process ends: drained after a Stop, or killed, with messages still  *)
(* in hand and locks that stay until their TTL.                            *)
Halt ==
  /\ up # "down" /\ restarts < MaxRestarts
  /\ up' = "down"
  /\ forsaken' = forsaken \cup InHand
  /\ poll' = 0 /\ jobs' = <<>>
  /\ pc' = [w \in Workers |-> "idle"]
  /\ gated' = {}
  /\ UNCHANGED <<log, committed, next, cur, locked, outcome, restarts>>

Restart ==
  /\ up = "down"
  /\ up' = "running"
  /\ restarts' = restarts + 1
  /\ next' = committed + 1
  /\ UNCHANGED <<log, committed, poll, jobs, pc, cur, gated, locked, outcome, forsaken>>

Handle(w) ==
  \/ Take(w) \/ GuardDrops(w) \/ Undecodable(w) \/ Proceed(w) \/ Aborted(w)
  \/ GateAcquired(w) \/ GateFails(w) \/ GateHeld(w)
  \/ BreakerRefuses(w) \/ BreakerAllows(w) \/ FetchSucceeds(w) \/ FetchFails(w)
  \/ SendToDLQ(w) \/ RequeueWithRetry(w) \/ PublishFails(w)
  \/ Commit(w) \/ CommitFails(w) \/ Release(w)

Next == \/ FetchMessage \/ Dispatch \/ PollEnds
        \/ \E w \in Workers : Handle(w)
        \/ \E j \in Jobs : RetryDue(j) \/ LockExpires(j)
        \/ Stop \/ Halt \/ Restart

Spec == Init /\ [][Next]_vars

(* The goroutines run, every call of a worker returns one answer or        *)
(* another, the retry scheduler polls, locks expire, a stopped process     *)
(* ends and one that is down is started again.                             *)
Fairness ==
  /\ WF_vars(FetchMessage) /\ WF_vars(Dispatch)
  /\ \A w \in Workers : WF_vars(Handle(w))
  /\ \A j \in Jobs : WF_vars(RetryDue(j)) /\ WF_vars(LockExpires(j))
  /\ WF_vars(Halt /\ up = "stopping") /\ WF_vars(Restart)

LiveSpec == Spec /\ Fairness

---------------------------------------------------------------------------
(* Properties                                                              *)

Settled(j) == j \in done \cup dlq \cup dropped

(* An offset the process has still to fetch or to finish with. *)
Pending(o) == o >= next \/ o \in InHand

Accounted(j) ==
  \/ Settled(j) \/ delayed[j] # 0
  \/ \E o \in 1..Len(log) : log[o].job = j /\ (Pending(o) \/ o \in forsaken)

(* Whatever fails and whenever the process dies, a job is settled, waits   *)
(* for its retry, or has a message on the partition that is yet to be      *)
(* handled -- or a worker, or the death of one, left that message          *)
(* uncommitted.  No path commits a job away that nobody has taken over.    *)
JobAccounted == \A j \in Jobs : Accounted(j)

(* Neither failures nor gate skips requeue a job past MaxRetries.          *)
RetriesWithinBudget ==
  /\ \A o \in 1..Len(log) : log[o].retry <= MaxRetries
  /\ \A j \in Jobs : delayed[j] <= MaxRetries

(* The gate's lock of a URL is held by one live worker at most, and every  *)
(* worker that holds the gate still finds its URL locked: commits, retries *)
(* and requeues in between give it up exactly once.                        *)
GateHeldOnce ==
  /\ \A w \in gated : Job(w) \in locked
  /\ \A v, w \in gated : Job(v) = Job(w) => v = w

(* Every job is settled in the end, or its message was left uncommitted:   *)
(* retries run out, skipped gates come free, restarts resume.              *)
JobSettles ==
  \A j \in Jobs :
    <>(Settled(j) \/ \E o \in 1..Len(log) : log[o].job = j /\ o \in forsaken)

(* A message that is left uncommitted is consumed again: the committed     *)
(* offset does not pass it while its job is neither settled nor waiting    *)
(* somewhere else.                                                         *)
UncommittedIsRedelivered ==
  \A o \in forsaken :
    LET j == log[o].job
    IN  \/ Settled(j) \/ delayed[j] # 0
        \/ \E p \in 1..Len(log) : log[p].job = j /\ (Pending(p) \/ p > committed)
=============================================================================
