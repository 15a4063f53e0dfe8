------------------------- MODULE FetcherPoolProofs -------------------------
(***************************************************************************)
(* What the fetcher pool guarantees for every number of jobs, workers and  *)
(* restarts, whatever the capacities: no job is lost except through an     *)
(* offset left uncommitted, the retry budget, and the gate's exclusion.    *)
(*                                                                         *)
(* And for any number of instances, hosts and pages, any threshold and any *)
(* amount of trouble: how often an upgrade of a host to the browser        *)
(* publishes its failed pages, that it forgets none of them, and that an   *)
(* operator's rule stays.                                                  *)
(***************************************************************************)
EXTENDS FetcherPool, HostFetch, SequenceTheorems, FiniteSetTheorems, TLAPS

---------------------------------------------------------------------------
(* The inductive invariant                                                 *)

(* What the process has in hand it has fetched, and a fetched offset is    *)
(* one of the log: so a commit stays behind the reader.                    *)
InHandIsFetched ==
  /\ poll < next
  /\ \A i \in 1..Len(jobs) : jobs[i] < next
  /\ \A w \in Workers : pc[w] # "idle" => cur[w] \in 1..Len(log) /\ cur[w] < next

(* A dead process has nothing in hand, so its successor starts from the    *)
(* committed offset with a clean slate; and it has a successor.            *)
DownIsEmpty ==
  /\ up # "running" => restarts < MaxRestarts
  /\ up = "down" => poll = 0 /\ jobs = <<>> /\ \A w \in Workers : pc[w] = "idle"

(* Only a job with a retry left is on its way to the retry scheduler.      *)
RetryLeft == \A w \in Workers : pc[w] = "toRetry" => Retry(w) < MaxRetries

(* The gate is held between Acquire and the deferred release.              *)
GatedIsInside ==
  \A w \in gated : pc[w] \in {"breaker", "fetch", "toDLQ", "toRetry", "commit", "release"}

IInv == /\ TypeOK /\ InHandIsFetched /\ DownIsEmpty /\ RetryLeft /\ GatedIsInside
        /\ JobAccounted /\ RetriesWithinBudget /\ GateHeldOnce

---------------------------------------------------------------------------
(* Facts about the partition and the message a worker handles              *)

LEMMA LogEntries ==
  ASSUME TypeOK
  PROVE  /\ Len(log) \in Nat
         /\ \A o \in 1..Len(log) : log[o].job \in Jobs /\ log[o].retry \in Nat
<1>1. log \in Seq(Messages) /\ Len(log) \in Nat
  BY LenProperties DEF TypeOK
<1>2. \A o \in 1..Len(log) : log[o] \in Messages
  BY <1>1, ElementOfSeq
<1> QED BY <1>1, <1>2 DEF Messages

LEMMA InHandFacts ==
  ASSUME TypeOK, InHandIsFetched, NEW w \in Workers, pc[w] # "idle"
  PROVE  /\ cur[w] \in 1..Len(log) /\ cur[w] < next
         /\ Job(w) \in Jobs /\ Retry(w) \in Nat
BY LogEntries DEF InHandIsFetched, Job, Retry

(* The retry scheduler appends: what was on the partition stays there.     *)
LEMMA Appended ==
  ASSUME TypeOK, NEW j \in Jobs, RetryDue(j)
  PROVE  /\ log' \in Seq(Messages) /\ Len(log') = Len(log) + 1
         /\ \A o \in 1..Len(log) : log'[o] = log[o]
         /\ log'[Len(log) + 1] = [job |-> j, retry |-> delayed[j]]
<1>1. [job |-> j, retry |-> delayed[j]] \in Messages
  BY DEF TypeOK, Messages
<1> QED BY <1>1 DEF TypeOK, RetryDue

LEMMA ChannelEntries ==
  ASSUME TypeOK
  PROVE  /\ Len(jobs) \in Nat /\ DOMAIN jobs = 1..Len(jobs)
         /\ \A i \in 1..Len(jobs) : jobs[i] \in Offsets
<1>1. jobs \in Seq(Offsets)
  BY DEF TypeOK
<1> QED BY <1>1, LenProperties, ElementOfSeq

LEMMA ChannelHead ==
  ASSUME TypeOK, jobs # <<>>
  PROVE  /\ Head(jobs) = jobs[1] /\ 1 \in 1..Len(jobs) /\ Head(jobs) \in Offsets
         /\ Tail(jobs) \in Seq(Offsets) /\ Len(Tail(jobs)) = Len(jobs) - 1
         /\ \A i \in 1..Len(Tail(jobs)) : i + 1 \in 1..Len(jobs) /\ Tail(jobs)[i] = jobs[i + 1]
<1>1. jobs \in Seq(Offsets) /\ Len(jobs) \in Nat \ {0}
  BY EmptySeq DEF TypeOK
<1>2. Head(jobs) = jobs[1]
  BY <1>1
<1>3. Tail(jobs) \in Seq(Offsets) /\ Len(Tail(jobs)) = Len(jobs) - 1
  BY <1>1, HeadTailProperties
<1>4. \A i \in 1..Len(Tail(jobs)) : Tail(jobs)[i] = jobs[i + 1]
  BY <1>1, HeadTailProperties
<1> QED BY <1>1, <1>2, <1>3, <1>4, ChannelEntries

---------------------------------------------------------------------------
(* Type correctness                                                        *)

LEMMA TypeHandle ==
  ASSUME TypeOK, InHandIsFetched, NEW w \in Workers, Handle(w)
  PROVE  TypeOK'
<1> USE FetcherPoolAssumption DEF reader, outcome, process, At, Goto, PCs, Working
<1>1. CASE Take(w)
  <2>1. jobs' \in Seq(Offsets) /\ Len(jobs') <= ChanCap /\ Head(jobs) \in 0..MaxLog
    <3>1. Len(jobs) \in Nat
      BY ChannelEntries
    <3> QED BY <1>1, <3>1, ChannelHead DEF TypeOK, Take, Offsets
  <2> QED BY <1>1, <2>1 DEF TypeOK, Take
<1>2. ASSUME pc[w] # "idle"
      PROVE  cur[w] \in 1..Len(log) /\ cur[w] < next /\ Job(w) \in Jobs /\ Retry(w) + 1 \in Nat
  BY <1>2, InHandFacts
<1>3. CASE GuardDrops(w) \/ FetchSucceeds(w) \/ SendToDLQ(w)
  BY <1>2, <1>3 DEF TypeOK, GuardDrops, FetchSucceeds, SendToDLQ
<1>4. CASE Undecodable(w) \/ Proceed(w) \/ GateFails(w) \/ BreakerRefuses(w) \/ BreakerAllows(w)
  BY <1>4 DEF TypeOK, Undecodable, Proceed, GateFails, BreakerRefuses, BreakerAllows
<1>5. CASE GateHeld(w) \/ FetchFails(w)
  BY <1>5 DEF TypeOK, GateHeld, FetchFails, SkipsTo, Again
<1>6. CASE Aborted(w)
  BY <1>2, <1>6 DEF TypeOK, Aborted, Forsake
<1>7. CASE GateAcquired(w) \/ Release(w)
  BY <1>2, <1>7 DEF TypeOK, GateAcquired, Release
<1>8. CASE RequeueWithRetry(w)
  BY <1>2, <1>8 DEF TypeOK, RequeueWithRetry
<1>9. CASE PublishFails(w)
  <2>1. dlq' \subseteq Jobs /\ delayed' \in [Jobs -> Nat]
    BY <1>2, <1>9 DEF TypeOK, PublishFails
  <2>2. forsaken' \subseteq 1..Len(log)
    BY <1>2, <1>9 DEF TypeOK, PublishFails, Forsake, AfterPublishFailure
  <2> QED BY <1>9, <2>1, <2>2 DEF TypeOK, PublishFails, AfterPublishFailure
<1>10. CASE Commit(w)
  <2>1. cur[w] \in 0..MaxLog /\ cur[w] < next
    BY <1>10 DEF TypeOK, InHandIsFetched, Commit
  <2> QED BY <1>10, <2>1 DEF TypeOK, Commit
<1>11. CASE CommitFails(w)
  BY <1>11 DEF TypeOK, CommitFails
<1> QED BY <1>1, <1>3, <1>4, <1>5, <1>6, <1>7, <1>8, <1>9, <1>10, <1>11 DEF Handle

LEMMA TypeRest ==
  ASSUME TypeOK, InHandIsFetched, DownIsEmpty, Next, \A w \in Workers : ~Handle(w)
  PROVE  TypeOK'
<1> USE FetcherPoolAssumption DEF reader, outcome, process
<1>1. CASE FetchMessage
  BY <1>1 DEF TypeOK, FetchMessage
<1>2. CASE Dispatch
  <2>1. poll \in Offsets
    BY <1>2 DEF TypeOK, Dispatch, Offsets
  <2>2. jobs' \in Seq(Offsets) /\ Len(jobs') = Len(jobs) + 1
    BY <1>2, <2>1 DEF TypeOK, Dispatch
  <2> QED BY <1>2, <2>2 DEF TypeOK, Dispatch, ChannelHasRoom
<1>3. CASE PollEnds
  BY <1>3 DEF TypeOK, PollEnds, InHandIsFetched
<1>4. ASSUME NEW j \in Jobs, RetryDue(j) PROVE TypeOK'
  <2>1. log' \in Seq(Messages) /\ Len(log') = Len(log) + 1
    BY <1>4, Appended
  <2>2. delayed' \in [Jobs -> Nat]
    BY <1>4 DEF TypeOK, RetryDue
  <2> QED BY <1>4, <2>1, <2>2 DEF TypeOK, RetryDue
<1>5. ASSUME NEW j \in Jobs, LockExpires(j) PROVE TypeOK'
  BY <1>5 DEF TypeOK, LockExpires
<1>6. CASE Stop
  BY <1>6 DEF TypeOK, Stop
<1>7. CASE Halt
  <2>1. InHand \subseteq 1..Len(log)
    BY DEF InHand
  <2>2. pc' \in [Workers -> PCs]
    BY <1>7 DEF Halt, PCs
  <2>3. jobs' \in Seq(Offsets) /\ Len(jobs') = 0
    BY <1>7 DEF Halt
  <2>4. forsaken' \subseteq 1..Len(log)
    BY <1>7, <2>1 DEF TypeOK, Halt
  <2>6. poll' \in 0..MaxLog
    BY <1>7 DEF Halt
  <2>5. /\ log' = log /\ committed' = committed /\ next' = next /\ cur' = cur
        /\ gated' = {} /\ up' = "down" /\ UNCHANGED <<locked, outcome, restarts>>
    BY <1>7 DEF Halt
  <2> QED BY <2>2, <2>3, <2>4, <2>5, <2>6 DEF TypeOK
<1>8. CASE Restart
  BY <1>8 DEF TypeOK, DownIsEmpty, Restart
<1> QED BY <1>1, <1>2, <1>3, <1>4, <1>5, <1>6, <1>7, <1>8 DEF Next

---------------------------------------------------------------------------
(* The rest of the inductive invariant                                     *)

LEMMA FetchedStep ==
  ASSUME TypeOK, InHandIsFetched, DownIsEmpty, Next
  PROVE  InHandIsFetched'
<1> USE DEF reader, outcome, process, At, Goto
<1>1. ASSUME NEW w \in Workers, Take(w) PROVE InHandIsFetched'
  <2>1. \A i \in 1..Len(jobs') : jobs'[i] < next
    BY <1>1, ChannelHead DEF InHandIsFetched, Take
  <2>2. Head(jobs) \in 1..Len(log) /\ Head(jobs) < next
    BY <1>1, ChannelHead DEF TypeOK, InHandIsFetched, Take, Offsets
  <2> QED BY <1>1, <2>1, <2>2 DEF TypeOK, InHandIsFetched, Take
<1>2. ASSUME NEW w \in Workers, Handle(w), ~Take(w) PROVE InHandIsFetched'
  <2>1. /\ UNCHANGED <<log, next, poll, jobs, cur>>
        /\ pc[w] # "idle" /\ \A v \in Workers \ {w} : pc'[v] = pc[v]
    BY <1>2 DEF TypeOK, Handle, GuardDrops, Undecodable, Proceed, Aborted, GateAcquired,
         GateFails, GateHeld, BreakerRefuses, BreakerAllows, FetchSucceeds, FetchFails,
         SendToDLQ, RequeueWithRetry, PublishFails, Commit, CommitFails, Release
  <2> QED BY <2>1 DEF InHandIsFetched
<1>3. CASE FetchMessage
  <2>1. next \in Nat /\ \A i \in 1..Len(jobs) : jobs[i] \in Nat
    BY <1>3, ChannelEntries DEF TypeOK, FetchMessage, Offsets
  <2>2. poll' = next /\ next' = next + 1 /\ UNCHANGED <<log, jobs, pc, cur>>
    BY <1>3 DEF FetchMessage
  <2>3. \A w \in Workers : pc[w] # "idle" => cur[w] \in 1..Len(log) /\ cur[w] < next'
    BY <2>1, <2>2, LogEntries DEF InHandIsFetched
  <2>4. \A i \in 1..Len(jobs) : jobs[i] < next'
    BY <2>1, <2>2 DEF InHandIsFetched
  <2> QED BY <2>1, <2>2, <2>3, <2>4 DEF InHandIsFetched
<1>4. CASE Dispatch
  <2>1. Len(jobs) \in Nat /\ poll \in Offsets
    BY <1>4, ChannelEntries DEF TypeOK, Dispatch, Offsets
  <2>2. Len(jobs') = Len(jobs) + 1 /\ \A i \in 1..Len(jobs') : jobs'[i] < next
    BY <1>4, <2>1 DEF TypeOK, InHandIsFetched, Dispatch
  <2> QED BY <1>4, <2>2 DEF TypeOK, InHandIsFetched, Dispatch
<1>5. CASE PollEnds
  BY <1>5 DEF TypeOK, InHandIsFetched, PollEnds
<1>6. ASSUME NEW j \in Jobs, RetryDue(j) PROVE InHandIsFetched'
  <2>1. Len(log) \in Nat /\ Len(log') = Len(log) + 1
    BY <1>6, Appended, LogEntries
  <2> QED BY <1>6, <2>1 DEF InHandIsFetched, RetryDue
<1>7. ASSUME NEW j \in Jobs, LockExpires(j) PROVE InHandIsFetched'
  BY <1>7 DEF InHandIsFetched, LockExpires
<1>8. CASE Stop
  BY <1>8 DEF InHandIsFetched, Stop
<1>9. CASE Halt
  BY <1>9 DEF TypeOK, InHandIsFetched, Halt
<1>10. CASE Restart
  BY <1>10 DEF TypeOK, InHandIsFetched, DownIsEmpty, Restart
<1> QED BY <1>1, <1>2, <1>3, <1>4, <1>5, <1>6, <1>7, <1>8, <1>9, <1>10 DEF Next

LEMMA DownStep ==
  ASSUME TypeOK, DownIsEmpty, Next
  PROVE  DownIsEmpty'
<1> USE DEF reader, outcome, process, At, Goto
<1>1. ASSUME NEW w \in Workers, Handle(w) PROVE DownIsEmpty'
  <2>1. up # "down" /\ UNCHANGED <<up, restarts>>
    BY <1>1 DEF Handle, Take, GuardDrops, Undecodable, Proceed, Aborted, GateAcquired,
         GateFails, GateHeld, BreakerRefuses, BreakerAllows, FetchSucceeds, FetchFails,
         SendToDLQ, RequeueWithRetry, PublishFails, Commit, CommitFails, Release
  <2> QED BY <2>1 DEF DownIsEmpty
<1>2. CASE FetchMessage \/ Dispatch \/ PollEnds
  BY <1>2 DEF DownIsEmpty, FetchMessage, Dispatch, PollEnds
<1>3. ASSUME NEW j \in Jobs, RetryDue(j) \/ LockExpires(j) PROVE DownIsEmpty'
  BY <1>3 DEF DownIsEmpty, RetryDue, LockExpires
<1>4. CASE Stop \/ Halt \/ Restart
  BY <1>4 DEF TypeOK, DownIsEmpty, Stop, Halt, Restart
<1> QED BY <1>1, <1>2, <1>3, <1>4 DEF Next

LEMMA RetryLeftStep ==
  ASSUME TypeOK, InHandIsFetched, RetryLeft, Next
  PROVE  RetryLeft'
<1> USE DEF reader, outcome, process, At, Goto
<1>1. ASSUME NEW w \in Workers, Handle(w) PROVE RetryLeft'
  <2>1. CASE GateHeld(w) \/ FetchFails(w)
    <3>1. pc'[w] = "toRetry" => Retry(w) < MaxRetries
      <4>1. Retry(w) \in Nat
        BY <2>1, InHandFacts DEF GateHeld, FetchFails
      <4>2. pc'[w] = Again(w)
        BY <2>1 DEF TypeOK, GateHeld, FetchFails, SkipsTo
      <4> QED BY <4>1, <4>2, FetcherPoolAssumption DEF Again, Exhausted
    <3>2. UNCHANGED <<log, cur>> /\ \A v \in Workers \ {w} : pc'[v] = pc[v]
      BY <2>1 DEF TypeOK, GateHeld, FetchFails
    <3> QED BY <3>1, <3>2 DEF RetryLeft, Retry
  <2>2. CASE ~(GateHeld(w) \/ FetchFails(w))
    <3>1. /\ pc'[w] # "toRetry" /\ log' = log
          /\ \A v \in Workers \ {w} : pc'[v] = pc[v] /\ cur'[v] = cur[v]
      BY <1>1, <2>2 DEF TypeOK, Handle, Take, GuardDrops, Undecodable, Proceed, Aborted,
           GateAcquired, GateFails, BreakerRefuses, BreakerAllows, FetchSucceeds,
              SendToDLQ,
           RequeueWithRetry, PublishFails, AfterPublishFailure, Commit, CommitFails,
              Release
    <3> QED BY <3>1 DEF RetryLeft, Retry
  <2> QED BY <2>1, <2>2
<1>2. CASE FetchMessage \/ Dispatch \/ PollEnds \/ Stop \/ Restart
  BY <1>2 DEF RetryLeft, Retry, FetchMessage, Dispatch, PollEnds, Stop, Restart
<1>3. CASE Halt
  BY <1>3 DEF RetryLeft, Halt
<1>4. ASSUME NEW j \in Jobs, RetryDue(j) PROVE RetryLeft'
  <2>1. \A w \in Workers : pc[w] # "idle" => log'[cur[w]] = log[cur[w]]
    BY <1>4, Appended, InHandFacts
  <2> QED BY <1>4, <2>1 DEF RetryLeft, Retry, RetryDue
<1>5. ASSUME NEW j \in Jobs, LockExpires(j) PROVE RetryLeft'
  BY <1>5 DEF RetryLeft, Retry, LockExpires
<1> QED BY <1>1, <1>2, <1>3, <1>4, <1>5 DEF Next

LEMMA GatedStep ==
  ASSUME TypeOK, GatedIsInside, Next
  PROVE  GatedIsInside'
<1> USE DEF reader, outcome, process, At, Goto
<1>1. ASSUME NEW w \in Workers, Handle(w) PROVE GatedIsInside'
  BY <1>1 DEF TypeOK, GatedIsInside, Handle, Take, GuardDrops, Undecodable, Proceed,
     Aborted,
       GateAcquired, GateFails, GateHeld, BreakerRefuses, BreakerAllows,
          FetchSucceeds, FetchFails,
       SendToDLQ, RequeueWithRetry, PublishFails, Commit, CommitFails, Release,
       SkipsTo, Again, AfterPublishFailure
<1>2. CASE FetchMessage \/ Dispatch \/ PollEnds \/ Stop \/ Halt \/ Restart
  BY <1>2 DEF GatedIsInside, FetchMessage, Dispatch, PollEnds, Stop, Halt, Restart
<1>3. ASSUME NEW j \in Jobs, RetryDue(j) \/ LockExpires(j) PROVE GatedIsInside'
  BY <1>3 DEF GatedIsInside, RetryDue, LockExpires
<1> QED BY <1>1, <1>2, <1>3 DEF Next

---------------------------------------------------------------------------
(* The safety properties                                                   *)

LEMMA BudgetStep ==
  ASSUME TypeOK, InHandIsFetched, RetryLeft, RetriesWithinBudget, Next
  PROVE  RetriesWithinBudget'
<1> USE FetcherPoolAssumption DEF reader, outcome, process, At, Goto
<1>1. ASSUME NEW w \in Workers, Handle(w) PROVE RetriesWithinBudget'
  <2>1. CASE RequeueWithRetry(w) \/ PublishFails(w)
    <3>1. delayed' \in {delayed, [delayed EXCEPT ![Job(w)] = Retry(w) + 1]} /\ log' = log
      BY <2>1 DEF RequeueWithRetry, PublishFails
    <3>2. delayed' # delayed => pc[w] = "toRetry"
      BY <2>1 DEF RequeueWithRetry, PublishFails
    <3>3. pc[w] = "toRetry" => Retry(w) + 1 <= MaxRetries
      BY InHandFacts DEF RetryLeft
    <3> QED BY <3>1, <3>2, <3>3 DEF TypeOK, RetriesWithinBudget
  <2>2. CASE ~(RequeueWithRetry(w) \/ PublishFails(w))
    <3>1. log' = log /\ delayed' = delayed
      BY <1>1, <2>2 DEF Handle, Take, GuardDrops, Undecodable, Proceed, Aborted,
         GateAcquired,
           GateFails, GateHeld, BreakerRefuses, BreakerAllows, FetchSucceeds,
              FetchFails,
           SendToDLQ, Commit, CommitFails, Release
    <3> QED BY <3>1 DEF RetriesWithinBudget
  <2> QED BY <2>1, <2>2
<1>2. ASSUME NEW j \in Jobs, RetryDue(j) PROVE RetriesWithinBudget'
  <2>1. \A o \in 1..Len(log') : log'[o].retry <= MaxRetries
    <3>1. Len(log) \in Nat /\ delayed[j] <= MaxRetries
      BY LogEntries DEF RetriesWithinBudget
    <3>2. /\ Len(log') = Len(log) + 1 /\ \A o \in 1..Len(log) : log'[o] = log[o]
          /\ log'[Len(log) + 1] = [job |-> j, retry |-> delayed[j]]
      BY <1>2, Appended
    <3>3. \A o \in 1..Len(log') : o \in 1..Len(log) \/ o = Len(log) + 1
      BY <3>1, <3>2
    <3> QED BY <3>1, <3>2, <3>3 DEF RetriesWithinBudget
  <2>2. \A i \in Jobs : delayed'[i] <= MaxRetries
    BY <1>2 DEF TypeOK, RetriesWithinBudget, RetryDue
  <2> QED BY <2>1, <2>2 DEF RetriesWithinBudget
<1>3. CASE FetchMessage \/ Dispatch \/ PollEnds \/ Stop \/ Halt \/ Restart
  BY <1>3 DEF RetriesWithinBudget, FetchMessage, Dispatch, PollEnds, Stop, Halt, Restart
<1>4. ASSUME NEW j \in Jobs, LockExpires(j) PROVE RetriesWithinBudget'
  BY <1>4 DEF RetriesWithinBudget, LockExpires
<1> QED BY <1>1, <1>2, <1>3, <1>4 DEF Next

LEMMA OnceStep ==
  ASSUME TypeOK, InHandIsFetched, GatedIsInside, GateHeldOnce, Next
  PROVE  GateHeldOnce'
<1> USE DEF reader, outcome, process, At, Goto
<1>1. ASSUME NEW w \in Workers, Take(w) PROVE GateHeldOnce'
  <2>1. w \notin gated /\ UNCHANGED <<log, gated, locked>> /\ \A v \in gated : cur'[v] = cur[v]
    BY <1>1 DEF TypeOK, GatedIsInside, Take
  <2> QED BY <2>1 DEF GateHeldOnce, Job
<1>2. ASSUME NEW w \in Workers, GateAcquired(w) PROVE GateHeldOnce'
  <2>1. Job(w) \notin locked /\ gated' = gated \cup {w} /\ locked' = locked \cup {Job(w)}
    BY <1>2 DEF GateAcquired
  <2>2. \A v \in Workers : Job(v)' = Job(v)
    BY <1>2 DEF GateAcquired, Job
  <2> QED BY <2>1, <2>2 DEF TypeOK, GateHeldOnce
<1>3. ASSUME NEW w \in Workers, Release(w) PROVE GateHeldOnce'
  <2>1. /\ locked' = IF w \in gated THEN locked \ {Job(w)} ELSE locked
        /\ gated' = gated \ {w}
    BY <1>3 DEF Release
  <2>2. \A v \in Workers : Job(v)' = Job(v)
    BY <1>3 DEF Release, Job
  <2> QED BY <2>1, <2>2 DEF TypeOK, GateHeldOnce
<1>4. ASSUME NEW w \in Workers, Handle(w), ~Take(w), ~GateAcquired(w), ~Release(w)
      PROVE  GateHeldOnce'
  <2>1. UNCHANGED <<log, cur, gated, locked>>
    BY <1>4 DEF Handle, GuardDrops, Undecodable, Proceed, Aborted, GateFails, GateHeld,
         BreakerRefuses, BreakerAllows, FetchSucceeds, FetchFails, SendToDLQ,
         RequeueWithRetry, PublishFails, Commit, CommitFails
  <2> QED BY <2>1 DEF GateHeldOnce, Job
<1>5. CASE FetchMessage \/ Dispatch \/ PollEnds \/ Stop \/ Restart
  BY <1>5 DEF GateHeldOnce, Job, FetchMessage, Dispatch, PollEnds, Stop, Restart
<1>6. CASE Halt
  BY <1>6 DEF GateHeldOnce, Halt
<1>7. ASSUME NEW j \in Jobs, RetryDue(j) PROVE GateHeldOnce'
  <2>1. \A w \in gated : Job(w)' = Job(w)
    <3> SUFFICES ASSUME NEW w \in gated PROVE Job(w)' = Job(w)
      OBVIOUS
    <3>1. w \in Workers /\ pc[w] # "idle"
      BY DEF TypeOK, GatedIsInside
    <3>2. cur[w] \in 1..Len(log)
      BY <3>1, InHandFacts
    <3> QED BY <1>7, <3>2, Appended DEF Job, RetryDue
  <2>2. UNCHANGED <<gated, locked>>
    BY <1>7 DEF RetryDue
  <2> QED BY <2>1, <2>2 DEF GateHeldOnce
<1>8. ASSUME NEW j \in Jobs, LockExpires(j) PROVE GateHeldOnce'
  BY <1>8 DEF GateHeldOnce, Job, LockExpires
<1> QED BY <1>1, <1>2, <1>3, <1>4, <1>5, <1>6, <1>7, <1>8 DEF Next

(* While the log and the reader stand still, a job stays accounted for if  *)
(* each of its messages in hand stays there, is left uncommitted, or has   *)
(* settled the job or passed it to the retry scheduler.                    *)
LEMMA KeepsAccounted ==
  ASSUME NEW j \in Jobs, Accounted(j), UNCHANGED <<log, next>>,
         done \subseteq done', dlq \subseteq dlq', dropped \subseteq dropped',
         delayed[j] # 0 => delayed'[j] # 0, forsaken \subseteq forsaken',
         \A o \in InHand : \/ o \in InHand' \/ o \in forsaken'
                           \/ o \in 1..Len(log) /\ log[o].job = j
                                => Settled(j)' \/ delayed'[j] # 0
  PROVE  Accounted(j)'
BY DEF Accounted, Pending, Settled

LEMMA AccountedHandle ==
  ASSUME TypeOK, TypeOK', InHandIsFetched, NEW j \in Jobs, Accounted(j),
         NEW w \in Workers, Handle(w), ~Take(w)
  PROVE  Accounted(j)'
<1> USE DEF reader, outcome, process, At, Goto
<1>1. UNCHANGED <<log, next, poll, jobs, cur>> /\ pc[w] # "idle"
  BY DEF Handle, GuardDrops, Undecodable, Proceed, Aborted, GateAcquired, GateFails,
     GateHeld, BreakerRefuses, BreakerAllows, FetchSucceeds, FetchFails, SendToDLQ,
     RequeueWithRetry, PublishFails, Commit, CommitFails, Release
<1>2. \A v \in Workers \ {w} : pc'[v] = pc[v]
  BY DEF TypeOK, Handle, GuardDrops, Undecodable, Proceed, Aborted, GateAcquired,
     GateFails,
     GateHeld, BreakerRefuses, BreakerAllows, FetchSucceeds, FetchFails, SendToDLQ,
     RequeueWithRetry, PublishFails, Commit, CommitFails, Release
<1>3. done \subseteq done' /\ dlq \subseteq dlq' /\ dropped \subseteq dropped'
      /\ forsaken \subseteq forsaken'
  BY DEF Handle, GuardDrops, Undecodable, Proceed, Aborted, GateAcquired, GateFails,
     GateHeld, BreakerRefuses, BreakerAllows, FetchSucceeds, FetchFails, SendToDLQ,
     RequeueWithRetry, PublishFails, Forsake, Commit, CommitFails, Release
<1>4. Job(w) \in Jobs /\ Retry(w) + 1 \in Nat \ {0}
  BY <1>1, InHandFacts
<1>5. delayed[j] # 0 => delayed'[j] # 0
  <2>1. delayed' \in {delayed, [delayed EXCEPT ![Job(w)] = Retry(w) + 1]}
    BY DEF Handle, GuardDrops, Undecodable, Proceed, Aborted, GateAcquired, GateFails,
       GateHeld, BreakerRefuses, BreakerAllows, FetchSucceeds, FetchFails, SendToDLQ,
       RequeueWithRetry, PublishFails, Commit, CommitFails, Release
  <2> QED BY <2>1, <1>4 DEF TypeOK
<1>6. pc[w] \in Working => \/ pc'[w] \in Working \/ cur[w] \in forsaken'
                           \/ Settled(Job(w))' \/ delayed'[Job(w)] # 0
  <2>1. CASE Undecodable(w) \/ Proceed(w) \/ GateAcquired(w) \/ GateFails(w)
               \/ BreakerRefuses(w) \/ BreakerAllows(w)
    BY <2>1 DEF TypeOK, Undecodable, Proceed, GateAcquired, GateFails, BreakerRefuses,
         BreakerAllows, Working
  <2>2. CASE GateHeld(w) \/ FetchFails(w)
    BY <2>2 DEF TypeOK, GateHeld, FetchFails, SkipsTo, Again, Working
  <2>3. CASE Aborted(w) \/ PublishFails(w)
    BY <2>3 DEF Aborted, PublishFails, AfterPublishFailure, Forsake
  <2>4. CASE GuardDrops(w) \/ FetchSucceeds(w) \/ SendToDLQ(w)
    <3>1. Job(w)' = Job(w)
      BY <1>1 DEF Job
    <3> QED BY <2>4, <3>1 DEF GuardDrops, FetchSucceeds, SendToDLQ, Settled
  <2>5. CASE RequeueWithRetry(w)
    BY <2>5, <1>4 DEF TypeOK, RequeueWithRetry
  <2>6. CASE Commit(w) \/ CommitFails(w) \/ Release(w)
    BY <2>6 DEF Commit, CommitFails, Release, Working
  <2> QED BY <2>1, <2>2, <2>3, <2>4, <2>5, <2>6 DEF Handle
<1>7. ASSUME NEW o \in InHand
      PROVE  \/ o \in InHand' \/ o \in forsaken'
             \/ o \in 1..Len(log) /\ log[o].job = j => Settled(j)' \/ delayed'[j] # 0
  <2>1. CASE o = poll \/ \E i \in 1..Len(jobs) : jobs[i] = o
    BY <1>1, <2>1 DEF InHand
  <2>2. ASSUME NEW v \in Workers \ {w}, pc[v] \in Working, cur[v] = o PROVE o \in InHand'
    BY <1>1, <1>2, <2>2 DEF InHand
  <2>3. CASE pc[w] \in Working /\ cur[w] = o
    <3>1. CASE pc'[w] \in Working
      BY <1>1, <2>3, <3>1 DEF InHand
    <3>2. CASE pc'[w] \notin Working
      <4>1. Job(w) = log[o].job
        BY <2>3 DEF Job
      <4>2. Job(w)' = Job(w)
        BY <1>1 DEF Job
      <4> QED BY <1>6, <2>3, <3>2, <4>1, <4>2 DEF Settled
    <3> QED BY <3>1, <3>2
  <2> QED BY <2>1, <2>2, <2>3 DEF InHand
<1> QED BY <1>1, <1>3, <1>5, <1>7, KeepsAccounted

LEMMA AccountedRest ==
  ASSUME TypeOK, InHandIsFetched, DownIsEmpty, NEW j \in Jobs, Accounted(j),
         Next, \A w \in Workers : Handle(w) => Take(w)
  PROVE  Accounted(j)'
<1> USE DEF reader, outcome, process, At, Goto
<1>1. ASSUME NEW w \in Workers, Take(w) PROVE Accounted(j)'
  <2>1. /\ pc' = [pc EXCEPT ![w] = "start"] /\ cur' = [cur EXCEPT ![w] = jobs[1]]
        /\ pc[w] = "idle" /\ jobs' = Tail(jobs) /\ poll' = poll /\ log' = log
    BY <1>1, ChannelHead DEF Take
  <2>2. pc'[w] \in Working /\ cur'[w] = jobs[1]
    BY <2>1 DEF TypeOK, Working
  <2>3. ASSUME NEW o \in InHand PROVE o \in InHand'
    <3>1. CASE o = poll
      BY <2>1, <3>1 DEF InHand
    <3>2. ASSUME NEW i \in 1..Len(jobs), jobs[i] = o PROVE o \in InHand'
      <4>1. CASE i = 1
        BY <2>1, <2>2, <3>2, <4>1 DEF InHand
      <4>2. CASE i # 1
        <5>1. i - 1 \in 1..Len(jobs') /\ jobs'[i - 1] = o
          BY <1>1, <2>1, <3>2, <4>2, ChannelHead, ChannelEntries DEF Take
        <5> QED BY <2>1, <5>1 DEF InHand
      <4> QED BY <4>1, <4>2
    <3>3. ASSUME NEW v \in Workers, pc[v] \in Working, cur[v] = o PROVE o \in InHand'
      <4>1. v # w
        BY <2>1, <3>3 DEF Working
      <4>2. pc'[v] = pc[v] /\ cur'[v] = cur[v]
        BY <2>1, <4>1 DEF TypeOK
      <4> QED BY <2>1, <3>3, <4>2 DEF InHand
    <3> QED BY <3>1, <3>2, <3>3 DEF InHand
  <2>4. UNCHANGED <<next, outcome, forsaken>>
    BY <1>1 DEF Take
  <2> QED BY <2>1, <2>3, <2>4, KeepsAccounted
<1>2. CASE FetchMessage
  <2>1. /\ poll = 0 /\ poll' = next /\ next' = next + 1 /\ forsaken' = forsaken \ {next}
        /\ UNCHANGED <<log, jobs, pc, cur, outcome>> /\ next \in 1..Len(log)
    BY <1>2 DEF TypeOK, FetchMessage
  <2>2. ASSUME NEW o \in 1..Len(log), Pending(o) \/ o \in forsaken
        PROVE  Pending(o)' \/ o \in forsaken'
    <3>1. CASE o = next
      BY <2>1, <3>1 DEF Pending, InHand
    <3>2. CASE o >= next /\ o # next
      BY <2>1, <3>2, LogEntries DEF Pending
    <3>3. CASE o \in InHand
      BY <2>1, <3>3 DEF Pending, InHand
    <3>4. CASE o \in forsaken /\ o # next
      BY <2>1, <3>4
    <3> QED BY <2>2, <3>1, <3>2, <3>3, <3>4 DEF Pending
  <2> QED BY <2>1, <2>2 DEF Accounted, Settled
<1>3. CASE Dispatch
  <2>1. Len(jobs) \in Nat /\ poll \in Offsets
    BY <1>3, ChannelEntries DEF TypeOK, Dispatch, Offsets
  <2>2. /\ Len(jobs') = Len(jobs) + 1 /\ jobs'[Len(jobs) + 1] = poll
        /\ \A i \in 1..Len(jobs) : i \in 1..Len(jobs') /\ jobs'[i] = jobs[i]
    BY <1>3, <2>1 DEF TypeOK, Dispatch
  <2>3. UNCHANGED <<log, next, pc, cur, outcome, forsaken>>
    BY <1>3 DEF Dispatch
  <2>4. Len(jobs) + 1 \in 1..Len(jobs')
    BY <2>1, <2>2
  <2>5. ASSUME NEW o \in InHand PROVE o \in InHand'
    BY <2>2, <2>3, <2>4 DEF InHand
  <2> QED BY <2>3, <2>5, KeepsAccounted
<1>4. CASE PollEnds
  <2>1. /\ forsaken' = forsaken \cup {poll} /\ UNCHANGED <<log, next, jobs, pc, cur, outcome>>
    BY <1>4 DEF PollEnds
  <2>2. ASSUME NEW o \in InHand PROVE o \in InHand' \/ o \in forsaken'
    BY <2>1 DEF InHand
  <2> QED BY <2>1, <2>2, KeepsAccounted
<1>5. ASSUME NEW i \in Jobs, RetryDue(i) PROVE Accounted(j)'
  <2>1. /\ UNCHANGED <<next, poll, jobs, pc, cur, done, dlq, dropped, forsaken>>
        /\ delayed' = [delayed EXCEPT ![i] = 0]
    BY <1>5 DEF RetryDue
  <2>2. /\ Len(log) \in Nat /\ Len(log') = Len(log) + 1
        /\ \A o \in 1..Len(log) : log'[o] = log[o]
        /\ log'[Len(log) + 1] = [job |-> i, retry |-> delayed[i]]
    BY <1>5, Appended, LogEntries
  <2>3. \A o \in 1..Len(log) : o \in 1..Len(log')
    BY <2>2
  <2>4. CASE i = j
    <3>1. Len(log) + 1 \in 1..Len(log') /\ Len(log) + 1 >= next
      BY <2>2 DEF TypeOK
    <3>2. log'[Len(log) + 1].job = j
      BY <2>2, <2>4
    <3> QED BY <2>1, <3>1, <3>2 DEF Accounted, Pending
  <2>5. CASE i # j
    <3>1. delayed'[j] = delayed[j]
      BY <2>1, <2>5 DEF TypeOK
    <3>2. InHand \subseteq InHand'
      BY <2>1, <2>3 DEF InHand
    <3>3. \A o \in 1..Len(log) : Pending(o) => Pending(o)'
      BY <2>1, <3>2 DEF Pending
    <3> QED BY <2>1, <2>2, <2>3, <3>1, <3>3 DEF Accounted, Settled
  <2> QED BY <2>4, <2>5
<1>6. ASSUME NEW i \in Jobs, LockExpires(i) PROVE Accounted(j)'
  BY <1>6 DEF LockExpires, Accounted, Settled, Pending, InHand
<1>7. CASE Stop
  BY <1>7 DEF Stop, Accounted, Settled, Pending, InHand
<1>8. CASE Halt
  <2>1. UNCHANGED <<log, next, outcome>> /\ forsaken' = forsaken \cup InHand
    BY <1>8 DEF Halt
  <2> QED BY <2>1, KeepsAccounted
<1>9. CASE Restart
  <2>1. /\ UNCHANGED <<log, poll, jobs, pc, cur, outcome, forsaken>>
        /\ next' = committed + 1 /\ next \in Nat /\ committed \in Nat /\ committed < next
    BY <1>9 DEF TypeOK, Restart
  <2>2. \A o \in 1..Len(log) : Pending(o) => Pending(o)'
    BY <2>1, LogEntries DEF Pending, InHand
  <2> QED BY <2>1, <2>2 DEF Accounted, Settled
<1> QED BY <1>1, <1>2, <1>3, <1>4, <1>5, <1>6, <1>7, <1>8, <1>9 DEF Next

---------------------------------------------------------------------------
(* The theorems                                                            *)

LEMMA InitIInv == Init => IInv
<1> SUFFICES ASSUME Init PROVE IInv
  OBVIOUS
<1> USE FetcherPoolAssumption
<1>1. /\ NumJobs \in Nat /\ log \in Seq(Messages) /\ Len(log) = NumJobs
      /\ \A o \in 1..NumJobs : log[o] = [job |-> o, retry |-> 0]
  BY DEF Init, Jobs, Messages
<1>2. jobs \in Seq(Offsets) /\ Len(jobs) = 0
  BY DEF Init
<1>3. TypeOK
  BY <1>1, <1>2 DEF Init, TypeOK, PCs
<1>4. InHandIsFetched /\ DownIsEmpty /\ RetryLeft /\ GatedIsInside /\ GateHeldOnce
  BY <1>2 DEF Init, InHandIsFetched, DownIsEmpty, RetryLeft, GatedIsInside, GateHeldOnce
<1>5. RetriesWithinBudget
  BY <1>1 DEF Init, RetriesWithinBudget
<1>6. JobAccounted
  <2> SUFFICES ASSUME NEW j \in Jobs PROVE Accounted(j)
    BY DEF JobAccounted
  <2>1. j \in 1..Len(log) /\ log[j].job = j /\ j >= next
    BY <1>1 DEF Init, Jobs
  <2> QED BY <2>1 DEF Accounted, Pending
<1> QED BY <1>3, <1>4, <1>5, <1>6 DEF IInv

LEMMA NextIInv == IInv /\ [Next]_vars => IInv'
<1> SUFFICES ASSUME IInv, [Next]_vars PROVE IInv'
  OBVIOUS
<1>1. CASE Next
  <2> USE DEF IInv
  <2>1. TypeOK'
    BY <1>1, TypeHandle, TypeRest
  <2>2. InHandIsFetched' /\ DownIsEmpty' /\ RetryLeft' /\ GatedIsInside'
    BY <1>1, FetchedStep, DownStep, RetryLeftStep, GatedStep
  <2>3. RetriesWithinBudget' /\ GateHeldOnce'
    BY <1>1, BudgetStep, OnceStep
  <2>4. ASSUME NEW j \in Jobs PROVE Accounted(j)'
    <3>1. Accounted(j)
      BY DEF JobAccounted
    <3> QED BY <1>1, <2>1, <3>1, AccountedHandle, AccountedRest
  <2> QED BY <2>1, <2>2, <2>3, <2>4 DEF JobAccounted
<1>2. CASE UNCHANGED vars
  BY <1>2 DEF vars, reader, outcome, process, IInv, TypeOK, InHandIsFetched,
     DownIsEmpty,
     RetryLeft, GatedIsInside, JobAccounted, Accounted, Settled, Pending, InHand,
     RetriesWithinBudget, GateHeldOnce, Job, Retry
<1> QED BY <1>1, <1>2

LEMMA IInvAlways == Spec => []IInv
BY InitIInv, NextIInv, PTL DEF Spec

(* The pool's variables keep their types: the channel its capacity, the    *)
(* committed offset its place behind the reader.                           *)
THEOREM TypeCorrect == Spec => []TypeOK
<1>1. IInv => TypeOK
  BY DEF IInv
<1> QED BY <1>1, IInvAlways, PTL

(* processJob's exits and the harness lose no job: each is settled, waits  *)
(* for its retry, is still to be handled, or was left uncommitted.         *)
THEOREM NoJobLost == Spec => []JobAccounted
<1>1. IInv => JobAccounted
  BY DEF IInv
<1> QED BY <1>1, IInvAlways, PTL

(* requeueWithRetry and requeueGateSkip keep to CrawlJob.MaxRetries.       *)
THEOREM BudgetKept == Spec => []RetriesWithinBudget
<1>1. IInv => RetriesWithinBudget
  BY DEF IInv
<1> QED BY <1>1, IInvAlways, PTL

(* The deferred release gives the gate up exactly once on every exit.      *)
THEOREM GateOnce == Spec => []GateHeldOnce
<1>1. IInv => GateHeldOnce
  BY DEF IInv
<1> QED BY <1>1, IInvAlways, PTL

---------------------------------------------------------------------------
(* How the pages of a host are fetched                                     *)

(* The constants, and the bound on what may go wrong.                      *)
LEMMA Constants ==
  /\ Threshold \in Nat /\ PeekMax \in Nat /\ Slots \in Nat /\ MaxTrouble \in Nat
  /\ HostOf \in [Pages -> Hosts] /\ Nobody \notin Instances /\ IsFiniteSet(Pages)
BY HostFetchAssumption

LEMMA FaultsTyped ==
  ASSUME HostTypeOK
  PROVE  /\ Well => faults' \in 0..MaxTrouble /\ changes' \in 0..MaxTrouble /\ faults' = faults
         /\ Fault => /\ faults' \in 0..MaxTrouble /\ changes' \in 0..MaxTrouble
                      /\ faults' = faults + 1
         /\ Change => /\ faults' \in 0..MaxTrouble /\ changes' \in 0..MaxTrouble
                       /\ faults' = faults
BY Constants DEF HostTypeOK, Well, Fault, Change, Calm

(* Where a page's job goes: to a topic, or on in the plain chain.          *)
LEMMA PageGoes ==
  ASSUME HostTypeOK, NEW p \in Pages, NEW step \in PageSteps, Leaves(p, step)
  PROVE  /\ at' \in [Pages -> PageSteps] /\ on' \in [Pages -> Instances \cup {Nobody}]
         /\ at'[p] = step /\ \A q \in Pages \ {p} : at'[q] = at[q]
BY DEF HostTypeOK, Leaves

LEMMA PageChosen ==
  ASSUME HostTypeOK, NEW p \in Pages, NEW i \in Instances \cup {Nobody}, NEW r, Chosen(p, i, r)
  PROVE  /\ at' \in [Pages -> PageSteps] /\ on' \in [Pages -> Instances \cup {Nobody}]
         /\ at'[p] \in {"browser", "plain"} /\ \A q \in Pages \ {p} : at'[q] = at[q]
<1>1. {"browser", "plain"} \subseteq PageSteps
  BY DEF PageSteps
<1>2. CASE Leaves(p, "browser")
  BY <1>1, <1>2, PageGoes
<1>3. CASE at' = [at EXCEPT ![p] = "plain"] /\ on' = [on EXCEPT ![p] = i]
  BY <1>1, <1>3 DEF HostTypeOK
<1>. QED  BY <1>2, <1>3 DEF Chosen

(* An upgrade goes on or stops, and no other upgrade with it.              *)
LEMMA TriggerGoes ==
  ASSUME HostTypeOK, NEW p \in Pages
  PROVE  /\ trigger[p] \in Triggers /\ NoTrigger \in Triggers /\ NoTrigger.ids = {}
         /\ NoTrigger.step = "idle"
         /\ NoTrigger.msgs = {}
         /\ \A step \in TriggerSteps : Steps(p, step) =>
              /\ trigger' \in [Pages -> Triggers] /\ trigger'[p].step = step
              /\ trigger'[p].ids = trigger[p].ids /\ trigger'[p].msgs = trigger[p].msgs
              /\ \A q \in Pages \ {p} : trigger'[q] = trigger[q]
         /\ Stops(p) =>
              /\ trigger' \in [Pages -> Triggers] /\ trigger'[p] = NoTrigger
              /\ \A q \in Pages \ {p} : trigger'[q] = trigger[q]
<1>1. trigger[p] \in Triggers
  BY DEF HostTypeOK
<1>2. /\ NoTrigger \in Triggers /\ NoTrigger.ids = {} /\ NoTrigger.step = "idle"
      /\ NoTrigger.msgs = {}
  BY DEF NoTrigger, Triggers, TriggerSteps
<1>3. ASSUME NEW step \in TriggerSteps, Steps(p, step)
      PROVE  /\ trigger' \in [Pages -> Triggers] /\ trigger'[p].step = step
             /\ trigger'[p].ids = trigger[p].ids /\ trigger'[p].msgs = trigger[p].msgs
             /\ \A q \in Pages \ {p} : trigger'[q] = trigger[q]
  BY <1>1, <1>3 DEF HostTypeOK, Steps, Triggers
<1>4. ASSUME Stops(p)
      PROVE  /\ trigger' \in [Pages -> Triggers] /\ trigger'[p] = NoTrigger
             /\ \A q \in Pages \ {p} : trigger'[q] = trigger[q]
  BY <1>2, <1>4 DEF HostTypeOK, Stops
<1>. QED  BY <1>1, <1>2, <1>3, <1>4

(* A failure of the parser leaves the page in the host's list, unless Redis*)
(* fails, and may start an upgrade, which has read nothing yet.            *)
LEMMA FailureRecorded ==
  ASSUME HostTypeOK, NEW p \in Pages, NEW i \in Instances, RecordHostFailure(p, i)
  PROVE  /\ fails' \in [Hosts -> 0..Threshold] /\ trigger' \in [Pages -> Triggers]
         /\ faults' \in 0..MaxTrouble /\ changes' \in 0..MaxTrouble /\ faults <= faults'
         /\ UNCHANGED <<rule, cached, forced, copies, raw, lock, republished, resets, unaware>>
         /\ trigger[p].step = "idle" /\ \A q \in Pages \ {p} : trigger'[q] = trigger[q]
         /\ \/ trigger'[p] = trigger[p]
            \/ trigger'[p].ids = {} /\ trigger'[p].msgs = {} /\ trigger'[p].step = "lock"
         /\ \/ UNCHANGED <<tracked, owed, misread>>
            \/ /\ tracked' = [tracked EXCEPT ![HostOf[p]] = @ \cup {p}]
               /\ UNCHANGED <<owed, misread>>
            \/ /\ tracked' = [tracked EXCEPT ![HostOf[p]] = @ \cup {p}]
               /\ \A q \in Pages : p \notin trigger[q].ids
               /\ owed' = owed \cup {p} /\ misread' = misread \ {p}
<1>. DEFINE h == HostOf[p]
            n == IF fails[h] < Threshold THEN fails[h] + 1 ELSE fails[h]
            t == [NoTrigger EXCEPT !.step = "lock", !.on = i]
            count == /\ fails' = [fails EXCEPT ![h] = n]
                     /\ trigger' = [trigger EXCEPT ![p] = IF n >= Threshold THEN t ELSE @]
            track == /\ tracked' = [tracked EXCEPT ![h] = @ \cup {p}]
                     /\ IF \E q \in Pages : p \in trigger[q].ids
                        THEN UNCHANGED <<owed, misread>>
                        ELSE owed' = owed \cup {p} /\ misread' = misread \ {p}
<1>1. /\ trigger[p].step = "idle"
      /\ \/ count /\ track /\ Well
         \/ count /\ UNCHANGED <<tracked, owed, misread>> /\ Fault
         \/ fails' \in {fails, [fails EXCEPT ![h] = n]} /\ UNCHANGED trigger /\ track /\ Fault
      /\ UNCHANGED <<rule, cached, forced, copies, raw, lock, republished, resets, unaware>>
  BY DEF RecordHostFailure
<1>2. /\ faults' \in 0..MaxTrouble /\ changes' \in 0..MaxTrouble /\ faults <= faults'
  BY <1>1, FaultsTyped DEF HostTypeOK
<1>3. h \in Hosts /\ n \in 0..Threshold
  BY Constants DEF HostTypeOK
<1>6. t \in Triggers /\ t.ids = {} /\ t.msgs = {} /\ t.step = "lock"
  BY DEF NoTrigger, Triggers, TriggerSteps
<1>. HIDE DEF h, n, t
<1>4. fails' \in [Hosts -> 0..Threshold] /\ trigger' \in [Pages -> Triggers]
  <2>1. fails' \in [Hosts -> 0..Threshold]
    BY <1>1, <1>3 DEF HostTypeOK
  <2>2. trigger' \in [Pages -> Triggers]
    BY <1>1, <1>6 DEF HostTypeOK
  <2>. QED  BY <2>1, <2>2
<1>5. /\ \A q \in Pages \ {p} : trigger'[q] = trigger[q]
      /\ \/ trigger'[p] = trigger[p]
         \/ trigger'[p].ids = {} /\ trigger'[p].msgs = {} /\ trigger'[p].step = "lock"
  BY <1>1, <1>6 DEF HostTypeOK
<1>. QED  BY <1>1, <1>2, <1>4, <1>5 DEF h

(* An upgrade reads pages of its host's list, and publishes those of them  *)
(* whose rows it can read.                                                 *)
LEMMA UpgradeReads ==
  ASSUME HostTypeOK, NEW p \in Pages, Peek(p) \/ ReadRows(p)
  PROVE  /\ trigger' \in [Pages -> Triggers] /\ \A q \in Pages \ {p} : trigger'[q] = trigger[q]
         /\ \/ trigger'[p] = NoTrigger
            \/ /\ trigger'[p].step = "read" /\ trigger'[p].ids \subseteq tracked[HostOf[p]]
               /\ trigger'[p].msgs = trigger[p].msgs /\ trigger[p].step = "peek"
            \/ /\ trigger'[p].step \in {"remove", "publish"} /\ trigger'[p].ids = trigger[p].ids
               /\ trigger'[p].step = "remove" => trigger'[p].msgs = {}
               /\ trigger[p].ids \cap raw \subseteq trigger'[p].msgs \cup misread'
               /\ trigger[p].step = "read" /\ trigger'[p].msgs \subseteq trigger[p].ids
         /\ UNCHANGED <<rule, seen, pageJobs, redis, republished, owed, resets, unaware>>
         /\ cache' \in [Instances -> [Hosts -> SUBSET Rule]]
         /\ misread' \subseteq Pages /\ misread \subseteq misread'
         /\ faults' \in 0..MaxTrouble /\ changes' \in 0..MaxTrouble /\ faults <= faults'
<1>1. trigger[p] \in Triggers /\ p \in Pages /\ HostOf[p] \in Hosts /\ faults \in Nat
  BY Constants DEF HostTypeOK
<1>2. CASE Peek(p)
  <2>1. /\ UNCHANGED <<rule, seen, pageJobs, redis, notes>>
        /\ cache' = [cache EXCEPT ![trigger[p].on][HostOf[p]] = {}]
        /\ Well \/ Fault
    BY <1>2 DEF Peek
  <2>2. cache' \in [Instances -> [Hosts -> SUBSET Rule]]
    BY <2>1 DEF HostTypeOK
  <2>3. faults' \in 0..MaxTrouble /\ changes' \in 0..MaxTrouble /\ faults <= faults'
    BY <1>1, <2>1, FaultsTyped
  <2>4. Stops(p) => /\ trigger' \in [Pages -> Triggers] /\ trigger'[p] = NoTrigger
                    /\ \A q \in Pages \ {p} : trigger'[q] = trigger[q]
    BY TriggerGoes
  <2>5. ASSUME NEW ids \in SUBSET tracked[HostOf[p]],
               trigger' = [trigger EXCEPT ![p].step = "read", ![p].ids = ids]
        PROVE  /\ trigger' \in [Pages -> Triggers]
               /\ \A q \in Pages \ {p} : trigger'[q] = trigger[q]
               /\ trigger'[p].step = "read" /\ trigger'[p].ids \subseteq tracked[HostOf[p]]
               /\ trigger'[p].msgs = trigger[p].msgs
    <3>1. ids \subseteq Pages
      BY <1>1 DEF HostTypeOK
    <3>. QED  BY <1>1, <2>5, <3>1 DEF HostTypeOK, Triggers, TriggerSteps
  <2>6. /\ trigger' \in [Pages -> Triggers] /\ \A q \in Pages \ {p} : trigger'[q] = trigger[q]
        /\ \/ trigger'[p] = NoTrigger
           \/ /\ trigger'[p].step = "read" /\ trigger'[p].ids \subseteq tracked[HostOf[p]]
              /\ trigger'[p].msgs = trigger[p].msgs
    BY <1>2, <2>4, <2>5 DEF Peek
  <2>7. trigger[p].step = "peek"
    BY <1>2 DEF Peek
  <2>. QED  BY <2>1, <2>2, <2>3, <2>6, <2>7 DEF notes, HostTypeOK
<1>3. CASE ReadRows(p)
  <2>1. PICK lost \in SUBSET (trigger[p].ids \cap raw) :
           /\ misread' = misread \cup lost
           /\ trigger' = [trigger EXCEPT ![p].msgs = (trigger[p].ids \cap raw) \ lost,
                            ![p].step = IF (trigger[p].ids \cap raw) \ lost = {}
                                        THEN "remove" ELSE "publish"]
           /\ IF lost = {} THEN Well ELSE Fault
    BY <1>3 DEF ReadRows
  <2>2. /\ UNCHANGED <<rule, cached, pageJobs, redis, republished, owed, resets, unaware>>
        /\ trigger[p].step = "read"
    BY <1>3 DEF ReadRows
  <2>3. (trigger[p].ids \cap raw) \ lost \in SUBSET Pages /\ lost \in SUBSET Pages
    BY <1>1 DEF Triggers
  <2>4. faults' \in 0..MaxTrouble /\ changes' \in 0..MaxTrouble /\ faults <= faults'
    BY <1>1, <2>1, FaultsTyped
  <2>5. trigger' \in [Pages -> Triggers] /\ \A q \in Pages \ {p} : trigger'[q] = trigger[q]
    BY <1>1, <2>1, <2>3 DEF HostTypeOK, Triggers, TriggerSteps
  <2>6. /\ trigger'[p].step \in {"remove", "publish"} /\ trigger'[p].ids = trigger[p].ids
        /\ trigger'[p].msgs = (trigger[p].ids \cap raw) \ lost
        /\ trigger'[p].step = "remove" => trigger'[p].msgs = {}
    BY <1>1, <2>1 DEF HostTypeOK
  <2>. QED  BY <2>1, <2>2, <2>3, <2>4, <2>5, <2>6 DEF cached, HostTypeOK
<1>. QED  BY <1>2, <1>3

(* The other steps of an upgrade keep what it has read.                    *)
LEMMA UpgradeMoves ==
  ASSUME HostTypeOK, NEW p \in Pages,
         TakeLock(p) \/ GetByHost(p) \/ Upsert(p) \/ Publish(p) \/ RemoveByHost(p)
  PROVE  /\ trigger' \in [Pages -> Triggers] /\ \A q \in Pages \ {p} : trigger'[q] = trigger[q]
         /\ \/ trigger'[p] = NoTrigger
            \/ /\ trigger'[p].ids = trigger[p].ids /\ trigger'[p].msgs = trigger[p].msgs
               /\ \/ trigger'[p].step \in {"get", "upsert", "peek"}
                  \/ /\ Publish(p) /\ trigger'[p].step = "remove"
                     /\ Sends(p, trigger[p].msgs)
         /\ Well \/ Fault
<1>1. CASE TakeLock(p)
  <2>1. (Steps(p, "get") \/ Stops(p)) /\ (Well \/ Fault)
    BY <1>1 DEF TakeLock
  <2>. QED  BY <2>1, TriggerGoes DEF TriggerSteps
<1>2. CASE GetByHost(p)
  <2>1. (Steps(p, "upsert") \/ Stops(p)) /\ (Well \/ Fault)
    BY <1>2 DEF GetByHost
  <2>. QED  BY <2>1, TriggerGoes DEF TriggerSteps
<1>3. CASE Upsert(p)
  <2>1. (Steps(p, "peek") \/ Stops(p)) /\ (Well \/ Fault)
    BY <1>3 DEF Upsert
  <2>. QED  BY <2>1, TriggerGoes DEF TriggerSteps
<1>4. CASE Publish(p)
  <2>1. /\ Well \/ Fault
        /\ \/ Steps(p, "remove") /\ Sends(p, trigger[p].msgs)
           \/ Stops(p)
    BY <1>4 DEF Publish, KeepFailed, Stops
  <2>. QED  BY <1>4, <2>1, TriggerGoes DEF TriggerSteps
<1>5. CASE RemoveByHost(p)
  <2>1. Stops(p) /\ (Well \/ Fault)
    BY <1>5 DEF RemoveByHost
  <2>. QED  BY <2>1, TriggerGoes
<1>. QED  BY <1>1, <1>2, <1>3, <1>4, <1>5

(* Every step keeps the types.                                             *)
LEMMA HostTypesStay ==
  ASSUME HostTypeOK, [HostNext]_hostVars
  PROVE  HostTypeOK'
<1>1. CASE UNCHANGED hostVars
  BY <1>1 DEF hostVars, cached, pageJobs, redis, notes, HostTypeOK
<1>2. ASSUME NEW p \in Pages, Page(p)
      PROVE  HostTypeOK'
  <2>1. ASSUME NEW i \in Instances, TakeForced(p, i)
        PROVE  HostTypeOK'
    BY <1>2, <2>1, FaultsTyped, PageGoes DEF TakeForced, PageSteps, cached, redis,
           notes, HostTypeOK
  <2>2. ASSUME NEW i \in Instances, TakeCached(p, i)
        PROVE  HostTypeOK'
    BY <1>2, <2>2, FaultsTyped, PageChosen DEF TakeCached, cached, redis, notes,
       HostTypeOK
  <2>3. ASSUME NEW i \in Instances, TakeRead(p, i)
        PROVE  HostTypeOK'
    <3>1. at' \in [Pages -> PageSteps] /\ on' \in [Pages -> Instances \cup {Nobody}]
      BY <2>3 DEF TakeRead, HostTypeOK, PageSteps
    <3>2. {rule[HostOf[p]]} \in SUBSET Rule
      BY Constants DEF HostTypeOK
    <3>3. seen' \in [Pages -> SUBSET Rule]
      BY <2>3, <3>2 DEF TakeRead, HostTypeOK
    <3>. QED  BY <2>3, <3>1, <3>3, FaultsTyped DEF TakeRead, HostTypeOK, redis, notes
  <2>4. ASSUME NEW i \in Instances, AcquireSlot(p, i)
        PROVE  HostTypeOK'
    BY <1>2, <2>4, FaultsTyped DEF AcquireSlot, PageSteps, cached, redis, notes,
       HostTypeOK
  <2>5. ASSUME NEW i \in Instances, ParseFails(p, i)
        PROVE  HostTypeOK'
    <3>1. at' \in [Pages -> PageSteps] /\ on' \in [Pages -> Instances \cup {Nobody}]
      BY <2>5, PageGoes DEF ParseFails, PageSteps
    <3>2. RecordHostFailure(p, i)
      BY <2>5 DEF ParseFails
    <3>3. /\ tracked' \in [Hosts -> SUBSET Pages] /\ owed' \subseteq Pages
          /\ misread' \subseteq Pages
      <4>1. HostOf[p] \in Hosts
        BY Constants
      <4>2. [tracked EXCEPT ![HostOf[p]] = @ \cup {p}] \in [Hosts -> SUBSET Pages]
        BY <4>1 DEF HostTypeOK
      <4>. QED  BY <3>2, <4>2, FailureRecorded DEF HostTypeOK
    <3>4. /\ fails' \in [Hosts -> 0..Threshold] /\ trigger' \in [Pages -> Triggers]
          /\ faults' \in 0..MaxTrouble /\ changes' \in 0..MaxTrouble
          /\ UNCHANGED <<rule, cached, forced, copies, raw, lock, republished, resets, unaware>>
      BY <3>2, FailureRecorded
    <3>. QED  BY <3>1, <3>3, <3>4 DEF HostTypeOK, cached
  <2>6. ASSUME NEW i \in Instances, EmptyBody(p, i)
        PROVE  HostTypeOK'
    <3>1. at' \in [Pages -> PageSteps] /\ on' \in [Pages -> Instances \cup {Nobody}]
      BY <2>6 DEF EmptyBody, PageSteps, HostTypeOK
    <3>2. RecordHostFailure(p, i)
      BY <2>6 DEF EmptyBody
    <3>3. /\ tracked' \in [Hosts -> SUBSET Pages] /\ owed' \subseteq Pages
          /\ misread' \subseteq Pages
      <4>1. HostOf[p] \in Hosts
        BY Constants
      <4>2. [tracked EXCEPT ![HostOf[p]] = @ \cup {p}] \in [Hosts -> SUBSET Pages]
        BY <4>1 DEF HostTypeOK
      <4>. QED  BY <3>2, <4>2, FailureRecorded DEF HostTypeOK
    <3>4. /\ fails' \in [Hosts -> 0..Threshold] /\ trigger' \in [Pages -> Triggers]
          /\ faults' \in 0..MaxTrouble /\ changes' \in 0..MaxTrouble
          /\ UNCHANGED <<rule, cached, forced, copies, raw, lock, republished, resets, unaware>>
      BY <3>2, FailureRecorded
    <3>. QED  BY <3>1, <3>3, <3>4 DEF HostTypeOK, cached
  <2>7. CASE StoreRule(p)
    BY <1>2, <2>7, FaultsTyped, PageChosen DEF StoreRule, PageSteps, TriggerSteps, Rule,
           ManualBrowser, ManualPlain, AutoBrowser, cached, pageJobs, redis, notes,
           HostTypeOK
  <2>8. CASE Fetch(p)
    BY <1>2, <2>8, FaultsTyped, PageGoes DEF Fetch, PageSteps, cached, redis, notes,
           HostTypeOK
  <2>9. CASE Render(p)
    BY <1>2, <2>9, FaultsTyped, PageGoes DEF Render, PageSteps, cached, redis, notes,
           HostTypeOK
  <2>10. CASE Parsed(p)
    BY <1>2, <2>10, FaultsTyped, PageGoes DEF Parsed, DeleteRaw, PageSteps, cached,
           redis, HostTypeOK
  <2>11. CASE Finish(p)
    BY <1>2, <2>11, FaultsTyped, PageGoes DEF Finish, DeleteRaw, PageSteps, cached,
           redis, HostTypeOK
  <2>12. CASE NextCopy(p)
    BY <1>2, <2>12, FaultsTyped DEF NextCopy, PageSteps, cached, redis, notes,
       HostTypeOK
  <2>. QED  BY <1>2, <2>1, <2>2, <2>3, <2>4, <2>5, <2>6, <2>7, <2>8, <2>9, <2>10, <2>11,
               <2>12
               DEF Page
<1>3. ASSUME NEW p \in Pages, Upgrade(p)
      PROVE  HostTypeOK'
  <2>1. CASE TakeLock(p)
    <3>1. lock' \subseteq Hosts /\ (Well \/ Fault)
      BY <2>1, Constants DEF TakeLock, HostTypeOK
    <3>. QED  BY <2>1, <3>1, UpgradeMoves, FaultsTyped DEF TakeLock, cached, pageJobs,
                     notes, HostTypeOK
  <2>2. CASE GetByHost(p)
    BY <2>2, UpgradeMoves, FaultsTyped DEF GetByHost, cached, pageJobs, redis, HostTypeOK
  <2>3. CASE Upsert(p)
    <3>1. AutoBrowser \in Rule
      BY DEF AutoBrowser, Rule
    <3>2. rule' \in [Hosts -> Rule]
      BY <2>3, <3>1, Constants DEF Upsert, HostTypeOK
    <3>3. trigger' \in [Pages -> Triggers]
      BY <2>3, TriggerGoes DEF Upsert, TriggerSteps
    <3>. QED  BY <2>3, <3>2, <3>3, FaultsTyped DEF Upsert, HostTypeOK, cached, pageJobs,
                     redis, notes
  <2>4. CASE Peek(p)
    BY <2>4, UpgradeReads DEF HostTypeOK, pageJobs, redis
  <2>5. CASE ReadRows(p)
    BY <2>5, UpgradeReads DEF HostTypeOK, pageJobs, redis
  <2>6. CASE Publish(p)
    <3>1. trigger[p] \in Triggers /\ NoTrigger \in Triggers
      BY TriggerGoes
    <3>2. trigger' \in [Pages -> Triggers]
      BY <2>6, <3>1, TriggerGoes DEF Publish, KeepFailed, HostTypeOK, TriggerSteps
    <3>6. PICK sent \in SUBSET trigger[p].msgs : Sends(p, sent)
      BY <2>6 DEF Publish
    <3>3. copies' \in [Pages -> Nat] /\ republished' \in [Pages -> Nat]
      BY <3>6 DEF Sends, HostTypeOK
    <3>4. forced' \in [Pages -> Instances \cup {Nobody}] /\ owed' \subseteq Pages
      BY <3>1, <3>6 DEF Sends, HostTypeOK, Triggers
    <3>5. Well \/ Fault
      BY <2>6 DEF Publish
    <3>. QED  BY <2>6, <3>2, <3>3, <3>4, <3>5, FaultsTyped
                 DEF Publish, HostTypeOK, cached, redis
  <2>7. CASE RemoveByHost(p)
    <3>1. tracked' \in [Hosts -> SUBSET Pages] /\ (Well \/ Fault)
      BY <2>7 DEF RemoveByHost, HostTypeOK
    <3>. QED  BY <2>7, <3>1, UpgradeMoves, FaultsTyped DEF RemoveByHost, cached,
                     pageJobs, notes, HostTypeOK
  <2>. QED  BY <1>3, <2>1, <2>2, <2>3, <2>4, <2>5, <2>6, <2>7 DEF Upgrade
<1>4. CASE Environment
  <2>1. ASSUME NEW i \in Instances, NEW h \in Hosts, Expire(i, h)
        PROVE  HostTypeOK'
    BY <1>4, <2>1, FaultsTyped DEF Expire, pageJobs, redis, notes, HostTypeOK
  <2>2. ASSUME NEW h \in Hosts, UpgradeLockExpires(h)
        PROVE  HostTypeOK'
    BY <1>4, <2>2, FaultsTyped DEF UpgradeLockExpires, cached, pageJobs, notes,
       HostTypeOK
  <2>3. ASSUME NEW h \in Hosts, Operator(h)
        PROVE  HostTypeOK'
    BY <1>4, <2>3, FaultsTyped DEF Operator, Left, Rule, ManualBrowser, ManualPlain,
           cached, pageJobs, redis, HostTypeOK
  <2>4. ASSUME NEW h \in Hosts, WindowSlides(h)
        PROVE  HostTypeOK'
    BY <1>4, <2>4, FaultsTyped, Constants DEF WindowSlides, cached, pageJobs, notes,
           HostTypeOK
  <2>5. ASSUME NEW i \in Instances, Downgrade(i)
        PROVE  HostTypeOK'
    BY <1>4, <2>5, FaultsTyped DEF Downgrade, Left, AutoUpgraded, Rule, pageJobs, redis,
           HostTypeOK
  <2>6. ASSUME NEW i \in Instances, RestartInstance(i)
        PROVE  HostTypeOK'
    BY <1>4, <2>6, FaultsTyped, TriggerGoes DEF RestartInstance, NoTrigger, PageSteps,
           TriggerSteps, Rule, ManualBrowser, ManualPlain, AutoBrowser, cached,
           pageJobs, redis, notes, HostTypeOK
  <2>7. ASSUME NEW p \in Pages, CleanRaw(p)
        PROVE  HostTypeOK'
    BY <1>4, <2>7, FaultsTyped DEF CleanRaw, DeleteRaw, cached, redis, HostTypeOK
  <2>8. ASSUME NEW p \in Pages, Forgotten(p)
        PROVE  HostTypeOK'
    BY <1>4, <2>8, FaultsTyped, Constants DEF Forgotten, cached, pageJobs, notes,
       HostTypeOK
  <2>. QED  BY <1>4, <2>1, <2>2, <2>3, <2>4, <2>5, <2>6, <2>7, <2>8 DEF Environment
<1>. QED  BY <1>1, <1>2, <1>3, <1>4 DEF HostNext

---------------------------------------------------------------------------
(* Failed pages keep their place in the list                               *)

(* A parser has the row that it parses: no cleaner takes it away under it. *)
RowsParsed == \A p \in Pages : at[p] \in {"parse", "finish"} => p \in raw

(* What an upgrade is about to strike off the list it has published, or    *)
(* could not read: the order of Publish and RemoveByHost is what keeps a   *)
(* failed publish from costing the pages.                                  *)
StrikesSafe ==
  \A q \in Pages : \A p \in trigger[q].ids \cap owed :
    /\ trigger[q].step = "publish" => p \in trigger[q].msgs \/ p \in misread
    /\ trigger[q].step = "remove" => p \in misread

(* A host's list, and an upgrade of the host, have only pages of the host. *)
HostsOwn ==
  /\ \A h \in Hosts : \A p \in tracked[h] : HostOf[p] = h
  /\ \A q \in Pages : \A p \in trigger[q].ids \cup trigger[q].msgs : HostOf[p] = HostOf[q]

(* The upgrades of a host that are at one of these steps: those that have  *)
(* passed the lock and not yet set the rule, one of which may be about to  *)
(* write it; and those that have set it and not yet published.             *)
Upgrades(h, steps) == {q \in Pages : HostOf[q] = h /\ trigger[q].step \in steps}
Asking == {"get", "upsert"}
Writing == {"upsert"}
Going == {"peek", "read", "publish"}

(* How much may still be spent on a host: as many passes as its rule has   *)
(* left the browser and calls have failed, and one more for an upgrade that*)
(* the lock has let pass while the lock is still held.  While the rule is  *)
(* the browser's, only an upgrade that is past its look at the rule writes.*)
Allowed(browser, claimed, asking, writing, spent, allowance) ==
  LET pass == IF claimed /\ asking > 0 THEN 1 ELSE 0
  IN IF browser
     THEN spent + writing <= allowance + 1 /\ spent + asking <= allowance + 1 + pass
     ELSE spent + asking <= allowance + pass

(* What has been published of a page, and what its host's upgrades may yet *)
(* publish of it, is within the allowance of the host.                     *)
WithinAllowance(p) ==
  LET h == HostOf[p]
  IN  Allowed(rule[h].fetcher = "chromedp", h \in lock,
              Cardinality(Upgrades(h, Asking)), Cardinality(Upgrades(h, Writing)),
              republished[p] + Cardinality(Upgrades(h, Going)), resets[h] + faults)

UpgradesWithin == \A p \in Pages : WithinAllowance(p)

(* An upgrade that is about to write over an operator's browser rule has   *)
(* looked before he set it: the look would have stopped it.                *)
LooksFirst ==
  \A p \in Pages :
    trigger[p].step = "upsert" /\ rule[HostOf[p]] = ManualBrowser => p \in unaware

(* The hosts' invariant.                                                   *)
HostIInv ==
  /\ HostTypeOK /\ RowsParsed /\ owed \subseteq raw /\ OwedIsTracked /\ StrikesSafe
  /\ HostsOwn /\ UpgradesWithin /\ LooksFirst

(* Fetch and Render store the row before the parser has the reference, and *)
(* only Parsed, Finish and the cleaner delete it; they forgive its failure.*)
LEMMA RowsStay ==
  ASSUME HostTypeOK, RowsParsed, owed \subseteq raw, [HostNext]_hostVars
  PROVE  RowsParsed' /\ owed' \subseteq raw'
<1>1. CASE UNCHANGED hostVars
  BY <1>1 DEF hostVars, RowsParsed, pageJobs, notes
<1>2. ASSUME NEW p \in Pages, Page(p)
      PROVE  RowsParsed' /\ owed' \subseteq raw'
  <2>1. ASSUME NEW i \in Instances, TakeForced(p, i)
        PROVE  RowsParsed' /\ owed' \subseteq raw'
    BY <1>2, <2>1 DEF TakeForced, Leaves, RowsParsed, notes
  <2>2. ASSUME NEW i \in Instances, TakeCached(p, i)
        PROVE  RowsParsed' /\ owed' \subseteq raw'
    BY <1>2, <2>2 DEF TakeCached, Chosen, Leaves, RowsParsed, notes, HostTypeOK
  <2>3. ASSUME NEW i \in Instances, TakeRead(p, i)
        PROVE  RowsParsed' /\ owed' \subseteq raw'
    BY <1>2, <2>3 DEF TakeRead, RowsParsed, notes, HostTypeOK
  <2>4. ASSUME NEW i \in Instances, AcquireSlot(p, i)
        PROVE  RowsParsed' /\ owed' \subseteq raw'
    BY <1>2, <2>4 DEF AcquireSlot, RowsParsed, notes
  <2>5. ASSUME NEW i \in Instances, ParseFails(p, i)
        PROVE  RowsParsed' /\ owed' \subseteq raw'
    BY <1>2, <2>5 DEF ParseFails, RecordHostFailure, Leaves, RowsParsed
  <2>6. ASSUME NEW i \in Instances, EmptyBody(p, i)
        PROVE  RowsParsed' /\ owed' \subseteq raw'
    BY <1>2, <2>6 DEF EmptyBody, RecordHostFailure, RowsParsed
  <2>7. CASE StoreRule(p)
    BY <1>2, <2>7 DEF StoreRule, Chosen, Leaves, RowsParsed, notes, HostTypeOK
  <2>8. CASE Fetch(p)
    BY <1>2, <2>8 DEF Fetch, Leaves, RowsParsed, notes, HostTypeOK
  <2>9. CASE Render(p)
    BY <1>2, <2>9 DEF Render, Leaves, RowsParsed, notes, HostTypeOK
  <2>10. CASE Parsed(p)
    BY <1>2, <2>10 DEF Parsed, Leaves, DeleteRaw, RowsParsed, HostTypeOK
  <2>11. CASE Finish(p)
    BY <1>2, <2>11 DEF Finish, Leaves, DeleteRaw, RowsParsed, HostTypeOK
  <2>12. CASE NextCopy(p)
    BY <1>2, <2>12 DEF NextCopy, RowsParsed, notes
  <2>. QED  BY <1>2, <2>1, <2>2, <2>3, <2>4, <2>5, <2>6, <2>7, <2>8, <2>9, <2>10, <2>11,
               <2>12
               DEF Page
<1>3. ASSUME NEW p \in Pages, Upgrade(p)
      PROVE  RowsParsed' /\ owed' \subseteq raw'
  <2>1. CASE TakeLock(p)
    BY <1>3, <2>1 DEF TakeLock, RowsParsed, pageJobs, notes
  <2>2. CASE GetByHost(p)
    BY <1>3, <2>2 DEF GetByHost, RowsParsed, pageJobs
  <2>3. CASE Upsert(p)
    BY <1>3, <2>3 DEF Upsert, RowsParsed, pageJobs, notes
  <2>4. CASE Peek(p)
    BY <1>3, <2>4 DEF Peek, RowsParsed, pageJobs, notes
  <2>5. CASE ReadRows(p)
    BY <1>3, <2>5 DEF ReadRows, RowsParsed, pageJobs
  <2>6. CASE Publish(p)
    BY <1>3, <2>6 DEF Publish, Sends, RowsParsed
  <2>7. CASE RemoveByHost(p)
    BY <1>3, <2>7 DEF RemoveByHost, RowsParsed, pageJobs, notes
  <2>. QED  BY <1>3, <2>1, <2>2, <2>3, <2>4, <2>5, <2>6, <2>7 DEF Upgrade
<1>4. CASE Environment
  <2>1. ASSUME NEW i \in Instances, NEW h \in Hosts, Expire(i, h)
        PROVE  RowsParsed' /\ owed' \subseteq raw'
    BY <1>4, <2>1 DEF Expire, RowsParsed, pageJobs, notes
  <2>2. ASSUME NEW h \in Hosts, UpgradeLockExpires(h)
        PROVE  RowsParsed' /\ owed' \subseteq raw'
    BY <1>4, <2>2 DEF UpgradeLockExpires, RowsParsed, pageJobs, notes
  <2>3. ASSUME NEW h \in Hosts, Operator(h)
        PROVE  RowsParsed' /\ owed' \subseteq raw'
    BY <1>4, <2>3 DEF Operator, RowsParsed, pageJobs
  <2>4. ASSUME NEW h \in Hosts, WindowSlides(h)
        PROVE  RowsParsed' /\ owed' \subseteq raw'
    BY <1>4, <2>4 DEF WindowSlides, RowsParsed, pageJobs, notes
  <2>5. ASSUME NEW i \in Instances, Downgrade(i)
        PROVE  RowsParsed' /\ owed' \subseteq raw'
    BY <1>4, <2>5 DEF Downgrade, RowsParsed, pageJobs
  <2>6. ASSUME NEW i \in Instances, RestartInstance(i)
        PROVE  RowsParsed' /\ owed' \subseteq raw'
    BY <1>4, <2>6 DEF RestartInstance, RowsParsed, notes
  <2>7. ASSUME NEW p \in Pages, CleanRaw(p)
        PROVE  RowsParsed' /\ owed' \subseteq raw'
    BY <1>4, <2>7 DEF CleanRaw, DeleteRaw, RowsParsed
  <2>8. ASSUME NEW p \in Pages, Forgotten(p)
        PROVE  RowsParsed' /\ owed' \subseteq raw'
    BY <1>4, <2>8 DEF Forgotten, RowsParsed, pageJobs, notes
  <2>. QED  BY <1>4, <2>1, <2>2, <2>3, <2>4, <2>5, <2>6, <2>7, <2>8 DEF Environment
<1>. QED  BY <1>1, <1>2, <1>3, <1>4 DEF HostNext

(* A failure that is tracked is owed: the list has the page.               *)
LEMMA FailureOwes ==
  ASSUME HostTypeOK, OwedIsTracked, StrikesSafe, NEW p \in Pages, NEW i \in Instances,
         RecordHostFailure(p, i)
  PROVE  OwedIsTracked' /\ StrikesSafe'
<1>1. /\ trigger[p].step = "idle" /\ \A q \in Pages \ {p} : trigger'[q] = trigger[q]
      /\ \/ trigger'[p] = trigger[p]
         \/ trigger'[p].ids = {} /\ trigger'[p].msgs = {} /\ trigger'[p].step = "lock"
      /\ p \in Pages /\ HostOf[p] \in Hosts
  BY FailureRecorded, Constants
<1>2. CASE UNCHANGED <<tracked, owed, misread>>
  BY <1>1, <1>2 DEF OwedIsTracked, StrikesSafe
<1>3. ASSUME tracked' = [tracked EXCEPT ![HostOf[p]] = @ \cup {p}]
      PROVE  \A q \in Pages : q \in tracked[HostOf[q]] \/ q = p => q \in tracked'[HostOf[q]]
  BY <1>1, <1>3 DEF HostTypeOK
<1>4. CASE tracked' = [tracked EXCEPT ![HostOf[p]] = @ \cup {p}] /\ UNCHANGED <<owed, misread>>
  <2>1. OwedIsTracked'
    BY <1>3, <1>4 DEF OwedIsTracked
  <2>2. StrikesSafe'
    BY <1>1, <1>4 DEF StrikesSafe
  <2>. QED  BY <2>1, <2>2
<1>5. CASE /\ tracked' = [tracked EXCEPT ![HostOf[p]] = @ \cup {p}]
           /\ \A q \in Pages : p \notin trigger[q].ids
           /\ owed' = owed \cup {p} /\ misread' = misread \ {p}
  <2>1. OwedIsTracked'
    BY <1>3, <1>5 DEF OwedIsTracked
  <2>2. StrikesSafe'
    BY <1>1, <1>5 DEF StrikesSafe
  <2>. QED  BY <2>1, <2>2
<1>. QED  BY <1>2, <1>4, <1>5, FailureRecorded

(* No other step takes an owed page off the list: an upgrade strikes what  *)
(* it has published, and the list forgets only pages whose row is gone.    *)
LEMMA OwedStays ==
  ASSUME HostTypeOK, RowsParsed, owed \subseteq raw, OwedIsTracked, StrikesSafe,
         [HostNext]_hostVars
  PROVE  OwedIsTracked' /\ StrikesSafe'
<1>1. CASE UNCHANGED hostVars
  BY <1>1 DEF hostVars, OwedIsTracked, StrikesSafe, redis, notes
<1>2. ASSUME NEW p \in Pages, Page(p)
      PROVE  OwedIsTracked' /\ StrikesSafe'
  <2>1. ASSUME NEW i \in Instances, TakeForced(p, i)
        PROVE  OwedIsTracked' /\ StrikesSafe'
    BY <1>2, <2>1 DEF TakeForced, OwedIsTracked, StrikesSafe, redis, notes
  <2>2. ASSUME NEW i \in Instances, TakeCached(p, i)
        PROVE  OwedIsTracked' /\ StrikesSafe'
    BY <1>2, <2>2 DEF TakeCached, OwedIsTracked, StrikesSafe, redis, notes
  <2>3. ASSUME NEW i \in Instances, TakeRead(p, i)
        PROVE  OwedIsTracked' /\ StrikesSafe'
    BY <1>2, <2>3 DEF TakeRead, OwedIsTracked, StrikesSafe, redis, notes
  <2>4. ASSUME NEW i \in Instances, AcquireSlot(p, i)
        PROVE  OwedIsTracked' /\ StrikesSafe'
    BY <1>2, <2>4 DEF AcquireSlot, OwedIsTracked, StrikesSafe, redis, notes
  <2>5. ASSUME NEW i \in Instances, ParseFails(p, i)
        PROVE  OwedIsTracked' /\ StrikesSafe'
    BY <2>5, FailureOwes DEF ParseFails
  <2>6. ASSUME NEW i \in Instances, EmptyBody(p, i)
        PROVE  OwedIsTracked' /\ StrikesSafe'
    BY <2>6, FailureOwes DEF EmptyBody
  <2>7. CASE StoreRule(p)
    BY <1>2, <2>7 DEF StoreRule, OwedIsTracked, StrikesSafe, redis, notes
  <2>8. CASE Fetch(p)
    BY <1>2, <2>8 DEF Fetch, OwedIsTracked, StrikesSafe, redis, notes
  <2>9. CASE Render(p)
    BY <1>2, <2>9 DEF Render, OwedIsTracked, StrikesSafe, redis, notes
  <2>10. CASE Parsed(p)
    BY <1>2, <2>10 DEF Parsed, DeleteRaw, OwedIsTracked, StrikesSafe, redis
  <2>11. CASE Finish(p)
    BY <1>2, <2>11 DEF Finish, DeleteRaw, OwedIsTracked, StrikesSafe, redis
  <2>12. CASE NextCopy(p)
    BY <1>2, <2>12 DEF NextCopy, OwedIsTracked, StrikesSafe, redis, notes
  <2>. QED  BY <1>2, <2>1, <2>2, <2>3, <2>4, <2>5, <2>6, <2>7, <2>8, <2>9, <2>10, <2>11,
               <2>12
               DEF Page
<1>3. ASSUME NEW p \in Pages, Upgrade(p)
      PROVE  OwedIsTracked' /\ StrikesSafe'
  <2>1. CASE TakeLock(p)
    <3>1. UNCHANGED <<tracked, owed, misread>>
      BY <2>1 DEF TakeLock, notes
    <3>2. trigger[p].step \notin {"publish", "remove"}
      BY <2>1 DEF TakeLock
    <3>3. /\ \A q \in Pages \ {p} : trigger'[q] = trigger[q]
          /\ trigger'[p].step \notin {"publish", "remove"}
      BY <2>1, <3>2, UpgradeMoves, TriggerGoes DEF Publish
    <3>. QED  BY <3>1, <3>3 DEF OwedIsTracked, StrikesSafe
  <2>2. CASE GetByHost(p)
    <3>1. UNCHANGED <<tracked, owed, misread>>
      BY <2>2 DEF GetByHost, redis
    <3>2. trigger[p].step \notin {"publish", "remove"}
      BY <2>2 DEF GetByHost
    <3>3. /\ \A q \in Pages \ {p} : trigger'[q] = trigger[q]
          /\ trigger'[p].step \notin {"publish", "remove"}
      BY <2>2, <3>2, UpgradeMoves, TriggerGoes DEF Publish
    <3>. QED  BY <3>1, <3>3 DEF OwedIsTracked, StrikesSafe
  <2>3. CASE Upsert(p)
    <3>1. UNCHANGED <<tracked, owed, misread>>
      BY <2>3 DEF Upsert, redis, notes
    <3>2. trigger[p].step \notin {"publish", "remove"}
      BY <2>3 DEF Upsert
    <3>3. /\ \A q \in Pages \ {p} : trigger'[q] = trigger[q]
          /\ trigger'[p].step \notin {"publish", "remove"}
      BY <2>3, <3>2, UpgradeMoves, TriggerGoes DEF Publish
    <3>. QED  BY <3>1, <3>3 DEF OwedIsTracked, StrikesSafe
  <2>4. CASE Peek(p)
    BY <2>4, UpgradeReads, TriggerGoes DEF OwedIsTracked, StrikesSafe, redis
  <2>5. CASE ReadRows(p)
    BY <2>5, UpgradeReads, TriggerGoes DEF OwedIsTracked, StrikesSafe, redis
  <2>6. CASE Publish(p)
    <3>1. /\ owed' \subseteq owed /\ UNCHANGED <<tracked, misread>>
          /\ \A q \in Pages \ {p} : trigger'[q] = trigger[q]
      BY <2>6, TriggerGoes DEF Publish, Sends, TriggerSteps, redis, HostTypeOK
    <3>2. CASE Steps(p, "remove") /\ Sends(p, trigger[p].msgs)
      <4>1. /\ trigger'[p].ids = trigger[p].ids /\ trigger'[p].step = "remove"
            /\ trigger[p].step = "publish" /\ owed' = owed \ trigger[p].msgs
        BY <2>6, <3>2, TriggerGoes DEF Publish, Sends, TriggerSteps
      <4>. QED  BY <3>1, <4>1 DEF OwedIsTracked, StrikesSafe
    <3>3. CASE trigger'[p] = NoTrigger
      BY <3>1, <3>3, TriggerGoes DEF OwedIsTracked, StrikesSafe
    <3>. QED  BY <2>6, <3>2, <3>3 DEF Publish, KeepFailed, HostTypeOK
  <2>7. CASE RemoveByHost(p)
    <3>1. /\ UNCHANGED <<owed, misread>> /\ trigger'[p] = NoTrigger
          /\ \A q \in Pages \ {p} : trigger'[q] = trigger[q]
      BY <2>7, TriggerGoes DEF RemoveByHost, notes
    <3>2. StrikesSafe'
      BY <3>1, TriggerGoes DEF StrikesSafe
    <3>3. \A q \in owed \cap trigger[p].ids : q \in misread
      BY <2>7 DEF RemoveByHost, StrikesSafe
    <3>4. \A q \in Pages \ trigger[p].ids :
            q \in tracked[HostOf[q]] => q \in tracked'[HostOf[q]]
      BY <2>7, Constants DEF RemoveByHost, HostTypeOK
    <3>5. OwedIsTracked'
      BY <3>1, <3>3, <3>4 DEF OwedIsTracked, HostTypeOK
    <3>. QED  BY <3>2, <3>5
  <2>. QED  BY <1>3, <2>1, <2>2, <2>3, <2>4, <2>5, <2>6, <2>7 DEF Upgrade
<1>4. CASE Environment
  <2>1. ASSUME NEW i \in Instances, NEW h \in Hosts, Expire(i, h)
        PROVE  OwedIsTracked' /\ StrikesSafe'
    BY <1>4, <2>1 DEF Expire, OwedIsTracked, StrikesSafe, redis, notes
  <2>2. ASSUME NEW h \in Hosts, UpgradeLockExpires(h)
        PROVE  OwedIsTracked' /\ StrikesSafe'
    BY <1>4, <2>2 DEF UpgradeLockExpires, OwedIsTracked, StrikesSafe, notes
  <2>3. ASSUME NEW h \in Hosts, Operator(h)
        PROVE  OwedIsTracked' /\ StrikesSafe'
    BY <1>4, <2>3 DEF Operator, OwedIsTracked, StrikesSafe, redis
  <2>4. ASSUME NEW h \in Hosts, WindowSlides(h)
        PROVE  OwedIsTracked' /\ StrikesSafe'
    BY <1>4, <2>4 DEF WindowSlides, OwedIsTracked, StrikesSafe, notes
  <2>5. ASSUME NEW i \in Instances, Downgrade(i)
        PROVE  OwedIsTracked' /\ StrikesSafe'
    BY <1>4, <2>5 DEF Downgrade, OwedIsTracked, StrikesSafe, redis
  <2>6. ASSUME NEW i \in Instances, RestartInstance(i)
        PROVE  OwedIsTracked' /\ StrikesSafe'
    BY <1>4, <2>6, TriggerGoes DEF RestartInstance, OwedIsTracked, StrikesSafe,
       redis, notes
  <2>7. ASSUME NEW p \in Pages, CleanRaw(p)
        PROVE  OwedIsTracked' /\ StrikesSafe'
    BY <1>4, <2>7 DEF CleanRaw, DeleteRaw, OwedIsTracked, StrikesSafe, redis
  <2>8. ASSUME NEW p \in Pages, Forgotten(p)
        PROVE  OwedIsTracked' /\ StrikesSafe'
    BY <1>4, <2>8 DEF Forgotten, OwedIsTracked, StrikesSafe, notes
  <2>. QED  BY <1>4, <2>1, <2>2, <2>3, <2>4, <2>5, <2>6, <2>7, <2>8 DEF Environment
<1>. QED  BY <1>1, <1>2, <1>3, <1>4 DEF HostNext

(* A page joins the list of its own host only.                             *)
LEMMA OwnStay ==
  ASSUME HostTypeOK, HostsOwn, NEW p \in Pages, \A q \in Pages \ {p} : trigger'[q] = trigger[q],
         trigger'[p].ids \cup trigger'[p].msgs \subseteq
           (trigger[p].ids \cup trigger[p].msgs) \cup tracked[HostOf[p]],
         \A h \in Hosts : tracked'[h] \subseteq tracked[h] \cup {q \in {p} : HostOf[q] = h}
  PROVE  HostsOwn'
<1>1. HostOf[p] \in Hosts
  BY Constants
<1>2. \A h \in Hosts : \A q \in tracked'[h] : HostOf[q] = h
  BY DEF HostsOwn
<1>3. \A q \in Pages : \A r \in trigger'[q].ids \cup trigger'[q].msgs : HostOf[r] = HostOf[q]
  BY <1>1 DEF HostsOwn
<1>. QED  BY <1>2, <1>3 DEF HostsOwn

LEMMA FailureIsHosts ==
  ASSUME HostTypeOK, HostsOwn, NEW p \in Pages, NEW i \in Instances, RecordHostFailure(p, i)
  PROVE  HostsOwn'
<1>1. /\ \A q \in Pages \ {p} : trigger'[q] = trigger[q]
      /\ trigger'[p] = trigger[p] \/ (trigger'[p].ids = {} /\ trigger'[p].msgs = {})
      /\ tracked' = tracked \/ tracked' = [tracked EXCEPT ![HostOf[p]] = @ \cup {p}]
  BY FailureRecorded
<1>2. \A h \in Hosts : tracked'[h] \subseteq tracked[h] \cup {q \in {p} : HostOf[q] = h}
  BY <1>1 DEF HostTypeOK
<1>3. trigger'[p].ids \cup trigger'[p].msgs \subseteq trigger[p].ids \cup trigger[p].msgs
  BY <1>1
<1>. QED  BY <1>1, <1>2, <1>3, OwnStay

LEMMA HostsStayOwn ==
  ASSUME HostTypeOK, HostsOwn, [HostNext]_hostVars
  PROVE  HostsOwn'
<1>1. CASE UNCHANGED hostVars
  BY <1>1 DEF hostVars, HostsOwn, redis
<1>2. ASSUME NEW p \in Pages, Page(p)
      PROVE  HostsOwn'
  <2>1. ASSUME NEW i \in Instances, TakeForced(p, i)
        PROVE  HostsOwn'
    BY <1>2, <2>1 DEF TakeForced, HostsOwn, redis
  <2>2. ASSUME NEW i \in Instances, TakeCached(p, i)
        PROVE  HostsOwn'
    BY <1>2, <2>2 DEF TakeCached, HostsOwn, redis
  <2>3. ASSUME NEW i \in Instances, TakeRead(p, i)
        PROVE  HostsOwn'
    BY <1>2, <2>3 DEF TakeRead, HostsOwn, redis
  <2>4. ASSUME NEW i \in Instances, AcquireSlot(p, i)
        PROVE  HostsOwn'
    BY <1>2, <2>4 DEF AcquireSlot, HostsOwn, redis
  <2>5. ASSUME NEW i \in Instances, ParseFails(p, i)
        PROVE  HostsOwn'
    BY <2>5, FailureIsHosts DEF ParseFails
  <2>6. ASSUME NEW i \in Instances, EmptyBody(p, i)
        PROVE  HostsOwn'
    BY <2>6, FailureIsHosts DEF EmptyBody
  <2>7. CASE StoreRule(p)
    BY <1>2, <2>7 DEF StoreRule, HostsOwn, redis
  <2>8. CASE Fetch(p)
    BY <1>2, <2>8 DEF Fetch, HostsOwn, redis
  <2>9. CASE Render(p)
    BY <1>2, <2>9 DEF Render, HostsOwn, redis
  <2>10. CASE Parsed(p)
    BY <1>2, <2>10 DEF Parsed, HostsOwn, redis
  <2>11. CASE Finish(p)
    BY <1>2, <2>11 DEF Finish, HostsOwn, redis
  <2>12. CASE NextCopy(p)
    BY <1>2, <2>12 DEF NextCopy, HostsOwn, redis
  <2>. QED  BY <1>2, <2>1, <2>2, <2>3, <2>4, <2>5, <2>6, <2>7, <2>8, <2>9, <2>10, <2>11,
               <2>12
               DEF Page
<1>3. ASSUME NEW p \in Pages, Upgrade(p)
      PROVE  HostsOwn'
  <2>1. CASE TakeLock(p)
    <3>1. \A h \in Hosts : tracked'[h] \subseteq tracked[h]
      BY <2>1 DEF TakeLock
    <3>2. /\ \A q \in Pages \ {p} : trigger'[q] = trigger[q]
          /\ trigger'[p].ids \cup trigger'[p].msgs \subseteq trigger[p].ids \cup trigger[p].msgs
      BY <2>1, UpgradeMoves, TriggerGoes
    <3>. QED  BY <3>1, <3>2, OwnStay
  <2>2. CASE GetByHost(p)
    <3>1. \A h \in Hosts : tracked'[h] \subseteq tracked[h]
      BY <2>2 DEF GetByHost, redis
    <3>2. /\ \A q \in Pages \ {p} : trigger'[q] = trigger[q]
          /\ trigger'[p].ids \cup trigger'[p].msgs \subseteq trigger[p].ids \cup trigger[p].msgs
      BY <2>2, UpgradeMoves, TriggerGoes
    <3>. QED  BY <3>1, <3>2, OwnStay
  <2>3. CASE Upsert(p)
    <3>1. \A h \in Hosts : tracked'[h] \subseteq tracked[h]
      BY <2>3 DEF Upsert, redis
    <3>2. /\ \A q \in Pages \ {p} : trigger'[q] = trigger[q]
          /\ trigger'[p].ids \cup trigger'[p].msgs \subseteq trigger[p].ids \cup trigger[p].msgs
      BY <2>3, UpgradeMoves, TriggerGoes
    <3>. QED  BY <3>1, <3>2, OwnStay
  <2>4. CASE Peek(p)
    <3>1. \A h \in Hosts : tracked'[h] \subseteq tracked[h]
      BY <2>4, UpgradeReads DEF redis
    <3>2. /\ \A q \in Pages \ {p} : trigger'[q] = trigger[q]
          /\ trigger'[p].ids \cup trigger'[p].msgs \subseteq
               (trigger[p].ids \cup trigger[p].msgs) \cup tracked[HostOf[p]]
      BY <2>4, UpgradeReads, TriggerGoes
    <3>. QED  BY <3>1, <3>2, OwnStay
  <2>5. CASE ReadRows(p)
    <3>1. \A h \in Hosts : tracked'[h] \subseteq tracked[h]
      BY <2>5, UpgradeReads DEF redis
    <3>2. /\ \A q \in Pages \ {p} : trigger'[q] = trigger[q]
          /\ trigger'[p].ids \cup trigger'[p].msgs \subseteq
               (trigger[p].ids \cup trigger[p].msgs) \cup tracked[HostOf[p]]
      BY <2>5, UpgradeReads, TriggerGoes
    <3>. QED  BY <3>1, <3>2, OwnStay
  <2>6. CASE Publish(p)
    <3>1. \A h \in Hosts : tracked'[h] \subseteq tracked[h]
      BY <2>6 DEF Publish, redis
    <3>2. /\ \A q \in Pages \ {p} : trigger'[q] = trigger[q]
          /\ trigger'[p].ids \cup trigger'[p].msgs \subseteq trigger[p].ids \cup trigger[p].msgs
      BY <2>6, UpgradeMoves, TriggerGoes
    <3>. QED  BY <3>1, <3>2, OwnStay
  <2>7. CASE RemoveByHost(p)
    <3>1. \A h \in Hosts : tracked'[h] \subseteq tracked[h]
      BY <2>7 DEF RemoveByHost, HostTypeOK
    <3>2. /\ \A q \in Pages \ {p} : trigger'[q] = trigger[q]
          /\ trigger'[p].ids \cup trigger'[p].msgs \subseteq trigger[p].ids \cup trigger[p].msgs
      BY <2>7, UpgradeMoves, TriggerGoes
    <3>. QED  BY <3>1, <3>2, OwnStay
  <2>. QED  BY <1>3, <2>1, <2>2, <2>3, <2>4, <2>5, <2>6, <2>7 DEF Upgrade
<1>4. CASE Environment
  <2>1. ASSUME NEW i \in Instances, NEW h \in Hosts, Expire(i, h)
        PROVE  HostsOwn'
    BY <1>4, <2>1 DEF Expire, HostsOwn, redis
  <2>2. ASSUME NEW h \in Hosts, UpgradeLockExpires(h)
        PROVE  HostsOwn'
    BY <1>4, <2>2 DEF UpgradeLockExpires, HostsOwn
  <2>3. ASSUME NEW h \in Hosts, Operator(h)
        PROVE  HostsOwn'
    BY <1>4, <2>3 DEF Operator, HostsOwn, redis
  <2>4. ASSUME NEW h \in Hosts, WindowSlides(h)
        PROVE  HostsOwn'
    BY <1>4, <2>4 DEF WindowSlides, HostsOwn
  <2>5. ASSUME NEW i \in Instances, Downgrade(i)
        PROVE  HostsOwn'
    BY <1>4, <2>5 DEF Downgrade, HostsOwn, redis
  <2>6. ASSUME NEW i \in Instances, RestartInstance(i)
        PROVE  HostsOwn'
    BY <1>4, <2>6, TriggerGoes DEF RestartInstance, HostsOwn, redis
  <2>7. ASSUME NEW p \in Pages, CleanRaw(p)
        PROVE  HostsOwn'
    BY <1>4, <2>7 DEF CleanRaw, HostsOwn, redis
  <2>8. ASSUME NEW p \in Pages, Forgotten(p)
        PROVE  HostsOwn'
    BY <1>4, <2>8 DEF Forgotten, HostsOwn
  <2>. QED  BY <1>4, <2>1, <2>2, <2>3, <2>4, <2>5, <2>6, <2>7, <2>8 DEF Environment
<1>. QED  BY <1>1, <1>2, <1>3, <1>4 DEF HostNext

---------------------------------------------------------------------------
(* Each page is published once                                             *)

(* Counting the upgrades of a host: one step moves one upgrade.            *)
LEMMA SmallSets ==
  /\ \A S \in SUBSET Pages :
       IsFiniteSet(S) /\ Cardinality(S) \in Nat /\ (S = {} <=> Cardinality(S) = 0)
  /\ \A T \in SUBSET Pages : \A S \in SUBSET T : Cardinality(S) <= Cardinality(T)
<1>1. \A S \in SUBSET Pages : IsFiniteSet(S)
  BY FS_Subset, Constants
<1>2. \A S \in SUBSET Pages : Cardinality(S) \in Nat /\ (S = {} <=> Cardinality(S) = 0)
  BY <1>1, FS_CardinalityType, FS_EmptySet
<1>3. \A T \in SUBSET Pages : \A S \in SUBSET T : Cardinality(S) <= Cardinality(T)
  BY <1>1, FS_Subset
<1>. QED  BY <1>1, <1>2, <1>3

LEMMA CountsMove ==
  ASSUME HostTypeOK, NEW p \in Pages, \A q \in Pages \ {p} : trigger'[q] = trigger[q],
         NEW h, NEW steps
  PROVE  LET was == HostOf[p] = h /\ trigger[p].step \in steps
             is == HostOf[p] = h /\ trigger'[p].step \in steps
             n == Cardinality(Upgrades(h, steps))
         IN  /\ n \in Nat /\ n' \in Nat
             /\ (was <=> is) => n' = n
             /\ ~was /\ is => n' = n + 1
             /\ was /\ ~is => n' = n - 1
<1>. DEFINE was == HostOf[p] = h /\ trigger[p].step \in steps
            is == HostOf[p] = h /\ trigger'[p].step \in steps
            S == Upgrades(h, steps)
<1>1. S \in SUBSET Pages /\ S' \in SUBSET Pages /\ (was <=> p \in S) /\ (is <=> p \in S')
      /\ S' \ {p} = S \ {p}
  BY DEF Upgrades
<1>. HIDE DEF was, is, S
<1>2. /\ IsFiniteSet(S) /\ IsFiniteSet(S') /\ Cardinality(S) \in Nat /\ Cardinality(S') \in Nat
  BY <1>1, SmallSets
<1>3. CASE was <=> is
  <2>1. S' = S
    BY <1>1, <1>3
  <2>. QED  BY <1>2, <1>3, <2>1 DEF S, was, is
<1>4. CASE ~was /\ is
  <2>1. S' = S \cup {p} /\ p \notin S
    BY <1>1, <1>4
  <2>2. Cardinality(S \cup {p}) = Cardinality(S) + 1
    BY <1>2, <2>1, FS_AddElement
  <2>. QED  BY <1>2, <1>4, <2>1, <2>2 DEF S, was, is
<1>5. CASE was /\ ~is
  <2>1. S' = S \ {p} /\ p \in S
    BY <1>1, <1>5
  <2>2. Cardinality(S \ {p}) = Cardinality(S) - 1
    BY <1>2, <2>1, FS_RemoveElement
  <2>. QED  BY <1>2, <1>5, <2>1, <2>2 DEF S, was, is
<1>. QED  BY <1>3, <1>4, <1>5

LEMMA CountsTyped ==
  ASSUME NEW h
  PROVE  /\ Cardinality(Upgrades(h, Asking)) \in Nat
         /\ Cardinality(Upgrades(h, Writing)) \in Nat
         /\ Cardinality(Upgrades(h, Going)) \in Nat
         /\ Cardinality(Upgrades(h, Writing)) <= Cardinality(Upgrades(h, Asking))
         /\ Upgrades(h, Asking) = {} <=> Cardinality(Upgrades(h, Asking)) = 0
<1>1. /\ Upgrades(h, Asking) \in SUBSET Pages /\ Upgrades(h, Going) \in SUBSET Pages
      /\ Upgrades(h, Writing) \in SUBSET Upgrades(h, Asking)
  BY DEF Upgrades, Asking, Writing
<1>. QED  BY <1>1, SmallSets

(* A step that moves no upgrade, rule or lock keeps the allowance.         *)
LEMMA QuietAllowance ==
  ASSUME HostTypeOK, UpgradesWithin, UNCHANGED <<rule, trigger, republished, resets, lock>>,
         faults' \in Nat, faults <= faults'
  PROVE  UpgradesWithin'
<1>. SUFFICES ASSUME NEW q \in Pages  PROVE WithinAllowance(q)'
  BY DEF UpgradesWithin
<1>. DEFINE h == HostOf[q]
            a == Cardinality(Upgrades(h, Asking))
            w == Cardinality(Upgrades(h, Writing))
            g == Cardinality(Upgrades(h, Going))
<1>1. h \in Hosts /\ faults \in Nat /\ resets[h] \in Nat /\ republished[q] \in Nat
  BY Constants DEF HostTypeOK
<1>2. /\ a \in Nat /\ w \in Nat /\ g \in Nat
  BY CountsTyped
<1>3. Upgrades(h, Asking)' = Upgrades(h, Asking) /\ Upgrades(h, Writing)' = Upgrades(h, Writing)
      /\ Upgrades(h, Going)' = Upgrades(h, Going)
  BY DEF Upgrades
<1>4. Allowed(rule[h].fetcher = "chromedp", h \in lock, a, w, republished[q] + g,
              resets[h] + faults)
  BY DEF UpgradesWithin, WithinAllowance
<1>. HIDE DEF h, a, w, g
<1>5. Allowed(rule[h].fetcher = "chromedp", h \in lock, a, w, republished[q] + g,
              resets[h] + faults')
  BY <1>1, <1>2, <1>4 DEF Allowed
<1>. QED  BY <1>3, <1>5 DEF WithinAllowance, h, a, w, g

(* What an upgrade's step adds to the number of those at these steps.      *)
Gain(old, new, steps) ==
  (IF new \in steps THEN 1 ELSE 0) - (IF old \in steps THEN 1 ELSE 0)

LEMMA UpgradeCounts ==
  ASSUME HostTypeOK, NEW p \in Pages, \A q \in Pages \ {p} : trigger'[q] = trigger[q]
  PROVE  LET h == HostOf[p]
             a == Cardinality(Upgrades(h, Asking))
             w == Cardinality(Upgrades(h, Writing))
             g == Cardinality(Upgrades(h, Going))
         IN  /\ a \in Nat /\ w \in Nat /\ g \in Nat /\ w <= a
             /\ a' \in Nat /\ w' \in Nat /\ g' \in Nat
             /\ a' = a + Gain(trigger[p].step, trigger'[p].step, Asking)
             /\ w' = w + Gain(trigger[p].step, trigger'[p].step, Writing)
             /\ g' = g + Gain(trigger[p].step, trigger'[p].step, Going)
             /\ \A k \in Hosts \ {h} : /\ Upgrades(k, Asking)' = Upgrades(k, Asking)
                                       /\ Upgrades(k, Writing)' = Upgrades(k, Writing)
                                       /\ Upgrades(k, Going)' = Upgrades(k, Going)
<1>. DEFINE h == HostOf[p]
            N(steps) == Cardinality(Upgrades(h, steps))
<1>1. ASSUME NEW steps
      PROVE  N(steps)' = N(steps) + Gain(trigger[p].step, trigger'[p].step, steps)
             /\ N(steps) \in Nat /\ N(steps)' \in Nat
  BY CountsMove DEF Gain
<1>2. \A k \in Hosts \ {h} : /\ Upgrades(k, Asking)' = Upgrades(k, Asking)
                             /\ Upgrades(k, Writing)' = Upgrades(k, Writing)
                             /\ Upgrades(k, Going)' = Upgrades(k, Going)
  BY DEF Upgrades
<1>3. N(Writing) <= N(Asking)
  BY CountsTyped
<1>. QED  BY <1>1, <1>2, <1>3

(* An upgrade's step keeps it: past the lock with the lock or a fault, to  *)
(* Upsert only where the rule is plain, from Upsert to where the browser is*)
(* the rule, from Publish with what it has published.                      *)
LEMMA UpgradeKeepsAllowance ==
  ASSUME HostTypeOK, UpgradesWithin, NEW p \in Pages,
         resets' = resets, faults' \in Nat, faults <= faults',
         \A q \in Pages \ {p} : trigger'[q] = trigger[q],
         \A h \in Hosts \ {HostOf[p]} : rule'[h] = rule[h] /\ (h \in lock' <=> h \in lock),
         \A q \in Pages : \/ republished'[q] = republished[q]
                          \/ /\ republished'[q] = republished[q] + 1 /\ HostOf[q] = HostOf[p]
                             /\ trigger[p].step = "publish"
                             /\ trigger'[p].step \in {"remove", "idle"},
         LET h == HostOf[p]
             old == trigger[p].step
             new == trigger'[p].step
         IN  \/ /\ old = "lock" /\ new = "get" /\ rule'[h] = rule[h]
                /\ \/ h \notin lock /\ h \in lock'
                   \/ (h \in lock => h \in lock') /\ faults' = faults + 1
             \/ /\ old = "get" /\ new = "upsert" /\ rule'[h] = rule[h]
                /\ (h \in lock' <=> h \in lock)
                /\ rule[h].fetcher # "chromedp"
             \/ /\ old = "upsert" /\ new = "peek" /\ (h \in lock' <=> h \in lock)
                /\ rule'[h].fetcher = "chromedp"
             \/ /\ old = "upsert" /\ new = "idle" /\ (h \in lock' <=> h \in lock)
                /\ rule'[h].fetcher = "chromedp" /\ faults' = faults + 1
             \/ /\ rule'[h] = rule[h] /\ (h \in lock' <=> h \in lock)
                /\ \A steps \in {Asking, Writing, Going} : new \in steps => old \in steps
  PROVE  UpgradesWithin'
<1>. SUFFICES ASSUME NEW q \in Pages  PROVE WithinAllowance(q)'
  BY DEF UpgradesWithin
<1>. DEFINE h == HostOf[q]
            a == Cardinality(Upgrades(h, Asking))
            w == Cardinality(Upgrades(h, Writing))
            g == Cardinality(Upgrades(h, Going))
            old == trigger[p].step
            new == trigger'[p].step
<1>1. /\ h \in Hosts /\ faults \in Nat /\ resets[h] \in Nat /\ republished[q] \in Nat
      /\ a \in Nat /\ w \in Nat /\ g \in Nat
  BY Constants, CountsTyped DEF HostTypeOK
<1>2. Allowed(rule[h].fetcher = "chromedp", h \in lock, a, w, republished[q] + g,
              resets[h] + faults)
  BY DEF UpgradesWithin, WithinAllowance
<1>3. CASE h # HostOf[p]
  <2>1. a' = a /\ w' = w /\ g' = g /\ republished'[q] = republished[q]
    BY <1>1, <1>3, UpgradeCounts
  <2>2. rule'[h] = rule[h] /\ (h \in lock' <=> h \in lock)
    BY <1>1, <1>3
  <2>. HIDE DEF a, w, g, h
  <2>3. Allowed(rule'[h].fetcher = "chromedp", h \in lock', a', w', republished'[q] + g',
                resets[h] + faults')
    BY <1>1, <1>2, <2>1, <2>2 DEF Allowed
  <2>. QED  BY <2>3 DEF WithinAllowance, a, w, g, h
<1>4. CASE h = HostOf[p]
  <2>1. /\ w <= a /\ a' \in Nat /\ w' \in Nat /\ g' \in Nat
        /\ a' = a + Gain(old, new, Asking)
        /\ w' = w + Gain(old, new, Writing)
        /\ g' = g + Gain(old, new, Going)
    BY <1>4, UpgradeCounts
  <2>. HIDE DEF a, w, g
  <2>2. Allowed(rule'[h].fetcher = "chromedp", h \in lock', a', w', republished'[q] + g',
                resets[h] + faults')
    <3>1. CASE /\ old = "lock" /\ new = "get" /\ rule'[h] = rule[h]
               /\ \/ h \notin lock /\ h \in lock'
                  \/ (h \in lock => h \in lock') /\ faults' = faults + 1
      <4>1. a' = a + 1 /\ w' = w /\ g' = g /\ republished'[q] = republished[q]
        BY <1>1, <2>1, <3>1 DEF Gain, Asking, Writing, Going
      <4>. QED  BY <1>1, <1>2, <3>1, <4>1 DEF Allowed
    <3>2. CASE /\ old = "get" /\ new = "upsert" /\ rule'[h] = rule[h]
               /\ (h \in lock' <=> h \in lock)
               /\ rule[h].fetcher # "chromedp"
      <4>1. a' = a /\ w' = w + 1 /\ g' = g /\ republished'[q] = republished[q]
        BY <1>1, <2>1, <3>2 DEF Gain, Asking, Writing, Going
      <4>. QED  BY <1>1, <1>2, <3>2, <4>1 DEF Allowed
    <3>3. CASE /\ old = "upsert" /\ new = "peek" /\ (h \in lock' <=> h \in lock)
               /\ rule'[h].fetcher = "chromedp"
      <4>1. a' = a - 1 /\ w' = w - 1 /\ g' = g + 1 /\ republished'[q] = republished[q]
        BY <1>1, <2>1, <3>3 DEF Gain, Asking, Writing, Going
      <4>. QED  BY <1>1, <1>2, <2>1, <3>3, <4>1 DEF Allowed
    <3>5. CASE /\ old = "upsert" /\ new = "idle" /\ (h \in lock' <=> h \in lock)
               /\ rule'[h].fetcher = "chromedp" /\ faults' = faults + 1
      <4>1. a' = a - 1 /\ w' = w - 1 /\ g' = g /\ republished'[q] = republished[q]
        BY <1>1, <2>1, <3>5 DEF Gain, Asking, Writing, Going
      <4>. QED  BY <1>1, <1>2, <2>1, <3>5, <4>1 DEF Allowed
    <3>4. CASE /\ rule'[h] = rule[h] /\ (h \in lock' <=> h \in lock)
               /\ \A steps \in {Asking, Writing, Going} : new \in steps => old \in steps
      <4>1. a' <= a /\ w' <= w /\ republished'[q] + g' <= republished[q] + g
        <5>1. a' <= a /\ w' <= w /\ g' <= g
          BY <1>1, <2>1, <3>4 DEF Gain
        <5>2. CASE republished'[q] = republished[q]
          BY <1>1, <2>1, <5>1, <5>2
        <5>3. CASE /\ republished'[q] = republished[q] + 1
                   /\ old = "publish" /\ new \in {"remove", "idle"}
          <6>1. g' = g - 1
            BY <1>1, <2>1, <5>3 DEF Gain, Going
          <6>. QED  BY <1>1, <2>1, <5>1, <5>3, <6>1
        <5>. QED  BY <5>2, <5>3
      <4>2. republished'[q] \in Nat
        BY <1>1
      <4>. QED  BY <1>1, <1>2, <2>1, <3>4, <4>1, <4>2 DEF Allowed
    <3>. QED  BY <1>4, <3>1, <3>2, <3>3, <3>4, <3>5
  <2>. QED  BY <2>2 DEF WithinAllowance, a, w, g
<1>. QED  BY <1>3, <1>4

(* So does every step: Downgrade and Operator raise it with the rule that  *)
(* they take away, and the lock outlives the upgrades that it has let pass.*)
LEMMA AllowanceStays ==
  ASSUME HostTypeOK, HostsOwn, UpgradesWithin, [HostNext]_hostVars
  PROVE  UpgradesWithin'
<1>1. CASE UNCHANGED hostVars
  BY <1>1, QuietAllowance DEF hostVars, redis, notes, HostTypeOK
<1>2. ASSUME NEW p \in Pages, Page(p)
      PROVE  UpgradesWithin'
  <2>1. ASSUME NEW i \in Instances, TakeForced(p, i)
        PROVE  UpgradesWithin'
    BY <2>1, QuietAllowance, FaultsTyped DEF TakeForced, redis, notes
  <2>2. ASSUME NEW i \in Instances, TakeCached(p, i)
        PROVE  UpgradesWithin'
    BY <2>2, QuietAllowance, FaultsTyped DEF TakeCached, redis, notes
  <2>3. ASSUME NEW i \in Instances, TakeRead(p, i)
        PROVE  UpgradesWithin'
    BY <2>3, QuietAllowance, FaultsTyped DEF TakeRead, redis, notes, HostTypeOK
  <2>4. ASSUME NEW i \in Instances, AcquireSlot(p, i)
        PROVE  UpgradesWithin'
    BY <2>4, QuietAllowance, FaultsTyped DEF AcquireSlot, redis, notes
  <2>5. ASSUME NEW i \in Instances, ParseFails(p, i)
        PROVE  UpgradesWithin'
    <3>1. /\ faults' \in Nat /\ faults <= faults'
          /\ UNCHANGED <<rule, lock, republished, resets>>
          /\ \A q \in Pages \ {p} : trigger'[q] = trigger[q]
          /\ trigger'[p] = trigger[p] \/ trigger'[p].step = "lock"
      BY <2>5, FailureRecorded DEF ParseFails
    <3>. QED  BY <3>1, UpgradeKeepsAllowance DEF Asking, Writing, Going
  <2>6. ASSUME NEW i \in Instances, EmptyBody(p, i)
        PROVE  UpgradesWithin'
    <3>1. /\ faults' \in Nat /\ faults <= faults'
          /\ UNCHANGED <<rule, lock, republished, resets>>
          /\ \A q \in Pages \ {p} : trigger'[q] = trigger[q]
          /\ trigger'[p] = trigger[p] \/ trigger'[p].step = "lock"
      BY <2>6, FailureRecorded DEF EmptyBody
    <3>. QED  BY <3>1, UpgradeKeepsAllowance DEF Asking, Writing, Going
  <2>7. CASE StoreRule(p)
    BY <2>7, QuietAllowance, FaultsTyped DEF StoreRule, redis, notes
  <2>8. CASE Fetch(p)
    BY <2>8, QuietAllowance, FaultsTyped DEF Fetch, redis, notes, HostTypeOK
  <2>9. CASE Render(p)
    BY <2>9, QuietAllowance, FaultsTyped DEF Render, redis, notes, HostTypeOK
  <2>10. CASE Parsed(p)
    BY <2>10, QuietAllowance, FaultsTyped DEF Parsed, redis, HostTypeOK
  <2>11. CASE Finish(p)
    BY <2>11, QuietAllowance, FaultsTyped DEF Finish, redis, HostTypeOK
  <2>12. CASE NextCopy(p)
    BY <2>12, QuietAllowance, FaultsTyped DEF NextCopy, redis, notes
  <2>. QED  BY <1>2, <2>1, <2>2, <2>3, <2>4, <2>5, <2>6, <2>7, <2>8, <2>9, <2>10, <2>11,
               <2>12
               DEF Page
<1>3. ASSUME NEW p \in Pages, Upgrade(p)
      PROVE  UpgradesWithin'
  <2>1. CASE TakeLock(p)
    <3>1. /\ resets' = resets /\ faults' \in Nat /\ faults <= faults'
          /\ \A q \in Pages \ {p} : trigger'[q] = trigger[q]
      BY <2>1, FaultsTyped, TriggerGoes DEF TakeLock, notes, TriggerSteps, HostTypeOK
    <3>2. UNCHANGED <<rule, republished>> /\ HostOf[p] \in Hosts /\ trigger[p].step = "lock"
      BY <2>1, Constants DEF TakeLock, notes
    <3>3. \A h \in Hosts \ {HostOf[p]} : h \in lock' <=> h \in lock
      BY <2>1 DEF TakeLock
    <3>4. CASE LockFree(HostOf[p]) /\ lock' = lock \cup {HostOf[p]} /\ Steps(p, "get")
      BY <3>1, <3>2, <3>3, <3>4, TriggerGoes, UpgradeKeepsAllowance
         DEF LockFree, TriggerSteps
    <3>5. CASE UNCHANGED lock /\ Stops(p)
      BY <3>1, <3>2, <3>3, <3>5, TriggerGoes, UpgradeKeepsAllowance
         DEF Asking, Writing, Going
    <3>6. CASE lock' \in {lock, lock \cup {HostOf[p]}} /\ Steps(p, "get") /\ Fault
      BY <3>1, <3>2, <3>3, <3>6, TriggerGoes, FaultsTyped, UpgradeKeepsAllowance
         DEF TriggerSteps
    <3>. QED  BY <2>1, <3>4, <3>5, <3>6 DEF TakeLock
  <2>2. CASE GetByHost(p)
    <3>1. /\ resets' = resets /\ faults' \in Nat /\ faults <= faults'
          /\ \A q \in Pages \ {p} : trigger'[q] = trigger[q]
      BY <2>2, FaultsTyped, TriggerGoes DEF GetByHost, TriggerSteps, HostTypeOK
    <3>2. /\ UNCHANGED <<rule, lock, republished>> /\ HostOf[p] \in Hosts
          /\ trigger[p].step = "get"
      BY <2>2, Constants DEF GetByHost, redis
    <3>3. CASE rule[HostOf[p]].fetcher # "chromedp" /\ Steps(p, "upsert")
      BY <3>1, <3>2, <3>3, TriggerGoes, UpgradeKeepsAllowance DEF TriggerSteps
    <3>4. CASE Stops(p)
      BY <3>1, <3>2, <3>4, TriggerGoes, UpgradeKeepsAllowance DEF Asking, Writing, Going
    <3>. QED  BY <2>2, <3>3, <3>4 DEF GetByHost, RuleRead
  <2>3. CASE Upsert(p)
    <3>1. /\ resets' = resets /\ faults' \in Nat /\ faults <= faults'
          /\ \A q \in Pages \ {p} : trigger'[q] = trigger[q]
      BY <2>3, FaultsTyped, TriggerGoes DEF Upsert, notes, TriggerSteps, HostTypeOK
    <3>2. UNCHANGED <<lock, republished>> /\ HostOf[p] \in Hosts /\ trigger[p].step = "upsert"
      BY <2>3, Constants DEF Upsert, redis, notes
    <3>3. CASE rule' = [rule EXCEPT ![HostOf[p]] = AutoBrowser] /\ Steps(p, "peek")
      <4>1. /\ rule'[HostOf[p]].fetcher = "chromedp"
            /\ \A h \in Hosts \ {HostOf[p]} : rule'[h] = rule[h]
        BY <3>2, <3>3 DEF HostTypeOK, AutoBrowser
      <4>. QED  BY <3>1, <3>2, <3>3, <4>1, TriggerGoes, UpgradeKeepsAllowance
                   DEF TriggerSteps
    <3>5. CASE /\ rule' = [rule EXCEPT ![HostOf[p]] = AutoBrowser] /\ Stops(p)
               /\ faults' = faults + 1
      <4>1. /\ rule'[HostOf[p]].fetcher = "chromedp"
            /\ \A h \in Hosts \ {HostOf[p]} : rule'[h] = rule[h]
        BY <3>2, <3>5 DEF HostTypeOK, AutoBrowser
      <4>. QED  BY <3>1, <3>2, <3>5, <4>1, TriggerGoes, UpgradeKeepsAllowance
    <3>4. CASE UNCHANGED rule /\ Stops(p)
      BY <3>1, <3>2, <3>4, TriggerGoes, UpgradeKeepsAllowance DEF Asking, Writing, Going
    <3>. QED  BY <2>3, <3>3, <3>4, <3>5 DEF Upsert, Fault
  <2>4. CASE Peek(p)
    <3>1. /\ resets' = resets /\ faults' \in Nat /\ faults <= faults'
          /\ UNCHANGED <<rule, lock, republished>>
          /\ \A q \in Pages \ {p} : trigger'[q] = trigger[q]
      BY <2>4, UpgradeReads DEF redis
    <3>2. /\ trigger[p].step \in {"peek", "read"}
          /\ trigger'[p].step \in {"idle", "read", "publish", "remove"}
      BY <2>4, UpgradeReads, TriggerGoes DEF Peek
    <3>. QED  BY <3>1, <3>2, UpgradeKeepsAllowance DEF Asking, Writing, Going
  <2>5. CASE ReadRows(p)
    <3>1. /\ resets' = resets /\ faults' \in Nat /\ faults <= faults'
          /\ UNCHANGED <<rule, lock, republished>>
          /\ \A q \in Pages \ {p} : trigger'[q] = trigger[q]
      BY <2>5, UpgradeReads DEF redis
    <3>2. /\ trigger[p].step \in {"peek", "read"}
          /\ trigger'[p].step \in {"idle", "read", "publish", "remove"}
      BY <2>5, UpgradeReads, TriggerGoes DEF ReadRows
    <3>. QED  BY <3>1, <3>2, UpgradeKeepsAllowance DEF Asking, Writing, Going
  <2>6. CASE Publish(p)
    <3>1. /\ resets' = resets /\ faults' \in Nat /\ faults <= faults'
          /\ \A q \in Pages \ {p} : trigger'[q] = trigger[q]
      BY <2>6, FaultsTyped, TriggerGoes DEF Publish, TriggerSteps, HostTypeOK
    <3>2. UNCHANGED <<rule, lock>> /\ trigger[p].step = "publish"
      BY <2>6 DEF Publish, redis
    <3>3. \A q \in Pages :
             \/ republished'[q] = republished[q]
             \/ republished'[q] = republished[q] + 1 /\ HostOf[q] = HostOf[p]
      <4>1. PICK sent \in SUBSET trigger[p].msgs : Sends(p, sent)
        BY <2>6 DEF Publish
      <4>2. \A q \in sent : HostOf[q] = HostOf[p]
        BY <4>1 DEF HostsOwn
      <4>. QED  BY <4>1, <4>2 DEF Sends, HostTypeOK
    <3>4. trigger'[p].step \in {"remove", "idle"}
      BY <2>6, TriggerGoes DEF Publish, KeepFailed, Stops, TriggerSteps
    <3>. QED 
      BY <3>1, <3>2, <3>3, <3>4, UpgradeKeepsAllowance DEF Asking, Writing, Going
  <2>7. CASE RemoveByHost(p)
    <3>1. /\ resets' = resets /\ faults' \in Nat /\ faults <= faults'
          /\ \A q \in Pages \ {p} : trigger'[q] = trigger[q]
      BY <2>7, FaultsTyped, TriggerGoes DEF RemoveByHost, notes, HostTypeOK
    <3>2. /\ UNCHANGED <<rule, lock, republished>>
          /\ \A steps \in {Asking, Writing, Going} :
                trigger'[p].step \in steps => trigger[p].step \in steps
      BY <2>7, TriggerGoes DEF RemoveByHost, notes, Asking, Writing, Going
    <3>. QED  BY <3>1, <3>2, UpgradeKeepsAllowance
  <2>. QED  BY <1>3, <2>1, <2>2, <2>3, <2>4, <2>5, <2>6, <2>7 DEF Upgrade
<1>4. CASE Environment
  <2>1. ASSUME NEW i \in Instances, NEW h \in Hosts, Expire(i, h)
        PROVE  UpgradesWithin'
    BY <2>1, QuietAllowance, FaultsTyped DEF Expire, redis, notes
  <2>2. ASSUME NEW h \in Hosts, UpgradeLockExpires(h)
        PROVE  UpgradesWithin'
    <3>. SUFFICES ASSUME NEW q \in Pages  PROVE WithinAllowance(q)'
      BY DEF UpgradesWithin
    <3>. DEFINE k == HostOf[q]
                a == Cardinality(Upgrades(k, Asking))
                w == Cardinality(Upgrades(k, Writing))
                g == Cardinality(Upgrades(k, Going))
    <3>1. /\ k \in Hosts /\ faults \in Nat /\ resets[k] \in Nat /\ republished[q] \in Nat
          /\ a \in Nat /\ w \in Nat /\ g \in Nat /\ w <= a
      BY Constants, CountsTyped DEF HostTypeOK
    <3>2. Allowed(rule[k].fetcher = "chromedp", k \in lock, a, w, republished[q] + g,
                  resets[k] + faults)
      BY DEF UpgradesWithin, WithinAllowance
    <3>3. /\ Upgrades(k, Asking)' = Upgrades(k, Asking)
          /\ Upgrades(k, Writing)' = Upgrades(k, Writing)
          /\ Upgrades(k, Going)' = Upgrades(k, Going) /\ republished' = republished
      BY <2>2 DEF UpgradeLockExpires, Upgrades, notes
    <3>4. /\ rule' = rule /\ resets' = resets /\ faults' = faults
          /\ (k \in lock' <=> k \in lock) \/ a = 0
      <4>1. CASE k = h
        <5>1. Upgrades(k, Asking) = {}
          BY <2>2, <4>1 DEF UpgradeLockExpires, Upgrades, Asking
        <5>. QED  BY <2>2, <5>1, CountsTyped DEF UpgradeLockExpires, notes, Well
      <4>2. CASE k # h
        BY <2>2, <4>2 DEF UpgradeLockExpires, notes, Well
      <4>. QED  BY <4>1, <4>2
    <3>. HIDE DEF k, a, w, g
    <3>5. Allowed(rule'[k].fetcher = "chromedp", k \in lock', a, w, republished[q] + g,
                  resets'[k] + faults')
      BY <3>1, <3>2, <3>4 DEF Allowed
    <3>. QED  BY <3>3, <3>5 DEF WithinAllowance, k, a, w, g
  <2>3. ASSUME NEW h \in Hosts, Operator(h)
        PROVE  UpgradesWithin'
    <3>. SUFFICES ASSUME NEW q \in Pages  PROVE WithinAllowance(q)'
      BY DEF UpgradesWithin
    <3>. DEFINE k == HostOf[q]
                a == Cardinality(Upgrades(k, Asking))
                w == Cardinality(Upgrades(k, Writing))
                g == Cardinality(Upgrades(k, Going))
    <3>1. /\ k \in Hosts /\ faults \in Nat /\ resets[k] \in Nat /\ republished[q] \in Nat
          /\ a \in Nat /\ w \in Nat /\ g \in Nat /\ w <= a
      BY Constants, CountsTyped DEF HostTypeOK
    <3>2. Allowed(rule[k].fetcher = "chromedp", k \in lock, a, w, republished[q] + g,
                  resets[k] + faults)
      BY DEF UpgradesWithin, WithinAllowance
    <3>3. /\ Upgrades(k, Asking)' = Upgrades(k, Asking)
          /\ Upgrades(k, Writing)' = Upgrades(k, Writing)
          /\ Upgrades(k, Going)' = Upgrades(k, Going) /\ republished' = republished
      BY <2>3 DEF Operator, Upgrades
    <3>4. /\ lock' = lock /\ faults' = faults /\ resets'[k] \in {resets[k], resets[k] + 1}
          /\ rule[k].fetcher = "chromedp" /\ rule'[k].fetcher # "chromedp"
               => resets'[k] = resets[k] + 1
      BY <2>3, <3>1, HostTypesStay DEF Operator, Left, Change, redis, HostTypeOK, Rule
    <3>. HIDE DEF k, a, w, g
    <3>5. Allowed(rule'[k].fetcher = "chromedp", k \in lock', a, w, republished[q] + g,
                  resets'[k] + faults')
      BY <3>1, <3>2, <3>4 DEF Allowed
    <3>. QED  BY <3>3, <3>5 DEF WithinAllowance, k, a, w, g
  <2>4. ASSUME NEW h \in Hosts, WindowSlides(h)
        PROVE  UpgradesWithin'
    BY <2>4, QuietAllowance, FaultsTyped DEF WindowSlides, notes
  <2>5. ASSUME NEW i \in Instances, Downgrade(i)
        PROVE  UpgradesWithin'
    <3>. SUFFICES ASSUME NEW q \in Pages  PROVE WithinAllowance(q)'
      BY DEF UpgradesWithin
    <3>. DEFINE k == HostOf[q]
                a == Cardinality(Upgrades(k, Asking))
                w == Cardinality(Upgrades(k, Writing))
                g == Cardinality(Upgrades(k, Going))
    <3>1. /\ k \in Hosts /\ faults \in Nat /\ resets[k] \in Nat /\ republished[q] \in Nat
          /\ a \in Nat /\ w \in Nat /\ g \in Nat /\ w <= a
      BY Constants, CountsTyped DEF HostTypeOK
    <3>2. Allowed(rule[k].fetcher = "chromedp", k \in lock, a, w, republished[q] + g,
                  resets[k] + faults)
      BY DEF UpgradesWithin, WithinAllowance
    <3>3. /\ Upgrades(k, Asking)' = Upgrades(k, Asking)
          /\ Upgrades(k, Writing)' = Upgrades(k, Writing)
          /\ Upgrades(k, Going)' = Upgrades(k, Going) /\ republished' = republished
      BY <2>5 DEF Downgrade, Upgrades
    <3>4. /\ lock' = lock /\ faults' = faults /\ resets'[k] \in {resets[k], resets[k] + 1}
          /\ rule[k].fetcher = "chromedp" /\ rule'[k].fetcher # "chromedp"
               => resets'[k] = resets[k] + 1
      BY <2>5, <3>1 DEF Downgrade, Left, Change, redis
    <3>. HIDE DEF k, a, w, g
    <3>5. Allowed(rule'[k].fetcher = "chromedp", k \in lock', a, w, republished[q] + g,
                  resets'[k] + faults')
      BY <3>1, <3>2, <3>4 DEF Allowed
    <3>. QED  BY <3>3, <3>5 DEF WithinAllowance, k, a, w, g
  <2>6. ASSUME NEW i \in Instances, RestartInstance(i)
        PROVE  UpgradesWithin'
    <3>. SUFFICES ASSUME NEW q \in Pages  PROVE WithinAllowance(q)'
      BY DEF UpgradesWithin
    <3>. DEFINE k == HostOf[q]
                a == Cardinality(Upgrades(k, Asking))
                w == Cardinality(Upgrades(k, Writing))
                g == Cardinality(Upgrades(k, Going))
    <3>1. /\ k \in Hosts /\ faults \in Nat /\ resets[k] \in Nat /\ republished[q] \in Nat
          /\ a \in Nat /\ w \in Nat /\ g \in Nat /\ w <= a
      BY Constants, CountsTyped DEF HostTypeOK
    <3>2. Allowed(rule[k].fetcher = "chromedp", k \in lock, a, w, republished[q] + g,
                  resets[k] + faults)
      BY DEF UpgradesWithin, WithinAllowance
    <3>3. /\ Upgrades(k, Asking)' \subseteq Upgrades(k, Asking)
          /\ Upgrades(k, Writing)' \subseteq Upgrades(k, Writing)
          /\ Upgrades(k, Going)' \subseteq Upgrades(k, Going)
      BY <2>6, TriggerGoes DEF RestartInstance, Upgrades, Asking, Writing, Going
    <3>4. a' \in Nat /\ w' \in Nat /\ g' \in Nat /\ a' <= a /\ w' <= w /\ g' <= g
      <4>1. /\ Upgrades(k, Asking) \in SUBSET Pages /\ Upgrades(k, Writing) \in SUBSET Pages
            /\ Upgrades(k, Going) \in SUBSET Pages
        BY DEF Upgrades
      <4>. QED  BY <3>3, <4>1, SmallSets
    <3>5. UNCHANGED <<rule, lock, republished, resets>> /\ faults' = faults + 1
      BY <2>6 DEF RestartInstance, redis, notes, Fault
    <3>. HIDE DEF k, a, w, g
    <3>6. Allowed(rule[k].fetcher = "chromedp", k \in lock, a', w', republished[q] + g',
                  resets[k] + faults')
      BY <3>1, <3>2, <3>4, <3>5 DEF Allowed
    <3>. QED  BY <3>5, <3>6 DEF WithinAllowance, k, a, w, g
  <2>7. ASSUME NEW p \in Pages, CleanRaw(p)
        PROVE  UpgradesWithin'
    BY <2>7, QuietAllowance, FaultsTyped DEF CleanRaw, redis
  <2>8. ASSUME NEW p \in Pages, Forgotten(p)
        PROVE  UpgradesWithin'
    BY <2>8, QuietAllowance, FaultsTyped DEF Forgotten, notes
  <2>. QED  BY <1>4, <2>1, <2>2, <2>3, <2>4, <2>5, <2>6, <2>7, <2>8 DEF Environment
<1>. QED  BY <1>1, <1>2, <1>3, <1>4 DEF HostNext

---------------------------------------------------------------------------
(* An operator's browser rule                                              *)

(* Only an operator makes a rule the browser's by hand: an upgrade's own   *)
(* rule is the automatic one, and a downgrade leaves none to the browser.  *)
LEMMA RulesGo ==
  ASSUME HostTypeOK, [HostNext]_hostVars
  PROVE  /\ \/ UNCHANGED rule
            \/ \E h \in Hosts : Operator(h)
            \/ \E i \in Instances : Downgrade(i)
            \/ \E p \in Pages : Upsert(p)
         /\ \/ UNCHANGED unaware
            \/ \E h \in Hosts : Operator(h)
            \/ \E p \in Pages : GetByHost(p)
<1>1. CASE UNCHANGED hostVars
  BY <1>1 DEF hostVars, notes
<1>2. ASSUME NEW p \in Pages, Page(p)  PROVE UNCHANGED <<rule, unaware>>
  <2>1. ASSUME NEW i \in Instances, RecordHostFailure(p, i)  PROVE UNCHANGED <<rule, unaware>>
    BY <2>1, FailureRecorded
  <2>. QED  BY <1>2, <2>1 DEF Page, TakeForced, TakeCached, TakeRead, AcquireSlot, ParseFails,
               EmptyBody, StoreRule, Fetch, Render, Parsed, Finish, NextCopy, notes
<1>3. ASSUME NEW p \in Pages, Upgrade(p)
      PROVE  (UNCHANGED rule \/ Upsert(p)) /\ (UNCHANGED unaware \/ GetByHost(p))
  BY <1>3 DEF Upgrade, TakeLock, GetByHost, Upsert, Peek, ReadRows, Publish, RemoveByHost,
     notes
<1>4. CASE Environment
  BY <1>4 DEF Environment, Expire, UpgradeLockExpires, WindowSlides, RestartInstance,
     CleanRaw, Forgotten, Downgrade, notes
<1>. QED  BY <1>1, <1>2, <1>3, <1>4 DEF HostNext

(* A trigger comes to its upsert from its look at the rule, only.          *)
LEMMA UpsertAfterLook ==
  ASSUME HostTypeOK, [HostNext]_hostVars, NEW p \in Pages,
         trigger'[p].step = "upsert", trigger[p].step # "upsert"
  PROVE  GetByHost(p) /\ rule[HostOf[p]].fetcher # "chromedp"
<1>1. trigger' # trigger
  OBVIOUS
<1>2. ASSUME NEW q \in Pages, Page(q)  PROVE FALSE
  <2>1. ASSUME NEW i \in Instances, RecordHostFailure(q, i)  PROVE FALSE
    BY <2>1, FailureRecorded
  <2>. QED  BY <1>1, <1>2, <2>1 DEF Page, TakeForced, TakeCached, TakeRead, AcquireSlot,
               ParseFails, EmptyBody, StoreRule, Fetch, Render, Parsed, Finish, NextCopy
<1>3. ASSUME NEW q \in Pages, Upgrade(q)
      PROVE  GetByHost(p) /\ rule[HostOf[p]].fetcher # "chromedp"
  <2>1. CASE Peek(q) \/ ReadRows(q)
    BY <2>1, UpgradeReads, TriggerGoes
  <2>2. CASE TakeLock(q)
    <3>1. Steps(q, "get") \/ Stops(q)
      BY <2>2 DEF TakeLock
    <3>. QED  BY <3>1, TriggerGoes DEF TriggerSteps
  <2>3. CASE GetByHost(q)
    <3>1. Stops(q) \/ (Steps(q, "upsert") /\ rule[HostOf[q]].fetcher # "chromedp")
      BY <2>3 DEF GetByHost, RuleRead
    <3>. QED  BY <2>3, <3>1, TriggerGoes DEF TriggerSteps
  <2>4. CASE Upsert(q)
    <3>1. Steps(q, "peek") \/ Stops(q)
      BY <2>4 DEF Upsert
    <3>. QED  BY <3>1, TriggerGoes DEF TriggerSteps
  <2>5. CASE Publish(q)
    <3>1. Steps(q, "remove") \/ Stops(q)
      BY <2>5 DEF Publish, KeepFailed, Stops
    <3>. QED  BY <3>1, TriggerGoes DEF TriggerSteps
  <2>6. CASE RemoveByHost(q)
    BY <2>6, TriggerGoes DEF RemoveByHost
  <2>. QED  BY <1>3, <2>1, <2>2, <2>3, <2>4, <2>5, <2>6 DEF Upgrade
<1>4. ~Environment
  BY <1>1, TriggerGoes DEF Environment, Expire, UpgradeLockExpires, WindowSlides,
     RestartInstance, CleanRaw, Forgotten, Downgrade, Operator
<1>5. ~UNCHANGED hostVars
  BY <1>1 DEF hostVars
<1>. QED  BY <1>2, <1>3, <1>4, <1>5 DEF HostNext

LEMMA LooksStayFirst ==
  ASSUME HostTypeOK, LooksFirst, [HostNext]_hostVars
  PROVE  LooksFirst'
<1>. SUFFICES ASSUME NEW p \in Pages, trigger'[p].step = "upsert",
                     rule'[HostOf[p]] = ManualBrowser
     PROVE  p \in unaware'
  BY DEF LooksFirst
<1>. DEFINE h == HostOf[p]
<1>1. h \in Hosts /\ ManualBrowser.fetcher = "chromedp" /\ ManualBrowser # AutoBrowser
  BY Constants DEF ManualBrowser, AutoBrowser
<1>2. ASSUME NEW k \in Hosts, Operator(k)  PROVE p \in unaware'
  <2>1. trigger[p].step = "upsert" /\ unaware \subseteq unaware'
    BY <1>2 DEF Operator
  <2>2. CASE k = h
    BY <1>2, <2>1, <2>2 DEF Operator, HostTypeOK
  <2>3. CASE k # h
    <3>1. rule'[h] = rule[h]
      BY <1>1, <1>2, <2>3 DEF Operator, HostTypeOK
    <3>. QED  BY <2>1, <3>1 DEF LooksFirst
  <2>. QED  BY <2>2, <2>3
<1>3. ASSUME ~\E k \in Hosts : Operator(k)  PROVE rule[h] = ManualBrowser
  <2>1. CASE UNCHANGED rule
    BY <2>1
  <2>2. ASSUME NEW i \in Instances, Downgrade(i)  PROVE rule[h] = ManualBrowser
    BY <1>1, <2>2 DEF Downgrade, AutoUpgraded, HostTypeOK, Rule
  <2>3. ASSUME NEW q \in Pages, Upsert(q)  PROVE rule[h] = ManualBrowser
    BY <1>1, <2>3, Constants DEF Upsert, HostTypeOK
  <2>. QED  BY <1>3, <2>1, <2>2, <2>3, RulesGo
<1>4. ASSUME ~\E k \in Hosts : Operator(k)  PROVE p \in unaware'
  <2>1. trigger[p].step = "upsert"
    BY <1>1, <1>3, <1>4, UpsertAfterLook
  <2>2. p \in unaware
    BY <1>3, <1>4, <2>1 DEF LooksFirst
  <2>3. ~GetByHost(p)
    BY <2>1 DEF GetByHost
  <2>. QED  BY <1>4, <2>2, <2>3, RulesGo DEF GetByHost
<1>. QED  BY <1>2, <1>4

---------------------------------------------------------------------------
(* The hosts' invariant and what follows from it                           *)

LEMMA HostInvInit == HostInit => HostIInv
<1>. SUFFICES ASSUME HostInit  PROVE HostIInv
  OBVIOUS
<1>1. /\ NoTrigger \in Triggers /\ NoTrigger.ids = {} /\ NoTrigger.msgs = {}
      /\ NoTrigger.step = "idle"
  BY DEF NoTrigger, Triggers, TriggerSteps
<1>2. HostTypeOK
  BY <1>1, Constants DEF HostInit, HostTypeOK, PageSteps, Rule, NoRule, ManualBrowser
<1>3. RowsParsed /\ owed \subseteq raw /\ OwedIsTracked /\ StrikesSafe
  BY DEF HostInit, RowsParsed, OwedIsTracked, StrikesSafe
<1>4. HostsOwn
  BY <1>1 DEF HostInit, HostsOwn
<1>5. ASSUME NEW p \in Pages  PROVE WithinAllowance(p)
  <2>1. /\ Upgrades(HostOf[p], Asking) = {} /\ Upgrades(HostOf[p], Writing) = {}
        /\ Upgrades(HostOf[p], Going) = {}
    BY <1>1 DEF HostInit, Upgrades, Asking, Writing, Going
  <2>2. /\ HostOf[p] \in Hosts /\ faults = 0 /\ resets[HostOf[p]] = 0 /\ republished[p] = 0
        /\ Cardinality({}) = 0
    BY Constants, FS_EmptySet DEF HostInit
  <2>. QED  BY <2>1, <2>2 DEF WithinAllowance, Allowed
<1>6. LooksFirst
  BY <1>1 DEF HostInit, LooksFirst
<1>. QED  BY <1>2, <1>3, <1>4, <1>5, <1>6 DEF HostIInv, UpgradesWithin

LEMMA HostInvNext == HostIInv /\ [HostNext]_hostVars => HostIInv'
BY HostTypesStay, RowsStay, OwedStays, HostsStayOwn, AllowanceStays, LooksStayFirst DEF HostIInv

LEMMA HostInvariant == HostSpec => []HostIInv
BY HostInvInit, HostInvNext, PTL DEF HostSpec

(* The types hold, and with them the bounds on the trouble of a run.       *)
THEOREM HostTypes == HostSpec => []HostTypeOK
<1>1. HostIInv => HostTypeOK
  BY DEF HostIInv
<1>. QED  BY <1>1, HostInvariant, PTL

(* Upgrader.Trigger publishes a failed page once, once more each time that *)
(* the host's rule has left the browser, and at most once more per failed  *)
(* call or restart, however many failures trigger it on however many       *)
(* instances: the lock in Redis and the look at the rule after it do that. *)
THEOREM UpgradesPublishOnce == HostSpec => []RepublishedOnce
<1>1. HostIInv => RepublishedOnce
  <2>. SUFFICES ASSUME HostIInv, NEW p \in Pages
       PROVE  republished[p] <= 1 + resets[HostOf[p]] + faults
    BY DEF RepublishedOnce
  <2>1. HostTypeOK /\ WithinAllowance(p)
    BY DEF HostIInv, UpgradesWithin
  <2>2. /\ HostOf[p] \in Hosts /\ republished[p] \in Nat /\ resets[HostOf[p]] \in Nat
        /\ faults \in Nat
    BY <2>1, Constants DEF HostTypeOK
  <2>. QED  BY <2>1, <2>2, CountsTyped DEF WithinAllowance, Allowed
<1>. QED  BY <1>1, HostInvariant, PTL

(* A page that recordHostFailure has tracked is in the host's list until an*)
(* upgrade has published it, its row is gone, or an upgrade could not read *)
(* its row: a publish that fails loses none.                               *)
THEOREM FailedPagesAreTracked == HostSpec => []OwedIsTracked
<1>1. HostIInv => OwedIsTracked
  BY DEF HostIInv
<1>. QED  BY <1>1, HostInvariant, PTL

(* What a step does with an operator's browser rule.                       *)
ManualStays ==
  \A h \in Hosts : rule[h] = ManualBrowser /\ rule'[h] # ManualBrowser =>
    \/ Operator(h)
    \/ \E p \in unaware : HostOf[p] = h /\ Upsert(p)

(* No downgrade takes a browser rule from an operator, and no upgrade that *)
(* has looked at the rule since he set it, whatever the caches of the      *)
(* instances still hold: Trigger asks the database before it writes.       *)
THEOREM OperatorsRuleStays == HostSpec => ManualBrowserStays
<1>1. HostIInv /\ [HostNext]_hostVars => ManualStays
  <2>. SUFFICES ASSUME HostTypeOK, LooksFirst, [HostNext]_hostVars, NEW h \in Hosts,
                       rule[h] = ManualBrowser, rule'[h] # ManualBrowser, ~Operator(h)
       PROVE  \E p \in unaware : HostOf[p] = h /\ Upsert(p)
    BY DEF HostIInv, ManualStays
  <2>1. ASSUME NEW i \in Instances, Downgrade(i)  PROVE FALSE
    <3>1. h \notin {k \in Hosts : AutoUpgraded(rule[k])}
      BY DEF AutoUpgraded, ManualBrowser
    <3>. QED  BY <2>1, <3>1 DEF Downgrade
  <2>2. ASSUME NEW k \in Hosts, Operator(k)  PROVE FALSE
    <3>1. k # h
      BY <2>2
    <3>. QED  BY <2>2, <3>1 DEF Operator
  <2>3. PICK p \in Pages : Upsert(p)
    BY <2>1, <2>2, RulesGo
  <2>4. HostOf[p] = h /\ trigger[p].step = "upsert"
    BY <2>3 DEF Upsert, HostTypeOK
  <2>. QED  BY <2>3, <2>4 DEF LooksFirst
<1>2. ManualBrowserStays <=> [][ManualStays]_hostVars
  BY PTL DEF ManualBrowserStays, ManualStays
<1>. QED  BY <1>1, HostInvariant, PTL DEF HostSpec, ManualBrowserStays, ManualStays
=============================================================================
