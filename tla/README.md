# IssueTracker: a TLA+ verification project

IssueTracker is a Go service that crawls news sites. Jobs and documents travel through
Kafka topics from stage to stage; Redis holds locks, markers, delayed retries, buffers
and priority queues; PostgreSQL holds pages, rules and contents. This directory models
the parts of it in which several goroutines or processes meet, checks them with TLC on
small instances and proves the most important invariants, and one refinement, with TLAPS
for instances of any size. `PROJECT.json` holds the machine-readable side: components,
runs, mutants, the map from definitions to source lines, findings, hazards and theorems.

    tlc -workers 2 -config MCStageGate.cfg MCStageGate.tla     # a run
    tlapm StageGateProofs.tla                                  # a proof

Contents: 1 the system; 2 the hard parts; 3 the modules; 4 the runs; 5 fairness;
6 the proofs; 7 what the checks found; 8 what is not modelled; 9 the plan.

## 1. The system

    Scheduler --PublishSeed--> [Redis job buffer] --drainer--> crawl.{high,normal,low,chromedp}
        ^                                                            |
        |  markers, seen cache                                       v
        +---- PublishChained <-- Parser worker <-- fetched <-- Fetcher pools --> DLQ
                                     |                               |
                                     v                               +--> delayed retries (Redis)
                                 normalized --> Validate --> validated --> Enrich --> enriched

Every consumer of a crawl topic is a pool of `internal/workerpool`: one poller, a
channel, N workers, commits by message. Every stage takes a *stage gate* (a local
semaphore, then a Redis lock on the URL) around its work. Between `fetched`,
`normalized`, `validated` and the workers of their stages an optional *priority
intake* moves messages from Kafka to a Redis ZSET, from which the workers pop.

| Component (code) | State it keeps | Operations | Talks to | What makes it correct |
|---|---|---|---|---|
| Stage gate (`internal/locks`, `pkg/redis/lock.go`) | permits and in-flight counter of the process; URL key with token and TTL in Redis | `Acquire`, its release closure | every stage worker | no permit leaks; the key is a lease: two workers share a URL only past a TTL, nobody ends another's |
| Circuit breaker (`pkg/resilience`) | state, failures, opening time, probe flag per source; registry | `Get`, `Allow`, `RecordSuccess`, `RecordFailure` | fetcher workers | one breaker a source; never stuck refusing; opens only at the threshold |
| Worker pool (`internal/workerpool`, `pkg/queue/consumer.go`) | reader position, channel, workers; committed offset in Kafka | poll, dispatch, `CommitMessages`, `Stop` | Kafka | a message is not committed away before someone has taken over its job |
| Fetcher worker (`internal/processor/fetcher/worker`) | job in hand | `Handle`, `processJob`, `sendToDLQ`, `requeueWithRetry`, `requeueGateSkip` | gate, breaker, retry scheduler, DLQ | each job is fetched, dropped, retried within its budget or dead-lettered |
| Delayed retries (`internal/bus/retry.go`, `pkg/redis/retry_queue.go`) | ZSET by due time, payload strings | `Enqueue`, `pollOnce` (peek, publish, acknowledge), reschedule, purge | workers, crawl topics | at least once: an accepted retry is published |
| Publisher (`internal/bus/chain.go`, `seed.go`) | seen cache | `PublishSeed`, `PublishChained`, upgrade and worker publishes | markers, producer | a URL enters once while it is in the pipeline, and is not shut out for ever |
| Markers and guard (`internal/locks/ingestion_marker.go`, `pipeline_guard.go`) | a key per URL with a TTL by target type | `CheckAndAcquire`, `Release` | publisher, parser worker | markers outlast the work they stand for and no longer |
| Job buffer and drainer (`pkg/queue/buffering_producer.go`, `internal/scheduler/buffer_drainer.go`, `pkg/redis/job_buffer.go`, `leader_lock.go`) | capped list per label; leader key | `Publish`, `PublishBatch`, `drainAll`, `dispatchToRetry`, `TryAcquire`, `Release` | publisher, Kafka, retry scheduler | no accepted job vanishes; the topic is not overfilled; one leader |
| Scheduler (`internal/scheduler/scheduler.go`, `resolver.go`, `throttle.go`) | a goroutine per entry, the table of those that run | `Start`, `Refresh`, `run`, `publish`, `Stop` | publisher, rows in the database | the table takes effect; a replaced goroutine leaves nothing that keeps its successor out |
| Priority intake (`pkg/queue/priority_zset.go`, `*/worker/zset_intake.go`) | ZSET, payload and header keys | `Push`, `Pop`, pump | Kafka, stage workers | what is pushed is popped, once |
| Parser worker and rules (`internal/processor/parser`) | resolver caches, refiner counters | `Handle`, `processCategoryPage`, `processArticlePage`, retries, stale and relearn paths | storage, LLM generation, publisher | each page ends in a content, a retry, a rule request or a drop |
| LLM rule generation (`parser/rule/llmgen`, `refiner`) | call budget, breaker, in-flight lock, pending list | `Enqueue`, `EnqueueStale`, `runOnce`, requeue, `refine` | LLM clients, rules, storage | one generation per host, calls within budget, pending pages come back |
| Validate, enrich, cost guard | messages in hand; the daily counter and its cached backlog | `Handle`, sessions of an article, `Allow` | storage, agents | budget kept; a rejected content is dead-lettered |
| Fetch chain and fetcher rules | rule cache, in-flight lock, failure counts and tracked pages, browser slots | choice of the fetcher, upgrade, downgrade, republish | crawl topics, storage | a failed page is published once more by an upgrade, and only an automatic browser is downgraded |
| LLM clients (`pkg/llm`) | latencies and failures of each provider | `Generate` through policy, chain and retries | HTTP | what a failure is called when the last provider has failed |
| Agent pools (`pkg/agent`) | containers, workspaces, sessions under way | `Start`, `RunSession`, `ExtractEnriched`, `Stop` | docker | a session keeps its container; no container outlives its pool |
| Rate limiters (`fetcher/rate_limiter`) | a limiter per address, caches of addresses and rates | `Wait` | DNS, rules in the database | a failed look-up opens no limiter but its own |
| Commands (`cmd`) | clients, consumers and goroutines of a process | start, signal, shutdown | all | nothing is closed under those who use it; the process ends |
| Precheck, URL guard, links, scoring | rule lists | pure decisions | the stages | agree with their definition |
| Storage, API, configuration, metrics | SQL tables | CRUD, wiring, output | all | - |

## 2. The hard parts

- **Interleaving.** Workers of one pool share a reader, a registry of breakers, a
  semaphore; workers of several pods share Redis keys. Schedulers, drainers and
  pumps run in every instance.
- **Calls that half happen.** A Redis pipeline is not a transaction, a reply can be
  lost after the command was applied, a Kafka batch can be written in part. The code
  answers with fail-open (publish without the marker, work without the gate), with
  fail-closed (the drainer) or with a compensation (give the permit back, put the
  payloads back), each of which can fail too.
- **Time.** Locks and markers expire while their holder works; retries fall due while
  an older one is being acknowledged; a breaker's timeout passes while an old fetch
  is still out.
- **Death.** A pod takes its permits, its channel and its hands' content with it; its
  keys stay until their TTL.
- **What was read is old.** Rules of hosts, rows of the scheduler, rates and backlogs
  are cached by each process, loaded by one caller for others, and written by
  operators, by crons and by what the program learns, while somebody acts on them.
- **Starting and stopping.** A pool starts in part, a wait is cut short, a process
  closes in one order what was opened in another.
- **Cumulative commits.** A commit of an offset covers all before it, whoever still
  works on them.

`PROJECT.json` lists these hazards one by one, at the line where each bites, with the
properties that would catch it.

## 3. The modules

Each module is one component with the environment it needs, each action one critical
section, Redis command, Kafka call or local step of the code. The comment above an
action names the function when its name does not. Conventions shared by all modules:

- `pc`, `wpc`, `spc`, `dpc`, `cpc`, `at`, `step` say where each goroutine is; an action
  is the code up to its next access to something shared.
- A remote call is one action for its success and one for its failure, and the failure
  leaves the remote state unchanged *or* changed. `faults` (`upsets`, `trouble`,
  `failures`) bounds failures and deaths.
- `Crash`, `Restart`, `Kill` and `Die` are deaths of a process: local state is gone,
  Redis, Kafka and the database keep theirs.
- Ghost variables (`overran`, `owed`, `astray`, `lost`, `quietly`, `ghost`, ...) record
  history for the properties; no action of the code reads them.
- Operators such as `WithoutPermitBack` or `NothingBack` that nothing uses are the
  faulty variants that the mutants of `PROJECT.json` put in the place of the operator
  below them.

### The gate, the breaker and the process

**StageGate** (`stage_gate.go`, `semaphore.go`, `processing_lock.go`,
`pkg/redis/lock.go`). `Acquire` takes the semaphore (`TakePermit`, or `CancelWait` when
the context ends), counts itself in (`CountIn`), and tries SET NX with a fresh token
(`LockTaken`, `LockBusy`, `LockFails`). A busy lock or an error gives the permit back
(`OnBusy`, `OnError`). A caller whose lock failed works without the gate, as the stage
workers do (`FinishOpen`). Release discounts, returns the permit and runs the owned
delete (`CountOut`, `ReturnPermit`, `Unlock`). Keys expire (`Expire`), pods die
(`Crash`). A token is a value that is not in use, which stands for 128 random bits.

**Lease** is what the lock promises, without tokens, Redis or permits: a key is granted
while it is free, given back by whoever was granted it, and lapses at any time; a lease
whose owner never heard of it, or died, is `Stray`. **StageGateLease** maps the gate to
it: the owner of a URL is the worker whose token Redis holds, a worker claims the URL
from the answer of SET to the script that deletes the key. `LeaseKept` is the abstract
specification as a property.

**CircuitBreaker** (`circuit_breaker.go`, and `processJob` as its client). `Lookup` and
`Create` are the two looks of `Registry.Get`; `Allow`, `RecordSuccess` and
`RecordFailure` run under the mutex and are one step each. A fetch lasts from `Allow` to
a report, so that reports arrive in any order. `Elapse` is the clock passing
`OpenTimeout`.

**Process** (`cmd/issuetracker/main.go`, the stages' `Start` and `Stop`,
`workerpool.Pool.Stop`) extends CircuitBreaker: the breaker and its workers live in a
process that starts (`Boot`, a sequence of the sections of `main`, each of which opens
things, starts goroutines, and is fatal or goes on without features), gets the signal,
and stops by the sequence of `main`, with its waits, what each wait gives up at the
timeout, and the deferred closes. `Uses` says what a goroutine at work has in hand,
`Setups` which features a node's configuration turns on.

### The fetchers

**FetcherPool** (`workerpool/pool.go`, `fetcher/worker/pool.go`). One partition as a
sequence `log`; the reader's `next` offset, the `poll`er's hand, the `jobs` channel, the
workers' `cur`. A worker's path is Handle: start, gate (let in, skipped, error), breaker
(allowed or refused), fetch (success, retryable or final failure), then commit, DLQ or
retry and the release of the gate. The gate and the breaker appear by their answers; the
delayed retries as one entry per job. `forsaken` holds the offsets that a worker leaves
uncommitted because a publish failed or its pod died. The pool stops, is killed and
starts again at the committed offset.

**SourceLimits** (`fetcher/rate_limiter`, `Get` of `core/http_client.go`). A call
resolves its host's address, then the host's rate from a cache or a query that calls of
the host share (`Missed`, `Sharing`, with `Flight` as the key of singleflight), gets the
limiter of the address, which the first call makes with the rate it has (`GetLimiter`,
with the eviction of those not used for an hour), and waits for a token. Every look-up
that fails lets the call go on. A rate is abstracted to "limited" or not.

**HostFetch** (`chain_handler.go`, `fetcher/rule`, `chromedp_handler.go`, the failure
counter and tracker in Redis). The job of a page is taken by an instance, which chooses
the plain client or a browser from a forced job's token or from the host's rule, through
its cache (`TakeForced`, `TakeCached`, `TakeRead`, `StoreRule`). Failures that the parser
counts start an upgrade: lock, look at the rule, upsert, peek of the tracked pages, their
rows, publish, removal (`TakeLock` ... `RemoveByHost`), one step each. The look goes to
the database and not to a cache (`RuleRead`); `unaware` holds the upgrades that have
looked before the operator's last change. A publish that fails may have written any part
of its batch (`Sends`). `Downgrade` is the
weekly cron, `Operator` an edit of the rule by hand. A parser that is done deletes the raw
row (`DeleteRaw`); where the delete fails it goes on, and the row is left to `CleanRaw`.

**RetryQueue** (`retry.go`, `retry_queue.go`). The ZSET and the payload strings are two
variables, written by two steps of a pipeline in `Enqueue` (`wpc`), read by ZRANGE and
GETs, and removed by ZREM and DEL by each scheduler (`spc`). A stale ID, one without a
payload, is purged. A failed publish reschedules the peeked payload (`OnPublishFailure`).
A payload is its retry count, which is what tells an older from a newer one. `copies`
counts what each scheduler has published of a message since it was stored last.

### The way in

**Publisher** (`chain.go`, `seed.go`, `seen_cache.go`, `pipeline_guard.go`,
`ingestion_marker.go`, `processCategoryPage`, `releaseCategoryMarker`,
`Scheduler.publish`). The marker keys, the seen cache, the goroutine of each seed in
`PublishSeed`, the parser workers in `processCategoryPage` with its two calls of
`PublishChained`, whose `filterByAcquire` asks for one URL at a time. The rest of the
pipeline is a counter of category messages on their way (`pages`, capped at MaxPages)
and of entries of each article (`entered`, capped at 2, "more than one").

**Scheduler** (`scheduler.go`, `resolver.go`) extends Publisher by the table: operators
edit rows, the loop reads them (`Resolve`, `ResolveFails`) and, later and under the lock,
compares them with what runs, cancels and spawns (`Refresh`). A cancelled goroutine goes
on beside its successor, in an instance of Publisher of its own (`Gone == INSTANCE
Publisher WITH spc <- gspc, guarded <- gguarded`): it ends its `PublishSeed`, may take
one more tick, and its remote calls have an ended context.

**JobBuffer** (`buffering_producer.go`, `job_buffer.go`, `leader_lock.go`,
`buffer_drainer.go`, `backlog.go`). The list with LPUSH and LTRIM, a pipeline that may be
cut in between; the caller's `PublishBatch` with its fallback to Kafka; the drainers'
cycle of election, check, pop, publish, dispatch to the retry scheduler, put-back and
release. The leader's token is modelled by its owner: `lock = d` when the key holds
`d`'s current token, `Orphan` when it holds one that nobody remembers. The backlog read
and the list's length are one step: the pop takes no more than both allow, and every
interleaving of the two reads has the outcome of one without it. Two indexes that the
code takes to be equal, of messages and of payloads, are kept apart.

**PriorityIntake** (`priority_zset.go`, the three `zset_intake.go`). An intake fetches
the next message of its partition, pushes payload, headers and member (`SetPayload`,
`SetHeaders`, `Add`), trims the ZSET (`Trim`) and commits; after a failed push it goes on
with the next offset (`PushFails`). A pop takes the member, reads the payload, reads the
headers with the digest of the payload they belong to, and deletes both keys, four
steps; a failed read puts the member back with its score (`Restored`). Messages of one
ID are a reference and its retries.

### The stages

**StageWorkers** (`parser/worker/worker.go`, `validate/worker/worker.go`,
`enrich/worker/worker.go`, `service/content.go`). A worker takes a message of any of the
three stages, so that the two of an instance can meet at one stage or work at different
ones; every stage has a gate of its own for each URL. `Fetch` is the whole fetcher. A
parse may come out as any row the rules in force could make of the page (`StoreRow`),
which `Verdict` then judges: a missing date asks for a reparse, spam is rejected, and the
title and body limits are of the first kind and not told apart. Messages carry the three
counts the code bounds its cycles with: `reparse` and `skips` in headers, `retry` in the
message; each action keeps or drops them as its function does. `streak` counts the
reparses of a URL since one of its messages lost the count (`Loses`). `reparses` is
`w.cfg.ReparseEnabled`, off by default: without it a missing date goes the way of a retry
at once. `zset` chooses between
the two intakes: in Kafka mode a message that fails is read again, in ZSET mode the pop
has acknowledged it and `Handle` must put a fresh job in its place. Merged into one step
are Store's look-up by hash with its upsert, and a failed `Handle` with its enqueue. The
parser gives its gate back before the commit (`Cleanup`), the other two commit under it.
`excused` collects the articles that the code gives up knowingly or by a flaw that section
7 names: the row was deleted under another message that needed it (`RowUsers`,
`RawUsers`), or deleted before a DLQ publish that failed (`Unrecoverable`), or is that of
another URL with the same body (`Forward`), or the message died after a pop. Such a
duplicate's reparse crawls the row's URL and not its own; `doubled` collects the URLs sent
out that way.

**RuleStore** holds the rows of `parser_rules` and the choice of a rule for a page: a
rule's selectors are abstracted to the layout they were learned from. **RuleLearning**
(`llmgen`, `rule/resolver.go`, `refiner`, `handleRuleError`,
`recordStaleAndMaybeRelearn`) is what happens to a page without a rule, or with one that
fails: look-up through an instance's two caches, the stale counter, the in-flight lock,
the breaker, budget, the call, the version, the insert, the invalidation, the flush of
the pending list, the requeue and the release, each a step, so that a lookup may store
what it read before an invalidation. The refiner turns a pattern for all paths into one
for some. **ProviderChain** (`pkg/llm`) is the one call in it, as pure operators: the
sequences of replies that the retries of a provider allow (`Tries`), the orders a policy
may choose, the outcome that the chain passes on, and with them the set of `Answers`
RuleLearning takes one of.

**EnrichFacts** (`enrich/core`, `enrich/worker/worker.go`) is the course of an article's
sessions as pure operators: which of them are run for what the earlier ones answered,
what is published and what is stored. **AgentSessions** (`pkg/agent`, `cost_guard.go`)
runs them on the pools of agent workers: start with its partial failure and cleanup,
sessions counted, admitted and run, stop with its wait, docker calls that fail, the
daily count beside a cached backlog, midnights, kills and restarts over containers and
workspaces that stay. A `docker run` or `docker rm` that fails may have taken effect like
any other remote call: a container without an ID (`orphaned`), an ID without a container
(`vanished`). claude and codex differ where their code does.

How they compose: Scheduler is Publisher with a table; Process is CircuitBreaker in its
process; RuleLearning stands on RuleStore and ProviderChain, AgentSessions on
EnrichFacts; StageGateLease relates two specifications. The others meet by what they
promise: FetcherPool uses the gate and the breaker by the answers StageGate and
CircuitBreaker allow, the limits as a part of its fetch, and the delayed retries as
RetryQueue's contents; Publisher's `pages` enter FetcherPool's `log` by way of JobBuffer,
and it treats a loss on that way as `PageLost`. StageWorkers begins where FetcherPool's
fetch succeeds and takes its retries as messages that come back; its gate is StageGate's
lock without the semaphore, its ZSET mode PriorityIntake without its races. A rule error,
one step there that leaves or drops the raw row, is RuleLearning here, and the failures
counted there start HostFetch's upgrade.

The `MC` modules hold the definitions an instance needs. `MCFetchLimits` puts two
systems without common state into one run, each explored with the other at rest.

## 4. The runs

| Run | Instance | States | What it checks |
|---|---|---|---|
| `stage_gate` | 3 workers on 2 pods, 1 URL, 1 permit a pod, 3 tokens | 46,488 | PermitsAccounted, AcquireEnds, LeaseKept |
| `circuit_breaker` | 2 workers of one source, threshold 2, in the process of each of 4 kinds of node | 220,508 | ClosedBelowThreshold, RefusalEnds, StillOpen, ShutdownEnds |
| `fetcher_pool` | 2 jobs, 2 workers, 1 retry, channel of 1, 3 messages, 1 restart | 1,932,478 | JobAccounted, RetriesWithinBudget |
| `fetcher_live` | 2 jobs, 2 workers, 1 retry, 4 messages, no restart | 153,318 | JobSettles |
| `retry_queue` | 1 job, 1 worker, 2 schedulers, 2 retries, 2 faults | 1,175,407 | OwedIsKept, PublishedOnceEach, OwedIsPublished |
| `publisher` | 1 category whose pages link to it, 1 article, 2 workers, 1 message, 2 versions of the entry, 1 edit, 1 fault | 297,044 | OneEntryPerMarker, CancelledLeaveNoMarker, TableTakesEffect, EnabledSeedResumes, ArticleReturnsWhileEnabled |
| `job_buffer` | 3 jobs (1 undecodable), 1 caller, 2 drainers, list of 2, target 2, 1 fault | 554,555 | JobKept, OneLeader, BufferDrains |
| `stage_workers` | 1 new article and a URL that has come before, 2 bodies (1 spam), 2 workers, reparsing on or off, 1 reparse, 1 retry, 1 gate skip, 1 fault | 1,803,548 | ArticleAccounted, SingleCopy, RawCleared, ReparseLimitKept |
| `rules` | 2 pages of 1 host, 2 instances, 2 layouts, 3 versions, 2 providers, limits of one, 1 fault | 2,760,617 | GenerationsExclusive, CallsPerPage, BudgetOvershoot, LockFreedByHolder, DisableHolds |
| `hosts` | 2 pages of 1 host, 2 instances with 1 slot, threshold 1, 1 fault and 1 change | 4,048,019 | RepublishedOnce, OwedIsTracked, ManualBrowserStays |
| `agents` | 2 enrich slots, 2 generations, 1 claude and 2 codex workers, 2 sessions an article, 1 article a day, 2 faults, 1 midnight, 2 starts | 1,498,013 | SessionsKeepContainer, NoContainerLeft, AdmissionGuardsWait, CallsWithinBudget |
| `priority_intake` | 2 partitions with 4 messages of 2 IDs, 2 consumers, ZSET of 1, 1 fault; 2 callers, 3 hosts on 2 addresses, 2 upsets | 1,923,027 | OwnHeaders, CommittedIsKept, OpenForAReason |

Runs with interchangeable workers, pages or instances use symmetry, and none of those
checks liveness.

Why the bounds are enough to see the interesting cases:

- *stage_gate*: two workers of one pod meet at the only permit, one of another pod
  meets them at the key. Three tokens let each worker have one. More URLs would only
  repeat the key.
- *circuit_breaker*: two fetches that are let in while Closed open the breaker at the
  threshold of 2; one of them may be late and the other the probe. The four setups
  together turn on every feature; features that do not build on one another meet in
  the order of `main` alone.
- *fetcher_pool*: two offsets in two hands are what a cumulative commit needs. Three
  messages leave room for one requeue of a job, four for both jobs' retries: an
  exhausted log only stops `RetryDue`. `MaxRestarts = 1` gives a process that reads
  again what it had not committed. The live run drops restarts, since a death leaves
  a message uncommitted and JobSettles excuses that.
- *retry_queue*: jobs do not share anything in Redis (their members and keys are their
  own), so one job stands for all. Two schedulers are what it takes to have one act on
  an entry that the other has removed or put back. Two faults allow two of a failed
  publish, a failed acknowledgement and a death in one behaviour; what a further one
  may add to the copies of a retry the proof covers.
- *publisher*: one category that links to itself has a scheduler entry and a chained
  link compete for one marker; two workers compete for the article. One edit replaces,
  removes or brings back the entry, with a cancelled goroutine in each place of
  `PublishSeed`. OneEntryPerMarker is proved for any number of categories, articles and
  messages of Publisher, without the table.
- *job_buffer*: a list of two overflows with three jobs, and the undecodable payload
  shifts the indexes of `dispatchToRetry` when it stands before another. The only fault
  fails a publish and may go on to fail the dispatch and the put-back, as an outage
  would, or fails an enqueue and the publish it falls back to; a lost lock reply or a
  death are the other uses of it.
- *stage_workers*: two workers meet at one gate, or follow each other through the
  stages of one article with one of them a cycle behind. The second URL exists by
  its row, which may hold the body the new article turns out to have, and by the jobs a
  reparse creates for it; its host is one of the browser's, whose jobs lose their
  headers. Limits of one (the code has 2 reparses, 3 retries by default, 3 gate skips)
  reach each limit and the branch behind it. One fault is a failed call, a purge, a
  death or a lock that expires under its holder. MaxRaw bounds the identities a raw
  row can have: three are enough for every message and hand to have a row of its own.
  In Kafka mode the fault and a duplicate's reparse do not come in one behaviour
  (`FailuresApart`); in ZSET mode they do.
- *rules*: the rows of the host start empty, as an enabled rule for an old layout or as
  a disabled one, so that the first learning, a relearning and a refusal to learn all
  occur. One page matches the refiner's pattern and one does not; three versions are a
  first one, its successor and that of a refined rule. Every limit (budget of 2, one
  strike, one retry, one waiting page) is reached.
- *hosts*: the first failure of either page triggers an upgrade while the other page's
  may be under way on the other instance; one change brings the rule back, or sets it by
  hand after an upgrade has looked at it.
- *agents*: the claude pool has one worker and the codex pool two, for a start that fails
  in part; two sessions of one article span a midnight. Two faults are a refused removal
  after a refused start, a `docker run` and a `docker rm` that fail after they took effect,
  or a kill with a second start.
- *priority_intake*: one ID comes twice on two partitions, with headers and without;
  another ID makes a ZSET of one member overflow, a message that does not decode sits
  behind one that may fail. Of the limits: two hosts share an address and a third has its
  own, two calls share a query or meet at a limiter that an earlier one has made, and a
  failed look-up may be followed by another or by an edit.

What the properties say beyond their names:

- *Conservation.* JobAccounted, JobKept, CommittedIsKept, ArticleAccounted and
  OwedIsTracked say that no path forgets a job, a message or an article, with the losses
  the code accepts written out (`forsaken`, `lost`, `excused`, `misread`). OwedIsKept
  holds as long as a job is not requeued while a scheduler has its earlier retry in hand
  (`overtaken`), a case section 7 describes. CancelledLeaveNoMarker says that a marker
  whose URL is not in the pipeline has a failure behind it (`astray`), whatever a
  refresh has cancelled. SingleCopy is the converse of ArticleAccounted: a skip, a
  requeue or a reparse adds no second copy of any URL while nothing fails, those apart
  that a duplicate's reparse has sent out (`doubled`).
- *Exclusion under leases.* LeaseKept, OneLeader, GenerationsExclusive (one more
  generation for each lock that expired under one) and LockFreedByHolder.
- *Budgets across failures.* RetriesWithinBudget, CallsPerPage, BudgetOvershoot,
  CallsWithinBudget, RepublishedOnce and PublishedOnceEach bound what retries, races,
  restarts and midnights can add up to. ReparseLimitKept says how far the limit of
  reparses goes: the count survives the way through three stages and their headers,
  until one of the functions that do not copy it starts it anew (section 7 says what
  follows). BudgetOvershoot and CallsWithinBudget state what the code guarantees, which
  is more than its limits.
- *Stale reads.* DisableHolds, ManualBrowserStays, OwnHeaders and OpenForAReason say what
  an old answer may not do: teach a rule to a disabled host, undo an operator's choice
  (but for an upgrade that had looked before it), give a retry another's counts, lift a
  limit that no row of the address has lifted.
- *Life cycle.* StillOpen and ShutdownEnds of the process; SessionsKeepContainer,
  NoContainerLeft and AdmissionGuardsWait of the agents.

`PROJECT.json` pairs every property with a mutant, a plausible mistake in the code
(the release of a lock without its token, a rate query shared by all hosts, a budget that
forgets the day, a refresh that compares URLs only, ...) for which TLC finds the property
violated in the same run.

Deadlock is checked in `stage_gate`, `circuit_breaker`, `publisher` and `job_buffer`. The
other systems stop when their jobs are settled or their bounds are used up.

## 5. Fairness

Weak fairness of an action says that its goroutine keeps running; the code gives no
goroutine a way to be stopped for ever but the ones that are modelled.

- *StageGate*: each worker takes its next step, keys expire. Strong fairness of
  `TakePermit`, for the semaphore serves its waiters in the order of arrival: a worker
  that finds a permit free again and again gets one.
- *Process*: while the process runs, each worker takes its next step, which includes that
  fetches end (they run under the job's timeout) and that jobs keep coming; the clock
  runs. Nothing is assumed of who is let in or of which report comes first, and the
  breaker of a process that stops or dies owes nothing: the jobs that are refused then
  are gone from it. `main` goes on with its shutdown, the timeout passes, a loop that is
  told to end ends (strong fairness of `Quit`: Go's select picks among ready cases, so
  that a cancelled context is seen among the ticks), and publishes and queries end. No
  fairness of the end of handlers, sessions or rule generations: ShutdownEnds holds
  though they hang.
- *FetcherPool*: poller, workers, delayed retries and lock TTLs go on, a stopping pool
  halts and a halted one is started again. No fairness of `Stop` or of any failure,
  and none of the *answers*: a worker may always meet the lock, fail, or be refused.
- *RetryQueue*: the worker finishes a pipeline it has begun, retries fall due, each
  scheduler that is up polls.
- *Scheduler* and *Publisher*: the loop's ticker and those of the entries go on, a
  cancelled goroutine ends, workers in the middle of a page go on, TTLs run out. That an
  entry's goroutine goes on includes that neither the throttle nor the URL gate skips its
  ticks for ever. Strong fairness of "some worker parses a page with links": a message
  of a category may be taken by either worker and may find no links; only a category
  that yields no link for ever would break it, and then its articles have no reason to
  come back. ArticleReturnsWhileEnabled rests on it. No fairness of edits: the table
  settles because edits are bounded, as an operator's are.
- *JobBuffer*: each drainer's ticker goes on, the group consumes, TTLs run out.
- *RuleLearning* has a `FairSpec` (parses and generations go on) that no run uses: under
  it PendingIsServed does not hold (section 7).

Faults are bounded and unfair: no property needs one to happen. SourceLimits, HostFetch,
AgentSessions, PriorityIntake, StageWorkers are checked for safety only.

## 6. The proofs

Checked by tlapm with Z3, Zenon and LS4, for every value of the constants that the
`ASSUME` of the module allows:

| Module | Obligations | Theorems |
|---|---|---|
| `StageGateProofs` | 727 | PermitsSafe, GateExclusive, LockKept, GateIsLease |
| `ProcessProofs` | 804 | SharedBreaker, ProbeNotLeaked, ClosedStartsAnew, ClosedStartsAnewInProcess, NothingClosedInUse, ProcessTypes |
| `FetcherPoolProofs` | 2314 | TypeCorrect, NoJobLost, BudgetKept, GateOnce; of the hosts' pages, HostTypes, UpgradesPublishOnce, FailedPagesAreTracked, OperatorsRuleStays |
| `PublisherProofs` | 616 | EntersOnce, MarkersHaveCause, EntersOnceWhileEdited, CancelledMarkersHaveCause |
| `RetryQueueProofs` | 3129 | RetryQueueTypes, AcceptedRetryIsKept, RetriesDoNotMultiply; of the parser's rules, RuleTypes, OneGenerationAtATime, CallsOfAPage, CallsOfAWindow, LocksGoByHolder, DisabledHostsStayOff |
| `JobBufferProofs` | 863 | JobBufferTypes, AcceptedJobIsKept, DrainersTakeTurns |
| `FetchLimitsProofs` | 1120 | PriorityIntakeTypes, HeadersAreOwn, CommittedMessageIsKept, LiftedForAReason |
| `StageWorkersProofs` | 4579 | StageTypes, NoArticleDisappears, ReparsesKeepToLimit, StagesReplaceMessages, PagesAreCleared; of the agents the stages call, AgentTypes, SessionsHaveContainers, PoolsLeaveNoContainer, CodexWaitIsSafe, SessionsWithinBudget |

Assumptions: finitely many workers (StageGate counts them, CircuitBreaker numbers its
breakers by them), each in a pod, a capacity of one at least; a positive threshold; a
log that can hold the initial jobs and a channel with room; chained categories that are
entries of the scheduler and are not articles; an address for every host; owners of a
lease that are not workers; finitely many jobs for the buffer, a positive cap, target
and batch, and drainers that are not the names of no holder and of a dead one; in the
priority queue, no message at two offsets; finitely many pages and generations, and one
start of the agents' process at least; for the hosts, finitely many pages, each of one
host, and a threshold, a number of pages to a publish and of browsers of one at least;
for the rules, finitely many hosts and pages, each page with a host and a layout,
layouts that are numbered by age, and limits of one at least; for the stages, a URL,
workers that are not the names of a free and of a dead worker's lock, no body named as a
missing row, one reparse and one retry at least (the code's constants are 2 and 3). All
of them hold in the code's configuration and TLC evaluates them in every run. Process
assumes nothing of the features that a configuration turns on.

Each proof is one inductive invariant, `IInv` (`LimitsIInv`, `ProcessIInv`, `StageIInv`,
`HostIInv`, `RulesIInv` where a module holds two), with a lemma per action or group of
actions:

- *StageGate*. PermitsAccounted is inductive with TypeOK: a move of one worker shifts
  the number of workers at a permit-holding label by what the action does to the counter
  (`MoveAccounts`, over the cardinality lemmas of FiniteSetTheorems). ExclusiveUntilTTL
  needs `TokensInHand`: tokens of different workers differ, and a worker within its TTL
  finds its own in Redis. Without it a release by somebody else could not be excluded.
- *StageGateLease*, in the same module. The refinement: initial states map to initial
  states, and each action to a grant, a grant nobody heard of, a lapse, a surrender, a
  death or a stutter. The mapped owner is a CHOICE among the workers with Redis's token;
  the lemmas show that there is one at most and that an action leaves the owners of the
  URLs it does not touch. It rests on the same invariant of tokens. What the lease
  promises then holds of the gate: a lock returned late, or twice, ends no other
  worker's lease.
- *CircuitBreaker*. `Registered` (whoever has a breaker has the one in the registry)
  gives OneBreaker. HalfOpenHasProbe needs `ProbeInFetch`: a worker marked as probe is
  in its fetch, so that its report is still to come. A step of the process is a step of
  its breaker, leaves it alone, or ends both (`BreakerStep`), so that the invariant
  holds in a process too.
- *Process*. StillOpen compares two schedules, that of the goroutines (`StartedAt`,
  `AwaitedAt`: the step of `main` that starts one, the step of the shutdown that waits
  for it) and that of what they use (`OpenedAt`, `ClosedAt`). The table lemmas read them
  off `Boot` and `Down`. `Timely` says that a goroutine main has not given up is there
  only between its two steps, `OpenWhenDue` that what a configuration needs is open
  between its own, and the last lemma is that the first interval lies within the second
  for each use. Three things break the simple schedule and are the rest of the
  invariant: features that are lost at start-up (`Equipped`: who needs Redis or the ZSET
  is there only with it), consumers whose intake, and not their pool, closes them
  (`IntakesRead`), and the rule generator, which a parser at work may start at any time
  until main comes to it.
- *FetcherPool*. JobAccounted needs to know where a message can be: `InHandIsFetched`
  (offsets in hand are behind the reader), `DownIsEmpty` (a process that is down holds
  nothing), `RetryLeft` (a worker on its way to a retry has one left) and
  `GatedIsInside` (only a worker inside Handle is gated). The proof goes by the
  offset that accounts for the job: an action that moves it out of hand settles the
  job, delays it, or forsakes the offset.
- *HostFetch*, in the same module. RepublishedOnce bounds what has been published, and an
  upgrade on its way may still publish: `UpgradesWithin` adds, for each host, the upgrades
  between the upsert and the publish (`Going`) to what has been published, and bounds the
  ones before it by what they may find. Those that ask (`Asking`) are covered by the
  allowance of 1 + resets + faults while the rule is plain, and those that are past the
  look at the rule (`Writing`) even when it is not any more; the lock pays for one pass
  while it is held, which a lock that lapsed under an upgrade would break. OwedIsTracked
  needs `StrikesSafe` (what an upgrade will strike off the list it has published or could
  not read), `RowsParsed` (the row that a parser works on is there) and `HostsOwn` (lists
  and upgrades keep to their host), so that nobody else takes an owed page off the list.
  ManualBrowserStays needs `LooksFirst`: an upgrade that is about to write over an
  operator's browser rule looked before he set it. An upgrade comes to its upsert from its
  look alone (`UpsertAfterLook`), which would have stopped it.
- *Publisher and Scheduler*. OneEntryPerMarker is strengthened to `EnteredOrCarried`: an
  article that no failed call let through is marked while it has entered or is carried
  in a batch, and it is in one batch at most. MarkedForAReason needs `IdleIsEmpty` (an
  idle worker has no page), for a page that a worker takes up must not replace one it is
  still the reason for. Scheduler extends Publisher by the table and by goroutines that
  have been cancelled; the lemmas about markers are stated for any step that keeps the
  causes (`CausesKept`) or is a death, so that the scheduler's steps use the same ones.
- *RetryQueue*. OwedIsKept alone is not inductive: an acknowledgement removes what is
  there. `RemovedIsNotOwed` says that a scheduler removes only what it has published or
  found without payload; `EnqueuedIsAlone` that between the two commands of a requeue no
  scheduler has the job, which makes the order of ZADD and SET safe; `DueIsComplete` that
  a member is not due while its payload is still to be written. For PublishedOnceEach,
  `CopiesBudgeted` adds to the copies of a scheduler the one it may still publish without
  another failure (`MayPublish`: it has the retry in hand, or will peek it) and those that
  are being put back (`PutsBack`), each of which a failed publish has paid for. A lemma per
  kind of step shows that what it adds to one of the three it takes from another, pays by
  a fault, or stores the retry anew.
- *RuleLearning*, in the same module. Each property gets an abstraction of the steps of
  its own (`Shape` for pages and messages, `Locks`, `Spends`, `RowsChange`), shown once
  for all actions, and the invariants are kept by those. GenerationsExclusive and
  BudgetOvershoot rest on `LocksCover`, which is stated for every set of hosts: the
  generations of the set are no more than its locks that are held and the locks that
  expired under one. For one host it is the first property; for all of them it bounds the
  calls that Allow has let pass and RecordCall has not counted (`CallsWithinCap`).
  CallsPerPage needs to know where a page is: `WaitsOnce` (in the list of its host or in
  one batch), `SampleIsLeft` (a page whose generation has yet to call is not parsed
  meanwhile), so that `CallsPaid` holds: every call but the first has cost a retry, and
  one is in hand before a call. DisableHolds needs `FirstRowStays`: a host with rows has
  the one that PreCheck asks for, which no step deletes; so `QuietIsOff`, that behind a
  disabled host only a generation that failed to look is at work.
- *JobBuffer*. JobKept goes by copies: a step takes a payload out of the list, a hand, a
  put-back or a caller's batch only with putting it into another of them, into `settled`
  or into `lost`. It needs `HandsEmpty` (who is not at work holds nothing, so that a death
  or a take-over drops nothing unseen), `BatchIsKept` (what of a batch is not left for
  Kafka is buffered), `GarbledIsLost` (payloads that do not decode are counted when they
  are popped, whichever is put back in their stead), and facts about lists that
  the library does not have: what a concatenation, a cut, SetToSeq and an ascending
  selection contain (`AscendingEnumerates` is proved by counting). OneLeader needs
  `LockIsHeld`: a drainer at work holds the lock or is in `overrun`.
- *PriorityIntake*. A push and a pop read and write three keys, one by one. For OwnHeaders,
  `EntryHasId` and `PopKnows` say what the keys and a consumer's reads have to do with
  one ID. For CommittedIsKept, `PushStands` says what an intake has achieved at each of
  its commands and `LoadIsPlaced` that a payload a consumer has read is accounted
  for, whatever another push or pop of the same ID has done to the keys since;
  `InHandIsNext` that the message in hand lies past the committed one.
- *SourceLimits*, in the same module. OpenForAReason needs to follow "no limit" from the
  row to the limiter:
  `FreeHasReason` says that wherever it stands (a row, a cached rate, a call on its way
  to the limiter), the host's row has been without a limit or the call's own query has
  failed; `CallHasSite` that a call under way is one for a host. A query that fails
  leaves the cache as it is, which is what the proof rests on.
- *StageWorkers*. ArticleAccounted is not inductive: a message whose row is gone is
  committed as a duplicate. `AllCarried` counts a message for its article only while
  what it refers to is there (`LeadsOn`), and a worker only until it has published or
  settled its article (`InHand`). It needs `RowStored` (the row that Store answered with
  is there when the parser publishes), `StepsFit` (a worker's step fits its stage and
  counts) and `MessagesFit` (a reference to a row of another URL is that of an excused
  duplicate). For SingleCopy, `OneCopy` says that without a failure a URL has one
  message, in one copy, or one worker that is still to publish. ReparseLimitKept needs
  `CountCarried`: every message of a URL, and every worker that is still to publish one,
  carries at least the URL's reparses since the count was lost, so that the verdict that
  would exceed the limit reads a count that has reached it; it holds by OneCopy, for a
  second copy could carry an older count. RawCleared needs two facts more of the same
  kind: `GateKept`, that the gates exclude and the raw row a parser has read stays until
  it cleans up, and `RowHasReader`, that the job or the reference of a raw row is on its
  way. They are stated over the messages; what put, take and swap do to a bag is
  `PutCounts`, `TakeCounts` and `SwapCounts`.
- *AgentSessions*, in the same module. `CallsAreCounted`: a worker's WaitGroup is the
  number of calls on it (`OnGrows`, `OnShrinks`, over cardinalities). `BoxesFitSteps`
  ties a container to its worker's step, unless a docker call failed after it took effect,
  `SessionsHaveBox`, `RemovedIsDrained` and `WokenIsDrained` say what the end of a wait
  means for the sessions: a worker is removed, and a waiter woken, without a session on
  it, unless the wait was cut short. `StepsFitPool` says that workers do what their pool
  does, which decides who is left with a container when it is done. CallsWithinBudget
  compares pages, which the guard counts, with sessions, which the pool counts:
  `Covered` adds to the sessions of the day, for each of the four kinds, the pages that
  may still run one (`MayRun`). A page that is let through adds one of each enabled
  kind, a session moves from what may be run to what was, and as the sessions of a page
  come in one order (`FollowLater`) nothing comes back.

Proved, and in no run of their own since the proof covers every instance:
ExclusiveUntilTTL, OneBreaker, HalfOpenHasProbe, GateHeldOnce, MarkedForAReason.

Model-checked only: every liveness property (the provers do not handle fairness and
ENABLED). Every safety property that a run checks is proved. The pure operators of
ProviderChain and EnrichFacts are evaluated by TLC as parts of the runs `rules` and
`agents`.

## 7. What the checks found

Bugs and comments the code does not keep, each met while its module was written or
checked. `PROJECT.json` quotes the lines.

*Breaker, pool and retries*

- **A second probe.** `circuit_breaker.go:30` says that HalfOpen lets a
  single probe through. RecordFailure acts on the state of the moment: a fetch that was
  let in while Closed and fails late reopens a HalfOpen breaker and clears
  `probeActive`, and the next timeout lets another probe in while the first is out. The
  comment is `SingleProbe` in CircuitBreaker; as an invariant of the run
  `circuit_breaker` it is violated. What holds, and is proved, is that a HalfOpen
  breaker never waits for nobody.
- **An uncommitted message that does not come back.** Several places of
  `fetcher/worker/pool.go` (336, 433, 489, 505, 518) leave a message uncommitted and
  rely on its redelivery. Another worker's commit of a later offset passes it.
  `UncommittedIsRedelivered` in FetcherPool states the promise and is violated;
  JobAccounted therefore counts forsaken offsets as a way out of its own. The intake of
  the ZSET has the same flaw (`zset_intake.go:173`).
- **An acknowledgement that removes a newer retry.** `retry.go:111` promises
  at-least-once. AckRetry and the purge remove by job ID; a job that was published,
  failed and was stored again before the acknowledgement arrives loses its new entry.
  `AcceptedIsKept` in RetryQueue states the promise and is violated.
- **Indexes in `dispatchToRetry`.** `buffer_drainer.go:361` says that
  messages and payloads correspond by index, which the caller does not guarantee: it
  leaves undecodable payloads out of the one and not of the other. JobBuffer models the
  loss; it takes a failed publish and a failed retry scheduler at once.

*Stages and intake*

- **A reparse limit that ends nothing.** `core/headers.go:41` says that an
  article still failing at MaxValidateReparseCount goes to the DLQ and is deleted, so that
  the loop ends. At the limit the validate worker falls through to its retry branch, and
  `requeue` (`validate/worker/worker.go:665`) sends none of the headers: the next
  verdict reads a reparse count of zero. With reparsing enabled, an article whose parse
  never yields a date is fetched and parsed for ever. The fetcher's republish to the
  chromedp topic and the fresh jobs of `BuildRetryJob` drop the count too. ReparseLimitKept
  is what the limit does achieve.
- **A rejected article in no DLQ.** `validate/worker/worker.go:473`
  relies on redelivery when the DLQ publish fails; the row is deleted seven lines above,
  and the redelivered message finds none and is committed as a duplicate (line 351).
  ArticleAccounted excuses it as `Unrecoverable`; without that excuse TLC violates it.
- **Gate skips counted per stage.** `validate/worker/worker.go:832` says
  that the count flows through all stages; `publishValidatedRef`, `requeue` and
  `republishToChromedpQueue` send messages without it.
- **A failed delete before a reparse.** `validate/worker/worker.go:434`
  says that the reparse overwrites the row. Store answers with the old row when the body
  is the same, and the upsert keeps `published_at` when it is not.
- **A stop loses what ZSET workers have in hand.** The pop has acknowledged the message;
  handlers run under the context that the stop cancels, and return without a retry
  (`validate/worker/worker.go:166`).
- **A pop that deletes another push's payload** (`priority_zset.go:362`; `Clear` in
  PriorityIntake), and a package comment with another factor of the score than the
  constant has.

*Rules and hosts*

- **A page that waits for a generation nobody starts** (`llmgen/generator.go:478`):
  pushed just after the flush, it stays in the list while the new rule parses the
  host's other pages. PendingIsServed states the comment and is violated under
  `FairSpec` with one instance and no faults.
- **The breaker of the generator sees the last provider's error only**
  (`generator.go:435`), and the client's own timeout is not retried though a comment
  calls it retryable (`pkg/llm/http.go:106`). Both are in ProviderChain.
- **Kept pages that no trigger publishes** (`upgrader.go:269`): after a failed publish the
  rule is a browser's already, and the next trigger ends at the look at the rule. A page
  whose row could not be read leaves the tracker like one whose row is gone
  (`upgrader.go:211`; `misread`).
- **One failed query lifts a site's limit** for as long as its address is used
  (`ip_registry.go:102`; `opened` in OpenForAReason); a changed rate does not arrive
  while the limiter is in use, though line 21 promises it. The doc comment of `Resolve`
  (`source_config_resolver.go:89`) says that a failed query is cached like a missing row;
  the code, and a comment inside it, say that it is not.

*Scheduler and process*

- **The snapshot is never used** (`scheduler/resolver.go:37`): the loop invalidates it
  before each read, so that a failed read is always that of a first load.
- **Two rows for one URL** (`scheduler.go:126`): Start spawns both, the table keeps one,
  and no refresh can cancel the other. Scheduler assumes one row a URL.
- **Upgrades and blacklistings nobody waits for** (`parser/worker/worker.go:853`): the
  process may end between the removal of a host's pages and their republish
  (`Unawaited` in Process).
- **Containers that stay.** The claude worker hands an expired context to
  `docker rm -f` (`claude/worker.go:359`; NoContainerLeft names it), and a fatal error
  after the pools have started skips every deferred close (`main.go:1748`). A `docker run`
  that fails after the container has started leaves it without anyone who knows its ID
  (`claude/worker.go:316`, `codex/worker.go:325`; `orphaned`).
- **Sessions without a container.** `codex/worker.go:399` takes the container for alive
  when `docker rm -f` has failed; it may have been removed before the call's 15 s ran out,
  and the worker then admits sessions to it again (`vanished`).
- **A session that breaks the shutdown** (`claude/enrich.go:43`): counted while Stop's
  Wait has just been woken, it panics. codex has a guard against it;
  AdmissionGuardsWait holds of codex alone, and of codex while docker does as it is
  told: a refused `docker rm -f` takes `stopping` back (`codex/worker.go:406`) while the
  goroutine of a Wait that timed out is still waiting, and sessions are admitted beside
  it again.
- **A daily limit per start** (`cost_guard.go:53`): the counter is in memory.

Two consequences of the design that the models make visible, neither against what the
repository says: a publish of a batch that fails keeps the articles' markers, so that
they stay out until the day's TTL (`astray`); and a taken marker that is remembered by
the seen cache can outlive the marker itself by the cache's own TTL (`SeenExpires`),
which delays ArticleReturnsWhileEnabled and does not break it.

## 8. What is not modelled

`PROJECT.json` lists each component with its reason. Inside the modelled ones:

- *Fetcher worker*: `publishNormalized`, since no handler of the repository returns
  contents and processJob never reaches it; the heartbeat.
- *Delayed retries*: the 24 h TTL of an entry, payloads that do not decode, the
  immediate scheduler that is used without Redis.
- *Publisher and Scheduler*: URL normalisation, filters and the throttle, which only
  shorten the list or skip a tick; the path without a guard; several rows for one URL;
  more than one cancelled goroutine of an entry at a time.
- *Job buffer*: one of its two labels, as the two share nothing but the cycle; the
  drainer without a retry scheduler, which `main` never builds.
- *Stage gate*: metrics; the Noop variants.
- *Stage workers*: category pages (Publisher has them); the columns that record a
  verdict; messages that do not decode; the cancellation of a context at shutdown, which
  appears as a failed call.
- *Rules*: extraction by selectors, list pages (learned as article pages are),
  blacklisting of hosts, parse samples; what a page's HTML is, but for its layout.
- *Hosts*: gates, retries and commits of the stages; which of several remote browsers.
- *Priority intake*: the order within a priority, which the instances' clocks decide.
- *Rate limits*: how high a limit is.
- *Agents, enrichment*: what runs in a container, what a session finds.
- *Process*: the tools of `cmd`; `cmd/processor` is the same with fewer parts.

Outside: HTTP handlers, SQL, HTML extraction and LLM calls are input and output; their
results appear as nondeterministic answers. The search crawler, precheck, URL guard and
links are planned or left out as decisions on one URL; the HTTP API reads only.

## 9. The plan

Done: the twelve runs above and the proofs of section 6. Next, in this order:

1. More leases: the leader's lock of JobBuffer and the in-flight lock of RuleLearning as
   implementations of Lease.
2. A queue with named losses that JobBuffer and PriorityIntake implement.
3. The search crawler's daily quota and the partial failure of a keyword cycle.
4. Blacklisting of hosts and parse samples beside RuleLearning.
