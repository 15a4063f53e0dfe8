--------------------------- MODULE StageWorkers ---------------------------
(***************************************************************************)
(* An article between its crawl and its enrichment (the parser, validate   *)
(* and enrich workers): each stage consumes a reference to a row, works on *)
(* the row under the stage's gate for the article's URL, publishes to the  *)
(* next stage, tidies up and commits.  A rejected article goes back to the *)
(* queue of its stage, to the fetcher for a new parse, or to the DLQ, and  *)
(* the counts that bound this travel in the headers of its messages.       *)
(*                                                                         *)
(* The fetcher is one step (FetcherPool has it in detail), and so are the  *)
(* delayed retry (RetryQueue) and the redelivery of what is not committed. *)
(* Left out: the columns validation_status and reject_code, the extraction *)
(* and scoring behind an enriched message, and category pages.             *)
(***************************************************************************)
EXTENDS Naturals, FiniteSets, Bags

CONSTANTS Urls, Consumers,
          Seeds,           \* URLs of new articles; the others have come before
          Unheld, Orphan,  \* values of a gate's lock: free, left by a dead worker
          Bodies, Spam,    \* main contents, by hash; the ones detectSpam rejects
          BrowserUrls,     \* URLs whose host has a chromedp rule
          MaxRaw,          \* bound: identities of a URL's raw rows
          MaxReparse,      \* core.MaxValidateReparseCount
          MaxRetry,        \* maxRetries of the validate worker
          MaxSkips,        \* locks.MaxGateSkipRequeues
          MaxFaults        \* bound: failed calls, expired locks and deaths

ASSUME StageWorkersAssumption ==
  /\ Urls # {} /\ Seeds \subseteq Urls /\ BrowserUrls \subseteq Urls
  /\ Spam \subseteq Bodies /\ "none" \notin Bodies
  /\ Consumers \cap {Unheld, Orphan} = {} /\ Unheld # Orphan
  /\ {MaxRaw, MaxReparse, MaxRetry, MaxSkips, MaxFaults} \subseteq Nat
  /\ MaxReparse > 0 /\ MaxRetry > 0

VARIABLES zset,      \* the stages take from ZSETs, where a pop acknowledges
          reparses,  \* cfg.ReparseEnabled of the validate worker
          queue,     \* the messages of every topic: a bag
          raw,       \* raw_contents: the identity of a URL's row, or 0
          contents,  \* contents: the row of a URL, whose ID is its hash
          lock,      \* Redis: who holds the gate of a stage and URL
          pc, msg,   \* each worker: where it is, and its message
          seen,      \* the row a validator has read and judged
          id,        \* the row contentSvc.Store has answered with
          dlq, enriched, abandoned,  \* articles that have come to an end
          doubled,   \* URLs that another article's reparse has sent out anew
          streak,    \* the reparses of a URL since a message of it has lost their count
          faults,    \* failures so far
          excused    \* articles the code gives up in a way named below

worker == <<pc, msg, seen, id>>
ends == <<dlq, enriched, abandoned>>
settings == <<zset, reparses>>
still == <<settings, doubled, streak>>
stageVars == <<still, queue, raw, contents, lock, worker, ends, faults, excused>>

Topics == BagToSet(queue)

Stages == {"fetched", "normalized", "validated"}
NoRow == [body |-> "none", dated |-> FALSE]
Rows == [body : Bodies, dated : BOOLEAN]
Message == [stage : Stages \cup {"crawl"}, url : Urls, row : Urls, raw : 0..MaxRaw,
            reparse : 0..MaxReparse, retry : 0..MaxRetry, skips : 0..MaxSkips]
PCs == {"idle", "read", "forward", "cleanup", "publish", "republish", "delete",
        "requeue", "reject", "dlq", "commit"}

StageTypeOK ==
  /\ zset \in BOOLEAN /\ reparses \in BOOLEAN
  /\ IsABag(queue) /\ Topics \subseteq Message
  /\ raw \in [Urls -> 0..MaxRaw]
  /\ contents \in [Urls -> Rows \cup {NoRow}]
  /\ lock \in [Stages \X Urls -> Consumers \cup {Unheld, Orphan}]
  /\ pc \in [Consumers -> PCs] /\ msg \in [Consumers -> Message]
  /\ seen \in [Consumers -> Rows \cup {NoRow}] /\ id \in [Consumers -> Urls]
  /\ dlq \subseteq Urls /\ enriched \subseteq Urls /\ abandoned \subseteq Urls
  /\ excused \subseteq Urls /\ doubled \subseteq Urls
  /\ streak \in [Urls -> 0..(MaxReparse + 1)] /\ faults \in 0..MaxFaults

(* A new crawl job for u, its counts at zero. *)
Job(u) == [stage |-> "crawl", url |-> u, row |-> u, raw |-> 0,
           reparse |-> 0, retry |-> 0, skips |-> 0]

SomeUrl == CHOOSE u \in Urls : TRUE

StageInit ==
  /\ zset \in BOOLEAN /\ reparses \in BOOLEAN
  /\ queue = SetToBag({Job(u) : u \in Seeds})
  /\ raw = [u \in Urls |-> 0]
  /\ contents \in [Urls -> Rows \cup {NoRow}]
  /\ \A u \in Seeds : contents[u] = NoRow
  /\ lock = [k \in Stages \X Urls |-> Unheld]
  /\ pc = [w \in Consumers |-> "idle"] /\ msg = [w \in Consumers |-> Job(SomeUrl)]
  /\ seen = [w \in Consumers |-> NoRow] /\ id = [w \in Consumers |-> SomeUrl]
  /\ dlq = {} /\ enriched = {} /\ abandoned = {}
  /\ doubled = {} /\ streak = [u \in Urls |-> 0] /\ faults = 0 /\ excused = {}

---------------------------------------------------------------------------
(* Messages and workers *)

StageFault == faults < MaxFaults /\ faults' = faults + 1

Put(m) == queue' = queue (+) SetToBag({m})

Take(m) == queue' = queue (-) SetToBag({m})

Swap(m, n) == queue' = (queue (-) SetToBag({m})) (+) SetToBag({n})

Busy == {w \in Consumers : pc[w] # "idle"}

Url(w) == msg[w].url

Live(u) == \/ \E m \in Topics : m.url = u
           \/ \E w \in Busy : Url(w) = u

(* The count of a URL's reparses goes on with its messages, or is lost:    *)
(* the next is its first again.                                            *)
Loses(u) == streak' = [streak EXCEPT ![u] = 0]

Goto(w, label) == pc' = [pc EXCEPT ![w] = label]

(* The end of process: the gate is given back, by whoever still has it. *)
Release(w) ==
  LET k == <<msg[w].stage, Url(w)>>
  IN  lock' = IF lock[k] = w THEN [lock EXCEPT ![k] = Unheld] ELSE lock

Forget(w) ==
  /\ Goto(w, "idle")
  /\ msg' = [msg EXCEPT ![w] = Job(SomeUrl)]
  /\ seen' = [seen EXCEPT ![w] = NoRow] /\ id' = [id EXCEPT ![w] = SomeUrl]

LeaveGate(w) == Release(w) /\ Forget(w)

(* Articles with a message, other than the one w has, that may still look  *)
(* for the row w deletes: now or when it comes again.  Its reader will     *)
(* take the row's absence for an article already dealt with.               *)
RowUsers(w, r) ==
  {m.url : m \in {n \in Topics : n.stage = "normalized" /\ n.row = r}}
    \cup {Url(v) : v \in {x \in Busy \ {w} :
            \/ /\ pc[x] \in {"read", "publish", "republish", "requeue", "reject"}
               /\ msg[x].stage = "normalized" /\ msg[x].row = r
            \/ pc[x] = "forward" /\ id[x] = r}}

RawUsers(w, u) ==
  {m.url : m \in {n \in Topics :
                    n.stage = "fetched" /\ n.url = u /\ n.raw = raw[u]}}
    \cup {Url(v) : v \in {x \in Busy \ {w} :
            /\ pc[x] \in {"read", "forward"} /\ msg[x].stage = "fetched"
            /\ Url(x) = u /\ msg[x].raw = raw[u]}}

DeleteRaw(w, u) ==
  /\ raw' = [raw EXCEPT ![u] = 0]
  /\ excused' = excused \cup RawUsers(w, u)

DeleteContent(w, r) ==
  /\ contents' = [contents EXCEPT ![r] = NoRow]
  /\ excused' = excused \cup RowUsers(w, r)

---------------------------------------------------------------------------
(* Handle, once process has returned an error.  In Kafka mode the message  *)
(* is left and comes again; in ZSET mode a fresh job takes its place, the  *)
(* DLQ if that fails (the parser has no such fallback), and nothing if     *)
(* both fail.  Articles of E are gone when their message comes again.      *)

Fails(w, E) ==
  /\ LeaveGate(w)
  /\ \/ /\ ~zset
        /\ Put(msg[w]) /\ excused' = excused \cup E /\ UNCHANGED dlq
     \/ /\ zset
        /\ Put(Job(Url(w))) /\ UNCHANGED <<dlq, excused>>
     \/ /\ zset /\ msg[w].stage # "fetched"
        /\ dlq' = dlq \cup {Url(w)} /\ UNCHANGED <<queue, excused>>
     \/ /\ zset
        /\ excused' = excused \cup {Url(w)} /\ UNCHANGED <<queue, dlq>>
  /\ UNCHANGED <<still, raw, contents, enriched, abandoned>>

(* A read that times out, a Store, or a publication that fails. *)
ProcessFails(w) ==
  /\ pc[w] \in {"read", "forward", "publish", "republish", "requeue"}
  /\ StageFault
  /\ Fails(w, {})

(* The message of a rejected article is read again, its row is not. *)
Unrecoverable(w) ==
  IF pc[w] = "dlq" /\ contents[msg[w].row] = NoRow THEN {Url(w)} ELSE {}

DlqFails(w) ==
  /\ pc[w] = "dlq"
  /\ StageFault
  /\ Fails(w, Unrecoverable(w))

Commit(w) ==
  /\ pc[w] = "commit"
  /\ LeaveGate(w)
  /\ UNCHANGED <<still, queue, raw, contents, ends, faults, excused>>

CommitFails(w) ==
  /\ pc[w] = "commit" /\ ~zset
  /\ StageFault
  /\ Put(msg[w])
  /\ LeaveGate(w)
  /\ UNCHANGED <<still, raw, contents, ends, excused>>

(* A worker dies, and its lock stays until the TTL.  A popped message dies *)
(* with it; a message of Kafka comes again.                                *)
Crash(w) ==
  /\ pc[w] # "idle"
  /\ StageFault
  /\ \/ zset /\ excused' = excused \cup {Url(w)} /\ UNCHANGED queue
     \/ /\ ~zset /\ Put(msg[w])
        /\ excused' = excused \cup Unrecoverable(w)
  /\ lock' = [k \in DOMAIN lock |-> IF lock[k] = w THEN Orphan ELSE lock[k]]
  /\ Forget(w)
  /\ UNCHANGED <<still, raw, contents, ends>>

(* The TTL of a lock runs out: of a dead worker's, or under a live one. *)
Expire(k) ==
  /\ lock[k] # Unheld
  /\ IF lock[k] = Orphan THEN UNCHANGED faults ELSE StageFault
  /\ lock' = [lock EXCEPT ![k] = Unheld]
  /\ UNCHANGED <<still, queue, raw, contents, worker, ends, excused>>

---------------------------------------------------------------------------
(* The fetcher: a crawl job becomes a raw row and a reference to it.  A    *)
(* row of the URL that is still there is used again.  A job of a chromedp  *)
(* host goes through the topic of the browser pool, without the headers.   *)

FreshRaws(u) ==
  {n \in 1..MaxRaw : /\ \A m \in Topics : m.url = u => m.raw # n
                     /\ \A w \in Busy : Url(w) = u => msg[w].raw # n}

RawToStore(u) == IF raw[u] # 0 THEN raw[u] ELSE CHOOSE n \in FreshRaws(u) : TRUE

Headers(m) == IF m.url \in BrowserUrls THEN Job(m.url) ELSE m

FetchedRef(m) == [Headers(m) EXCEPT !.stage = "fetched", !.raw = RawToStore(m.url)]

Fetch(m) ==
  /\ m.stage = "crawl"
  /\ raw[m.url] # 0 \/ FreshRaws(m.url) # {}
  /\ raw' = [raw EXCEPT ![m.url] = RawToStore(m.url)]
  /\ Swap(m, FetchedRef(m))
  /\ IF m.url \in BrowserUrls THEN Loses(m.url) ELSE UNCHANGED streak
  /\ UNCHANGED <<settings, doubled, contents, lock, worker, ends, faults, excused>>

(* RawContentCleaner: a row older than StaleTTL, whoever still needs it. *)
Purge(u) ==
  /\ raw[u] # 0
  /\ StageFault
  /\ DeleteRaw(Unheld, u)
  /\ UNCHANGED <<still, queue, contents, lock, worker, ends>>

---------------------------------------------------------------------------
(* The gate *)

Takes(w, m) ==
  /\ pc[w] = "idle" /\ m.stage # "crawl"
  /\ Take(m)
  /\ Goto(w, "read")
  /\ msg' = [msg EXCEPT ![w] = m]
  /\ UNCHANGED <<still, raw, contents, seen, id, ends, excused>>

Enter(w, m) ==
  /\ Takes(w, m)
  /\ lock[<<m.stage, m.url>>] = Unheld
  /\ lock' = [lock EXCEPT ![<<m.stage, m.url>>] = w]
  /\ UNCHANGED faults

(* Redis fails: the worker goes on without the gate. *)
EnterUngated(w, m) ==
  /\ StageFault
  /\ Takes(w, m)
  /\ UNCHANGED lock

Held(m) == m.stage # "crawl" /\ lock[<<m.stage, m.url>>] # Unheld

Skipped(m) == /\ Held(m)
              /\ UNCHANGED <<settings, doubled, raw, contents, lock, worker, enriched,
                             abandoned>>

SkippedJob(m) == [Job(m.url) EXCEPT !.skips = m.skips + 1]

(* enqueueGateSkipRetry; and a variant that returns without the commit. *)
Uncommitted(w, m) ==
  /\ pc[w] = "idle" /\ m.skips < MaxSkips
  /\ Skipped(m)
  /\ Put(SkippedJob(m)) /\ Loses(m.url)
  /\ UNCHANGED <<dlq, faults, excused>>

Skip(w, m) ==
  /\ pc[w] = "idle" /\ m.skips < MaxSkips
  /\ Skipped(m)
  /\ Swap(m, SkippedJob(m)) /\ Loses(m.url)
  /\ UNCHANGED <<dlq, faults, excused>>

(* gateSkipLimitExceeded, or the fallback of an Enqueue that fails *)
SkipToDlq(w, m) ==
  /\ pc[w] = "idle"
  /\ Skipped(m)
  /\ IF m.skips >= MaxSkips THEN UNCHANGED faults ELSE StageFault
  /\ Take(m)
  /\ dlq' = dlq \cup {m.url}
  /\ UNCHANGED <<streak, excused>>

(* Neither the scheduler nor the DLQ can be had: a popped message is lost. *)
SkipLost(w, m) ==
  /\ pc[w] = "idle" /\ zset
  /\ Skipped(m)
  /\ StageFault
  /\ Take(m)
  /\ excused' = excused \cup {m.url}
  /\ UNCHANGED <<streak, dlq>>

---------------------------------------------------------------------------
(* The parser *)

At(w, stage, label) == msg[w].stage = stage /\ pc[w] = label

HasRaw(w) == raw[Url(w)] = msg[w].raw

RawMissing(w) ==
  /\ At(w, "fetched", "read") /\ ~HasRaw(w)
  /\ LeaveGate(w)
  /\ UNCHANGED <<still, queue, raw, contents, ends, faults, excused>>

(* A rule error leaves the row to the rule learner, precheck drops it. *)
Refuse(w) ==
  /\ At(w, "fetched", "read") /\ HasRaw(w)
  /\ abandoned' = abandoned \cup {Url(w)}
  /\ DeleteRaw(w, Url(w)) \/ UNCHANGED <<raw, excused>>
  /\ LeaveGate(w)
  /\ UNCHANGED <<still, queue, contents, dlq, enriched, faults>>

(* contentSvc.Store: a row with the same content hash stands for the new   *)
(* one, whatever its URL; a row of the URL is overwritten, but for the     *)
(* date.  The rule in force decides what a parse makes of the page.        *)
StoreRow(w) ==
  \E c \in Rows :
    LET u == Url(w)
        same == {v \in Urls : contents[v].body = c.body}
    IN  IF same # {}
        THEN /\ \E v \in same : id' = [id EXCEPT ![w] = v]
             /\ UNCHANGED contents
        ELSE /\ id' = [id EXCEPT ![w] = u]
             /\ contents' = [contents EXCEPT ![u] =
                  IF @ = NoRow THEN c ELSE [c EXCEPT !.dated = contents[u].dated]]

(* A variant deletes the raw row before the reference is published. *)
StoreAndDeleteRaw(w) ==
  /\ At(w, "fetched", "read") /\ HasRaw(w)
  /\ StoreRow(w)
  /\ DeleteRaw(w, Url(w))
  /\ Goto(w, "forward")
  /\ UNCHANGED <<still, queue, lock, msg, seen, ends, faults>>

Store(w) ==
  /\ At(w, "fetched", "read") /\ HasRaw(w)
  /\ StoreRow(w)
  /\ Goto(w, "forward")
  /\ UNCHANGED <<still, queue, raw, lock, msg, seen, ends, faults, excused>>

(* The reference to the row, with the headers of the message that count;   *)
(* and a variant that does not pass the reparses on.                       *)
RefWithoutReparses(w) ==
  [msg[w] EXCEPT !.stage = "normalized", !.row = id[w], !.raw = 0, !.reparse = 0]

NormalizedRef(w) == [msg[w] EXCEPT !.stage = "normalized", !.row = id[w], !.raw = 0]

(* An article that is another one's duplicate shares its fate from here.   *)
Forward(w) ==
  /\ pc[w] = "forward"
  /\ Put(NormalizedRef(w))
  /\ excused' = IF id[w] # Url(w) THEN excused \cup {Url(w)} ELSE excused
  /\ Goto(w, "cleanup")
  /\ UNCHANGED <<still, raw, contents, lock, msg, seen, id, ends, faults>>

(* A variant leaves the raw row to the cleaner. *)
LeaveToCleaner(w) ==
  /\ pc[w] = "cleanup"
  /\ Release(w)
  /\ Goto(w, "commit")
  /\ UNCHANGED <<still, queue, raw, contents, msg, seen, id, ends, faults, excused>>

(* deleteRaw is the last thing ProcessMessage does under the gate; the     *)
(* other two workers commit under it.                                      *)
Cleanup(w) ==
  /\ pc[w] = "cleanup"
  /\ \/ HasRaw(w) /\ DeleteRaw(w, Url(w)) /\ UNCHANGED faults
     \/ ~HasRaw(w) /\ UNCHANGED <<raw, faults, excused>>
     \/ StageFault /\ UNCHANGED <<raw, excused>>
  /\ Release(w)
  /\ Goto(w, "commit")
  /\ UNCHANGED <<still, queue, contents, msg, seen, id, ends>>

---------------------------------------------------------------------------
(* The validate worker *)

RowMissing(w) ==
  /\ At(w, "normalized", "read") /\ contents[msg[w].row] = NoRow
  /\ LeaveGate(w)
  /\ UNCHANGED <<still, queue, raw, contents, ends, faults, excused>>

(* A read that fails for another reason than a timeout. *)
ReadFails(w) ==
  /\ At(w, "normalized", "read")
  /\ StageFault
  /\ dlq' = dlq \cup {Url(w)}
  /\ LeaveGate(w)
  /\ UNCHANGED <<still, queue, raw, contents, enriched, abandoned, excused>>

(* RunValidation: a missing date (and a short title or body, not told      *)
(* apart from it) may be the parse's fault; spam is the article's.         *)
Verdict(row) == IF ~row.dated THEN "reparse"
                ELSE IF row.body \in Spam THEN "reject" ELSE "pass"

Course(m, row) ==
  CASE Verdict(row) = "pass" -> "publish"
    [] reparses /\ Verdict(row) = "reparse" /\ m.reparse < MaxReparse -> "republish"
    [] OTHER -> IF m.retry >= MaxRetry THEN "reject" ELSE "requeue"

Judge(w) ==
  /\ At(w, "normalized", "read") /\ contents[msg[w].row] # NoRow
  /\ seen' = [seen EXCEPT ![w] = contents[msg[w].row]]
  /\ Goto(w, Course(msg[w], contents[msg[w].row]))
  /\ UNCHANGED <<still, queue, raw, contents, lock, msg, id, ends, faults, excused>>

Publishes(w, at, m, then) ==
  /\ pc[w] = at
  /\ Put(m)
  /\ Goto(w, then)
  /\ UNCHANGED <<settings, raw, contents, lock, msg, seen, id, ends, faults, excused>>

(* publishValidatedRef, with none of the headers that count *)
ValidatedRef(w) == [Job(Url(w)) EXCEPT !.stage = "validated", !.row = msg[w].row]

Publish(w) ==
  /\ Publishes(w, "publish", ValidatedRef(w), "commit")
  /\ UNCHANGED <<doubled, streak>>

(* requeue, with no header but the retry count *)
Requeued(w) == [msg[w] EXCEPT !.retry = @ + 1, !.reparse = 0, !.skips = 0]

Requeue(w) ==
  /\ Publishes(w, "requeue", Requeued(w), "commit")
  /\ Loses(Url(w)) /\ UNCHANGED doubled

(* republishForReparse, for the URL of the row, with all headers.  Bound:  *)
(* a streak is counted to one beyond the limit.                            *)
ReparseJob(w) == [Job(msg[w].row) EXCEPT !.reparse = msg[w].reparse + 1,
                                         !.skips = msg[w].skips]

Republish(w) ==
  /\ Publishes(w, "republish", ReparseJob(w), "delete")
  /\ doubled' = IF msg[w].row # Url(w) THEN doubled \cup {msg[w].row} ELSE doubled
  /\ streak' = [streak EXCEPT ![msg[w].row] = IF @ > MaxReparse THEN @ ELSE @ + 1]

Deletes(w, at, then) ==
  /\ pc[w] = at
  /\ \/ DeleteContent(w, msg[w].row) /\ UNCHANGED faults
     \/ StageFault /\ UNCHANGED <<contents, excused>>
  /\ Goto(w, then)
  /\ UNCHANGED <<still, queue, raw, lock, msg, seen, id, ends>>

DeleteReparsed(w) == Deletes(w, "delete", "commit")

DeleteRejected(w) == Deletes(w, "reject", "dlq")

ToDlq(w) ==
  /\ pc[w] = "dlq"
  /\ dlq' = dlq \cup {Url(w)}
  /\ Goto(w, "commit")
  /\ UNCHANGED <<still, queue, raw, contents, lock, msg, seen, id, enriched, abandoned, faults,
                 excused>>

---------------------------------------------------------------------------
(* The enrich worker publishes whatever becomes of the extraction. *)

Enrich(w) ==
  /\ At(w, "validated", "read")
  /\ enriched' = enriched \cup {Url(w)}
  /\ Goto(w, "commit")
  /\ UNCHANGED <<still, queue, raw, contents, lock, msg, seen, id, dlq, abandoned, faults,
                 excused>>

---------------------------------------------------------------------------

Handles(w) ==
  \/ \E m \in Topics :
       Enter(w, m) \/ EnterUngated(w, m) \/ Skip(w, m) \/ SkipToDlq(w, m) \/ SkipLost(w, m)
  \/ RawMissing(w) \/ Refuse(w) \/ Store(w) \/ Forward(w) \/ Cleanup(w)
  \/ RowMissing(w) \/ ReadFails(w) \/ Judge(w) \/ Publish(w) \/ Requeue(w)
  \/ Republish(w) \/ DeleteReparsed(w) \/ DeleteRejected(w) \/ ToDlq(w)
  \/ Enrich(w) \/ Commit(w)
  \/ ProcessFails(w) \/ DlqFails(w) \/ CommitFails(w) \/ Crash(w)

StageNext ==
  \/ \E w \in Consumers : Handles(w)
  \/ \E m \in Topics : Fetch(m)
  \/ \E u \in Urls : Purge(u)
  \/ \E k \in Stages \X Urls : Expire(k)

StageSpec == StageInit /\ [][StageNext]_stageVars

---------------------------------------------------------------------------

(* An article is always in a message, in a worker's hands or at an end.    *)
(* Every stage publishes before it deletes and deletes before it commits;  *)
(* the ways to lose an article all the same are the excused ones.          *)
Settled(u) == u \in UNION {dlq, enriched, abandoned}

ArticleAccounted == \A u \in Seeds : Live(u) \/ Settled(u) \/ u \in excused

(* Without a failure there is one message of an article at any time, in a  *)
(* topic or with a worker that has not published its successor: a stage    *)
(* that skips, requeues or reparses replaces the message and adds none.    *)
(* The one exception is the reparse of a duplicate, which sends out the    *)
(* URL of the row it refers to and not its own.                            *)
Unpublished(u) ==
  {w \in Consumers : /\ pc[w] \in {"read", "forward", "publish", "republish", "requeue",
                                 "reject", "dlq"}
                   /\ Url(w) = u}

Waiting(u) == {m \in Topics : m.url = u}

SingleCopy ==
  faults = 0 =>
    \A u \in Urls \ doubled :
      /\ Cardinality(Waiting(u)) + Cardinality(Unpublished(u)) <= 1
      /\ \A m \in Waiting(u) : queue[m] = 1

(* Without a failure no raw row outlives its article, but for the ones the *)
(* rule learner may still want: a parser deletes the row it was given, and *)
(* nobody stores another while the article is past the parser.             *)
RawCleared ==
  faults = 0 =>
    \A u \in Urls \ doubled : Live(u) \/ u \in abandoned \/ raw[u] = 0

(* Without a failure an article is not reparsed more often in a row than   *)
(* the limit says, whatever its parses make of the page: the count goes    *)
(* from the validator through the fetcher and the parser and back to it.   *)
(* It ends the row only where no requeue, gate skip or browser topic, which*)
(* do not pass the count on, has come between; so it does not end the      *)
(* reparses of an article (core/headers.go:41 says that it does).          *)
ReparseLimitKept == faults = 0 => \A u \in Urls \ doubled : streak[u] <= MaxReparse

=============================================================================
