----------------------------- MODULE Publisher -----------------------------
(***************************************************************************)
(* How URLs enter the pipeline (internal/bus): the scheduler publishes the *)
(* seed of each category with PublishSeed, a parser worker publishes the   *)
(* links of a category page with PublishChained, once for articles and     *)
(* once for links that are categories themselves.  A URL enters when its   *)
(* marker in Redis was free (PipelineGuard): the marker of an article      *)
(* stays for a day, that of a category until the end of its cycle or a     *)
(* minute.  A local cache remembers articles whose marker was taken.       *)
(*                                                                         *)
(* A Redis or Kafka call may fail before or after it took effect; a failed *)
(* batch may have left any part of itself behind.  The process may die.    *)
(***************************************************************************)
EXTENDS Naturals, FiniteSets

CONSTANTS Seeds,     \* category URLs with an entry of the scheduler
          Lists,     \* those of them that pages link to
          Articles,  \* article URLs, linked from every category page
          Workers,   \* parser workers
          MaxPages,  \* bound: messages of one category that are told apart
          MaxFaults  \* bound: failed calls and deaths

ASSUME PublisherAssumption ==
  /\ Lists \subseteq Seeds /\ Seeds \cap Articles = {}
  /\ MaxPages \in Nat \ {0} /\ MaxFaults \in Nat

Urls == Seeds \cup Articles

VARIABLES marker,   \* URLs whose ingestion marker is in Redis
          seen,     \* the seen cache
          spc,      \* each entry's goroutine in PublishSeed
          guarded,  \* entries whose goroutine acquired the marker itself
          pages,    \* messages of each category on their way to the parser
          wpc,      \* each parser worker in processCategoryPage
          page,     \* the category whose page it handles, as a set of one or none
          todo,     \* URLs filterByAcquire has still to ask for
          batch,    \* URLs it lets through
          failed,   \* workers whose ProcessMessage returns an error
          faults,
          entered,  \* publications of each article under its current marker: 0, 1, or 2 for more
          loose,    \* articles let through by a failed call since then
          astray    \* marked URLs whose job was lost or never published

scheduler == <<spc, guarded>>
worker == <<wpc, page, todo, batch, failed>>
ghost == <<entered, loose, astray>>
vars == <<marker, seen, scheduler, pages, worker, faults, ghost>>

TypeOK ==
  /\ marker \subseteq Urls /\ seen \subseteq Articles
  /\ spc \in [Seeds -> {"idle", "publish", "undo"}] /\ guarded \subseteq Seeds
  /\ pages \in [Seeds -> 0..MaxPages]
  /\ wpc \in [Workers -> {"idle", "articles", "lists", "release"}]
  /\ page \in [Workers -> SUBSET Seeds]
  /\ todo \in [Workers -> SUBSET Urls] /\ batch \in [Workers -> SUBSET Urls]
  /\ failed \subseteq Workers
  /\ faults \in 0..MaxFaults
  /\ entered \in [Articles -> 0..2]
  /\ loose \subseteq Articles /\ astray \subseteq Urls

Init ==
  /\ marker = {} /\ seen = {}
  /\ spc = [s \in Seeds |-> "idle"] /\ guarded = {}
  /\ pages = [s \in Seeds |-> 0]
  /\ wpc = [w \in Workers |-> "idle"]
  /\ page = [w \in Workers |-> {}]
  /\ todo = [w \in Workers |-> {}] /\ batch = [w \in Workers |-> {}]
  /\ failed = {}
  /\ faults = 0
  /\ entered = [u \in Articles |-> 0]
  /\ loose = {} /\ astray = {}

Fault == faults < MaxFaults /\ faults' = faults + 1

(* A publication puts a message of each category on its way. *)
WithPages(S) == [s \in Seeds |-> IF s \in S /\ pages[s] < MaxPages THEN pages[s] + 1
                                                                  ELSE pages[s]]
WithEntered(S) == [u \in Articles |-> IF u \in S /\ entered[u] < 2 THEN entered[u] + 1
                                                                   ELSE entered[u]]

---------------------------------------------------------------------------
(* Scheduler.publish and PublishSeed                                       *)

SGoto(s, label) == spc' = [spc EXCEPT ![s] = label]

(* CheckAndAcquire; a marker that is taken makes PublishSeed skip. *)
SeedAcquires(s) ==
  /\ spc[s] = "idle" /\ s \notin marker
  /\ marker' = marker \cup {s}
  /\ guarded' = guarded \cup {s}
  /\ astray' = astray \ {s}
  /\ SGoto(s, "publish")
  /\ UNCHANGED <<seen, pages, worker, faults, entered, loose>>

(* The check fails, the marker set or not: the publish is allowed. *)
SeedUnchecked(s) ==
  /\ spc[s] = "idle"
  /\ Fault
  /\ marker' \in {marker, marker \cup {s}}
  /\ astray' = IF s \in marker' \ marker THEN astray \cup {s} ELSE astray
  /\ SGoto(s, "publish")
  /\ UNCHANGED <<seen, guarded, pages, worker, entered, loose>>

SeedPublished(s) ==
  /\ spc[s] = "publish"
  /\ pages' = WithPages({s})
  /\ guarded' = guarded \ {s}
  /\ SGoto(s, "idle")
  /\ UNCHANGED <<marker, seen, worker, faults, ghost>>

SeedFails(s) ==
  /\ spc[s] = "publish"
  /\ Fault
  /\ pages' \in {pages, WithPages({s})}
  /\ SGoto(s, IF s \in guarded THEN "undo" ELSE "idle")
  /\ UNCHANGED <<marker, seen, guarded, worker, ghost>>

Keep(s) == marker
Undo(s) == marker \ {s}

(* releaseGuardOnFailure *)
SeedReleases(s) ==
  /\ spc[s] = "undo"
  /\ \/ marker' = Undo(s) /\ UNCHANGED <<faults, astray>>
     \/ Fault /\ astray' = astray \cup {s} /\ UNCHANGED marker
  /\ guarded' = guarded \ {s}
  /\ SGoto(s, "idle")
  /\ UNCHANGED <<seen, pages, worker, entered, loose>>

---------------------------------------------------------------------------
(* processCategoryPage and PublishChained                                  *)

WGoto(w, label) == wpc' = [wpc EXCEPT ![w] = label]

Parse(w, s) ==
  /\ wpc[w] = "idle" /\ pages[s] > 0
  /\ pages' = [pages EXCEPT ![s] = @ - 1]
  /\ page' = [page EXCEPT ![w] = {s}]
  /\ todo' = [todo EXCEPT ![w] = Articles]
  /\ WGoto(w, "articles")
  /\ UNCHANGED <<marker, seen, scheduler, batch, failed, faults, ghost>>

(* The page is dropped, has no rule or no links: its cycle ends. *)
ParseNothing(w, s) ==
  /\ wpc[w] = "idle" /\ pages[s] > 0
  /\ pages' = [pages EXCEPT ![s] = @ - 1]
  /\ page' = [page EXCEPT ![w] = {s}]
  /\ WGoto(w, "release")
  /\ UNCHANGED <<marker, seen, scheduler, todo, batch, failed, faults, ghost>>

Asked(w, u) == todo' = [todo EXCEPT ![w] = @ \ {u}]
LetThrough(w, u) == batch' = [batch EXCEPT ![w] = @ \cup {u}]

Cacheable(u) == u \in Articles

KnownSeen(w, u) ==
  /\ u \in todo[w] /\ Cacheable(u) /\ u \in seen
  /\ Asked(w, u)
  /\ UNCHANGED <<marker, seen, scheduler, pages, wpc, page, batch, failed, faults, ghost>>

AlwaysFree(u) == TRUE
Free(u) == u \notin marker

(* SET NX succeeds. *)
Acquired(w, u) ==
  /\ u \in todo[w] /\ u \notin seen /\ Free(u)
  /\ marker' = marker \cup {u}
  /\ astray' = astray \ {u}
  /\ Asked(w, u) /\ LetThrough(w, u)
  /\ UNCHANGED <<seen, scheduler, pages, wpc, page, failed, faults, entered, loose>>

AlreadyMarked(w, u) ==
  /\ u \in todo[w] /\ u \notin seen /\ ~Free(u)
  /\ seen' = IF Cacheable(u) THEN seen \cup {u} ELSE seen
  /\ Asked(w, u)
  /\ UNCHANGED <<marker, scheduler, pages, wpc, page, batch, failed, faults, ghost>>

(* The call fails, the marker set or not: the URL is let through. *)
FailOpen(w, u) ==
  /\ u \in todo[w] /\ u \notin seen
  /\ Fault
  /\ marker' \in {marker, marker \cup {u}}
  /\ loose' = loose \cup ({u} \cap Articles)
  /\ Asked(w, u) /\ LetThrough(w, u)
  /\ UNCHANGED <<seen, scheduler, pages, wpc, page, failed, entered, astray>>

(* The context has ended: the rest goes through unasked. *)
Cancelled(w) ==
  /\ todo[w] # {}
  /\ Fault
  /\ batch' = [batch EXCEPT ![w] = @ \cup todo[w]]
  /\ todo' = [todo EXCEPT ![w] = {}]
  /\ loose' = loose \cup (todo[w] \cap Articles)
  /\ UNCHANGED <<marker, seen, scheduler, pages, wpc, page, failed, entered, astray>>

(* The second call of PublishChained, or the end. *)
Onward(w) ==
  /\ batch' = [batch EXCEPT ![w] = {}]
  /\ IF wpc[w] = "articles"
       THEN WGoto(w, "lists") /\ todo' = [todo EXCEPT ![w] = Lists]
       ELSE WGoto(w, "release") /\ todo' = [todo EXCEPT ![w] = {}]

BatchPublished(w) ==
  /\ wpc[w] \in {"articles", "lists"} /\ todo[w] = {}
  /\ pages' = WithPages(batch[w])
  /\ entered' = WithEntered(batch[w])
  /\ Onward(w)
  /\ UNCHANGED <<marker, seen, scheduler, page, failed, faults, loose, astray>>

(* PublishBatch fails: any part of the batch may be out, the markers stay, *)
(* the deferred release of the category's own marker comes next.           *)
BatchFails(w) ==
  /\ wpc[w] \in {"articles", "lists"} /\ todo[w] = {} /\ batch[w] # {}
  /\ Fault
  /\ \E S \in SUBSET batch[w] :
       /\ pages' = WithPages(S)
       /\ entered' = WithEntered(S)
       /\ astray' = astray \cup (batch[w] \ S)
  /\ batch' = [batch EXCEPT ![w] = {}]
  /\ failed' = failed \cup {w}
  /\ WGoto(w, "release")
  /\ UNCHANGED <<marker, seen, scheduler, page, todo, loose>>

(* releaseCategoryMarker; a message that failed is handed to the retry     *)
(* scheduler, which does not ask the guard.                                *)
Release(w) ==
  /\ wpc[w] = "release"
  /\ \/ marker' = marker \ page[w] /\ UNCHANGED <<faults, astray>>
     \/ Fault /\ astray' = astray \cup page[w] /\ UNCHANGED marker
  /\ pages' = IF w \in failed THEN WithPages(page[w]) ELSE pages
  /\ failed' = failed \ {w}
  /\ page' = [page EXCEPT ![w] = {}]
  /\ WGoto(w, "idle")
  /\ UNCHANGED <<seen, scheduler, todo, batch, entered, loose>>

---------------------------------------------------------------------------
(* The rest of the pipeline, time and death                                *)

(* A category job is dropped or dead-lettered before the parser sees it.   *)
PageLost(s) ==
  /\ pages[s] > 0
  /\ Fault
  /\ pages' = [pages EXCEPT ![s] = @ - 1]
  /\ astray' = astray \cup {s}
  /\ UNCHANGED <<marker, seen, scheduler, worker, entered, loose>>

OnlyArticlesExpire(u) == u \in Articles
HasTTL(u) == TRUE

(* A marker's TTL; a day is longer than any publication takes. *)
MarkerExpires(u) ==
  /\ u \in marker /\ HasTTL(u)
  /\ u \in Articles => \A w \in Workers : u \notin batch[w]
  /\ marker' = marker \ {u}
  /\ astray' = astray \ {u}
  /\ loose' = loose \ {u}
  /\ entered' = [a \in Articles |-> IF a = u THEN 0 ELSE entered[a]]
  /\ UNCHANGED <<seen, scheduler, pages, worker, faults>>

NeverOld(u) == FALSE
Old(u) == u \in seen

(* The cache's own TTL, or its size, which evicts the oldest entries. *)
SeenExpires(u) ==
  /\ Old(u)
  /\ seen' = seen \ {u}
  /\ UNCHANGED <<marker, scheduler, pages, worker, faults, ghost>>

(* The uncommitted messages of the workers are delivered again; a marker   *)
(* that a goroutine held is nobody's.                                      *)
Dies(held) ==
  /\ Fault
  /\ pages' = WithPages(UNION {page[w] : w \in Workers})
  /\ astray' = astray \cup held \cup UNION {batch[w] : w \in Workers}
  /\ seen' = {} /\ guarded' = {}
  /\ spc' = [s \in Seeds |-> "idle"]
  /\ wpc' = [w \in Workers |-> "idle"]
  /\ page' = [w \in Workers |-> {}]
  /\ todo' = [w \in Workers |-> {}] /\ batch' = [w \in Workers |-> {}]
  /\ failed' = {}
  /\ UNCHANGED <<marker, entered, loose>>

Crash == Dies(guarded)

Seeding(s) == SeedAcquires(s) \/ SeedPublished(s) \/ SeedReleases(s)

Chaining(w) == \/ \E u \in Urls : KnownSeen(w, u) \/ Acquired(w, u) \/ AlreadyMarked(w, u)
               \/ BatchPublished(w) \/ Release(w)

Next == \/ \E s \in Seeds : Seeding(s) \/ SeedUnchecked(s) \/ SeedFails(s) \/ PageLost(s)
        \/ \E w \in Workers : \/ \E s \in Seeds : Parse(w, s) \/ ParseNothing(w, s)
                              \/ Chaining(w) \/ Cancelled(w) \/ BatchFails(w)
                              \/ \E u \in Urls : FailOpen(w, u)
        \/ \E u \in Urls : MarkerExpires(u) \/ SeenExpires(u)
        \/ Crash

Spec == Init /\ [][Next]_vars

(* The tickers of the entries and the workers run, TTLs run out.  A page   *)
(* yields its links now and again: strong fairness of Parse, for it may    *)
(* find the pages without links, or taken by others, in between.           *)
Fairness ==
  /\ \A s \in Seeds : WF_vars(Seeding(s))
  /\ SF_vars(\E w \in Workers, s \in Seeds : Parse(w, s))
  /\ \A w \in Workers : WF_vars(Chaining(w))
  /\ \A u \in Urls : WF_vars(MarkerExpires(u))
  /\ \A u \in Articles : WF_vars(SeenExpires(u))

LiveSpec == Spec /\ Fairness

---------------------------------------------------------------------------
(* Properties                                                              *)

(* An article enters the pipeline once at most for each life of its        *)
(* marker, however many pages link to it, workers meet on it, batches are  *)
(* retried and messages delivered again -- unless a failed call of Redis   *)
(* let it through.                                                         *)
OneEntryPerMarker == \A u \in Articles \ loose : entered[u] <= 1

UnderWay(s) == \/ pages[s] > 0 \/ s \in guarded
               \/ \E w \in Workers : s \in page[w]

(* A marker keeps others out only for a URL that is in the pipeline, is    *)
(* about to be published, or whose publication, job or release failed.     *)
MarkedForAReason ==
  \A u \in marker \ astray :
    \/ \E w \in Workers : u \in batch[w]
    \/ u \in Articles /\ entered[u] > 0
    \/ u \in Seeds /\ UnderWay(u)

(* Every seed is published again and again: no failed publish, lost job,   *)
(* lost release or death keeps a category out of the pipeline for ever.    *)
SeedResumes == \A s \in Seeds : []<>(pages[s] > 0)

(* An article whose marker is gone enters again, whatever the seen cache   *)
(* remembers of it and whoever else asks for it meanwhile.                 *)
ArticleReturns == \A u \in Articles : (u \notin marker) ~> (u \in marker)
=============================================================================
