----------------------------- MODULE HostFetch -----------------------------
(***************************************************************************)
(* How the pages of a host are fetched, by a plain client or by a browser: *)
(* the choice of the chain from a forced job or from the host's rule, read *)
(* through each instance's cache; the failures that the parser counts, the *)
(* upgrade they trigger, which turns the rule to the browser and publishes *)
(* the failed pages again; the weekly downgrade; an operator's rules.      *)
(*                                                                         *)
(* A page is where its last job has got to (at); further copies of its job *)
(* wait in copies.  Left out: the gates, retries and commits of the stages *)
(* (FetcherPool, StageWorkers): a job that fails is taken again, or ends.  *)
(***************************************************************************)
EXTENDS Integers, FiniteSets

CONSTANTS Instances, Hosts, Pages,
          HostOf,       \* the host of a page
          Nobody,       \* no instance
          Threshold,    \* failures in a window that trigger the upgrade
          PeekMax,      \* upgraderMaxRepublishPerCycle
          Slots,        \* browsers of an instance
          MaxTrouble    \* bound: failed calls, restarts, rules changed by the cron or an operator

ASSUME HostFetchAssumption ==
  /\ HostOf \in [Pages -> Hosts] /\ IsFiniteSet(Pages)
  /\ Nobody \notin Instances
  /\ {Threshold, PeekMax, Slots} \subseteq Nat \ {0} /\ MaxTrouble \in Nat

VARIABLES rule,      \* fetcher_rules: which client, and who has set it
          cache,     \* each instance's cached rule of a host: {}, or {what it read}
          at, on,    \* where a page's job is, and the instance that has it
          seen,      \* the rule that its look-up has read
          forced,    \* the instance whose token its job carries
          copies,    \* further jobs for the page on the crawl topics
          raw,       \* pages with a row in raw_contents
          fails,     \* Redis: failures of a host in the window
          tracked,   \* Redis: the failed pages of a host
          lock,      \* Redis: hosts with an upgrade in the last minutes
          trigger,   \* the upgrade that a page's failure has started
          republished, \* how often an upgrade has published a page
          owed,      \* pages whose row has failed, is there and no upgrade has published since
          misread,   \* pages whose row an upgrade could not read
          resets,    \* how often a host's rule has left the browser
          unaware,   \* pages whose upgrade has looked at the rule, and an operator since then
                     \* has set it to the browser
          faults, changes

cached == <<cache, seen>>
pageJobs == <<at, on, forced, copies, raw>>
redis == <<fails, tracked, lock>>
notes == <<republished, owed, misread, resets, unaware>>
hostVars == <<rule, cached, pageJobs, redis, trigger, notes, faults, changes>>

Rule == [fetcher : {"goquery", "chromedp"}, by : {"none", "auto", "manual"}]
NoRule == [fetcher |-> "goquery", by |-> "none"]
AutoBrowser == [fetcher |-> "chromedp", by |-> "auto"]
ManualBrowser == [fetcher |-> "chromedp", by |-> "manual"]
ManualPlain == [fetcher |-> "goquery", by |-> "manual"]

NoTrigger == [step |-> "idle", on |-> Nobody, ids |-> {}, msgs |-> {}]
TriggerSteps == {"idle", "lock", "get", "upsert", "peek", "read", "publish", "remove"}
Triggers == [step : TriggerSteps, on : Instances \cup {Nobody},
             ids : SUBSET Pages, msgs : SUBSET Pages]
PageSteps == {"crawl", "store", "plain", "browser", "render", "parse", "finish",
              "failed", "done", "left"}

HostTypeOK ==
  /\ rule \in [Hosts -> Rule]
  /\ cache \in [Instances -> [Hosts -> SUBSET Rule]] /\ seen \in [Pages -> SUBSET Rule]
  /\ at \in [Pages -> PageSteps] /\ on \in [Pages -> Instances \cup {Nobody}]
  /\ forced \in [Pages -> Instances \cup {Nobody}] /\ copies \in [Pages -> Nat]
  /\ raw \subseteq Pages /\ fails \in [Hosts -> 0..Threshold]
  /\ tracked \in [Hosts -> SUBSET Pages] /\ lock \subseteq Hosts
  /\ trigger \in [Pages -> Triggers]
  /\ republished \in [Pages -> Nat] /\ owed \subseteq Pages
  /\ misread \subseteq Pages /\ unaware \subseteq Pages
  /\ resets \in [Hosts -> Nat] /\ {faults, changes} \subseteq 0..MaxTrouble

HostInit ==
  /\ rule \in [Hosts -> {NoRule, ManualBrowser}]
  /\ cache = [i \in Instances |-> [h \in Hosts |-> {}]] /\ seen = [p \in Pages |-> {}]
  /\ at = [p \in Pages |-> "crawl"] /\ on = [p \in Pages |-> Nobody]
  /\ forced = [p \in Pages |-> Nobody] /\ copies = [p \in Pages |-> 0] /\ raw = {}
  /\ fails = [h \in Hosts |-> 0] /\ tracked = [h \in Hosts |-> {}] /\ lock = {}
  /\ trigger = [p \in Pages |-> NoTrigger]
  /\ republished = [p \in Pages |-> 0] /\ owed = {} /\ misread = {} /\ unaware = {}
  /\ resets = [h \in Hosts |-> 0] /\ faults = 0 /\ changes = 0

Calm == faults + changes < MaxTrouble
Fault == Calm /\ faults' = faults + 1 /\ UNCHANGED changes
Change == Calm /\ changes' = changes + 1 /\ UNCHANGED faults
Well == UNCHANGED <<faults, changes>>

Leaves(p, step) == at' = [at EXCEPT ![p] = step] /\ on' = [on EXCEPT ![p] = Nobody]

-----------------------------------------------------------------------------
(* ChainHandler.selectChain and the chains. *)

\* The job is for the browser pool, and goes to its topic; or for the plain chain.
Chosen(p, i, r) ==
  IF r.fetcher = "chromedp"
  THEN Leaves(p, "browser")
  ELSE at' = [at EXCEPT ![p] = "plain"] /\ on' = [on EXCEPT ![p] = i]

\* A forced job with this process's token goes to the browsers whatever the rule.
TakeForced(p, i) ==
  /\ at[p] = "crawl" /\ forced[p] = i
  /\ Leaves(p, "browser")
  /\ UNCHANGED <<rule, cached, forced, copies, raw, redis, trigger, notes>> /\ Well

\* Any other job follows the host's rule: the cached one, ...
TakeCached(p, i) ==
  /\ at[p] = "crawl" /\ forced[p] # i
  /\ \E r \in cache[i][HostOf[p]] : Chosen(p, i, r)
  /\ UNCHANGED <<rule, cached, forced, copies, raw, redis, trigger, notes>> /\ Well

\* ... or the one in the database; a failed query means the plain chain.
TakeRead(p, i) ==
  /\ at[p] = "crawl" /\ forced[p] # i /\ cache[i][HostOf[p]] = {}
  /\ on' = [on EXCEPT ![p] = i]
  /\ \/ /\ at' = [at EXCEPT ![p] = "store"] /\ Well
        /\ seen' = [seen EXCEPT ![p] = {rule[HostOf[p]]}]
     \/ /\ at' = [at EXCEPT ![p] = "plain"] /\ UNCHANGED seen /\ Fault
  /\ UNCHANGED <<rule, cache, forced, copies, raw, redis, trigger, notes>>

\* What was read is stored, whatever has been invalidated since.
StoreRule(p) ==
  /\ at[p] = "store"
  /\ cache' = [cache EXCEPT ![on[p]][HostOf[p]] = seen[p]]
  /\ \E r \in seen[p] : Chosen(p, on[p], r)
  /\ seen' = [seen EXCEPT ![p] = {}]
  /\ UNCHANGED <<rule, forced, copies, raw, redis, trigger, notes>> /\ Well

Expire(i, h) ==
  /\ cache[i][h] # {} /\ cache' = [cache EXCEPT ![i][h] = {}]
  /\ UNCHANGED <<rule, seen, pageJobs, redis, trigger, notes>> /\ Well

\* The plain client gets the page, or finds one that loads lazily; or fails.
Fetch(p) ==
  /\ at[p] = "plain"
  /\ \/ Leaves(p, "parse") /\ raw' = raw \cup {p} /\ Well
     \/ Leaves(p, "browser") /\ UNCHANGED raw /\ Well
     \/ \E step \in {"crawl", "left"} : Leaves(p, step) /\ UNCHANGED raw /\ Fault
  /\ UNCHANGED <<rule, cached, forced, copies, redis, trigger, notes>>

\* A browser of an instance, one of its slots, renders the page.
AcquireSlot(p, i) ==
  /\ at[p] = "browser"
  /\ Cardinality({q \in Pages : at[q] = "render" /\ on[q] = i}) < Slots
  /\ at' = [at EXCEPT ![p] = "render"] /\ on' = [on EXCEPT ![p] = i]
  /\ UNCHANGED <<rule, cached, forced, copies, raw, redis, trigger, notes>> /\ Well

Render(p) ==
  /\ at[p] = "render"
  /\ \/ Leaves(p, "parse") /\ raw' = raw \cup {p} /\ Well
     \/ \E step \in {"browser", "left"} : Leaves(p, step) /\ UNCHANGED raw /\ Fault
  /\ UNCHANGED <<rule, cached, forced, copies, redis, trigger, notes>>

-----------------------------------------------------------------------------
(* The parser's end: recordHostFailure. *)

\* One more failure, which may not be tracked, or not counted, or without an answer;
\* at the threshold, and beyond it, an upgrade starts.
RecordHostFailure(p, i) ==
  LET h == HostOf[p]
      n == IF fails[h] < Threshold THEN fails[h] + 1 ELSE fails[h]
      upgrade == [trigger EXCEPT ![p] = IF n >= Threshold
                                        THEN [NoTrigger EXCEPT !.step = "lock", !.on = i]
                                        ELSE @]
      \* not owed: a page that an upgrade, which has read the list, will strike off it
      struck == \E q \in Pages : p \in trigger[q].ids
      track == /\ tracked' = [tracked EXCEPT ![h] = @ \cup {p}]
               /\ IF struck THEN UNCHANGED <<owed, misread>>
                  ELSE owed' = owed \cup {p} /\ misread' = misread \ {p}
      count == fails' = [fails EXCEPT ![h] = n] /\ trigger' = upgrade
  IN /\ trigger[p].step = "idle"  \* bound: one upgrade started by a page at a time
     /\ \/ count /\ track /\ Well
        \/ count /\ UNCHANGED <<tracked, owed, misread>> /\ Fault
        \/ fails' \in {fails, [fails EXCEPT ![h] = n]} /\ UNCHANGED trigger /\ track /\ Fault
     /\ UNCHANGED <<rule, cached, forced, copies, raw, lock, republished, resets, unaware>>

\* The raw row is deleted, and with it what its failure has left to do; or it is
\* left to the cleaner, for a parser goes on without the delete.
DeleteRaw(p) == raw' = raw \ {p} /\ owed' = owed \ {p}

Parsed(p) ==
  /\ at[p] = "parse"
  /\ Leaves(p, "done")
  /\ \/ DeleteRaw(p) /\ Well
     \/ UNCHANGED <<raw, owed>> /\ Fault
  /\ UNCHANGED <<rule, cached, forced, copies, redis, trigger, republished, misread, resets,
                 unaware>>

\* The rule does not fit the page: its raw row is kept.
ParseFails(p, i) ==
  /\ at[p] = "parse" /\ RecordHostFailure(p, i)
  /\ Leaves(p, "failed")

\* The page has hardly a text: a failure of the host, but it goes its way.
EmptyBody(p, i) ==
  /\ at[p] = "parse" /\ RecordHostFailure(p, i)
  /\ at' = [at EXCEPT ![p] = "finish"] /\ on' = [on EXCEPT ![p] = i]

Finish(p) ==
  /\ at[p] = "finish"
  /\ Leaves(p, "done")
  /\ \/ DeleteRaw(p) /\ Well
     \/ UNCHANGED <<raw, owed>> /\ Fault
  /\ UNCHANGED <<rule, cached, forced, copies, redis, trigger, republished, misread, resets,
                 unaware>>

\* A further job for the page; bound: taken when its last one has ended.
NextCopy(p) ==
  /\ at[p] \in {"failed", "done", "left"} /\ copies[p] > 0
  /\ copies' = [copies EXCEPT ![p] = @ - 1] /\ at' = [at EXCEPT ![p] = "crawl"]
  /\ UNCHANGED <<rule, cached, on, forced, raw, redis, trigger, notes>> /\ Well

-----------------------------------------------------------------------------
(* Upgrader.Trigger, in a goroutine of its own. *)

Steps(p, step) == trigger' = [trigger EXCEPT ![p].step = step]
Stops(p) == trigger' = [trigger EXCEPT ![p] = NoTrigger]

AlwaysFree(h) == TRUE
LockFree(h) == h \notin lock

\* One upgrade of a host in the lock's TTL; without an answer it goes on.
TakeLock(p) ==
  LET h == HostOf[p] IN
  /\ trigger[p].step = "lock"
  /\ \/ LockFree(h) /\ lock' = lock \cup {h} /\ Steps(p, "get") /\ Well
     \/ ~LockFree(h) /\ UNCHANGED lock /\ Stops(p) /\ Well
     \/ lock' \in {lock, lock \cup {h}} /\ Steps(p, "get") /\ Fault
  /\ UNCHANGED <<rule, cached, pageJobs, fails, tracked, notes>>

\* What the upgrade looks at: the rule in the database, not the instance's cached one.
RuleCached(p) ==
  LET known == cache[trigger[p].on][HostOf[p]]
  IN IF known = {} THEN rule[HostOf[p]] ELSE CHOOSE r \in known : TRUE
RuleRead(p) == rule[HostOf[p]]

GetByHost(p) ==
  LET browser == RuleRead(p).fetcher = "chromedp" IN
  /\ trigger[p].step = "get" /\ unaware' = unaware \ {p}
  /\ \/ ~browser /\ Steps(p, "upsert") /\ Well
     \/ browser /\ Stops(p) /\ Well
     \/ Stops(p) /\ Fault
  /\ UNCHANGED <<rule, cached, pageJobs, redis, republished, owed, misread, resets>>

\* The rule turns to the browser, whatever it has become since the look; a call that
\* fails may have turned it.
Upsert(p) ==
  LET upgraded == [rule EXCEPT ![HostOf[p]] = AutoBrowser] IN
  /\ trigger[p].step = "upsert"
  /\ \/ rule' = upgraded /\ Steps(p, "peek") /\ Well
     \/ rule' \in {rule, upgraded} /\ Stops(p) /\ Fault
  /\ UNCHANGED <<cached, pageJobs, redis, notes>>

\* Resolver.Invalidate of this instance, and the latest failed pages.
Peek(p) ==
  LET h == HostOf[p]
      n == IF Cardinality(tracked[h]) < PeekMax THEN Cardinality(tracked[h]) ELSE PeekMax
  IN /\ trigger[p].step = "peek"
     /\ cache' = [cache EXCEPT ![trigger[p].on][h] = {}]
     /\ \/ \E ids \in SUBSET tracked[h] :
             /\ Cardinality(ids) = n
             /\ IF ids = {} THEN Stops(p)
                ELSE trigger' = [trigger EXCEPT ![p].step = "read", ![p].ids = ids]
             /\ Well
        \/ Stops(p) /\ Fault
     /\ UNCHANGED <<rule, seen, pageJobs, redis, notes>>

\* The rows of the failed pages; one that cannot be read is taken for gone.
ReadRows(p) ==
  /\ trigger[p].step = "read"
  /\ \E lost \in SUBSET (trigger[p].ids \cap raw) :
       LET msgs == (trigger[p].ids \cap raw) \ lost IN
       /\ Cardinality(lost) <= 1
       /\ IF lost = {} THEN Well ELSE Fault
       /\ misread' = misread \cup lost
       /\ trigger' = [trigger EXCEPT ![p].msgs = msgs,
                                     ![p].step = IF msgs = {} THEN "remove" ELSE "publish"]
  /\ UNCHANGED <<rule, cached, pageJobs, redis, republished, owed, resets, unaware>>

ForgetFailed(p) == [trigger[p] EXCEPT !.step = "remove"]
KeepFailed(p) == NoTrigger

\* The pages' jobs, forced to the browser with this process's token; a batch that
\* fails may have been written in part, and the list keeps all of its pages.
Sends(p, sent) ==
  /\ copies' = [q \in Pages |-> copies[q] + (IF q \in sent THEN 1 ELSE 0)]
  /\ forced' = [q \in Pages |-> IF q \in sent THEN trigger[p].on ELSE forced[q]]
  /\ republished' = [q \in Pages |-> republished[q] + (IF q \in sent THEN 1 ELSE 0)]
  /\ owed' = owed \ sent

Publish(p) ==
  /\ trigger[p].step = "publish"
  /\ \/ Sends(p, trigger[p].msgs) /\ Steps(p, "remove") /\ Well
     \/ /\ \E sent \in SUBSET trigger[p].msgs : Sends(p, sent)
        /\ trigger' = [trigger EXCEPT ![p] = KeepFailed(p)] /\ Fault
  /\ UNCHANGED <<rule, cached, at, on, raw, redis, misread, resets, unaware>>

RemoveByHost(p) ==
  LET h == HostOf[p] IN
  /\ trigger[p].step = "remove"
  /\ \/ tracked' = [tracked EXCEPT ![h] = @ \ trigger[p].ids] /\ Well
     \/ UNCHANGED tracked /\ Fault
  /\ Stops(p)
  /\ UNCHANGED <<rule, cached, pageJobs, fails, lock, notes>>

\* The lock's TTL is longer than the 30 s that an upgrade is given.
UpgradeLockExpires(h) ==
  /\ h \in lock /\ \A p \in Pages : HostOf[p] = h => trigger[p].step \in {"idle", "lock"}
  /\ lock' = lock \ {h}
  /\ UNCHANGED <<rule, cached, pageJobs, fails, tracked, trigger, notes>> /\ Well

-----------------------------------------------------------------------------
(* The downgrade, an operator, the cleaners and a restart. *)

Left(old, new) ==
  resets' = [h \in Hosts |-> resets[h] +
              (IF old[h].fetcher = "chromedp" /\ new[h].fetcher = "goquery" THEN 1 ELSE 0)]

AutoUpgraded(r) == r.fetcher = "chromedp" /\ r.by = "auto"

\* BulkDowngradeAutoUpgraded keeps the reason; the instance forgets the changed hosts.
Downgrade(i) ==
  LET changed == {h \in Hosts : AutoUpgraded(rule[h])}
      new == [h \in Hosts |-> IF h \in changed THEN [rule[h] EXCEPT !.fetcher = "goquery"]
                              ELSE rule[h]]
  IN /\ changed # {} /\ Change
     /\ rule' = new /\ Left(rule, new)
     /\ cache' = [cache EXCEPT ![i] = [h \in Hosts |-> IF h \in changed THEN {} ELSE @[h]]]
     /\ UNCHANGED <<seen, pageJobs, redis, trigger, republished, owed, misread, unaware>>

Operator(h) ==
  /\ Change
  /\ \E r \in {ManualBrowser, ManualPlain} \ {rule[h]} :
       /\ rule' = [rule EXCEPT ![h] = r] /\ Left(rule, rule')
       /\ unaware' = unaware \cup {p \in Pages : /\ HostOf[p] = h /\ r = ManualBrowser
                                              /\ trigger[p].step = "upsert"}
  /\ UNCHANGED <<cached, pageJobs, redis, trigger, republished, owed, misread>>

\* The window moves on: failures are forgotten, ...
WindowSlides(h) ==
  /\ fails[h] > 0 /\ fails' = [fails EXCEPT ![h] = 0]
  /\ UNCHANGED <<rule, cached, pageJobs, tracked, lock, trigger, notes>> /\ Well

\* ... and the raw row of a page and its place in the list, each for itself.
CleanRaw(p) ==
  /\ at[p] \in {"failed", "done"} /\ p \in raw /\ DeleteRaw(p)
  /\ UNCHANGED <<rule, cached, at, on, forced, copies, redis, trigger, republished, misread,
                 resets, unaware>>
  /\ Well

Forgotten(p) ==
  /\ p \in tracked[HostOf[p]] /\ p \notin raw
  /\ tracked' = [tracked EXCEPT ![HostOf[p]] = @ \ {p}]
  /\ UNCHANGED <<rule, cached, pageJobs, fails, lock, trigger, notes>> /\ Well

\* A restart: caches, upgrades and the token are gone, what was in hand comes again.
RestartInstance(i) ==
  LET busy == {p \in Pages : on[p] = i}
      again(p) == CASE at[p] \in {"store", "plain"} -> "crawl"
                    [] at[p] = "render" -> "browser"
                    [] at[p] = "finish" -> "parse"
                    [] OTHER -> at[p]
  IN /\ Fault
     /\ at' = [p \in Pages |-> IF p \in busy THEN again(p) ELSE at[p]]
     /\ on' = [p \in Pages |-> IF p \in busy THEN Nobody ELSE on[p]]
     /\ seen' = [p \in Pages |-> IF p \in busy THEN {} ELSE seen[p]]
     /\ cache' = [cache EXCEPT ![i] = [h \in Hosts |-> {}]]
     /\ forced' = [p \in Pages |-> IF forced[p] = i THEN Nobody ELSE forced[p]]
     /\ trigger' = [p \in Pages |-> IF trigger[p].on = i THEN NoTrigger ELSE trigger[p]]
     /\ UNCHANGED <<rule, copies, raw, redis, notes>>

Page(p) ==
  \/ \E i \in Instances :
       \/ TakeForced(p, i) \/ TakeCached(p, i) \/ TakeRead(p, i) \/ AcquireSlot(p, i)
       \/ ParseFails(p, i) \/ EmptyBody(p, i)
  \/ StoreRule(p) \/ Fetch(p) \/ Render(p) \/ Parsed(p) \/ Finish(p) \/ NextCopy(p)

Upgrade(p) ==
  \/ TakeLock(p) \/ GetByHost(p) \/ Upsert(p) \/ Peek(p) \/ ReadRows(p) \/ Publish(p)
  \/ RemoveByHost(p)

Environment ==
  \/ \E i \in Instances, h \in Hosts : Expire(i, h)
  \/ \E h \in Hosts : UpgradeLockExpires(h) \/ Operator(h) \/ WindowSlides(h)
  \/ \E i \in Instances : Downgrade(i) \/ RestartInstance(i)
  \/ \E p \in Pages : CleanRaw(p) \/ Forgotten(p)

HostNext == (\E p \in Pages : Page(p) \/ Upgrade(p)) \/ Environment

HostSpec == HostInit /\ [][HostNext]_hostVars

-----------------------------------------------------------------------------
(* Properties. *)

\* Upgrades of a host publish a failed page once, and once more each time that
\* its rule has left the browser: the lock keeps two triggers apart in time, the
\* look at the rule a later one; a failed call or a restart may cost one more.
RepublishedOnce ==
  \A p \in Pages : republished[p] <= 1 + resets[HostOf[p]] + faults

\* A browser rule that an operator has set stays until an operator changes it, but
\* for an upgrade that had looked at the rule before he set it: whatever the caches
\* hold, no later upgrade, and no downgrade, makes the rule its own.
ManualBrowserStays ==
  [][\A h \in Hosts : rule[h] = ManualBrowser /\ rule'[h] # ManualBrowser =>
       \/ Operator(h)
       \/ \E p \in unaware : HostOf[p] = h /\ Upsert(p)]_hostVars

\* A failed page with its row, which no upgrade has published, is still in the
\* host's list, but for one whose row could not be read: a failed publish costs none.
OwedIsTracked ==
  \A p \in owed :
    \/ p \in tracked[HostOf[p]] \/ p \in misread
=============================================================================
