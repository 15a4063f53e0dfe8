---------------------------- MODULE RuleLearning ----------------------------
(***************************************************************************)
(* How the parser learns its rules: a page with no rule, or the failure    *)
(* that brings a host's rule to the threshold, starts a generation in the  *)
(* background, one per host under a Redis lock; the other pages of the     *)
(* host wait in a Redis list, to be parsed again when the rule is there.   *)
(* The rows are read through each instance's caches, which a lookup may    *)
(* fill with what it read before an invalidation.                          *)
(*                                                                         *)
(* A page has at most two activities: its own parse (at) and a generation  *)
(* that uses it as the sample (gen).  Left out: the gate and commit of the *)
(* parser's message (StageWorkers), list pages, whose rules are learned    *)
(* the same way, and the failure counter that upgrades the fetcher.        *)
(***************************************************************************)
EXTENDS RuleStore, ProviderChain

CONSTANTS Instances, Hosts, Pages,
          HostOf,           \* the host of a page
          LayoutOf,         \* the layout its HTML has
          Part,             \* the pages whose path the refiner's pattern matches
          Nobody,           \* neither an instance nor a page
          MaxLLMRetries,    \* maxLLMRetries
          StaleThreshold,   \* failures in a window that start a new generation
          BreakerThreshold, \* rate limits in a row that stop a host's calls
          Cap,              \* calls of the LLM in a window
          PendingMax,       \* DefaultPendingMaxLen
          MinSamples,       \* pages that the refiner infers a pattern from
          MaxTrouble        \* bound: failed calls to Redis, Postgres and Kafka, restarts,
                            \* locks that expire under a generation, disabled hosts

ASSUME RuleLearningAssumption ==
  /\ IsFiniteSet(Hosts) /\ IsFiniteSet(Pages) /\ Layouts \subseteq Nat /\ Layouts # {}
  /\ HostOf \in [Pages -> Hosts] /\ LayoutOf \in [Pages -> Layouts] /\ Part \subseteq Pages
  /\ Nobody \notin Pages \cup Instances
  /\ {MaxVersion, StaleThreshold, BreakerThreshold, Cap, PendingMax, MinSamples}
       \subseteq Nat \ {0}
  /\ {MaxLLMRetries, MaxTrouble} \subseteq Nat

VARIABLES rules,    \* parser_rules, by host
          samples,  \* the pages that a version of the catch-all rule parsed, by host
          refining, \* the rule that the refiner has read, by host: a set of at most one
          cache,    \* each instance's candidates of a host: {}, or {what it read}
          known,    \* each instance's HasAnyRule of a host: {}, or {whether a generation is wanted}
          at, on,   \* where a page's parse is, and its instance
          view,     \* the rows its lookup has read
          stale,    \* its rule failed, at the threshold
          retries,  \* the LLM retry count that its message carries
          gen,      \* the generation that has it as the sample
          lock,     \* Redis: the generation that holds a host's in-flight lock
          token,    \* each instance's token of the lock
          pending,  \* Redis: the pages that wait for a generation, by host
          stales,   \* Redis: failures of a host's rule in the window
          used,     \* Redis: calls of the LLM in the budget's window
          strikes, blocked,  \* each instance's breaker of a host
          calls,    \* calls of the LLM with a page as the sample
          quietly,  \* hosts disabled while nothing was under way, with no rule learned since
          failures, expiries, disables

parse == <<at, on, view, stale, retries>>
keys == <<lock, pending, stales, used>>
breaker == <<strikes, blocked>>
caches == <<cache, known>>
bounds == <<failures, expiries, disables>>
rulesVars == <<rules, samples, refining, caches, parse, gen, keys, token, breaker, calls,
          quietly, bounds>>

ParseSteps == {"fetched", "resolve", "store", "judge", "failed", "count", "hasany",
               "enqueue", "push", "pending", "left", "done"}
GenSteps == {"idle", "check", "budget", "record", "call", "version", "insert", "invalidate",
             "flush", "requeue", "release"}
NoGen == [step |-> "idle", on |-> Nobody, stale |-> FALSE,
          blind |-> FALSE, version |-> 0, batch |-> {}]

RulesTypeOK ==
  /\ rules \in [Hosts -> SUBSET Rule]
  /\ samples \in [Hosts -> [1..MaxVersion -> SUBSET Pages]]
  /\ refining \in [Hosts -> SUBSET Rule]
  /\ cache \in [Instances -> [Hosts -> SUBSET SUBSET Rule]]
  /\ known \in [Instances -> [Hosts -> SUBSET BOOLEAN]]
  /\ at \in [Pages -> ParseSteps] /\ on \in [Pages -> Instances \cup {Nobody}]
  /\ view \in [Pages -> SUBSET Rule] /\ stale \in [Pages -> BOOLEAN]
  /\ retries \in [Pages -> 0..MaxLLMRetries]
  /\ gen \in [Pages -> [step : GenSteps, on : Instances \cup {Nobody},
                        stale : BOOLEAN, blind : BOOLEAN,
                        version : 0..MaxVersion, batch : SUBSET Pages]]
  /\ lock \in [Hosts -> Pages \cup {Nobody}]
  /\ token \in [Instances -> [Hosts -> Pages \cup {Nobody}]]
  /\ pending \in [Hosts -> SUBSET Pages]
  /\ stales \in [Hosts -> Nat] /\ used \in Nat /\ calls \in [Pages -> Nat]
  /\ strikes \in [Instances -> [Hosts -> 0..BreakerThreshold]]
  /\ blocked \in [Instances -> SUBSET Hosts]
  /\ quietly \subseteq Hosts
  /\ {failures, expiries, disables} \subseteq 0..MaxTrouble

\* What the table may hold when a service starts: nothing, or a first rule
\* that was learned from an old layout, which an operator may have disabled.
OldRule(enabled) == [path |-> "any", version |-> 1, on |-> enabled,
                     layout |-> CHOOSE l \in Layouts : \A m \in Layouts : l <= m]

RulesInit ==
  /\ rules \in [Hosts -> {{}} \cup {{OldRule(enabled)} : enabled \in BOOLEAN}]
  /\ samples = [h \in Hosts |-> [v \in 1..MaxVersion |-> {}]]
  /\ refining = [h \in Hosts |-> {}]
  /\ cache = [i \in Instances |-> [h \in Hosts |-> {}]]
  /\ known = cache
  /\ at = [p \in Pages |-> "fetched"] /\ on = [p \in Pages |-> Nobody]
  /\ view = [p \in Pages |-> {}] /\ stale = [p \in Pages |-> FALSE]
  /\ retries = [p \in Pages |-> 0] /\ gen = [p \in Pages |-> NoGen]
  /\ lock = [h \in Hosts |-> Nobody] /\ token = [i \in Instances |-> lock]
  /\ pending = [h \in Hosts |-> {}] /\ stales = [h \in Hosts |-> 0] /\ used = 0
  /\ strikes = [i \in Instances |-> [h \in Hosts |-> 0]] /\ blocked = [i \in Instances |-> {}]
  /\ calls = [p \in Pages |-> 0] /\ quietly = {}
  /\ failures = 0 /\ expiries = 0 /\ disables = 0

Calm == failures + expiries + disables < MaxTrouble
Fails == Calm /\ failures' = failures + 1
NoFailure == UNCHANGED failures

\* The generations of a host that are under way.
Running(h) == {p \in Pages : HostOf[p] = h /\ gen[p].step # "idle"}

Goes(p, step) == at' = [at EXCEPT ![p] = step] /\ UNCHANGED on
\* The worker has done with the page.
Ends(p, step) == at' = [at EXCEPT ![p] = step] /\ on' = [on EXCEPT ![p] = Nobody]
GenGoes(p, step) == gen' = [gen EXCEPT ![p].step = step]

-----------------------------------------------------------------------------
(* The parse of a page: Resolver.Resolve and Parser.ParsePage. *)

\* A worker takes the page; the candidates of its host are cached, or read.
Lookup(p, i) ==
  /\ at[p] = "fetched"
  /\ on' = [on EXCEPT ![p] = i]
  /\ \/ /\ cache[i][HostOf[p]] # {}
        /\ view' = [view EXCEPT ![p] = CHOOSE s \in cache[i][HostOf[p]] : TRUE]
        /\ at' = [at EXCEPT ![p] = "judge"]
     \/ /\ cache[i][HostOf[p]] = {}
        /\ view' = [view EXCEPT ![p] = FindActiveCandidates(rules[HostOf[p]])]
        /\ at' = [at EXCEPT ![p] = "store"]
  /\ UNCHANGED <<rules, samples, refining, caches, stale, retries, gen, keys, token, breaker,
                 calls, quietly, bounds>>

\* What was read is stored, whatever has been invalidated since.
StoreCache(p) ==
  /\ at[p] = "store"
  /\ cache' = [cache EXCEPT ![on[p]][HostOf[p]] = {view[p]}]
  /\ Goes(p, "judge")
  /\ UNCHANGED <<rules, samples, refining, known, view, stale, retries, gen, keys, token,
                 breaker, calls, quietly, bounds>>

\* A cached entry lives until its TTL, or until it is evicted by another.
Expire(i, h) ==
  /\ \/ cache[i][h] # {} /\ cache' = [cache EXCEPT ![i][h] = {}] /\ UNCHANGED known
     \/ known[i][h] # {} /\ known' = [known EXCEPT ![i][h] = {}] /\ UNCHANGED cache
  /\ UNCHANGED <<rules, samples, refining, parse, gen, keys, token, breaker, calls, quietly,
                 bounds>>

Fits(p) == {r \in Resolve(view[p], p \in Part) : r.layout = LayoutOf[p]}

\* The rule parses the page: it is published, and a sample of the catch-all rule.
Parsed(p) ==
  /\ at[p] = "judge" /\ Fits(p) # {}
  /\ \E r \in Fits(p) :
       samples' = IF r.path = "any"
                    THEN [samples EXCEPT ![HostOf[p]][r.version] = @ \cup {p}]
                    ELSE samples
  /\ Ends(p, "done") /\ view' = [view EXCEPT ![p] = {}]
  /\ UNCHANGED <<rules, refining, caches, stale, retries, gen, keys, token, breaker,
                 calls, quietly, bounds>>

\* No rule: the page wants one.
NoRule(p) ==
  /\ at[p] = "judge" /\ Resolve(view[p], p \in Part) = {}
  /\ Goes(p, "hasany")
  /\ stale' = [stale EXCEPT ![p] = FALSE] /\ view' = [view EXCEPT ![p] = {}]
  /\ UNCHANGED <<rules, samples, refining, caches, retries, gen, keys, token, breaker,
                 calls, quietly, bounds>>

\* The rule's selectors match nothing: one more failure of the host's rule.
RuleFails(p) ==
  /\ at[p] = "judge" /\ Resolve(view[p], p \in Part) # {} /\ Fits(p) = {}
  /\ Goes(p, "count") /\ view' = [view EXCEPT ![p] = {}]
  /\ stales' = [stales EXCEPT ![HostOf[p]] = @ + 1]
  /\ UNCHANGED <<rules, samples, refining, caches, stale, retries, gen, lock, pending, used,
                 token, breaker, calls, quietly, bounds>>

\* The same pipeline reads the count back: exactly the threshold starts a generation.
CountStale(p) ==
  /\ at[p] = "count"
  /\ LET reached == stales[HostOf[p]] = StaleThreshold
     IN /\ (IF reached THEN Goes(p, "hasany") ELSE Ends(p, "left"))
        /\ stale' = [stale EXCEPT ![p] = reached]
  /\ UNCHANGED <<rules, samples, refining, caches, view, retries, gen, keys, token,
                 breaker, calls, quietly, bounds>>

WindowSlides(h) ==
  /\ stales[h] > 0 /\ stales' = [stales EXCEPT ![h] = 0]
  /\ UNCHANGED <<rules, samples, refining, caches, parse, gen, lock, pending, used, token,
                 breaker, calls, quietly, bounds>>

\* A host whose rules are all disabled is left alone; a failed query is not a no.
\* The answer is cached.
HasAnyRule(p) ==
  LET i == on[p] h == HostOf[p]
      answer == ShouldEnqueueLLMOnNoRule(rules[h])
      Decide(wanted) == IF wanted THEN Goes(p, "enqueue") ELSE Ends(p, "left")
  IN /\ at[p] = "hasany"
     /\ \/ /\ known[i][h] # {} /\ \E wanted \in known[i][h] : Decide(wanted)
           /\ UNCHANGED known /\ NoFailure
        \/ /\ known[i][h] = {} /\ Decide(answer)
           /\ known' = [known EXCEPT ![i][h] = {answer}] /\ NoFailure
        \/ known[i][h] = {} /\ Decide(TRUE) /\ UNCHANGED known /\ Fails
     /\ UNCHANGED <<rules, samples, refining, cache, view, stale, retries, gen, keys, token,
                    breaker, calls, quietly, expiries, disables>>

-----------------------------------------------------------------------------
(* Generator.enqueueImpl: the breaker, the lock and the pending list. *)

\* A blocked host's page is left, and so is one whose lock cannot be asked for.
Refused(p) ==
  /\ at[p] = "enqueue"
  /\ \/ HostOf[p] \in blocked[on[p]] /\ NoFailure
     \/ HostOf[p] \notin blocked[on[p]] /\ Fails
  /\ Ends(p, "left")
  /\ UNCHANGED <<rules, samples, refining, caches, view, stale, retries, gen, keys, token,
                 breaker, calls, quietly, expiries, disables>>

OverwriteLock(h) == TRUE
NotHeld(h) == lock[h] = Nobody

\* TryAcquire sets the lock, if there is none, with a new token.
TryAcquire(p) ==
  LET i == on[p] h == HostOf[p] IN
  /\ at[p] = "enqueue" /\ h \notin blocked[i] /\ NotHeld(h)
  /\ gen[p].step = "idle"  \* bound: one generation with a page as the sample
  /\ lock' = [lock EXCEPT ![h] = p] /\ token' = [token EXCEPT ![i][h] = p]
  /\ gen' = [gen EXCEPT ![p] = [NoGen EXCEPT !.step = "check", !.on = i, !.stale = stale[p]]]
  /\ Ends(p, "left") /\ stale' = [stale EXCEPT ![p] = FALSE]
  /\ UNCHANGED <<rules, samples, refining, caches, view, retries, pending, stales, used,
                 breaker, calls, quietly, bounds>>

\* The lock is taken: the page is to wait for the generation that has it.
Defer(p) ==
  /\ at[p] = "enqueue" /\ HostOf[p] \notin blocked[on[p]] /\ lock[HostOf[p]] # Nobody
  /\ Goes(p, "push")
  /\ UNCHANGED <<rules, samples, refining, caches, view, stale, retries, gen, keys, token,
                 breaker, calls, quietly, bounds>>

\* The push comes after the answer of the lock; a full list drops the page.
Push(p) ==
  LET full == Cardinality(pending[HostOf[p]]) >= PendingMax IN
  /\ at[p] = "push"
  /\ \/ /\ ~full /\ Ends(p, "pending") /\ NoFailure
        /\ pending' = [pending EXCEPT ![HostOf[p]] = @ \cup {p}]
     \/ full /\ Ends(p, "left") /\ UNCHANGED pending /\ NoFailure
     \/ Ends(p, "left") /\ UNCHANGED pending /\ Fails
  /\ stale' = [stale EXCEPT ![p] = FALSE]
  /\ UNCHANGED <<rules, samples, refining, caches, view, retries, gen, lock, stales, used,
                 token, breaker, calls, quietly, expiries, disables>>

-----------------------------------------------------------------------------
(* Generator.runOnce, in a goroutine of its own. *)

Forget(i, h) ==
  /\ cache' = [cache EXCEPT ![i][h] = {}]
  /\ known' = [known EXCEPT ![i][h] = {}]

\* Whether the rows with version 1 let a generation go on to the LLM.
LearnsOverDisabled(first, forStale) == ~HasEnabled(first) \/ forStale
MayLearn(first, forStale) == first = {} \/ (HasEnabled(first) /\ forStale)

\* An enabled first version makes a generation needless, but for a stale rule;
\* a disabled one forbids it; a failed lookup lets it go on.
PreCheck(p) ==
  LET h == HostOf[p] first == FindByNaturalKey(rules[h], "any", 1) IN
  /\ gen[p].step = "check"
  /\ \/ /\ HasEnabled(first) /\ ~gen[p].stale
        /\ Forget(gen[p].on, h) /\ GenGoes(p, "flush") /\ NoFailure
     \/ /\ MayLearn(first, gen[p].stale)
        /\ GenGoes(p, "budget") /\ UNCHANGED caches /\ NoFailure
     \/ /\ first # {} /\ ~HasEnabled(first) /\ ~MayLearn(first, gen[p].stale)
        /\ GenGoes(p, "flush") /\ UNCHANGED caches /\ NoFailure
     \/ /\ gen' = [gen EXCEPT ![p].step = "budget", ![p].blind = TRUE]
        /\ UNCHANGED caches /\ Fails
  /\ UNCHANGED <<rules, samples, refining, parse, keys, token, breaker, calls, quietly,
                 expiries, disables>>

\* RecordSuccess, for whatever is not a rate limit, forgets the host's strikes.
Recover(i, h) ==
  /\ strikes' = [strikes EXCEPT ![i][h] = 0]
  /\ blocked' = [blocked EXCEPT ![i] = @ \ {h}]

\* RecordRateLimit: at the threshold the host is blocked for the cooldown.
Strike(i, h) ==
  LET n == IF strikes[i][h] < BreakerThreshold THEN strikes[i][h] + 1 ELSE BreakerThreshold IN
  /\ strikes' = [strikes EXCEPT ![i][h] = n]
  /\ blocked' = [blocked EXCEPT ![i] = IF n >= BreakerThreshold THEN @ \cup {h} ELSE @]

CooldownPasses(i, h) ==
  /\ h \in blocked[i] /\ Recover(i, h)
  /\ UNCHANGED <<rules, samples, refining, caches, parse, gen, keys, token, calls, quietly,
                 bounds>>

NoLimit == TRUE
WithinCap == used < Cap

\* The budget is looked up before the call, ...
Allow(p) ==
  LET g == gen[p] IN
  /\ g.step = "budget"
  /\ \/ WithinCap /\ GenGoes(p, "record") /\ UNCHANGED breaker /\ NoFailure
     \/ ~WithinCap /\ GenGoes(p, "release") /\ Recover(g.on, HostOf[p]) /\ NoFailure
     \/ GenGoes(p, "record") /\ UNCHANGED breaker /\ Fails
  /\ UNCHANGED <<rules, samples, refining, caches, parse, keys, token, calls, quietly,
                 expiries, disables>>

\* ... and recorded by another command.
RecordCall(p) ==
  /\ gen[p].step = "record"
  /\ used' = used + 1 /\ GenGoes(p, "call")
  /\ UNCHANGED <<rules, samples, refining, caches, parse, lock, pending, stales, token, breaker,
                 calls, quietly, bounds>>

\* The window moves on; bound: when it is full, as the calls in it matter only then.
BudgetSlides ==
  /\ used >= Cap /\ used' = 0
  /\ UNCHANGED <<rules, samples, refining, caches, parse, gen, lock, pending, stales, token,
                 breaker, calls, quietly, bounds>>

SameRetry(p) == retries[p]
NextRetry(p) == retries[p] + 1

\* RequeueForLLMRetry: the sample's message again, with the next retry count.
RequeueForLLMRetry(p) ==
  IF NextRetry(p) > MaxLLMRetries
    THEN UNCHANGED <<at, on, retries>>
    ELSE /\ retries' = [retries EXCEPT ![p] = NextRetry(p)]
         /\ Goes(p, "fetched")

\* Selectors have to match the sample, and the LLM, asked again, has to find news in
\* what they select; when it does not answer they pass.
Unfit == {"no match", "no news"}

\* What a call comes to: the errors of the chain, or an answer without selectors, a
\* page for the blacklist, selectors that fail their checks, and good ones.
Readings ==
  (Answers \ {"ok"})
    \cup IF "ok" \in Answers THEN {"unreadable", "blacklisted", "good"} \cup Unfit ELSE {}

\* A rate limit counts against the host, another end clears it; selectors that fail
\* their checks cost the sample a retry.
CallLLM(p) ==
  LET g == gen[p] h == HostOf[p] IN
  /\ g.step = "call"
  /\ calls' = [calls EXCEPT ![p] = @ + 1]
  /\ \/ /\ "rate_limit" \in Readings
        /\ GenGoes(p, "release") /\ Strike(g.on, h) /\ UNCHANGED <<at, on, retries>>
     \/ /\ Readings \ ({"rate_limit", "good"} \cup Unfit) # {}
        /\ GenGoes(p, "release") /\ Recover(g.on, h) /\ UNCHANGED <<at, on, retries>>
     \/ /\ Readings \cap Unfit # {}
        /\ GenGoes(p, "release") /\ Recover(g.on, h) /\ RequeueForLLMRetry(p)
     \/ /\ "good" \in Readings
        /\ GenGoes(p, IF g.stale THEN "version" ELSE "insert")
        /\ UNCHANGED <<breaker, at, on, retries>>
  /\ UNCHANGED <<rules, samples, refining, caches, view, stale, keys, token, quietly,
                 bounds>>

\* InsertNextVersion reads the last version, and inserts the next one.
ReadVersion(p) ==
  /\ gen[p].step = "version"
  /\ gen' = [gen EXCEPT ![p].step = "insert", ![p].version = LastVersion(rules[HostOf[p]], "any")]
  /\ UNCHANGED <<rules, samples, refining, caches, parse, keys, token, breaker, calls, quietly,
                 bounds>>

Learned(p) == [path |-> "any", version |-> gen[p].version + 1, on |-> TRUE,
               layout |-> LayoutOf[p]]

\* A duplicate is taken for a rule that is there; another failure ends the generation.
Insert(p) ==
  LET h == HostOf[p]
      duplicate == FindByNaturalKey(rules[h], "any", gen[p].version + 1) # {}
  IN /\ gen[p].step = "insert" /\ gen[p].version < MaxVersion
     /\ \/ /\ duplicate /\ UNCHANGED <<rules, quietly>>
           /\ GenGoes(p, "invalidate") /\ UNCHANGED breaker /\ NoFailure
        \/ /\ ~duplicate
           /\ rules' = [rules EXCEPT ![h] = @ \cup {Learned(p)}] /\ quietly' = quietly \ {h}
           /\ GenGoes(p, "invalidate") /\ UNCHANGED breaker /\ NoFailure
        \/ /\ GenGoes(p, "release") /\ Recover(gen[p].on, h)
           /\ UNCHANGED <<rules, quietly>> /\ Fails
     /\ UNCHANGED <<samples, refining, caches, parse, keys, token, calls, expiries, disables>>

\* The repository's decorator forgets what this instance has cached of the host.
Invalidate(p) ==
  /\ gen[p].step = "invalidate"
  /\ Forget(gen[p].on, HostOf[p]) /\ GenGoes(p, "flush")
  /\ UNCHANGED <<rules, samples, refining, parse, keys, token, breaker, calls, quietly, bounds>>

-----------------------------------------------------------------------------
(* The end of a generation: flush, requeue and release. *)

\* The list is taken whole; when that fails it is left as it is.
Flush(p) ==
  LET h == HostOf[p] IN
  /\ gen[p].step = "flush"
  /\ Recover(gen[p].on, h)
  /\ \/ /\ gen' = [gen EXCEPT ![p].step = "requeue", ![p].batch = pending[h]]
        /\ pending' = [pending EXCEPT ![h] = {}] /\ NoFailure
     \/ GenGoes(p, "release") /\ UNCHANGED pending /\ Fails
  /\ UNCHANGED <<rules, samples, refining, caches, parse, lock, stales, used, token, calls,
                 quietly, expiries, disables>>

\* RequeueParsing: every page's message again; the ones that fail go back to the list.
RequeueParsing(p) ==
  LET g == gen[p] h == HostOf[p] IN
  /\ g.step = "requeue"
  /\ \E failed \in SUBSET g.batch :
       /\ failures' = failures + Cardinality(failed)
       /\ failed # {} => failures' + expiries + disables <= MaxTrouble
       /\ at' = [q \in Pages |-> IF q \in g.batch \ failed THEN "fetched" ELSE at[q]]
       /\ pending' = [pending EXCEPT ![h] = @ \cup failed]
  /\ gen' = [gen EXCEPT ![p].step = "release", ![p].batch = {}]
  /\ UNCHANGED <<rules, samples, refining, caches, on, view, stale, retries, lock, stales, used,
                 token, breaker, calls, quietly, expiries, disables>>

ReleaseAnyLock(i, h) == TRUE
OwnsLock(i, h) == token[i][h] # Nobody /\ token[i][h] = lock[h]

\* Release deletes the lock if its token is the one this instance keeps for the
\* host: the last one it has got, which need not be this generation's.
Release(p) ==
  LET i == gen[p].on h == HostOf[p] IN
  /\ gen[p].step = "release"
  /\ lock' = [lock EXCEPT ![h] = IF OwnsLock(i, h) THEN Nobody ELSE @]
  /\ token' = [token EXCEPT ![i][h] = Nobody]
  /\ gen' = [gen EXCEPT ![p] = NoGen]
  /\ UNCHANGED <<rules, samples, refining, caches, parse, pending, stales, used, breaker, calls,
                 quietly, bounds>>

\* The lock's TTL passes; under a generation that takes longer, within the bound.
LockExpires(h) ==
  /\ lock[h] # Nobody /\ lock' = [lock EXCEPT ![h] = Nobody]
  /\ \/ Running(h) = {} /\ UNCHANGED expiries
     \/ Running(h) # {} /\ Calm /\ expiries' = expiries + 1
  /\ UNCHANGED <<rules, samples, refining, caches, parse, gen, pending, stales, used, token,
                 breaker, calls, quietly, failures, disables>>

-----------------------------------------------------------------------------
(* The refiner, an operator, and a restart. *)

\* A cycle of the refiner reads an enabled catch-all rule with enough samples, ...
RefineRead(h) ==
  /\ refining[h] = {}  \* bound: one cycle at a time
  /\ \E r \in FindActiveCandidates(rules[h]) :
       /\ r.path = "any" /\ Cardinality(samples[h][r.version]) >= MinSamples
       /\ refining' = [refining EXCEPT ![h] = {r}]
  /\ UNCHANGED <<rules, samples, caches, parse, gen, keys, token, breaker, calls, quietly,
                 bounds>>

\* The paths of the samples have a pattern in common, by their segments or by the
\* LLM's answer, which has to match all of them and not be too broad; or they do not.
Inferred == {"part", "none"}

\* ... infers a pattern from their paths, and inserts a rule with that pattern and
\* the selectors it has read.
Refine(h, i) ==
  /\ \E r \in refining[h], pattern \in Inferred :
       LET next == LastVersion(rules[h], pattern) + 1 IN
       \/ /\ pattern # "none" /\ next <= MaxVersion
          /\ rules' = [rules EXCEPT ![h] = @ \cup {[r EXCEPT !.path = pattern, !.version = next]}]
          /\ samples' = [samples EXCEPT ![h][r.version] = {}]
          /\ Forget(i, h)
       \/ pattern = "none" /\ UNCHANGED <<rules, samples, caches>>
  /\ refining' = [refining EXCEPT ![h] = {}]
  /\ UNCHANGED <<parse, gen, keys, token, breaker, calls, quietly, bounds>>

\* Work for a host that has read its rules already.
UnderWay(h) ==
  \/ refining[h] # {}
  \/ \E p \in Pages :
       HostOf[p] = h /\ gen[p].step \notin {"idle", "check", "flush", "requeue", "release"}

\* An operator disables all rules of a host, in the database.
Disable(h) ==
  /\ Calm /\ disables' = disables + 1
  /\ HasEnabled(rules[h])
  /\ rules' = [rules EXCEPT ![h] = {[r EXCEPT !.on = FALSE] : r \in @}]
  /\ quietly' = IF UnderWay(h) THEN quietly ELSE quietly \cup {h}
  /\ UNCHANGED <<samples, refining, caches, parse, gen, keys, token, breaker, calls, failures,
                 expiries>>

\* An instance restarts: its caches, breaker, tokens and generations are gone,
\* a page whose message it had not committed is delivered again.
Restart(i) ==
  LET busy == {p \in Pages : on[p] = i} IN
  /\ Fails
  /\ at' = [p \in Pages |-> IF p \in busy THEN "fetched" ELSE at[p]]
  /\ view' = [p \in Pages |-> IF p \in busy THEN {} ELSE view[p]]
  /\ on' = [p \in Pages |-> IF p \in busy THEN Nobody ELSE on[p]]
  /\ stale' = [p \in Pages |-> stale[p] /\ p \notin busy]
  /\ gen' = [p \in Pages |-> IF gen[p].on = i THEN NoGen ELSE gen[p]]
  /\ cache' = [cache EXCEPT ![i] = [h \in Hosts |-> {}]]
  /\ known' = [known EXCEPT ![i] = [h \in Hosts |-> {}]]
  /\ token' = [token EXCEPT ![i] = [h \in Hosts |-> Nobody]]
  /\ strikes' = [strikes EXCEPT ![i] = [h \in Hosts |-> 0]]
  /\ blocked' = [blocked EXCEPT ![i] = {}]
  /\ UNCHANGED <<rules, samples, refining, retries, keys, calls, quietly, expiries, disables>>

Parse(p) ==
  \/ \E i \in Instances : Lookup(p, i)
  \/ StoreCache(p) \/ Parsed(p) \/ NoRule(p) \/ RuleFails(p) \/ CountStale(p)
  \/ HasAnyRule(p) \/ Refused(p) \/ TryAcquire(p) \/ Defer(p) \/ Push(p)

Generate(p) ==
  \/ PreCheck(p) \/ Allow(p) \/ RecordCall(p) \/ CallLLM(p) \/ ReadVersion(p) \/ Insert(p)
  \/ Invalidate(p) \/ Flush(p) \/ RequeueParsing(p) \/ Release(p)

Environment ==
  \/ \E i \in Instances, h \in Hosts : Expire(i, h) \/ CooldownPasses(i, h) \/ Refine(h, i)
  \/ \E h \in Hosts : WindowSlides(h) \/ LockExpires(h) \/ RefineRead(h) \/ Disable(h)
  \/ BudgetSlides
  \/ \E i \in Instances : Restart(i)

RulesNext == (\E p \in Pages : Parse(p) \/ Generate(p)) \/ Environment

RulesSpec == RulesInit /\ [][RulesNext]_rulesVars
FairSpec == RulesSpec /\ \A p \in Pages : WF_rulesVars(Parse(p)) /\ WF_rulesVars(Generate(p))

-----------------------------------------------------------------------------
(* Properties. *)

\* The lock admits one generation of a host, and each expiry of a lock under a
\* running one admits one more: Release frees only a lock that its instance has.
GenerationsExclusive ==
  \A h \in Hosts : Cardinality(Running(h)) <= 1 + expiries

\* A lock goes by its TTL, or by the instance whose token it carries.
LockFreedByHolder ==
  [][\A h \in Hosts :
       lock[h] # Nobody /\ lock'[h] # lock[h] =>
         \/ \E i \in Instances : token[i][h] = lock[h] /\ token'[i][h] = Nobody
         \/ LockExpires(h)]_rulesVars

\* A page costs at most one call and one for each retry, however often it waits
\* in the list, its host's rule fails, or another page's generation requeues it.
CallsPerPage == \A p \in Pages : calls[p] <= MaxLLMRetries + 1

\* Allow looks the budget up and records it in two commands: calls of different
\* hosts pass the limit together, but never more of them than run at a time.
BudgetOvershoot == used <= Cap - 1 + Cardinality(Hosts) + expiries + failures

\* A host that is disabled while nothing is under way for it gets no enabled rule
\* from the learner or the refiner, but from a generation whose lookup failed.
DisableHolds ==
  [][\A h \in quietly : \A r \in rules'[h] \ rules[h] :
       r.on => \E p \in Pages : gen[p].step = "insert" /\ gen[p].blind]_rulesVars

\* A page in the pending list is parsed again (generator.go: a page that comes
\* while a list is flushed is dealt with by the next generation's flush).
PendingIsServed == \A p \in Pages : at[p] = "pending" ~> at[p] # "pending"
=============================================================================
