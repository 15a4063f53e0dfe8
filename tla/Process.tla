------------------------------ MODULE Process ------------------------------
(***************************************************************************)
(* The process around the stages: what main opens and starts, and in which *)
(* order; the signal; the order in which it then cancels, waits, gives up  *)
(* and closes, the deferred closes last.  The fetch workers and the breaker *)
(* of their source are those of CircuitBreaker: the breaker lives and dies *)
(* with the process, and its workers run as long as their pool does.       *)
(*                                                                         *)
(* A goroutine that has been started waits for work or is at work; at work *)
(* it uses things main has opened.  The workers of a pool are one goroutine*)
(* here, at work while one of them is or their channel holds a message.    *)
(***************************************************************************)
EXTENDS CircuitBreaker, Sequences

CONSTANT Setups  \* the sets of features that configurations turn on

VARIABLES on,      \* features of this process, without those that failed
          boot,    \* steps of main done before it waits for the signal
          down,    \* the step after the signal; 0: no signal yet
          opened,  \* clients, consumers, producers and containers that are open
          alive,   \* goroutines that have been started and have not ended
          work,    \* goroutines in the middle of something
          expired, \* the shutdown timeout has passed
          left     \* goroutines main no longer waits for

main == <<on, boot, down, opened, alive, work, expired, left>>
all == <<vars, main>>

(* A feature that builds on another is off without it, whatever is configured. *)
Needs(f) == CASE f \in {"buffer", "zset"} -> {"redis"}
              [] f \in {"agents", "refiner"} -> {"llm"}
              [] f = "upgrade" -> {"parser"}
              [] f = "downgrader" -> {"fetcher"}
              [] OTHER -> {}
Has(f) == {f} \cup Needs(f) \subseteq on
If(f, S) == IF Has(f) THEN S ELSE {}

(* They end when the context is cancelled. *)
Loops == {"scorer", "retry", "sched", "drainer", "cleaner", "refiner",
          "parser_intake", "validate_intake", "enrich_intake", "downgrader"}
(* They end when their channel, closed, is empty. *)
Pools == {"fetcher", "parser", "validate", "enrich"}
(* A parser worker sends them off: rule generations and fetcher upgrades.  *)
Spawned == {"llmgen", "upgrade"}
(* Main never waits for them: the refreshers of the resolvers and upgrades. *)
Unawaited == {"refresh", "upgrade"}
Goroutines == Loops \cup Pools \cup Spawned

(* The Kafka consumer of a stage: its pool reads it, or in zset mode its    *)
(* intake does; who reads it closes it at its end.                         *)
Consumer(g) == CASE g \in {"parser", "parser_intake"} -> {"parser_consumer"}
                 [] g \in {"validate", "validate_intake"} -> {"validate_consumer"}
                 [] g \in {"enrich", "enrich_intake"} -> {"enrich_consumer"}
                 [] g = "fetcher" -> {"crawl_consumers", "chromedp_consumer"}
                 [] OTHER -> {}
Reads(g) == IF g \in Pools \ {"fetcher"} /\ Has("zset") THEN {} ELSE Consumer(g)

(* What g uses while it is at work. *)
Uses(g) ==
  LET store == If("redis", {"redis"}) IN
  CASE g \in {"scorer", "cleaner", "refiner", "downgrader"} -> {"db"}
    [] g \in {"retry", "drainer"} -> {"redis", "producer"}
    [] g \in {"sched", "upgrade"} -> {"db", "producer"} \cup store
    [] g = "llmgen"   -> {"db", "producer"} \cup store \cup If("agents", {"agents"})
    [] g = "fetcher"  -> {"db", "producer"} \cup store \cup Reads(g)
    [] g = "parser"   -> {"db", "producer"} \cup store \cup Reads(g)
    [] g = "validate" -> {"db", "validate_producer"} \cup store \cup Reads(g)
    [] g = "enrich"   -> {"db", "enrich_producer"} \cup store \cup Reads(g)
                           \cup If("agents", {"agents"})
    [] OTHER -> {"redis"} \cup Reads(g)

(* The fetch workers are at work in CircuitBreaker's pc. *)
AtWork == work \cup (IF \E w \in Workers : pc[w] # "idle" THEN {"fetcher"} ELSE {})

ProcessTypeOK ==
  /\ on \subseteq UNION Setups
  /\ alive \subseteq Loops \cup Pools \cup {"refresh"} /\ work \subseteq Goroutines
  /\ left \subseteq Goroutines
  /\ expired \in BOOLEAN

---------------------------------------------------------------------------
(* Before the signal: the sections of main.  A section opens things and    *)
(* starts goroutines, or fails: then main goes on without the features in  *)
(* "loses", or, when there are none, it dies.                              *)

Step(opens, starts, loses) == [opens |-> opens, starts |-> starts, loses |-> loses]

LoadConfigs   == Step({}, {}, {})
ConnectRedis  == Step(If("redis", {"redis"}), {}, {"redis"})
OpenProducer  == Step({"producer"}, {}, {})
OpenConsumers == Step({"crawl_consumers"}, {}, {})
OpenDatabase  == Step({"db"}, {}, {})
LoadRules     == Step({}, {"refresh"}, {})
StartScorer   == Step({}, If("scorer", {"scorer"}), {})
RegisterSources == Step({}, {}, {})
StartRetry    == Step({}, If("redis", {"retry"}), {})
BuildFetchers == Step({"chromedp_consumer"}, {}, {})
BuildLLM      == Step({}, {}, {"llm"})
BuildUpgrader == Step({}, {}, {"upgrade"})
OpenParser    == Step({"parser_consumer"}, {}, {})
StartAgents   == Step(If("agents", {"agents"}), {}, {"agents"})
StartScheduler == Step({}, If("sched", {"sched"}) \cup If("buffer", {"drainer"}), {})
OpenValidate  == Step({"validate_consumer", "validate_producer"}, {}, {})
OpenEnrich    == Step({"enrich_consumer", "enrich_producer"}, {}, {})
BuildStages   == Step({}, {}, {})

StartFetcher  == Step({}, If("fetcher", {"fetcher"}), {})
StartParser   == Step({}, If("parser", {"parser", "cleaner"} \cup If("refiner", {"refiner"})
                                         \cup If("zset", {"parser_intake"})), {})
StartValidate == Step({}, If("validate", {"validate"} \cup If("zset", {"validate_intake"})), {})
StartEnrich   == Step({}, If("enrich", {"enrich"} \cup If("zset", {"enrich_intake"})), {})
StartDowngrader == Step({}, If("downgrader", {"downgrader"}), {})

Boot == <<LoadConfigs, ConnectRedis, OpenProducer, OpenConsumers, OpenDatabase,
          LoadRules, StartScorer, RegisterSources, StartRetry, BuildFetchers, BuildLLM,
          BuildUpgrader, OpenParser, StartAgents, StartScheduler,
          OpenValidate, OpenEnrich, BuildStages,
          StartFetcher, StartParser, StartValidate, StartEnrich, StartDowngrader>>

StartUp ==
  /\ boot < Len(Boot)
  /\ opened' = opened \cup Boot[boot + 1].opens
  /\ alive' = alive \cup Boot[boot + 1].starts
  /\ boot' = boot + 1
  /\ UNCHANGED <<on, down, work, expired, left, vars>>

(* A section that fails and is not fatal. *)
Degrade ==
  /\ boot < Len(Boot)
  /\ Boot[boot + 1].loses \cap on # {}
  /\ on' = on \ Boot[boot + 1].loses
  /\ boot' = boot + 1
  /\ UNCHANGED <<down, opened, alive, work, expired, left, vars>>

(* The process is gone, its breaker with it, and another one starts.       *)
Gone ==
  /\ on' \in Setups
  /\ boot' = 0 /\ down' = 0 /\ expired' = FALSE
  /\ opened' = {} /\ alive' = {} /\ work' = {} /\ left' = {}
  /\ pc' = [w \in Workers |-> "idle"] /\ mine' = [w \in Workers |-> 0]
  /\ probing' = {} /\ reg' = 0
  /\ state' = [b \in Breakers |-> "closed"] /\ failures' = [b \in Breakers |-> 0]
  /\ elapsed' = [b \in Breakers |-> FALSE] /\ probe' = [b \in Breakers |-> FALSE]

(* log.Fatal, or a signal before main has asked for signals: no deferred   *)
(* close is run.                                                           *)
Die == boot \in 1..(Len(Boot) - 1) /\ Gone

---------------------------------------------------------------------------
(* After the signal: what main waits for, how long, and what is closed     *)
(* then.  A wait without patience for the shutdown timeout is for ever.    *)

Stop(waits, patience, closes) == [waits |-> waits, patience |-> patience, closes |-> closes]

Cancel         == Stop({}, "deadline", {})
StopScheduler  == Stop({"sched"}, "ever", {})
NoOneStops     == Stop({}, "ever", {})
StopDrainer    == Stop({"drainer"}, "ever", {})
StopFetcher    == Stop({"fetcher"}, "deadline", {})
StopIntake(g)  == Stop({g}, "deadline", {})
StopPool(g)    == Stop({g}, "deadline", {})
WaitsForEver   == Stop({"llmgen"}, "ever", {})
StopGenerator  == Stop({"llmgen"}, "deadline", {})
StopRefiner    == Stop({"refiner"}, "deadline", {})
StopCleaner    == Stop({"cleaner"}, "deadline", {})
StopParser     == <<StopIntake("parser_intake"), StopPool("parser"),
                    StopGenerator, StopRefiner, StopCleaner>>
StopValidate   == <<StopIntake("validate_intake"), StopPool("validate")>>
StopEnrich     == <<StopIntake("enrich_intake"), StopPool("enrich")>>
StopDowngrader == Stop({"downgrader"}, "deadline", {})
StopAgents     == Stop({}, "deadline", {"agents"})
(* The deferred closes, last first. *)
CloseEnrich    == Stop({}, "ever", {"enrich_producer", "enrich_consumer"})
CloseValidate  == Stop({}, "ever", {"validate_producer", "validate_consumer"})
CloseChromedp  == Stop({}, "ever", {"chromedp_consumer"})
StopRetry      == Stop({"retry"}, "ever", {})
StopScorer     == Stop({"scorer"}, "ever", {})
CloseDatabase  == Stop({}, "ever", {"db"})
CloseCrawl     == Stop({}, "ever", {"crawl_consumers", "producer"})
CloseRedis     == Stop({}, "ever", {"redis"})

Down ==
  <<Cancel, StopScheduler, StopDrainer, StopFetcher>> \o StopParser \o StopValidate
    \o StopEnrich \o <<StopDowngrader, StopAgents>>
    \o <<CloseEnrich, CloseValidate, CloseChromedp, StopRetry, StopScorer,
         CloseDatabase, CloseCrawl, CloseRedis>>

Signal ==
  /\ boot = Len(Boot) /\ down = 0
  /\ down' = 1
  /\ UNCHANGED <<on, boot, opened, alive, work, expired, left, vars>>

(* What main waits for at this step and is still there. *)
Awaited == IF down \notin 1..Len(Down) THEN {} ELSE Down[down].waits \cap (alive \cup AtWork)

Close ==
  /\ down' = down + 1
  /\ opened' = opened \ (Down[down].closes
                           \cup UNION {Reads(g) : g \in Down[down].waits \cap Pools})
  /\ UNCHANGED <<on, boot, alive, work, expired, vars>>

Advance == down \in 1..Len(Down) /\ Awaited = {} /\ Close /\ UNCHANGED left

(* The shutdown timeout ends the wait, not what was waited for.            *)
GiveUp ==
  /\ down \in 1..Len(Down) /\ Awaited # {}
  /\ Down[down].patience = "deadline" /\ expired
  /\ Close
  /\ left' = left \cup Awaited

(* The shutdown timeout runs from the cancellation on. *)
Deadline ==
  /\ down > 1 /\ ~expired
  /\ expired' = TRUE
  /\ UNCHANGED <<on, boot, down, opened, alive, work, left, vars>>

Exit == down > Len(Down) /\ Gone

---------------------------------------------------------------------------
(* The goroutines                                                          *)

(* The step that stops g.  When main comes to it, a pool's channel is      *)
(* closed and the generator takes no more pages.                           *)
StepOf == [g \in Pools \cup (Spawned \ Unawaited) |-> CHOOSE i \in 1..Len(Down) : g \in Down[i].waits]
Told(g) == down >= StepOf[g]

(* The context is cancelled. *)
Cancelled == down > 1

(* A loop may still pick its tick when the context is cancelled as well.   *)
Begin(g) ==
  /\ g \notin work
  /\ \/ g \in alive \cap Loops
     \/ g \in (alive \cap Pools) \ {"fetcher"} /\ ~Told(g)
     \/ g = "llmgen" /\ Has("llm") /\ "parser" \in work /\ ~Told(g)
     \/ g = "upgrade" /\ Has("upgrade") /\ "parser" \in work
  /\ work' = work \cup {g}
  /\ UNCHANGED <<on, boot, down, opened, alive, expired, left, vars>>

End(g) ==
  /\ g \in work
  /\ work' = work \ {g}
  /\ UNCHANGED <<on, boot, down, opened, alive, expired, left, vars>>

MayQuit(g) == IF g \in Pools THEN Told(g) ELSE Cancelled

(* A loop sees the cancelled context, a pool the end of its channel; an    *)
(* intake closes the consumer it reads.                                    *)
Quit(g) ==
  /\ g \in alive \ AtWork /\ MayQuit(g)
  /\ alive' = alive \ {g}
  /\ opened' = opened \ (IF g \in Loops THEN Reads(g) ELSE {})
  /\ UNCHANGED <<on, boot, down, work, expired, left, vars>>

(* A fetch worker takes its next job, or goes on with the one it has. *)
FetchWorker(w) ==
  /\ "fetcher" \in alive
  /\ \/ NewJob(w) /\ ~Told("fetcher")
     \/ Lookup(w) \/ Create(w) \/ Allow(w) \/ Refuse(w) \/ Reports(w)
  /\ UNCHANGED main

Clock(b) == Elapse(b) /\ UNCHANGED main

---------------------------------------------------------------------------
ProcessInit ==
  /\ on \in Setups
  /\ boot = 0 /\ down = 0 /\ expired = FALSE
  /\ opened = {} /\ alive = {} /\ work = {} /\ left = {}
  /\ Init

ProcessNext ==
  \/ StartUp \/ Degrade \/ Die
  \/ Signal \/ Advance \/ GiveUp \/ Deadline \/ Exit
  \/ \E g \in Goroutines : Begin(g) \/ End(g) \/ Quit(g)
  \/ \E w \in Workers : FetchWorker(w)
  \/ \E b \in Breakers : Clock(b)

(* Handlers, sessions and rule generations need not end. *)
Abandonable == Pools \cup {"llmgen"}

(* Where main waits without a timeout it waits for publishes and queries   *)
(* that run under the cancelled context, and they end.  Go's select takes  *)
(* each ready case again and again, so a loop sees the cancellation among  *)
(* its ticks.  While the process runs, jobs keep coming, every fetch ends  *)
(* and is reported (the handlers run under the job's timeout and return no *)
(* content, so processJob records every outcome), and time passes.         *)
ProcessFairness ==
  /\ WF_all(Advance \/ GiveUp \/ Deadline \/ Exit)
  /\ SF_all(\E g \in Awaited : Quit(g))
  /\ WF_all(\E g \in Awaited : g \notin Abandonable /\ End(g))
  /\ \A w \in Workers : WF_all(FetchWorker(w))
  /\ \A b \in Breakers : WF_all(Clock(b))

ProcessSpec == ProcessInit /\ [][ProcessNext]_all /\ ProcessFairness

---------------------------------------------------------------------------
(* Properties                                                              *)

(* Nothing is closed under those who use it: whatever is at work, during   *)
(* start-up, in the run and at every step of the shutdown, has what it     *)
(* uses open, unless main has given it up at the timeout or never waits    *)
(* for it at all.                                                          *)
StillOpen == \A g \in AtWork \ (left \cup Unawaited) : Uses(g) \subseteq opened

(* Once main has the signal, the process ends, though handlers, sessions   *)
(* and rule generations may never end.                                     *)
ShutdownEnds == down > 0 ~> boot = 0
=============================================================================
