--------------------------- MODULE AgentSessions ---------------------------
(***************************************************************************)
(* The agent pools (pkg/agent/claude, pkg/agent/codex), the enrichment     *)
(* calls made through them (internal/processor/enrich) and the cost guard  *)
(* in front of those calls.                                                *)
(*                                                                         *)
(* One process keeps two pools: the enrich stage calls the claude pool and *)
(* the rule generator the codex pool.  Every worker of a pool owns one     *)
(* docker container and one workspace directory.  A session is counted in  *)
(* the worker's WaitGroup, runs inside the container, and Stop is meant to *)
(* wait for the sessions before it removes the container.                  *)
(*                                                                         *)
(* The two backends differ where the properties look: claude counts a      *)
(* session before it reads the container's ID and hands Stop's own context *)
(* to docker, codex admits a session under the lock and removes the        *)
(* container under a fresh context.                                        *)
(***************************************************************************)
EXTENDS Integers, FiniteSets, EnrichFacts

CONSTANTS Pages,           \* enrich workers' slots: one article at a time each
          Generations,     \* rule generations: one session each
          Workers,         \* agent workers of both pools
          Codex,           \* those of the codex pool
          DailyLimit,      \* ENRICH_DAILY_CALL_LIMIT
          MaxTrouble,      \* bound: docker failures, expired waits, kills
          MaxDays,         \* bound: midnights
          MaxBoots,        \* bound: starts of the process
          Nobody

ASSUME AgentAssumption ==
  /\ Codex \subseteq Workers
  /\ IsFiniteSet(Pages) /\ IsFiniteSet(Generations) /\ Pages \cap Generations = {}
  /\ DailyLimit \in Nat \ {0} /\ MaxBoots \in Nat \ {0}
  /\ MaxTrouble \in Nat /\ MaxDays \in Nat
  /\ Nobody \notin Workers

VARIABLES
  life,      \* "boot", "up", "drain" (signal seen), "pools" (stopping them),
             \* "exit" (clean) or "dead" (killed, or a goroutine panicked)
  pool,      \* pool -> "new", "starting", "cleaning", "ready", "failed", "stopping", "stopped"
  step,      \* worker -> where its Start or Stop is
  held,      \* worker -> containerID # ""
  stopping,  \* codex worker -> stopping
  box,       \* worker -> its container runs
  dir,       \* worker -> workspace: "none", "bare" (no .owner yet) or "owned"
  wg,        \* worker -> count of its WaitGroup
  waiter,    \* worker -> goroutine in wg.Wait: "none", "asleep" or "woken"
  call,      \* caller -> where its session is
  guard,     \* the cost guard: its day, count and cached lag
  trouble, days, boots,
  ghost      \* history: workers whose wait was cut short (forced), whose
             \* docker rm failed (refused), or failed with the container gone
             \* (vanished), whose docker run failed with the container there
             \* (orphaned), whose wait panicked (burst);
             \* today's sessions of enrich pages (opened), the process starts
             \* they share (starts), pages under way at midnight (carried)

docker == <<step, held, stopping, box, dir, waiter>>
bounds == <<trouble, days, boots>>
vars == <<life, pool, docker, wg, call, guard, bounds, ghost>>

Callers == Pages \cup Generations
Pools == {"claude", "codex"}
Members(q) == IF q = "codex" THEN Codex ELSE Workers \ Codex
PoolOf(c) == IF c \in Pages THEN "claude" ELSE "codex"

Idle == [at |-> "idle", on |-> Nobody, of |-> "extract"]
NextIs(s) == [Idle EXCEPT !.at = "next", !.of = s]
NewGuard == [day |-> "past", count |-> 0, lag |-> "stale"]
NoGhost == [forced |-> {}, refused |-> {}, vanished |-> {}, orphaned |-> {}, burst |-> {},
            opened |-> 0, starts |-> 1, carried |-> 0]

Alive == life \notin {"exit", "dead"}
Fault == trouble < MaxTrouble /\ trouble' = trouble + 1 /\ UNCHANGED <<days, boots>>
Calm == UNCHANGED bounds

TypeOK ==
  /\ life \in {"boot", "up", "drain", "pools", "exit", "dead"}
  /\ pool \in [Pools -> {"new", "starting", "cleaning", "ready", "failed", "stopping", "stopped"}]
  /\ step \in [Workers -> {"off", "mkdir", "owner", "run", "up", "broken",
                           "wait", "remove", "stopped", "stuck"}]
  /\ held \in [Workers -> BOOLEAN] /\ stopping \in [Workers -> BOOLEAN]
  /\ box \in [Workers -> BOOLEAN]
  /\ dir \in [Workers -> {"none", "bare", "owned"}]
  /\ wg \in [Workers -> 0..Cardinality(Callers)]
  /\ waiter \in [Workers -> {"none", "asleep", "woken"}]
  /\ call \in [Callers -> [at : {"idle", "asking", "next", "counted", "admitted", "running"},
                           on : Workers \cup {Nobody}, of : Sessions]]
  /\ guard \in [day : {"today", "past"}, count : 0..DailyLimit, lag : {"stale", "low", "high"}]
  /\ trouble \in 0..MaxTrouble /\ days \in 0..MaxDays /\ boots \in 1..MaxBoots

Init ==
  /\ life = "boot" /\ pool = [q \in Pools |-> "new"]
  /\ step = [w \in Workers |-> "off"] /\ held = [w \in Workers |-> FALSE]
  /\ stopping = [w \in Workers |-> FALSE] /\ box = [w \in Workers |-> FALSE]
  /\ dir = [w \in Workers |-> "none"] /\ wg = [w \in Workers |-> 0]
  /\ waiter = [w \in Workers |-> "none"] /\ call = [c \in Callers |-> Idle]
  /\ guard = NewGuard /\ ghost = NoGhost
  /\ trouble = 0 /\ days = 0 /\ boots = 1

(***************************************************************************)
(* The worker and its pool: Start.                                         *)
(***************************************************************************)

\* main starts the claude pools before the codex ones; Pool.Start starts its
\* workers in parallel.
StartPool(q) ==
  /\ life = "boot" /\ pool[q] = "new"
  /\ q = "codex" => pool["claude"] \in {"ready", "failed"}
  /\ pool' = [pool EXCEPT ![q] = "starting"]
  /\ step' = [w \in Workers |-> IF w \in Members(q) THEN "mkdir" ELSE step[w]]
  /\ UNCHANGED <<life, held, stopping, box, dir, waiter, wg, call, guard, ghost>> /\ Calm

\* A failed step of Start removes the workspace it made, and nothing else.
Breaks(w) == /\ Fault
             /\ step' = [step EXCEPT ![w] = "broken"]
             /\ dir' = [dir EXCEPT ![w] = "none"]
             /\ UNCHANGED held

MakeDir(w) ==
  /\ step[w] = "mkdir"
  /\ \/ Breaks(w)
     \/ /\ Calm /\ step' = [step EXCEPT ![w] = "owner"]
        /\ dir' = [dir EXCEPT ![w] = "bare"] /\ UNCHANGED held
  /\ UNCHANGED <<life, pool, stopping, box, waiter, wg, call, guard, ghost>>

WriteOwner(w) ==
  /\ step[w] = "owner"
  /\ \/ Breaks(w)
     \/ /\ Calm /\ step' = [step EXCEPT ![w] = "run"]
        /\ dir' = [dir EXCEPT ![w] = "owned"] /\ UNCHANGED held
  /\ UNCHANGED <<life, pool, stopping, box, waiter, wg, call, guard, ghost>>

\* docker run -d may fail when the container is already there (its context has
\* ended, its answer is lost): no ID is kept, and nobody removes the container.
RunContainer(w) ==
  /\ step[w] = "run"
  /\ \/ Breaks(w) /\ UNCHANGED <<box, ghost>>
     \/ /\ Breaks(w) /\ box' = [box EXCEPT ![w] = TRUE]
        /\ ghost' = [ghost EXCEPT !.orphaned = @ \cup {w}]
     \/ /\ Calm /\ step' = [step EXCEPT ![w] = "up"] /\ UNCHANGED <<dir, ghost>>
        /\ held' = [held EXCEPT ![w] = TRUE] /\ box' = [box EXCEPT ![w] = TRUE]
  /\ UNCHANGED <<life, pool, stopping, waiter, wg, call, guard>>

\* Stop of the members that are started: the ID is cleared, so that new calls
\* are refused, and (codex) stopping is set.  A worker without ID is done.
BeginStop(ws) ==
  /\ step' = [w \in Workers |-> IF w \in ws /\ held[w] THEN "wait" ELSE step[w]]
  /\ stopping' = [w \in Workers |-> stopping[w] \/ (w \in ws \cap Codex /\ held[w])]
  /\ held' = [w \in Workers |-> held[w] /\ w \notin ws]

\* Pool.Start returns: with an error after one worker failed, and the workers
\* that did start are stopped first.
NoSurvivor(q) == {}

Survivors(q) == {w \in Members(q) : step[w] = "up"}

PoolStarted(q) ==
  /\ Alive /\ pool[q] = "starting"
  /\ \A w \in Members(q) : step[w] \in {"up", "broken"}
  /\ \/ /\ \A w \in Members(q) : step[w] = "up"
        /\ pool' = [pool EXCEPT ![q] = "ready"] /\ UNCHANGED <<step, stopping, held>>
     \/ /\ \E w \in Members(q) : step[w] = "broken"
        /\ pool' = [pool EXCEPT ![q] = "cleaning"] /\ BeginStop(Survivors(q))
  /\ UNCHANGED <<life, box, dir, waiter, wg, call, guard, ghost>> /\ Calm

GoUp ==
  /\ life = "boot" /\ \A q \in Pools : pool[q] \in {"ready", "failed"}
  /\ life' = "up"
  /\ UNCHANGED <<pool, docker, wg, call, guard, ghost>> /\ Calm

(***************************************************************************)
(* The worker and its pool: Stop.                                          *)
(***************************************************************************)

\* The process ends: its goroutines and its memory are gone, its containers
\* and directories stay.
Perish(how) ==
  /\ life' = how
  /\ call' = [c \in Callers |-> Idle] /\ wg' = [w \in Workers |-> 0]
  /\ waiter' = [w \in Workers |-> "none"] /\ step' = [w \in Workers |-> "off"]
  /\ held' = [w \in Workers |-> FALSE] /\ stopping' = [w \in Workers |-> FALSE]
  /\ UNCHANGED <<pool, box, dir, guard>>

NeverWaits(w) == TRUE

Drained(w) == wg[w] = 0

\* The goroutine of Stop enters wg.Wait; with no session it returns at once.
EnterWait(w) ==
  /\ step[w] = "wait" /\ waiter[w] = "none"
  /\ IF Drained(w)
     THEN step' = [step EXCEPT ![w] = "remove"] /\ UNCHANGED waiter
     ELSE waiter' = [waiter EXCEPT ![w] = "asleep"] /\ UNCHANGED step
  /\ UNCHANGED <<life, pool, held, stopping, box, dir, wg, call, guard, ghost>> /\ Calm

\* Woken by the last Done, Wait looks at the counter again and panics when a
\* session has been counted meanwhile ("WaitGroup is reused before previous
\* Wait has returned"); a panic of a goroutine ends the process.
ReturnWait(w) ==
  /\ waiter[w] = "woken" /\ Calm
  /\ \/ /\ wg[w] = 0
        /\ waiter' = [waiter EXCEPT ![w] = "none"]
        /\ step' = [step EXCEPT ![w] = IF @ = "wait" THEN "remove" ELSE @]
        /\ UNCHANGED <<life, pool, held, stopping, box, dir, wg, call, guard, ghost>>
     \/ /\ wg[w] > 0
        /\ Perish("dead") /\ ghost' = [ghost EXCEPT !.burst = @ \cup {w}]

\* Stop's context ends before the sessions do.
WaitExpires(w) ==
  /\ step[w] = "wait" /\ waiter[w] # "none" /\ Fault
  /\ step' = [step EXCEPT ![w] = "remove"]
  /\ ghost' = [ghost EXCEPT !.forced = @ \cup {w}]
  /\ UNCHANGED <<life, pool, held, stopping, box, dir, waiter, wg, call, guard>>

\* docker rm runs under a context of its own (codex) or under Stop's, which
\* a forced stop has used up (claude).
DockerRuns(w) == w \in Codex \/ w \notin ghost.forced

\* Failed: the ID is put back for the next Stop, which main never calls.
Restore(w) ==
  /\ held' = [held EXCEPT ![w] = TRUE] /\ stopping' = [stopping EXCEPT ![w] = FALSE]
  /\ step' = [step EXCEPT ![w] = "stuck"] /\ UNCHANGED dir

\* docker rm -f may fail when the container is already gone (its 15 s or Stop's
\* context are over, its answer is lost): the ID is put back all the same.
Remove(w) ==
  /\ step[w] = "remove"
  /\ \/ /\ DockerRuns(w) /\ Calm
        /\ box' = [box EXCEPT ![w] = FALSE] /\ dir' = [dir EXCEPT ![w] = "none"]
        /\ step' = [step EXCEPT ![w] = "stopped"] /\ UNCHANGED <<held, stopping, ghost>>
     \/ /\ DockerRuns(w) /\ Fault /\ Restore(w) /\ UNCHANGED box
        /\ ghost' = [ghost EXCEPT !.refused = @ \cup {w}]
     \/ /\ DockerRuns(w) /\ Fault /\ Restore(w) /\ box' = [box EXCEPT ![w] = FALSE]
        /\ ghost' = [ghost EXCEPT !.refused = @ \cup {w}, !.vanished = @ \cup {w}]
     \/ /\ ~DockerRuns(w) /\ Calm /\ Restore(w) /\ UNCHANGED <<box, ghost>>
  /\ UNCHANGED <<life, pool, waiter, wg, call, guard>>

PoolStopped(q) ==
  /\ Alive /\ pool[q] \in {"stopping", "cleaning"}
  /\ \A w \in Members(q) : step[w] \notin {"wait", "remove"}
  /\ pool' = [pool EXCEPT ![q] = IF @ = "cleaning" THEN "failed" ELSE "stopped"]
  /\ UNCHANGED <<life, docker, wg, call, guard, ghost>> /\ Calm

(***************************************************************************)
(* The process: signal, drain of the stages, the pools one after another.  *)
(***************************************************************************)

Signal ==
  /\ life = "up" /\ life' = "drain"
  /\ UNCHANGED <<pool, docker, wg, call, guard, ghost>> /\ Calm

\* stages.Stop returned: everything drained, or the shutdown context ended.
StagesStopped ==
  /\ life = "drain" /\ life' = "pools"
  /\ \/ Calm /\ \A c \in Callers : call[c] = Idle
     \/ Fault /\ \E c \in Callers : call[c] # Idle
  /\ UNCHANGED <<pool, docker, wg, call, guard, ghost>>

StopPool(q) ==
  /\ life = "pools" /\ pool[q] = "ready"
  /\ q = "codex" => pool["claude"] \in {"failed", "stopped"}
  /\ pool' = [pool EXCEPT ![q] = "stopping"] /\ BeginStop(Members(q))
  /\ UNCHANGED <<life, box, dir, waiter, wg, call, guard, ghost>> /\ Calm

Exit ==
  /\ life = "pools" /\ \A q \in Pools : pool[q] \in {"failed", "stopped"}
  /\ Perish("exit") /\ UNCHANGED ghost /\ Calm

Kill == Alive /\ Fault /\ Perish("dead") /\ UNCHANGED ghost

\* The next process: its counters start at zero, the workspaces whose owner is
\* dead are swept.  What the dead one left running is nobody's any more.
Boot ==
  /\ ~Alive /\ boots < MaxBoots
  /\ boots' = boots + 1 /\ UNCHANGED <<trouble, days>>
  /\ life' = "boot" /\ pool' = [q \in Pools |-> "new"] /\ guard' = NewGuard
  /\ box' = [w \in Workers |-> FALSE] /\ dir' = [w \in Workers |-> "none"]
  /\ ghost' = [NoGhost EXCEPT !.opened = ghost.opened, !.starts = ghost.starts + 1,
                              !.carried = ghost.carried]
  /\ UNCHANGED <<step, held, stopping, waiter, wg, call>>

(***************************************************************************)
(* The cost guard and the sessions of a caller.                            *)
(***************************************************************************)

DayNotKept == 0

\* consumeDailyBudget: the day's first call resets the counter.
CountToday == IF guard.day = "past" THEN 0 ELSE guard.count

Allows == CountToday < DailyLimit

Consume(c, lag) ==
  IF Allows
  THEN /\ guard' = [day |-> "today", count |-> CountToday + 1, lag |-> lag]
       /\ \/ call' = [call EXCEPT ![c] = NextIs("extract")]
          \/ call' = [call EXCEPT ![c] = Idle]  \* its row is gone, or cannot be read
  ELSE /\ guard' = [day |-> "today", count |-> CountToday, lag |-> lag]
       /\ call' = [call EXCEPT ![c] = Idle]

\* Allow: a fresh high lag skips the page (nothing changes), a fresh low one
\* goes on to the budget, a stale one is asked for outside the lock.
Allow(c) ==
  /\ life = "up" /\ pool["claude"] = "ready" /\ call[c] = Idle
  /\ \/ guard.lag = "low" /\ Consume(c, "low")
     \/ /\ guard.lag = "stale" /\ UNCHANGED guard
        /\ call' = [call EXCEPT ![c].at = "asking"]
  /\ UNCHANGED <<life, pool, docker, wg, ghost>> /\ Calm

\* The answer, or an error taken for a lag of 0, is cached; then the budget.
Answer(c) ==
  /\ call[c].at = "asking"
  /\ \/ Consume(c, "low")
     \/ /\ guard' = [guard EXCEPT !.lag = "high"]
        /\ call' = [call EXCEPT ![c] = Idle]
  /\ UNCHANGED <<life, pool, docker, wg, ghost>> /\ Calm

LagExpires ==
  /\ guard.lag # "stale" /\ guard' = [guard EXCEPT !.lag = "stale"]
  /\ UNCHANGED <<life, pool, docker, wg, call, ghost>> /\ Calm

UnderWay(c) == call[c].at \in {"next", "counted", "admitted", "running"}

Midnight ==
  /\ days < MaxDays /\ days' = days + 1 /\ UNCHANGED <<trouble, boots>>
  /\ guard' = [guard EXCEPT !.day = "past"]
  /\ ghost' = [ghost EXCEPT !.opened = 0, !.starts = 1,
                            !.carried = Cardinality({c \in Pages : UnderWay(c)})]
  /\ UNCHANGED <<life, pool, docker, wg, call>>

Generate(c) ==
  /\ life = "up" /\ pool["codex"] = "ready" /\ call[c] = Idle
  /\ call' = [call EXCEPT ![c] = NextIs("extract")]
  /\ UNCHANGED <<life, pool, docker, wg, guard, ghost>> /\ Calm

\* What follows a session: a rule generation has one, a page those of EnrichFacts.
After(c, ok) ==
  IF c \in Generations THEN call' = [call EXCEPT ![c] = Idle]
  ELSE \E s \in Follow[call[c].of][ok] :
         call' = [call EXCEPT ![c] = IF s = "done" THEN Idle ELSE NextIs(s)]

Leave(w) ==
  /\ wg' = [wg EXCEPT ![w] = @ - 1]
  /\ waiter' = [waiter EXCEPT ![w] = IF @ = "asleep" /\ wg[w] = 1 THEN "woken" ELSE @]

WhileBoxRuns(w) == box[w]

\* codex: state and counter under one lock.
Admits(w) == ~stopping[w] /\ held[w]

\* The pool's next worker: the round robin counter is shared by all callers,
\* so any member may come next.
Pick(c, w) ==
  /\ call[c].at = "next" /\ w \in Members(PoolOf(c))
  /\ \/ /\ w \notin Codex \/ Admits(w)
        /\ wg' = [wg EXCEPT ![w] = @ + 1]
        /\ call' = [call EXCEPT ![c].on = w,
                                ![c].at = IF w \in Codex THEN "admitted" ELSE "counted"]
     \/ w \in Codex /\ ~Admits(w) /\ After(c, FALSE) /\ UNCHANGED wg
  /\ UNCHANGED <<life, pool, docker, guard, ghost>> /\ Calm

\* claude: already counted, the ID is read.
ReadID(c, w) ==
  /\ call[c].at = "counted" /\ call[c].on = w
  /\ \/ /\ held[w] /\ call' = [call EXCEPT ![c].at = "admitted"] /\ UNCHANGED <<wg, waiter>>
     \/ ~held[w] /\ Leave(w) /\ After(c, FALSE)
  /\ UNCHANGED <<life, pool, step, held, stopping, box, dir, guard, ghost>> /\ Calm

\* The session directory (MkdirAll makes the workspace anew if it is gone),
\* the prompt and docker exec.
EnterSession(c, w) ==
  /\ call[c].at = "admitted" /\ call[c].on = w
  /\ call' = [call EXCEPT ![c].at = "running"]
  /\ dir' = [dir EXCEPT ![w] = IF @ = "none" THEN "bare" ELSE @]
  /\ ghost' = [ghost EXCEPT !.opened = IF c \in Pages THEN @ + 1 ELSE @]
  /\ UNCHANGED <<life, pool, step, held, stopping, box, waiter, wg, guard>> /\ Calm

EndSession(c, w) ==
  /\ call[c].at = "running" /\ call[c].on = w /\ Leave(w)
  /\ After(c, FALSE) \/ (box[w] /\ After(c, TRUE))
  /\ UNCHANGED <<life, pool, step, held, stopping, box, dir, guard, ghost>> /\ Calm

Docker == \E w \in Workers :
  \/ MakeDir(w) \/ WriteOwner(w) \/ RunContainer(w)
  \/ EnterWait(w) \/ ReturnWait(w) \/ WaitExpires(w) \/ Remove(w)

Pooling == \E q \in Pools :
  StartPool(q) \/ PoolStarted(q) \/ PoolStopped(q) \/ StopPool(q)

Session == \E c \in Callers, w \in Workers :
  Pick(c, w) \/ ReadID(c, w) \/ EnterSession(c, w) \/ EndSession(c, w)

Work == (\E c \in Pages : Allow(c) \/ Answer(c)) \/ (\E c \in Generations : Generate(c))

Process == GoUp \/ Signal \/ StagesStopped \/ Exit \/ Kill \/ Boot

Next == Docker \/ Pooling \/ Session \/ Work \/ Process \/ LagExpires \/ Midnight

Spec == Init /\ [][Next]_vars

(***************************************************************************)
(* Properties                                                              *)
(***************************************************************************)

\* A session runs in a container that runs: Stop removes a container only after
\* the last session has left.  Two ways out of that: the wait was cut short, or
\* docker rm removed the container and failed; the worker whose ID is put back
\* then admits sessions again (codex/worker.go:398-399 takes the container for
\* alive).
SessionsKeepContainer ==
  \A c \in Callers : call[c].at = "running" =>
    box[call[c].on] \/ call[c].on \in ghost.forced \cup ghost.vanished

\* A container outlives its pool (one stopped, or one that failed to start)
\* only when docker refused to remove it; when the wait for a claude worker was
\* cut short: docker rm then never runs; or when docker run failed with the
\* container there: Start then knows no ID to remove.
NoContainerLeft ==
  \A q \in Pools : pool[q] \in {"failed", "stopped"} =>
    \A w \in Members(q) : box[w] =>
      w \in ghost.refused \cup (ghost.forced \ Codex) \cup ghost.orphaned

\* Only a claude worker's Stop can die of a session counted while it waits,
\* as long as docker does what it is told.  When docker rm fails codex admits
\* sessions anew, and a Wait that Stop has given up on may still be waiting.
AdmissionGuardsWait == ghost.burst \cap Codex \subseteq ghost.refused

\* The sessions of one day are covered by the daily limit of every process
\* that ran that day and by the pages under way at midnight.
CallsWithinBudget ==
  ghost.opened <= Cardinality(Enabled) * (DailyLimit * ghost.starts + ghost.carried)
=============================================================================
