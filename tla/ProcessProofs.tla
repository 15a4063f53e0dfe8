--------------------------- MODULE ProcessProofs ---------------------------
(***************************************************************************)
(* Proofs about a process and the circuit breaker in it, for any number of *)
(* fetch workers, any threshold and any choice of features: one breaker    *)
(* serves the source, it never waits in HalfOpen for a probe that is not   *)
(* there and closes below its threshold; and main closes nothing that      *)
(* something still uses.                                                   *)
(***************************************************************************)
EXTENDS Process, FiniteSetTheorems, SequenceTheorems, TLAPS

(* The registry makes breaker 1 and no other, and who asks has it. *)
Registered ==
  /\ reg \in {0, 1}
  /\ \A w \in Workers : /\ mine[w] \in {0, reg}
                        /\ pc[w] \in {"admit", "fetch"} => mine[w] = 1

(* A probe slot is taken in HalfOpen only, and a probe is a fetch. *)
ProbeInFetch ==
  /\ \A b \in Breakers : state[b] # "half_open" => ~probe[b]
  /\ \A w \in probing : pc[w] = "fetch"

IInv == TypeOK /\ Registered /\ ProbeInFetch /\ HalfOpenHasProbe /\ ClosedBelowThreshold

(* Where there is a worker there is a first breaker. *)
LEMMA FirstBreaker ==
  ASSUME NEW w \in Workers
  PROVE  1 \in Breakers /\ 0 \notin Breakers
<1>1. Cardinality(Workers) \in Nat /\ Cardinality(Workers) # 0
  BY CircuitBreakerAssumption, FS_CardinalityType, FS_EmptySet
<1> QED BY <1>1 DEF Breakers

LEMMA InitIInv == Init => IInv
<1> SUFFICES ASSUME Init PROVE IInv
  OBVIOUS
<1>1. TypeOK
  BY CircuitBreakerAssumption DEF Init, TypeOK, States
<1>2. Registered /\ ProbeInFetch /\ HalfOpenHasProbe /\ ClosedBelowThreshold
  BY CircuitBreakerAssumption
  DEF Init, Registered, ProbeInFetch, HalfOpenHasProbe, ClosedBelowThreshold
<1> QED BY <1>1, <1>2 DEF IInv

(* A worker comes from the registry with breaker 1: the breaker itself is  *)
(* left alone, and so is every fetch.                                      *)
LEMMA RegistryIInv ==
  ASSUME IInv, NEW w \in Workers,
         NewJob(w) \/ Lookup(w) \/ Create(w) \/ Refuse(w)
  PROVE  IInv'
<1>1. 1 \in Breakers
  BY FirstBreaker
<1>2. TypeOK' /\ Registered'
  BY <1>1 DEF IInv, TypeOK, Registered, NewJob, Lookup, Create, Refuse, FoundOrNew,
              Goto, breaker
<1>3. /\ UNCHANGED <<probing, state, failures, elapsed, probe>>
      /\ \A v \in Workers : pc[v] = "fetch" => pc'[v] = "fetch" /\ mine'[v] = mine[v]
  BY DEF IInv, TypeOK, NewJob, Lookup, Create, Refuse, Goto, breaker
<1>4. ProbeInFetch' /\ HalfOpenHasProbe' /\ ClosedBelowThreshold'
  BY <1>3 DEF IInv, TypeOK, ProbeInFetch, HalfOpenHasProbe, ClosedBelowThreshold
<1> QED BY <1>2, <1>4 DEF IInv

LEMMA AllowIInv ==
  ASSUME IInv, NEW w \in Workers, Allow(w)
  PROVE  IInv'
<1>1. 1 \in Breakers /\ mine[w] = 1
  BY FirstBreaker DEF IInv, Registered, Allow
<1>2. TypeOK' /\ Registered'
  BY <1>1 DEF IInv, TypeOK, Registered, Allow, Goto, States
<1>3. ProbeInFetch'
  BY <1>1 DEF IInv, TypeOK, ProbeInFetch, Allow, Goto
<1>4. HalfOpenHasProbe'
  BY <1>1 DEF IInv, TypeOK, HalfOpenHasProbe, Allow, Goto
<1>5. ClosedBelowThreshold'
  BY <1>1 DEF IInv, TypeOK, ClosedBelowThreshold, Allow
<1> QED BY <1>2, <1>3, <1>4, <1>5 DEF IInv

(* A report in HalfOpen ends HalfOpen, whichever fetch it is about, so no  *)
(* breaker stays there without its probe.                                  *)
LEMMA ReportIInv ==
  ASSUME IInv, NEW w \in Workers, Reports(w)
  PROVE  IInv'
<1>1. 1 \in Breakers /\ mine[w] = 1 /\ pc[w] = "fetch"
  BY FirstBreaker DEF IInv, Registered, Reports, RecordSuccess, RecordFailure
<1>2. /\ pc' = [pc EXCEPT ![w] = "idle"] /\ probing' = probing \ {w}
      /\ UNCHANGED <<mine, reg>>
  BY DEF Reports, RecordSuccess, RecordFailure, Goto
<1>3. \A b \in Breakers : b # 1 => /\ state'[b] = state[b] /\ failures'[b] = failures[b]
                                   /\ probe'[b] = probe[b]
  BY <1>1 DEF IInv, TypeOK, Reports, RecordSuccess, RecordFailure
<1>4. /\ state'[1] \in {"closed", "open"} /\ ~probe'[1]
      /\ state'[1] = "closed" => failures'[1] < MaxFailures
  <2>1. CASE RecordSuccess(w)
    BY <2>1, <1>1, CircuitBreakerAssumption
    DEF IInv, TypeOK, States, RecordSuccess, AfterSuccess, ProbeInFetch
  <2>2. CASE RecordFailure(w)
    <3>1. /\ CountsTo(1) \in Nat /\ MaxFailures \in Nat
          /\ FailureOpens(1) <=> \/ state[1] = "closed" /\ CountsTo(1) >= MaxFailures
                                 \/ state[1] = "half_open"
      BY <1>1, CircuitBreakerAssumption DEF IInv, TypeOK, CountsTo, FailureOpens
    <3>2. CASE FailureOpens(1)
      <4>1. state'[1] = "open" /\ ~probe'[1]
        BY <2>2, <3>2, <1>1 DEF IInv, TypeOK, RecordFailure, ProbeInFetch
      <4> QED BY <4>1
    <3>3. CASE ~FailureOpens(1)
      <4>1. UNCHANGED <<state, probe>> /\ failures'[1] = CountsTo(1)
        BY <2>2, <3>3, <1>1 DEF IInv, TypeOK, RecordFailure
      <4> QED BY <4>1, <3>1, <3>3, <1>1 DEF IInv, TypeOK, States, ProbeInFetch
    <3> QED BY <3>2, <3>3
  <2> QED BY <2>1, <2>2 DEF Reports
<1>5. TypeOK'
  <2>1. CASE RecordSuccess(w)
    <3>1. AfterSuccess(1) \in 0..MaxFailures
      BY CircuitBreakerAssumption DEF AfterSuccess
    <3>2. /\ state' \in [Breakers -> States] /\ probe' \in [Breakers -> BOOLEAN]
          /\ UNCHANGED elapsed
      BY <2>1, <1>1 DEF IInv, TypeOK, States, RecordSuccess
    <3>3. failures' \in [Breakers -> 0..MaxFailures]
      BY <2>1, <3>1, <1>1 DEF IInv, TypeOK, RecordSuccess
    <3> QED BY <3>2, <3>3, <1>1, <1>2 DEF IInv, TypeOK
  <2>2. CASE RecordFailure(w)
    <3>1. CountsTo(1) \in 0..MaxFailures
      BY <1>1, CircuitBreakerAssumption DEF IInv, TypeOK, ClosedBelowThreshold, CountsTo
    <3> QED BY <2>2, <3>1, <1>1 DEF IInv, TypeOK, States, RecordFailure, FailureOpens, Goto
  <2> QED BY <2>1, <2>2 DEF Reports
<1>6. Registered' /\ ProbeInFetch'
  BY <1>1, <1>2, <1>3, <1>4 DEF IInv, TypeOK, Registered, ProbeInFetch
<1>7. HalfOpenHasProbe'
  <2>1. \A v \in Workers : mine[v] = 1 \/ mine[v] = 0
    BY DEF IInv, Registered
  <2>2. \A b \in Breakers : state'[b] # "half_open"
    BY <1>1, <1>3, <1>4, <2>1, FirstBreaker DEF IInv, TypeOK, HalfOpenHasProbe
  <2> QED BY <2>2 DEF HalfOpenHasProbe
<1>8. ClosedBelowThreshold'
  BY <1>1, <1>3, <1>4 DEF IInv, ClosedBelowThreshold
<1> QED BY <1>5, <1>6, <1>7, <1>8 DEF IInv

LEMMA ElapseIInv ==
  ASSUME IInv, NEW b \in Breakers, Elapse(b)
  PROVE  IInv'
BY DEF IInv, TypeOK, Registered, ProbeInFetch, HalfOpenHasProbe, ClosedBelowThreshold, Elapse

LEMMA NextIInv == IInv /\ [Next]_vars => IInv'
<1> SUFFICES ASSUME IInv, [Next]_vars PROVE IInv'
  OBVIOUS
<1>1. CASE Next
  BY <1>1, RegistryIInv, AllowIInv, ReportIInv, ElapseIInv DEF Next
<1>2. CASE UNCHANGED vars
  BY <1>2 DEF vars, breaker, IInv, TypeOK, Registered, ProbeInFetch, HalfOpenHasProbe,
              ClosedBelowThreshold
<1> QED BY <1>1, <1>2

(* All workers of a source ask one breaker, in whatever order their first  *)
(* jobs reach the registry.                                                *)
THEOREM SharedBreaker == Spec => []OneBreaker
<1>1. IInv => OneBreaker
  BY DEF IInv, Registered, OneBreaker
<1> QED BY <1>1, InitIInv, NextIInv, PTL DEF Spec

(* A breaker in HalfOpen has a probe under way, whatever late results of   *)
(* earlier fetches reach it: its slot is not leaked.                       *)
THEOREM ProbeNotLeaked == Spec => []HalfOpenHasProbe
<1>1. IInv => HalfOpenHasProbe
  BY DEF IInv
<1> QED BY <1>1, InitIInv, NextIInv, PTL DEF Spec

(* A closed breaker is below its threshold and waits for no probe, so that *)
(* no failure from before its recovery counts against it.                  *)
THEOREM ClosedStartsAnew == Spec => [](TypeOK /\ ClosedBelowThreshold)
<1>1. IInv => TypeOK /\ ClosedBelowThreshold
  BY DEF IInv
<1> QED BY <1>1, InitIInv, NextIInv, PTL DEF Spec

---------------------------------------------------------------------------
(* The steps of main, by number *)

LEMMA BootIs ==
  /\ Len(Boot) = 23
  /\ Boot[1] = LoadConfigs /\ Boot[2] = ConnectRedis /\ Boot[3] = OpenProducer
  /\ Boot[4] = OpenConsumers /\ Boot[5] = OpenDatabase /\ Boot[6] = LoadRules
  /\ Boot[7] = StartScorer /\ Boot[8] = RegisterSources /\ Boot[9] = StartRetry
  /\ Boot[10] = BuildFetchers /\ Boot[11] = BuildLLM /\ Boot[12] = BuildUpgrader
  /\ Boot[13] = OpenParser /\ Boot[14] = StartAgents /\ Boot[15] = StartScheduler
  /\ Boot[16] = OpenValidate /\ Boot[17] = OpenEnrich /\ Boot[18] = BuildStages
  /\ Boot[19] = StartFetcher /\ Boot[20] = StartParser /\ Boot[21] = StartValidate
  /\ Boot[22] = StartEnrich /\ Boot[23] = StartDowngrader
BY DEF Boot

(* What stands where in two lists, one after the other. *)
LEMMA Joined ==
  ASSUME NEW S, NEW s \in Seq(S), NEW t \in Seq(S)
  PROVE  /\ s \o t \in Seq(S) /\ Len(s \o t) = Len(s) + Len(t)
         /\ \A i \in 1..Len(s) : (s \o t)[i] = s[i]
         /\ \A i \in (Len(s) + 1)..(Len(s) + Len(t)) : (s \o t)[i] = t[i - Len(s)]
BY ConcatProperties

LEMMA DownIs ==
  /\ Len(Down) = 23
  /\ Down[1] = Cancel /\ Down[2] = StopScheduler /\ Down[3] = StopDrainer
  /\ Down[4] = StopFetcher /\ Down[5] = StopIntake("parser_intake")
  /\ Down[6] = StopPool("parser") /\ Down[7] = StopGenerator /\ Down[8] = StopRefiner
  /\ Down[9] = StopCleaner /\ Down[10] = StopIntake("validate_intake")
  /\ Down[11] = StopPool("validate") /\ Down[12] = StopIntake("enrich_intake")
  /\ Down[13] = StopPool("enrich") /\ Down[14] = StopDowngrader /\ Down[15] = StopAgents
  /\ Down[16] = CloseEnrich /\ Down[17] = CloseValidate /\ Down[18] = CloseChromedp
  /\ Down[19] = StopRetry /\ Down[20] = StopScorer /\ Down[21] = CloseDatabase
  /\ Down[22] = CloseCrawl /\ Down[23] = CloseRedis
<1> DEFINE S == {Cancel, StopScheduler, StopDrainer, StopFetcher, StopIntake("parser_intake"),
                 StopPool("parser"), StopGenerator, StopRefiner, StopCleaner,
                 StopIntake("validate_intake"), StopPool("validate"),
                 StopIntake("enrich_intake"), StopPool("enrich"), StopDowngrader, StopAgents,
                 CloseEnrich, CloseValidate, CloseChromedp, StopRetry, StopScorer,
                 CloseDatabase, CloseCrawl, CloseRedis}
           s1 == <<Cancel, StopScheduler, StopDrainer, StopFetcher>>
           t1 == <<StopDowngrader, StopAgents>>
           t2 == <<CloseEnrich, CloseValidate, CloseChromedp, StopRetry, StopScorer,
                   CloseDatabase, CloseCrawl, CloseRedis>>
           s2 == s1 \o StopParser
           s3 == s2 \o StopValidate
           s4 == s3 \o StopEnrich
           s5 == s4 \o t1
<1>0. Down = s5 \o t2
  BY DEF Down
<1>1. /\ s1 \in Seq(S) /\ Len(s1) = 4
      /\ s1[1] = Cancel /\ s1[2] = StopScheduler /\ s1[3] = StopDrainer /\ s1[4] = StopFetcher
  OBVIOUS
<1>2. /\ StopParser \in Seq(S) /\ Len(StopParser) = 5
      /\ StopParser[1] = StopIntake("parser_intake") /\ StopParser[2] = StopPool("parser")
      /\ StopParser[3] = StopGenerator /\ StopParser[4] = StopRefiner /\ StopParser[5] = StopCleaner
  BY DEF StopParser
<1>3. /\ StopValidate \in Seq(S) /\ Len(StopValidate) = 2
      /\ StopValidate[1] = StopIntake("validate_intake") /\ StopValidate[2] = StopPool("validate")
  BY DEF StopValidate
<1>4. /\ StopEnrich \in Seq(S) /\ Len(StopEnrich) = 2
      /\ StopEnrich[1] = StopIntake("enrich_intake") /\ StopEnrich[2] = StopPool("enrich")
  BY DEF StopEnrich
<1>5. /\ t1 \in Seq(S) /\ Len(t1) = 2
      /\ t1[1] = StopDowngrader /\ t1[2] = StopAgents
  OBVIOUS
<1>6. /\ t2 \in Seq(S) /\ Len(t2) = 8
      /\ t2[1] = CloseEnrich /\ t2[2] = CloseValidate /\ t2[3] = CloseChromedp
      /\ t2[4] = StopRetry /\ t2[5] = StopScorer /\ t2[6] = CloseDatabase
      /\ t2[7] = CloseCrawl /\ t2[8] = CloseRedis
  OBVIOUS
<1> HIDE DEF S, s1, t1, t2
<1>7. /\ s2 \in Seq(S) /\ Len(s2) = 9
      /\ \A i \in 1..4 : s2[i] = s1[i]
      /\ \A i \in 5..9 : s2[i] = StopParser[i - 4]
  <2>1. /\ s2 \in Seq(S) /\ Len(s2) = Len(s1) + Len(StopParser)
        /\ \A i \in 1..Len(s1) : s2[i] = s1[i]
        /\ \A i \in (Len(s1) + 1)..(Len(s1) + Len(StopParser)) : s2[i] = StopParser[i - Len(s1)]
    BY <1>1, <1>2, Joined
  <2> HIDE DEF s2
  <2> QED BY <1>1, <1>2, <2>1
<1> HIDE DEF s2
<1>8. /\ s3 \in Seq(S) /\ Len(s3) = 11
      /\ \A i \in 1..9 : s3[i] = s2[i]
      /\ \A i \in 10..11 : s3[i] = StopValidate[i - 9]
  <2>1. /\ s3 \in Seq(S) /\ Len(s3) = Len(s2) + Len(StopValidate)
        /\ \A i \in 1..Len(s2) : s3[i] = s2[i]
        /\ \A i \in (Len(s2) + 1)..(Len(s2) + Len(StopValidate)) : s3[i] = StopValidate[i - Len(s2)]
    BY <1>3, <1>7, Joined
  <2> HIDE DEF s3
  <2> QED BY <1>3, <1>7, <2>1
<1> HIDE DEF s3
<1>9. /\ s4 \in Seq(S) /\ Len(s4) = 13
      /\ \A i \in 1..11 : s4[i] = s3[i]
      /\ \A i \in 12..13 : s4[i] = StopEnrich[i - 11]
  <2>1. /\ s4 \in Seq(S) /\ Len(s4) = Len(s3) + Len(StopEnrich)
        /\ \A i \in 1..Len(s3) : s4[i] = s3[i]
        /\ \A i \in (Len(s3) + 1)..(Len(s3) + Len(StopEnrich)) : s4[i] = StopEnrich[i - Len(s3)]
    BY <1>4, <1>8, Joined
  <2> HIDE DEF s4
  <2> QED BY <1>4, <1>8, <2>1
<1> HIDE DEF s4
<1>10. /\ s5 \in Seq(S) /\ Len(s5) = 15
       /\ \A i \in 1..13 : s5[i] = s4[i]
       /\ \A i \in 14..15 : s5[i] = t1[i - 13]
  <2>1. /\ s5 \in Seq(S) /\ Len(s5) = Len(s4) + Len(t1)
        /\ \A i \in 1..Len(s4) : s5[i] = s4[i]
        /\ \A i \in (Len(s4) + 1)..(Len(s4) + Len(t1)) : s5[i] = t1[i - Len(s4)]
    BY <1>5, <1>9, Joined
  <2> HIDE DEF s5
  <2> QED BY <1>5, <1>9, <2>1
<1> HIDE DEF s5
<1>11. /\ Len(Down) = 23
       /\ \A i \in 1..15 : Down[i] = s5[i]
       /\ \A i \in 16..23 : Down[i] = t2[i - 15]
  <2> DEFINE r == s5 \o t2
  <2>1. /\ r \in Seq(S) /\ Len(r) = Len(s5) + Len(t2)
        /\ \A i \in 1..Len(s5) : r[i] = s5[i]
        /\ \A i \in (Len(s5) + 1)..(Len(s5) + Len(t2)) : r[i] = t2[i - Len(s5)]
    BY <1>6, <1>10, Joined
  <2>2. Down = r
    BY <1>0
  <2> HIDE DEF r
  <2> QED BY <1>6, <1>10, <2>1, <2>2
<1>12. /\ Down[1] = s1[1] /\ Down[2] = s1[2] /\ Down[3] = s1[3] /\ Down[4] = s1[4]
       /\ Down[5] = StopParser[1] /\ Down[6] = StopParser[2] /\ Down[7] = StopParser[3]
       /\ Down[8] = StopParser[4] /\ Down[9] = StopParser[5]
  BY <1>7, <1>8, <1>9, <1>10, <1>11
<1>13. /\ Down[10] = StopValidate[1] /\ Down[11] = StopValidate[2]
       /\ Down[12] = StopEnrich[1] /\ Down[13] = StopEnrich[2]
       /\ Down[14] = t1[1] /\ Down[15] = t1[2]
  BY <1>8, <1>9, <1>10, <1>11
<1>14. /\ Down[16] = t2[1] /\ Down[17] = t2[2] /\ Down[18] = t2[3] /\ Down[19] = t2[4]
       /\ Down[20] = t2[5] /\ Down[21] = t2[6] /\ Down[22] = t2[7] /\ Down[23] = t2[8]
  BY <1>11
<1> QED BY <1>1, <1>2, <1>3, <1>4, <1>5, <1>6, <1>11, <1>12, <1>13, <1>14

---------------------------------------------------------------------------
(* When things happen: the step of main after which a goroutine can be     *)
(* there and the one at which main waits for it, the steps that open and   *)
(* that may close what it uses.                                            *)
StartedAt(g) == CASE g = "scorer" -> 7
                  [] g = "retry" -> 9
                  [] g \in {"sched", "drainer"} -> 15
                  [] g = "fetcher" -> 19
                  [] g \in {"validate", "validate_intake"} -> 21
                  [] g \in {"enrich", "enrich_intake"} -> 22
                  [] g = "downgrader" -> 23
                  [] OTHER -> 20
AwaitedAt(g) == CASE g = "sched" -> 2
                  [] g = "drainer" -> 3
                  [] g = "fetcher" -> 4
                  [] g = "parser_intake" -> 5
                  [] g = "parser" -> 6
                  [] g = "llmgen" -> 7
                  [] g = "refiner" -> 8
                  [] g = "cleaner" -> 9
                  [] g = "validate_intake" -> 10
                  [] g = "validate" -> 11
                  [] g = "enrich_intake" -> 12
                  [] g = "enrich" -> 13
                  [] g = "downgrader" -> 14
                  [] g = "retry" -> 19
                  [] OTHER -> 20
OpenedAt(r) == CASE r = "redis" -> 2
                 [] r = "producer" -> 3
                 [] r = "crawl_consumers" -> 4
                 [] r = "db" -> 5
                 [] r = "chromedp_consumer" -> 10
                 [] r = "parser_consumer" -> 13
                 [] r = "agents" -> 14
                 [] r \in {"validate_consumer", "validate_producer"} -> 16
                 [] OTHER -> 17
ClosedAt(r) == CASE r \in {"crawl_consumers", "chromedp_consumer"} -> 4
                 [] r = "parser_consumer" -> 6
                 [] r = "validate_consumer" -> 11
                 [] r = "enrich_consumer" -> 13
                 [] r = "agents" -> 15
                 [] r = "enrich_producer" -> 16
                 [] r = "validate_producer" -> 17
                 [] r = "db" -> 21
                 [] r = "producer" -> 22
                 [] OTHER -> 23

Intakes == {"parser_intake", "validate_intake", "enrich_intake"}
StageConsumers == {"parser_consumer", "validate_consumer", "enrich_consumer"}
Things == {"redis", "producer", "crawl_consumers", "db", "chromedp_consumer", "agents",
           "validate_producer", "enrich_producer"} \cup StageConsumers
Named == Goroutines \ Unawaited

(* What this configuration opens, and main keeps open until ClosedAt: in   *)
(* zset mode a stage's consumer is its intake's.                           *)
Due(r) == CASE r = "redis" -> Has("redis")
            [] r = "agents" -> Has("agents")
            [] r \in StageConsumers -> ~Has("zset")
            [] OTHER -> TRUE

LEMMA Ranges ==
  /\ \A g : StartedAt(g) \in 7..23 /\ AwaitedAt(g) \in 2..20
  /\ \A r : OpenedAt(r) \in 2..17 /\ ClosedAt(r) \in 4..23
  /\ \A g \in Intakes : \A r \in Consumer(g) :
       r \in Things \cap StageConsumers /\ OpenedAt(r) \in 13..17
BY DEF StartedAt, AwaitedAt, OpenedAt, ClosedAt, Intakes, Consumer, Things, StageConsumers

LEMMA NamedAre ==
  Named = Loops \cup Pools \cup {"llmgen"} /\ Intakes \subseteq Named /\ "refresh" \notin Named
BY DEF Named, Goroutines, Loops, Pools, Spawned, Unawaited, Intakes

LEMMA HasIs ==
  /\ Has("redis") <=> "redis" \in on
  /\ Has("zset") <=> {"redis", "zset"} \subseteq on
  /\ Has("buffer") <=> {"redis", "buffer"} \subseteq on
  /\ Has("agents") <=> {"llm", "agents"} \subseteq on
BY DEF Has, Needs

LEMMA WaitsAt ==
  ASSUME NEW i \in 1..23, NEW g \in Named
  PROVE  /\ Down[i].waits \subseteq Goroutines
         /\ g \in Down[i].waits <=> i = AwaitedAt(g)
<1> USE DEF Stop, Named, Goroutines, Loops, Pools, Spawned, Unawaited, AwaitedAt
<1>1. CASE i \in 1..5
  BY <1>1, DownIs DEF Cancel, StopScheduler, StopDrainer, StopFetcher, StopIntake
<1>2. CASE i \in 6..10
  BY <1>2, DownIs DEF StopPool, StopGenerator, StopRefiner, StopCleaner, StopIntake
<1>3. CASE i \in 11..15
  BY <1>3, DownIs DEF StopPool, StopIntake, StopDowngrader, StopAgents
<1>4. CASE i \in 16..20
  BY <1>4, DownIs DEF CloseEnrich, CloseValidate, CloseChromedp, StopRetry, StopScorer
<1>5. CASE i \in 21..23
  BY <1>5, DownIs DEF CloseDatabase, CloseCrawl, CloseRedis
<1> QED BY <1>1, <1>2, <1>3, <1>4, <1>5

LEMMA ClosesAt ==
  ASSUME NEW i \in 1..23, NEW r \in Down[i].closes
  PROVE  ClosedAt(r) <= i /\ (r \in StageConsumers => i >= 16)
<1> USE DEF Stop, StageConsumers, ClosedAt
<1>1. CASE i \in 1..5
  BY <1>1, DownIs DEF Cancel, StopScheduler, StopDrainer, StopFetcher, StopIntake
<1>2. CASE i \in 6..10
  BY <1>2, DownIs DEF StopPool, StopGenerator, StopRefiner, StopCleaner, StopIntake
<1>3. CASE i \in 11..15
  BY <1>3, DownIs DEF StopPool, StopIntake, StopDowngrader, StopAgents
<1>4. CASE i \in 16..20
  BY <1>4, DownIs DEF CloseEnrich, CloseValidate, CloseChromedp, StopRetry, StopScorer
<1>5. CASE i \in 21..23
  BY <1>5, DownIs DEF CloseDatabase, CloseCrawl, CloseRedis
<1> QED BY <1>1, <1>2, <1>3, <1>4, <1>5

LEMMA PoolsClose ==
  ASSUME NEW g \in Pools, NEW r \in Reads(g)
  PROVE  /\ ClosedAt(r) = AwaitedAt(g) /\ g \in Named
         /\ r \in StageConsumers => ~Has("zset")
BY DEF Pools, Reads, Consumer, ClosedAt, AwaitedAt, StageConsumers, Named, Goroutines, Unawaited

LEMMA OpensAt ==
  ASSUME NEW r \in Things, OpenedAt(r) = boot + 1, boot \in 0..22, Due(r) \/ r \in StageConsumers
  PROVE  r \in Boot[boot + 1].opens
<1> USE DEF Step, Things, StageConsumers, OpenedAt, Due
<1>1. CASE r \in {"redis", "producer", "crawl_consumers", "db"}
  BY <1>1, BootIs DEF ConnectRedis, OpenProducer, OpenConsumers, OpenDatabase, If
<1>2. CASE r \in {"chromedp_consumer", "parser_consumer", "agents"}
  BY <1>2, BootIs DEF BuildFetchers, OpenParser, StartAgents, If
<1>3. CASE r \in {"validate_consumer", "validate_producer", "enrich_consumer", "enrich_producer"}
  BY <1>3, BootIs DEF OpenValidate, OpenEnrich
<1> QED BY <1>1, <1>2, <1>3

LEMMA StartsAt ==
  ASSUME NEW i \in 1..23, NEW g \in Boot[i].starts
  PROVE  /\ g \in Loops \cup Pools \cup {"refresh"}
         /\ g # "refresh" => StartedAt(g) = i
         /\ g \in {"retry", "drainer"} => Has("redis")
         /\ g \in Intakes => Has("zset")
<1> USE BootIs DEF Step, StartedAt, If, Loops, Pools, Intakes
<1>1. CASE i \in 1..9
  BY <1>1 DEF LoadConfigs, ConnectRedis, OpenProducer, OpenConsumers, OpenDatabase,
              LoadRules, StartScorer, RegisterSources, StartRetry
<1>2. CASE i \in 10..18
  BY <1>2, HasIs DEF BuildFetchers, BuildLLM, BuildUpgrader, OpenParser, StartAgents,
              StartScheduler, OpenValidate, OpenEnrich, BuildStages
<1>3. CASE i \in 19..23
  BY <1>3 DEF StartFetcher, StartParser, StartValidate, StartEnrich, StartDowngrader
<1> QED BY <1>1, <1>2, <1>3

LEMMA LosesAt ==
  ASSUME NEW i \in 1..23, NEW f \in Boot[i].loses
  PROVE  <<f, i>> \in {<<"redis", 2>>, <<"llm", 11>>, <<"upgrade", 12>>, <<"agents", 14>>}
<1> USE BootIs DEF Step
<1>1. CASE i \in {2, 11, 12, 14}
  BY <1>1 DEF ConnectRedis, BuildLLM, BuildUpgrader, StartAgents
<1>2. CASE i \in {1, 3, 4, 5, 6, 7}
  BY <1>2 DEF LoadConfigs, OpenProducer, OpenConsumers, OpenDatabase, LoadRules, StartScorer
<1>3. CASE i \in {8, 9, 10, 13, 15, 16}
  BY <1>3 DEF RegisterSources, StartRetry, BuildFetchers, OpenParser, StartScheduler, OpenValidate
<1>4. CASE i \in 17..23
  BY <1>4 DEF OpenEnrich, BuildStages, StartFetcher, StartParser, StartValidate, StartEnrich,
              StartDowngrader
<1> QED BY <1>1, <1>2, <1>3, <1>4

---------------------------------------------------------------------------
(* The invariant of StillOpen                                              *)

Bounds ==
  /\ boot \in 0..23 /\ down \in 0..24
  /\ down > 0 => boot = 23

(* What main has not given up is there only between its start and the step *)
(* that waits for it ...                                                   *)
Timely ==
  \A g \in Named : g \in alive \cup AtWork =>
    /\ StartedAt(g) <= boot
    /\ g \in left \/ down <= AwaitedAt(g)

(* ... and only in a process that has what it is for.                      *)
Equipped ==
  \A g \in alive \cup AtWork :
    /\ g \in {"retry", "drainer"} => Has("redis")
    /\ g \in Intakes => Has("zset")

OpenWhenDue ==
  \A r \in Things :
    Due(r) /\ OpenedAt(r) <= boot /\ down <= ClosedAt(r) => r \in opened

(* An intake finds its consumer open, and is the one who closes it.        *)
IntakesRead ==
  \A g \in Intakes : \A r \in Consumer(g) :
    /\ OpenedAt(r) <= boot
    /\ boot < StartedAt(g) \/ (g \in alive \cup AtWork /\ g \notin left)
    => r \in opened

ProcessIInv == ProcessTypeOK /\ Bounds /\ Timely /\ Equipped /\ OpenWhenDue /\ IntakesRead

LEMMA InitProcessIInv == ProcessInit => ProcessIInv
<1> SUFFICES ASSUME ProcessInit PROVE ProcessIInv
  OBVIOUS
<1>1. on \subseteq UNION Setups /\ alive \cup AtWork = {}
  BY DEF ProcessInit, Init, AtWork
<1>2. ProcessTypeOK
  BY <1>1, Zenon DEF ProcessInit, ProcessTypeOK
<1>b. Bounds
  BY DEF ProcessInit, Bounds
<1>3. Timely /\ Equipped
  BY <1>1 DEF Timely, Equipped
<1>4. \A r : OpenedAt(r) > 0
  BY DEF OpenedAt
<1>5. OpenWhenDue /\ IntakesRead
  BY <1>4 DEF ProcessInit, OpenWhenDue, IntakesRead, OpenedAt
<1> QED BY <1>2, <1>b, <1>3, <1>5 DEF ProcessIInv

LEMMA GoneProcessIInv ==
  ASSUME Gone
  PROVE  ProcessIInv'
<1>1. on' \subseteq UNION Setups /\ (alive \cup AtWork)' = {}
  BY DEF Gone, AtWork
<1>2. ProcessTypeOK'
  BY <1>1, Zenon DEF Gone, ProcessTypeOK
<1>b. Bounds'
  BY DEF Gone, Bounds
<1>3. Timely' /\ Equipped'
  BY <1>1 DEF Timely, Equipped
<1>5. OpenWhenDue' /\ IntakesRead'
  BY DEF Gone, OpenWhenDue, IntakesRead, OpenedAt
<1> QED BY <1>2, <1>b, <1>3, <1>5 DEF ProcessIInv

(* Steps of the goroutines. *)
LEMMA OnStays ==
  ASSUME on' = on
  PROVE  /\ \A f : Has(f)' <=> Has(f)
         /\ \A r : Due(r)' <=> Due(r)
         /\ \A g : Reads(g)' = Reads(g)
BY DEF Has, Due, Reads

LEMMA GoroutineProcessIInv ==
  ASSUME ProcessIInv, on' = on, boot' = boot, down' = down, left' = left,
         NEW g \in Goroutines,
         (alive \cup AtWork)' \subseteq alive \cup AtWork \cup {g},
         alive' \subseteq alive, work' \subseteq Goroutines, expired' \in BOOLEAN,
         g \in (alive \cup AtWork)' \ (alive \cup AtWork) => Bounds /\
           (g \in Named => g \notin Intakes \cup {"retry", "drainer"}
                           /\ StartedAt(g) <= boot /\ down <= AwaitedAt(g)),
         \A r \in opened \ opened' : \E h \in Intakes :
           r \in Consumer(h) /\ Has("zset") /\ h \notin (alive \cup AtWork)' /\ StartedAt(h) <= boot
  PROVE  ProcessIInv'
<1>1. ProcessTypeOK' /\ Bounds'
  BY DEF ProcessIInv, ProcessTypeOK, Bounds
<1>2. Timely'
  BY DEF ProcessIInv, Timely
<1>3. Equipped'
  BY OnStays DEF ProcessIInv, Equipped, Named, Goroutines, Unawaited, Loops, Intakes
<1>4. OpenWhenDue'
  <2>1. ASSUME NEW r \in opened \ opened'
        PROVE  ~Due(r)
    BY <2>1 DEF Intakes, Consumer, Due, StageConsumers
  <2> QED BY <2>1, OnStays DEF ProcessIInv, OpenWhenDue
<1>5. IntakesRead'
  <2>1. \A h, i \in Intakes : \A r \in Consumer(h) : r \in Consumer(i) => h = i
    BY DEF Intakes, Consumer
  <2>2. ASSUME NEW h \in Intakes, h \in (alive \cup AtWork)'
        PROVE  h \in alive \cup AtWork
    BY <2>2 DEF Intakes, Named, Goroutines, Unawaited, Loops
  <2> SUFFICES ASSUME NEW h \in Intakes, NEW r \in Consumer(h), OpenedAt(r) <= boot,
                      boot < StartedAt(h) \/ (h \in (alive \cup AtWork)' /\ h \notin left)
               PROVE  r \in opened'
    BY DEF IntakesRead
  <2>3. r \in opened
    BY <2>2 DEF ProcessIInv, IntakesRead
  <2>4. boot \in Nat /\ StartedAt(h) \in Nat
    BY Ranges DEF ProcessIInv, Bounds
  <2> QED BY <2>1, <2>3, <2>4
<1> QED BY <1>1, <1>2, <1>3, <1>4, <1>5 DEF ProcessIInv

LEMMA BeginProcessIInv ==
  ASSUME ProcessIInv, NEW g \in Goroutines, Begin(g)
  PROVE  ProcessIInv'
<1>1. AtWork' = AtWork \cup {g} /\ work' \subseteq Goroutines
  BY DEF Begin, AtWork, vars, ProcessIInv, ProcessTypeOK
<1>2. CASE g \in alive
  BY <1>1, <1>2, GoroutineProcessIInv DEF Begin, ProcessIInv, ProcessTypeOK
<1>3. CASE g = "llmgen" /\ "parser" \in work /\ ~Told(g)
  <2>1. StartedAt("parser") <= boot
    BY <1>3 DEF ProcessIInv, Timely, AtWork, Named, Goroutines, Pools, Unawaited
  <2>2. StepOf[g] = 7
    <3>1. Len(Down) = 23 /\ g \in Named /\ AwaitedAt(g) = 7
      BY <1>3, DownIs DEF Named, Goroutines, Spawned, Unawaited, AwaitedAt
    <3>2. \A i \in 1..23 : g \in Down[i].waits <=> i = 7
      BY <3>1, WaitsAt
    <3>3. g \in Pools \cup (Spawned \ Unawaited)
      BY <1>3 DEF Spawned, Unawaited
    <3> QED BY <3>1, <3>2, <3>3 DEF StepOf
  <2>3. StartedAt(g) <= boot /\ down <= AwaitedAt(g)
    BY <1>3, <2>1, <2>2 DEF Told, StartedAt, AwaitedAt, ProcessIInv, Bounds
  <2>4. g \notin Intakes \cup {"retry", "drainer"}
    BY <1>3 DEF Intakes
  <2> QED BY <1>1, <2>3, <2>4, GoroutineProcessIInv DEF Begin, ProcessIInv, ProcessTypeOK
<1>4. CASE g = "upgrade"
  <2>1. g \notin Named
    BY <1>4 DEF Named, Unawaited
  <2> QED BY <1>1, <2>1, GoroutineProcessIInv DEF Begin, ProcessIInv, ProcessTypeOK
<1> QED BY <1>2, <1>3, <1>4 DEF Begin

LEMMA EndProcessIInv ==
  ASSUME ProcessIInv, NEW g \in Goroutines, End(g)
  PROVE  ProcessIInv'
<1>1. AtWork' \subseteq AtWork /\ work' \subseteq Goroutines
  BY DEF End, AtWork, vars, ProcessIInv, ProcessTypeOK
<1> QED BY <1>1, GoroutineProcessIInv DEF End, ProcessIInv, ProcessTypeOK

LEMMA QuitProcessIInv ==
  ASSUME ProcessIInv, NEW g \in Goroutines, Quit(g)
  PROVE  ProcessIInv'
<1>1. AtWork' = AtWork /\ work' \subseteq Goroutines /\ g \notin (alive \cup AtWork)'
  BY DEF Quit, AtWork, vars, ProcessIInv, ProcessTypeOK
<1>2. ASSUME NEW r \in opened \ opened'
      PROVE  g \in Intakes /\ r \in Consumer(g)
  <2>1. g \in Loops /\ r \in Reads(g)
    BY <1>2 DEF Quit
  <2> QED BY <2>1 DEF Loops, Reads, Consumer, Intakes
<1>3. g \in Intakes => Has("zset") /\ StartedAt(g) <= boot
  BY DEF Quit, ProcessIInv, Equipped, Timely, Intakes, Named, Goroutines, Loops, Unawaited
<1>4. alive' \subseteq alive /\ on' = on /\ boot' = boot /\ down' = down /\ left' = left
      /\ expired' \in BOOLEAN
  BY DEF Quit, ProcessIInv, ProcessTypeOK
<1> QED BY <1>1, <1>2, <1>3, <1>4, GoroutineProcessIInv

LEMMA FetchProcessIInv ==
  ASSUME ProcessIInv, UNCHANGED main, AtWork' \subseteq AtWork \cup ({"fetcher"} \cap alive)
  PROVE  ProcessIInv'
<1>1. "fetcher" \in Goroutines
  BY DEF Goroutines, Pools
<1> QED BY <1>1, GoroutineProcessIInv DEF main, ProcessIInv, ProcessTypeOK

---------------------------------------------------------------------------
(* Steps of main *)
LEMMA BootProcessIInv ==
  ASSUME ProcessIInv, StartUp \/ Degrade
  PROVE  ProcessIInv'
<1> DEFINE i == boot + 1
<1>1. /\ i \in 1..23 /\ boot' = i /\ down = 0 /\ down' = 0 /\ boot \in 0..22
      /\ work' = work /\ left' = left /\ AtWork' = AtWork /\ on' \subseteq on
      /\ opened \subseteq opened' /\ expired' = expired /\ alive \subseteq alive'
  BY BootIs DEF StartUp, Degrade, ProcessIInv, Bounds, AtWork, vars
<1>2. ASSUME NEW g \in alive' \ alive
      PROVE  /\ g \in Loops \cup Pools \cup {"refresh"}
             /\ g # "refresh" => StartedAt(g) = i
             /\ on' = on
             /\ g \in {"retry", "drainer"} => Has("redis")
             /\ g \in Intakes => Has("zset")
  <2>1. g \in Boot[i].starts /\ on' = on
    BY <1>2 DEF StartUp, Degrade
  <2> QED BY <1>1, <2>1, StartsAt
<1>3. \A f \in on \ on' :
        <<f, i>> \in {<<"redis", 2>>, <<"llm", 11>>, <<"upgrade", 12>>, <<"agents", 14>>}
  <2>1. \A f \in on \ on' : f \in Boot[i].loses
    BY DEF StartUp, Degrade
  <2> QED BY <1>1, <2>1, LosesAt
<1>4. i > 2 => (Has("redis") => Has("redis")') /\ (Has("zset") => Has("zset")')
  BY <1>3 DEF Has, Needs
<1>5. ASSUME NEW r \in Things, OpenedAt(r) = i, Due(r)' \/ r \in StageConsumers
      PROVE  r \in opened'
  <2>1. CASE on' = on
    <3>1. StartUp
      BY <1>1, <2>1 DEF Degrade
    <3>2. r \in Boot[i].opens
      BY <1>1, <1>5, <2>1, OnStays, OpensAt
    <3> QED BY <3>1, <3>2 DEF StartUp
  <2>2. CASE on' # on
    <3>1. \/ i = 2 /\ "redis" \notin on'
          \/ i \in {11, 12}
          \/ i = 14 /\ "agents" \notin on'
      <4>1. PICK f \in Boot[i].loses : f \in on /\ f \notin on'
        BY <2>2 DEF StartUp, Degrade
      <4> QED BY <1>3, <4>1
    <3>2. (i = 2 => r = "redis") /\ (i = 14 => r = "agents") /\ i \notin {11, 12}
      BY <1>5, <3>1 DEF Things, OpenedAt, StageConsumers
    <3> QED BY <1>5, <3>1, <3>2 DEF Due, Has, StageConsumers
  <2> QED BY <2>1, <2>2
<1>6. ProcessTypeOK' /\ Bounds'
  <2>1. ProcessTypeOK'
    BY <1>1, <1>2 DEF ProcessIInv, ProcessTypeOK
  <2>2. Bounds'
    BY <1>1 DEF Bounds
  <2> QED BY <2>1, <2>2
<1>7. Timely'
  <2> SUFFICES ASSUME NEW g \in Named, g \in (alive \cup AtWork)'
               PROVE  StartedAt(g) <= i /\ (g \in left \/ 0 <= AwaitedAt(g))
    BY <1>1 DEF Timely
  <2>1. CASE g \in alive \cup AtWork
    BY <1>1, <2>1, Ranges DEF ProcessIInv, Timely
  <2>2. CASE g \in alive' \ alive
    BY <1>1, <1>2, <2>2, Ranges, NamedAre
  <2> QED BY <1>1, <2>1, <2>2
<1>8. Equipped'
  <2> SUFFICES ASSUME NEW g \in (alive \cup AtWork)'
               PROVE  /\ g \in {"retry", "drainer"} => Has("redis")'
                      /\ g \in Intakes => Has("zset")'
    BY DEF Equipped
  <2>1. CASE g \in alive \cup AtWork
    <3>1. g \in Intakes \cup {"retry", "drainer"} => i > 2
      BY <1>1, <2>1, NamedAre, Ranges DEF ProcessIInv, Timely, Loops
    <3> QED BY <1>4, <2>1, <3>1 DEF ProcessIInv, Equipped
  <2>2. CASE g \in alive' \ alive
    BY <1>2, <2>2, OnStays
  <2> QED BY <1>1, <2>1, <2>2
<1>9. OpenWhenDue'
  <2> SUFFICES ASSUME NEW r \in Things, Due(r)', OpenedAt(r) <= i
               PROVE  r \in opened'
    BY <1>1 DEF OpenWhenDue
  <2>1. CASE OpenedAt(r) # i
    <3>1. OpenedAt(r) <= boot /\ 0 <= ClosedAt(r)
      BY <1>1, <2>1, Ranges
    <3>2. r \in StageConsumers => i > 2
      BY <1>1, <3>1 DEF StageConsumers, OpenedAt
    <3>3. Due(r)
      BY <1>1, <1>4, <3>2 DEF Due, Has
    <3> QED BY <1>1, <3>1, <3>3 DEF ProcessIInv, OpenWhenDue
  <2> QED BY <1>5, <2>1
<1>10. IntakesRead'
  <2> SUFFICES ASSUME NEW g \in Intakes, NEW r \in Consumer(g), OpenedAt(r) <= i,
                      i < StartedAt(g) \/ (g \in (alive \cup AtWork)' /\ g \notin left)
               PROVE  r \in opened'
    BY <1>1 DEF IntakesRead
  <2>1. CASE OpenedAt(r) # i
    <3>1. OpenedAt(r) <= boot
      BY <1>1, <2>1, Ranges
    <3>2. boot < StartedAt(g) \/ (g \in alive \cup AtWork /\ g \notin left)
      BY <1>1, <1>2, Ranges, NamedAre
    <3> QED BY <1>1, <3>1, <3>2 DEF ProcessIInv, IntakesRead
  <2>2. CASE OpenedAt(r) = i
    BY <1>5, <2>2, Ranges
  <2> QED BY <2>1, <2>2
<1> QED BY <1>6, <1>7, <1>8, <1>9, <1>10 DEF ProcessIInv

LEMMA SignalProcessIInv ==
  ASSUME ProcessIInv, Signal
  PROVE  ProcessIInv'
<1>1. /\ boot = 23 /\ down = 0 /\ down' = 1 /\ AtWork' = AtWork
      /\ UNCHANGED <<on, boot, opened, alive, work, expired, left>>
  BY BootIs DEF Signal, AtWork, vars
<1>2. ProcessTypeOK' /\ Bounds' /\ Equipped'
  BY <1>1, OnStays DEF ProcessIInv, ProcessTypeOK, Bounds, Equipped
<1>3. Timely'
  BY <1>1, Ranges DEF ProcessIInv, Timely
<1>4. OpenWhenDue' /\ IntakesRead'
  BY <1>1, OnStays, Ranges DEF ProcessIInv, OpenWhenDue, IntakesRead
<1> QED BY <1>2, <1>3, <1>4 DEF ProcessIInv

(* What a step of the shutdown closes, no one needs any more. *)
LEMMA CloseProcessIInv ==
  ASSUME ProcessIInv, Advance \/ GiveUp
  PROVE  ProcessIInv'
<1> DEFINE i == down
<1>1. /\ i \in 1..23 /\ down' = i + 1 /\ boot = 23 /\ AtWork' = AtWork
      /\ UNCHANGED <<on, boot, alive, work, expired>> /\ left \subseteq left'
      /\ opened' = opened \ (Down[i].closes
                               \cup UNION {Reads(g) : g \in Down[i].waits \cap Pools})
  BY DownIs DEF Advance, GiveUp, Close, ProcessIInv, Bounds, AtWork, vars
<1>2. Awaited \subseteq left' /\ left' \subseteq left \cup Awaited
  BY DEF Advance, GiveUp
<1>3. Awaited = Down[i].waits \cap (alive \cup AtWork)
  BY <1>1, DownIs DEF Awaited
<1>4. ASSUME NEW r \in opened \ opened'
      PROVE  ClosedAt(r) <= i /\ (r \in StageConsumers => ~Has("zset") \/ i >= 16)
  <2>1. CASE r \in Down[i].closes
    BY <1>1, <2>1, ClosesAt
  <2>2. CASE r \in UNION {Reads(g) : g \in Down[i].waits \cap Pools}
    <3>1. PICK g \in Down[i].waits \cap Pools : r \in Reads(g)
      BY <2>2
    <3>2. i = AwaitedAt(g)
      BY <1>1, <3>1, PoolsClose, WaitsAt
    <3> QED BY <1>1, <3>1, <3>2, PoolsClose
  <2> QED BY <1>1, <1>4, <2>1, <2>2
<1>5. ProcessTypeOK' /\ Bounds'
  <2>1. left' \subseteq Goroutines
    <3>1. "fetcher" \in Named
      BY NamedAre DEF Pools
    <3>2. Awaited \subseteq Goroutines
      BY <1>1, <1>3, <3>1, WaitsAt
    <3> QED BY <1>2, <3>2 DEF ProcessIInv, ProcessTypeOK
  <2> QED BY <1>1, <2>1 DEF ProcessIInv, ProcessTypeOK, Bounds
<1>6. Timely'
  <2> SUFFICES ASSUME NEW g \in Named, g \in alive \cup AtWork, g \notin left'
               PROVE  i + 1 <= AwaitedAt(g)
    BY <1>1 DEF ProcessIInv, Timely
  <2>1. i <= AwaitedAt(g)
    BY <1>2, <1>1 DEF ProcessIInv, Timely
  <2>2. i # AwaitedAt(g)
    BY <1>1, <1>2, <1>3, WaitsAt
  <2> QED BY <1>1, <2>1, <2>2, Ranges
<1>7. Equipped'
  BY <1>1, OnStays DEF ProcessIInv, Equipped
<1>8. OpenWhenDue'
  BY <1>1, <1>4, OnStays, Ranges DEF ProcessIInv, OpenWhenDue
<1>9. IntakesRead'
  <2> SUFFICES ASSUME NEW g \in Intakes, NEW r \in Consumer(g), OpenedAt(r) <= boot,
                      g \in alive \cup AtWork /\ g \notin left'
               PROVE  r \in opened'
    BY <1>1, Ranges DEF IntakesRead
  <2>1. r \in opened
    BY <1>1 DEF ProcessIInv, IntakesRead
  <2>2. i < 16
    BY <1>1, NamedAre DEF ProcessIInv, Timely, Intakes, AwaitedAt
  <2> QED BY <1>1, <1>4, <2>1, <2>2, Ranges DEF ProcessIInv, Equipped
<1> QED BY <1>5, <1>6, <1>7, <1>8, <1>9 DEF ProcessIInv

LEMMA NextProcessIInv == ProcessIInv /\ [ProcessNext]_all => ProcessIInv'
<1> SUFFICES ASSUME ProcessIInv, [ProcessNext]_all PROVE ProcessIInv'
  OBVIOUS
<1>1. CASE StartUp \/ Degrade
  BY <1>1, BootProcessIInv
<1>2. CASE Die \/ Exit
  BY <1>2, GoneProcessIInv DEF Die, Exit
<1>3. CASE Signal
  BY <1>3, SignalProcessIInv
<1>4. CASE Advance \/ GiveUp
  BY <1>4, CloseProcessIInv
<1>5. ASSUME NEW g \in Goroutines, Begin(g) \/ End(g) \/ Quit(g)
      PROVE  ProcessIInv'
  BY <1>5, BeginProcessIInv, EndProcessIInv, QuitProcessIInv
<1>6. ASSUME NEW w \in Workers, FetchWorker(w)
      PROVE  ProcessIInv'
  <2>1. UNCHANGED main /\ "fetcher" \in alive
    BY <1>6 DEF FetchWorker
  <2>2. AtWork' \subseteq AtWork \cup {"fetcher"}
    BY <2>1 DEF AtWork, main
  <2> QED BY <2>1, <2>2, FetchProcessIInv
<1>7. CASE Deadline \/ (\E b \in Breakers : Clock(b)) \/ UNCHANGED all
  <2>1. AtWork' = AtWork /\ UNCHANGED <<on, boot, down, opened, alive, work, left>>
    BY <1>7 DEF Deadline, Clock, Elapse, all, main, vars, AtWork
  <2>2. expired' \in BOOLEAN
    BY <1>7 DEF Deadline, Clock, all, main, ProcessIInv, ProcessTypeOK
  <2>3. "fetcher" \in Goroutines
    BY DEF Goroutines, Pools
  <2> QED BY <2>1, <2>2, <2>3, GoroutineProcessIInv DEF ProcessIInv, ProcessTypeOK
<1> QED BY <1>1, <1>2, <1>3, <1>4, <1>5, <1>6, <1>7 DEF ProcessNext

(* Everything at work finds open what it uses. *)
LEMMA ProcessIInvStillOpen == ProcessIInv => StillOpen
<1> SUFFICES ASSUME ProcessIInv, NEW g \in AtWork \ (left \cup Unawaited), NEW r \in Uses(g)
             PROVE  r \in opened
  BY DEF StillOpen
<1>1. /\ g \in Named /\ StartedAt(g) <= boot /\ down <= AwaitedAt(g)
      /\ g \in {"retry", "drainer"} => Has("redis")
      /\ g \in Intakes => Has("zset")
  <2>1. g \in Named
    BY DEF ProcessIInv, ProcessTypeOK, AtWork, Named, Goroutines, Pools
  <2> QED BY <2>1 DEF ProcessIInv, Timely, Equipped
<1>2. CASE g \in Intakes /\ r \in Consumer(g)
  <2>1. OpenedAt(r) <= StartedAt(g)
    BY <1>2, Ranges DEF Intakes, StartedAt
  <2> QED BY <1>1, <1>2, <2>1, Ranges DEF ProcessIInv, IntakesRead, Bounds
<1>3. CASE g \notin Intakes \/ r \notin Consumer(g)
  <2>1. r \in Things /\ Due(r) /\ OpenedAt(r) <= StartedAt(g) /\ AwaitedAt(g) <= ClosedAt(r)
    <3> USE <1>1, <1>3 DEF Uses, If, Reads, Consumer, Things, StageConsumers, Due, Has, Needs,
                           OpenedAt, StartedAt, AwaitedAt, ClosedAt, Intakes
    <3>1. CASE g \in {"scorer", "cleaner", "refiner", "downgrader"}
      BY <3>1
    <3>2. CASE g \in {"retry", "drainer"}
      BY <3>2
    <3>3. CASE g = "sched"
      BY <3>3
    <3>4. CASE g = "llmgen"
      BY <3>4
    <3>5. CASE g = "fetcher"
      BY <3>5 DEF Pools
    <3>6. CASE g = "parser"
      BY <3>6 DEF Pools
    <3>7. CASE g = "validate"
      BY <3>7 DEF Pools
    <3>8. CASE g = "enrich"
      BY <3>8 DEF Pools
    <3>9. CASE g \in Intakes
      BY <3>9 DEF Pools
    <3> QED BY <3>1, <3>2, <3>3, <3>4, <3>5, <3>6, <3>7, <3>8, <3>9, NamedAre DEF Loops, Pools
  <2> QED BY <1>1, <2>1, Ranges DEF ProcessIInv, OpenWhenDue, Bounds
<1> QED BY <1>2, <1>3

(* Every step of the process leaves the breaker alone, is a step of its    *)
(* source, or ends both.                                                   *)
LEMMA BreakerStep == [ProcessNext]_all => [Next]_vars \/ Gone
<1> SUFFICES ASSUME [ProcessNext]_all PROVE [Next]_vars \/ Gone
  OBVIOUS
<1>1. CASE StartUp \/ Degrade \/ Signal \/ Advance \/ GiveUp \/ Deadline
  BY <1>1 DEF StartUp, Degrade, Signal, Advance, GiveUp, Close, Deadline
<1>2. CASE Die \/ Exit
  BY <1>2 DEF Die, Exit
<1>3. CASE \E g \in Goroutines : Begin(g) \/ End(g) \/ Quit(g)
  BY <1>3 DEF Begin, End, Quit
<1>4. CASE \E w \in Workers : FetchWorker(w)
  BY <1>4 DEF FetchWorker, Next
<1>5. CASE \E b \in Breakers : Clock(b)
  BY <1>5 DEF Clock, Next
<1> QED BY <1>1, <1>2, <1>3, <1>4, <1>5 DEF ProcessNext, all

LEMMA ProcessIInvHolds == ProcessSpec => []ProcessIInv
BY InitProcessIInv, NextProcessIInv, PTL DEF ProcessSpec

(* The features, goroutines and waits of the process are those main has.   *)
THEOREM ProcessTypes == ProcessSpec => []ProcessTypeOK
<1>1. ProcessIInv => ProcessTypeOK
  BY DEF ProcessIInv
<1> QED BY <1>1, ProcessIInvHolds, PTL

(* From the first step of main to the last deferred close, whatever is at  *)
(* work has what it uses open, unless main has given it up at the timeout  *)
(* or never waits for it, in any configuration.                            *)
THEOREM NothingClosedInUse == ProcessSpec => []StillOpen
BY ProcessIInvHolds, ProcessIInvStillOpen, PTL

(* The breaker of a source that a process makes anew at every start closes *)
(* below its threshold, however its fetches and the signal interleave.     *)
THEOREM ClosedStartsAnewInProcess == ProcessSpec => []ClosedBelowThreshold
<1>1. ProcessInit => IInv
  BY InitIInv DEF ProcessInit
<1>2. Gone => IInv'
  <2>1. Gone => TypeOK'
    BY CircuitBreakerAssumption DEF Gone, TypeOK, States
  <2>2. Gone => (Registered /\ ProbeInFetch /\ HalfOpenHasProbe /\ ClosedBelowThreshold)'
    BY CircuitBreakerAssumption
    DEF Gone, Registered, ProbeInFetch, HalfOpenHasProbe, ClosedBelowThreshold
  <2> QED BY <2>1, <2>2 DEF IInv
<1>3. IInv /\ [ProcessNext]_all => IInv'
  BY <1>2, BreakerStep, NextIInv
<1>4. IInv => ClosedBelowThreshold
  BY DEF IInv
<1> QED BY <1>1, <1>3, <1>4, PTL DEF ProcessSpec
=============================================================================
